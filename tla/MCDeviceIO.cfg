CONSTANT QueueDepth = 1
SPECIFICATION SysFairSpec
INVARIANTS TypeOK RelaysFollowInputs NoRestartUnasked
PROPERTIES EmergencyOpensRelays RefinesIoPort LostNodeIsFault
