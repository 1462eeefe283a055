CONSTANTS
  QueueDepth = 1
  ReadyValues = {0}
  Requests = {"pause"}
SPECIFICATION FairSpec
PROPERTIES EmergencyShown RecoversAfterEmergency
CHECK_DEADLOCK FALSE
