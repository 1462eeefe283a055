CONSTANTS
  QueueDepth = 1
  ReadyValues = {0, 2}
  Requests = {"pause", "normal", "emergencyCase", "docking", "stop"}
SPECIFICATION Spec
INVARIANTS TypeOK NeverWaitsForIo EmergencyLatency
CHECK_DEADLOCK FALSE
