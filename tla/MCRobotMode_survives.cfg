CONSTANTS
  QueueDepth = 1
  ReadyValues = {0, 2}
  Requests = {"pause", "normal", "emergencyCase", "docking", "stop"}
SPECIFICATION Spec
INVARIANT ModeNodeSurvives
CHECK_DEADLOCK FALSE
