CONSTANTS
  right = right
  left = left
  Drives <- MCDrives
  Modes = {1, 2}
SPECIFICATION FairSpec
INVARIANTS TypeOK RestsAfterEmergency ModeLatency
PROPERTIES OnlyWithPermission EmergencyStops DrivesAgain
