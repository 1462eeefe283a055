CONSTANTS
  Goals = {g1, g2}
  Modes = {1, 2, 5}
SPECIFICATION FairSpec
INVARIANTS TypeOK StopsWithLastGoal ModeLatency
PROPERTIES HeldWhilePaused GoalsEnd
