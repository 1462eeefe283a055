CONSTANTS
  NumTiles = 2
  MaxGen = 2
  Resolutions = {r1, r2}
  NoTile = NoTile
SPECIFICATION Spec
INVARIANT RequestsHonoured
CHECK_DEADLOCK FALSE
