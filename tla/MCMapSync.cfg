CONSTANTS
  NumTiles = 3
  MaxGen = 2
  Resolutions = {r1, r2}
  NoTile = NoTile
SPECIFICATION FairSpec
INVARIANTS TypeOK ResolutionUniform LoopClosureNotForgotten
PROPERTIES SyncDeliversWholeArea RequestAnswered LoopClosureReachesMap
CHECK_DEADLOCK FALSE
