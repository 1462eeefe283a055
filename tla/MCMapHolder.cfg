CONSTANTS
  Alignment = 2
  MoreCellCntToExtend = 1
  CellValues <- MCCellValues
  KnownRects <- MCKnownRects
  Updates <- MCUpdates
  Cells <- MCCells
SPECIFICATION Spec
INVARIANTS TypeOK Storage NextPieceFits
PROPERTY RefinesPicture
