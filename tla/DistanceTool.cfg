SPECIFICATION ToolSpec
CONSTANTS
  Positions = {p1, p2, p3}
  NoPick = NoPick
  NULL = NULL
  MaxNumberOfNodes = 2
  CloseLoopOnFirstNode = FALSE
  NodeBound = 2
  RealMeasures = {0, 1, 2}
INVARIANTS
  CaptionMeasuresLine
PROPERTIES
  CalibratesPlacedLine
CHECK_DEADLOCK TRUE
