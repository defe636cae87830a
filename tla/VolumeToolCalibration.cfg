SPECIFICATION ToolSpec
CONSTANTS
  Positions = {p1}
  NoPick = NoPick
  NULL = NULL
  MaxNumberOfNodes = 99
  CloseLoopOnFirstNode = TRUE
  NodeBound = 3
  Heights = {h1}
  InitialHeight = h1
  MaxVolumes = 2
  MaxCalibrations = 1
INVARIANT MeasuresUseCalibration
CHECK_DEADLOCK TRUE
