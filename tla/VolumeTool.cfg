SPECIFICATION ToolSpec
CONSTANTS
  Positions = {p1, p2}
  NoPick = NoPick
  NULL = NULL
  MaxNumberOfNodes = 99
  CloseLoopOnFirstNode = TRUE
  NodeBound = 3
  Heights = {h1, h2}
  InitialHeight = h1
  MaxVolumes = 3
  MaxCalibrations = 1
INVARIANTS
  PolygonIsLoop
  NumbersNameVolumes
  VolumesTellUnit
CHECK_DEADLOCK TRUE
