SPECIFICATION Spec
CONSTANTS
  Positions = {p1, p2, p3}
  NoPick = NoPick
  NULL = NULL
  MaxNumberOfNodes = 6
  CloseLoopOnFirstNode = TRUE
  NodeBound = 5
INVARIANTS
  PointsFollowNodes
  CompleteWhenFinished
  ClosedLoopIsPolygon
  DragHasNode
PROPERTIES
  EndsPartOnlyOnRelease
  EndMeansComplete
  ImplementsEditor
CHECK_DEADLOCK TRUE
