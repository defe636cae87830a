SPECIFICATION MCSpec
CONSTANTS
  Meshes = {m1, m2}
  Cameras = {c1, c2}
  StackBound = 6
INVARIANTS
  TypeOK
  OneToolAtATime
  ToolsHoldLiveMeshes
  ToolbarShowsTools
  MenuShowsTools
  VisibleAsTicked
  EndsUnlessRunsAway
  DisablesAllButOne
CHECK_DEADLOCK FALSE
