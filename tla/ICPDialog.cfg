SPECIFICATION Spec
CONSTANTS
  Params = {p0, p1}
  Matching = {p1}
  Default = p0
  NULL = NULL
  Identity = Identity
  MaxIterations = 2
  MaxRuns = 2
INVARIANTS
  NoThreadWithoutDialog
  StoppedMeansResult
  AppliesLastResult
PROPERTIES
  RunEnds
CHECK_DEADLOCK FALSE
