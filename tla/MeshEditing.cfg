SPECIFICATION Spec
CONSTANTS
  Meshes = {m1, m2}
  Clouds = {m2}
  Source = m1
  Target = m2
  Elements = {e1, e2, e3}
  NULL = NULL
  MaxVertices = 5
  MaxChanges = 2
INVARIANTS
  TypeOK
  CachesAreCurrent
  HeldDataIsCurrent
  MatchesPairs
PROPERTIES
  DeletesWhatIsShown
CHECK_DEADLOCK TRUE
