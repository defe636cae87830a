SPECIFICATION Spec
CONSTANTS
  Images = {i1, i2}
  Outputs = {o1}
  NULL = NULL
  MaxQueue = 2
SYMMETRY ImageSymmetry
INVARIANTS
  SuccessShowsImages
  LevelFits
  MeasuresOwnImages
  SuccessEndsDialog
CHECK_DEADLOCK TRUE
