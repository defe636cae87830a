SPECIFICATION Spec
CONSTANT Points = {p1, p2}
INVARIANTS
  TypeOK
  ThreadPointerIsLive
  NoTimerWithoutDialog
  ChangesEndBeforeQuestion
PROPERTIES
  StopLeavesNoThread
  StopInVREnds
  DialogIsTold
CHECK_DEADLOCK FALSE
