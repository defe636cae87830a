SPECIFICATION Spec
CONSTANT Points = {p1, p2}
PROPERTY StopVRExits
CHECK_DEADLOCK FALSE
