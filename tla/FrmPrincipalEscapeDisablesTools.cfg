SPECIFICATION Spec
CONSTANTS
  Meshes = {m1, m2}
  Cameras = {c1, c2}
PROPERTIES EscapeDisablesTools
CHECK_DEADLOCK FALSE
