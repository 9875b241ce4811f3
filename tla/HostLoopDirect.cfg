\* The same operations, none of which kicks the waker.
CONSTANTS
  Jobs = {j1, j2, j3}
  Kicked = {}
  Script = Script
SPECIFICATION Spec
PROPERTIES
  Delivered
CHECK_DEADLOCK FALSE
