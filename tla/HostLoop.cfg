\* Three operations: enough for one to answer while another one's callback runs and
\* a third holds the loop open, and for a kick to find the waker's channel full.
CONSTANTS
  Jobs = {j1, j2, j3}
  Kicked = {j1, j2, j3}
  Script = Script
SPECIFICATION Spec
INVARIANTS
  OpsBalanced
  NoneOwedAtExit
PROPERTIES
  Settles
  Implements
CHECK_DEADLOCK FALSE
