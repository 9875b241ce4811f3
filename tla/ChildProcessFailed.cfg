CONSTANTS
  Children = {a, b}
  OutPiped = {a}
  ErrPiped = {}
  MaxData = 2
  MaxCalls = 2
  UnrefFailed = TRUE
SPECIFICATION Spec
INVARIANTS
  KeptAlive
CHECK_DEADLOCK FALSE
