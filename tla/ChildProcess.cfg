CONSTANTS
  Children = {a, b}
  OutPiped = {a}
  ErrPiped = {}
  MaxData = 2
  MaxCalls = 2
  UnrefFailed = FALSE
SPECIFICATION Spec
INVARIANTS
  ChildrenHold
  OutputKept
PROPERTIES
  ExitHeard
CHECK_DEADLOCK FALSE
