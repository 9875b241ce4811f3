\* One worker and one message each way; two calls in the child are a listener
\* added late, from a timer, or added and removed again.
CONSTANTS
  MaxUp = 1
  MaxDown = 1
  MaxCalls = 2
  ExitCodes = {7}
SPECIFICATION Spec
INVARIANTS
  EventsTrue
  NothingLost
PROPERTIES
  LivesAsHeld
CHECK_DEADLOCK FALSE
