\* Two Timeouts of one or two milliseconds, each a timeout or an interval, over a
\* clock of a few ticks: equal deadlines, overtaking deadlines, and a callback
\* that clears, refreshes or unrefs the other one.
CONSTANTS
  MaxTimers = 2
  MaxImmediates = 1
  Delays = {1, 2}
  MaxTime = 2
  MaxOps = 2
  SelfRearm = TRUE
SPECIFICATION Spec
INVARIANTS
  TimersArmed
PROPERTIES
  TimersInOrder
  EventuallyFires
CHECK_DEADLOCK FALSE
