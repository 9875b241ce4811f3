CONSTANTS
  Parent = "p"
  Child = "c"
  Budgets <- MCBudgets
  WritesCap = 1
  PipeCap = 1
  Sigs = {"INT", "TERM"}
  ChanCap = 1
  MaxSignals = 2
  MaxListens = 3
  Versions = {"v1", "v2"}
  Errnos = {"ENOENT"}
  MaxChanges = 2
  MaxWatchers = 2
  MaxUses = 3
  Conns = {"a", "b"}
  MaxFaults = 1
  MaxTurns = 3
  Sends = {1, 2}
  Loads <- MCLoads
SPECIFICATION Spec
INVARIANTS
  LoopHeld
  MessagesArrive
  SignalsBridged
  ReportsTrue
PROPERTIES
  QuietAfterClose
  ChannelsSettle
CHECK_DEADLOCK FALSE
