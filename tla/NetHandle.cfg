CONSTANTS
  Modes = {"client", "accepted", "upgrade"}
  MaxIn <- MCMaxIn
  MaxWrites <- MCMaxWrites
  MaxCloses <- MCMaxCloses
SPECIFICATION Spec
INVARIANTS
  HoldExact
  ClosedBeforeExit
  Inbound
  ErrorsAreThePeers
  CalledOnce
PROPERTIES
  Settles
CHECK_DEADLOCK FALSE
