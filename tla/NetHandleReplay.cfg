CONSTANTS
  Modes = {"upgrade"}
  MaxIn <- MCMaxIn
  MaxWrites <- MCMaxWrites
  MaxCloses <- MCMaxCloses
SPECIFICATION Spec
PROPERTIES
  Replayed
CHECK_DEADLOCK FALSE
