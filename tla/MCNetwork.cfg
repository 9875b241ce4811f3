CONSTANTS
  MaxWrites = 2
  MaxIn = 1
  MaxSocketOps = 2
  SocketConfs <- MCSocketConfs
  MaxConns = 2
  MaxServerOps = 3
  ServerConfs <- MCServerConfs
  BodyChunks = 1
  WriteCap = 1
  HttpBudgets <- MCHttpBudgets
  BodyCap = 1
  ResponseChunks = 1
  MaxRequestOps = 4
SPECIFICATION Spec
INVARIANTS
  SocketsKept
  BytesInOrder
  HttpExchange
PROPERTIES
  DrainedAtClose
  NetworkSettles
CHECK_DEADLOCK FALSE
