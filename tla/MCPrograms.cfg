CONSTANTS
  Worlds <- MCWorlds
  MaxModuleOps = 5
  EventConfs <- MCEventConfs
  MaxEventOps = 4
  Subs = {s1, s2}
  Requests <- MCRequests
  MaxPortOps = 4
  MaxPosts = 2
  MaxAborts = 1
  Storages = {"s"}
  MaxFrames = 3
  MaxScopes = 2
  MaxAsyncOps = 3
  TraceKinds = {"sync", "promise", "callback"}
  ZlibWorlds <- MCZlibWorlds
  MaxZlibOps = 3
  MaxFeeds = 2
  OpWorlds <- MCOpWorlds
  Adapters = {"toReadable", "fromReadable", "toWritable", "fromWritable"}
  WebItems = 3
  WebRoom = 2
  MaxText = 3
  ReadWorlds <- MCReadWorlds
  WriteWorlds <- MCWriteWorlds
  LogWorlds <- MCLogWorlds
  CopyWorlds <- MCCopyWorlds
  FileLength = 3
  ChunkLength = 2
  Fds = {1,2}
  MaxFileCalls = 5
  Careless = FALSE
  SerdesWorlds <- MCSerdesWorlds
  MaxMutations = 2
  Group = 4
  DigitBytes = 2
  Ring = 3
  MaxCollections = 6
  MaxBytes = 4
  MaxChars = 4
  MaxLineCalls = 2
  Watching = {o1, o2}
  MaxEntries = 2
  MaxObserving = 3
  SubBuckets = 4
  MaxValue = 17
  MaxRecords = 3
  MaxEmitCalls = 4
  Nested = FALSE
  MemoryNames = {"memory"}
  MaxPages = 2
  MaxDepth = 4
  MaxMemoryOps = 6
  MaxSlots = 3
  MaxTableOps = 4
  Hasty = {}
  CipherWorlds <- MCCipherWorlds
  Wraps = 2
  MaxHashCalls = 5
  Randoms = 16
  Instants = 3
  Sequence = 4
  MaxDecoded = 4
  Reused = FALSE
  PosixPaths <- MCPosixPaths
  WinPaths <- MCWinPaths
  PosixEnds <- MCPosixEnds
  WinEnds <- MCWinEnds
  PosixCwd <- MCPosixCwd
  WinCwd <- MCWinCwd
  BracePatterns <- MCBracePatterns
  GlobWorlds <- MCGlobWorlds
  RouteDepth = 5
  ByteValues = 4
  WordBytes = 3
  FirstBytes <- MCFirstBytes
  FirstBuffers <- MCFirstBuffers
  Texts <- MCTexts
  ByteOffsets <- MCByteOffsets
  WriteOffsets = {0, 2, 5}
  WriteLengths = {9}
  Halves <- MCHalves
  MaxBuffers = 3
  MaxByteCalls = 2
SPECIFICATION Spec
INVARIANTS
  ModulesLoaded
  ListenersServed
  ContextsKept
  DataKept
PROPERTIES
  ProgramsSettle
CHECK_DEADLOCK FALSE
