CONSTANTS
  MaxChunks = 3
  MaxCalls = 2
  MaxOps = 1
  Dests = {"d1", "d2"}
  Side = "d1"
  Configs <- MCConfigs
  Scenarios <- MCScenarios
  Transforms <- MCTransforms
SPECIFICATION Spec
INVARIANTS
  WritesKept
  ReadInOrder
  PipelineIsTrue
PROPERTIES
  StreamsAreConduits
  StreamsDeliver
CHECK_DEADLOCK FALSE
