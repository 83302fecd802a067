SPECIFICATION Spec
CONSTANTS
  Cache = {"L1D", "L2C", "LLC"}
  CodeBlock = {}
  DataBlock = {d1, d2}
  Word = {0}
  Request = {r1}
  RQ_SIZE <- TwoEach
  WQ_SIZE <- OneEach
  PQ_SIZE <- OneEach
  MSHR_SIZE <- SplitMisses
  NUM_WAY <- OneWay
  PROCESSED_SIZE = 1
  MaxPrefetch = 1
  MaxSwap = 0
INVARIANTS
  MissesMatchRequests
PROPERTIES
  MemoryIsAskedOnce
CHECK_DEADLOCK FALSE
SYMMETRY Symmetry
