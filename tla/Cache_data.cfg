SPECIFICATION Spec
CONSTANTS
  Cache = {"L1D", "L2C"}
  CodeBlock = {}
  DataBlock = {d1, d2}
  Word = {0, 1}
  Request = {r1, r2}
  RQ_SIZE <- TwoEach
  WQ_SIZE <- OneEach
  PQ_SIZE <- OneEach
  MSHR_SIZE <- SplitMisses
  NUM_WAY <- SplitWays
  PROCESSED_SIZE = 1
  MaxPrefetch = 0
  MaxSwap = 1
INVARIANTS
  TypeOK
  MissesMatchRequests
  OneCopyPerBlock
  RequestsAccountedFor
  DirtyNeverDropped
CHECK_DEADLOCK FALSE
SYMMETRY Symmetry
