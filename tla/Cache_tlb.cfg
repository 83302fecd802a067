SPECIFICATION Spec
CONSTANTS
  Cache = {"ITLB", "DTLB", "STLB"}
  CodeBlock = {p1, p2}
  DataBlock = {p1, p3}
  Word = {0}
  Request = {r1, r2}
  RQ_SIZE <- ReadQueues
  WQ_SIZE <- OneEach
  PQ_SIZE <- OneEach
  MSHR_SIZE <- TwoMisses
  NUM_WAY <- TwoWays
  PROCESSED_SIZE = 1
  MaxPrefetch = 0
  MaxSwap = 1
INVARIANTS
  MissesMatchRequests
  OneCopyPerBlock
CHECK_DEADLOCK FALSE
SYMMETRY RequestSymmetry
