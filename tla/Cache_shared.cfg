SPECIFICATION FairSpec
CONSTANTS
  Cache = {"L1I", "L1D", "L2C"}
  CodeBlock = {d1}
  DataBlock = {d1}
  Word = {0}
  Request = {r1}
  RQ_SIZE <- TwoEach
  WQ_SIZE <- OneEach
  PQ_SIZE <- OneEach
  MSHR_SIZE <- SplitMisses
  NUM_WAY <- OneWay
  PROCESSED_SIZE = 1
  MaxPrefetch = 1
  MaxSwap = 0
PROPERTIES
  EveryReadIsAnswered
CHECK_DEADLOCK FALSE
