SPECIFICATION StructuresSpec
CONSTANTS
  NUM_WAY = 4
  NUM_CPUS = 2
  Vpages <- ThreeAndTwoPages
  Frame = {0, 1, 2, 3}
  DRAM_PAGES = 4
  RunLength = {1}
  Word = 16
  TLB_SIZE = 1
  MSHR_SIZE = 1
  SIZE = 4
  Address = {1, 2, 3}
  NoAddress = 0
  set1 = set1
  set2 = set2
  Fastset = {set1, set2}
  MAX_SIZE = 12
  SMALL_SIZE = 4
  SMALLER_SIZE = 3
  TYPE_BITS = 3
  WORD_BITS = 4
  LIMIT = 6
  fn1 = fn1
  fn2 = fn2
  Function = {fn1, fn2}
  Library = Library
  Does = {"plain", "call", "ret"}
  STK_SIZE = 1
  MaxInstr = 5
  MaxQuery = 2
  MaxDepth = 4
  Near = 1
INVARIANTS
  OneVictim
  TablesAreInverse
  AllocationCounted
  StaleOnlyIfOutlived
  HoldsItsMembers
  CallStackIsExact
  AnswersAreExact
PROPERTIES
  ImplementsRecencyOrder
  ImplementsFifo
CHECK_DEADLOCK FALSE
