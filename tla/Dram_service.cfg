SPECIFICATION FairSpec
CONSTANTS
  RQ_SIZE = 2
  WQ_SIZE = 3
  HIGH_WM = 3
  LOW_WM = 2
  BANKS = 2
  ROW_BLOCKS = 1
  ROWS = 2
  tCAS = 2
  tRP_tRCD = 1
  RETURN_TIME = 2
  TURN_AROUND = 2
  MAX_ADDR = 3
  MaxLag = 0
  MaxRequests = 4
  LastCall = 3
  MaxCycle = 40
INVARIANTS
  TypeOK
  BanksMatchRequests
  OnlyTheModeIsScheduled
  CachedIndicesAreFresh
  ReadsAccountedFor
  BusBacklogBounded
PROPERTIES
  TurnAroundRespected
  ImplementsMemService
  EveryRequestIsServed
CHECK_DEADLOCK FALSE
