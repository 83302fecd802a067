SPECIFICATION Spec
CONSTANTS
  RQ_SIZE = 2
  WQ_SIZE = 3
  HIGH_WM = 2
  LOW_WM = 2
  BANKS = 2
  ROW_BLOCKS = 1
  ROWS = 2
  tCAS = 5
  tRP_tRCD = 1
  RETURN_TIME = 2
  TURN_AROUND = 5
  MAX_ADDR = 3
  MaxLag = 0
  MaxRequests = 4
  LastCall = 11
  MaxCycle = 13
INVARIANT QueuedWriteIsTheLatest
CHECK_DEADLOCK FALSE
