SPECIFICATION Spec
CONSTANTS
  a1 = a1
  a2 = a2
  Addr = {a1, a2}
  Nil = Nil
  Programs <- LqFull
  ROB_SIZE = 8
  LQ_SIZE = 8
  SQ_SIZE = 2
  STA_SIZE = 6
  SCHEDULER_SIZE = 8
  FRONT_SIZE = 1
  L1D_WQ_SIZE = 2
  NUM_INSTR_SOURCES = 2
  NUM_INSTR_DESTINATIONS = 2
INVARIANTS
  NeverStuck
CHECK_DEADLOCK FALSE
