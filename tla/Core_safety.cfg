SPECIFICATION FairSpec
CONSTANTS
  a1 = a1
  a2 = a2
  Addr = {a1, a2}
  Nil = Nil
  Programs <- AllPrograms
  ROB_SIZE = 5
  LQ_SIZE = 2
  SQ_SIZE = 2
  STA_SIZE = 6
  SCHEDULER_SIZE = 4
  FRONT_SIZE = 1
  L1D_WQ_SIZE = 2
  NUM_INSTR_SOURCES = 2
  NUM_INSTR_DESTINATIONS = 2
INVARIANTS
  TypeOK
  HandoversAreExact
  OperandsAccountedFor
  ExecutesAfterItsProducers
  StoreQueueInProgramOrder
  StoresForwardToTheirLoads
PROPERTIES
  ImplementsInOrder
  RetiresUnlessClogged
CHECK_DEADLOCK FALSE
