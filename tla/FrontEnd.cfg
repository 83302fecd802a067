SPECIFICATION FairSpec
CONSTANTS
  Programs <- Fitting
  Line = {1, 2}
  Frame = {f1, f2}
  Nil = Nil
  IFETCH_SIZE = 3
  DECODE_SIZE = 2
  ROB_SIZE = 2
  L1I_SIZE = 2
  FETCH_WIDTH = 2
  DECODE_WIDTH = 2
  DECODE_LATENCY = 1
  BRANCH_MISPREDICT_PENALTY = 2
INVARIANTS
  TypeOK
  StallHasItsCause
  InflightLinesAreAsked
PROPERTIES
  EveryInstructionPasses
