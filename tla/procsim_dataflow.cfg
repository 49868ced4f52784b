SPECIFICATION Spec
CONSTANTS
  N = 4
  InstSet <- MixedLines
  MISSES_ENABLED = TRUE
  FETCH_WIDTH = 2
  REG_NUM = 3
  MAT_REG_NUM = 2
  ROB_PER_WIDTH = 2
  ALU_NUM = 1
  MUL_NUM = 1
  LSU_NUM = 2
  SCHEDQ_PER_FU = 1
  L1_HIT_CYCLES = 2
  L2_HIT_CYCLES = 3
  L2_MISS_CYCLES = 4
  MAX_CYCLES = 12
INVARIANTS
  MemoryOrder
  CountsBelowLatency
PROPERTIES
  ImplementsDataflow
  ImplementsFairDataflow
  Terminates
