SPECIFICATION SSpec
CONSTANTS
  N = 5
  InstSet <- StatsLines
  MISSES_ENABLED = TRUE
  FETCH_WIDTH = 2
  REG_NUM = 2
  MAT_REG_NUM = 1
  ROB_PER_WIDTH = 2
  ALU_NUM = 1
  MUL_NUM = 1
  LSU_NUM = 1
  SCHEDQ_PER_FU = 1
  L1_HIT_CYCLES = 1
  L2_HIT_CYCLES = 3
  L2_MISS_CYCLES = 5
  MAX_CYCLES = 15
INVARIANTS
  TypeOK
  ProgramOrder
  NothingPastMispredict
  MispredictDrained
  FinishedMissFresh
  WatchdogQuiet
  StatsMatchDriver
  CyclesAccounted
  UsageIsResidence
  StallMeansFullRob
