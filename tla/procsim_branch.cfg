SPECIFICATION BSpec
CONSTANTS
  N = 5
  InstSet <- BranchLines
  MISSES_ENABLED = TRUE
  FETCH_WIDTH = 2
  REG_NUM = 2
  MAT_REG_NUM = 1
  ROB_PER_WIDTH = 3
  ALU_NUM = 1
  MUL_NUM = 1
  LSU_NUM = 1
  SCHEDQ_PER_FU = 2
  L1_HIT_CYCLES = 1
  L2_HIT_CYCLES = 2
  L2_MISS_CYCLES = 3
  MAX_CYCLES = 12
  P = 2
  H = 1
  IpSet = {4, 8}
  KindSet = {"TWO_BIT_COUNTER", "YEHPATT", "GSHARE"}
INVARIANTS
  TrainedInOrder
PROPERTIES
  FreshAfterMispredict
