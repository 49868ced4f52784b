SPECIFICATION Spec
CONSTANTS
  P = 2
  H = 1
  IpSet = {4, 8, 12}
  KindSet = {"ALWAYS_TAKEN", "TWO_BIT_COUNTER", "YEHPATT", "GSHARE"}
  MAX_BRANCHES = 7
  MAX_LINES = 7
INVARIANTS
  TypeOK
  HistoryRegisters
  Learns
  Hysteresis
CHECK_DEADLOCK FALSE
