SPECIFICATION Spec
CONSTANTS
  TS_BITS = 8
  ConfigSet <- SmallestLip
  B = 4
  BLOCKS = 16
  AddrSet = {0, 2}
  MAX_ACCESSES = 12
INVARIANTS
  VictimFound
CHECK_DEADLOCK FALSE
