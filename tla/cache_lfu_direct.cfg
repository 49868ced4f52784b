SPECIFICATION Spec
CONSTANTS
  TS_BITS = 8
  ConfigSet <- DirectMappedLfu
  B = 4
  BLOCKS = 16
  AddrSet = {0, 1, 2, 4, 15}
  MAX_ACCESSES = 5
INVARIANTS
  VictimFound
CHECK_DEADLOCK FALSE
