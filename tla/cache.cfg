SPECIFICATION Spec
CONSTANTS
  TS_BITS = 8
  ConfigSet <- AllConfigs
  B = 4
  BLOCKS = 16
  AddrSet = {0, 2, 4, 15}
  MAX_ACCESSES = 5
INVARIANTS
  TypeOK
  SetShape
  StatsBalance
PROPERTIES
  PrefetchKeepsDemand
  LipIsOldest
  ImplementsRecency
  ImplementsFrequency
CHECK_DEADLOCK FALSE
