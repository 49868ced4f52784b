SPECIFICATION Spec
CONSTANTS
  ConfigSet <- Configs
  AddrSet <- TestAddrs
INVARIANTS
  SplitExact
  SplitIsDivision
  WriteBackFindsBlock
PROPERTIES
  PrefetchAligned
