SPECIFICATION Spec
CONSTANTS
  ConfigSet <- LargeL2
  AddrSet <- TestAddrs
INVARIANTS
  AcceptedConfigRuns
