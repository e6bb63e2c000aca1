\* Every command line with at most one --report, every kind of pair.
CONSTANTS
  Ids <- MCIds
  RegistryIndex <- MCRegistryIndex
  GroupSlot <- MCGroupSlot
  PairWorlds <- MCPairWorlds
  CompareRequests <- MCCompareRequests
SPECIFICATION CompareSpec
INVARIANTS CompareInv
CHECK_DEADLOCK FALSE
