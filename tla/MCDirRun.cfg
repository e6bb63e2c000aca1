\* Two workers over three pairs, every combination of the kinds of pair.
CONSTANTS
  JobCount = 3
  ThreadCount = 2
  Ids <- MCIds
  RegistryIndex <- MCRegistryIndex
  GroupSlot <- MCGroupSlot
  Worlds <- MCWorlds
  DirRequests <- MCRequests
  Budget = 7
SPECIFICATION DirFairSpec
INVARIANTS DirInv PoolInv VerdictIgnoresSchedule
PROPERTIES ImplementsIndexedRun RunEnds
CHECK_DEADLOCK FALSE
