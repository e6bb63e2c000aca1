\* One thread: the jobs run on the caller. Every command line with up to two reports.
CONSTANTS
  JobCount = 2
  ThreadCount = 1
  Ids <- MCIds
  RegistryIndex <- MCRegistryIndex
  GroupSlot <- MCGroupSlot
  Worlds <- MCMixed
  DirRequests <- MCAllRequests
  Budget = 7
SPECIFICATION DirSpec
INVARIANTS VerdictMeansReportsWritten SubmissionOrder
CHECK_DEADLOCK FALSE
