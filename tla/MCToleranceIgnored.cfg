SPECIFICATION EngineSpec
CONSTANTS
  Registry <- MCRegistry
  Profiles <- MCProfiles
  Worlds <- Policies
  MaxInt = 1000000000
  EndDeltaEpsilon = 2
  CeilingDeadband <- MCCeilingDeadband
  EstimatedFactor = 3
  SpanTimebase <- MCSpanTimebase
INVARIANT PolicyToleranceJudges
CHECK_DEADLOCK FALSE
