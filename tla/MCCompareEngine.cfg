SPECIFICATION EngineSpec
CONSTANTS
  Registry <- MCRegistry
  Profiles <- MCProfiles
  Worlds <- MCWorlds
  MaxInt = 1000000000
  EndDeltaEpsilon = 2
  CeilingDeadband <- MCCeilingDeadband
  EstimatedFactor = 3
  SpanTimebase <- MCSpanTimebase
INVARIANTS
  EngineInv
  NothingUnaccounted
  SelfComparisonIsClean
  DifferencesHaveNoDirection
  EstimatesAreJudgedLeniently
  RatiosDecide
  StretchesAreExact
  PolicyIsExplained
CHECK_DEADLOCK FALSE
