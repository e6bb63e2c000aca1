\* Up to four findings over two files: two findings of one check and scope, an
\* unregistered id, hidden findings and an empty file all occur.
CONSTANTS
  Ids <- MCIds
  RegistryIndex <- MCRegistryIndex
  GroupSlot <- MCGroupSlot
  Samples <- MCSamples
  MaxFiles = 2
  MaxFindings = 4
SPECIFICATION Spec
INVARIANTS TotalsCountEverything ReportIsWhole
PROPERTIES VerdictNeverImproves
CHECK_DEADLOCK FALSE
