SPECIFICATION ProbeSpec
CONSTANTS
  Files <- MCFiles
  Registries <- MCRegistries
  MaxWarnings = 1
INVARIANT ProbeInv
PROPERTY ProbeEnds
