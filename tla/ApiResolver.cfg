CONSTANTS
  Apis <- MCApis
  Machines <- MCMachines
  Registry <- MCRegistry
  MaxPatterns = 2
  Patterns <- MCPatterns
  NumSegments = 2
  Addresses = {1, 2}
SPECIFICATION Spec
INVARIANTS
  FirstHitWins
  ResultMeansAllResolved
PROPERTIES
  FoundStays
  ImplementsResolution
CHECK_DEADLOCK FALSE
