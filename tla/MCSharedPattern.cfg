CONSTANTS
  Apis <- MCApis
  Machines = {183}
  Registry <- MCRegistry
  MaxPatterns = 2
  Patterns <- MCPatterns
  NumSegments = 2
  Addresses = {1, 2, 3}
SPECIFICATION MCSpec
INVARIANT DistinctAddresses
CHECK_DEADLOCK FALSE
