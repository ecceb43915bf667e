CONSTANTS
  MaxNodes = 10
  MaxMerge = 5
  Key <- MCKey
  Merges <- MCMerges
  None = None
SPECIFICATION Spec
INVARIANTS
  TreeExact
  AugmentsExact
  SearchExact
