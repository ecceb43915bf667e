SPECIFICATION Spec
CONSTANTS
  MaxThreads = 4
  None = None
INVARIANTS
  IInv
  SchedAssertions
PROPERTIES
  RemovedOnlyAfterExit
