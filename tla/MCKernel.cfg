\* Kernel threads, every way to block and to be woken, run fairly; a delay of
\* zero is left out, see README.
SPECIFICATION FairSpec
CONSTANTS
  MaxThreads = 3
  None = None
  Calls = {"yield", "exit", "spawn", "sleep", "consume", "produce", "produce_all"}
  Delays = {1, 2}
  MaxItems = 1
INVARIANTS
  LocksOwned BlockedHasOneWakeup NoLostWakeup ReschedNotLost
PROPERTIES
  ImplementsScheduler ReadyRuns SleeperWakes ItemsAreTaken
