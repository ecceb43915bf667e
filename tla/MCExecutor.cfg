CONSTANTS
  MaxTasks = 2
  Delays = {1, 2}
  MaxTimers = 3
SPECIFICATION FairSpec
INVARIANTS
  ReadyListExact
  WakeupsKept
PROPERTIES
  SleepersResume
  ReadyIsPolled
