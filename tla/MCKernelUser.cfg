\* User processes: launch, system calls and page faults among kernel threads
\* that sleep, with delays due at once or in two ticks.
SPECIFICATION Spec
CONSTANTS
  MaxThreads = 3
  None = None
  Calls = {"yield", "exit", "spawn", "sleep", "launch", "syscall", "fault"}
  Delays = {0, 2}
  MaxItems = 0
INVARIANTS
  LocksOwned InterruptFlag UserContext
