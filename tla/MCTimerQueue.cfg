\* Up to four events, delays that tie, nest and are due at once.
SPECIFICATION Spec
CONSTANTS
  Delays = {0, 1, 2, 4}
  MaxTimers = 4
  MaxTick = 6
INVARIANTS
  IInv NeverEarly OnTime
PROPERTIES
  InsertIsInsertTimer
CHECK_DEADLOCK FALSE
