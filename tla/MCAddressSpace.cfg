\* Seven pages of kernel address space, guards as Stack::new asks for, and
\* memory that runs out; two processes of two threads.
CONSTANTS
  RangeStart = 8
  RangeEnd = 22
  FRAME_SIZE = 2
  TableSize = 8
  Sizes = {1, 4}
  Guards = {0, 2}
  NFrames = 8
  None = None
  Proc = {p1, p2}
  Thread = {t1, t2}
  Program <- MCProgram
  UserStack <- MCUserStack
  UserEnd = 8
  MaxLive = 1
SPECIFICATION Spec
SYMMETRY MCSymmetry
INVARIANTS
  MappedExact
  UserMemoryExact
  ProcsExact
PROPERTIES
  ExhaustedOnlyWhenFull
