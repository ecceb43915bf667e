\* Three entries of memory map and few enough slots to compact and to run out.
CONSTANTS
  FRAME_SIZE = 2
  InfosPerPage = 5
  MemoryEnd = 30
  Slots = 6
  MmapRanges <- MCMmapRanges
  MarkRanges <- MCMarkRanges
  Modules = 1
  MaxMmaps = 3
SPECIFICATION Spec
INVARIANTS
  UpdateExact
  PagesGivenOnce
  MappedUnlessJoined
