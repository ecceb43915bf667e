CONSTANTS
  None = None
  NFrames = 8
  MAX_ORDER = 2
  FRAME_SIZE = 8
  SIZE_CLASSES <- MCSizeClasses
  Layouts <- MCLayouts
  Ranges <- MCRanges
  MaxLive = 4
SPECIFICATION Spec
INVARIANTS
  FramesPartitioned
  SlabsExact
  AllocationsFit
