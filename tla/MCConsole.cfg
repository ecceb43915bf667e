SPECIFICATION Spec
CONSTANTS
  FrameRect <- MCFrameRect
  Stride = 6
  CharWidth = 2
  CharHeight = 1
  Chars = {"a", "b"}
  Font <- MCFont
INVARIANTS
  ImageOwned
