SPECIFICATION Spec
CONSTANTS
  None = None
  Plane <- MCPlane
  UpdateRects <- MCUpdateRects
  Boundaries <- MCBoundaries
  Values = {1, 2}
  MaxUpdates = 2
  DstRect <- MCDstRect
  SrcRect <- MCSrcRect
  Stride = 4
  BlitRects <- MCBlitRects
INVARIANTS
  BandsExact
  QueryExact
  DrawExact
PROPERTIES
  DrainExact
CHECK_DEADLOCK FALSE
