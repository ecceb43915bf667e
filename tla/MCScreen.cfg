SPECIFICATION Spec
CONSTANTS
  None = None
  ScreenRect <- MCScreenRect
  WindowRects <- MCWindowRects
  MaxWindows = 3
  MaxCalls = 4
INVARIANTS
  TrackerSound
CHECK_DEADLOCK FALSE
