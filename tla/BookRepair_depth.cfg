SPECIFICATION Spec
CONSTANTS
  NoBound = NoBound
  Px = {1, 2, 3}
  Sz = {1}
  Depth = 2
  Sides = {"Buy"}
  Bounds <- MCBounds
INVARIANTS DepthLimitedReplay
