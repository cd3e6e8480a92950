SPECIFICATION Spec
CONSTANTS
  NoBound = NoBound
  Px = {1, 2, 3}
  Sz = {1, 2}
  Depth = 2
  Sides = {"Buy"}
  Bounds <- MCBoundsNone
INVARIANTS
  TypeOK
  PublishedWithinFull
  ReplayMatchesPublished
PROPERTIES
