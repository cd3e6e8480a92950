SPECIFICATION FeedSpec
CONSTANTS
  NoBound = NoBound
  Px = {1, 2, 3}
  Sz = {1}
  Depth = 1
  Sides = {"Buy"}
  Bounds <- MCBounds
  MaxBurst = 2
  EmptyBest <- MCEmptyBest
INVARIANTS
  FullTracksMarket
  BestIsTop
  SuperiorPurged
