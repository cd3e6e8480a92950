SPECIFICATION FeedSpec
CONSTANTS
  NoBound = NoBound
  Px = {1, 2, 3}
  Sz = {1}
  Depth = 1
  Sides = {"Buy", "Sell"}
  Bounds <- MCBounds
  MaxBurst = 1
  EmptyBest <- MCEmptyBest
INVARIANTS
  TopTracksMarket
  NeverCrossed
