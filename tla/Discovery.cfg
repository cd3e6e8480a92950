SPECIFICATION FairSpec
CONSTANTS
  None = None
  Series = Series
  w1 = w1
  w2 = w2
  Workers = {w1, w2}
  Slugs = {2, 3}
  Midnight = 2
  Day = 2
  Interval = 1
  Tries = 2
  Winner <- MCWinner
  Shapes <- MCShapes
INVARIANTS
  TypeOK
  PayoutsSettle
PROPERTIES
  KeepsPromise
  DiscoveryEnds
CHECK_DEADLOCK FALSE
