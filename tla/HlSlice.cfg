\* HourStride is smaller than the places of an hour, as it is in the code from
\* line 100 of a file on.
SPECIFICATION Spec
CONSTANTS
  HourCount = 2
  Ticks = 2
  Moments = {1, 2}
  LineStride = 5
  HourStride = 3
  Builders = {b1}
  MaxMatches = 2
  MaxBooks = 2
  MaxLosses = 1
INVARIANTS
  TypeOK
  ShardTellsTheDay
  BooksInStep
