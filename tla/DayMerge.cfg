SPECIFICATION Spec
CONSTANTS
  Hours = 3
  MaxRows = 3
  MaxTs = 2
  BatchSize = 2
  BlockSize = 3
  Files <- MCFiles
INVARIANTS
  TypeOK
  HeapNamesCursors
PROPERTY
  DayOrderSpec
