SPECIFICATION CompareSpec
CONSTANTS
  None = None
  a = a
  x = x
  Instruments = {a, x}
  Prices = {1, 2, 3}
  Slices <- MCSlices
  Captures <- MCCaptures
  Batch = 2
  Depth = 2
  MaxRows = 3
  MaxLines = 2
INVARIANTS
  ReportExact
  VerdictSound
CHECK_DEADLOCK FALSE
