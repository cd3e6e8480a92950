SPECIFICATION FairSpec
CONSTANTS
  Mirrors = {m1, m2}
  Cells <- MCCells
  Workers = 1
  MaxNow = 2
  MaxFaults = 1
INVARIANTS
  TypeOK
  RecordsAreStored
  ZeroMeansRecorded
PROPERTY
  PlannedGetsMirrored
