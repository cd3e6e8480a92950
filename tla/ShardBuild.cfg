SPECIFICATION FairSpec
CONSTANTS
  None = None
  b1 = b1
  b2 = b2
  Builders = {b1, b2}
  Depths = {5}
  Hours = {0, 1}
  Contracts = {1, 2}
  Discoveries <- MCFlaky
INVARIANTS
  TypeOK
  RecordHasFiles
  CoverageHasRecord
  ShardsCoherent
  AnswersComplete
PROPERTIES
  ScheduleKept
  ReadyLeftAlone
  PreflightEnds
