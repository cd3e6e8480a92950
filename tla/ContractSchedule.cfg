SPECIFICATION Spec
CONSTANTS
  None = None
  Ladder <- MCLadder
  Length = 2
  MaxTs = 13
INVARIANTS
  TypeOK
  ConsumerInStep
PROPERTIES
  LifecycleSpec
