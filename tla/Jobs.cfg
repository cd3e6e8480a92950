SPECIFICATION Spec
CONSTANTS
  Slots = {j1, j2}
  Requests <- MCRequests
  From <- MCFrom
  To <- MCTo
  Gaps <- MCGaps
  MaxDay = 2
  MaxAsks = 2
SYMMETRY MCSymmetry
INVARIANTS
  TypeOK
  ZeroMeansSliced
  DatesAsAsked
  AllSlicesMirrored
  NoDayMissed
CHECK_DEADLOCK FALSE
