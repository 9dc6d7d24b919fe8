CONSTANTS
  e1 = e1
  e2 = e2
  Events = {e1, e2}
  SplitEvents = {}
  MaxEvents = 2
  Faults = {}
  SealEmpty = TRUE
  MaxWrites = 3
  MaxSegments = 4
SPECIFICATION Spec
INVARIANT OffsetsNeverReset
CHECK_DEADLOCK FALSE
