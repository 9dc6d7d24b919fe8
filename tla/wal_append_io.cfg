CONSTANTS
  e1 = e1
  e2 = e2
  Events = {e1, e2}
  SplitEvents = {}
  MaxEvents = 2
  Faults = {"append_io"}
  SealEmpty = FALSE
  MaxWrites = 3
  MaxSegments = 4
SPECIFICATION Spec
INVARIANT Recoverable
CHECK_DEADLOCK FALSE
