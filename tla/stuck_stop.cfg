SPECIFICATION Spec
CONSTANTS
  r1 = r1
  r2 = r2
  r3 = r3
  r4 = r4
  Requests = {r1, r2, r3, r4}
  Scenarios <- OnlyStops
  Spare = {}
  MaxDrain = 8
  None = None
CHECK_DEADLOCK FALSE
INVARIANTS Drained
