SPECIFICATION Spec
CONSTANTS
  r1 = r1
  r2 = r2
  r3 = r3
  r4 = r4
  Requests = {r1, r2, r3, r4}
  Scenarios <- EditsAndSettles
  Spare = {s1}
  MaxDrain = 8
  None = None
CHECK_DEADLOCK FALSE
INVARIANTS TypeOK DrainsByItself NothingLost StartedOnce
