SPECIFICATION Spec
CONSTANTS
  p1 = p1
  p2 = p2
  p3 = p3
  Proposals = {p1}
  Workers = {w1, w2}
  Deciders = {}
  Choices = {"approved"}
  None = None
  NoGroup = NoGroup
  Group <- ReplacingGroup
  Ttl <- FirstExpires
  Lease = 1
  MaxAttempts = 2
  MaxConcurrency = 1
  OutcomeBatch = 1
  MaxTime = 4
  MaxFaults = 1
  Environment = {"turn", "delete"}
SYMMETRY Processes
INVARIANTS PostedOnce
