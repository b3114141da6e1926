SPECIFICATION Spec
CONSTANTS
  p1 = p1
  p2 = p2
  p3 = p3
  Proposals = {p1}
  Workers = {w1, w2}
  Deciders = {d1}
  Choices = {"approved"}
  None = None
  NoGroup = NoGroup
  Group <- ReplacingGroup
  Ttl <- NeverExpires
  Lease = 2
  MaxAttempts = 2
  MaxConcurrency = 1
  OutcomeBatch = 0
  MaxTime = 3
  MaxFaults = 1
  Environment = {"stop"}
SYMMETRY Processes
INVARIANTS TypeOK SettledByItsHolder ClaimsAreExclusive
PROPERTIES RowsOnlyAdvance
