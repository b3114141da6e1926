SPECIFICATION Spec
CONSTANTS
  p1 = p1
  p2 = p2
  p3 = p3
  Proposals = {p1, p2}
  Workers = {w1}
  Deciders = {d1}
  Choices = {"approved", "rejected"}
  None = None
  NoGroup = NoGroup
  Group <- ReplacingGroup
  Ttl <- FirstExpires
  Lease = 1
  MaxAttempts = 2
  MaxConcurrency = 1
  OutcomeBatch = 1
  MaxTime = 2
  MaxFaults = 0
  Environment = {"delete"}

INVARIANTS RunsOnlyApproved
PROPERTIES ImplementsLifecycle
