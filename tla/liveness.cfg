SPECIFICATION LiveSpec
CONSTANTS
  p1 = p1
  p2 = p2
  p3 = p3
  Proposals = {p1}
  Workers = {w1}
  Deciders = {d1}
  Choices = {"approved", "rejected"}
  None = None
  NoGroup = NoGroup
  Group <- ReplacingGroup
  Ttl <- FirstExpires
  Lease = 2
  MaxAttempts = 2
  MaxConcurrency = 1
  OutcomeBatch = 1
  MaxTime = 1
  MaxFaults = 1
  Environment = {"turn"}

PROPERTIES ApprovedSettles DueExpires OutcomeDelivered
