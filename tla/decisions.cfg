SPECIFICATION Spec
CONSTANTS
  p1 = p1
  p2 = p2
  p3 = p3
  Proposals = {p1, p2, p3}
  Workers = {}
  Deciders = {d1, d2}
  Choices = {"approved", "rejected"}
  None = None
  NoGroup = NoGroup
  Group <- ReplacingGroup
  Ttl <- FirstExpires
  Lease = 1
  MaxAttempts = 2
  MaxConcurrency = 1
  OutcomeBatch = 0
  MaxTime = 3
  MaxFaults = 0
  Environment = {"delete"}
SYMMETRY Callers
INVARIANTS OutcomeIsWhatHappened FirstDecisionStands OnePendingPerGroup
PROPERTIES ReplacedByNewcomerOnly
