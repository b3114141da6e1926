SPECIFICATION Spec
CONSTANTS
  MaxSteps = 2
  MaxCalls = 2
  Turns <- OneAction
  Approvals = {"refused", "auto", "ask"}
  Replies = {"yes", "no"}
  Ttl = 1
  Ending = {2}
  Waiting = 1
  MaxReplies = 1
  MaxTime = 2
  MaxCrashes = 1
  Environment = {"stop", "nostart", "quota", "model"}
CHECK_DEADLOCK FALSE
INVARIANTS NextWaitsItsTurn StoppedThreadMovesOn
