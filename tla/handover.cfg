SPECIFICATION Spec
CONSTANTS
  MaxSteps = 1
  MaxCalls = 1
  Turns <- OneAction
  Approvals = {"auto"}
  Replies = {"yes"}
  Ttl = 1
  Ending = {}
  Waiting = 1
  MaxReplies = 0
  MaxTime = 1
  MaxCrashes = 1
  Environment = {}
CHECK_DEADLOCK FALSE
INVARIANTS HandedOverIsStarted
