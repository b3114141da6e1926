SPECIFICATION LiveSpec
CONSTANTS
  Backends = {"memory", "lucid", "redis"}
  Writers = {"owner", "delegate"}
  Owner = "owner"
  Procs = {"p1", "p2"}
  Home = "p1"
  Kinds = {"text", "reasoning", "event"}
  MaxWrites = 3
  Attempts = 2
  MaxTrouble = 1
  None = None
  Page = 1
CHECK_DEADLOCK FALSE
INVARIANTS TypeOK CallOrderKept EndIsLast ClientIsInStep DoneIsComplete NoLostWakeup FailureIsReported
PROPERTY ClientIsReleased
