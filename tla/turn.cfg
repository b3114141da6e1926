SPECIFICATION LiveSpec
CONSTANTS
  MaxSteps = 2
  MaxCalls = 2
  Turns <- TwoAtOnce
  Approvals = {"failed", "presented", "ask", "hold", "proposal"}
  Replies = {"yes", "no", "answers"}
  Ttl = 1
  Ending = {2}
  Waiting = 0
  MaxReplies = 1
  MaxTime = 2
  MaxCrashes = 1
  Environment = {"gate", "tool"}
CHECK_DEADLOCK FALSE
INVARIANTS TypeOK NeverDiverges RunsOnlyApproved RowsTellTheTruth RepeatedOnlyByCrash EndedIsSettled CompletedIsWhole SpendIsRecorded
PROPERTIES TurnEnds CardCloses
