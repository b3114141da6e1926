------------------------------ MODULE AgentRun ------------------------------
(***************************************************************************)
(* One durable turn of a thread: the body of the agent loop under the      *)
(* durable workflow that runs it.  Whatever the body does goes through a   *)
(* checkpoint that takes the next position of the run's journal: a         *)
(* position already recorded answers what it holds, a new one has its      *)
(* effect and is then recorded, and a crash may fall between the two.      *)
(* Waiting for a person unloads the body; it comes back by walking its     *)
(* journal from the start.  Around it: people who decide the calls put to  *)
(* them, the clock, a Stop issued from outside the body, and the message   *)
(* queued behind the turn.                                                 *)
(***************************************************************************)
EXTENDS Integers, Sequences, FiniteSets

CONSTANTS
  MaxSteps,    \* deps.maxSteps: the model turns of a run
  MaxCalls,    \* bound: the tool calls of a run
  Turns,       \* what the model may call in one step: sequences of Offers
  Approvals,   \* what may come of an action's claim, of ActionClaims
  Replies,     \* what people send a waiting call, of {"yes", "no", "answers"}
  Ttl,         \* the policy's ttlMs, where it sets one
  Ending,      \* the calls of tools declared terminal
  Waiting,     \* the messages queued behind the turn
  MaxReplies, MaxTime, MaxCrashes,  \* bounds
  Environment  \* what may go wrong or intervene, of {"quota", "model", "gate", "tool", "stop", "nostart"}

Calls == 1..MaxCalls
Steps == 1..MaxSteps
May(trouble) == trouble \in Environment

\* What the model calls: an ask may carry a question set that is not one.
Offers == {"read", "action", "ask", "malformed"}

\* A preflight settles an action in its claim: denied (refused), failed, completed, or completed
\* and still to be presented.  Else the policy lets it run (auto), puts it to a person with a
\* deadline (ask) or without one (hold), or makes it a proposal; and the claim may throw.
Preflights   == {"refused", "failed", "completed", "presented"}
ActionClaims == Preflights \cup {"auto", "ask", "hold", "proposal", "threw"}

ASSUME TurnAssumption ==
  /\ MaxSteps \in Nat \ {0} /\ MaxCalls \in Nat \ {0} /\ Ttl \in Nat \ {0}
  /\ {Waiting, MaxReplies, MaxTime, MaxCrashes} \subseteq Nat
  /\ Turns \subseteq Seq(Offers) /\ Approvals \subseteq ActionClaims
  /\ Replies \subseteq {"yes", "no", "answers"} /\ Ending \subseteq Calls

VARIABLES
  body,    \* the workflow's body while a worker holds it
  log,     \* the run's journal: a function from positions to entries
  engine,  \* the engine's row of the run, and the signal wait it is parked on
  db,      \* the store: the run's row, its messages and calls, the thread's holder and queue
  mail,    \* the replies the engine holds for each call
  sending, \* a reply between the route that admitted it and the engine
  replies, \* how many were sent, and the calls somebody approved in time
  stop,    \* how far a Stop has come
  now,     \* the clock
  crashes  \* how often a worker died with the body

world == <<mail, sending, replies, stop, now>>
vars == <<body, log, engine, db, crashes, world>>

Off == [at |-> "off"]
NotParked == [call |-> 0, pos |-> 0, until |-> 0]
NoReply == [call |-> 0, reply |-> ""]
Never == 0

\* A body freshly loaded by a worker.
Fresh == [at |-> "start", pos |-> 0, step |-> 1, batch |-> <<>>, first |-> 0, claims |-> <<>>,
          outcomes |-> <<>>, results |-> <<>>, refused |-> FALSE, failing |-> FALSE]

\* A call is named by its number in the run; the body is at the first one without a result.
Current == Len(body.results) + 1
Call    == body.first + Current

Init ==
  /\ body = Off
  /\ log = <<>>
  /\ engine = [status |-> "active", parked |-> NotParked]
  /\ \E interrupt \in (IF May("stop") THEN BOOLEAN ELSE {FALSE}) :
       db = [run |-> "none", users |-> 0,
             usage |-> [i \in Steps |-> 0], bumped |-> [i \in Steps |-> 0],
             messages |-> [i \in Steps |-> 0], told |-> [i \in Steps |-> <<>>],
             row |-> [c \in Calls |-> "none"], expires |-> [c \in Calls |-> Never],
             ran |-> [c \in Calls |-> 0],
             holder |-> "run", waiting |-> Waiting, interrupt |-> interrupt, paused |-> FALSE,
             next |-> 0, stream |-> "open"]
  /\ mail = [c \in Calls |-> <<>>]
  /\ sending = NoReply
  /\ replies = [sent |-> 0, agreed |-> {}]
  /\ stop = "none" /\ now = 1 /\ crashes = 0

-----------------------------------------------------------------------------
(***************************************************************************)
(* Checkpoints.                                                            *)
(***************************************************************************)
Failing(b) == [b EXCEPT !.at = "fail", !.failing = TRUE]

Recorded(pos, name, value) ==
  log' = [p \in DOMAIN log \cup {pos} |-> IF p \in DOMAIN log THEN log[p] ELSE [name |-> name, value |-> value]]

\* ctx.localStep(name, fn) at position pos: Stored and Then give the store and the body after
\* fn's outcome v.  A name that is not the recorded one is refused by the engine.
StepAt(pos, name, Outcomes, Stored(_), Then(_)) ==
  /\ \/ /\ pos \in DOMAIN log
        /\ body' = IF log[pos].name = name THEN Then(log[pos].value)
                   ELSE [body EXCEPT !.at = "diverged"]
        /\ UNCHANGED <<log, db, crashes>>
     \/ /\ pos \notin DOMAIN log
        /\ \E v \in Outcomes :
             /\ db' = Stored(v)
             /\ \/ /\ Recorded(pos, name, v)
                   /\ body' = Then(v)
                   /\ UNCHANGED crashes
                \/ /\ crashes < MaxCrashes
                   /\ crashes' = crashes + 1
                   /\ body' = Off
                   /\ UNCHANGED log
  /\ UNCHANGED <<engine, world>>

Checkpoint(at, name, Outcomes, Stored(_), Then(_)) ==
  /\ body.at = at
  /\ StepAt(body.pos + 1, name, Outcomes, Stored,
            LAMBDA v : [Then(v) EXCEPT !.pos = body.pos + 1])

\* What the body does without a checkpoint.
Local(at) ==
  /\ body.at = at
  /\ UNCHANGED <<log, crashes, world>>

\* ctx.waitForSignal: a reply that is recorded is taken; else the run is parked and unloaded.
Wait(at, timed, Then(_)) ==
  LET pos == body.pos + 1
      name == <<"wait", Call>>
  IN  /\ Local(at)
      /\ IF pos \in DOMAIN log
         THEN /\ body' = IF log[pos].name = name THEN [Then(log[pos].value) EXCEPT !.pos = pos]
                         ELSE [body EXCEPT !.at = "diverged"]
              /\ UNCHANGED engine
         ELSE /\ body' = Off
              /\ engine' = [engine EXCEPT !.parked = [call |-> Call, pos |-> pos,
                                                      until |-> IF timed THEN now + Ttl ELSE Never]]
      /\ UNCHANGED db

-----------------------------------------------------------------------------
(***************************************************************************)
(* The turn.                                                               *)
(***************************************************************************)
OpenRun ==
  Checkpoint("start", <<"run:start">>, IF db.run = "none" THEN {"ok"} ELSE {"threw"},
             LAMBDA v : [db EXCEPT !.run = IF v = "ok" THEN "running" ELSE @],
             LAMBDA v : IF v = "ok" THEN [body EXCEPT !.at = "quota"] ELSE Failing(body))

CheckQuota ==
  Checkpoint("quota", <<"quota:check">>, {"within"} \cup (IF May("quota") THEN {"over"} ELSE {}),
             LAMBDA v : db,
             LAMBDA v : IF v = "within" THEN [body EXCEPT !.at = "user"] ELSE Failing(body))

\* Mutant: the message is written outside a checkpoint.
PersistUserUnjournaled ==
  /\ Local("user")
  /\ db' = [db EXCEPT !.users = @ + 1]
  /\ body' = [body EXCEPT !.at = "head"]
  /\ UNCHANGED engine

PersistUser ==
  Checkpoint("user", <<"user">>, {"ok"},
             LAMBDA v : [db EXCEPT !.users = @ + 1],
             LAMBDA v : [body EXCEPT !.at = "head"])

\* The run no longer holds its thread: RunCancelledError, which the workflow answers by returning.
HaltIfCancelled(at, next) ==
  /\ Local(at)
  /\ IF db.holder = "run"
     THEN body' = [body EXCEPT !.at = next] /\ UNCHANGED engine
     ELSE /\ body' = Off
          /\ engine' = [engine EXCEPT !.status = IF @ = "active" THEN "completed" ELSE @]
  /\ UNCHANGED db

BeforeModel   == HaltIfCancelled("head", "llm")
BeforePersist == HaltIfCancelled("check", "assistant")

\* The calls of one model turn, each with the kind the model was offered it under.
Batches == {calls \in Turns : body.first + Len(calls) <= MaxCalls}

RunTurn ==
  Checkpoint("llm", <<"llm", body.step>>,
             [threw : {FALSE}, calls : Batches]
               \cup (IF May("model") THEN {[threw |-> TRUE, calls |-> <<>>]} ELSE {}),
             LAMBDA v : db,
             LAMBDA v : IF v.threw THEN Failing(body)
                        ELSE [body EXCEPT !.at = "gate", !.batch = v.calls])

\* Mutant: a refused answer fails the run at once.
ProcessOutputFailing ==
  Checkpoint("gate", <<"output", body.step>>, {"pass"} \cup (IF May("gate") THEN {"reject"} ELSE {}),
             LAMBDA v : db,
             LAMBDA v : IF v = "reject" THEN Failing(body) ELSE [body EXCEPT !.at = "usage"])

ProcessOutput ==
  Checkpoint("gate", <<"output", body.step>>, {"pass"} \cup (IF May("gate") THEN {"reject"} ELSE {}),
             LAMBDA v : db,
             LAMBDA v : [body EXCEPT !.at = "usage", !.refused = (v = "reject")])

PersistUsage ==
  Checkpoint("usage", <<"usage", body.step>>, {"ok"},
             LAMBDA v : [db EXCEPT !.usage[body.step] = @ + 1],
             LAMBDA v : [body EXCEPT !.at = "bump"])

BumpQuota ==
  Checkpoint("bump", <<"bump", body.step>>, {"ok"},
             LAMBDA v : [db EXCEPT !.bumped[body.step] = @ + 1],
             LAMBDA v : IF body.refused THEN Failing(body) ELSE [body EXCEPT !.at = "check"])

\* A blank answer writes no message; it, and an answer without calls, ends the loop.
PersistAssistant ==
  Checkpoint("assistant", <<"assistant", body.step>>,
             {"message"} \cup (IF body.batch = <<>> THEN {"blank"} ELSE {}),
             LAMBDA v : [db EXCEPT !.messages[body.step] = IF v = "message" THEN @ + 1 ELSE @],
             LAMBDA v : [body EXCEPT !.at = IF body.batch = <<>> THEN "finish" ELSE "claim"])

-----------------------------------------------------------------------------
(***************************************************************************)
(* The calls of a step: all claimed first, then run together when every    *)
(* one only reads, else one after the other.                               *)
(***************************************************************************)
Together(b) == Len(b.claims) > 1 /\ \A n \in DOMAIN b.claims : b.claims[n] = "read"

\* Where the body goes for the first call without a result.
Ahead(b) ==
  LET n == Len(b.results) + 1
  IN  [b EXCEPT !.at = IF n > Len(b.batch) THEN "results"
                       ELSE IF Together(b) THEN "settle"
                       ELSE CASE b.claims[n] \in {"read", "auto"}   -> "tool"
                              [] b.claims[n] \in {"ask", "hold"}    -> "decide"
                              [] b.claims[n] = "question"           -> "pose"
                              [] b.claims[n] = "malformed"          -> "misasked"
                              [] b.claims[n] = "presented"          -> "present"
                              [] b.claims[n] \in {"proposal", "refused", "failed", "completed"} -> "receipt"]

Claimed(b, claim) ==
  LET claims == Append(b.claims, claim)
      all == [b EXCEPT !.claims = claims, !.outcomes = [n \in DOMAIN b.batch |-> ""]]
  IN  IF Len(claims) < Len(b.batch) THEN [b EXCEPT !.claims = claims]
      ELSE IF Together(all) THEN [all EXCEPT !.at = "together"]
      ELSE Ahead(all)

\* What the claim of a call finds: recordToolCall is an insert, refused when the row is there.
Claims(call, kind) ==
  IF db.row[call] # "none" THEN {"threw"}
  ELSE CASE kind = "read" -> {"read"} [] kind = "ask" -> {"question"} [] kind = "malformed" -> {"malformed"}
         [] kind = "action" -> Approvals

RowOf == [read |-> "auto_executed", auto |-> "auto_executed", proposal |-> "proposed",
          question |-> "pending_approval", malformed |-> "pending_approval",
          ask |-> "pending_approval", hold |-> "pending_approval", refused |-> "rejected",
          failed |-> "failed", completed |-> "executed", presented |-> "executed"]

ClaimToolCall ==
  LET n == Len(body.claims) + 1
      call == body.first + n
  IN  /\ body.at = "claim"
      /\ Checkpoint("claim", <<"toolcall", call>>, Claims(call, body.batch[n]),
           LAMBDA v : IF v = "threw" THEN db
                      ELSE [db EXCEPT !.row[call] = RowOf[v],
                                      !.expires[call] = IF v = "ask" THEN now + Ttl ELSE Never],
           LAMBDA v : IF v = "threw" THEN Failing(body) ELSE Claimed(body, v))

\* The call has a result; the body goes on to the next one.
Answered(b, result) == Ahead([b EXCEPT !.results = Append(@, result)])

\* What the claim settled or proposed is told as it was claimed.
GiveReceipt ==
  /\ Local("receipt")
  /\ body' = Answered(body, RowOf[body.claims[Current]])
  /\ UNCHANGED <<engine, db>>

\* Mutant: the tool is run to present what its preflight completed.
PresentCompletedByTool ==
  Checkpoint("present", <<"tool", Call>>, {"ok"}, LAMBDA v : [db EXCEPT !.ran[Call] = @ + 1],
             LAMBDA v : [body EXCEPT !.at = "receipt"])

\* The tool of a completed preflight is asked to present it; whatever comes of that, the call has its result.
PresentCompleted ==
  Checkpoint("present", <<"tool", Call>>, {"ok"}, LAMBDA v : db,
             LAMBDA v : [body EXCEPT !.at = "receipt"])

Decided(reply) == [body EXCEPT !.outcomes[Current] = reply, !.at = "settle"]

\* A malformed question set goes back to the model as a failure.
RefuseQuestion ==
  /\ Local("misasked")
  /\ body' = Decided("failed")
  /\ UNCHANGED <<engine, db>>

\* Mutant: whatever is not a no is a yes.
AwaitDecisionLoosely ==
  Wait("decide", body.claims[Current] = "ask",
       LAMBDA reply : IF reply = "no" THEN Decided("rejected") ELSE [body EXCEPT !.at = "tool"])

\* Mutant: the wait is not given the policy's time.
AwaitDecisionUntimed ==
  Wait("decide", FALSE,
       LAMBDA reply : CASE reply = "yes"     -> [body EXCEPT !.at = "tool"]
                        [] reply = "no"      -> Decided("rejected")
                        [] reply = "answers" -> body)

\* A reply that is no decision is dropped and the wait begins again.
AwaitDecision ==
  Wait("decide", body.claims[Current] = "ask",
       LAMBDA reply : CASE reply = "yes"     -> [body EXCEPT !.at = "tool"]
                        [] reply = "no"      -> Decided("rejected")
                        [] reply = "expired" -> Decided("expired")
                        [] reply = "answers" -> body)

PoseQuestion ==
  Checkpoint("pose", <<"elicitation", Call>>, {"ok"}, LAMBDA v : db,
             LAMBDA v : [body EXCEPT !.at = "answer"])

AwaitAnswer ==
  Wait("answer", FALSE, LAMBDA reply : Decided(IF reply = "no" THEN "rejected" ELSE "executed"))

ToolOutcomes == {"executed"} \cup (IF May("tool") THEN {"failed"} ELSE {})

InvokeClaimedTool ==
  Checkpoint("tool", <<"tool", Call>>, ToolOutcomes,
             LAMBDA v : [db EXCEPT !.ran[Call] = @ + 1],
             LAMBDA v : Decided(v))

\* Mutant: a position is taken by whichever call ends first.
InvokeTogetherAsTheyEnd ==
  /\ body.at = "together"
  /\ \E n \in DOMAIN body.batch :
       LET call == body.first + n
           ended == Cardinality({k \in DOMAIN body.batch : body.outcomes[k] # ""})
           Then(v) == [body EXCEPT !.outcomes[n] = v]
       IN  /\ body.outcomes[n] = ""
           /\ StepAt(body.pos + ended + 1, <<"tool", call>>, ToolOutcomes,
                     LAMBDA v : [db EXCEPT !.ran[call] = @ + 1], Then)

\* All launched at once: the nth call has the nth position whichever ends first.
InvokeTogether ==
  /\ body.at = "together"
  /\ \E n \in DOMAIN body.batch :
       LET call == body.first + n
           Then(v) == [body EXCEPT !.outcomes[n] = v]
       IN  /\ body.outcomes[n] = ""
           /\ StepAt(body.pos + n, <<"tool", call>>, ToolOutcomes,
                     LAMBDA v : [db EXCEPT !.ran[call] = @ + 1], Then)

JoinTogether ==
  /\ Local("together")
  /\ \A n \in DOMAIN body.batch : body.outcomes[n] # ""
  /\ body' = Ahead([body EXCEPT !.pos = @ + Len(body.batch)])
  /\ UNCHANGED <<engine, db>>

SettleCall ==
  /\ body.at = "settle"
  /\ LET outcome == body.outcomes[Current]
     IN  Checkpoint("settle",
           <<CASE outcome = "executed" -> "toolexec" [] outcome = "failed" -> "toolfail"
               [] outcome \in {"rejected", "expired"} -> "toolreject", Call>>,
           {"ok"},
           LAMBDA v : [db EXCEPT !.row[Call] = outcome],
           LAMBDA v : Answered(body, outcome))

\* The turn ends with this step: something was proposed, or a terminal tool was done.
Halts(b) ==
  \E n \in DOMAIN b.claims :
    \/ b.claims[n] = "proposal"
    \/ b.first + n \in Ending /\ b.claims[n] # "question" /\ b.results[n] = "executed"

\* Mutant: a turn that halts ends without telling its message.
PersistToolResultsUnlessHalted ==
  Checkpoint("results", <<"toolresults", body.step>>, {"ok"},
             LAMBDA v : IF Halts(body) THEN db ELSE [db EXCEPT !.told[body.step] = body.results],
             LAMBDA v : IF Halts(body) \/ body.step = MaxSteps THEN [body EXCEPT !.at = "finish"]
                        ELSE [body EXCEPT !.at = "head", !.step = @ + 1, !.first = @ + Len(body.batch),
                                          !.batch = <<>>, !.claims = <<>>, !.outcomes = <<>>,
                                          !.results = <<>>])

PersistToolResults ==
  Checkpoint("results", <<"toolresults", body.step>>, {"ok"},
             LAMBDA v : [db EXCEPT !.told[body.step] = body.results],
             LAMBDA v : IF Halts(body) \/ body.step = MaxSteps THEN [body EXCEPT !.at = "finish"]
                        ELSE [body EXCEPT !.at = "head", !.step = @ + 1, !.first = @ + Len(body.batch),
                                          !.batch = <<>>, !.claims = <<>>, !.outcomes = <<>>,
                                          !.results = <<>>])

-----------------------------------------------------------------------------
(***************************************************************************)
(* The end of the turn, good or bad, and the thread handed on.             *)
(***************************************************************************)
\* recordRunEnd: the first terminal status of a run's row stands.
RunEnded(d, status) == [d EXCEPT !.run = IF @ = "running" THEN status ELSE @]

\* failUnsettledToolCalls.
NoCards(d) == [d EXCEPT !.row = [c \in Calls |-> IF @[c] = "pending_approval" THEN "failed" ELSE @[c]]]

Released(d) == [d EXCEPT !.holder = IF @ = "run" THEN "nobody" ELSE @]

\* ChatQueueService.plan, by the holder only: the head is claimed for and popped, or the queue pauses.
Starts(outcome) ==
  db.holder = "run" /\ db.waiting > 0 /\ ~db.paused
    /\ (outcome = "completed" \/ (outcome = "cancelled" /\ db.interrupt))

Planned(outcome) ==
  IF Starts(outcome) THEN [db EXCEPT !.holder = "next", !.waiting = @ - 1]
  ELSE IF db.holder = "run" THEN [Released(db) EXCEPT !.paused = @ \/ db.waiting > 0]
  ELSE db

Restored(d) == [d EXCEPT !.waiting = @ + 1, !.paused = TRUE,
                         !.holder = IF @ = "next" THEN "nobody" ELSE @]

FinishRun ==
  Checkpoint("finish", <<"run:end">>, {"ok"},
             LAMBDA v : RunEnded(db, "completed"),
             LAMBDA v : [body EXCEPT !.at = "advance"])

\* Mutant: only the run's row is settled.
FailRunOnly ==
  Checkpoint("fail", <<"run:fail">>, {"ok"},
             LAMBDA v : RunEnded(db, "failed"),
             LAMBDA v : [body EXCEPT !.at = "advance"])

FailRun ==
  Checkpoint("fail", <<"run:fail">>, {"ok"},
             LAMBDA v : NoCards(RunEnded(db, "failed")),
             LAMBDA v : [body EXCEPT !.at = "advance"])

Advanced(b) == [b EXCEPT !.at = IF b.failing THEN "release" ELSE "close"]

AdvanceQueue ==
  LET outcome == IF body.failing THEN "failed" ELSE "completed"
  IN  /\ body.at = "advance"
      /\ Checkpoint("advance", <<"queue", outcome>>, {IF Starts(outcome) THEN "next" ELSE "none"},
                    LAMBDA v : Planned(outcome),
                    LAMBDA v : IF v = "next" THEN [body EXCEPT !.at = "spawn"] ELSE Advanced(body))

StartNext ==
  Checkpoint("spawn", <<"spawn">>, {"ok"} \cup (IF May("nostart") THEN {"threw"} ELSE {}),
             LAMBDA v : IF v = "ok" THEN [db EXCEPT !.next = 1] ELSE db,
             LAMBDA v : IF v = "ok" THEN Advanced(body) ELSE [body EXCEPT !.at = "restore"])

RestoreNext ==
  Checkpoint("restore", <<"queue:restore">>, {"ok"}, LAMBDA v : Restored(db), LAMBDA v : Advanced(body))

CloseStream ==
  /\ Local("close")
  /\ db' = [db EXCEPT !.stream = "ended"]
  /\ body' = [body EXCEPT !.at = IF body.failing THEN "over" ELSE "release"]
  /\ UNCHANGED engine

Deactivate ==
  Checkpoint("release", <<"deactivate">>, {"ok"}, LAMBDA v : Released(db),
             LAMBDA v : [body EXCEPT !.at = IF body.failing THEN "close" ELSE "over"])

Return ==
  /\ Local("over")
  /\ body' = Off
  /\ engine' = [engine EXCEPT !.status = IF @ # "active" THEN @
                                         ELSE IF body.failing THEN "failed" ELSE "completed"]
  /\ UNCHANGED db

Body ==
  \/ OpenRun \/ CheckQuota \/ PersistUser \/ BeforeModel \/ RunTurn \/ ProcessOutput \/ PersistUsage
  \/ BumpQuota \/ BeforePersist \/ PersistAssistant \/ ClaimToolCall \/ GiveReceipt \/ PresentCompleted
  \/ RefuseQuestion \/ AwaitDecision \/ PoseQuestion \/ AwaitAnswer \/ InvokeClaimedTool \/ InvokeTogether \/ JoinTogether \/ SettleCall
  \/ PersistToolResults \/ FinishRun \/ FailRun \/ AdvanceQueue \/ StartNext \/ RestoreNext
  \/ CloseStream \/ Deactivate \/ Return

-----------------------------------------------------------------------------
(***************************************************************************)
(* The engine: it loads a run that can go on, answers its waits, and       *)
(* unloads one that was cancelled.                                         *)
(***************************************************************************)
\* Mutant: a run whose worker died is not taken again.
ResumeUnlessCrashed ==
  /\ body.at = "off" /\ engine.status = "active" /\ engine.parked = NotParked /\ crashes = 0
  /\ body' = Fresh
  /\ UNCHANGED <<log, engine, db, crashes, world>>

Resume ==
  /\ body.at = "off" /\ engine.status = "active" /\ engine.parked = NotParked
  /\ body' = Fresh
  /\ UNCHANGED <<log, engine, db, crashes, world>>

\* Calls launched together that have no record yet: all of them may have had their effect.
InFlight ==
  IF body.at = "together" THEN {body.first + n : n \in {k \in DOMAIN body.batch : body.pos + k \notin DOMAIN log}}
  ELSE {}

\* A worker that dies while it only walks the journal loses nothing: that case is left out.
Crash ==
  /\ body.at \notin {"off", "diverged"} /\ crashes < MaxCrashes
  /\ body.pos + 1 \notin DOMAIN log \/ InFlight # {}
  /\ \E cut \in SUBSET InFlight :
       db' = [db EXCEPT !.ran = [c \in Calls |-> IF c \in cut THEN @[c] + 1 ELSE @[c]]]
  /\ crashes' = crashes + 1
  /\ body' = Off
  /\ UNCHANGED <<log, engine, world>>

\* Mutant: the wait stays armed.
AnswerArmed(reply) ==
  /\ engine.status = "active"
  /\ Recorded(engine.parked.pos, <<"wait", engine.parked.call>>, reply)
  /\ UNCHANGED <<body, engine, db, crashes, sending, replies, stop, now>>

Answer(reply) ==
  /\ engine.status = "active"
  /\ Recorded(engine.parked.pos, <<"wait", engine.parked.call>>, reply)
  /\ engine' = [engine EXCEPT !.parked = NotParked]
  /\ UNCHANGED <<body, db, crashes, sending, replies, stop, now>>

TakeReply ==
  LET call == engine.parked.call
  IN  /\ engine.parked # NotParked /\ mail[call] # <<>>
      /\ Answer(Head(mail[call]))
      /\ mail' = [mail EXCEPT ![call] = Tail(@)]

Lapse ==
  /\ engine.parked # NotParked
  /\ engine.parked.until # Never /\ engine.parked.until <= now
  /\ Answer("expired")
  /\ UNCHANGED mail

Halt ==
  /\ engine.status = "cancelled" /\ body.at # "off"
  /\ body' = Off
  /\ UNCHANGED <<log, engine, db, crashes, world>>

\* Time is told only by the cards and the waits it closes: it reaches any deadline the run waits
\* for, and passes on its own up to MaxTime.
Tick ==
  /\ \/ engine.parked.until > now
     \/ now < MaxTime /\ \E c \in Calls : db.row[c] = "pending_approval" /\ db.expires[c] > now
  /\ now' = now + 1
  /\ UNCHANGED <<body, log, engine, db, crashes, mail, sending, replies, stop>>

-----------------------------------------------------------------------------
(***************************************************************************)
(* People: approve, reject, answer and skip, and Stop.                     *)
(***************************************************************************)
\* mayDecide answers 410 for a card that lapsed, approve and reject refuse a proposal; what waits
\* no more, and answers to any call, go through.  assertRunWaiting then asks for the run.
Open(call, reply) ==
  /\ db.row[call] # "none"
  /\ reply # "answers" => /\ db.row[call] \notin {"expired", "proposed"}
                          /\ db.row[call] = "pending_approval" => db.expires[call] = Never \/ db.expires[call] > now

Admit ==
  /\ sending = NoReply /\ replies.sent < MaxReplies /\ engine.status = "active"
  /\ \E call \in Calls, reply \in Replies :
       /\ Open(call, reply)
       /\ sending' = [call |-> call, reply |-> reply]
       /\ replies' = [sent |-> replies.sent + 1,
                      agreed |-> replies.agreed \cup (IF reply = "yes" THEN {call} ELSE {})]
  /\ UNCHANGED <<body, log, engine, db, crashes, mail, stop, now>>

\* The run is over: what it left behind is settled and the reply refused.
RefuseDead ==
  /\ engine.status # "active"
  /\ \E call \in Calls, reply \in Replies : Open(call, reply)
  /\ db' = NoCards(RunEnded(db, "failed"))
  /\ UNCHANGED <<body, log, engine, crashes, world>>

Signal ==
  /\ sending # NoReply
  /\ mail' = [mail EXCEPT ![sending.call] = Append(@, sending.reply)]
  /\ sending' = NoReply
  /\ UNCHANGED <<body, log, engine, db, crashes, replies, stop, now>>

Stopping(at, next) ==
  /\ stop = at
  /\ stop' = next
  /\ UNCHANGED <<body, log, crashes, mail, sending, replies, now>>

StopEngine ==
  /\ May("stop") /\ db.run # "none"
  /\ Stopping("none", "record")
  /\ engine' = [status |-> IF engine.status = "active" THEN "cancelled" ELSE engine.status,
                parked |-> NotParked]
  /\ UNCHANGED db

\* Mutant: the thread is handed on before the run's row is settled.
StopRecordLater ==
  /\ Stopping("record", "hand")
  /\ UNCHANGED <<engine, db>>

StopRecord ==
  /\ Stopping("record", "hand")
  /\ db' = RunEnded(db, "cancelled")
  /\ UNCHANGED engine

\* Mutant: a stopped turn frees its thread like a completed one that has no successor.
StopHandoffUnpaused ==
  /\ Stopping("hand", IF Starts("cancelled") THEN "start" ELSE "free")
  /\ db' = [Planned("cancelled") EXCEPT !.paused = db.paused]
  /\ UNCHANGED engine

StopHandoff ==
  /\ Stopping("hand", IF Starts("cancelled") THEN "start" ELSE "free")
  /\ db' = Planned("cancelled")
  /\ UNCHANGED engine

StopStarts ==
  /\ Stopping("start", "free")
  /\ \/ db' = [db EXCEPT !.next = 1]
     \/ May("nostart") /\ db' = Restored(db)
  /\ UNCHANGED engine

StopReleases ==
  /\ Stopping("free", "end")
  /\ db' = Released(db)
  /\ UNCHANGED engine

StopEnds ==
  /\ Stopping("end", "done")
  /\ db' = [db EXCEPT !.stream = "ended"]
  /\ UNCHANGED engine

Stop == StopEngine \/ StopRecord \/ StopHandoff \/ StopStarts \/ StopReleases \/ StopEnds

People == Admit \/ RefuseDead \/ Signal \/ Stop

Next == Body \/ Resume \/ Crash \/ TakeReply \/ Lapse \/ Halt \/ Tick \/ People

Spec == Init /\ [][Next]_vars

-----------------------------------------------------------------------------
\* Workers take a run that can go on and run it, the engine delivers what it was handed and
\* fires its timers, and time passes: nobody has to decide a card, and nobody has to Stop.
Fairness ==
  /\ WF_vars(Body) /\ WF_vars(Resume) /\ WF_vars(TakeReply \/ Lapse) /\ WF_vars(Tick) /\ WF_vars(Signal)

LiveSpec == Spec /\ Fairness

-----------------------------------------------------------------------------
(***************************************************************************)
(* Properties.                                                             *)
(***************************************************************************)
Terminal == {"completed", "failed", "cancelled"}
Outcomes == {"executed", "failed", "rejected", "expired"}
Statuses == Outcomes \cup {"none", "auto_executed", "pending_approval", "proposed"}
Ended == engine.status \in {"completed", "failed"}

\* The kinds of every variable.
TypeOK ==
  /\ body.at # "off" => body.pos \in Nat /\ body.step \in Steps /\ body.first \in 0..MaxCalls
                        /\ Len(body.results) <= Len(body.batch) /\ Len(body.claims) <= Len(body.batch)
  /\ engine.status \in {"active", "completed", "failed", "cancelled"}
  /\ engine.parked.call \in 0..MaxCalls
  /\ engine.parked # NotParked => body = Off /\ engine.parked.pos \notin DOMAIN log
  /\ db.run \in {"none", "running"} \cup Terminal
  /\ db.row \in [Calls -> Statuses]
  /\ db.holder \in {"run", "next", "nobody"} /\ db.waiting \in Nat /\ db.next \in 0..1
  /\ mail \in [Calls -> Seq(Replies)]
  /\ replies.sent \in 0..MaxReplies /\ replies.agreed \subseteq Calls
  /\ stop \in {"none", "record", "hand", "start", "free", "end", "done"}
  /\ now \in Nat /\ crashes \in 0..MaxCrashes

\* A body that comes back asks its journal for the checkpoints the journal holds, in their order,
\* whatever was decided afresh since: kinds, approvals and outcomes are read from the journal only.
NeverDiverges == body.at # "diverged"

\* What the journal holds of a call's claim: at most one claim of a call did not throw.
ClaimOf(c) == {log[p].value : p \in {q \in DOMAIN log : log[q].name = <<"toolcall", c>>}}

\* A call that was put to a person ran only if a person approved it before its card lapsed.
RunsOnlyApproved ==
  \A c \in Calls : ClaimOf(c) \cap {"ask", "hold"} # {} /\ db.ran[c] > 0 => c \in replies.agreed

\* first gives each step the number of the last call before it: the calls are numbered through the run.
Numbers(first) ==
  /\ first[1] = 0
  /\ \A i \in Steps : i + 1 \in Steps => first[i + 1] = first[i] + Len(db.told[i])

\* What a call's row says is what happened to it, and what the model was told is what the row says.
\* A call settled or proposed by its claim never ran; one shown as executed ran, was answered, or
\* was completed by its claim, which a crash may have cut off from its record.
RowsTellTheTruth ==
  /\ \A c \in Calls :
       /\ db.row[c] \in {"rejected", "expired", "proposed"} => db.ran[c] = 0
       /\ ClaimOf(c) \cap (Preflights \cup {"proposal"}) # {} => db.ran[c] = 0
       /\ db.row[c] = "executed" =>
            \/ db.ran[c] > 0
            \/ \E p \in DOMAIN log : log[p].name = <<"elicitation", c>>
            \/ ClaimOf(c) \subseteq {"completed", "presented", "threw"}
  /\ \E first \in [Steps -> 0 .. MaxCalls] :
       Numbers(first) /\ \A i \in Steps : \A n \in DOMAIN db.told[i] : db.row[first[i] + n] = db.told[i][n]

\* What the body does outside its journal, under the name of its checkpoint, and how often it was done.
Deeds == {<<"user">>} \cup ({"usage", "bump", "assistant"} \X Steps) \cup ({"tool"} \X Calls)

Times(e) == CASE e[1] = "user"      -> db.users
              [] e[1] = "usage"     -> db.usage[e[2]]
              [] e[1] = "bump"      -> db.bumped[e[2]]
              [] e[1] = "assistant" -> db.messages[e[2]]
              [] e[1] = "tool"      -> db.ran[e[2]]

\* The calls claimed as reads.
ReadCalls == {c \in Calls : \E p \in DOMAIN log : log[p].name = <<"toolcall", c>> /\ log[p].value = "read"}

\* The times an effect was had again, a read's aside.
Repetitions == UNION {{<<e, n>> : n \in 2 .. Times(e)} : e \in Deeds \ ({"tool"} \X ReadCalls)}

\* Nothing is done twice except what a crash cut off from its record: one effect for each crash,
\* and reads, of which several may have been under way.
RepeatedOnlyByCrash ==
  Cardinality(Repetitions) <= crashes /\ \A c \in ReadCalls : db.ran[c] <= crashes + 1

\* A run that ended by itself has a settled row, and none of its calls waits for a person.
EndedIsSettled ==
  Ended => db.run \in Terminal /\ \A c \in Calls : db.row[c] # "pending_approval"

\* A completed run answered every call it made: each has an outcome, and its message has them all.
CompletedIsWhole ==
  db.run = "completed" =>
    /\ \A c \in Calls : db.row[c] \in Outcomes \cup {"none", "proposed"}
    /\ \A p \in DOMAIN log : \A i \in Steps :
         log[p].name = <<"llm", i>> => Len(db.told[i]) = Len(log[p].value.calls)

\* Every model turn of a run that ended was paid for, also the turn that failed the run.
SpendIsRecorded ==
  Ended => \A p \in DOMAIN log : \A i \in Steps :
             log[p].name = <<"llm", i>> /\ ~log[p].value.threw => db.usage[i] > 0 /\ db.bumped[i] > 0

\* The message queued behind the turn starts when the turn's row says how it ended.
NextWaitsItsTurn == db.next > 0 => db.run \in Terminal

\* A Stop leaves the thread to its next message or to nobody, and then the queue behind it paused.
StoppedThreadMovesOn ==
  stop = "done" => db.holder # "run" /\ (db.holder = "nobody" /\ db.waiting > 0 => db.paused)

\* A reply that settles a call waiting for a person: answers say nothing about a proposed action.
Deciding(c) == \E i \in DOMAIN mail[c] : mail[c][i] = "answers" => "question" \in ClaimOf(c)

\* The run waits for a call nobody decided, for which nobody was given a deadline.
Held == engine.parked # NotParked /\ engine.parked.until = Never /\ ~Deciding(engine.parked.call)

\* Without anybody deciding, a run ends or waits for a decision that has no deadline.
TurnEnds == <>(engine.status # "active" \/ Held)

\* A card that has a deadline, or was decided, is closed, unless an earlier call of its step keeps
\* the run waiting without a deadline.
CardCloses ==
  \A c \in Calls : (db.row[c] = "pending_approval" /\ (db.expires[c] # Never \/ Deciding(c)))
                     ~> db.row[c] # "pending_approval" \/ (Held /\ engine.parked.call < c)

\* A thread handed to its next message has that message started once the turn that handed it is over.
HandedOverIsStarted == Ended /\ db.holder = "next" => db.next = 1

\* Not true of the code (README, section 5): a run waits no longer than the card it shows says.
WaitsAsLongAsTheCard ==
  engine.parked.until # Never => engine.parked.until <= db.expires[engine.parked.call]
=============================================================================
