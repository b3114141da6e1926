------------------------------ MODULE ChatQueue ------------------------------
(***************************************************************************)
(* The message queue of one thread with the inline runner: requests (send, *)
(* resume, stop, ...) and the turns themselves are tasks of one process    *)
(* that interleave at every await of the store.  The store keeps the       *)
(* thread's holder (active_stream_id), the waiting messages and the pause; *)
(* each conditional UPDATE of it is one step.  A turn's own work is left   *)
(* out: it runs, then completes, fails, or stops at a safe point.          *)
(* A message id is also the id of the run it starts.                       *)
(***************************************************************************)
EXTENDS Integers, FiniteSets, SequencesExt

CONSTANTS Requests,     \* requests that clients make, once each
          Scenarios,    \* what clients ask and what goes wrong: a behaviour follows one of them
          Spare,        \* ids left for messages put back into the queue
          MaxDrain,     \* MAX_DRAIN_ATTEMPTS
          None

Sends    == {"send", "queue", "interrupt", "chat"}
Commands == {"resume", "promote", "reorder", "stop", "remove", "clear"}
Reasons  == {"run_failed", "cancelled", "quota_exceeded", "start_failed"}
Ends     == {"completed", "failed", "cancelled"}
Ids      == Requests \cup Spare

\* kind: what a request is, a send or one of some commands (or, with none, not made at all).
\* inFlight: bound on the requests served at a time; faults: bound on failed starts and crashes.
Scenario == [kind : [Requests -> {{send} : send \in Sends} \cup SUBSET Commands],
             inFlight : Nat \ {0}, faults : Nat,
             environment : SUBSET {"fail", "quota", "nostart", "crash"}]

ASSUME QueueAssumption ==
  /\ Scenarios \subseteq Scenario /\ MaxDrain \in Nat \ {0}
  /\ None \notin Ids /\ Requests \cap Spare = {}

VARIABLES
  holder,     \* the thread's active_stream_id
  queue,      \* its waiting messages, in run order
  pause,      \* its queue_pause
  row,        \* [Ids -> how the run row says the run ended]
  cancelled,  \* the runner's set of runs somebody asked to stop
  task,       \* [Tasks -> where each request and each turn stands]
  accepted,   \* history: ids of messages that entered the queue
  gone,       \* history: those a client removed, or put back under another id
  starts,     \* history: [Ids -> times the runner started it]
  faults,     \* failed starts and crashes so far
  scenario    \* the one this behaviour follows

table == <<holder, queue, pause>>
log   == <<accepted, gone, starts>>
vars  == <<table, row, cancelled, task, log, faults, scenario>>

Kind == scenario.kind
Happens(what) == what \in scenario.environment
Fault(what) == Happens(what) /\ faults < scenario.faults /\ faults' = faults + 1

\* What decides control of a queued message; its text, actor, persona, ... are left out.
Message == [id : Ids \cup {None}, interrupt : BOOLEAN]

Tasks == {<<"request", r>> : r \in Requests} \cup {<<"turn", i>> : i \in Ids}

Pcs == {"idle", "look", "judge", "bury", "claim", "reclaim", "start", "unclaim", "enqueue",
        "unpause", "cancel", "record", "kick", "stale", "takeback", "move", "lift", "peek",
        "check", "waits", "clearpause", "guard", "list", "release", "pause", "setpause", "park", "pop",
        "input", "set", "restore", "repause", "rerelease", "running", "ended", "free", "done"}

\* run: the run a plan, a cancel or a kick is about; holding, head, tries: the locals of plan.
Task == [pc : Pcs, run : Ids \cup {None}, outcome : Ends, reason : Reasons \cup {"none"},
         holding : Ids \cup {None}, head : Message, tries : Nat,
         back : {"done", "free", "start", "takeback"}]

NoMessage == [id |-> None, interrupt |-> FALSE]
Unborn == [pc |-> "idle", run |-> None, outcome |-> "completed", reason |-> "none",
           holding |-> None, head |-> NoMessage, tries |-> 0, back |-> "done"]

Done   == [Unborn EXCEPT !.pc = "done"]

Waiting == {queue[n].id : n \in DOMAIN queue}
Place(id) == CHOOSE n \in DOMAIN queue : queue[n].id = id
Without(id) == IF id \in Waiting THEN RemoveAt(queue, Place(id)) ELSE queue

At(x, pc) == task[x].pc = pc
Goto(x, pc) ==
  task' = [task EXCEPT ![x] = IF pc = "done" THEN Done ELSE [@ EXCEPT !.pc = pc]]

\* Conditional on the holder: never clears a successor's claim.
Released(id) == IF holder = id THEN None ELSE holder

\* recordRunEnd is first-terminal.
Recorded(id, end) == [row EXCEPT ![id] = IF @ = "none" THEN end ELSE @]

\* runner.live holds a turn from its start until its promise chain ends.
Live(i) == task[<<"turn", i>>].pc \notin {"idle", "done"}

\* queue.starting holds a run while `launch` starts it.
Starting(i) ==
  \E x \in Tasks : task[x].head.id = i /\ task[x].pc \in {"set", "restore", "repause", "rerelease"}

IsAlive(i) == Starting(i) \/ Live(i)

\* The first synchronous stretch of a turn whose setActiveStream succeeded.
Begun(i) == [Unborn EXCEPT !.pc = "running", !.run = i, !.back = "free"]

\* Back to the caller, the locals of plan forgotten.
Returned(x) ==
  IF task[x].back = "done" THEN Done
  ELSE [Unborn EXCEPT !.pc = task[x].back, !.run = task[x].run, !.back = task[x].back]

\* A client makes request r.
Arrives(r) ==
  /\ At(<<"request", r>>, "idle")
  /\ Cardinality({q \in Requests : task[<<"request", q>>].pc \notin {"idle", "done"}}) < scenario.inFlight

Return(x) == task' = [task EXCEPT ![x] = Returned(x)]

-----------------------------------------------------------------------------
(* A send: who holds the thread, claim it and start, or queue behind it.   *)

SendTurn(r) ==
  /\ Arrives(r) /\ Kind[r] \in {{send} : send \in Sends}
  /\ task' = [task EXCEPT ![<<"request", r>>] =
                [Unborn EXCEPT !.pc = "look", !.back = "start",
                               !.head = [id |-> r, interrupt |-> FALSE]]]
  /\ UNCHANGED <<table, row, cancelled, log, faults>>

Look(x) ==
  /\ At(x, "look")
  /\ task' = [task EXCEPT ![x].run = holder, ![x].pc = "judge"]
  /\ UNCHANGED <<table, row, cancelled, log, faults>>

Judge(x) ==
  LET run   == task[x].run
      alive == run # None /\ IsAlive(run)
      queues == alive \/ "queue" \in Kind[x[2]]
  IN  /\ At(x, "judge")
      /\ task' = [task EXCEPT
            ![x].holding = IF alive THEN None ELSE run,
            ![x].run     = IF alive THEN run ELSE None,
            ![x].pc = IF run # None /\ ~alive THEN "bury" ELSE IF queues THEN "enqueue" ELSE "claim"]
      /\ UNCHANGED <<table, row, cancelled, log, faults>>

SettleDeadRun(x) ==
  /\ At(x, "bury")
  /\ row' = Recorded(task[x].holding, "failed")
  /\ Goto(x, IF "queue" \in Kind[x[2]] THEN "enqueue" ELSE "claim")
  /\ UNCHANGED <<table, cancelled, log, faults>>

\* claimActiveStream, its two UPDATEs: a free thread; one held by the run itself or `replacing`.
Claimed(x) ==
  /\ holder' = task[x].head.id
  /\ task' = [task EXCEPT ![x].pc = IF task[x].back = "start" THEN "start" ELSE "pop"]

ClaimFree(x) ==
  /\ At(x, "claim")
  /\ IF holder = None THEN Claimed(x) ELSE Goto(x, "reclaim") /\ UNCHANGED holder
  /\ UNCHANGED <<queue, pause, row, cancelled, log, faults>>

ClaimHeld(x) ==
  /\ At(x, "reclaim")
  /\ IF holder # None /\ holder \in {task[x].head.id, task[x].holding} THEN Claimed(x)
     ELSE /\ IF task[x].back = "start" THEN Goto(x, "enqueue") ELSE Return(x)
          /\ UNCHANGED holder
  /\ UNCHANGED <<queue, pause, row, cancelled, log, faults>>

\* runner.start: setActiveStream has no condition.
RunnerStart(x, i) ==
  /\ holder' = i
  /\ starts' = [starts EXCEPT ![i] = @ + 1]
  /\ UNCHANGED <<queue, pause, row, cancelled, accepted, gone, faults>>

StartFails == Fault("nostart")

StartClaimed(x) ==
  LET i == task[x].head.id
  IN  /\ At(x, "start")
      /\ \/ /\ RunnerStart(x, i)
            /\ task' = [task EXCEPT ![x] = Done, ![<<"turn", i>>] = Begun(i)]
         \/ StartFails /\ Goto(x, "unclaim") /\ UNCHANGED <<table, row, cancelled, log>>

Unclaim(x) ==
  /\ At(x, "unclaim")
  /\ holder' = Released(task[x].head.id)
  /\ Goto(x, "done")
  /\ UNCHANGED <<queue, pause, row, cancelled, log, faults>>

\* An interrupt of a live turn takes the head; anything else the tail.
Enqueue(x) ==
  LET interrupting == "interrupt" \in Kind[x[2]] /\ task[x].run # None
      message == [task[x].head EXCEPT !.interrupt = interrupting]
  IN  /\ At(x, "enqueue")
      /\ queue' = IF interrupting THEN <<message>> \o queue ELSE Append(queue, message)
      /\ accepted' = accepted \cup {message.id}
      /\ task' = [task EXCEPT ![x].pc = IF interrupting THEN "unpause" ELSE "kick",
                              ![x].back = IF "chat" \in Kind[x[2]] THEN "takeback" ELSE "done"]
      /\ UNCHANGED <<holder, pause, row, cancelled, gone, starts, faults>>

Unpause(x) ==
  /\ At(x, "unpause")
  /\ pause' = "none" /\ Goto(x, "cancel")
  /\ UNCHANGED <<holder, queue, row, cancelled, log, faults>>

\* chat(): a message that would have to wait is taken back.
TakeBack(x) ==
  /\ At(x, "takeback")
  /\ queue' = Without(x[2])
  /\ gone' = IF x[2] \in Waiting THEN gone \cup {x[2]} ELSE gone
  /\ Goto(x, "done")
  /\ UNCHANGED <<holder, pause, row, cancelled, accepted, starts, faults>>

-----------------------------------------------------------------------------
(* The other requests.                                                     *)

ResumeQueue(r) ==
  /\ Arrives(r) /\ "resume" \in Kind[r]
  /\ pause' = "none"
  /\ Goto(<<"request", r>>, "kick")
  /\ UNCHANGED <<holder, queue, row, cancelled, log, faults>>

RemoveQueuedMessage(r) ==
  /\ Arrives(r) /\ "remove" \in Kind[r]
  /\ \E id \in Waiting : queue' = Without(id) /\ gone' = gone \cup {id}
  /\ Goto(<<"request", r>>, "done")
  /\ UNCHANGED <<holder, pause, row, cancelled, accepted, starts, faults>>

MoveQueuedMessage(r) ==
  /\ Arrives(r) /\ "reorder" \in Kind[r]
  /\ \E n \in DOMAIN queue : \E index \in 0 .. Len(queue) - 1 :
       queue' = InsertAt(RemoveAt(queue, n), index + 1, queue[n])
  /\ Goto(<<"request", r>>, "done")
  /\ UNCHANGED <<holder, pause, row, cancelled, log, faults>>

ClearQueue(r) ==
  /\ Arrives(r) /\ "clear" \in Kind[r]
  /\ queue' = <<>> /\ gone' = gone \cup Waiting
  /\ Goto(<<"request", r>>, "clearpause")
  /\ UNCHANGED <<holder, pause, row, cancelled, accepted, starts, faults>>

ClearPause(x) ==
  /\ At(x, "clearpause")
  /\ pause' = "none" /\ Goto(x, "done")
  /\ UNCHANGED <<holder, queue, row, cancelled, log, faults>>

\* Interrupting for a waiting message: mark it, move it to the head, lift the pause, look.
InterruptQueuedMessage(r) ==
  /\ Arrives(r) /\ "promote" \in Kind[r]
  /\ \E n \in DOMAIN queue :
       /\ queue' = [queue EXCEPT ![n].interrupt = TRUE]
       /\ task' = [task EXCEPT ![<<"request", r>>].pc = "move",
                               ![<<"request", r>>].head = queue'[n]]
  /\ UNCHANGED <<holder, pause, row, cancelled, log, faults>>

MoveToHead(x) ==
  LET id == task[x].head.id
  IN  /\ At(x, "move")
      /\ IF id \in Waiting
         THEN queue' = <<queue[Place(id)]>> \o Without(id) /\ Goto(x, "lift")
         ELSE Goto(x, "done") /\ UNCHANGED queue
      /\ UNCHANGED <<holder, pause, row, cancelled, log, faults>>

LiftPause(x) ==
  /\ At(x, "lift")
  /\ pause' = "none" /\ Goto(x, "peek")
  /\ UNCHANGED <<holder, queue, row, cancelled, log, faults>>

Peek(x) ==
  /\ At(x, "peek")
  /\ task' = [task EXCEPT ![x].run = holder, ![x].pc = "check"]
  /\ UNCHANGED <<table, row, cancelled, log, faults>>

CheckLive(x) ==
  LET run == task[x].run
  IN  /\ At(x, "check")
      /\ Goto(x, IF run = None \/ ~IsAlive(run) THEN "kick"
                 ELSE IF run # task[x].head.id THEN "waits" ELSE "done")
      /\ UNCHANGED <<table, row, cancelled, log, faults>>

\* Cancel the live turn for the message, unless the drain started it already.
CheckWaiting(x) ==
  /\ At(x, "waits")
  /\ Goto(x, IF task[x].head.id \in Waiting THEN "cancel" ELSE "done")
  /\ UNCHANGED <<table, row, cancelled, log, faults>>

\* Stop names a run a client was told of.
StopRun(r) ==
  /\ Arrives(r) /\ "stop" \in Kind[r]
  /\ \E i \in Ids : /\ i = holder \/ Live(i)
                    /\ task' = [task EXCEPT ![<<"request", r>>].pc = "cancel",
                                            ![<<"request", r>>].run = i]
  /\ UNCHANGED <<table, row, cancelled, log, faults>>

\* runner.cancel: the flag, then the run row, then the queue of a run it is running.
Cancel(x) ==
  /\ At(x, "cancel")
  /\ cancelled' = cancelled \cup {task[x].run}
  /\ Goto(x, "record")
  /\ UNCHANGED <<table, row, log, faults>>

CancelRecord(x) ==
  LET i == task[x].run
  IN  /\ At(x, "record")
      /\ row' = Recorded(i, "cancelled")
      /\ IF Live(i)
         THEN /\ task' = [task EXCEPT ![x].pc = "guard", ![x].outcome = "cancelled",
                                      ![x].back = "free"]
              /\ UNCHANGED cancelled
         ELSE Goto(x, "done") /\ cancelled' = cancelled \ {i}
      /\ UNCHANGED <<table, log, faults>>

Kick(x) ==
  /\ At(x, "kick")
  /\ task' = [task EXCEPT ![x].run = holder, ![x].pc = "stale"]
  /\ UNCHANGED <<table, row, cancelled, log, faults>>

\* A thread whose holder is dead is planned as if that run completed.
KickStale(x) ==
  LET run == task[x].run
  IN  /\ At(x, "stale")
      /\ IF run # None /\ IsAlive(run) THEN Return(x) ELSE Goto(x, "guard")
      /\ UNCHANGED <<table, row, cancelled, log, faults>>

-----------------------------------------------------------------------------
(* plan, launch and restore: called by a kick, by a turn that ends and by  *)
(* a cancel.                                                               *)

\* Only the run holding the thread moves it on.
PlanGuard(x) ==
  /\ At(x, "guard")
  /\ IF holder # task[x].run THEN Return(x)
     ELSE task' = [task EXCEPT ![x].pc = "list", ![x].holding = task[x].run, ![x].tries = 0]
  /\ UNCHANGED <<table, row, cancelled, log, faults>>

\* Fault: the head is taken out of the queue as it is read.
ListQueueAndTake(x) ==
  /\ At(x, "list")
  /\ IF task[x].tries = MaxDrain \/ (queue = <<>> /\ task[x].holding = None)
     THEN Return(x) /\ UNCHANGED queue
     ELSE IF queue = <<>> THEN Goto(x, "release") /\ UNCHANGED queue
     ELSE /\ task' = [task EXCEPT ![x].pc = "pause", ![x].head = Head(queue)]
          /\ queue' = Tail(queue)
  /\ UNCHANGED <<holder, pause, row, cancelled, log, faults>>

ListQueue(x) ==
  /\ At(x, "list")
  /\ IF task[x].tries = MaxDrain \/ (queue = <<>> /\ task[x].holding = None) THEN Return(x)
     ELSE IF queue = <<>> THEN Goto(x, "release")
     ELSE task' = [task EXCEPT ![x].pc = "pause", ![x].head = Head(queue)]
  /\ UNCHANGED <<table, row, cancelled, log, faults>>

\* Fault: the queue is not read again once the thread is free.
ReleaseOnly(x) ==
  /\ At(x, "release")
  /\ holder' = Released(task[x].holding)
  /\ Return(x)
  /\ UNCHANGED <<queue, pause, row, cancelled, log, faults>>

\* An empty queue, or a head that was removed under the drain: free the thread, look again.
ReleaseAndRetry(x) ==
  /\ At(x, "release")
  /\ holder' = Released(task[x].holding)
  /\ task' = [task EXCEPT ![x].holding = None, ![x].head = NoMessage,
                          ![x].tries = @ + 1, ![x].pc = "list"]
  /\ UNCHANGED <<queue, pause, row, cancelled, log, faults>>

\* Fault: the pause is named after the outcome.
PauseNamedByOutcome(t) == IF t.outcome # "completed" THEN t.outcome ELSE "none"

PauseReason(t) ==
  IF t.outcome = "failed" THEN "run_failed"
  ELSE IF t.outcome = "cancelled" /\ ~t.head.interrupt THEN "cancelled" ELSE "none"

QueuePause(x) ==
  /\ At(x, "pause")
  /\ \E blocked \in {FALSE, Happens("quota")} :
       LET reason == IF PauseReason(task[x]) # "none" THEN PauseReason(task[x])
                     ELSE IF blocked THEN "quota_exceeded" ELSE "none"
       IN  task' = [task EXCEPT
              ![x].reason = IF pause = "none" THEN reason ELSE "none",
              ![x].pc = IF pause # "none" THEN "park"
                        ELSE IF reason # "none" THEN "setpause" ELSE "claim"]
  /\ UNCHANGED <<table, row, cancelled, log, faults>>

SetQueuePause(x) ==
  /\ At(x, "setpause")
  /\ pause' = task[x].reason /\ Goto(x, "park")
  /\ UNCHANGED <<holder, queue, row, cancelled, log, faults>>

Park(x) ==
  /\ At(x, "park")
  /\ holder' = IF task[x].holding # None THEN Released(task[x].holding) ELSE holder
  /\ Return(x)
  /\ UNCHANGED <<queue, pause, row, cancelled, log, faults>>

\* Fault: the answer of the DELETE is ignored.
PopUnchecked(x) ==
  /\ At(x, "pop")
  /\ queue' = Without(task[x].head.id)
  /\ task' = [task EXCEPT ![x].holding = task[x].head.id, ![x].pc = "input"]
  /\ UNCHANGED <<holder, pause, row, cancelled, log, faults>>

\* A claim that is lost leaves the queue to whoever holds the thread: ClaimFree, ClaimHeld.
Pop(x) ==
  LET id == task[x].head.id
  IN  /\ At(x, "pop")
      /\ queue' = Without(id)
      /\ task' = [task EXCEPT ![x].holding = id,
                              ![x].pc = IF id \in Waiting THEN "input" ELSE "release"]
      /\ UNCHANGED <<holder, pause, row, cancelled, log, faults>>

\* inputFor has answered; from here to the end of launch the run is in `starting`.
Launch(x) ==
  /\ At(x, "input") /\ Goto(x, "set")
  /\ UNCHANGED <<table, row, cancelled, log, faults>>

LaunchStart(x) ==
  LET i == task[x].head.id
  IN  /\ At(x, "set")
      /\ \/ /\ RunnerStart(x, i)
            /\ task' = [task EXCEPT ![x] = Returned(x), ![<<"turn", i>>] = Begun(i)]
         \/ StartFails /\ Goto(x, "restore") /\ UNCHANGED <<table, row, cancelled, log>>

Fresh == {i \in Spare : i \notin accepted}

\* The copy has a new id and is no interrupt.
RestoreMessage(x) ==
  /\ At(x, "restore")
  /\ \E i \in Fresh :
       /\ queue' = <<[id |-> i, interrupt |-> FALSE]>> \o queue
       /\ accepted' = accepted \cup {i}
  /\ gone' = gone \cup {task[x].head.id}
  /\ Goto(x, "repause")
  /\ UNCHANGED <<holder, pause, row, cancelled, starts, faults>>

RestorePause(x) ==
  /\ At(x, "repause")
  /\ pause' = "start_failed" /\ Goto(x, "rerelease")
  /\ UNCHANGED <<holder, queue, row, cancelled, log, faults>>

RestoreRelease(x) ==
  /\ At(x, "rerelease")
  /\ holder' = Released(task[x].head.id)
  /\ Return(x)
  /\ UNCHANGED <<queue, pause, row, cancelled, log, faults>>

\* releaseThreadRun after the queue was settled; a turn's promise chain ends here.
ReleaseThreadRun(x) ==
  /\ At(x, "free")
  /\ holder' = Released(task[x].run)
  /\ cancelled' = IF x[1] = "turn" THEN cancelled \ {task[x].run} ELSE cancelled
  /\ Goto(x, "done")
  /\ UNCHANGED <<queue, pause, row, log, faults>>

-----------------------------------------------------------------------------
(* A turn.                                                                 *)

\* The loop's last step records the completion, whatever was asked since its last safe point.
TurnCompletes(x) ==
  /\ At(x, "running")
  /\ row' = Recorded(task[x].run, "completed")
  /\ Goto(x, "ended")
  /\ UNCHANGED <<table, cancelled, log, faults>>

\* A Stop that came too late to interrupt anything still pauses the queue.
SettleQueue(x) ==
  /\ At(x, "ended")
  /\ task' = [task EXCEPT ![x].pc = "guard",
        ![x].outcome = IF task[x].run \in cancelled THEN "cancelled" ELSE "completed"]
  /\ UNCHANGED <<table, row, cancelled, log, faults>>

TurnFails(x) ==
  /\ Happens("fail") /\ At(x, "running")
  /\ row' = Recorded(task[x].run, "failed")
  /\ task' = [task EXCEPT ![x].pc = "guard", ![x].outcome = "failed"]
  /\ UNCHANGED <<table, cancelled, log, faults>>

\* A safe point: RunCancelledError unwinds the loop; the cancel settles the thread.
TurnStops(x) ==
  /\ At(x, "running") /\ task[x].run \in cancelled
  /\ cancelled' = cancelled \ {task[x].run}
  /\ Goto(x, "done")
  /\ UNCHANGED <<table, row, log, faults>>

\* The process dies and another serves the requests to come.
Crash ==
  /\ Fault("crash")
  /\ cancelled' = {}
  /\ task' = [x \in Tasks |-> IF task[x].pc = "idle" THEN task[x] ELSE Done]
  /\ UNCHANGED <<table, row, log>>

-----------------------------------------------------------------------------
Init ==
  /\ holder = None /\ queue = <<>> /\ pause = "none"
  /\ row = [i \in Ids |-> "none"] /\ starts = [i \in Ids |-> 0]
  /\ cancelled = {} /\ accepted = {} /\ gone = {} /\ faults = 0
  /\ task = [x \in Tasks |-> Unborn] /\ scenario \in Scenarios

Request == \E r \in Requests :
  \/ SendTurn(r) \/ ResumeQueue(r) \/ RemoveQueuedMessage(r) \/ MoveQueuedMessage(r)
  \/ ClearQueue(r) \/ InterruptQueuedMessage(r) \/ StopRun(r)

Handler(x) ==
  \/ Look(x) \/ Judge(x) \/ SettleDeadRun(x) \/ ClaimFree(x) \/ ClaimHeld(x)
  \/ StartClaimed(x) \/ Unclaim(x) \/ Enqueue(x) \/ Unpause(x) \/ TakeBack(x)
  \/ ClearPause(x) \/ MoveToHead(x) \/ LiftPause(x) \/ Peek(x) \/ CheckLive(x)
  \/ CheckWaiting(x) \/ Cancel(x) \/ CancelRecord(x) \/ Kick(x) \/ KickStale(x)

Drain(x) ==
  \/ PlanGuard(x) \/ ListQueue(x) \/ ReleaseAndRetry(x) \/ QueuePause(x) \/ SetQueuePause(x)
  \/ Park(x) \/ Pop(x) \/ Launch(x) \/ LaunchStart(x) \/ RestoreMessage(x)
  \/ RestorePause(x) \/ RestoreRelease(x) \/ ReleaseThreadRun(x)

Turn(x) == TurnCompletes(x) \/ SettleQueue(x) \/ TurnFails(x) \/ TurnStops(x)

Next ==
  /\ Request \/ Crash \/ \E x \in Tasks : Handler(x) \/ Drain(x) \/ Turn(x)
  /\ UNCHANGED scenario

Spec == Init /\ [][Next]_vars

-----------------------------------------------------------------------------
TypeOK ==
  /\ holder \in Ids \cup {None}
  /\ queue \in Seq([id : Ids, interrupt : BOOLEAN])
  /\ pause \in Reasons \cup {"none"}
  /\ row \in [Ids -> Ends \cup {"none"}] /\ starts \in [Ids -> Nat]
  /\ cancelled \subseteq Ids /\ accepted \subseteq Ids /\ gone \subseteq Ids
  /\ task \in [Tasks -> Task] /\ faults \in Nat
  /\ scenario \in Scenarios

InHand(id) ==
  \E x \in Tasks : task[x].head.id = id /\ task[x].pc \in {"input", "set", "restore"}

(* A message that entered the queue is never lost, unless a start fails or *)
(* the process dies: it waits, or a drain has it in hand, or its run was   *)
(* started, or a client removed it.                                        *)
NothingLost ==
  faults = 0 =>
    \A id \in accepted : id \in Waiting \/ InHand(id) \/ starts[id] > 0 \/ id \in gone

(* However many drains race for it, a message is started once, and never   *)
(* after a client was told it is removed.                                  *)
StartedOnce ==
  \A id \in Ids : starts[id] <= 1 /\ (id \in gone => starts[id] = 0)

Quiet == \A x \in Tasks : task[x].pc \in {"idle", "done"}

(* Not true of the code where a Stop, a resume, a clear or a failing start *)
(* meets a drain (README, section 5): when every request is answered and   *)
(* every turn is over, the thread is free, and what is left in its queue   *)
(* waits for a pause to be lifted, not for a drain that will never come.   *)
Drained == Quiet => holder = None /\ (queue = <<>> \/ pause # "none")

(* Where clients only send, queue, remove and reorder, the settling turns, *)
(* the sends and chat() drain the queue between them, in whatever order    *)
(* they see it: no message is left behind in an idle thread.               *)
DrainsByItself ==
  faults = 0 /\ (\A r \in Requests : Kind[r] \cap {"stop", "interrupt", "promote", "resume", "clear"} = {})
    => Drained

(* Not true of the code (README, section 5):                              *)
(* "A store that can hold a thread's queue of waiting messages, and admit  *)
(* ONE run per thread at a time" (spi/chat-queue.ts): one turn runs, not   *)
(* counting one that was told to stop.                                     *)
OneTurn == Cardinality({i \in Ids : At(<<"turn", i>>, "running") /\ i \notin cancelled}) <= 1

(* Not true of the code (README, section 5):                              *)
(* "Runs someone asked to stop; the loop observes it at its next safe      *)
(* point" (inline-agent-runner.ts): a running turn whose row says it was   *)
(* cancelled has a loop that will observe it.                              *)
StopObserved ==
  \A i \in Ids : At(<<"turn", i>>, "running") /\ row[i] = "cancelled" => i \in cancelled
=============================================================================
