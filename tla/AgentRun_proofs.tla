---------------------------- MODULE AgentRun_proofs ----------------------------
(***************************************************************************)
(* Of a durable turn, for any number of steps, calls, replies and crashes. *)
(* A body is loaded again and again and each time walks the journal; all   *)
(* the bodies it is on the way form a chain that starts at Fresh and ends  *)
(* at the frontier, the one whose checkpoint is not recorded yet.  The     *)
(* journal and the store are what the frontier says they are.              *)
(***************************************************************************)
EXTENDS AgentRun, SequenceTheorems, TLAPS

Kinds    == {"read", "action", "ask", "malformed"}
ClaimsOf == {"read", "question", "malformed", "auto", "ask", "hold", "proposal", "refused", "failed", "completed", "presented"}
Final    == Outcomes \cup {"proposed"}
Ends     == Outcomes \cup {""}

\* Where a body is.
Before    == {"start", "quota", "user", "head", "llm"}
Answering == {"gate", "usage", "bump", "check", "assistant"}
Serving   == {"together", "tool", "decide", "pose", "answer", "misasked", "present", "settle", "receipt"}
Closing   == {"spawn", "restore", "release", "close", "over"}
After     == {"advance"} \cup Closing
Ats       == Before \cup Answering \cup {"claim"} \cup Serving \cup {"results", "finish", "fail"} \cup After

\* It moves by itself, it waits for a person, it asks for one checkpoint, which is not a wait.
Alone   == {"head", "check", "misasked", "receipt", "close"}
Waits   == {"decide", "answer"}
Stepped == {"start", "quota", "user", "llm", "gate", "usage", "bump", "assistant", "claim", "pose", "present", "tool",
            "settle", "results", "finish", "fail", "advance", "spawn", "restore", "release"}

Bodies == [at : Ats, pos : Nat, step : Steps, batch : Seq(Kinds), first : Nat, claims : Seq(ClaimsOf),
           outcomes : Seq(Ends), results : Seq(Final),
           refused : BOOLEAN, failing : BOOLEAN]

\* The call a body is at, among those of its step and in the run.
Cur(b)    == Len(b.results) + 1
CallOf(b) == b.first + Cur(b)
Whole(b)  == Len(b.results) = Len(b.batch) /\ Len(b.claims) = Len(b.batch)

-----------------------------------------------------------------------------
(***************************************************************************)
(* The body as a function of where it is.                                  *)
(***************************************************************************)
\* The name of the checkpoint it asks for.
Asks(b) ==
  CASE b.at = "start"     -> <<"run:start">>
    [] b.at = "quota"     -> <<"quota:check">>
    [] b.at = "user"      -> <<"user">>
    [] b.at = "llm"       -> <<"llm", b.step>>
    [] b.at = "gate"      -> <<"output", b.step>>
    [] b.at = "usage"     -> <<"usage", b.step>>
    [] b.at = "bump"      -> <<"bump", b.step>>
    [] b.at = "assistant" -> <<"assistant", b.step>>
    [] b.at = "claim"     -> <<"toolcall", b.first + (Len(b.claims) + 1)>>
    [] b.at \in Waits     -> <<"wait", CallOf(b)>>
    [] b.at = "pose"      -> <<"elicitation", CallOf(b)>>
    [] b.at \in {"present", "tool"} -> <<"tool", CallOf(b)>>
    [] b.at = "settle"    -> <<CASE b.outcomes[Cur(b)] = "executed" -> "toolexec"
                                 [] b.outcomes[Cur(b)] = "failed" -> "toolfail"
                                 [] b.outcomes[Cur(b)] \in {"rejected", "expired"} -> "toolreject", CallOf(b)>>
    [] b.at = "results"   -> <<"toolresults", b.step>>
    [] b.at = "finish"    -> <<"run:end">>
    [] b.at = "fail"      -> <<"run:fail">>
    [] b.at = "advance"   -> <<"queue", IF b.failing THEN "failed" ELSE "completed">>
    [] b.at = "spawn"     -> <<"spawn">>
    [] b.at = "restore"   -> <<"queue:restore">>
    [] b.at = "release"   -> <<"deactivate">>

Outcome(b) == IF b.failing THEN "failed" ELSE "completed"

\* What its effect may come to, and the store after it.
Found(b) ==
  CASE b.at = "start"     -> IF db.run = "none" THEN {"ok"} ELSE {"threw"}
    [] b.at = "quota"     -> {"within"} \cup (IF May("quota") THEN {"over"} ELSE {})
    [] b.at = "llm"       -> [threw : {FALSE}, calls : {calls \in Turns : b.first + Len(calls) <= MaxCalls}]
                               \cup (IF May("model") THEN {[threw |-> TRUE, calls |-> <<>>]} ELSE {})
    [] b.at = "gate"      -> {"pass"} \cup (IF May("gate") THEN {"reject"} ELSE {})
    [] b.at = "assistant" -> {"message"} \cup (IF b.batch = <<>> THEN {"blank"} ELSE {})
    [] b.at = "claim"     -> Claims(b.first + (Len(b.claims) + 1), b.batch[Len(b.claims) + 1])
    [] b.at = "tool"      -> ToolOutcomes
    [] b.at = "advance"   -> {IF Starts(Outcome(b)) THEN "next" ELSE "none"}
    [] b.at = "spawn"     -> {"ok"} \cup (IF May("nostart") THEN {"threw"} ELSE {})
    [] b.at \in {"user", "usage", "bump", "pose", "present", "settle", "results", "finish", "fail", "restore", "release"} -> {"ok"}

Store(b, v) ==
  CASE b.at = "start"     -> [db EXCEPT !.run = IF v = "ok" THEN "running" ELSE @]
    [] b.at = "user"      -> [db EXCEPT !.users = @ + 1]
    [] b.at = "usage"     -> [db EXCEPT !.usage[b.step] = @ + 1]
    [] b.at = "bump"      -> [db EXCEPT !.bumped[b.step] = @ + 1]
    [] b.at = "assistant" -> [db EXCEPT !.messages[b.step] = IF v = "message" THEN @ + 1 ELSE @]
    [] b.at = "claim"     -> IF v = "threw" THEN db
                             ELSE [db EXCEPT !.row[b.first + (Len(b.claims) + 1)] = RowOf[v],
                                             !.expires[b.first + (Len(b.claims) + 1)] = IF v = "ask" THEN now + Ttl ELSE Never]
    [] b.at = "tool"      -> [db EXCEPT !.ran[CallOf(b)] = @ + 1]
    [] b.at = "settle"    -> [db EXCEPT !.row[CallOf(b)] = b.outcomes[Cur(b)]]
    [] b.at = "results"   -> [db EXCEPT !.told[b.step] = b.results]
    [] b.at = "finish"    -> RunEnded(db, "completed")
    [] b.at = "fail"      -> NoCards(RunEnded(db, "failed"))
    [] b.at = "advance"   -> Planned(Outcome(b))
    [] b.at = "spawn"     -> IF v = "ok" THEN [db EXCEPT !.next = 1] ELSE db
    [] b.at = "restore"   -> Restored(db)
    [] b.at = "release"   -> Released(db)
    [] b.at \in {"quota", "llm", "gate", "pose", "present"} -> db

\* Where it goes with what the checkpoint answers.
GivenCalls(b, calls)  == [b EXCEPT !.at = "gate", !.batch = calls]
DecidedOf(b, outcome) == [b EXCEPT !.outcomes[Cur(b)] = outcome, !.at = "settle"]

Then(b, v) ==
  CASE b.at = "start"     -> IF v = "ok" THEN [b EXCEPT !.at = "quota"] ELSE Failing(b)
    [] b.at = "quota"     -> IF v = "within" THEN [b EXCEPT !.at = "user"] ELSE Failing(b)
    [] b.at = "user"      -> [b EXCEPT !.at = "head"]
    [] b.at = "llm"       -> IF v.threw THEN Failing(b) ELSE GivenCalls(b, v.calls)
    [] b.at = "gate"      -> [b EXCEPT !.at = "usage", !.refused = (v = "reject")]
    [] b.at = "usage"     -> [b EXCEPT !.at = "bump"]
    [] b.at = "bump"      -> IF b.refused THEN Failing(b) ELSE [b EXCEPT !.at = "check"]
    [] b.at = "assistant" -> [b EXCEPT !.at = IF b.batch = <<>> THEN "finish" ELSE "claim"]
    [] b.at = "claim"     -> IF v = "threw" THEN Failing(b) ELSE Claimed(b, v)
    [] b.at = "decide"    -> (CASE v = "yes"     -> [b EXCEPT !.at = "tool"]
                               [] v = "no"      -> DecidedOf(b, "rejected")
                               [] v = "expired" -> DecidedOf(b, "expired")
                               [] v = "answers" -> b)
    [] b.at = "pose"      -> [b EXCEPT !.at = "answer"]
    [] b.at = "present"   -> [b EXCEPT !.at = "receipt"]
    [] b.at = "answer"    -> DecidedOf(b, IF v = "no" THEN "rejected" ELSE "executed")
    [] b.at = "tool"      -> DecidedOf(b, v)
    [] b.at = "settle"    -> Answered(b, b.outcomes[Cur(b)])
    [] b.at = "results"   -> (IF Halts(b) \/ b.step = MaxSteps THEN [b EXCEPT !.at = "finish"]
                             ELSE [b EXCEPT !.at = "head", !.step = @ + 1, !.first = @ + Len(b.batch),
                                            !.batch = <<>>, !.claims = <<>>, !.outcomes = <<>>, !.results = <<>>])
    [] b.at \in {"finish", "fail"} -> [b EXCEPT !.at = "advance"]
    [] b.at = "advance"   -> IF v = "next" THEN [b EXCEPT !.at = "spawn"] ELSE Advanced(b)
    [] b.at = "spawn"     -> IF v = "ok" THEN Advanced(b) ELSE [b EXCEPT !.at = "restore"]
    [] b.at = "restore"   -> Advanced(b)
    [] b.at = "release"   -> [b EXCEPT !.at = IF b.failing THEN "close" ELSE "over"]

Goes(b, v) == [Then(b, v) EXCEPT !.pos = b.pos + 1]

\* Where it goes by itself, and when all it launched together has ended.
Moves(b) ==
  CASE b.at = "head"    -> [b EXCEPT !.at = "llm"]
    [] b.at = "check"   -> [b EXCEPT !.at = "assistant"]
    [] b.at = "receipt" -> Answered(b, RowOf[b.claims[Cur(b)]])
    [] b.at = "misasked" -> DecidedOf(b, "failed")
    [] b.at = "close"   -> [b EXCEPT !.at = IF b.failing THEN "over" ELSE "release"]

Joined(b) == Ahead([b EXCEPT !.outcomes = [n \in DOMAIN b.batch |-> log[b.pos + n].value],
                             !.pos = @ + Len(b.batch)])

\* The steps of the body, by what they do to the journal.
Reads(b) ==
  /\ b.at \in Stepped \cup Waits /\ b.pos + 1 \in DOMAIN log
  /\ log[b.pos + 1].name = Asks(b) => body' = Goes(b, log[b.pos + 1].value)
  /\ log[b.pos + 1].name # Asks(b) => body' = [b EXCEPT !.at = "diverged"]
  /\ UNCHANGED <<log, db, engine, crashes, world>>

Does(b, v) ==
  /\ b.at \in Stepped /\ b.pos + 1 \notin DOMAIN log /\ v \in Found(b)
  /\ db' = Store(b, v)
  /\ UNCHANGED <<engine, world>>

Records(b) == \E v : /\ Does(b, v) /\ UNCHANGED crashes
                     /\ Recorded(b.pos + 1, Asks(b), v) /\ body' = Goes(b, v)

Dies(b) == \E v : /\ Does(b, v) /\ body' = Off /\ UNCHANGED log
                  /\ crashes < MaxCrashes /\ crashes' = crashes + 1

Parks(b) ==
  /\ b.at \in Waits /\ b.pos + 1 \notin DOMAIN log
  /\ body' = Off
  /\ engine' = [engine EXCEPT !.parked = [call |-> CallOf(b), pos |-> b.pos + 1,
                                          until |-> IF b.at = "decide" /\ b.claims[Cur(b)] = "ask" THEN now + Ttl ELSE Never]]
  /\ UNCHANGED <<log, db, crashes, world>>

Walks(b) ==
  /\ b.at \in Alone /\ body' = Moves(b)
  /\ db' = IF b.at = "close" THEN [db EXCEPT !.stream = "ended"] ELSE db
  /\ UNCHANGED <<log, engine, crashes, world>>

Leaves(b) ==
  /\ b.at \in {"head", "check", "over"} /\ (b.at # "over" => db.holder # "run")
  /\ body' = Off
  /\ engine' \in {[engine EXCEPT !.status = IF @ = "active" THEN ended ELSE @] : ended \in {"completed", "failed"}}
  /\ UNCHANGED <<log, db, crashes, world>>

Bodily(b) == Reads(b) \/ Records(b) \/ Dies(b) \/ Parks(b) \/ Walks(b) \/ Leaves(b)

-----------------------------------------------------------------------------
(***************************************************************************)
(* A body at each of its checkpoints.                                      *)
(***************************************************************************)
LEMMA AtStart ==
  ASSUME NEW b, b.at = "start", NEW v
  PROVE  /\ Asks(b) = <<"run:start">>
         /\ Found(b) = IF db.run = "none" THEN {"ok"} ELSE {"threw"}
         /\ Store(b, v) = [db EXCEPT !.run = IF v = "ok" THEN "running" ELSE @]
         /\ Then(b, v) = IF v = "ok" THEN [b EXCEPT !.at = "quota"] ELSE Failing(b)
<1>1. Asks(b) = <<"run:start">>
  BY DEF Asks, Waits
<1>2. Found(b) = IF db.run = "none" THEN {"ok"} ELSE {"threw"}
  BY DEF Found
<1>3. Store(b, v) = [db EXCEPT !.run = IF v = "ok" THEN "running" ELSE @]
  BY DEF Store
<1>4. Then(b, v) = IF v = "ok" THEN [b EXCEPT !.at = "quota"] ELSE Failing(b)
  BY DEF Then
<1> QED BY <1>1, <1>2, <1>3, <1>4

LEMMA AtQuota ==
  ASSUME NEW b, b.at = "quota", NEW v
  PROVE  /\ Asks(b) = <<"quota:check">>
         /\ Found(b) = {"within"} \cup (IF May("quota") THEN {"over"} ELSE {})
         /\ Store(b, v) = db
         /\ Then(b, v) = IF v = "within" THEN [b EXCEPT !.at = "user"] ELSE Failing(b)
<1>1. Asks(b) = <<"quota:check">>
  BY DEF Asks, Waits
<1>2. Found(b) = {"within"} \cup (IF May("quota") THEN {"over"} ELSE {})
  BY DEF Found
<1>3. Store(b, v) = db
  BY DEF Store
<1>4. Then(b, v) = IF v = "within" THEN [b EXCEPT !.at = "user"] ELSE Failing(b)
  BY DEF Then
<1> QED BY <1>1, <1>2, <1>3, <1>4

LEMMA AtUser ==
  ASSUME NEW b, b.at = "user", NEW v
  PROVE  /\ Asks(b) = <<"user">>
         /\ Found(b) = {"ok"}
         /\ Store(b, v) = [db EXCEPT !.users = @ + 1]
         /\ Then(b, v) = [b EXCEPT !.at = "head"]
<1>1. Asks(b) = <<"user">>
  BY DEF Asks, Waits
<1>2. Found(b) = {"ok"}
  BY DEF Found
<1>3. Store(b, v) = [db EXCEPT !.users = @ + 1]
  BY DEF Store
<1>4. Then(b, v) = [b EXCEPT !.at = "head"]
  BY DEF Then
<1> QED BY <1>1, <1>2, <1>3, <1>4

LEMMA AtLlm ==
  ASSUME NEW b, b.at = "llm", NEW v
  PROVE  /\ Asks(b) = <<"llm", b.step>>
         /\ Found(b) = [threw : {FALSE}, calls : {calls \in Turns : b.first + Len(calls) <= MaxCalls}]
               \cup (IF May("model") THEN {[threw |-> TRUE, calls |-> <<>>]} ELSE {})
         /\ Store(b, v) = db
         /\ Then(b, v) = IF v.threw THEN Failing(b) ELSE GivenCalls(b, v.calls)
<1>1. Asks(b) = <<"llm", b.step>>
  BY DEF Asks, Waits
<1>2. Found(b) = [threw : {FALSE}, calls : {calls \in Turns : b.first + Len(calls) <= MaxCalls}]
               \cup (IF May("model") THEN {[threw |-> TRUE, calls |-> <<>>]} ELSE {})
  BY DEF Found
<1>3. Store(b, v) = db
  BY DEF Store
<1>4. Then(b, v) = IF v.threw THEN Failing(b) ELSE GivenCalls(b, v.calls)
  BY DEF Then
<1> QED BY <1>1, <1>2, <1>3, <1>4

LEMMA AtGate ==
  ASSUME NEW b, b.at = "gate", NEW v
  PROVE  /\ Asks(b) = <<"output", b.step>>
         /\ Found(b) = {"pass"} \cup (IF May("gate") THEN {"reject"} ELSE {})
         /\ Store(b, v) = db
         /\ Then(b, v) = [b EXCEPT !.at = "usage", !.refused = (v = "reject")]
<1>1. Asks(b) = <<"output", b.step>>
  BY DEF Asks, Waits
<1>2. Found(b) = {"pass"} \cup (IF May("gate") THEN {"reject"} ELSE {})
  BY DEF Found
<1>3. Store(b, v) = db
  BY DEF Store
<1>4. Then(b, v) = [b EXCEPT !.at = "usage", !.refused = (v = "reject")]
  BY DEF Then
<1> QED BY <1>1, <1>2, <1>3, <1>4

LEMMA AtUsage ==
  ASSUME NEW b, b.at = "usage", NEW v
  PROVE  /\ Asks(b) = <<"usage", b.step>>
         /\ Found(b) = {"ok"}
         /\ Store(b, v) = [db EXCEPT !.usage[b.step] = @ + 1]
         /\ Then(b, v) = [b EXCEPT !.at = "bump"]
<1>1. Asks(b) = <<"usage", b.step>>
  BY DEF Asks, Waits
<1>2. Found(b) = {"ok"}
  BY DEF Found
<1>3. Store(b, v) = [db EXCEPT !.usage[b.step] = @ + 1]
  BY DEF Store
<1>4. Then(b, v) = [b EXCEPT !.at = "bump"]
  BY DEF Then
<1> QED BY <1>1, <1>2, <1>3, <1>4

LEMMA AtBump ==
  ASSUME NEW b, b.at = "bump", NEW v
  PROVE  /\ Asks(b) = <<"bump", b.step>>
         /\ Found(b) = {"ok"}
         /\ Store(b, v) = [db EXCEPT !.bumped[b.step] = @ + 1]
         /\ Then(b, v) = IF b.refused THEN Failing(b) ELSE [b EXCEPT !.at = "check"]
<1>1. Asks(b) = <<"bump", b.step>>
  BY DEF Asks, Waits
<1>2. Found(b) = {"ok"}
  BY DEF Found
<1>3. Store(b, v) = [db EXCEPT !.bumped[b.step] = @ + 1]
  BY DEF Store
<1>4. Then(b, v) = IF b.refused THEN Failing(b) ELSE [b EXCEPT !.at = "check"]
  BY DEF Then
<1> QED BY <1>1, <1>2, <1>3, <1>4

LEMMA AtAssistant ==
  ASSUME NEW b, b.at = "assistant", NEW v
  PROVE  /\ Asks(b) = <<"assistant", b.step>>
         /\ Found(b) = {"message"} \cup (IF b.batch = <<>> THEN {"blank"} ELSE {})
         /\ Store(b, v) = [db EXCEPT !.messages[b.step] = IF v = "message" THEN @ + 1 ELSE @]
         /\ Then(b, v) = [b EXCEPT !.at = IF b.batch = <<>> THEN "finish" ELSE "claim"]
<1>1. Asks(b) = <<"assistant", b.step>>
  BY DEF Asks, Waits
<1>2. Found(b) = {"message"} \cup (IF b.batch = <<>> THEN {"blank"} ELSE {})
  BY DEF Found
<1>3. Store(b, v) = [db EXCEPT !.messages[b.step] = IF v = "message" THEN @ + 1 ELSE @]
  BY DEF Store
<1>4. Then(b, v) = [b EXCEPT !.at = IF b.batch = <<>> THEN "finish" ELSE "claim"]
  BY DEF Then
<1> QED BY <1>1, <1>2, <1>3, <1>4

LEMMA AtClaim ==
  ASSUME NEW b, b.at = "claim", NEW v
  PROVE  /\ Asks(b) = <<"toolcall", b.first + (Len(b.claims) + 1)>>
         /\ Found(b) = Claims(b.first + (Len(b.claims) + 1), b.batch[Len(b.claims) + 1])
         /\ Store(b, v) = IF v = "threw" THEN db
             ELSE [db EXCEPT !.row[b.first + (Len(b.claims) + 1)] = RowOf[v],
                             !.expires[b.first + (Len(b.claims) + 1)] = IF v = "ask" THEN now + Ttl ELSE Never]
         /\ Then(b, v) = IF v = "threw" THEN Failing(b) ELSE Claimed(b, v)
<1>1. Asks(b) = <<"toolcall", b.first + (Len(b.claims) + 1)>>
  BY DEF Asks, Waits
<1>2. Found(b) = Claims(b.first + (Len(b.claims) + 1), b.batch[Len(b.claims) + 1])
  BY DEF Found
<1>3. Store(b, v) = IF v = "threw" THEN db
             ELSE [db EXCEPT !.row[b.first + (Len(b.claims) + 1)] = RowOf[v],
                             !.expires[b.first + (Len(b.claims) + 1)] = IF v = "ask" THEN now + Ttl ELSE Never]
  BY DEF Store
<1>4. Then(b, v) = IF v = "threw" THEN Failing(b) ELSE Claimed(b, v)
  BY DEF Then
<1> QED BY <1>1, <1>2, <1>3, <1>4

LEMMA AtPose ==
  ASSUME NEW b, b.at = "pose", NEW v
  PROVE  /\ Asks(b) = <<"elicitation", CallOf(b)>>
         /\ Found(b) = {"ok"}
         /\ Store(b, v) = db
         /\ Then(b, v) = [b EXCEPT !.at = "answer"]
<1>1. Asks(b) = <<"elicitation", CallOf(b)>>
  BY DEF Asks, Waits
<1>2. Found(b) = {"ok"}
  BY DEF Found
<1>3. Store(b, v) = db
  BY DEF Store
<1>4. Then(b, v) = [b EXCEPT !.at = "answer"]
  BY DEF Then
<1> QED BY <1>1, <1>2, <1>3, <1>4

LEMMA AtPresent ==
  ASSUME NEW b, b.at = "present", NEW v
  PROVE  /\ Asks(b) = <<"tool", CallOf(b)>>
         /\ Found(b) = {"ok"}
         /\ Store(b, v) = db
         /\ Then(b, v) = [b EXCEPT !.at = "receipt"]
<1>1. Asks(b) = <<"tool", CallOf(b)>>
  BY DEF Asks, Waits
<1>2. Found(b) = {"ok"}
  BY DEF Found
<1>3. Store(b, v) = db
  BY DEF Store
<1>4. Then(b, v) = [b EXCEPT !.at = "receipt"]
  BY DEF Then
<1> QED BY <1>1, <1>2, <1>3, <1>4

LEMMA AtTool ==
  ASSUME NEW b, b.at = "tool", NEW v
  PROVE  /\ Asks(b) = <<"tool", CallOf(b)>>
         /\ Found(b) = ToolOutcomes
         /\ Store(b, v) = [db EXCEPT !.ran[CallOf(b)] = @ + 1]
         /\ Then(b, v) = DecidedOf(b, v)
<1>1. Asks(b) = <<"tool", CallOf(b)>>
  BY DEF Asks, Waits
<1>2. Found(b) = ToolOutcomes
  BY DEF Found
<1>3. Store(b, v) = [db EXCEPT !.ran[CallOf(b)] = @ + 1]
  BY DEF Store
<1>4. Then(b, v) = DecidedOf(b, v)
  BY DEF Then
<1> QED BY <1>1, <1>2, <1>3, <1>4

LEMMA AtSettle ==
  ASSUME NEW b, b.at = "settle", NEW v
  PROVE  /\ Asks(b) = <<CASE b.outcomes[Cur(b)] = "executed" -> "toolexec" [] b.outcomes[Cur(b)] = "failed" -> "toolfail"
                     [] b.outcomes[Cur(b)] \in {"rejected", "expired"} -> "toolreject", CallOf(b)>>
         /\ Found(b) = {"ok"}
         /\ Store(b, v) = [db EXCEPT !.row[CallOf(b)] = b.outcomes[Cur(b)]]
         /\ Then(b, v) = Answered(b, b.outcomes[Cur(b)])
<1>1. Asks(b) = <<CASE b.outcomes[Cur(b)] = "executed" -> "toolexec" [] b.outcomes[Cur(b)] = "failed" -> "toolfail"
                     [] b.outcomes[Cur(b)] \in {"rejected", "expired"} -> "toolreject", CallOf(b)>>
  BY DEF Asks, Waits
<1>2. Found(b) = {"ok"}
  BY DEF Found
<1>3. Store(b, v) = [db EXCEPT !.row[CallOf(b)] = b.outcomes[Cur(b)]]
  BY DEF Store
<1>4. Then(b, v) = Answered(b, b.outcomes[Cur(b)])
  BY DEF Then
<1> QED BY <1>1, <1>2, <1>3, <1>4

LEMMA AtResults ==
  ASSUME NEW b, b.at = "results", NEW v
  PROVE  /\ Asks(b) = <<"toolresults", b.step>>
         /\ Found(b) = {"ok"}
         /\ Store(b, v) = [db EXCEPT !.told[b.step] = b.results]
         /\ Then(b, v) = IF Halts(b) \/ b.step = MaxSteps THEN [b EXCEPT !.at = "finish"]
             ELSE [b EXCEPT !.at = "head", !.step = @ + 1, !.first = @ + Len(b.batch),
                            !.batch = <<>>, !.claims = <<>>, !.outcomes = <<>>, !.results = <<>>]
<1>1. Asks(b) = <<"toolresults", b.step>>
  BY DEF Asks, Waits
<1>2. Found(b) = {"ok"}
  BY DEF Found
<1>3. Store(b, v) = [db EXCEPT !.told[b.step] = b.results]
  BY DEF Store
<1>4. Then(b, v) = IF Halts(b) \/ b.step = MaxSteps THEN [b EXCEPT !.at = "finish"]
             ELSE [b EXCEPT !.at = "head", !.step = @ + 1, !.first = @ + Len(b.batch),
                            !.batch = <<>>, !.claims = <<>>, !.outcomes = <<>>, !.results = <<>>]
  BY DEF Then
<1> QED BY <1>1, <1>2, <1>3, <1>4

LEMMA AtFinish ==
  ASSUME NEW b, b.at = "finish", NEW v
  PROVE  /\ Asks(b) = <<"run:end">>
         /\ Found(b) = {"ok"}
         /\ Store(b, v) = RunEnded(db, "completed")
         /\ Then(b, v) = [b EXCEPT !.at = "advance"]
<1>1. Asks(b) = <<"run:end">>
  BY DEF Asks, Waits
<1>2. Found(b) = {"ok"}
  BY DEF Found
<1>3. Store(b, v) = RunEnded(db, "completed")
  BY DEF Store
<1>4. Then(b, v) = [b EXCEPT !.at = "advance"]
  BY DEF Then
<1> QED BY <1>1, <1>2, <1>3, <1>4

LEMMA AtFail ==
  ASSUME NEW b, b.at = "fail", NEW v
  PROVE  /\ Asks(b) = <<"run:fail">>
         /\ Found(b) = {"ok"}
         /\ Store(b, v) = NoCards(RunEnded(db, "failed"))
         /\ Then(b, v) = [b EXCEPT !.at = "advance"]
<1>1. Asks(b) = <<"run:fail">>
  BY DEF Asks, Waits
<1>2. Found(b) = {"ok"}
  BY DEF Found
<1>3. Store(b, v) = NoCards(RunEnded(db, "failed"))
  BY DEF Store
<1>4. Then(b, v) = [b EXCEPT !.at = "advance"]
  BY DEF Then
<1> QED BY <1>1, <1>2, <1>3, <1>4

LEMMA AtAdvance ==
  ASSUME NEW b, b.at = "advance", NEW v
  PROVE  /\ Asks(b) = <<"queue", IF b.failing THEN "failed" ELSE "completed">>
         /\ Found(b) = {IF Starts(Outcome(b)) THEN "next" ELSE "none"}
         /\ Store(b, v) = Planned(Outcome(b))
         /\ Then(b, v) = IF v = "next" THEN [b EXCEPT !.at = "spawn"] ELSE Advanced(b)
<1>1. Asks(b) = <<"queue", IF b.failing THEN "failed" ELSE "completed">>
  BY DEF Asks, Waits
<1>2. Found(b) = {IF Starts(Outcome(b)) THEN "next" ELSE "none"}
  BY DEF Found
<1>3. Store(b, v) = Planned(Outcome(b))
  BY DEF Store
<1>4. Then(b, v) = IF v = "next" THEN [b EXCEPT !.at = "spawn"] ELSE Advanced(b)
  BY DEF Then
<1> QED BY <1>1, <1>2, <1>3, <1>4

LEMMA AtSpawn ==
  ASSUME NEW b, b.at = "spawn", NEW v
  PROVE  /\ Asks(b) = <<"spawn">>
         /\ Found(b) = {"ok"} \cup (IF May("nostart") THEN {"threw"} ELSE {})
         /\ Store(b, v) = IF v = "ok" THEN [db EXCEPT !.next = 1] ELSE db
         /\ Then(b, v) = IF v = "ok" THEN Advanced(b) ELSE [b EXCEPT !.at = "restore"]
<1>1. Asks(b) = <<"spawn">>
  BY DEF Asks, Waits
<1>2. Found(b) = {"ok"} \cup (IF May("nostart") THEN {"threw"} ELSE {})
  BY DEF Found
<1>3. Store(b, v) = IF v = "ok" THEN [db EXCEPT !.next = 1] ELSE db
  BY DEF Store
<1>4. Then(b, v) = IF v = "ok" THEN Advanced(b) ELSE [b EXCEPT !.at = "restore"]
  BY DEF Then
<1> QED BY <1>1, <1>2, <1>3, <1>4

LEMMA AtRestore ==
  ASSUME NEW b, b.at = "restore", NEW v
  PROVE  /\ Asks(b) = <<"queue:restore">>
         /\ Found(b) = {"ok"}
         /\ Store(b, v) = Restored(db)
         /\ Then(b, v) = Advanced(b)
<1>1. Asks(b) = <<"queue:restore">>
  BY DEF Asks, Waits
<1>2. Found(b) = {"ok"}
  BY DEF Found
<1>3. Store(b, v) = Restored(db)
  BY DEF Store
<1>4. Then(b, v) = Advanced(b)
  BY DEF Then
<1> QED BY <1>1, <1>2, <1>3, <1>4

LEMMA AtRelease ==
  ASSUME NEW b, b.at = "release", NEW v
  PROVE  /\ Asks(b) = <<"deactivate">>
         /\ Found(b) = {"ok"}
         /\ Store(b, v) = Released(db)
         /\ Then(b, v) = [b EXCEPT !.at = IF b.failing THEN "close" ELSE "over"]
<1>1. Asks(b) = <<"deactivate">>
  BY DEF Asks, Waits
<1>2. Found(b) = {"ok"}
  BY DEF Found
<1>3. Store(b, v) = Released(db)
  BY DEF Store
<1>4. Then(b, v) = [b EXCEPT !.at = IF b.failing THEN "close" ELSE "over"]
  BY DEF Then
<1> QED BY <1>1, <1>2, <1>3, <1>4

LEMMA AtWaits ==
  ASSUME NEW b, b.at \in Waits, NEW v
  PROVE  /\ Asks(b) = <<"wait", CallOf(b)>>
         /\ b.at = "answer" => Then(b, v) = DecidedOf(b, IF v = "no" THEN "rejected" ELSE "executed")
         /\ b.at = "decide" => Then(b, v) = CASE v = "yes"     -> [b EXCEPT !.at = "tool"]
                                              [] v = "no"      -> DecidedOf(b, "rejected")
                                              [] v = "expired" -> DecidedOf(b, "expired")
                                              [] v = "answers" -> b
<1>1. Asks(b) = <<"wait", CallOf(b)>>
  BY DEF Asks, Waits
<1>2. CASE b.at = "answer"
  BY <1>1, <1>2 DEF Then
<1>3. CASE b.at = "decide"
  BY <1>1, <1>3 DEF Then
<1> QED BY <1>2, <1>3 DEF Waits

-----------------------------------------------------------------------------
(***************************************************************************)
(* Every action of the body is one of the steps above.                     *)
(***************************************************************************)
LEMMA OpenRunSteps == ASSUME OpenRun PROVE Bodily(body)
<1>1. body.at = "start"
  BY DEF OpenRun, Checkpoint
<1>2. /\ Asks(body) = <<"run:start">>
      /\ Found(body) = IF db.run = "none" THEN {"ok"} ELSE {"threw"}
  BY <1>1, AtStart
<1>3. \A v : Store(body, v) = [db EXCEPT !.run = IF v = "ok" THEN "running" ELSE @]
  BY <1>1, AtStart
<1>4. \A v : Then(body, v) = IF v = "ok" THEN [body EXCEPT !.at = "quota"] ELSE Failing(body)
  BY <1>1, AtStart
<1> QED BY <1>1, <1>2, <1>3, <1>4
        DEF OpenRun, Checkpoint, StepAt, Bodily, Reads, Records, Dies, Does, Stepped, Goes

LEMMA CheckQuotaSteps == ASSUME CheckQuota PROVE Bodily(body)
<1>1. body.at = "quota"
  BY DEF CheckQuota, Checkpoint
<1>2. /\ Asks(body) = <<"quota:check">>
      /\ Found(body) = {"within"} \cup (IF May("quota") THEN {"over"} ELSE {})
  BY <1>1, AtQuota
<1>3. \A v : Store(body, v) = db
  BY <1>1, AtQuota
<1>4. \A v : Then(body, v) = IF v = "within" THEN [body EXCEPT !.at = "user"] ELSE Failing(body)
  BY <1>1, AtQuota
<1> QED BY <1>1, <1>2, <1>3, <1>4
        DEF CheckQuota, Checkpoint, StepAt, Bodily, Reads, Records, Dies, Does, Stepped, Goes

LEMMA PersistUserSteps == ASSUME PersistUser PROVE Bodily(body)
<1>1. body.at = "user"
  BY DEF PersistUser, Checkpoint
<1>2. /\ Asks(body) = <<"user">>
      /\ Found(body) = {"ok"}
  BY <1>1, AtUser
<1>3. \A v : Store(body, v) = [db EXCEPT !.users = @ + 1]
  BY <1>1, AtUser
<1>4. \A v : Then(body, v) = [body EXCEPT !.at = "head"]
  BY <1>1, AtUser
<1> QED BY <1>1, <1>2, <1>3, <1>4
        DEF PersistUser, Checkpoint, StepAt, Bodily, Reads, Records, Dies, Does, Stepped, Goes

LEMMA RunTurnSteps == ASSUME RunTurn PROVE Bodily(body)
<1>1. body.at = "llm"
  BY DEF RunTurn, Checkpoint
<1>2. /\ Asks(body) = <<"llm", body.step>>
      /\ Found(body) = [threw : {FALSE}, calls : {calls \in Turns : body.first + Len(calls) <= MaxCalls}]
               \cup (IF May("model") THEN {[threw |-> TRUE, calls |-> <<>>]} ELSE {})
  BY <1>1, AtLlm
<1>3. \A v : Store(body, v) = db
  BY <1>1, AtLlm
<1>4. \A v : Then(body, v) = IF v.threw THEN Failing(body) ELSE GivenCalls(body, v.calls)
  BY <1>1, AtLlm
<1> QED BY <1>1, <1>2, <1>3, <1>4, ZenonT(30)
        DEF RunTurn, Checkpoint, StepAt, Bodily, Reads, Records, Dies, Does, Stepped, Goes, Batches, GivenCalls

LEMMA ProcessOutputSteps == ASSUME ProcessOutput PROVE Bodily(body)
<1>1. body.at = "gate"
  BY DEF ProcessOutput, Checkpoint
<1>2. /\ Asks(body) = <<"output", body.step>>
      /\ Found(body) = {"pass"} \cup (IF May("gate") THEN {"reject"} ELSE {})
  BY <1>1, AtGate
<1>3. \A v : Store(body, v) = db
  BY <1>1, AtGate
<1>4. \A v : Then(body, v) = [body EXCEPT !.at = "usage", !.refused = (v = "reject")]
  BY <1>1, AtGate
<1>5. CASE body.pos + 1 \in DOMAIN log
  <2>1. Reads(body)
    BY <1>1, <1>2, <1>4, <1>5 DEF ProcessOutput, Checkpoint, StepAt, Reads, Stepped, Goes
  <2> QED BY <2>1 DEF Bodily
<1>6. CASE body.pos + 1 \notin DOMAIN log
  <2>1. PICK v \in Found(body) :
          /\ db' = db /\ UNCHANGED <<engine, world>>
          /\ \/ /\ Recorded(body.pos + 1, <<"output", body.step>>, v) /\ UNCHANGED crashes
                /\ body' = [[body EXCEPT !.at = "usage", !.refused = (v = "reject")] EXCEPT !.pos = body.pos + 1]
             \/ crashes < MaxCrashes /\ crashes' = crashes + 1 /\ body' = Off /\ UNCHANGED log
    BY <1>2, <1>6, Zenon DEF ProcessOutput, Checkpoint, StepAt
  <2>2. Goes(body, v) = [[body EXCEPT !.at = "usage", !.refused = (v = "reject")] EXCEPT !.pos = body.pos + 1]
    BY <1>4, Zenon DEF Goes
  <2>3. Store(body, v) = db
    BY <1>3
  <2> QED BY <1>1, <1>2, <1>6, <2>1, <2>2, <2>3, Zenon DEF Bodily, Records, Dies, Does, Stepped
<1> QED BY <1>5, <1>6

LEMMA PersistUsageSteps == ASSUME PersistUsage PROVE Bodily(body)
<1>1. body.at = "usage"
  BY DEF PersistUsage, Checkpoint
<1>2. /\ Asks(body) = <<"usage", body.step>>
      /\ Found(body) = {"ok"}
  BY <1>1, AtUsage
<1>3. \A v : Store(body, v) = [db EXCEPT !.usage[body.step] = @ + 1]
  BY <1>1, AtUsage
<1>4. \A v : Then(body, v) = [body EXCEPT !.at = "bump"]
  BY <1>1, AtUsage
<1> QED BY <1>1, <1>2, <1>3, <1>4
        DEF PersistUsage, Checkpoint, StepAt, Bodily, Reads, Records, Dies, Does, Stepped, Goes

LEMMA BumpQuotaSteps == ASSUME BumpQuota PROVE Bodily(body)
<1>1. body.at = "bump"
  BY DEF BumpQuota, Checkpoint
<1>2. /\ Asks(body) = <<"bump", body.step>>
      /\ Found(body) = {"ok"}
  BY <1>1, AtBump
<1>3. \A v : Store(body, v) = [db EXCEPT !.bumped[body.step] = @ + 1]
  BY <1>1, AtBump
<1>4. \A v : Then(body, v) = IF body.refused THEN Failing(body) ELSE [body EXCEPT !.at = "check"]
  BY <1>1, AtBump
<1> QED BY <1>1, <1>2, <1>3, <1>4
        DEF BumpQuota, Checkpoint, StepAt, Bodily, Reads, Records, Dies, Does, Stepped, Goes

LEMMA PersistAssistantSteps == ASSUME PersistAssistant PROVE Bodily(body)
<1>1. body.at = "assistant"
  BY DEF PersistAssistant, Checkpoint
<1>2. /\ Asks(body) = <<"assistant", body.step>>
      /\ Found(body) = {"message"} \cup (IF body.batch = <<>> THEN {"blank"} ELSE {})
  BY <1>1, AtAssistant
<1>3. \A v : Store(body, v) = [db EXCEPT !.messages[body.step] = IF v = "message" THEN @ + 1 ELSE @]
  BY <1>1, AtAssistant
<1>4. \A v : Then(body, v) = [body EXCEPT !.at = IF body.batch = <<>> THEN "finish" ELSE "claim"]
  BY <1>1, AtAssistant
<1> QED BY <1>1, <1>2, <1>3, <1>4
        DEF PersistAssistant, Checkpoint, StepAt, Bodily, Reads, Records, Dies, Does, Stepped, Goes

LEMMA ClaimToolCallSteps == ASSUME ClaimToolCall PROVE Bodily(body)
<1>1. body.at = "claim"
  BY DEF ClaimToolCall, Checkpoint
<1>2. /\ Asks(body) = <<"toolcall", body.first + (Len(body.claims) + 1)>>
      /\ Found(body) = Claims(body.first + (Len(body.claims) + 1), body.batch[Len(body.claims) + 1])
  BY <1>1, AtClaim
<1>3. \A v : Store(body, v) = IF v = "threw" THEN db
             ELSE [db EXCEPT !.row[body.first + (Len(body.claims) + 1)] = RowOf[v],
                             !.expires[body.first + (Len(body.claims) + 1)] = IF v = "ask" THEN now + Ttl ELSE Never]
  BY <1>1, AtClaim
<1>4. \A v : Then(body, v) = IF v = "threw" THEN Failing(body) ELSE Claimed(body, v)
  BY <1>1, AtClaim
<1>5. CASE body.pos + 1 \in DOMAIN log
  <2>1. Reads(body)
    BY <1>1, <1>2, <1>4, <1>5 DEF ClaimToolCall, Checkpoint, StepAt, Reads, Stepped, Goes
  <2> QED BY <2>1 DEF Bodily
<1>6. CASE body.pos + 1 \notin DOMAIN log
  <2>1. PICK v \in Found(body) :
          /\ db' = Store(body, v) /\ UNCHANGED <<engine, world>>
          /\ \/ Recorded(body.pos + 1, Asks(body), v) /\ body' = Goes(body, v) /\ UNCHANGED crashes
             \/ crashes < MaxCrashes /\ crashes' = crashes + 1 /\ body' = Off /\ UNCHANGED log
    BY <1>2, <1>3, <1>4, <1>6 DEF ClaimToolCall, Checkpoint, StepAt, Goes
  <2> QED BY <1>1, <1>6, <2>1 DEF Bodily, Records, Dies, Does, Stepped
<1> QED BY <1>5, <1>6

LEMMA PoseQuestionSteps == ASSUME PoseQuestion PROVE Bodily(body)
<1>1. body.at = "pose"
  BY DEF PoseQuestion, Checkpoint
<1>2. /\ Asks(body) = <<"elicitation", CallOf(body)>>
      /\ Found(body) = {"ok"}
  BY <1>1, AtPose
<1>3. \A v : Store(body, v) = db
  BY <1>1, AtPose
<1>4. \A v : Then(body, v) = [body EXCEPT !.at = "answer"]
  BY <1>1, AtPose
<1> QED BY <1>1, <1>2, <1>3, <1>4
        DEF PoseQuestion, Checkpoint, StepAt, Bodily, Reads, Records, Dies, Does, Stepped, Goes, CallOf, Cur, Call, Current

LEMMA PresentCompletedSteps == ASSUME PresentCompleted PROVE Bodily(body)
<1>1. body.at = "present"
  BY DEF PresentCompleted, Checkpoint
<1>2. /\ Asks(body) = <<"tool", CallOf(body)>>
      /\ Found(body) = {"ok"}
  BY <1>1, AtPresent
<1>3. \A v : Store(body, v) = db
  BY <1>1, AtPresent
<1>4. \A v : Then(body, v) = [body EXCEPT !.at = "receipt"]
  BY <1>1, AtPresent
<1> QED BY <1>1, <1>2, <1>3, <1>4
        DEF PresentCompleted, Checkpoint, StepAt, Bodily, Reads, Records, Dies, Does, Stepped, Goes, CallOf, Cur, Call, Current

LEMMA InvokeClaimedToolSteps == ASSUME InvokeClaimedTool PROVE Bodily(body)
<1>1. body.at = "tool"
  BY DEF InvokeClaimedTool, Checkpoint
<1>2. /\ Asks(body) = <<"tool", CallOf(body)>>
      /\ Found(body) = ToolOutcomes
  BY <1>1, AtTool
<1>3. \A v : Store(body, v) = [db EXCEPT !.ran[CallOf(body)] = @ + 1]
  BY <1>1, AtTool
<1>4. \A v : Then(body, v) = DecidedOf(body, v)
  BY <1>1, AtTool
<1>5. CASE body.pos + 1 \in DOMAIN log
  <2>1. Reads(body)
    BY <1>1, <1>2, <1>4, <1>5 DEF InvokeClaimedTool, Checkpoint, StepAt, Reads, Stepped, Goes, DecidedOf, Decided, CallOf, Cur, Call, Current
  <2> QED BY <2>1 DEF Bodily
<1>6. CASE body.pos + 1 \notin DOMAIN log
  <2>1. PICK v \in Found(body) :
          /\ db' = Store(body, v) /\ UNCHANGED <<engine, world>>
          /\ \/ Recorded(body.pos + 1, Asks(body), v) /\ body' = Goes(body, v) /\ UNCHANGED crashes
             \/ crashes < MaxCrashes /\ crashes' = crashes + 1 /\ body' = Off /\ UNCHANGED log
    BY <1>2, <1>3, <1>4, <1>6 DEF InvokeClaimedTool, Checkpoint, StepAt, Goes, DecidedOf, Decided, CallOf, Cur, Call, Current
  <2> QED BY <1>1, <1>6, <2>1 DEF Bodily, Records, Dies, Does, Stepped
<1> QED BY <1>5, <1>6

LEMMA SettleCallSteps == ASSUME SettleCall PROVE Bodily(body)
<1>1. body.at = "settle"
  BY DEF SettleCall, Checkpoint
<1>2. /\ Asks(body) = <<CASE body.outcomes[Cur(body)] = "executed" -> "toolexec" [] body.outcomes[Cur(body)] = "failed" -> "toolfail"
                     [] body.outcomes[Cur(body)] \in {"rejected", "expired"} -> "toolreject", CallOf(body)>>
      /\ Found(body) = {"ok"}
  BY <1>1, AtSettle
<1>3. \A v : Store(body, v) = [db EXCEPT !.row[CallOf(body)] = body.outcomes[Cur(body)]]
  BY <1>1, AtSettle
<1>4. \A v : Then(body, v) = Answered(body, body.outcomes[Cur(body)])
  BY <1>1, AtSettle
<1> QED BY <1>1, <1>2, <1>3, <1>4
        DEF SettleCall, Checkpoint, StepAt, Bodily, Reads, Records, Dies, Does, Stepped, Goes, CallOf, Cur, Call, Current

LEMMA PersistToolResultsSteps == ASSUME PersistToolResults PROVE Bodily(body)
<1>1. body.at = "results"
  BY DEF PersistToolResults, Checkpoint
<1>2. /\ Asks(body) = <<"toolresults", body.step>>
      /\ Found(body) = {"ok"}
  BY <1>1, AtResults
<1>3. \A v : Store(body, v) = [db EXCEPT !.told[body.step] = body.results]
  BY <1>1, AtResults
<1>4. \A v : Then(body, v) = IF Halts(body) \/ body.step = MaxSteps THEN [body EXCEPT !.at = "finish"]
             ELSE [body EXCEPT !.at = "head", !.step = @ + 1, !.first = @ + Len(body.batch),
                            !.batch = <<>>, !.claims = <<>>, !.outcomes = <<>>, !.results = <<>>]
  BY <1>1, AtResults
<1> QED BY <1>1, <1>2, <1>3, <1>4
        DEF PersistToolResults, Checkpoint, StepAt, Bodily, Reads, Records, Dies, Does, Stepped, Goes

LEMMA FinishRunSteps == ASSUME FinishRun PROVE Bodily(body)
<1>1. body.at = "finish"
  BY DEF FinishRun, Checkpoint
<1>2. /\ Asks(body) = <<"run:end">>
      /\ Found(body) = {"ok"}
  BY <1>1, AtFinish
<1>3. \A v : Store(body, v) = RunEnded(db, "completed")
  BY <1>1, AtFinish
<1>4. \A v : Then(body, v) = [body EXCEPT !.at = "advance"]
  BY <1>1, AtFinish
<1> QED BY <1>1, <1>2, <1>3, <1>4
        DEF FinishRun, Checkpoint, StepAt, Bodily, Reads, Records, Dies, Does, Stepped, Goes

LEMMA FailRunSteps == ASSUME FailRun PROVE Bodily(body)
<1>1. body.at = "fail"
  BY DEF FailRun, Checkpoint
<1>2. /\ Asks(body) = <<"run:fail">>
      /\ Found(body) = {"ok"}
  BY <1>1, AtFail
<1>3. \A v : Store(body, v) = NoCards(RunEnded(db, "failed"))
  BY <1>1, AtFail
<1>4. \A v : Then(body, v) = [body EXCEPT !.at = "advance"]
  BY <1>1, AtFail
<1> QED BY <1>1, <1>2, <1>3, <1>4
        DEF FailRun, Checkpoint, StepAt, Bodily, Reads, Records, Dies, Does, Stepped, Goes

LEMMA AdvanceQueueSteps == ASSUME AdvanceQueue PROVE Bodily(body)
<1>1. body.at = "advance"
  BY DEF AdvanceQueue, Checkpoint
<1>2. /\ Asks(body) = <<"queue", IF body.failing THEN "failed" ELSE "completed">>
      /\ Found(body) = {IF Starts(Outcome(body)) THEN "next" ELSE "none"}
  BY <1>1, AtAdvance
<1>3. \A v : Store(body, v) = Planned(Outcome(body))
  BY <1>1, AtAdvance
<1>4. \A v : Then(body, v) = IF v = "next" THEN [body EXCEPT !.at = "spawn"] ELSE Advanced(body)
  BY <1>1, AtAdvance
<1> QED BY <1>1, <1>2, <1>3, <1>4
        DEF AdvanceQueue, Checkpoint, StepAt, Bodily, Reads, Records, Dies, Does, Stepped, Goes, Outcome

LEMMA StartNextSteps == ASSUME StartNext PROVE Bodily(body)
<1>1. body.at = "spawn"
  BY DEF StartNext, Checkpoint
<1>2. /\ Asks(body) = <<"spawn">>
      /\ Found(body) = {"ok"} \cup (IF May("nostart") THEN {"threw"} ELSE {})
  BY <1>1, AtSpawn
<1>3. \A v : Store(body, v) = IF v = "ok" THEN [db EXCEPT !.next = 1] ELSE db
  BY <1>1, AtSpawn
<1>4. \A v : Then(body, v) = IF v = "ok" THEN Advanced(body) ELSE [body EXCEPT !.at = "restore"]
  BY <1>1, AtSpawn
<1> QED BY <1>1, <1>2, <1>3, <1>4
        DEF StartNext, Checkpoint, StepAt, Bodily, Reads, Records, Dies, Does, Stepped, Goes

LEMMA RestoreNextSteps == ASSUME RestoreNext PROVE Bodily(body)
<1>1. body.at = "restore"
  BY DEF RestoreNext, Checkpoint
<1>2. /\ Asks(body) = <<"queue:restore">>
      /\ Found(body) = {"ok"}
  BY <1>1, AtRestore
<1>3. \A v : Store(body, v) = Restored(db)
  BY <1>1, AtRestore
<1>4. \A v : Then(body, v) = Advanced(body)
  BY <1>1, AtRestore
<1> QED BY <1>1, <1>2, <1>3, <1>4
        DEF RestoreNext, Checkpoint, StepAt, Bodily, Reads, Records, Dies, Does, Stepped, Goes

LEMMA DeactivateSteps == ASSUME Deactivate PROVE Bodily(body)
<1>1. body.at = "release"
  BY DEF Deactivate, Checkpoint
<1>2. /\ Asks(body) = <<"deactivate">>
      /\ Found(body) = {"ok"}
  BY <1>1, AtRelease
<1>3. \A v : Store(body, v) = Released(db)
  BY <1>1, AtRelease
<1>4. \A v : Then(body, v) = [body EXCEPT !.at = IF body.failing THEN "close" ELSE "over"]
  BY <1>1, AtRelease
<1> QED BY <1>1, <1>2, <1>3, <1>4
        DEF Deactivate, Checkpoint, StepAt, Bodily, Reads, Records, Dies, Does, Stepped, Goes

LEMMA BeforeModelSteps == ASSUME BeforeModel PROVE Bodily(body)
<1>1. body.at = "head" /\ Moves(body) = [body EXCEPT !.at = "llm"]
  BY DEF BeforeModel, HaltIfCancelled, Local, Moves
<1> QED BY <1>1 DEF BeforeModel, HaltIfCancelled, Local, Bodily, Walks, Leaves, Alone

LEMMA BeforePersistSteps == ASSUME BeforePersist PROVE Bodily(body)
<1>1. body.at = "check" /\ Moves(body) = [body EXCEPT !.at = "assistant"]
  BY DEF BeforePersist, HaltIfCancelled, Local, Moves
<1> QED BY <1>1 DEF BeforePersist, HaltIfCancelled, Local, Bodily, Walks, Leaves, Alone

LEMMA GiveReceiptSteps == ASSUME GiveReceipt PROVE Bodily(body)
<1>1. body.at = "receipt"
  BY DEF GiveReceipt, Local
<1>2. body' = Moves(body)
  BY <1>1 DEF GiveReceipt, Moves, Cur, Current
<1> QED BY <1>1, <1>2 DEF GiveReceipt, Local, Bodily, Walks, Alone

LEMMA RefuseQuestionSteps == ASSUME RefuseQuestion PROVE Bodily(body)
<1>1. body.at = "misasked"
  BY DEF RefuseQuestion, Local
<1>2. body' = Moves(body)
  BY <1>1 DEF RefuseQuestion, Moves, Decided, DecidedOf, Cur, Current
<1> QED BY <1>1, <1>2 DEF RefuseQuestion, Local, Bodily, Walks, Alone

LEMMA CloseStreamSteps == ASSUME CloseStream PROVE Bodily(body)
<1>1. body.at = "close"
  BY DEF CloseStream, Local
<1>2. body' = Moves(body)
  BY <1>1 DEF CloseStream, Moves
<1> QED BY <1>1, <1>2 DEF CloseStream, Local, Bodily, Walks, Alone

LEMMA ReturnSteps == ASSUME Return PROVE Bodily(body)
BY DEF Return, Local, Bodily, Leaves

LEMMA AwaitDecisionSteps == ASSUME AwaitDecision PROVE Bodily(body)
<1>1. body.at = "decide"
  BY DEF AwaitDecision, Wait, Local
<1>2. Asks(body) = <<"wait", CallOf(body)>> /\ CallOf(body) = Call
  BY <1>1, AtWaits DEF Waits, CallOf, Cur, Call, Current
<1>3. \A v : Then(body, v) = CASE v = "yes"     -> [body EXCEPT !.at = "tool"]
                               [] v = "no"      -> DecidedOf(body, "rejected")
                               [] v = "expired" -> DecidedOf(body, "expired")
                               [] v = "answers" -> body
  BY <1>1 DEF Then
<1>4. \A outcome : Decided(outcome) = DecidedOf(body, outcome)
  BY DEF Decided, DecidedOf, Cur, Current
<1>5. CASE body.pos + 1 \in DOMAIN log
  <2>1. Reads(body)
    BY <1>1, <1>2, <1>3, <1>4, <1>5 DEF AwaitDecision, Wait, Local, Reads, Waits, Goes
  <2> QED BY <2>1 DEF Bodily
<1>6. CASE body.pos + 1 \notin DOMAIN log
  <2>1. body.claims[Cur(body)] = body.claims[Current]
    BY DEF Cur, Current
  <2>2. engine' = [engine EXCEPT !.parked = [call |-> Call, pos |-> body.pos + 1,
                                             until |-> IF body.claims[Current] = "ask" THEN now + Ttl ELSE Never]]
    BY <1>6 DEF AwaitDecision, Wait
  <2>3. Parks(body)
    BY <1>1, <1>2, <1>6, <2>1, <2>2 DEF AwaitDecision, Wait, Local, Parks, Waits
  <2> QED BY <2>3 DEF Bodily
<1> QED BY <1>5, <1>6

LEMMA AwaitAnswerSteps == ASSUME AwaitAnswer PROVE Bodily(body)
<1>1. body.at = "answer"
  BY DEF AwaitAnswer, Wait, Local
<1>2. Asks(body) = <<"wait", CallOf(body)>> /\ CallOf(body) = Call
  BY <1>1, AtWaits DEF Waits, CallOf, Cur, Call, Current
<1>3. \A v : Then(body, v) = DecidedOf(body, IF v = "no" THEN "rejected" ELSE "executed")
  BY <1>1, AtWaits DEF Waits
<1>4. \A outcome : Decided(outcome) = DecidedOf(body, outcome)
  BY DEF Decided, DecidedOf, Cur, Current
<1>5. CASE body.pos + 1 \in DOMAIN log
  <2>1. Reads(body)
    BY <1>1, <1>2, <1>3, <1>4, <1>5 DEF AwaitAnswer, Wait, Local, Reads, Waits, Goes
  <2> QED BY <2>1 DEF Bodily
<1>6. CASE body.pos + 1 \notin DOMAIN log
  BY <1>1, <1>2, <1>6 DEF AwaitAnswer, Wait, Local, Bodily, Parks, Waits
<1> QED BY <1>5, <1>6

LEMMA BodySteps == ASSUME Body PROVE Bodily(body) \/ InvokeTogether \/ JoinTogether
BY OpenRunSteps, CheckQuotaSteps, PersistUserSteps, BeforeModelSteps, RunTurnSteps, ProcessOutputSteps,
   PersistUsageSteps, BumpQuotaSteps, BeforePersistSteps, PersistAssistantSteps, ClaimToolCallSteps,
   GiveReceiptSteps, PresentCompletedSteps, RefuseQuestionSteps, AwaitDecisionSteps, PoseQuestionSteps, AwaitAnswerSteps, InvokeClaimedToolSteps,
   SettleCallSteps, PersistToolResultsSteps, FinishRunSteps, FailRunSteps, AdvanceQueueSteps,
   StartNextSteps, RestoreNextSteps, CloseStreamSteps, DeactivateSteps, ReturnSteps
   DEF Body

-----------------------------------------------------------------------------
(***************************************************************************)
(* The shape of a body at each place.                                      *)
(***************************************************************************)
Shaped(b) ==
  /\ b \in Bodies
  /\ b.first + Len(b.batch) <= MaxCalls /\ Len(b.results) <= Len(b.claims) /\ Len(b.claims) <= Len(b.batch)
  /\ b.at \in Before => b.batch = <<>>
  /\ b.at \in Before \cup Answering => b.claims = <<>>
  /\ b.at = "claim" => Len(b.claims) < Len(b.batch) /\ b.results = <<>>
  /\ b.at \in Serving => /\ Len(b.claims) = Len(b.batch) /\ Len(b.outcomes) = Len(b.batch)
                         /\ Len(b.results) < Len(b.batch)
  /\ b.at \in {"results", "finish"} => Whole(b)
  /\ b.at \in After => b.failing \/ Whole(b)
  /\ b.failing => b.at \in {"fail"} \cup After /\ b.results = <<>>
  /\ b.at = "fail" => b.failing
  /\ b.at = "tool" => b.claims[Cur(b)] \in {"read", "auto", "ask", "hold"} /\ ~Together(b)
  /\ b.at = "decide" => b.claims[Cur(b)] \in {"ask", "hold"} /\ ~Together(b)
  /\ b.at \in {"pose", "answer"} => b.claims[Cur(b)] = "question" /\ ~Together(b)
  /\ b.at = "misasked" => b.claims[Cur(b)] = "malformed" /\ ~Together(b)
  /\ b.at = "present" => b.claims[Cur(b)] = "presented" /\ ~Together(b)
  /\ b.at = "receipt" => b.claims[Cur(b)] \in {"proposal", "refused", "failed", "completed", "presented"} /\ ~Together(b)
  /\ b.at = "together" => Together(b) /\ b.results = <<>> /\ b.outcomes = [n \in DOMAIN b.batch |-> ""]
  /\ b.at = "settle" =>
       /\ b.outcomes[Cur(b)] \in Outcomes /\ b.claims[Cur(b)] \in {"read", "auto", "ask", "hold", "question", "malformed"}
       /\ Together(b) => \A n \in Cur(b) .. Len(b.batch) : b.outcomes[n] \in {"executed", "failed"}

\* A body that goes on to a call: the claims are in, and so is what a joined step came to.
Serves(b) ==
  /\ b \in Bodies /\ ~b.failing
  /\ b.first + Len(b.batch) <= MaxCalls /\ Len(b.results) <= Len(b.batch)
  /\ Len(b.claims) = Len(b.batch) /\ Len(b.outcomes) = Len(b.batch)
  /\ Together(b) => \A n \in Cur(b) .. Len(b.batch) : b.outcomes[n] \in {"executed", "failed"}

\* The kinds of a body's fields.
LEMMA BodyTypes ==
  ASSUME NEW b \in Bodies
  PROVE  /\ b.at \in Ats /\ b.pos \in Nat /\ b.step \in Steps /\ b.first \in Nat
         /\ b.batch \in Seq(Kinds) /\ b.claims \in Seq(ClaimsOf)
         /\ b.outcomes \in Seq(Ends) /\ b.results \in Seq(Final)
         /\ b.refused \in BOOLEAN /\ b.failing \in BOOLEAN
         /\ Len(b.batch) \in Nat /\ DOMAIN b.batch = 1 .. Len(b.batch)
         /\ Len(b.claims) \in Nat /\ DOMAIN b.claims = 1 .. Len(b.claims)
         /\ Len(b.outcomes) \in Nat /\ DOMAIN b.outcomes = 1 .. Len(b.outcomes)
         /\ Len(b.results) \in Nat /\ DOMAIN b.results = 1 .. Len(b.results)
         /\ Cur(b) \in Nat \ {0}
<1>1. /\ b.at \in Ats /\ b.pos \in Nat /\ b.step \in Steps /\ b.first \in Nat
      /\ b.batch \in Seq(Kinds) /\ b.claims \in Seq(ClaimsOf)
      /\ b.outcomes \in Seq(Ends) /\ b.results \in Seq(Final)
      /\ b.refused \in BOOLEAN /\ b.failing \in BOOLEAN
  BY DEF Bodies
<1>2. /\ Len(b.batch) \in Nat /\ DOMAIN b.batch = 1 .. Len(b.batch)
      /\ Len(b.claims) \in Nat /\ DOMAIN b.claims = 1 .. Len(b.claims)
  BY <1>1, LenProperties
<1>3. /\ Len(b.outcomes) \in Nat /\ DOMAIN b.outcomes = 1 .. Len(b.outcomes)
      /\ Len(b.results) \in Nat /\ DOMAIN b.results = 1 .. Len(b.results)
  BY <1>1, LenProperties
<1>4. Cur(b) \in Nat \ {0}
  BY <1>3 DEF Cur
<1> QED BY <1>1, <1>2, <1>3, <1>4, Zenon

LEMMA SetAt ==
  ASSUME NEW b \in Bodies, NEW x
  PROVE  /\ [b EXCEPT !.at = x].at = x
         /\ [b EXCEPT !.at = x].pos = b.pos /\ [b EXCEPT !.at = x].step = b.step
         /\ [b EXCEPT !.at = x].batch = b.batch /\ [b EXCEPT !.at = x].first = b.first
         /\ [b EXCEPT !.at = x].claims = b.claims /\ [b EXCEPT !.at = x].outcomes = b.outcomes
         /\ [b EXCEPT !.at = x].results = b.results /\ [b EXCEPT !.at = x].refused = b.refused
         /\ [b EXCEPT !.at = x].failing = b.failing
         /\ x \in Ats => [b EXCEPT !.at = x] \in Bodies
BY DEF Bodies

\* The fields of a body that its own step leaves as they are.
Kept(b, g) == /\ g.pos = b.pos /\ g.step = b.step /\ g.batch = b.batch /\ g.first = b.first
              /\ g.refused = b.refused /\ g.failing = b.failing

LEMMA SentTo ==
  ASSUME NEW b \in Bodies, NEW x \in Ats, NEW g, g = [b EXCEPT !.at = x]
  PROVE  /\ g \in Bodies /\ g.at = x /\ Kept(b, g) /\ g.claims = b.claims /\ g.outcomes = b.outcomes
         /\ g.results = b.results
<1>1. g \in Bodies
  BY SetAt
<1>2. g.at = x /\ g.claims = b.claims /\ g.outcomes = b.outcomes /\ g.results = b.results
  BY SetAt
<1>3. Kept(b, g)
  BY SetAt DEF Kept
<1> QED BY <1>1, <1>2, <1>3

\* A tool that runs without a person being asked.
Cleared(b) == b.at = "tool" => b.claims[Cur(b)] \notin {"ask", "hold"}

LEMMA AheadShaped ==
  ASSUME NEW b, Serves(b)
  PROVE  /\ Shaped(Ahead(b)) /\ Cleared(Ahead(b))
         /\ Ahead(b) = [b EXCEPT !.at = Ahead(b).at]
         /\ Ahead(b).at \in (Serving \ {"together", "answer"}) \cup {"results"}
         /\ Ahead(b).at = "settle" <=> Cur(b) <= Len(b.batch) /\ Together(b)
         /\ Ahead(b).at = "results" <=> Cur(b) > Len(b.batch)
<1> DEFINE n == Len(b.results) + 1
           a == Ahead(b).at
<1>1. b \in Bodies /\ Len(b.claims) = Len(b.batch) /\ Len(b.outcomes) = Len(b.batch)
  BY DEF Serves
<1>2. n \in Nat \ {0} /\ Len(b.batch) \in Nat
  BY <1>1, BodyTypes
<1>3. n <= Len(b.batch) => b.claims[n] \in ClaimsOf
  BY <1>1, <1>2, BodyTypes
<1>4. \E x : Ahead(b) = [b EXCEPT !.at = x]
  BY DEF Ahead
<1>5. Ahead(b) = [b EXCEPT !.at = a]
  BY <1>1, <1>4, SetAt
<1>6. n > Len(b.batch) => a = "results"
  BY <1>1, <1>2, SetAt DEF Ahead
<1>7. n <= Len(b.batch) /\ Together(b) => a = "settle"
  BY <1>1, <1>2, SetAt DEF Ahead
<1>8. ASSUME n <= Len(b.batch), ~Together(b)
      PROVE  /\ b.claims[n] \in {"read", "auto"} => a = "tool"
             /\ b.claims[n] \in {"ask", "hold"} => a = "decide"
             /\ b.claims[n] = "question" => a = "pose"
             /\ b.claims[n] = "malformed" => a = "misasked"
             /\ b.claims[n] = "presented" => a = "present"
             /\ b.claims[n] \in {"proposal", "refused", "failed", "completed"} => a = "receipt"
  <2>1. ~(n > Len(b.batch))
    BY <1>2, <1>8
  <2>2. CASE b.claims[n] \in {"read", "auto"}
    BY <1>1, <1>8, <2>1, <2>2, SetAt DEF Ahead
  <2>3. CASE b.claims[n] \in {"ask", "hold"}
    BY <1>1, <1>8, <2>1, <2>3, SetAt DEF Ahead
  <2>4. CASE b.claims[n] = "question"
    BY <1>1, <1>8, <2>1, <2>4, SetAt DEF Ahead
  <2>5. CASE b.claims[n] \in {"proposal", "refused", "failed", "completed"}
    BY <1>1, <1>8, <2>1, <2>5, SetAt DEF Ahead
  <2>6. CASE b.claims[n] = "malformed"
    BY <1>1, <1>8, <2>1, <2>6, SetAt DEF Ahead
  <2>7. CASE b.claims[n] = "presented"
    BY <1>1, <1>8, <2>1, <2>7, SetAt DEF Ahead
  <2> QED BY <2>2, <2>3, <2>4, <2>5, <2>6, <2>7
<1>9. /\ a \in (Serving \ {"together", "answer"}) \cup {"results"}
      /\ a = "settle" <=> Cur(b) <= Len(b.batch) /\ Together(b)
      /\ a = "results" <=> Cur(b) > Len(b.batch)
  <2>1. CASE n > Len(b.batch)
    <3>1. a = "results"
      BY <1>6, <2>1
    <3>2. ~(Cur(b) <= Len(b.batch)) /\ Cur(b) > Len(b.batch)
      BY <1>2, <2>1 DEF Cur
    <3>3. a \in (Serving \ {"together", "answer"}) \cup {"results"}
      BY <3>1, Zenon
    <3>4. a # "settle"
      BY <3>1
    <3> QED BY <3>1, <3>2, <3>3, <3>4, Zenon
  <2>2. CASE n <= Len(b.batch) /\ Together(b)
    BY <1>2, <1>7, <2>2 DEF Serving, Cur
  <2>3. CASE n <= Len(b.batch) /\ ~Together(b)
    <3>1. a \in {"tool", "decide", "pose", "misasked", "present", "receipt"}
      BY <1>3, <1>8, <2>3 DEF ClaimsOf
    <3> QED BY <1>2, <2>3, <3>1 DEF Serving, Cur
  <2> QED BY <1>2, <2>1, <2>2, <2>3
<1>10. Shaped([b EXCEPT !.at = a])
  <2> DEFINE g == [b EXCEPT !.at = a]
  <2> SUFFICES Shaped(g)
    OBVIOUS
  <2>1. /\ g \in Bodies /\ g.at = a /\ g.batch = b.batch /\ g.first = b.first /\ g.claims = b.claims
        /\ g.outcomes = b.outcomes /\ g.results = b.results /\ g.failing = b.failing
    <3>1. a \in Ats
      BY <1>9 DEF Ats, Serving
    <3> QED BY <1>1, <3>1, SetAt
  <2> HIDE DEF g
  <2>2. Cur(g) = Cur(b) /\ Together(g) = Together(b)
    BY <2>1 DEF Cur, Together
  <2>3. Len(b.results) \in Nat /\ Len(b.batch) \in Nat
    BY <1>1, BodyTypes
  <2>4. /\ ~g.failing /\ g.first + Len(g.batch) <= MaxCalls /\ Len(g.results) <= Len(g.batch)
        /\ Together(g) => \A k \in Cur(g) .. Len(g.batch) : g.outcomes[k] \in {"executed", "failed"}
    BY <2>1, <2>2 DEF Serves
  <2>5. /\ g.at \notin Before \cup Answering \cup After \cup {"claim", "finish", "fail", "together", "answer"}
        /\ g.at \in Serving => Len(g.results) < Len(g.batch)
        /\ g.at = "results" => Len(g.results) = Len(g.batch)
    BY <1>1, <1>2, <1>6, <1>9, <2>1, <2>3, <2>4 DEF Before, Answering, After, Closing, Serving, Cur
  <2>6. /\ g.at = "tool" => g.claims[Cur(g)] \in {"read", "auto", "ask", "hold"} /\ ~Together(g)
        /\ g.at = "decide" => g.claims[Cur(g)] \in {"ask", "hold"} /\ ~Together(g)
        /\ g.at = "pose" => g.claims[Cur(g)] = "question" /\ ~Together(g)
        /\ g.at = "misasked" => g.claims[Cur(g)] = "malformed" /\ ~Together(g)
        /\ g.at = "present" => g.claims[Cur(g)] = "presented" /\ ~Together(g)
        /\ g.at = "receipt" => g.claims[Cur(g)] \in {"proposal", "refused", "failed", "completed", "presented"} /\ ~Together(g)
    <3>1. CASE n > Len(b.batch) \/ Together(b)
      BY <1>2, <1>6, <1>7, <2>1, <2>3, <3>1
    <3>2. CASE ~(n > Len(b.batch) \/ Together(b))
      BY <1>2, <1>3, <1>8, <2>1, <2>2, <2>3, <3>2 DEF Cur, ClaimsOf
    <3> QED BY <3>1, <3>2
  <2>7. g.at = "settle" => /\ g.outcomes[Cur(g)] \in Outcomes /\ g.claims[Cur(g)] \in {"read", "auto", "ask", "hold", "question", "malformed"}
    <3> SUFFICES ASSUME g.at = "settle"
                 PROVE  g.outcomes[Cur(g)] \in Outcomes /\ g.claims[Cur(g)] \in {"read", "auto", "ask", "hold", "question", "malformed"}
      OBVIOUS
    <3>1. Together(g) /\ Cur(g) \in 1 .. Len(g.batch)
      BY <1>2, <1>9, <2>1, <2>2 DEF Cur
    <3>2. g.claims[Cur(g)] = "read"
      BY <1>1, <2>1, <3>1, BodyTypes DEF Together
    <3>3. g.outcomes[Cur(g)] \in {"executed", "failed"}
      BY <1>2, <2>1, <2>4, <3>1
    <3> QED BY <3>2, <3>3 DEF Outcomes
  <2>8. Len(g.claims) = Len(g.batch) /\ Len(g.outcomes) = Len(g.batch)
    BY <1>1, <2>1
  <2>9. g.at \notin Before /\ g.at \notin Answering /\ g.at \notin After /\ g.at \notin {"claim", "finish", "fail", "together", "answer"}
    BY <2>5
  <2>10. Len(g.results) <= Len(g.claims) /\ Len(g.claims) <= Len(g.batch)
    BY <2>1, <2>3, <2>4, <2>8
  <2>11. /\ g.at \in Before \cup Answering => g.claims = <<>>
         /\ g.at \in Serving => /\ Len(g.claims) = Len(g.batch) /\ Len(g.outcomes) = Len(g.batch)
                                /\ Len(g.results) < Len(g.batch)
         /\ g.at \in {"results", "finish"} => Whole(g)
         /\ g.at \in After => g.failing \/ Whole(g)
    BY <2>5, <2>8, <2>9 DEF Whole
  <2>12. /\ g.at \in Before => g.batch = <<>>
         /\ g.at = "claim" => Len(g.claims) < Len(g.batch) /\ g.results = <<>>
         /\ g.at = "fail" => g.failing
         /\ g.at = "together" => Together(g) /\ g.results = <<>> /\ g.outcomes = [k \in DOMAIN g.batch |-> ""]
    BY <2>9
  <2>13. g.at \in {"pose", "answer"} => g.claims[Cur(g)] = "question" /\ ~Together(g)
    BY <2>6, <2>9
  <2>14. g.failing => g.at \in {"fail"} \cup After /\ g.results = <<>>
    BY <2>4
  <2> QED BY <2>1, <2>4, <2>6, <2>7, <2>10, <2>11, <2>12, <2>13, <2>14 DEF Shaped
<1>11. Cleared([b EXCEPT !.at = a])
  <2> DEFINE g == [b EXCEPT !.at = a]
  <2>1. g.at = a /\ g.claims = b.claims /\ g.results = b.results
    BY <1>1, SetAt
  <2> HIDE DEF g
  <2>2. a = "tool" => b.claims[n] \notin {"ask", "hold"}
    BY <1>2, <1>6, <1>7, <1>8
  <2> QED BY <2>1, <2>2 DEF Cleared, Cur
<1> QED BY <1>5, <1>9, <1>10, <1>11

LEMMA AnsweredShaped ==
  ASSUME NEW b, Serves(b), Len(b.results) < Len(b.batch), NEW r \in Final
  PROVE  /\ Shaped(Answered(b, r)) /\ Kept(b, Answered(b, r)) /\ Cleared(Answered(b, r))
         /\ Answered(b, r).claims = b.claims /\ Answered(b, r).outcomes = b.outcomes
         /\ Answered(b, r).results = Append(b.results, r)
         /\ Answered(b, r).at \in (Serving \ {"together", "answer"}) \cup {"results"}
         /\ Answered(b, r).at = "settle" => Together(b)
<1> DEFINE d == [b EXCEPT !.results = Append(@, r)]
<1>1. b \in Bodies
  BY DEF Serves
<1>2. /\ b.results \in Seq(Final) /\ Len(b.results) \in Nat /\ Len(b.batch) \in Nat
      /\ Len(b.claims) = Len(b.batch) /\ Len(b.outcomes) = Len(b.batch)
  BY <1>1, BodyTypes DEF Serves
<1>3. Append(b.results, r) \in Seq(Final) /\ Len(Append(b.results, r)) = Len(b.results) + 1
  BY <1>2
<1>4. /\ d \in Bodies /\ Kept(b, d) /\ d.claims = b.claims /\ d.outcomes = b.outcomes
      /\ d.results = Append(b.results, r)
  BY <1>1, <1>3 DEF Bodies, Kept
<1>5. Answered(b, r) = Ahead(d)
  BY DEF Answered
<1> HIDE DEF d
<1>6. Cur(d) = Cur(b) + 1 /\ Together(d) = Together(b)
  BY <1>2, <1>3, <1>4 DEF Cur, Together
<1>7. Cur(b) \in Nat
  BY <1>2 DEF Cur
<1>8. Together(d) => \A n \in Cur(d) .. Len(d.batch) : d.outcomes[n] \in {"executed", "failed"}
  <2> SUFFICES ASSUME Together(d), NEW n \in Cur(d) .. Len(d.batch) PROVE d.outcomes[n] \in {"executed", "failed"}
    OBVIOUS
  <2>1. n \in Cur(b) .. Len(b.batch)
    BY <1>2, <1>4, <1>6, <1>7 DEF Kept
  <2> QED BY <1>4, <1>6, <2>1 DEF Serves
<1>9. Serves(d)
  BY <1>2, <1>3, <1>4, <1>8 DEF Serves, Kept
<1>10. /\ Shaped(Ahead(d)) /\ Ahead(d) = [d EXCEPT !.at = Ahead(d).at] /\ Cleared(Ahead(d))
       /\ Ahead(d).at \in (Serving \ {"together", "answer"}) \cup {"results"}
       /\ Ahead(d).at = "settle" => Together(d)
  BY <1>9, AheadShaped
<1>11. /\ Kept(d, Ahead(d)) /\ Ahead(d).claims = d.claims /\ Ahead(d).outcomes = d.outcomes
       /\ Ahead(d).results = d.results
  <2> DEFINE x == Ahead(d).at
  <2>1. Ahead(d) = [d EXCEPT !.at = x]
    BY <1>10
  <2> HIDE DEF x
  <2> QED BY <1>4, <2>1, SetAt DEF Kept
<1> QED BY <1>4, <1>5, <1>6, <1>10, <1>11 DEF Kept

LEMMA ClaimedShaped ==
  ASSUME NEW b, Shaped(b), b.at = "claim", NEW v \in ClaimsOf
  PROVE  /\ Shaped(Claimed(b, v)) /\ Kept(b, Claimed(b, v)) /\ Cleared(Claimed(b, v))
         /\ Claimed(b, v).claims = Append(b.claims, v) /\ Claimed(b, v).results = b.results
        
         /\ Claimed(b, v).at \in {"claim", "together", "tool", "decide", "pose", "misasked", "present", "receipt"}
         /\ Claimed(b, v).at # "claim" => Len(b.claims) + 1 = Len(b.batch)
<1> DEFINE claims == Append(b.claims, v)
           empty  == [n \in DOMAIN b.batch |-> ""]
           all    == [b EXCEPT !.claims = claims, !.outcomes = empty]
           next   == [b EXCEPT !.claims = claims]
<1>1. b \in Bodies /\ ~b.failing /\ b.results = <<>> /\ Len(b.claims) < Len(b.batch)
      /\ b.first + Len(b.batch) <= MaxCalls
  BY DEF Shaped, After, Closing
<1>2. /\ b.claims \in Seq(ClaimsOf) /\ Len(b.claims) \in Nat /\ Len(b.batch) \in Nat /\ DOMAIN b.batch = 1 .. Len(b.batch)
  BY <1>1, BodyTypes
<1>3. claims \in Seq(ClaimsOf) /\ Len(claims) = Len(b.claims) + 1
  BY <1>2
<1>4. empty \in Seq(Ends) /\ Len(empty) = Len(b.batch)
  BY <1>2 DEF Ends
<1>5. /\ all \in Bodies /\ Kept(b, all) /\ all.claims = claims /\ all.outcomes = empty
      /\ all.results = b.results /\ all.at = "claim"
  BY <1>1, <1>3, <1>4 DEF Bodies, Kept
<1>6. /\ next \in Bodies /\ Kept(b, next) /\ next.claims = claims
      /\ next.results = b.results /\ next.at = "claim"
  BY <1>1, <1>3 DEF Bodies, Kept
<1>7. Claimed(b, v) = IF Len(claims) < Len(b.batch) THEN next
                      ELSE IF Together(all) THEN [all EXCEPT !.at = "together"] ELSE Ahead(all)
  BY DEF Claimed
<1>8. Len(b.results) = 0
  BY <1>1
<1>9. CASE Len(claims) < Len(b.batch)
  <2>1. Claimed(b, v) = next
    BY <1>7, <1>9
  <2>2. Shaped(next)
    <3> HIDE DEF next, all, empty, claims
    <3> QED BY <1>1, <1>2, <1>3, <1>6, <1>8, <1>9
            DEF Shaped, Kept, Before, Answering, Serving, After, Closing
  <2>3. Cleared(next)
    <3>1. next.at = "claim"
      BY <1>6
    <3> HIDE DEF next
    <3> QED BY <3>1 DEF Cleared
  <2> QED BY <1>6, <2>1, <2>2, <2>3, Zenon DEF Kept
<1>10. CASE ~(Len(claims) < Len(b.batch)) /\ Together(all)
  <2> DEFINE g == [all EXCEPT !.at = "together"]
  <2>1. Claimed(b, v) = g
    BY <1>7, <1>10
  <2>2. /\ g \in Bodies /\ Kept(b, g) /\ g.claims = claims /\ g.outcomes = empty
        /\ g.results = b.results /\ g.at = "together"
    <3>1. "together" \in Ats
      BY DEF Ats, Serving
    <3>2. /\ g \in Bodies /\ g.at = "together" /\ Kept(all, g) /\ g.claims = all.claims
          /\ g.outcomes = all.outcomes /\ g.results = all.results
      <4>1. g = [all EXCEPT !.at = "together"]
        OBVIOUS
      <4>2. all \in Bodies
        BY <1>5
      <4>3. \A d \in Bodies : \A h : h = [d EXCEPT !.at = "together"] =>
              /\ h \in Bodies /\ h.at = "together" /\ Kept(d, h) /\ h.claims = d.claims
              /\ h.outcomes = d.outcomes /\ h.results = d.results
        BY <3>1, SentTo
      <4> HIDE DEF all, g
      <4> QED BY <4>1, <4>2, <4>3
    <3> HIDE DEF all, g, empty, claims
    <3> QED BY <1>5, <3>2 DEF Kept
  <2>3. Together(g)
    BY <1>5, <1>10, <2>2 DEF Together
  <2>4. Shaped(g)
    <3>1. g.outcomes = [n \in DOMAIN g.batch |-> ""]
      BY <2>2 DEF Kept
    <3>2. /\ g.batch = b.batch /\ g.first = b.first /\ ~g.failing
      BY <1>1, <2>2 DEF Kept
    <3>3. /\ Len(g.claims) = Len(g.batch) /\ Len(g.outcomes) = Len(g.batch) /\ Len(g.results) < Len(g.batch)
          /\ Len(g.results) <= Len(g.claims) /\ Len(g.claims) <= Len(g.batch)
      <4> HIDE DEF g, claims, empty
      <4> QED BY <1>1, <1>2, <1>3, <1>4, <1>8, <1>10, <2>2, <3>2
    <3> HIDE DEF g, claims, empty
    <3>4. g.at \notin Before \cup Answering /\ g.at \notin After
      BY <2>2 DEF Before, Answering, After, Closing
    <3> QED BY <1>1, <2>2, <2>3, <3>1, <3>2, <3>3, <3>4 DEF Shaped
  <2>5. Len(b.claims) + 1 = Len(b.batch)
    BY <1>1, <1>2, <1>3, <1>10
  <2>6. Cleared(g)
    <3>1. g.at = "together"
      BY <2>2
    <3> HIDE DEF g
    <3> QED BY <3>1 DEF Cleared
  <2> QED BY <2>1, <2>2, <2>4, <2>5, <2>6, Zenon DEF Kept
<1>11. CASE ~(Len(claims) < Len(b.batch)) /\ ~Together(all)
  <2>1. Claimed(b, v) = Ahead(all)
    BY <1>7, <1>11
  <2>2. Serves(all) /\ Cur(all) <= Len(all.batch) /\ Len(b.claims) + 1 = Len(b.batch)
    <3> HIDE DEF all, claims, empty
    <3> QED BY <1>1, <1>2, <1>3, <1>4, <1>5, <1>8, <1>11 DEF Serves, Cur, Kept
  <2>3. /\ Shaped(Ahead(all)) /\ Ahead(all) = [all EXCEPT !.at = Ahead(all).at] /\ Cleared(Ahead(all))
        /\ Ahead(all).at \in {"tool", "decide", "pose", "misasked", "present", "receipt"}
    <3> HIDE DEF all
    <3>1. /\ Shaped(Ahead(all)) /\ Ahead(all) = [all EXCEPT !.at = Ahead(all).at] /\ Cleared(Ahead(all))
          /\ Ahead(all).at \in (Serving \ {"together", "answer"}) \cup {"results"}
          /\ Ahead(all).at # "settle"
      BY <1>11, <2>2, AheadShaped
    <3>2. Ahead(all).at # "results"
      <4>1. ~(Cur(all) > Len(all.batch))
        <5>1. Cur(all) \in Nat /\ Len(all.batch) \in Nat
          BY <1>5, BodyTypes, Zenon
        <5> QED BY <2>2, <5>1
      <4> QED BY <2>2, <4>1, AheadShaped
    <3> QED BY <3>1, <3>2 DEF Serving
  <2>4. /\ Kept(b, Ahead(all)) /\ Ahead(all).claims = claims
        /\ Ahead(all).results = b.results
    <3> DEFINE x == Ahead(all).at
    <3>1. Ahead(all) = [all EXCEPT !.at = x] /\ x \in Ats
      BY <2>3 DEF Ats, Serving
    <3> HIDE DEF x, all, empty, claims
    <3>2. /\ Kept(all, Ahead(all)) /\ Ahead(all).claims = all.claims
          /\ Ahead(all).results = all.results
      BY <1>5, <3>1, SentTo
    <3> QED BY <1>5, <3>2 DEF Kept
  <2> QED BY <2>1, <2>2, <2>3, <2>4
<1> QED BY <1>9, <1>10, <1>11

\* Nothing of a body's shape depends on its position.
LEMMA Placed ==
  ASSUME NEW b, Shaped(b), NEW n \in Nat, NEW g, g = [b EXCEPT !.pos = n]
  PROVE  /\ Shaped(g) /\ g.pos = n /\ g.at = b.at /\ g.step = b.step /\ g.batch = b.batch /\ g.first = b.first
         /\ g.claims = b.claims /\ g.outcomes = b.outcomes /\ g.results = b.results
         /\ g.failing = b.failing
<1>1. b \in Bodies
  BY DEF Shaped
<1>2. g \in Bodies /\ g.pos = n
  BY <1>1 DEF Bodies
<1>3. /\ g.at = b.at /\ g.step = b.step /\ g.batch = b.batch /\ g.first = b.first
      /\ g.claims = b.claims /\ g.outcomes = b.outcomes /\ g.results = b.results
      /\ g.failing = b.failing
  BY <1>1 DEF Bodies
<1>4. Cur(g) = Cur(b) /\ Together(g) = Together(b) /\ Whole(g) = Whole(b)
  BY <1>3 DEF Cur, Together, Whole
<1>5. Shaped(g)
  BY <1>2, <1>3, <1>4, ZenonT(90) DEF Shaped
<1> QED BY <1>2, <1>3, <1>5

\* A step that only sends the body on, or fails it.
LEMMA SentOn ==
  ASSUME NEW b, Shaped(b), ~b.failing, NEW x \in Ats, NEW g, g = [b EXCEPT !.at = x],
         \/ b.at \in Before /\ x \in Before
         \/ b.at \in Answering /\ x \in Answering
         \/ b.at = "assistant" /\ x = "finish" /\ b.batch = <<>>
         \/ b.at = "assistant" /\ x = "claim" /\ b.batch # <<>>
         \/ b.at = "pose" /\ x = "answer"
         \/ b.at = "present" /\ x = "receipt"
         \/ b.at = "results" /\ x = "finish"
         \/ b.at = "finish" /\ x = "advance"
  PROVE  Shaped(g)
<1>1. b \in Bodies /\ b.claims \in Seq(ClaimsOf) /\ b.batch \in Seq(Kinds) /\ b.results \in Seq(Final)
      /\ Len(b.claims) \in Nat /\ Len(b.batch) \in Nat /\ Len(b.results) \in Nat
  BY BodyTypes, Zenon DEF Shaped
<1>2. /\ g \in Bodies /\ g.at = x /\ Kept(b, g) /\ g.claims = b.claims /\ g.outcomes = b.outcomes
      /\ g.results = b.results
  BY <1>1, SentTo
<1>3. Cur(g) = Cur(b) /\ Together(g) = Together(b) /\ Whole(g) = Whole(b)
  BY <1>2 DEF Cur, Together, Whole, Kept
<1>4. b.batch # <<>> => Len(b.batch) > 0
  BY <1>1, EmptySeq
<1>5. /\ g \in Bodies /\ g.at = x /\ ~g.failing /\ g.batch = b.batch /\ g.first = b.first
      /\ g.first + Len(g.batch) <= MaxCalls /\ Len(g.results) <= Len(g.claims) /\ Len(g.claims) <= Len(g.batch)
  BY <1>2 DEF Kept, Shaped
<1>6. CASE b.at \in Before /\ x \in Before
  BY <1>2, <1>5, <1>6 DEF Shaped, Before, Answering, Serving, After, Closing
<1>7. CASE b.at \in Answering /\ x \in Answering
  BY <1>2, <1>5, <1>7 DEF Shaped, Before, Answering, Serving, After, Closing
<1>8. CASE b.at = "assistant" /\ x = "finish" /\ b.batch = <<>>
  <2>1. b.claims = <<>> /\ Len(b.batch) = 0 /\ Len(b.claims) = 0 /\ Len(b.results) = 0
    BY <1>1, <1>8 DEF Shaped, Answering
  <2>2. Whole(g)
    BY <1>2, <1>5, <2>1 DEF Whole
  <2> QED BY <1>2, <1>5, <1>8, <2>2 DEF Shaped, Before, Answering, Serving, After, Closing
<1>9. CASE b.at = "assistant" /\ x = "claim" /\ b.batch # <<>>
  <2>1. b.claims = <<>> /\ Len(b.batch) > 0 /\ Len(b.claims) = 0 /\ b.results = <<>>
    BY <1>1, <1>4, <1>9 DEF Shaped, Answering
  <2> QED BY <1>2, <1>5, <1>9, <2>1 DEF Shaped, Before, Answering, Serving, After, Closing
<1>10. CASE b.at = "pose" /\ x = "answer"
  <2>1. /\ Len(g.claims) = Len(g.batch) /\ Len(g.outcomes) = Len(g.batch) /\ Len(g.results) < Len(g.batch)
        /\ g.claims[Cur(g)] = "question" /\ ~Together(g)
    BY <1>2, <1>3, <1>5, <1>10 DEF Shaped, Serving
  <2> QED BY <1>5, <1>10, <2>1 DEF Shaped, Before, Answering, Serving, After, Closing
<1>11. CASE (b.at = "results" /\ x = "finish") \/ (b.at = "finish" /\ x = "advance")
  <2>1. Whole(g)
    BY <1>3, <1>11 DEF Shaped
  <2> QED BY <1>5, <1>11, <2>1 DEF Shaped, Before, Answering, Serving, After, Closing
<1>12. CASE b.at = "present" /\ x = "receipt"
  <2>1. /\ Len(g.claims) = Len(g.batch) /\ Len(g.outcomes) = Len(g.batch) /\ Len(g.results) < Len(g.batch)
        /\ g.claims[Cur(g)] = "presented" /\ ~Together(g)
    BY <1>2, <1>3, <1>5, <1>12 DEF Shaped, Serving
  <2> QED BY <1>5, <1>12, <2>1 DEF Shaped, Before, Answering, Serving, After, Closing
<1> QED BY <1>6, <1>7, <1>8, <1>9, <1>10, <1>11, <1>12

LEMMA Fails ==
  ASSUME NEW b, Shaped(b), b.at \in Before \cup Answering \cup {"claim"}
  PROVE  /\ Shaped(Failing(b)) /\ Failing(b).at = "fail" /\ Failing(b).failing
         /\ Failing(b).pos = b.pos /\ Failing(b).step = b.step /\ Failing(b).batch = b.batch
         /\ Failing(b).first = b.first /\ Failing(b).claims = b.claims /\ Failing(b).results = b.results
<1> DEFINE g == Failing(b)
<1>1. b \in Bodies /\ b.claims \in Seq(ClaimsOf) /\ b.batch \in Seq(Kinds) /\ b.results \in Seq(Final)
      /\ Len(b.claims) \in Nat /\ Len(b.batch) \in Nat /\ Len(b.results) \in Nat
  BY BodyTypes, Zenon DEF Shaped
<1>2. "fail" \in Ats
  BY DEF Ats
<1>3. /\ g \in Bodies /\ g.at = "fail" /\ g.failing /\ g.pos = b.pos /\ g.step = b.step /\ g.batch = b.batch
      /\ g.first = b.first /\ g.claims = b.claims /\ g.results = b.results
  BY <1>1, <1>2 DEF Failing, Bodies
<1>4. g.results = <<>>
  <2>1. CASE b.at = "claim"
    BY <1>3, <2>1 DEF Shaped
  <2>2. CASE b.at \in Before \cup Answering
    <3>1. Len(b.claims) = 0 /\ Len(b.results) <= Len(b.claims)
      BY <2>2 DEF Shaped
    <3> QED BY <1>1, <1>3, <3>1, EmptySeq
  <2> QED BY <2>1, <2>2
<1> HIDE DEF g
<1>5. /\ g.first + Len(g.batch) <= MaxCalls /\ Len(g.results) <= Len(g.claims) /\ Len(g.claims) <= Len(g.batch)
  BY <1>3 DEF Shaped
<1>6. Shaped(g)
  BY <1>3, <1>4, <1>5 DEF Shaped, Before, Answering, Serving, After, Closing
<1> QED BY <1>3, <1>6 DEF g

LEMMA Closes ==
  ASSUME NEW b, Shaped(b), b.at \in {"fail"} \cup After, NEW x \in After, NEW g, g = [b EXCEPT !.at = x]
  PROVE  Shaped(g)
<1>1. b \in Bodies /\ x \in Ats
  BY DEF Shaped, Ats
<1>2. /\ g \in Bodies /\ g.at = x /\ Kept(b, g) /\ g.claims = b.claims /\ g.outcomes = b.outcomes
      /\ g.results = b.results
  BY <1>1, SentTo
<1>3. /\ g.first + Len(g.batch) <= MaxCalls /\ Len(g.results) <= Len(g.claims) /\ Len(g.claims) <= Len(g.batch)
  BY <1>2 DEF Shaped, Kept
<1>4. g.failing \/ Whole(g)
  BY <1>2 DEF Shaped, Kept, Whole
<1>5. g.failing => g.results = <<>>
  BY <1>2 DEF Shaped, Kept
<1> QED BY <1>2, <1>3, <1>4, <1>5 DEF Shaped, Before, Answering, Serving, After, Closing

LEMMA Decides ==
  ASSUME NEW b, Shaped(b), b.at \in {"decide", "answer", "misasked", "tool"}, NEW o \in Outcomes
  PROVE  LET g == DecidedOf(b, o)
         IN  /\ Shaped(g) /\ Kept(b, g) /\ g.at = "settle" /\ g.claims = b.claims /\ g.results = b.results
             /\ g.outcomes[Cur(b)] = o /\ ~Together(g)
<1> DEFINE g == DecidedOf(b, o)
           os == [b.outcomes EXCEPT ![Cur(b)] = o]
<1>1. b \in Bodies
  BY DEF Shaped
<1>2. /\ b.outcomes \in Seq(Ends) /\ Len(b.outcomes) \in Nat /\ DOMAIN b.outcomes = 1 .. Len(b.outcomes)
      /\ Len(b.batch) \in Nat /\ Len(b.results) \in Nat /\ Cur(b) \in Nat \ {0}
  BY <1>1, BodyTypes, Zenon
<1>3. /\ Len(b.claims) = Len(b.batch) /\ Len(b.outcomes) = Len(b.batch) /\ Len(b.results) < Len(b.batch)
      /\ Len(b.results) <= Len(b.claims) /\ Len(b.claims) <= Len(b.batch) /\ b.first + Len(b.batch) <= MaxCalls
  BY DEF Shaped, Serving
<1>4. Cur(b) \in 1 .. Len(b.outcomes)
  BY <1>2, <1>3 DEF Cur
<1>5. os \in Seq(Ends) /\ Len(os) = Len(b.outcomes) /\ os[Cur(b)] = o
  <2>1. o \in Ends
    BY DEF Ends
  <2>2. Len(os) = Len(b.outcomes) /\ os \in Seq(Ends)
    BY <1>2, <1>4, <2>1, ExceptSeq
  <2> QED BY <1>2, <1>4, <2>2
<1>6. "settle" \in Ats
  BY DEF Ats, Serving
<1> HIDE DEF os
<1>7. /\ g \in Bodies /\ Kept(b, g) /\ g.at = "settle" /\ g.claims = b.claims /\ g.results = b.results /\ g.outcomes = os
  <2>1. g = [b EXCEPT !.outcomes = os, !.at = "settle"]
    BY DEF DecidedOf, os
  <2> HIDE DEF g
  <2> QED BY <1>1, <1>5, <1>6, <2>1 DEF Bodies, Kept
<1> HIDE DEF g
<1>8. ~Together(b) /\ b.claims[Cur(b)] \in {"read", "auto", "ask", "hold", "question", "malformed"} /\ ~b.failing
  BY DEF Shaped, After, Closing
<1>9. Cur(g) = Cur(b) /\ ~Together(g)
  BY <1>7, <1>8 DEF Cur, Together
<1>10. /\ g.first + Len(g.batch) <= MaxCalls /\ ~g.failing
       /\ Len(g.claims) = Len(g.batch) /\ Len(g.outcomes) = Len(g.batch) /\ Len(g.results) < Len(g.batch)
       /\ Len(g.results) <= Len(g.claims) /\ Len(g.claims) <= Len(g.batch)
  BY <1>3, <1>5, <1>7, <1>8 DEF Kept
<1>11. g.outcomes[Cur(g)] \in Outcomes /\ g.claims[Cur(g)] \in {"read", "auto", "ask", "hold", "question", "malformed"}
  BY <1>5, <1>7, <1>8, <1>9
<1>12. Shaped(g)
  BY <1>7, <1>9, <1>10, <1>11 DEF Shaped, Before, Answering, Serving, After, Closing
<1> QED BY <1>5, <1>7, <1>9, <1>12 DEF g

LEMMA NextStep ==
  ASSUME NEW b, Shaped(b), b.at = "results", b.step # MaxSteps, NEW g,
         g = [b EXCEPT !.at = "head", !.step = @ + 1, !.first = @ + Len(b.batch),
                       !.batch = <<>>, !.claims = <<>>, !.outcomes = <<>>, !.results = <<>>]
  PROVE  /\ Shaped(g) /\ g.at = "head" /\ g.step = b.step + 1 /\ g.first = b.first + Len(b.batch)
         /\ g.batch = <<>> /\ g.claims = <<>> /\ g.results = <<>> /\ ~g.failing /\ g.pos = b.pos
<1>1. b \in Bodies
  BY DEF Shaped
<1>2. b.step + 1 \in Steps /\ b.first + Len(b.batch) \in Nat /\ "head" \in Ats
  <2>1. b.step \in Steps /\ b.first \in Nat /\ Len(b.batch) \in Nat
    BY <1>1, BodyTypes, Zenon
  <2> QED BY <2>1, TurnAssumption, SMTT(30) DEF Steps, Ats, Before
<1>3. <<>> \in Seq(Kinds) /\ <<>> \in Seq(ClaimsOf) /\ <<>> \in Seq(Ends) /\ <<>> \in Seq(Final)
  OBVIOUS
<1>4. /\ g \in Bodies /\ g.at = "head" /\ g.step = b.step + 1 /\ g.first = b.first + Len(b.batch)
      /\ g.batch = <<>> /\ g.claims = <<>> /\ g.results = <<>> /\ g.failing = b.failing /\ g.pos = b.pos
  BY <1>1, <1>2, <1>3 DEF Bodies
<1>5. ~g.failing /\ g.first + Len(g.batch) <= MaxCalls
  <2>1. ~b.failing /\ b.first + Len(b.batch) <= MaxCalls
    BY DEF Shaped, After, Closing
  <2> QED BY <1>2, <1>4, <2>1
<1>6. Shaped(g)
  BY <1>4, <1>5 DEF Shaped, Before, Answering, Serving, After, Closing
<1> QED BY <1>4, <1>5, <1>6

LEMMA Calling ==
  ASSUME NEW b, Shaped(b), b.at = "llm", NEW calls \in Seq(Kinds), b.first + Len(calls) <= MaxCalls
  PROVE  LET g == GivenCalls(b, calls)
         IN  /\ Shaped(g) /\ g.at = "gate" /\ g.batch = calls /\ g.step = b.step /\ g.first = b.first
             /\ g.claims = b.claims /\ g.results = b.results /\ g.pos = b.pos
<1> DEFINE g == GivenCalls(b, calls)
<1>1. b \in Bodies /\ b.claims = <<>> /\ ~b.failing
  BY DEF Shaped, Before, After, Closing
<1>2. "gate" \in Ats
  BY DEF Ats, Answering
<1>3. /\ g \in Bodies /\ g.at = "gate" /\ g.batch = calls /\ g.step = b.step /\ g.first = b.first
      /\ g.claims = <<>> /\ g.results = b.results /\ ~g.failing /\ g.pos = b.pos
  BY <1>1, <1>2 DEF Bodies, GivenCalls
<1> HIDE DEF g
<1>4. Len(g.claims) = 0 /\ Len(g.claims) <= Len(g.batch) /\ Len(g.results) <= Len(g.claims)
  <2>1. Len(b.results) <= Len(b.claims) /\ Len(calls) \in Nat
    BY DEF Shaped
  <2> QED BY <1>1, <1>3, <2>1
<1>5. Shaped(g)
  BY <1>3, <1>4 DEF Shaped, Before, Answering, Serving, After, Closing
<1> QED BY <1>1, <1>3, <1>5 DEF g

LEMMA Refusing ==
  ASSUME NEW b, Shaped(b), b.at = "gate", NEW no \in BOOLEAN, NEW g, g = [b EXCEPT !.at = "usage", !.refused = no]
  PROVE  /\ Shaped(g) /\ g.at = "usage" /\ g.batch = b.batch /\ g.step = b.step /\ g.first = b.first
         /\ g.claims = b.claims /\ g.results = b.results /\ g.pos = b.pos
<1>1. b \in Bodies /\ b.claims = <<>> /\ ~b.failing
  BY DEF Shaped, Answering, After, Closing
<1>2. "usage" \in Ats
  BY DEF Ats, Answering
<1>3. /\ g \in Bodies /\ g.at = "usage" /\ g.batch = b.batch /\ g.step = b.step /\ g.first = b.first
      /\ g.claims = b.claims /\ g.results = b.results /\ ~g.failing /\ g.pos = b.pos
  BY <1>1, <1>2 DEF Bodies
<1>4. /\ g.first + Len(g.batch) <= MaxCalls /\ Len(g.results) <= Len(g.claims) /\ Len(g.claims) <= Len(g.batch)
  BY <1>3 DEF Shaped
<1>5. Shaped(g)
  BY <1>1, <1>3, <1>4 DEF Shaped, Before, Answering, Serving, After, Closing
<1> QED BY <1>3, <1>5

LEMMA Approved ==
  ASSUME NEW b, Shaped(b), b.at = "decide", NEW g, g = [b EXCEPT !.at = "tool"]
  PROVE  Shaped(g) /\ g.at = "tool" /\ Kept(b, g) /\ g.claims = b.claims /\ g.results = b.results
<1>1. b \in Bodies /\ "tool" \in Ats
  BY DEF Shaped, Ats, Serving
<1>2. /\ g \in Bodies /\ g.at = "tool" /\ Kept(b, g) /\ g.claims = b.claims /\ g.outcomes = b.outcomes
      /\ g.results = b.results
  BY <1>1, SentTo
<1>3. Cur(g) = Cur(b) /\ Together(g) = Together(b)
  BY <1>2 DEF Cur, Together, Kept
<1>4. /\ g.first + Len(g.batch) <= MaxCalls /\ Len(g.results) <= Len(g.claims) /\ Len(g.claims) <= Len(g.batch)
      /\ Len(g.claims) = Len(g.batch) /\ Len(g.outcomes) = Len(g.batch) /\ Len(g.results) < Len(g.batch)
      /\ ~g.failing /\ g.claims[Cur(g)] \in {"ask", "hold"} /\ ~Together(g)
  BY <1>2, <1>3 DEF Shaped, Kept, Serving, After, Closing
<1>5. Shaped(g)
  BY <1>2, <1>4 DEF Shaped, Before, Answering, Serving, After, Closing
<1> QED BY <1>2, <1>5

-----------------------------------------------------------------------------
(***************************************************************************)
(* Where each checkpoint leads, with the shape kept.                       *)
(***************************************************************************)
\* Nothing but the place and what the step came to has changed.
Same(b, g) == /\ g.step = b.step /\ g.batch = b.batch /\ g.first = b.first /\ g.claims = b.claims
              /\ g.results = b.results

Settled(b, g) == /\ g.step = b.step /\ g.batch = b.batch /\ g.first = b.first /\ g.claims = b.claims
                 /\ g.at \in (Serving \ {"together", "answer"}) \cup {"results"}
                 /\ g.at = "settle" => Together(b) /\ g.outcomes = b.outcomes
                 /\ Cleared(g)

Leads(b, v, g) ==
  /\ Shaped(g) /\ g.pos = b.pos + 1
  /\ b.at \notin {"llm", "claim", "settle", "results"} => Same(b, g)
  /\ b.at \in {"fail", "finish"} \cup After => g.failing = b.failing
  /\ b.at = "start"     => g.at \in {"quota", "fail"}
  /\ b.at = "quota"     => g.at \in {"user", "fail"}
  /\ b.at = "user"      => g.at = "head"
  /\ b.at = "llm"       => /\ g.step = b.step /\ g.first = b.first /\ g.claims = b.claims /\ g.results = b.results
                           /\ v.threw => g.at = "fail" /\ g.batch = b.batch
                           /\ ~v.threw => g.at = "gate" /\ g.batch = v.calls
  /\ b.at = "gate"      => g.at = "usage"
  /\ b.at = "usage"     => g.at = "bump"
  /\ b.at = "bump"      => g.at \in {"check", "fail"}
  /\ b.at = "assistant" => g.at = IF b.batch = <<>> THEN "finish" ELSE "claim"
  /\ b.at = "claim"     => /\ g.step = b.step /\ g.batch = b.batch /\ g.first = b.first /\ g.results = b.results
                           /\ v = "threw" => g.at = "fail" /\ g.claims = b.claims
                           /\ v # "threw" => /\ g.claims = Append(b.claims, v)
                                             /\ g.at \in {"claim", "together", "tool", "decide", "pose", "misasked", "present", "receipt"}
                                             /\ Cleared(g)
  /\ b.at = "pose"      => g.at = "answer"
  /\ b.at = "present"   => g.at = "receipt"
  /\ b.at = "tool"      => g.at = "settle" /\ g.outcomes[Cur(b)] = v /\ ~Together(g)
  /\ b.at = "settle"    => Settled(b, g) /\ g.results = Append(b.results, b.outcomes[Cur(b)])
  /\ b.at = "results"   => \/ g.at = "finish" /\ Same(b, g)
                           \/ /\ g.at = "head" /\ g.step = b.step + 1 /\ g.first = b.first + Len(b.batch)
                              /\ g.batch = <<>> /\ g.claims = <<>> /\ g.results = <<>>
  /\ b.at \in {"finish", "fail"} => g.at = "advance"
  /\ b.at = "advance"   => g.at \in {"spawn", "close", "release"}
  /\ b.at = "spawn"     => g.at \in {"close", "release", "restore"}
  /\ b.at = "restore"   => g.at \in {"close", "release"}
  /\ b.at = "release"   => g.at \in {"close", "over"}

LEMMA ClaimsKinds ==
  ASSUME NEW call, NEW kind \in Kinds, NEW v \in Claims(call, kind)
  PROVE  /\ v \in ClaimsOf \cup {"threw"} /\ (db.row[call] # "none" => v = "threw")
         /\ v = "read" => kind = "read"
<1>1. CASE db.row[call] # "none"
  BY <1>1 DEF Claims
<1>2. CASE db.row[call] = "none"
  <2>1. v \in (CASE kind = "read" -> {"read"} [] kind = "ask" -> {"question"} [] kind = "malformed" -> {"malformed"}
                [] kind = "action" -> Approvals)
    BY <1>2 DEF Claims
  <2>2. CASE kind = "read"
    BY <1>2, <2>1, <2>2 DEF ClaimsOf
  <2>3. CASE kind = "ask"
    BY <1>2, <2>1, <2>3 DEF ClaimsOf
  <2>4. CASE kind = "action"
    <3>1. v \in Approvals
      BY <2>1, <2>4
    <3>2. v \in ActionClaims
      BY <3>1, TurnAssumption
    <3>3. v \in ClaimsOf \cup {"threw"} /\ v # "read"
      BY <3>2 DEF ActionClaims, Preflights, ClaimsOf
    <3> QED BY <1>2, <3>3
  <2>5. CASE kind = "malformed"
    BY <1>2, <2>1, <2>5 DEF ClaimsOf
  <2> QED BY <2>2, <2>3, <2>4, <2>5 DEF Kinds
<1> QED BY <1>1, <1>2

\* The checkpoint's position apart, the body is where Then says.
LEMMA GoesOn ==
  ASSUME NEW b, b.pos \in Nat, NEW v, Shaped(Then(b, v))
  PROVE  LET d == Then(b, v)
             g == Goes(b, v)
         IN  /\ Shaped(g) /\ g.pos = b.pos + 1 /\ g.at = d.at /\ g.step = d.step /\ g.batch = d.batch
             /\ g.first = d.first /\ g.claims = d.claims /\ g.outcomes = d.outcomes /\ g.results = d.results
             /\ g.failing = d.failing
<1>1. b.pos + 1 \in Nat
  OBVIOUS
<1> QED BY <1>1, Placed DEF Goes

\* What the model may call fits the run.
LEMMA Offered ==
  ASSUME NEW b, b.at = "llm", NEW v \in Found(b)
  PROVE  /\ v.threw \in BOOLEAN
         /\ ~v.threw => v.calls \in Seq(Kinds) /\ b.first + Len(v.calls) <= MaxCalls
<1> DEFINE fits == {calls \in Turns : b.first + Len(calls) <= MaxCalls}
<1>1. v \in [threw : {FALSE}, calls : fits] \/ v = [threw |-> TRUE, calls |-> <<>>]
  <2>1. Found(b) = [threw : {FALSE}, calls : fits] \cup (IF May("model") THEN {[threw |-> TRUE, calls |-> <<>>]} ELSE {})
    BY AtLlm, Zenon
  <2> HIDE DEF fits
  <2> QED BY <2>1, Zenon
<1>2. \A calls \in fits : calls \in Seq(Kinds) /\ b.first + Len(calls) <= MaxCalls
  BY TurnAssumption DEF Kinds, Offers
<1> HIDE DEF fits
<1>3. CASE v \in [threw : {FALSE}, calls : fits]
  <2>1. v.threw = FALSE /\ v.calls \in fits
    BY <1>3
  <2> QED BY <1>2, <2>1
<1>4. CASE v = [threw |-> TRUE, calls |-> <<>>]
  BY <1>4
<1> QED BY <1>1, <1>3, <1>4

LEMMA Going ==
  ASSUME NEW b, Shaped(b), b.at \in Stepped, NEW v \in Found(b)
  PROVE  Leads(b, v, Goes(b, v))
<1> DEFINE d == Then(b, v)
           g == Goes(b, v)
<1> SUFFICES Leads(b, v, g)
  OBVIOUS
<1>1. b \in Bodies /\ b.pos \in Nat
  BY DEF Shaped, Bodies
<1>2. Shaped(d) => /\ Shaped(g) /\ g.pos = b.pos + 1 /\ g.at = d.at /\ g.step = d.step /\ g.batch = d.batch
                   /\ g.first = d.first /\ g.claims = d.claims /\ g.outcomes = d.outcomes /\ g.results = d.results
                   /\ g.failing = d.failing
  BY <1>1, GoesOn
<1>3. b.at \notin {"fail"} \cup After => ~b.failing
  BY DEF Shaped
<1>4. CASE b.at = "start"
  <2>1. /\ v = "ok" => d = [b EXCEPT !.at = "quota"]
        /\ ~(v = "ok") => d = Failing(b)
        /\ "quota" \in Ats /\ ~b.failing
    BY <1>3, <1>4, AtStart DEF Ats, Before, Answering, Serving, After, Closing
  <2> HIDE DEF d, g
  <2>2. Shaped(d) /\ d.at \in {"quota", "fail"} /\ Same(b, d)
    <3>1. CASE v = "ok"
      <4>1. d = [b EXCEPT !.at = "quota"]
        BY <2>1, <3>1
      <4>2. Shaped(d)
        BY <1>4, <2>1, <4>1, SentOn DEF Before, Answering
      <4>3. d.at = "quota" /\ Kept(b, d) /\ d.claims = b.claims /\ d.results = b.results
        BY <1>1, <2>1, <4>1, SentTo
      <4> QED BY <4>2, <4>3 DEF Same, Kept
    <3>2. CASE ~(v = "ok")
      <4>1. d = Failing(b) /\ b.at \in Before \cup Answering \cup {"claim"}
        BY <1>4, <2>1, <3>2 DEF Before, Answering
      <4> QED BY <4>1, Fails DEF Same
    <3> QED BY <3>1, <3>2
  <2> QED BY <1>2, <1>4, <2>2 DEF Leads, Same, Closing, After
<1>5. CASE b.at = "quota"
  <2>1. /\ v = "within" => d = [b EXCEPT !.at = "user"]
        /\ ~(v = "within") => d = Failing(b)
        /\ "user" \in Ats /\ ~b.failing
    BY <1>3, <1>5, AtQuota DEF Ats, Before, Answering, Serving, After, Closing
  <2> HIDE DEF d, g
  <2>2. Shaped(d) /\ d.at \in {"user", "fail"} /\ Same(b, d)
    <3>1. CASE v = "within"
      <4>1. d = [b EXCEPT !.at = "user"]
        BY <2>1, <3>1
      <4>2. Shaped(d)
        BY <1>5, <2>1, <4>1, SentOn DEF Before, Answering
      <4>3. d.at = "user" /\ Kept(b, d) /\ d.claims = b.claims /\ d.results = b.results
        BY <1>1, <2>1, <4>1, SentTo
      <4> QED BY <4>2, <4>3 DEF Same, Kept
    <3>2. CASE ~(v = "within")
      <4>1. d = Failing(b) /\ b.at \in Before \cup Answering \cup {"claim"}
        BY <1>5, <2>1, <3>2 DEF Before, Answering
      <4> QED BY <4>1, Fails DEF Same
    <3> QED BY <3>1, <3>2
  <2> QED BY <1>2, <1>5, <2>2 DEF Leads, Same, Closing, After
<1>6. CASE b.at = "user"
  <2>1. d = [b EXCEPT !.at = "head"] /\ "head" \in Ats /\ ~b.failing
    BY <1>3, <1>6, AtUser DEF Ats, Before, Answering, Serving, After, Closing
  <2>2. Shaped(d) /\ d.at = "head" /\ Kept(b, d) /\ d.claims = b.claims /\ d.results = b.results
    <3> HIDE DEF d
    <3>1. Shaped(d)
      BY <1>6, <2>1, SentOn DEF Before, Answering
    <3> QED BY <1>1, <2>1, <3>1, SentTo
  <2> HIDE DEF d, g
  <2> QED BY <1>2, <1>6, <2>2 DEF Leads, Same, Kept, Closing, After
<1>7. CASE b.at = "usage"
  <2>1. d = [b EXCEPT !.at = "bump"] /\ "bump" \in Ats /\ ~b.failing
    BY <1>3, <1>7, AtUsage DEF Ats, Before, Answering, Serving, After, Closing
  <2>2. Shaped(d) /\ d.at = "bump" /\ Kept(b, d) /\ d.claims = b.claims /\ d.results = b.results
    <3> HIDE DEF d
    <3>1. Shaped(d)
      BY <1>7, <2>1, SentOn DEF Before, Answering
    <3> QED BY <1>1, <2>1, <3>1, SentTo
  <2> HIDE DEF d, g
  <2> QED BY <1>2, <1>7, <2>2 DEF Leads, Same, Kept, Closing, After
<1>8. CASE b.at = "pose"
  <2>1. d = [b EXCEPT !.at = "answer"] /\ "answer" \in Ats /\ ~b.failing
    BY <1>3, <1>8, AtPose DEF Ats, Before, Answering, Serving, After, Closing
  <2>2. Shaped(d) /\ d.at = "answer" /\ Kept(b, d) /\ d.claims = b.claims /\ d.results = b.results
    <3> HIDE DEF d
    <3>1. Shaped(d)
      BY <1>8, <2>1, SentOn DEF Before, Answering
    <3> QED BY <1>1, <2>1, <3>1, SentTo
  <2> HIDE DEF d, g
  <2> QED BY <1>2, <1>8, <2>2 DEF Leads, Same, Kept, Closing, After
<1>9. CASE b.at = "finish"
  <2>1. d = [b EXCEPT !.at = "advance"] /\ "advance" \in Ats /\ ~b.failing
    BY <1>3, <1>9, AtFinish DEF Ats, Before, Answering, Serving, After, Closing
  <2>2. Shaped(d) /\ d.at = "advance" /\ Kept(b, d) /\ d.claims = b.claims /\ d.results = b.results
    <3> HIDE DEF d
    <3>1. Shaped(d)
      BY <1>9, <2>1, SentOn DEF Before, Answering
    <3> QED BY <1>1, <2>1, <3>1, SentTo
  <2> HIDE DEF d, g
  <2> QED BY <1>2, <1>9, <2>2 DEF Leads, Same, Kept, Closing, After
<1>10. CASE b.at = "fail"
  <2>1. \E x \in {"advance"} : d = [b EXCEPT !.at = x]
    BY <1>10, AtFail DEF Advanced
  <2>2. PICK x \in {"advance"} : d = [b EXCEPT !.at = x]
    BY <2>1
  <2> HIDE DEF d, g
  <2>3. x \in After /\ x \in Ats /\ b.at \in {"fail"} \cup After
    BY <1>10 DEF After, Closing, Ats
  <2>4. Shaped(d) /\ d.at = x /\ Kept(b, d) /\ d.claims = b.claims /\ d.results = b.results
    <3>1. Shaped(d)
      BY <2>2, <2>3, Closes
    <3> QED BY <1>1, <2>2, <2>3, <3>1, SentTo
  <2> QED BY <1>2, <1>10, <2>4 DEF Leads, Same, Kept
<1>11. CASE b.at = "advance"
  <2>1. \E x \in {"spawn", "close", "release"} : d = [b EXCEPT !.at = x]
    BY <1>11, AtAdvance DEF Advanced
  <2>2. PICK x \in {"spawn", "close", "release"} : d = [b EXCEPT !.at = x]
    BY <2>1
  <2> HIDE DEF d, g
  <2>3. x \in After /\ x \in Ats /\ b.at \in {"fail"} \cup After
    BY <1>11 DEF After, Closing, Ats
  <2>4. Shaped(d) /\ d.at = x /\ Kept(b, d) /\ d.claims = b.claims /\ d.results = b.results
    <3>1. Shaped(d)
      BY <2>2, <2>3, Closes
    <3> QED BY <1>1, <2>2, <2>3, <3>1, SentTo
  <2> QED BY <1>2, <1>11, <2>4 DEF Leads, Same, Kept
<1>12. CASE b.at = "spawn"
  <2>1. \E x \in {"close", "release", "restore"} : d = [b EXCEPT !.at = x]
    BY <1>12, AtSpawn DEF Advanced
  <2>2. PICK x \in {"close", "release", "restore"} : d = [b EXCEPT !.at = x]
    BY <2>1
  <2> HIDE DEF d, g
  <2>3. x \in After /\ x \in Ats /\ b.at \in {"fail"} \cup After
    BY <1>12 DEF After, Closing, Ats
  <2>4. Shaped(d) /\ d.at = x /\ Kept(b, d) /\ d.claims = b.claims /\ d.results = b.results
    <3>1. Shaped(d)
      BY <2>2, <2>3, Closes
    <3> QED BY <1>1, <2>2, <2>3, <3>1, SentTo
  <2> QED BY <1>2, <1>12, <2>4 DEF Leads, Same, Kept
<1>13. CASE b.at = "restore"
  <2>1. \E x \in {"close", "release"} : d = [b EXCEPT !.at = x]
    BY <1>13, AtRestore DEF Advanced
  <2>2. PICK x \in {"close", "release"} : d = [b EXCEPT !.at = x]
    BY <2>1
  <2> HIDE DEF d, g
  <2>3. x \in After /\ x \in Ats /\ b.at \in {"fail"} \cup After
    BY <1>13 DEF After, Closing, Ats
  <2>4. Shaped(d) /\ d.at = x /\ Kept(b, d) /\ d.claims = b.claims /\ d.results = b.results
    <3>1. Shaped(d)
      BY <2>2, <2>3, Closes
    <3> QED BY <1>1, <2>2, <2>3, <3>1, SentTo
  <2> QED BY <1>2, <1>13, <2>4 DEF Leads, Same, Kept
<1>14. CASE b.at = "release"
  <2>1. \E x \in {"close", "over"} : d = [b EXCEPT !.at = x]
    BY <1>14, AtRelease DEF Advanced
  <2>2. PICK x \in {"close", "over"} : d = [b EXCEPT !.at = x]
    BY <2>1
  <2> HIDE DEF d, g
  <2>3. x \in After /\ x \in Ats /\ b.at \in {"fail"} \cup After
    BY <1>14 DEF After, Closing, Ats
  <2>4. Shaped(d) /\ d.at = x /\ Kept(b, d) /\ d.claims = b.claims /\ d.results = b.results
    <3>1. Shaped(d)
      BY <2>2, <2>3, Closes
    <3> QED BY <1>1, <2>2, <2>3, <3>1, SentTo
  <2> QED BY <1>2, <1>14, <2>4 DEF Leads, Same, Kept
<1>15. CASE b.at = "bump"
  <2>1. /\ ~b.refused => d = [b EXCEPT !.at = "check"]
        /\ b.refused => d = Failing(b)
        /\ "check" \in Ats /\ ~b.failing
    BY <1>3, <1>15, AtBump DEF Ats, Answering, After, Closing
  <2> HIDE DEF d, g
  <2>2. Shaped(d) /\ d.at \in {"check", "fail"} /\ Same(b, d)
    <3>1. CASE ~b.refused
      <4>1. d = [b EXCEPT !.at = "check"]
        BY <2>1, <3>1
      <4>2. Shaped(d)
        BY <1>15, <2>1, <4>1, SentOn DEF Before, Answering
      <4>3. d.at = "check" /\ Kept(b, d) /\ d.claims = b.claims /\ d.results = b.results
        BY <1>1, <2>1, <4>1, SentTo
      <4> QED BY <4>2, <4>3 DEF Same, Kept
    <3>2. CASE b.refused
      <4>1. d = Failing(b) /\ b.at \in Before \cup Answering \cup {"claim"}
        BY <1>15, <2>1, <3>2 DEF Before, Answering
      <4> QED BY <4>1, Fails DEF Same
    <3> QED BY <3>1, <3>2
  <2> QED BY <1>2, <1>15, <2>2 DEF Leads, Same, Closing, After
<1>16. CASE b.at = "llm"
  <2>1. d = IF v.threw THEN Failing(b) ELSE GivenCalls(b, v.calls)
    BY <1>16, AtLlm
  <2>2. ~v.threw => v.calls \in Seq(Kinds) /\ b.first + Len(v.calls) <= MaxCalls
    BY <1>16, Offered
  <2> HIDE DEF d, g
  <2>3. CASE v.threw
    <3>1. d = Failing(b) /\ b.at \in Before \cup Answering \cup {"claim"}
      BY <1>16, <2>1, <2>3 DEF Before, Answering
    <3>2. /\ Shaped(d) /\ d.at = "fail" /\ d.step = b.step /\ d.batch = b.batch /\ d.first = b.first
          /\ d.claims = b.claims /\ d.results = b.results
      BY <3>1, Fails
    <3> QED BY <1>2, <1>16, <2>3, <3>2 DEF Leads, Same, Closing, After
  <2>4. CASE ~v.threw
    <3>1. d = GivenCalls(b, v.calls)
      BY <2>1, <2>4
    <3>2. /\ Shaped(d) /\ d.at = "gate" /\ d.batch = v.calls /\ d.step = b.step /\ d.first = b.first
          /\ d.claims = b.claims /\ d.results = b.results
      BY <1>16, <2>2, <2>4, <3>1, Calling
    <3> QED BY <1>2, <1>16, <2>4, <3>2 DEF Leads, Same, Closing, After
  <2> QED BY <2>3, <2>4
<1>17. CASE b.at = "gate"
  <2>1. d = [b EXCEPT !.at = "usage", !.refused = (v = "reject")] /\ (v = "reject") \in BOOLEAN
    BY <1>17, AtGate
  <2> DEFINE no == (v = "reject")
  <2>3. d = [b EXCEPT !.at = "usage", !.refused = no] /\ no \in BOOLEAN
    BY <2>1
  <2> HIDE DEF d, g, no
  <2>2. /\ Shaped(d) /\ d.at = "usage" /\ d.batch = b.batch /\ d.step = b.step /\ d.first = b.first
        /\ d.claims = b.claims /\ d.results = b.results
    BY <1>17, <2>3, Refusing, ZenonT(30)
  <2> QED BY <1>2, <1>17, <2>2 DEF Leads, Same, Closing, After
<1>18. CASE b.at = "assistant"
  <2> DEFINE x == IF b.batch = <<>> THEN "finish" ELSE "claim"
  <2>1. d = [b EXCEPT !.at = x] /\ x \in Ats /\ ~b.failing
    BY <1>3, <1>18, AtAssistant DEF Ats, After, Closing
  <2>2. \/ b.at = "assistant" /\ x = "finish" /\ b.batch = <<>>
        \/ b.at = "assistant" /\ x = "claim" /\ b.batch # <<>>
    BY <1>18
  <2> HIDE DEF d, g, x
  <2>3. Shaped(d)
    BY <2>1, <2>2, SentOn
  <2>4. d.at = x /\ Kept(b, d) /\ d.claims = b.claims /\ d.results = b.results
    BY <1>1, <2>1, SentTo
  <2> QED BY <1>2, <1>18, <2>3, <2>4 DEF Leads, Same, Kept, Closing, After, x
<1>19. CASE b.at = "claim"
  <2>1. d = IF v = "threw" THEN Failing(b) ELSE Claimed(b, v)
    BY <1>19, AtClaim
  <2>2. v \in ClaimsOf \cup {"threw"}
    <3>1. v \in Claims(b.first + (Len(b.claims) + 1), b.batch[Len(b.claims) + 1])
      BY <1>19, AtClaim
    <3>2. b.batch[Len(b.claims) + 1] \in Kinds
      <4>1. b.batch \in Seq(Kinds) /\ Len(b.batch) \in Nat /\ Len(b.claims) \in Nat
        BY <1>1, BodyTypes, Zenon
      <4>2. Len(b.claims) < Len(b.batch)
        BY <1>19 DEF Shaped
      <4> QED BY <4>1, <4>2
    <3> QED BY <3>1, <3>2, ClaimsKinds
  <2> HIDE DEF d, g
  <2>3. CASE v = "threw"
    <3>1. d = Failing(b) /\ b.at \in Before \cup Answering \cup {"claim"}
      BY <1>19, <2>1, <2>3
    <3>2. /\ Shaped(d) /\ d.at = "fail" /\ d.step = b.step /\ d.batch = b.batch /\ d.first = b.first
          /\ d.claims = b.claims /\ d.results = b.results
      BY <3>1, Fails
    <3> QED BY <1>2, <1>19, <2>3, <3>2 DEF Leads, Same, Closing, After
  <2>4. CASE v # "threw"
    <3>1. d = Claimed(b, v) /\ v \in ClaimsOf
      BY <2>1, <2>2, <2>4
    <3>2. /\ Shaped(d) /\ Kept(b, d) /\ d.claims = Append(b.claims, v) /\ d.results = b.results
          /\ d.at \in {"claim", "together", "tool", "decide", "pose", "misasked", "present", "receipt"} /\ Cleared(d)
      BY <1>19, <3>1, ClaimedShaped
    <3>3. Cleared(g)
      BY <1>2, <3>2 DEF Cleared, Cur
    <3> QED BY <1>2, <1>19, <2>4, <3>2, <3>3 DEF Leads, Kept, Closing, After
  <2> QED BY <2>3, <2>4
<1>20. CASE b.at = "tool"
  <2>1. d = DecidedOf(b, v) /\ v \in Outcomes
    BY <1>20, AtTool DEF ToolOutcomes, Outcomes
  <2> HIDE DEF d, g
  <2>2. /\ Shaped(d) /\ Kept(b, d) /\ d.at = "settle" /\ d.claims = b.claims /\ d.results = b.results
        /\ d.outcomes[Cur(b)] = v /\ ~Together(d)
    BY <1>20, <2>1, Decides
  <2>3. Shaped(g) /\ g.pos = b.pos + 1 /\ g.at = "settle" /\ Same(b, g) /\ g.outcomes[Cur(b)] = v /\ ~Together(g)
    BY <1>2, <2>2 DEF Same, Kept, Together
  <2> QED BY <1>20, <2>3 DEF Leads, Closing, After
<1>21. CASE b.at = "settle"
  <2>1. d = Answered(b, b.outcomes[Cur(b)])
    BY <1>21, AtSettle
  <2>2. Serves(b) /\ Len(b.results) < Len(b.batch) /\ b.outcomes[Cur(b)] \in Final
    <3>1. b \in Bodies /\ ~b.failing /\ b.first + Len(b.batch) <= MaxCalls
      BY <1>1, <1>3, <1>21 DEF Shaped, After, Closing
    <3>2. Len(b.results) < Len(b.batch) /\ Len(b.claims) = Len(b.batch) /\ Len(b.outcomes) = Len(b.batch)
      BY <1>21 DEF Shaped, Serving
    <3>3. Len(b.results) <= Len(b.batch)
      <4>1. Len(b.results) \in Nat /\ Len(b.batch) \in Nat
        BY <1>1, BodyTypes, Zenon
      <4> QED BY <3>2, <4>1
    <3>4. b.outcomes[Cur(b)] \in Final
      BY <1>21 DEF Shaped, Final
    <3>5. Together(b) => \A n \in Cur(b) .. Len(b.batch) : b.outcomes[n] \in {"executed", "failed"}
      BY <1>21 DEF Shaped
    <3> QED BY <3>1, <3>2, <3>3, <3>4, <3>5 DEF Serves
  <2> HIDE DEF d, g
  <2>3. /\ Shaped(d) /\ Kept(b, d) /\ d.claims = b.claims /\ d.outcomes = b.outcomes
        /\ d.results = Append(b.results, b.outcomes[Cur(b)])
        /\ d.at \in (Serving \ {"together", "answer"}) \cup {"results"}
        /\ d.at = "settle" => Together(b)
        /\ Cleared(d)
    BY <2>1, <2>2, AnsweredShaped
  <2>4. Shaped(g) /\ g.pos = b.pos + 1 /\ Settled(b, g) /\ g.results = Append(b.results, b.outcomes[Cur(b)])
    BY <1>2, <2>3 DEF Settled, Kept, Cleared, Cur
  <2> QED BY <1>21, <2>4 DEF Leads, Closing, After
<1>22. CASE b.at = "results"
  <2> DEFINE h == [b EXCEPT !.at = "head", !.step = @ + 1, !.first = @ + Len(b.batch),
                            !.batch = <<>>, !.claims = <<>>, !.outcomes = <<>>, !.results = <<>>]
  <2>1. d = IF Halts(b) \/ b.step = MaxSteps THEN [b EXCEPT !.at = "finish"] ELSE h
    BY <1>22, AtResults
  <2>2. "finish" \in Ats /\ ~b.failing
    BY <1>3, <1>22 DEF Ats, After, Closing
  <2> HIDE DEF d, g
  <2>3. CASE Halts(b) \/ b.step = MaxSteps
    <3>1. d = [b EXCEPT !.at = "finish"]
      BY <2>1, <2>3
    <3>2. Shaped(d)
      BY <1>22, <2>2, <3>1, SentOn
    <3>3. d.at = "finish" /\ Kept(b, d) /\ d.claims = b.claims /\ d.results = b.results
      BY <1>1, <2>2, <3>1, SentTo
    <3> QED BY <1>2, <1>22, <3>2, <3>3 DEF Leads, Same, Kept, Closing, After
  <2>4. CASE ~(Halts(b) \/ b.step = MaxSteps)
    <3>1. d = h /\ b.step # MaxSteps
      BY <2>1, <2>4
    <3> HIDE DEF h
    <3>2. /\ Shaped(d) /\ d.at = "head" /\ d.step = b.step + 1 /\ d.first = b.first + Len(b.batch)
          /\ d.batch = <<>> /\ d.claims = <<>> /\ d.results = <<>>
      BY <1>22, <3>1, NextStep DEF h
    <3> QED BY <1>2, <1>22, <3>2 DEF Leads, Closing, After
  <2> QED BY <2>3, <2>4
<1>23. CASE b.at = "present"
  <2>1. d = [b EXCEPT !.at = "receipt"] /\ "receipt" \in Ats /\ ~b.failing
    BY <1>3, <1>23, AtPresent DEF Ats, Before, Answering, Serving, After, Closing
  <2>2. Shaped(d) /\ d.at = "receipt" /\ Kept(b, d) /\ d.claims = b.claims /\ d.results = b.results
    <3> HIDE DEF d
    <3>1. Shaped(d)
      BY <1>23, <2>1, SentOn DEF Before, Answering
    <3> QED BY <1>1, <2>1, <3>1, SentTo
  <2> HIDE DEF d, g
  <2> QED BY <1>2, <1>23, <2>2 DEF Leads, Same, Kept, Closing, After
<1> QED BY <1>4, <1>5, <1>6, <1>7, <1>8, <1>9, <1>10, <1>11, <1>12, <1>13, <1>14, <1>15, <1>16, <1>17, <1>18, <1>19, <1>20, <1>21, <1>22, <1>23 DEF Stepped

\* Where a reply leads a body that waits for a person.
Told == {"yes", "no", "answers", "expired"}

LEMMA Waited ==
  ASSUME NEW b, Shaped(b), b.at \in Waits, NEW reply \in Told
  PROVE  LET g == Goes(b, reply)
         IN  /\ Shaped(g) /\ g.pos = b.pos + 1 /\ Same(b, g) /\ ~g.failing
             /\ g.at \in {"tool", "decide", "settle"}
             /\ g.at = "tool" => b.at = "decide" /\ reply = "yes"
             /\ g.at = "decide" => b.at = "decide"
             /\ g.at = "settle" => /\ ~Together(g)
                                   /\ g.outcomes[Cur(b)] = IF b.at = "answer" THEN IF reply = "no" THEN "rejected" ELSE "executed"
                                                           ELSE IF reply = "no" THEN "rejected" ELSE "expired"
<1> DEFINE d == Then(b, reply)
           g == Goes(b, reply)
<1>1. b \in Bodies /\ b.pos \in Nat
  BY DEF Shaped, Bodies
<1>2. Shaped(d) => /\ Shaped(g) /\ g.pos = b.pos + 1 /\ g.at = d.at /\ g.step = d.step /\ g.batch = d.batch
                   /\ g.first = d.first /\ g.claims = d.claims /\ g.outcomes = d.outcomes /\ g.results = d.results
                   /\ g.failing = d.failing
  BY <1>1, GoesOn
<1>3. ~b.failing
  BY DEF Shaped, Waits, After, Closing
<1>4. ASSUME NEW o \in Outcomes, d = DecidedOf(b, o)
      PROVE  /\ Shaped(g) /\ g.pos = b.pos + 1 /\ Same(b, g) /\ ~g.failing /\ g.at = "settle" /\ ~Together(g)
             /\ g.outcomes[Cur(b)] = o
  <2> HIDE DEF d, g
  <2>1. b.at \in {"decide", "answer", "misasked", "tool"}
    BY DEF Waits
  <2>2. /\ Shaped(d) /\ Kept(b, d) /\ d.at = "settle" /\ d.claims = b.claims /\ d.results = b.results
        /\ d.outcomes[Cur(b)] = o /\ ~Together(d)
    BY <1>4, <2>1, Decides
  <2> QED BY <1>2, <1>3, <2>2 DEF Same, Kept, Together
<1>5. CASE b.at = "answer"
  <2> DEFINE o == IF reply = "no" THEN "rejected" ELSE "executed"
  <2>1. d = DecidedOf(b, o) /\ o \in Outcomes
    BY <1>5, AtWaits DEF Outcomes
  <2>2. /\ Shaped(g) /\ g.pos = b.pos + 1 /\ Same(b, g) /\ ~g.failing /\ g.at = "settle" /\ ~Together(g)
        /\ g.outcomes[Cur(b)] = o
    <3> HIDE DEF d, g, o
    <3> QED BY <1>4, <2>1
  <2> QED BY <1>5, <2>2
<1>6. CASE b.at = "decide" /\ reply = "yes"
  <2>1. d = [b EXCEPT !.at = "tool"]
    BY <1>6, AtWaits
  <2> HIDE DEF d, g
  <2>2. Shaped(d) /\ d.at = "tool" /\ Kept(b, d) /\ d.claims = b.claims /\ d.results = b.results
    BY <1>6, <2>1, Approved
  <2>3. Shaped(g) /\ g.pos = b.pos + 1 /\ Same(b, g) /\ ~g.failing /\ g.at = "tool"
    BY <1>2, <1>3, <2>2 DEF Same, Kept
  <2> QED BY <1>6, <2>3 DEF g
<1>7. CASE b.at = "decide" /\ reply \in {"no", "expired"}
  <2> DEFINE o == IF reply = "no" THEN "rejected" ELSE "expired"
  <2>1. d = DecidedOf(b, o) /\ o \in Outcomes
    BY <1>7, AtWaits DEF Outcomes
  <2>2. /\ Shaped(g) /\ g.pos = b.pos + 1 /\ Same(b, g) /\ ~g.failing /\ g.at = "settle" /\ ~Together(g)
        /\ g.outcomes[Cur(b)] = o
    <3> HIDE DEF d, g, o
    <3> QED BY <1>4, <2>1
  <2> QED BY <1>7, <2>2
<1>8. CASE b.at = "decide" /\ reply = "answers"
  <2>1. d = b
    BY <1>8, AtWaits
  <2> HIDE DEF d, g
  <2>2. Shaped(g) /\ g.pos = b.pos + 1 /\ Same(b, g) /\ ~g.failing /\ g.at = "decide"
    BY <1>2, <1>3, <1>8, <2>1 DEF Same
  <2> QED BY <1>8, <2>2 DEF g
<1> QED BY <1>5, <1>6, <1>7, <1>8 DEF Told, Waits

\* Where a body goes without a checkpoint.
LEMMA Moving ==
  ASSUME NEW b, Shaped(b), b.at \in Alone
  PROVE  LET g == Moves(b)
         IN  /\ Shaped(g) /\ g.pos = b.pos /\ g.failing = b.failing
             /\ b.at # "receipt" => Same(b, g)
             /\ b.at = "head"    => g.at = "llm"
             /\ b.at = "check"   => g.at = "assistant"
             /\ b.at = "close"   => g.at \in {"over", "release"}
             /\ b.at = "receipt" => Settled(b, g) /\ g.results = Append(b.results, RowOf[b.claims[Cur(b)]])
             /\ b.at = "misasked" => g.at = "settle" /\ ~Together(g) /\ g.outcomes[Cur(b)] = "failed"
<1> DEFINE g == Moves(b)
<1>1. b \in Bodies
  BY DEF Shaped
<1>2. CASE b.at = "head"
  <2>1. g = [b EXCEPT !.at = "llm"] /\ "llm" \in Ats /\ ~b.failing
    BY <1>2 DEF Moves, Shaped, Ats, Before, After, Closing
  <2>2. Shaped(g) /\ g.at = "llm" /\ Kept(b, g) /\ g.claims = b.claims /\ g.results = b.results
    <3> HIDE DEF g
    <3>1. Shaped(g)
      BY <1>2, <2>1, SentOn DEF Before
    <3> QED BY <1>1, <2>1, <3>1, SentTo
  <2> QED BY <1>2, <2>2 DEF Same, Kept
<1>3. CASE b.at = "check"
  <2>1. g = [b EXCEPT !.at = "assistant"] /\ "assistant" \in Ats /\ ~b.failing
    BY <1>3 DEF Moves, Shaped, Ats, Answering, After, Closing
  <2>2. Shaped(g) /\ g.at = "assistant" /\ Kept(b, g) /\ g.claims = b.claims /\ g.results = b.results
    <3> HIDE DEF g
    <3>1. Shaped(g)
      BY <1>3, <2>1, SentOn DEF Answering
    <3> QED BY <1>1, <2>1, <3>1, SentTo
  <2> QED BY <1>3, <2>2 DEF Same, Kept
<1>4. CASE b.at = "close"
  <2>1. \E x \in {"over", "release"} : g = [b EXCEPT !.at = x]
    BY <1>4 DEF Moves
  <2>2. PICK x \in {"over", "release"} : g = [b EXCEPT !.at = x]
    BY <2>1
  <2>3. x \in After /\ x \in Ats /\ b.at \in {"fail"} \cup After
    BY <1>4 DEF After, Closing, Ats
  <2>4. Shaped(g) /\ g.at = x /\ Kept(b, g) /\ g.claims = b.claims /\ g.results = b.results
    <3> HIDE DEF g
    <3>1. Shaped(g)
      BY <2>2, <2>3, Closes
    <3> QED BY <1>1, <2>2, <2>3, <3>1, SentTo
  <2> QED BY <1>4, <2>4 DEF Same, Kept
<1>5. CASE b.at = "receipt"
  <2> DEFINE r == RowOf[b.claims[Cur(b)]]
  <2>1. g = Answered(b, r)
    BY <1>5 DEF Moves
  <2>2. /\ b.claims[Cur(b)] \in {"proposal", "refused", "failed", "completed", "presented"} /\ ~Together(b) /\ ~b.failing
        /\ Len(b.claims) = Len(b.batch) /\ Len(b.outcomes) = Len(b.batch) /\ Len(b.results) < Len(b.batch)
        /\ Len(b.results) <= Len(b.claims) /\ b.first + Len(b.batch) <= MaxCalls
    BY <1>5 DEF Shaped, Serving, After, Closing
  <2>3. r \in Final
    BY <2>2 DEF RowOf, Final, Outcomes
  <2> HIDE DEF g, r
  <2>4. Serves(b) /\ Len(b.results) < Len(b.batch) /\ ~Together(b)
    BY <1>1, <2>2 DEF Serves
  <2>5. /\ Shaped(g) /\ Kept(b, g) /\ g.claims = b.claims /\ g.results = Append(b.results, r)
        /\ g.at \in (Serving \ {"together", "answer"}) \cup {"results"}
        /\ g.at = "settle" => Together(b)
        /\ Cleared(g)
    BY <2>1, <2>3, <2>4, AnsweredShaped
  <2>6. /\ Shaped(g) /\ g.pos = b.pos /\ g.failing = b.failing /\ Settled(b, g) /\ g.results = Append(b.results, r)
    BY <2>4, <2>5 DEF Settled, Kept
  <2> QED BY <1>5, <2>6 DEF g, r
<1>6. CASE b.at = "misasked"
  <2>1. g = DecidedOf(b, "failed") /\ "failed" \in Outcomes /\ b.at \in {"decide", "answer", "misasked", "tool"}
    BY <1>6 DEF Moves, Outcomes
  <2> HIDE DEF g
  <2>2. /\ Shaped(g) /\ Kept(b, g) /\ g.at = "settle" /\ g.claims = b.claims /\ g.results = b.results
        /\ g.outcomes[Cur(b)] = "failed" /\ ~Together(g)
    BY <2>1, Decides
  <2> QED BY <1>6, <2>2 DEF Same, Kept, g
<1> QED BY <1>2, <1>3, <1>4, <1>5, <1>6 DEF Alone

\* A body whose overlapped reads have all come back.
LEMMA Joining ==
  ASSUME NEW b, Shaped(b), b.at = "together",
         \A n \in DOMAIN b.batch : log[b.pos + n].value \in {"executed", "failed"}
  PROVE  LET g == Joined(b)
         IN  /\ Shaped(g) /\ g.pos = b.pos + Len(b.batch) /\ Same(b, g) /\ g.at = "settle" /\ Together(g)
             /\ ~g.failing /\ g.outcomes = [n \in DOMAIN b.batch |-> log[b.pos + n].value]
<1> DEFINE g  == Joined(b)
           os == [n \in DOMAIN b.batch |-> log[b.pos + n].value]
           k  == b.pos + Len(b.batch)
           d  == [b EXCEPT !.outcomes = os, !.pos = k]
<1>1. b \in Bodies
  BY DEF Shaped
<1>2. /\ DOMAIN b.batch = 1 .. Len(b.batch) /\ Len(b.batch) \in Nat /\ b.pos \in Nat
  BY <1>1, BodyTypes, Zenon
<1>3. /\ Together(b) /\ b.results = <<>> /\ ~b.failing /\ Len(b.claims) = Len(b.batch)
      /\ b.first + Len(b.batch) <= MaxCalls /\ Len(b.results) <= Len(b.batch)
  BY DEF Shaped, Serving, After, Closing
<1>4. os \in Seq(Ends) /\ Len(os) = Len(b.batch) /\ \A n \in 1 .. Len(b.batch) : os[n] \in {"executed", "failed"}
  <2>1. \A n \in 1 .. Len(b.batch) : os[n] \in {"executed", "failed"}
    BY <1>2
  <2>2. os \in [1 .. Len(b.batch) -> Ends]
    BY <1>2, <2>1 DEF Ends, Outcomes
  <2> HIDE DEF os
  <2> QED BY <1>2, <2>1, <2>2, SeqDef
<1>5. g = Ahead(d) /\ k \in Nat
  BY <1>2 DEF Joined
<1> HIDE DEF g, os, k
<1>6. /\ d \in Bodies /\ d.pos = k /\ d.outcomes = os /\ Same(b, d) /\ d.failing = b.failing
  BY <1>1, <1>4, <1>5 DEF Bodies, Same
<1> HIDE DEF d
<1>7. Together(d) /\ Cur(d) = 1 /\ Len(d.batch) > 1
  BY <1>3, <1>6 DEF Together, Same, Cur
<1>8. Serves(d) /\ Cur(d) <= Len(d.batch)
  BY <1>2, <1>3, <1>4, <1>6, <1>7 DEF Serves, Same
<1>9. Shaped(g) /\ g = [d EXCEPT !.at = "settle"] /\ "settle" \in Ats
  <2>1. Shaped(g) /\ g = [d EXCEPT !.at = g.at] /\ g.at = "settle"
    BY <1>5, <1>7, <1>8, AheadShaped
  <2> DEFINE x == g.at
  <2>2. g = [d EXCEPT !.at = x] /\ x = "settle"
    BY <2>1
  <2> HIDE DEF x
  <2> QED BY <2>1, <2>2 DEF Ats, Serving
<1>10. /\ g.at = "settle" /\ Kept(d, g) /\ g.claims = d.claims /\ g.outcomes = d.outcomes /\ g.results = d.results
  BY <1>6, <1>9, SentTo
<1>11. /\ Shaped(g) /\ g.pos = k /\ Same(b, g) /\ g.at = "settle" /\ Together(g) /\ ~g.failing /\ g.outcomes = os
  BY <1>3, <1>6, <1>7, <1>9, <1>10 DEF Same, Kept, Together
<1> QED BY <1>11 DEF g, os, k

LEMMA FreshShaped == Shaped(Fresh) /\ Fresh.pos = 0 /\ Fresh.at = "start"
<1>1. Fresh \in Bodies /\ Fresh.pos = 0 /\ Fresh.at = "start"
  <2>1. 1 \in Steps /\ "start" \in Ats
    BY TurnAssumption DEF Steps, Ats, Before
  <2> QED BY <2>1 DEF Fresh, Bodies
<1>2. /\ Fresh.first = 0 /\ Fresh.batch = <<>> /\ Fresh.claims = <<>> /\ Fresh.results = <<>> /\ ~Fresh.failing
  BY DEF Fresh
<1>3. Fresh.first + Len(Fresh.batch) <= MaxCalls
  BY <1>2, TurnAssumption
<1> QED BY <1>1, <1>2, <1>3 DEF Shaped, Before, Answering, Serving, After, Closing

-----------------------------------------------------------------------------
(* A body is loaded again and again and each time walks the journal.  The  *)
(* bodies it has been form a chain from Fresh to the frontier, the only    *)
(* one whose checkpoint may not be recorded: whatever the journal holds,   *)
(* some body of the chain asked for, under that name and at that position. *)

\* What the journal answers b leads to a body of the chain S.
Follows(b, S) ==
  /\ b.at \in Stepped \cup Waits => /\ b.pos + 1 \in DOMAIN log /\ log[b.pos + 1].name = Asks(b)
                                    /\ Goes(b, log[b.pos + 1].value) \in S
  /\ b.at \in Alone => Moves(b) \in S
  /\ b.at = "together" => /\ \A n \in DOMAIN b.batch : /\ b.pos + n \in DOMAIN log
                                                       /\ log[b.pos + n].name = <<"tool", b.first + n>>
                                                       /\ log[b.pos + n].value \in {"executed", "failed"}
                          /\ Joined(b) \in S
  /\ b.at # "over"

\* The journal is as long as the frontier has come; of reads under way it may hold any.
Journal(f) ==
  /\ 1 .. f.pos \subseteq DOMAIN log
  /\ \A p \in DOMAIN log :
       \/ p \in 1 .. f.pos
       \/ f.at = "together" /\ \E n \in DOMAIN f.batch : /\ p = f.pos + n /\ log[p].name = <<"tool", f.first + n>>
                                                         /\ log[p].value \in {"executed", "failed"}

Chain(S, f) ==
  /\ Fresh \in S /\ f \in S
  /\ \A b \in S : Shaped(b)
  /\ \A b \in S : b = f \/ Follows(b, S)
  /\ Journal(f)

\* A body some of whose overlapped reads have come back.
Under(b, o) == /\ b.at = "together" /\ o \in [DOMAIN b.batch -> {"", "executed", "failed"}]
               /\ body = [b EXCEPT !.outcomes = o]
               /\ \A n \in DOMAIN b.batch : o[n] # "" => b.pos + n \in DOMAIN log /\ log[b.pos + n].value = o[n]

\* The body a worker holds is of the chain.
OnWay(S) == body = Off \/ body \in S \/ \E b \in S : \E o : Under(b, o)

\* A run is parked at its frontier, with no body.
Parked(f) ==
  engine.parked # NotParked =>
    /\ body = Off /\ f.at \in Waits
    /\ engine.parked.pos = f.pos + 1 /\ engine.parked.call = CallOf(f)
    /\ engine.parked.until # Never => f.at = "decide"

Around == /\ engine \in [status : {"active", "completed", "failed", "cancelled"},
                         parked : [call : Nat, pos : Nat, until : Nat]]
          /\ mail \in [Calls -> Seq(Replies)]
          /\ sending = NoReply \/ sending \in [call : Calls, reply : Replies]
          /\ now \in Nat

Replay(S, f) == Chain(S, f) /\ OnWay(S) /\ Parked(f) /\ Around

-----------------------------------------------------------------------------
(***************************************************************************)
(* How the frontier moves.                                                 *)
(***************************************************************************)
\* Its checkpoint has its effect and is recorded, or a crash cuts the effect from the record.
Takes(f, g) == \E v : /\ Does(f, v) /\ UNCHANGED crashes
                      /\ Recorded(f.pos + 1, Asks(f), v) /\ g = Goes(f, v)
Loses(f)    == \E v : Does(f, v) /\ UNCHANGED log /\ crashes < MaxCrashes /\ crashes' = crashes + 1

\* The engine answers the wait it is parked on.
Hears(f, g) ==
  \E reply \in Told :
    /\ f.at \in Waits /\ f.pos + 1 \notin DOMAIN log /\ engine.status = "active"
    /\ reply = "expired" => f.at = "decide" /\ mail' = mail
    /\ reply # "expired" => /\ mail[CallOf(f)] # <<>> /\ reply = Head(mail[CallOf(f)])
                            /\ mail' = [mail EXCEPT ![CallOf(f)] = Tail(@)]
    /\ Recorded(f.pos + 1, Asks(f), reply) /\ g = Goes(f, reply)
    /\ engine' = [engine EXCEPT !.parked = NotParked]
    /\ UNCHANGED <<db, crashes, sending, replies, stop, now>>

\* It goes on by itself.
Wanders(f, g) ==
  /\ f.at \in Alone /\ g = Moves(f)
  /\ db' = IF f.at = "close" THEN [db EXCEPT !.stream = "ended"] ELSE db
  /\ UNCHANGED <<log, engine, crashes, world>>

\* One of its overlapped reads runs; all of them have come back.
Runs(f) ==
  /\ f.at = "together"
  /\ \E n \in DOMAIN f.batch :
       /\ f.pos + n \notin DOMAIN log
       /\ db' = [db EXCEPT !.ran[f.first + n] = @ + 1]
       /\ \/ \E v \in ToolOutcomes : Recorded(f.pos + n, <<"tool", f.first + n>>, v) /\ UNCHANGED crashes
          \/ UNCHANGED log /\ crashes < MaxCrashes /\ crashes' = crashes + 1
  /\ UNCHANGED <<engine, world>>

Joins(f, g) ==
  /\ f.at = "together" /\ g = Joined(f)
  /\ \A n \in DOMAIN f.batch : f.pos + n \in DOMAIN log /\ log[f.pos + n].value \in {"executed", "failed"}
  /\ UNCHANGED <<log, db, engine, crashes, world>>

\* What leaves the frontier and the journal alone.
Cuts(f) ==
  /\ \E cut \in SUBSET {f.first + n : n \in DOMAIN f.batch} :
       /\ f.at # "together" => cut = {}
       /\ db' = [db EXCEPT !.ran = [c \in Calls |-> IF c \in cut THEN @[c] + 1 ELSE @[c]]]
  /\ crashes < MaxCrashes /\ crashes' = crashes + 1
  /\ UNCHANGED <<engine, world>>

Rests(f) ==
  \/ db' \in {db, [db EXCEPT !.stream = "ended"]} /\ UNCHANGED <<engine, crashes, world>>
  \/ Parks(f)
  \/ \E b : Leaves(b) /\ (b.at = "over" => b = f)
  \/ Cuts(f)
  \/ Tick \/ People

Advances(f, g) ==
  \/ Takes(f, g) \/ Hears(f, g) \/ Wanders(f, g) \/ Joins(f, g)
  \/ g = f /\ (Loses(f) \/ Runs(f) \/ (UNCHANGED log /\ Rests(f)))

-----------------------------------------------------------------------------
(***************************************************************************)
(* The chain through a record.                                             *)
(***************************************************************************)
LEMMA RecordedAdds ==
  ASSUME NEW p, p \notin DOMAIN log, NEW name, NEW value, Recorded(p, name, value)
  PROVE  /\ DOMAIN log' = DOMAIN log \cup {p}
         /\ \A q \in DOMAIN log : log'[q] = log[q]
         /\ log'[p].name = name /\ log'[p].value = value
BY DEF Recorded

LogGrows == DOMAIN log \subseteq DOMAIN log' /\ \A p \in DOMAIN log : log'[p] = log[p]

LEMMA FollowsStill ==
  ASSUME NEW b, NEW S, NEW T, S \subseteq T, Follows(b, S), LogGrows
  PROVE  Follows(b, T)'
<1>1. CASE b.at = "together"
  <2>1. \A n \in DOMAIN b.batch : b.pos + n \in DOMAIN log /\ log'[b.pos + n] = log[b.pos + n]
    BY <1>1 DEF Follows, LogGrows
  <2>2. Joined(b)' = Joined(b)
    <3>1. [n \in DOMAIN b.batch |-> log'[b.pos + n].value] = [n \in DOMAIN b.batch |-> log[b.pos + n].value]
      BY <2>1
    <3> QED BY <3>1 DEF Joined
  <2>3. Joined(b)' \in T
    BY <1>1, <2>2 DEF Follows
  <2> QED BY <1>1, <2>1, <2>3 DEF Follows, LogGrows, Stepped, Waits, Alone
<1>2. CASE b.at # "together"
  BY <1>2 DEF Follows, LogGrows
<1> QED BY <1>1, <1>2

\* Only the frontier may lack its record.
LEMMA Unrecorded ==
  ASSUME NEW S, NEW f, Chain(S, f), NEW b \in S
  PROVE  /\ b.at \in Stepped \cup Waits /\ b.pos + 1 \notin DOMAIN log => b = f
         /\ b.at = "over" => b = f
         /\ b.at = "together" /\ (\E n \in DOMAIN b.batch : b.pos + n \notin DOMAIN log) => b = f
         /\ b.at \in Stepped \cup Waits /\ b = f => b.pos + 1 \notin DOMAIN log
<1>1. b # f => Follows(b, S)
  BY DEF Chain
<1>2. ASSUME b.at \in Stepped \cup Waits, b = f
      PROVE  b.pos + 1 \notin DOMAIN log
  <2>1. b.pos \in Nat /\ b.at # "together"
    BY <1>2 DEF Chain, Shaped, Bodies, Stepped, Waits
  <2> QED BY <1>2, <2>1 DEF Chain, Journal
<1> QED BY <1>1, <1>2 DEF Follows

LEMMA ChainGrows ==
  ASSUME NEW S, NEW f, Chain(S, f), f.at \in Stepped \cup Waits, NEW v,
         Recorded(f.pos + 1, Asks(f), v), NEW g, g = Goes(f, v), Shaped(g), g.pos = f.pos + 1
  PROVE  Chain(S \cup {g}, g)' /\ LogGrows
<1>1. f \in S /\ f.pos + 1 \notin DOMAIN log /\ f.pos \in Nat /\ f.at # "together"
  <2>1. f \in S /\ f.pos \in Nat
    BY DEF Chain, Shaped, Bodies
  <2> QED BY <2>1, Unrecorded DEF Stepped, Waits
<1>2. /\ DOMAIN log' = DOMAIN log \cup {f.pos + 1}
      /\ \A q \in DOMAIN log : log'[q] = log[q]
      /\ log'[f.pos + 1].name = Asks(f) /\ log'[f.pos + 1].value = v
  <2> DEFINE p == f.pos + 1
             name == Asks(f)
  <2>1. p \notin DOMAIN log /\ Recorded(p, name, v)
    BY <1>1
  <2> HIDE DEF p, name
  <2>2. /\ DOMAIN log' = DOMAIN log \cup {p} /\ \A q \in DOMAIN log : log'[q] = log[q]
        /\ log'[p].name = name /\ log'[p].value = v
    BY <2>1, RecordedAdds
  <2> QED BY <2>2 DEF p, name
<1>3. LogGrows
  BY <1>2 DEF LogGrows
<1>4. Follows(f, S \cup {g})'
  BY <1>1, <1>2 DEF Follows, Stepped, Waits, Alone
<1>5. \A b \in S : b # f => Follows(b, S \cup {g})'
  BY <1>3, FollowsStill DEF Chain
<1>6. Journal(g)'
  <2>1. 1 .. f.pos \subseteq DOMAIN log /\ DOMAIN log \subseteq 1 .. f.pos
    BY <1>1 DEF Chain, Journal
  <2>2. DOMAIN log' = 1 .. f.pos + 1
    BY <1>1, <1>2, <2>1
  <2> QED BY <2>2 DEF Journal
<1> QED BY <1>3, <1>4, <1>5, <1>6 DEF Chain

LEMMA ChainMoves ==
  ASSUME NEW S, NEW f, Chain(S, f), UNCHANGED log, NEW g, Shaped(g), g.pos = f.pos,
         f.at \in Alone, g = Moves(f)
  PROVE  Chain(S \cup {g}, g)'
<1>1. LogGrows
  BY DEF LogGrows
<1>2. \A b \in S : b # f => Follows(b, S \cup {g})'
  BY <1>1, FollowsStill DEF Chain
<1>3. Follows(f, S \cup {g})'
  BY DEF Follows, Alone, Stepped, Waits
<1>4. Journal(g)'
  BY DEF Chain, Journal, Alone
<1> QED BY <1>2, <1>3, <1>4 DEF Chain

LEMMA ChainJoins ==
  ASSUME NEW S, NEW f, Chain(S, f), UNCHANGED log, f.at = "together",
         \A n \in DOMAIN f.batch : f.pos + n \in DOMAIN log
  PROVE  /\ Chain(S \cup {Joined(f)}, Joined(f))'
         /\ \A n \in DOMAIN f.batch : log[f.pos + n].value \in {"executed", "failed"}
<1> DEFINE g == Joined(f)
<1>1. f \in S /\ Shaped(f)
  BY DEF Chain
<1>2. f.pos \in Nat /\ Len(f.batch) \in Nat /\ DOMAIN f.batch = 1 .. Len(f.batch)
  <2>1. f \in Bodies
    BY <1>1 DEF Shaped
  <2> QED BY <2>1, BodyTypes, Zenon
<1>3. \A n \in DOMAIN f.batch : /\ log[f.pos + n].name = <<"tool", f.first + n>>
                                /\ log[f.pos + n].value \in {"executed", "failed"}
  <2> SUFFICES ASSUME NEW n \in DOMAIN f.batch
               PROVE  /\ log[f.pos + n].name = <<"tool", f.first + n>>
                      /\ log[f.pos + n].value \in {"executed", "failed"}
    OBVIOUS
  <2>1. f.pos + n \in DOMAIN log /\ f.pos + n \notin 1 .. f.pos
    BY <1>2
  <2>2. PICK m \in DOMAIN f.batch : /\ f.pos + n = f.pos + m /\ log[f.pos + n].name = <<"tool", f.first + m>>
                                    /\ log[f.pos + n].value \in {"executed", "failed"}
    BY <2>1 DEF Chain, Journal
  <2>3. m = n
    BY <1>2, <2>2
  <2> QED BY <2>2, <2>3
<1>4. Shaped(g) /\ g.pos = f.pos + Len(f.batch) /\ g.at = "settle"
  BY <1>1, <1>3, Joining
<1>5. g' = g
  BY DEF Joined
<1> HIDE DEF g
<1>6. LogGrows
  BY DEF LogGrows
<1>7. \A b \in S : b # f => Follows(b, S \cup {g})'
  BY <1>6, FollowsStill DEF Chain
<1>8. Follows(f, S \cup {g})'
  BY <1>3, <1>5 DEF Follows, Alone, Stepped, Waits, g
<1>9. Journal(g)'
  <2>1. DOMAIN log = 1 .. g.pos
    <3>1. \A p \in DOMAIN log : p \in 1 .. g.pos
      BY <1>2, <1>4 DEF Chain, Journal
    <3>2. ASSUME NEW p \in 1 .. g.pos PROVE p \in DOMAIN log
      <4>1. CASE p \in 1 .. f.pos
        BY <4>1 DEF Chain, Journal
      <4>2. CASE p \notin 1 .. f.pos
        <5>1. p - f.pos \in DOMAIN f.batch /\ f.pos + (p - f.pos) = p
          BY <1>2, <1>4, <4>2
        <5> QED BY <5>1
      <4> QED BY <4>1, <4>2
    <3> QED BY <3>1, <3>2
  <2> QED BY <1>4, <1>5, <2>1 DEF Journal
<1>10. Chain(S \cup {g}, g)'
  BY <1>4, <1>5, <1>7, <1>8, <1>9 DEF Chain
<1> QED BY <1>3, <1>5, <1>10 DEF g

LEMMA ChainRuns ==
  ASSUME NEW S, NEW f, Chain(S, f), f.at = "together", NEW n \in DOMAIN f.batch, f.pos + n \notin DOMAIN log,
         NEW v \in {"executed", "failed"}, Recorded(f.pos + n, <<"tool", f.first + n>>, v)
  PROVE  Chain(S, f)' /\ LogGrows
<1>1. /\ DOMAIN log' = DOMAIN log \cup {f.pos + n}
      /\ \A q \in DOMAIN log : log'[q] = log[q]
      /\ log'[f.pos + n].name = <<"tool", f.first + n>> /\ log'[f.pos + n].value = v
  BY RecordedAdds
<1>2. LogGrows
  BY <1>1 DEF LogGrows
<1>3. \A b \in S : b # f => Follows(b, S)'
  BY <1>2, FollowsStill DEF Chain
<1>4. Journal(f)'
  BY <1>1 DEF Chain, Journal
<1> QED BY <1>2, <1>3, <1>4 DEF Chain

LEMMA ChainStill ==
  ASSUME NEW S, NEW f, Chain(S, f), UNCHANGED log
  PROVE  Chain(S, f)'
<1>1. LogGrows
  BY DEF LogGrows
<1>2. \A b \in S : b # f => Follows(b, S)'
  BY <1>1, FollowsStill DEF Chain
<1> QED BY <1>2 DEF Chain, Journal

-----------------------------------------------------------------------------
(***************************************************************************)
(* Every step keeps a chain, and moves its frontier as above.              *)
(***************************************************************************)
Onward(f) == \E T, g : Replay(T, g)' /\ Advances(f, g)

LEMMA FrontTypes ==
  ASSUME NEW b, Shaped(b)
  PROVE  /\ b \in Bodies /\ b.pos \in Nat /\ b.first \in Nat /\ b.at \in Ats /\ b # Off /\ b.at # "off"
         /\ Len(b.batch) \in Nat /\ DOMAIN b.batch = 1 .. Len(b.batch) /\ Cur(b) \in Nat \ {0}
         /\ b.at \in Serving => CallOf(b) \in Calls
<1>1. b \in Bodies
  BY DEF Shaped
<1>2. /\ b.pos \in Nat /\ b.first \in Nat /\ b.at \in Ats /\ Len(b.batch) \in Nat
      /\ DOMAIN b.batch = 1 .. Len(b.batch) /\ Cur(b) \in Nat \ {0} /\ Len(b.results) \in Nat
  BY <1>1, BodyTypes, Zenon
<1>3. b.at # "off" /\ b # Off
  BY <1>2 DEF Ats, Before, Answering, Serving, After, Closing, Off
<1>4. ASSUME b.at \in Serving PROVE CallOf(b) \in Calls
  <2>1. Len(b.results) < Len(b.batch) /\ b.first + Len(b.batch) <= MaxCalls
    BY <1>4 DEF Shaped
  <2> QED BY <1>2, <2>1, TurnAssumption, SMTT(30) DEF CallOf, Cur, Calls
<1> QED BY <1>1, <1>2, <1>3, <1>4

\* A body that runs is of the chain; one with reads under way is like one of the chain.
LEMMA Running ==
  ASSUME NEW S, NEW f, Replay(S, f), body.at # "off"
  PROVE  /\ body.at # "together" => body \in S
         /\ body.at = "together" => \E b \in S : \E o : Under(b, o)
         /\ engine.parked = NotParked
<1>1. body # Off
  BY DEF Off
<1>2. \A b \in S : \A o : Under(b, o) => body.at = "together"
  BY FrontTypes DEF Replay, Chain, Under, Bodies
<1>3. ASSUME body.at = "together", body \in S PROVE Under(body, body.outcomes)
  <2>1. body \in Bodies /\ body.outcomes = [n \in DOMAIN body.batch |-> ""]
    BY <1>3 DEF Replay, Chain, Shaped
  <2>2. body = [body EXCEPT !.outcomes = body.outcomes]
    BY <2>1 DEF Bodies
  <2> DEFINE o == body.outcomes
  <2>3. o \in [DOMAIN body.batch -> {"", "executed", "failed"}] /\ \A n \in DOMAIN body.batch : o[n] = ""
    BY <2>1
  <2> HIDE DEF o
  <2>4. body = [body EXCEPT !.outcomes = o]
    BY <2>2 DEF o
  <2> QED BY <1>3, <2>3, <2>4 DEF Under, o
<1>4. engine.parked = NotParked
  BY <1>1 DEF Replay, Parked
<1> QED BY <1>1, <1>2, <1>3, <1>4 DEF Replay, OnWay

LEMMA ReadsMoves ==
  ASSUME NEW S, NEW f, Replay(S, f), Reads(body)
  PROVE  Onward(f)
<1>1. body.at # "off" /\ body.at # "together" /\ body.at \in Stepped \cup Waits /\ body.pos + 1 \in DOMAIN log
  BY DEF Reads, Stepped, Waits
<1>2. body \in S /\ engine.parked = NotParked
  BY <1>1, Running
<1>3. body # f
  BY <1>1, <1>2, Unrecorded DEF Replay
<1>4. Follows(body, S)
  BY <1>2, <1>3 DEF Replay, Chain
<1>5. body' \in S
  BY <1>1, <1>4 DEF Follows, Reads
<1>6. Chain(S, f)'
  BY ChainStill DEF Replay, Reads
<1>7. Replay(S, f)'
  BY <1>2, <1>5, <1>6 DEF Replay, OnWay, Parked, Around, Reads, world
<1>8. Advances(f, f)
  BY DEF Reads, Advances, Rests
<1> QED BY <1>7, <1>8 DEF Onward

LEMMA RecordsMoves ==
  ASSUME NEW S, NEW f, Replay(S, f), Records(body)
  PROVE  Onward(f)
<1>1. PICK v : /\ Does(body, v) /\ UNCHANGED crashes
               /\ Recorded(body.pos + 1, Asks(body), v) /\ body' = Goes(body, v)
  BY DEF Records
<1>2. body.at # "off" /\ body.at # "together" /\ body.at \in Stepped /\ body.pos + 1 \notin DOMAIN log
  BY <1>1 DEF Does, Stepped
<1>3. body \in S /\ engine.parked = NotParked
  BY <1>2, Running
<1>4. body = f
  BY <1>2, <1>3, Unrecorded DEF Replay
<1> DEFINE g == Goes(f, v)
<1>5. v \in Found(f) /\ Shaped(f)
  BY <1>1, <1>3, <1>4 DEF Does, Replay, Chain
<1>6. Shaped(g) /\ g.pos = f.pos + 1
  <2>1. Leads(f, v, g)
    BY <1>2, <1>4, <1>5, Going
  <2> HIDE DEF g
  <2> QED BY <2>1 DEF Leads
<1>7. Recorded(f.pos + 1, Asks(f), v) /\ f.at \in Stepped \cup Waits /\ Chain(S, f)
  BY <1>1, <1>2, <1>4 DEF Replay
<1>8. Chain(S \cup {g}, g)'
  <2> HIDE DEF g
  <2>1. g = Goes(f, v)
    BY DEF g
  <2> QED BY <1>6, <1>7, <2>1, ChainGrows
<1>9. body' = g
  BY <1>1, <1>4
<1>10. Takes(f, g)
  BY <1>1, <1>4 DEF Takes
<1> HIDE DEF g
<1>11. Replay(S \cup {g}, g)'
  BY <1>1, <1>3, <1>8, <1>9 DEF Replay, OnWay, Parked, Around, Does, world
<1> QED BY <1>10, <1>11 DEF Onward, Advances

LEMMA DiesMoves ==
  ASSUME NEW S, NEW f, Replay(S, f), Dies(body)
  PROVE  Onward(f)
<1>1. PICK v : /\ Does(body, v) /\ body' = Off /\ UNCHANGED log
               /\ crashes < MaxCrashes /\ crashes' = crashes + 1
  BY DEF Dies
<1>2. body.at # "off" /\ body.at # "together" /\ body.at \in Stepped /\ body.pos + 1 \notin DOMAIN log
  BY <1>1 DEF Does, Stepped
<1>3. body \in S /\ engine.parked = NotParked
  BY <1>2, Running
<1>4. body = f
  BY <1>2, <1>3, Unrecorded DEF Replay
<1>5. Chain(S, f)'
  BY <1>1, ChainStill DEF Replay
<1>6. Replay(S, f)'
  BY <1>1, <1>3, <1>5 DEF Replay, OnWay, Parked, Around, Does, world
<1>7. Advances(f, f)
  BY <1>1, <1>4 DEF Advances, Loses
<1> QED BY <1>6, <1>7 DEF Onward

LEMMA ParksMoves ==
  ASSUME NEW S, NEW f, Replay(S, f), Parks(body)
  PROVE  Onward(f)
<1>1. body.at # "off" /\ body.at # "together" /\ body.at \in Waits /\ body.pos + 1 \notin DOMAIN log
  BY DEF Parks, Waits
<1>2. body \in S
  BY <1>1, Running
<1>3. body = f
  BY <1>1, <1>2, Unrecorded DEF Replay
<1>4. Shaped(f) /\ Chain(S, f)'
  BY ChainStill DEF Replay, Parks, Chain
<1>5. f.pos + 1 \in Nat /\ CallOf(f) \in Nat /\ now + Ttl \in Nat
  <2>1. f.pos \in Nat /\ f.first \in Nat /\ Cur(f) \in Nat
    BY <1>4, FrontTypes, Zenon
  <2>2. now \in Nat /\ Ttl \in Nat
    BY TurnAssumption DEF Replay, Around
  <2> QED BY <2>1, <2>2 DEF CallOf
<1>6. engine' = [engine EXCEPT !.parked = [call |-> CallOf(f), pos |-> f.pos + 1,
                                           until |-> IF f.at = "decide" /\ f.claims[Cur(f)] = "ask" THEN now + Ttl ELSE Never]]
  BY <1>3 DEF Parks
<1>7. /\ engine'.parked = [call |-> CallOf(f), pos |-> f.pos + 1, until |-> IF f.at = "decide" /\ f.claims[Cur(f)] = "ask" THEN now + Ttl ELSE Never]
      /\ engine'.status = engine.status
      /\ engine' \in [status : {"active", "completed", "failed", "cancelled"}, parked : [call : Nat, pos : Nat, until : Nat]]
  BY <1>5, <1>6 DEF Replay, Around, Never
<1>8. Parked(f)'
  BY <1>1, <1>3, <1>7 DEF Parked, Parks
<1>9. Replay(S, f)'
  BY <1>4, <1>7, <1>8 DEF Replay, OnWay, Around, Parks, world
<1>10. Advances(f, f)
  BY <1>3 DEF Advances, Rests, Parks
<1> QED BY <1>9, <1>10 DEF Onward

LEMMA WalksMoves ==
  ASSUME NEW S, NEW f, Replay(S, f), Walks(body)
  PROVE  Onward(f)
<1>1. body.at # "off" /\ body.at # "together" /\ body.at \in Alone
  BY DEF Walks, Alone
<1>2. body \in S /\ engine.parked = NotParked
  BY <1>1, Running
<1>3. CASE body # f
  <2>1. body' \in S
    BY <1>1, <1>2, <1>3 DEF Replay, Chain, Follows, Walks
  <2>2. Chain(S, f)'
    BY ChainStill DEF Replay, Walks
  <2>3. Replay(S, f)'
    BY <1>2, <2>1, <2>2 DEF Replay, OnWay, Parked, Around, Walks, world
  <2>4. Advances(f, f)
    BY DEF Advances, Rests, Walks
  <2> QED BY <2>3, <2>4 DEF Onward
<1>4. CASE body = f
  <2> DEFINE g == Moves(f)
  <2>1. Shaped(g) /\ g.pos = f.pos
    BY <1>1, <1>2, <1>4, Moving DEF Replay, Chain
  <2>2. Chain(S, f) /\ f.at \in Alone /\ UNCHANGED log
    BY <1>1, <1>4 DEF Replay, Walks
  <2>3. Chain(S \cup {g}, g)'
    <3> HIDE DEF g
    <3>1. g = Moves(f)
      BY DEF g
    <3> QED BY <2>1, <2>2, <3>1, ChainMoves
  <2>4. body' = g /\ Wanders(f, g)
    BY <1>4 DEF Walks, Wanders
  <2> HIDE DEF g
  <2>5. Replay(S \cup {g}, g)'
    BY <1>2, <2>3, <2>4 DEF Replay, OnWay, Parked, Around, Walks, world
  <2> QED BY <2>4, <2>5 DEF Onward, Advances
<1> QED BY <1>3, <1>4

LEMMA LeavesMoves ==
  ASSUME NEW S, NEW f, Replay(S, f), Leaves(body)
  PROVE  Onward(f)
<1>1. body.at # "off" /\ body.at # "together"
  BY DEF Leaves
<1>2. body \in S /\ engine.parked = NotParked
  BY <1>1, Running
<1>3. body.at = "over" => body = f
  BY <1>2, Unrecorded DEF Replay
<1>4. Chain(S, f)'
  BY ChainStill DEF Replay, Leaves
<1>5. /\ engine'.parked = engine.parked
      /\ engine' \in [status : {"active", "completed", "failed", "cancelled"}, parked : [call : Nat, pos : Nat, until : Nat]]
  BY DEF Replay, Around, Leaves
<1>6. Replay(S, f)'
  BY <1>2, <1>4, <1>5 DEF Replay, OnWay, Parked, Around, Leaves, world
<1>7. Advances(f, f)
  BY <1>3 DEF Advances, Rests, Leaves
<1> QED BY <1>6, <1>7 DEF Onward

\* What is recorded of overlapped reads is what they asked for.
LEMMA ReadNames ==
  ASSUME NEW S, NEW f, Chain(S, f), NEW b \in S, b.at = "together", NEW n \in DOMAIN b.batch, b.pos + n \in DOMAIN log
  PROVE  log[b.pos + n].name = <<"tool", b.first + n>> /\ log[b.pos + n].value \in {"executed", "failed"}
<1>1. CASE b # f
  BY <1>1 DEF Chain, Follows
<1>2. CASE b = f
  <2>1. b.pos \in Nat /\ DOMAIN b.batch = 1 .. Len(b.batch) /\ Len(b.batch) \in Nat
    BY FrontTypes, Zenon DEF Chain
  <2>2. b.pos + n \notin 1 .. f.pos
    BY <1>2, <2>1
  <2>3. PICK m \in DOMAIN f.batch : /\ f.pos + n = f.pos + m /\ log[f.pos + n].name = <<"tool", f.first + m>>
                                    /\ log[f.pos + n].value \in {"executed", "failed"}
    BY <1>2, <2>2 DEF Chain, Journal
  <2>4. m = n
    BY <1>2, <2>1, <2>3
  <2> QED BY <1>2, <2>3, <2>4
<1> QED BY <1>1, <1>2

\* One more read of b has come back.
LEMMA UnderOne ==
  ASSUME NEW b, Shaped(b), NEW o, Under(b, o), NEW n \in DOMAIN b.batch, NEW v \in {"executed", "failed"},
         LogGrows, b.pos + n \in DOMAIN log', log'[b.pos + n].value = v, body' = [body EXCEPT !.outcomes[n] = v]
  PROVE  Under(b, [o EXCEPT ![n] = v])'
<1> DEFINE p == [o EXCEPT ![n] = v]
<1>1. p \in [DOMAIN b.batch -> {"", "executed", "failed"}] /\ p[n] = v /\ \A k \in DOMAIN b.batch : k # n => p[k] = o[k]
  BY DEF Under
<1>2. b \in Bodies
  BY DEF Shaped
<1>3. body.outcomes = o /\ body' = [body EXCEPT !.outcomes = p]
  BY <1>2 DEF Under, Bodies
<1> HIDE DEF p
<1>4. body' = [b EXCEPT !.outcomes = p]
  BY <1>2, <1>3 DEF Under, Bodies
<1>5. \A k \in DOMAIN b.batch : p[k] # "" => b.pos + k \in DOMAIN log' /\ log'[b.pos + k].value = p[k]
  BY <1>1 DEF Under, LogGrows
<1> QED BY <1>1, <1>4, <1>5 DEF Under, p

LEMMA TogetherMoves ==
  ASSUME NEW S, NEW f, Replay(S, f), InvokeTogether
  PROVE  Onward(f)
<1>1. body.at = "together"
  BY DEF InvokeTogether
<1>2. engine.parked = NotParked /\ \E b \in S : \E o : Under(b, o)
  BY <1>1, Running
<1>3. PICK b \in S : \E o : Under(b, o)
  BY <1>2
<1>4. PICK o : Under(b, o)
  BY <1>3
<1>5. Shaped(b) /\ b \in Bodies /\ b.at = "together"
  BY <1>4 DEF Replay, Chain, Shaped, Under
<1>6. body.pos = b.pos /\ body.first = b.first /\ body.batch = b.batch /\ body.outcomes = o
  BY <1>4, <1>5 DEF Under, Bodies
<1>7. PICK n \in DOMAIN body.batch :
        /\ \/ /\ body.pos + n \in DOMAIN log
              /\ body' = IF log[body.pos + n].name = <<"tool", body.first + n>>
                         THEN [body EXCEPT !.outcomes[n] = log[body.pos + n].value]
                         ELSE [body EXCEPT !.at = "diverged"]
              /\ UNCHANGED <<log, db, crashes>>
           \/ /\ body.pos + n \notin DOMAIN log
              /\ \E v \in ToolOutcomes :
                   /\ db' = [db EXCEPT !.ran[body.first + n] = @ + 1]
                   /\ \/ /\ Recorded(body.pos + n, <<"tool", body.first + n>>, v)
                         /\ body' = [body EXCEPT !.outcomes[n] = v]
                         /\ UNCHANGED crashes
                      \/ /\ crashes < MaxCrashes
                         /\ crashes' = crashes + 1
                         /\ body' = Off
                         /\ UNCHANGED log
        /\ UNCHANGED <<engine, world>>
  BY DEF InvokeTogether, StepAt
<1>8. n \in DOMAIN b.batch /\ UNCHANGED <<engine, world>>
  BY <1>6, <1>7
<1>9. CASE b.pos + n \in DOMAIN log
  <2>1. log[b.pos + n].name = <<"tool", b.first + n>> /\ log[b.pos + n].value \in {"executed", "failed"}
    BY <1>5, <1>8, <1>9, ReadNames DEF Replay
  <2>2. body' = [body EXCEPT !.outcomes[n] = log[b.pos + n].value] /\ UNCHANGED <<log, db, crashes>>
    BY <1>6, <1>7, <1>9, <2>1
  <2>3. LogGrows
    BY <2>2 DEF LogGrows
  <2>4. Under(b, [o EXCEPT ![n] = log[b.pos + n].value])'
    <3> DEFINE v == log[b.pos + n].value
    <3>1. v \in {"executed", "failed"} /\ b.pos + n \in DOMAIN log' /\ log'[b.pos + n].value = v
          /\ body' = [body EXCEPT !.outcomes[n] = v]
      BY <1>9, <2>1, <2>2
    <3>2. v' = v
      BY <2>2
    <3> HIDE DEF v
    <3>3. \A w : w = v => Under(b, [o EXCEPT ![n] = w])'
      BY <1>4, <1>5, <1>8, <2>3, <3>1, UnderOne
    <3> QED BY <3>2, <3>3 DEF v
  <2>5. Chain(S, f)'
    BY <2>2, ChainStill DEF Replay
  <2>6. OnWay(S)'
    BY <2>4 DEF OnWay
  <2>7. Replay(S, f)'
    BY <1>2, <1>8, <2>5, <2>6 DEF Replay, Parked, Around, world
  <2>8. Advances(f, f)
    BY <1>8, <2>2 DEF Advances, Rests
  <2> QED BY <2>7, <2>8 DEF Onward
<1>10. CASE b.pos + n \notin DOMAIN log
  <2>1. b = f
    BY <1>5, <1>8, <1>10, Unrecorded DEF Replay
  <2>2. PICK v \in ToolOutcomes :
          /\ db' = [db EXCEPT !.ran[b.first + n] = @ + 1]
          /\ \/ /\ Recorded(b.pos + n, <<"tool", b.first + n>>, v)
                /\ body' = [body EXCEPT !.outcomes[n] = v]
                /\ UNCHANGED crashes
             \/ /\ crashes < MaxCrashes /\ crashes' = crashes + 1 /\ body' = Off /\ UNCHANGED log
    BY <1>6, <1>7, <1>10
  <2>3. Runs(f)
    BY <1>5, <1>8, <1>10, <2>1, <2>2 DEF Runs
  <2>4. v \in {"executed", "failed"}
    BY DEF ToolOutcomes
  <2>5. Chain(S, f)
    BY DEF Replay
  <2>6. CASE /\ Recorded(b.pos + n, <<"tool", b.first + n>>, v)
             /\ body' = [body EXCEPT !.outcomes[n] = v]
             /\ UNCHANGED crashes
    <3>1. Chain(S, f)' /\ LogGrows
      BY <1>5, <1>8, <1>10, <2>1, <2>4, <2>5, <2>6, ChainRuns
    <3>2. b.pos + n \in DOMAIN log' /\ log'[b.pos + n].value = v
      <4> DEFINE p == b.pos + n
                 name == <<"tool", b.first + n>>
      <4>1. p \notin DOMAIN log /\ Recorded(p, name, v)
        BY <1>10, <2>6
      <4> HIDE DEF p, name
      <4>2. p \in DOMAIN log' /\ log'[p].value = v
        BY <4>1, RecordedAdds, ZenonT(30)
      <4> QED BY <4>2 DEF p
    <3>3. Under(b, [o EXCEPT ![n] = v])'
      BY <1>4, <1>5, <1>8, <2>4, <2>6, <3>1, <3>2, UnderOne
    <3>4. OnWay(S)'
      BY <3>3 DEF OnWay
    <3>5. Replay(S, f)'
      BY <1>2, <1>8, <3>1, <3>4 DEF Replay, Parked, Around, world
    <3> QED BY <2>3, <3>5 DEF Onward, Advances
  <2>7. CASE crashes < MaxCrashes /\ crashes' = crashes + 1 /\ body' = Off /\ UNCHANGED log
    <3>1. Chain(S, f)'
      BY <2>5, <2>7, ChainStill
    <3>2. Replay(S, f)'
      BY <1>2, <1>8, <2>7, <3>1 DEF Replay, OnWay, Parked, Around, world
    <3> QED BY <2>3, <3>2 DEF Onward, Advances
  <2> QED BY <2>2, <2>6, <2>7
<1> QED BY <1>9, <1>10

LEMMA JoinMoves ==
  ASSUME NEW S, NEW f, Replay(S, f), JoinTogether
  PROVE  Onward(f)
<1>1. body.at = "together"
  BY DEF JoinTogether, Local
<1>2. engine.parked = NotParked /\ \E b \in S : \E o : Under(b, o)
  BY <1>1, Running
<1>3. PICK b \in S : \E o : Under(b, o)
  BY <1>2
<1>4. PICK o : Under(b, o)
  BY <1>3
<1>5. Shaped(b) /\ b \in Bodies /\ b.at = "together"
  BY <1>4 DEF Replay, Chain, Shaped, Under
<1>6. body.pos = b.pos /\ body.batch = b.batch /\ body.outcomes = o
  BY <1>4, <1>5 DEF Under, Bodies
<1>7. UNCHANGED <<log, db, engine, crashes, world>>
  BY DEF JoinTogether, Local
<1>8. \A n \in DOMAIN b.batch : b.pos + n \in DOMAIN log /\ log[b.pos + n].value = o[n]
  BY <1>4, <1>6 DEF JoinTogether, Under
<1>9. body' = Joined(b)
  <2>1. o = [n \in DOMAIN b.batch |-> log[b.pos + n].value]
    BY <1>4, <1>8 DEF Under
  <2>2. [body EXCEPT !.pos = body.pos + Len(body.batch)] = [b EXCEPT !.outcomes = o, !.pos = b.pos + Len(b.batch)]
    BY <1>4, <1>5, <1>6 DEF Under, Bodies
  <2>3. body' = Ahead([body EXCEPT !.pos = body.pos + Len(body.batch)])
    BY DEF JoinTogether
  <2>4. Joined(b) = Ahead([b EXCEPT !.outcomes = o, !.pos = b.pos + Len(b.batch)])
    BY <2>1 DEF Joined
  <2> QED BY <2>2, <2>3, <2>4
<1>10. CASE b # f
  <2>1. body' \in S
    BY <1>5, <1>9, <1>10 DEF Replay, Chain, Follows
  <2>2. Chain(S, f)'
    BY <1>7, ChainStill DEF Replay
  <2>3. Replay(S, f)'
    BY <1>2, <1>7, <2>1, <2>2 DEF Replay, OnWay, Parked, Around, world
  <2>4. Advances(f, f)
    BY <1>7 DEF Advances, Rests
  <2> QED BY <2>3, <2>4 DEF Onward
<1>11. CASE b = f
  <2>1. /\ Chain(S \cup {Joined(f)}, Joined(f))'
        /\ \A n \in DOMAIN f.batch : log[f.pos + n].value \in {"executed", "failed"}
    BY <1>5, <1>7, <1>8, <1>11, ChainJoins DEF Replay
  <2> DEFINE g == Joined(f)
  <2>2. g' = g
    BY <1>7 DEF Joined
  <2>3. Joins(f, g)
    BY <1>5, <1>7, <1>8, <1>11, <2>1 DEF Joins
  <2>4. \A h : h = g => Chain(S \cup {h}, h)'
    <3> SUFFICES ASSUME NEW h, h = g PROVE Chain(S \cup {h}, h)'
      OBVIOUS
    <3>1. Chain(S \cup {g}, g)'
      BY <2>1
    <3> HIDE DEF g
    <3> QED BY <2>2, <3>1 DEF Chain, Journal, Follows
  <2>5. body' = g
    BY <1>9, <1>11
  <2> HIDE DEF g
  <2>6. \A h : h = g => Replay(S \cup {h}, h)'
    BY <1>2, <1>7, <2>4, <2>5 DEF Replay, OnWay, Parked, Around, world
  <2> QED BY <2>3, <2>6 DEF Onward, Advances
<1> QED BY <1>10, <1>11

-----------------------------------------------------------------------------
\* A body that is loaded, or unloaded, is of the chain.
LEMMA LoadMoves ==
  ASSUME NEW S, NEW f, Replay(S, f), Resume \/ Halt
  PROVE  Onward(f)
<1>1. body' = Off \/ (body' = Fresh /\ engine.parked = NotParked)
  BY DEF Resume, Halt
<1>2. UNCHANGED <<log, engine, db, crashes, world>>
  BY DEF Resume, Halt
<1>3. Chain(S, f)'
  BY <1>2, ChainStill DEF Replay
<1>4. OnWay(S)' /\ Parked(f)'
  BY <1>1, <1>2 DEF Replay, Chain, OnWay, Parked
<1>5. Replay(S, f)'
  BY <1>2, <1>3, <1>4 DEF Replay, Around, world
<1>6. Advances(f, f)
  BY <1>2 DEF Advances, Rests
<1> QED BY <1>5, <1>6 DEF Onward

\* What a crash cuts off is of the frontier.
LEMMA CrashMoves ==
  ASSUME NEW S, NEW f, Replay(S, f), Crash
  PROVE  Onward(f)
<1>1. PICK cut \in SUBSET InFlight : db' = [db EXCEPT !.ran = [c \in Calls |-> IF c \in cut THEN @[c] + 1 ELSE @[c]]]
  BY DEF Crash
<1>2. /\ body.at # "off" /\ crashes < MaxCrashes /\ crashes' = crashes + 1 /\ body' = Off
      /\ UNCHANGED <<log, engine, world>>
  BY DEF Crash
<1>3. cut \in SUBSET {f.first + n : n \in DOMAIN f.batch} /\ (f.at # "together" => cut = {})
  <2>1. CASE InFlight = {}
    BY <2>1
  <2>2. CASE InFlight # {}
    <3>1. body.at = "together"
      BY <2>2 DEF InFlight
    <3>2. PICK b \in S : \E o : Under(b, o)
      BY <1>2, <3>1, Running
    <3>3. Shaped(b) /\ b \in Bodies /\ b.at = "together"
      BY <3>2 DEF Replay, Chain, Shaped, Under
    <3>4. body.pos = b.pos /\ body.batch = b.batch /\ body.first = b.first
      BY <3>2, <3>3 DEF Under, Bodies
    <3>5. InFlight \subseteq {b.first + n : n \in DOMAIN b.batch}
      BY <3>4 DEF InFlight
    <3>6. \E n \in DOMAIN b.batch : b.pos + n \notin DOMAIN log
      BY <2>2, <3>4 DEF InFlight
    <3>7. b = f
      BY <3>3, <3>6, Unrecorded DEF Replay
    <3> QED BY <3>3, <3>5, <3>7
  <2> QED BY <2>1, <2>2
<1>4. Chain(S, f)'
  BY <1>2, ChainStill DEF Replay
<1>5. engine.parked = NotParked
  BY <1>2, Running
<1>6. Replay(S, f)'
  BY <1>2, <1>4, <1>5 DEF Replay, OnWay, Parked, Around, world
<1>7. Cuts(f)
  BY <1>1, <1>2, <1>3 DEF Cuts
<1> QED BY <1>2, <1>6, <1>7 DEF Onward, Advances, Rests

\* An answer is recorded where the frontier waits for it.
LEMMA HearMoves ==
  ASSUME NEW S, NEW f, Replay(S, f), TakeReply \/ Lapse
  PROVE  Onward(f)
<1>1. engine.parked # NotParked
  BY DEF TakeReply, Lapse
<1>2. /\ body = Off /\ f.at \in Waits /\ engine.parked.pos = f.pos + 1 /\ engine.parked.call = CallOf(f)
      /\ engine.parked.until # Never => f.at = "decide"
  BY <1>1 DEF Replay, Parked
<1>3. Chain(S, f) /\ f \in S /\ Shaped(f)
  BY DEF Replay, Chain
<1>4. f.pos + 1 \notin DOMAIN log /\ CallOf(f) \in Calls
  <2>1. f.at \in Stepped \cup Waits /\ f.at \in Serving
    BY <1>2 DEF Waits, Serving
  <2> QED BY <1>3, <2>1, Unrecorded, FrontTypes
<1>5. Asks(f) = <<"wait", CallOf(f)>>
  BY <1>2 DEF Asks, Waits
<1>6. PICK reply \in Told :
        /\ Answer(reply)
        /\ reply = "expired" => f.at = "decide" /\ mail' = mail
        /\ reply # "expired" => /\ mail[CallOf(f)] # <<>> /\ reply = Head(mail[CallOf(f)])
                                /\ mail' = [mail EXCEPT ![CallOf(f)] = Tail(@)]
  <2>1. CASE TakeReply
    <3> DEFINE q == mail[CallOf(f)]
    <3>1. q # <<>> /\ Answer(Head(q)) /\ mail' = [mail EXCEPT ![CallOf(f)] = Tail(@)]
      BY <1>2, <2>1 DEF TakeReply
    <3>2. q \in Seq(Replies)
      BY <1>4 DEF Replay, Around
    <3>3. Head(q) \in Replies
      <4> HIDE DEF q
      <4> QED BY <3>1, <3>2
    <3>4. Head(q) \in Told /\ Head(q) # "expired"
      BY <3>3, TurnAssumption DEF Told
    <3> QED BY <3>1, <3>4
  <2>2. CASE Lapse
    BY <1>2, <2>2 DEF Lapse, Told
  <2> QED BY <2>1, <2>2
<1>7. /\ engine.status = "active" /\ Recorded(f.pos + 1, Asks(f), reply)
      /\ engine' = [engine EXCEPT !.parked = NotParked]
      /\ UNCHANGED <<body, db, crashes, sending, replies, stop, now>>
  BY <1>2, <1>5, <1>6 DEF Answer
<1> DEFINE g == Goes(f, reply)
<1>8. Shaped(g) /\ g.pos = f.pos + 1
  BY <1>2, <1>3, Waited, Zenon
<1>9. Hears(f, g)
  BY <1>2, <1>4, <1>6, <1>7 DEF Hears
<1>10. Chain(S \cup {g}, g)'
  <2> HIDE DEF g
  <2>1. g = Goes(f, reply) /\ f.at \in Stepped \cup Waits
    BY <1>2 DEF g
  <2> QED BY <1>3, <1>7, <1>8, <2>1, ChainGrows
<1> HIDE DEF g
<1>11. engine'.parked = NotParked
       /\ engine' \in [status : {"active", "completed", "failed", "cancelled"}, parked : [call : Nat, pos : Nat, until : Nat]]
  BY <1>7 DEF Replay, Around, NotParked
<1>12. mail' \in [Calls -> Seq(Replies)]
  <2>1. CASE reply = "expired"
    BY <1>6, <2>1 DEF Replay, Around
  <2>2. CASE reply # "expired"
    <3>1. mail[CallOf(f)] \in Seq(Replies) /\ mail[CallOf(f)] # <<>>
      BY <1>4, <1>6, <2>2 DEF Replay, Around
    <3>2. Tail(mail[CallOf(f)]) \in Seq(Replies)
      BY <3>1
    <3> QED BY <1>4, <1>6, <2>2, <3>2 DEF Replay, Around
  <2> QED BY <2>1, <2>2
<1>13. Replay(S \cup {g}, g)'
  BY <1>2, <1>7, <1>10, <1>11, <1>12 DEF Replay, OnWay, Parked, Around
<1> QED BY <1>9, <1>13 DEF Onward, Advances

\* The clock, people and a Stop leave the journal and the body alone.
LEMMA PeopleMoves ==
  ASSUME NEW S, NEW f, Replay(S, f), Tick \/ People
  PROVE  Onward(f)
<1>1. UNCHANGED <<body, log>>
  BY DEF Tick, People, Admit, RefuseDead, Signal, Stop, StopEngine, StopRecord, StopHandoff, StopStarts,
         StopReleases, StopEnds, Stopping
<1>2. Chain(S, f)' /\ OnWay(S)'
  <2>1. Chain(S, f)'
    BY <1>1, ChainStill DEF Replay
  <2>2. ASSUME NEW b \in S, NEW o, Under(b, o) PROVE Under(b, o)'
    BY <1>1, <2>2 DEF Under
  <2> QED BY <1>1, <2>1, <2>2 DEF Replay, OnWay
<1>3. CASE Tick
  BY <1>1, <1>2, <1>3 DEF Replay, Parked, Around, Tick, Onward, Advances, Rests
<1>4. CASE People
  <2>1. /\ engine'.parked \in {engine.parked, NotParked}
        /\ engine' \in [status : {"active", "completed", "failed", "cancelled"}, parked : [call : Nat, pos : Nat, until : Nat]]
    <3>1. CASE engine' = engine
      BY <3>1 DEF Replay, Around
    <3>2. CASE StopEngine
      BY <3>2 DEF Replay, Around, StopEngine, NotParked
    <3>3. People => engine' = engine \/ StopEngine
      BY DEF People, Admit, RefuseDead, Signal, Stop, StopRecord, StopHandoff, StopStarts, StopReleases,
             StopEnds, world
    <3> QED BY <1>4, <3>1, <3>2, <3>3
  <2>2. Parked(f)'
    BY <1>1, <2>1 DEF Replay, Parked
  <2>3. /\ mail' \in [Calls -> Seq(Replies)] /\ (sending' = NoReply \/ sending' \in [call : Calls, reply : Replies])
        /\ now' \in Nat
    <3>1. CASE UNCHANGED <<mail, sending, now>>
      BY <3>1 DEF Replay, Around
    <3>2. CASE Admit
      BY <3>2 DEF Replay, Around, Admit
    <3>3. CASE Signal
      <4>1. sending \in [call : Calls, reply : Replies] /\ mail \in [Calls -> Seq(Replies)] /\ now \in Nat
        BY <3>3 DEF Replay, Around, Signal
      <4> DEFINE q == mail[sending.call]
      <4>2. q \in Seq(Replies) /\ sending.reply \in Replies
        BY <4>1
      <4>3. Append(q, sending.reply) \in Seq(Replies)
        <5> HIDE DEF q
        <5> QED BY <4>2
      <4>4. mail' = [mail EXCEPT ![sending.call] = Append(q, sending.reply)] /\ sending' = NoReply /\ now' = now
        BY <3>3 DEF Signal
      <4> HIDE DEF q
      <4> QED BY <4>1, <4>3, <4>4
    <3>4. People => UNCHANGED <<mail, sending, now>> \/ Admit \/ Signal
      BY DEF People, RefuseDead, Stop, StopEngine, StopRecord, StopHandoff, StopStarts, StopReleases,
             StopEnds, Stopping, world
    <3> QED BY <1>4, <3>1, <3>2, <3>3, <3>4
  <2>4. Replay(S, f)'
    BY <1>2, <2>1, <2>2, <2>3 DEF Replay, Around
  <2> QED BY <1>1, <1>4, <2>4 DEF Onward, Advances, Rests
<1> QED BY <1>3, <1>4

-----------------------------------------------------------------------------
LEMMA BodyMoves ==
  ASSUME NEW S, NEW f, Replay(S, f), Body
  PROVE  Onward(f)
BY BodySteps, ReadsMoves, RecordsMoves, DiesMoves, ParksMoves, WalksMoves, LeavesMoves, TogetherMoves, JoinMoves
   DEF Bodily

LEMMA Moved ==
  ASSUME NEW S, NEW f, Replay(S, f), Next
  PROVE  Onward(f)
BY BodyMoves, LoadMoves, CrashMoves, HearMoves, PeopleMoves DEF Next

LEMMA Started == Init => Replay({Fresh}, Fresh)
<1> SUFFICES ASSUME Init PROVE Replay({Fresh}, Fresh)
  OBVIOUS
<1>1. Journal(Fresh)
  BY FreshShaped DEF Init, Journal
<1>2. Chain({Fresh}, Fresh)
  BY <1>1, FreshShaped DEF Chain
<1>3. Around
  BY DEF Init, Around, NotParked
<1> QED BY <1>2, <1>3 DEF Replay, OnWay, Parked, Init

LEMMA ReplayStill ==
  ASSUME NEW S, NEW f, Replay(S, f), UNCHANGED <<body, log, engine, mail, sending, now>>
  PROVE  Replay(S, f)'
<1>1. Chain(S, f)'
  BY ChainStill DEF Replay
<1>2. ASSUME NEW b \in S, NEW o, Under(b, o) PROVE Under(b, o)'
  BY <1>2 DEF Under
<1> QED BY <1>1, <1>2 DEF Replay, OnWay, Parked, Around

LEMMA ReplayKept ==
  ASSUME NEW S, NEW f, Replay(S, f), [Next]_vars
  PROVE  \E T, g : Replay(T, g)'
<1>1. CASE Next
  BY <1>1, Moved DEF Onward
<1>2. CASE UNCHANGED vars
  BY <1>2, ReplayStill DEF vars, world
<1> QED BY <1>1, <1>2

Replays == \E S, f : Replay(S, f)

LEMMA ReplaysNoOther == Replays => NeverDiverges
<1> SUFFICES ASSUME NEW S, NEW f, Replay(S, f) PROVE body.at # "diverged"
  BY DEF Replays, NeverDiverges
<1>1. CASE body = Off
  BY <1>1 DEF Off
<1>2. CASE body \in S
  BY <1>2, FrontTypes DEF Replay, Chain, Ats, Before, Answering, Serving, After, Closing
<1>3. ASSUME NEW b \in S, NEW o, Under(b, o) PROVE body.at # "diverged"
  <2>1. b \in Bodies /\ b.at = "together"
    BY <1>3 DEF Replay, Chain, Shaped, Under
  <2>2. body.at = b.at
    BY <1>3, <2>1 DEF Under, Bodies
  <2> QED BY <2>1, <2>2
<1> QED BY <1>1, <1>2, <1>3 DEF Replay, OnWay

\* A body that comes back asks its journal for the checkpoints the journal holds, in their order,
\* however often it was loaded and whatever was answered, decided or lost since: deterministic replay.
THEOREM ReplayFollowsJournal == Spec => []NeverDiverges
<1>1. Init => Replays
  BY Started DEF Replays
<1>2. Replays /\ [Next]_vars => Replays'
  BY ReplayKept DEF Replays
<1> QED BY <1>1, <1>2, ReplaysNoOther, PTL DEF Spec
================================================================================
