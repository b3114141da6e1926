------------------- MODULE ActionProposals_safety_proofs --------------------
(***************************************************************************)
(* The safety properties of ActionProposals, from the invariant of its     *)
(* store (StoreInv), and that it implements ProposalLifecycle: of a row    *)
(* that is stored, its users see the decision, the result or the notice    *)
(* change, one at a time and each once, or nothing at all.                 *)
(***************************************************************************)
EXTENDS ActionProposals_proofs, ActionProposalsLifecycle

(* However the writers interleaved, a stored row says one thing: work      *)
(* exactly when approved, a lease exactly while executing, an outcome      *)
(* exactly when it is over, and that outcome is what happened.             *)
THEOREM OutcomesAgree == Spec => []OutcomeIsWhatHappened
<1>1. StoreInv => OutcomeIsWhatHappened
  BY DEF StoreInv, RowsSound, RowSound, OutcomeIsWhatHappened
<1> QED BY <1>1, StoreSound, PTL

(* No writer takes back a decision, an outcome, a delivery or a            *)
(* generation: a late UPDATE fails its version check, and a timely one     *)
(* stores a transition of the very row it replaces.                        *)
THEOREM RowsAdvance == Spec => RowsOnlyAdvance
<1>1. StoreInv /\ [Next]_vars =>
        [\A p \in Proposals :
           /\ rows[p].decision \notin {"absent", "pending"} =>
                /\ rows'[p].decision = rows[p].decision
                /\ rows'[p].supersededBy = rows[p].supersededBy
           /\ rows[p].outcome # "none" =>
                rows'[p].outcome = rows[p].outcome /\ rows'[p].work = rows[p].work
           /\ rows[p].delivery \in {"admitted", "discarded"} =>
                rows'[p].delivery = rows[p].delivery
           /\ rows'[p].gen >= rows[p].gen /\ rows'[p].dgen >= rows[p].dgen]_vars
  <2> SUFFICES ASSUME StoreInv, [Next]_vars, NEW p \in Proposals
               PROVE  Keeps(rows[p], rows'[p])
    BY DEF Keeps
  <2>1. RowStep(rows[p], rows'[p])
    BY SafeNext DEF SafeStep
  <2>2. Keeps(rows[p], rows[p])
    BY DEF StoreInv, TypeInv, StoreOK, Row, Keeps
  <2> QED BY <2>1, <2>2 DEF RowStep
<1> QED BY <1>1, StoreSound, PTL DEF Spec, RowsOnlyAdvance

(* What is recorded of an execution is what the tool returned to the claim *)
(* whose generation the row carries.                                       *)
THEOREM HolderSettles == Spec => []SettledByItsHolder
<1>1. StoreInv => SettledByItsHolder
  BY DEF StoreInv, RowsSound, RowSound, SettledByItsHolder, Returned
<1> QED BY <1>1, StoreSound, PTL

(* A decision or a claim that needs no UPDATE is never answered `applied`. *)
LEMMA QuietAnswer ==
  ASSUME NEW c \in Call, c.op \in Commands \cup {"claim"}, CallFormed(c), clock \in Nat,
         rows \in [Proposals -> Row], RowsSound, Read(c).done
  PROVE  Read(c).status # "applied"
<1> DEFINE answer == Transition(c, rows[c.p])
           quiet  == [c EXCEPT !.done = TRUE, !.status = answer.status, !.next = AbsentRow]
           asking == [c EXCEPT !.done = FALSE, !.status = answer.status,
                               !.next = [answer.row EXCEPT !.version = @ + 1]]
<1>1. c.p \in Proposals /\ rows[c.p] \in Row /\ RowAgrees(rows[c.p])
  BY DEF CallFormed, Commands, RowsSound, RowSound
<1>2. /\ ~asking.done /\ quiet.status = answer.status /\ quiet.op = c.op /\ quiet.gen = c.gen
      /\ quiet.who = c.who
  BY DEF Call
<1>3. Read(c) = IF answer.row = rows[c.p] THEN quiet ELSE asking
  BY DEF Read
<1> HIDE DEF answer, quiet, asking
<1>4. answer.row = rows[c.p] /\ Read(c) = quiet
  BY <1>2, <1>3
<1>5. c.op \in MutateOps
  BY DEF MutateOps
<1>6. quiet.status # "applied" \/ Writes(quiet, rows[c.p], rows[c.p])
  BY <1>1, <1>2, <1>4, <1>5, TransitionWrites DEF answer
<1>7. rows[c.p].gen \in Nat
  BY <1>1 DEF Row
<1> QED BY <1>2, <1>4, <1>6, <1>7 DEF Writes, Commands

(* Only the caller whose UPDATE found the row pending is told `applied`.   *)
LEMMA ToldOnce ==
  ASSUME StoreInv, [Next]_vars, NEW d \in Deciders, decider'[d] # decider[d], ToldApplied(d)'
  PROVE  /\ rows[decider'[d].p].decision = "pending"
         /\ \A e \in Deciders \ {d} : decider'[e] = decider[e]
<1> USE DEF StoreInv
<1>1. rows \in [Proposals -> Row] /\ clock \in Nat /\ decider \in [Deciders -> Call]
  BY DEF TypeInv, StoreOK, DeciderOK
<1>2. Decision
  BY DEF Next, vars, store, Producer, ResolveActionProposalApproval, CreateActionProposal,
         Worker, StartTick, ExpireEnd, SelectWork, ClaimWon, ClaimNone, AwaitEnd, SelectOutcomes,
         PullNone, AdmitRead, AdmitCommit, WorkerUpdate, Stop, TickThrows, Crash, ExpireNext,
         ClaimNext, PullNext, Execution, Renew, JobUpdate, SettleActionProposal, JobEnd,
         RenewThrows, SettleThrows, ToolReturns, Tick, Turn, SoftDeleteThread
<1>3. ASSUME NEW p \in Proposals, NEW command \in Choices, DecideActionProposal(d, p, command)
      PROVE  FALSE
  <2> DEFINE rq == Request(command, p, None, 0)
  <2>1. command \in Commands /\ command \in MutateOps
    BY BoundAssumption DEF BoundAssumption, MutateOps, Commands
  <2>2. rq \in Call /\ CallFormed(rq) /\ rq.op = command
    BY <2>1, RequestType
  <2>3. decider'[d] = Read(rq)
    BY <1>1, <1>3 DEF DecideActionProposal
  <2> HIDE DEF rq
  <2> QED BY <1>1, <2>1, <2>2, <2>3, QuietAnswer DEF ToldApplied
<1>4. CASE DeciderUpdate(d)
  <2> DEFINE c == decider[d]
             again == [c EXCEPT !.tries = @ + 1]
             won   == [c EXCEPT !.done = TRUE, !.next = AbsentRow,
                                !.gen = IF c.op = "pull" THEN c.next.dgen ELSE c.next.gen]
             lost  == [c EXCEPT !.done = TRUE, !.status = "conflict", !.next = AbsentRow]
  <2>1. decider' = [decider EXCEPT ![d] = CallAfter(c)] /\ ~c.done
    BY <1>4 DEF DeciderUpdate
  <2>2. c \in Call /\ CallFormed(c) /\ c.op \in Commands /\ Sound(c, rows, effects)
    BY <2>1 DEF TypeInv, DeciderOK, DecidersSound, CallFormed, Calls, CallsSound
  <2>3. decider'[d] = CallAfter(c) /\ \A e \in Deciders \ {d} : decider'[e] = decider[e]
    BY <1>1, <2>1
  <2>4. /\ again \in Call /\ again.op = c.op /\ CallFormed(again)
        /\ lost.status = "conflict" /\ won.p = c.p /\ won.status = c.status
    BY <2>2 DEF Call, CallFormed
  <2> HIDE DEF again, won, lost
  <2>5. Read(again).done => Read(again).status # "applied"
    BY <1>1, <2>2, <2>4, QuietAnswer
  <2>6. Current(c) /\ decider'[d] = won
    BY <2>3, <2>4, <2>5 DEF CallAfter, ToldApplied, again, won, lost
  <2>7. Writes(c, rows[c.p], c.next) /\ c.status = "applied"
    BY <2>1, <2>2, <2>4, <2>6 DEF Current, Sound, ToldApplied
  <2> QED BY <2>2, <2>3, <2>4, <2>6, <2>7 DEF Writes
<1>5. ASSUME NEW e \in Deciders, e # d,
             DeciderUpdate(e) \/ \E p \in Proposals, command \in Choices : DecideActionProposal(e, p, command)
      PROVE  FALSE
  BY <1>1, <1>5 DEF DeciderUpdate, DecideActionProposal
<1> QED BY <1>2, <1>3, <1>4, <1>5 DEF Decision

(* The caller told `applied` decided the proposal, and is the only one.    *)
THEOREM FirstWins == Spec => []FirstDecisionStands
<1>1. StoreInv =>
        \A d \in Deciders : ToldApplied(d) =>
          rows[decider[d].p].decision = decider[d].op /\ decider[d].op \in Commands
  <2> SUFFICES ASSUME StoreInv, NEW d \in Deciders, ToldApplied(d)
               PROVE  rows[decider[d].p].decision = decider[d].op /\ decider[d].op \in Commands
    OBVIOUS
  <2>1. decider[d].op \in Commands
    BY DEF StoreInv, DecidersSound, ToldApplied, TypeInv, DeciderOK, CallFormed
  <2>2. Sound(decider[d], rows, effects)
    BY DEF StoreInv, CallsSound, Calls
  <2> QED BY <2>1, <2>2 DEF Sound, ToldApplied
<1>2. Init => FirstDecisionStands
  BY DEF Init, FirstDecisionStands, ToldApplied, Idle
<1>3. StoreInv /\ FirstDecisionStands /\ [Next]_vars => FirstDecisionStands'
  <2> SUFFICES ASSUME StoreInv, FirstDecisionStands, [Next]_vars, NEW d \in Deciders, ToldApplied(d)'
               PROVE  /\ rows'[decider'[d].p].decision = decider'[d].op
                      /\ \A e \in Deciders \ {d} : ~(ToldApplied(e)' /\ decider'[e].p = decider'[d].p)
    BY DEF FirstDecisionStands
  <2>1. StoreInv'
    BY SafeNext
  <2>2. rows'[decider'[d].p].decision = decider'[d].op
    <3>1. Sound(decider'[d], rows', effects') /\ decider'[d].op \in Commands
      BY <2>1 DEF StoreInv, CallsSound, Calls, DecidersSound, ToldApplied, TypeInv, DeciderOK, CallFormed
    <3> QED BY <3>1 DEF Sound, ToldApplied
  <2>3. ASSUME NEW e \in Deciders \ {d}, ToldApplied(e)', decider'[e].p = decider'[d].p
        PROVE  FALSE
    <3>1. CASE decider'[d] = decider[d] /\ decider'[e] = decider[e]
      BY <2>3, <3>1 DEF FirstDecisionStands, ToldApplied
    <3>2. CASE decider'[d] # decider[d]
      <4>1. rows[decider'[d].p].decision = "pending" /\ decider'[e] = decider[e]
        BY <3>2, ToldOnce
      <4>2. ToldApplied(e)
        BY <2>3, <4>1 DEF ToldApplied
      <4> QED BY <1>1, <2>3, <4>1, <4>2 DEF Commands
    <3>3. CASE decider'[e] # decider[e]
      <4>1. rows[decider'[e].p].decision = "pending" /\ decider'[d] = decider[d]
        BY <2>3, <3>3, ToldOnce
      <4>2. ToldApplied(d)
        BY <4>1 DEF ToldApplied
      <4> QED BY <1>1, <2>3, <4>1, <4>2 DEF Commands
    <3> QED BY <3>1, <3>2, <3>3
  <2> QED BY <2>2, <2>3
<1> QED BY <1>2, <1>3, StoreSound, PTL DEF Spec

\* An execution keeps who runs what under which claim.
SameClaim(j, k) == k.w = j.w /\ k.p = j.p /\ k.gen = j.gen

(* Executions begin with a claim that was won; any other step changes them *)
(* one by one, or ends some of them.                                       *)
LEMMA JobsShape ==
  ASSUME TypeInv, [Next]_vars
  PROVE  \/ \E f : /\ jobs' \subseteq {f[j] : j \in jobs}
                  /\ \A j \in jobs : SameClaim(j, f[j])
         \/ \E w \in Workers : ClaimWon(w)
<1>1. \A j \in jobs : j \in Job
  BY DEF TypeInv, JobsOK, JobOK
<1>2. CASE jobs' \subseteq jobs
  <2> DEFINE f == [j \in jobs |-> j]
  <2>1. jobs' \subseteq {f[j] : j \in jobs} /\ \A j \in jobs : SameClaim(j, f[j])
    BY <1>2 DEF SameClaim
  <2> HIDE DEF f
  <2> QED BY <2>1
<1>3. CASE \E w \in Workers : jobs' = {IF j.w = w THEN [j EXCEPT !.timer = FALSE] ELSE j : j \in jobs}
  <2>1. PICK w \in Workers : jobs' = {IF j.w = w THEN [j EXCEPT !.timer = FALSE] ELSE j : j \in jobs}
    BY <1>3
  <2> DEFINE f == [j \in jobs |-> IF j.w = w THEN [j EXCEPT !.timer = FALSE] ELSE j]
  <2>2. \A j \in jobs : SameClaim(j, f[j])
    BY <1>1 DEF SameClaim, Job
  <2>3. jobs' \subseteq {f[j] : j \in jobs}
    BY <2>1
  <2> HIDE DEF f
  <2> QED BY <2>2, <2>3
<1>4. CASE \E w \in Workers : jobs' \subseteq Abandoned(w)
  <2>1. PICK w \in Workers : jobs' \subseteq Abandoned(w)
    BY <1>4
  <2> DEFINE f == [j \in jobs |-> IF j.w = w THEN [j EXCEPT !.awaited = FALSE] ELSE j]
  <2>2. \A j \in jobs : SameClaim(j, f[j])
    BY <1>1 DEF SameClaim, Job
  <2>3. jobs' \subseteq {f[j] : j \in jobs}
    BY <2>1 DEF Abandoned
  <2> HIDE DEF f
  <2> QED BY <2>2, <2>3
<1>5. CASE \E j \in jobs : \E k : Becomes(j, k) /\ SameClaim(j, k)
  <2>1. PICK j \in jobs : \E k : Becomes(j, k) /\ SameClaim(j, k)
    BY <1>5
  <2>2. PICK k : Becomes(j, k) /\ SameClaim(j, k)
    BY <2>1
  <2> DEFINE f == [i \in jobs |-> IF i = j THEN k ELSE i]
  <2>3. \A i \in jobs : SameClaim(i, f[i])
    BY <2>2 DEF SameClaim
  <2>4. jobs' \subseteq {f[i] : i \in jobs}
    BY <2>2 DEF Becomes
  <2> HIDE DEF f
  <2> QED BY <2>3, <2>4
<1>6. CASE Worker
  <2>1. PICK w \in Workers :
          \/ StartTick(w) \/ ExpireEnd(w) \/ SelectWork(w) \/ ClaimWon(w) \/ ClaimNone(w)
          \/ AwaitEnd(w) \/ SelectOutcomes(w) \/ PullNone(w) \/ AdmitRead(w) \/ AdmitCommit(w)
          \/ WorkerUpdate(w) \/ Stop(w) \/ TickThrows(w) \/ Crash(w)
          \/ \E p \in Proposals : ExpireNext(w, p) \/ ClaimNext(w, p) \/ PullNext(w, p)
    BY <1>6 DEF Worker
  <2>2. CASE Stop(w)
    BY <1>3, <2>2 DEF Stop
  <2>3. CASE TickThrows(w)
    BY <1>4, <2>3 DEF TickThrows
  <2>4. CASE Crash(w)
    BY <1>2, <2>4 DEF Crash
  <2>5. CASE ~Stop(w) /\ ~TickThrows(w) /\ ~Crash(w) /\ ~ClaimWon(w)
    <3>1. jobs' = jobs
      BY <2>1, <2>5 DEF StartTick, ExpireEnd, SelectWork, ClaimNone, AwaitEnd, SelectOutcomes,
         PullNone, AdmitRead, AdmitCommit, WorkerUpdate, ExpireNext, ClaimNext, PullNext
    <3> QED BY <1>2, <3>1
  <2> QED BY <2>2, <2>3, <2>4, <2>5
<1>7. CASE Execution
  <2>1. PICK j \in jobs :
          \/ Renew(j) \/ JobUpdate(j) \/ SettleActionProposal(j) \/ JobEnd(j)
          \/ RenewThrows(j) \/ SettleThrows(j) \/ \E result \in Settled : ToolReturns(j, result)
    BY <1>7 DEF Execution
  <2>2. \A call : SameClaim(j, [j EXCEPT !.call = call])
                /\ SameClaim(j, [j EXCEPT !.pc = "settle", !.call = call])
    BY <1>1 DEF SameClaim, Job
  <2>3. \A result : SameClaim(j, [j EXCEPT !.pc = "returned", !.result = result, !.timer = FALSE])
    BY <1>1 DEF SameClaim, Job
  <2>4. CASE Renew(j)
    BY <1>5, <2>2, <2>4 DEF Renew
  <2>5. CASE JobUpdate(j)
    BY <1>5, <2>2, <2>5 DEF JobUpdate
  <2>6. CASE SettleActionProposal(j)
    BY <1>5, <2>2, <2>6 DEF SettleActionProposal
  <2>7. CASE RenewThrows(j)
    BY <1>5, <2>2, <2>7 DEF RenewThrows
  <2>8. CASE \E result \in Settled : ToolReturns(j, result)
    BY <1>5, <2>3, <2>8 DEF ToolReturns
  <2>9. CASE JobEnd(j)
    BY <1>2, <2>9 DEF JobEnd
  <2>10. CASE SettleThrows(j)
    <3>1. j.w \in Workers
      BY <1>1 DEF Job
    <3> QED BY <1>2, <1>4, <2>10, <3>1 DEF SettleThrows
  <2> QED BY <2>1, <2>4, <2>5, <2>6, <2>7, <2>8, <2>9, <2>10
<1>8. CASE ~Worker /\ ~Execution
  <2>1. jobs' = jobs
    BY <1>8 DEF Next, vars, Producer, ResolveActionProposalApproval, CreateActionProposal, Decision,
       DecideActionProposal, DeciderUpdate, Tick, Turn, SoftDeleteThread
  <2> QED BY <1>2, <2>1
<1> QED BY <1>6, <1>7, <1>8

(* A claim that was won is of a proposal that was approved.                *)
LEMMA WonApproved ==
  ASSUME StoreInv, NEW w \in Workers, ClaimWon(w)
  PROVE  /\ loop[w].call.op = "claim" /\ loop[w].call.p \in Proposals
         /\ rows[loop[w].call.p].decision = "approved"
<1>1. loop[w].call.op = "claim" /\ loop[w].call.status = "applied"
  BY DEF ClaimWon, Quiet, Won, StoreInv, LoopsSound, LoopSound, TypeInv, LoopOK, CallFormed
<1> QED BY <1>1 DEF StoreInv, CallsSound, Calls, Sound, TypeInv, LoopOK, CallFormed

(* Nothing runs, and nothing has run, for a proposal that is not approved. *)
THEOREM OnlyApprovedRun == Spec => []RunsOnlyApproved
<1>1. Init => RunsOnlyApproved
  BY DEF Init, RunsOnlyApproved
<1>2. StoreInv /\ RunsOnlyApproved /\ [Next]_vars => RunsOnlyApproved'
  <2> SUFFICES ASSUME StoreInv, RunsOnlyApproved, [Next]_vars PROVE RunsOnlyApproved'
    OBVIOUS
  <2>1. \A p \in Proposals : rows[p].decision = "approved" => rows'[p].decision = "approved"
    BY SafeNext DEF SafeStep, RowStep, Keeps
  <2>2. \A j \in jobs : j.p \in Proposals /\ rows[j.p].decision = "approved"
    BY DEF StoreInv, TypeInv, JobsOK, JobOK, Job, RunsOnlyApproved
  <2>3. \A e \in effects : e.p \in Proposals /\ rows[e.p].decision = "approved"
    BY DEF StoreInv, TypeInv, StoreOK, RunsOnlyApproved
  <2>4. \A k \in jobs' : k.p \in Proposals /\ rows[k.p].decision = "approved"
    <3>1. CASE \E w \in Workers : ClaimWon(w)
      BY <2>2, <3>1, WonApproved DEF ClaimWon
    <3>2. CASE \E f : jobs' \subseteq {f[j] : j \in jobs} /\ \A j \in jobs : SameClaim(j, f[j])
      BY <2>2, <3>2 DEF SameClaim
    <3> QED BY <3>1, <3>2, JobsShape DEF StoreInv
  <2>5. \A e \in effects' : e \in effects \/ \E j \in jobs : e.p = j.p
    <3>1. CASE \E j \in jobs, result \in Settled : ToolReturns(j, result)
      BY <3>1 DEF ToolReturns
    <3>2. CASE ~\E j \in jobs, result \in Settled : ToolReturns(j, result)
      <4>1. effects' = effects
        BY <3>2 DEF Next, vars, store, Producer, ResolveActionProposalApproval, CreateActionProposal,
           Decision, DecideActionProposal, DeciderUpdate, Tick, Turn, SoftDeleteThread,
           Worker, StartTick, ExpireEnd, SelectWork, ClaimWon, ClaimNone, AwaitEnd, SelectOutcomes,
           PullNone, AdmitRead, AdmitCommit, WorkerUpdate, Stop, TickThrows, Crash, ExpireNext,
           ClaimNext, PullNext, Execution, Renew, JobUpdate, SettleActionProposal, JobEnd,
           RenewThrows, SettleThrows
      <4> QED BY <4>1
    <3> QED BY <3>1, <3>2
  <2>6. /\ \A k \in jobs' : rows'[k.p].decision = "approved"
        /\ \A e \in effects' : rows'[e.p].decision = "approved"
    BY <2>1, <2>2, <2>3, <2>4, <2>5
  <2> QED BY <2>6 DEF RunsOnlyApproved
<1> QED BY <1>1, <1>2, StoreSound, PTL DEF Spec

-----------------------------------------------------------------------------
(* The table changes in two ways: an outstanding call stores its row, or a *)
(* run creates a proposal.  A message is posted with an admission only.    *)
LEMMA RowsMove ==
  ASSUME StoreInv, [Next]_vars
  PROVE  \/ rows' = rows /\ posted' = posted
         \/ \E c \in Calls :
              /\ ~c.done /\ rows' = RowsAfter(c)
              /\ posted' = IF Current(c) /\ c.op = "admit" /\ c.next.delivery = "admitted"
                           THEN [posted EXCEPT ![c.p] = @ + 1] ELSE posted
         \/ posted' = posted /\ \E p \in Proposals : CreateActionProposal(p)
<1>1. CASE Producer
  BY <1>1 DEF Producer, ResolveActionProposalApproval, CreateActionProposal
<1>2. CASE Decision
  <2>1. CASE \E d \in Deciders : DeciderUpdate(d)
    <3>1. PICK d \in Deciders : DeciderUpdate(d)
      BY <2>1
    <3>2. decider[d].op # "admit" /\ decider[d] \in Calls
      BY DEF StoreInv, DecidersSound, Calls, Commands
    <3> QED BY <3>1, <3>2 DEF DeciderUpdate
  <2>2. CASE ~\E d \in Deciders : DeciderUpdate(d)
    BY <1>2, <2>2 DEF Decision, DecideActionProposal, store
  <2> QED BY <2>1, <2>2
<1>3. CASE Worker
  <2>1. PICK w \in Workers :
          \/ StartTick(w) \/ ExpireEnd(w) \/ SelectWork(w) \/ ClaimWon(w) \/ ClaimNone(w)
          \/ AwaitEnd(w) \/ SelectOutcomes(w) \/ PullNone(w) \/ AdmitRead(w) \/ AdmitCommit(w)
          \/ WorkerUpdate(w) \/ Stop(w) \/ TickThrows(w) \/ Crash(w)
          \/ \E p \in Proposals : ExpireNext(w, p) \/ ClaimNext(w, p) \/ PullNext(w, p)
    BY <1>3 DEF Worker
  <2>2. loop[w].call \in Calls /\ (loop[w].call.op = "admit" <=> loop[w].pc = "admit")
    BY DEF Calls, StoreInv, TypeInv, LoopOK
  <2>3. CASE AdmitCommit(w)
    <3>1. ~loop[w].call.done
      BY <2>3 DEF AdmitCommit, StoreInv, LoopsSound, LoopSound
    <3> QED BY <2>2, <2>3, <3>1 DEF AdmitCommit
  <2>4. CASE WorkerUpdate(w)
    BY <2>2, <2>4 DEF WorkerUpdate
  <2>5. CASE ~AdmitCommit(w) /\ ~WorkerUpdate(w)
    BY <2>1, <2>5 DEF StartTick, ExpireEnd, SelectWork, ClaimWon, ClaimNone, AwaitEnd, SelectOutcomes,
       PullNone, AdmitRead, Stop, TickThrows, Crash, ExpireNext, ClaimNext, PullNext, store
  <2> QED BY <2>3, <2>4, <2>5
<1>4. CASE Execution
  <2>1. CASE \E j \in jobs : JobUpdate(j)
    <3>1. PICK j \in jobs : JobUpdate(j)
      BY <2>1
    <3>2. j.call \in Calls /\ j.call.op # "admit"
      BY DEF Calls, StoreInv, TypeInv, JobsOK, JobOK
    <3> QED BY <3>1, <3>2 DEF JobUpdate
  <2>2. CASE ~\E j \in jobs : JobUpdate(j)
    BY <1>4, <2>2 DEF Execution, Renew, SettleActionProposal, JobEnd, RenewThrows, SettleThrows,
       ToolReturns, store
  <2> QED BY <2>1, <2>2
<1>5. CASE Tick \/ Turn \/ SoftDeleteThread \/ UNCHANGED vars
  BY <1>5 DEF Tick, Turn, SoftDeleteThread, vars, store
<1> QED BY <1>1, <1>2, <1>3, <1>4, <1>5 DEF Next

(* The UPDATE that succeeds stores one row: what its call may write over   *)
(* the row it finds.                                                       *)
LEMMA Stored ==
  ASSUME StoreInv, NEW c \in Calls, ~c.done
  PROVE  /\ c.p \in Proposals
         /\ \A p \in Proposals : \/ RowsAfter(c)[p] = rows[p] /\ ~(Current(c) /\ p = c.p)
                                 \/ /\ Current(c) /\ p = c.p /\ RowsAfter(c)[p] = c.next
                                    /\ Writes(c, rows[p], c.next)
<1>1. CallFormed(c) /\ Sound(c, rows, effects) /\ rows \in [Proposals -> Row]
  BY CallsFormed DEF StoreInv, CallsSound, TypeInv, StoreOK
<1>2. c.p \in Proposals
  BY <1>1 DEF CallFormed
<1> QED BY <1>1, <1>2 DEF RowsAfter, Current, Sound

\* What a creation of p makes of row q.
Creates(p, q) ==
  \/ q # p /\ rows'[q] = rows[q] /\ q \notin Siblings(p)
  \/ q = p /\ rows'[p] = InitialActionProposal(deadline[p])
  \/ q \in Siblings(p) /\ rows'[q] = Superseded(q, p)

(* A creation finds the row there and does nothing, or inserts it and      *)
(* closes every pending sibling.                                           *)
LEMMA CreateShape ==
  ASSUME NEW p \in Proposals, CreateActionProposal(p)
  PROVE  rows' = rows \/ (rows[p].decision = "absent" /\ \A q \in Proposals : Creates(p, q))
<1>1. CASE rows[p].decision = "absent"
  <2>1. \A q \in Proposals : rows'[q] = IF q = p THEN InitialActionProposal(deadline[p])
                                       ELSE IF q \in Siblings(p) THEN Superseded(q, p) ELSE rows[q]
    BY <1>1 DEF CreateActionProposal
  <2> QED BY <1>1, <2>1 DEF Creates
<1>2. CASE rows[p].decision # "absent"
  BY <1>2 DEF CreateActionProposal
<1> QED BY <1>1, <1>2

(* Two proposals of one group never wait together: the creation of the     *)
(* second closes the first in the same transaction, and nothing makes a    *)
(* closed row pending again.                                               *)
THEOREM OnePending == Spec => []OnePendingPerGroup
<1>1. Init => OnePendingPerGroup
  BY DEF Init, OnePendingPerGroup, AbsentRow
<1>2. StoreInv /\ OnePendingPerGroup /\ [Next]_vars => OnePendingPerGroup'
  <2> SUFFICES ASSUME StoreInv, OnePendingPerGroup, [Next]_vars,
                      NEW p \in Proposals, NEW q \in Proposals,
                      rows'[p].decision = "pending", rows'[q].decision = "pending",
                      Group[p] = Group[q], Group[p] # NoGroup
               PROVE  p = q
    BY DEF OnePendingPerGroup
  <2>1. CASE rows[p].decision = "pending" /\ rows[q].decision = "pending"
    BY <2>1 DEF OnePendingPerGroup
  <2>2. CASE \E c \in Calls : ~c.done /\ rows' = RowsAfter(c)
    BY <2>1, <2>2, Stored DEF Writes
  <2>3. ASSUME NEW r \in Proposals, CreateActionProposal(r)
        PROVE  p = q
    <3>1. CASE rows' = rows
      BY <2>1, <3>1
    <3>2. CASE rows[r].decision = "absent" /\ \A x \in Proposals : Creates(r, x)
      <4>1. rows \in [Proposals -> Row] /\ RowsSound /\ clock \in Nat
        BY DEF StoreInv, TypeInv, StoreOK
      <4>2. \A x \in Siblings(r) : Superseded(x, r).decision # "pending"
        BY <4>1, SupersededRow
      <4>3. /\ p # r => rows'[p] = rows[p] /\ p \notin Siblings(r)
            /\ q # r => rows'[q] = rows[q] /\ q \notin Siblings(r)
        BY <3>2, <4>2 DEF Creates
      <4> QED BY <2>1, <4>3 DEF Siblings
    <3> QED BY <3>1, <3>2, CreateShape, <2>3
  <2>4. CASE rows' = rows
    BY <2>1, <2>4
  <2> QED BY <2>2, <2>3, <2>4, RowsMove
<1> QED BY <1>1, <1>2, StoreSound, PTL DEF Spec

(* Only a creation that inserts its row supersedes others, under its own   *)
(* name: a replayed one finds its row and displaces nobody.                *)
THEOREM NewcomerReplaces == Spec => ReplacedByNewcomerOnly
<1>1. StoreInv /\ [Next]_vars =>
        [\A p \in Proposals :
           rows'[p].decision = "superseded" /\ rows[p].decision # "superseded" =>
             rows[rows'[p].supersededBy].decision = "absent"]_vars
  <2> SUFFICES ASSUME StoreInv, [Next]_vars, NEW p \in Proposals,
                      rows'[p].decision = "superseded", rows[p].decision # "superseded"
               PROVE  rows[rows'[p].supersededBy].decision = "absent"
    OBVIOUS
  <2>1. CASE \E c \in Calls : ~c.done /\ rows' = RowsAfter(c)
    BY <2>1, Stored DEF Writes
  <2>2. ASSUME NEW r \in Proposals, CreateActionProposal(r)
        PROVE  rows[rows'[p].supersededBy].decision = "absent"
    <3>1. rows \in [Proposals -> Row] /\ RowsSound /\ clock \in Nat
      BY DEF StoreInv, TypeInv, StoreOK
    <3>2. rows[r].decision = "absent" /\ Creates(r, p)
      BY <2>2, CreateShape
    <3>3. InitialActionProposal(deadline[r]).decision # "superseded"
      BY DEF InitialActionProposal, AbsentRow
    <3>4. p \in Siblings(r) /\ rows'[p] = Superseded(p, r)
      BY <3>2, <3>3 DEF Creates
    <3> QED BY <3>1, <3>2, <3>4, SupersededRow
  <2> QED BY <2>1, <2>2, RowsMove
<1> QED BY <1>1, StoreSound, PTL DEF Spec, ReplacedByNewcomerOnly

(* One message for an admitted outcome: the transaction that posts it is   *)
(* the one that admits the row, and it commits only if no other worker     *)
(* touched the row since it read it.                                       *)
THEOREM PostedWithAdmission == Spec => []PostedOnce
<1>1. Init => PostedOnce
  <2>1. AbsentRow.delivery = "none"
    BY DEF AbsentRow
  <2> QED BY <2>1 DEF Init, PostedOnce
<1>2. StoreInv /\ PostedOnce /\ [Next]_vars => PostedOnce'
  <2> SUFFICES ASSUME StoreInv, PostedOnce, [Next]_vars, NEW p \in Proposals
               PROVE  posted'[p] = IF rows'[p].delivery = "admitted" THEN 1 ELSE 0
    BY DEF PostedOnce
  <2>1. posted[p] = IF rows[p].delivery = "admitted" THEN 1 ELSE 0
    BY DEF PostedOnce
  <2>2. rows \in [Proposals -> Row] /\ RowsSound /\ clock \in Nat /\ posted \in [Proposals -> Nat]
    BY DEF StoreInv, TypeInv, StoreOK
  <2>3. CASE rows' = rows /\ posted' = posted
    BY <2>1, <2>3
  <2>4. ASSUME NEW c \in Calls, ~c.done, rows' = RowsAfter(c),
               posted' = IF Current(c) /\ c.op = "admit" /\ c.next.delivery = "admitted"
                         THEN [posted EXCEPT ![c.p] = @ + 1] ELSE posted
        PROVE  posted'[p] = IF rows'[p].delivery = "admitted" THEN 1 ELSE 0
    <3>1. CASE rows'[p] = rows[p] /\ ~(Current(c) /\ p = c.p)
      BY <2>1, <2>2, <2>4, <3>1
    <3>2. CASE Current(c) /\ p = c.p /\ rows'[p] = c.next /\ Writes(c, rows[p], c.next)
      <4>1. CASE c.op = "admit"
        BY <2>1, <2>2, <2>4, <3>2, <4>1 DEF Writes
      <4>2. CASE c.op # "admit"
        BY <2>1, <2>4, <3>2, <4>2 DEF Writes, Keeps
      <4> QED BY <4>1, <4>2
    <3> QED BY <2>4, <3>1, <3>2, Stored
  <2>5. ASSUME posted' = posted, NEW r \in Proposals, CreateActionProposal(r)
        PROVE  posted'[p] = IF rows'[p].delivery = "admitted" THEN 1 ELSE 0
    <3>1. CASE rows'[p] = rows[p]
      BY <2>1, <2>5, <3>1
    <3>2. CASE rows[r].decision = "absent" /\ Creates(r, p) /\ rows'[p] # rows[p]
      <4>1. rows'[p].delivery # "admitted"
        BY <2>2, <3>2, SupersededRow DEF Creates, InitialActionProposal, AbsentRow
      <4>2. rows[p].decision \in {"absent", "pending"}
        BY <3>2 DEF Creates, Siblings
      <4>3. rows[p].delivery = "none"
        BY <2>2, <4>2 DEF RowsSound, RowSound, RowAgrees, Settled, Refused, Row, Deliveries, Works
      <4> QED BY <2>1, <2>5, <4>1, <4>3
    <3> QED BY <2>5, <3>1, <3>2, CreateShape
  <2> QED BY <2>3, <2>4, <2>5, RowsMove
<1> QED BY <1>1, <1>2, StoreSound, PTL DEF Spec

-----------------------------------------------------------------------------
(* Claims.  A generation of a row is handed out once: to the claim that    *)
(* moved the row to it.                                                    *)

\* Worker w was answered `applied` and has not started its execution.
WonClaim(w) == /\ loop[w].call.op = "claim" /\ loop[w].call.done
               /\ loop[w].call.status = "applied"

\* A claim of generation gen, by w, against row.
Held(row, gen, w) ==
  gen <= row.gen /\ (gen = row.gen /\ row.work = "executing" => w = row.holder)

ClaimsHeld ==
  /\ \A j \in jobs : Held(rows[j.p], j.gen, j.w)
  /\ \A w \in Workers : WonClaim(w) => Held(rows[loop[w].call.p], loop[w].call.gen, w)

ClaimsDiffer ==
  /\ \A j, k \in jobs : j.p = k.p /\ j.gen = k.gen => j = k
  /\ \A j \in jobs, w \in Workers :
       WonClaim(w) => ~(j.p = loop[w].call.p /\ j.gen = loop[w].call.gen)
  /\ \A v, w \in Workers :
       WonClaim(v) /\ WonClaim(w) /\ loop[v].call.p = loop[w].call.p
       /\ loop[v].call.gen = loop[w].call.gen => v = w

OwnCalls == \A w \in Workers : loop[w].call.op = "claim" => loop[w].call.who = w

ClaimsInv == ClaimsHeld /\ ClaimsDiffer /\ OwnCalls

(* A row that moves leaves every claim held: a claim takes the next        *)
(* generation, and nothing else touches the lease of an execution.         *)
LEMMA HeldStable ==
  ASSUME StoreInv, [Next]_vars, NEW p \in Proposals, NEW gen \in Nat, NEW w \in Workers,
         Held(rows[p], gen, w)
  PROVE  Held(rows'[p], gen, w)
<1>1. rows \in [Proposals -> Row] /\ RowsSound /\ clock \in Nat /\ rows[p].gen \in Nat
  BY DEF StoreInv, TypeInv, StoreOK, Row
<1>2. CASE rows'[p] = rows[p]
  BY <1>2
<1>3. CASE \E c \in Calls : ~c.done /\ rows' = RowsAfter(c)
  <2>1. PICK c \in Calls : ~c.done /\ rows' = RowsAfter(c)
    BY <1>3
  <2>2. CASE rows'[p] = rows[p]
    BY <2>2
  <2>3. CASE Writes(c, rows[p], c.next) /\ rows'[p] = c.next
    BY <1>1, <2>3 DEF Writes, Held
  <2> QED BY <2>1, <2>2, <2>3, Stored
<1>4. ASSUME NEW r \in Proposals, CreateActionProposal(r)
      PROVE  Held(rows'[p], gen, w)
  <2>1. rows'[p] = rows[p] \/ Creates(r, p)
    BY <1>4, CreateShape
  <2>2. CASE Creates(r, p) /\ rows'[p] # rows[p]
    <3>1. Keeps(rows[p], rows'[p])
      BY <2>2, SafeNext DEF SafeStep, RowStep
    <3>2. rows'[p].gen \in Nat
      BY SafeNext DEF StoreInv, TypeInv, StoreOK, Row
    <3>3. rows'[p].work # "executing"
      <4>1. CASE p \in Siblings(r)
        <5>1. rows'[p] = Superseded(p, r)
          BY <2>2, <4>1 DEF Creates, Siblings
        <5>2. RowAgrees(rows'[p]) /\ rows'[p].decision # "approved"
          BY <1>1, <4>1, <5>1, SupersededRow DEF RowSound
        <5> QED BY <5>2 DEF RowAgrees
      <4>2. CASE p \notin Siblings(r)
        BY <2>2, <4>2 DEF Creates, InitialActionProposal, AbsentRow
      <4> QED BY <4>1, <4>2
    <3> QED BY <1>1, <3>1, <3>2, <3>3 DEF Keeps, Held
  <2> QED BY <1>2, <2>1, <2>2
<1> QED BY <1>2, <1>3, <1>4, RowsMove

\* The UPDATE by which worker w wins a claim.
Wins(w) ==
  LET c == loop[w].call
  IN  /\ WorkerUpdate(w) /\ c.op = "claim" /\ c.p \in Proposals
      /\ Writes(c, rows[c.p], c.next) /\ rows'[c.p] = c.next
      /\ loop'[w].call.p = c.p /\ loop'[w].call.gen = c.next.gen
      /\ \A v \in Workers \ {w} : loop'[v].call = loop[v].call

(* What a step may do to the calls of the ticks: a claim is won by the     *)
(* UPDATE of its worker, and in no other way.                              *)
LEMMA WonOrigin ==
  ASSUME StoreInv, OwnCalls, [Next]_vars, NEW w \in Workers
  PROVE  /\ WonClaim(w)' => loop'[w].call = loop[w].call \/ Wins(w)
         /\ loop'[w].call.op = "claim" => loop'[w].call.who = w
<1>1. /\ rows \in [Proposals -> Row] /\ RowsSound /\ clock \in Nat
      /\ loop \in [Workers -> Loop] /\ loop[w] \in Loop
      /\ loop[w].call \in Call /\ CallFormed(loop[w].call)
      /\ Sound(loop[w].call, rows, effects)
  BY DEF StoreInv, TypeInv, StoreOK, LoopOK, Loop, CallsSound, Calls
<1>2. loop[w].call.op = "claim" => loop[w].call.who = w
  BY DEF OwnCalls
<1>3. CASE loop'[w].call = loop[w].call \/ loop'[w].call.op # "claim"
  BY <1>2, <1>3 DEF WonClaim
<1>4. ASSUME NEW p \in Proposals, NEW op \in {"expired", "claim", "pull"}, Issue(w, p, op)
      PROVE  loop'[w].call.op = "claim" => ~WonClaim(w)' /\ loop'[w].call.who = w
  <2> DEFINE rq == Request(op, p, w, 0)
  <2>1. op \in MutateOps
    BY DEF MutateOps, Commands
  <2>2. rq \in Call /\ CallFormed(rq) /\ rq.op = op /\ rq.who = w
    <3>1. rq \in Call /\ CallFormed(rq) /\ rq.op = op
      BY <2>1, RequestType
    <3> QED BY <3>1 DEF Request, Idle
  <2>3. loop'[w].call = Read(rq)
    BY <1>1, <1>4 DEF Issue, Loop
  <2> HIDE DEF rq
  <2>4. Read(rq).op = op /\ Read(rq).who = w
    BY <1>1, <2>1, <2>2, ReadType DEF SameRequest
  <2>5. op = "claim" /\ Read(rq).done => Read(rq).status # "applied"
    BY <1>1, <2>2, QuietAnswer
  <2> QED BY <2>3, <2>4, <2>5 DEF WonClaim
<1>5. CASE WorkerUpdate(w)
  <2> DEFINE c == loop[w].call
             again == [c EXCEPT !.tries = @ + 1]
             won   == [c EXCEPT !.done = TRUE, !.next = AbsentRow,
                                !.gen = IF c.op = "pull" THEN c.next.dgen ELSE c.next.gen]
             lost  == [c EXCEPT !.done = TRUE, !.status = "conflict", !.next = AbsentRow]
  <2>1. /\ loop'[w].call = CallAfter(c) /\ ~c.done /\ rows' = RowsAfter(c)
        /\ \A v \in Workers \ {w} : loop'[v].call = loop[v].call
    BY <1>1, <1>5 DEF WorkerUpdate, Loop
  <2>2. c.op \in MutateOps
    BY <1>1, <1>5 DEF WorkerUpdate, StoreInv, TypeInv, LoopOK, CallFormed, Call, Ops, MutateOps
  <2>3. CallAfter(c).op = c.op /\ CallAfter(c).who = c.who
    BY <1>1, <2>2, CallAfterType DEF SameRequest
  <2>4. /\ again \in Call /\ again.op = c.op /\ CallFormed(again) /\ lost.status = "conflict"
        /\ won.p = c.p /\ won.status = c.status
        /\ c.op = "claim" => won.gen = c.next.gen
    BY <1>1 DEF Call, CallFormed
  <2> HIDE DEF again, won, lost
  <2>5. ASSUME WonClaim(w)' PROVE Wins(w)
    <3>1. CallAfter(c).op = "claim" /\ CallAfter(c).done /\ CallAfter(c).status = "applied"
      BY <2>1, <2>5 DEF WonClaim
    <3>2. c.op = "claim" /\ c.p \in Proposals
      BY <1>1, <2>3, <3>1 DEF CallFormed
    <3>3. Read(again).done => Read(again).status # "applied"
      BY <1>1, <2>4, <3>2, QuietAnswer
    <3>4. Current(c) /\ CallAfter(c) = won
      BY <2>4, <3>1, <3>3 DEF CallAfter, again, won, lost
    <3>5. Writes(c, rows[c.p], c.next) /\ rows'[c.p] = c.next
      BY <1>1, <2>1, <3>2, <3>4 DEF Current, Sound, RowsAfter
    <3> QED BY <1>5, <2>1, <2>4, <3>2, <3>4, <3>5 DEF Wins
  <2> QED BY <1>2, <2>1, <2>3, <2>5
<1>6. CASE loop'[w].call = Idle
  BY <1>3, <1>6, IdleType
<1>7. ASSUME NEW v \in Workers, NEW pc, NEW count, GoTo(v, pc, count)
      PROVE  loop'[w].call \in {loop[w].call, Idle}
  BY <1>1, <1>7 DEF GoTo, Loop
<1>8. CASE Worker
  <2>1. PICK v \in Workers :
          \/ StartTick(v) \/ ExpireEnd(v) \/ SelectWork(v) \/ ClaimWon(v) \/ ClaimNone(v)
          \/ AwaitEnd(v) \/ SelectOutcomes(v) \/ PullNone(v) \/ AdmitRead(v) \/ AdmitCommit(v)
          \/ WorkerUpdate(v) \/ Stop(v) \/ TickThrows(v) \/ Crash(v)
          \/ \E p \in Proposals : ExpireNext(v, p) \/ ClaimNext(v, p) \/ PullNext(v, p)
    BY <1>8 DEF Worker
  <2>2. CASE \E pc, count : GoTo(v, pc, count)
    BY <1>3, <1>6, <1>7, <2>2
  <2>3. CASE StartTick(v) \/ Stop(v) \/ Crash(v)
    <3>1. loop'[w].call \in {loop[w].call, Idle}
      BY <1>1, <2>3 DEF StartTick, Stop, Crash, Asleep, Loop
    <3> QED BY <1>3, <1>6, <3>1
  <2>4. CASE SelectWork(v) \/ SelectOutcomes(v)
    <3>1. loop'[w].call \in {loop[w].call, Idle}
      BY <1>1, <1>7, <2>4 DEF SelectWork, SelectOutcomes, Loop
    <3> QED BY <1>3, <1>6, <3>1
  <2>5. CASE AdmitRead(v)
    <3>1. loop'[w].call \in {loop[w].call, Idle} \/ loop'[w].call.op = "admit"
      <4>1. CASE \E count : GoTo(v, "pull", count)
        BY <1>7, <4>1
      <4>2. CASE ~\E count : GoTo(v, "pull", count)
        BY <1>1, <2>5, <4>2 DEF AdmitRead, Loop, Call
      <4> QED BY <4>1, <4>2
    <3> QED BY <1>3, <1>6, <3>1
  <2>6. CASE WorkerUpdate(v)
    <3>1. CASE v # w
      <4>1. loop'[w].call = loop[w].call
        BY <1>1, <2>6, <3>1 DEF WorkerUpdate
      <4> QED BY <1>3, <4>1
    <3> QED BY <1>5, <2>6, <3>1
  <2>7. ASSUME NEW p \in Proposals, ExpireNext(v, p) \/ ClaimNext(v, p) \/ PullNext(v, p)
        PROVE  /\ WonClaim(w)' => loop'[w].call = loop[w].call \/ Wins(w)
               /\ loop'[w].call.op = "claim" => loop'[w].call.who = w
    <3>1. PICK op \in {"expired", "claim", "pull"} : Issue(v, p, op)
      BY <2>7 DEF ExpireNext, ClaimNext, PullNext
    <3>2. CASE v = w
      BY <1>4, <3>1, <3>2 DEF WonClaim
    <3>3. CASE v # w
      <4>1. loop'[w].call = loop[w].call
        BY <1>1, <3>1, <3>3 DEF Issue
      <4> QED BY <1>3, <4>1
    <3> QED BY <3>2, <3>3
  <2>8. ExpireEnd(v) \/ ClaimWon(v) \/ ClaimNone(v) \/ AwaitEnd(v) \/ PullNone(v) \/ TickThrows(v)
        \/ AdmitCommit(v) => \E pc, count : GoTo(v, pc, count)
    BY DEF ExpireEnd, ClaimWon, ClaimNone, AwaitEnd, PullNone, TickThrows, AdmitCommit
  <2> QED BY <2>1, <2>2, <2>3, <2>4, <2>5, <2>6, <2>7, <2>8
<1>9. CASE Execution
  <2>1. loop' = loop \/ \E v \in Workers : GoTo(v, "idle", 0)
    <3>1. \A j \in jobs : j.w \in Workers
      BY DEF StoreInv, TypeInv, JobsOK, JobOK, Job
    <3> QED BY <1>9, <3>1 DEF Execution, Renew, JobUpdate, SettleActionProposal, JobEnd, RenewThrows,
         SettleThrows, ToolReturns
  <2> QED BY <1>3, <1>6, <1>7, <2>1
<1>10. CASE ~Worker /\ ~Execution
  <2>1. loop' = loop
    BY <1>10 DEF Next, vars, Producer, ResolveActionProposalApproval, CreateActionProposal, Decision,
       DecideActionProposal, DeciderUpdate, Tick, Turn, SoftDeleteThread
  <2> QED BY <1>3, <2>1
<1> QED BY <1>8, <1>9, <1>10

(* Where claims live: in executions and in the calls that won them.        *)
LEMMA ClaimTypes ==
  ASSUME StoreInv
  PROVE  /\ \A p \in Proposals : rows[p].gen \in Nat
         /\ \A j \in jobs : j.p \in Proposals /\ j.gen \in Nat /\ j.w \in Workers
         /\ \A w \in Workers :
              WonClaim(w) => loop[w].call.p \in Proposals /\ loop[w].call.gen \in Nat
BY DEF StoreInv, TypeInv, StoreOK, LoopOK, JobsOK, JobOK, Row, Job, Loop, Call, CallFormed, WonClaim

(* A claim that is won is ahead of every claim of its proposal, and is the *)
(* one that holds the lease.                                               *)
LEMMA WinsAhead ==
  ASSUME StoreInv, ClaimsInv, NEW w \in Workers, Wins(w)
  PROVE  /\ jobs' = jobs /\ \A v \in Workers \ {w} : loop'[v].call = loop[v].call
         /\ loop'[w].call.p \in Proposals
         /\ Held(rows'[loop'[w].call.p], loop'[w].call.gen, w)
         /\ \A j \in jobs : j.p = loop'[w].call.p => j.gen < loop'[w].call.gen
         /\ \A v \in Workers : WonClaim(v) /\ loop[v].call.p = loop'[w].call.p =>
              loop[v].call.gen < loop'[w].call.gen
<1> DEFINE c == loop[w].call
<1>1. /\ jobs' = jobs /\ c.op = "claim" /\ c.p \in Proposals
      /\ Writes(c, rows[c.p], c.next) /\ rows'[c.p] = c.next
      /\ loop'[w].call.p = c.p /\ loop'[w].call.gen = c.next.gen
      /\ \A v \in Workers \ {w} : loop'[v].call = loop[v].call
  BY DEF Wins, WorkerUpdate
<1>2. c.next.gen = rows[c.p].gen + 1 /\ c.next.holder = w
  BY <1>1 DEF Writes, ClaimsInv, OwnCalls
<1>3. Held(c.next, c.next.gen, w)
  BY <1>1, <1>2, ClaimTypes DEF Held
<1>4. /\ \A j \in jobs : j.p = c.p => j.gen <= rows[c.p].gen
      /\ \A v \in Workers : WonClaim(v) /\ loop[v].call.p = c.p => loop[v].call.gen <= rows[c.p].gen
  BY DEF ClaimsInv, ClaimsHeld, Held
<1> HIDE DEF c
<1> QED BY <1>1, <1>2, <1>3, <1>4, ClaimTypes

(* Starting the execution of a claim takes it out of the call that won it. *)
LEMMA StartsClaim ==
  ASSUME StoreInv, NEW w \in Workers, ClaimWon(w)
  PROVE  /\ WonClaim(w) /\ ~WonClaim(w)'
         /\ \A v \in Workers \ {w} : loop'[v].call = loop[v].call
         /\ \A j \in jobs' :
              j \in jobs \/ (j.p = loop[w].call.p /\ j.gen = loop[w].call.gen /\ j.w = w)
         /\ \A j, k \in jobs' : j \notin jobs /\ k \notin jobs => j = k
<1>1. WonClaim(w)
  BY WonApproved DEF ClaimWon, Quiet, Won, WonClaim
<1>2. loop'[w].call = Idle /\ \A v \in Workers \ {w} : loop'[v].call = loop[v].call
  BY DEF ClaimWon, GoTo, StoreInv, TypeInv, LoopOK, Loop
<1>3. ~WonClaim(w)'
  BY <1>2, IdleType DEF WonClaim
<1> DEFINE new == [w |-> w, p |-> loop[w].call.p, gen |-> loop[w].call.gen,
                   pc |-> "run", result |-> "none", timer |-> TRUE,
                   awaited |-> TRUE, call |-> Idle]
<1>4. jobs' = jobs \cup {new}
  BY DEF ClaimWon
<1>5. new.p = loop[w].call.p /\ new.gen = loop[w].call.gen /\ new.w = w
  OBVIOUS
<1> HIDE DEF new
<1>6. \A j \in jobs' : j \in jobs \/ j = new
  BY <1>4
<1> QED BY <1>1, <1>2, <1>3, <1>5, <1>6

(* Every claim still agrees with its row after a step.                     *)
LEMMA HeldNext ==
  ASSUME StoreInv, ClaimsInv, [Next]_vars
  PROVE  ClaimsHeld'
<1>1. \A j \in jobs : Held(rows'[j.p], j.gen, j.w)
  BY ClaimTypes, HeldStable DEF ClaimsInv, ClaimsHeld
<1>2. \A w \in Workers : WonClaim(w) => Held(rows'[loop[w].call.p], loop[w].call.gen, w)
  BY ClaimTypes, HeldStable DEF ClaimsInv, ClaimsHeld
<1>3. \A j \in jobs' : Held(rows'[j.p], j.gen, j.w)
  <2>1. CASE \E f : jobs' \subseteq {f[j] : j \in jobs} /\ \A j \in jobs : SameClaim(j, f[j])
    BY <1>1, <2>1 DEF SameClaim
  <2>2. CASE \E w \in Workers : ClaimWon(w)
    BY <1>1, <1>2, <2>2, StartsClaim
  <2> QED BY <2>1, <2>2, JobsShape DEF StoreInv
<1>4. ASSUME NEW w \in Workers, WonClaim(w)'
      PROVE  Held(rows'[loop'[w].call.p], loop'[w].call.gen, w)
  <2>1. CASE Wins(w)
    BY <2>1, WinsAhead
  <2>2. CASE loop'[w].call = loop[w].call
    BY <1>2, <1>4, <2>2 DEF WonClaim
  <2> QED BY <1>4, <2>1, <2>2, WonOrigin DEF ClaimsInv
<1> QED BY <1>3, <1>4 DEF ClaimsHeld, WonClaim

(* Claims still differ after a step.                                       *)
LEMMA DifferNext ==
  ASSUME StoreInv, ClaimsInv, [Next]_vars
  PROVE  ClaimsDiffer'
<1>1. \A w \in Workers : WonClaim(w)' =>
        \/ loop'[w].call = loop[w].call /\ WonClaim(w)
        \/ Wins(w)
  BY WonOrigin DEF ClaimsInv, WonClaim
<1>2. \A j, k \in jobs' : j.p = k.p /\ j.gen = k.gen => j = k
  <2>1. CASE \E f : jobs' \subseteq {f[j] : j \in jobs} /\ \A j \in jobs : SameClaim(j, f[j])
    BY <2>1 DEF SameClaim, ClaimsInv, ClaimsDiffer
  <2>2. CASE \E w \in Workers : ClaimWon(w)
    BY <2>2, StartsClaim DEF ClaimsInv, ClaimsDiffer
  <2> QED BY <2>1, <2>2, JobsShape DEF StoreInv
<1>3. ASSUME NEW j \in jobs', NEW w \in Workers, WonClaim(w)',
             j.p = loop'[w].call.p, j.gen = loop'[w].call.gen
      PROVE  FALSE
  <2>1. CASE Wins(w)
    BY <1>3, <2>1, WinsAhead, ClaimTypes
  <2>2. CASE loop'[w].call = loop[w].call /\ WonClaim(w)
    <3>1. CASE \E f : jobs' \subseteq {f[i] : i \in jobs} /\ \A i \in jobs : SameClaim(i, f[i])
      BY <1>3, <2>2, <3>1 DEF SameClaim, ClaimsInv, ClaimsDiffer
    <3>2. CASE \E v \in Workers : ClaimWon(v)
      BY <1>3, <2>2, <3>2, StartsClaim DEF ClaimsInv, ClaimsDiffer
    <3> QED BY <3>1, <3>2, JobsShape DEF StoreInv
  <2> QED BY <1>1, <1>3, <2>1, <2>2
<1>4. ASSUME NEW v \in Workers, NEW w \in Workers, WonClaim(v)', WonClaim(w)',
             loop'[v].call.p = loop'[w].call.p, loop'[v].call.gen = loop'[w].call.gen
      PROVE  v = w
  <2>1. ASSUME NEW x \in Workers, NEW y \in Workers, x # y, Wins(x), WonClaim(y)',
               loop'[x].call.p = loop'[y].call.p, loop'[x].call.gen = loop'[y].call.gen
        PROVE  FALSE
    <3>1. loop'[y].call = loop[y].call /\ WonClaim(y)
      BY <2>1, WinsAhead DEF WonClaim
    <3> QED BY <2>1, <3>1, WinsAhead, ClaimTypes
  <2>2. CASE Wins(v) \/ Wins(w)
    BY <1>4, <2>1, <2>2
  <2>3. CASE ~Wins(v) /\ ~Wins(w)
    BY <1>1, <1>4, <2>3 DEF ClaimsInv, ClaimsDiffer
  <2> QED BY <2>2, <2>3
<1> QED BY <1>2, <1>3, <1>4 DEF ClaimsDiffer, WonClaim

(* Two executions of one proposal never share a generation, and the one at *)
(* the row's generation belongs to the holder of the lease.                *)
THEOREM ClaimsExclusive == Spec => []ClaimsAreExclusive
<1>1. Init => ClaimsInv
  <2> SUFFICES ASSUME Init PROVE ClaimsInv
    OBVIOUS
  <2>1. jobs = {} /\ \A w \in Workers : loop[w].call = Idle
    BY DEF Init, Asleep
  <2> QED BY <2>1, IdleType DEF ClaimsInv, ClaimsHeld, ClaimsDiffer, OwnCalls, WonClaim
<1>2. StoreInv /\ ClaimsInv /\ [Next]_vars => ClaimsInv'
  <2> SUFFICES ASSUME StoreInv, ClaimsInv, [Next]_vars PROVE ClaimsInv'
    OBVIOUS
  <2>1. OwnCalls'
    BY WonOrigin DEF ClaimsInv, OwnCalls
  <2> QED BY <2>1, HeldNext, DifferNext DEF ClaimsInv
<1>3. ClaimsInv => ClaimsAreExclusive
  BY DEF ClaimsInv, ClaimsHeld, ClaimsDiffer, Held, ClaimsAreExclusive
<1> QED BY <1>1, <1>2, <1>3, StoreSound, PTL DEF Spec

-----------------------------------------------------------------------------
(* The history of results grows when a tool returns and at no other time.  *)
LEMMA EffectsGrow ==
  ASSUME [Next]_vars
  PROVE  \/ effects' = effects
         \/ rows' = rows /\ \E j \in jobs, result \in Settled : ToolReturns(j, result)
<1>1. CASE \E j \in jobs, result \in Settled : ToolReturns(j, result)
  BY <1>1 DEF ToolReturns, store
<1>2. CASE ~\E j \in jobs, result \in Settled : ToolReturns(j, result)
  BY <1>2 DEF Next, vars, store, Producer, ResolveActionProposalApproval, CreateActionProposal,
     Decision, DecideActionProposal, DeciderUpdate, Tick, Turn, SoftDeleteThread,
     Worker, StartTick, ExpireEnd, SelectWork, ClaimWon, ClaimNone, AwaitEnd, SelectOutcomes,
     PullNone, AdmitRead, AdmitCommit, WorkerUpdate, Stop, TickThrows, Crash, ExpireNext,
     ClaimNext, PullNext, Execution, Renew, JobUpdate, SettleActionProposal, JobEnd,
     RenewThrows, SettleThrows
<1> QED BY <1>1, <1>2

(* What is seen of the table when one row is stored.                       *)
LEMMA Seen ==
  ASSUME NEW p \in Proposals, NEW s, rows \in [Proposals -> Row],
         rows' = [rows EXCEPT ![p] = s], effects' = effects
  PROVE  /\ Fates'   = [Fates EXCEPT ![p] = s.decision]
         /\ Results' = [Results EXCEPT ![p] = Result(s)]
         /\ Notices' = [Notices EXCEPT ![p] = Notice(s)]
         /\ Runs'    = Runs
<1>1. \A q \in Proposals : rows'[q] = IF q = p THEN s ELSE rows[q]
  OBVIOUS
<1>2. Fates' = [Fates EXCEPT ![p] = s.decision]
  BY <1>1 DEF Fates
<1>3. Results' = [Results EXCEPT ![p] = Result(s)]
  <2>1. Results' = [q \in Proposals |-> IF q = p THEN Result(s) ELSE Result(rows[q])]
    BY <1>1 DEF Results
  <2> QED BY <2>1 DEF Results
<1>4. Notices' = [Notices EXCEPT ![p] = Notice(s)]
  <2>1. Notices' = [q \in Proposals |-> IF q = p THEN Notice(s) ELSE Notice(rows[q])]
    BY <1>1 DEF Notices
  <2> QED BY <2>1 DEF Notices
<1>5. Runs' = Runs
  BY DEF Runs
<1> QED BY <1>2, <1>3, <1>4, <1>5

(* What a row that is stored shows: its proposal decided, its result       *)
(* recorded, its notice posted or dropped, or nothing.                     *)
LEMMA ShownByWrite ==
  ASSUME NEW c, NEW r \in Row, NEW s \in Row, RowAgrees(r), Writes(c, r, s)
  PROVE  \/ /\ r.decision = "pending" /\ s.decision \in {"approved", "rejected", "expired"}
            /\ Result(s) = Result(r)
            /\ Notice(s) = IF s.decision = "approved" THEN Notice(r) ELSE "due"
         \/ /\ s.decision = r.decision /\ s.work \in Settled /\ Result(r) = "none"
            /\ Result(s) = s.work /\ Notice(s) = "due"
         \/ /\ s.decision = r.decision /\ Result(s) = Result(r)
            /\ Notice(r) = "due" /\ Notice(s) \in {"admitted", "discarded"}
         \/ /\ s.decision = r.decision /\ Result(s) = Result(r) /\ Notice(s) = Notice(r)
<1>1. /\ RowAgrees(s) /\ Keeps(r, s) /\ r.decision # "absent" /\ s.decision # "absent"
      /\ s.decision \in {"pending", "superseded"} => r.decision = s.decision
      /\ s.work \in Settled /\ r.work \notin Settled => r.decision = "approved"
      /\ r.delivery = "none" => s.delivery \in {"none", "pending"}
  BY DEF Writes
<1>2. /\ r.decision \in Decisions /\ s.decision \in Decisions /\ r.work \in Works
      /\ s.work \in Works /\ r.delivery \in Deliveries /\ s.delivery \in Deliveries
  BY DEF Row
<1>3. CASE s.decision # r.decision
  <2>1. r.decision = "pending" /\ s.decision \in {"approved", "rejected", "expired"}
    BY <1>1, <1>2, <1>3 DEF Keeps, Decisions, Refused
  <2>2. r.work = "none" /\ r.outcome = "none" /\ r.delivery = "none"
    BY <1>2, <2>1 DEF RowAgrees, Settled, Refused
  <2>3. s.work \notin Settled
    BY <1>1, <2>1, <2>2 DEF Settled
  <2>4. s.outcome = IF s.decision = "approved" THEN "none" ELSE s.decision
    BY <1>1, <2>1, <2>3 DEF RowAgrees, Refused
  <2>5. s.delivery = IF s.decision = "approved" THEN "none" ELSE "pending"
    BY <1>1, <2>1, <2>2, <2>4 DEF RowAgrees
  <2> QED BY <2>1, <2>2, <2>3, <2>5 DEF Result, Notice, Settled
<1>4. CASE s.decision = r.decision /\ s.work \in Settled /\ r.work \notin Settled
  <2>1. r.decision = "approved"
    BY <1>1, <1>4
  <2>2. r.outcome = "none" /\ r.delivery = "none"
    BY <1>4, <2>1 DEF RowAgrees, Refused
  <2>3. s.delivery = "pending"
    BY <1>1, <1>4, <2>2 DEF RowAgrees, Settled
  <2> QED BY <1>4, <2>3 DEF Result, Notice
<1>5. CASE s.decision = r.decision /\ ~(s.work \in Settled /\ r.work \notin Settled)
  <2>1. Result(s) = Result(r) /\ s.outcome = r.outcome
    <3>1. CASE r.work \in Settled
      <4>1. r.outcome # "none"
        BY <3>1 DEF RowAgrees, Settled
      <4> QED BY <1>1, <4>1 DEF Keeps, Result
    <3>2. CASE r.work \notin Settled
      BY <1>1, <1>5, <3>2 DEF RowAgrees, Result
    <3> QED BY <3>1, <3>2
  <2>2. s.delivery # "none" <=> r.delivery # "none"
    BY <1>1, <2>1 DEF RowAgrees
  <2>3. r.delivery \in {"admitted", "discarded"} => s.delivery = r.delivery
    BY <1>1 DEF Keeps
  <2>4. \/ s.delivery = r.delivery
        \/ r.delivery = "pending" /\ s.delivery \in {"admitted", "discarded"}
    BY <1>2, <2>2, <2>3 DEF Deliveries
  <2> QED BY <1>5, <2>1, <2>4 DEF Notice
<1> QED BY <1>3, <1>4, <1>5

(* An UPDATE that stores its row is one step of the lifecycle, or none.    *)
LEMMA UpdateShows ==
  ASSUME StoreInv, NEW c \in Calls, ~c.done, rows' = RowsAfter(c), effects' = effects
  PROVE  [Lifecycle!Next]_(Lifecycle!lifecycle)
<1> DEFINE p == c.p
           r == rows[p]
           s == c.next
<1>1. /\ c \in Call /\ CallFormed(c) /\ Sound(c, rows, effects) /\ rows \in [Proposals -> Row]
      /\ RowsSound
  BY CallsFormed DEF StoreInv, CallsSound, TypeInv, StoreOK
<1>2. CASE ~Current(c)
  <2>1. rows' = rows
    BY <1>2 DEF RowsAfter
  <2> QED BY <2>1 DEF Lifecycle!lifecycle, Fates, Results, Notices, Runs
<1>3. CASE Current(c)
  <2>1. p \in Proposals /\ rows' = [rows EXCEPT ![p] = s] /\ Writes(c, r, s)
    BY <1>1, <1>3, Stored DEF RowsAfter
  <2>2. r \in Row /\ s \in Row /\ RowAgrees(r)
    BY <1>1, <2>1 DEF Call, RowsSound, RowSound
  <2>3. /\ Fates' = [Fates EXCEPT ![p] = s.decision] /\ Results' = [Results EXCEPT ![p] = Result(s)]
        /\ Notices' = [Notices EXCEPT ![p] = Notice(s)] /\ Runs' = Runs
    BY <1>1, <2>1, Seen
  <2>4. /\ Fates[p] = r.decision /\ Results[p] = Result(r) /\ Notices[p] = Notice(r)
        /\ Fates = [Fates EXCEPT ![p] = r.decision]
        /\ Results = [Results EXCEPT ![p] = Result(r)]
        /\ Notices = [Notices EXCEPT ![p] = Notice(r)]
    BY <2>1 DEF Fates, Results, Notices
  <2>5. s.work \in Settled => s.work \in Runs[p]
    <3>1. RowSound(p, RowsAfter(c)[p], effects)
      BY <1>1, <2>1, UpdateRows
    <3>2. s.work \in Settled => Returned(p, s.gen, s.work) \in effects
      BY <1>1, <2>1, <3>1 DEF RowSound
    <3>3. Returned(p, s.gen, s.work).p = p /\ Returned(p, s.gen, s.work).result = s.work
      BY DEF Returned
    <3> QED BY <2>1, <3>2, <3>3 DEF Runs
  <2> HIDE DEF p, r, s
  <2>6. CASE /\ r.decision = "pending" /\ s.decision \in {"approved", "rejected", "expired"}
             /\ Result(s) = Result(r)
             /\ Notice(s) = IF s.decision = "approved" THEN Notice(r) ELSE "due"
    <3>1. Lifecycle!Decide(p)
      BY <2>3, <2>4, <2>6 DEF Lifecycle!Decide
    <3> QED BY <2>1, <3>1 DEF Lifecycle!Next
  <2>7. CASE /\ s.decision = r.decision /\ s.work \in Settled /\ Result(r) = "none"
             /\ Result(s) = s.work /\ Notice(s) = "due"
    <3>1. Lifecycle!Record(p)
      BY <2>3, <2>4, <2>5, <2>7 DEF Lifecycle!Record
    <3> QED BY <2>1, <3>1 DEF Lifecycle!Next
  <2>8. CASE /\ s.decision = r.decision /\ Result(s) = Result(r)
             /\ Notice(r) = "due" /\ Notice(s) \in {"admitted", "discarded"}
    <3>1. Lifecycle!Notify(p)
      BY <2>3, <2>4, <2>8 DEF Lifecycle!Notify
    <3> QED BY <2>1, <3>1 DEF Lifecycle!Next
  <2>9. CASE s.decision = r.decision /\ Result(s) = Result(r) /\ Notice(s) = Notice(r)
    BY <2>3, <2>4, <2>9 DEF Lifecycle!lifecycle
  <2> QED BY <2>1, <2>2, <2>6, <2>7, <2>8, <2>9, ShownByWrite
<1> QED BY <1>2, <1>3

(* A creation that inserts its row is a proposal of the lifecycle; one     *)
(* that finds it there is no step of it.                                   *)
LEMMA CreationShows ==
  ASSUME StoreInv, NEW p \in Proposals, CreateActionProposal(p)
  PROVE  [Lifecycle!Next]_(Lifecycle!lifecycle)
<1>1. rows \in [Proposals -> Row] /\ clock \in Nat /\ RowsSound /\ effects' = effects
  BY DEF StoreInv, TypeInv, StoreOK, CreateActionProposal
<1>2. CASE rows' = rows
  BY <1>1, <1>2 DEF Lifecycle!lifecycle, Fates, Results, Notices, Runs
<1>3. CASE rows[p].decision = "absent" /\ \A q \in Proposals : Creates(p, q)
  <2> DEFINE gone == Siblings(p)
             how  == [q \in gone |-> Superseded(q, p).decision]
  <2>1. rows[p] = AbsentRow /\ p \notin gone /\ gone \subseteq Proposals
    BY <1>1, <1>3 DEF RowsSound, RowSound, Siblings
  <2>2. rows'[p] = InitialActionProposal(deadline[p])
    BY <1>3, <2>1 DEF Creates
  <2>3. /\ rows'[p].decision = "pending"
        /\ Result(rows'[p]) = Result(rows[p]) /\ Notice(rows'[p]) = Notice(rows[p])
    BY <2>1, <2>2 DEF InitialActionProposal, AbsentRow, Result, Notice
  <2>4. ASSUME NEW q \in gone
        PROVE  /\ rows[q].decision = "pending" /\ how[q] \in {"superseded", "expired"}
               /\ rows'[q].decision = how[q]
               /\ Result(rows'[q]) = Result(rows[q]) /\ Notice(rows'[q]) = "due"
    <3>1. q \in Proposals /\ q # p /\ rows[q].decision = "pending"
      BY <2>4 DEF Siblings
    <3>2. rows'[q] = Superseded(q, p)
      BY <1>3, <2>4, <3>1 DEF Creates
    <3>3. /\ Superseded(q, p).decision \in {"expired", "superseded"}
          /\ Superseded(q, p).delivery = "pending"
          /\ RowSound(q, Superseded(q, p), effects)
      BY <1>1, <2>4, SupersededRow
    <3>4. rows[q].work \notin Settled /\ Superseded(q, p).work \notin Settled
      BY <1>1, <3>1, <3>3 DEF RowsSound, RowSound, RowAgrees, Settled
    <3> QED BY <3>1, <3>2, <3>3, <3>4 DEF Result, Notice
  <2>5. \A q \in Proposals \ (gone \cup {p}) : rows'[q] = rows[q]
    BY <1>3 DEF Creates
  <2>6. gone \in SUBSET {q \in Proposals : Fates[q] = "pending"}
    BY <2>1, <2>4 DEF Fates
  <2>7. how \in [gone -> {"superseded", "expired"}]
    BY <2>4
  <2> HIDE DEF gone, how
  <2>8. Fates' = [q \in Proposals |-> IF q = p THEN "pending"
                                      ELSE IF q \in gone THEN how[q] ELSE Fates[q]]
    BY <2>3, <2>4, <2>5 DEF Fates
  <2>9. Notices' = [q \in Proposals |-> IF q \in gone THEN "due" ELSE Notices[q]]
    <3>1. \A q \in Proposals : Notice(rows'[q]) = IF q \in gone THEN "due" ELSE Notice(rows[q])
      BY <2>1, <2>3, <2>4, <2>5
    <3> QED BY <3>1 DEF Notices
  <2>10. Results' = Results /\ Runs' = Runs
    <3>1. \A q \in Proposals : Result(rows'[q]) = Result(rows[q])
      BY <2>3, <2>4, <2>5
    <3> QED BY <1>1, <3>1 DEF Results, Runs
  <2>11. Fates[p] = "absent"
    BY <1>3 DEF Fates
  <2>12. Lifecycle!Propose(p)
    BY <2>6, <2>7, <2>8, <2>9, <2>10, <2>11 DEF Lifecycle!Propose
  <2> QED BY <2>12 DEF Lifecycle!Next
<1> QED BY <1>2, <1>3, CreateShape

(* A tool returns for an approved proposal only: it is one of its runs.    *)
LEMMA ReturnShows ==
  ASSUME TypeInv, RunsOnlyApproved, NEW j \in jobs, NEW result \in Settled,
         ToolReturns(j, result), rows' = rows
  PROVE  [Lifecycle!Next]_(Lifecycle!lifecycle)
<1> DEFINE p == j.p
           e == [p |-> p, gen |-> j.gen, result |-> result]
<1>1. p \in Proposals /\ Fates[p] = "approved"
  BY DEF TypeInv, JobsOK, JobOK, Job, RunsOnlyApproved, Fates
<1>2. effects' = effects \cup {e} /\ e.p = p /\ e.result = result
  BY DEF ToolReturns
<1> HIDE DEF p, e
<1>3. ASSUME NEW q \in Proposals
      PROVE  {x.result : x \in {y \in effects' : y.p = q}}
               = IF q = p THEN {x.result : x \in {y \in effects : y.p = q}} \cup {result}
                 ELSE {x.result : x \in {y \in effects : y.p = q}}
  <2>1. CASE q = p
    <3>1. {y \in effects' : y.p = q} = {y \in effects : y.p = q} \cup {e}
      BY <1>2, <2>1
    <3> QED BY <1>2, <2>1, <3>1
  <2>2. CASE q # p
    <3>1. {y \in effects' : y.p = q} = {y \in effects : y.p = q}
      BY <1>2, <2>2
    <3> QED BY <2>2, <3>1
  <2> QED BY <2>1, <2>2
<1>4. Runs' = [Runs EXCEPT ![p] = @ \cup {result}]
  BY <1>1, <1>3 DEF Runs
<1>5. UNCHANGED <<Fates, Results, Notices>>
  BY DEF Fates, Results, Notices
<1>6. Lifecycle!Run(p)
  BY <1>1, <1>4, <1>5 DEF Lifecycle!Run, Lifecycle!Results, Settled
<1> QED BY <1>1, <1>6 DEF Lifecycle!Next

(* The store, its workers and their callers implement the lifecycle: lost  *)
(* updates, recovered leases, retries and crashes never show as a second   *)
(* decision, a second result or a second notice (ImplementsLifecycle).     *)
THEOREM LifecycleImplemented == Spec => ImplementsLifecycle
<1>1. Init => Lifecycle!Init
  BY DEF Init, Lifecycle!Init, Fates, Runs, Results, Notices, AbsentRow, Result, Notice, Settled
<1>2. StoreInv /\ RunsOnlyApproved /\ [Next]_vars => [Lifecycle!Next]_(Lifecycle!lifecycle)
  <2> SUFFICES ASSUME StoreInv, RunsOnlyApproved, [Next]_vars
               PROVE  [Lifecycle!Next]_(Lifecycle!lifecycle)
    OBVIOUS
  <2>1. CASE \E j \in jobs, result \in Settled : ToolReturns(j, result) /\ rows' = rows
    BY <2>1, ReturnShows DEF StoreInv
  <2>2. CASE effects' = effects
    <3>1. CASE rows' = rows
      BY <2>2, <3>1 DEF Lifecycle!lifecycle, Fates, Results, Notices, Runs
    <3>2. CASE \E c \in Calls : ~c.done /\ rows' = RowsAfter(c)
      BY <2>2, <3>2, UpdateShows
    <3>3. CASE \E p \in Proposals : CreateActionProposal(p)
      BY <3>3, CreationShows
    <3> QED BY <3>1, <3>2, <3>3, RowsMove
  <2> QED BY <2>1, <2>2, EffectsGrow
<1> QED BY <1>1, <1>2, StoreSound, OnlyApprovedRun, PTL DEF Spec, ImplementsLifecycle, Lifecycle!Spec
=============================================================================
