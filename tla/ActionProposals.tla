--------------------------- MODULE ActionProposals ---------------------------
(***************************************************************************)
(* Independent approvals: runs create proposals, people decide them, and   *)
(* the workers of several processes expire, execute and deliver them       *)
(* through one store.  Every write of a proposal row is the store's        *)
(* `mutate`: read the row, compute its successor with the clock of that    *)
(* moment, then UPDATE ... WHERE version, and read again when another      *)
(* writer came first.  The read and the UPDATE are steps of their own, so  *)
(* anything may happen between them.  Only the two transactions of the     *)
(* store (a replacing creation, an admission) lock the thread row.         *)
(***************************************************************************)
EXTENDS ActionProposalTransitions, FiniteSets

CONSTANTS Deciders,        \* concurrent callers of the decision routes
          Choices,         \* what they may choose
          Ttl,             \* [Proposals -> approval lifetime], 0: no deadline
          MaxAttempts,     \* rounds of the store's read / compare-and-set loop
          MaxConcurrency,  \* actionProposalWorker.maxConcurrency
          OutcomeBatch,    \* outcomes one tick tries to deliver
          MaxTime,         \* bound: the clock stops here
          MaxFaults,       \* bound: crashes and store errors together
          Environment      \* which of "turn", "delete", "stop" happen

ASSUME BoundAssumption ==
  /\ MaxAttempts \in Nat \ {0} /\ MaxConcurrency \in Nat \ {0}
  /\ OutcomeBatch \in Nat /\ MaxTime \in Nat /\ MaxFaults \in Nat
  /\ Ttl \in [Proposals -> Nat]
  /\ Choices \subseteq {"approved", "rejected"}
  /\ Environment \subseteq {"turn", "delete", "stop"}

VARIABLES
  clock,      \* the server clock
  deadline,   \* [Proposals -> expiresAt the run journaled], -1: not asked yet
  rows,       \* the proposal table
  thread,     \* the row of the thread every proposal belongs to
  posted,     \* [Proposals -> outcome messages in the thread]
  decider,    \* [Deciders -> its current store call]
  loop,       \* [Workers -> the state of its tick]
  jobs,       \* executions in flight, one record each
  effects,    \* history: what the executor returned, per claim
  faults      \* crashes and store errors so far

store == <<deadline, rows, thread, posted>>
vars  == <<clock, store, decider, loop, jobs, effects, faults>>

-----------------------------------------------------------------------------
(* One call of the store.  While ~done its UPDATE is outstanding: `next`   *)
(* is the row computed at the read, one version ahead of the row read.     *)

Ops   == Commands \cup Settled \cup {"none", "claim", "extend", "pull", "admit"}
Call  == [op : Ops, p : Proposals \cup {None}, who : Workers \cup {None}, gen : Nat,
          tries : Nat, done : BOOLEAN, status : Statuses \cup {"none", "error"}, next : Row]

Idle == [op |-> "none", p |-> None, who |-> None, gen |-> 0,
         tries |-> 0, done |-> TRUE, status |-> "none", next |-> AbsentRow]

Request(op, p, who, gen) == [Idle EXCEPT !.op = op, !.p = p, !.who = who, !.gen = gen]

Transition(c, row) ==
  CASE c.op \in Commands -> Decide(row, c.op, clock)
    [] c.op = "claim"    -> Claim(row, c.who, clock)
    [] c.op = "extend"   -> Extend(row, c.who, c.gen, clock)
    [] c.op \in Settled  -> Settle(row, c.who, c.gen, c.op, clock)
    [] c.op = "pull"     -> ClaimOutcome(row, c.who, clock)

\* The read of `mutate`: an answer that changes nothing needs no UPDATE.
Read(c) ==
  LET answer == Transition(c, rows[c.p])
  IN  IF answer.row = rows[c.p]
      THEN [c EXCEPT !.done = TRUE, !.status = answer.status, !.next = AbsentRow]
      ELSE [c EXCEPT !.done = FALSE, !.status = answer.status,
                     !.next = [answer.row EXCEPT !.version = @ + 1]]

\* Fault: the UPDATE has no WHERE version.
CurrentAlways(c) == TRUE

Current(c) == rows[c.p].version + 1 = c.next.version

\* The UPDATE ... WHERE version = ...: rows after it, and the call after it.
RowsAfter(c) == IF Current(c) THEN [rows EXCEPT ![c.p] = c.next] ELSE rows

CallAfter(c) ==
  IF Current(c)
  THEN [c EXCEPT !.done = TRUE, !.next = AbsentRow,
                 !.gen = IF c.op = "pull" THEN c.next.dgen ELSE c.next.gen]
  ELSE IF c.tries + 1 < MaxAttempts
  THEN Read([c EXCEPT !.tries = @ + 1])
  ELSE [c EXCEPT !.done = TRUE, !.status = "conflict", !.next = AbsentRow]

-----------------------------------------------------------------------------
(* The runs: a run resolves the approval of a call once, journals the      *)
(* deadline, and creates the proposal; a durable replay creates it again.  *)

ResolveActionProposalApproval(p) ==
  /\ deadline[p] = -1
  /\ deadline' = [deadline EXCEPT ![p] = IF Ttl[p] = 0 THEN 0 ELSE clock + Ttl[p]]
  /\ UNCHANGED <<clock, rows, thread, posted, decider, loop, jobs, effects, faults>>

Siblings(p) ==
  {q \in Proposals \ {p} : /\ rows[q].decision = "pending"
                           /\ Group[q] = Group[p] /\ Group[q] # NoGroup}

Superseded(q, p) ==
  LET answer == Supersede(rows[q], q, p, clock)
  IN  IF answer.row = rows[q] THEN rows[q] ELSE [answer.row EXCEPT !.version = @ + 1]

\* Fault: the replay of a creation supersedes again.
CreateAgain(p) ==
  /\ deadline[p] # -1
  /\ Group[p] # NoGroup => thread.lock = None /\ ~thread.deleted
  /\ rows' = [q \in Proposals |->
                IF q = p /\ rows[p].decision = "absent" THEN InitialActionProposal(deadline[p])
                ELSE IF q \in Siblings(p) THEN Superseded(q, p) ELSE rows[q]]
  /\ UNCHANGED <<clock, deadline, thread, posted, decider, loop, jobs, effects, faults>>

\* A row that exists is answered `unchanged` and supersedes nobody.
CreateActionProposal(p) ==
  /\ deadline[p] # -1
  /\ Group[p] # NoGroup => thread.lock = None /\ ~thread.deleted
  /\ rows' = IF rows[p].decision # "absent" THEN rows
             ELSE [q \in Proposals |->
                     IF q = p THEN InitialActionProposal(deadline[p])
                     ELSE IF q \in Siblings(p) THEN Superseded(q, p) ELSE rows[q]]
  /\ UNCHANGED <<clock, deadline, thread, posted, decider, loop, jobs, effects, faults>>

-----------------------------------------------------------------------------
(* The decision routes.                                                    *)

DecideActionProposal(d, p, command) ==
  /\ decider[d].done
  /\ ~thread.deleted /\ rows[p].decision # "absent"
  /\ decider' = [decider EXCEPT ![d] = Read(Request(command, p, None, 0))]
  /\ UNCHANGED <<clock, store, loop, jobs, effects, faults>>

DeciderUpdate(d) ==
  /\ ~decider[d].done
  /\ rows' = RowsAfter(decider[d])
  /\ decider' = [decider EXCEPT ![d] = CallAfter(decider[d])]
  /\ UNCHANGED <<clock, deadline, thread, posted, loop, jobs, effects, faults>>

-----------------------------------------------------------------------------
(* The worker's tick: expire, claim up to MaxConcurrency and run them,     *)
(* wait for them, then deliver outcomes.                                   *)

Phases == {"idle", "expire", "select", "claim", "await", "pull", "outcome", "admit"}
Loop   == [pc : Phases, scan : SUBSET Proposals, count : Nat, call : Call, stopped : BOOLEAN]

Asleep == [pc |-> "idle", scan |-> {}, count |-> 0, call |-> Idle, stopped |-> FALSE]

Job == [w : Workers, p : Proposals, gen : Nat, pc : {"run", "returned", "settle"},
        result : Settled \cup {"none"}, timer : BOOLEAN, awaited : BOOLEAN, call : Call]

Awaited(w) == {j \in jobs : j.w = w /\ j.awaited}

GoTo(w, pc, count) ==
  loop' = [loop EXCEPT ![w].pc = pc, ![w].count = count, ![w].scan = {}, ![w].call = Idle]

Issue(w, p, op) ==
  loop' = [loop EXCEPT ![w].scan = @ \ {p}, ![w].call = Read(Request(op, p, w, 0))]

Quiet(w, pc) == loop[w].pc = pc /\ loop[w].call.done

Won(w) == loop[w].call.status = "applied"

StartTick(w) ==
  /\ loop[w].pc = "idle" /\ ~loop[w].stopped
  /\ loop' = [loop EXCEPT ![w].pc = "expire",
                          ![w].scan = {p \in Proposals : /\ rows[p].decision = "pending"
                                                         /\ Due(rows[p], clock)}]
  /\ UNCHANGED <<clock, store, decider, jobs, effects, faults>>

ExpireNext(w, p) ==
  /\ Quiet(w, "expire") /\ p \in loop[w].scan
  /\ Issue(w, p, "expired")
  /\ UNCHANGED <<clock, store, decider, jobs, effects, faults>>

ExpireEnd(w) ==
  /\ Quiet(w, "expire") /\ loop[w].scan = {}
  /\ GoTo(w, "select", 0)
  /\ UNCHANGED <<clock, store, decider, jobs, effects, faults>>

\* The SELECT of claimNextActionProposal, or the end of the claiming loop.
SelectWork(w) ==
  /\ loop[w].pc = "select"
  /\ IF loop[w].count < MaxConcurrency /\ ~loop[w].stopped
     THEN loop' = [loop EXCEPT ![w].pc = "claim",
                               ![w].scan = {p \in Proposals : Claimable(rows[p], clock)}]
     ELSE GoTo(w, "await", 0)
  /\ UNCHANGED <<clock, store, decider, jobs, effects, faults>>

ClaimNext(w, p) ==
  /\ Quiet(w, "claim") /\ ~Won(w) /\ p \in loop[w].scan
  /\ Issue(w, p, "claim")
  /\ UNCHANGED <<clock, store, decider, jobs, effects, faults>>

ClaimWon(w) ==
  /\ Quiet(w, "claim") /\ Won(w)
  /\ jobs' = jobs \cup {[w |-> w, p |-> loop[w].call.p, gen |-> loop[w].call.gen,
                         pc |-> "run", result |-> "none", timer |-> TRUE,
                         awaited |-> TRUE, call |-> Idle]}
  /\ GoTo(w, "select", loop[w].count + 1)
  /\ UNCHANGED <<clock, store, decider, effects, faults>>

ClaimNone(w) ==
  /\ Quiet(w, "claim") /\ ~Won(w) /\ loop[w].scan = {}
  /\ GoTo(w, "await", 0)
  /\ UNCHANGED <<clock, store, decider, jobs, effects, faults>>

AwaitEnd(w) ==
  /\ loop[w].pc = "await" /\ Awaited(w) = {}
  /\ GoTo(w, "pull", 0)
  /\ UNCHANGED <<clock, store, decider, jobs, effects, faults>>

\* The SELECT of claimNextActionProposalOutcome, or the end of the tick.
SelectOutcomes(w) ==
  /\ loop[w].pc = "pull"
  /\ IF loop[w].count < OutcomeBatch /\ ~loop[w].stopped
     THEN loop' = [loop EXCEPT ![w].pc = "outcome",
                               ![w].scan = {p \in Proposals : Deliverable(rows[p], clock)}]
     ELSE GoTo(w, "idle", 0)
  /\ UNCHANGED <<clock, store, decider, jobs, effects, faults>>

PullNext(w, p) ==
  /\ Quiet(w, "outcome") /\ ~Won(w) /\ p \in loop[w].scan
  /\ Issue(w, p, "pull")
  /\ UNCHANGED <<clock, store, decider, jobs, effects, faults>>

PullNone(w) ==
  /\ Quiet(w, "outcome") /\ ~Won(w) /\ loop[w].scan = {}
  /\ GoTo(w, "idle", 0)
  /\ UNCHANGED <<clock, store, decider, jobs, effects, faults>>

\* The transaction's reads, under the lock of the thread row.
AdmitRead(w) ==
  LET c   == loop[w].call
      row == rows[c.p]
  IN  /\ Quiet(w, "outcome") /\ Won(w)
      /\ thread.lock = None
      /\ IF \/ ~OutcomeFenceValid(row, w, c.gen, clock)
            \/ ~thread.deleted /\ thread.active
         THEN GoTo(w, "pull", loop[w].count + 1) /\ UNCHANGED thread
         ELSE /\ loop' = [loop EXCEPT
                   ![w].pc = "admit", ![w].scan = {},
                   ![w].call = [c EXCEPT !.op = "admit", !.done = FALSE,
                      !.next = [row EXCEPT
                         !.delivery = IF thread.deleted THEN "discarded" ELSE "admitted",
                         !.dholder = None, !.duntil = 0, !.version = @ + 1]]]
              /\ thread' = [thread EXCEPT !.lock = w]
      /\ UNCHANGED <<clock, deadline, rows, posted, decider, jobs, effects, faults>>

\* Its commit, or the throw and the rollback when the version moved.
AdmitCommit(w) ==
  LET c == loop[w].call
  IN  /\ loop[w].pc = "admit"
      /\ rows' = RowsAfter(c)
      /\ posted' = IF Current(c) /\ c.next.delivery = "admitted"
                   THEN [posted EXCEPT ![c.p] = @ + 1] ELSE posted
      /\ GoTo(w, IF Current(c) THEN "pull" ELSE "idle", loop[w].count + 1)
      /\ thread' = [thread EXCEPT !.lock = None]
      /\ UNCHANGED <<clock, deadline, decider, jobs, effects, faults>>

WorkerUpdate(w) ==
  /\ loop[w].pc # "admit" /\ ~loop[w].call.done
  /\ rows' = RowsAfter(loop[w].call)
  /\ loop' = [loop EXCEPT ![w].call = CallAfter(@)]
  /\ UNCHANGED <<clock, deadline, thread, posted, decider, jobs, effects, faults>>

\* stop(): no new tick, and the renewal timers of the running jobs are cleared.
Stop(w) ==
  /\ "stop" \in Environment /\ ~loop[w].stopped
  /\ loop' = [loop EXCEPT ![w].stopped = TRUE]
  /\ jobs' = {IF j.w = w THEN [j EXCEPT !.timer = FALSE] ELSE j : j \in jobs}
  /\ UNCHANGED <<clock, store, decider, effects, faults>>

-----------------------------------------------------------------------------
(* One execution: the tool runs while a timer renews the lease; what it    *)
(* returned is settled only if no renewal was refused.                     *)

Becomes(j, k) == jobs' = (jobs \ {j}) \cup {k}

Fenced(j) == j.call.status \in {"none", "applied"}

Renew(j) ==
  /\ j.pc = "run" /\ j.timer /\ j.call.done /\ Fenced(j)
  /\ Becomes(j, [j EXCEPT !.call = Read(Request("extend", j.p, j.w, j.gen))])
  /\ UNCHANGED <<clock, store, decider, loop, effects, faults>>

JobUpdate(j) ==
  /\ ~j.call.done
  /\ rows' = RowsAfter(j.call)
  /\ Becomes(j, [j EXCEPT !.call = CallAfter(@)])
  /\ UNCHANGED <<clock, deadline, thread, posted, decider, loop, effects, faults>>

ToolReturns(j, result) ==
  /\ j.pc = "run"
  /\ Becomes(j, [j EXCEPT !.pc = "returned", !.result = result, !.timer = FALSE])
  /\ effects' = effects \cup {[p |-> j.p, gen |-> j.gen, result |-> result]}
  /\ UNCHANGED <<clock, store, decider, loop, faults>>

SettleActionProposal(j) ==
  /\ j.pc = "returned" /\ j.call.done /\ Fenced(j)
  /\ Becomes(j, [j EXCEPT !.pc = "settle",
                          !.call = Read(Request(j.result, j.p, j.w, j.gen))])
  /\ UNCHANGED <<clock, store, decider, loop, effects, faults>>

JobEnd(j) ==
  /\ j.call.done
  /\ j.pc = "settle" \/ (j.pc = "returned" /\ ~Fenced(j))
  /\ jobs' = jobs \ {j}
  /\ UNCHANGED <<clock, store, decider, loop, effects, faults>>

-----------------------------------------------------------------------------
(* Faults: a store call that throws, and a process that dies.              *)

Fault == faults < MaxFaults /\ faults' = faults + 1

Abandoned(w) == {IF j.w = w THEN [j EXCEPT !.awaited = FALSE] ELSE j : j \in jobs}

\* A call of the tick throws: runOnce rejects, nobody waits for its jobs.
TickThrows(w) ==
  /\ Fault /\ loop[w].pc # "idle" /\ loop[w].pc # "await"
  /\ GoTo(w, "idle", 0)
  /\ jobs' = Abandoned(w)
  /\ thread' = IF thread.lock = w THEN [thread EXCEPT !.lock = None] ELSE thread
  /\ UNCHANGED <<clock, deadline, rows, posted, decider, effects>>

RenewThrows(j) ==
  /\ Fault /\ j.call.op = "extend" /\ ~j.call.done
  /\ Becomes(j, [j EXCEPT !.call = [Idle EXCEPT !.status = "error"]])
  /\ UNCHANGED <<clock, store, decider, loop, effects>>

\* The first rejection fails Promise.all and with it the tick.
SettleThrows(j) ==
  /\ Fault /\ j.pc = "settle" /\ ~j.call.done
  /\ j.awaited => loop[j.w].pc = "await"
  /\ IF j.awaited
     THEN GoTo(j.w, "idle", 0) /\ jobs' = Abandoned(j.w) \ {[j EXCEPT !.awaited = FALSE]}
     ELSE UNCHANGED loop /\ jobs' = jobs \ {j}
  /\ UNCHANGED <<clock, store, decider, effects>>

Crash(w) ==
  /\ Fault
  /\ loop' = [loop EXCEPT ![w] = Asleep]
  /\ jobs' = {j \in jobs : j.w # w}
  /\ thread' = IF thread.lock = w THEN [thread EXCEPT !.lock = None] ELSE thread
  /\ UNCHANGED <<clock, deadline, rows, posted, decider, effects>>

-----------------------------------------------------------------------------
(* The rest of the system, as the store sees it: time passes, a turn takes *)
(* or leaves the thread, the thread is soft-deleted.                       *)

Tick ==
  /\ clock < MaxTime
  /\ clock' = clock + 1
  /\ UNCHANGED <<store, decider, loop, jobs, effects, faults>>

Turn ==
  /\ "turn" \in Environment /\ thread.lock = None /\ ~thread.deleted
  /\ thread' = [thread EXCEPT !.active = ~@]
  /\ UNCHANGED <<clock, deadline, rows, posted, decider, loop, jobs, effects, faults>>

SoftDeleteThread ==
  /\ "delete" \in Environment /\ thread.lock = None /\ ~thread.deleted
  /\ thread' = [thread EXCEPT !.deleted = TRUE]
  /\ UNCHANGED <<clock, deadline, rows, posted, decider, loop, jobs, effects, faults>>

-----------------------------------------------------------------------------
Init ==
  /\ clock = 0 /\ faults = 0 /\ jobs = {} /\ effects = {}
  /\ deadline = [p \in Proposals |-> -1]
  /\ rows     = [p \in Proposals |-> AbsentRow]
  /\ posted   = [p \in Proposals |-> 0]
  /\ thread   = [active |-> FALSE, deleted |-> FALSE, lock |-> None]
  /\ decider  = [d \in Deciders |-> Idle]
  /\ loop     = [w \in Workers |-> Asleep]

Producer == \E p \in Proposals :
  ResolveActionProposalApproval(p) \/ CreateActionProposal(p)

Decision == \E d \in Deciders :
  \/ DeciderUpdate(d)
  \/ \E p \in Proposals, command \in Choices :
       DecideActionProposal(d, p, command)

Worker == \E w \in Workers :
  \/ StartTick(w) \/ ExpireEnd(w) \/ SelectWork(w) \/ ClaimWon(w) \/ ClaimNone(w)
  \/ AwaitEnd(w) \/ SelectOutcomes(w) \/ PullNone(w) \/ AdmitRead(w) \/ AdmitCommit(w)
  \/ WorkerUpdate(w) \/ Stop(w) \/ TickThrows(w) \/ Crash(w)
  \/ \E p \in Proposals : ExpireNext(w, p) \/ ClaimNext(w, p) \/ PullNext(w, p)

Execution == \E j \in jobs :
  \/ Renew(j) \/ JobUpdate(j) \/ SettleActionProposal(j) \/ JobEnd(j)
  \/ RenewThrows(j) \/ SettleThrows(j)
  \/ \E result \in Settled : ToolReturns(j, result)

Next == Producer \/ Decision \/ Worker \/ Execution \/ Tick \/ Turn \/ SoftDeleteThread

Spec == Init /\ [][Next]_vars
-----------------------------------------------------------------------------
TypeOK ==
  /\ clock \in Nat /\ faults \in Nat
  /\ deadline \in [Proposals -> Nat \cup {-1}]
  /\ rows \in [Proposals -> Row]
  /\ posted \in [Proposals -> Nat]
  /\ thread \in [active : BOOLEAN, deleted : BOOLEAN, lock : Workers \cup {None}]
  /\ decider \in [Deciders -> Call]
  /\ loop \in [Workers -> Loop]
  /\ jobs \subseteq Job
  /\ effects \subseteq [p : Proposals, gen : Nat, result : Settled]

(* The parts of a row agree however the writers interleaved: execution     *)
(* work exists exactly for an approved proposal, a lease exactly while it  *)
(* executes, and a terminal proposal, and no other, carries the outcome    *)
(* that names what happened to it (docs/independent-approvals.mdx).        *)
RowAgrees(row) ==
  /\ row.work # "none" <=> row.decision = "approved"
  /\ row.holder # None <=> row.work = "executing"
  /\ row.supersededBy # None <=> row.decision = "superseded"
  /\ row.outcome = IF row.work \in Settled THEN row.work
                   ELSE IF row.decision \in Refused THEN row.decision ELSE "none"
  /\ row.delivery # "none" <=> row.outcome # "none"
OutcomeIsWhatHappened == \A p \in Proposals : RowAgrees(rows[p])

(* The caller who is told `applied` is the one whose decision stands, and  *)
(* no other caller was told so: decisions are first-wins.                  *)
ToldApplied(d) == decider[d].done /\ decider[d].status = "applied"
FirstDecisionStands ==
  \A d \in Deciders : ToldApplied(d) =>
    /\ rows[decider[d].p].decision = decider[d].op
    /\ \A e \in Deciders \ {d} : ~(ToldApplied(e) /\ decider[e].p = decider[d].p)

(* A settled execution records what the tool returned to the claim that    *)
(* held the lease: a worker that lost its lease never has its result       *)
(* stored over, or instead of, its successor's.                            *)
SettledByItsHolder ==
  \A p \in Proposals : rows[p].work \in Settled =>
    [p |-> p, gen |-> rows[p].gen, result |-> rows[p].work] \in effects

(* Two executions of a proposal never share a generation, none is ahead of *)
(* the row, and the one at the row's generation belongs to its holder.     *)
ClaimsAreExclusive ==
  \A j \in jobs :
    /\ j.gen <= rows[j.p].gen
    /\ \A k \in jobs : j.p = k.p /\ j.gen = k.gen => j = k
    /\ j.gen = rows[j.p].gen /\ rows[j.p].work = "executing" => j.w = rows[j.p].holder

(* Nothing runs for a proposal that was rejected, expired or superseded,   *)
(* nor before it is approved, whatever was in flight.                      *)
RunsOnlyApproved ==
  /\ \A j \in jobs : rows[j.p].decision = "approved"
  /\ \A e \in effects : rows[e.p].decision = "approved"

(* The thread holds one message for each admitted outcome and none for any *)
(* other, across retries, recovered delivery leases and crashes.           *)
PostedOnce ==
  \A p \in Proposals : posted[p] = IF rows[p].delivery = "admitted" THEN 1 ELSE 0

(* Not true of the code (README, section 5):                               *)
(* "Proposals executed at once per process" is what the documentation says *)
(* of maxConcurrency (docs/independent-approvals.mdx).                     *)
ConcurrencyBounded ==
  \A w \in Workers : Cardinality({j \in jobs : j.w = w /\ j.pc = "run"}) <= MaxConcurrency

(* A replacement group never has two proposals waiting for a decision.     *)
OnePendingPerGroup ==
  \A p, q \in Proposals :
    /\ rows[p].decision = "pending" /\ rows[q].decision = "pending"
    /\ Group[p] = Group[q] /\ Group[p] # NoGroup
    => p = q

(* A decision, an outcome and a delivery are final, and generations only   *)
(* grow: no late writer takes a row back.                                  *)
RowsOnlyAdvance ==
  [][\A p \in Proposals :
       /\ rows[p].decision \notin {"absent", "pending"} =>
            /\ rows'[p].decision = rows[p].decision
            /\ rows'[p].supersededBy = rows[p].supersededBy
       /\ rows[p].outcome # "none" =>
            rows'[p].outcome = rows[p].outcome /\ rows'[p].work = rows[p].work
       /\ rows[p].delivery \in {"admitted", "discarded"} =>
            rows'[p].delivery = rows[p].delivery
       /\ rows'[p].gen >= rows[p].gen /\ rows'[p].dgen >= rows[p].dgen]_vars

(* Only a proposal created in the same step supersedes another: replaying  *)
(* the creation of an older proposal never displaces a newer one.          *)
ReplacedByNewcomerOnly ==
  [][\A p \in Proposals :
       rows'[p].decision = "superseded" /\ rows[p].decision # "superseded" =>
         rows[rows'[p].supersededBy].decision = "absent"]_vars
=============================================================================
