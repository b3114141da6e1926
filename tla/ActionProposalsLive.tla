------------------------- MODULE ActionProposalsLive -------------------------
(***************************************************************************)
(* ActionProposals with no bound on time, for liveness.  The clock stays   *)
(* at 1 and one unit of time brings every stored instant one nearer: an    *)
(* instant of 1 has passed, 0 is still the null deadline.  The program     *)
(* only compares instants with the clock, so this is the same system.      *)
(* Time passes when no store call is outstanding and every renewal that is *)
(* due has happened: a store call is short against a lease and the timer   *)
(* fires three times in each.  Then nobody remembers a row version or the  *)
(* generation of a lapsed delivery lease, and both restart at 0, which     *)
(* keeps the state space finite.                                           *)
(***************************************************************************)
EXTENDS MCActionProposals

Nearer(t) == IF t > 1 THEN t - 1 ELSE t

Later(row) ==
  LET lapses == row.dholder # None /\ Nearer(row.duntil) = 1
  IN  [row EXCEPT !.expiresAt = Nearer(@), !.until = Nearer(@), !.version = 0,
                  !.duntil    = Nearer(@),
                  !.dgen      = IF lapses THEN 0 ELSE @]

Renewed(j) ==
  j.timer /\ Fenced(j) /\ rows[j.p].gen = j.gen => rows[j.p].until > 2

TimePasses ==
  /\ \A d \in Deciders : decider[d].done
  /\ \A w \in Workers : loop[w].call = Idle
  /\ \A j \in jobs : j.call.done /\ j.pc = "run" /\ Renewed(j)
  /\ deadline' = [p \in Proposals |-> Nearer(deadline[p])]
  /\ rows' = [p \in Proposals |-> Later(rows[p])]
  /\ UNCHANGED <<clock, thread, posted, decider, loop, jobs, effects, faults>>

LiveInit ==
  /\ clock = 1 /\ faults = 0 /\ jobs = {} /\ effects = {}
  /\ deadline = [p \in Proposals |-> -1]
  /\ rows     = [p \in Proposals |-> AbsentRow]
  /\ posted   = [p \in Proposals |-> 0]
  /\ thread   = [active |-> FALSE, deleted |-> FALSE, lock |-> None]
  /\ decider  = [d \in Deciders |-> Idle]
  /\ loop     = [w \in Workers |-> Asleep]

Steps == Producer \/ Decision \/ Worker \/ Execution \/ Turn \/ SoftDeleteThread

\* A tick that is running goes on, and the next one starts.
TickStep(w) ==
  \/ StartTick(w) \/ ExpireEnd(w) \/ SelectWork(w) \/ ClaimWon(w) \/ ClaimNone(w)
  \/ AwaitEnd(w) \/ SelectOutcomes(w) \/ PullNone(w) \/ AdmitRead(w) \/ AdmitCommit(w)
  \/ WorkerUpdate(w)
  \/ \E p \in Proposals : ExpireNext(w, p) \/ ClaimNext(w, p) \/ PullNext(w, p)

\* An execution goes on, renews its lease in time, and its tool returns.
JobStep(w) ==
  \E j \in jobs : j.w = w /\ (JobUpdate(j) \/ SettleActionProposal(j) \/ JobEnd(j))
RenewStep(w) == \E j \in jobs : j.w = w /\ Renew(j) /\ j.call.done /\ ~Renewed(j)
ToolStep(w)  == \E j \in jobs, r \in Settled : j.w = w /\ ToolReturns(j, r)

Fairness ==
  /\ \A w \in Workers :
       /\ WF_vars(TickStep(w)) /\ WF_vars(JobStep(w))
       /\ WF_vars(RenewStep(w)) /\ WF_vars(ToolStep(w))
  /\ \A d \in Deciders : WF_vars(DeciderUpdate(d))
  /\ SF_vars(TimePasses)

LiveSpec == LiveInit /\ [][Steps \/ TimePasses]_vars /\ Fairness

(* An approved action is executed and settled, whichever workers crash and *)
(* whichever store calls throw on the way (at most MaxFaults of them).     *)
ApprovedSettles ==
  \A p \in Proposals : rows[p].decision = "approved" ~> rows[p].work \in Settled

(* A pending proposal whose deadline passed leaves `pending`.              *)
DueExpires ==
  \A p \in Proposals :
    (rows[p].decision = "pending" /\ Due(rows[p], clock)) ~> rows[p].decision # "pending"

(* An outcome reaches the thread or is discarded, once turns leave the     *)
(* thread alone: admission waits while a turn holds it.                    *)
OutcomeDelivered ==
  <>[](~thread.active) =>
    \A p \in Proposals :
      rows[p].outcome # "none" ~> rows[p].delivery \in {"admitted", "discarded"}
=============================================================================
