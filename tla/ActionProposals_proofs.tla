----------------------- MODULE ActionProposals_proofs -----------------------
(***************************************************************************)
(* The types and the inductive invariant of ActionProposals, for any       *)
(* number of proposals, workers, callers, faults and ticks of the clock.   *)
(* TypeOK alone is not inductive: TypeInv adds that an outstanding call    *)
(* names the proposal and the worker its operation needs.  StoreInv adds   *)
(* the store's mutate: a call that has computed a row may store it only    *)
(* while the version it read is the current one, and then the row it       *)
(* stores is a transition of the row it replaces, with nothing of another  *)
(* writer in between (Sound).                                              *)
(***************************************************************************)
EXTENDS ActionProposals, TLAPS

(* The transitions of a row keep its type, and none of them moves the      *)
(* version: only the store's writes do (action-proposal-transitions.ts).   *)
(* An outcome may be attached to a refused or settled row.                 *)
LEMMA AttachType ==
  ASSUME NEW row \in Row, row.decision \in Refused \/ row.work \in Settled
  PROVE  /\ AttachOutcome(row) \in Row
         /\ AttachOutcome(row).version = row.version
<1> DEFINE what == IF row.work \in Settled THEN row.work ELSE row.decision
<1>1. what \in Outcomes
  BY DEF Outcomes
<1>2. [row EXCEPT !.outcome = what, !.delivery = "pending"] \in Row
  BY <1>1 DEF Row, Deliveries
<1> QED BY <1>2 DEF AttachOutcome, Row

(* A refusal, the outcome it attaches included, keeps the type.            *)
LEMMA CloseType ==
  ASSUME NEW row \in Row, NEW decision \in Refused
  PROVE  /\ Close(row, decision) \in Row
         /\ Close(row, decision).version = row.version
<1> DEFINE r == [row EXCEPT !.decision = decision]
<1>1. r \in Row /\ r.decision \in Refused /\ r.version = row.version
  BY DEF Row, Decisions
<1> QED BY <1>1, AttachType DEF Close

(* Every answer of transitionActionProposalDecision is a row.              *)
LEMMA DecideType ==
  ASSUME NEW row \in Row, NEW command \in Commands, NEW now \in Nat
  PROVE  /\ Decide(row, command, now).row \in Row
         /\ Decide(row, command, now).status \in Statuses
         /\ Decide(row, command, now).row.version = row.version
<1> DEFINE approved == [row EXCEPT !.decision = "approved", !.work = "queued"]
<1>1. approved \in Row /\ approved.version = row.version
  BY DEF Row, Decisions, Works
<1>2. /\ Close(row, "expired") \in Row /\ Close(row, "expired").version = row.version
      /\ Close(row, "rejected") \in Row /\ Close(row, "rejected").version = row.version
  BY CloseType DEF Refused
<1> HIDE DEF approved
<1>3. CASE row.decision # "pending"
  BY <1>3 DEF Decide, Answer, Statuses
<1>4. CASE row.decision = "pending" /\ Due(row, now)
  BY <1>2, <1>4 DEF Decide, Answer, Statuses
<1>5. CASE row.decision = "pending" /\ ~Due(row, now) /\ command = "expired"
  BY <1>5 DEF Decide, Answer, Statuses
<1>6. CASE row.decision = "pending" /\ ~Due(row, now) /\ command = "approved"
  BY <1>1, <1>6 DEF Decide, Answer, Statuses, approved
<1>7. CASE row.decision = "pending" /\ ~Due(row, now) /\ command = "rejected"
  BY <1>2, <1>7 DEF Decide, Answer, Statuses
<1> QED BY <1>3, <1>4, <1>5, <1>6, <1>7 DEF Commands

(* A claim takes a generation and a lease and keeps the type.              *)
LEMMA ClaimType ==
  ASSUME NEW row \in Row, NEW w \in Workers, NEW now \in Nat
  PROVE  /\ Claim(row, w, now).row \in Row
         /\ Claim(row, w, now).status \in Statuses
         /\ Claim(row, w, now).row.version = row.version
<1> DEFINE r == [row EXCEPT !.work = "executing", !.gen = @ + 1,
                            !.holder = w, !.until = now + Lease]
<1>1. now + Lease \in Nat /\ row.gen + 1 \in Nat
  BY LeaseAssumption DEF LeaseAssumption, Row
<1>2. r \in Row /\ r.version = row.version
  BY <1>1 DEF Row, Works
<1> QED BY <1>2 DEF Claim, Answer, Statuses

(* A renewal keeps the type.                                               *)
LEMMA ExtendType ==
  ASSUME NEW row \in Row, NEW w \in Workers, NEW gen \in Nat, NEW now \in Nat
  PROVE  /\ Extend(row, w, gen, now).row \in Row
         /\ Extend(row, w, gen, now).status \in Statuses
         /\ Extend(row, w, gen, now).row.version = row.version
BY LeaseAssumption DEF Extend, LeaseStatus, Answer, Row, Statuses

(* A settlement, with the outcome it attaches, keeps the type.             *)
LEMMA SettleType ==
  ASSUME NEW row \in Row, NEW w \in Workers, NEW gen \in Nat, NEW now \in Nat,
         NEW result \in Settled
  PROVE  /\ Settle(row, w, gen, result, now).row \in Row
         /\ Settle(row, w, gen, result, now).status \in Statuses
         /\ Settle(row, w, gen, result, now).row.version = row.version
<1> DEFINE r == [row EXCEPT !.work = result, !.holder = None, !.until = 0]
<1>1. r \in Row /\ r.work \in Settled /\ r.version = row.version
  BY DEF Row, Works
<1>2. AttachOutcome(r) \in Row /\ AttachOutcome(r).version = row.version
  BY <1>1, AttachType
<1> QED BY <1>2 DEF Settle, LeaseStatus, Answer, Statuses

(* Leasing an outcome for delivery keeps the type.                         *)
LEMMA ClaimOutcomeType ==
  ASSUME NEW row \in Row, NEW w \in Workers, NEW now \in Nat
  PROVE  /\ ClaimOutcome(row, w, now).row \in Row
         /\ ClaimOutcome(row, w, now).status \in Statuses
         /\ ClaimOutcome(row, w, now).row.version = row.version
<1> DEFINE r == [row EXCEPT !.dgen = @ + 1, !.dholder = w, !.duntil = now + Lease]
<1>1. now + Lease \in Nat /\ row.dgen + 1 \in Nat
  BY LeaseAssumption DEF LeaseAssumption, Row
<1>2. r \in Row /\ r.version = row.version
  BY <1>1 DEF Row
<1> QED BY <1>2 DEF ClaimOutcome, Answer, Statuses

(* Superseding a sibling, or expiring it when due, keeps the type.         *)
LEMMA SupersedeType ==
  ASSUME NEW row \in Row, NEW p \in Proposals, NEW q \in Proposals, NEW now \in Nat
  PROVE  /\ Supersede(row, p, q, now).row \in Row
         /\ Supersede(row, p, q, now).row.version = row.version
<1> DEFINE r == [row EXCEPT !.supersededBy = q]
<1>1. r \in Row /\ r.version = row.version
  BY DEF Row
<1>2. Close(r, "superseded") \in Row /\ Close(r, "superseded").version = row.version
  BY <1>1, CloseType DEF Refused
<1>3. Close(row, "expired") \in Row /\ Close(row, "expired").version = row.version
  BY CloseType DEF Refused
<1> QED BY <1>2, <1>3 DEF Supersede, Answer

-----------------------------------------------------------------------------
MutateOps == Commands \cup Settled \cup {"claim", "extend", "pull"}

CallFormed(c) ==
  /\ c.op # "none" => c.p \in Proposals
  /\ c.op \in {"claim", "extend", "pull"} \cup Settled => c.who \in Workers
  /\ c.op = "none" => c.done /\ c.status # "applied"

(* Whatever a well-formed store call asks for, the row it computes is one  *)
(* of the transitions' rows.                                               *)
LEMMA TransitionType ==
  ASSUME NEW c \in Call, c.op \in MutateOps, CallFormed(c), NEW row \in Row, clock \in Nat
  PROVE  /\ Transition(c, row).row \in Row
         /\ Transition(c, row).status \in Statuses
         /\ Transition(c, row).row.version = row.version
<1>1. c.op \in Ops /\ c.gen \in Nat
  BY DEF Call
<1>2. CASE c.op \in Commands
  <2>1. Transition(c, row) = Decide(row, c.op, clock)
    BY <1>2 DEF Transition, Commands, Settled
  <2> QED BY <1>2, <2>1, DecideType
<1>3. CASE c.op = "claim"
  <2>1. c.who \in Workers
    BY <1>3 DEF CallFormed
  <2>2. Transition(c, row) = Claim(row, c.who, clock)
    BY <1>3 DEF Transition, Commands, Settled
  <2> QED BY <2>1, <2>2, ClaimType
<1>4. CASE c.op = "extend"
  <2>1. c.who \in Workers
    BY <1>4 DEF CallFormed
  <2>2. Transition(c, row) = Extend(row, c.who, c.gen, clock)
    BY <1>4 DEF Transition, Commands, Settled
  <2> QED BY <1>1, <2>1, <2>2, ExtendType
<1>5. CASE c.op \in Settled
  <2>1. c.who \in Workers
    BY <1>5 DEF CallFormed
  <2>2. Transition(c, row) = Settle(row, c.who, c.gen, c.op, clock)
    BY <1>5 DEF Transition, Commands, Settled
  <2> QED BY <1>1, <1>5, <2>1, <2>2, SettleType
<1>6. CASE c.op = "pull"
  <2>1. c.who \in Workers
    BY <1>6 DEF CallFormed
  <2>2. Transition(c, row) = ClaimOutcome(row, c.who, clock)
    BY <1>6 DEF Transition, Commands, Settled
  <2> QED BY <2>1, <2>2, ClaimOutcomeType
<1> QED BY <1>2, <1>3, <1>4, <1>5, <1>6 DEF MutateOps

SameRequest(c, d) == d.op = c.op /\ d.p = c.p /\ d.who = c.who

(* The row that is not inserted yet.                                       *)
LEMMA AbsentRowType == AbsentRow \in Row
BY DEF AbsentRow, Row, Decisions, Works, Outcomes, Deliveries

(* The read of the store's mutate answers, or computes the row to store.   *)
LEMMA ReadType ==
  ASSUME NEW c \in Call, c.op \in MutateOps, CallFormed(c),
         rows \in [Proposals -> Row], clock \in Nat
  PROVE  /\ Read(c) \in Call /\ CallFormed(Read(c)) /\ SameRequest(c, Read(c))
<1> DEFINE answer == Transition(c, rows[c.p])
           quiet  == [c EXCEPT !.done = TRUE, !.status = answer.status, !.next = AbsentRow]
           moved  == [answer.row EXCEPT !.version = @ + 1]
           asking == [c EXCEPT !.done = FALSE, !.status = answer.status, !.next = moved]
<1>1. c.p \in Proposals /\ rows[c.p] \in Row /\ c.op # "none"
  BY DEF CallFormed, MutateOps, Commands, Settled
<1>2. answer.row \in Row /\ answer.status \in Statuses
  BY <1>1, TransitionType
<1> HIDE DEF answer
<1>3. moved \in Row
  BY <1>2 DEF Row
<1>4. quiet \in Call /\ CallFormed(quiet) /\ SameRequest(c, quiet)
  BY <1>1, <1>2, AbsentRowType DEF Call, CallFormed, SameRequest
<1> HIDE DEF moved
<1>5. asking \in Call /\ CallFormed(asking) /\ SameRequest(c, asking)
  BY <1>1, <1>2, <1>3 DEF Call, CallFormed, SameRequest
<1>6. Read(c) = IF answer.row = rows[c.p] THEN quiet ELSE asking
  BY DEF Read, answer, moved
<1> QED BY <1>4, <1>5, <1>6

(* The UPDATE answers, retries from a fresh read, or gives up.             *)
LEMMA CallAfterType ==
  ASSUME NEW c \in Call, c.op \in MutateOps, CallFormed(c),
         rows \in [Proposals -> Row], clock \in Nat
  PROVE  /\ CallAfter(c) \in Call /\ CallFormed(CallAfter(c)) /\ SameRequest(c, CallAfter(c))
<1> DEFINE taken == IF c.op = "pull" THEN c.next.dgen ELSE c.next.gen
           won   == [c EXCEPT !.done = TRUE, !.next = AbsentRow, !.gen = taken]
           again == [c EXCEPT !.tries = @ + 1]
           lost  == [c EXCEPT !.done = TRUE, !.status = "conflict", !.next = AbsentRow]
<1>1. c.op # "none" /\ c.next \in Row
  BY DEF Call, MutateOps, Commands, Settled
<1>2. won \in Call /\ CallFormed(won) /\ SameRequest(c, won)
  <2>1. taken \in Nat
    BY <1>1 DEF Row
  <2> HIDE DEF taken
  <2>2. won \in Call
    BY <2>1, AbsentRowType DEF Call
  <2>3. won.op = c.op /\ won.p = c.p /\ won.who = c.who /\ won.done /\ won.status = c.status
    BY DEF Call
  <2> QED BY <1>1, <2>2, <2>3 DEF CallFormed, SameRequest
<1>3. again \in Call /\ again.op \in MutateOps /\ CallFormed(again) /\ SameRequest(c, again)
  BY <1>1 DEF Call, CallFormed, SameRequest
<1>4. lost \in Call /\ CallFormed(lost) /\ SameRequest(c, lost)
  BY <1>1, AbsentRowType DEF Call, CallFormed, SameRequest, Statuses
<1> HIDE DEF won, again, lost
<1>5. Read(again) \in Call /\ CallFormed(Read(again)) /\ SameRequest(c, Read(again))
  BY <1>3, ReadType DEF SameRequest
<1> QED BY <1>2, <1>4, <1>5 DEF CallAfter, won, again, lost

(* A conditional UPDATE stores a row the call computed.                    *)
LEMMA RowsAfterType ==
  ASSUME NEW c \in Call, rows \in [Proposals -> Row]
  PROVE  RowsAfter(c) \in [Proposals -> Row]
BY DEF RowsAfter, Call

(* A caller with no call outstanding.                                      *)
LEMMA IdleType == Idle \in Call /\ CallFormed(Idle) /\ Idle.op = "none"
<1>1. Idle \in Call
  BY AbsentRowType DEF Idle, Call, Ops
<1>2. Idle.op = "none" /\ Idle.done /\ Idle.status = "none"
  BY DEF Idle
<1> QED BY <1>1, <1>2 DEF CallFormed, Settled

(* A fresh call, before its read.                                          *)
LEMMA RequestType ==
  ASSUME NEW op \in MutateOps, NEW p \in Proposals, NEW who \in Workers \cup {None}, NEW gen \in Nat,
         op \in Commands \/ who \in Workers
  PROVE  /\ Request(op, p, who, gen) \in Call /\ CallFormed(Request(op, p, who, gen))
         /\ Request(op, p, who, gen).op = op /\ Request(op, p, who, gen).p = p
BY AbsentRowType DEF Request, Idle, Call, CallFormed, Ops, MutateOps, Commands, Settled

-----------------------------------------------------------------------------
(* The type invariant, with the shape of the calls that makes it           *)
(* inductive: an outstanding call names a proposal, and a worker where its *)
(* operation needs one.                                                    *)

StoreOK ==
  /\ clock \in Nat /\ faults \in Nat
  /\ deadline \in [Proposals -> Nat \cup {-1}]
  /\ rows \in [Proposals -> Row]
  /\ posted \in [Proposals -> Nat]
  /\ thread \in [active : BOOLEAN, deleted : BOOLEAN, lock : Workers \cup {None}]
  /\ effects \subseteq [p : Proposals, gen : Nat, result : Settled]

DeciderOK ==
  /\ decider \in [Deciders -> Call]
  /\ \A d \in Deciders : CallFormed(decider[d]) /\ decider[d].op \in MutateOps \cup {"none"}

LoopOK ==
  /\ loop \in [Workers -> Loop]
  /\ \A w \in Workers : /\ CallFormed(loop[w].call)
                        /\ loop[w].call.op = "admit" <=> loop[w].pc = "admit"

JobOK(j) == /\ j \in Job /\ CallFormed(j.call) /\ j.call.op # "admit"
            /\ j.pc # "run" => j.result \in Settled
JobsOK == \A j \in jobs : JobOK(j)

TypeInv == StoreOK /\ DeciderOK /\ LoopOK /\ JobsOK

(* A tick that moves on forgets its scan and its call.                     *)
LEMMA GoToLoop ==
  ASSUME LoopOK, NEW w \in Workers, NEW pc \in Phases \ {"admit"}, NEW count \in Nat,
         GoTo(w, pc, count)
  PROVE  LoopOK'
<1>1. loop[w] \in Loop
  BY DEF LoopOK
<1> DEFINE new == [loop[w] EXCEPT !.pc = pc, !.count = count, !.scan = {}, !.call = Idle]
<1>2. new \in Loop /\ new.call = Idle /\ new.pc = pc
  BY <1>1, IdleType DEF Loop
<1>3. loop' = [loop EXCEPT ![w] = new]
  BY <1>1 DEF GoTo, LoopOK
<1> HIDE DEF new
<1> QED BY <1>2, <1>3, IdleType DEF LoopOK

(* A tick that issues a store call keeps its phase.                        *)
LEMMA IssueLoop ==
  ASSUME StoreOK, LoopOK, NEW w \in Workers, NEW p \in Proposals,
         NEW op \in MutateOps, Issue(w, p, op), loop[w].pc # "admit"
  PROVE  LoopOK'
<1> DEFINE rq  == Request(op, p, w, 0)
           new == [loop[w] EXCEPT !.scan = @ \ {p}, !.call = Read(rq)]
<1>1. loop[w] \in Loop /\ rows \in [Proposals -> Row] /\ clock \in Nat
  BY DEF LoopOK, StoreOK
<1>2. rq \in Call /\ CallFormed(rq) /\ rq.op = op
  BY RequestType
<1> HIDE DEF rq
<1>3. Read(rq) \in Call /\ CallFormed(Read(rq)) /\ Read(rq).op = op
  BY <1>1, <1>2, ReadType DEF SameRequest
<1>4. new \in Loop /\ new.call = Read(rq) /\ new.pc = loop[w].pc
  BY <1>1, <1>3 DEF Loop
<1>5. loop' = [loop EXCEPT ![w] = new]
  BY <1>1 DEF Issue, LoopOK, rq
<1> HIDE DEF new
<1>6. op # "admit"
  BY DEF MutateOps, Commands, Settled
<1> QED BY <1>3, <1>4, <1>5, <1>6 DEF LoopOK

(* One execution changes, the others stay.                                 *)
LEMMA BecomesJobs ==
  ASSUME JobsOK, NEW j \in jobs, NEW k, JobOK(k), Becomes(j, k)
  PROVE  JobsOK'
BY DEF JobsOK, Becomes, JobOK

(* The row a creation inserts.                                             *)
LEMMA InitialType ==
  ASSUME NEW expiresAt \in Nat
  PROVE  InitialActionProposal(expiresAt) \in Row
BY AbsentRowType DEF InitialActionProposal, Row, Decisions

(* The row a replacing creation writes for a sibling.                      *)
LEMMA SupersededType ==
  ASSUME NEW p \in Proposals, NEW q \in Proposals, rows \in [Proposals -> Row], clock \in Nat
  PROVE  Superseded(q, p) \in Row
<1> DEFINE r == Supersede(rows[q], q, p, clock).row
<1>1. rows[q] \in Row /\ r \in Row
  BY SupersedeType
<1>2. [r EXCEPT !.version = @ + 1] \in Row
  BY <1>1 DEF Row
<1> QED BY <1>1, <1>2 DEF Superseded

(* The invariant holds initially.                                          *)
LEMMA TypeInit == Init => TypeInv
BY IdleType, AbsentRowType, BoundAssumption
   DEF Init, TypeInv, StoreOK, DeciderOK, LoopOK, JobsOK, Asleep, Loop, Phases

(* The actions of the runs and of the callers.                             *)
LEMMA TypeCallers ==
  ASSUME TypeInv, Producer \/ Decision
  PROVE  TypeInv'
<1>1. ASSUME NEW p \in Proposals, ResolveActionProposalApproval(p) PROVE TypeInv'
  <2>1. Ttl[p] \in Nat /\ clock \in Nat
    BY BoundAssumption DEF BoundAssumption, TypeInv, StoreOK
  <2>2. deadline' \in [Proposals -> Nat \cup {-1}]
    BY <1>1, <2>1 DEF ResolveActionProposalApproval, TypeInv, StoreOK
  <2> QED BY <1>1, <2>2
          DEF ResolveActionProposalApproval, TypeInv, StoreOK, DeciderOK, LoopOK, JobsOK, JobOK
<1>2. ASSUME NEW p \in Proposals, CreateActionProposal(p) PROVE TypeInv'
  <2>1. deadline[p] \in Nat /\ rows \in [Proposals -> Row] /\ clock \in Nat
    BY <1>2 DEF CreateActionProposal, TypeInv, StoreOK
  <2>2. InitialActionProposal(deadline[p]) \in Row
    BY <2>1, InitialType
  <2>3. \A q \in Proposals : Superseded(q, p) \in Row
    BY <2>1, SupersededType
  <2>4. rows' \in [Proposals -> Row]
    BY <1>2, <2>1, <2>2, <2>3 DEF CreateActionProposal
  <2> QED BY <1>2, <2>4
          DEF CreateActionProposal, TypeInv, StoreOK, DeciderOK, LoopOK, JobsOK, JobOK
<1>3. ASSUME NEW d \in Deciders, NEW p \in Proposals, NEW command \in Choices,
             DecideActionProposal(d, p, command)
      PROVE  TypeInv'
  <2> DEFINE rq == Request(command, p, None, 0)
  <2>1. command \in Commands /\ command \in MutateOps
    BY BoundAssumption DEF BoundAssumption, Commands, MutateOps
  <2>2. rq \in Call /\ CallFormed(rq) /\ rq.op = command
    BY <2>1, RequestType
  <2> HIDE DEF rq
  <2>3. Read(rq) \in Call /\ CallFormed(Read(rq)) /\ Read(rq).op = command
    BY <2>1, <2>2, ReadType DEF SameRequest, TypeInv, StoreOK
  <2>4. decider' = [decider EXCEPT ![d] = Read(rq)]
    BY <1>3 DEF DecideActionProposal, rq
  <2>5. DeciderOK'
    BY <2>1, <2>3, <2>4 DEF TypeInv, DeciderOK
  <2> QED BY <1>3, <2>5
          DEF DecideActionProposal, TypeInv, StoreOK, LoopOK, JobsOK, JobOK, store
<1>4. ASSUME NEW d \in Deciders, DeciderUpdate(d) PROVE TypeInv'
  <2> DEFINE c == decider[d]
  <2>1. c \in Call /\ CallFormed(c) /\ c.op \in MutateOps
    BY <1>4 DEF DeciderUpdate, TypeInv, DeciderOK, CallFormed
  <2>2. rows' \in [Proposals -> Row]
    BY <1>4, <2>1, RowsAfterType DEF DeciderUpdate, TypeInv, StoreOK
  <2>3. decider' = [decider EXCEPT ![d] = CallAfter(c)]
    BY <1>4 DEF DeciderUpdate
  <2> HIDE DEF c
  <2>4. CallAfter(c) \in Call /\ CallFormed(CallAfter(c)) /\ CallAfter(c).op = c.op
    BY <2>1, CallAfterType DEF SameRequest, TypeInv, StoreOK
  <2>5. DeciderOK'
    BY <2>1, <2>3, <2>4 DEF TypeInv, DeciderOK
  <2> QED BY <1>4, <2>2, <2>5
          DEF DeciderUpdate, TypeInv, StoreOK, LoopOK, JobsOK, JobOK
<1> QED BY <1>1, <1>2, <1>3, <1>4 DEF Producer, Decision

(* The steps of a worker's tick that move its loop on.                     *)
LEMMA TypeTick ==
  ASSUME TypeInv, NEW w \in Workers,
         \/ StartTick(w) \/ ExpireEnd(w) \/ SelectWork(w) \/ ClaimWon(w) \/ ClaimNone(w)
         \/ AwaitEnd(w) \/ SelectOutcomes(w) \/ PullNone(w)
         \/ \E p \in Proposals : ExpireNext(w, p) \/ ClaimNext(w, p) \/ PullNext(w, p)
  PROVE  TypeInv'
<1> USE DEF TypeInv
<1>1. loop[w] \in Loop /\ loop[w].count \in Nat /\ loop \in [Workers -> Loop]
  BY DEF LoopOK, Loop
<1>2. ASSUME NEW pc \in Phases \ {"admit"}, NEW scan \in SUBSET Proposals,
             loop' = [loop EXCEPT ![w].pc = pc, ![w].scan = scan], loop[w].pc # "admit"
      PROVE  LoopOK'
  <2> DEFINE new == [loop[w] EXCEPT !.pc = pc, !.scan = scan]
  <2>1. new \in Loop /\ new.call = loop[w].call /\ new.pc = pc
    BY <1>1 DEF Loop
  <2>2. loop' = [loop EXCEPT ![w] = new]
    BY <1>1, <1>2
  <2>3. CallFormed(new.call) /\ new.call.op # "admit" /\ new.pc # "admit"
    BY <1>2, <2>1 DEF LoopOK
  <2> HIDE DEF new
  <2> QED BY <1>1, <2>1, <2>2, <2>3 DEF LoopOK
<1>3. CASE StartTick(w)
  <2>1. LoopOK'
    BY <1>2, <1>3 DEF StartTick, Phases
  <2> QED BY <1>3, <2>1 DEF StartTick, StoreOK, DeciderOK, JobsOK, JobOK, store
<1>4. CASE ExpireEnd(w)
  <2>1. LoopOK'
    BY <1>4, GoToLoop DEF ExpireEnd, Phases
  <2> QED BY <1>4, <2>1 DEF ExpireEnd, StoreOK, DeciderOK, JobsOK, JobOK, store
<1>5. CASE SelectWork(w)
  <2>1. LoopOK'
    BY <1>2, <1>5, GoToLoop DEF SelectWork, Phases
  <2> QED BY <1>5, <2>1 DEF SelectWork, StoreOK, DeciderOK, JobsOK, JobOK, store
<1>6. CASE ClaimWon(w)
  <2> DEFINE c   == loop[w].call
             new == [w |-> w, p |-> c.p, gen |-> c.gen, pc |-> "run", result |-> "none",
                     timer |-> TRUE, awaited |-> TRUE, call |-> Idle]
  <2>1. LoopOK'
    BY <1>1, <1>6, GoToLoop DEF ClaimWon, Phases
  <2>2. c \in Call /\ c.p \in Proposals
    BY <1>1, <1>6 DEF ClaimWon, Won, Loop, LoopOK, CallFormed
  <2>3. JobOK(new)
    BY <2>2, IdleType DEF JobOK, Job, Call
  <2>4. jobs' = jobs \cup {new}
    BY <1>6 DEF ClaimWon
  <2> HIDE DEF new
  <2>5. JobsOK'
    BY <2>3, <2>4 DEF JobsOK, JobOK
  <2> QED BY <1>6, <2>1, <2>5 DEF ClaimWon, StoreOK, DeciderOK, store
<1>7. CASE ClaimNone(w)
  <2>1. LoopOK'
    BY <1>7, GoToLoop DEF ClaimNone, Phases
  <2> QED BY <1>7, <2>1 DEF ClaimNone, StoreOK, DeciderOK, JobsOK, JobOK, store
<1>8. CASE AwaitEnd(w)
  <2>1. LoopOK'
    BY <1>8, GoToLoop DEF AwaitEnd, Phases
  <2> QED BY <1>8, <2>1 DEF AwaitEnd, StoreOK, DeciderOK, JobsOK, JobOK, store
<1>9. CASE SelectOutcomes(w)
  <2>1. LoopOK'
    BY <1>2, <1>9, GoToLoop DEF SelectOutcomes, Phases
  <2> QED BY <1>9, <2>1 DEF SelectOutcomes, StoreOK, DeciderOK, JobsOK, JobOK, store
<1>10. CASE PullNone(w)
  <2>1. LoopOK'
    BY <1>10, GoToLoop DEF PullNone, Phases
  <2> QED BY <1>10, <2>1 DEF PullNone, StoreOK, DeciderOK, JobsOK, JobOK, store
<1>11. ASSUME NEW p \in Proposals, ExpireNext(w, p) PROVE TypeInv'
  <2>1. LoopOK'
    BY <1>11, IssueLoop DEF ExpireNext, Quiet, MutateOps, Commands
  <2> QED BY <1>11, <2>1 DEF ExpireNext, StoreOK, DeciderOK, JobsOK, JobOK, store
<1>12. ASSUME NEW p \in Proposals, ClaimNext(w, p) PROVE TypeInv'
  <2>1. LoopOK'
    BY <1>12, IssueLoop DEF ClaimNext, Quiet, MutateOps
  <2> QED BY <1>12, <2>1 DEF ClaimNext, StoreOK, DeciderOK, JobsOK, JobOK, store
<1>13. ASSUME NEW p \in Proposals, PullNext(w, p) PROVE TypeInv'
  <2>1. LoopOK'
    BY <1>13, IssueLoop DEF PullNext, Quiet, MutateOps
  <2> QED BY <1>13, <2>1 DEF PullNext, StoreOK, DeciderOK, JobsOK, JobOK, store
<1> QED BY <1>3, <1>4, <1>5, <1>6, <1>7, <1>8, <1>9, <1>10, <1>11, <1>12, <1>13

(* A job whose flags change keeps its type.                                *)
LEMMA FlagsJob ==
  ASSUME NEW j, JobOK(j), NEW b \in BOOLEAN
  PROVE  JobOK([j EXCEPT !.timer = b]) /\ JobOK([j EXCEPT !.awaited = b])
BY DEF JobOK, Job

(* The outcome transaction, the UPDATE of the tick's current call, stop()  *)
(* and the faults of a worker.                                             *)
LEMMA TypeWorker ==
  ASSUME TypeInv, NEW w \in Workers,
         \/ AdmitRead(w) \/ AdmitCommit(w) \/ WorkerUpdate(w) \/ Stop(w)
         \/ TickThrows(w) \/ Crash(w)
  PROVE  TypeInv'
<1> USE DEF TypeInv
<1> DEFINE c == loop[w].call
<1>1. /\ loop[w] \in Loop /\ loop \in [Workers -> Loop] /\ loop[w].count + 1 \in Nat
      /\ c \in Call /\ CallFormed(c)
  BY DEF LoopOK, Loop
<1>2. thread \in [active : BOOLEAN, deleted : BOOLEAN, lock : Workers \cup {None}]
  BY DEF StoreOK
<1>3. [thread EXCEPT !.lock = w] \in [active : BOOLEAN, deleted : BOOLEAN, lock : Workers \cup {None}]
  BY <1>2
<1>4. [thread EXCEPT !.lock = None] \in [active : BOOLEAN, deleted : BOOLEAN, lock : Workers \cup {None}]
  BY <1>2
<1>5. CASE AdmitRead(w)
  <2>1. CASE GoTo(w, "pull", loop[w].count + 1) /\ UNCHANGED thread
    <3>1. LoopOK'
      BY <1>1, <2>1, GoToLoop DEF Phases
    <3> QED BY <1>5, <2>1, <3>1 DEF AdmitRead, StoreOK, DeciderOK, JobsOK, JobOK
  <2>2. CASE ~(GoTo(w, "pull", loop[w].count + 1) /\ UNCHANGED thread)
    <3> DEFINE row   == rows[c.p]
               what  == IF thread.deleted THEN "discarded" ELSE "admitted"
               moved == [row EXCEPT
                           !.delivery = what, !.dholder = None, !.duntil = 0, !.version = @ + 1]
               call  == [c EXCEPT !.op = "admit", !.done = FALSE, !.next = moved]
               new   == [loop[w] EXCEPT !.pc = "admit", !.scan = {}, !.call = call]
    <3>1. c.op # "none" /\ c.p \in Proposals
      BY <1>1, <1>5 DEF AdmitRead, Won, CallFormed
    <3>2. row \in Row
      BY <3>1 DEF StoreOK
    <3>3. moved \in Row
      <4>1. what \in Deliveries /\ row.version + 1 \in Nat
        BY <3>2 DEF Row, Deliveries
      <4> HIDE DEF what
      <4> QED BY <3>2, <4>1 DEF Row
    <3> HIDE DEF moved
    <3>4. call \in Call /\ CallFormed(call) /\ call.op = "admit"
      BY <1>1, <3>1, <3>3 DEF Call, CallFormed, Ops, Settled
    <3> HIDE DEF call
    <3>5. new \in Loop /\ new.call = call /\ new.pc = "admit"
      BY <1>1, <3>4 DEF Loop, Phases
    <3>6. loop' = [loop EXCEPT ![w] = new]
      BY <1>1, <1>5, <2>2 DEF AdmitRead, call, moved
    <3> HIDE DEF new
    <3>7. LoopOK'
      BY <1>1, <3>4, <3>5, <3>6 DEF LoopOK
    <3>8. thread' = [thread EXCEPT !.lock = w]
      BY <1>5, <2>2 DEF AdmitRead
    <3> QED BY <1>3, <1>5, <3>7, <3>8 DEF AdmitRead, StoreOK, DeciderOK, JobsOK, JobOK
  <2> QED BY <2>1, <2>2
<1>6. CASE AdmitCommit(w)
  <2>1. LoopOK'
    <3>1. GoTo(w, "pull", loop[w].count + 1) \/ GoTo(w, "idle", loop[w].count + 1)
      BY <1>6 DEF AdmitCommit
    <3> QED BY <1>1, <3>1, GoToLoop DEF Phases
  <2>2. rows' \in [Proposals -> Row]
    BY <1>1, <1>6, RowsAfterType DEF AdmitCommit, StoreOK
  <2>3. posted' \in [Proposals -> Nat]
    <3>1. c.p \in Proposals /\ posted \in [Proposals -> Nat]
      BY <1>1, <1>6 DEF AdmitCommit, LoopOK, CallFormed, StoreOK
    <3>2. [posted EXCEPT ![c.p] = @ + 1] \in [Proposals -> Nat]
      BY <3>1
    <3> QED BY <1>6, <3>1, <3>2 DEF AdmitCommit
  <2> QED BY <1>4, <1>6, <2>1, <2>2, <2>3 DEF AdmitCommit, StoreOK, DeciderOK, JobsOK, JobOK
<1>7. CASE WorkerUpdate(w)
  <2>1. c.op \in MutateOps
    BY <1>1, <1>7 DEF WorkerUpdate, LoopOK, CallFormed, Call, Ops, MutateOps
  <2>2. rows' \in [Proposals -> Row]
    BY <1>1, <1>7, RowsAfterType DEF WorkerUpdate, StoreOK
  <2>3. CallAfter(c) \in Call /\ CallFormed(CallAfter(c)) /\ CallAfter(c).op = c.op
    BY <1>1, <2>1, CallAfterType DEF SameRequest, StoreOK
  <2> DEFINE new == [loop[w] EXCEPT !.call = CallAfter(c)]
  <2>4. new \in Loop /\ new.call = CallAfter(c) /\ new.pc = loop[w].pc
    BY <1>1, <2>3 DEF Loop
  <2>5. loop' = [loop EXCEPT ![w] = new]
    BY <1>1, <1>7 DEF WorkerUpdate
  <2> HIDE DEF new
  <2>6. CallFormed(new.call) /\ (new.call.op = "admit" <=> new.pc = "admit")
    BY <2>3, <2>4 DEF LoopOK
  <2>7. LoopOK'
    BY <1>1, <2>4, <2>5, <2>6 DEF LoopOK
  <2> QED BY <1>7, <2>2, <2>7 DEF WorkerUpdate, StoreOK, DeciderOK, JobsOK, JobOK
<1>8. CASE Stop(w)
  <2> DEFINE new == [loop[w] EXCEPT !.stopped = TRUE]
  <2>1. new \in Loop /\ new.call = c /\ new.pc = loop[w].pc
    BY <1>1 DEF Loop
  <2>2. loop' = [loop EXCEPT ![w] = new]
    BY <1>1, <1>8 DEF Stop
  <2>3. CallFormed(new.call) /\ (new.call.op = "admit" <=> new.pc = "admit")
    BY <2>1 DEF LoopOK
  <2> HIDE DEF new
  <2>4. LoopOK'
    BY <1>1, <2>1, <2>2, <2>3 DEF LoopOK
  <2>5. JobsOK'
    <3>1. \A k \in jobs' : \E j \in jobs : k = j \/ k = [j EXCEPT !.timer = FALSE]
      BY <1>8 DEF Stop
    <3>2. \A k \in jobs' : JobOK(k)
      BY <3>1, FlagsJob DEF JobsOK
    <3> QED BY <3>2 DEF JobsOK, JobOK
  <2> QED BY <1>8, <2>4, <2>5 DEF Stop, StoreOK, DeciderOK, store
<1>9. CASE TickThrows(w)
  <2>1. LoopOK'
    BY <1>9, GoToLoop DEF TickThrows, Phases
  <2>2. JobsOK'
    <3>1. \A k \in jobs' : \E j \in jobs : k = j \/ k = [j EXCEPT !.awaited = FALSE]
      BY <1>9 DEF TickThrows, Abandoned
    <3>2. \A k \in jobs' : JobOK(k)
      BY <3>1, FlagsJob DEF JobsOK
    <3> QED BY <3>2 DEF JobsOK, JobOK
  <2> QED BY <1>2, <1>4, <1>9, <2>1, <2>2 DEF TickThrows, Fault, StoreOK, DeciderOK
<1>10. CASE Crash(w)
  <2>1. Asleep \in Loop /\ Asleep.call = Idle /\ Asleep.pc = "idle"
    BY IdleType DEF Asleep, Loop, Phases
  <2>2. LoopOK'
    BY <1>1, <1>10, <2>1, IdleType DEF Crash, LoopOK
  <2>3. JobsOK'
    BY <1>10 DEF Crash, JobsOK, JobOK
  <2> QED BY <1>2, <1>4, <1>10, <2>2, <2>3 DEF Crash, Fault, StoreOK, DeciderOK
<1> QED BY <1>5, <1>6, <1>7, <1>8, <1>9, <1>10

(* The steps of one execution.                                             *)
LEMMA TypeExecution ==
  ASSUME TypeInv, Execution
  PROVE  TypeInv'
<1> USE DEF TypeInv
<1>1. PICK j \in jobs : \/ Renew(j) \/ JobUpdate(j) \/ SettleActionProposal(j) \/ JobEnd(j)
                        \/ RenewThrows(j) \/ SettleThrows(j)
                        \/ \E result \in Settled : ToolReturns(j, result)
  BY DEF Execution
<1>2. /\ JobOK(j) /\ j \in Job /\ j.call \in Call /\ CallFormed(j.call)
      /\ j.p \in Proposals /\ j.w \in Workers /\ j.gen \in Nat
  BY DEF JobsOK, JobOK, Job
<1>3. rows \in [Proposals -> Row] /\ clock \in Nat
  BY DEF StoreOK
<1>4. ASSUME NEW call \in Call, CallFormed(call), call.op # "admit"
      PROVE  /\ JobOK([j EXCEPT !.call = call])
             /\ j.result \in Settled => JobOK([j EXCEPT !.pc = "settle", !.call = call])
  <2> DEFINE new  == [j EXCEPT !.call = call]
             last == [j EXCEPT !.pc = "settle", !.call = call]
  <2>1. /\ new \in Job /\ new.call = call /\ new.pc = j.pc /\ new.result = j.result
        /\ last \in Job /\ last.call = call /\ last.result = j.result
    BY <1>2 DEF Job
  <2>2. j.pc # "run" => j.result \in Settled
    BY <1>2 DEF JobOK
  <2> HIDE DEF new, last
  <2>3. JobOK(new) /\ (j.result \in Settled => JobOK(last))
    BY <1>4, <2>1, <2>2 DEF JobOK
  <2> QED BY <2>3 DEF new, last
<1>5. CASE Renew(j)
  <2> DEFINE rq == Request("extend", j.p, j.w, j.gen)
  <2>1. "extend" \in MutateOps
    BY DEF MutateOps
  <2>2. rq \in Call /\ CallFormed(rq) /\ rq.op = "extend"
    BY <1>2, <2>1, RequestType
  <2> HIDE DEF rq
  <2>3. Read(rq) \in Call /\ CallFormed(Read(rq)) /\ Read(rq).op = "extend"
    BY <1>3, <2>1, <2>2, ReadType DEF SameRequest
  <2>4. JobOK([j EXCEPT !.call = Read(rq)])
    BY <1>4, <2>3
  <2>5. Becomes(j, [j EXCEPT !.call = Read(rq)])
    BY <1>5 DEF Renew, rq
  <2>6. JobsOK'
    BY <2>4, <2>5, BecomesJobs
  <2> QED BY <1>5, <2>6 DEF Renew, StoreOK, DeciderOK, LoopOK, store
<1>6. CASE JobUpdate(j)
  <2>1. j.call.op \in MutateOps
    BY <1>2, <1>6 DEF JobUpdate, JobOK, CallFormed, Call, Ops, MutateOps
  <2>2. rows' \in [Proposals -> Row]
    BY <1>2, <1>3, <1>6, RowsAfterType DEF JobUpdate
  <2>3. CallAfter(j.call) \in Call /\ CallFormed(CallAfter(j.call))
        /\ CallAfter(j.call).op = j.call.op
    BY <1>2, <1>3, <2>1, CallAfterType DEF SameRequest
  <2>4. JobOK([j EXCEPT !.call = CallAfter(j.call)])
    BY <1>2, <1>4, <2>3 DEF JobOK
  <2>5. Becomes(j, [j EXCEPT !.call = CallAfter(j.call)])
    BY <1>6 DEF JobUpdate
  <2>6. JobsOK'
    BY <2>4, <2>5, BecomesJobs
  <2> QED BY <1>6, <2>2, <2>6 DEF JobUpdate, StoreOK, DeciderOK, LoopOK
<1>7. CASE SettleActionProposal(j)
  <2> DEFINE rq == Request(j.result, j.p, j.w, j.gen)
  <2>1. CASE j.result \in Settled
    <3>1. j.result \in MutateOps /\ j.result # "admit"
      BY <2>1 DEF MutateOps, Settled
    <3>2. rq \in Call /\ CallFormed(rq) /\ rq.op = j.result
      BY <1>2, <3>1, RequestType
    <3> HIDE DEF rq
    <3>3. Read(rq) \in Call /\ CallFormed(Read(rq)) /\ Read(rq).op = j.result
      BY <1>3, <3>1, <3>2, ReadType DEF SameRequest
    <3>4. JobOK([j EXCEPT !.pc = "settle", !.call = Read(rq)])
      BY <1>4, <2>1, <3>1, <3>3
    <3>5. Becomes(j, [j EXCEPT !.pc = "settle", !.call = Read(rq)])
      BY <1>7 DEF SettleActionProposal, rq
    <3>6. JobsOK'
      BY <3>4, <3>5, BecomesJobs
    <3> QED BY <1>7, <3>6 DEF SettleActionProposal, StoreOK, DeciderOK, LoopOK, store
  <2>2. j.result \in Settled
    BY <1>7 DEF SettleActionProposal, JobsOK, JobOK
  <2> QED BY <2>1, <2>2
<1>8. CASE JobEnd(j)
  BY <1>8 DEF JobEnd, StoreOK, DeciderOK, LoopOK, JobsOK, JobOK, store
<1>9. CASE RenewThrows(j)
  <2> DEFINE call == [Idle EXCEPT !.status = "error"]
  <2>1. call \in Call /\ call.op = "none" /\ call.done /\ call.status = "error"
    BY IdleType DEF Call, Idle
  <2> HIDE DEF call
  <2>2. CallFormed(call)
    BY <2>1 DEF CallFormed, Settled
  <2>3. JobOK([j EXCEPT !.call = call])
    BY <1>4, <2>1, <2>2
  <2>4. JobsOK'
    BY <1>9, <2>3, BecomesJobs DEF RenewThrows, call
  <2> QED BY <1>9, <2>4 DEF RenewThrows, Fault, StoreOK, DeciderOK, LoopOK, store
<1>10. CASE SettleThrows(j)
  <2>1. CASE j.awaited
    <3>1. LoopOK'
      BY <1>2, <1>10, <2>1, GoToLoop DEF SettleThrows, Phases
    <3>2. \A k \in jobs' : \E i \in jobs : k = i \/ k = [i EXCEPT !.awaited = FALSE]
      BY <1>10, <2>1 DEF SettleThrows, Abandoned
    <3>3. \A k \in jobs' : JobOK(k)
      BY <3>2, FlagsJob DEF JobsOK
    <3>4. JobsOK'
      BY <3>3 DEF JobsOK, JobOK
    <3> QED BY <1>10, <3>1, <3>4 DEF SettleThrows, Fault, StoreOK, DeciderOK, store
  <2>2. CASE ~j.awaited
    BY <1>10, <2>2 DEF SettleThrows, Fault, StoreOK, DeciderOK, LoopOK, JobsOK, JobOK, store
  <2> QED BY <2>1, <2>2
<1>11. ASSUME NEW result \in Settled, ToolReturns(j, result) PROVE TypeInv'
  <2>1. JobOK([j EXCEPT !.pc = "returned", !.result = result, !.timer = FALSE])
    BY <1>2 DEF JobOK, Job
  <2>2. JobsOK'
    BY <1>11, <2>1, BecomesJobs DEF ToolReturns
  <2>3. StoreOK'
    BY <1>2, <1>11 DEF ToolReturns, StoreOK, store
  <2> QED BY <1>11, <2>2, <2>3 DEF ToolReturns, DeciderOK, LoopOK
<1> QED BY <1>1, <1>5, <1>6, <1>7, <1>8, <1>9, <1>10, <1>11

(* Time, turns and the deletion of the thread.                             *)
LEMMA TypeRest ==
  ASSUME TypeInv, Tick \/ Turn \/ SoftDeleteThread \/ UNCHANGED vars
  PROVE  TypeInv'
<1> USE DEF TypeInv
<1>1. CASE Tick
  BY <1>1 DEF Tick, store, StoreOK, DeciderOK, LoopOK, JobsOK, JobOK
<1>2. CASE Turn
  BY <1>2 DEF Turn, StoreOK, DeciderOK, LoopOK, JobsOK, JobOK
<1>3. CASE SoftDeleteThread
  BY <1>3 DEF SoftDeleteThread, StoreOK, DeciderOK, LoopOK, JobsOK, JobOK
<1>4. CASE UNCHANGED vars
  BY <1>4 DEF vars, store, StoreOK, DeciderOK, LoopOK, JobsOK, JobOK
<1> QED BY <1>1, <1>2, <1>3, <1>4

(* Every step keeps the type invariant.                                    *)
LEMMA TypeStep == TypeInv /\ [Next]_vars => TypeInv'
<1> SUFFICES ASSUME TypeInv, [Next]_vars PROVE TypeInv'
  OBVIOUS
<1>1. CASE Producer \/ Decision
  BY <1>1, TypeCallers
<1>2. CASE Worker
  BY <1>2, TypeTick, TypeWorker DEF Worker
<1>3. CASE Execution
  BY <1>3, TypeExecution
<1>4. CASE Tick \/ Turn \/ SoftDeleteThread \/ UNCHANGED vars
  BY <1>4, TypeRest
<1> QED BY <1>1, <1>2, <1>3, <1>4 DEF Next

(* The values the model's variables may take, for any number of proposals, *)
(* workers, callers and faults: every row the store holds and every row a  *)
(* writer is about to store is one the transitions can produce.            *)
THEOREM TypeCorrect == Spec => []TypeOK
<1>1. TypeInv => TypeOK
  BY DEF TypeInv, StoreOK, DeciderOK, LoopOK, JobsOK, JobOK, TypeOK
<1> QED BY <1>1, TypeInit, TypeStep, PTL DEF Spec

-----------------------------------------------------------------------------
\* What the executor returned to a claim.
Returned(p, gen, result) == [p |-> p, gen |-> gen, result |-> result]

\* What no writer of a row takes back; the body of RowsOnlyAdvance.
Keeps(r, s) ==
  /\ r.decision \notin {"absent", "pending"} =>
       s.decision = r.decision /\ s.supersededBy = r.supersededBy
  /\ r.outcome # "none" => s.outcome = r.outcome /\ s.work = r.work
  /\ r.delivery \in {"admitted", "discarded"} => s.delivery = r.delivery
  /\ s.gen >= r.gen /\ s.dgen >= r.dgen

\* What call c may do to a stored row r: s is the row it has computed from r.
Writes(c, r, s) ==
  /\ r.decision # "absent" /\ s.decision # "absent" /\ RowAgrees(s) /\ Keeps(r, s)
  /\ s.decision \in {"pending", "superseded"} => r.decision = s.decision
  /\ c.op \in Commands /\ c.status = "applied" => r.decision = "pending" /\ s.decision = c.op
  /\ s.work \in Settled => \/ r.work = s.work /\ r.gen = s.gen
                           \/ c.op = s.work /\ c.gen = s.gen
  /\ IF c.op = "claim" THEN s.gen = r.gen + 1 /\ s.holder = c.who
     ELSE s.gen = r.gen /\ (s.work = "executing" => r.work = "executing" /\ s.holder = r.holder)
  /\ IF c.op = "admit" THEN r.delivery = "pending"
     ELSE s.delivery = "admitted" => r.delivery = "admitted"
  /\ s.work \in Settled /\ r.work \notin Settled => r.decision = "approved"
  /\ r.delivery = "none" => s.delivery \in {"none", "pending"}

\* How one stored row may change in one step.
RowStep(r, s) ==
  \/ s = r
  \/ Keeps(r, s) /\ s.version = r.version + 1
  \/ Keeps(r, s) /\ s.version = r.version /\ r.decision = "absent"

\* A stored row says one thing, and a settled one what the tool returned to its claim.
RowSound(p, row, e) ==
  /\ RowAgrees(row)
  /\ row.decision = "absent" => row = AbsentRow
  /\ row.work \in Settled => Returned(p, row.gen, row.work) \in e

\* A call against table t and history e.
Sound(c, t, e) ==
  /\ c.op = "claim" /\ c.status = "applied" => t[c.p].decision = "approved"
  /\ c.op \in Commands /\ c.status = "applied" /\ c.done => t[c.p].decision = c.op
  /\ ~c.done =>
       /\ c.next.version <= t[c.p].version + 1
       /\ c.next.version = t[c.p].version + 1 => Writes(c, t[c.p], c.next)
       /\ c.op \in Settled => Returned(c.p, c.gen, c.op) \in e

\* Every store call somebody has in hand, and what holds of rows, calls, ticks and executions.
Calls == {decider[d] : d \in Deciders} \cup {loop[w].call : w \in Workers} \cup {j.call : j \in jobs}

RowsSound  == \A p \in Proposals : RowSound(p, rows[p], effects)
CallsSound == \A c \in Calls : Sound(c, rows, effects)
LoopSound(l) ==
  /\ l.pc \in {"idle", "select", "await", "pull"} => l.call.op = "none"
  /\ l.pc = "claim" => l.call.op \in {"none", "claim"}
  /\ l.pc = "admit" => ~l.call.done
LoopsSound == \A w \in Workers : LoopSound(loop[w])
JobsSound  == \A j \in jobs : j.pc # "run" => Returned(j.p, j.gen, j.result) \in effects
DecidersSound == \A d \in Deciders : decider[d].op \in Commands \cup {"none"}

\* A step after which everything is sound and every row has moved as a writer may move it.
SafeStep ==
  /\ RowsSound' /\ CallsSound' /\ LoopsSound' /\ JobsSound' /\ DecidersSound'
  /\ \A p \in Proposals : RowStep(rows[p], rows'[p])

\* The inductive invariant.
StoreInv == TypeInv /\ RowsSound /\ CallsSound /\ LoopsSound /\ JobsSound /\ DecidersSound

-----------------------------------------------------------------------------
(* A refusal closes a pending row under its own name.                      *)
LEMMA CloseAgrees ==
  ASSUME NEW row \in Row, RowAgrees(row), row.decision = "pending",
         NEW decision \in {"rejected", "expired"}
  PROVE  /\ RowAgrees(Close(row, decision)) /\ Keeps(row, Close(row, decision))
         /\ Close(row, decision).decision = decision
         /\ Close(row, decision).work = "none" /\ Close(row, decision).delivery = "pending"
         /\ Close(row, decision).gen = row.gen
<1> DEFINE s == [row EXCEPT !.decision = decision, !.outcome = decision, !.delivery = "pending"]
<1>1. row.work = "none" /\ row.outcome = "none" /\ row.delivery = "none"
      /\ row.holder = None /\ row.supersededBy = None
  BY DEF RowAgrees, Settled, Refused, Row, Deliveries, Works
<1>2. Close(row, decision) = s
  BY <1>1 DEF Close, AttachOutcome, Settled, Row
<1>3. /\ s.decision = decision /\ s.work = "none" /\ s.outcome = decision
      /\ s.delivery = "pending" /\ s.holder = None /\ s.supersededBy = None
      /\ s.gen = row.gen /\ s.dgen = row.dgen /\ row.gen \in Nat /\ row.dgen \in Nat
  BY <1>1 DEF Row
<1> HIDE DEF s
<1>4. RowAgrees(s)
  BY <1>3 DEF RowAgrees, Settled, Refused
<1>5. Keeps(row, s)
  BY <1>1, <1>3 DEF Keeps
<1> QED BY <1>2, <1>3, <1>4, <1>5

(* The version of a row is the store's own: no transition looks at it.     *)
LEMMA VersionBlind ==
  ASSUME NEW c, NEW r \in Row, NEW s \in Row, Writes(c, r, s)
  PROVE  Writes(c, r, [s EXCEPT !.version = @ + 1])
<1> DEFINE b == [s EXCEPT !.version = @ + 1]
<1>1. /\ b.decision = s.decision /\ b.supersededBy = s.supersededBy /\ b.work = s.work
      /\ b.gen = s.gen /\ b.holder = s.holder /\ b.outcome = s.outcome
      /\ b.delivery = s.delivery /\ b.dgen = s.dgen
  BY DEF Row
<1> HIDE DEF b
<1>2. RowAgrees(b) /\ Keeps(r, b)
  BY <1>1 DEF Writes, RowAgrees, Keeps
<1> QED BY <1>1, <1>2 DEF Writes, b

(* A decision stores what its caller asked for, or the expiry of a row     *)
(* whose deadline had passed; only the first is answered `applied`.        *)
LEMMA DecideWrites ==
  ASSUME NEW c, NEW row \in Row, RowAgrees(row), NEW now \in Nat, c.op \in Commands,
         c.status = Decide(row, c.op, now).status
  PROVE  \/ Decide(row, c.op, now).row = row /\ c.status # "applied"
         \/ Writes(c, row, Decide(row, c.op, now).row)
<1> DEFINE approved == [row EXCEPT !.decision = "approved", !.work = "queued"]
           answer   == Decide(row, c.op, now)
<1>1. CASE row.decision # "pending"
  BY <1>1 DEF Decide, Answer
<1>2. ASSUME row.decision = "pending", NEW d \in {"rejected", "expired"},
             answer.row = Close(row, d), c.status = "applied" => c.op = d
      PROVE  Writes(c, row, answer.row)
  BY <1>2, CloseAgrees DEF Writes, Settled, Commands
<1>3. CASE row.decision = "pending" /\ Due(row, now)
  <2>1. answer.row = Close(row, "expired") /\ (answer.status = "applied" => c.op = "expired")
    BY <1>3 DEF Decide, Answer
  <2> QED BY <1>2, <1>3, <2>1
<1>4. CASE row.decision = "pending" /\ ~Due(row, now) /\ c.op = "expired"
  BY <1>4 DEF Decide, Answer
<1>5. CASE row.decision = "pending" /\ ~Due(row, now) /\ c.op = "approved"
  <2>1. answer.row = approved /\ row.outcome = "none" /\ row.delivery = "none"
    BY <1>5 DEF Decide, Answer, RowAgrees, Settled, Refused, Row, Deliveries, Works
  <2>2. /\ approved.decision = "approved" /\ approved.work = "queued" /\ approved.outcome = "none"
        /\ approved.delivery = "none" /\ approved.holder = row.holder
        /\ approved.supersededBy = row.supersededBy
        /\ approved.gen = row.gen /\ approved.dgen = row.dgen /\ row.gen \in Nat /\ row.dgen \in Nat
    BY <2>1 DEF Row
  <2> HIDE DEF approved
  <2>3. RowAgrees(approved)
    BY <1>5, <2>2 DEF RowAgrees, Settled, Refused
  <2>4. Keeps(row, approved)
    BY <1>5, <2>1, <2>2 DEF Keeps
  <2> QED BY <1>5, <2>1, <2>2, <2>3, <2>4 DEF Writes, Settled
<1>6. CASE row.decision = "pending" /\ ~Due(row, now) /\ c.op = "rejected"
  <2>1. answer.row = Close(row, "rejected")
    BY <1>6 DEF Decide, Answer
  <2> QED BY <1>2, <1>6, <2>1
<1> QED BY <1>1, <1>3, <1>4, <1>5, <1>6 DEF Commands

(* A claim takes an approved, unsettled row.                               *)
LEMMA ClaimWrites ==
  ASSUME NEW c, NEW row \in Row, RowAgrees(row), NEW w \in Workers, NEW now \in Nat,
         c.op = "claim", c.who = w, c.status = Claim(row, w, now).status
  PROVE  /\ \/ Claim(row, w, now).row = row /\ c.status # "applied"
            \/ Writes(c, row, Claim(row, w, now).row)
         /\ c.status = "applied" => row.decision = "approved"
<1> DEFINE s == [row EXCEPT !.work = "executing", !.gen = @ + 1,
                            !.holder = w, !.until = now + Lease]
<1>1. CASE ~Claimable(row, now)
  BY <1>1 DEF Claim, Answer
<1>2. CASE Claimable(row, now)
  <2>1. /\ Claim(row, w, now).row = s /\ row.decision = "approved"
        /\ row.outcome = "none" /\ row.delivery = "none"
    BY <1>2 DEF Claim, Answer, Claimable, RowAgrees, Settled, Refused, Row, Deliveries
  <2>2. /\ s.decision = "approved" /\ s.work = "executing" /\ s.outcome = "none"
        /\ s.delivery = "none" /\ s.holder = w /\ s.supersededBy = row.supersededBy
        /\ s.gen = row.gen + 1 /\ s.dgen = row.dgen /\ row.gen \in Nat /\ row.dgen \in Nat
    BY <2>1 DEF Row
  <2> HIDE DEF s
  <2>3. RowAgrees(s)
    BY <2>1, <2>2, NoneAssumption DEF NoneAssumption, RowAgrees, Settled, Refused
  <2>4. Keeps(row, s)
    BY <2>1, <2>2 DEF Keeps
  <2> QED BY <2>1, <2>2, <2>3, <2>4 DEF Writes, Settled, Commands
<1> QED BY <1>1, <1>2

(* A renewal moves the end of the lease and nothing else.                  *)
LEMMA ExtendWrites ==
  ASSUME NEW c, NEW row \in Row, RowAgrees(row), NEW w, NEW gen, NEW now \in Nat,
         c.op = "extend"
  PROVE  \/ Extend(row, w, gen, now).row = row
         \/ Writes(c, row, Extend(row, w, gen, now).row)
<1> DEFINE s == [row EXCEPT !.until = IF @ > now + Lease THEN @ ELSE now + Lease]
<1>1. CASE LeaseStatus(row, w, gen, now) # "valid"
  BY <1>1 DEF Extend, Answer
<1>2. CASE LeaseStatus(row, w, gen, now) = "valid"
  <2>1. Extend(row, w, gen, now).row = s /\ row.decision = "approved" /\ row.work = "executing"
    BY <1>2 DEF Extend, Answer, LeaseStatus
  <2>2. /\ s.decision = row.decision /\ s.supersededBy = row.supersededBy /\ s.work = row.work
        /\ s.gen = row.gen /\ s.holder = row.holder /\ s.outcome = row.outcome
        /\ s.delivery = row.delivery /\ s.dgen = row.dgen /\ row.gen \in Nat /\ row.dgen \in Nat
    BY DEF Row
  <2> HIDE DEF s
  <2>3. RowAgrees(s)
    BY <2>2 DEF RowAgrees
  <2>4. Keeps(row, s)
    BY <2>2 DEF Keeps
  <2> QED BY <2>1, <2>2, <2>3, <2>4 DEF Writes, Settled, Commands
<1> QED BY <1>1, <1>2

(* A settlement, by the holder of the lease only, records its result.      *)
LEMMA SettleWrites ==
  ASSUME NEW c, NEW row \in Row, RowAgrees(row), NEW w, NEW now \in Nat, c.op \in Settled
  PROVE  \/ Settle(row, w, c.gen, c.op, now).row = row
         \/ Writes(c, row, Settle(row, w, c.gen, c.op, now).row)
<1> DEFINE r == [row EXCEPT !.work = c.op, !.holder = None, !.until = 0]
           s == [r EXCEPT !.outcome = c.op, !.delivery = "pending"]
<1>1. CASE LeaseStatus(row, w, c.gen, now) # "valid"
  BY <1>1 DEF Settle, Answer
<1>2. CASE LeaseStatus(row, w, c.gen, now) = "valid"
  <2>1. /\ row.decision = "approved" /\ row.work = "executing" /\ row.gen = c.gen
        /\ row.outcome = "none" /\ row.delivery = "none"
    BY <1>2 DEF LeaseStatus, RowAgrees, Settled, Refused, Row, Deliveries
  <2>2. AttachOutcome(r) = s
    BY <2>1 DEF AttachOutcome, Row
  <2>3. Settle(row, w, c.gen, c.op, now).row = s
    BY <1>2, <2>2 DEF Settle, Answer
  <2>4. /\ s.decision = "approved" /\ s.work = c.op /\ s.outcome = c.op /\ s.delivery = "pending"
        /\ s.holder = None /\ s.supersededBy = row.supersededBy
        /\ s.gen = row.gen /\ s.dgen = row.dgen /\ row.gen \in Nat /\ row.dgen \in Nat
    BY <2>1 DEF Row
  <2> HIDE DEF s
  <2>5. RowAgrees(s)
    BY <2>1, <2>4 DEF RowAgrees, Settled, Refused
  <2>6. Keeps(row, s)
    BY <2>1, <2>4 DEF Keeps
  <2> QED BY <2>1, <2>3, <2>4, <2>5, <2>6 DEF Writes, Settled, Commands
<1> QED BY <1>1, <1>2

(* Leasing an outcome for delivery leaves what happened alone.             *)
LEMMA ClaimOutcomeWrites ==
  ASSUME NEW c, NEW row \in Row, RowAgrees(row), NEW w, NEW now \in Nat, c.op = "pull"
  PROVE  \/ ClaimOutcome(row, w, now).row = row
         \/ Writes(c, row, ClaimOutcome(row, w, now).row)
<1> DEFINE s == [row EXCEPT !.dgen = @ + 1, !.dholder = w, !.duntil = now + Lease]
<1>1. CASE ~Deliverable(row, now)
  BY <1>1 DEF ClaimOutcome, Answer
<1>2. CASE Deliverable(row, now)
  <2>1. /\ ClaimOutcome(row, w, now).row = s /\ row.outcome # "none" /\ row.delivery = "pending"
    BY <1>2 DEF ClaimOutcome, Answer, Deliverable
  <2>2. /\ s.decision = row.decision /\ s.supersededBy = row.supersededBy /\ s.work = row.work
        /\ s.gen = row.gen /\ s.holder = row.holder /\ s.outcome = row.outcome
        /\ s.delivery = row.delivery /\ s.dgen = row.dgen + 1 /\ row.gen \in Nat /\ row.dgen \in Nat
    BY DEF Row
  <2> HIDE DEF s
  <2>3. RowAgrees(s) /\ row.decision # "absent"
    BY <2>1, <2>2 DEF RowAgrees, Settled, Refused
  <2>4. Keeps(row, s)
    BY <2>2 DEF Keeps
  <2> QED BY <2>1, <2>2, <2>3, <2>4 DEF Writes, Settled, Commands
<1> QED BY <1>1, <1>2

(* Whatever a store call asks for, the row it computes is one it may write *)
(* over the row it read.                                                   *)
LEMMA TransitionWrites ==
  ASSUME NEW c \in Call, c.op \in MutateOps, CallFormed(c), clock \in Nat,
         NEW row \in Row, RowAgrees(row),
         NEW x, x.op = c.op, x.gen = c.gen, x.who = c.who, x.status = Transition(c, row).status
  PROVE  /\ \/ /\ Transition(c, row).row = row
               /\ c.op \in Commands \cup {"claim"} => x.status # "applied"
            \/ Writes(x, row, Transition(c, row).row)
         /\ c.op = "claim" /\ x.status = "applied" => row.decision = "approved"
<1>1. CASE c.op \in Commands
  <2>1. Transition(c, row) = Decide(row, c.op, clock) /\ c.op # "claim"
    BY <1>1 DEF Transition, Commands, Settled
  <2> QED BY <1>1, <2>1, DecideWrites
<1>2. CASE c.op = "claim"
  <2>1. c.who \in Workers
    BY <1>2 DEF CallFormed
  <2>2. Transition(c, row) = Claim(row, c.who, clock) /\ c.op \notin Commands
    BY <1>2 DEF Transition, Commands, Settled
  <2> QED BY <1>2, <2>1, <2>2, ClaimWrites
<1>3. CASE c.op = "extend"
  <2>1. Transition(c, row) = Extend(row, c.who, c.gen, clock) /\ c.op \notin Commands
    BY <1>3 DEF Transition, Commands, Settled
  <2> QED BY <1>3, <2>1, ExtendWrites
<1>4. CASE c.op \in Settled
  <2>1. Transition(c, row) = Settle(row, c.who, x.gen, x.op, clock)
        /\ c.op \notin Commands /\ c.op # "claim"
    BY <1>4 DEF Transition, Commands, Settled
  <2> QED BY <1>4, <2>1, SettleWrites
<1>5. CASE c.op = "pull"
  <2>1. Transition(c, row) = ClaimOutcome(row, c.who, clock) /\ c.op \notin Commands
    BY <1>5 DEF Transition, Commands, Settled
  <2> QED BY <1>5, <2>1, ClaimOutcomeWrites
<1> QED BY <1>1, <1>2, <1>3, <1>4, <1>5 DEF MutateOps

(* A call that has just read is sound against what it read.                *)
LEMMA ReadSound ==
  ASSUME NEW c \in Call, c.op \in MutateOps, CallFormed(c), clock \in Nat,
         rows \in [Proposals -> Row], RowsSound,
         c.op \in Settled => Returned(c.p, c.gen, c.op) \in effects
  PROVE  Sound(Read(c), rows, effects)
<1> DEFINE row    == rows[c.p]
           answer == Transition(c, row)
           quiet  == [c EXCEPT !.done = TRUE, !.status = answer.status, !.next = AbsentRow]
           moved  == [answer.row EXCEPT !.version = @ + 1]
           asking == [c EXCEPT !.done = FALSE, !.status = answer.status, !.next = moved]
<1>1. c.p \in Proposals /\ c.op # "admit"
  BY DEF CallFormed, MutateOps, Commands, Settled
<1>2. row \in Row /\ RowAgrees(row)
  BY <1>1 DEF RowsSound, RowSound
<1>3. answer.row \in Row /\ answer.row.version = row.version
  BY <1>1, <1>2, TransitionType
<1>4. moved.version = row.version + 1 /\ row.version \in Nat
  BY <1>2, <1>3 DEF Row
<1>5. /\ quiet.op = c.op /\ quiet.p = c.p /\ quiet.gen = c.gen /\ quiet.who = c.who
      /\ quiet.done /\ quiet.status = answer.status
      /\ asking.op = c.op /\ asking.p = c.p /\ asking.gen = c.gen /\ asking.who = c.who
      /\ ~asking.done /\ asking.status = answer.status /\ asking.next = moved
  BY DEF Call
<1>6. Read(c) = IF answer.row = row THEN quiet ELSE asking
  BY DEF Read
<1> HIDE DEF answer, quiet, asking
<1>7. CASE answer.row = row
  <2>1. /\ c.op = "claim" /\ quiet.status = "applied" => row.decision = "approved"
        /\ c.op \in Commands /\ quiet.status = "applied" => row.decision = c.op
    BY <1>2, <1>5, <1>7, TransitionWrites DEF answer, Writes
  <2>2. Read(c) = quiet
    BY <1>6, <1>7
  <2> QED BY <1>5, <2>1, <2>2 DEF Sound
<1>8. CASE answer.row # row
  <2>1. /\ c.op = "claim" /\ asking.status = "applied" => row.decision = "approved"
        /\ Writes(asking, row, answer.row)
    BY <1>2, <1>5, <1>8, TransitionWrites DEF answer
  <2>2. Writes(asking, row, moved)
    BY <1>2, <1>3, <2>1, VersionBlind
  <2>3. Read(c) = asking
    BY <1>6, <1>8
  <2> HIDE DEF moved
  <2> QED BY <1>4, <1>5, <2>1, <2>2, <2>3 DEF Sound
<1> QED BY <1>7, <1>8

(* Other writers leave a call sound: what it has computed is then no       *)
(* longer one version ahead, and what it was told stands.                  *)
LEMMA SoundStable ==
  ASSUME NEW c \in Call, CallFormed(c), NEW t \in [Proposals -> Row], NEW u \in [Proposals -> Row],
         NEW e, NEW f, Sound(c, t, e), e \subseteq f,
         c.op # "none" => RowStep(t[c.p], u[c.p])
  PROVE  Sound(c, u, f)
<1>1. CASE c.op = "none"
  BY <1>1 DEF Sound, CallFormed, Settled, Commands
<1>2. CASE c.op # "none"
  <2> DEFINE r == t[c.p]
             s == u[c.p]
  <2>1. c.p \in Proposals /\ r.version \in Nat /\ s.version \in Nat /\ c.next.version \in Nat
    BY <1>2 DEF CallFormed, Row, Call
  <2>2. RowStep(r, s)
    BY <1>2
  <2> HIDE DEF r, s
  <2>3. c.op = "claim" /\ c.status = "applied" => s.decision = "approved"
    BY <2>2 DEF Sound, RowStep, Keeps, r
  <2>4. c.op \in Commands /\ c.status = "applied" /\ c.done => s.decision = c.op
    BY <2>2 DEF Sound, RowStep, Keeps, r, Commands
  <2>5. ASSUME ~c.done
        PROVE  /\ c.next.version <= s.version + 1
               /\ c.next.version = s.version + 1 => Writes(c, s, c.next)
    <3>1. /\ c.next.version <= r.version + 1
          /\ c.next.version = r.version + 1 => Writes(c, r, c.next)
      BY <2>5 DEF Sound, r
    <3>2. CASE s = r
      BY <3>1, <3>2
    <3>3. CASE s.version = r.version + 1
      BY <2>1, <3>1, <3>3
    <3>4. CASE s.version = r.version /\ r.decision = "absent"
      BY <2>1, <3>1, <3>4 DEF Writes
    <3> QED BY <2>2, <3>2, <3>3, <3>4 DEF RowStep
  <2> QED BY <2>3, <2>4, <2>5 DEF Sound, s
<1> QED BY <1>1, <1>2

(* The UPDATE stores a row that is sound, and moves no other.              *)
LEMMA UpdateRows ==
  ASSUME NEW c \in Call, CallFormed(c), ~c.done, Sound(c, rows, effects),
         rows \in [Proposals -> Row], RowsSound, NEW p \in Proposals
  PROVE  /\ RowStep(rows[p], RowsAfter(c)[p])
         /\ RowSound(p, RowsAfter(c)[p], effects)
<1>1. c.p \in Proposals
  BY DEF CallFormed
<1>2. CASE ~(Current(c) /\ p = c.p)
  <2>1. RowsAfter(c)[p] = rows[p]
    BY <1>1, <1>2 DEF RowsAfter
  <2> QED BY <2>1 DEF RowStep, RowsSound
<1>3. CASE Current(c) /\ p = c.p
  <2>1. RowsAfter(c)[p] = c.next
    BY <1>1, <1>3 DEF RowsAfter
  <2>2. c.next.version = rows[p].version + 1 /\ Writes(c, rows[p], c.next)
    BY <1>3 DEF Current, Sound
  <2>3. c.op \in Settled => Returned(p, c.gen, c.op) \in effects
    BY <1>3 DEF Sound
  <2>4. RowSound(p, c.next, effects)
    BY <2>2, <2>3 DEF RowSound, RowsSound, Writes
  <2> QED BY <2>1, <2>2, <2>4 DEF RowStep, Writes
<1> QED BY <1>2, <1>3

(* Whoever is told the answer of an UPDATE is told the truth.              *)
LEMMA CallAfterSound ==
  ASSUME NEW c \in Call, c.op \in MutateOps, CallFormed(c), ~c.done, Sound(c, rows, effects),
         rows \in [Proposals -> Row], RowsSound, clock \in Nat
  PROVE  Sound(CallAfter(c), RowsAfter(c), effects)
<1> DEFINE won   == [c EXCEPT !.done = TRUE, !.next = AbsentRow,
                              !.gen = IF c.op = "pull" THEN c.next.dgen ELSE c.next.gen]
           again == [c EXCEPT !.tries = @ + 1]
           lost  == [c EXCEPT !.done = TRUE, !.status = "conflict", !.next = AbsentRow]
<1>1. c.p \in Proposals
  BY DEF CallFormed
<1>2. /\ won.op = c.op /\ won.p = c.p /\ won.status = c.status /\ won.done
      /\ lost.op = c.op /\ lost.p = c.p /\ lost.status = "conflict" /\ lost.done
  BY DEF Call
<1>3. /\ again \in Call /\ again.op \in MutateOps /\ CallFormed(again)
      /\ again.op = c.op /\ again.p = c.p /\ again.gen = c.gen
  BY DEF Call, CallFormed
<1> HIDE DEF won, again, lost
<1>4. CASE Current(c)
  <2>1. CallAfter(c) = won /\ RowsAfter(c)[c.p] = c.next
    BY <1>1, <1>4 DEF CallAfter, RowsAfter, won
  <2>2. Writes(c, rows[c.p], c.next)
    BY <1>4 DEF Current, Sound
  <2>3. c.op \in Commands /\ c.status = "applied" => c.next.decision = c.op
    BY <2>2 DEF Writes
  <2>4. c.op = "claim" /\ c.status = "applied" => c.next.decision = "approved"
    BY <2>2 DEF Writes, Sound, Keeps
  <2> QED BY <1>2, <2>1, <2>3, <2>4 DEF Sound
<1>5. CASE ~Current(c) /\ c.tries + 1 < MaxAttempts
  <2>1. CallAfter(c) = Read(again) /\ RowsAfter(c) = rows
    BY <1>5 DEF CallAfter, RowsAfter, again
  <2>2. again.op \in Settled => Returned(again.p, again.gen, again.op) \in effects
    BY <1>3 DEF Sound
  <2>3. Sound(Read(again), rows, effects)
    BY <1>3, <2>2, ReadSound
  <2> QED BY <2>1, <2>3
<1>6. CASE ~Current(c) /\ ~(c.tries + 1 < MaxAttempts)
  <2>1. CallAfter(c) = lost
    BY <1>6 DEF CallAfter, lost
  <2> QED BY <1>2, <2>1 DEF Sound
<1> QED BY <1>4, <1>5, <1>6

(* The end of a call, however it ended, asks for nothing.                  *)
LEMMA QuietSound ==
  ASSUME NEW c, c.done, c.op = "none" \/ c.status # "applied", NEW t, NEW e
  PROVE  Sound(c, t, e)
BY DEF Sound, Commands

(* Creating a proposal closes its pending siblings.                        *)
LEMMA SupersededRow ==
  ASSUME rows \in [Proposals -> Row], RowsSound, clock \in Nat,
         NEW p \in Proposals, NEW q \in Siblings(p)
  PROVE  /\ RowStep(rows[q], Superseded(q, p)) /\ RowSound(q, Superseded(q, p), effects)
         /\ Superseded(q, p).decision \in {"expired", "superseded"}
         /\ Superseded(q, p).decision = "superseded" => Superseded(q, p).supersededBy = p
         /\ Superseded(q, p).delivery = "pending"
<1> DEFINE row == rows[q]
           old == Close(row, "expired")
           new == [row EXCEPT !.supersededBy = p, !.decision = "superseded",
                              !.outcome = "superseded", !.delivery = "pending"]
<1>1. /\ q \in Proposals /\ q # p /\ row \in Row /\ RowAgrees(row) /\ row.decision = "pending"
      /\ Group[q] = Group[p] /\ Group[q] # NoGroup
  BY DEF Siblings, RowsSound, RowSound
<1>2. row.work = "none" /\ row.outcome = "none" /\ row.delivery = "none" /\ row.holder = None
  BY <1>1 DEF RowAgrees, Settled, Refused, Row, Deliveries, Works
<1>3. Close([row EXCEPT !.supersededBy = p], "superseded") = new
  BY <1>1, <1>2 DEF Close, AttachOutcome, Settled, Row
<1>4. Supersede(row, q, p, clock).row = IF Due(row, clock) THEN old ELSE new
  BY <1>1, <1>3 DEF Supersede, Answer
<1>5. /\ new.decision = "superseded" /\ new.supersededBy = p /\ new.work = "none"
      /\ new.outcome = "superseded" /\ new.delivery = "pending" /\ new.holder = None
      /\ new.gen = row.gen /\ new.dgen = row.dgen /\ row.gen \in Nat /\ row.dgen \in Nat
      /\ new \in Row /\ new.version = row.version
  BY <1>1, <1>2 DEF Row, Decisions, Outcomes, Refused, Deliveries
<1> HIDE DEF new
<1>6. RowAgrees(new) /\ Keeps(row, new)
  <2>1. RowAgrees(new)
    BY <1>5, NoneAssumption DEF NoneAssumption, RowAgrees, Settled, Refused
  <2>2. Keeps(row, new)
    BY <1>1, <1>2, <1>5 DEF Keeps
  <2> QED BY <2>1, <2>2
<1>7. /\ old \in Row /\ old.version = row.version /\ old.decision = "expired" /\ old.work = "none"
      /\ old.delivery = "pending" /\ RowAgrees(old) /\ Keeps(row, old)
  BY <1>1, CloseAgrees, CloseType DEF Refused
<1> HIDE DEF old
<1>8. PICK s \in {old, new} : Superseded(q, p) = [s EXCEPT !.version = @ + 1]
  <2>1. old # row /\ new # row
    BY <1>1, <1>5, <1>7
  <2> QED BY <1>4, <2>1 DEF Superseded
<1>9. /\ s \in Row /\ s.version = row.version /\ s.work = "none" /\ s.delivery = "pending"
      /\ RowAgrees(s) /\ Keeps(row, s) /\ s.decision \in {"expired", "superseded"}
      /\ s.decision = "superseded" => s.supersededBy = p
  BY <1>5, <1>6, <1>7
<1> DEFINE b == [s EXCEPT !.version = @ + 1]
<1>10. /\ b.decision = s.decision /\ b.supersededBy = s.supersededBy /\ b.work = s.work
       /\ b.gen = s.gen /\ b.holder = s.holder /\ b.outcome = s.outcome
       /\ b.delivery = s.delivery /\ b.dgen = s.dgen /\ b.version = row.version + 1
  BY <1>9 DEF Row
<1> HIDE DEF b
<1>11. RowAgrees(b) /\ Keeps(row, b)
  BY <1>9, <1>10 DEF RowAgrees, Keeps
<1>12. RowStep(row, b) /\ RowSound(q, b, effects)
  BY <1>9, <1>10, <1>11 DEF RowStep, RowSound, Settled
<1> QED BY <1>8, <1>9, <1>10, <1>12 DEF b

(* A creation inserts its row and closes the siblings, or does nothing.    *)
LEMMA CreateRows ==
  ASSUME StoreOK, RowsSound, NEW p \in Proposals, CreateActionProposal(p), NEW q \in Proposals
  PROVE  RowStep(rows[q], rows'[q]) /\ RowSound(q, rows'[q], effects)
<1>1. rows \in [Proposals -> Row] /\ clock \in Nat /\ RowSound(q, rows[q], effects)
  BY DEF StoreOK, RowsSound
<1>2. CASE rows'[q] = rows[q]
  BY <1>1, <1>2 DEF RowStep
<1>3. CASE q # p /\ q \in Siblings(p) /\ rows'[q] = Superseded(q, p)
  BY <1>1, <1>3, SupersededRow
<1>4. CASE q = p /\ rows[p].decision = "absent" /\ rows'[p] = InitialActionProposal(deadline[p])
  <2> DEFINE s == InitialActionProposal(deadline[p])
  <2>1. rows[p] = AbsentRow
    BY <1>1, <1>4 DEF RowSound
  <2>2. /\ s.decision = "pending" /\ s.work = "none" /\ s.holder = None /\ s.supersededBy = None
        /\ s.outcome = "none" /\ s.delivery = "none" /\ s.gen = 0 /\ s.dgen = 0 /\ s.version = 0
    BY DEF InitialActionProposal, AbsentRow
  <2>3. /\ AbsentRow.gen = 0 /\ AbsentRow.dgen = 0 /\ AbsentRow.version = 0
        /\ AbsentRow.outcome = "none" /\ AbsentRow.delivery = "none" /\ AbsentRow.decision = "absent"
    BY DEF AbsentRow
  <2> HIDE DEF s
  <2>4. RowAgrees(s) /\ Keeps(AbsentRow, s)
    BY <2>2, <2>3 DEF RowAgrees, Keeps, Settled, Refused
  <2>5. RowStep(AbsentRow, s) /\ RowSound(q, s, effects)
    BY <2>2, <2>3, <2>4 DEF RowStep, RowSound, Settled
  <2> QED BY <1>4, <2>1, <2>5 DEF s
<1>5. CASE rows[p].decision = "absent"
  <2>1. rows'[q] = IF q = p THEN InitialActionProposal(deadline[p])
                   ELSE IF q \in Siblings(p) THEN Superseded(q, p) ELSE rows[q]
    BY <1>5 DEF CreateActionProposal
  <2> QED BY <1>2, <1>3, <1>4, <1>5, <2>1
<1>6. CASE rows[p].decision # "absent"
  BY <1>2, <1>6 DEF CreateActionProposal
<1> QED BY <1>5, <1>6

-----------------------------------------------------------------------------
(* Every call in anybody's hands is well formed.                           *)
LEMMA CallsFormed == ASSUME TypeInv, NEW c \in Calls PROVE c \in Call /\ CallFormed(c)
BY DEF TypeInv, DeciderOK, LoopOK, JobsOK, JobOK, Job, Loop, Calls

(* Calls stay sound in a step that moves rows as a writer may and hands    *)
(* out sound calls only.                                                   *)
LEMMA CallsKeep ==
  ASSUME TypeInv, CallsSound, rows' \in [Proposals -> Row],
         \A p \in Proposals : RowStep(rows[p], rows'[p]), effects \subseteq effects',
         \A c \in Calls' : c \in Calls \/ c = Idle \/ Sound(c, rows', effects')
  PROVE  CallsSound'
<1> SUFFICES ASSUME NEW c \in Calls' PROVE Sound(c, rows', effects')
  BY DEF CallsSound
<1>1. CASE c \in Calls
  <2>1. c \in Call /\ CallFormed(c) /\ Sound(c, rows, effects) /\ rows \in [Proposals -> Row]
    BY <1>1, CallsFormed DEF CallsSound, TypeInv, StoreOK
  <2>2. c.op # "none" => c.p \in Proposals
    BY <2>1 DEF CallFormed
  <2>3. c.op # "none" => RowStep(rows[c.p], rows'[c.p])
    BY <2>2
  <2> QED BY <2>1, <2>3, SoundStable
<1>2. CASE c = Idle
  BY <1>2, QuietSound DEF Idle
<1> QED BY <1>1, <1>2

(* Rows stay sound when none changes: what was returned stays returned.    *)
LEMMA RowsKeep ==
  ASSUME RowsSound, rows' = rows, effects \subseteq effects'
  PROVE  RowsSound' /\ \A p \in Proposals : RowStep(rows[p], rows'[p])
BY DEF RowsSound, RowSound, RowStep

(* A tick that moves on is sound: it holds no call.                        *)
LEMMA GoToSound ==
  ASSUME TypeInv, LoopsSound, NEW w \in Workers, NEW pc, pc # "admit", NEW count, GoTo(w, pc, count)
  PROVE  LoopsSound' /\ \A v \in Workers : loop'[v].call \in {loop[v].call, Idle}
<1> DEFINE new == [loop[w] EXCEPT !.pc = pc, !.count = count, !.scan = {}, !.call = Idle]
<1>1. loop[w] \in Loop /\ loop \in [Workers -> Loop]
  BY DEF TypeInv, LoopOK
<1>2. new.call = Idle /\ new.pc = pc
  BY <1>1 DEF Loop
<1>3. loop' = [loop EXCEPT ![w] = new]
  BY <1>1 DEF GoTo
<1> HIDE DEF new
<1>4. LoopSound(new)
  BY <1>2, IdleType DEF LoopSound
<1> QED BY <1>1, <1>2, <1>3, <1>4 DEF LoopsSound

(* A tick that issues a call has a sound one.                              *)
LEMMA IssueSound ==
  ASSUME TypeInv, RowsSound, LoopsSound, NEW w \in Workers, NEW p \in Proposals,
         NEW op \in {"expired", "claim", "pull"}, Issue(w, p, op),
         loop[w].pc \in {"expire", "claim", "outcome"}, loop[w].pc = "claim" => op = "claim"
  PROVE  /\ LoopsSound'
         /\ \A v \in Workers : \/ loop'[v].call = loop[v].call
                               \/ Sound(loop'[v].call, rows, effects)
<1> DEFINE rq  == Request(op, p, w, 0)
           new == [loop[w] EXCEPT !.scan = @ \ {p}, !.call = Read(rq)]
<1>1. loop[w] \in Loop /\ loop \in [Workers -> Loop] /\ rows \in [Proposals -> Row] /\ clock \in Nat
  BY DEF TypeInv, LoopOK, StoreOK
<1>2. op \in MutateOps /\ op \notin Settled
  BY DEF MutateOps, Commands, Settled
<1>3. rq \in Call /\ CallFormed(rq) /\ rq.op = op
  BY <1>2, RequestType
<1> HIDE DEF rq
<1>4. Sound(Read(rq), rows, effects)
  BY <1>1, <1>2, <1>3, ReadSound
<1>5. Read(rq).op = op
  BY <1>1, <1>2, <1>3, ReadType DEF SameRequest
<1>6. new.call = Read(rq) /\ new.pc = loop[w].pc
  BY <1>1 DEF Loop
<1>7. loop' = [loop EXCEPT ![w] = new]
  BY <1>1 DEF Issue, rq
<1> HIDE DEF new
<1>8. LoopSound(new)
  BY <1>5, <1>6 DEF LoopSound
<1> QED BY <1>1, <1>4, <1>6, <1>7, <1>8 DEF LoopsSound

(* The steps of a tick that store nothing.                                 *)
LEMMA SafeTick ==
  ASSUME StoreInv, NEW w \in Workers,
         \/ StartTick(w) \/ ExpireEnd(w) \/ SelectWork(w) \/ ClaimWon(w) \/ ClaimNone(w)
         \/ AwaitEnd(w) \/ SelectOutcomes(w) \/ PullNone(w)
         \/ \E p \in Proposals : ExpireNext(w, p) \/ ClaimNext(w, p) \/ PullNext(w, p)
  PROVE  SafeStep
<1> USE DEF StoreInv, SafeStep
<1>1. /\ loop \in [Workers -> Loop] /\ loop[w] \in Loop
      /\ rows \in [Proposals -> Row]
  BY DEF TypeInv, LoopOK, StoreOK
<1>2. rows' = rows /\ effects' = effects /\ decider' = decider
  BY DEF StartTick, ExpireEnd, SelectWork, ClaimWon, ClaimNone, AwaitEnd, SelectOutcomes, PullNone,
         ExpireNext, ClaimNext, PullNext, store
<1>3. RowsSound' /\ \A p \in Proposals : RowStep(rows[p], rows'[p])
  BY <1>2, RowsKeep
<1>4. \A j \in jobs' : j \in jobs \/ (j.pc = "run" /\ j.call = Idle)
  BY DEF StartTick, ExpireEnd, SelectWork, ClaimWon, ClaimNone, AwaitEnd, SelectOutcomes, PullNone,
         ExpireNext, ClaimNext, PullNext
<1>5. JobsSound' /\ DecidersSound'
  BY <1>2, <1>4 DEF JobsSound, DecidersSound
<1>6. /\ LoopsSound'
      /\ \A v \in Workers : \/ loop'[v].call \in {loop[v].call, Idle}
                            \/ Sound(loop'[v].call, rows, effects)
  <2>1. CASE \E pc \in Phases \ {"admit"}, count \in Nat : GoTo(w, pc, count)
    BY <2>1, GoToSound
  <2>2. CASE StartTick(w)
    <3> DEFINE new == [loop[w] EXCEPT !.pc = "expire",
                          !.scan = {p \in Proposals : rows[p].decision = "pending" /\ Due(rows[p], clock)}]
    <3>1. new.pc = "expire" /\ new.call = loop[w].call
      BY <1>1 DEF Loop
    <3>2. loop' = [loop EXCEPT ![w] = new]
      BY <1>1, <2>2 DEF StartTick
    <3> HIDE DEF new
    <3> QED BY <1>1, <3>1, <3>2 DEF LoopsSound, LoopSound
  <2>3. CASE SelectWork(w) /\ loop[w].count < MaxConcurrency /\ ~loop[w].stopped
    <3> DEFINE new == [loop[w] EXCEPT !.pc = "claim",
                          !.scan = {p \in Proposals : Claimable(rows[p], clock)}]
    <3>1. new.pc = "claim" /\ new.call = loop[w].call
      BY <1>1 DEF Loop
    <3>2. loop' = [loop EXCEPT ![w] = new]
      BY <1>1, <2>3 DEF SelectWork
    <3>3. loop[w].call.op = "none"
      BY <2>3 DEF SelectWork, LoopsSound, LoopSound
    <3> HIDE DEF new
    <3> QED BY <1>1, <3>1, <3>2, <3>3 DEF LoopsSound, LoopSound
  <2>4. CASE SelectOutcomes(w) /\ loop[w].count < OutcomeBatch /\ ~loop[w].stopped
    <3> DEFINE new == [loop[w] EXCEPT !.pc = "outcome",
                          !.scan = {p \in Proposals : Deliverable(rows[p], clock)}]
    <3>1. new.pc = "outcome" /\ new.call = loop[w].call
      BY <1>1 DEF Loop
    <3>2. loop' = [loop EXCEPT ![w] = new]
      BY <1>1, <2>4 DEF SelectOutcomes
    <3> HIDE DEF new
    <3> QED BY <1>1, <3>1, <3>2 DEF LoopsSound, LoopSound
  <2>5. ASSUME NEW p \in Proposals, ExpireNext(w, p) \/ ClaimNext(w, p) \/ PullNext(w, p)
        PROVE  /\ LoopsSound'
               /\ \A v \in Workers : \/ loop'[v].call \in {loop[v].call, Idle}
                                     \/ Sound(loop'[v].call, rows, effects)
    <3>1. CASE ExpireNext(w, p)
      BY <3>1, IssueSound DEF ExpireNext, Quiet
    <3>2. CASE ClaimNext(w, p)
      BY <3>2, IssueSound DEF ClaimNext, Quiet
    <3>3. CASE PullNext(w, p)
      BY <3>3, IssueSound DEF PullNext, Quiet
    <3> QED BY <2>5, <3>1, <3>2, <3>3
  <2>6. loop[w].count + 1 \in Nat
    BY <1>1 DEF Loop
  <2>7. /\ ExpireEnd(w) => GoTo(w, "select", 0)
        /\ ClaimWon(w) => GoTo(w, "select", loop[w].count + 1)
        /\ ClaimNone(w) => GoTo(w, "await", 0)
        /\ AwaitEnd(w) => GoTo(w, "pull", 0)
        /\ PullNone(w) => GoTo(w, "idle", 0)
        /\ SelectWork(w) /\ ~(loop[w].count < MaxConcurrency /\ ~loop[w].stopped) => GoTo(w, "await", 0)
        /\ SelectOutcomes(w) /\ ~(loop[w].count < OutcomeBatch /\ ~loop[w].stopped) => GoTo(w, "idle", 0)
    BY DEF ExpireEnd, ClaimWon, ClaimNone, AwaitEnd, PullNone, SelectWork, SelectOutcomes
  <2> QED BY <2>1, <2>2, <2>3, <2>4, <2>5, <2>6, <2>7 DEF Phases
<1>7. \A c \in Calls' : c \in Calls \/ c = Idle \/ Sound(c, rows', effects')
  BY <1>2, <1>4, <1>6 DEF Calls
<1>8. CallsSound'
  BY <1>1, <1>2, <1>3, <1>7, CallsKeep
<1> QED BY <1>3, <1>5, <1>6, <1>8

(* The runs that create proposals and the callers that decide them.        *)
LEMMA SafeCallers ==
  ASSUME StoreInv, Producer \/ Decision, TypeInv'
  PROVE  SafeStep
<1> USE DEF StoreInv, SafeStep
<1>1. rows \in [Proposals -> Row] /\ rows' \in [Proposals -> Row] /\ clock \in Nat
      /\ decider \in [Deciders -> Call]
  BY DEF TypeInv, StoreOK, DeciderOK
<1>2. ASSUME NEW p \in Proposals, ResolveActionProposalApproval(p) \/ CreateActionProposal(p)
      PROVE  SafeStep
  <2>1. UNCHANGED <<decider, loop, jobs, effects>>
    BY <1>2 DEF ResolveActionProposalApproval, CreateActionProposal
  <2>2. RowsSound' /\ \A q \in Proposals : RowStep(rows[q], rows'[q])
    <3>1. CASE ResolveActionProposalApproval(p)
      BY <2>1, <3>1, RowsKeep DEF ResolveActionProposalApproval
    <3>2. CASE CreateActionProposal(p)
      BY <2>1, <3>2, CreateRows DEF RowsSound, TypeInv
    <3> QED BY <1>2, <3>1, <3>2
  <2>3. CallsSound'
    BY <1>1, <2>1, <2>2, CallsKeep DEF Calls
  <2> QED BY <2>1, <2>2, <2>3 DEF LoopsSound, JobsSound, DecidersSound
<1>3. ASSUME NEW d \in Deciders, NEW p \in Proposals, NEW command \in Choices,
             DecideActionProposal(d, p, command)
      PROVE  SafeStep
  <2> DEFINE rq == Request(command, p, None, 0)
  <2>1. UNCHANGED <<rows, loop, jobs, effects>> /\ decider' = [decider EXCEPT ![d] = Read(rq)]
    BY <1>3 DEF DecideActionProposal, store
  <2>2. command \in Commands /\ command \in MutateOps /\ command \notin Settled
    BY BoundAssumption DEF BoundAssumption, MutateOps, Commands, Settled
  <2>3. rq \in Call /\ CallFormed(rq) /\ rq.op = command
    BY <2>2, RequestType
  <2> HIDE DEF rq
  <2>4. Sound(Read(rq), rows, effects) /\ Read(rq).op = command
    BY <1>1, <2>2, <2>3, ReadSound, ReadType DEF SameRequest
  <2>5. RowsSound' /\ \A q \in Proposals : RowStep(rows[q], rows'[q])
    BY <2>1, RowsKeep
  <2>6. \A c \in Calls' : c \in Calls \/ c = Idle \/ Sound(c, rows', effects')
    BY <1>1, <2>1, <2>4 DEF Calls
  <2>7. CallsSound'
    BY <1>1, <2>1, <2>5, <2>6, CallsKeep
  <2> QED BY <1>1, <2>1, <2>2, <2>4, <2>5, <2>7 DEF LoopsSound, JobsSound, DecidersSound
<1>4. ASSUME NEW d \in Deciders, DeciderUpdate(d)
      PROVE  SafeStep
  <2> DEFINE c == decider[d]
  <2>1. /\ UNCHANGED <<loop, jobs, effects>> /\ rows' = RowsAfter(c) /\ ~c.done
        /\ decider' = [decider EXCEPT ![d] = CallAfter(c)]
    BY <1>4 DEF DeciderUpdate
  <2>2. c \in Call /\ CallFormed(c) /\ Sound(c, rows, effects) /\ c.op \in MutateOps
    BY <2>1 DEF TypeInv, DeciderOK, Calls, CallsSound, CallFormed
  <2>3. RowsSound' /\ \A q \in Proposals : RowStep(rows[q], rows'[q])
    BY <1>1, <2>1, <2>2, UpdateRows DEF RowsSound
  <2>4. Sound(CallAfter(c), rows', effects) /\ CallAfter(c).op = c.op
    BY <1>1, <2>1, <2>2, CallAfterSound, CallAfterType DEF SameRequest
  <2>5. \A x \in Calls' : x \in Calls \/ x = Idle \/ Sound(x, rows', effects')
    BY <1>1, <2>1, <2>4 DEF Calls
  <2>6. CallsSound'
    BY <1>1, <2>1, <2>3, <2>5, CallsKeep
  <2> QED BY <1>1, <2>1, <2>3, <2>4, <2>6 DEF LoopsSound, JobsSound, DecidersSound
<1> QED BY <1>2, <1>3, <1>4 DEF Producer, Decision

(* The outcome transaction, the UPDATE of the tick's call, stop() and the  *)
(* faults of a worker.                                                     *)
LEMMA SafeWorker ==
  ASSUME StoreInv, NEW w \in Workers, TypeInv',
         \/ AdmitRead(w) \/ AdmitCommit(w) \/ WorkerUpdate(w) \/ Stop(w)
         \/ TickThrows(w) \/ Crash(w)
  PROVE  SafeStep
<1> USE DEF StoreInv, SafeStep
<1> DEFINE c == loop[w].call
<1>1. /\ rows \in [Proposals -> Row] /\ rows' \in [Proposals -> Row] /\ clock \in Nat
      /\ loop \in [Workers -> Loop] /\ loop[w] \in Loop
  BY DEF TypeInv, StoreOK, LoopOK
<1>2. c \in Call /\ CallFormed(c) /\ Sound(c, rows, effects)
  BY DEF TypeInv, LoopOK, Loop, Calls, CallsSound
<1>3. effects' = effects /\ decider' = decider
  BY DEF AdmitRead, AdmitCommit, WorkerUpdate, Stop, TickThrows, Crash, store
<1>4. \A j \in jobs' : \E i \in jobs : /\ j.pc = i.pc /\ j.call = i.call /\ j.p = i.p
                                   /\ j.gen = i.gen /\ j.result = i.result
  <2>1. \A j \in jobs' : \E i \in jobs : j \in {i, [i EXCEPT !.timer = FALSE], [i EXCEPT !.awaited = FALSE]}
    BY DEF AdmitRead, AdmitCommit, WorkerUpdate, Stop, TickThrows, Crash, Abandoned
  <2>2. \A i \in jobs : i \in Job
    BY DEF TypeInv, JobsOK, JobOK
  <2> QED BY <2>1, <2>2 DEF Job
<1>5. JobsSound' /\ DecidersSound'
  BY <1>3, <1>4 DEF JobsSound, DecidersSound
<1>6. ASSUME \A v \in Workers : loop'[v].call \in {loop[v].call, Idle} \/ Sound(loop'[v].call, rows', effects)
      PROVE  \A x \in Calls' : x \in Calls \/ x = Idle \/ Sound(x, rows', effects')
  BY <1>3, <1>4, <1>6 DEF Calls
<1>7. ASSUME rows' = rows, LoopsSound',
             \A v \in Workers : loop'[v].call \in {loop[v].call, Idle} \/ Sound(loop'[v].call, rows', effects)
      PROVE  SafeStep
  <2>1. RowsSound' /\ \A q \in Proposals : RowStep(rows[q], rows'[q])
    BY <1>3, <1>7, RowsKeep
  <2> QED BY <1>1, <1>3, <1>5, <1>6, <1>7, <2>1, CallsKeep
<1>8. CASE AdmitRead(w)
  <2>1. CASE GoTo(w, "pull", loop[w].count + 1) /\ UNCHANGED thread
    <3>1. LoopsSound' /\ \A v \in Workers : loop'[v].call \in {loop[v].call, Idle}
      BY <2>1, GoToSound
    <3>2. rows' = rows
      BY <1>8 DEF AdmitRead
    <3> QED BY <1>7, <3>1, <3>2
  <2>2. CASE ~(GoTo(w, "pull", loop[w].count + 1) /\ UNCHANGED thread)
    <3> DEFINE row   == rows[c.p]
               what  == IF thread.deleted THEN "discarded" ELSE "admitted"
               moved == [row EXCEPT
                           !.delivery = what, !.dholder = None, !.duntil = 0, !.version = @ + 1]
               call  == [c EXCEPT !.op = "admit", !.done = FALSE, !.next = moved]
               new   == [loop[w] EXCEPT !.pc = "admit", !.scan = {}, !.call = call]
    <3>1. c.p \in Proposals
      BY <1>2, <1>8 DEF AdmitRead, Won, CallFormed
    <3>2. row \in Row /\ RowAgrees(row) /\ row.delivery = "pending"
      BY <1>1, <1>8, <2>2, <3>1 DEF AdmitRead, OutcomeFenceValid, RowsSound, RowSound
    <3>3. /\ moved.decision = row.decision /\ moved.supersededBy = row.supersededBy
          /\ moved.work = row.work /\ moved.gen = row.gen /\ moved.holder = row.holder
          /\ moved.outcome = row.outcome /\ moved.delivery = what /\ moved.dgen = row.dgen
          /\ moved.version = row.version + 1
          /\ row.gen \in Nat /\ row.dgen \in Nat /\ row.version \in Nat
      BY <3>2 DEF Row
    <3>4. what \in {"discarded", "admitted"}
      OBVIOUS
    <3>5. call.op = "admit" /\ call.p = c.p /\ ~call.done /\ call.next = moved
      BY <1>2 DEF Call
    <3> HIDE DEF what, moved, call
    <3>6. RowAgrees(moved) /\ Keeps(row, moved) /\ row.decision # "absent"
      <4>1. RowAgrees(moved) /\ row.decision # "absent"
        BY <3>2, <3>3, <3>4 DEF RowAgrees, Settled, Refused
      <4>2. Keeps(row, moved)
        BY <3>2, <3>3 DEF Keeps
      <4> QED BY <4>1, <4>2
    <3>7. Writes(call, row, moved)
      BY <3>2, <3>3, <3>5, <3>6 DEF Writes, Commands
    <3>8. Sound(call, rows, effects)
      BY <3>3, <3>5, <3>7 DEF Sound, Commands, Settled
    <3>9. new.pc = "admit" /\ new.call = call
      BY <1>1 DEF Loop
    <3>10. loop' = [loop EXCEPT ![w] = new] /\ rows' = rows
      BY <1>1, <1>8, <2>2 DEF AdmitRead, call, moved, what
    <3> HIDE DEF new
    <3>11. LoopsSound' /\ \A v \in Workers : loop'[v].call = loop[v].call \/ Sound(loop'[v].call, rows', effects)
      BY <1>1, <3>5, <3>8, <3>9, <3>10 DEF LoopsSound, LoopSound
    <3> QED BY <1>7, <3>10, <3>11
  <2> QED BY <2>1, <2>2
<1>9. CASE AdmitCommit(w)
  <2>2. /\ rows' = RowsAfter(c)
        /\ GoTo(w, "pull", loop[w].count + 1) \/ GoTo(w, "idle", loop[w].count + 1)
    BY <1>9 DEF AdmitCommit
  <2>3. LoopsSound' /\ \A v \in Workers : loop'[v].call \in {loop[v].call, Idle}
    BY <2>2, GoToSound
  <2>4. ~c.done
    BY <1>9 DEF AdmitCommit, LoopsSound, LoopSound
  <2>5. RowsSound' /\ \A q \in Proposals : RowStep(rows[q], rows'[q])
    BY <1>1, <1>2, <1>3, <2>2, <2>4, UpdateRows DEF RowsSound
  <2>6. CallsSound'
    BY <1>1, <1>3, <1>6, <2>3, <2>5, CallsKeep
  <2> QED BY <1>5, <2>3, <2>5, <2>6
<1>10. CASE WorkerUpdate(w)
  <2> DEFINE new == [loop[w] EXCEPT !.call = CallAfter(c)]
  <2>1. rows' = RowsAfter(c) /\ ~c.done /\ loop[w].pc # "admit"
    BY <1>10 DEF WorkerUpdate
  <2>2. c.op \in MutateOps
    BY <1>2, <2>1 DEF TypeInv, LoopOK, CallFormed, Call, Ops, MutateOps
  <2>3. Sound(CallAfter(c), rows', effects) /\ CallAfter(c).op = c.op
    BY <1>1, <1>2, <2>1, <2>2, CallAfterSound, CallAfterType DEF SameRequest
  <2>4. RowsSound' /\ \A q \in Proposals : RowStep(rows[q], rows'[q])
    BY <1>1, <1>2, <1>3, <2>1, UpdateRows DEF RowsSound
  <2>5. new.call = CallAfter(c) /\ new.pc = loop[w].pc
    BY <1>1 DEF Loop
  <2>6. loop' = [loop EXCEPT ![w] = new]
    BY <1>1, <1>10 DEF WorkerUpdate
  <2> HIDE DEF new
  <2>7. LoopSound(new)
    BY <2>1, <2>3, <2>5 DEF LoopsSound, LoopSound
  <2>8. LoopsSound' /\ \A v \in Workers : loop'[v].call = loop[v].call \/ Sound(loop'[v].call, rows', effects)
    BY <1>1, <2>3, <2>5, <2>6, <2>7 DEF LoopsSound
  <2>9. CallsSound'
    BY <1>1, <1>3, <1>6, <2>4, <2>8, CallsKeep
  <2> QED BY <1>5, <2>4, <2>8, <2>9
<1>11. CASE Stop(w)
  <2> DEFINE new == [loop[w] EXCEPT !.stopped = TRUE]
  <2>1. new.call = c /\ new.pc = loop[w].pc
    BY <1>1 DEF Loop
  <2>2. loop' = [loop EXCEPT ![w] = new] /\ rows' = rows
    BY <1>1, <1>11 DEF Stop, store
  <2> HIDE DEF new
  <2>3. LoopsSound' /\ \A v \in Workers : loop'[v].call = loop[v].call
    BY <1>1, <2>1, <2>2 DEF LoopsSound, LoopSound
  <2> QED BY <1>7, <2>2, <2>3
<1>12. CASE TickThrows(w)
  <2>1. LoopsSound' /\ \A v \in Workers : loop'[v].call \in {loop[v].call, Idle}
    BY <1>12, GoToSound DEF TickThrows
  <2>2. rows' = rows
    BY <1>12 DEF TickThrows
  <2> QED BY <1>7, <2>1, <2>2
<1>13. CASE Crash(w)
  <2>1. Asleep.call = Idle /\ LoopSound(Asleep)
    BY IdleType DEF Asleep, LoopSound
  <2>2. loop' = [loop EXCEPT ![w] = Asleep] /\ rows' = rows
    BY <1>13 DEF Crash
  <2>3. LoopsSound' /\ \A v \in Workers : loop'[v].call \in {loop[v].call, Idle}
    BY <1>1, <2>1, <2>2 DEF LoopsSound
  <2> QED BY <1>7, <2>2, <2>3
<1> QED BY <1>8, <1>9, <1>10, <1>11, <1>12, <1>13

(* The steps of one execution.                                             *)
LEMMA SafeExecution ==
  ASSUME StoreInv, Execution, TypeInv'
  PROVE  SafeStep
<1> USE DEF StoreInv, SafeStep
<1>1. PICK j \in jobs : \/ Renew(j) \/ JobUpdate(j) \/ SettleActionProposal(j) \/ JobEnd(j)
                        \/ RenewThrows(j) \/ SettleThrows(j)
                        \/ \E result \in Settled : ToolReturns(j, result)
  BY DEF Execution
<1>2. /\ j \in Job /\ j.call \in Call /\ CallFormed(j.call) /\ j.call.op # "admit"
      /\ j.p \in Proposals /\ j.w \in Workers /\ j.gen \in Nat
      /\ j.pc # "run" => j.result \in Settled
  BY DEF TypeInv, JobsOK, JobOK, Job
<1>3. /\ rows \in [Proposals -> Row] /\ rows' \in [Proposals -> Row] /\ clock \in Nat
      /\ loop \in [Workers -> Loop]
  BY DEF TypeInv, StoreOK, LoopOK
<1>4. j.pc # "run" => Returned(j.p, j.gen, j.result) \in effects
  BY DEF JobsSound
<1>5. ASSUME NEW call, NEW k, k.call = call, k.p = j.p, k.gen = j.gen, k.result = j.result,
             k.pc # "run" => j.pc # "run", Becomes(j, k),
             call = Idle \/ Sound(call, rows', effects),
             UNCHANGED <<decider, loop, effects>>,
             RowsSound', \A q \in Proposals : RowStep(rows[q], rows'[q])
      PROVE  SafeStep
  <2>1. JobsSound'
    BY <1>4, <1>5 DEF JobsSound, Becomes
  <2>2. \A x \in Calls' : x \in Calls \/ x = Idle \/ Sound(x, rows', effects')
    BY <1>5 DEF Calls, Becomes
  <2>3. CallsSound'
    BY <1>3, <1>5, <2>2, CallsKeep
  <2> QED BY <1>5, <2>1, <2>3 DEF LoopsSound, DecidersSound
<1>6. CASE Renew(j)
  <2> DEFINE rq == Request("extend", j.p, j.w, j.gen)
             k  == [j EXCEPT !.call = Read(rq)]
  <2>1. "extend" \in MutateOps /\ "extend" \notin Settled
    BY DEF MutateOps, Settled
  <2>2. rq \in Call /\ CallFormed(rq) /\ rq.op = "extend"
    BY <1>2, <2>1, RequestType
  <2>3. Becomes(j, k) /\ UNCHANGED <<rows, decider, loop, effects>>
    BY <1>6 DEF Renew, store
  <2> HIDE DEF rq
  <2>4. Sound(Read(rq), rows, effects)
    BY <1>3, <2>1, <2>2, ReadSound
  <2>5. k.call = Read(rq) /\ k.p = j.p /\ k.gen = j.gen /\ k.result = j.result /\ k.pc = j.pc
    BY <1>2 DEF Job
  <2> HIDE DEF k
  <2>6. RowsSound' /\ \A q \in Proposals : RowStep(rows[q], rows'[q])
    BY <2>3, RowsKeep
  <2> QED BY <1>5, <2>3, <2>4, <2>5, <2>6
<1>7. CASE JobUpdate(j)
  <2> DEFINE c == j.call
             k == [j EXCEPT !.call = CallAfter(c)]
  <2>1. /\ rows' = RowsAfter(c) /\ ~c.done /\ UNCHANGED <<decider, loop, effects>> /\ Becomes(j, k)
    BY <1>7 DEF JobUpdate
  <2>2. c.op \in MutateOps
    BY <1>2, <2>1 DEF CallFormed, Call, Ops, MutateOps
  <2>3. Sound(c, rows, effects)
    BY DEF CallsSound, Calls
  <2>4. Sound(CallAfter(c), rows', effects)
    BY <1>2, <1>3, <2>1, <2>2, <2>3, CallAfterSound
  <2>5. RowsSound' /\ \A q \in Proposals : RowStep(rows[q], rows'[q])
    BY <1>2, <1>3, <2>1, <2>3, UpdateRows DEF RowsSound
  <2>6. k.call = CallAfter(c) /\ k.p = j.p /\ k.gen = j.gen /\ k.result = j.result /\ k.pc = j.pc
    BY <1>2 DEF Job
  <2> HIDE DEF k
  <2> QED BY <1>5, <2>1, <2>4, <2>5, <2>6
<1>8. CASE SettleActionProposal(j)
  <2> DEFINE rq == Request(j.result, j.p, j.w, j.gen)
             k  == [j EXCEPT !.pc = "settle", !.call = Read(rq)]
  <2>1. j.result \in MutateOps /\ j.pc = "returned"
    BY <1>2, <1>8 DEF SettleActionProposal, MutateOps
  <2>2. rq \in Call /\ CallFormed(rq)
    BY <1>2, <2>1, RequestType
  <2>3. rq.op = j.result /\ rq.p = j.p /\ rq.gen = j.gen
    BY DEF Request, Idle
  <2>4. Becomes(j, k) /\ UNCHANGED <<rows, decider, loop, effects>>
    BY <1>8 DEF SettleActionProposal, store
  <2> HIDE DEF rq
  <2>5. Sound(Read(rq), rows, effects)
    BY <1>3, <1>4, <2>1, <2>2, <2>3, ReadSound
  <2>6. k.call = Read(rq) /\ k.p = j.p /\ k.gen = j.gen /\ k.result = j.result
    BY <1>2 DEF Job
  <2> HIDE DEF k
  <2>7. RowsSound' /\ \A q \in Proposals : RowStep(rows[q], rows'[q])
    BY <2>4, RowsKeep
  <2> QED BY <1>5, <2>1, <2>4, <2>5, <2>6, <2>7
<1>9. CASE RenewThrows(j)
  <2> DEFINE call == [Idle EXCEPT !.status = "error"]
             k    == [j EXCEPT !.call = call]
  <2>1. call.op = "none" /\ call.done
    BY DEF Idle
  <2>2. Becomes(j, k) /\ UNCHANGED <<rows, decider, loop, effects>>
    BY <1>9 DEF RenewThrows, store
  <2> HIDE DEF call
  <2>3. Sound(call, rows, effects)
    BY <2>1, QuietSound
  <2>4. k.call = call /\ k.p = j.p /\ k.gen = j.gen /\ k.result = j.result /\ k.pc = j.pc
    BY <1>2 DEF Job
  <2> HIDE DEF k
  <2>5. RowsSound' /\ \A q \in Proposals : RowStep(rows[q], rows'[q])
    BY <2>2, RowsKeep
  <2> QED BY <1>5, <2>2, <2>3, <2>4, <2>5
<1>10. CASE JobEnd(j) \/ SettleThrows(j)
  <2>1. UNCHANGED <<rows, decider, effects>>
    BY <1>10 DEF JobEnd, SettleThrows, store
  <2>2. \A k \in jobs' : \E i \in jobs : /\ k.pc = i.pc /\ k.call = i.call /\ k.p = i.p
                                      /\ k.gen = i.gen /\ k.result = i.result
    <3>1. \A k \in jobs' : \E i \in jobs : k \in {i, [i EXCEPT !.awaited = FALSE]}
      BY <1>10 DEF JobEnd, SettleThrows, Abandoned
    <3>2. \A i \in jobs : i \in Job
      BY DEF TypeInv, JobsOK, JobOK
    <3> QED BY <3>1, <3>2 DEF Job
  <2>3. LoopsSound' /\ \A v \in Workers : loop'[v].call \in {loop[v].call, Idle}
    <3>1. loop' = loop \/ GoTo(j.w, "idle", 0)
      BY <1>10 DEF JobEnd, SettleThrows
    <3>2. CASE loop' = loop
      BY <3>2 DEF LoopsSound
    <3>3. CASE GoTo(j.w, "idle", 0)
      BY <1>2, <3>3, GoToSound
    <3> QED BY <3>1, <3>2, <3>3
  <2>4. RowsSound' /\ \A q \in Proposals : RowStep(rows[q], rows'[q])
    BY <2>1, RowsKeep
  <2>5. \A x \in Calls' : x \in Calls \/ x = Idle
    BY <2>1, <2>2, <2>3 DEF Calls
  <2>6. CallsSound'
    BY <1>3, <2>1, <2>4, <2>5, CallsKeep
  <2> QED BY <2>1, <2>2, <2>3, <2>4, <2>6 DEF JobsSound, DecidersSound
<1>11. ASSUME NEW result \in Settled, ToolReturns(j, result) PROVE SafeStep
  <2> DEFINE k == [j EXCEPT !.pc = "returned", !.result = result, !.timer = FALSE]
  <2>1. /\ jobs' = (jobs \ {j}) \cup {k} /\ UNCHANGED <<rows, decider, loop>>
        /\ effects' = effects \cup {Returned(j.p, j.gen, result)}
    BY <1>11 DEF ToolReturns, Becomes, store, Returned
  <2>2. k.call = j.call /\ k.p = j.p /\ k.gen = j.gen /\ k.result = result
    BY <1>2 DEF Job
  <2> HIDE DEF k
  <2>3. RowsSound' /\ \A q \in Proposals : RowStep(rows[q], rows'[q])
    BY <2>1, RowsKeep
  <2>4. JobsSound'
    BY <2>1, <2>2 DEF JobsSound
  <2>5. \A x \in Calls' : x \in Calls
    BY <2>1, <2>2 DEF Calls
  <2>6. CallsSound'
    BY <1>3, <2>1, <2>3, <2>5, CallsKeep
  <2> QED BY <2>1, <2>3, <2>4, <2>6 DEF LoopsSound, DecidersSound
<1> QED BY <1>1, <1>6, <1>7, <1>8, <1>9, <1>10, <1>11

(* Time, turns and the deletion of the thread.                             *)
LEMMA SafeRest ==
  ASSUME StoreInv, Tick \/ Turn \/ SoftDeleteThread \/ UNCHANGED vars
  PROVE  SafeStep
<1> USE DEF StoreInv, SafeStep
<1>1. UNCHANGED <<rows, decider, loop, jobs, effects>>
  BY DEF Tick, Turn, SoftDeleteThread, vars, store
<1>2. RowsSound' /\ \A q \in Proposals : RowStep(rows[q], rows'[q])
  BY <1>1, RowsKeep
<1> QED BY <1>1, <1>2 DEF CallsSound, Calls, LoopsSound, JobsSound, DecidersSound

(* Every step is a safe one.                                               *)
LEMMA SafeNext == StoreInv /\ [Next]_vars => StoreInv' /\ SafeStep
<1> SUFFICES ASSUME StoreInv, [Next]_vars PROVE StoreInv' /\ SafeStep
  OBVIOUS
<1>1. TypeInv'
  BY TypeStep DEF StoreInv
<1>2. CASE Producer \/ Decision
  BY <1>1, <1>2, SafeCallers DEF StoreInv, SafeStep
<1>3. CASE Worker
  <2>1. PICK w \in Workers :
          \/ StartTick(w) \/ ExpireEnd(w) \/ SelectWork(w) \/ ClaimWon(w) \/ ClaimNone(w)
          \/ AwaitEnd(w) \/ SelectOutcomes(w) \/ PullNone(w) \/ AdmitRead(w) \/ AdmitCommit(w)
          \/ WorkerUpdate(w) \/ Stop(w) \/ TickThrows(w) \/ Crash(w)
          \/ \E p \in Proposals : ExpireNext(w, p) \/ ClaimNext(w, p) \/ PullNext(w, p)
    BY <1>3 DEF Worker
  <2>2. SafeStep
    BY <1>1, <2>1, SafeTick, SafeWorker
  <2> QED BY <1>1, <2>2 DEF StoreInv, SafeStep
<1>4. CASE Execution
  BY <1>1, <1>4, SafeExecution DEF StoreInv, SafeStep
<1>5. CASE Tick \/ Turn \/ SoftDeleteThread \/ UNCHANGED vars
  BY <1>1, <1>5, SafeRest DEF StoreInv, SafeStep
<1> QED BY <1>2, <1>3, <1>4, <1>5 DEF Next

(* At the start nobody has a call and there is no row.                     *)
LEMMA SafeInit == Init => StoreInv
<1> SUFFICES ASSUME Init PROVE StoreInv
  OBVIOUS
<1>1. TypeInv
  BY TypeInit
<1>2. RowSound(None, AbsentRow, {}) 
  BY DEF RowSound, RowAgrees, AbsentRow, Settled, Refused
<1>3. RowsSound
  BY <1>2 DEF Init, RowsSound, RowSound, AbsentRow, Settled
<1>4. \A c \in Calls : c = Idle
  BY DEF Init, Calls, Asleep
<1>5. CallsSound
  BY <1>4, QuietSound, IdleType DEF CallsSound, Idle
<1>6. LoopsSound /\ JobsSound /\ DecidersSound
  BY IdleType DEF Init, LoopsSound, LoopSound, Asleep, JobsSound, DecidersSound
<1> QED BY <1>1, <1>3, <1>5, <1>6 DEF StoreInv

(* Whatever was in flight, the store's rows and everybody's calls are      *)
(* sound.                                                                  *)
THEOREM StoreSound == Spec => []StoreInv
BY SafeInit, SafeNext, PTL DEF Spec
=============================================================================
