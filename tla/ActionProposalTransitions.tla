---------------------- MODULE ActionProposalTransitions ----------------------
(***************************************************************************)
(* The pure functions of action-proposal-transitions.ts and                *)
(* action-proposal-outcome.ts: each takes the persisted row, a command and *)
(* the server clock and answers a status and the row to store.  The row    *)
(* keeps what decides control: the decision, the execution embedded in it  *)
(* (`work`, its generation and lease), the outcome and the outcome's       *)
(* delivery.  The payload, the audit text and the UI of a row are left     *)
(* out.  A lease token, a fresh UUID per claim, is the pair of the worker  *)
(* and the generation of the claim.                                        *)
(***************************************************************************)
EXTENDS Integers

CONSTANTS Proposals,   \* proposal ids
          Workers,     \* worker processes
          Lease,       \* leaseMs of every worker
          Group,       \* [Proposals -> replacement group], NoGroup: no replacementKey
          NoGroup,
          None         \* the null of a reference

ASSUME LeaseAssumption == Lease \in Nat \ {0}
ASSUME NoneAssumption  == None \notin Proposals /\ None \notin Workers

Commands   == {"approved", "rejected", "expired"}
Settled    == {"succeeded", "failed"}
Refused    == {"rejected", "expired", "superseded"}
Decisions  == {"absent", "pending", "approved"} \cup Refused
Works      == {"none", "queued", "executing"} \cup Settled
Outcomes   == {"none"} \cup Settled \cup Refused
Deliveries == {"none", "pending", "admitted", "discarded"}
Statuses   == {"applied", "unchanged", "conflict", "expired"}

(* expiresAt = 0 is the null deadline; `decision` "absent" is a row not    *)
(* inserted yet.                                                           *)
Row == [decision     : Decisions,
        expiresAt    : Nat,
        supersededBy : Proposals \cup {None},
        work         : Works,
        gen          : Nat,
        holder       : Workers \cup {None},
        until        : Nat,
        outcome      : Outcomes,
        delivery     : Deliveries,
        dgen         : Nat,
        dholder      : Workers \cup {None},
        duntil       : Nat,
        version      : Nat]

AbsentRow == [decision |-> "absent", expiresAt |-> 0, supersededBy |-> None,
              work |-> "none", gen |-> 0, holder |-> None, until |-> 0,
              outcome |-> "none", delivery |-> "none", dgen |-> 0,
              dholder |-> None, duntil |-> 0, version |-> 0]

InitialActionProposal(expiresAt) ==
  [AbsentRow EXCEPT !.decision = "pending", !.expiresAt = expiresAt]

Answer(status, row) == [status |-> status, row |-> row]

Due(row, now) == row.expiresAt # 0 /\ now >= row.expiresAt

\* Once only: the first outcome a row gets is the one it keeps.
AttachOutcome(row) ==
  IF row.outcome # "none" THEN row
  ELSE [row EXCEPT !.outcome  = IF row.work \in Settled THEN row.work ELSE row.decision,
                   !.delivery = "pending"]

\* Fault: the refusal is stored without an outcome.
CloseSilently(row, decision) == [row EXCEPT !.decision = decision]

Close(row, decision) == AttachOutcome([row EXCEPT !.decision = decision])

\* Fault: a decided row may be decided again.
DecideAgain(row, command, now) ==
  IF command = "approved"
  THEN Answer("applied", [row EXCEPT !.decision = "approved", !.work = "queued"])
  ELSE Answer("applied", Close(row, command))

\* Fault: the early-expiry answer comes before the deadline check.
DecideNeverExpires(row, command, now) ==
  IF row.decision # "pending" \/ command = "expired"
  THEN Answer("conflict", row)
  ELSE Answer("applied", IF command = "approved"
                         THEN [row EXCEPT !.decision = "approved", !.work = "queued"]
                         ELSE Close(row, command))

Decide(row, command, now) ==
  IF row.decision # "pending"
  THEN Answer(IF row.decision = command THEN "unchanged"
              ELSE IF row.decision = "expired" THEN "expired" ELSE "conflict", row)
  ELSE IF Due(row, now)
  THEN Answer(IF command = "expired" THEN "applied" ELSE "expired", Close(row, "expired"))
  ELSE IF command = "expired"
  THEN Answer("conflict", row)
  ELSE IF command = "approved"
  THEN Answer("applied", [row EXCEPT !.decision = "approved", !.work = "queued"])
  ELSE Answer("applied", Close(row, command))

\* Fault: an execution whose worker died is not recovered.
ClaimableOnce(row, now) == row.decision = "approved" /\ row.work = "queued"

Claimable(row, now) ==
  /\ row.decision = "approved"
  /\ \/ row.work = "queued"
     \/ row.work = "executing" /\ now >= row.until

\* Fault: the lease is taken from the past.
ClaimBackdated(row, w, now) ==
  IF ~Claimable(row, now) THEN Answer("conflict", row)
  ELSE Answer("applied", [row EXCEPT !.work = "executing", !.gen = @ + 1,
                                     !.holder = w, !.until = now - Lease])

Claim(row, w, now) ==
  IF ~Claimable(row, now) THEN Answer("conflict", row)
  ELSE Answer("applied", [row EXCEPT !.work = "executing", !.gen = @ + 1,
                                     !.holder = w, !.until = now + Lease])

\* Fault: a lease is checked for its time and not for its token.
LeaseStatusUnfenced(row, w, gen, now) ==
  IF row.decision # "approved" \/ row.work # "executing" THEN "conflict"
  ELSE IF now >= row.until THEN "expired" ELSE "valid"

LeaseStatus(row, w, gen, now) ==
  IF \/ row.decision # "approved" \/ row.work # "executing"
     \/ row.gen # gen \/ row.holder # w
  THEN "conflict"
  ELSE IF now >= row.until THEN "expired" ELSE "valid"

Extend(row, w, gen, now) ==
  LET status == LeaseStatus(row, w, gen, now)
  IN  IF status # "valid" THEN Answer(status, row)
      ELSE Answer("applied",
                  [row EXCEPT !.until = IF @ > now + Lease THEN @ ELSE now + Lease])

\* Fault: the settlement forgets the outcome.
SettleSilently(row, w, gen, result, now) ==
  LET status == LeaseStatus(row, w, gen, now)
  IN  IF status # "valid" THEN Answer(status, row)
      ELSE Answer("applied", [row EXCEPT !.work = result, !.holder = None, !.until = 0])

Settle(row, w, gen, result, now) ==
  LET status == LeaseStatus(row, w, gen, now)
  IN  IF status # "valid" THEN Answer(status, row)
      ELSE Answer("applied",
                  AttachOutcome([row EXCEPT !.work = result, !.holder = None, !.until = 0]))

\* Fault: a due sibling is neither superseded nor expired.
SupersedeUnlessDue(row, p, replacement, now) ==
  IF row.decision # "pending" \/ Due(row, now) THEN Answer("conflict", row)
  ELSE Answer("applied",
              Close([row EXCEPT !.supersededBy = replacement], "superseded"))

\* p is the row's own id; every proposal of the model shares one scope and tool.
Supersede(row, p, replacement, now) ==
  IF p = replacement \/ Group[p] = NoGroup \/ Group[p] # Group[replacement]
  THEN Answer("conflict", row)
  ELSE IF row.decision = "superseded"
  THEN Answer(IF row.supersededBy = replacement THEN "unchanged" ELSE "conflict", row)
  ELSE IF row.decision # "pending"
  THEN Answer("conflict", row)
  ELSE IF Due(row, now)
  THEN Answer("expired", Close(row, "expired"))
  ELSE Answer("applied",
              Close([row EXCEPT !.supersededBy = replacement], "superseded"))

\* Fault: a lapsed delivery lease is not recovered.
DeliverableOnce(row, now) ==
  row.outcome # "none" /\ row.delivery = "pending" /\ row.dholder = None

Deliverable(row, now) ==
  /\ row.outcome # "none" /\ row.delivery = "pending"
  /\ row.dholder = None \/ now >= row.duntil

ClaimOutcome(row, w, now) ==
  IF ~Deliverable(row, now) THEN Answer("conflict", row)
  ELSE Answer("applied", [row EXCEPT !.dgen = @ + 1, !.dholder = w, !.duntil = now + Lease])

OutcomeFenceValid(row, w, gen, now) ==
  /\ row.delivery = "pending" /\ row.dgen = gen /\ row.dholder = w
  /\ now < row.duntil
=============================================================================
