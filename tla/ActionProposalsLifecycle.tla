----------------------- MODULE ActionProposalsLifecycle -----------------------
(***************************************************************************)
(* What of ActionProposals shows to its users: the refinement mapping to   *)
(* the lifecycle a proposal promises.  Leases, versions, calls, workers    *)
(* and the clock are hidden.                                               *)
(***************************************************************************)
EXTENDS ActionProposals

Notice(row) == IF row.delivery = "pending" THEN "due" ELSE row.delivery
Result(row) == IF row.work \in Settled THEN row.work ELSE "none"

Fates   == [p \in Proposals |-> rows[p].decision]
Runs    == [p \in Proposals |-> {e.result : e \in {x \in effects : x.p = p}}]
Results == [p \in Proposals |-> Result(rows[p])]
Notices == [p \in Proposals |-> Notice(rows[p])]

Lifecycle == INSTANCE ProposalLifecycle
  WITH fate <- Fates, ran <- Runs, result <- Results, notice <- Notices

(* Every behaviour of the store, the workers and their callers is one of   *)
(* ProposalLifecycle: leases, lost updates, recoveries and retries never   *)
(* show through as a second decision, result or notice.                    *)
ImplementsLifecycle == Lifecycle!Spec
=============================================================================
