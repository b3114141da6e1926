-------------------------- MODULE ProposalLifecycle --------------------------
(***************************************************************************)
(* What independent approvals promise of a proposal, with no store, no     *)
(* lease and no worker: it is decided once; an approved one is run any     *)
(* number of times and one of the results becomes its result; a terminal   *)
(* one owes the thread one notice, which is posted or dropped once.        *)
(***************************************************************************)
CONSTANT Proposals

VARIABLES fate,    \* [Proposals -> how it was decided]
          ran,     \* [Proposals -> results its runs returned]
          result,  \* [Proposals -> the recorded one, or "none"]
          notice   \* [Proposals -> the thread's notice of it]

lifecycle == <<fate, ran, result, notice>>

Results == {"succeeded", "failed"}

Init ==
  /\ fate   = [p \in Proposals |-> "absent"]
  /\ ran    = [p \in Proposals |-> {}]
  /\ result = [p \in Proposals |-> "none"]
  /\ notice = [p \in Proposals |-> "none"]

\* The pending proposals it replaces are superseded, or expired when due.
Propose(p) ==
  /\ fate[p] = "absent"
  /\ \E gone \in SUBSET {q \in Proposals : fate[q] = "pending"} :
     \E how \in [gone -> {"superseded", "expired"}] :
       /\ fate'   = [q \in Proposals |-> IF q = p THEN "pending"
                                         ELSE IF q \in gone THEN how[q] ELSE fate[q]]
       /\ notice' = [q \in Proposals |-> IF q \in gone THEN "due" ELSE notice[q]]
  /\ UNCHANGED <<ran, result>>

Decide(p) ==
  /\ fate[p] = "pending"
  /\ \E decision \in {"approved", "rejected", "expired"} :
       /\ fate' = [fate EXCEPT ![p] = decision]
       /\ notice' = IF decision = "approved" THEN notice ELSE [notice EXCEPT ![p] = "due"]
  /\ UNCHANGED <<ran, result>>

Run(p) ==
  /\ fate[p] = "approved"
  /\ \E r \in Results : ran' = [ran EXCEPT ![p] = @ \cup {r}]
  /\ UNCHANGED <<fate, result, notice>>

Record(p) ==
  /\ result[p] = "none"
  /\ \E r \in ran[p] : result' = [result EXCEPT ![p] = r]
  /\ notice' = [notice EXCEPT ![p] = "due"]
  /\ UNCHANGED <<fate, ran>>

Notify(p) ==
  /\ notice[p] = "due"
  /\ \E how \in {"admitted", "discarded"} : notice' = [notice EXCEPT ![p] = how]
  /\ UNCHANGED <<fate, ran, result>>

Next == \E p \in Proposals : Propose(p) \/ Decide(p) \/ Run(p) \/ Record(p) \/ Notify(p)

Spec == Init /\ [][Next]_lifecycle
=============================================================================
