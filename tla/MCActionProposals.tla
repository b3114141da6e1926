-------------------------- MODULE MCActionProposals --------------------------
(***************************************************************************)
(* Values of ActionProposals for TLC.                                      *)
(***************************************************************************)
EXTENDS ActionProposalsLifecycle, TLC

CONSTANTS p1, p2, p3

\* p1 and p2 replace each other, p3 has no replacement key.
ReplacingGroup == [p \in Proposals |-> IF p \in {p1, p2} THEN "refund" ELSE NoGroup]
\* p1 may expire, the others wait for ever.
FirstExpires   == [p \in Proposals |-> IF p = p1 THEN 2 ELSE 0]
NeverExpires   == [p \in Proposals |-> 0]
Callers        == Permutations(Deciders)
Processes      == Permutations(Workers)
Both           == Callers \cup Processes
=============================================================================
