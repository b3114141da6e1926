----------------------------- MODULE MCChatQueue -----------------------------
(***************************************************************************)
(* Requests of ChatQueue for TLC.                                          *)
(***************************************************************************)
EXTENDS ChatQueue, TLC

CONSTANTS r1, r2, r3, r4

Follows(k1, k2, k3, k4, most, broken, what) ==
  [kind |-> r1 :> k1 @@ r2 :> k2 @@ r3 :> k3 @@ r4 :> k4,
   inFlight |-> most, faults |-> broken, environment |-> what]

\* Clients edit the queue, three at a time, while turns drain it.
Edits == Follows({"queue"}, {"chat"}, {"remove"}, {"reorder"}, 3, 0, {"fail", "quota"})
\* An interrupt and one command or two meet turns, and a crash or a failing start.
Settles == Follows({"send"}, {"interrupt"}, {"stop", "promote", "resume", "clear"},
                   {"promote", "resume", "clear"}, 1, 1, {"crash", "nostart", "fail"})
\* A queued message is being started when an interrupt comes.
Overtaken == Follows({"send"}, {"queue"}, {"interrupt"}, {}, 1, 0, {})
\* A turn and a waiting message meet a Stop.
Stops == Follows({"send"}, {"queue"}, {"stop"}, {}, 1, 0, {})

EditsAndSettles == {Edits, Settles}
OnlyOvertaken == {Overtaken}
OnlyStops == {Stops}
=============================================================================
