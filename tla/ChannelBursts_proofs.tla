------------------------- MODULE ChannelBursts_proofs -------------------------
(***************************************************************************)
(* Of the bursts of a conversation, for any messages, senders, deliveries, *)
(* lengths of a burst and faults: no message is dropped and none is        *)
(* answered twice, but where NeverDropped and NeverTwice say so.           *)
(***************************************************************************)
EXTENDS ChannelBursts, SequenceTheorems, WellFoundedInduction, TLAPS

Pcs == {"own", "owner", "look", "join", "gathered", "prepare", "stopped",
        "act", "send", "keep", "mark", "over"}
HookPcs == {"idle", "claim", "write", "advance", "enqueue", "answered", "refused", "dead"}
Entries == [id : Messages, at : Nat]
HookStates == [pc : HookPcs, at : Nat, slot : Nat]
Throughs == UNION {[D -> Messages] : D \in SUBSET Nat}

HookTypes ==
  /\ taken \subseteq Messages
  /\ slot \in [Slots -> {None, Blank} \cup Entries]
  /\ hook \in [Deliveries -> HookStates]
  /\ clock \in Nat
  /\ received \in [Messages -> Nat]

JobTypes ==
  /\ jobs \in Seq(Messages)
  /\ DOMAIN job = {"pc", "batch", "left", "next", "through"}
  /\ job.pc \in Pcs /\ job.batch \in Seq(Messages) /\ job.left \subseteq Slots
  /\ owner \in [Messages -> Messages \cup {None, Blank}]
  /\ turnKey \in [Messages -> {"free", "claimed", "kept"}]
  /\ turns \in Seq(Throughs) /\ batchDone \subseteq Messages

\* A webhook of m failed; a slot holds an entry; a webhook call is being served.
Cut(m)     == <<"hook", m>> \in cuts
Logged(s)  == slot[s] \notin {None, Blank}
Busy(d)    == hook[d].pc \in Serving

-----------------------------------------------------------------------------
(* The webhooks: but where one fails, a message is taken by one call at a  *)
(* time, which logs it once and leaves it with a job.                      *)

Stamped       == \A d \in Deliveries : Busy(d) => hook[d].at > 0
TakenOnce     == \A d \in Deliveries : Busy(d) /\ ~Cut(d[1]) =>
                   d[1] \in taken /\ \A e \in Deliveries : e[1] = d[1] /\ Busy(e) => e = d
LoggedLast    == \A s \in Slots : Logged(s) /\ ~Cut(slot[s].id) =>
                   /\ slot[s].id \in taken
                   /\ \A d \in Deliveries : d[1] = slot[s].id => hook[d].pc \notin {"claim", "write"}
LoggedOnce    == \A s, t \in Slots : Logged(s) /\ Logged(t) /\ slot[s].id = slot[t].id =>
                   s = t \/ Cut(slot[s].id)
SlotsClaimed  == \A d \in Deliveries : hook[d].pc = "write" =>
                   /\ hook[d].slot \in Slots /\ slot[hook[d].slot] = Blank
                   /\ \A e \in Deliveries : hook[e].pc = "write" /\ hook[e].slot = hook[d].slot => e = d
TakenServed   == \A m \in taken : ~Cut(m) /\ received[m] = 0 => \E d \in Deliveries : d[1] = m /\ Busy(d)
AnsweredTaken == \A d \in Deliveries : hook[d].pc = "answered" /\ ~Cut(d[1]) => d[1] \in taken

HookInv == /\ HookTypes /\ Stamped /\ TakenOnce /\ LoggedLast /\ LoggedOnce /\ SlotsClaimed
           /\ TakenServed /\ AnsweredTaken

\* What a step of call d does to the calls.
Moved(d, to, at, place) ==
  /\ hook' \in [Deliveries -> HookStates]
  /\ \A e \in Deliveries : e # d => hook'[e] = hook[e]
  /\ hook'[d].pc = to /\ hook'[d].at = at /\ hook'[d].slot = place

\* A delivery is of a message.
LEMMA Deliverable == \A d \in Deliveries : d[1] \in Messages
BY BurstAssumption

\* A call that goes on.
LEMMA StepMoves ==
  ASSUME HookTypes, NEW d \in Deliveries, NEW to \in HookPcs,
         hook' = [hook EXCEPT ![d].pc = to]
  PROVE  Moved(d, to, hook[d].at, hook[d].slot)
BY DEF HookTypes, HookStates, Moved

\* A call that ends.
LEMMA AnswerMoves ==
  ASSUME HookTypes, NEW d \in Deliveries, NEW to \in HookPcs,
         Answer(d, to)
  PROVE  Moved(d, to, 0, 0)
<1>1. [pc |-> to, at |-> 0, slot |-> 0] \in HookStates
  BY DEF HookStates
<1> QED BY <1>1 DEF HookTypes, Moved, Answer

\* A step that leaves the webhooks alone.
LEMMA HooksStill ==
  ASSUME HookInv, UNCHANGED <<taken, slot, hook, clock, received>>, cuts \subseteq cuts'
  PROVE  HookInv'
<1>1. (\A m : Cut(m) => Cut(m)') /\ (\A s : Logged(s)' = Logged(s)) /\ (\A d : Busy(d)' = Busy(d))
  BY DEF Cut, Logged, Busy
<1> QED
  BY <1>1 DEF HookInv, HookTypes, Stamped, TakenOnce, LoggedLast, LoggedOnce, SlotsClaimed,
              TakenServed, AnsweredTaken

\* A call takes its message, or finds it taken.
LEMMA TakeMessageHooks ==
  ASSUME HookInv, NEW d \in Deliveries, TakeMessage(d)
  PROVE  HookInv'
<1> USE DEF HookInv
<1>0. (\A m : Cut(m)' = Cut(m)) /\ (\A s : Logged(s)' = Logged(s)) /\ slot' = slot /\ received' = received
  BY DEF TakeMessage, NoFault, Cut, Logged
<1>d. d[1] \in Messages
  BY Deliverable
<1>1. CASE d[1] \in taken /\ Hook(d, "idle", "answered") /\ UNCHANGED <<taken, clock>>
  <2>1. Moved(d, "answered", hook[d].at, hook[d].slot) /\ hook[d].pc = "idle"
    BY <1>1, StepMoves DEF Hook, HookPcs
  <2>2. \A e \in Deliveries : Busy(e)' = Busy(e)
    BY <2>1 DEF Busy, Moved, Serving
  <2>3. HookTypes'
    BY <1>0, <1>1, <2>1 DEF HookTypes, Moved
  <2>4. Stamped' /\ TakenOnce' /\ TakenServed'
    BY <1>0, <1>1, <2>1, <2>2 DEF Stamped, TakenOnce, TakenServed, Moved, Busy, Serving
  <2>5. LoggedLast' /\ LoggedOnce' /\ SlotsClaimed'
    BY <1>0, <1>1, <2>1 DEF LoggedLast, LoggedOnce, SlotsClaimed, Moved
  <2>6. AnsweredTaken'
    BY <1>0, <1>1, <2>1 DEF AnsweredTaken, Moved
  <2> QED BY <2>3, <2>4, <2>5, <2>6
<1>2. CASE /\ d[1] \notin taken /\ hook[d].pc = "idle"
           /\ clock' = clock + 1
           /\ hook' = [hook EXCEPT ![d].pc = "claim", ![d].at = clock']
           /\ taken' = taken \cup {d[1]}
  <2>0. clock \in Nat /\ clock' \in Nat /\ clock' > 0
    BY <1>2 DEF HookTypes
  <2>1. Moved(d, "claim", clock', hook[d].slot)
    BY <1>2, <2>0 DEF HookTypes, HookStates, HookPcs, Moved
  <2>2. /\ Busy(d)' /\ ~Busy(d)
        /\ \A e \in Deliveries : e # d => Busy(e)' = Busy(e)
    BY <1>2, <2>1 DEF Busy, Moved, Serving
  <2>3. HookTypes'
    BY <1>0, <1>2, <1>d, <2>0, <2>1 DEF HookTypes, Moved
  <2>4. Stamped'
    BY <1>0, <2>0, <2>1, <2>2 DEF Stamped, Moved
  <2>5. TakenOnce'
    BY <1>0, <1>2, <2>2 DEF TakenOnce
  <2>6. LoggedLast' /\ LoggedOnce'
    BY <1>0, <1>2, <2>1 DEF LoggedLast, LoggedOnce, Moved
  <2>7. SlotsClaimed'
    BY <1>0, <2>1 DEF SlotsClaimed, Moved
  <2>8. TakenServed'
    BY <1>0, <1>2, <2>2 DEF TakenServed
  <2>9. AnsweredTaken'
    BY <1>0, <1>2, <2>1 DEF AnsweredTaken, Moved
  <2> QED BY <2>3, <2>4, <2>5, <2>6, <2>7, <2>8, <2>9
<1> QED BY <1>1, <1>2 DEF TakeMessage, Hook

\* A call claims a slot: no entry changes.
LEMMA ClaimSlotHooks ==
  ASSUME HookInv, NEW d \in Deliveries, ClaimSlot(d)
  PROVE  HookInv' /\ \A s \in Slots : Logged(s) => slot'[s] = slot[s]
<1> USE DEF HookInv
<1>0. /\ \A m : Cut(m)' = Cut(m)
      /\ UNCHANGED <<taken, clock, received>> /\ hook[d].pc = "claim"
  BY DEF ClaimSlot, NoFault, Cut
<1>1. PICK free \in Slots : slot[free] = None /\ slot' = [slot EXCEPT ![free] = Blank]
                            /\ hook' = [hook EXCEPT ![d].pc = "write", ![d].slot = free]
  BY DEF ClaimSlot
<1>2. free \in Nat
  BY DEF Slots
<1>3. Moved(d, "write", hook[d].at, free)
  BY <1>1, <1>2 DEF HookTypes, HookStates, HookPcs, Moved
<1>4. \A e \in Deliveries : Busy(e)' = Busy(e)
  BY <1>0, <1>3 DEF Busy, Moved, Serving
<1>5. slot' \in [Slots -> {None, Blank} \cup Entries] /\ slot'[free] = Blank
      /\ \A s \in Slots : s # free => slot'[s] = slot[s]
  BY <1>1 DEF HookTypes
<1>6. ~Logged(free) /\ ~Logged(free)' /\ \A s \in Slots : s # free => Logged(s)' = Logged(s)
  BY <1>1, <1>5 DEF Logged
<1>7. HookTypes'
  BY <1>0, <1>3, <1>5 DEF HookTypes, Moved
<1>8. Stamped' /\ TakenOnce' /\ TakenServed'
  BY <1>0, <1>3, <1>4 DEF Stamped, TakenOnce, TakenServed, Moved
<1>9. LoggedLast' /\ LoggedOnce'
  BY <1>0, <1>3, <1>5, <1>6 DEF LoggedLast, LoggedOnce, Moved
<1>10. SlotsClaimed'
  BY <1>1, <1>3, <1>5, BurstAssumption DEF SlotsClaimed, Moved
<1>11. AnsweredTaken'
  BY <1>0, <1>3 DEF AnsweredTaken, Moved
<1> QED BY <1>5, <1>6, <1>7, <1>8, <1>9, <1>10, <1>11

\* A call writes its slot, which nobody else claimed: its message is not in the log yet.
LEMMA WriteSlotHooks ==
  ASSUME HookInv, NEW d \in Deliveries, WriteSlot(d)
  PROVE  HookInv' /\ \A s \in Slots : Logged(s) => slot'[s] = slot[s]
<1> USE DEF HookInv
<1>0. /\ \A m : Cut(m)' = Cut(m)
      /\ UNCHANGED <<taken, clock, received>> /\ hook[d].pc = "write"
  BY DEF WriteSlot, NoFault, Cut, Hook
<1>1. PICK place : place = hook[d].slot
  OBVIOUS
<1>2. PICK entry : entry = [id |-> d[1], at |-> hook[d].at]
  OBVIOUS
<1>3. place \in Slots /\ slot[place] = Blank /\ entry \in Entries /\ entry.id = d[1]
  BY <1>0, <1>1, <1>2, Deliverable DEF SlotsClaimed, Entries, HookTypes, HookStates
<1>4. Moved(d, "advance", hook[d].at, hook[d].slot)
  BY StepMoves DEF WriteSlot, Hook, HookPcs
<1>5. \A e \in Deliveries : Busy(e)' = Busy(e)
  BY <1>0, <1>4 DEF Busy, Moved, Serving
<1>6. slot' = [slot EXCEPT ![place] = entry]
  BY <1>1, <1>2 DEF WriteSlot
<1>7. slot' \in [Slots -> {None, Blank} \cup Entries] /\ slot'[place] = entry
      /\ \A s \in Slots : s # place => slot'[s] = slot[s]
  BY <1>3, <1>6 DEF HookTypes
<1>8. ~Logged(place) /\ \A s \in Slots : s # place => Logged(s)' = Logged(s)
  BY <1>3, <1>7 DEF Logged
<1>9. \A s \in Slots : Logged(s) /\ slot[s].id = d[1] => Cut(d[1])
  BY <1>0 DEF LoggedLast
<1>10. HookTypes'
  BY <1>0, <1>4, <1>7 DEF HookTypes, Moved
<1>11. Stamped' /\ TakenOnce' /\ TakenServed'
  BY <1>0, <1>4, <1>5 DEF Stamped, TakenOnce, TakenServed, Moved
<1>12. ~Cut(d[1]) =>
         d[1] \in taken /\ \A e \in Deliveries : e[1] = d[1] => hook'[e].pc \notin {"claim", "write"}
  BY <1>0, <1>4 DEF TakenOnce, Busy, Serving, Moved
<1>13. LoggedLast'
  BY <1>0, <1>3, <1>4, <1>7, <1>8, <1>12 DEF LoggedLast, Moved
<1>14. LoggedOnce'
  BY <1>0, <1>3, <1>7, <1>8, <1>9 DEF LoggedOnce
<1>15. SlotsClaimed'
  BY <1>0, <1>1, <1>4, <1>7 DEF SlotsClaimed, Moved
<1>16. AnsweredTaken'
  BY <1>0, <1>4 DEF AnsweredTaken, Moved
<1> QED BY <1>7, <1>8, <1>10, <1>11, <1>13, <1>14, <1>15, <1>16

\* A call moves the tail.
LEMMA AdvanceTailHooks ==
  ASSUME HookInv, NEW d \in Deliveries, AdvanceTail(d)
  PROVE  HookInv'
<1> USE DEF HookInv
<1>0. /\ \A m : Cut(m)' = Cut(m)
      /\ \A s : Logged(s)' = Logged(s)
      /\ UNCHANGED <<taken, slot, clock, received>> /\ hook[d].pc = "advance"
  BY DEF AdvanceTail, NoFault, Cut, Hook, Logged
<1>1. Moved(d, "enqueue", hook[d].at, hook[d].slot)
  BY StepMoves DEF AdvanceTail, Hook, HookPcs
<1>2. \A e \in Deliveries : Busy(e)' = Busy(e)
  BY <1>0, <1>1 DEF Busy, Moved, Serving
<1>3. HookTypes'
  BY <1>0, <1>1 DEF HookTypes, Moved
<1>4. Stamped' /\ TakenOnce' /\ TakenServed'
  BY <1>0, <1>1, <1>2 DEF Stamped, TakenOnce, TakenServed, Moved
<1>5. LoggedLast' /\ LoggedOnce' /\ SlotsClaimed'
  BY <1>0, <1>1 DEF LoggedLast, LoggedOnce, SlotsClaimed, Moved
<1>6. AnsweredTaken'
  BY <1>0, <1>1 DEF AnsweredTaken, Moved
<1> QED BY <1>3, <1>4, <1>5, <1>6

\* A call that ends: its message has a job, or a webhook of it failed.
LEMMA CallEnds ==
  ASSUME HookInv, NEW d \in Deliveries, NEW to \in {"answered", "refused", "dead"},
         Busy(d), Moved(d, to, 0, 0), UNCHANGED <<slot, clock>>,
         taken' = taken \/ (taken' = taken \ {d[1]} /\ Cut(d[1])' /\ to = "refused"),
         cuts \subseteq cuts', \A m \in Messages : Cut(m)' => Cut(m) \/ m = d[1],
         received' \in [Messages -> Nat],
         \A m \in Messages : received[m] # 0 => received'[m] # 0,
         Cut(d[1])' \/ received'[d[1]] # 0
  PROVE  HookInv'
<1> USE DEF HookInv
<1>0. /\ d[1] \in Messages
      /\ \A m : Cut(m) => Cut(m)'
      /\ \A s : Logged(s)' = Logged(s)
  BY Deliverable DEF Cut, Logged
<1>1. ~Busy(d)' /\ \A e \in Deliveries : e # d => Busy(e)' = Busy(e)
  BY DEF Busy, Moved, Serving
<1>2. \A m : m # d[1] => (m \in taken' <=> m \in taken)
  OBVIOUS
<1>3. HookTypes'
  BY DEF HookTypes, Moved
<1>4. Stamped'
  BY <1>1 DEF Stamped, Moved
<1>5. TakenOnce'
  BY <1>0, <1>1 DEF TakenOnce
<1>6. LoggedLast'
  BY <1>0 DEF LoggedLast, Moved
<1>7. LoggedOnce' /\ SlotsClaimed'
  BY <1>0 DEF LoggedOnce, SlotsClaimed, Moved
<1>8. TakenServed'
  <2> SUFFICES ASSUME NEW m \in taken', ~Cut(m)', received'[m] = 0
               PROVE  \E e \in Deliveries : e[1] = m /\ Busy(e)'
    BY DEF TakenServed
  <2>1. m \in taken /\ m \in Messages /\ ~Cut(m) /\ received[m] = 0 /\ m # d[1]
    BY <1>0 DEF HookTypes
  <2> QED BY <1>1, <2>1 DEF TakenServed
<1>9. AnsweredTaken'
  BY <1>0, <1>2 DEF AnsweredTaken, Moved, TakenOnce
<1> QED BY <1>3, <1>4, <1>5, <1>6, <1>7, <1>8, <1>9

\* Whoever enqueues a message leaves it received.
LEMMA EnqueuedTypes ==
  ASSUME HookInv, NEW d \in Deliveries, Busy(d), Enqueued(d)
  PROVE  /\ received' \in [Messages -> Nat] /\ received'[d[1]] # 0
         /\ \A m \in Messages : received[m] # 0 => received'[m] # 0
<1>1. hook[d].at \in Nat /\ hook[d].at > 0 /\ d[1] \in Messages
  BY Deliverable DEF HookInv, HookTypes, HookStates, Stamped
<1> QED BY <1>1 DEF Enqueued, HookInv, HookTypes

\* A call leaves its message with a job.
LEMMA EnqueueJobHooks ==
  ASSUME HookInv, NEW d \in Deliveries, EnqueueJob(d)
  PROVE  HookInv'
<1>1. Busy(d) /\ Moved(d, "answered", 0, 0)
  BY AnswerMoves DEF EnqueueJob, Busy, Serving, HookInv, HookPcs
<1>2. UNCHANGED <<taken, slot, clock, cuts>> /\ Enqueued(d)
  BY DEF EnqueueJob, store, NoFault
<1>3. \A m : Cut(m)' = Cut(m)
  BY <1>2 DEF Cut
<1> QED BY <1>1, <1>2, <1>3, CallEnds, EnqueuedTypes

\* What a fault is added to.
LEMMA FaultCuts ==
  ASSUME NEW what, NEW m, Fault(what, m)
  PROVE  cuts \subseteq cuts' /\ <<what, m>> \in cuts'
         /\ \A x : x # <<what, m>> => (x \in cuts' <=> x \in cuts)
BY DEF Fault

\* A call that fails.
LEMMA HookFailsHooks ==
  ASSUME HookInv, NEW d \in Deliveries, HookFails(d)
  PROVE  HookInv'
<1>1. Busy(d) /\ Moved(d, "refused", 0, 0)
  BY AnswerMoves DEF HookFails, Busy, Serving, HookInv, HookPcs
<1>2. UNCHANGED <<slot, clock>> /\ taken' = taken \ {d[1]} /\ Fault("hook", d[1])
      /\ (Enqueued(d) \/ received' = received)
  BY DEF HookFails
<1>3. cuts \subseteq cuts' /\ Cut(d[1])' /\ \A m : Cut(m)' => Cut(m) \/ m = d[1]
  BY <1>2, FaultCuts DEF Cut
<1>4. received' \in [Messages -> Nat] /\ \A m \in Messages : received[m] # 0 => received'[m] # 0
  BY <1>1, <1>2, EnqueuedTypes DEF HookInv, HookTypes
<1> QED BY <1>1, <1>2, <1>3, <1>4, CallEnds

\* A call whose process dies.
LEMMA HookDiesHooks ==
  ASSUME HookInv, NEW d \in Deliveries, HookDies(d)
  PROVE  HookInv'
<1>1. Busy(d) /\ Moved(d, "dead", 0, 0)
  BY AnswerMoves DEF HookDies, Busy, Serving, HookInv, HookPcs
<1>2. UNCHANGED <<taken, slot, clock, received>> /\ Fault("hook", d[1])
  BY DEF HookDies, store
<1>3. cuts \subseteq cuts' /\ Cut(d[1])' /\ \A m : Cut(m)' => Cut(m) \/ m = d[1]
  BY <1>2, FaultCuts DEF Cut
<1> QED BY <1>1, <1>2, <1>3, CallEnds DEF HookInv, HookTypes

-----------------------------------------------------------------------------
(* The jobs.                                                               *)

\* A job that is over; one that has not begun.
Gone(m)  == received[m] > 0 /\ m \notin ToSet(jobs)
Ahead(m) == ~Gone(m) /\ (jobs = <<>> \/ m # self)

\* A message another one's job leads; that job cut in a phase; a turn of the message that was
\* started by a send that threw; a message that may be answered once more; one answered, or reported.
Led(m)       == owner[m] \in Messages /\ owner[m] # m
LeaderCut(what, m) == Led(m) /\ <<what, owner[m]>> \in cuts
SentLate(m)  == <<"sent", m>> \in cuts \/ LeaderCut("sent", m)
Again(m)     == LeaderCut("act", m) \/ SentLate(m)
Dealt(m)     == Answered(m) \/ m \in told

Gathering == job.pc \in {"own", "owner", "look", "join", "gathered"}
Acting    == job.pc \in {"act", "send", "keep", "mark", "over"}
Sent      == job.pc \in {"keep", "mark", "over"}
Unsent    == job.pc = "send" \/ (job.pc = "act" /\ turnKey[first] = "free")

\* The queue: each message once, the first one runs.
Queued == /\ \A m \in ToSet(jobs) : received[m] > 0
          /\ \A i, j \in DOMAIN jobs : jobs[i] = jobs[j] => i = j
          /\ jobs = <<>> => job = NewJob

\* Of the messages: who leads them, and what was kept and told of their turns.
AheadLeadsNone == \A m \in Messages : Ahead(m) => m \notin batchDone /\ \A x \in Messages : owner[x] # m
LeadersLead    == \A m \in Messages : owner[m] \in Messages => owner[owner[m]] = owner[m]
AnsweredOwned  == \A m \in Messages : Answered(m) \/ turnKey[m] # "free" => owner[m] \in Messages
KeptDealt      == \A m \in Messages : turnKey[m] = "kept" => Dealt(m)
AnsweredEarly  == \A m \in Messages : Answered(m) /\ (Ahead(m) \/ (jobs # <<>> /\ m = self /\ Gathering)) =>
                    /\ Led(m)
                    /\ \/ owner[m] \in batchDone \/ Again(m)
                       \/ jobs # <<>> /\ owner[m] = self /\ Sent
DoneDealt      == \A m \in Messages : owner[m] \in batchDone => Dealt(m) \/ LeaderCut("gather", m)
GoneDealt      == \A m \in Messages : Gone(m) => Dealt(m) \/ Cut(m) \/ LeaderCut("gather", m)
OnceEach       == \A m \in Messages : AnsweredTwice(m) => Cut(m) \/ Again(m)

\* Of the running job: its claim, the batch it gathers, what is left to claim.
OwnsItself == jobs # <<>> =>
  /\ job.pc = "owner" => owner[self] = Blank
  /\ job.pc \in {"look", "join", "gathered"} => owner[self] = self
  /\ job.pc \notin {"own", "owner"} => owner[self] \in Messages
  /\ Gathering => self \notin batchDone /\ (turnKey[self] # "free" => Led(self))
Begun == /\ job.pc \in {"own", "owner", "look"} \/ Acting => job.batch = <<>> /\ job.left = {}
         /\ ~Acting => DOMAIN job.through = {}
BatchLed == job.pc \in {"join", "gathered", "prepare", "stopped"} =>
  /\ jobs # <<>> /\ Len(job.batch) > 0 /\ job.batch[1] = self
  /\ \A i \in DOMAIN job.batch : job.batch[i] = self \/ owner[job.batch[i]] = self
  /\ Led(self) => Len(job.batch) = 1
BatchOnce == \A i, j \in DOMAIN job.batch : job.batch[i] = job.batch[j] => i = j \/ Cut(job.batch[i])
LeftFree  == \A s \in job.left :
  /\ Logged(s) /\ slot[s].id # self
  /\ \/ owner[slot[s].id] \in {None, Blank}
     \/ owner[slot[s].id] = self /\ slot[s].id \in ToSet(job.batch)
  /\ slot[s].id \in ToSet(job.batch) => Cut(slot[s].id)
BatchNew  == \A m \in ToSet(job.batch) :
  /\ Answered(m) => m = self /\ Again(m)
  /\ turnKey[m] # "free" => m = self /\ Led(m)
BatchWhole == jobs # <<>> /\ ~Acting => \A m \in Messages : owner[m] = self =>
  m = self \/ m \in ToSet(job.batch) \/ <<"gather", self>> \in cuts
StoppedTold == job.pc = "stopped" => ToSet(job.batch) \subseteq told

\* Of the running job past the gate: the messages it may answer, its turn key.
ThroughLed == Acting =>
  /\ jobs # <<>> /\ job.through \in Throughs /\ DOMAIN job.through # {}
  /\ first \in Range(job.through) /\ (first = self \/ self \in told)
  /\ \A m \in Range(job.through) : m = self \/ owner[m] = self
ThroughOnce == \A i, j \in DOMAIN job.through : job.through[i] = job.through[j] => i = j \/ Cut(job.through[i])
ThroughNew  == Unsent => \A m \in Range(job.through) : Answered(m) => Again(m)
ThroughWhole == Acting => \A m \in Messages : owner[m] = self =>
  Dealt(m) \/ m \in Range(job.through) \/ (m # self /\ <<"gather", self>> \in cuts)
KeyHeld == /\ job.pc \in {"send", "keep"} => turnKey[first] = "claimed"
           /\ job.pc \in {"mark", "over"} => turnKey[first] = "kept"
           /\ job.pc = "over" => self \in batchDone
ThroughDealt == Acting /\ (turnKey[first] = "kept" \/ job.pc = "keep") =>
  \A m \in Range(job.through) : Dealt(m)

Ledger  == /\ Queued /\ AheadLeadsNone /\ LeadersLead /\ AnsweredOwned /\ KeptDealt /\ AnsweredEarly
           /\ DoneDealt /\ GoneDealt /\ OnceEach
Batch   == /\ OwnsItself /\ Begun /\ BatchLed /\ BatchOnce /\ LeftFree /\ BatchNew /\ BatchWhole
           /\ StoppedTold
Through == /\ ThroughLed /\ ThroughOnce /\ ThroughNew /\ ThroughWhole /\ KeyHeld /\ ThroughDealt
JobInv  == JobTypes /\ Ledger /\ Batch /\ Through

\* The values the definitions read, when what they read does not change.
SameJobs  == /\ jobs' = jobs /\ received' = received /\ self' = self
             /\ \A m : Gone(m)' = Gone(m) /\ Ahead(m)' = Ahead(m)
SameTurns == turns' = turns /\ \A m : Answered(m)' = Answered(m) /\ AnsweredTwice(m)' = AnsweredTwice(m)
Tallied   == told \subseteq told' /\ cuts \subseteq cuts' /\ \A m : Cut(m) => Cut(m)'

\* The queue is as it was.
LEMMA JobsSame ==
  ASSUME UNCHANGED <<jobs, received>>
  PROVE  SameJobs
BY DEF SameJobs, Gone, Ahead, self

\* The turns are as they were.
LEMMA TurnsSame ==
  ASSUME turns' = turns
  PROVE  SameTurns
BY DEF SameTurns, Answered, AnsweredTwice

\* What was told and cut stays so.
LEMMA TalliesGrow ==
  ASSUME told \subseteq told', cuts \subseteq cuts'
  PROVE  Tallied
BY DEF Tallied, Cut

\* The messages past the gate are as they were.
LEMMA FirstSame ==
  ASSUME job'.through = job.through
  PROVE  first' = first
BY DEF first

\* A step that leaves the jobs alone.
LEMMA JobStill ==
  ASSUME JobInv, UNCHANGED <<jobs, job, received, owner, batchDone, turnKey, turns, told>>,
         cuts \subseteq cuts', \A s \in Slots : Logged(s) => slot'[s] = slot[s]
  PROVE  JobInv'
<1> USE DEF JobInv, Ledger, Batch, Through
<1>1. SameJobs /\ SameTurns /\ Tallied /\ first' = first
  BY JobsSame, TurnsSame, TalliesGrow, FirstSame
<1>2. \A m : Led(m)' = Led(m) /\ Dealt(m)' = Dealt(m)
  BY <1>1 DEF Led, Dealt, SameTurns
<1>3. \A m : (\A what : LeaderCut(what, m) => LeaderCut(what, m)') /\ (Again(m) => Again(m)')
  BY <1>2 DEF LeaderCut, SentLate, Again
<1>4. /\ Gathering' = Gathering /\ Acting' = Acting /\ Sent' = Sent /\ Unsent' = Unsent
      /\ JobTypes' /\ Queued'
  BY <1>1 DEF Gathering, Acting, Sent, Unsent, JobTypes, Queued, NewJob
<1>5. AheadLeadsNone' /\ LeadersLead' /\ AnsweredOwned' /\ KeptDealt' /\ DoneDealt' /\ GoneDealt' /\ OnceEach'
  BY <1>1, <1>2, <1>3 DEF SameJobs, SameTurns, Tallied, AheadLeadsNone, LeadersLead, AnsweredOwned,
     KeptDealt, DoneDealt, GoneDealt, OnceEach
<1>6. AnsweredEarly'
  BY <1>1, <1>2, <1>3, <1>4 DEF SameJobs, SameTurns, AnsweredEarly
<1>7. OwnsItself' /\ Begun' /\ BatchLed' /\ BatchOnce' /\ StoppedTold'
  BY <1>1, <1>2, <1>4 DEF SameJobs, Tallied, OwnsItself, Begun, BatchLed, BatchOnce, StoppedTold
<1>8. LeftFree'
  <2>1. \A s \in job.left : Logged(s) /\ Logged(s)' /\ slot'[s] = slot[s]
    BY DEF LeftFree, JobTypes, Logged
  <2> QED BY <1>1, <2>1 DEF SameJobs, Tallied, LeftFree
<1>9. BatchNew' /\ BatchWhole'
  BY <1>1, <1>2, <1>3, <1>4 DEF SameJobs, SameTurns, BatchNew, BatchWhole
<1>10. ThroughLed' /\ ThroughOnce' /\ ThroughNew' /\ ThroughWhole' /\ KeyHeld' /\ ThroughDealt'
  BY <1>1, <1>2, <1>3, <1>4 DEF SameJobs, SameTurns, Tallied, ThroughLed, ThroughOnce, ThroughNew,
     ThroughWhole, KeyHeld, ThroughDealt
<1> QED BY <1>4, <1>5, <1>6, <1>7, <1>8, <1>9, <1>10

\* A queue, each message once: without its head, and with one more.
LEMMA QueueShortens ==
  ASSUME NEW q \in Seq(Messages), q # <<>>, \A i, j \in DOMAIN q : q[i] = q[j] => i = j
  PROVE  /\ Head(q) \in Messages /\ Head(q) \in ToSet(q) /\ Tail(q) \in Seq(Messages)
         /\ ToSet(Tail(q)) = ToSet(q) \ {Head(q)}
         /\ \A i, j \in DOMAIN Tail(q) : Tail(q)[i] = Tail(q)[j] => i = j
         /\ Tail(q) # <<>> => Head(Tail(q)) \in ToSet(q) \ {Head(q)}
<1>1. /\ Len(q) \in Nat /\ Len(q) > 0 /\ DOMAIN q = 1 .. Len(q)
      /\ Head(q) = q[1] /\ Tail(q) \in Seq(Messages) /\ DOMAIN Tail(q) = 1 .. Len(q) - 1
      /\ \A i \in 1 .. Len(q) - 1 : Tail(q)[i] = q[i + 1]
      /\ Tail(q) # <<>> => Len(q) - 1 > 0 /\ Head(Tail(q)) = Tail(q)[1]
  OBVIOUS
<1>2. ToSet(Tail(q)) \subseteq ToSet(q) \ {Head(q)}
  BY <1>1 DEF ToSet
<1>3. ASSUME NEW i \in DOMAIN q, q[i] # Head(q) PROVE q[i] \in ToSet(Tail(q))
  <2>1. i - 1 \in 1 .. Len(q) - 1 /\ i = (i - 1) + 1
    BY <1>1, <1>3
  <2> QED BY <1>1, <2>1 DEF ToSet
<1>4. ToSet(q) \ {Head(q)} \subseteq ToSet(Tail(q))
  BY <1>3 DEF ToSet
<1>5. \A i, j \in DOMAIN Tail(q) : Tail(q)[i] = Tail(q)[j] => i = j
  BY <1>1
<1>6. Head(q) \in Messages /\ Head(q) \in ToSet(q)
  BY <1>1 DEF ToSet
<1>7. ASSUME Tail(q) # <<>> PROVE Head(Tail(q)) \in ToSet(q) \ {Head(q)}
  <2>1. Head(Tail(q)) = Tail(q)[1] /\ 1 \in DOMAIN Tail(q)
    BY <1>1, <1>7
  <2>2. Head(Tail(q)) \in ToSet(Tail(q))
    BY ONLY <2>1 DEF ToSet
  <2> QED BY ONLY <1>2, <2>2
<1>8. ToSet(Tail(q)) = ToSet(q) \ {Head(q)}
  BY ONLY <1>2, <1>4
<1>9. Tail(q) \in Seq(Messages)
  BY <1>1
<1> QED BY ONLY <1>5, <1>6, <1>7, <1>8, <1>9

LEMMA QueueLengthens ==
  ASSUME NEW q \in Seq(Messages), NEW m \in Messages, m \notin ToSet(q),
         \A i, j \in DOMAIN q : q[i] = q[j] => i = j
  PROVE  /\ Append(q, m) \in Seq(Messages) /\ Append(q, m) # <<>>
         /\ ToSet(Append(q, m)) = ToSet(q) \cup {m}
         /\ \A i, j \in DOMAIN Append(q, m) : Append(q, m)[i] = Append(q, m)[j] => i = j
         /\ Head(Append(q, m)) = IF q = <<>> THEN m ELSE Head(q)
<1>1. /\ Len(q) \in Nat /\ DOMAIN q = 1 .. Len(q)
      /\ Append(q, m) \in Seq(Messages) /\ DOMAIN Append(q, m) = 1 .. Len(q) + 1
      /\ \A i \in 1 .. Len(q) : Append(q, m)[i] = q[i]
      /\ Append(q, m)[Len(q) + 1] = m /\ Append(q, m) # <<>>
  OBVIOUS
<1>2. ToSet(Append(q, m)) = ToSet(q) \cup {m}
  BY <1>1 DEF ToSet
<1>3. \A i \in DOMAIN q : q[i] # m
  BY DEF ToSet
<1>4. \A i, j \in DOMAIN Append(q, m) : Append(q, m)[i] = Append(q, m)[j] => i = j
  BY <1>1, <1>3
<1> QED BY <1>1, <1>2, <1>4, HeadTailAppend

\* The head of the queue, the first job and what follows from it.
LEMMA Running ==
  ASSUME JobTypes, Queued, jobs # <<>>
  PROVE  self \in Messages /\ self \in ToSet(jobs) /\ ~Gone(self) /\ ~Ahead(self)
BY QueueShortens DEF JobTypes, Queued, self, Gone, Ahead

\* A job queued: the steps of the others stand, and the first job of an empty queue starts.
LEMMA JobQueued ==
  ASSUME JobInv, NEW m \in Messages, received[m] = 0, NEW at \in Nat, at > 0, received \in [Messages -> Nat],
         received' = [received EXCEPT ![m] = at], jobs' = Append(jobs, m),
         UNCHANGED <<job, owner, batchDone, turnKey, turns, told, slot>>, cuts \subseteq cuts'
  PROVE  JobInv'
<1> USE DEF JobInv, Ledger, Batch, Through
<1>1. SameTurns /\ Tallied /\ first' = first
  BY TurnsSame, TalliesGrow, FirstSame
<1>2. m \notin ToSet(jobs)
  BY DEF Queued
<1>3. /\ jobs' \in Seq(Messages) /\ jobs' # <<>> /\ ToSet(jobs)' = ToSet(jobs) \cup {m}
      /\ \A i, j \in DOMAIN jobs' : jobs'[i] = jobs'[j] => i = j
      /\ self' = IF jobs = <<>> THEN m ELSE self
  BY <1>2, QueueLengthens DEF JobTypes, Queued, self
<1>4. \A x \in Messages : Gone(x)' = Gone(x)
  BY <1>2, <1>3 DEF Gone
<1>5. \A x \in Messages : Ahead(x)' => Ahead(x)
  BY <1>3, <1>4 DEF Ahead
<1>6. Ahead(m) /\ (jobs = <<>> => job = NewJob /\ self' = m) /\ (jobs # <<>> => self' = self)
  <2>1. m # self \/ jobs = <<>>
    BY <1>2, Running DEF Queued
  <2> QED BY <1>2, <1>3, <2>1 DEF Ahead, Gone, Queued
<1>7. \A x : Led(x)' = Led(x) /\ Dealt(x)' = Dealt(x)
  BY <1>1 DEF Led, Dealt, SameTurns
<1>8. \A x : (\A what : LeaderCut(what, x) => LeaderCut(what, x)') /\ (Again(x) => Again(x)')
  BY <1>7 DEF LeaderCut, SentLate, Again
<1>9. /\ Gathering' = Gathering /\ Acting' = Acting /\ Sent' = Sent /\ Unsent' = Unsent
      /\ \A s : Logged(s)' = Logged(s)
      /\ jobs = <<>> => /\ Gathering /\ ~Acting /\ ~Sent /\ ~Unsent /\ job.pc = "own"
                        /\ job.batch = <<>> /\ job.left = {}
  BY <1>1, <1>6 DEF Gathering, Acting, Sent, Unsent, Logged, NewJob
<1>10. JobTypes' /\ Queued'
  BY <1>3 DEF JobTypes, Queued
<1>11. AheadLeadsNone' /\ LeadersLead' /\ AnsweredOwned' /\ KeptDealt' /\ DoneDealt' /\ GoneDealt' /\ OnceEach'
  BY <1>1, <1>4, <1>5, <1>7, <1>8 DEF SameTurns, Tallied, AheadLeadsNone, LeadersLead, AnsweredOwned,
     KeptDealt, DoneDealt, GoneDealt, OnceEach
<1>12. AnsweredEarly'
  BY <1>1, <1>3, <1>5, <1>6, <1>7, <1>8, <1>9 DEF SameTurns, AnsweredEarly
<1>13. OwnsItself'
  <2>1. jobs = <<>> /\ turnKey[m] # "free" => Led(m)
    BY <1>6 DEF AnsweredOwned, AheadLeadsNone, Led
  <2>2. jobs = <<>> => m \notin batchDone
    BY <1>6 DEF AheadLeadsNone
  <2> QED BY <1>6, <1>7, <1>9, <2>1, <2>2 DEF OwnsItself
<1>14. Begun' /\ BatchLed' /\ BatchOnce' /\ StoppedTold'
  BY <1>1, <1>3, <1>6, <1>7, <1>9 DEF Tallied, Begun, BatchLed, BatchOnce, StoppedTold
<1>15. LeftFree'
  BY <1>1, <1>6, <1>9 DEF Tallied, LeftFree
<1>16. BatchNew'
  BY <1>1, <1>6, <1>7, <1>8, <1>9 DEF SameTurns, BatchNew, ToSet
<1>17. BatchWhole'
  BY <1>1, <1>6, <1>9 DEF Tallied, BatchWhole, AheadLeadsNone
<1>18. ThroughLed' /\ ThroughOnce' /\ KeyHeld'
  BY <1>1, <1>3, <1>6, <1>9 DEF SameTurns, Tallied, ThroughLed, ThroughOnce, KeyHeld
<1>19. ThroughNew' /\ ThroughWhole' /\ ThroughDealt'
  BY <1>1, <1>3, <1>6, <1>7, <1>8, <1>9 DEF SameTurns, Tallied, ThroughNew, ThroughWhole, ThroughDealt
<1> QED BY <1>10, <1>11, <1>12, <1>13, <1>14, <1>15, <1>16, <1>17, <1>18, <1>19

\* What holds of the job at every step of the act phase.
LEMMA InAct ==
  ASSUME JobInv, Acting
  PROVE  /\ jobs # <<>> /\ self \in Messages /\ owner[self] \in Messages
         /\ job.batch = <<>> /\ job.left = {} /\ ~Gathering
         /\ first \in Range(job.through) /\ first \in Messages /\ owner[first] \in Messages
         /\ DOMAIN job.through \subseteq Nat /\ Range(job.through) \subseteq Messages
         /\ self \in told \/ first = self
<1> USE DEF JobInv, Ledger, Batch, Through
<1>1. /\ jobs # <<>> /\ first \in Range(job.through) /\ (first = self \/ self \in told)
      /\ job.through \in Throughs /\ \A m \in Range(job.through) : m = self \/ owner[m] = self
  BY DEF ThroughLed
<1>a. PICK D \in SUBSET Nat : job.through \in [D -> Messages]
  BY <1>1 DEF Throughs
<1>2. DOMAIN job.through \subseteq Nat /\ Range(job.through) \subseteq Messages
  BY <1>a DEF Range
<1>3. self \in Messages
  BY <1>1, Running
<1>4. job.pc \notin {"own", "owner"} /\ ~Gathering
  BY DEF Acting, Gathering
<1>5. owner[self] \in Messages /\ job.batch = <<>> /\ job.left = {}
  BY <1>1, <1>4 DEF OwnsItself, Begun
<1> QED BY <1>1, <1>2, <1>3, <1>4, <1>5

\* What a turn answers.
LEMMA SendAnswers ==
  ASSUME NEW through \in Throughs, turns \in Seq(Throughs), turns' = Append(turns, through)
  PROVE  /\ turns' \in Seq(Throughs)
         /\ \A m : Answered(m)' <=> Answered(m) \/ m \in Range(through)
         /\ \A m : AnsweredTwice(m)' =>
              \/ AnsweredTwice(m)
              \/ Answered(m) /\ m \in Range(through)
              \/ \E i, j \in DOMAIN through : i # j /\ through[i] = m /\ through[j] = m
<1>1. PICK n : n = Len(turns) + 1
  OBVIOUS
<1>2. /\ turns' \in Seq(Throughs) /\ n \notin DOMAIN turns /\ DOMAIN turns' = DOMAIN turns \cup {n}
      /\ turns'[n] = through /\ \A t \in DOMAIN turns : turns'[t] = turns[t]
  BY <1>1
<1>3. \A m : Answered(m)' <=> Answered(m) \/ m \in Range(through)
  BY <1>2 DEF Answered
<1>4. ASSUME NEW m, AnsweredTwice(m)'
      PROVE  \/ AnsweredTwice(m)
             \/ Answered(m) /\ m \in Range(through)
             \/ \E i, j \in DOMAIN through : i # j /\ through[i] = m /\ through[j] = m
  <2>1. PICK t \in DOMAIN turns', u \in DOMAIN turns' : \E i \in DOMAIN turns'[t], j \in DOMAIN turns'[u] :
          <<t, i>> # <<u, j>> /\ turns'[t][i] = m /\ turns'[u][j] = m
    BY <1>4 DEF AnsweredTwice
  <2>2. PICK i \in DOMAIN turns'[t], j \in DOMAIN turns'[u] :
          (t # u \/ i # j) /\ turns'[t][i] = m /\ turns'[u][j] = m
    BY <2>1
  <2>3. CASE t = n /\ u = n
    BY <1>2, <2>2, <2>3
  <2>4. CASE t # n /\ u # n
    BY <1>2, <2>2, <2>4 DEF AnsweredTwice
  <2>5. CASE t = n /\ u # n
    BY <1>2, <2>2, <2>5 DEF Answered, Range
  <2>6. CASE t # n /\ u = n
    BY <1>2, <2>2, <2>6 DEF Answered, Range
  <2> QED BY <2>3, <2>4, <2>5, <2>6
<1> QED BY <1>2, <1>3, <1>4

\* A step that starts no turn, or one by a send that throws.
LateTurn == \/ turns' = turns
            \/ /\ job.pc = "send" /\ turns' = Append(turns, job.through)
               /\ <<"sent", self>> \in cuts'

\* The messages of such a turn may be answered once more.
LEMMA LateTurns ==
  ASSUME JobInv, LateTurn, owner' = owner, Tallied
  PROVE  /\ turns' \in Seq(Throughs) /\ OnceEach'
         /\ \A m \in Messages : Again(m) => Again(m)'
         /\ \A m \in Messages : Answered(m) => Answered(m)'
         /\ \A m \in Messages : Answered(m)' =>
              \/ Answered(m)
              \/ /\ Again(m)' /\ Acting /\ <<"sent", self>> \in cuts'
                 /\ (m = self \/ owner[m] = self) /\ owner[m] \in Messages
<1> USE DEF JobInv, Ledger, Batch, Through
<1>1. /\ \A m : Led(m)' = Led(m)
      /\ \A m \in Messages : Again(m) => Again(m)'
  BY DEF Led, Again, SentLate, LeaderCut, Tallied
<1>2. CASE turns' = turns
  <2>1. SameTurns
    BY <1>2, TurnsSame
  <2>2. OnceEach'
    BY <1>1, <2>1 DEF OnceEach, SameTurns, Tallied
  <2> QED BY <1>1, <1>2, <2>1, <2>2 DEF SameTurns, JobTypes
<1>3. CASE job.pc = "send" /\ turns' = Append(turns, job.through) /\ <<"sent", self>> \in cuts'
  <2>1. Acting /\ Unsent
    BY <1>3 DEF Acting, Unsent
  <2>2. /\ self \in Messages /\ owner[self] \in Messages /\ Range(job.through) \subseteq Messages
        /\ job.through \in Throughs /\ \A m \in Range(job.through) : m = self \/ owner[m] = self
    BY <2>1, InAct DEF ThroughLed
  <2>3. /\ turns' \in Seq(Throughs)
        /\ \A m : Answered(m)' <=> Answered(m) \/ m \in Range(job.through)
        /\ \A m : AnsweredTwice(m)' =>
             \/ AnsweredTwice(m)
             \/ Answered(m) /\ m \in Range(job.through)
             \/ \E i, j \in DOMAIN job.through : i # j /\ job.through[i] = m /\ job.through[j] = m
    BY <1>3, <2>2, SendAnswers DEF JobTypes
  <2>4. \A m \in Range(job.through) : Again(m)' /\ owner[m] \in Messages
    BY <1>1, <1>3, <2>2 DEF Again, SentLate, LeaderCut, Led
  <2>5. OnceEach'
    <3> SUFFICES ASSUME NEW m \in Messages, AnsweredTwice(m)' PROVE Cut(m)' \/ Again(m)'
      BY DEF OnceEach
    <3>1. CASE AnsweredTwice(m)
      BY <1>1, <3>1 DEF OnceEach, Tallied
    <3>2. CASE m \in Range(job.through)
      BY <2>4, <3>2
    <3>3. CASE \E i, j \in DOMAIN job.through : i # j /\ job.through[i] = m /\ job.through[j] = m
      BY <3>3 DEF ThroughOnce, Tallied
    <3> QED BY <2>3, <3>1, <3>2, <3>3
  <2> QED BY <1>1, <1>3, <2>1, <2>2, <2>3, <2>4, <2>5
<1> QED BY <1>2, <1>3 DEF LateTurn

\* A job over: what it leaves behind, and the next one starts.
LEMMA JobOver ==
  ASSUME JobInv, jobs # <<>>, NEW l \in Messages, l = self, Over,
         UNCHANGED <<received, owner, batchDone>>, LateTurn,
         told \subseteq told', cuts \subseteq cuts',
         turnKey' \in [Messages -> {"free", "claimed", "kept"}],
         \A m \in Messages : turnKey'[m] # "free" => turnKey'[m] = turnKey[m],
         Sent => self \in batchDone \/ <<"act", self>> \in cuts',
         Dealt(l)' \/ Cut(l)' \/ LeaderCut("gather", l)'
  PROVE  JobInv'
<1> USE DEF JobInv, Ledger, Batch, Through
<1>1. /\ Tallied /\ turns' \in Seq(Throughs) /\ OnceEach'
      /\ \A m \in Messages : (Again(m) => Again(m)') /\ (Answered(m) => Answered(m)')
      /\ \A m \in Messages : Answered(m)' =>
           Answered(m) \/ (Again(m)' /\ (m = self \/ owner[m] = self) /\ owner[m] \in Messages)
  BY TalliesGrow, LateTurns
<1>2. /\ self \in Messages /\ self \in ToSet(jobs) /\ jobs' \in Seq(Messages)
      /\ ToSet(jobs)' = ToSet(jobs) \ {self}
      /\ \A i, j \in DOMAIN jobs' : jobs'[i] = jobs'[j] => i = j
      /\ jobs' # <<>> => self' \in ToSet(jobs) \ {self}
  BY QueueShortens DEF JobTypes, Queued, self, Over
<1>3. \A m \in Messages : Gone(m)' => Gone(m) \/ m = l
  BY <1>2 DEF Gone
<1>4. \A m \in Messages : Ahead(m)' => Ahead(m) /\ m # self
  BY <1>2 DEF Ahead, Gone, Queued
<1>5. jobs' # <<>> => self' \in Messages /\ Ahead(self') /\ self' # self
  BY <1>2 DEF Ahead, Gone, JobTypes, ToSet
<1>6. \A m \in Messages : Led(m)' = Led(m) /\ (Dealt(m) => Dealt(m)')
  BY <1>1 DEF Led, Dealt, Tallied
<1>7. \A m \in Messages : \A what : LeaderCut(what, m) => LeaderCut(what, m)'
  BY <1>1, <1>6 DEF LeaderCut, Tallied
<1>8. /\ job' = NewJob /\ job'.pc = "own" /\ job'.batch = <<>> /\ job'.left = {}
      /\ DOMAIN job'.through = {} /\ job'.batch \in Seq(Messages)
      /\ DOMAIN job' = {"pc", "batch", "left", "next", "through"}
  BY DEF Over, NewJob
<1>9. Gathering' /\ ~Acting' /\ ~Sent' /\ ~Unsent'
  BY <1>8 DEF Gathering, Acting, Sent, Unsent
<1>10. JobTypes'
  BY <1>1, <1>2, <1>8 DEF JobTypes, Pcs
<1>11. Queued'
  BY <1>2, <1>8 DEF Queued
<1>12. AheadLeadsNone' /\ LeadersLead'
  BY <1>4 DEF AheadLeadsNone, LeadersLead
<1>18. AnsweredOwned' /\ KeptDealt'
  BY <1>1, <1>6 DEF AnsweredOwned, KeptDealt
<1>19. DoneDealt' /\ GoneDealt'
  BY <1>1, <1>3, <1>6, <1>7 DEF Tallied, DoneDealt, GoneDealt
<1>13. AnsweredEarly'
  <2> SUFFICES ASSUME NEW m \in Messages, Answered(m)', Ahead(m)' \/ (jobs' # <<>> /\ m = self')
               PROVE  Led(m)' /\ (owner'[m] \in batchDone' \/ Again(m)')
    BY <1>9 DEF AnsweredEarly
  <2>1. Ahead(m) /\ m # self
    BY <1>4, <1>5
  <2>2. CASE Answered(m)
    <3>1. Led(m) /\ (owner[m] \in batchDone \/ Again(m) \/ (owner[m] = self /\ Sent))
      BY <2>1, <2>2 DEF AnsweredEarly
    <3>2. owner[m] = self /\ Sent => owner[m] \in batchDone \/ Again(m)'
      BY <1>6, <3>1 DEF LeaderCut, Again
    <3> QED BY <1>1, <1>6, <3>1, <3>2
  <2>3. CASE ~Answered(m)
    <3>1. Again(m)' /\ owner[m] = self
      BY <1>1, <2>1, <2>3
    <3> QED BY <1>2, <2>1, <3>1 DEF Led
  <2> QED BY <2>2, <2>3
<1>14. OwnsItself'
  <2> SUFFICES ASSUME jobs' # <<>> PROVE self' \notin batchDone /\ (turnKey'[self'] # "free" => Led(self)')
    BY <1>8 DEF OwnsItself
  <2>1. self' \notin batchDone /\ owner[self'] # self'
    BY <1>5 DEF AheadLeadsNone
  <2>2. turnKey'[self'] # "free" => owner[self'] \in Messages
    BY <1>5 DEF AnsweredOwned
  <2> QED BY <2>1, <2>2 DEF Led
<1>15. Begun' /\ BatchLed' /\ BatchOnce' /\ LeftFree' /\ BatchNew' /\ StoppedTold'
  BY <1>8 DEF Begun, BatchLed, BatchOnce, LeftFree, BatchNew, StoppedTold, ToSet
<1>16. BatchWhole'
  BY <1>5 DEF BatchWhole, AheadLeadsNone
<1>17. ThroughLed' /\ ThroughOnce' /\ ThroughNew' /\ ThroughWhole' /\ KeyHeld' /\ ThroughDealt'
  BY <1>8, <1>9 DEF ThroughLed, ThroughOnce, ThroughNew, ThroughWhole, KeyHeld, ThroughDealt
<1> QED BY <1>1, <1>10, <1>11, <1>12, <1>13, <1>14, <1>15, <1>16, <1>17, <1>18, <1>19

-----------------------------------------------------------------------------
(* What a step of the running job may do to the messages, and to the rest. *)

\* A message keeps its leader; one that gets a leader gets the running job, whose burst is not handled.
OwnersMove == \A m \in Messages :
  /\ owner[m] \in Messages => owner'[m] = owner[m]
  /\ owner'[m] \in Messages =>
       owner'[m] = owner[m] \/ (owner'[m] = self /\ owner'[self] = self /\ self \notin batchDone')

\* Whoever was led still is, by the same leader.
LEMMA OwnersKept ==
  ASSUME JobTypes, OwnersMove, Tallied
  PROVE  /\ \A m \in Messages : Led(m) => Led(m)' /\ owner'[m] = owner[m]
         /\ \A what : \A m \in Messages : LeaderCut(what, m) => LeaderCut(what, m)'
         /\ \A m \in Messages : Again(m) => Again(m)'
<1>1. \A m \in Messages : Led(m) => Led(m)' /\ owner'[m] = owner[m]
  BY DEF OwnersMove, Led
<1>2. \A what : \A m \in Messages : LeaderCut(what, m) => LeaderCut(what, m)'
  BY <1>1 DEF LeaderCut, Tallied
<1> QED BY <1>1, <1>2 DEF Again, SentLate, Tallied

\* A step that starts no turn.
LEMMA OnceStill ==
  ASSUME JobTypes, OnceEach, OwnersMove, SameTurns, Tallied
  PROVE  OnceEach'
BY OwnersKept DEF OnceEach, SameTurns, Tallied

\* A step of the running job keeps what holds of the messages.
LEMMA LedgerMoves ==
  ASSUME JobInv, jobs # <<>>, SameJobs, Tallied, OwnersMove,
         Gathering' => Gathering,
         Sent => Sent' \/ self \in batchDone' \/ <<"act", self>> \in cuts',
         batchDone' = batchDone \/ (batchDone' = batchDone \cup {self} /\ ~Gathering'),
         \A m \in Messages : owner'[m] = self /\ self \in batchDone' =>
           (owner[m] = self /\ self \in batchDone) \/ Dealt(m)' \/ LeaderCut("gather", m)',
         \A m \in Messages : turnKey'[m] # "free" => turnKey[m] # "free" \/ owner'[m] \in Messages,
         \A m \in Messages : turnKey'[m] = "kept" => turnKey[m] = "kept" \/ Dealt(m)',
         \A m \in Messages : Answered(m) => Answered(m)',
         \A m \in Messages : Answered(m)' =>
           \/ Answered(m)
           \/ /\ Sent' \/ <<"sent", self>> \in cuts'
              /\ ~Gathering' /\ (m = self \/ owner[m] = self) /\ owner'[m] \in Messages,
         OnceEach'
  PROVE  Ledger'
<1> USE DEF JobInv, Ledger
<1>1. /\ \A m \in Messages : Led(m) => Led(m)' /\ owner'[m] = owner[m]
      /\ \A what : \A m \in Messages : LeaderCut(what, m) => LeaderCut(what, m)'
      /\ \A m \in Messages : Again(m) => Again(m)'
  BY OwnersKept
<1>2. \A m \in Messages : Dealt(m) => Dealt(m)'
  BY DEF Dealt, Tallied
<1>3. self \in Messages /\ ~Ahead(self) /\ self' = self
  BY Running DEF SameJobs
<1>4. Queued'
  BY DEF Queued, SameJobs
<1>5. AheadLeadsNone'
  BY <1>3 DEF AheadLeadsNone, SameJobs, OwnersMove
<1>6. LeadersLead'
  BY DEF LeadersLead, OwnersMove
<1>7. AnsweredOwned' /\ KeptDealt'
  BY <1>2 DEF AnsweredOwned, KeptDealt, OwnersMove
<1>8. AnsweredEarly'
  <2> SUFFICES ASSUME NEW m \in Messages, Answered(m)', Ahead(m)' \/ (m = self /\ Gathering')
               PROVE  /\ Led(m)'
                      /\ owner'[m] \in batchDone' \/ Again(m)' \/ (owner'[m] = self /\ Sent')
    BY <1>3 DEF AnsweredEarly, SameJobs
  <2>1. CASE Answered(m)
    <3>1. /\ Led(m)
          /\ owner[m] \in batchDone \/ Again(m) \/ (owner[m] = self /\ Sent)
      BY <2>1 DEF AnsweredEarly, SameJobs
    <3>2. Led(m)' /\ owner'[m] = owner[m]
      BY <1>1, <3>1
    <3>3. owner[m] = self /\ <<"act", self>> \in cuts' => Again(m)'
      BY <3>2 DEF LeaderCut, Again
    <3> QED BY <1>1, <3>1, <3>2, <3>3
  <2>2. CASE ~Answered(m)
    <3>1. m # self /\ owner[m] = self /\ (Sent' \/ <<"sent", self>> \in cuts')
      BY <1>3, <2>2 DEF SameJobs
    <3>2. Led(m)
      BY <1>3, <3>1 DEF Led
    <3>3. Led(m)' /\ owner'[m] = self
      BY <1>1, <3>1, <3>2
    <3> QED BY <3>1, <3>3 DEF Again, SentLate, LeaderCut
  <2> QED BY <2>1, <2>2
<1>9. DoneDealt'
  <2> SUFFICES ASSUME NEW m \in Messages, owner'[m] \in batchDone'
               PROVE  Dealt(m)' \/ LeaderCut("gather", m)'
    BY DEF DoneDealt
  <2>1. CASE owner'[m] = self
    BY <1>1, <1>2, <2>1 DEF DoneDealt
  <2>2. CASE owner'[m] # self
    <3>1. owner'[m] \in batchDone
      BY <2>2
    <3>2. owner'[m] = owner[m]
      BY <2>2, <3>1 DEF OwnersMove, JobTypes
    <3> QED BY <1>1, <1>2, <3>1, <3>2 DEF DoneDealt
  <2> QED BY <2>1, <2>2
<1>10. GoneDealt'
  BY <1>1, <1>2 DEF GoneDealt, SameJobs, Tallied
<1> QED BY <1>4, <1>5, <1>6, <1>7, <1>8, <1>9, <1>10

\* A job that is not past the gate, and one that is.
LEMMA NotActing ==
  ASSUME ~Acting', DOMAIN job'.through = {}
  PROVE  Through'
<1>1. ~Unsent'
  BY DEF Acting, Unsent
<1> QED
  BY <1>1 DEF Acting, Through, ThroughLed, ThroughOnce, ThroughNew, ThroughWhole, KeyHeld, ThroughDealt

LEMMA ActingBatch ==
  ASSUME Acting', job'.batch = <<>>, job'.left = {}, owner'[self'] \in Messages
  PROVE  Batch'
<1>1. ~Gathering'
  BY DEF Acting, Gathering
<1> QED
  BY <1>1 DEF Acting, Batch, OwnsItself, Begun, BatchLed, BatchOnce, LeftFree, BatchNew, BatchWhole,
     StoppedTold, ToSet

\* Where a step of the gather or prepare phase leaves the messages: their keys, turns and bursts alone.
LEMMA GatherMoves ==
  ASSUME JobInv, jobs # <<>>, UNCHANGED <<jobs, received, turns, turnKey, batchDone>>,
         told \subseteq told', cuts \subseteq cuts', OwnersMove, ~Acting, Gathering' => Gathering
  PROVE  Ledger' /\ SameJobs /\ SameTurns /\ Tallied
<1>1. SameJobs /\ SameTurns /\ Tallied
  BY JobsSame, TurnsSame, TalliesGrow
<1>2. OnceEach'
  BY <1>1, OnceStill DEF JobInv, Ledger
<1>3. ~Sent
  BY DEF Acting, Sent
<1>4. \A m \in Messages : Answered(m)' = Answered(m)
  BY <1>1 DEF SameTurns
<1>5. \A m \in Messages : owner'[m] = self /\ self \in batchDone' => owner[m] = self
  BY Running DEF OwnersMove, JobInv, Ledger
<1> QED BY <1>1, <1>2, <1>3, <1>4, <1>5, LedgerMoves

-----------------------------------------------------------------------------
(* The gather and prepare phases.                                          *)

\* A batch of one message.
LEMMA Single ==
  ASSUME NEW m \in Messages
  PROVE  \E q \in Seq(Messages) : q = <<m>> /\ Len(q) = 1 /\ q[1] = m /\ DOMAIN q = {1} /\ ToSet(q) = {m}
<1>1. <<m>> \in Seq(Messages)
  OBVIOUS
<1>2. PICK q : q = <<m>>
  OBVIOUS
<1>3. q \in Seq(Messages) /\ Len(q) = 1 /\ q[1] = m /\ DOMAIN q = {1}
  BY <1>1, <1>2
<1>4. ToSet(q) = {m}
  BY <1>3 DEF ToSet
<1> QED BY <1>2, <1>3, <1>4

\* The job claims its message, finds it its own, its leader's burst handled, or goes on alone.
LEMMA OwnSelfKeeps ==
  ASSUME JobInv, OwnSelf
  PROVE  JobInv'
<1> USE DEF JobInv, Batch, Ledger
<1>0. /\ jobs # <<>> /\ job.pc = "own" /\ self \in Messages
      /\ UNCHANGED <<slot, batchDone, turnKey, received, turns, told, cuts>>
      /\ \A m : Cut(m)' = Cut(m)
  BY Running DEF OwnSelf, At, history, NoFault, Cut
<1>1. Gathering /\ ~Acting /\ ~Sent /\ job.batch = <<>> /\ job.left = {} /\ DOMAIN job.through = {}
  BY <1>0 DEF Gathering, Acting, Sent, Begun
<1>2. self \notin batchDone /\ (turnKey[self] # "free" => Led(self))
  BY <1>0, <1>1 DEF OwnsItself
<1>3. CASE /\ owner[self] \in {None, Blank} /\ Goto("owner")
           /\ owner' = [owner EXCEPT ![self] = Blank]
           /\ UNCHANGED jobs
  <2>1. OwnersMove
    BY <1>0, <1>3, BurstAssumption DEF OwnersMove, JobTypes
  <2>2. /\ job'.pc = "owner" /\ job'.batch = <<>> /\ job'.left = {} /\ DOMAIN job'.through = {}
        /\ JobTypes' /\ owner'[self] = Blank
    BY <1>0, <1>1, <1>3 DEF JobTypes, Goto, Pcs
  <2>3. ~Acting' /\ Gathering'
    BY <2>2 DEF Acting, Gathering
  <2>4. Ledger' /\ SameJobs /\ SameTurns /\ Tallied
    BY <1>0, <1>1, <1>3, <2>1, GatherMoves
  <2>5. turnKey[self] = "free"
    BY <1>2, <1>3, BurstAssumption DEF Led
  <2>6. OwnsItself'
    BY <1>0, <1>2, <2>2, <2>4, <2>5 DEF OwnsItself, SameJobs
  <2>7. BatchWhole'
    <3>1. /\ \A m \in Messages : owner'[m] = self => owner[m] = self
          /\ ToSet(job.batch) = {} /\ ToSet(job'.batch) = {}
      BY <1>0, <1>1, <1>3, <2>2, BurstAssumption DEF JobTypes, ToSet
    <3> QED BY <1>0, <1>1, <2>4, <3>1 DEF BatchWhole, SameJobs
  <2>8. Begun' /\ BatchLed' /\ BatchOnce' /\ LeftFree' /\ BatchNew' /\ StoppedTold'
    BY <2>2 DEF Begun, BatchLed, BatchOnce, LeftFree, BatchNew, StoppedTold, ToSet
  <2>9. Through'
    BY <2>2, <2>3, NotActing
  <2> QED BY <2>2, <2>4, <2>6, <2>7, <2>8, <2>9
<1>4. CASE owner[self] = self /\ Goto("look") /\ UNCHANGED <<jobs, owner>>
  <2>1. OwnersMove
    BY <1>4 DEF OwnersMove
  <2>2. /\ job'.pc = "look" /\ job'.batch = <<>> /\ job'.left = {} /\ DOMAIN job'.through = {}
        /\ JobTypes'
    BY <1>0, <1>1, <1>4 DEF JobTypes, Goto, Pcs
  <2>3. ~Acting' /\ Gathering'
    BY <2>2 DEF Acting, Gathering
  <2>4. Ledger' /\ SameJobs /\ SameTurns /\ Tallied
    BY <1>0, <1>1, <1>4, <2>1, GatherMoves
  <2>5. turnKey[self] = "free"
    BY <1>2, <1>4 DEF Led
  <2>6. OwnsItself'
    BY <1>0, <1>2, <1>4, <2>2, <2>4, <2>5 DEF OwnsItself, SameJobs
  <2>7. BatchWhole'
    BY <1>0, <1>1, <1>4, <2>2, <2>4 DEF BatchWhole, SameJobs, ToSet
  <2>8. Begun' /\ BatchLed' /\ BatchOnce' /\ LeftFree' /\ BatchNew' /\ StoppedTold'
    BY <2>2 DEF Begun, BatchLed, BatchOnce, LeftFree, BatchNew, StoppedTold, ToSet
  <2>9. Through'
    BY <2>2, <2>3, NotActing
  <2> QED BY <2>2, <2>4, <2>6, <2>7, <2>8, <2>9
<1>5. CASE owner[self] \in Messages \ {self} /\ owner[self] \in batchDone /\ Over /\ UNCHANGED owner
  <2>1. PICK l \in Messages : l = self
    BY <1>0
  <2>2. Led(l)' /\ Led(l) /\ owner[l] \in batchDone
    BY <1>5, <2>1 DEF Led
  <2>3. Dealt(l) \/ LeaderCut("gather", l)
    BY <2>2 DEF DoneDealt
  <2>4. Dealt(l)' \/ LeaderCut("gather", l)'
    BY <1>0, <1>5, <2>2, <2>3, TurnsSame DEF Dealt, LeaderCut, SameTurns
  <2> QED BY <1>0, <1>1, <1>5, <2>1, <2>4, JobOver DEF JobTypes, LateTurn
<1>6. CASE /\ owner[self] \in Messages \ {self} /\ owner[self] \notin batchDone
           /\ job' = [job EXCEPT !.pc = "prepare", !.batch = <<self>>]
           /\ UNCHANGED <<jobs, owner>>
  <2>1. OwnersMove
    BY <1>6 DEF OwnersMove
  <2>a. PICK batch \in Seq(Messages) :
          batch = <<self>> /\ Len(batch) = 1 /\ batch[1] = self /\ DOMAIN batch = {1} /\ ToSet(batch) = {self}
    BY <1>0, Single
  <2>2. /\ job'.pc = "prepare" /\ job'.batch = batch /\ job'.left = {} /\ DOMAIN job'.through = {}
        /\ DOMAIN job' = DOMAIN job
    BY <1>0, <1>1, <1>6, <2>a DEF JobTypes
  <2>3. ~Acting' /\ ~Gathering' /\ JobTypes'
    BY <1>0, <1>6, <2>2 DEF Acting, Gathering, JobTypes, Pcs
  <2>4. Ledger' /\ SameJobs /\ SameTurns /\ Tallied
    BY <1>0, <1>1, <1>6, <2>1, <2>3, GatherMoves
  <2>5. \A m : Led(m)' = Led(m)
    BY <1>6 DEF Led
  <2>6. OwnsItself'
    BY <1>6, <2>2, <2>3, <2>4 DEF OwnsItself, SameJobs
  <2>7. BatchWhole'
    BY <1>0, <1>1, <1>6, <2>a, <2>2, <2>4 DEF BatchWhole, SameJobs, ToSet
  <2>8. Begun' /\ BatchLed' /\ BatchOnce' /\ LeftFree' /\ StoppedTold'
    BY <1>0, <2>a, <2>2, <2>3, <2>4 DEF Begun, BatchLed, BatchOnce, LeftFree, StoppedTold, SameJobs
  <2>9. BatchNew'
    <3>1. owner[self] \notin batchDone => (Answered(self) => Again(self))
      BY <1>0, <1>1 DEF AnsweredEarly
    <3>2. owner[self] \notin batchDone
      BY <1>6
    <3>3. Led(self)
      BY <1>6 DEF Led
    <3>4. \A m : Again(m)' = Again(m)
      BY <1>0, <1>6, <2>5 DEF LeaderCut, SentLate, Again
    <3> QED BY <1>0, <2>a, <2>2, <2>4, <2>5, <3>1, <3>2, <3>3, <3>4 DEF BatchNew, SameJobs, SameTurns
  <2>10. Through'
    BY <2>2, <2>3, NotActing
  <2> QED BY <2>3, <2>4, <2>6, <2>7, <2>8, <2>9, <2>10
<1> QED BY <1>3, <1>4, <1>5, <1>6 DEF OwnSelf

\* The job becomes the leader of its message.
LEMMA SetOwnerKeeps ==
  ASSUME JobInv, SetOwner
  PROVE  JobInv'
<1> USE DEF JobInv, Batch, Ledger
<1>0. /\ jobs # <<>> /\ job.pc = "owner" /\ self \in Messages
      /\ UNCHANGED <<slot, batchDone, turnKey, received, turns, told, cuts, jobs>>
      /\ owner' = [owner EXCEPT ![self] = self] /\ Goto("look")
  BY Running DEF SetOwner, At, history, NoFault
<1>1. Gathering /\ ~Acting /\ ~Sent /\ job.batch = <<>> /\ job.left = {} /\ DOMAIN job.through = {}
  BY <1>0 DEF Gathering, Acting, Sent, Begun
<1>2. self \notin batchDone /\ turnKey[self] = "free" /\ owner[self] = Blank
  BY <1>0, <1>1, BurstAssumption DEF OwnsItself, Led
<1>3. /\ owner'[self] = self /\ (\A m \in Messages : m # self => owner'[m] = owner[m])
      /\ owner' \in [Messages -> Messages \cup {None, Blank}]
  BY <1>0 DEF JobTypes
<1>4. OwnersMove
  BY <1>0, <1>2, <1>3, BurstAssumption DEF OwnersMove
<1>5. /\ job'.pc = "look" /\ job'.batch = <<>> /\ job'.left = {} /\ DOMAIN job'.through = {}
      /\ JobTypes'
  BY <1>0, <1>1, <1>3 DEF JobTypes, Goto, Pcs
<1>6. ~Acting' /\ Gathering'
  BY <1>5 DEF Acting, Gathering
<1>7. Ledger' /\ SameJobs /\ SameTurns /\ Tallied
  BY <1>0, <1>1, <1>4, GatherMoves
<1>8. OwnsItself'
  BY <1>0, <1>2, <1>3, <1>5, <1>7 DEF OwnsItself, SameJobs
<1>9. BatchWhole'
  BY <1>0, <1>1, <1>3, <1>5, <1>7 DEF BatchWhole, SameJobs, ToSet
<1>10. Begun' /\ BatchLed' /\ BatchOnce' /\ LeftFree' /\ BatchNew' /\ StoppedTold'
  BY <1>5 DEF Begun, BatchLed, BatchOnce, LeftFree, BatchNew, StoppedTold, ToSet
<1>11. Through'
  BY <1>5, <1>6, NotActing
<1> QED BY <1>5, <1>7, <1>8, <1>9, <1>10, <1>11

\* A job that begins its batch with its own message, with some slots left to claim.
LEMMA BatchBegins ==
  ASSUME JobInv, At("look"), NEW to \in {"prepare", "join"}, NEW left, left \subseteq Slots,
         DOMAIN job' = DOMAIN job, job'.pc = to, job'.batch = <<self>>, job'.left = left,
         job'.through = job.through,
         UNCHANGED <<slot, owner, batchDone, turnKey, received, turns, told, cuts, jobs>>,
         \A s \in left : Logged(s) /\ slot[s].id # self /\ owner[slot[s].id] \in {None, Blank}
  PROVE  JobInv'
<1> USE DEF JobInv, Batch, Ledger
<1>0. jobs # <<>> /\ job.pc = "look" /\ self \in Messages
  BY Running DEF At
<1>1. Gathering /\ ~Acting /\ ~Sent /\ job.batch = <<>> /\ DOMAIN job.through = {}
  BY <1>0 DEF Gathering, Acting, Sent, Begun
<1>2. self \notin batchDone /\ turnKey[self] = "free" /\ owner[self] = self
  BY <1>0, <1>1 DEF OwnsItself, Led
<1>3. ~Answered(self)
  BY <1>0, <1>1, <1>2 DEF AnsweredEarly, Led
<1>4. PICK batch \in Seq(Messages) :
        batch = <<self>> /\ Len(batch) = 1 /\ batch[1] = self /\ DOMAIN batch = {1} /\ ToSet(batch) = {self}
  BY <1>0, Single
<1>5. /\ Len(batch) = 1 /\ batch[1] = self /\ DOMAIN batch = {1} /\ ToSet(batch) = {self}
      /\ job'.batch = batch
  BY <1>4
<1>6. OwnersMove /\ ~Acting' /\ JobTypes'
  BY <1>5 DEF OwnersMove, Acting, JobTypes, Pcs
<1>7. Ledger' /\ SameJobs /\ SameTurns /\ Tallied
  BY <1>0, <1>1, <1>6, GatherMoves
<1>8. (\A m : Led(m)' = Led(m)) /\ (\A s : Logged(s)' = Logged(s))
  BY DEF Led, Logged
<1>9. OwnsItself'
  BY <1>0, <1>2, <1>7, <1>8 DEF OwnsItself, SameJobs
<1>10. BatchWhole'
  BY <1>0, <1>1, <1>5, <1>7 DEF BatchWhole, SameJobs, ToSet
<1>11. Begun' /\ BatchLed' /\ BatchOnce' /\ StoppedTold'
  BY <1>0, <1>1, <1>2, <1>5, <1>6, <1>7, <1>8
     DEF Begun, BatchLed, BatchOnce, StoppedTold, SameJobs, Led
<1>12. LeftFree'
  BY <1>5, <1>7, <1>8 DEF LeftFree, SameJobs
<1>13. BatchNew'
  BY <1>2, <1>3, <1>5, <1>7 DEF BatchNew, SameJobs, SameTurns
<1>14. Through'
  BY <1>1, <1>6, NotActing
<1> QED BY <1>6, <1>7, <1>9, <1>10, <1>11, <1>12, <1>13, <1>14

\* A message that is never grouped.
LEMMA GatherAloneKeeps ==
  ASSUME JobInv, GatherAlone
  PROVE  JobInv'
<1>1. /\ UNCHANGED <<slot, owner, batchDone, turnKey, received, turns, told, cuts, jobs>>
      /\ At("look") /\ job' = [job EXCEPT !.pc = "prepare", !.batch = <<self>>] /\ job.left = {}
  BY DEF GatherAlone, store, history, NoFault, JobInv, Batch, Begun, At
<1>2. /\ DOMAIN job' = DOMAIN job /\ job'.pc = "prepare" /\ job'.batch = <<self>> /\ job'.left = {}
      /\ job'.through = job.through
  BY <1>1 DEF JobInv, JobTypes
<1> QED BY <1>1, <1>2, BatchBegins

\* What joins the batch is in the log and nobody's.
LEMMA JoiningFree ==
  \A s \in Joining : s \in Slots /\ Logged(s) /\ slot[s].id # self /\ owner[slot[s].id] \in {None, Blank}
BY DEF Joining, Later, Open, Seen, Written, Logged

\* The look that closes the batch.
LEMMA LookKeeps ==
  ASSUME JobInv, Look
  PROVE  JobInv'
<1>1. /\ UNCHANGED <<slot, owner, batchDone, turnKey, received, turns, told, cuts, jobs>>
      /\ At("look")
      /\ job' = [job EXCEPT !.pc = "join", !.batch = <<self>>, !.left = Joining, !.next = NextHead]
  BY DEF Look, store, history, NoFault
<1>2. /\ DOMAIN job' = DOMAIN job /\ job'.pc = "join" /\ job'.batch = <<self>> /\ job'.left = Joining
      /\ job'.through = job.through
  BY <1>1 DEF JobInv, JobTypes
<1>3. Joining \subseteq Slots
  BY JoiningFree
<1> QED BY <1>1, <1>2, <1>3, BatchBegins, JoiningFree

\* A slot of the batch claimed, of message m.
Claims(s, m) ==
  \/ /\ owner[m] = None
     /\ owner' = [owner EXCEPT ![m] = Blank]
     /\ UNCHANGED job
  \/ /\ owner[m] # None
     /\ owner' = [owner EXCEPT ![m] = self]
     /\ job' = [job EXCEPT !.left = @ \ {s}, !.batch = Append(@, m)]

\* A message that joins is claimed, then owned.
LEMMA OwnKeeps ==
  ASSUME HookInv, JobInv, Own
  PROVE  JobInv'
<1> USE DEF JobInv, Batch, Ledger
<1>0. /\ jobs # <<>> /\ job.pc = "join" /\ self \in Messages
      /\ UNCHANGED <<slot, batchDone, turnKey, received, turns, told, cuts, jobs>>
      /\ \A m : Cut(m)' = Cut(m)
  BY Running DEF Own, At, history, NoFault, Cut
<1>1. Gathering /\ ~Acting /\ ~Sent /\ DOMAIN job.through = {}
  BY <1>0 DEF Gathering, Acting, Sent, Begun
<1>2. self \notin batchDone /\ turnKey[self] = "free" /\ owner[self] = self
  BY <1>0, <1>1 DEF OwnsItself, Led
<1>a. PICK s \in job.left : Claims(s, slot[s].id)
  BY DEF Own, Claims
<1>3. PICK m : m = slot[s].id /\ Claims(s, m)
  BY <1>a
<1>4. /\ s \in Slots /\ Logged(s) /\ m \in Messages /\ m # self
      /\ owner[m] \in {None, Blank} \/ (owner[m] = self /\ m \in ToSet(job.batch))
      /\ m \in ToSet(job.batch) => Cut(m)
  BY <1>3 DEF LeftFree, JobTypes, HookInv, HookTypes, Entries, Logged
<1>5. \A t : Logged(t)' = Logged(t)
  BY <1>0 DEF Logged
<1>6. CASE owner[m] = None /\ owner' = [owner EXCEPT ![m] = Blank] /\ UNCHANGED job
  <2>1. /\ owner' \in [Messages -> Messages \cup {None, Blank}]
        /\ owner'[m] = Blank /\ \A x \in Messages : x # m => owner'[x] = owner[x]
    BY <1>4, <1>6 DEF JobTypes
  <2>2. OwnersMove
    BY <1>4, <1>6, <2>1, BurstAssumption DEF OwnersMove
  <2>3. JobTypes' /\ ~Acting' /\ Gathering'
    BY <1>0, <1>1, <1>6, <2>1 DEF JobTypes, Acting, Gathering
  <2>4. Ledger' /\ SameJobs /\ SameTurns /\ Tallied
    BY <1>0, <1>1, <2>2, <2>3, GatherMoves
  <2>5. m \notin ToSet(job.batch) /\ Led(self)' = Led(self)
    <3>1. \A i \in DOMAIN job.batch : job.batch[i] # m
      BY <1>0, <1>4, <1>6, BurstAssumption DEF BatchLed
    <3> QED BY <1>0, <1>4, <2>1, <2>4, <3>1 DEF Led, SameJobs, ToSet
  <2>6. OwnsItself'
    BY <1>0, <1>2, <1>4, <1>6, <2>1, <2>4 DEF OwnsItself, SameJobs
  <2>7. BatchWhole'
    BY <1>0, <1>1, <1>6, <2>1, <2>4, BurstAssumption DEF BatchWhole, SameJobs
  <2>8. Begun' /\ BatchOnce' /\ StoppedTold'
    BY <1>0, <1>1, <1>6, <2>3 DEF Begun, BatchOnce, StoppedTold
  <2>9. BatchLed'
    <3>1. \A i \in DOMAIN job.batch : job.batch[i] \in Messages /\ job.batch[i] # m
      BY <2>5 DEF ToSet, JobTypes
    <3> QED BY <1>0, <1>6, <2>1, <2>4, <2>5, <3>1 DEF BatchLed, SameJobs
  <2>10. LeftFree'
    <3> SUFFICES ASSUME NEW t \in job.left
                 PROVE  /\ Logged(t)' /\ slot[t].id # self
                        /\ \/ owner'[slot[t].id] \in {None, Blank}
                           \/ owner'[slot[t].id] = self /\ slot[t].id \in ToSet(job.batch)
                        /\ slot[t].id \in ToSet(job.batch) => Cut(slot[t].id)'
      BY <1>0, <1>6, <2>4 DEF LeftFree, SameJobs
    <3>1. slot[t].id \in Messages /\ Logged(t)
      BY DEF LeftFree, JobTypes, HookInv, HookTypes, Entries, Logged
    <3> QED BY <1>0, <1>5, <2>1, <3>1 DEF LeftFree
  <2>11. BatchNew'
    BY <1>0, <1>2, <1>6, <2>4, <2>5 DEF BatchNew, SameJobs, SameTurns, Led, LeaderCut, SentLate, Again
  <2>12. Through'
    BY <1>1, <1>6, <2>3, NotActing
  <2> QED BY <2>3, <2>4, <2>6, <2>7, <2>8, <2>9, <2>10, <2>11, <2>12
<1>7. CASE /\ owner[m] # None
           /\ owner' = [owner EXCEPT ![m] = self]
           /\ job' = [job EXCEPT !.left = @ \ {s}, !.batch = Append(@, m)]
  <2>1. /\ owner' \in [Messages -> Messages \cup {None, Blank}]
        /\ owner'[m] = self /\ \A x \in Messages : x # m => owner'[x] = owner[x]
    BY <1>0, <1>4, <1>7 DEF JobTypes
  <2>2. OwnersMove
    BY <1>2, <1>0, <1>4, <1>7, <2>1, BurstAssumption DEF OwnersMove
  <2>a. PICK batch : batch = Append(job.batch, m)
    OBVIOUS
  <2>b. /\ batch \in Seq(Messages) /\ Len(batch) = Len(job.batch) + 1 /\ Len(job.batch) \in Nat
        /\ DOMAIN batch = 1 .. Len(job.batch) + 1 /\ DOMAIN job.batch = 1 .. Len(job.batch)
        /\ \A i \in 1 .. Len(job.batch) : batch[i] = job.batch[i]
        /\ batch[Len(job.batch) + 1] = m
    BY <1>4, <2>a DEF JobTypes
  <2>c. ToSet(batch) = ToSet(job.batch) \cup {m}
    BY <2>b DEF ToSet
  <2>3. /\ DOMAIN job' = DOMAIN job /\ job'.pc = "join" /\ job'.batch = batch /\ job'.left = job.left \ {s}
        /\ job'.through = job.through
    BY <1>0, <1>7, <2>a DEF JobTypes
  <2>4. JobTypes' /\ ~Acting' /\ Gathering'
    BY <1>0, <1>1, <2>1, <2>b, <2>3 DEF JobTypes, Acting, Gathering
  <2>5. Ledger' /\ SameJobs /\ SameTurns /\ Tallied
    BY <1>0, <1>1, <2>2, <2>4, GatherMoves
  <2>6. OwnsItself'
    BY <1>0, <1>2, <1>4, <2>1, <2>3, <2>5 DEF OwnsItself, SameJobs
  <2>7. BatchWhole'
    BY <1>0, <1>1, <2>1, <2>c, <2>3, <2>5 DEF BatchWhole, SameJobs
  <2>8. Begun' /\ StoppedTold'
    BY <1>0, <1>1, <2>3, <2>4 DEF Begun, StoppedTold
  <2>9. BatchOnce'
    <3>1. \A i \in DOMAIN job.batch : batch[i] = m => Cut(m)
      BY <1>4, <2>b DEF ToSet
    <3> QED BY <1>0, <2>b, <2>3, <3>1 DEF BatchOnce
  <2>10. BatchLed'
    <3>1. ~Led(self)'
      BY <1>0, <1>2, <1>4, <2>1, <2>5 DEF Led, SameJobs
    <3>2. \A i \in DOMAIN job.batch : batch[i] = self \/ owner'[batch[i]] = self
      <4>1. \A i \in DOMAIN job.batch : batch[i] \in Messages
        BY <2>b DEF JobTypes
      <4> QED BY <1>0, <2>1, <2>b, <4>1 DEF BatchLed
    <3>3. 1 \in DOMAIN job.batch /\ batch[1] = self
      BY <1>0, <2>b DEF BatchLed
    <3> QED BY <1>0, <2>1, <2>b, <2>3, <2>5, <3>1, <3>2, <3>3 DEF BatchLed, SameJobs
  <2>11. LeftFree'
    <3> SUFFICES ASSUME NEW t \in job.left, t # s
                 PROVE  /\ Logged(t)' /\ slot[t].id # self
                        /\ \/ owner'[slot[t].id] \in {None, Blank}
                           \/ owner'[slot[t].id] = self /\ slot[t].id \in ToSet(batch)
                        /\ slot[t].id \in ToSet(batch) => Cut(slot[t].id)'
      BY <1>0, <2>3, <2>5 DEF LeftFree, SameJobs
    <3>1. slot[t].id \in Messages /\ Logged(t) /\ t \in Slots
      BY DEF LeftFree, JobTypes, HookInv, HookTypes, Entries, Logged
    <3>2. slot[t].id = m => Cut(m)
      BY <1>3, <1>4, <3>1 DEF HookInv, LoggedOnce
    <3> QED BY <1>0, <1>5, <2>1, <2>c, <3>1, <3>2 DEF LeftFree
  <2>12. BatchNew'
    <3>1. ~Answered(m) /\ turnKey[m] = "free"
      BY <1>4, BurstAssumption DEF AnsweredOwned, BatchNew, JobTypes
    <3>2. ~Answered(self)
      BY <1>0, <1>1, <1>2 DEF AnsweredEarly, Led
    <3> QED BY <1>0, <1>2, <2>c, <2>3, <2>5, <3>1, <3>2 DEF BatchNew, SameJobs, SameTurns
  <2>13. Through'
    BY <1>1, <2>3, <2>4, NotActing
  <2> QED BY <2>4, <2>5, <2>6, <2>7, <2>8, <2>9, <2>10, <2>11, <2>12, <2>13
<1> QED BY <1>3, <1>6, <1>7 DEF Claims

\* The job goes on with its batch as it is.
LEMMA BatchGoesOn ==
  ASSUME JobInv, jobs # <<>>, UNCHANGED <<slot, owner, batchDone, turnKey, received, turns, told, jobs>>,
         cuts \subseteq cuts', DOMAIN job' = DOMAIN job,
         job'.batch = job.batch, job'.through = job.through, job'.left = job.left,
         \/ job.pc = "join" /\ job'.pc = "gathered"
         \/ job.pc = "gathered" /\ job'.pc = "prepare"
         \/ job.pc = "stopped" /\ job'.pc = "prepare"
  PROVE  JobInv'
<1> USE DEF JobInv, Batch, Ledger
<1>1. OwnersMove /\ JobTypes' /\ ~Acting /\ ~Acting' /\ DOMAIN job.through = {}
  BY DEF OwnersMove, JobTypes, Pcs, Acting, Begun
<1>2. Gathering' => Gathering
  BY DEF Gathering
<1>3. Ledger' /\ SameJobs /\ SameTurns /\ Tallied
  BY <1>1, <1>2, GatherMoves
<1>4. /\ \A m : Led(m)' = Led(m)
      /\ \A m : Again(m) => Again(m)'
      /\ \A s : Logged(s)' = Logged(s)
  BY DEF Led, LeaderCut, SentLate, Again, Logged
<1>5. OwnsItself'
  BY <1>2, <1>3, <1>4 DEF OwnsItself, SameJobs
<1>6. Begun' /\ BatchLed' /\ BatchOnce' /\ StoppedTold'
  BY <1>1, <1>3, <1>4 DEF Begun, BatchLed, BatchOnce, StoppedTold, SameJobs, Tallied
<1>7. LeftFree' /\ BatchNew' /\ BatchWhole'
  BY <1>1, <1>3, <1>4 DEF LeftFree, BatchNew, BatchWhole, SameJobs, SameTurns, Tallied
<1>8. Through'
  BY <1>1, NotActing
<1> QED BY <1>1, <1>3, <1>5, <1>6, <1>7, <1>8

\* The next leader's start is written.
LEMMA SetHeadKeeps ==
  ASSUME JobInv, SetHead
  PROVE  JobInv'
<1>1. /\ jobs # <<>> /\ UNCHANGED <<slot, owner, batchDone, turnKey, received, turns, told, jobs, cuts>>
      /\ job.pc = "join" /\ job' = [job EXCEPT !.pc = "gathered", !.next = 0]
  BY DEF SetHead, At, history, NoFault
<1> QED BY <1>1, BatchGoesOn DEF JobInv, JobTypes

\* The gather phase is recorded.
LEMMA GatherRecordedKeeps ==
  ASSUME JobInv, GatherRecorded
  PROVE  JobInv'
<1>1. /\ jobs # <<>> /\ UNCHANGED <<slot, owner, batchDone, turnKey, received, turns, told, jobs, cuts>>
      /\ job.pc = "gathered" /\ job' = [job EXCEPT !.pc = "prepare"]
  BY DEF GatherRecorded, At, Goto, store, history, NoFault
<1> QED BY <1>1, BatchGoesOn DEF JobInv, JobTypes

\* A set of naturals that is not empty has a least one.
LEMMA SmallestOf ==
  ASSUME NEW S \in SUBSET Nat, S # {}
  PROVE  Min(S) \in S /\ \A n \in S : Min(S) <= n
<1>1. PICK x \in S : \A y \in S : ~(<<y, x>> \in OpToRel(<, Nat))
  BY WFMin, NatLessThanWellFounded
<1>2. \A y \in S : x <= y
  <2> SUFFICES ASSUME NEW y \in S, y < x PROVE FALSE
    OBVIOUS
  <2>1. <<y, x>> \in OpToRel(<, Nat)
    BY DEF OpToRel
  <2> QED BY <1>1, <2>1
<1> QED BY <1>2 DEF Min

\* The places of the batch past the gate.
Passes(stopped, past) ==
  /\ job' = IF past = {} THEN [job EXCEPT !.pc = "stopped"]
              ELSE [NewJob EXCEPT !.pc = "act", !.through = [i \in past |-> job.batch[i]]]
  /\ batchDone' = IF past = {} THEN batchDone \cup {self} ELSE batchDone
  /\ told' = told \cup stopped

\* The gate: nothing is left of the batch, or what is past it goes on.
LEMMA PrepareKeeps ==
  ASSUME JobInv, Prepare
  PROVE  JobInv'
<1> USE DEF JobInv, Batch, Ledger
<1>0. /\ jobs # <<>> /\ job.pc = "prepare" /\ self \in Messages
      /\ UNCHANGED <<slot, owner, turnKey, received, turns, cuts, jobs>>
      /\ \A m : Cut(m)' = Cut(m)
  BY Running DEF Prepare, At, NoFault, Cut
<1>a. PICK stopped \in SUBSET (ToSet(job.batch) \cap Doubtful) :
        Passes(stopped, {i \in DOMAIN job.batch : job.batch[i] \notin stopped})
  BY DEF Prepare, Passes
<1>b. PICK past : past = {i \in DOMAIN job.batch : job.batch[i] \notin stopped} /\ Passes(stopped, past)
  BY <1>a
<1>1. /\ past = {i \in DOMAIN job.batch : job.batch[i] \notin stopped}
      /\ job' = IF past = {} THEN [job EXCEPT !.pc = "stopped"]
                  ELSE [NewJob EXCEPT !.pc = "act", !.through = [i \in past |-> job.batch[i]]]
      /\ batchDone' = IF past = {} THEN batchDone \cup {self} ELSE batchDone
      /\ told' = told \cup stopped
  BY <1>b DEF Passes
<1>2. /\ ~Gathering /\ ~Acting /\ ~Sent /\ DOMAIN job.through = {} /\ owner[self] \in Messages
  BY <1>0 DEF Gathering, Acting, Sent, Begun, OwnsItself
<1>3. /\ SameJobs /\ SameTurns /\ Tallied /\ OwnersMove
      /\ \A m : Led(m)' = Led(m)
      /\ \A what, m : LeaderCut(what, m)' = LeaderCut(what, m)
      /\ \A m : Again(m)' = Again(m)
  BY <1>0, <1>1, JobsSame, TurnsSame, TalliesGrow DEF OwnersMove, Led, LeaderCut, SentLate, Again
<1>4. /\ 1 \in DOMAIN job.batch /\ job.batch[1] = self /\ self \in ToSet(job.batch)
      /\ \A i \in DOMAIN job.batch : job.batch[i] = self \/ owner[job.batch[i]] = self
      /\ Led(self) => DOMAIN job.batch = {1}
      /\ DOMAIN job.batch \subseteq Nat /\ \A i \in DOMAIN job.batch : job.batch[i] \in Messages /\ i >= 1
  <2>1. /\ Len(job.batch) > 0 /\ job.batch[1] = self
        /\ \A i \in DOMAIN job.batch : job.batch[i] = self \/ owner[job.batch[i]] = self
        /\ Led(self) => Len(job.batch) = 1
    BY <1>0 DEF BatchLed
  <2>2. /\ DOMAIN job.batch = 1 .. Len(job.batch) /\ Len(job.batch) \in Nat
        /\ \A i \in 1 .. Len(job.batch) : job.batch[i] \in Messages
    BY DEF JobTypes
  <2> QED BY <2>1, <2>2 DEF ToSet
<1>5. \A m \in Messages : owner[m] = self => m \in ToSet(job.batch) \/ (m # self /\ LeaderCut("gather", m))
  BY <1>0, <1>2, <1>4 DEF BatchWhole, LeaderCut, Led
<1>6. OnceEach' /\ (\A m : Answered(m)' = Answered(m))
  BY <1>3, OnceStill DEF SameTurns
<1>7. CASE past = {}
  <2>1. /\ DOMAIN job' = DOMAIN job /\ job'.pc = "stopped" /\ job'.batch = job.batch
        /\ job'.left = job.left /\ job'.through = job.through /\ batchDone' = batchDone \cup {self}
        /\ ToSet(job.batch) \subseteq told'
    BY <1>1, <1>7 DEF JobTypes, ToSet
  <2>2. JobTypes' /\ ~Gathering' /\ ~Acting'
    BY <1>0, <2>1 DEF JobTypes, Pcs, Gathering, Acting
  <2>3. \A m \in Messages : owner'[m] = self => Dealt(m)' \/ LeaderCut("gather", m)'
    BY <1>0, <1>3, <1>5, <2>1 DEF Dealt
  <2>4. Ledger'
    BY <1>0, <1>2, <1>3, <1>6, <2>1, <2>2, <2>3, LedgerMoves
  <2>5. OwnsItself'
    BY <1>0, <1>2, <1>3, <2>1, <2>2 DEF OwnsItself, SameJobs
  <2>6. Begun' /\ BatchLed' /\ BatchOnce' /\ StoppedTold'
    BY <1>0, <1>2, <1>3, <2>1, <2>2 DEF Begun, BatchLed, BatchOnce, StoppedTold, SameJobs
  <2>7. LeftFree' /\ BatchNew' /\ BatchWhole'
    <3>1. \A s : Logged(s)' = Logged(s)
      BY <1>0 DEF Logged
    <3> QED BY <1>0, <1>2, <1>3, <2>1, <2>2, <3>1 DEF LeftFree, BatchNew, BatchWhole, SameJobs, SameTurns
  <2>8. Through'
    BY <1>2, <2>1, <2>2, NotActing
  <2> QED BY <2>2, <2>4, <2>5, <2>6, <2>7, <2>8
<1>8. CASE past # {}
  <2>a. PICK through : through = [i \in past |-> job.batch[i]]
    OBVIOUS
  <2>b. /\ past \in SUBSET Nat /\ past \subseteq DOMAIN job.batch
        /\ \A i \in past : job.batch[i] \in Messages /\ job.batch[i] \notin stopped
    BY <1>1, <1>4
  <2>c. /\ DOMAIN through = past /\ through \in [past -> Messages] /\ through \in Throughs
        /\ \A i \in past : through[i] = job.batch[i]
    BY <2>a, <2>b DEF Throughs
  <2>d. Min(past) \in past /\ \A n \in past : Min(past) <= n
    BY <1>8, <2>b, SmallestOf
  <2>1. /\ DOMAIN job' = {"pc", "batch", "left", "next", "through"} /\ job'.pc = "act"
        /\ job'.batch = <<>> /\ job'.left = {} /\ job'.through = through /\ batchDone' = batchDone
    BY <1>1, <1>8, <2>a DEF NewJob
  <2>2. JobTypes' /\ ~Gathering' /\ Acting' /\ ~Sent'
    BY <1>0, <2>1 DEF JobTypes, Pcs, Gathering, Acting, Sent
  <2>3. Ledger'
    <3>1. \A m \in Messages : owner'[m] = self /\ self \in batchDone' => owner[m] = self /\ self \in batchDone
      BY <1>0, <2>1
    <3> QED BY <1>0, <1>2, <1>3, <1>6, <2>1, <2>2, <3>1, LedgerMoves
  <2>4. Batch'
    BY <1>0, <1>2, <1>3, <2>1, <2>2, ActingBatch DEF SameJobs
  <2>5. first' = through[Min(past)] /\ first' = job.batch[Min(past)]
    BY <2>1, <2>c, <2>d DEF first
  <2>6. first' \in Range(through) /\ \A m \in Range(through) : m \in ToSet(job.batch)
    BY <2>5, <2>b, <2>c, <2>d DEF Range, ToSet
  <2>7. first' = self \/ self \in told'
    <3>1. CASE 1 \in past
      BY <1>4, <2>b, <2>d, <2>5, <3>1
    <3>2. CASE 1 \notin past
      BY <1>1, <1>4, <3>2
    <3> QED BY <3>1, <3>2
  <2>8. ThroughLed'
    <3>1. \A m \in Range(through) : m = self \/ owner[m] = self
      BY <1>4, <2>6 DEF ToSet
    <3> QED BY <1>0, <1>3, <1>8, <2>1, <2>c, <2>6, <2>7, <3>1 DEF ThroughLed, SameJobs
  <2>9. ThroughOnce'
    BY <1>0, <2>1, <2>b, <2>c DEF ThroughOnce, BatchOnce
  <2>10. ThroughNew'
    BY <1>3, <2>1, <2>6 DEF ThroughNew, BatchNew, SameJobs, SameTurns
  <2>11. ThroughWhole'
    <3>1. \A m \in ToSet(job.batch) : m \in stopped \/ m \in Range(through)
      BY <1>1, <2>c DEF ToSet, Range
    <3>2. \A m \in Messages : owner[m] = self =>
            m \in told' \/ m \in Range(through) \/ (m # self /\ <<"gather", self>> \in cuts)
      BY <1>1, <1>5, <3>1 DEF LeaderCut
    <3> QED BY <1>0, <1>3, <2>1, <3>2 DEF ThroughWhole, SameJobs, Dealt
  <2>12. KeyHeld'
    BY <2>1 DEF KeyHeld
  <2>13. ThroughDealt'
    <3> SUFFICES ASSUME turnKey[first'] = "kept", NEW m \in Range(through) PROVE Dealt(m)'
      BY <1>0, <2>1 DEF ThroughDealt
    <3>1. first' = self /\ Led(self)
      BY <2>6 DEF BatchNew
    <3>2. m = self
      BY <1>4, <2>6, <3>1 DEF ToSet
    <3> QED BY <1>0, <1>3, <3>1, <3>2 DEF KeptDealt, Dealt, SameTurns, Tallied
  <2> QED BY <2>2, <2>3, <2>4, <2>8, <2>9, <2>10, <2>11, <2>12, <2>13 DEF Through
<1> QED BY <1>7, <1>8

\* A burst stopped whole is over.
LEMMA PrepareStoppedKeeps ==
  ASSUME JobInv, PrepareStopped
  PROVE  JobInv'
<1>1. /\ jobs # <<>> /\ job.pc = "stopped" /\ Over
      /\ UNCHANGED <<received, owner, batchDone, turnKey, turns, told, cuts>>
  BY DEF PrepareStopped, At, store, history, NoFault
<1>2. PICK l \in Messages : l = self
  BY <1>1, Running DEF JobInv, Ledger
<1>3. l \in told' /\ ~Sent
  BY <1>1, <1>2 DEF JobInv, Batch, JobTypes, BatchLed, StoppedTold, ToSet, Sent
<1> QED BY <1>1, <1>2, <1>3, JobOver DEF JobInv, JobTypes, Dealt, LateTurn

-----------------------------------------------------------------------------
(* The act phase.                                                          *)

\* The job reaches the step `to` of the act phase with the messages it has; the turn key of the
\* first one may change, messages may be reported.
LEMMA ActMoves ==
  ASSUME JobInv, Acting, NEW to \in {"act", "send", "keep", "mark", "over"}, Goto(to),
         UNCHANGED <<jobs, received, owner>>, LateTurn, told \subseteq told', cuts \subseteq cuts',
         NEW key \in {"free", "claimed", "kept"}, turnKey' = [turnKey EXCEPT ![first] = key],
         batchDone' = batchDone \/ (batchDone' = batchDone \cup {self} /\ turnKey[first] = "kept"),
         Sent => to \in {"keep", "mark", "over"} \/ <<"act", self>> \in cuts',
         turns' = turns \/ to = "act",
         to = "send" \/ (to = "act" /\ key = "free") => Unsent,
         key = "kept" \/ to = "keep" =>
           \/ turnKey[first] = "kept" \/ job.pc = "keep"
           \/ Range(job.through) \subseteq told',
         to \in {"send", "keep"} => key = "claimed",
         to \in {"mark", "over"} => key = "kept",
         to = "over" => self \in batchDone'
  PROVE  JobInv'
<1> USE DEF JobInv, Ledger, Batch, Through
<1>0. /\ jobs # <<>> /\ self \in Messages /\ owner[self] \in Messages
      /\ job.batch = <<>> /\ job.left = {} /\ ~Gathering
      /\ first \in Range(job.through) /\ first \in Messages /\ owner[first] \in Messages
      /\ Range(job.through) \subseteq Messages /\ (self \in told \/ first = self)
  BY InAct
<1>1. /\ DOMAIN job' = DOMAIN job /\ job'.pc = to /\ job'.batch = <<>> /\ job'.left = {}
      /\ job'.through = job.through
  BY <1>0 DEF Goto, JobTypes
<1>2. /\ turnKey' \in [Messages -> {"free", "claimed", "kept"}]
      /\ turnKey'[first] = key /\ \A m \in Messages : m # first => turnKey'[m] = turnKey[m]
  BY <1>0 DEF JobTypes
<1>4. /\ SameJobs /\ Tallied /\ OwnersMove
      /\ \A m : Led(m)' = Led(m)
      /\ \A what, m : LeaderCut(what, m) => LeaderCut(what, m)'
  BY JobsSame, TalliesGrow DEF OwnersMove, Led, LeaderCut, Tallied
<1>a. /\ turns' \in Seq(Throughs) /\ OnceEach'
      /\ \A m \in Messages : (Again(m) => Again(m)') /\ (Answered(m) => Answered(m)')
      /\ \A m \in Messages : Answered(m)' =>
           \/ Answered(m)
           \/ /\ Again(m)' /\ <<"sent", self>> \in cuts'
              /\ (m = self \/ owner[m] = self) /\ owner[m] \in Messages
  BY <1>4, LateTurns
<1>5. \A m \in Messages : Dealt(m) => Dealt(m)'
  BY <1>4, <1>a DEF Dealt, Tallied
<1>3. /\ JobTypes' /\ ~Gathering' /\ Acting' /\ first' = first
      /\ Sent' <=> to \in {"keep", "mark", "over"}
      /\ Unsent' <=> to = "send" \/ (to = "act" /\ key = "free")
  <2>1. first' = first /\ turns' \in Seq(Throughs)
    BY <1>1, <1>a, FirstSame
  <2> QED BY <1>0, <1>1, <1>2, <2>1 DEF JobTypes, Pcs, Gathering, Acting, Sent, Unsent
<1>6. ThroughDealt'
  <2> SUFFICES ASSUME key = "kept" \/ to = "keep", NEW m \in Range(job.through) PROVE Dealt(m)'
    BY <1>1, <1>2, <1>3 DEF ThroughDealt
  <2> QED BY <1>0, <1>5 DEF ThroughDealt, Dealt
<1>7. \A m \in Messages : owner[m] = self /\ turnKey[first] = "kept" => Dealt(m) \/ LeaderCut("gather", m)
  BY <1>0 DEF ThroughWhole, ThroughDealt, LeaderCut, Led
<1>8. \A m \in Messages : owner'[m] = self /\ self \in batchDone' =>
        (owner[m] = self /\ self \in batchDone) \/ Dealt(m)' \/ LeaderCut("gather", m)'
  BY <1>4, <1>5, <1>7
<1>9. \A m \in Messages : turnKey'[m] # "free" => turnKey[m] # "free" \/ owner'[m] \in Messages
  BY <1>0, <1>2
<1>10. \A m \in Messages : turnKey'[m] = "kept" => turnKey[m] = "kept" \/ Dealt(m)'
  BY <1>0, <1>1, <1>2, <1>3, <1>6 DEF ThroughDealt
<1>11. Ledger'
  <2>1. \A m \in Messages : Answered(m)' =>
          \/ Answered(m)
          \/ /\ Sent' \/ <<"sent", self>> \in cuts'
             /\ ~Gathering' /\ (m = self \/ owner[m] = self) /\ owner'[m] \in Messages
    BY <1>a, <1>3
  <2> QED BY <1>0, <1>a, <1>3, <1>4, <1>5, <1>8, <1>9, <1>10, <2>1, LedgerMoves
<1>12. Batch'
  BY <1>0, <1>1, <1>3, <1>4, ActingBatch DEF SameJobs
<1>13. ThroughLed' /\ ThroughOnce' /\ KeyHeld'
  BY <1>0, <1>1, <1>2, <1>3, <1>4 DEF ThroughLed, ThroughOnce, KeyHeld, SameJobs, Tallied
<1>14. ThroughNew' /\ ThroughWhole'
  <2>1. ThroughNew'
    BY <1>0, <1>a, <1>1, <1>3 DEF ThroughNew
  <2> QED BY <1>0, <1>1, <1>3, <1>4, <1>5, <2>1 DEF ThroughWhole, SameJobs, Tallied
<1> QED BY <1>3, <1>6, <1>11, <1>12, <1>13, <1>14

\* A turn key that does not change.
LEMMA KeySame ==
  ASSUME JobTypes, turnKey' = turnKey
  PROVE  turnKey' = [turnKey EXCEPT ![first] = turnKey[first]]
BY DEF JobTypes

\* The turn was kept by an earlier run.
LEMMA ActAgainKeeps ==
  ASSUME JobInv, ActAgain
  PROVE  JobInv'
<1>1. /\ UNCHANGED <<jobs, received, owner, batchDone, turnKey, turns, told, cuts>>
      /\ job.pc = "act" /\ turnKey[first] = "kept" /\ Goto("mark")
  BY DEF ActAgain, At, store, history, NoFault
<1>2. Acting /\ ~Sent
  BY <1>1 DEF Acting, Sent
<1> QED BY <1>1, <1>2, ActMoves, KeySame DEF JobInv, LateTurn

\* Handled without a turn.
LEMMA ActHandledKeeps ==
  ASSUME JobInv, ActHandled
  PROVE  JobInv'
<1>1. /\ UNCHANGED <<jobs, received, owner, batchDone, turns, cuts>>
      /\ turnKey' = [turnKey EXCEPT ![first] = "kept"] /\ told' = told \cup Range(job.through)
      /\ job.pc = "act" /\ Goto("mark")
  BY DEF ActHandled, At, NoFault
<1>2. Acting /\ ~Sent
  BY <1>1 DEF Acting, Sent
<1> QED BY <1>1, <1>2, ActMoves DEF LateTurn

\* The turn is claimed.
LEMMA ClaimTurnKeeps ==
  ASSUME JobInv, ClaimTurn
  PROVE  JobInv'
<1>1. /\ UNCHANGED <<jobs, received, owner, batchDone, turns, told, cuts>>
      /\ turnKey' = [turnKey EXCEPT ![first] = "claimed"]
      /\ job.pc = "act" /\ turnKey[first] = "free" /\ Goto("send")
  BY DEF ClaimTurn, At, history, NoFault
<1>2. Acting /\ ~Sent /\ Unsent
  BY <1>1 DEF Acting, Sent, Unsent
<1> QED BY <1>1, <1>2, ActMoves DEF LateTurn

\* The turn is kept.
LEMMA KeepTurnKeeps ==
  ASSUME JobInv, KeepTurn
  PROVE  JobInv'
<1>1. /\ UNCHANGED <<jobs, received, owner, batchDone, turns, told, cuts>>
      /\ turnKey' = [turnKey EXCEPT ![first] = "kept"]
      /\ job.pc = "keep" /\ Goto("mark")
  BY DEF KeepTurn, At, history, NoFault
<1>2. Acting
  BY <1>1 DEF Acting
<1> QED BY <1>1, <1>2, ActMoves DEF LateTurn

\* The burst is handled.
LEMMA MarkDoneKeeps ==
  ASSUME JobInv, MarkDone
  PROVE  JobInv'
<1>1. /\ UNCHANGED <<jobs, received, owner, turnKey, turns, told, cuts>>
      /\ batchDone' = batchDone \cup {self} /\ job.pc = "mark" /\ Goto("over")
  BY DEF MarkDone, At, history, NoFault
<1>2. Acting /\ turnKey[first] = "kept"
  BY <1>1 DEF Acting, JobInv, Through, KeyHeld
<1> QED BY <1>1, <1>2, ActMoves, KeySame DEF JobInv, LateTurn

\* The send throws: it may be tried again, or the job is over.
LEMMA SendFailsKeeps ==
  ASSUME JobInv, SendFails
  PROVE  JobInv'
<1>1. /\ UNCHANGED <<received, owner, batchDone>> /\ job.pc = "send"
      /\ (\E what : Fault(what, self)) /\ LateTurn
      /\ \E key \in {"free", "claimed"} : turnKey' = [turnKey EXCEPT ![first] = key]
      /\ \/ Goto("act") /\ UNCHANGED <<jobs, told>>
         \/ Over /\ told' = told \cup {first}
  BY FaultCuts DEF SendFails, At, LateTurn
<1>2. Acting /\ ~Sent /\ Unsent
  BY <1>1 DEF Acting, Sent, Unsent
<1>3. /\ jobs # <<>> /\ self \in Messages /\ first \in Messages /\ (self \in told \/ first = self)
  BY <1>2, InAct
<1>4. cuts \subseteq cuts'
  BY <1>1, FaultCuts
<1>5. CASE Goto("act") /\ UNCHANGED <<jobs, told>>
  BY <1>1, <1>2, <1>4, <1>5, ActMoves
<1>6. CASE Over /\ told' = told \cup {first}
  <2>1. PICK l \in Messages : l = self
    BY <1>3
  <2>2. Dealt(l)'
    BY <1>3, <1>6, <2>1 DEF Dealt
  <2>3. /\ turnKey' \in [Messages -> {"free", "claimed", "kept"}]
        /\ \A m \in Messages : turnKey'[m] # "free" => turnKey'[m] = turnKey[m]
    <3>1. PICK key \in {"free", "claimed"} : turnKey' = [turnKey EXCEPT ![first] = key]
      BY <1>1
    <3>2. turnKey \in [Messages -> {"free", "claimed", "kept"}] /\ turnKey[first] = "claimed"
      BY <1>1 DEF JobInv, JobTypes, Through, KeyHeld
    <3> QED BY <1>3, <3>1, <3>2
  <2> QED BY <1>1, <1>2, <1>3, <1>4, <1>6, <2>1, <2>2, <2>3, JobOver
<1> QED BY <1>1, <1>5, <1>6

\* A turn claimed by an earlier run: the job is over.
LEMMA TurnUncertainKeeps ==
  ASSUME JobInv, TurnUncertain
  PROVE  JobInv'
<1>1. /\ UNCHANGED <<received, owner, batchDone, turnKey, turns, cuts>>
      /\ job.pc = "act" /\ Over /\ told' = told \cup {first}
  BY DEF TurnUncertain, At, store, NoFault
<1>2. Acting /\ ~Sent
  BY <1>1 DEF Acting, Sent
<1>3. /\ jobs # <<>> /\ self \in Messages /\ (self \in told \/ first = self)
  BY <1>2, InAct
<1>4. PICK l \in Messages : l = self
  BY <1>3
<1>5. Dealt(l)'
  BY <1>1, <1>3, <1>4 DEF Dealt
<1> QED BY <1>1, <1>2, <1>3, <1>4, <1>5, JobOver DEF JobInv, JobTypes, LateTurn

\* The job is over.
LEMMA ActRecordedKeeps ==
  ASSUME JobInv, ActRecorded
  PROVE  JobInv'
<1>1. /\ UNCHANGED <<received, owner, batchDone, turnKey, turns, told, cuts>>
      /\ job.pc = "over" /\ Over
  BY DEF ActRecorded, At, store, history, NoFault
<1>2. Acting /\ self \in batchDone /\ turnKey[first] = "kept"
  BY <1>1 DEF Acting, JobInv, Through, KeyHeld
<1>3. /\ jobs # <<>> /\ self \in Messages /\ (self \in told \/ first = self) /\ first \in Range(job.through)
  BY <1>2, InAct
<1>4. PICK l \in Messages : l = self
  BY <1>3
<1>5. Dealt(self)
  BY <1>2, <1>3 DEF JobInv, Through, ThroughDealt, Dealt
<1>6. Dealt(l)'
  BY <1>1, <1>4, <1>5, TurnsSame DEF Dealt, SameTurns
<1> QED BY <1>1, <1>2, <1>3, <1>4, <1>6, JobOver DEF JobInv, JobTypes, LateTurn

\* The turn is started: none of its messages was in one, but those that may be answered again.
LEMMA SendKeeps ==
  ASSUME JobInv, Send
  PROVE  JobInv'
<1> USE DEF JobInv, Ledger, Batch, Through
<1>0. /\ UNCHANGED <<jobs, received, owner, batchDone, turnKey, told, cuts>>
      /\ \A m : Cut(m)' = Cut(m)
      /\ job.pc = "send" /\ Goto("keep") /\ turns' = Append(turns, job.through)
  BY DEF Send, At, store, NoFault, Cut
<1>1. Acting /\ ~Sent /\ Unsent
  BY <1>0 DEF Acting, Sent, Unsent
<1>2. /\ jobs # <<>> /\ self \in Messages /\ owner[self] \in Messages
      /\ job.batch = <<>> /\ job.left = {} /\ ~Gathering
      /\ first \in Range(job.through) /\ Range(job.through) \subseteq Messages
  BY <1>1, InAct
<1>3. job.through \in Throughs /\ \A m \in Range(job.through) : m = self \/ owner[m] = self
  BY <1>1 DEF ThroughLed
<1>4. /\ DOMAIN job' = DOMAIN job /\ job'.pc = "keep" /\ job'.batch = <<>> /\ job'.left = {}
      /\ job'.through = job.through
  BY <1>0, <1>2 DEF Goto, JobTypes
<1>5. /\ turns' \in Seq(Throughs)
      /\ \A m : Answered(m)' <=> Answered(m) \/ m \in Range(job.through)
      /\ \A m : AnsweredTwice(m)' =>
           \/ AnsweredTwice(m)
           \/ Answered(m) /\ m \in Range(job.through)
           \/ \E i, j \in DOMAIN job.through : i # j /\ job.through[i] = m /\ job.through[j] = m
  BY <1>0, <1>3, SendAnswers DEF JobTypes
<1>6. JobTypes' /\ ~Gathering' /\ Acting' /\ Sent' /\ ~Unsent' /\ first' = first
  BY <1>0, <1>2, <1>4, <1>5, FirstSame DEF JobTypes, Pcs, Gathering, Acting, Sent, Unsent
<1>7. /\ SameJobs /\ Tallied /\ OwnersMove
      /\ \A m : Led(m)' = Led(m)
      /\ \A m : Again(m)' = Again(m)
  BY <1>0, JobsSame, TalliesGrow DEF OwnersMove, Led, LeaderCut, SentLate, Again
<1>8. \A m : Dealt(m) => Dealt(m)'
  BY <1>0, <1>5 DEF Dealt
<1>9. OnceEach'
  <2> SUFFICES ASSUME NEW m \in Messages, AnsweredTwice(m)' PROVE Cut(m) \/ Again(m)
    BY <1>0, <1>7 DEF OnceEach
  <2>1. CASE AnsweredTwice(m)
    BY <2>1 DEF OnceEach
  <2>2. CASE Answered(m) /\ m \in Range(job.through)
    BY <1>1, <2>2 DEF ThroughNew
  <2>3. CASE \E i, j \in DOMAIN job.through : i # j /\ job.through[i] = m /\ job.through[j] = m
    BY <2>3 DEF ThroughOnce
  <2> QED BY <1>5, <2>1, <2>2, <2>3
<1>10. Ledger'
  <2>1. \A m \in Messages : Answered(m) => Answered(m)'
    BY <1>5
  <2>2. \A m \in Messages : Answered(m)' =>
          Answered(m) \/ (Sent' /\ ~Gathering' /\ (m = self \/ owner[m] = self) /\ owner'[m] \in Messages)
    BY <1>0, <1>2, <1>3, <1>5, <1>6
  <2>3. \A m \in Messages : owner'[m] = self /\ self \in batchDone' => owner[m] = self /\ self \in batchDone
    BY <1>0
  <2>4. /\ \A m \in Messages : turnKey'[m] # "free" => turnKey[m] # "free"
        /\ \A m \in Messages : turnKey'[m] = "kept" => turnKey[m] = "kept"
    BY <1>0
  <2> QED BY <1>0, <1>1, <1>2, <1>6, <1>7, <1>9, <2>1, <2>2, <2>3, <2>4, LedgerMoves
<1>11. Batch'
  BY <1>0, <1>2, <1>4, <1>6, <1>7, ActingBatch DEF SameJobs
<1>12. ThroughLed' /\ ThroughOnce'
  BY <1>0, <1>1, <1>2, <1>4, <1>6, <1>7 DEF ThroughLed, ThroughOnce, SameJobs, Tallied
<1>13. KeyHeld'
  BY <1>0, <1>4, <1>6 DEF KeyHeld
<1>14. ThroughNew' /\ ThroughWhole'
  BY <1>0, <1>1, <1>4, <1>6, <1>7, <1>8 DEF ThroughNew, ThroughWhole, SameJobs, Tallied
<1>15. ThroughDealt'
  BY <1>4, <1>5 DEF ThroughDealt, Dealt
<1> QED BY <1>6, <1>10, <1>11, <1>12, <1>13, <1>14, <1>15

-----------------------------------------------------------------------------
(* The faults, and every step.                                             *)

\* A phase is run again.
LEMMA PhaseRunsAgainKeeps ==
  ASSUME JobInv, PhaseRunsAgain
  PROVE  JobInv'
<1> USE DEF JobInv, Ledger, Batch, Through
<1>0. /\ jobs # <<>> /\ Fault(Phase, self) /\ job.pc # Start[Phase] /\ self \in Messages
      /\ job' = IF Phase = "gather" THEN NewJob ELSE [job EXCEPT !.pc = Start[Phase]]
      /\ UNCHANGED <<slot, owner, batchDone, turnKey, received, turns, told, jobs>>
  BY Running DEF PhaseRunsAgain, store, history
<1>1. cuts \subseteq cuts' /\ <<Phase, self>> \in cuts'
  BY <1>0, FaultCuts
<1>2. CASE Gathering
  <2>1. Phase = "gather" /\ ~Acting
    BY <1>2 DEF Phase, Gathering, Acting
  <2>2. /\ DOMAIN job' = {"pc", "batch", "left", "next", "through"} /\ job'.pc = "own"
        /\ job'.batch = <<>> /\ job'.left = {} /\ DOMAIN job'.through = {} /\ job'.batch \in Seq(Messages)
    BY <1>0, <2>1 DEF NewJob
  <2>3. JobTypes' /\ ~Acting' /\ OwnersMove
    BY <1>0, <2>2 DEF JobTypes, Pcs, Acting, OwnersMove
  <2>4. Ledger' /\ SameJobs /\ SameTurns /\ Tallied
    BY <1>0, <1>1, <1>2, <2>1, <2>3, GatherMoves
  <2>5. OwnsItself'
    BY <1>0, <1>2, <2>2, <2>4 DEF OwnsItself, SameJobs, Led
  <2>6. BatchWhole'
    BY <1>0, <1>1, <2>1, <2>4 DEF BatchWhole, SameJobs
  <2>7. Begun' /\ BatchLed' /\ BatchOnce' /\ LeftFree' /\ BatchNew' /\ StoppedTold'
    BY <2>2 DEF Begun, BatchLed, BatchOnce, LeftFree, BatchNew, StoppedTold, ToSet
  <2>8. Through'
    BY <2>2, <2>3, NotActing
  <2> QED BY <2>3, <2>4, <2>5, <2>6, <2>7, <2>8
<1>3. CASE job.pc \in {"prepare", "stopped"}
  <2>1. Phase = "prepare" /\ job.pc = "stopped"
    BY <1>0, <1>3 DEF Phase, Start
  <2>2. job' = [job EXCEPT !.pc = "prepare"]
    BY <1>0, <2>1 DEF Start
  <2> QED BY <1>0, <1>1, <2>1, <2>2, BatchGoesOn DEF JobTypes
<1>4. CASE Acting
  <2>1. Phase = "act" /\ job.pc # "act"
    BY <1>0, <1>4 DEF Phase, Start, Acting
  <2>2. Goto("act")
    BY <1>0, <2>1 DEF Goto, Start
  <2>3. turnKey[first] # "free"
    BY <1>4, <2>1 DEF KeyHeld, Acting
  <2>4. PICK key \in {"free", "claimed", "kept"} : key = turnKey[first]
    BY <1>4, InAct DEF JobTypes
  <2> QED BY <1>0, <1>1, <1>4, <2>1, <2>2, <2>3, <2>4, ActMoves, KeySame DEF LateTurn
<1> QED BY <1>2, <1>3, <1>4 DEF JobTypes, Pcs, Gathering, Acting

\* A job that fails is over.
LEMMA JobFailsKeeps ==
  ASSUME JobInv, JobFails
  PROVE  JobInv'
<1>0. /\ jobs # <<>> /\ Fault(Phase, self) /\ Over
      /\ told' = told \cup {IF DOMAIN job.through = {} THEN self ELSE first}
      /\ UNCHANGED <<owner, batchDone, turnKey, received, turns>>
  BY DEF JobFails, store
<1>1. cuts \subseteq cuts' /\ <<Phase, self>> \in cuts'
  BY <1>0, FaultCuts
<1>2. Sent => <<"act", self>> \in cuts'
  BY <1>1 DEF Sent, Phase
<1>3. PICK l \in Messages : l = self
  BY <1>0, Running DEF JobInv, Ledger
<1>4. l \in told'
  <2>1. CASE Acting
    BY <1>0, <1>3, <2>1, InAct DEF JobInv, Through, ThroughLed
  <2>2. CASE ~Acting
    BY <1>0, <1>3, <2>2 DEF JobInv, Batch, Begun
  <2> QED BY <2>1, <2>2
<1> QED BY <1>0, <1>1, <1>2, <1>3, <1>4, JobOver DEF JobInv, JobTypes, Dealt, LateTurn

\* A webhook that may leave a job.
LEMMA EnqueuedKeeps ==
  ASSUME HookInv, JobInv, NEW d \in Deliveries, Busy(d), Enqueued(d) \/ UNCHANGED <<received, jobs>>,
         UNCHANGED <<job, owner, batchDone, turnKey, turns, told, slot>>, cuts \subseteq cuts'
  PROVE  JobInv'
<1>1. CASE UNCHANGED <<received, jobs>>
  BY <1>1, JobStill
<1>2. CASE received[d[1]] = 0 /\ received' = [received EXCEPT ![d[1]] = hook[d].at]
           /\ jobs' = Append(jobs, d[1])
  <2>1. /\ d[1] \in Messages /\ hook[d].at \in Nat /\ hook[d].at > 0 /\ received \in [Messages -> Nat]
    BY Deliverable DEF HookInv, HookTypes, HookStates, Stamped
  <2> QED BY <1>2, <2>1, JobQueued
<1> QED BY <1>1, <1>2 DEF Enqueued

\* Every step of a webhook.
LEMMA WebhookKeeps ==
  ASSUME HookInv, JobInv, NEW d \in Deliveries, Webhook(d)
  PROVE  HookInv' /\ JobInv'
<1>1. CASE TakeMessage(d)
  <2>1. JobInv'
    BY <1>1, JobStill DEF TakeMessage, history, NoFault
  <2> QED BY <1>1, <2>1, TakeMessageHooks
<1>2. CASE ClaimSlot(d)
  <2>1. HookInv' /\ \A s \in Slots : Logged(s) => slot'[s] = slot[s]
    BY <1>2, ClaimSlotHooks
  <2>2. JobInv'
    BY <1>2, <2>1, JobStill DEF ClaimSlot, history, NoFault
  <2> QED BY <2>1, <2>2
<1>3. CASE WriteSlot(d)
  <2>1. HookInv' /\ \A s \in Slots : Logged(s) => slot'[s] = slot[s]
    BY <1>3, WriteSlotHooks
  <2>2. JobInv'
    BY <1>3, <2>1, JobStill DEF WriteSlot, history, NoFault
  <2> QED BY <2>1, <2>2
<1>4. CASE AdvanceTail(d)
  <2>1. JobInv'
    BY <1>4, JobStill DEF AdvanceTail, history, NoFault
  <2> QED BY <1>4, <2>1, AdvanceTailHooks
<1>5. CASE EnqueueJob(d)
  <2>1. JobInv'
    BY <1>5, EnqueuedKeeps DEF EnqueueJob, store, history, NoFault, Busy, Serving
  <2> QED BY <1>5, <2>1, EnqueueJobHooks
<1>6. CASE HookFails(d)
  <2>1. Fault("hook", d[1]) /\ Busy(d)
        /\ UNCHANGED <<job, owner, batchDone, turnKey, turns, told, slot>>
        /\ (Enqueued(d) \/ UNCHANGED <<received, jobs>>)
    BY <1>6 DEF HookFails, history, Busy
  <2>2. JobInv'
    BY <2>1, FaultCuts, EnqueuedKeeps
  <2> QED BY <1>6, <2>2, HookFailsHooks
<1>7. CASE HookDies(d)
  <2>1. Fault("hook", d[1]) /\ UNCHANGED <<jobs, job, received, owner, batchDone, turnKey, turns, told, slot>>
    BY <1>7 DEF HookDies, store, history
  <2>2. JobInv'
    BY <2>1, FaultCuts, JobStill
  <2> QED BY <1>7, <2>2, HookDiesHooks
<1> QED BY <1>1, <1>2, <1>3, <1>4, <1>5, <1>6, <1>7 DEF Webhook

\* Nothing has happened.
LEMMA BurstsInit == Init => HookInv /\ JobInv
<1> SUFFICES ASSUME Init PROVE HookInv /\ JobInv
  OBVIOUS
<1>1. HookTypes
  <2>1. [pc |-> "idle", at |-> 0, slot |-> 0] \in HookStates
    BY DEF HookStates, HookPcs
  <2> QED BY <2>1 DEF Init, HookTypes
<1>2. HookInv
  BY <1>1 DEF Init, HookInv, Stamped, TakenOnce, LoggedLast, LoggedOnce, SlotsClaimed, TakenServed,
     AnsweredTaken, Busy, Serving, Logged
<1>3. /\ job.pc = "own" /\ job.batch = <<>> /\ job.left = {} /\ DOMAIN job.through = {}
      /\ DOMAIN job = {"pc", "batch", "left", "next", "through"} /\ job.batch \in Seq(Messages)
  BY DEF Init, NewJob
<1>4. JobTypes
  BY <1>3 DEF Init, JobTypes, Pcs
<1>5. ~Acting /\ ~Unsent /\ \A m : ~Answered(m) /\ ~AnsweredTwice(m)
  BY <1>3 DEF Init, Acting, Unsent, Answered, AnsweredTwice
<1>6. Ledger
  <2>1. jobs = <<>> /\ turnKey = [m \in Messages |-> "free"] /\ owner = [m \in Messages |-> None]
        /\ batchDone = {} /\ received = [m \in Messages |-> 0] /\ job = NewJob
    BY DEF Init
  <2>2. None \notin Messages
    BY BurstAssumption
  <2>3. \A m \in Messages : ~Gone(m) /\ owner[m] \notin Messages /\ turnKey[m] = "free"
    BY <2>1, <2>2 DEF Gone
  <2>4. Queued
    BY <2>1 DEF Queued, ToSet
  <2> QED BY <1>5, <2>1, <2>3, <2>4 DEF Ledger, AheadLeadsNone, LeadersLead, AnsweredOwned,
             KeptDealt, AnsweredEarly, DoneDealt, GoneDealt, OnceEach
<1>7. Batch /\ Through
  BY <1>3, <1>5 DEF Init, Batch, Through, OwnsItself, Begun, BatchLed, BatchOnce, LeftFree,
     BatchNew, BatchWhole, StoppedTold, ToSet, ThroughLed, ThroughOnce, ThroughNew, ThroughWhole, KeyHeld, ThroughDealt
<1> QED BY <1>2, <1>4, <1>6, <1>7 DEF JobInv

\* Every step.
LEMMA BurstsNext == HookInv /\ JobInv /\ [Next]_vars => HookInv' /\ JobInv'
<1> SUFFICES ASSUME HookInv, JobInv, [Next]_vars PROVE HookInv' /\ JobInv'
  OBVIOUS
<1>1. CASE \E d \in Deliveries : Webhook(d)
  BY <1>1, WebhookKeeps
<1>2. CASE Gather
  <2>1. JobInv'
    BY <1>2, OwnSelfKeeps, SetOwnerKeeps, GatherAloneKeeps, LookKeeps, OwnKeeps, SetHeadKeeps,
       GatherRecordedKeeps DEF Gather
  <2>2. HookInv'
    BY <1>2, HooksStill DEF Gather, OwnSelf, SetOwner, GatherAlone, Look, Own, SetHead, GatherRecorded,
       store, NoFault
  <2> QED BY <2>1, <2>2
<1>3. CASE Prepare \/ PrepareStopped
  <2>1. JobInv'
    BY <1>3, PrepareKeeps, PrepareStoppedKeeps
  <2>2. HookInv'
    BY <1>3, HooksStill DEF Prepare, PrepareStopped, store, NoFault
  <2> QED BY <2>1, <2>2
<1>4. CASE Act
  <2>1. JobInv'
    BY <1>4, ActAgainKeeps, ActHandledKeeps, ClaimTurnKeeps, TurnUncertainKeeps, SendKeeps,
       SendFailsKeeps, KeepTurnKeeps, MarkDoneKeeps, ActRecordedKeeps DEF Act
  <2>2. CASE SendFails
    <3>1. UNCHANGED <<taken, slot, hook, clock, received>> /\ cuts \subseteq cuts'
      BY <2>2, FaultCuts DEF SendFails
    <3> QED BY <2>1, <3>1, HooksStill
  <2>3. CASE ~SendFails
    BY <1>4, <2>1, <2>3, HooksStill DEF Act, ActAgain, ActHandled, ClaimTurn, TurnUncertain, Send,
       KeepTurn, MarkDone, ActRecorded, store, NoFault
  <2> QED BY <2>2, <2>3
<1>5. CASE PhaseRunsAgain \/ JobFails
  <2>1. JobInv'
    BY <1>5, PhaseRunsAgainKeeps, JobFailsKeeps
  <2>2. UNCHANGED <<taken, slot, hook, clock, received>> /\ cuts \subseteq cuts'
    BY <1>5, FaultCuts DEF PhaseRunsAgain, JobFails, store
  <2> QED BY <2>1, <2>2, HooksStill
<1>6. CASE UNCHANGED vars
  BY <1>6, HooksStill, JobStill DEF vars, store, history
<1> QED BY <1>1, <1>2, <1>3, <1>4, <1>5, <1>6 DEF Next

\* Both parts of the invariant hold.
LEMMA BurstsHold == Spec => [](HookInv /\ JobInv)
BY BurstsInit, BurstsNext, PTL DEF Spec

(* What the webhooks answered 200 is dealt with once its job is over, for  *)
(* any number of messages, deliveries and faults.                          *)
THEOREM BurstNeverDrops == Spec => []NeverDropped
<1>1. HookInv /\ JobInv => NeverDropped
  <2> SUFFICES ASSUME HookInv, JobInv, NEW m \in Messages, Settled(m), ~Cut(m)
               PROVE  Dealt(m) \/ LeaderCut("gather", m)
    BY DEF NeverDropped, Cut, Dealt, LeaderCut, Led, Leader
  <2>1. received[m] > 0
    <3> SUFFICES ASSUME ~(received[m] > 0) PROVE FALSE
      OBVIOUS
    <3>1. PICK d \in Deliveries : d[1] = m /\ hook[d].pc = "answered"
      BY DEF Settled
    <3>2. m \in taken /\ received[m] = 0
      BY <3>1 DEF HookInv, HookTypes, AnsweredTaken
    <3> QED BY <3>2 DEF HookInv, TakenServed, Settled, Busy
  <2> QED BY <2>1 DEF Settled, JobInv, Ledger, GoneDealt, Gone
<1> QED BY <1>1, BurstsHold, PTL

(* No message is answered twice, for any number of messages, deliveries    *)
(* and faults.                                                             *)
THEOREM BurstNeverTwice == Spec => []NeverTwice
<1>1. HookInv /\ JobInv => NeverTwice
  BY DEF JobInv, Ledger, OnceEach, NeverTwice, Cut, Again, SentLate, LeaderCut, Led, Leader
<1> QED BY <1>1, BurstsHold, PTL
=============================================================================
