---------------------------- MODULE ChannelBursts ----------------------------
(***************************************************************************)
(* One conversation of a text channel that makes a burst of messages one   *)
(* turn (`coalesce`), with the durable executor.  Webhooks take messages,  *)
(* record them in the conversation's burst log and start a job for each;   *)
(* the jobs run one at a time, in order.  The first leads: it claims the   *)
(* messages of the log that may join it and starts one turn with them; the *)
(* job of a claimed message finds that and ends.  A phase of a job is run  *)
(* again from its beginning after an error or a crash, with what it had    *)
(* written to the channel store still there.                               *)
(* Instants are the order in which the webhooks took their messages.       *)
(***************************************************************************)
EXTENDS Integers, FiniteSets, SequencesExt

CONSTANTS Messages,
          Deliveries,   \* the webhook calls the provider makes: <<message, number>>
          Sender,       \* [Messages -> who wrote it]
          Doubtful,     \* messages the gate may stop
          Solo,         \* messages never grouped: presses, text decisions, `when`
          MaxMessages,  \* maxMessages of a burst
          MaxInFlight,  \* bound: webhook calls being served at a time
          MaxFaults,    \* bound: cut phases, failed sends, failed or killed webhooks
          None, Blank   \* no value; a key claimed and not yet written

LogGap == 3
Slots  == 0 .. Cardinality(Deliveries) - 1

ASSUME BurstAssumption ==
  /\ Deliveries \subseteq Messages \X Nat /\ IsFiniteSet(Deliveries) /\ Solo \cup Doubtful \subseteq Messages
  /\ MaxMessages \in Nat \ {0} /\ MaxInFlight \in Nat \ {0} /\ MaxFaults \in Nat
  /\ None \notin Messages /\ Blank \notin Messages /\ None # Blank

VARIABLES
  taken,      \* messages whose id is claimed: the webhook's dedupe
  slot,       \* the burst log: [Slots -> None, Blank (claimed), or an entry]
  tail, head, \* its two pointers
  hook,       \* [Deliveries -> where the webhook call stands]
  clock,      \* webhooks that took a message so far
  received,   \* [Messages -> receivedAt of its job, 0: the engine has none]
  jobs,       \* jobs not yet over, in order; the first one runs
  job,        \* where the running job stands
  owner,      \* [Messages -> None, Blank, or the leader that claimed it]
  batchDone,  \* leaders whose burst was handled
  turnKey,    \* [Messages -> what is kept of the turn it starts]
  turns,      \* history: the messages of each turn that was started
  told,       \* history: messages stopped at the gate, handled without a turn, reported failed
  cuts,       \* history: <<phase, message>> of a phase or webhook that did not run through
  faults

store   == <<taken, slot, tail, head, owner, batchDone, turnKey>>
history == <<turns, told>>
vars    == <<store, hook, clock, received, jobs, job, history, cuts, faults>>

self  == Head(jobs)
first == job.through[Min(DOMAIN job.through)]

\* left: the slots still to claim; next: the head to write; through: past the gate, each at its place in the batch.
NewJob == [pc |-> "own", batch |-> <<>>, left |-> {}, next |-> 0, through |-> <<>>]

Phase == CASE job.pc \in {"own", "owner", "look", "join", "gathered"} -> "gather"
           [] job.pc \in {"prepare", "stopped"} -> "prepare"
           [] OTHER -> "act"

At(pc)   == jobs # <<>> /\ job.pc = pc
Goto(pc) == job' = [job EXCEPT !.pc = pc]

\* The job ends; the next one may start.
Over == /\ jobs' = Tail(jobs) /\ job' = NewJob

\* Something goes wrong in `what` of message m.
Fault(what, m) ==
  faults < MaxFaults /\ faults' = faults + 1 /\ cuts' = cuts \cup {<<what, m>>}

NoFault == UNCHANGED <<cuts, faults>>

-----------------------------------------------------------------------------
(* The webhook.                                                            *)

Serving == {"claim", "write", "advance", "enqueue"}

Hook(d, from, to) == hook[d].pc = from /\ hook' = [hook EXCEPT ![d].pc = to]
Answer(d, pc) == hook' = [hook EXCEPT ![d] = [pc |-> pc, at |-> 0, slot |-> 0]]

\* A call for a message that another call has taken is answered 200 at once.
TakeMessage(d) ==
  /\ \A e \in Deliveries : e[1] = d[1] /\ e[2] < d[2] => hook[e].pc # "idle"
  /\ Cardinality({e \in Deliveries : hook[e].pc \in Serving}) < MaxInFlight
  /\ \/ /\ d[1] \in taken /\ Hook(d, "idle", "answered")
        /\ UNCHANGED <<taken, clock>>
     \/ /\ d[1] \notin taken /\ hook[d].pc = "idle"
        /\ clock' = clock + 1
        /\ hook' = [hook EXCEPT ![d].pc = "claim", ![d].at = clock']
        /\ taken' = taken \cup {d[1]}
  /\ UNCHANGED <<slot, tail, head, owner, batchDone, turnKey, received, jobs, job, history>>
  /\ NoFault

\* Probing from the tail: the slots below the first free one are all claimed.
ClaimSlot(d) ==
  /\ hook[d].pc = "claim"
  /\ \E free \in Slots :
       /\ free >= tail /\ slot[free] = None
       /\ \A t \in Slots : t >= tail /\ t < free => slot[t] # None
       /\ slot' = [slot EXCEPT ![free] = Blank]
       /\ hook' = [hook EXCEPT ![d].pc = "write", ![d].slot = free]
  /\ UNCHANGED <<taken, tail, head, owner, batchDone, turnKey, clock, received, jobs, job, history>>
  /\ NoFault

WriteSlot(d) ==
  /\ Hook(d, "write", "advance")
  /\ slot' = [slot EXCEPT ![hook[d].slot] = [id |-> d[1], at |-> hook[d].at]]
  /\ UNCHANGED <<taken, tail, head, owner, batchDone, turnKey, clock, received, jobs, job, history>>
  /\ NoFault

AdvanceTail(d) ==
  /\ Hook(d, "advance", "enqueue")
  /\ tail' = hook[d].slot + 1
  /\ UNCHANGED <<taken, slot, head, owner, batchDone, turnKey, clock, received, jobs, job, history>>
  /\ NoFault

\* The job's id is the message's: the engine starts it once.
Enqueued(d) ==
  IF received[d[1]] = 0
  THEN received' = [received EXCEPT ![d[1]] = hook[d].at] /\ jobs' = Append(jobs, d[1])
  ELSE UNCHANGED <<received, jobs>>

EnqueueJob(d) ==
  /\ hook[d].pc = "enqueue" /\ Answer(d, "answered")
  /\ Enqueued(d)
  /\ UNCHANGED <<store, clock, job, history>>
  /\ NoFault

\* The store or the engine throws (the engine perhaps after it took the job): the id is
\* released and the call answered 500.
HookFails(d) ==
  /\ hook[d].pc \in Serving /\ Fault("hook", d[1])
  /\ Answer(d, "refused")
  /\ taken' = taken \ {d[1]}
  /\ \/ hook[d].pc = "enqueue" /\ Enqueued(d)
     \/ UNCHANGED <<received, jobs>>
  /\ UNCHANGED <<slot, tail, head, owner, batchDone, turnKey, clock, job, history>>

HookDies(d) ==
  /\ hook[d].pc \in Serving /\ Fault("hook", d[1])
  /\ Answer(d, "dead")
  /\ UNCHANGED <<store, clock, received, jobs, job, history>>

-----------------------------------------------------------------------------
(* The gather phase of the running job.                                    *)

\* Mutant: a claimed message's job ends whether its leader's burst was handled or not.
OwnSelfTrusting ==
  /\ At("own")
  /\ \/ /\ owner[self] \in {None, Blank} /\ Goto("owner")
        /\ owner' = [owner EXCEPT ![self] = Blank]
        /\ UNCHANGED jobs
     \/ /\ owner[self] = self /\ Goto("look")
        /\ UNCHANGED <<jobs, owner>>
     \/ /\ owner[self] \in Messages \ {self}
        /\ Over
        /\ UNCHANGED owner
  /\ UNCHANGED <<taken, slot, tail, head, batchDone, turnKey, hook, clock, received, history>>
  /\ NoFault

\* The job owns its message already, or claims it, or finds its leader.
OwnSelf ==
  /\ At("own")
  /\ \/ /\ owner[self] \in {None, Blank} /\ Goto("owner")
        /\ owner' = [owner EXCEPT ![self] = Blank]
        /\ UNCHANGED jobs
     \/ /\ owner[self] = self /\ Goto("look")
        /\ UNCHANGED <<jobs, owner>>
     \/ /\ owner[self] \in Messages \ {self} /\ owner[self] \in batchDone
        /\ Over
        /\ UNCHANGED owner
     \/ /\ owner[self] \in Messages \ {self} /\ owner[self] \notin batchDone
        /\ job' = [job EXCEPT !.pc = "prepare", !.batch = <<self>>]
        /\ UNCHANGED <<jobs, owner>>
  /\ UNCHANGED <<taken, slot, tail, head, batchDone, turnKey, hook, clock, received, history>>
  /\ NoFault

SetOwner ==
  /\ At("owner") /\ Goto("look")
  /\ owner' = [owner EXCEPT ![self] = self]
  /\ UNCHANGED <<taken, slot, tail, head, batchDone, turnKey, hook, clock, received, jobs, history>>
  /\ NoFault

\* A message that is never grouped.
GatherAlone ==
  /\ At("look") /\ self \in Solo
  /\ job' = [job EXCEPT !.pc = "prepare", !.batch = <<self>>]
  /\ UNCHANGED <<store, hook, clock, received, jobs, history>>
  /\ NoFault

\* The slots one look at the log reads: it ends LogGap empty slots past the tail.
Written == {s \in Slots : slot[s] \notin {None, Blank}}
Seen == {s \in Written : s >= head /\
           \A b \in head + LogGap - 1 .. s - 1 : b >= tail => (b - LogGap + 1 .. b) \cap Written # {}}
Open == {s \in Seen : slot[s].id # self /\ owner[slot[s].id] \in {None, Blank}}

\* What came before this message is left to its own job; the first that does not fit closes the burst.
Later   == {s \in Open : slot[s].at >= received[self] \/ \E t \in Seen : t < s /\ slot[t].id = self}
Fits(s) == Sender[slot[s].id] = Sender[self] /\ slot[s].id \notin Solo
Joining == LET run == {s \in Later : \A t \in Later : t <= s => Fits(t)}
           IN  {s \in run : Cardinality({t \in run : t < s}) < MaxMessages - 1}

\* Where the next leader starts reading.
NextHead ==
  LET left == Open \ Joining
  IN  IF left # {} THEN Min(left) ELSE IF Seen # {} THEN Max(Seen) + 1 ELSE head

\* The look that is not followed by another wait.
Look ==
  /\ At("look") /\ self \notin Solo
  /\ job' = [job EXCEPT !.pc = "join", !.batch = <<self>>, !.left = Joining, !.next = NextHead]
  /\ UNCHANGED <<store, hook, clock, received, jobs, history>>
  /\ NoFault

\* One message that joins: claimed, then its owner written; a second entry of it is owned already.
Own ==
  /\ At("join")
  /\ \E s \in job.left :
       LET m == slot[s].id
       IN  /\ \A t \in job.left : s <= t
           /\ \/ /\ owner[m] = None
                 /\ owner' = [owner EXCEPT ![m] = Blank]
                 /\ UNCHANGED job
              \/ /\ owner[m] # None
                 /\ owner' = [owner EXCEPT ![m] = self]
                 /\ job' = [job EXCEPT !.left = @ \ {s}, !.batch = Append(@, m)]
  /\ UNCHANGED <<taken, slot, tail, head, batchDone, turnKey, hook, clock, received, jobs, history>>
  /\ NoFault

SetHead ==
  /\ At("join") /\ job.left = {}
  /\ job' = [job EXCEPT !.pc = "gathered", !.next = 0]
  /\ head' = job.next
  /\ UNCHANGED <<taken, slot, tail, owner, batchDone, turnKey, hook, clock, received, jobs, history>>
  /\ NoFault

GatherRecorded ==
  /\ At("gathered") /\ Goto("prepare")
  /\ UNCHANGED <<store, hook, clock, received, jobs, history>>
  /\ NoFault

-----------------------------------------------------------------------------
(* The prepare and act phases.                                             *)

\* Each message passes its gate or does not; a burst stopped whole is handled.
Prepare ==
  /\ At("prepare")
  /\ \E stopped \in SUBSET (ToSet(job.batch) \cap Doubtful) :
       LET past == {i \in DOMAIN job.batch : job.batch[i] \notin stopped}
       IN  /\ job' = IF past = {} THEN [job EXCEPT !.pc = "stopped"]
                     ELSE [NewJob EXCEPT !.pc = "act", !.through = [i \in past |-> job.batch[i]]]
           /\ batchDone' = IF past = {} THEN batchDone \cup {self} ELSE batchDone
           /\ told' = told \cup stopped
  /\ UNCHANGED <<taken, slot, tail, head, owner, turnKey, hook, clock, received, jobs, turns>>
  /\ NoFault

PrepareStopped ==
  /\ At("stopped") /\ Over
  /\ UNCHANGED <<store, hook, clock, received, history>>
  /\ NoFault

\* An earlier run of the phase came to its end.
ActAgain ==
  /\ At("act") /\ turnKey[first] = "kept" /\ Goto("mark")
  /\ UNCHANGED <<store, hook, clock, received, jobs, history>>
  /\ NoFault

\* A press or a decision, handled alone: no turn.
ActHandled ==
  /\ At("act") /\ turnKey[first] # "kept" /\ Range(job.through) \subseteq Solo
  /\ Goto("mark")
  /\ turnKey' = [turnKey EXCEPT ![first] = "kept"]
  /\ told' = told \cup Range(job.through)
  /\ UNCHANGED <<taken, slot, tail, head, owner, batchDone, hook, clock, received, jobs, turns>>
  /\ NoFault

ClaimTurn ==
  /\ At("act") /\ turnKey[first] = "free" /\ Goto("send")
  /\ turnKey' = [turnKey EXCEPT ![first] = "claimed"]
  /\ UNCHANGED <<taken, slot, tail, head, owner, batchDone, hook, clock, received, jobs, history>>
  /\ NoFault

\* ChannelTurnUncertainError: never a second turn for one message; the job fails.
TurnUncertain ==
  /\ At("act") /\ turnKey[first] = "claimed" /\ Over
  /\ told' = told \cup {first}
  /\ UNCHANGED <<store, hook, clock, received, turns>>
  /\ NoFault

Send ==
  /\ At("send") /\ Goto("keep")
  /\ turns' = Append(turns, job.through)
  /\ UNCHANGED <<store, hook, clock, received, jobs, told>>
  /\ NoFault

\* The send throws, perhaps after the message was stored or its run started.  The key is given
\* back, if the store lets it be, for a retry to start the turn; a definite refusal ends the job.
SendFails ==
  /\ At("send")
  /\ \/ Fault("send", self) /\ UNCHANGED turns
     \/ Fault("sent", self) /\ turns' = Append(turns, job.through)
  /\ \E key \in {"free", "claimed"} : turnKey' = [turnKey EXCEPT ![first] = key]
  /\ \/ Goto("act") /\ UNCHANGED <<jobs, told>>
     \/ Over /\ told' = told \cup {first}
  /\ UNCHANGED <<taken, slot, tail, head, owner, batchDone, hook, clock, received>>

\* Mutant: the turn is kept, the burst not marked as handled.
KeepTurnOnly ==
  /\ At("keep") /\ Goto("over")
  /\ turnKey' = [turnKey EXCEPT ![first] = "kept"]
  /\ UNCHANGED <<taken, slot, tail, head, owner, batchDone, hook, clock, received, jobs, history>>
  /\ NoFault

KeepTurn ==
  /\ At("keep") /\ Goto("mark")
  /\ turnKey' = [turnKey EXCEPT ![first] = "kept"]
  /\ UNCHANGED <<taken, slot, tail, head, owner, batchDone, hook, clock, received, jobs, history>>
  /\ NoFault

MarkDone ==
  /\ At("mark") /\ Goto("over")
  /\ batchDone' = batchDone \cup {self}
  /\ UNCHANGED <<taken, slot, tail, head, owner, turnKey, hook, clock, received, jobs, history>>
  /\ NoFault

ActRecorded ==
  /\ At("over") /\ Over
  /\ UNCHANGED <<store, hook, clock, received, history>>
  /\ NoFault

-----------------------------------------------------------------------------
(* An error, or the death of the process, in the middle of a phase.        *)

Start == [gather |-> "own", prepare |-> "prepare", act |-> "act"]

PhaseRunsAgain ==
  /\ jobs # <<>> /\ Fault(Phase, self) /\ job.pc # Start[Phase]
  /\ job' = IF Phase = "gather" THEN NewJob ELSE [job EXCEPT !.pc = Start[Phase]]
  /\ UNCHANGED <<store, hook, clock, received, jobs, history>>

\* The attempts are used up: the job is reported and the next one starts.
JobFails ==
  /\ jobs # <<>> /\ Fault(Phase, self) /\ Over
  /\ told' = told \cup {IF DOMAIN job.through = {} THEN self ELSE first}
  /\ UNCHANGED <<store, hook, clock, received, turns>>

-----------------------------------------------------------------------------
Init ==
  /\ taken = {} /\ slot = [s \in Slots |-> None] /\ tail = 0 /\ head = 0
  /\ hook = [d \in Deliveries |-> [pc |-> "idle", at |-> 0, slot |-> 0]]
  /\ clock = 0 /\ received = [m \in Messages |-> 0]
  /\ jobs = <<>> /\ job = NewJob
  /\ owner = [m \in Messages |-> None] /\ batchDone = {}
  /\ turnKey = [m \in Messages |-> "free"]
  /\ turns = <<>> /\ told = {} /\ cuts = {} /\ faults = 0

Webhook(d) ==
  \/ TakeMessage(d) \/ ClaimSlot(d) \/ WriteSlot(d) \/ AdvanceTail(d) \/ EnqueueJob(d)
  \/ HookFails(d) \/ HookDies(d)

Gather == OwnSelf \/ SetOwner \/ GatherAlone \/ Look \/ Own \/ SetHead \/ GatherRecorded

Act == ActAgain \/ ActHandled \/ ClaimTurn \/ TurnUncertain \/ Send \/ SendFails
         \/ KeepTurn \/ MarkDone \/ ActRecorded

Next == (\E d \in Deliveries : Webhook(d))
          \/ Gather \/ Prepare \/ PrepareStopped \/ Act \/ PhaseRunsAgain \/ JobFails

Spec == Init /\ [][Next]_vars

-----------------------------------------------------------------------------
Settled(m) ==
  /\ m \notin ToSet(jobs)
  /\ \/ received[m] > 0
     \/ /\ \E d \in Deliveries : d[1] = m /\ hook[d].pc = "answered"
        /\ \A d \in Deliveries : d[1] = m => hook[d].pc \notin Serving

Leader(m) == IF owner[m] \in Messages THEN owner[m] ELSE m

Answered(m) == \E t \in DOMAIN turns : m \in Range(turns[t])

AnsweredTwice(m) ==
  \E t, u \in DOMAIN turns : \E i \in DOMAIN turns[t], j \in DOMAIN turns[u] :
    <<t, i>> # <<u, j>> /\ turns[t][i] = m /\ turns[u][j] = m

(* A message whose webhook was answered 200 is in a turn, or was stopped,  *)
(* handled or reported, once its job is over.  It holds whatever happens   *)
(* but where the gather phase of the message's leader is cut, or a webhook *)
(* of the message fails: there the code drops it (README, section 5).      *)
NeverDropped ==
  \A m \in Messages : Settled(m) =>
    \/ Answered(m) \/ m \in told
    \/ <<"hook", m>> \in cuts
    \/ Leader(m) # m /\ <<"gather", Leader(m)>> \in cuts

(* No message is in two turns, nor twice in one, whatever is delivered     *)
(* twice, retried or run again, but where the act phase of the message's   *)
(* leader is cut, a webhook of the message fails after the message was     *)
(* logged, or the send of its turn, by its own job or its leader's, throws *)
(* once the message is stored: there the code answers it twice (README,    *)
(* section 5).                                                             *)
NeverTwice ==
  \A m \in Messages :
    \/ ~AnsweredTwice(m)
    \/ <<"hook", m>> \in cuts
    \/ Leader(m) # m /\ <<"act", Leader(m)>> \in cuts
    \/ \E l \in {m, Leader(m)} : <<"sent", l>> \in cuts

(* Never answered twice, through retries, recoveries and redelivered       *)
(* webhooks, as docs/channels.mdx has it: without the ways around it that  *)
(* NeverTwice names.                                                       *)
NeverAnsweredTwice == \A m \in Messages : ~AnsweredTwice(m)
=============================================================================
