---------------------------- MODULE ChatQueue_proofs ----------------------------
(***************************************************************************)
(* Of the queue of a thread, for any number of requests, any scenario and  *)
(* any number of attempts of a drain.                                      *)
(***************************************************************************)
EXTENDS ChatQueue, SequenceTheorems, FiniteSetTheorems, TLAPS

QueuedMessage == [id : Ids, interrupt : BOOLEAN]

\* The ids of a queue, and a queue that has each once.
IdsOf(q)   == {q[n].id : n \in DOMAIN q}
Ordered(q) == \A m, n \in DOMAIN q : q[m].id = q[n].id => m = n

\* A task whose send has not entered the queue, and one that took a message out of it.
Sending(t)  == \/ t.pc \in {"look", "judge", "bury", "start", "enqueue"}
               \/ t.pc \in {"claim", "reclaim"} /\ t.back = "start"
Carrying(t) == t.pc \in {"input", "set", "restore"}

\* A message nobody has started and no client took back.
Untouched(i) == starts[i] = 0 /\ i \notin gone

\* What the locals of a task hold at each of its steps.
LocalsOK(x, t) ==
  /\ Sending(t) \/ t.pc = "unclaim" => x[1] = "request" /\ t.head.id = x[2]
  /\ t.back = "start" <=> Sending(t) \/ t.pc = "unclaim"
  /\ t.pc \in {"pause", "claim", "reclaim", "pop", "input", "set", "restore"} => t.head.id \in Ids
  /\ t.pc \in {"unpause", "cancel", "record", "waits"} => t.run \in Ids
Locals == \A x \in Tasks : LocalsOK(x, task[x])

\* Where a message can be: waiting, in the hand of one task, or not sent yet.
Waits   == \A i \in Waiting : Untouched(i) /\ i \in accepted
Carried == \A x \in Tasks : Carrying(task[x]) =>
             /\ Untouched(task[x].head.id) /\ task[x].head.id \in accepted
             /\ task[x].head.id \notin Waiting
Apart   == \A x, y \in Tasks :
             Carrying(task[x]) /\ Carrying(task[y]) /\ task[x].head.id = task[y].head.id => x = y
Sent    == \A r \in Requests :
             task[<<"request", r>>].pc = "idle" \/ Sending(task[<<"request", r>>])
               => r \notin accepted /\ starts[r] = 0
Unused  == \A i \in Spare : i \notin accepted => starts[i] = 0
History == gone \subseteq accepted /\ \A i \in Ids : starts[i] <= 1 /\ (i \in gone => starts[i] = 0)
Born    == \A i \in Ids : task[<<"turn", i>>].pc # "idle" => starts[i] > 0

\* The inductive invariant.
QueueInv == /\ TypeOK /\ Locals /\ Ordered(queue) /\ NothingLost
            /\ Waits /\ Carried /\ Apart /\ Sent /\ Unused /\ History /\ Born

TableOK == /\ holder \in Ids \cup {None} /\ pause \in Reasons \cup {"none"}
           /\ row \in [Ids -> Ends \cup {"none"}] /\ cancelled \subseteq Ids /\ faults \in Nat

\* How the locals of task x move on, t to u, when no message enters or leaves its hand.
Follows(x, t, u) ==
  /\ LocalsOK(x, u) /\ u.pc # "idle"
  /\ Sending(u) => Sending(t) \/ t.pc = "idle"
  /\ x[1] = "turn" => t.pc # "idle"

-----------------------------------------------------------------------------
(* Taking a message out of a queue takes its id out, and no other.         *)
LEMMA TakenOut ==
  ASSUME NEW q \in Seq(QueuedMessage), Ordered(q), NEW k \in DOMAIN q
  PROVE  /\ RemoveAt(q, k) \in Seq(QueuedMessage) /\ Ordered(RemoveAt(q, k))
         /\ IdsOf(RemoveAt(q, k)) = IdsOf(q) \ {q[k].id} /\ Len(RemoveAt(q, k)) = Len(q) - 1
<1> DEFINE a == SubSeq(q, 1, k - 1)
           b == SubSeq(q, k + 1, Len(q))
           s == a \o b
<1>1. Len(q) \in Nat /\ DOMAIN q = 1 .. Len(q) /\ k \in 1 .. Len(q)
  OBVIOUS
<1>2. /\ a \in Seq(QueuedMessage) /\ Len(a) = k - 1
      /\ \A n \in 1 .. k - 1 : a[n] = q[n]
  BY <1>1
<1>3. /\ b \in Seq(QueuedMessage) /\ Len(b) = Len(q) - k
      /\ \A n \in 1 .. Len(q) - k : b[n] = q[k + n]
  BY <1>1
<1> HIDE DEF a, b
<1>4. /\ s \in Seq(QueuedMessage) /\ Len(s) = Len(q) - 1
      /\ \A n \in 1 .. Len(q) - 1 : s[n] = IF n < k THEN q[n] ELSE q[n + 1]
  <2>1. /\ s \in Seq(QueuedMessage) /\ Len(s) = Len(a) + Len(b)
        /\ \A n \in 1 .. Len(a) + Len(b) : s[n] = IF n <= Len(a) THEN a[n] ELSE b[n - Len(a)]
    BY <1>2, <1>3, ConcatProperties, Zenon
  <2> HIDE DEF s
  <2>2. Len(s) = Len(q) - 1
    BY <1>1, <1>2, <1>3, <2>1
  <2>3. ASSUME NEW n \in 1 .. Len(q) - 1 PROVE s[n] = IF n < k THEN q[n] ELSE q[n + 1]
    <3>1. CASE n < k
      BY <1>1, <1>2, <1>3, <2>1, <3>1
    <3>2. CASE n >= k
      <4>1. s[n] = b[n - (k - 1)] /\ n - (k - 1) \in 1 .. Len(q) - k
        BY SMTT(60), <1>1, <1>2, <1>3, <2>1, <3>2
      <4>2. s[n] = q[k + (n - (k - 1))] /\ k + (n - (k - 1)) = n + 1
        BY <1>1, <1>3, <4>1
      <4> QED BY <1>1, <3>2, <4>2
    <3> QED BY <1>1, <3>1, <3>2
  <2> QED BY <2>1, <2>2, <2>3
<1>5. RemoveAt(q, k) = s
  BY DEF RemoveAt, a, b
<1> HIDE DEF s
<1>6. Ordered(s)
  <2>1. DOMAIN s = 1 .. Len(q) - 1
    BY <1>1, <1>4
  <2>2. ASSUME NEW m \in 1 .. Len(q) - 1, NEW n \in 1 .. Len(q) - 1, s[m].id = s[n].id
        PROVE  m = n
    <3> DEFINE i == IF m < k THEN m ELSE m + 1
               j == IF n < k THEN n ELSE n + 1
    <3>1. i \in DOMAIN q /\ j \in DOMAIN q
      BY <1>1
    <3>2. s[m] = q[i] /\ s[n] = q[j]
      BY <1>4
    <3>3. (i = j) => m = n
      BY <1>1
    <3> HIDE DEF i, j
    <3>4. i = j
      BY <2>2, <3>1, <3>2 DEF Ordered
    <3> QED BY <3>3, <3>4
  <2> QED BY <2>1, <2>2 DEF Ordered
<1>7. IdsOf(s) = IdsOf(q) \ {q[k].id}
  <2>1. ASSUME NEW n \in DOMAIN q, q[n].id # q[k].id
        PROVE  q[n].id \in IdsOf(s)
    <3>1. CASE n < k
      BY <1>1, <1>4, <3>1 DEF IdsOf
    <3>2. CASE n > k
      <4>1. n - 1 \in 1 .. Len(q) - 1 /\ ~(n - 1 < k) /\ (n - 1) + 1 = n
        BY <1>1, <3>2
      <4>2. s[n - 1] = q[n] /\ n - 1 \in DOMAIN s
        BY <1>4, <4>1
      <4> QED BY <4>2 DEF IdsOf
    <3> QED BY <1>1, <2>1, <3>1, <3>2
  <2>2. \A n \in DOMAIN s : s[n].id \in IdsOf(q) /\ s[n].id # q[k].id
    BY SMTT(60), <1>1, <1>4 DEF Ordered, IdsOf
  <2> QED BY <2>1, <2>2 DEF IdsOf
<1> QED BY <1>4, <1>5, <1>6, <1>7

(* Putting a message of a new id into a queue, wherever, adds its id.      *)
LEMMA PutIn ==
  ASSUME NEW q \in Seq(QueuedMessage), Ordered(q), NEW k \in 1 .. Len(q) + 1,
         NEW m \in QueuedMessage, m.id \notin IdsOf(q)
  PROVE  /\ InsertAt(q, k, m) \in Seq(QueuedMessage) /\ Ordered(InsertAt(q, k, m))
         /\ IdsOf(InsertAt(q, k, m)) = IdsOf(q) \cup {m.id}
<1> DEFINE a == SubSeq(q, 1, k - 1)
           b == SubSeq(q, k, Len(q))
           c == a \o <<m>>
           s == c \o b
<1>1. Len(q) \in Nat /\ DOMAIN q = 1 .. Len(q)
  OBVIOUS
<1>2. /\ a \in Seq(QueuedMessage) /\ Len(a) = k - 1
      /\ \A n \in 1 .. k - 1 : a[n] = q[n]
  BY <1>1
<1>3. /\ b \in Seq(QueuedMessage) /\ Len(b) = Len(q) - k + 1
      /\ \A n \in 1 .. Len(q) - k + 1 : b[n] = q[n + k - 1]
  BY <1>1
<1> HIDE DEF a, b
<1>4. /\ c \in Seq(QueuedMessage) /\ Len(c) = k
      /\ \A n \in 1 .. k : c[n] = IF n = k THEN m ELSE q[n]
  <2>1. c = Append(a, m)
    BY <1>2, AppendIsConcat
  <2> QED BY <1>1, <1>2, <2>1, AppendProperties
<1> HIDE DEF c
<1>5. /\ s \in Seq(QueuedMessage) /\ Len(s) = Len(q) + 1
      /\ \A n \in 1 .. Len(q) + 1 :
           s[n] = IF n < k THEN q[n] ELSE IF n = k THEN m ELSE q[n - 1]
  <2>1. /\ s \in Seq(QueuedMessage) /\ Len(s) = Len(c) + Len(b)
        /\ \A n \in 1 .. Len(c) + Len(b) : s[n] = IF n <= Len(c) THEN c[n] ELSE b[n - Len(c)]
    BY <1>3, <1>4, ConcatProperties, Zenon
  <2> HIDE DEF s
  <2>2. Len(s) = Len(q) + 1
    BY <1>1, <1>3, <1>4, <2>1
  <2>3. ASSUME NEW n \in 1 .. Len(q) + 1
        PROVE  s[n] = IF n < k THEN q[n] ELSE IF n = k THEN m ELSE q[n - 1]
    <3>1. CASE n <= k
      BY <1>1, <1>3, <1>4, <2>1, <3>1
    <3>2. CASE n > k
      <4>1. s[n] = b[n - k] /\ n - k \in 1 .. Len(q) - k + 1
        BY <1>1, <1>3, <1>4, <2>1, <3>2
      <4> DEFINE i == n - k
      <4>2. i \in 1 .. Len(q) - k + 1 /\ i + k - 1 = n - 1 /\ s[n] = b[i]
        BY <1>1, <4>1
      <4> HIDE DEF i
      <4>3. s[n] = q[n - 1]
        BY <1>3, <4>2
      <4> QED BY <1>1, <3>2, <4>3
    <3> QED BY <1>1, <3>1, <3>2
  <2> QED BY <2>1, <2>2, <2>3
<1>6. InsertAt(q, k, m) = s
  BY DEF InsertAt, a, b, c
<1> HIDE DEF s
<1>7. DOMAIN s = 1 .. Len(q) + 1 /\ \A n \in 1 .. Len(q) : q[n].id # m.id
  <2>1. DOMAIN s = 1 .. Len(q) + 1
    BY <1>5
  <2>2. \A n \in DOMAIN q : q[n].id # m.id
    BY Zenon DEF IdsOf
  <2> QED BY <1>1, <2>1, <2>2
<1>9. Ordered(s)
  <2> DEFINE from(n) == IF n < k THEN n ELSE n - 1
  <2>1. \A n \in DOMAIN s : n # k => from(n) \in DOMAIN q /\ s[n] = q[from(n)] /\ s[n].id # m.id
    BY <1>1, <1>5, <1>7
  <2>2. \A x, y \in DOMAIN s : x # k /\ y # k /\ from(x) = from(y) => x = y
    BY <1>1, <1>7
  <2>3. s[k] = m
    BY <1>1, <1>5
  <2> HIDE DEF from
  <2> QED BY <2>1, <2>2, <2>3 DEF Ordered
<1>8. IdsOf(s) = IdsOf(q) \cup {m.id}
  <2>1. ASSUME NEW n \in DOMAIN q PROVE q[n].id \in IdsOf(s)
    <3>1. CASE n < k
      BY <1>1, <1>5, <3>1 DEF IdsOf
    <3>2. CASE n >= k
      <4>1. n + 1 \in 1 .. Len(q) + 1 /\ n + 1 > k /\ (n + 1) - 1 = n
        BY <1>1, <3>2
      <4>2. s[n + 1] = q[n] /\ n + 1 \in DOMAIN s
        BY <1>5, <4>1
      <4> QED BY <4>2 DEF IdsOf
    <3> QED BY <1>1, <3>1, <3>2
  <2>2. m.id \in IdsOf(s)
    <3>1. k \in DOMAIN s /\ s[k] = m
      BY <1>1, <1>5, <1>7
    <3> QED BY <3>1 DEF IdsOf
  <2>3. ASSUME NEW n \in DOMAIN s PROVE s[n].id \in IdsOf(q) \cup {m.id}
    <3>1. n \in 1 .. Len(q) + 1
      BY <1>7
    <3>2. s[n] = m \/ \E i \in DOMAIN q : s[n] = q[i]
      <4>1. CASE n < k
        BY <1>1, <1>5, <3>1, <4>1
      <4>2. CASE n = k
        BY <1>5, <4>2
      <4>3. CASE n > k
        <5>1. n - 1 \in DOMAIN q
          BY <1>1, <3>1, <4>3
        <5>2. s[n] = q[n - 1]
          BY <1>5, <4>3
        <5> QED BY <5>1, <5>2
      <4> QED BY <1>1, <3>1, <4>1, <4>2, <4>3
    <3> QED BY <3>2 DEF IdsOf
  <2> QED BY <2>1, <2>2, <2>3 DEF IdsOf
<1> QED BY <1>5, <1>6, <1>9, <1>8

(* The same at either end.                                                 *)
LEMMA PutFirst ==
  ASSUME NEW q \in Seq(QueuedMessage), Ordered(q), NEW m \in QueuedMessage, m.id \notin IdsOf(q)
  PROVE  /\ <<m>> \o q \in Seq(QueuedMessage) /\ Ordered(<<m>> \o q)
         /\ IdsOf(<<m>> \o q) = IdsOf(q) \cup {m.id}
<1> DEFINE s == <<m>> \o q
<1>1. Len(q) \in Nat /\ DOMAIN q = 1 .. Len(q)
  OBVIOUS
<1>2. /\ s \in Seq(QueuedMessage) /\ Len(s) = Len(q) + 1
      /\ \A n \in 1 .. Len(q) + 1 : s[n] = IF n = 1 THEN m ELSE q[n - 1]
  <2>1. <<m>> \in Seq(QueuedMessage) /\ Len(<<m>>) = 1 /\ <<m>>[1] = m
    OBVIOUS
  <2>2. /\ s \in Seq(QueuedMessage) /\ Len(s) = Len(<<m>>) + Len(q)
        /\ \A n \in 1 .. Len(<<m>>) + Len(q) : s[n] = IF n <= Len(<<m>>) THEN <<m>>[n] ELSE q[n - Len(<<m>>)]
    BY <2>1, ConcatProperties, Zenon
  <2> QED BY <1>1, <2>1, <2>2
<1> HIDE DEF s
<1>5. DOMAIN s = 1 .. Len(q) + 1 /\ \A n \in 1 .. Len(q) : q[n].id # m.id
  <2>1. DOMAIN s = 1 .. Len(q) + 1
    BY <1>2
  <2>2. \A n \in DOMAIN q : q[n].id # m.id
    BY Zenon DEF IdsOf
  <2> QED BY <1>1, <2>1, <2>2
<1>3. Ordered(s)
  <2>1. \A n \in DOMAIN s : n # 1 => n - 1 \in DOMAIN q /\ s[n] = q[n - 1] /\ s[n].id # m.id
    BY <1>1, <1>2, <1>5
  <2>2. s[1] = m /\ \A x, y \in DOMAIN s : x - 1 = y - 1 => x = y
    BY <1>1, <1>2, <1>5
  <2> QED BY <2>1, <2>2 DEF Ordered
<1>4. IdsOf(s) = IdsOf(q) \cup {m.id}
  <2>1. ASSUME NEW n \in DOMAIN q PROVE q[n].id \in IdsOf(s)
    <3>1. n + 1 \in 1 .. Len(q) + 1 /\ n + 1 # 1 /\ (n + 1) - 1 = n
      BY <1>1
    <3>2. s[n + 1] = q[n] /\ n + 1 \in DOMAIN s
      BY <1>2, <3>1
    <3> QED BY <3>2 DEF IdsOf
  <2>2. m.id \in IdsOf(s)
    <3>1. 1 \in DOMAIN s /\ s[1] = m
      BY <1>1, <1>2, <1>5
    <3> QED BY <3>1 DEF IdsOf
  <2>3. ASSUME NEW n \in DOMAIN s PROVE s[n].id \in IdsOf(q) \cup {m.id}
    <3>1. s[n] = m \/ \E i \in DOMAIN q : s[n] = q[i]
      BY <1>1, <1>2, <1>5
    <3> QED BY <3>1 DEF IdsOf
  <2> QED BY <2>1, <2>2, <2>3 DEF IdsOf
<1> QED BY <1>2, <1>3, <1>4 DEF s

LEMMA PutLast ==
  ASSUME NEW q \in Seq(QueuedMessage), Ordered(q), NEW m \in QueuedMessage, m.id \notin IdsOf(q)
  PROVE  /\ Append(q, m) \in Seq(QueuedMessage) /\ Ordered(Append(q, m))
         /\ IdsOf(Append(q, m)) = IdsOf(q) \cup {m.id}
<1> DEFINE s == Append(q, m)
<1>1. Len(q) \in Nat /\ DOMAIN q = 1 .. Len(q)
  OBVIOUS
<1>2. /\ s \in Seq(QueuedMessage) /\ Len(s) = Len(q) + 1
      /\ \A n \in 1 .. Len(q) + 1 : s[n] = IF n = Len(q) + 1 THEN m ELSE q[n]
  BY <1>1
<1> HIDE DEF s
<1>3. Ordered(s)
  BY <1>1, <1>2 DEF Ordered, IdsOf
<1>4. IdsOf(s) = IdsOf(q) \cup {m.id}
  BY <1>1, <1>2 DEF IdsOf
<1> QED BY <1>2, <1>3, <1>4 DEF s
-----------------------------------------------------------------------------
(* Who a task is, and whose.                                               *)
LEMMA Names ==
  ASSUME NEW x \in Tasks
  PROVE  \/ x[1] = "request" /\ x[2] \in Requests /\ x = <<"request", x[2]>>
         \/ x[1] = "turn" /\ x[2] \in Ids /\ x = <<"turn", x[2]>>
BY DEF Tasks

LEMMA NameTypes ==
  /\ \A r \in Requests : <<"request", r>> \in Tasks
  /\ \A i \in Ids : <<"turn", i>> \in Tasks
BY DEF Tasks

(* What waits in the queue.                                                *)
LEMMA WaitingIds ==
  ASSUME TypeOK
  PROVE  /\ queue \in Seq(QueuedMessage) /\ IdsOf(queue) = Waiting /\ Waiting \subseteq Ids
         /\ \A n \in DOMAIN queue : queue[n] \in QueuedMessage /\ queue[n].id \in Waiting
<1>1. queue \in Seq(QueuedMessage) /\ IdsOf(queue) = Waiting
  BY DEF TypeOK, QueuedMessage, IdsOf, Waiting
<1>2. \A m \in QueuedMessage : m.id \in Ids
  BY DEF QueuedMessage
<1>3. \A n \in DOMAIN queue : queue[n] \in QueuedMessage
  BY <1>1
<1> QED BY <1>1, <1>2, <1>3 DEF Waiting

(* A step of one task that takes at most one message out of the queue into *)
(* its hand, and lets clients take others back, keeps the invariant.       *)
LEMMA Moves ==
  ASSUME QueueInv, NEW x \in Tasks, NEW t \in Task, task' = [task EXCEPT ![x] = t],
         UNCHANGED <<accepted, starts, scenario>>, TableOK', faults' >= faults,
         queue' \in Seq(QueuedMessage), Ordered(queue'),
         NEW lost, NEW taken, lost \subseteq Waiting, taken \subseteq Waiting, lost \cap taken = {},
         IdsOf(queue') = Waiting \ (lost \cup taken), gone' = gone \cup lost,
         Follows(x, task[x], t),
         Carrying(task[x]) => Carrying(t) /\ t.head.id = task[x].head.id,
         Carrying(t) => t.head.id \in taken \/ (Carrying(task[x]) /\ t.head.id = task[x].head.id),
         \A i \in taken : Carrying(t) /\ t.head.id = i
  PROVE  QueueInv'
<1>1. /\ TypeOK /\ Locals /\ Waits /\ Carried /\ Apart /\ Sent /\ Unused /\ History /\ Born /\ NothingLost
      /\ task \in [Tasks -> Task]
  BY DEF QueueInv, TypeOK
<1>2. Waiting' = Waiting \ (lost \cup taken)
  BY DEF Waiting, IdsOf
<1>3. task' \in [Tasks -> Task] /\ \A y \in Tasks : task'[y] = IF y = x THEN t ELSE task[y]
  BY <1>1
<1>4. TypeOK'
  <2>1. Waiting \subseteq Ids
    BY <1>1, WaitingIds
  <2> QED BY <1>1, <1>3, <2>1 DEF TypeOK, TableOK, QueuedMessage
<1>5. Locals'
  BY <1>1, <1>3 DEF Locals, LocalsOK, Follows
<1>6. Waits'
  BY <1>1, <1>2 DEF Waits, Untouched
<1>7. Carried'
  <2> SUFFICES ASSUME NEW y \in Tasks, Carrying(task'[y])
               PROVE  /\ starts'[task'[y].head.id] = 0 /\ task'[y].head.id \notin gone'
                      /\ task'[y].head.id \in accepted' /\ task'[y].head.id \notin Waiting'
    BY DEF Carried, Untouched
  <2>1. CASE Carrying(task[y]) /\ task'[y].head.id = task[y].head.id
    BY <1>1, <1>2, <2>1 DEF Carried, Untouched
  <2>2. CASE y = x /\ t.head.id \in taken
    BY <1>1, <1>2, <1>3, <2>2 DEF Waits, Untouched
  <2> QED BY <1>3, <2>1, <2>2
<1>8. Apart'
  <2> SUFFICES ASSUME NEW y \in Tasks, NEW z \in Tasks, Carrying(task'[y]), Carrying(task'[z]),
                      task'[y].head.id = task'[z].head.id
               PROVE  y = z
    BY DEF Apart
  <2>1. \A v \in Tasks : Carrying(task'[v]) =>
          \/ Carrying(task[v]) /\ task'[v].head.id = task[v].head.id /\ task[v].head.id \notin Waiting
          \/ v = x /\ task'[v].head.id \in Waiting
    BY <1>1, <1>3 DEF Carried
  <2> QED BY <1>1, <2>1 DEF Apart
<1>9. Sent'
  BY <1>1, <1>3, NameTypes DEF Sent, Follows
<1>10. Unused' /\ History'
  BY <1>1 DEF Unused, History, Waits, Untouched
<1>11. Born'
  <2> SUFFICES ASSUME NEW i \in Ids, task'[<<"turn", i>>].pc # "idle" PROVE starts[i] > 0
    BY DEF Born
  <2>1. <<"turn", i>> \in Tasks /\ <<"turn", i>>[1] = "turn"
    BY NameTypes
  <2> QED BY <1>1, <1>3, <2>1 DEF Born, Follows
<1>12. NothingLost'
  <2> SUFFICES ASSUME faults' = 0, NEW i \in accepted
               PROVE  i \in Waiting' \/ InHand(i)' \/ starts[i] > 0 \/ i \in gone'
    BY DEF NothingLost
  <2>1. i \in Waiting \/ InHand(i) \/ starts[i] > 0 \/ i \in gone
    BY <1>1 DEF NothingLost, TypeOK, TableOK
  <2>2. CASE InHand(i)
    <3>1. PICK y \in Tasks : task[y].head.id = i /\ Carrying(task[y])
      BY <2>2 DEF InHand, Carrying
    <3>2. task'[y].head.id = i /\ Carrying(task'[y])
      BY <1>3, <3>1
    <3> QED BY <3>2 DEF InHand, Carrying
  <2>3. CASE i \in taken
    BY <1>3, <2>3 DEF InHand, Carrying
  <2> QED BY <1>2, <2>1, <2>2, <2>3
<1> QED BY <1>4, <1>5, <1>6, <1>7, <1>8, <1>9, <1>10, <1>11, <1>12 DEF QueueInv

(* A step of one task that leaves the queue and everybody's messages where *)
(* they are.                                                               *)
LEMMA Calm ==
  ASSUME QueueInv, NEW x \in Tasks, NEW t \in Task, task' = [task EXCEPT ![x] = t],
         UNCHANGED <<queue, log, scenario>>, TableOK', faults' >= faults,
         Follows(x, task[x], t), Carrying(t) <=> Carrying(task[x]),
         Carrying(t) => t.head.id = task[x].head.id
  PROVE  QueueInv'
<1>1. /\ queue' \in Seq(QueuedMessage) /\ Ordered(queue') /\ IdsOf(queue') = Waiting \ ({} \cup {})
      /\ UNCHANGED <<accepted, starts, scenario>> /\ gone' = gone \cup {}
  BY DEF QueueInv, TypeOK, QueuedMessage, IdsOf, Waiting, log
<1> QED BY <1>1, Moves

\* The same locals at another step.
SameLocals(t, u) == /\ u.run = t.run /\ u.outcome = t.outcome /\ u.reason = t.reason
                    /\ u.holding = t.holding /\ u.head = t.head /\ u.tries = t.tries /\ u.back = t.back

LEMMA UnbornType ==
  /\ Unborn \in Task /\ Unborn.pc = "idle" /\ Unborn.back = "done"
  /\ Done \in Task /\ Done.pc = "done" /\ Done.back = "done"
BY DEF Unborn, Done, Task, Pcs, Ends, Reasons, Message, NoMessage

(* What a task is after it goes on, and after it returns to its caller.    *)
LEMMA GotoTask ==
  ASSUME task \in [Tasks -> Task], NEW x \in Tasks, NEW pc \in Pcs, Goto(x, pc)
  PROVE  \E u \in Task : /\ task' = [task EXCEPT ![x] = u] /\ u.pc = pc
                         /\ IF pc = "done" THEN u.back = "done" ELSE SameLocals(task[x], u)
<1> DEFINE moved == [task[x] EXCEPT !.pc = pc]
<1>1. /\ moved \in Task /\ moved.pc = pc /\ SameLocals(task[x], moved)
  BY DEF Task, SameLocals
<1>2. task' = [task EXCEPT ![x] = IF pc = "done" THEN Done ELSE moved]
  BY DEF Goto
<1> HIDE DEF moved
<1> QED BY <1>1, <1>2, UnbornType

LEMMA ReturnedTask ==
  ASSUME NEW x \in Tasks, task[x] \in Task, task[x].back # "start"
  PROVE  /\ Returned(x) \in Task /\ Returned(x).pc \in {"done", "free", "takeback"}
         /\ Returned(x).back # "start"
<1> DEFINE t == task[x]
           back == [Unborn EXCEPT !.pc = t.back, !.run = t.run, !.back = t.back]
<1>1. t.back \in {"done", "free", "takeback"} /\ t.back \in Pcs /\ t.run \in Ids \cup {None}
  BY DEF Task, Pcs
<1>2. back \in Task /\ back.pc = t.back /\ back.back = t.back
  BY <1>1, UnbornType DEF Task
<1>3. Returned(x) \in {Done, back}
  BY DEF Returned
<1> HIDE DEF back
<1> QED BY <1>1, <1>2, <1>3, UnbornType

LEMMA ReturnTask ==
  ASSUME task \in [Tasks -> Task], NEW x \in Tasks, Return(x), task[x].back # "start"
  PROVE  \E u \in Task : /\ task' = [task EXCEPT ![x] = u]
                         /\ u.pc \in {"done", "free", "takeback"} /\ u.back # "start"
BY ReturnedTask DEF Return

(* Going on, with the same locals, to a step that asks nothing new of      *)
(* them; and going back to the caller.                                     *)
LEMMA GotoKeeps ==
  ASSUME QueueInv, NEW x \in Tasks, NEW pc \in Pcs \ {"idle", "input", "set", "restore"},
         Goto(x, pc), UNCHANGED <<queue, log, scenario>>, TableOK', faults' >= faults,
         ~Carrying(task[x]), x[1] = "turn" => task[x].pc # "idle",
         pc \in {"look", "judge", "bury", "start", "enqueue", "unclaim"} => Sending(task[x]),
         pc \in {"pause", "claim", "reclaim", "pop"} => task[x].head.id \in Ids,
         pc \in {"unpause", "cancel", "record", "waits"} => task[x].run \in Ids,
         Sending(task[x]) => pc \in {"bury", "start", "enqueue", "unclaim", "claim", "reclaim", "done"},
         task[x].pc = "unclaim" => pc = "done"
  PROVE  QueueInv'
<1> DEFINE t == task[x]
<1>1. task \in [Tasks -> Task] /\ LocalsOK(x, t)
  BY DEF QueueInv, TypeOK, Locals
<1>2. PICK u \in Task : /\ task' = [task EXCEPT ![x] = u] /\ u.pc = pc
                        /\ IF pc = "done" THEN u.back = "done" ELSE SameLocals(t, u)
  BY <1>1, GotoTask
<1>3. ~Carrying(u)
  BY <1>2 DEF Carrying
<1>4. Follows(x, t, u)
  <2>1. CASE pc = "done"
    BY <1>2, <2>1 DEF Follows, LocalsOK, Sending
  <2>2. CASE pc # "done"
    <3>1. u.pc = pc /\ u.head = t.head /\ u.back = t.back /\ u.run = t.run
      BY <1>2, <2>2 DEF SameLocals
    <3>2. LocalsOK(x, u)
      BY <1>1, <2>2, <3>1 DEF LocalsOK, Sending
    <3> QED BY <1>1, <3>1, <3>2 DEF Follows, LocalsOK, Sending
  <2> QED BY <2>1, <2>2
<1> QED BY <1>2, <1>3, <1>4, Calm

LEMMA ReturnKeeps ==
  ASSUME QueueInv, NEW x \in Tasks, Return(x), UNCHANGED <<queue, log, scenario>>, TableOK',
         faults' >= faults, ~Carrying(task[x]), ~Sending(task[x]),
         task[x].pc \notin {"idle", "unclaim"}
  PROVE  QueueInv'
<1> DEFINE t == task[x]
<1>1. task \in [Tasks -> Task] /\ LocalsOK(x, t)
  BY DEF QueueInv, TypeOK, Locals
<1>2. t.back # "start"
  BY <1>1 DEF LocalsOK
<1>3. PICK u \in Task : /\ task' = [task EXCEPT ![x] = u]
                        /\ u.pc \in {"done", "free", "takeback"} /\ u.back # "start"
  BY <1>1, <1>2, ReturnTask
<1>4. ~Carrying(u) /\ Follows(x, t, u)
  BY <1>3 DEF Carrying, Follows, LocalsOK, Sending
<1> QED BY <1>3, <1>4, Calm

LEMMA TableTypes ==
  ASSUME TypeOK
  PROVE  /\ TableOK /\ task \in [Tasks -> Task] /\ Ids \subseteq Ids \cup {None}
         /\ \A i : Released(i) \in Ids \cup {None}
         /\ \A i : \A end \in Ends : Recorded(i, end) \in [Ids -> Ends \cup {"none"}]
BY DEF TypeOK, TableOK, Released, Recorded

LEMMA TableStill ==
  ASSUME TypeOK, UNCHANGED <<table, row, cancelled, log, faults>>, UNCHANGED scenario
  PROVE  TableOK' /\ faults' >= faults /\ UNCHANGED <<queue, log, scenario>>
<1>1. UNCHANGED <<holder, queue, pause, row, cancelled, faults>>
  BY DEF table
<1>2. faults \in Nat /\ faults' = faults
  BY <1>1 DEF TypeOK
<1>3. TableOK'
  BY <1>1 DEF TypeOK, TableOK
<1>4. faults' >= faults
  BY <1>2
<1> QED BY <1>1, <1>3, <1>4

(* A send until its message is in the queue: it looks who holds the        *)
(* thread, claims it or gives up.                                          *)
LEMMA SendKeeps ==
  ASSUME QueueInv, NEW x \in Tasks, UNCHANGED scenario,
         \/ Look(x) \/ Judge(x) \/ SettleDeadRun(x) \/ ClaimFree(x) \/ ClaimHeld(x) \/ Unclaim(x)
  PROVE  QueueInv'
<1> DEFINE t == task[x]
<1>1. /\ TypeOK /\ TableOK /\ task \in [Tasks -> Task] /\ t \in Task /\ LocalsOK(x, t)
      /\ \A i : Released(i) \in Ids \cup {None}
      /\ \A i : \A end \in Ends : Recorded(i, end) \in [Ids -> Ends \cup {"none"}]
  BY TableTypes DEF QueueInv, Locals
<1>2. CASE Look(x)
  <2> DEFINE u == [t EXCEPT !.run = holder, !.pc = "judge"]
  <2>1. /\ u \in Task /\ u.pc = "judge" /\ u.head = t.head /\ u.back = t.back /\ t.pc = "look"
    BY <1>1, <1>2 DEF TableOK, Task, Pcs, Look, At
  <2>2. task' = [task EXCEPT ![x] = u] /\ UNCHANGED <<queue, log, scenario>> /\ TableOK' /\ faults' >= faults
    BY <1>1, <1>2, TableStill DEF Look
  <2> HIDE DEF u
  <2>3. Follows(x, t, u) /\ (Carrying(u) <=> Carrying(t)) /\ ~Carrying(u)
    BY <1>1, <2>1 DEF Follows, LocalsOK, Sending, Carrying
  <2> QED BY <2>1, <2>2, <2>3, Calm
<1>3. CASE Judge(x)
  <2> DEFINE run == t.run
             alive == run # None /\ IsAlive(run)
             pc == IF run # None /\ ~alive THEN "bury"
                   ELSE IF alive \/ "queue" \in Kind[x[2]] THEN "enqueue" ELSE "claim"
             u == [t EXCEPT !.holding = IF alive THEN None ELSE run,
                            !.run = IF alive THEN run ELSE None, !.pc = pc]
  <2>1. pc \in {"bury", "enqueue", "claim"} /\ t.pc = "judge" /\ run \in Ids \cup {None}
    BY <1>1, <1>3 DEF Judge, At, Task
  <2>2. task' = [task EXCEPT ![x] = u] /\ UNCHANGED <<queue, log, scenario>> /\ TableOK' /\ faults' >= faults
    BY <1>1, <1>3, TableStill DEF Judge
  <2> HIDE DEF pc, alive
  <2>3. u \in Task /\ u.pc = pc /\ u.head = t.head /\ u.back = t.back
    <3>1. pc \in Pcs /\ {run, None} \subseteq Ids \cup {None}
      BY <2>1 DEF Pcs
    <3> QED BY <1>1, <3>1 DEF Task
  <2> HIDE DEF u
  <2>4. t.back = "start" /\ x[1] = "request" /\ t.head.id = x[2] /\ x[2] \in Ids
    BY <1>1, <2>1, Names DEF LocalsOK, Sending, Ids
  <2>5. Follows(x, t, u) /\ ~Carrying(u) /\ ~Carrying(t)
    BY <1>1, <2>1, <2>3, <2>4 DEF Follows, LocalsOK, Sending, Carrying
  <2> QED BY <2>2, <2>3, <2>5, Calm
<1>4. CASE SettleDeadRun(x)
  <2>1. t.pc = "bury" /\ TableOK' /\ UNCHANGED <<queue, log, scenario>> /\ faults' >= faults
    <3>1. row' \in [Ids -> Ends \cup {"none"}] /\ t.pc = "bury"
      BY <1>1, <1>4 DEF SettleDeadRun, At, Ends
    <3>2. UNCHANGED <<holder, queue, pause, cancelled, log, faults>>
      BY <1>4 DEF SettleDeadRun, table
    <3> QED BY <1>1, <3>1, <3>2 DEF TableOK
  <2>2. Sending(t) /\ ~Carrying(t) /\ t.head.id = x[2] /\ x[1] = "request" /\ x[2] \in Ids
    BY <1>1, <2>1, Names DEF LocalsOK, Sending, Carrying, Ids
  <2>3. Goto(x, "enqueue") \/ Goto(x, "claim")
    BY <1>4 DEF SettleDeadRun
  <2> QED BY <2>1, <2>2, <2>3, GotoKeeps DEF Pcs
<1>5. ASSUME t.pc \in {"claim", "reclaim"}, Claimed(x), UNCHANGED <<queue, pause, row, cancelled, log, faults>>
      PROVE  QueueInv'
  <2>1. t.head.id \in Ids /\ ~Carrying(t) /\ (Sending(t) <=> t.back = "start")
    BY <1>1, <1>5 DEF LocalsOK, Carrying, Sending
  <2>2. TableOK' /\ UNCHANGED <<queue, log, scenario>> /\ faults' >= faults
    BY <1>1, <1>5, <2>1 DEF Claimed, TableOK
  <2> DEFINE pc == IF t.back = "start" THEN "start" ELSE "pop"
             u  == [t EXCEPT !.pc = pc]
  <2>3. u \in Task /\ u.pc = pc /\ u.head = t.head /\ u.back = t.back /\ task' = [task EXCEPT ![x] = u]
    BY <1>1, <1>5 DEF Task, Pcs, Claimed
  <2> HIDE DEF u
  <2>4. Follows(x, t, u) /\ ~Carrying(u)
    BY <1>1, <1>5, <2>1, <2>3 DEF Follows, LocalsOK, Sending, Carrying
  <2> QED BY <2>1, <2>2, <2>3, <2>4, Calm
<1>6. CASE ClaimFree(x)
  <2>1. t.pc = "claim" /\ t.head.id \in Ids
    BY <1>1, <1>6 DEF ClaimFree, At, LocalsOK
  <2>2. CASE holder = None
    BY <1>5, <1>6, <2>1, <2>2 DEF ClaimFree
  <2>3. CASE holder # None
    <3>1. Goto(x, "reclaim") /\ UNCHANGED <<queue, log, scenario>> /\ TableOK' /\ faults' >= faults
      BY <1>1, <1>6, <2>3 DEF ClaimFree, TableOK
    <3>2. ~Carrying(t) /\ t.pc # "unclaim"
      BY <2>1 DEF Carrying
    <3> QED BY <2>1, <3>1, <3>2, GotoKeeps DEF Pcs
  <2> QED BY <2>2, <2>3
<1>7. CASE ClaimHeld(x)
  <2>1. t.pc = "reclaim" /\ ~Carrying(t) /\ (Sending(t) <=> t.back = "start")
    BY <1>7 DEF ClaimHeld, At, Carrying, Sending
  <2>2. CASE holder # None /\ holder \in {t.head.id, t.holding}
    BY <1>5, <1>7, <2>1, <2>2 DEF ClaimHeld
  <2>3. CASE ~(holder # None /\ holder \in {t.head.id, t.holding})
    <3>1. /\ IF t.back = "start" THEN Goto(x, "enqueue") ELSE Return(x)
          /\ UNCHANGED <<queue, log, scenario>> /\ TableOK' /\ faults' >= faults
      BY <1>1, <1>7, <2>3 DEF ClaimHeld, TableOK
    <3>2. CASE t.back = "start"
      BY <2>1, <3>1, <3>2, GotoKeeps DEF Pcs
    <3>3. CASE t.back # "start"
      BY <2>1, <3>1, <3>3, ReturnKeeps
    <3> QED BY <3>2, <3>3
  <2> QED BY <2>2, <2>3
<1>8. CASE Unclaim(x)
  <2>1. /\ t.pc = "unclaim" /\ Goto(x, "done") /\ UNCHANGED <<queue, log, scenario>> /\ TableOK'
        /\ faults' >= faults
    BY <1>1, <1>8 DEF Unclaim, At, TableOK
  <2>2. ~Carrying(t) /\ ~Sending(t)
    BY <2>1 DEF Carrying, Sending
  <2> QED BY <2>1, <2>2, GotoKeeps DEF Pcs
<1> QED BY <1>2, <1>3, <1>4, <1>6, <1>7, <1>8

(* Starting the message in hand, or the one of a send that claimed the     *)
(* thread: nobody else has it, and its turn has not been there before.     *)
LEMMA StartKeeps ==
  ASSUME QueueInv, NEW x \in Tasks, NEW i \in Ids, NEW u \in Task,
         RunnerStart(x, i), UNCHANGED scenario,
         task' = [task EXCEPT ![x] = u, ![<<"turn", i>>] = Begun(i)],
         Follows(x, task[x], u), ~Carrying(u), ~Sending(u),
         \/ Carrying(task[x]) /\ task[x].head.id = i
         \/ Sending(task[x]) /\ x = <<"request", i>> /\ i \in Requests
  PROVE  QueueInv'
<1> DEFINE y == <<"turn", i>>
<1>1. /\ TypeOK /\ Locals /\ Waits /\ Carried /\ Apart /\ Sent /\ Unused /\ History /\ Born /\ NothingLost
      /\ task \in [Tasks -> Task] /\ Ordered(queue)
  BY DEF QueueInv, TypeOK
<1>2. starts[i] = 0 /\ i \notin gone /\ i \notin Waiting
  BY <1>1 DEF Carried, Untouched, Sent, Waits, History
<1>3. /\ y \in Tasks /\ y[1] = "turn" /\ \A j \in Ids : <<"turn", j>> = y => j = i
      /\ \A r \in Requests : <<"request", r>> # y
  BY NameTypes
<1>4. task[y].pc = "idle" /\ x # y
  BY <1>1, <1>2 DEF Born, Carrying, Sending
<1>5. Begun(i) \in Task /\ Begun(i).pc = "running" /\ Begun(i).back = "free"
  BY ZenonT(90), UnbornType DEF Begun, Task, Pcs, Unborn
<1>6. task' \in [Tasks -> Task]
      /\ \A z \in Tasks : task'[z] = IF z = y THEN Begun(i) ELSE IF z = x THEN u ELSE task[z]
  BY <1>1, <1>3, <1>4, <1>5
<1>7. /\ UNCHANGED <<queue, pause, row, cancelled, accepted, gone, faults, scenario>>
      /\ holder' = i /\ starts' = [starts EXCEPT ![i] = @ + 1]
  BY DEF RunnerStart
<1>8. /\ Waiting' = Waiting /\ starts \in [Ids -> Nat] /\ starts' \in [Ids -> Nat]
      /\ \A j \in Ids : starts'[j] = IF j = i THEN 1 ELSE starts[j]
  BY <1>1, <1>2, <1>7 DEF TypeOK, Waiting
<1>9. TypeOK'
  BY <1>1, <1>6, <1>7, <1>8 DEF TypeOK
<1>10. Locals'
  <2>1. LocalsOK(y, Begun(i))
    BY <1>5 DEF LocalsOK, Sending
  <2> QED BY <1>1, <1>6, <2>1 DEF Locals, Follows
<1>11. Ordered(queue)' /\ Waits'
  <2>1. Waiting \subseteq Ids
    BY <1>1, WaitingIds
  <2> QED BY <1>1, <1>2, <1>7, <1>8, <2>1 DEF Ordered, Waits, Untouched
<1>12. ASSUME NEW z \in Tasks, Carrying(task'[z])
       PROVE  /\ task'[z] = task[z] /\ Carrying(task[z]) /\ task[z].head.id # i
              /\ task[z].head.id \in Ids
  <2>1. z # x /\ z # y /\ task'[z] = task[z]
    BY <1>5, <1>6, <1>12 DEF Carrying
  <2>2. task[z].head.id # i
    BY <1>1, <1>12, <2>1 DEF Apart, Carried, Sent
  <2>3. task[z].head.id \in Ids
    BY <1>1, <1>12, <2>1 DEF Locals, LocalsOK, Carrying
  <2> QED BY <1>12, <2>1, <2>2, <2>3
<1>13. Carried' /\ Apart'
  BY <1>1, <1>7, <1>8, <1>12 DEF Carried, Apart, Untouched
<1>14. Sent'
  <2> SUFFICES ASSUME NEW r \in Requests,
                      task'[<<"request", r>>].pc = "idle" \/ Sending(task'[<<"request", r>>])
               PROVE  r \notin accepted' /\ starts'[r] = 0
    BY DEF Sent
  <2>1. <<"request", r>> \in Tasks /\ <<"request", r>> # y /\ r \in Ids
    BY <1>3, NameTypes DEF Ids
  <2>2. <<"request", r>> # x /\ task'[<<"request", r>>] = task[<<"request", r>>]
    BY <1>6, <2>1 DEF Follows
  <2>3. r \notin accepted /\ starts[r] = 0
    BY <1>1, <2>2 DEF Sent
  <2>4. r # i
    BY <1>1, <2>2, <2>3 DEF Carried
  <2> QED BY <1>7, <1>8, <2>1, <2>3, <2>4
<1>15. Unused'
  <2>1. i \in Spare => i \in accepted
    BY <1>1, QueueAssumption DEF QueueAssumption, Carried
  <2> QED BY <1>1, <1>7, <1>8, <2>1 DEF Unused, Ids
<1>16. History'
  BY <1>1, <1>2, <1>7, <1>8 DEF History
<1>17. Born'
  <2> SUFFICES ASSUME NEW j \in Ids, task'[<<"turn", j>>].pc # "idle" PROVE starts'[j] > 0
    BY DEF Born
  <2>1. <<"turn", j>> \in Tasks /\ <<"turn", j>>[1] = "turn"
    BY NameTypes
  <2>2. CASE j # i
    <3>1. task[<<"turn", j>>].pc # "idle"
      BY <1>3, <1>6, <2>1, <2>2 DEF Follows
    <3> QED BY <1>1, <1>8, <2>2, <3>1 DEF Born
  <2> QED BY <1>8, <2>2
<1>18. NothingLost'
  <2> SUFFICES ASSUME faults = 0, NEW j \in accepted
               PROVE  j \in Waiting \/ InHand(j)' \/ starts'[j] > 0 \/ j \in gone
    BY <1>7, <1>8 DEF NothingLost
  <2>1. j \in Ids /\ (j \in Waiting \/ InHand(j) \/ starts[j] > 0 \/ j \in gone)
    BY <1>1 DEF NothingLost, TypeOK
  <2>2. CASE InHand(j) /\ j # i
    <3>1. PICK z \in Tasks : task[z].head.id = j /\ Carrying(task[z])
      BY <2>2 DEF InHand, Carrying
    <3>2. z # y /\ z # x
      BY <1>1, <1>4, <2>2, <3>1 DEF Carrying, Sending
    <3>3. task'[z].head.id = j /\ Carrying(task'[z])
      BY <1>6, <3>1, <3>2
    <3> QED BY <3>3 DEF InHand, Carrying
  <2>3. CASE j = i
    BY <1>8, <2>3
  <2> QED BY <1>8, <2>1, <2>2, <2>3
<1> QED BY <1>9, <1>10, <1>11, <1>13, <1>14, <1>15, <1>16, <1>17, <1>18 DEF QueueInv

LEMMA StartClaimedKeeps ==
  ASSUME QueueInv, NEW x \in Tasks, StartClaimed(x), UNCHANGED scenario
  PROVE  QueueInv'
<1> DEFINE t == task[x]
           i == t.head.id
<1>1. /\ TypeOK /\ TableOK /\ task \in [Tasks -> Task] /\ t \in Task /\ LocalsOK(x, t) /\ t.pc = "start"
  BY TableTypes DEF QueueInv, Locals, StartClaimed, At
<1>2. Sending(t) /\ ~Carrying(t) /\ x = <<"request", i>> /\ i \in Requests /\ i \in Ids
  BY <1>1, Names DEF LocalsOK, Sending, Carrying, Ids
<1>3. CASE RunnerStart(x, i) /\ task' = [task EXCEPT ![x] = Done, ![<<"turn", i>>] = Begun(i)]
  <2>1. Follows(x, t, Done) /\ ~Carrying(Done) /\ ~Sending(Done)
    BY <1>1, UnbornType DEF Follows, LocalsOK, Sending, Carrying
  <2> QED BY <1>2, <1>3, <2>1, StartKeeps, UnbornType
<1>4. CASE StartFails /\ Goto(x, "unclaim") /\ UNCHANGED <<table, row, cancelled, log>>
  <2>1. TableOK' /\ faults' >= faults /\ UNCHANGED <<queue, log, scenario>>
    BY <1>1, <1>4 DEF StartFails, Fault, TableOK, table
  <2> QED BY <1>1, <1>2, <1>4, <2>1, GotoKeeps DEF Pcs
<1> QED BY <1>3, <1>4 DEF StartClaimed

(* A message that enters the queue was nowhere before.                     *)
LEMMA EnqueueKeeps ==
  ASSUME QueueInv, NEW x \in Tasks, Enqueue(x), UNCHANGED scenario
  PROVE  QueueInv'
<1> DEFINE t == task[x]
           r == x[2]
           interrupting == "interrupt" \in Kind[r] /\ t.run # None
           m == [t.head EXCEPT !.interrupt = interrupting]
           u == [t EXCEPT !.pc = IF interrupting THEN "unpause" ELSE "kick",
                          !.back = IF "chat" \in Kind[r] THEN "takeback" ELSE "done"]
<1>1. /\ TypeOK /\ Locals /\ Waits /\ Carried /\ Apart /\ Sent /\ Unused /\ History /\ Born /\ NothingLost
      /\ task \in [Tasks -> Task] /\ Ordered(queue) /\ t \in Task /\ LocalsOK(x, t) /\ t.pc = "enqueue"
  BY DEF QueueInv, TypeOK, Enqueue, At, Locals
<1>2. /\ x[1] = "request" /\ r \in Requests /\ x = <<"request", r>> /\ r \in Ids /\ t.head.id = r
      /\ Sending(t) /\ ~Carrying(t)
  BY <1>1, Names DEF LocalsOK, Sending, Carrying, Ids
<1>3. r \notin accepted /\ starts[r] = 0 /\ r \notin Waiting /\ r \notin gone
  BY <1>1, <1>2 DEF Sent, Waits, History
<1>4. /\ u \in Task /\ u.pc \in {"unpause", "kick"} /\ u.back \in {"takeback", "done"}
      /\ u.head = t.head /\ u.run = t.run /\ (u.pc = "unpause" => t.run \in Ids)
  <2>1. {"unpause", "kick"} \subseteq Pcs
    BY DEF Pcs
  <2>2. (IF interrupting THEN "unpause" ELSE "kick") \in Pcs
    BY <2>1
  <2>3. interrupting => t.run \in Ids
    BY <1>1 DEF Task
  <2> HIDE DEF interrupting
  <2> QED BY <1>1, <2>2, <2>3 DEF Task
<1>5. m \in QueuedMessage /\ m.id = r
  BY <1>1, <1>2 DEF Task, Message, QueuedMessage
<1>6. /\ queue' = <<m>> \o queue \/ queue' = Append(queue, m)
      /\ accepted' = accepted \cup {m.id} /\ task' = [task EXCEPT ![x] = u]
      /\ UNCHANGED <<holder, pause, row, cancelled, gone, starts, faults, scenario>>
  BY <1>1 DEF Enqueue
<1> HIDE DEF u, m
<1>7. queue' \in Seq(QueuedMessage) /\ Ordered(queue') /\ Waiting' = Waiting \cup {r}
  <2>1. queue \in Seq(QueuedMessage) /\ IdsOf(queue) = Waiting /\ IdsOf(queue') = Waiting'
    BY <1>1 DEF TypeOK, QueuedMessage, IdsOf, Waiting
  <2>2. CASE queue' = <<m>> \o queue
    BY <1>1, <1>3, <1>5, <2>1, <2>2, PutFirst
  <2>3. CASE queue' = Append(queue, m)
    BY <1>1, <1>3, <1>5, <2>1, <2>3, PutLast
  <2> QED BY <1>6, <2>2, <2>3
<1>8. task' \in [Tasks -> Task] /\ \A y \in Tasks : task'[y] = IF y = x THEN u ELSE task[y]
  BY <1>1, <1>4, <1>6
<1>9. ~Carrying(u) /\ ~Sending(u) /\ LocalsOK(x, u) /\ u.pc # "idle"
  BY <1>4 DEF Carrying, Sending, LocalsOK
<1>10. TypeOK'
  BY <1>1, <1>2, <1>5, <1>6, <1>7, <1>8 DEF TypeOK, QueuedMessage
<1>11. Locals' /\ Ordered(queue)'
  BY <1>1, <1>7, <1>8, <1>9 DEF Locals, Ordered
<1>12. Waits'
  BY <1>1, <1>3, <1>5, <1>6, <1>7 DEF Waits, Untouched
<1>13. Carried' /\ Apart'
  <2>1. \A y \in Tasks : Carrying(task'[y]) => task'[y] = task[y] /\ task[y].head.id # r
    BY <1>1, <1>3, <1>8, <1>9 DEF Carried
  <2> QED BY <1>1, <1>6, <1>7, <1>8, <2>1 DEF Carried, Apart, Untouched
<1>14. Sent'
  <2> SUFFICES ASSUME NEW q \in Requests,
                      task'[<<"request", q>>].pc = "idle" \/ Sending(task'[<<"request", q>>])
               PROVE  q \notin accepted' /\ starts'[q] = 0
    BY DEF Sent
  <2>1. <<"request", q>> # x /\ task'[<<"request", q>>] = task[<<"request", q>>]
    BY <1>8, <1>9, NameTypes
  <2> QED BY <1>1, <1>2, <1>5, <1>6, <2>1 DEF Sent
<1>15. Unused' /\ History' /\ Born'
  BY <1>1, <1>2, <1>6, <1>8, NameTypes DEF Unused, History, Born
<1>16. NothingLost'
  <2> SUFFICES ASSUME faults = 0, NEW j \in accepted'
               PROVE  j \in Waiting' \/ InHand(j)' \/ starts[j] > 0 \/ j \in gone
    BY <1>6 DEF NothingLost
  <2>1. CASE j = r
    BY <1>7, <2>1
  <2>2. CASE j \in accepted
    <3>1. j \in Waiting \/ InHand(j) \/ starts[j] > 0 \/ j \in gone
      BY <1>1, <2>2 DEF NothingLost
    <3>2. InHand(j) => InHand(j)'
      BY <1>2, <1>8 DEF InHand, Carrying
    <3> QED BY <1>7, <3>1, <3>2
  <2> QED BY <1>5, <1>6, <2>1, <2>2
<1> QED BY <1>10, <1>11, <1>12, <1>13, <1>14, <1>15, <1>16 DEF QueueInv

(* Deleting the message of an id.                                          *)
LEMMA WithoutIds ==
  ASSUME QueueInv, NEW id
  PROVE  /\ Without(id) \in Seq(QueuedMessage) /\ Ordered(Without(id))
         /\ IdsOf(Without(id)) = Waiting \ {id}
<1>1. queue \in Seq(QueuedMessage) /\ Ordered(queue) /\ IdsOf(queue) = Waiting
  BY DEF QueueInv, TypeOK, QueuedMessage, IdsOf, Waiting
<1>2. CASE id \in Waiting
  <2>1. Place(id) \in DOMAIN queue /\ queue[Place(id)].id = id
    BY <1>2 DEF Waiting, Place
  <2> QED BY <1>1, <1>2, <2>1, TakenOut DEF Without
<1>3. CASE id \notin Waiting
  BY <1>1, <1>3 DEF Without
<1> QED BY <1>2, <1>3

(* A client edits the queue: what it takes out of it is gone.              *)
LEMMA EditKeeps ==
  ASSUME QueueInv, NEW x \in Tasks, NEW pc \in {"done", "clearpause", "lift"}, Goto(x, pc),
         UNCHANGED <<holder, pause, row, cancelled, accepted, starts, faults, scenario>>,
         ~Carrying(task[x]), ~Sending(task[x]), task[x].pc # "unclaim",
         x[1] = "turn" => task[x].pc # "idle",
         queue' \in Seq(QueuedMessage), Ordered(queue'),
         NEW lost, lost \subseteq Waiting, IdsOf(queue') = Waiting \ lost, gone' = gone \cup lost
  PROVE  QueueInv'
<1> DEFINE t == task[x]
<1>1. TypeOK /\ TableOK /\ task \in [Tasks -> Task] /\ LocalsOK(x, t)
  BY TableTypes DEF QueueInv, Locals
<1>2. PICK u \in Task : /\ task' = [task EXCEPT ![x] = u] /\ u.pc = pc
                        /\ IF pc = "done" THEN u.back = "done" ELSE SameLocals(t, u)
  BY <1>1, GotoTask DEF Pcs
<1>3. u.back # "start" /\ u.pc \in {"done", "clearpause", "lift"}
  BY <1>1, <1>2 DEF LocalsOK, SameLocals
<1>4. Follows(x, t, u) /\ ~Carrying(u)
  BY <1>3 DEF Follows, LocalsOK, Sending, Carrying
<1>5. TableOK' /\ faults' >= faults
  BY <1>1 DEF TableOK
<1>6. IdsOf(queue') = Waiting \ (lost \cup {}) /\ {} \subseteq Waiting /\ lost \cap {} = {}
  OBVIOUS
<1> QED BY <1>2, <1>4, <1>5, <1>6, Moves

(* The handlers of requests, once a send is in the queue.                  *)
LEMMA CommandKeeps ==
  ASSUME QueueInv, NEW x \in Tasks, UNCHANGED scenario,
         \/ Unpause(x) \/ TakeBack(x) \/ ClearPause(x) \/ MoveToHead(x) \/ LiftPause(x) \/ Peek(x)
         \/ CheckLive(x) \/ CheckWaiting(x)
  PROVE  QueueInv'
<1> DEFINE t == task[x]
<1>1. /\ TypeOK /\ TableOK /\ task \in [Tasks -> Task] /\ t \in Task /\ LocalsOK(x, t)
  BY TableTypes DEF QueueInv, Locals
<1>2. CASE Unpause(x) \/ ClearPause(x) \/ LiftPause(x)
  <2>1. /\ t.pc \in {"unpause", "clearpause", "lift"} /\ (t.pc = "unpause" => t.run \in Ids)
        /\ TableOK' /\ faults' >= faults /\ UNCHANGED <<queue, log, scenario>>
    BY <1>1, <1>2 DEF Unpause, ClearPause, LiftPause, At, TableOK, LocalsOK
  <2>2. ~Carrying(t) /\ ~Sending(t)
    BY <2>1 DEF Carrying, Sending
  <2>3. Goto(x, "done") \/ Goto(x, "peek") \/ (Goto(x, "cancel") /\ t.pc = "unpause")
    BY <1>2 DEF Unpause, ClearPause, LiftPause, At
  <2> QED BY <2>1, <2>2, <2>3, GotoKeeps DEF Pcs
<1>3. CASE TakeBack(x)
  <2> DEFINE lost == Waiting \cap {x[2]}
  <2>1. /\ t.pc = "takeback" /\ queue' = Without(x[2]) /\ gone' = gone \cup lost /\ Goto(x, "done")
        /\ UNCHANGED <<holder, pause, row, cancelled, accepted, starts, faults>>
    BY <1>3 DEF TakeBack, At
  <2>2. ~Carrying(t) /\ ~Sending(t)
    BY <2>1 DEF Carrying, Sending
  <2>3. queue' \in Seq(QueuedMessage) /\ Ordered(queue') /\ IdsOf(queue') = Waiting \ lost
    BY <2>1, WithoutIds
  <2> QED BY <2>1, <2>2, <2>3, EditKeeps
<1>4. CASE MoveToHead(x)
  <2> DEFINE id == t.head.id
  <2>1. t.pc = "move" /\ ~Carrying(t) /\ ~Sending(t)
    BY <1>4 DEF MoveToHead, At, Carrying, Sending
  <2>2. CASE id \in Waiting
    <3>1. /\ queue' = <<queue[Place(id)]>> \o Without(id) /\ Goto(x, "lift")
          /\ UNCHANGED <<holder, pause, row, cancelled, accepted, starts, faults, scenario>> /\ gone' = gone
      BY <1>4, <2>2 DEF MoveToHead, log
    <3>2. Place(id) \in DOMAIN queue /\ queue[Place(id)].id = id
      BY <2>2 DEF Waiting, Place
    <3>3. queue[Place(id)] \in QueuedMessage
      BY <1>1, <3>2, WaitingIds
    <3>4. /\ Without(id) \in Seq(QueuedMessage) /\ Ordered(Without(id))
          /\ IdsOf(Without(id)) = Waiting \ {id}
      BY WithoutIds
    <3>5. /\ queue' \in Seq(QueuedMessage) /\ Ordered(queue')
          /\ IdsOf(queue') = (Waiting \ {id}) \cup {id}
      BY <3>1, <3>2, <3>3, <3>4, PutFirst
    <3> DEFINE lost == {}
    <3>6. IdsOf(queue') = Waiting \ lost /\ gone' = gone \cup lost /\ lost \subseteq Waiting
      BY <2>2, <3>1, <3>5
    <3> HIDE DEF lost
    <3> QED BY <2>1, <3>1, <3>5, <3>6, EditKeeps
  <2>3. CASE id \notin Waiting
    <3>1. Goto(x, "done") /\ UNCHANGED <<queue, log, scenario>> /\ TableOK' /\ faults' >= faults
      BY <1>1, <1>4, <2>3 DEF MoveToHead, TableOK
    <3> QED BY <2>1, <3>1, GotoKeeps DEF Pcs
  <2> QED BY <2>2, <2>3
<1>5. CASE Peek(x)
  <2> DEFINE u == [t EXCEPT !.run = holder, !.pc = "check"]
  <2>1. /\ u \in Task /\ u.pc = "check" /\ u.back = t.back /\ t.pc = "peek"
    BY <1>1, <1>5 DEF TableOK, Task, Pcs, Peek, At
  <2>2. /\ task' = [task EXCEPT ![x] = u] /\ UNCHANGED <<queue, log, scenario>>
        /\ TableOK' /\ faults' >= faults
    BY <1>1, <1>5, TableStill DEF Peek
  <2> HIDE DEF u
  <2>3. Follows(x, t, u) /\ ~Carrying(u) /\ ~Carrying(t)
    BY <1>1, <2>1 DEF Follows, LocalsOK, Sending, Carrying
  <2> QED BY <2>1, <2>2, <2>3, Calm
<1>6. CASE CheckLive(x) \/ CheckWaiting(x)
  <2>1. /\ t.pc \in {"check", "waits"} /\ TableOK' /\ faults' >= faults
        /\ UNCHANGED <<queue, log, scenario>>
    BY <1>1, <1>6 DEF CheckLive, CheckWaiting, At, TableOK, table
  <2>2. ~Carrying(t) /\ ~Sending(t)
    BY <2>1 DEF Carrying, Sending
  <2>3. t.run \in Ids \cup {None} /\ (t.pc = "waits" => t.run \in Ids)
    BY <1>1 DEF Task, LocalsOK
  <2>4. \/ Goto(x, "kick") \/ Goto(x, "done")
        \/ t.run \in Ids /\ (Goto(x, "waits") \/ Goto(x, "cancel"))
    BY <1>6, <2>3 DEF CheckLive, CheckWaiting, At
  <2> QED BY <2>1, <2>2, <2>4, GotoKeeps DEF Pcs
<1> QED BY <1>2, <1>3, <1>4, <1>5, <1>6

(* The runner's cancel, and the kick that looks whether the thread stands  *)
(* still.                                                                  *)
LEMMA CancelKeeps ==
  ASSUME QueueInv, NEW x \in Tasks, UNCHANGED scenario,
         Cancel(x) \/ CancelRecord(x) \/ Kick(x) \/ KickStale(x)
  PROVE  QueueInv'
<1> DEFINE t == task[x]
<1>1. /\ TypeOK /\ TableOK /\ task \in [Tasks -> Task] /\ t \in Task /\ LocalsOK(x, t)
      /\ \A i : \A end \in Ends : Recorded(i, end) \in [Ids -> Ends \cup {"none"}]
  BY TableTypes DEF QueueInv, Locals
<1>2. /\ t.pc \in {"cancel", "record", "kick", "stale"} /\ (t.pc = "cancel" => t.run \in Ids)
  BY <1>1 DEF Cancel, CancelRecord, Kick, KickStale, At, LocalsOK
<1>3. ~Carrying(t) /\ ~Sending(t) /\ t.back # "start"
  BY <1>1, <1>2 DEF Carrying, Sending, LocalsOK
<1>4. TableOK' /\ faults' >= faults /\ UNCHANGED <<queue, log, scenario>>
  <2>1. CASE Cancel(x)
    BY <1>1, <1>2, <2>1 DEF Cancel, At, TableOK, table
  <2>2. CASE CancelRecord(x)
    <3>1. row' = Recorded(t.run, "cancelled") /\ cancelled' \subseteq cancelled
          /\ UNCHANGED <<table, log, faults>>
      BY <2>2 DEF CancelRecord
    <3>2. row' \in [Ids -> Ends \cup {"none"}]
      BY <1>1, <3>1 DEF Ends
    <3>3. UNCHANGED <<holder, queue, pause, log, faults>>
      BY <3>1 DEF table
    <3> QED BY <1>1, <3>1, <3>2, <3>3 DEF TableOK
  <2>3. CASE Kick(x) \/ KickStale(x)
    BY <1>1, <2>3, TableStill DEF Kick, KickStale
  <2> QED BY <2>1, <2>2, <2>3
<1>5. CASE Cancel(x)
  <2>1. Goto(x, "record") /\ t.run \in Ids
    BY <1>2, <1>5 DEF Cancel, At
  <2> QED BY <1>2, <1>3, <1>4, <2>1, GotoKeeps DEF Pcs
<1>6. ASSUME NEW u \in Task, task' = [task EXCEPT ![x] = u], u.pc \in {"guard", "stale"}, u.back # "start"
      PROVE  QueueInv'
  <2>1. Follows(x, t, u) /\ ~Carrying(u)
    BY <1>2, <1>6 DEF Follows, LocalsOK, Sending, Carrying
  <2> QED BY <1>3, <1>4, <1>6, <2>1, Calm
<1>7. CASE CancelRecord(x)
  <2> DEFINE u == [t EXCEPT !.pc = "guard", !.outcome = "cancelled", !.back = "free"]
  <2>1. u \in Task /\ u.pc = "guard" /\ u.back = "free"
    <3>1. "guard" \in Pcs /\ "cancelled" \in Ends
      BY DEF Pcs, Ends
    <3> QED BY <1>1, <3>1 DEF Task
  <2>2. task' = [task EXCEPT ![x] = u] \/ Goto(x, "done")
    BY <1>1, <1>7 DEF CancelRecord
  <2> HIDE DEF u
  <2> QED BY <1>2, <1>3, <1>4, <1>6, <2>1, <2>2, GotoKeeps DEF Pcs
<1>8. CASE Kick(x)
  <2> DEFINE u == [t EXCEPT !.run = holder, !.pc = "stale"]
  <2>1. u \in Task /\ u.pc = "stale" /\ u.back = t.back
    BY <1>1 DEF TableOK, Task, Pcs
  <2>2. task' = [task EXCEPT ![x] = u]
    BY <1>1, <1>8 DEF Kick
  <2> HIDE DEF u
  <2> QED BY <1>3, <1>6, <2>1, <2>2
<1>9. CASE KickStale(x)
  <2>1. Return(x) \/ Goto(x, "guard")
    BY <1>9 DEF KickStale
  <2> QED BY <1>2, <1>3, <1>4, <2>1, GotoKeeps, ReturnKeeps DEF Pcs
<1> QED BY <1>5, <1>7, <1>8, <1>9

(* A drain as it plans: the queue is read, the pause is kept or raised,    *)
(* the thread let go or claimed.                                           *)
LEMMA PlanKeeps ==
  ASSUME QueueInv, NEW x \in Tasks, UNCHANGED scenario,
         \/ PlanGuard(x) \/ ListQueue(x) \/ ReleaseAndRetry(x) \/ QueuePause(x) \/ SetQueuePause(x)
         \/ Park(x)
  PROVE  QueueInv'
<1> DEFINE t == task[x]
<1>1. /\ TypeOK /\ TableOK /\ task \in [Tasks -> Task] /\ t \in Task /\ LocalsOK(x, t)
      /\ \A i : Released(i) \in Ids \cup {None}
  BY TableTypes DEF QueueInv, Locals
<1>2. t.pc \in {"guard", "list", "release", "pause", "setpause", "park"}
  BY DEF PlanGuard, ListQueue, ReleaseAndRetry, QueuePause, SetQueuePause, Park, At
<1>3. ~Carrying(t) /\ ~Sending(t) /\ t.back # "start"
  BY <1>1, <1>2 DEF Carrying, Sending, LocalsOK
<1>4. TableOK' /\ faults' >= faults /\ UNCHANGED <<queue, log, scenario>>
  <2>1. CASE PlanGuard(x) \/ ListQueue(x) \/ QueuePause(x)
    BY <1>1, <2>1, TableStill DEF PlanGuard, ListQueue, QueuePause
  <2>2. CASE SetQueuePause(x)
    BY <1>1, <2>2 DEF SetQueuePause, TableOK, Task
  <2>3. CASE ReleaseAndRetry(x) \/ Park(x)
    BY <1>1, <2>3 DEF ReleaseAndRetry, Park, TableOK
  <2> QED BY <2>1, <2>2, <2>3
<1>5. ASSUME NEW u \in Task, task' = [task EXCEPT ![x] = u],
             u.pc \in {"list", "pause", "park", "setpause", "claim"}, u.back = t.back,
             u.pc \in {"pause", "claim"} => u.head.id \in Ids
      PROVE  QueueInv'
  <2>1. Follows(x, t, u) /\ ~Carrying(u)
    BY <1>2, <1>3, <1>5 DEF Follows, LocalsOK, Sending, Carrying
  <2> QED BY <1>3, <1>4, <1>5, <2>1, Calm
<1>6. CASE PlanGuard(x)
  <2> DEFINE u == [t EXCEPT !.pc = "list", !.holding = t.run, !.tries = 0]
  <2>1. u \in Task /\ u.pc = "list" /\ u.back = t.back
    BY <1>1 DEF Task, Pcs
  <2>2. Return(x) \/ task' = [task EXCEPT ![x] = u]
    BY <1>1, <1>6 DEF PlanGuard
  <2> HIDE DEF u
  <2> QED BY <1>2, <1>3, <1>4, <1>5, <2>1, <2>2, ReturnKeeps
<1>7. CASE ListQueue(x)
  <2>1. CASE Return(x) \/ Goto(x, "release")
    BY <1>2, <1>3, <1>4, <2>1, GotoKeeps, ReturnKeeps DEF Pcs
  <2>2. CASE queue # <<>> /\ task' = [task EXCEPT ![x].pc = "pause", ![x].head = Head(queue)]
    <3> DEFINE u == [t EXCEPT !.pc = "pause", !.head = Head(queue)]
    <3>1. Head(queue) \in QueuedMessage
      BY <1>1, <2>2, WaitingIds
    <3>2. u \in Task /\ u.pc = "pause" /\ u.back = t.back /\ u.head.id \in Ids
      BY <1>1, <3>1 DEF Task, Pcs, Message, QueuedMessage
    <3>3. task' = [task EXCEPT ![x] = u]
      BY <1>1, <2>2
    <3> HIDE DEF u
    <3> QED BY <1>5, <3>2, <3>3
  <2> QED BY <1>7, <2>1, <2>2 DEF ListQueue
<1>8. CASE ReleaseAndRetry(x)
  <2> DEFINE u == [t EXCEPT !.holding = None, !.head = NoMessage, !.tries = t.tries + 1, !.pc = "list"]
  <2>1. u \in Task /\ u.pc = "list" /\ u.back = t.back
    <3>1. "list" \in Pcs /\ NoMessage \in Message /\ t.tries + 1 \in Nat
      BY <1>1 DEF Pcs, Message, NoMessage, Task
    <3> QED BY <1>1, <3>1 DEF Task
  <2>2. task' = [task EXCEPT ![x] = u]
    BY <1>1, <1>8 DEF ReleaseAndRetry
  <2> HIDE DEF u
  <2> QED BY <1>5, <2>1, <2>2
<1>9. CASE QueuePause(x)
  <2>1. PICK reason \in Reasons \cup {"none"}, pc \in {"park", "setpause", "claim"} :
          task' = [task EXCEPT ![x].reason = reason, ![x].pc = pc]
    BY <1>9 DEF QueuePause, PauseReason, Reasons
  <2> DEFINE u == [t EXCEPT !.reason = reason, !.pc = pc]
  <2>2. t.pc = "pause" /\ t.head.id \in Ids
    BY <1>1, <1>9 DEF QueuePause, At, LocalsOK
  <2>3. u \in Task /\ u.pc = pc /\ u.back = t.back /\ u.head = t.head
    <3>1. pc \in Pcs
      BY <2>1 DEF Pcs
    <3> QED BY <1>1, <2>1, <3>1 DEF Task
  <2>4. task' = [task EXCEPT ![x] = u]
    BY <1>1, <2>1
  <2> HIDE DEF u
  <2> QED BY <1>5, <2>1, <2>2, <2>3, <2>4
<1>10. CASE SetQueuePause(x) \/ Park(x)
  <2>1. Goto(x, "park") \/ Return(x)
    BY <1>10 DEF SetQueuePause, Park
  <2> QED BY <1>2, <1>3, <1>4, <2>1, GotoKeeps, ReturnKeeps DEF Pcs
<1> QED BY <1>6, <1>7, <1>8, <1>9, <1>10

(* The drain that takes a message out of the queue has it in hand; one     *)
(* that comes too late has nothing.                                        *)
LEMMA PopKeeps ==
  ASSUME QueueInv, NEW x \in Tasks, UNCHANGED scenario, Pop(x) \/ Launch(x)
  PROVE  QueueInv'
<1> DEFINE t == task[x]
           id == t.head.id
<1>1. /\ TypeOK /\ TableOK /\ task \in [Tasks -> Task] /\ t \in Task /\ LocalsOK(x, t)
  BY TableTypes DEF QueueInv, Locals
<1>2. t.pc \in {"pop", "input"} /\ id \in Ids /\ t.back # "start" /\ ~Sending(t)
  BY <1>1 DEF Pop, Launch, At, LocalsOK, Sending
<1>3. TableOK' /\ faults' >= faults /\ UNCHANGED <<accepted, starts, scenario>> /\ gone' = gone
  BY <1>1 DEF Pop, Launch, TableOK, table, log
<1>4. CASE Pop(x)
  <2> DEFINE pc == IF id \in Waiting THEN "input" ELSE "release"
             u == [t EXCEPT !.holding = id, !.pc = pc]
             taken == Waiting \cap {id}
  <2>1. t.pc = "pop" /\ queue' = Without(id) /\ task' = [task EXCEPT ![x] = u]
    BY <1>1, <1>4 DEF Pop, At
  <2>2. u \in Task /\ u.pc = pc /\ u.head = t.head /\ u.back = t.back
    BY ZenonT(90), <1>1, <1>2 DEF Task, Pcs
  <2> HIDE DEF u
  <2>3. Follows(x, t, u) /\ ~Carrying(t) /\ (Carrying(u) <=> id \in Waiting)
    BY <1>1, <1>2, <2>1, <2>2 DEF Follows, LocalsOK, Sending, Carrying
  <2>4. queue' \in Seq(QueuedMessage) /\ Ordered(queue') /\ IdsOf(queue') = Waiting \ ({} \cup taken)
    BY <2>1, WithoutIds
  <2>5. /\ {} \subseteq Waiting /\ taken \subseteq Waiting /\ {} \cap taken = {} /\ gone' = gone \cup {}
        /\ Carrying(u) => u.head.id \in taken
        /\ \A i \in taken : Carrying(u) /\ u.head.id = i
    BY <1>3, <2>2, <2>3
  <2> QED BY <1>3, <2>1, <2>2, <2>3, <2>4, <2>5, Moves
<1>5. CASE Launch(x)
  <2>1. PICK u \in Task : task' = [task EXCEPT ![x] = u] /\ u.pc = "set" /\ SameLocals(t, u)
    BY <1>1, <1>5, GotoTask DEF Launch, Pcs
  <2>2. u.head = t.head /\ u.back = t.back /\ t.pc = "input"
    BY <1>5, <2>1 DEF SameLocals, Launch, At
  <2>3. Follows(x, t, u) /\ Carrying(u) /\ Carrying(t)
    BY <1>2, <2>1, <2>2 DEF Follows, LocalsOK, Sending, Carrying
  <2>4. UNCHANGED <<queue, log, scenario>>
    BY <1>5 DEF Launch, table
  <2> QED BY <1>3, <2>1, <2>2, <2>3, <2>4, Calm
<1> QED BY <1>4, <1>5

(* Launching what the drain has in hand, and, where it does not start, the *)
(* rest of giving it back.                                                 *)
LEMMA LaunchKeeps ==
  ASSUME QueueInv, NEW x \in Tasks, UNCHANGED scenario,
         LaunchStart(x) \/ RestorePause(x) \/ RestoreRelease(x) \/ ReleaseThreadRun(x)
  PROVE  QueueInv'
<1> DEFINE t == task[x]
           i == t.head.id
<1>1. /\ TypeOK /\ TableOK /\ task \in [Tasks -> Task] /\ t \in Task /\ LocalsOK(x, t)
      /\ \A j : Released(j) \in Ids \cup {None}
  BY TableTypes DEF QueueInv, Locals
<1>2. /\ t.pc \in {"set", "repause", "rerelease", "free"} /\ t.back # "start" /\ ~Sending(t)
      /\ (t.pc = "set" => Carrying(t) /\ i \in Ids)
  BY <1>1 DEF LaunchStart, RestorePause, RestoreRelease, ReleaseThreadRun, At, LocalsOK, Sending, Carrying
<1>3. CASE LaunchStart(x)
  <2>1. t.pc = "set" /\ Carrying(t) /\ i \in Ids
    BY <1>2, <1>3 DEF LaunchStart, At
  <2>2. CASE RunnerStart(x, i) /\ task' = [task EXCEPT ![x] = Returned(x), ![<<"turn", i>>] = Begun(i)]
    <3>1. /\ Returned(x) \in Task /\ Returned(x).pc \in {"done", "free", "takeback"}
          /\ Returned(x).back # "start"
      BY <1>1, <1>2, ReturnedTask
    <3>2. Follows(x, t, Returned(x)) /\ ~Carrying(Returned(x)) /\ ~Sending(Returned(x))
      BY <2>1, <3>1 DEF Follows, LocalsOK, Sending, Carrying
    <3> QED BY <2>1, <2>2, <3>1, <3>2, StartKeeps
  <2>3. CASE StartFails /\ Goto(x, "restore") /\ UNCHANGED <<table, row, cancelled, log>>
    <3>1. PICK u \in Task : task' = [task EXCEPT ![x] = u] /\ u.pc = "restore" /\ SameLocals(t, u)
      BY <1>1, <2>3, GotoTask DEF Pcs
    <3>2. u.head = t.head /\ u.back = t.back
      BY <3>1 DEF SameLocals
    <3>3. Follows(x, t, u) /\ Carrying(u)
      BY <1>2, <2>1, <3>1, <3>2 DEF Follows, LocalsOK, Sending, Carrying
    <3>4. TableOK' /\ faults' >= faults /\ UNCHANGED <<queue, log, scenario>>
      BY <1>1, <2>3 DEF StartFails, Fault, TableOK, table
    <3> QED BY <2>1, <3>1, <3>2, <3>3, <3>4, Calm
  <2> QED BY <1>3, <2>2, <2>3 DEF LaunchStart
<1>4. CASE RestorePause(x) \/ RestoreRelease(x) \/ ReleaseThreadRun(x)
  <2>1. t.pc \in {"repause", "rerelease", "free"} /\ ~Carrying(t)
    BY <1>4 DEF RestorePause, RestoreRelease, ReleaseThreadRun, At, Carrying
  <2>2. TableOK' /\ faults' >= faults /\ UNCHANGED <<queue, log, scenario>>
    <3>1. /\ holder' \in Ids \cup {None} /\ pause' \in Reasons \cup {"none"} /\ cancelled' \subseteq Ids
          /\ UNCHANGED <<queue, row, log, faults>>
      BY <1>1, <1>4 DEF RestorePause, RestoreRelease, ReleaseThreadRun, TableOK, Reasons
    <3> QED BY <1>1, <3>1 DEF TableOK
  <2>3. Goto(x, "rerelease") \/ Return(x) \/ Goto(x, "done")
    BY <1>4 DEF RestorePause, RestoreRelease, ReleaseThreadRun
  <2> QED BY <1>2, <2>1, <2>2, <2>3, GotoKeeps, ReturnKeeps DEF Pcs
<1> QED BY <1>3, <1>4

(* Putting the message back under an id nothing has used.                  *)
LEMMA RestoreKeeps ==
  ASSUME QueueInv, NEW x \in Tasks, RestoreMessage(x), UNCHANGED scenario
  PROVE  QueueInv'
<1> DEFINE t == task[x]
           old == t.head.id
<1>1. /\ TypeOK /\ Locals /\ Waits /\ Carried /\ Apart /\ Sent /\ Unused /\ History /\ Born /\ NothingLost
      /\ task \in [Tasks -> Task] /\ Ordered(queue) /\ t \in Task /\ LocalsOK(x, t) /\ t.pc = "restore"
  BY DEF QueueInv, TypeOK, RestoreMessage, At, Locals
<1>2. /\ Carrying(t) /\ old \in Ids /\ starts[old] = 0 /\ old \in accepted /\ old \notin Waiting
      /\ t.back # "start"
  BY <1>1 DEF Carrying, Carried, Untouched, LocalsOK, Sending
<1>3. PICK i \in Fresh : /\ queue' = <<[id |-> i, interrupt |-> FALSE]>> \o queue
                         /\ accepted' = accepted \cup {i}
  BY DEF RestoreMessage
<1>4. gone' = gone \cup {old} /\ UNCHANGED <<holder, pause, row, cancelled, starts, faults, scenario>>
  BY DEF RestoreMessage
<1>5. /\ i \in Spare /\ i \in Ids /\ i \notin accepted /\ starts[i] = 0 /\ i \notin Waiting /\ i \notin gone
      /\ i \notin Requests
  BY <1>1, QueueAssumption DEF Fresh, Ids, Unused, Waits, History, QueueAssumption
<1>6. queue' \in Seq(QueuedMessage) /\ Ordered(queue') /\ Waiting' = Waiting \cup {i}
  <2> DEFINE m == [id |-> i, interrupt |-> FALSE]
  <2>1. m \in QueuedMessage /\ m.id = i
    BY <1>5 DEF QueuedMessage
  <2>2. IdsOf(queue') = Waiting'
    BY DEF IdsOf, Waiting
  <2> HIDE DEF m
  <2>3. queue' = <<m>> \o queue
    BY <1>3 DEF m
  <2> QED BY <1>1, <1>5, <2>1, <2>2, <2>3, PutFirst, WaitingIds
<1>7. PICK u \in Task : task' = [task EXCEPT ![x] = u] /\ u.pc = "repause" /\ SameLocals(t, u)
  BY <1>1, GotoTask DEF RestoreMessage, Pcs
<1>8. /\ u.back # "start" /\ task' \in [Tasks -> Task]
      /\ \A y \in Tasks : task'[y] = IF y = x THEN u ELSE task[y]
  BY <1>1, <1>2, <1>7 DEF SameLocals
<1>9. ~Carrying(u) /\ ~Sending(u) /\ LocalsOK(x, u) /\ u.pc # "idle"
  BY <1>7, <1>8 DEF Carrying, Sending, LocalsOK
<1>10. TypeOK'
  BY <1>1, <1>2, <1>3, <1>4, <1>5, <1>6, <1>8 DEF TypeOK, QueuedMessage
<1>11. Locals' /\ Ordered(queue)'
  BY <1>1, <1>6, <1>8, <1>9 DEF Locals, Ordered
<1>12. Waits'
  BY <1>1, <1>2, <1>3, <1>4, <1>5, <1>6 DEF Waits, Untouched
<1>13. Carried' /\ Apart'
  <2>1. \A y \in Tasks : Carrying(task'[y]) =>
          /\ task'[y] = task[y] /\ Carrying(task[y]) /\ task[y].head.id # i /\ task[y].head.id # old
    BY <1>1, <1>2, <1>5, <1>8, <1>9 DEF Carried, Apart
  <2> QED BY <1>1, <1>3, <1>4, <1>6, <2>1 DEF Carried, Apart, Untouched
<1>14. Sent'
  <2> SUFFICES ASSUME NEW q \in Requests,
                      task'[<<"request", q>>].pc = "idle" \/ Sending(task'[<<"request", q>>])
               PROVE  q \notin accepted' /\ starts'[q] = 0
    BY DEF Sent
  <2>1. task'[<<"request", q>>] = task[<<"request", q>>]
    BY <1>8, <1>9, NameTypes
  <2> QED BY <1>1, <1>3, <1>4, <1>5, <2>1 DEF Sent
<1>15. Unused' /\ History'
  BY <1>1, <1>2, <1>3, <1>4, <1>5 DEF Unused, History
<1>16. Born'
  <2> SUFFICES ASSUME NEW j \in Ids, task'[<<"turn", j>>].pc # "idle" PROVE starts[j] > 0
    BY <1>4 DEF Born
  <2>1. task[<<"turn", j>>].pc # "idle"
    BY <1>1, <1>8, NameTypes
  <2> QED BY <1>1, <2>1 DEF Born
<1>17. NothingLost'
  <2> SUFFICES ASSUME faults = 0, NEW j \in accepted'
               PROVE  j \in Waiting' \/ InHand(j)' \/ starts[j] > 0 \/ j \in gone'
    BY <1>4 DEF NothingLost
  <2>1. CASE j \in {i, old}
    BY <1>4, <1>6, <2>1
  <2>2. CASE j \in accepted /\ j # old
    <3>1. j \in Waiting \/ InHand(j) \/ starts[j] > 0 \/ j \in gone
      BY <1>1, <2>2 DEF NothingLost
    <3>2. CASE InHand(j)
      <4>1. PICK y \in Tasks : task[y].head.id = j /\ Carrying(task[y])
        BY <3>2 DEF InHand, Carrying
      <4>2. y # x /\ task'[y].head.id = j /\ Carrying(task'[y])
        BY <1>8, <2>2, <4>1
      <4> QED BY <4>2 DEF InHand, Carrying
    <3> QED BY <1>4, <1>6, <3>1, <3>2
  <2> QED BY <1>3, <2>1, <2>2
<1> QED BY <1>10, <1>11, <1>12, <1>13, <1>14, <1>15, <1>16, <1>17 DEF QueueInv

(* A turn runs and ends: the messages of the thread are not its affair.    *)
LEMMA TurnKeeps ==
  ASSUME QueueInv, NEW x \in Tasks, UNCHANGED scenario, Turn(x)
  PROVE  QueueInv'
<1> DEFINE t == task[x]
<1>1. /\ TypeOK /\ TableOK /\ task \in [Tasks -> Task] /\ t \in Task /\ LocalsOK(x, t)
      /\ \A i : \A end \in Ends : Recorded(i, end) \in [Ids -> Ends \cup {"none"}]
  BY TableTypes DEF QueueInv, Locals
<1>2. t.pc \in {"running", "ended"}
  BY DEF Turn, TurnCompletes, SettleQueue, TurnFails, TurnStops, At
<1>3. ~Carrying(t) /\ ~Sending(t) /\ t.back # "start"
  BY <1>1, <1>2 DEF Carrying, Sending, LocalsOK
<1>4. TableOK' /\ faults' >= faults /\ UNCHANGED <<queue, log, scenario>>
  <2>1. CASE TurnCompletes(x) \/ TurnFails(x)
    <3>1. row' \in [Ids -> Ends \cup {"none"}]
      BY <1>1, <2>1 DEF TurnCompletes, TurnFails, Ends
    <3>2. UNCHANGED <<holder, queue, pause, cancelled, log, faults>>
      BY <2>1 DEF TurnCompletes, TurnFails, table
    <3> QED BY <1>1, <3>1, <3>2 DEF TableOK
  <2>2. CASE SettleQueue(x)
    BY <1>1, <2>2, TableStill DEF SettleQueue
  <2>3. CASE TurnStops(x)
    <3>1. cancelled' \subseteq cancelled /\ UNCHANGED <<holder, queue, pause, row, log, faults>>
      BY <2>3 DEF TurnStops, table
    <3> QED BY <1>1, <3>1 DEF TableOK
  <2> QED BY <2>1, <2>2, <2>3 DEF Turn
<1>5. CASE TurnCompletes(x) \/ TurnStops(x)
  <2>1. Goto(x, "ended") \/ Goto(x, "done")
    BY <1>5 DEF TurnCompletes, TurnStops
  <2> QED BY <1>2, <1>3, <1>4, <2>1, GotoKeeps DEF Pcs
<1>6. CASE SettleQueue(x) \/ TurnFails(x)
  <2>1. PICK end \in Ends : task' = [task EXCEPT ![x].pc = "guard", ![x].outcome = end]
    BY <1>6 DEF SettleQueue, TurnFails, Ends
  <2> DEFINE u == [t EXCEPT !.pc = "guard", !.outcome = end]
  <2>2. u \in Task /\ u.pc = "guard" /\ u.back = t.back
    <3>1. "guard" \in Pcs
      BY DEF Pcs
    <3> QED BY <1>1, <3>1 DEF Task
  <2>3. task' = [task EXCEPT ![x] = u]
    BY <1>1, <2>1
  <2> HIDE DEF u
  <2>4. Follows(x, t, u) /\ ~Carrying(u)
    BY <1>2, <1>3, <2>2 DEF Follows, LocalsOK, Sending, Carrying
  <2> QED BY <1>3, <1>4, <2>2, <2>3, <2>4, Calm
<1> QED BY <1>5, <1>6 DEF Turn

(* What clients ask.                                                       *)
LEMMA AskKeeps ==
  ASSUME QueueInv, NEW r \in Requests, UNCHANGED scenario, SendTurn(r) \/ ResumeQueue(r) \/ StopRun(r)
  PROVE  QueueInv'
<1> DEFINE x == <<"request", r>>
           t == task[x]
<1>1. /\ TypeOK /\ TableOK /\ task \in [Tasks -> Task] /\ x \in Tasks /\ x[1] = "request" /\ x[2] = r
      /\ t \in Task /\ LocalsOK(x, t) /\ t.pc = "idle" /\ r \in Ids
  BY TableTypes, NameTypes DEF QueueInv, Locals, SendTurn, ResumeQueue, StopRun, Arrives, At, Ids
<1> HIDE DEF x
<1>2. ~Carrying(t) /\ ~Sending(t) /\ t.back # "start"
  BY <1>1 DEF Carrying, Sending, LocalsOK
<1>3. CASE SendTurn(r)
  <2> DEFINE m == [id |-> r, interrupt |-> FALSE]
             u == [Unborn EXCEPT !.pc = "look", !.back = "start", !.head = m]
  <2>1. /\ task' = [task EXCEPT ![x] = u] /\ TableOK' /\ faults' >= faults
        /\ UNCHANGED <<queue, log, scenario>>
    BY <1>1, <1>3, TableStill DEF SendTurn, x
  <2>2. m \in Message /\ m.id = r
    BY <1>1 DEF Message
  <2>3. u \in Task /\ u.pc = "look" /\ u.back = "start" /\ u.head.id = r
    <3>1. "look" \in Pcs
      BY DEF Pcs
    <3> HIDE DEF m
    <3> QED BY <2>2, <3>1, UnbornType DEF Task
  <2> HIDE DEF u
  <2>4. Follows(x, t, u) /\ ~Carrying(u)
    BY <1>1, <2>3 DEF Follows, LocalsOK, Sending, Carrying
  <2> QED BY <1>1, <1>2, <2>1, <2>3, <2>4, Calm
<1>4. CASE ResumeQueue(r)
  <2>1. Goto(x, "kick") /\ TableOK' /\ faults' >= faults /\ UNCHANGED <<queue, log, scenario>>
    BY <1>1, <1>4 DEF ResumeQueue, TableOK, x
  <2> QED BY <1>1, <1>2, <2>1, GotoKeeps DEF Pcs
<1>5. CASE StopRun(r)
  <2>1. PICK i \in Ids : task' = [task EXCEPT ![x].pc = "cancel", ![x].run = i]
    BY <1>5 DEF StopRun, x
  <2> DEFINE u == [t EXCEPT !.pc = "cancel", !.run = i]
  <2>2. u \in Task /\ u.pc = "cancel" /\ u.run \in Ids /\ u.back = t.back
    <3>1. "cancel" \in Pcs
      BY DEF Pcs
    <3> QED BY <1>1, <3>1 DEF Task
  <2>3. task' = [task EXCEPT ![x] = u]
    BY <1>1, <2>1
  <2>4. TableOK' /\ faults' >= faults /\ UNCHANGED <<queue, log, scenario>>
    BY <1>1, <1>5, TableStill DEF StopRun
  <2> HIDE DEF u
  <2>5. Follows(x, t, u) /\ ~Carrying(u)
    BY <1>1, <1>2, <2>2 DEF Follows, LocalsOK, Sending, Carrying
  <2> QED BY <1>1, <1>2, <2>2, <2>3, <2>4, <2>5, Calm
<1> QED BY <1>3, <1>4, <1>5

LEMMA QueueRequestKeeps ==
  ASSUME QueueInv, NEW r \in Requests, UNCHANGED scenario,
         RemoveQueuedMessage(r) \/ MoveQueuedMessage(r) \/ ClearQueue(r) \/ InterruptQueuedMessage(r)
  PROVE  QueueInv'
<1> DEFINE x == <<"request", r>>
           t == task[x]
<1>1. /\ TypeOK /\ TableOK /\ task \in [Tasks -> Task] /\ x \in Tasks /\ x[1] = "request"
      /\ t \in Task /\ LocalsOK(x, t) /\ t.pc = "idle" /\ Ordered(queue)
      /\ queue \in Seq(QueuedMessage) /\ IdsOf(queue) = Waiting /\ Waiting \subseteq Ids
      /\ \A n \in DOMAIN queue : queue[n] \in QueuedMessage /\ queue[n].id \in Waiting
  BY TableTypes, NameTypes, WaitingIds
     DEF QueueInv, Locals, RemoveQueuedMessage, MoveQueuedMessage, ClearQueue, InterruptQueuedMessage, Arrives, At
<1>2. ~Carrying(t) /\ ~Sending(t) /\ t.back # "start"
  BY <1>1 DEF Carrying, Sending, LocalsOK
<1>3. CASE RemoveQueuedMessage(r)
  <2>1. PICK id \in Waiting : queue' = Without(id) /\ gone' = gone \cup {id}
    BY <1>3 DEF RemoveQueuedMessage
  <2>2. Goto(x, "done") /\ UNCHANGED <<holder, pause, row, cancelled, accepted, starts, faults>>
    BY <1>3 DEF RemoveQueuedMessage
  <2> DEFINE lost == {id}
  <2>3. /\ queue' \in Seq(QueuedMessage) /\ Ordered(queue') /\ IdsOf(queue') = Waiting \ lost
        /\ lost \subseteq Waiting /\ gone' = gone \cup lost
    BY <2>1, WithoutIds
  <2> HIDE DEF x, lost
  <2> QED BY <1>1, <1>2, <2>2, <2>3, EditKeeps
<1>4. CASE MoveQueuedMessage(r)
  <2>1. PICK n \in DOMAIN queue, index \in 0 .. Len(queue) - 1 :
          queue' = InsertAt(RemoveAt(queue, n), index + 1, queue[n])
    BY <1>4 DEF MoveQueuedMessage
  <2>2. /\ Goto(x, "done") /\ gone' = gone
        /\ UNCHANGED <<holder, pause, row, cancelled, accepted, starts, faults>>
    BY <1>4 DEF MoveQueuedMessage, log
  <2> DEFINE q == RemoveAt(queue, n)
             lost == {}
  <2>3. q \in Seq(QueuedMessage) /\ Ordered(q) /\ IdsOf(q) = Waiting \ {queue[n].id}
    BY <1>1, TakenOut
  <2>4. index + 1 \in 1 .. Len(q) + 1
    <3>1. Len(q) = Len(queue) - 1
      BY <1>1, TakenOut
    <3> HIDE DEF q
    <3> QED BY <1>1, <3>1
  <2>5. queue[n] \in QueuedMessage /\ queue[n].id \notin IdsOf(q) /\ queue[n].id \in Waiting
    BY <1>1, <2>3
  <2> HIDE DEF q
  <2>6. /\ queue' \in Seq(QueuedMessage) /\ Ordered(queue')
        /\ IdsOf(queue') = (Waiting \ {queue[n].id}) \cup {queue[n].id}
    BY <2>1, <2>3, <2>4, <2>5, PutIn DEF q
  <2>7. IdsOf(queue') = Waiting \ lost /\ lost \subseteq Waiting /\ gone' = gone \cup lost
    BY <2>2, <2>5, <2>6
  <2> HIDE DEF x, lost
  <2> QED BY <1>1, <1>2, <2>2, <2>6, <2>7, EditKeeps
<1>5. CASE ClearQueue(r)
  <2>1. /\ Goto(x, "clearpause") /\ queue' = <<>> /\ gone' = gone \cup Waiting
        /\ UNCHANGED <<holder, pause, row, cancelled, accepted, starts, faults>>
    BY <1>5 DEF ClearQueue
  <2>2. queue' \in Seq(QueuedMessage) /\ Ordered(queue') /\ IdsOf(queue') = Waiting \ Waiting
    BY <2>1 DEF Ordered, IdsOf
  <2> HIDE DEF x
  <2> QED BY <1>1, <1>2, <2>1, <2>2, EditKeeps
<1>6. CASE InterruptQueuedMessage(r)
  <2>1. PICK n \in DOMAIN queue :
          /\ queue' = [queue EXCEPT ![n].interrupt = TRUE]
          /\ task' = [task EXCEPT ![x].pc = "move", ![x].head = queue'[n]]
    BY <1>6 DEF InterruptQueuedMessage
  <2> DEFINE m == [queue[n] EXCEPT !.interrupt = TRUE]
             u == [t EXCEPT !.pc = "move", !.head = queue'[n]]
  <2>2. m \in QueuedMessage /\ m.id = queue[n].id
    BY <1>1 DEF QueuedMessage
  <2>3. queue' = [queue EXCEPT ![n] = m]
    BY <1>1, <2>1
  <2> HIDE DEF m
  <2>4. /\ queue' \in Seq(QueuedMessage) /\ DOMAIN queue' = DOMAIN queue
        /\ \A k \in DOMAIN queue : queue'[k] = IF k = n THEN m ELSE queue[k]
    BY <1>1, <2>2, <2>3
  <2>5. \A k \in DOMAIN queue : queue'[k].id = queue[k].id
    BY <2>2, <2>4
  <2>6. Ordered(queue') /\ IdsOf(queue') = IdsOf(queue)
    <3>1. Ordered(queue')
      <4>1. \A k, l \in DOMAIN queue : queue[k].id = queue[l].id => k = l
        BY <1>1 DEF Ordered
      <4> QED BY <2>4, <2>5, <4>1 DEF Ordered
    <3>2. IdsOf(queue') = IdsOf(queue)
      BY <2>4, <2>5, Zenon DEF IdsOf
    <3> QED BY <3>1, <3>2
  <2>7. u \in Task /\ u.pc = "move" /\ u.back = t.back
    <3>1. "move" \in Pcs /\ queue'[n] \in Message
      BY <2>2, <2>4 DEF Pcs, Message, QueuedMessage
    <3> QED BY <1>1, <3>1 DEF Task
  <2>8. task' = [task EXCEPT ![x] = u]
    BY <1>1, <2>1
  <2> HIDE DEF u, x
  <2>9. Follows(x, t, u) /\ ~Carrying(u)
    BY <1>1, <1>2, <2>7 DEF Follows, LocalsOK, Sending, Carrying
  <2>10. /\ UNCHANGED <<holder, pause, row, cancelled, accepted, gone, starts, faults>>
         /\ TableOK' /\ faults' >= faults
    BY <1>1, <1>6 DEF InterruptQueuedMessage, TableOK, log
  <2> DEFINE lost == {}
             taken == {}
  <2>11. /\ lost \subseteq Waiting /\ taken \subseteq Waiting /\ lost \cap taken = {} /\ gone' = gone \cup lost
         /\ IdsOf(queue') = Waiting \ (lost \cup taken) /\ \A i \in taken : Carrying(u) /\ u.head.id = i
    BY <1>1, <2>6, <2>10
  <2> HIDE DEF lost, taken
  <2> QED BY <1>1, <1>2, <2>4, <2>6, <2>7, <2>8, <2>9, <2>10, <2>11, Moves
<1> QED BY <1>3, <1>4, <1>5, <1>6

(* A crash forgets who had what in hand; nothing is promised after it but  *)
(* that it is not started twice.                                           *)
LEMMA CrashKeeps ==
  ASSUME QueueInv, Crash, UNCHANGED scenario
  PROVE  QueueInv'
<1>1. /\ TypeOK /\ Locals /\ Waits /\ Carried /\ Apart /\ Sent /\ Unused /\ History /\ Born
      /\ task \in [Tasks -> Task] /\ Ordered(queue)
  BY DEF QueueInv, TypeOK
<1>2. /\ UNCHANGED <<holder, queue, pause, row, accepted, gone, starts, scenario>> /\ cancelled' = {}
      /\ faults' = faults + 1
  BY DEF Crash, Fault, table, log
<1>3. faults' \in Nat /\ faults' # 0
  BY <1>1, <1>2 DEF TypeOK
<1>4. \A y \in Tasks : task'[y] = IF task[y].pc = "idle" THEN task[y] ELSE Done
  BY DEF Crash
<1>5. task' \in [Tasks -> Task]
  BY <1>1, <1>4, UnbornType DEF Crash
<1>6. /\ \A y \in Tasks : ~Carrying(task'[y]) /\ ~Sending(task'[y]) /\ LocalsOK(y, task'[y])
      /\ \A y \in Tasks : task'[y].pc = "idle" <=> task[y].pc = "idle"
  <2> SUFFICES ASSUME NEW y \in Tasks
               PROVE  /\ ~Carrying(task'[y]) /\ ~Sending(task'[y]) /\ LocalsOK(y, task'[y])
                      /\ task'[y].pc = "idle" <=> task[y].pc = "idle"
    OBVIOUS
  <2>1. CASE task[y].pc = "idle"
    BY <1>1, <1>4, <2>1 DEF Locals, Carrying, Sending
  <2>2. CASE task[y].pc # "idle"
    BY <1>4, <2>2, UnbornType DEF LocalsOK, Carrying, Sending
  <2> QED BY <2>1, <2>2
<1>7. TypeOK'
  BY <1>1, <1>2, <1>3, <1>5 DEF TypeOK
<1>8. Locals' /\ Carried' /\ Apart' /\ Ordered(queue)'
  BY <1>1, <1>2, <1>6 DEF Locals, Carried, Apart, Ordered
<1>9. Sent'
  BY <1>1, <1>2, <1>6, NameTypes DEF Sent
<1>10. Waits' /\ Unused' /\ History'
  BY <1>1, <1>2 DEF Waits, Untouched, Waiting, Unused, History
<1>11. Born'
  BY <1>1, <1>2, <1>6, NameTypes DEF Born
<1>12. NothingLost'
  BY <1>3 DEF NothingLost
<1> QED BY <1>7, <1>8, <1>9, <1>10, <1>11, <1>12 DEF QueueInv

-----------------------------------------------------------------------------
LEMMA QueueInit == Init => QueueInv
<1> SUFFICES ASSUME Init PROVE QueueInv
  OBVIOUS
<1>1. \A x \in Tasks : task[x] = Unborn
  BY DEF Init
<1>2. \A x \in Tasks : ~Carrying(task[x]) /\ ~Sending(task[x]) /\ LocalsOK(x, task[x])
  BY <1>1, UnbornType DEF Carrying, Sending, LocalsOK
<1>3. TypeOK
  <2>1. task \in [Tasks -> Task]
    BY UnbornType DEF Init
  <2>2. row \in [Ids -> Ends \cup {"none"}] /\ starts \in [Ids -> Nat] /\ queue = <<>>
    BY DEF Init
  <2> QED BY <2>1, <2>2 DEF Init, TypeOK
<1>4. Locals /\ Carried /\ Apart
  BY <1>2 DEF Locals, Carried, Apart
<1>5. Ordered(queue) /\ Waits /\ NothingLost
  BY DEF Init, Ordered, Waits, Waiting, NothingLost
<1>6. Sent /\ Unused /\ History
  BY DEF Init, Sent, Unused, History, Ids
<1>7. Born
  BY <1>1, UnbornType, NameTypes DEF Born
<1> QED BY <1>3, <1>4, <1>5, <1>6, <1>7 DEF QueueInv

LEMMA QueueNext == QueueInv /\ [Next]_vars => QueueInv'
<1> SUFFICES ASSUME QueueInv, [Next]_vars PROVE QueueInv'
  OBVIOUS
<1>1. CASE UNCHANGED vars
  BY <1>1 DEF vars, table, log, QueueInv, TypeOK, Locals, Ordered, NothingLost, InHand, Waiting, Waits,
              Untouched, Carried, Apart, Sent, Unused, History, Born
<1>2. ASSUME NEW r \in Requests, UNCHANGED scenario,
             \/ SendTurn(r) \/ ResumeQueue(r) \/ RemoveQueuedMessage(r) \/ MoveQueuedMessage(r)
             \/ ClearQueue(r) \/ InterruptQueuedMessage(r) \/ StopRun(r)
      PROVE  QueueInv'
  BY <1>2, AskKeeps, QueueRequestKeeps
<1>3. ASSUME NEW x \in Tasks, UNCHANGED scenario, Handler(x) PROVE QueueInv'
  BY <1>3, SendKeeps, StartClaimedKeeps, EnqueueKeeps, CommandKeeps, CancelKeeps DEF Handler
<1>4. ASSUME NEW x \in Tasks, UNCHANGED scenario, Drain(x) PROVE QueueInv'
  BY <1>4, PlanKeeps, PopKeeps, LaunchKeeps, RestoreKeeps DEF Drain
<1>5. CASE Crash /\ UNCHANGED scenario
  BY <1>5, CrashKeeps
<1> QED BY <1>1, <1>2, <1>3, <1>4, <1>5, TurnKeeps DEF Next, Request

LEMMA QueueHolds == Spec => []QueueInv
BY QueueInit, QueueNext, PTL DEF Spec

(* The table of the thread and the locals of every task stay what the code *)
(* declares them to be: a drain never goes on with a head that is not a    *)
(* waiting message (planDrain, launch).                                    *)
THEOREM QueueTyped == Spec => []TypeOK
<1>1. QueueInv => TypeOK
  BY DEF QueueInv
<1> QED BY <1>1, QueueHolds, PTL

(* However many sends and drains race for a thread, a message is started   *)
(* at most once, and not at all after a client was told it is removed:     *)
(* takeQueuedMessage answers one of them (drain, launch).                  *)
THEOREM MessageStartedOnce == Spec => []StartedOnce
<1>1. QueueInv => StartedOnce
  BY DEF QueueInv, History, StartedOnce
<1> QED BY <1>1, QueueHolds, PTL

(* Without a failing start or a crash, a message that entered the queue is *)
(* waiting, in the hand of a drain, started, or taken back by a client.    *)
THEOREM NoMessageLost == Spec => []NothingLost
<1>1. QueueInv => NothingLost
  BY DEF QueueInv
<1> QED BY <1>1, QueueHolds, PTL

-----------------------------------------------------------------------------
(* A quiet thread has drained its queue.  What a client does to the queue  *)
(* of a thread it neither stops nor interrupts, resumes or clears leaves   *)
(* its holder with a task that will pass the thread on, and a queue        *)
(* without a holder with a task that will look at it.                      *)

Undisturbed ==
  faults = 0 /\ \A r \in Requests : Kind[r] \cap {"stop", "interrupt", "promote", "resume", "clear"} = {}

\* A drain, until it has claimed the thread for a message.
Planning == {"list", "pause", "setpause", "park", "claim", "reclaim", "release"}

\* Where tasks are and what they hold, of that.
RoleOf(x, t) ==
  /\ t.pc \notin {"unclaim", "unpause", "cancel", "record", "move", "lift", "peek", "check", "waits",
                  "clearpause", "restore", "repause", "rerelease"}
  /\ x[1] = "turn" => \/ t.pc \in {"idle", "done"}
                      \/ /\ t.back = "free" /\ t.run = x[2]
                         /\ t.pc \in Planning \cup {"running", "ended", "guard", "pop", "input", "set", "free"}
  /\ x[1] = "request" => t.back # "free" /\ t.pc \notin {"running", "ended", "free"}
  /\ t.pc = "setpause" => t.reason # "none"
  /\ t.pc = "list" => t.holding = None \/ t.tries = 0
Roles == \A x \in Tasks : RoleOf(x, task[x]) /\ (task[x].pc = "park" => pause # "none")

\* The turn of i that holds the thread and will settle its queue; a task that has claimed it for i.
Drives(x, t, i) == /\ x = <<"turn", i>>
                   /\ t.pc \in {"running", "ended", "guard"} \/ (t.pc \in Planning /\ t.holding = i)
Takes(t, i) == /\ t.head.id = i
               /\ t.pc \in {"start", "pop", "input", "set"} \/ (t.pc = "release" /\ t.holding = i)
Held == holder # None => \E x \in Tasks : Drives(x, task[x], holder) \/ Takes(task[x], holder)

\* A task that will look at the queue of a thread that is free.
Watches(t) == \/ t.pc \in {"kick", "start", "list", "pause", "setpause", "claim", "pop", "input", "set", "release"}
              \/ t.pc \in {"stale", "guard"} /\ t.run = None
Unheld  == holder = None /\ queue # <<>> /\ pause = "none"
Watched == Unheld => \E x \in Tasks : Watches(task[x])

\* A drain has lost no more races than messages have left the queue.
Left == accepted \ Waiting
TriesOf(t) ==
  /\ t.pc = "list" => t.tries <= 1 + Cardinality(Left)
  /\ t.pc \in {"pause", "setpause", "claim", "reclaim", "pop"} /\ t.back # "start" =>
       t.head.id \in accepted /\ t.tries <= 1 + Cardinality(Left \ {t.head.id})
  /\ t.pc = "release" => t.tries = 0 \/ (t.head.id \in Left /\ t.tries <= 1 + Cardinality(Left \ {t.head.id}))
Tries == \A x \in Tasks : TriesOf(task[x])

Attended == cancelled = {} /\ accepted \subseteq Requests /\ Roles /\ Held /\ Watched /\ Tries

\* The requests are fewer than the races a drain may lose.
FewRequests == IsFiniteSet(Requests) /\ Cardinality(Requests) < MaxDrain

LEMMA LeftFinite ==
  ASSUME FewRequests, accepted \subseteq Requests
  PROVE  IsFiniteSet(Left)
BY FS_Subset DEF FewRequests, Left

\* Messages leave the queue; they do not come back.
LEMMA TriesStay ==
  ASSUME FewRequests, accepted' \subseteq Requests, accepted \subseteq accepted', Left \subseteq Left',
         NEW t \in Task, TriesOf(t)
  PROVE  TriesOf(t)'
<1>1. IsFiniteSet(Left')
  BY FS_Subset DEF FewRequests, Left
<1>2. \A i : IsFiniteSet(Left' \ {i}) /\ Left \ {i} \subseteq Left' \ {i}
  BY <1>1, FS_Subset
<1>3. ASSUME NEW i PROVE IsFiniteSet(Left \ {i}) /\ Cardinality(Left \ {i}) <= Cardinality(Left' \ {i})
  <2>1. IsFiniteSet(Left' \ {i}) /\ Left \ {i} \in SUBSET (Left' \ {i})
    BY <1>2
  <2> QED BY ONLY <2>1, FS_Subset
<1>4. IsFiniteSet(Left) /\ Cardinality(Left) <= Cardinality(Left')
  BY <1>1, FS_Subset
<1>5. /\ Cardinality(Left) \in Nat /\ Cardinality(Left') \in Nat
      /\ \A i : Cardinality(Left \ {i}) \in Nat /\ Cardinality(Left' \ {i}) \in Nat
  BY <1>1, <1>2, <1>3, <1>4, FS_CardinalityType
<1>6. t.tries \in Nat
  BY DEF Task
<1>7. t.pc = "list" => t.tries <= 1 + Cardinality(Left')
  BY <1>4, <1>5, <1>6 DEF TriesOf
<1>8. t.tries <= 1 + Cardinality(Left \ {t.head.id}) => t.tries <= 1 + Cardinality(Left' \ {t.head.id})
  <2>1. PICK i : i = t.head.id
    OBVIOUS
  <2>2. PICK a \in Nat, b \in Nat : a = Cardinality(Left \ {i}) /\ b = Cardinality(Left' \ {i})
    BY <1>5
  <2>3. a <= b
    BY <1>3, <2>2
  <2>4. t.tries <= 1 + a => t.tries <= 1 + b
    BY <1>6, <2>3
  <2> QED BY <2>1, <2>2, <2>4
<1> QED BY <1>7, <1>8 DEF TriesOf

\* Task x alone moves.
Only(x) == \A y \in Tasks : y # x => task'[y] = task[y]

LEMMA OneMoves ==
  ASSUME FewRequests, Attended, QueueInv, QueueInv', NEW x \in Tasks, Only(x),
         cancelled' = cancelled, accepted' \subseteq Requests,
         accepted \subseteq accepted', Left \subseteq Left',
         pause' = pause \/ pause' # "none",
         RoleOf(x, task'[x]), task'[x].pc = "park" => pause' # "none", TriesOf(task[x])' ,
         holder' # None => \/ Drives(x, task'[x], holder') \/ Takes(task'[x], holder')
                           \/ holder' = holder /\ ~Drives(x, task[x], holder) /\ ~Takes(task[x], holder),
         Unheld' => \/ Watches(task'[x]) \/ (Unheld /\ ~Watches(task[x]))
                    \/ \E z \in Tasks : z # x /\ Watches(task[z])
  PROVE  Attended'
<1>1. task' \in [Tasks -> Task] /\ task \in [Tasks -> Task]
  BY DEF QueueInv, TypeOK
<1>2. Roles'
  BY DEF Roles, Attended, Only
<1>3. Held'
  <2> SUFFICES ASSUME holder' # None
               PROVE  \E y \in Tasks : Drives(y, task'[y], holder') \/ Takes(task'[y], holder')
    BY DEF Held
  <2>1. CASE Drives(x, task'[x], holder') \/ Takes(task'[x], holder')
    BY <2>1
  <2>2. CASE holder' = holder /\ ~Drives(x, task[x], holder) /\ ~Takes(task[x], holder)
    <3>1. PICK y \in Tasks : Drives(y, task[y], holder) \/ Takes(task[y], holder)
      BY <2>2 DEF Attended, Held
    <3> QED BY <2>2, <3>1 DEF Only
  <2> QED BY <2>1, <2>2
<1>4. Watched'
  <2> SUFFICES ASSUME Unheld' PROVE \E y \in Tasks : Watches(task'[y])
    BY DEF Watched
  <2>1. CASE Unheld /\ ~Watches(task[x])
    <3>1. PICK y \in Tasks : Watches(task[y])
      BY <2>1 DEF Attended, Watched
    <3> QED BY <2>1, <3>1 DEF Only
  <2> QED BY <2>1 DEF Only
<1>5. Tries'
  <2> SUFFICES ASSUME NEW y \in Tasks PROVE TriesOf(task[y])'
    BY DEF Tries
  <2>1. CASE y = x
    BY <2>1
  <2>2. CASE y # x
    <3>1. PICK t \in Task : t = task[y]
      BY <1>1
    <3>2. TriesOf(t) /\ task'[y] = t
      BY <2>2, <3>1 DEF Attended, Tries, Only
    <3>3. TriesOf(t)'
      BY <3>2, TriesStay
    <3> QED BY <3>2, <3>3 DEF TriesOf
  <2> QED BY <2>1, <2>2
<1> QED BY <1>2, <1>3, <1>4, <1>5 DEF Attended

\* The task of a step, before and after it.
LEMMA TaskKinds ==
  ASSUME QueueInv, NEW x \in Tasks
  PROVE  /\ task \in [Tasks -> Task] /\ task[x] \in Task /\ TypeOK /\ Locals /\ LocalsOK(x, task[x])
         /\ task[x].tries \in Nat /\ MaxDrain \in Nat /\ MaxDrain > 0
         /\ \A i \in Ids : i # None
         /\ x[1] = "request" \/ (x[1] = "turn" /\ x[2] \in Ids /\ x = <<"turn", x[2]>>)
<1>1. task \in [Tasks -> Task] /\ task[x] \in Task /\ TypeOK /\ Locals /\ LocalsOK(x, task[x])
  BY DEF QueueInv, TypeOK, Locals
<1>2. task[x].tries \in Nat
  BY <1>1 DEF Task
<1> QED BY <1>1, <1>2, Names, QueueAssumption

\* A step that leaves the queue as it is.
LEMMA SameLeft ==
  ASSUME UNCHANGED <<queue, accepted>>, accepted \subseteq Requests
  PROVE  accepted' \subseteq Requests /\ accepted \subseteq accepted' /\ Left \subseteq Left'
         /\ Left' = Left
BY DEF Left, Waiting

\* Going on with the same locals; going back to the caller.
LEMMA GoesOn ==
  ASSUME QueueInv, NEW x \in Tasks, NEW pc \in Pcs \ {"done"}, Goto(x, pc)
  PROVE  Only(x) /\ task'[x].pc = pc /\ SameLocals(task[x], task'[x])
<1>1. PICK u \in Task : task' = [task EXCEPT ![x] = u] /\ u.pc = pc /\ SameLocals(task[x], u)
  BY TaskKinds, GotoTask
<1> QED BY <1>1, TaskKinds DEF Only

LEMMA IsOver ==
  ASSUME QueueInv, NEW x \in Tasks, Goto(x, "done"), cancelled = {}
  PROVE  /\ Only(x) /\ RoleOf(x, task'[x]) /\ TriesOf(task'[x]) /\ TriesOf(task[x])'
         /\ task'[x].pc = "done"
<1>1. task' = [task EXCEPT ![x] = Done]
  BY DEF Goto
<1>2. task'[x] = Done /\ Only(x)
  BY <1>1, TaskKinds DEF Only
<1> QED BY <1>2, UnbornType DEF RoleOf, TriesOf

LEMMA ReturnsHome ==
  ASSUME QueueInv, NEW x \in Tasks, Return(x), RoleOf(x, task[x]), ~Sending(task[x]),
         task[x].pc \notin {"idle", "done"}
  PROVE  /\ Only(x) /\ RoleOf(x, task'[x]) /\ TriesOf(task[x])'
         /\ task'[x].pc \in {"done", "free", "takeback"}
<1> DEFINE t == task[x]
           back == [Unborn EXCEPT !.pc = t.back, !.run = t.run, !.back = t.back]
<1>0. t \in Task /\ t.back # "start"
  BY TaskKinds DEF LocalsOK, RoleOf
<1>1. t.back \in {"done", "free", "takeback"} /\ t.back \in Pcs /\ t.run \in Ids \cup {None}
  BY <1>0 DEF Task, Pcs
<1>2. back.pc = t.back /\ back.back = t.back /\ back.run = t.run
  BY <1>1, UnbornType DEF Task, Unborn
<1>3. Returned(x) = IF t.back = "done" THEN Done ELSE back
  BY <1>0 DEF Returned
<1>4. task'[x] = Returned(x) /\ Only(x)
  BY TaskKinds DEF Only, Return
<1> HIDE DEF back
<1>5. task'[x].pc \in {"done", "free", "takeback"} /\ (task'[x].pc # "done" => task'[x].back = t.back /\ task'[x].run = t.run /\ task'[x].pc = t.back)
      /\ (task'[x].pc = "done" => task'[x].back = "done")
  BY <1>1, <1>2, <1>3, <1>4, UnbornType
<1>6. RoleOf(x, task'[x])
  BY <1>5, TaskKinds DEF RoleOf
<1>7. TriesOf(task[x])'
  BY <1>5 DEF TriesOf
<1> QED BY <1>4, <1>5, <1>6, <1>7

\* The steps of a send until it claims the thread.
LEMMA SendAttends ==
  ASSUME FewRequests, Attended, QueueInv, QueueInv', NEW x \in Tasks,
         Look(x) \/ Judge(x) \/ SettleDeadRun(x)
  PROVE  Attended'
<1> DEFINE t == task[x]
<1>1. RoleOf(x, t) /\ cancelled = {} /\ accepted \subseteq Requests
  BY DEF Attended, Roles
<1>2. t.pc \in {"look", "judge", "bury"} /\ t.back = "start" /\ x[1] = "request"
  BY TaskKinds DEF Look, Judge, SettleDeadRun, At, LocalsOK, Sending
<1>3. Only(x) /\ task'[x].pc \in {"judge", "bury", "enqueue", "claim"} /\ task'[x].back = "start"
  <2>1. CASE Look(x)
    BY <2>1, <1>2, TaskKinds DEF Look, Only, Task
  <2>2. CASE Judge(x)
    BY <2>2, <1>2, TaskKinds DEF Judge, Only, Task
  <2>3. CASE SettleDeadRun(x)
    BY <2>3, <1>2, GoesOn DEF SettleDeadRun, SameLocals, Pcs
  <2> QED BY <2>1, <2>2, <2>3
<1>4. UNCHANGED <<holder, queue, pause, cancelled, accepted>>
  BY DEF Look, Judge, SettleDeadRun, table, log
<1>5. RoleOf(x, task'[x]) /\ TriesOf(task[x])'
  BY <1>2, <1>3 DEF RoleOf, TriesOf
<1>6. ~Drives(x, t, holder) /\ ~Takes(t, holder) /\ ~Watches(t) /\ (Unheld' => Unheld)
  BY <1>2, <1>4 DEF Drives, Takes, Watches, Planning, Unheld
<1> QED BY <1>1, <1>3, <1>4, <1>5, <1>6, SameLeft, OneMoves

\* A thread that is claimed has who takes it on; a claim that is lost, whom it was lost to.
LEMMA ClaimAttends ==
  ASSUME FewRequests, Attended, QueueInv, QueueInv', NEW x \in Tasks,
         ClaimFree(x) \/ ClaimHeld(x)
  PROVE  Attended'
<1> DEFINE t == task[x]
<1>1. RoleOf(x, t) /\ cancelled = {} /\ accepted \subseteq Requests /\ TriesOf(t)
  BY DEF Attended, Roles, Tries
<1>2. /\ t.pc \in {"claim", "reclaim"} /\ t.head.id \in Ids /\ t.head.id # None
      /\ t \in Task /\ (t.back = "start" <=> Sending(t)) /\ holder \in Ids \cup {None}
  BY TaskKinds DEF ClaimFree, ClaimHeld, At, LocalsOK, TypeOK
<1>3. UNCHANGED <<queue, pause, cancelled, accepted>>
  BY DEF ClaimFree, ClaimHeld, log
<1>4. Left' = Left /\ accepted' \subseteq Requests /\ accepted \subseteq accepted' /\ Left \subseteq Left'
  BY <1>1, <1>3, SameLeft
<1>5. CASE Claimed(x)
  <2>1. /\ Only(x) /\ task'[x].pc = (IF t.back = "start" THEN "start" ELSE "pop")
        /\ SameLocals(t, task'[x]) /\ holder' = t.head.id
    BY <1>5, <1>2, TaskKinds DEF Claimed, Only, Task, SameLocals
  <2>2. RoleOf(x, task'[x]) /\ TriesOf(task[x])'
    BY <1>1, <1>2, <1>3, <1>4, <2>1, TaskKinds DEF RoleOf, TriesOf, SameLocals, LocalsOK, Planning
  <2>3. Takes(task'[x], holder') /\ ~Unheld'
    BY <1>2, <2>1 DEF Takes, SameLocals, Unheld
  <2> QED BY <1>3, <1>4, <2>1, <2>2, <2>3, OneMoves
<1>6. CASE ClaimFree(x) /\ holder # None /\ Goto(x, "reclaim") /\ UNCHANGED holder
  <2>1. Only(x) /\ task'[x].pc = "reclaim" /\ SameLocals(t, task'[x]) /\ t.pc = "claim"
    BY <1>6, GoesOn DEF Pcs, ClaimFree, At
  <2>2. RoleOf(x, task'[x]) /\ TriesOf(task[x])'
    BY <1>1, <1>2, <1>3, <1>4, <2>1 DEF RoleOf, TriesOf, SameLocals, Planning
  <2>3. ~Unheld' /\ ~Takes(t, holder) /\ (Drives(x, t, holder) => Drives(x, task'[x], holder))
    BY <1>6, <2>1 DEF Takes, Drives, SameLocals, Unheld, Planning
  <2> QED BY <1>3, <1>4, <1>6, <2>1, <2>2, <2>3, OneMoves
<1>7. CASE /\ t.pc = "reclaim" /\ ~(holder # None /\ holder \in {t.head.id, t.holding})
           /\ IF t.back = "start" THEN Goto(x, "enqueue") ELSE Return(x)
           /\ UNCHANGED holder
  <2>1. Only(x) /\ RoleOf(x, task'[x]) /\ TriesOf(task[x])' /\ task'[x].pc # "park"
    <3>1. CASE t.back = "start"
      <4>1. Only(x) /\ task'[x].pc = "enqueue" /\ SameLocals(t, task'[x])
        BY <1>7, <3>1, GoesOn DEF Pcs
      <4> QED BY <1>1, <4>1, <3>1, <1>2, TaskKinds DEF RoleOf, TriesOf, SameLocals, LocalsOK
    <3>2. CASE t.back # "start"
      BY <1>1, <1>2, <1>7, <3>2, ReturnsHome
    <3> QED BY <3>1, <3>2
  <2>2. ~Takes(t, holder) /\ ~Watches(t) /\ (Unheld' => Unheld)
    BY <1>3, <1>7 DEF Takes, Watches, Unheld
  <2>3. holder # None => ~Drives(x, t, holder)
    BY <1>7 DEF Drives
  <2> QED BY <1>3, <1>4, <1>7, <2>1, <2>2, <2>3, OneMoves
<1> QED BY <1>5, <1>6, <1>7 DEF ClaimFree, ClaimHeld, At

\* A turn starts: it holds the thread.
LEMMA StartAttends ==
  ASSUME FewRequests, Attended, QueueInv, QueueInv', NEW x \in Tasks, NEW i \in Ids,
         RunnerStart(x, i), NEW u \in Task,
         task' = [task EXCEPT ![x] = u, ![<<"turn", i>>] = Begun(i)],
         RoleOf(x, u), u.pc \in {"done", "free", "takeback"}
  PROVE  Attended'
<1> DEFINE y == <<"turn", i>>
<1>1. UNCHANGED <<queue, pause, cancelled, accepted>> /\ holder' = i /\ i # None
  BY TaskKinds DEF RunnerStart
<1>2. y \in Tasks /\ task \in [Tasks -> Task] /\ y[1] = "turn" /\ y[2] = i
  BY NameTypes, TaskKinds
<1>3. /\ \A z \in Tasks : z # x /\ z # y => task'[z] = task[z]
      /\ x # y => task'[x] = u
      /\ task'[y] = Begun(i)
  BY <1>2
<1>4. Begun(i).pc = "running" /\ Begun(i).run = i /\ Begun(i).back = "free"
  BY UnbornType DEF Begun, Unborn
<1>5. Left' = Left /\ accepted' \subseteq Requests
  BY <1>1, SameLeft DEF Attended
<1>6. Roles'
  <2>1. RoleOf(y, Begun(i))
    BY <1>2, <1>4 DEF RoleOf
  <2> QED BY <1>1, <1>3, <1>4, <2>1 DEF Roles, Attended
<1>7. Held'
  BY <1>1, <1>2, <1>3, <1>4 DEF Held, Drives
<1>8. Watched'
  BY <1>1 DEF Watched, Unheld
<1>9. Tries'
  <2> SUFFICES ASSUME NEW z \in Tasks PROVE TriesOf(task[z])'
    BY DEF Tries
  <2>1. task'[z] = task[z] \/ task'[z].pc \in {"done", "free", "takeback", "running"}
    BY <1>3, <1>4
  <2>2. TriesOf(task[z])
    BY DEF Attended, Tries
  <2>3. CASE task'[z] = task[z]
    <3>1. PICK t \in Task : t = task[z]
      BY <1>2
    <3>2. TriesOf(t)'
      BY <1>1, <1>5, <2>2, <3>1, TriesStay DEF Attended
    <3> QED BY <2>3, <3>1, <3>2 DEF TriesOf
  <2>4. CASE task'[z].pc \in {"done", "free", "takeback", "running"}
    BY <2>4 DEF TriesOf
  <2> QED BY <2>1, <2>3, <2>4
<1> QED BY <1>1, <1>5, <1>6, <1>7, <1>8, <1>9 DEF Attended

LEMMA StartClaimedAttends ==
  ASSUME FewRequests, Attended, QueueInv, QueueInv', NEW x \in Tasks,
         StartClaimed(x) \/ LaunchStart(x), faults' = 0
  PROVE  Attended'
<1> DEFINE t == task[x]
           i == t.head.id
<1>1. RoleOf(x, t) /\ t.pc \in {"start", "set"} /\ faults \in Nat
  BY TaskKinds DEF Attended, Roles, StartClaimed, LaunchStart, At, TypeOK
<1>2. i \in Ids
  BY <1>1, TaskKinds, Names DEF LocalsOK, Sending, Ids
<1>3. ~StartFails
  BY <1>1 DEF StartFails, Fault
<1>4. CASE StartClaimed(x)
  <2>1. RunnerStart(x, i) /\ task' = [task EXCEPT ![x] = Done, ![<<"turn", i>>] = Begun(i)]
    BY <1>3, <1>4 DEF StartClaimed
  <2>2. RoleOf(x, Done)
    BY UnbornType DEF RoleOf
  <2> QED BY <1>2, <2>1, <2>2, StartAttends, UnbornType
<1>5. CASE LaunchStart(x)
  <2>1. RunnerStart(x, i) /\ task' = [task EXCEPT ![x] = Returned(x), ![<<"turn", i>>] = Begun(i)]
    BY <1>3, <1>5 DEF LaunchStart
  <2>2. t.pc = "set" /\ ~Sending(t) /\ t.back # "start"
    BY <1>5, TaskKinds DEF LaunchStart, At, Sending, LocalsOK
  <2>3. PICK u : u = Returned(x)
    OBVIOUS
  <2>4. u \in Task /\ u.pc \in {"done", "free", "takeback"}
    BY <2>2, <2>3, ReturnedTask, TaskKinds
  <2>5. RoleOf(x, u)
    <3> DEFINE back == [Unborn EXCEPT !.pc = t.back, !.run = t.run, !.back = t.back]
    <3>1. t.back \in {"done", "free", "takeback"} /\ t.back \in Pcs /\ t.run \in Ids \cup {None}
      BY <2>2, TaskKinds DEF Task, Pcs
    <3>2. back.pc = t.back /\ back.back = t.back /\ back.run = t.run
      BY <3>1, UnbornType DEF Task, Unborn
    <3>3. u = IF t.back = "done" THEN Done ELSE back
      BY <2>3 DEF Returned
    <3> HIDE DEF back
    <3> QED BY <1>1, <2>2, <3>1, <3>2, <3>3, UnbornType, TaskKinds DEF RoleOf
  <2> QED BY <1>2, <2>1, <2>3, <2>4, <2>5, StartAttends
<1> QED BY <1>4, <1>5

\* A message enters the queue: its request looks at the thread next.
LEMMA EnqueueAttends ==
  ASSUME FewRequests, Undisturbed, Attended, QueueInv, QueueInv', NEW x \in Tasks, Enqueue(x)
  PROVE  Attended'
<1> DEFINE t == task[x]
           r == x[2]
<1>1. /\ t.pc = "enqueue" /\ x[1] = "request" /\ r \in Requests /\ x = <<"request", r>>
      /\ t.head.id = r /\ t \in Task /\ task \in [Tasks -> Task] /\ Sending(t)
  BY TaskKinds, Names DEF Enqueue, At, LocalsOK, Sending
<1>2. "interrupt" \notin Kind[r]
  BY <1>1 DEF Undisturbed
<1> DEFINE m == [t.head EXCEPT !.interrupt = FALSE]
<1>3. /\ queue' = Append(queue, m) /\ accepted' = accepted \cup {m.id}
      /\ UNCHANGED <<holder, pause, cancelled>>
      /\ task' = [task EXCEPT ![x].pc = "kick", ![x].back = IF "chat" \in Kind[r] THEN "takeback" ELSE "done"]
  BY <1>2 DEF Enqueue
<1>4. m \in QueuedMessage /\ m.id = r
  BY <1>1 DEF Task, Message, QueuedMessage, Ids
<1>5. r \notin accepted /\ r \notin Waiting
  BY <1>1 DEF QueueInv, Sent, Waits
<1> HIDE DEF m
<1>6. Waiting' = Waiting \cup {r}
  <2>1. queue \in Seq(QueuedMessage) /\ Ordered(queue) /\ IdsOf(queue) = Waiting /\ IdsOf(queue') = Waiting'
    BY TaskKinds, WaitingIds DEF QueueInv, IdsOf, Waiting
  <2> QED BY <1>3, <1>4, <1>5, <2>1, PutLast
<1>7. /\ accepted' \subseteq Requests /\ accepted \subseteq accepted' /\ Left \subseteq Left'
  BY <1>1, <1>3, <1>4, <1>5, <1>6 DEF Left, Attended
<1>8. Only(x) /\ task'[x].pc = "kick" /\ task'[x].back \in {"takeback", "done"}
  BY <1>1, <1>3 DEF Only, Task
<1>9. RoleOf(x, task'[x]) /\ TriesOf(task[x])' /\ Watches(task'[x])
  BY <1>1, <1>8 DEF RoleOf, TriesOf, Watches
<1>10. ~Drives(x, t, holder) /\ ~Takes(t, holder)
  BY <1>1 DEF Drives, Takes, Planning
<1> QED BY <1>3, <1>7, <1>8, <1>9, <1>10, OneMoves

\* Messages of the queue that are taken out of it, or put elsewhere in it.
LEMMA FewerLeft ==
  ASSUME QueueInv, QueueInv', accepted' = accepted, accepted \subseteq Requests,
         IdsOf(queue') \subseteq Waiting
  PROVE  /\ accepted' \subseteq Requests /\ accepted \subseteq accepted' /\ Left \subseteq Left'
         /\ queue' # <<>> => queue # <<>>
<1>1. IdsOf(queue') = Waiting'
  BY DEF IdsOf, Waiting
<1>2. queue = <<>> => Waiting = {}
  BY DEF Waiting
<1>3. Waiting' = {} => queue' = <<>>
  <2>1. queue' \in Seq(QueuedMessage)
    BY DEF QueueInv, TypeOK, QueuedMessage
  <2>2. queue' # <<>> => 1 \in DOMAIN queue'
    BY <2>1
  <2> QED BY <2>2 DEF Waiting
<1> QED BY <1>1, <1>2, <1>3 DEF Left

\* What clients do to the queue, and chat() to its own message.
LEMMA EditAttends ==
  ASSUME FewRequests, Attended, QueueInv, QueueInv', NEW x \in Tasks, Goto(x, "done"),
         task[x].pc \in {"idle", "takeback"}, UNCHANGED <<holder, pause, cancelled, accepted>>,
         IdsOf(queue') \subseteq Waiting
  PROVE  Attended'
<1>1. accepted \subseteq Requests /\ cancelled = {}
  BY DEF Attended
<1>2. Only(x) /\ RoleOf(x, task'[x]) /\ TriesOf(task[x])' /\ task'[x].pc = "done"
  BY <1>1, IsOver
<1>3. /\ accepted' \subseteq Requests /\ accepted \subseteq accepted' /\ Left \subseteq Left'
      /\ queue' # <<>> => queue # <<>>
  BY <1>1, FewerLeft
<1>4. ~Drives(x, task[x], holder) /\ ~Takes(task[x], holder) /\ ~Watches(task[x]) /\ (Unheld' => Unheld)
  BY <1>3 DEF Drives, Takes, Watches, Planning, Unheld
<1> QED BY <1>1, <1>2, <1>3, <1>4, OneMoves

LEMMA RequestAttends ==
  ASSUME FewRequests, Undisturbed, Attended, QueueInv, QueueInv', NEW r \in Requests,
         \/ SendTurn(r) \/ ResumeQueue(r) \/ RemoveQueuedMessage(r) \/ MoveQueuedMessage(r)
         \/ ClearQueue(r) \/ InterruptQueuedMessage(r) \/ StopRun(r)
  PROVE  Attended'
<1> DEFINE x == <<"request", r>>
<1>1. /\ x \in Tasks /\ x[1] = "request" /\ task[x].pc = "idle" /\ accepted \subseteq Requests
      /\ queue \in Seq(QueuedMessage) /\ Ordered(queue) /\ IdsOf(queue) = Waiting
      /\ \A n \in DOMAIN queue : queue[n] \in QueuedMessage /\ queue[n].id \in Waiting
  BY NameTypes, WaitingIds DEF SendTurn, ResumeQueue, RemoveQueuedMessage, MoveQueuedMessage,
     ClearQueue, InterruptQueuedMessage, StopRun, Arrives, At, Attended, QueueInv
<1>2. Kind[r] \cap {"stop", "interrupt", "promote", "resume", "clear"} = {}
  BY DEF Undisturbed
<1>3. CASE SendTurn(r)
  <2> DEFINE u == [Unborn EXCEPT !.pc = "look", !.back = "start", !.head = [id |-> r, interrupt |-> FALSE]]
  <2>1. u.pc = "look" /\ u.back = "start"
    BY UnbornType DEF Unborn
  <2>2. task' = [task EXCEPT ![x] = u] /\ UNCHANGED <<holder, queue, pause, cancelled, accepted>>
    BY <1>3 DEF SendTurn, table, log
  <2> HIDE DEF u
  <2>3. Only(x) /\ task'[x] = u
    BY <1>1, <2>2, TaskKinds DEF Only
  <2>4. RoleOf(x, task'[x]) /\ TriesOf(task[x])' /\ task'[x].pc # "park"
    BY <1>1, <2>1, <2>3 DEF RoleOf, TriesOf
  <2>5. ~Drives(x, task[x], holder) /\ ~Takes(task[x], holder) /\ ~Watches(task[x]) /\ (Unheld' => Unheld)
    BY <1>1, <2>2 DEF Drives, Takes, Watches, Planning, Unheld
  <2> HIDE DEF x
  <2> QED BY <1>1, <2>2, <2>3, <2>4, <2>5, SameLeft, OneMoves
<1>4. CASE RemoveQueuedMessage(r)
  <2>1. PICK id \in Waiting : queue' = Without(id)
    BY <1>4 DEF RemoveQueuedMessage
  <2>2. IdsOf(queue') \subseteq Waiting
    BY <2>1, WithoutIds
  <2>3. Goto(x, "done") /\ UNCHANGED <<holder, pause, cancelled, accepted>>
    BY <1>4 DEF RemoveQueuedMessage
  <2> HIDE DEF x
  <2> QED BY <1>1, <2>2, <2>3, EditAttends
<1>5. CASE MoveQueuedMessage(r)
  <2>1. PICK n \in DOMAIN queue, index \in 0 .. Len(queue) - 1 :
          queue' = InsertAt(RemoveAt(queue, n), index + 1, queue[n])
    BY <1>5 DEF MoveQueuedMessage
  <2> DEFINE q == RemoveAt(queue, n)
  <2>2. q \in Seq(QueuedMessage) /\ Ordered(q) /\ IdsOf(q) = Waiting \ {queue[n].id} /\ Len(q) = Len(queue) - 1
    BY <1>1, TakenOut
  <2> HIDE DEF q
  <2>3. index + 1 \in 1 .. Len(q) + 1
    BY <1>1, <2>2
  <2>4. IdsOf(queue') = (Waiting \ {queue[n].id}) \cup {queue[n].id}
    BY <1>1, <2>1, <2>2, <2>3, PutIn DEF q
  <2>5. IdsOf(queue') \subseteq Waiting
    BY <1>1, <2>4
  <2>6. Goto(x, "done") /\ UNCHANGED <<holder, pause, cancelled, accepted>>
    BY <1>5 DEF MoveQueuedMessage, log
  <2> HIDE DEF x
  <2> QED BY <1>1, <2>5, <2>6, EditAttends
<1> QED BY <1>2, <1>3, <1>4, <1>5 DEF ResumeQueue, ClearQueue, InterruptQueuedMessage, StopRun

\* A request looks who holds the thread, and plans for a holder that is dead.
LEMMA KickAttends ==
  ASSUME FewRequests, Attended, QueueInv, QueueInv', NEW x \in Tasks,
         TakeBack(x) \/ Kick(x) \/ KickStale(x)
  PROVE  Attended'
<1> DEFINE t == task[x]
<1>1. RoleOf(x, t) /\ accepted \subseteq Requests /\ cancelled = {} /\ t \in Task /\ task \in [Tasks -> Task]
  BY TaskKinds DEF Attended, Roles
<1>2. CASE TakeBack(x)
  <2>1. IdsOf(queue') \subseteq Waiting
    BY <1>2, WithoutIds DEF TakeBack
  <2> QED BY <1>2, <2>1, EditAttends DEF TakeBack, At
<1>3. CASE Kick(x)
  <2>1. t.pc = "kick" /\ x[1] = "request" /\ UNCHANGED <<holder, queue, pause, cancelled, accepted>>
    BY <1>1, <1>3, TaskKinds DEF Kick, At, RoleOf, Planning, table, log
  <2>2. Only(x) /\ task'[x].pc = "stale" /\ task'[x].run = holder /\ task'[x].back = t.back
    BY <1>1, <1>3 DEF Kick, Only, Task
  <2>3. RoleOf(x, task'[x]) /\ TriesOf(task[x])'
    BY <1>1, <2>1, <2>2 DEF RoleOf, TriesOf
  <2>4. ~Drives(x, t, holder) /\ ~Takes(t, holder) /\ (Unheld' => Watches(task'[x]))
    BY <2>1, <2>2 DEF Drives, Takes, Watches, Planning, Unheld
  <2> QED BY <1>1, <2>1, <2>2, <2>3, <2>4, SameLeft, OneMoves
<1>4. CASE KickStale(x)
  <2>1. t.pc = "stale" /\ x[1] = "request" /\ UNCHANGED <<holder, queue, pause, cancelled, accepted>>
    BY <1>1, <1>4, TaskKinds DEF KickStale, At, RoleOf, Planning, table, log
  <2>2. ~Drives(x, t, holder) /\ ~Takes(t, holder) /\ (Unheld' => Unheld)
    BY <2>1 DEF Drives, Takes, Planning, Unheld
  <2>3. CASE t.run # None /\ Return(x)
    <3>1. Only(x) /\ RoleOf(x, task'[x]) /\ TriesOf(task[x])' /\ task'[x].pc # "park"
      BY <1>1, <2>1, <2>3, ReturnsHome DEF Sending
    <3>2. ~Watches(t)
      BY <2>1, <2>3 DEF Watches
    <3> QED BY <1>1, <2>1, <2>2, <3>1, <3>2, SameLeft, OneMoves
  <2>4. CASE Goto(x, "guard")
    <3>1. Only(x) /\ task'[x].pc = "guard" /\ SameLocals(t, task'[x])
      BY <2>4, GoesOn DEF Pcs
    <3>2. RoleOf(x, task'[x]) /\ TriesOf(task[x])'
      BY <1>1, <2>1, <3>1 DEF RoleOf, TriesOf, SameLocals
    <3>3. Watches(t) => Watches(task'[x])
      BY <2>1, <3>1 DEF Watches, SameLocals
    <3> QED BY <1>1, <2>1, <2>2, <3>1, <3>2, <3>3, SameLeft, OneMoves
  <2> QED BY <1>4, <2>3, <2>4 DEF KickStale
<1> QED BY <1>2, <1>3, <1>4

\* Only who holds the thread moves it on.
LEMMA GuardAttends ==
  ASSUME FewRequests, Attended, QueueInv, QueueInv', NEW x \in Tasks, PlanGuard(x)
  PROVE  Attended'
<1> DEFINE t == task[x]
<1>1. /\ RoleOf(x, t) /\ accepted \subseteq Requests /\ cancelled = {} /\ t \in Task
      /\ task \in [Tasks -> Task] /\ t.pc = "guard" /\ ~Sending(t) /\ t.back # "start"
      /\ UNCHANGED <<holder, queue, pause, cancelled, accepted>>
  BY TaskKinds DEF Attended, Roles, PlanGuard, At, Sending, LocalsOK, table, log
<1>2. (Unheld' => Unheld) /\ ~Takes(t, holder)
  BY <1>1 DEF Takes, Unheld
<1>3. CASE holder # t.run /\ Return(x)
  <2>1. Only(x) /\ RoleOf(x, task'[x]) /\ TriesOf(task[x])' /\ task'[x].pc # "park"
    BY <1>1, <1>3, ReturnsHome
  <2>2. ~Drives(x, t, holder)
    BY <1>1, <1>3 DEF Drives, RoleOf
  <2>3. Unheld => ~Watches(t)
    BY <1>1, <1>3 DEF Unheld, Watches
  <2> QED BY <1>1, <1>2, <2>1, <2>2, <2>3, SameLeft, OneMoves
<1>4. CASE holder = t.run /\ task' = [task EXCEPT ![x].pc = "list", ![x].holding = t.run, ![x].tries = 0]
  <2>1. /\ Only(x) /\ task'[x].pc = "list" /\ task'[x].holding = holder /\ task'[x].tries = 0
        /\ task'[x].back = t.back /\ task'[x].run = t.run
    BY <1>1, <1>4 DEF Only, Task
  <2>2. Cardinality(Left') \in Nat
    BY <1>1, SameLeft, LeftFinite, FS_CardinalityType
  <2>3. RoleOf(x, task'[x]) /\ TriesOf(task[x])'
    BY <1>1, <2>1, <2>2 DEF RoleOf, TriesOf, Planning
  <2>4. Watches(task'[x]) /\ (Drives(x, t, holder) => Drives(x, task'[x], holder))
    BY <2>1 DEF Watches, Drives, Planning
  <2> QED BY <1>1, <1>2, <2>1, <2>3, <2>4, SameLeft, OneMoves
<1> QED BY <1>3, <1>4 DEF PlanGuard

\* A drain never gives up: it has lost fewer races than there are requests.
LEMMA NeverGivesUp ==
  ASSUME FewRequests, Attended, QueueInv, NEW x \in Tasks, task[x].pc = "list", queue # <<>>
  PROVE  task[x].tries < MaxDrain
<1>1. PICK w \in Waiting : TRUE
  <2>1. queue \in Seq(QueuedMessage)
    BY DEF QueueInv, TypeOK, QueuedMessage
  <2>2. 1 \in DOMAIN queue
    BY <2>1
  <2> QED BY <2>2 DEF Waiting
<1>2. w \in Requests /\ Left \subseteq Requests \ {w}
  BY <1>1 DEF QueueInv, Waits, Attended, Left
<1>3. IsFiniteSet(Requests \ {w}) /\ Cardinality(Requests \ {w}) = Cardinality(Requests) - 1
  BY <1>2, FS_RemoveElement DEF FewRequests
<1>4. Cardinality(Left) <= Cardinality(Requests) - 1
  BY <1>2, <1>3, FS_Subset
<1>5. Cardinality(Left) \in Nat /\ Cardinality(Requests) \in Nat
  BY LeftFinite, FS_CardinalityType DEF FewRequests, Attended
<1>6. task[x].tries <= 1 + Cardinality(Left) /\ task[x].tries \in Nat /\ MaxDrain \in Nat
  BY TaskKinds DEF Attended, Tries, TriesOf
<1>7. PICK l \in Nat, n \in Nat, k \in Nat : l = Cardinality(Left) /\ n = Cardinality(Requests) /\ k = task[x].tries
  BY <1>5, <1>6
<1>8. l <= n - 1 /\ k <= 1 + l /\ n < MaxDrain
  BY <1>4, <1>6, <1>7 DEF FewRequests
<1> QED BY <1>6, <1>7, <1>8

\* A drain reads the queue.
LEMMA ListAttends ==
  ASSUME FewRequests, Attended, QueueInv, QueueInv', NEW x \in Tasks, ListQueue(x)
  PROVE  Attended'
<1> DEFINE t == task[x]
<1>1. /\ RoleOf(x, t) /\ accepted \subseteq Requests /\ cancelled = {} /\ t \in Task
      /\ task \in [Tasks -> Task] /\ t.pc = "list" /\ ~Sending(t) /\ t.back # "start"
      /\ UNCHANGED <<holder, queue, pause, cancelled, accepted>> /\ MaxDrain > 0 /\ t.tries \in Nat
      /\ TriesOf(t)
  BY TaskKinds DEF Attended, Roles, Tries, ListQueue, At, Sending, LocalsOK, table, log
<1>2. /\ (Unheld' => Unheld) /\ ~Takes(t, holder) /\ Left' = Left
  BY <1>1, SameLeft DEF Takes, Unheld
<1>3. CASE (t.tries = MaxDrain \/ (queue = <<>> /\ t.holding = None)) /\ Return(x)
  <2>1. Only(x) /\ RoleOf(x, task'[x]) /\ TriesOf(task[x])' /\ task'[x].pc # "park"
    BY <1>1, <1>3, ReturnsHome
  <2>2. t.holding = None
    BY <1>1, <1>3 DEF RoleOf
  <2>3. holder # None => ~Drives(x, t, holder)
    BY <1>1, <2>2 DEF Drives
  <2>4. queue = <<>>
    BY <1>1, <1>3, NeverGivesUp, TaskKinds
  <2>5. ~Unheld'
    BY <1>1, <2>4 DEF Unheld
  <2> QED BY <1>1, <1>2, <2>1, <2>3, <2>5, SameLeft, OneMoves
<1>4. CASE t.holding # None /\ Goto(x, "release")
  <2>1. Only(x) /\ task'[x].pc = "release" /\ SameLocals(t, task'[x])
    BY <1>4, GoesOn DEF Pcs
  <2>2. RoleOf(x, task'[x]) /\ TriesOf(task[x])'
    BY <1>1, <1>4, <2>1 DEF RoleOf, TriesOf, SameLocals, Planning
  <2>3. Watches(task'[x]) /\ (Drives(x, t, holder) => Drives(x, task'[x], holder))
    BY <1>1, <2>1 DEF Watches, Drives, Planning, SameLocals
  <2> QED BY <1>1, <1>2, <2>1, <2>2, <2>3, SameLeft, OneMoves
<1>5. CASE queue # <<>> /\ task' = [task EXCEPT ![x].pc = "pause", ![x].head = Head(queue)]
  <2>1. /\ Only(x) /\ task'[x].pc = "pause" /\ task'[x].holding = t.holding /\ task'[x].head = Head(queue)
        /\ task'[x].back = t.back /\ task'[x].run = t.run /\ task'[x].tries = t.tries
    BY <1>1, <1>5 DEF Only, Task
  <2>2. Head(queue).id \in Waiting
    <3>1. queue \in Seq(QueuedMessage)
      BY DEF QueueInv, TypeOK, QueuedMessage
    <3>2. Head(queue) = queue[1] /\ 1 \in DOMAIN queue
      BY <1>5, <3>1
    <3> QED BY <3>2 DEF Waiting
  <2>3. Head(queue).id \in accepted /\ Left \ {Head(queue).id} = Left
    BY <2>2 DEF QueueInv, Waits, Left
  <2>4. RoleOf(x, task'[x])
    BY <1>1, <2>1 DEF RoleOf, Planning
  <2>5. TriesOf(task[x])'
    BY <1>1, <1>2, <2>1, <2>3 DEF TriesOf
  <2>6. Watches(task'[x]) /\ (Drives(x, t, holder) => Drives(x, task'[x], holder))
    BY <1>1, <2>1 DEF Watches, Drives, Planning
  <2> QED BY <1>1, <1>2, <2>1, <2>4, <2>5, <2>6, SameLeft, OneMoves
<1> QED BY <1>3, <1>4, <1>5 DEF ListQueue

\* A drain frees the thread, and reads the queue again.
LEMMA ReleaseAttends ==
  ASSUME FewRequests, Attended, QueueInv, QueueInv', NEW x \in Tasks, ReleaseAndRetry(x)
  PROVE  Attended'
<1> DEFINE t == task[x]
<1>1. /\ RoleOf(x, t) /\ accepted \subseteq Requests /\ cancelled = {} /\ t \in Task
      /\ task \in [Tasks -> Task] /\ t.pc = "release" /\ t.back # "start" /\ t.tries \in Nat
      /\ UNCHANGED <<queue, pause, cancelled, accepted>> /\ TriesOf(t)
  BY TaskKinds DEF Attended, Roles, Tries, ReleaseAndRetry, At, Sending, LocalsOK, log
<1>2. Left' = Left
  BY <1>1, SameLeft
<1>3. /\ Only(x) /\ task'[x].pc = "list" /\ task'[x].holding = None /\ task'[x].tries = t.tries + 1
      /\ task'[x].back = t.back /\ task'[x].run = t.run
  BY <1>1 DEF ReleaseAndRetry, Only, Task
<1>4. holder' = IF holder = t.holding THEN None ELSE holder
  BY DEF ReleaseAndRetry, Released
<1>5. t.tries <= Cardinality(Left)
  <2>1. IsFiniteSet(Left) /\ Cardinality(Left) \in Nat
    BY <1>1, LeftFinite, FS_CardinalityType
  <2>2. CASE t.tries = 0
    BY <2>1, <2>2
  <2>3. CASE t.head.id \in Left /\ t.tries <= 1 + Cardinality(Left \ {t.head.id})
    <3>1. Cardinality(Left \ {t.head.id}) = Cardinality(Left) - 1
      BY <2>1, <2>3, FS_RemoveElement
    <3> QED BY <1>1, <2>1, <2>3, <3>1
  <2> QED BY <1>1, <2>2, <2>3 DEF TriesOf
<1>6. TriesOf(task[x])'
  <2>1. Cardinality(Left) \in Nat
    BY <1>1, LeftFinite, FS_CardinalityType
  <2>2. t.tries + 1 <= 1 + Cardinality(Left)
    BY <1>1, <1>5, <2>1
  <2> QED BY <1>2, <1>3, <2>2 DEF TriesOf
<1>7. RoleOf(x, task'[x]) /\ Watches(task'[x])
  BY <1>1, <1>3 DEF RoleOf, Watches, Planning
<1>8. holder' # None => holder' = holder /\ ~Drives(x, t, holder) /\ ~Takes(t, holder)
  BY <1>1, <1>4 DEF Drives, Takes
<1> QED BY <1>1, <1>2, <1>3, <1>6, <1>7, <1>8, SameLeft, OneMoves

\* What the head has to wait for is read; the queue is paused.
LEMMA PauseAttends ==
  ASSUME FewRequests, Attended, QueueInv, QueueInv', NEW x \in Tasks,
         QueuePause(x) \/ SetQueuePause(x) \/ Park(x)
  PROVE  Attended'
<1> DEFINE t == task[x]
<1>1. /\ RoleOf(x, t) /\ accepted \subseteq Requests /\ cancelled = {} /\ t \in Task
      /\ task \in [Tasks -> Task] /\ t.pc \in {"pause", "setpause", "park"} /\ t.back # "start"
      /\ ~Sending(t) /\ UNCHANGED <<queue, cancelled, accepted>> /\ TriesOf(t) /\ (t.pc = "park" => pause # "none")
  BY TaskKinds DEF Attended, Roles, Tries, QueuePause, SetQueuePause, Park, At, Sending, LocalsOK, log, table
<1>2. Left' = Left /\ ~Takes(t, holder)
  BY <1>1, SameLeft DEF Takes
<1>3. CASE QueuePause(x)
  <2>1. PICK reason : task' = [task EXCEPT
              ![x].reason = IF pause = "none" THEN reason ELSE "none",
              ![x].pc = IF pause # "none" THEN "park"
                        ELSE IF reason # "none" THEN "setpause" ELSE "claim"]
    BY <1>3 DEF QueuePause
  <2>2. /\ Only(x) /\ task'[x].head = t.head /\ task'[x].back = t.back /\ task'[x].run = t.run
        /\ task'[x].holding = t.holding /\ task'[x].tries = t.tries
        /\ \/ task'[x].pc = "park" /\ pause # "none"
           \/ task'[x].pc = "setpause" /\ task'[x].reason # "none"
           \/ task'[x].pc = "claim"
    BY <1>1, <2>1 DEF Only, Task
  <2>3. t.pc = "pause" /\ UNCHANGED <<holder, pause>>
    BY <1>3 DEF QueuePause, At, table
  <2>4. RoleOf(x, task'[x])
    BY <1>1, <2>2 DEF RoleOf, Planning
  <2>5. TriesOf(task[x])'
    BY <1>1, <1>2, <2>2, <2>3 DEF TriesOf
  <2>6. (Drives(x, t, holder) => Drives(x, task'[x], holder)) /\ (Unheld' => Watches(task'[x]))
    BY <1>1, <2>2, <2>3 DEF Drives, Watches, Unheld, Planning
  <2> QED BY <1>1, <1>2, <2>2, <2>3, <2>4, <2>5, <2>6, SameLeft, OneMoves
<1>4. CASE SetQueuePause(x)
  <2>1. /\ t.pc = "setpause" /\ pause' = t.reason /\ t.reason # "none" /\ holder' = holder
    BY <1>1, <1>4 DEF SetQueuePause, At, RoleOf
  <2>2. Only(x) /\ task'[x].pc = "park" /\ SameLocals(t, task'[x])
    BY <1>4, GoesOn DEF SetQueuePause, Pcs
  <2>3. RoleOf(x, task'[x]) /\ TriesOf(task[x])'
    BY <1>1, <2>2 DEF RoleOf, TriesOf, SameLocals, Planning
  <2>4. (Drives(x, t, holder) => Drives(x, task'[x], holder)) /\ ~Unheld'
    BY <1>1, <2>1, <2>2 DEF Drives, Unheld, Planning, SameLocals
  <2> QED BY <1>1, <1>2, <2>1, <2>2, <2>3, <2>4, SameLeft, OneMoves
<1>5. CASE Park(x)
  <2>1. /\ t.pc = "park" /\ pause' = pause /\ pause # "none" /\ Return(x)
        /\ holder' = IF t.holding # None /\ holder = t.holding THEN None ELSE holder
    BY <1>1, <1>5 DEF Park, At, Released
  <2>2. Only(x) /\ RoleOf(x, task'[x]) /\ TriesOf(task[x])' /\ task'[x].pc # "park"
    BY <1>1, <2>1, ReturnsHome
  <2>3. ~Unheld' /\ (holder' # None => holder' = holder /\ ~Drives(x, t, holder))
    BY <1>1, <2>1 DEF Drives, Unheld
  <2> QED BY <1>1, <1>2, <2>1, <2>2, <2>3, SameLeft, OneMoves
<1> QED BY <1>3, <1>4, <1>5

\* The head is taken, or was taken by somebody else.
LEMMA PopAttends ==
  ASSUME FewRequests, Attended, QueueInv, QueueInv', NEW x \in Tasks, Pop(x)
  PROVE  Attended'
<1> DEFINE t == task[x]
           id == t.head.id
<1>1. /\ RoleOf(x, t) /\ accepted \subseteq Requests /\ cancelled = {} /\ t \in Task
      /\ task \in [Tasks -> Task] /\ t.pc = "pop" /\ t.back # "start"
      /\ UNCHANGED <<holder, pause, cancelled, accepted>> /\ TriesOf(t)
  BY TaskKinds DEF Attended, Roles, Tries, Pop, At, Sending, LocalsOK, log
<1>2. id \in accepted /\ t.tries <= 1 + Cardinality(Left \ {id})
  BY <1>1 DEF TriesOf
<1>3. IdsOf(queue') = Waiting \ {id}
  BY WithoutIds DEF Pop
<1>4. /\ accepted' \subseteq Requests /\ accepted \subseteq accepted' /\ Left \subseteq Left'
      /\ queue' # <<>> => queue # <<>>
  BY <1>1, <1>3, FewerLeft
<1>5. /\ Only(x) /\ task'[x].head = t.head /\ task'[x].back = t.back /\ task'[x].run = t.run
      /\ task'[x].holding = id /\ task'[x].tries = t.tries
      /\ \/ task'[x].pc = "input"
         \/ task'[x].pc = "release" /\ id \notin Waiting
  BY <1>1 DEF Pop, Only, Task
<1>6. RoleOf(x, task'[x])
  BY <1>1, <1>5 DEF RoleOf, Planning
<1>7. TriesOf(task[x])'
  <2>1. CASE task'[x].pc = "input"
    BY <2>1 DEF TriesOf
  <2>2. CASE task'[x].pc = "release" /\ id \notin Waiting
    <3>1. Left' = Left /\ id \in Left
      BY <1>1, <1>2, <1>3, <2>2 DEF Left, IdsOf, Waiting
    <3> QED BY <1>2, <1>5, <2>2, <3>1 DEF TriesOf
  <2> QED BY <1>5, <2>1, <2>2
<1>8. Watches(task'[x]) /\ ~Drives(x, t, holder) /\ (Takes(t, holder) => Takes(task'[x], holder))
  BY <1>1, <1>5 DEF Watches, Drives, Takes, Planning
<1> QED BY <1>1, <1>4, <1>5, <1>6, <1>7, <1>8, OneMoves

\* A message is in hand; a turn at work, over, and settling the queue.
LEMMA TurnAttends ==
  ASSUME FewRequests, Attended, QueueInv, QueueInv', NEW x \in Tasks,
         Launch(x) \/ Turn(x)
  PROVE  Attended'
<1> DEFINE t == task[x]
<1>1. /\ RoleOf(x, t) /\ accepted \subseteq Requests /\ cancelled = {} /\ t \in Task
      /\ task \in [Tasks -> Task] /\ t.pc \in {"input", "running", "ended"}
      /\ UNCHANGED <<holder, queue, pause, accepted>>
  BY TaskKinds DEF Attended, Roles, Launch, Turn, TurnCompletes, SettleQueue, TurnFails, TurnStops, At, log, table
<1>2. ~TurnStops(x)
  BY <1>1 DEF TurnStops
<1>3. /\ Only(x) /\ task'[x].run = t.run /\ task'[x].back = t.back /\ task'[x].head = t.head
      /\ \/ t.pc = "input" /\ task'[x].pc = "set"
         \/ t.pc \in {"running", "ended"} /\ task'[x].pc \in {"ended", "guard"}
  <2>1. CASE Launch(x)
    BY <2>1, GoesOn DEF Launch, At, SameLocals, Pcs
  <2>2. CASE TurnCompletes(x)
    BY <2>2, GoesOn DEF TurnCompletes, At, SameLocals, Pcs
  <2>3. CASE SettleQueue(x) \/ TurnFails(x)
    BY <1>1, <2>3 DEF SettleQueue, TurnFails, At, Only, Task
  <2> QED BY <1>2, <2>1, <2>2, <2>3 DEF Turn
<1>4. cancelled' = cancelled
  BY <1>2 DEF Launch, Turn, TurnCompletes, SettleQueue, TurnFails, table
<1>5. RoleOf(x, task'[x]) /\ TriesOf(task[x])'
  BY <1>1, <1>3, TaskKinds DEF RoleOf, TriesOf, Planning
<1>6. /\ Drives(x, t, holder) => Drives(x, task'[x], holder)
      /\ Takes(t, holder) => Takes(task'[x], holder)
      /\ Unheld' => Unheld /\ (Watches(t) => Watches(task'[x]))
  BY <1>1, <1>3 DEF Drives, Takes, Watches, Planning, Unheld
<1> QED BY <1>1, <1>3, <1>4, <1>5, <1>6, SameLeft, OneMoves

\* A turn lets go of the thread last: whoever claimed it for the same message looks again.
LEMMA FreeAttends ==
  ASSUME FewRequests, Attended, QueueInv, QueueInv', NEW x \in Tasks, ReleaseThreadRun(x)
  PROVE  Attended'
<1> DEFINE t == task[x]
<1>1. /\ RoleOf(x, t) /\ accepted \subseteq Requests /\ cancelled = {} /\ t.pc = "free"
      /\ UNCHANGED <<queue, pause, accepted>>
  BY DEF Attended, Roles, ReleaseThreadRun, At, log
<1>2. x = <<"turn", t.run>>
  BY <1>1, TaskKinds DEF RoleOf
<1>3. holder' = (IF holder = t.run THEN None ELSE holder) /\ cancelled' = cancelled
  BY <1>1 DEF ReleaseThreadRun, Released
<1>4. Only(x) /\ RoleOf(x, task'[x]) /\ TriesOf(task[x])' /\ task'[x].pc = "done"
  BY <1>1, IsOver DEF ReleaseThreadRun
<1>5. ~Drives(x, t, holder) /\ ~Takes(t, holder) /\ ~Watches(t)
  BY <1>1 DEF Drives, Takes, Watches, Planning
<1>6. Unheld' => (Unheld /\ ~Watches(t)) \/ \E z \in Tasks : z # x /\ Watches(task[z])
  <2>1. CASE holder = None
    BY <1>1, <1>5, <2>1 DEF Unheld
  <2>2. CASE holder # None /\ holder = t.run
    <3>1. PICK z \in Tasks : Drives(z, task[z], holder) \/ Takes(task[z], holder)
      BY <2>2 DEF Attended, Held
    <3>2. z # x /\ Takes(task[z], holder)
      BY <1>2, <1>5, <2>2, <3>1 DEF Drives
    <3> QED BY <3>2 DEF Takes, Watches
  <2>3. CASE holder # None /\ holder # t.run
    BY <1>3, <2>3 DEF Unheld
  <2> QED BY <2>1, <2>2, <2>3
<1> QED BY <1>1, <1>3, <1>4, <1>5, <1>6, SameLeft, OneMoves

-----------------------------------------------------------------------------
LEMMA AttendedInit == Init => Attended
<1> SUFFICES ASSUME Init PROVE Attended
  OBVIOUS
<1>1. \A x \in Tasks : task[x].pc = "idle" /\ task[x].back = "done"
  BY UnbornType DEF Init
<1>2. holder = None /\ queue = <<>> /\ cancelled = {} /\ accepted = {}
  BY DEF Init
<1> QED BY <1>1, <1>2 DEF Attended, Roles, RoleOf, Held, Watched, Unheld, Tries, TriesOf

\* What happened to the thread stays so.
LEMMA Disturbed ==
  ASSUME QueueInv, QueueInv', [Next]_vars, Undisturbed'
  PROVE  Undisturbed
<1>1. faults \in Nat /\ faults' = 0
  BY DEF QueueInv, TypeOK, Undisturbed
<1>2. scenario' = scenario
  BY DEF Next, vars
<1>3. faults' = faults \/ faults' = faults + 1
  <2>1. ASSUME NEW r \in Requests,
               \/ SendTurn(r) \/ ResumeQueue(r) \/ RemoveQueuedMessage(r) \/ MoveQueuedMessage(r)
               \/ ClearQueue(r) \/ InterruptQueuedMessage(r) \/ StopRun(r)
        PROVE  faults' = faults
    BY <2>1 DEF SendTurn, ResumeQueue, RemoveQueuedMessage, MoveQueuedMessage, ClearQueue,
                InterruptQueuedMessage, StopRun
  <2>2. ASSUME NEW x \in Tasks, NEW i, RunnerStart(x, i) \/ StartFails PROVE faults' = faults \/ faults' = faults + 1
    BY <2>2 DEF RunnerStart, StartFails, Fault
  <2>3. ASSUME NEW x \in Tasks, StartClaimed(x) \/ LaunchStart(x) PROVE faults' = faults \/ faults' = faults + 1
    BY <2>2, <2>3 DEF StartClaimed, LaunchStart
  <2>4. ASSUME NEW x \in Tasks, Handler(x), ~StartClaimed(x) PROVE faults' = faults
    BY <2>4 DEF Handler, Look, Judge, SettleDeadRun, ClaimFree, ClaimHeld, Unclaim, Enqueue, Unpause, TakeBack,
                ClearPause, MoveToHead, LiftPause, Peek, CheckLive, CheckWaiting, Cancel, CancelRecord, Kick,
                KickStale
  <2>5. ASSUME NEW x \in Tasks, Drain(x), ~LaunchStart(x) PROVE faults' = faults
    BY <2>5 DEF Drain, PlanGuard, ListQueue, ReleaseAndRetry, QueuePause, SetQueuePause, Park, Pop, Launch,
                RestoreMessage, RestorePause, RestoreRelease, ReleaseThreadRun
  <2>6. ASSUME NEW x \in Tasks, Turn(x) PROVE faults' = faults
    BY <2>6 DEF Turn, TurnCompletes, SettleQueue, TurnFails, TurnStops
  <2>7. Crash => faults' = faults + 1
    BY DEF Crash, Fault
  <2> QED BY <2>1, <2>3, <2>4, <2>5, <2>6, <2>7 DEF Next, Request, vars
<1>4. faults = 0
  BY <1>1, <1>3
<1> QED BY <1>2, <1>4 DEF Undisturbed, Kind

LEMMA AttendedNext ==
  ASSUME FewRequests, Undisturbed => Attended, QueueInv, QueueInv', [Next]_vars, Undisturbed'
  PROVE  Attended'
<1>1. Undisturbed /\ Attended /\ faults' = 0 /\ faults = 0
  BY Disturbed DEF Undisturbed
<1>2. CASE UNCHANGED vars
  <2>1. Attended' <=> Attended
    BY <1>2 DEF vars, table, log, Attended, Roles, RoleOf, Held, Watched, Unheld, Tries, TriesOf, Left, Waiting
  <2> QED BY <1>1, <2>1
<1>3. ASSUME NEW x \in Tasks, Handler(x) PROVE Attended'
  <2>1. RoleOf(x, task[x])
    BY <1>1 DEF Attended, Roles
  <2>2. ~(\/ Unclaim(x) \/ Unpause(x) \/ ClearPause(x) \/ MoveToHead(x) \/ LiftPause(x) \/ Peek(x)
          \/ CheckLive(x) \/ CheckWaiting(x) \/ Cancel(x) \/ CancelRecord(x))
    BY <2>1 DEF RoleOf, At, Unclaim, Unpause, ClearPause, MoveToHead, LiftPause, Peek, CheckLive,
       CheckWaiting, Cancel, CancelRecord
  <2> QED BY <1>1, <1>3, <2>2, SendAttends, ClaimAttends, StartClaimedAttends, EnqueueAttends, KickAttends
          DEF Handler
<1>4. ASSUME NEW x \in Tasks, Drain(x) PROVE Attended'
  <2>1. RoleOf(x, task[x])
    BY <1>1 DEF Attended, Roles
  <2>2. ~(RestoreMessage(x) \/ RestorePause(x) \/ RestoreRelease(x))
    BY <2>1 DEF RoleOf, At, RestoreMessage, RestorePause, RestoreRelease
  <2> QED BY <1>1, <1>4, <2>2, GuardAttends, ListAttends, ReleaseAttends, PauseAttends, PopAttends,
             TurnAttends, StartClaimedAttends, FreeAttends DEF Drain
<1>5. ~Crash
  BY <1>1 DEF Crash, Fault
<1> QED BY <1>1, <1>2, <1>3, <1>4, <1>5, RequestAttends, TurnAttends DEF Next, Request

(* Where clients only send, queue, remove and reorder, and nothing breaks, *)
(* no message is left behind in an idle thread (planDrain, drain): if a    *)
(* drain may lose more races than there are requests, so that the bound on *)
(* its attempts, MAX_DRAIN_ATTEMPTS, is not what ends it.                  *)
THEOREM DrainedByItself ==
  ASSUME FewRequests
  PROVE  Spec => []DrainsByItself
<1>1. Init => (Undisturbed => Attended)
  BY AttendedInit
<1>2. QueueInv /\ QueueInv' /\ (Undisturbed => Attended) /\ [Next]_vars => (Undisturbed => Attended)'
  BY AttendedNext
<1>3. QueueInv /\ (Undisturbed => Attended) => DrainsByItself
  <2> SUFFICES ASSUME Undisturbed, Attended, Quiet PROVE holder = None /\ (queue = <<>> \/ pause # "none")
    BY DEF DrainsByItself, Drained, Undisturbed
  <2>1. \A x \in Tasks : \A i : ~Drives(x, task[x], i) /\ ~Takes(task[x], i) /\ ~Watches(task[x])
    BY DEF Quiet, Drives, Takes, Watches, Planning
  <2> QED BY <2>1 DEF Attended, Held, Watched, Unheld
<1> QED BY <1>1, <1>2, <1>3, QueueHolds, PTL DEF Spec
==============================================================================
