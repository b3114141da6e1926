------------------------- MODULE TokenStream_proofs -------------------------
(***************************************************************************)
(* What the writers of a stream and its transport keep, for any number of  *)
(* writers, processes, frames and failures: the inductive invariant of     *)
(* the sink (SinkInv), and the properties that follow from it.             *)
(***************************************************************************)
EXTENDS TokenStream, SequenceTheorems, TLAPS

\* An append of a queue.
Queued == [items : Seq(Calls), end : BOOLEAN, by : Writers \cup {None}]

\* The types, and what goes with them.
Typed ==
  /\ backend \in Backends /\ place \in [Writers -> Procs] /\ place[Owner] = Home
  /\ writer \in [Writers -> Writer] /\ gather \in [Procs -> Gather]
  /\ rows \in Seq(Row) /\ landed \in Seq(Calls) /\ gen \in Nat /\ marked \in BOOLEAN /\ trouble \in Nat
  /\ \A p \in Procs : /\ gather[p].key = "none" <=> gather[p].held = <<>>
                      /\ gather[p].queue = <<>> => gather[p].work.stage = "none"
                      /\ backend = "memory" => gather[p].queue = <<>> /\ gather[p].held = <<>> /\ ~gather[p].failure
  /\ backend = "memory" => \A w \in Writers : place[w] = Home

\* Process p's gather becomes f.
Becomes(p, f) == f \in Gather /\ gather' = [gather EXCEPT ![p] = f]

\* All of g but the append under way.
SameBut(g, f) == /\ f.held = g.held /\ f.key = g.key /\ f.queue = g.queue /\ f.failure = g.failure
                 /\ f.attempted = g.attempted /\ f.calls = g.calls /\ f.lost = g.lost

-----------------------------------------------------------------------------
\* Facts about one process's gather.

\* What is behind an element that is appended stays where it was.
LEMMA Appended ==
  ASSUME NEW S, NEW s \in Seq(S), NEW e \in S
  PROVE  LET t == Append(s, e)
         IN  /\ t \in Seq(S) /\ Len(t) = Len(s) + 1 /\ t # <<>> /\ Len(s) \in Nat
             /\ DOMAIN t = DOMAIN s \cup {Len(t)} /\ t[Len(t)] = e
             /\ \A k \in DOMAIN s : t[k] = s[k] /\ k \in Nat /\ k <= Len(s) /\ k < Len(t)
OBVIOUS

\* An entry of a queue.
LEMMA QueuedType ==
  ASSUME NEW items \in Seq(Calls), NEW end \in BOOLEAN, NEW by \in Writers \cup {None}
  PROVE  [items |-> items, end |-> end, by |-> by] \in Queued
BY DEF Queued

\* Gather, its queue named.
LEMMA GatherQueue ==
  /\ Gather = [held : Seq(Calls), key : Kinds \cup {"none"}, queue : Seq(Queued), failure : BOOLEAN, work : Work,
               attempted : Nat, calls : Nat, lost : BOOLEAN]
  /\ Idle \in Work
BY DEF Gather, Queued, Idle, Work

FlushedQueue(g, by) ==
  IF g.held = <<>> THEN g.queue ELSE Append(g.queue, [items |-> g.held, end |-> FALSE, by |-> by])

\* The gathered frame, if any, goes to the end of the queue (#flush).
LEMMA FlushedIs ==
  ASSUME NEW g \in Gather, NEW by \in Writers \cup {None}, NEW f, f = Flushed(g, by)
  PROVE  /\ f \in Gather /\ f.held = <<>> /\ f.queue = FlushedQueue(g, by)
         /\ f.failure = g.failure /\ f.work = g.work /\ f.attempted = g.attempted /\ f.calls = g.calls
         /\ f.lost = g.lost
         /\ f.key = IF g.held = <<>> THEN g.key ELSE "none"
<1>1. CASE g.held = <<>>
  BY <1>1 DEF Flushed, FlushedQueue
<1>2. CASE g.held # <<>>
  <2> DEFINE queue == FlushedQueue(g, by)
  <2>1. [items |-> g.held, end |-> FALSE, by |-> by] \in Queued
    BY QueuedType, GatherQueue
  <2>2. queue \in Seq(Queued)
    <3>1. g.queue \in Seq(Queued)
      BY GatherQueue
    <3> QED BY <2>1, <3>1 DEF FlushedQueue
  <2>3. f = [g EXCEPT !.queue = queue, !.held = <<>>, !.key = "none"]
    BY <1>2 DEF Flushed, FlushedQueue
  <2>4. f = [held |-> <<>>, key |-> "none", queue |-> queue, failure |-> g.failure, work |-> g.work,
             attempted |-> g.attempted, calls |-> g.calls, lost |-> g.lost]
    BY <2>3, GatherQueue
  <2> HIDE DEF queue
  <2>5. f \in Gather
    BY <2>2, <2>4, GatherQueue
  <2> QED BY <1>2, <2>4, <2>5 DEF queue
<1> QED BY <1>1, <1>2

\* An append goes to the end of the queue (#enqueue).
LEMMA EnqueuedIs ==
  ASSUME NEW g \in Gather, NEW items \in Seq(Calls), NEW end \in BOOLEAN, NEW by \in Writers \cup {None}
  PROVE  LET f == Enqueued(g, items, end, by)
         IN  /\ f \in Gather /\ f.held = g.held /\ f.key = g.key /\ f.failure = g.failure /\ f.work = g.work
             /\ f.attempted = g.attempted /\ f.calls = g.calls /\ f.lost = g.lost
             /\ f.queue = Append(g.queue, [items |-> items, end |-> end, by |-> by])
<1> DEFINE f == Enqueued(g, items, end, by)
<1> DEFINE entry == [items |-> items, end |-> end, by |-> by]
           queue == Append(g.queue, entry)
<1>1. entry \in Queued
  BY QueuedType
<1>2. queue \in Seq(Queued)
  <2>1. g.queue \in Seq(Queued)
    BY GatherQueue
  <2> HIDE DEF entry
  <2> QED BY <1>1, <2>1
<1>3. f = [g EXCEPT !.queue = queue]
  BY DEF Enqueued
<1> HIDE DEF f
<1>4. f = [held |-> g.held, key |-> g.key, queue |-> queue, failure |-> g.failure, work |-> g.work,
           attempted |-> g.attempted, calls |-> g.calls, lost |-> g.lost]
  BY <1>3, GatherQueue
<1> HIDE DEF queue
<1>5. f \in Gather
  BY <1>2, <1>4, GatherQueue
<1> QED BY <1>4, <1>5 DEF queue, f

-----------------------------------------------------------------------------
(***************************************************************************)
(* The calls of a process stand in line: what landed, then what is queued, *)
(* then what is gathered, each piece and each piece before the next in the *)
(* order they were made.                                                   *)
(***************************************************************************)
Ordered(s)   == \A m, n \in DOMAIN s : m < n /\ s[m][1] = s[n][1] => s[m][2] < s[n][2]
Before(s, t) == \A m \in DOMAIN s, n \in DOMAIN t : s[m][1] = t[n][1] => s[m][2] < t[n][2]
Made(p, top, s) == \A n \in DOMAIN s : s[n][1] = p /\ s[n][2] \in 1 .. top

Piece(p, top, past, s) == Made(p, top, s) /\ Ordered(s) /\ Before(past, s)

InLine(p, top, past, queue, held) ==
  /\ Piece(p, top, past, held)
  /\ \A k \in DOMAIN queue : Piece(p, top, past, queue[k].items) /\ Before(queue[k].items, held)
  /\ \A k, l \in DOMAIN queue : k < l => Before(queue[k].items, queue[l].items)

Lines ==
  /\ \A p \in Procs : InLine(p, gather[p].calls, landed, gather[p].queue, gather[p].held)
  /\ Ordered(landed)
  /\ \A n \in DOMAIN landed : landed[n][2] \in 1 .. gather[landed[n][1]].calls

\* A piece of a process's calls is still one when the process makes more of them.
LEMMA PieceGrows ==
  ASSUME NEW p, NEW top \in Nat, NEW high \in Nat, top <= high, NEW past, NEW s \in Seq(Calls), Piece(p, top, past, s)
  PROVE  Piece(p, high, past, s)
BY DEF Piece, Made

\* A new call comes after all that was made before.
LEMMA NewCall ==
  ASSUME NEW p \in Procs, NEW top \in Nat, NEW s \in Seq(Calls), Made(p, top, s),
         NEW past \in Seq(Calls), \A n \in DOMAIN past : past[n][1] = p => past[n][2] <= top
  PROVE  /\ <<p, top + 1>> \in Calls
         /\ Before(s, << <<p, top + 1>> >>)
         /\ Piece(p, top + 1, past, << <<p, top + 1>> >>)
<1> DEFINE new == << <<p, top + 1>> >>
<1>1. <<p, top + 1>> \in Calls
  BY DEF Calls
<1>2. DOMAIN new = {1} /\ new[1][1] = p /\ new[1][2] = top + 1
  OBVIOUS
<1>3. \A n \in DOMAIN s : s[n][1] = p => s[n][2] <= top /\ s[n][2] \in Nat
  BY DEF Made
<1>4. \A n \in DOMAIN past : past[n][2] \in Nat
  BY DEF Calls
<1> HIDE DEF new
<1>5. Before(s, new)
  BY <1>2, <1>3 DEF Before, Made
<1>6. Before(past, new)
  BY <1>2, <1>4 DEF Before
<1>7. Made(p, top + 1, new) /\ Ordered(new)
  BY <1>2 DEF Made, Ordered
<1> QED BY <1>1, <1>5, <1>6, <1>7 DEF Piece, new

\* Another entry behind the queue, with nothing gathered.
LEMMA EntryInLine ==
  ASSUME NEW p, NEW top \in Nat, NEW high \in Nat, top <= high, NEW past, NEW queue \in Seq(Queued),
         InLine(p, top, past, queue, <<>>), NEW entry \in Queued, Piece(p, high, past, entry.items),
         \A k \in DOMAIN queue : Before(queue[k].items, entry.items)
  PROVE  InLine(p, high, past, Append(queue, entry), <<>>)
<1> DEFINE longer == Append(queue, entry)
<1>1. /\ DOMAIN longer = DOMAIN queue \cup {Len(queue) + 1} /\ longer[Len(queue) + 1] = entry
      /\ \A k \in DOMAIN queue : longer[k] = queue[k] /\ k \in 1 .. Len(queue)
  OBVIOUS
<1>2. \A k \in DOMAIN queue : queue[k].items \in Seq(Calls)
  <2>1. \A k \in DOMAIN queue : queue[k] \in Queued
    OBVIOUS
  <2> QED BY <2>1 DEF Queued
<1> HIDE DEF longer
<1>3. \A s : Before(s, <<>>)
  BY DEF Before
<1>4. Piece(p, high, past, <<>>)
  BY DEF Piece, Made, Ordered, Before
<1>5. \A k \in DOMAIN longer : Piece(p, high, past, longer[k].items)
  <2> TAKE k \in DOMAIN longer
  <2>1. CASE k \in DOMAIN queue
    BY <1>1, <1>2, <2>1, PieceGrows DEF InLine
  <2> QED BY <1>1, <2>1
<1>6. ASSUME NEW k \in DOMAIN longer, NEW l \in DOMAIN longer, k < l PROVE Before(longer[k].items, longer[l].items)
  <2>1. k \in DOMAIN queue
    BY <1>1, <1>6
  <2>2. CASE l \in DOMAIN queue
    BY <1>1, <1>6, <2>1, <2>2 DEF InLine
  <2>3. CASE l = Len(queue) + 1
    BY <1>1, <2>1, <2>3
  <2> QED BY <1>1, <2>2, <2>3
<1> QED BY <1>3, <1>4, <1>5, <1>6 DEF InLine, longer

\* The gathered frame is behind the queue, so that queueing it keeps the calls in line.
LEMMA FlushInLine ==
  ASSUME NEW p, NEW g \in Gather, NEW past, InLine(p, g.calls, past, g.queue, g.held), NEW by \in Writers \cup {None}
  PROVE  InLine(p, g.calls, past, FlushedQueue(g, by), <<>>)
<1>1. CASE g.held = <<>>
  BY <1>1 DEF FlushedQueue
<1>2. CASE g.held # <<>>
  <2> DEFINE entry == [items |-> g.held, end |-> FALSE, by |-> by]
  <2>1. entry \in Queued /\ entry.items = g.held
    BY QueuedType, GatherQueue
  <2>2. g.queue \in Seq(Queued) /\ g.calls \in Nat
    BY GatherQueue
  <2>3. InLine(p, g.calls, past, g.queue, <<>>)
    BY DEF InLine, Piece, Made, Ordered, Before
  <2>4. Piece(p, g.calls, past, g.held) /\ \A k \in DOMAIN g.queue : Before(g.queue[k].items, g.held)
    BY DEF InLine
  <2> HIDE DEF entry
  <2>5. InLine(p, g.calls, past, Append(g.queue, entry), <<>>)
    BY <2>1, <2>2, <2>3, <2>4, EntryInLine
  <2> QED BY <1>2, <2>5 DEF FlushedQueue, entry
<1> QED BY <1>1, <1>2

\* The head of the queue is taken off, landed or not.
LEMMA TailInLine ==
  ASSUME NEW p, NEW top, NEW past, NEW queue \in Seq(Queued), queue # <<>>, NEW held, InLine(p, top, past, queue, held)
  PROVE  InLine(p, top, past, Tail(queue), held)
<1> DEFINE rest == Tail(queue)
<1>1. \A k \in DOMAIN rest : k + 1 \in DOMAIN queue /\ rest[k] = queue[k + 1] /\ k \in Nat
  OBVIOUS
<1> HIDE DEF rest
<1>2. \A k \in DOMAIN rest : Piece(p, top, past, rest[k].items) /\ Before(rest[k].items, held)
  BY <1>1 DEF InLine
<1>3. \A k, l \in DOMAIN rest : k < l => Before(rest[k].items, rest[l].items)
  <2> TAKE k, l \in DOMAIN rest
  <2> HAVE k < l
  <2>1. k + 1 \in DOMAIN queue /\ l + 1 \in DOMAIN queue /\ k + 1 < l + 1 /\ rest[k] = queue[k + 1] /\ rest[l] = queue[l + 1]
    BY <1>1
  <2> QED BY <2>1 DEF InLine
<1> QED BY <1>2, <1>3 DEF InLine, rest

\* What is behind both what landed and what lands is behind the two of them.
LEMMA LandedPiece ==
  ASSUME NEW past \in Seq(Calls), NEW items \in Seq(Calls), NEW s, NEW p, NEW top,
         Piece(p, top, past, s), Before(items, s)
  PROVE  Piece(p, top, past \o items, s)
<1> DEFINE longer == past \o items
<1>1. \A n \in DOMAIN longer : \/ n \in DOMAIN past /\ longer[n] = past[n]
                               \/ n - Len(past) \in DOMAIN items /\ longer[n] = items[n - Len(past)]
  OBVIOUS
<1> HIDE DEF longer
<1>2. Before(longer, s)
  BY <1>1 DEF Before, Piece
<1> QED BY <1>2 DEF Piece, longer

\* Calls that land behind those of their process landed in order.
LEMMA LandedOrdered ==
  ASSUME NEW past \in Seq(Calls), NEW items \in Seq(Calls), Ordered(past), Ordered(items), Before(past, items)
  PROVE  Ordered(past \o items)
<1> DEFINE longer == past \o items
<1>1. \A n \in DOMAIN longer : \/ n \in DOMAIN past /\ longer[n] = past[n]
                               \/ n - Len(past) \in DOMAIN items /\ longer[n] = items[n - Len(past)]
  OBVIOUS
<1>2. \A n \in DOMAIN past : n \in 1 .. Len(past)
  OBVIOUS
<1>3. DOMAIN longer \subseteq Nat /\ Len(past) \in Nat /\ \A n \in DOMAIN items : n > 0 /\ n \in Nat
  OBVIOUS
<1> HIDE DEF longer
<1>4. ASSUME NEW m \in DOMAIN longer, NEW n \in DOMAIN longer, m < n, longer[m][1] = longer[n][1]
      PROVE  longer[m][2] < longer[n][2]
  <2>1. CASE m \in DOMAIN past /\ longer[m] = past[m] /\ n \in DOMAIN past /\ longer[n] = past[n]
    BY <1>4, <2>1 DEF Ordered
  <2>2. CASE m \in DOMAIN past /\ longer[m] = past[m] /\ n - Len(past) \in DOMAIN items /\ longer[n] = items[n - Len(past)]
    BY <1>4, <2>2 DEF Before
  <2>3. CASE m - Len(past) \in DOMAIN items /\ longer[m] = items[m - Len(past)] /\ n - Len(past) \in DOMAIN items /\ longer[n] = items[n - Len(past)]
    <3>1. m - Len(past) < n - Len(past)
      BY <1>3, <1>4
    <3> QED BY <1>4, <2>3, <3>1 DEF Ordered
  <2>4. CASE m - Len(past) \in DOMAIN items /\ n \in DOMAIN past
    BY <1>2, <1>3, <1>4, <2>4
  <2> QED BY <1>1, <2>1, <2>2, <2>3, <2>4
<1> QED BY <1>4 DEF Ordered, longer

\* The head of the queue lands: what is left of the line is behind it.
LEMMA LandsInLine ==
  ASSUME NEW p, NEW top, NEW past \in Seq(Calls), NEW queue \in Seq(Queued), queue # <<>>, NEW held,
         InLine(p, top, past, queue, held)
  PROVE  InLine(p, top, past \o Head(queue).items, Tail(queue), held)
<1> DEFINE rest == Tail(queue)
           items == Head(queue).items
<1>1. \A k \in DOMAIN rest : k + 1 \in DOMAIN queue /\ rest[k] = queue[k + 1] /\ 1 < k + 1
  OBVIOUS
<1>2. items \in Seq(Calls) /\ 1 \in DOMAIN queue /\ queue[1].items = items
  <2>1. queue[1] \in Queued /\ Head(queue) = queue[1] /\ 1 \in DOMAIN queue
    OBVIOUS
  <2> QED BY <2>1 DEF Queued
<1>3. InLine(p, top, past, rest, held)
  BY TailInLine
<1> HIDE DEF rest, items
<1>4. \A k \in DOMAIN rest : Before(items, rest[k].items)
  BY <1>1, <1>2 DEF InLine
<1>5. Before(items, held)
  BY <1>2 DEF InLine
<1>6. \A k \in DOMAIN rest : Piece(p, top, past \o items, rest[k].items)
  <2> TAKE k \in DOMAIN rest
  <2>1. Piece(p, top, past, rest[k].items)
    BY <1>3 DEF InLine
  <2> QED BY <1>2, <1>4, <2>1, LandedPiece
<1>7. Piece(p, top, past \o items, held)
  <2>1. Piece(p, top, past, held)
    BY <1>3 DEF InLine
  <2> QED BY <1>2, <1>5, <2>1, LandedPiece
<1> QED BY <1>3, <1>6, <1>7 DEF InLine, rest, items

\* What a process lands is no matter for another's line.
LEMMA OthersInLine ==
  ASSUME NEW p, NEW q, p # q, NEW top, NEW past \in Seq(Calls), NEW items \in Seq(Calls), NEW high, Made(p, high, items),
         NEW queue, NEW held, InLine(q, top, past, queue, held)
  PROVE  InLine(q, top, past \o items, queue, held)
<1>1. \A s : Made(q, top, s) => Before(items, s)
  BY DEF Made, Before
<1>2. \A s : Piece(q, top, past, s) => Piece(q, top, past \o items, s)
  BY <1>1, LandedPiece DEF Piece
<1> QED BY <1>2 DEF InLine

-----------------------------------------------------------------------------
\* Unless something was lost, a call that was made landed or is still in line.
Has(s, c) == \E n \in DOMAIN s : s[n] = c
Kept(past, queue, held, c) == Has(past, c) \/ Has(held, c) \/ \E k \in DOMAIN queue : Has(queue[k].items, c)

Whole == \A p \in Procs : ~gather[p].lost =>
           \A n \in 1 .. gather[p].calls : Kept(landed, gather[p].queue, gather[p].held, <<p, n>>)

\* A queue that gets one more entry keeps its calls and those of the entry.
LEMMA EntryKept ==
  ASSUME NEW past, NEW queue \in Seq(Queued), NEW entry \in Queued, NEW held, NEW c
  PROVE  Kept(past, queue, held, c) \/ Has(entry.items, c) => Kept(past, Append(queue, entry), held, c)
<1> DEFINE longer == Append(queue, entry)
<1>1. /\ DOMAIN longer = DOMAIN queue \cup {Len(queue) + 1} /\ longer[Len(queue) + 1] = entry
      /\ \A k \in DOMAIN queue : longer[k] = queue[k]
  OBVIOUS
<1> HIDE DEF longer
<1>2. Kept(past, queue, held, c) \/ Has(entry.items, c) => Kept(past, longer, held, c)
  BY <1>1, Zenon DEF Kept
<1> QED BY <1>2 DEF longer

\* Queueing the gathered frame keeps its calls.
LEMMA FlushKept ==
  ASSUME NEW g \in Gather, NEW by \in Writers \cup {None}, NEW past, NEW c, Kept(past, g.queue, g.held, c)
  PROVE  Kept(past, FlushedQueue(g, by), <<>>, c)
<1>1. CASE g.held = <<>>
  BY <1>1 DEF FlushedQueue
<1>2. CASE g.held # <<>>
  <2> DEFINE entry == [items |-> g.held, end |-> FALSE, by |-> by]
  <2>1. entry \in Queued /\ entry.items = g.held /\ g.queue \in Seq(Queued)
    BY QueuedType, GatherQueue
  <2>2. Kept(past, g.queue, <<>>, c) \/ Has(g.held, c)
    BY DEF Kept
  <2> HIDE DEF entry
  <2>3. Kept(past, Append(g.queue, entry), <<>>, c)
    BY <2>1, <2>2, EntryKept
  <2> QED BY <1>2, <2>3 DEF FlushedQueue, entry
<1> QED BY <1>1, <1>2

\* What landed, when more lands.
LEMMA LandedHas ==
  ASSUME NEW past \in Seq(Calls), NEW items \in Seq(Calls), NEW c
  PROVE  Has(past \o items, c) <=> Has(past, c) \/ Has(items, c)
<1> DEFINE longer == past \o items
<1>1. /\ \A n \in DOMAIN longer : \/ n \in DOMAIN past /\ longer[n] = past[n]
                                  \/ n - Len(past) \in DOMAIN items /\ longer[n] = items[n - Len(past)]
      /\ \A n \in DOMAIN past : n \in DOMAIN longer /\ longer[n] = past[n]
      /\ \A n \in DOMAIN items : n + Len(past) \in DOMAIN longer /\ longer[n + Len(past)] = items[n]
  OBVIOUS
<1> HIDE DEF longer
<1>2. Has(longer, c) <=> Has(past, c) \/ Has(items, c)
  BY <1>1 DEF Has
<1> QED BY <1>2 DEF longer

\* A call of the head of the queue is kept by what landed.
LEMMA LandsKept ==
  ASSUME NEW past \in Seq(Calls), NEW queue \in Seq(Queued), queue # <<>>, NEW held, NEW c, Kept(past, queue, held, c)
  PROVE  Kept(past \o Head(queue).items, Tail(queue), held, c)
<1> DEFINE rest == Tail(queue)
           items == Head(queue).items
<1>1. \A k \in DOMAIN queue : queue[k].items = items \/ (k - 1 \in DOMAIN rest /\ rest[k - 1] = queue[k])
  OBVIOUS
<1>2. items \in Seq(Calls)
  <2>1. Head(queue) \in Queued
    OBVIOUS
  <2> QED BY <2>1 DEF Queued
<1> HIDE DEF rest, items
<1>3. Has(past \o items, c) <=> Has(past, c) \/ Has(items, c)
  BY <1>2, LandedHas
<1>4. Kept(past \o items, rest, held, c)
  BY <1>1, <1>3, Zenon DEF Kept
<1> QED BY <1>4 DEF rest, items

-----------------------------------------------------------------------------
\* Process p makes, gathers, queues or loses calls, and none lands.
LEMMA PendingKeeps ==
  ASSUME Typed, Lines, Whole, NEW p \in Procs, NEW f, Becomes(p, f), landed' = landed, gather[p].calls <= f.calls,
         InLine(p, f.calls, landed, f.queue, f.held),
         ~f.lost => \A n \in 1 .. f.calls : Kept(landed, f.queue, f.held, <<p, n>>)
  PROVE  Lines' /\ Whole'
<1>1. gather'[p] = f /\ \A q \in Procs : q # p => gather'[q] = gather[q]
  BY DEF Becomes, Typed
<1>2. \A q \in Procs : InLine(q, gather'[q].calls, landed, gather'[q].queue, gather'[q].held)
  BY <1>1 DEF Lines
<1>3. \A n \in DOMAIN landed : landed[n][2] \in 1 .. gather'[landed[n][1]].calls
  <2> TAKE n \in DOMAIN landed
  <2>1. landed[n][1] \in Procs /\ landed[n][2] \in Nat
    BY DEF Typed, Calls
  <2>2. f.calls \in Nat /\ gather[p].calls \in Nat
    BY DEF Typed, Becomes, Gather
  <2>3. landed[n][2] \in 1 .. gather[landed[n][1]].calls
    BY DEF Lines
  <2>4. CASE landed[n][1] = p
    BY <1>1, <2>1, <2>2, <2>3, <2>4
  <2>5. CASE landed[n][1] # p
    BY <1>1, <2>1, <2>3, <2>5
  <2> QED BY <2>4, <2>5
<1>4. Lines'
  BY <1>2, <1>3 DEF Lines
<1>5. Whole'
  BY <1>1 DEF Whole
<1> QED BY <1>4, <1>5

\* The head of p's queue lands.
LEMMA LandKeeps ==
  ASSUME Typed, Lines, Whole, NEW p \in Procs, NEW f, Becomes(p, f), gather[p].queue # <<>>,
         landed' = landed \o Head(gather[p].queue).items, f.calls = gather[p].calls,
         f.queue = Tail(gather[p].queue), f.held = gather[p].held, gather[p].lost => f.lost
  PROVE  Lines' /\ Whole'
<1> DEFINE items == Head(gather[p].queue).items
<1>1. gather'[p] = f /\ \A q \in Procs : q # p => gather'[q] = gather[q]
  BY DEF Becomes, Typed
<1>2. \A q \in Procs : gather[q].queue \in Seq(Queued) /\ gather[q].calls \in Nat /\ gather[q].held \in Seq(Calls)
  BY GatherQueue DEF Typed
<1>3. items \in Seq(Calls) /\ Piece(p, gather[p].calls, landed, items)
  <2>1. Head(gather[p].queue) \in Queued /\ 1 \in DOMAIN gather[p].queue /\ gather[p].queue[1] = Head(gather[p].queue)
    BY <1>2
  <2> QED BY <2>1 DEF Queued, Lines, InLine
<1>4. landed \in Seq(Calls)
  BY DEF Typed
<1> HIDE DEF items
<1>5. ASSUME NEW q \in Procs PROVE InLine(q, gather'[q].calls, landed', gather'[q].queue, gather'[q].held)
  <2>1. InLine(q, gather[q].calls, landed, gather[q].queue, gather[q].held)
    BY DEF Lines
  <2>2. CASE q = p
    BY <1>1, <1>2, <1>4, <2>1, <2>2, LandsInLine
  <2>3. CASE q # p
    <3>1. InLine(q, gather[q].calls, landed \o items, gather[q].queue, gather[q].held)
      BY <1>2, <1>3, <1>4, <2>1, <2>3, OthersInLine DEF Piece
    <3> QED BY <1>1, <2>3, <3>1 DEF items
  <2> QED BY <2>2, <2>3
<1>6. Ordered(landed \o items)
  BY <1>3, <1>4, LandedOrdered DEF Piece, Lines
<1>7. ASSUME NEW n \in DOMAIN (landed \o items)
      PROVE  (landed \o items)[n][2] \in 1 .. gather'[(landed \o items)[n][1]].calls
  <2>1. \A q \in Procs : gather'[q].calls = gather[q].calls
    BY <1>1
  <2>2. CASE n \in DOMAIN landed /\ (landed \o items)[n] = landed[n]
    <3>1. landed[n][1] \in Procs
      BY <2>2 DEF Typed, Calls
    <3> QED BY <2>1, <2>2, <3>1 DEF Lines
  <2>3. CASE n - Len(landed) \in DOMAIN items /\ (landed \o items)[n] = items[n - Len(landed)]
    BY <1>3, <2>1, <2>3 DEF Piece, Made
  <2>4. \/ n \in DOMAIN landed /\ (landed \o items)[n] = landed[n]
        \/ n - Len(landed) \in DOMAIN items /\ (landed \o items)[n] = items[n - Len(landed)]
    BY <1>3, <1>4
  <2> QED BY <2>2, <2>3, <2>4
<1>8. Lines'
  BY <1>5, <1>6, <1>7 DEF Lines, items
<1>9. ASSUME NEW q \in Procs, ~gather'[q].lost, NEW n \in 1 .. gather'[q].calls
      PROVE  Kept(landed', gather'[q].queue, gather'[q].held, <<q, n>>)
  <2>1. Kept(landed, gather[q].queue, gather[q].held, <<q, n>>)
    BY <1>1, <1>9 DEF Whole
  <2>2. CASE q = p
    BY <1>1, <1>2, <1>4, <2>1, <2>2, LandsKept
  <2>3. CASE q # p
    <3>1. Has(landed, <<q, n>>) => Has(landed \o items, <<q, n>>)
      BY <1>3, <1>4, LandedHas
    <3>2. Kept(landed \o items, gather[q].queue, gather[q].held, <<q, n>>)
      BY <2>1, <3>1 DEF Kept
    <3> QED BY <1>1, <2>3, <3>2 DEF items
  <2> QED BY <2>2, <2>3
<1> QED BY <1>8, <1>9 DEF Whole

-----------------------------------------------------------------------------
(***************************************************************************)
(* The writers and what is pending.                                        *)
(***************************************************************************)
Waiting(w)  == writer[w].at \in {"writing", "flushing", "ending"}
Knows(w)    == writer[w].broken \/ writer[w].at = "dead"
Covers(w, g) == writer[w].at \in {"flushing", "ending"} /\ g.held = <<>> /\ writer[w].until = LastQueued(g)
Minds(w, g) == writer[w].at \in {"open", "writing"} \/ Knows(w) \/ Covers(w, g)
Busy(g)     == g.queue # <<>> \/ g.held # <<>> \/ g.failure
Over        == writer[Owner].at \in {"ending", "done"}

\* Whoever knows of a loss has one to tell of.
Blamed ==
  /\ \A p \in Procs : gather[p].failure => gather[p].lost
  /\ \A w \in Writers : Knows(w) => gather[place[w]].lost

\* An awaited entry has its writer waiting for it, or broken already.
Awaited ==
  \A p \in Procs : \A k \in DOMAIN gather[p].queue : \A w \in Writers : gather[p].queue[k].by = w =>
    place[w] = p /\ (writer[w].broken \/ (Waiting(w) /\ writer[w].until >= gather[p].attempted + k))

\* Nothing stays pending that no writer is going to flush or wait for, but after a loss.
Minded == \A p \in Procs : Busy(gather[p]) => \E w \in Writers : place[w] = p /\ Minds(w, gather[p])

\* A loss is known to a writer, or about to be.
Reported ==
  \A p \in Procs : gather[p].lost => gather[p].failure \/ \E w \in Writers : place[w] = p /\ Knows(w)

\* The end is queued last, when the delegates have stopped.
EndQueued ==
  \A p \in Procs : \A k \in DOMAIN gather[p].queue : gather[p].queue[k].end =>
    /\ p = Home /\ k = Len(gather[p].queue) /\ gather[p].held = <<>> /\ gather[p].queue[k].items = <<>> /\ Over

OwnerLast == writer[Owner].at # "flushing" /\ (Over => \A w \in Writers \ {Owner} : Stopped(w))

Marking ==
  \A p \in Procs : gather[p].work.stage = "marked" =>
    backend = "redis" /\ gather[p].queue # <<>> /\ Head(gather[p].queue).end /\ marked

\* Once the end is there and nothing was lost, nothing is pending but its announcement.
Settles(g) == g.held = <<>> /\ (g.queue # <<>> => Head(g.queue).end /\ g.work.stage = "marked")

Sealed ==
  ~Lost /\ HasEnd => /\ Over /\ \A p \in Procs : Settles(gather[p])
                     /\ \A n \in DOMAIN rows : EndRow(rows[n]) => n = Len(rows)

\* The inductive invariant of the sink.
SinkInv == Typed /\ Lines /\ Whole /\ Blamed /\ Awaited /\ Minded /\ Reported
           /\ EndQueued /\ OwnerLast /\ Marking /\ Sealed

-----------------------------------------------------------------------------
\* What an attempted append does.
Rejects(w, p, ok) == place[w] = p /\ Waiting(w) /\ ~ok /\ Head(gather[p].queue).by = w
Ends(w, p)        == place[w] = p /\ Waiting(w) /\ writer[w].until <= gather[p].attempted + 1
Failing(p, ok)    == gather[p].failure \/ (~ok /\ Head(gather[p].queue).by = None)

Tried(p, ok, f) ==
  /\ Becomes(p, f)
  /\ f.held = gather[p].held /\ f.key = gather[p].key /\ f.calls = gather[p].calls /\ f.queue = Tail(gather[p].queue)
  /\ f.work = Idle /\ f.attempted = gather[p].attempted + 1 /\ f.lost = (gather[p].lost \/ ~ok)
  /\ writer' \in [Writers -> Writer]
  /\ \A w \in Writers :
       /\ ~Rejects(w, p, ok) /\ ~Ends(w, p) => writer'[w] = writer[w]
       /\ Rejects(w, p, ok) \/ Ends(w, p) =>
            /\ writer'[w].at = IF writer[w].at = "writing" THEN "open" ELSE "done"
            /\ writer'[w].broken <=> \/ writer[w].broken \/ Rejects(w, p, ok)
                                     \/ (Ends(w, p) /\ writer[w].at # "writing" /\ Failing(p, ok))
  /\ f.failure => /\ Failing(p, ok)
                  /\ \A w \in Writers : Ends(w, p) /\ writer[w].at # "writing" => Rejects(w, p, ok)
  /\ Failing(p, ok) /\ ~f.failure => \E w \in Writers : place[w] = p /\ writer'[w].broken

\* The writers whose await an attempted append ends: the rejection goes to who queued it, what nobody
\* was there for to whoever waits for the queue.
LEMMA SettledIs ==
  ASSUME Typed, NEW p \in Procs, NEW ok \in BOOLEAN, NEW by, NEW g \in Gather, NEW now, now = Settled(p, g, ok, by)
  PROVE  /\ now \in [Writers -> Writer]
         /\ \A w \in Writers :
              LET rejects == place[w] = p /\ Waiting(w) /\ ~ok /\ by = w
                  ends == place[w] = p /\ Waiting(w) /\ writer[w].until <= g.attempted
              IN  /\ ~rejects /\ ~ends => now[w] = writer[w]
                  /\ rejects \/ ends =>
                       /\ now[w].at = IF writer[w].at = "writing" THEN "open" ELSE "done"
                       /\ now[w].broken <=> writer[w].broken \/ rejects \/ (ends /\ writer[w].at # "writing" /\ g.failure)
<1> DEFINE Rej(w) == place[w] = p /\ Waiting(w) /\ ~ok /\ by = w
           End(w) == place[w] = p /\ Waiting(w) /\ writer[w].until <= g.attempted
           at(w) == IF writer[w].at = "writing" THEN "open" ELSE "done"
           broken(w) == writer[w].broken \/ Rej(w) \/ (End(w) /\ writer[w].at # "writing" /\ g.failure)
           One(w) == IF ~(Rej(w) \/ End(w)) THEN writer[w] ELSE [at |-> at(w), broken |-> broken(w), until |-> 0]
<1>1. \A w \in Writers : writer[w] \in Writer
  BY DEF Typed
<1>2. now = [w \in Writers |-> One(w)]
  <2> DEFINE Two(w) == [writer[w] EXCEPT !.at = IF @ = "writing" THEN "open" ELSE "done", !.until = 0,
                                         !.broken = @ \/ Rej(w) \/ (End(w) /\ writer[w].at # "writing" /\ g.failure)]
  <2>1. now = [w \in Writers |-> IF ~(Rej(w) \/ End(w)) THEN writer[w] ELSE Two(w)]
    BY DEF Settled, Waiting
  <2>2. \A w \in Writers : Two(w) = [at |-> at(w), broken |-> broken(w), until |-> 0]
    <3> TAKE w \in Writers
    <3>1. writer[w] \in Writer
      BY <1>1
    <3>2. Two(w) = [writer[w] EXCEPT !.at = at(w), !.until = 0, !.broken = broken(w)]
      OBVIOUS
    <3> HIDE DEF at, broken, Two
    <3> QED BY <3>1, <3>2 DEF Writer
  <2> HIDE DEF Two, Rej, End, at, broken
  <2> QED BY <2>1, <2>2
<1>3. \A w \in Writers : One(w) \in Writer
  <2> TAKE w \in Writers
  <2>1. at(w) \in {"open", "done"} /\ broken(w) \in BOOLEAN
    BY <1>1 DEF Writer, Gather
  <2> HIDE DEF at, broken
  <2> QED BY <1>1, <2>1 DEF Writer
<1>4. \A w \in Writers : now[w] = One(w)
  BY <1>2
<1>5. now \in [Writers -> Writer]
  BY <1>2, <1>3
<1>6. \A w \in Writers : Rej(w) \/ End(w) => now[w].at = at(w) /\ now[w].broken = broken(w)
  <2> TAKE w \in Writers
  <2> HAVE Rej(w) \/ End(w)
  <2> HIDE DEF at, broken, Rej, End
  <2>1. now[w] = [at |-> at(w), broken |-> broken(w), until |-> 0]
    BY <1>4
  <2> QED BY <2>1
<1> QED BY <1>4, <1>5, <1>6

\* A gather whose head was attempted.
LEMMA TriedType ==
  ASSUME NEW g \in Gather, g.queue # <<>>, NEW lost \in BOOLEAN, NEW failure \in BOOLEAN
  PROVE  [held |-> g.held, key |-> g.key, queue |-> Tail(g.queue), failure |-> failure, work |-> Idle,
          attempted |-> g.attempted + 1, calls |-> g.calls, lost |-> lost] \in Gather
<1> DEFINE rest == Tail(g.queue)
<1>1. rest \in Seq(Queued)
  <2>1. g.queue \in Seq(Queued)
    BY GatherQueue
  <2> QED BY <2>1
<1> HIDE DEF rest
<1>2. g.attempted + 1 \in Nat
  BY GatherQueue
<1>3. [held |-> g.held, key |-> g.key, queue |-> rest, failure |-> failure, work |-> Idle,
       attempted |-> g.attempted + 1, calls |-> g.calls, lost |-> lost] \in Gather
  BY <1>1, <1>2, GatherQueue
<1> QED BY <1>3 DEF rest

\* An attempted append leaves the queue, and a failure is raised or stays.
LEMMA AttemptedIs ==
  ASSUME Typed, NEW p \in Procs, NEW ok \in BOOLEAN, gather[p].queue # <<>>, Attempted(p, ok)
  PROVE  \E f : Tried(p, ok, f)
<1> DEFINE g == gather[p]
           head == Head(g.queue)
<1>1. g \in Gather
  BY DEF Typed
<1>2. PICK lost \in BOOLEAN : lost = (g.lost \/ ~ok)
  OBVIOUS
<1>3. PICK failing \in BOOLEAN : failing = Failing(p, ok)
  BY DEF Failing
<1> DEFINE next == [held |-> g.held, key |-> g.key, queue |-> Tail(g.queue), failure |-> failing, work |-> Idle,
                    attempted |-> g.attempted + 1, calls |-> g.calls, lost |-> lost]
           now == Settled(p, next, ok, head.by)
           raised == \E w \in Writers : /\ writer[w].at \in {"flushing", "ending"}
                                        /\ place[w] = p /\ now[w].at = "done"
                                        /\ ~(~ok /\ head.by = w)
<1>4. PICK failure \in BOOLEAN : failure = (failing /\ ~raised)
  OBVIOUS
<1> DEFINE f == [held |-> g.held, key |-> g.key, queue |-> Tail(g.queue), failure |-> failure, work |-> Idle,
                 attempted |-> g.attempted + 1, calls |-> g.calls, lost |-> lost]
<1>5. next \in Gather /\ f \in Gather
  <2>1. g.queue # <<>>
    OBVIOUS
  <2> HIDE DEF g
  <2> QED BY <1>1, <2>1, TriedType
<1>6. next = [g EXCEPT !.queue = Tail(@), !.work = Idle, !.attempted = @ + 1,
                       !.lost = @ \/ ~ok, !.failure = @ \/ (~ok /\ head.by = None)]
  <2> DEFINE rest == Tail(g.queue)
             after == g.attempted + 1
  <2>1. next = [g EXCEPT !.queue = rest, !.work = Idle, !.attempted = after, !.lost = lost, !.failure = failing]
    <3> HIDE DEF g, rest, after
    <3>1. ASSUME NEW x,
                 x = [g EXCEPT !.queue = rest, !.work = Idle, !.attempted = after, !.lost = lost, !.failure = failing]
          PROVE  x = [held |-> g.held, key |-> g.key, queue |-> rest, failure |-> failing, work |-> Idle,
                      attempted |-> after, calls |-> g.calls, lost |-> lost]
      BY <1>1, <3>1, GatherQueue
    <3> QED BY <3>1 DEF rest, after
  <2>2. failing = (g.failure \/ (~ok /\ head.by = None))
    BY <1>3 DEF Failing
  <2> HIDE DEF next
  <2> QED BY <1>2, <2>1, <2>2
<1>7. f = [next EXCEPT !.failure = @ /\ ~raised]
  <2>1. next.failure = failing
    OBVIOUS
  <2>2. f = [next EXCEPT !.failure = failure]
    OBVIOUS
  <2> HIDE DEF next, f, raised
  <2> QED BY <1>4, <2>1, <2>2
<1>8. gather' = [gather EXCEPT ![p] = f] /\ writer' = now
  <2> HIDE DEF next, f
  <2> QED BY <1>6, <1>7 DEF Attempted
<1>9. /\ now \in [Writers -> Writer]
      /\ \A w \in Writers :
           /\ ~Rejects(w, p, ok) /\ ~Ends(w, p) => now[w] = writer[w]
           /\ Rejects(w, p, ok) \/ Ends(w, p) =>
                /\ now[w].at = IF writer[w].at = "writing" THEN "open" ELSE "done"
                /\ now[w].broken <=> \/ writer[w].broken \/ Rejects(w, p, ok)
                                     \/ (Ends(w, p) /\ writer[w].at # "writing" /\ failing)
  <2>1. next.attempted = gather[p].attempted + 1 /\ head.by = Head(gather[p].queue).by /\ next.failure = failing
    OBVIOUS
  <2>2. now = Settled(p, next, ok, head.by)
    OBVIOUS
  <2> HIDE DEF g, head, next, now
  <2> QED BY <1>5, <2>1, <2>2, SettledIs DEF Rejects, Ends
<1>10. /\ f.held = g.held /\ f.key = g.key /\ f.calls = g.calls /\ f.queue = Tail(g.queue)
       /\ f.work = Idle /\ f.attempted = g.attempted + 1 /\ f.lost = lost /\ f.failure = failure
  OBVIOUS
<1> HIDE DEF next, now, f
<1>11. f.failure => failing /\ \A w \in Writers : Ends(w, p) /\ writer[w].at # "writing" => Rejects(w, p, ok)
  <2> SUFFICES ASSUME f.failure, NEW w \in Writers, Ends(w, p), writer[w].at # "writing", ~Rejects(w, p, ok)
               PROVE  FALSE
    BY <1>4, <1>10
  <2>1. now[w].at = "done" /\ writer[w].at \in {"flushing", "ending"} /\ place[w] = p
    BY <1>9 DEF Ends, Waiting
  <2>2. ~(~ok /\ head.by = w)
    BY DEF Ends, Rejects
  <2> QED BY <1>4, <1>10, <2>1, <2>2
<1>12. failing /\ ~f.failure => \E w \in Writers : place[w] = p /\ now[w].broken
  <2> SUFFICES ASSUME failing, ~f.failure PROVE \E w \in Writers : place[w] = p /\ now[w].broken
    OBVIOUS
  <2>1. PICK w \in Writers : /\ writer[w].at \in {"flushing", "ending"} /\ place[w] = p
                             /\ now[w].at = "done" /\ ~(~ok /\ head.by = w)
    BY <1>4, <1>10
  <2>2. Rejects(w, p, ok) \/ Ends(w, p)
    BY <1>9, <2>1
  <2>3. ~Rejects(w, p, ok)
    BY <2>1 DEF Rejects
  <2> QED BY <1>9, <2>1, <2>2, <2>3
<1>13. Tried(p, ok, f)
  BY <1>2, <1>3, <1>5, <1>8, <1>9, <1>10, <1>11, <1>12 DEF Tried, Becomes
<1> QED BY <1>13

\* An attempt changes only the writers that wait in its process, and only p's gather.
LEMMA TriedFacts ==
  ASSUME Typed, NEW p \in Procs, NEW ok \in BOOLEAN, gather[p].queue # <<>>, NEW f, Tried(p, ok, f)
  PROVE  /\ gather'[p] = f /\ \A q \in Procs : q # p => gather'[q] = gather[q]
         /\ \A w \in Writers : place[w] # p => writer'[w] = writer[w]
         /\ \A w \in Writers : ~Waiting(w) => writer'[w] = writer[w]
         /\ \A w \in Writers : writer[w].broken => writer'[w].broken
         /\ \A k \in DOMAIN f.queue : k + 1 \in DOMAIN gather[p].queue /\ f.queue[k] = gather[p].queue[k + 1]
         /\ Head(gather[p].queue) = gather[p].queue[1] /\ 1 \in DOMAIN gather[p].queue
         /\ Len(f.queue) = Len(gather[p].queue) - 1 /\ Len(gather[p].queue) \in Nat
         /\ gather[p].attempted \in Nat
         /\ \A w \in Writers : writer[w].until \in Nat
         /\ f.queue \in Seq(Queued)
<1>1. gather'[p] = f /\ \A q \in Procs : q # p => gather'[q] = gather[q]
  BY DEF Tried, Becomes, Typed
<1>2. \A w \in Writers : place[w] # p \/ ~Waiting(w) => ~Rejects(w, p, ok) /\ ~Ends(w, p)
  BY DEF Rejects, Ends
<1>3. \A w \in Writers : ~Rejects(w, p, ok) /\ ~Ends(w, p) => writer'[w] = writer[w]
  BY DEF Tried
<1>4. \A w \in Writers : writer[w].broken => writer'[w].broken
  BY DEF Tried
<1>5. gather[p].queue \in Seq(Queued) /\ gather[p].attempted \in Nat
  BY GatherQueue DEF Typed
<1>6. f.queue = Tail(gather[p].queue)
  BY DEF Tried
<1>7. /\ \A k \in DOMAIN f.queue : k + 1 \in DOMAIN gather[p].queue /\ f.queue[k] = gather[p].queue[k + 1]
      /\ Head(gather[p].queue) = gather[p].queue[1] /\ 1 \in DOMAIN gather[p].queue
      /\ Len(f.queue) = Len(gather[p].queue) - 1 /\ Len(gather[p].queue) \in Nat
      /\ f.queue \in Seq(Queued)
  BY <1>5, <1>6
<1>8. \A w \in Writers : writer[w].until \in Nat
  BY DEF Typed, Writer
<1> QED BY <1>1, <1>2, <1>3, <1>4, <1>5, <1>7, <1>8

\* A failure has a loss behind it, and a loss somebody who knows or will know.
LEMMA TriedBlames ==
  ASSUME Typed, Blamed, Awaited, Reported, NEW p \in Procs, NEW ok \in BOOLEAN, gather[p].queue # <<>>, NEW f,
         Tried(p, ok, f), place' = place
  PROVE  Blamed' /\ Reported'
<1> DEFINE by == Head(gather[p].queue).by
<1>1. /\ gather'[p] = f /\ \A q \in Procs : q # p => gather'[q] = gather[q]
      /\ \A w \in Writers : place[w] # p => writer'[w] = writer[w]
      /\ \A w \in Writers : ~Waiting(w) => writer'[w] = writer[w]
      /\ \A w \in Writers : writer[w].broken => writer'[w].broken
  BY TriedFacts
<1>2. f.lost = (gather[p].lost \/ ~ok) /\ (f.failure => Failing(p, ok))
  BY DEF Tried
<1>3. Failing(p, ok) => f.lost
  BY <1>2 DEF Failing, Blamed
<1>4. ASSUME NEW w \in Writers, place[w] = p, writer'[w].broken \/ writer'[w].at = "dead" PROVE f.lost
  <2>1. CASE Rejects(w, p, ok)
    BY <1>2, <2>1 DEF Rejects
  <2>2. CASE Ends(w, p) /\ ~Rejects(w, p, ok)
    <3>1. writer'[w].at # "dead" /\ (writer'[w].broken => writer[w].broken \/ Failing(p, ok))
      BY <2>2 DEF Tried
    <3> QED BY <1>2, <1>3, <1>4, <3>1 DEF Blamed, Knows
  <2>3. CASE ~Ends(w, p) /\ ~Rejects(w, p, ok)
    <3>1. writer'[w] = writer[w]
      BY <2>3 DEF Tried
    <3> QED BY <1>2, <1>4, <3>1 DEF Blamed, Knows
  <2> QED BY <2>1, <2>2, <2>3
<1>5. ASSUME NEW w \in Writers, Knows(w)' PROVE gather'[place[w]].lost
  <2>1. place[w] \in Procs
    BY DEF Typed
  <2>2. CASE place[w] = p
    BY <1>1, <1>4, <1>5, <2>2 DEF Knows
  <2>3. CASE place[w] # p
    BY <1>1, <1>5, <2>1, <2>3 DEF Knows, Blamed
  <2> QED BY <2>2, <2>3
<1>6. Blamed'
  <2>1. \A q \in Procs : gather'[q].failure => gather'[q].lost
    BY <1>1, <1>2, <1>3 DEF Blamed
  <2> QED BY <1>5, <2>1 DEF Blamed
<1>7. \A w \in Writers : Knows(w) => Knows(w)'
  BY <1>1 DEF Knows, Waiting
<1>8. ASSUME f.lost, ~f.failure PROVE \E w \in Writers : place[w] = p /\ Knows(w)'
  <2>1. CASE Failing(p, ok)
    <3>1. \E w \in Writers : place[w] = p /\ writer'[w].broken
      BY <1>8, <2>1 DEF Tried
    <3> QED BY <3>1 DEF Knows
  <2>2. CASE ~Failing(p, ok) /\ ~ok
    <3>1. by \in Writers /\ 1 \in DOMAIN gather[p].queue /\ gather[p].queue[1].by = by
      <4>1. gather[p].queue \in Seq(Queued)
        BY GatherQueue DEF Typed
      <4>2. Head(gather[p].queue) \in Queued /\ 1 \in DOMAIN gather[p].queue /\ gather[p].queue[1] = Head(gather[p].queue)
        BY <4>1
      <4> QED BY <2>2, <4>2 DEF Failing, Queued
    <3> HIDE DEF by
    <3>2. place[by] = p /\ (writer[by].broken \/ Waiting(by))
      BY <3>1 DEF Awaited
    <3>3. writer[by].broken \/ Rejects(by, p, ok)
      BY <2>2, <3>2 DEF Rejects, by
    <3>4. writer'[by].broken
      BY <1>1, <3>1, <3>3 DEF Tried
    <3> QED BY <3>1, <3>2, <3>4 DEF Knows
  <2>3. CASE ~Failing(p, ok) /\ ok
    <3>1. gather[p].lost /\ ~gather[p].failure
      BY <1>2, <1>8, <2>3 DEF Failing
    <3> QED BY <1>7, <3>1 DEF Reported
  <2> QED BY <2>1, <2>2, <2>3
<1>9. ASSUME NEW q \in Procs, gather'[q].lost PROVE gather'[q].failure \/ \E w \in Writers : place[w] = q /\ Knows(w)'
  BY <1>1, <1>7, <1>8, <1>9 DEF Reported
<1> QED BY <1>6, <1>9 DEF Reported

\* Whoever queued what is left still waits for it.
LEMMA TriedAwaited ==
  ASSUME Typed, Awaited, NEW p \in Procs, NEW ok \in BOOLEAN, gather[p].queue # <<>>, NEW f,
         Tried(p, ok, f), place' = place
  PROVE  Awaited'
<1>1. /\ gather'[p] = f /\ \A q \in Procs : q # p => gather'[q] = gather[q]
      /\ \A w \in Writers : place[w] # p => writer'[w] = writer[w]
      /\ \A w \in Writers : writer[w].broken => writer'[w].broken
      /\ \A k \in DOMAIN f.queue : k + 1 \in DOMAIN gather[p].queue /\ f.queue[k] = gather[p].queue[k + 1]
      /\ gather[p].attempted \in Nat /\ f.queue \in Seq(Queued)
      /\ \A w \in Writers : writer[w].until \in Nat
  BY TriedFacts
<1>2. ASSUME NEW k \in DOMAIN f.queue, NEW w \in Writers, f.queue[k].by = w
      PROVE  place[w] = p /\ (writer'[w].broken \/ (Waiting(w)' /\ writer'[w].until >= f.attempted + k))
  <2>1. k + 1 \in DOMAIN gather[p].queue /\ gather[p].queue[k + 1].by = w
    BY <1>1, <1>2
  <2>2. place[w] = p /\ (writer[w].broken \/ (Waiting(w) /\ writer[w].until >= gather[p].attempted + (k + 1)))
    BY <2>1 DEF Awaited
  <2>3. CASE writer[w].broken \/ Rejects(w, p, ok)
    <3>1. writer'[w].broken
      BY <1>1, <2>3 DEF Tried
    <3> QED BY <2>2, <3>1
  <2>4. CASE ~writer[w].broken /\ ~Rejects(w, p, ok)
    <3>1. k \in Nat /\ k > 0
      BY <1>1
    <3>2. f.attempted = gather[p].attempted + 1
      BY DEF Tried
    <3>3. Waiting(w) /\ writer[w].until >= f.attempted + k /\ writer[w].until > gather[p].attempted + 1
      BY <1>1, <2>2, <2>4, <3>1, <3>2
    <3>4. ~Ends(w, p)
      BY <1>1, <3>3 DEF Ends
    <3>5. writer'[w] = writer[w]
      BY <2>4, <3>4 DEF Tried
    <3> QED BY <2>2, <3>3, <3>5 DEF Waiting
  <2> QED BY <2>3, <2>4
<1>3. ASSUME NEW q \in Procs, q # p, NEW k \in DOMAIN gather[q].queue, NEW w \in Writers, gather[q].queue[k].by = w
      PROVE  place[w] = q /\ (writer'[w].broken \/ (Waiting(w)' /\ writer'[w].until >= gather[q].attempted + k))
  <2>1. place[w] = q /\ (writer[w].broken \/ (Waiting(w) /\ writer[w].until >= gather[q].attempted + k))
    BY <1>3 DEF Awaited
  <2>2. writer'[w] = writer[w]
    BY <1>1, <1>3, <2>1
  <2> QED BY <2>1, <2>2 DEF Waiting
<1>4. ASSUME NEW q \in Procs, NEW k \in DOMAIN gather'[q].queue, NEW w \in Writers, gather'[q].queue[k].by = w
      PROVE  place[w] = q /\ (writer'[w].broken \/ (Waiting(w)' /\ writer'[w].until >= gather'[q].attempted + k))
  <2>1. CASE q = p
    BY <1>1, <1>2, <1>4, <2>1
  <2>2. CASE q # p
    <3>1. gather'[q] = gather[q]
      BY <1>1, <2>2
    <3>2. k \in DOMAIN gather[q].queue /\ gather[q].queue[k].by = w
      BY <1>4, <3>1
    <3> QED BY <1>3, <2>2, <3>1, <3>2
  <2> QED BY <2>1, <2>2
<1> QED BY <1>4 DEF Awaited

\* What is left to do has a writer who will see to it.
LEMMA TriedMinded ==
  ASSUME Typed, Minded, NEW p \in Procs, NEW ok \in BOOLEAN, gather[p].queue # <<>>, NEW f,
         Tried(p, ok, f), place' = place
  PROVE  Minded'
<1>1. /\ gather'[p] = f /\ \A q \in Procs : q # p => gather'[q] = gather[q]
      /\ \A w \in Writers : place[w] # p => writer'[w] = writer[w]
      /\ \A w \in Writers : ~Waiting(w) => writer'[w] = writer[w]
      /\ \A w \in Writers : writer[w].broken => writer'[w].broken
      /\ Len(f.queue) = Len(gather[p].queue) - 1 /\ Len(gather[p].queue) \in Nat
      /\ gather[p].attempted \in Nat /\ f.queue \in Seq(Queued)
      /\ \A w \in Writers : writer[w].until \in Nat
  BY TriedFacts
<1>2. ASSUME NEW q \in Procs, q # p, Busy(gather'[q]) PROVE \E w \in Writers : place[w] = q /\ Minds(w, gather[q])'
  <2>1. PICK w \in Writers : place[w] = q /\ Minds(w, gather[q])
    BY <1>1, <1>2 DEF Minded
  <2>2. writer'[w] = writer[w] /\ gather'[q] = gather[q]
    BY <1>1, <1>2, <2>1
  <2> QED BY <2>1, <2>2 DEF Minds, Knows, Covers
<1>3. ASSUME Busy(f) PROVE \E w \in Writers : place[w] = p /\ Minds(w, gather[p])'
  <2>1. PICK w \in Writers : place[w] = p /\ Minds(w, gather[p])
    BY DEF Minded, Busy
  <2>2. CASE Knows(w)
    <3>1. Knows(w)'
      BY <1>1, <2>2 DEF Knows, Waiting
    <3> QED BY <2>1, <3>1 DEF Minds
  <2>3. CASE writer[w].at \in {"open", "writing"}
    <3>1. writer'[w].at \in {"open", "writing"}
      BY <2>3 DEF Tried, Rejects, Ends, Waiting
    <3> QED BY <2>1, <3>1 DEF Minds
  <2>4. CASE Covers(w, gather[p])
    <3>1. /\ f.held = <<>> /\ f.attempted = gather[p].attempted + 1
          /\ writer[w].until = gather[p].attempted + Len(gather[p].queue)
          /\ writer[w].at \in {"flushing", "ending"}
      BY <2>4 DEF Tried, Covers, LastQueued
    <3>2. writer[w].until = f.attempted + Len(f.queue)
      <4> DEFINE n == Len(gather[p].queue)
                 m == Len(f.queue)
      <4>1. m = n - 1 /\ n \in Nat /\ writer[w].until = gather[p].attempted + n
        BY <1>1, <3>1
      <4> HIDE DEF n, m
      <4>2. writer[w].until = f.attempted + m
        BY SMTT(30), <1>1, <3>1, <4>1
      <4> QED BY <4>2 DEF m
    <3>3. CASE Rejects(w, p, ok)
      <4>1. writer'[w].broken
        BY <3>3 DEF Tried
      <4> QED BY <2>1, <4>1 DEF Minds, Knows
    <3>4. CASE ~Rejects(w, p, ok) /\ ~Ends(w, p)
      <4>1. writer'[w] = writer[w]
        BY <3>4 DEF Tried
      <4>2. Covers(w, gather[p])'
        BY <1>1, <3>1, <3>2, <4>1 DEF Covers, LastQueued
      <4> QED BY <2>1, <4>2 DEF Minds
    <3>5. CASE ~Rejects(w, p, ok) /\ Ends(w, p)
      <4>1. Len(f.queue) = 0
        <5> DEFINE m == Len(f.queue)
        <5>1. m \in Nat /\ writer[w].until = f.attempted + m /\ writer[w].until <= gather[p].attempted + 1
          BY <1>1, <3>2, <3>5 DEF Ends
        <5> HIDE DEF m
        <5>2. m = 0
          BY <1>1, <3>1, <5>1
        <5> QED BY <5>2 DEF m
      <4>2. ~f.failure
        BY <3>1, <3>5 DEF Tried
      <4> QED BY <1>1, <1>3, <3>1, <4>1, <4>2 DEF Busy
    <3> QED BY <3>3, <3>4, <3>5
  <2> QED BY <2>1, <2>2, <2>3, <2>4 DEF Minds
<1>4. Minded'
  BY <1>1, <1>2, <1>3 DEF Minded
<1> QED BY <1>4

\* The end marker is still the last of its queue, and the owner the last to end.
LEMMA TriedEnds ==
  ASSUME Typed, EndQueued, OwnerLast, Marking, NEW p \in Procs, NEW ok \in BOOLEAN, gather[p].queue # <<>>, NEW f,
         Tried(p, ok, f), UNCHANGED <<place, backend, marked>>
  PROVE  EndQueued' /\ OwnerLast' /\ Marking' /\ (Over => Over')
<1>1. /\ gather'[p] = f /\ \A q \in Procs : q # p => gather'[q] = gather[q]
      /\ \A w \in Writers : ~Waiting(w) => writer'[w] = writer[w]
      /\ \A k \in DOMAIN f.queue : k + 1 \in DOMAIN gather[p].queue /\ f.queue[k] = gather[p].queue[k + 1]
      /\ Len(f.queue) = Len(gather[p].queue) - 1 /\ Len(gather[p].queue) \in Nat
      /\ f.queue \in Seq(Queued)
  BY TriedFacts
<1>2. f.held = gather[p].held /\ f.work = Idle
  BY DEF Tried
<1>3. Owner \in Writers
  BY StreamAssumption
<1>4. Over' <=> Over
  <2>1. writer'[Owner] = writer[Owner] \/ (writer[Owner].at = "writing" /\ writer'[Owner].at = "open")
           \/ (writer[Owner].at = "ending" /\ writer'[Owner].at = "done")
    BY <1>3 DEF Tried, OwnerLast, Rejects, Ends, Waiting
  <2> QED BY <2>1 DEF Over
<1>5. OwnerLast'
  <2>1. \A w \in Writers : Stopped(w) => Stopped(w)'
    BY <1>1 DEF Stopped, Waiting
  <2>2. writer'[Owner].at # "flushing"
    BY <1>3 DEF Tried, OwnerLast
  <2> QED BY <1>4, <2>1, <2>2 DEF OwnerLast
<1>6. ASSUME NEW k \in DOMAIN f.queue, f.queue[k].end
      PROVE  p = Home /\ k = Len(f.queue) /\ f.held = <<>> /\ f.queue[k].items = <<>> /\ Over
  <2>1. k + 1 \in DOMAIN gather[p].queue /\ gather[p].queue[k + 1].end /\ gather[p].queue[k + 1].items = f.queue[k].items
    BY <1>1, <1>6
  <2>2. p = Home /\ k + 1 = Len(gather[p].queue) /\ gather[p].held = <<>> /\ f.queue[k].items = <<>> /\ Over
    BY <2>1 DEF EndQueued
  <2>3. k = Len(f.queue)
    BY <1>1, <2>2
  <2> QED BY <1>2, <2>2, <2>3
<1>7. EndQueued'
  BY <1>1, <1>4, <1>6 DEF EndQueued
<1>8. Marking'
  BY <1>1, <1>2 DEF Marking, Idle
<1> QED BY <1>4, <1>5, <1>7, <1>8

\* The head of p's queue is attempted: it lands, or it is given up, and what is lost is said.
LEMMA AttemptKeeps ==
  ASSUME SinkInv, NEW p \in Procs, NEW ok \in BOOLEAN, gather[p].queue # <<>>, Attempted(p, ok),
         UNCHANGED <<place, backend, marked, gen>>, rows' \in Seq(Row), trouble' \in Nat,
         landed' = landed \o Head(gather[p].queue).items \/ (landed' = landed /\ ~ok)
  PROVE  /\ Typed' /\ Lines' /\ Whole' /\ Blamed' /\ Awaited' /\ Minded' /\ Reported' /\ EndQueued' /\ OwnerLast' /\ Marking'
         /\ (Over => Over') /\ (~ok => Lost')
         /\ \A q \in Procs : q # p => gather'[q] = gather[q]
         /\ gather'[p].queue = Tail(gather[p].queue) /\ gather'[p].held = gather[p].held
         /\ \A q \in Procs : gather[q].lost => gather'[q].lost
<1>1. Typed /\ Lines /\ Whole /\ Blamed /\ Awaited /\ Minded /\ Reported /\ EndQueued /\ OwnerLast /\ Marking
  BY DEF SinkInv
<1>2. PICK f : Tried(p, ok, f)
  BY <1>1, AttemptedIs
<1>3. Blamed' /\ Reported' /\ Awaited' /\ Minded'
  BY <1>1, <1>2, TriedBlames, TriedAwaited, TriedMinded
<1>4. EndQueued' /\ OwnerLast' /\ Marking' /\ (Over => Over')
  BY <1>1, <1>2, TriedEnds
<1>5. gather'[p] = f /\ \A q \in Procs : q # p => gather'[q] = gather[q]
  BY <1>1, <1>2, TriedFacts
<1>6. /\ f \in Gather /\ gather' = [gather EXCEPT ![p] = f] /\ writer' \in [Writers -> Writer]
      /\ f.held = gather[p].held /\ f.key = gather[p].key /\ f.calls = gather[p].calls
      /\ f.queue = Tail(gather[p].queue) /\ f.work = Idle /\ f.lost = (gather[p].lost \/ ~ok)
  BY <1>2 DEF Tried, Becomes
<1>7. /\ gather[p].queue \in Seq(Queued) /\ gather[p].calls \in Nat /\ landed \in Seq(Calls)
      /\ Head(gather[p].queue).items \in Seq(Calls)
  <2>1. gather[p].queue \in Seq(Queued) /\ gather[p].calls \in Nat /\ landed \in Seq(Calls)
    BY <1>1, GatherQueue DEF Typed
  <2>2. Head(gather[p].queue) \in Queued
    BY <2>1
  <2> QED BY <2>1, <2>2 DEF Queued
<1>8. Typed'
  <2>1. landed' \in Seq(Calls)
    <3> DEFINE items == Head(gather[p].queue).items
    <3>1. landed \in Seq(Calls) /\ landed \o items \in Seq(Calls)
      <4> HIDE DEF items
      <4>1. items \in Seq(Calls)
        BY <1>7 DEF items
      <4> QED BY <1>7, <4>1
    <3>2. landed' = landed \o items \/ landed' = landed
      OBVIOUS
    <3> HIDE DEF items
    <3> QED BY <3>1, <3>2, Zenon
  <2>2. gather' \in [Procs -> Gather]
    BY <1>1, <1>6 DEF Typed
  <2>3. ASSUME NEW q \in Procs
        PROVE  /\ gather'[q].key = "none" <=> gather'[q].held = <<>>
               /\ gather'[q].queue = <<>> => gather'[q].work.stage = "none"
               /\ backend = "memory" => gather'[q].queue = <<>> /\ gather'[q].held = <<>> /\ ~gather'[q].failure
    <3>1. /\ gather[q].key = "none" <=> gather[q].held = <<>>
          /\ gather[q].queue = <<>> => gather[q].work.stage = "none"
          /\ backend = "memory" => gather[q].queue = <<>> /\ gather[q].held = <<>> /\ ~gather[q].failure
      BY <1>1 DEF Typed
    <3>2. CASE q = p
      BY <1>5, <1>6, <3>1, <3>2 DEF Idle
    <3>3. CASE q # p
      BY <1>5, <3>1, <3>3
    <3> QED BY <3>2, <3>3
  <2> QED BY <1>1, <1>6, <2>1, <2>2, <2>3 DEF Typed
<1>9. Lines' /\ Whole'
  <2>1. CASE landed' = landed \o Head(gather[p].queue).items
    BY <1>1, <1>6, <2>1, LandKeeps DEF Becomes
  <2>2. CASE landed' = landed /\ ~ok
    <3>1. InLine(p, f.calls, landed, f.queue, f.held)
      BY <1>1, <1>6, <1>7, TailInLine DEF Lines
    <3>2. f.lost /\ gather[p].calls <= f.calls
      <4>1. f.calls = gather[p].calls /\ f.lost
        BY <1>6, <2>2
      <4> QED BY <1>7, <4>1
    <3> QED BY <1>1, <1>6, <2>2, <3>1, <3>2, PendingKeeps DEF Becomes
  <2> QED BY <2>1, <2>2
<1>10. (~ok => Lost') /\ \A q \in Procs : gather[q].lost => gather'[q].lost
  BY <1>5, <1>6 DEF Lost
<1> QED BY <1>3, <1>4, <1>5, <1>6, <1>8, <1>9, <1>10

\* What is there once the end is: nothing is added to it.
LEMMA SealedFacts ==
  ASSUME SinkInv, ~Lost
  PROVE  /\ HasEnd => /\ Over /\ \A p \in Procs : Settles(gather[p])
                      /\ \A n \in DOMAIN rows : EndRow(rows[n]) => n = Len(rows)
         /\ \A w \in Writers : ~Knows(w)
         /\ \A p \in Procs : ~gather[p].failure /\ ~gather[p].lost
         /\ Over => \A w \in Writers \ {Owner} : writer[w].at = "done"
<1>1. \A p \in Procs : ~gather[p].lost
  BY DEF Lost
<1>2. \A w \in Writers : ~Knows(w)
  BY <1>1 DEF SinkInv, Typed, Blamed
<1>3. \A p \in Procs : ~gather[p].failure
  BY <1>1 DEF SinkInv, Blamed
<1> QED BY <1>1, <1>2, <1>3 DEF SinkInv, Sealed, OwnerLast, Stopped, Knows

\* With the end at the head of the queue and nothing lost, nothing else is pending.
LEMMA EndAtHead ==
  ASSUME SinkInv, ~Lost, NEW p \in Procs, gather[p].queue # <<>>, Head(gather[p].queue).end
  PROVE  /\ p = Home /\ Over /\ gather[p].held = <<>> /\ Tail(gather[p].queue) = <<>>
         /\ Head(gather[p].queue).items = <<>>
         /\ \A q \in Procs : q # p => gather[q].queue = <<>> /\ gather[q].held = <<>>
<1>1. gather[p].queue \in Seq(Queued)
  BY GatherQueue DEF SinkInv, Typed
<1>2. 1 \in DOMAIN gather[p].queue /\ gather[p].queue[1] = Head(gather[p].queue)
  BY <1>1
<1>3. p = Home /\ 1 = Len(gather[p].queue) /\ gather[p].held = <<>> /\ Head(gather[p].queue).items = <<>> /\ Over
  BY <1>2 DEF SinkInv, EndQueued
<1>4. Tail(gather[p].queue) = <<>>
  <2>1. Tail(gather[p].queue) \in Seq(Queued) /\ Len(Tail(gather[p].queue)) = 0
    BY <1>1, <1>3
  <2> QED BY <2>1, EmptySeq
<1>5. ASSUME NEW q \in Procs, q # p PROVE gather[q].queue = <<>> /\ gather[q].held = <<>>
  <2> SUFFICES ASSUME Busy(gather[q]) PROVE FALSE
    BY DEF Busy
  <2>1. PICK w \in Writers : place[w] = q /\ Minds(w, gather[q])
    BY DEF SinkInv, Minded
  <2>2. w # Owner
    BY <1>3, <1>5, <2>1 DEF SinkInv, Typed
  <2>3. writer[w].at = "done" /\ ~Knows(w)
    BY <1>3, <2>2, SealedFacts
  <2> QED BY <2>1, <2>3 DEF Minds, Covers
<1> QED BY <1>3, <1>4, <1>5

\* A frame the transport takes.
LEMMA TakenKeeps ==
  ASSUME SinkInv, NEW p \in Procs, NEW ok \in BOOLEAN, gather[p].queue # <<>>, gather[p].work.stage # "marked",
         Attempted(p, ok), Push(Head(gather[p].queue).items, Head(gather[p].queue).end),
         UNCHANGED <<place, backend>>, trouble' \in Nat
  PROVE  SinkInv'
<1> DEFINE head == Head(gather[p].queue)
           row == [items |-> head.items, end |-> head.end, gen |-> gen]
<1>1. rows' = Append(rows, row) /\ landed' = landed \o head.items /\ marked' = marked /\ gen' = gen
  BY DEF Push
<1>2. row \in Row /\ rows \in Seq(Row)
  <2>1. gather[p].queue \in Seq(Queued) /\ gen \in Nat /\ rows \in Seq(Row)
    BY GatherQueue DEF SinkInv, Typed
  <2>2. head \in Queued
    BY <2>1
  <2>3. head.items \in Seq(Calls) /\ head.end \in BOOLEAN
    BY <2>2 DEF Queued
  <2> HIDE DEF head
  <2> QED BY <2>1, <2>3 DEF Row
<1>3. row.end = head.end
  OBVIOUS
<1> HIDE DEF row
<1>4. /\ rows' \in Seq(Row) /\ DOMAIN rows' = DOMAIN rows \cup {Len(rows')}
      /\ \A n \in DOMAIN rows : rows'[n] = rows[n]
      /\ rows'[Len(rows')] = row
  BY <1>1, <1>2
<1>5. /\ Typed' /\ Lines' /\ Whole' /\ Blamed' /\ Awaited' /\ Minded' /\ Reported' /\ EndQueued' /\ OwnerLast' /\ Marking'
      /\ (Over => Over') /\ (~ok => Lost')
      /\ \A q \in Procs : q # p => gather'[q] = gather[q]
      /\ gather'[p].queue = Tail(gather[p].queue) /\ gather'[p].held = gather[p].held
      /\ \A q \in Procs : gather[q].lost => gather'[q].lost
  BY <1>1, <1>4, AttemptKeeps
<1>6. ASSUME ~Lost', HasEnd' PROVE /\ Over' /\ \A q \in Procs : Settles(gather[q])'
                                   /\ \A n \in DOMAIN rows' : EndRow(rows'[n]) => n = Len(rows')
  <2>1. ~Lost
    BY <1>5, <1>6 DEF Lost
  <2>2. ~HasEnd
    BY <2>1, SealedFacts DEF Settles
  <2>3. \A n \in DOMAIN rows : ~EndRow(rows[n])
    BY <2>2 DEF HasEnd
  <2>4. \A n \in DOMAIN rows' : EndRow(rows'[n]) => n = Len(rows')
    BY <1>4, <2>3 DEF EndRow
  <2>5. head.end
    <3>1. ~marked'
      BY <1>1, <2>2 DEF HasEnd
    <3>2. PICK n \in DOMAIN rows' : EndRow(rows'[n])
      BY <1>6, <3>1 DEF HasEnd
    <3>3. n = Len(rows')
      BY <2>4, <3>2
    <3>4. rows'[n] = row
      BY <1>4, <3>3
    <3>5. row.end
      BY <3>2, <3>4, Zenon DEF EndRow
    <3> QED BY <1>3, <3>5
  <2>6. /\ Over /\ gather[p].held = <<>> /\ Tail(gather[p].queue) = <<>>
        /\ \A q \in Procs : q # p => gather[q].queue = <<>> /\ gather[q].held = <<>>
    BY <2>1, <2>5, EndAtHead
  <2>7. \A q \in Procs : gather'[q].queue = <<>> /\ gather'[q].held = <<>>
    BY <1>5, <2>6
  <2> QED BY <1>5, <2>4, <2>6, <2>7 DEF Settles
<1>7. Sealed'
  BY <1>6 DEF Sealed
<1> QED BY <1>5, <1>7 DEF SinkInv

\* A frame that is given up, or the announcement of the end.
LEMMA PassedKeeps ==
  ASSUME SinkInv, NEW p \in Procs, NEW ok \in BOOLEAN, gather[p].queue # <<>>, Attempted(p, ok),
         ok => Head(gather[p].queue).end, UNCHANGED <<place, backend, stream>>, trouble' \in Nat
  PROVE  SinkInv'
<1>1. UNCHANGED <<rows, marked, gen, landed>> /\ rows' \in Seq(Row)
  BY DEF stream, SinkInv, Typed
<1>2. landed' = landed \o Head(gather[p].queue).items \/ (landed' = landed /\ ~ok)
  <2> SUFFICES ASSUME ok PROVE landed = landed \o Head(gather[p].queue).items
    BY <1>1
  <2>1. gather[p].queue \in Seq(Queued) /\ landed \in Seq(Calls)
    BY GatherQueue DEF SinkInv, Typed
  <2>2. 1 \in DOMAIN gather[p].queue /\ gather[p].queue[1] = Head(gather[p].queue)
    BY <2>1
  <2>3. Head(gather[p].queue).items = <<>>
    BY <2>2 DEF SinkInv, EndQueued
  <2>4. landed \o <<>> = landed
    BY <2>1, ConcatEmptySeq
  <2> QED BY <2>3, <2>4
<1>3. /\ Typed' /\ Lines' /\ Whole' /\ Blamed' /\ Awaited' /\ Minded' /\ Reported' /\ EndQueued' /\ OwnerLast' /\ Marking'
      /\ (Over => Over') /\ (~ok => Lost')
      /\ \A q \in Procs : q # p => gather'[q] = gather[q]
      /\ gather'[p].queue = Tail(gather[p].queue) /\ gather'[p].held = gather[p].held
      /\ \A q \in Procs : gather[q].lost => gather'[q].lost
  BY <1>1, <1>2, AttemptKeeps
<1>4. ASSUME ~Lost', HasEnd' PROVE /\ Over' /\ \A q \in Procs : Settles(gather[q])'
                                   /\ \A n \in DOMAIN rows' : EndRow(rows'[n]) => n = Len(rows')
  <2>1. ~Lost /\ ok
    BY <1>3, <1>4 DEF Lost
  <2>2. HasEnd
    BY <1>1, <1>4 DEF HasEnd, EndRow
  <2>3. Over /\ \A n \in DOMAIN rows : EndRow(rows[n]) => n = Len(rows)
    BY <2>1, <2>2, SealedFacts
  <2>4. /\ gather[p].held = <<>> /\ Tail(gather[p].queue) = <<>>
        /\ \A q \in Procs : q # p => gather[q].queue = <<>> /\ gather[q].held = <<>>
    BY <2>1, EndAtHead
  <2>5. \A q \in Procs : gather'[q].queue = <<>> /\ gather'[q].held = <<>>
    BY <1>3, <2>4
  <2> QED BY <1>1, <1>3, <2>3, <2>5 DEF Settles, EndRow
<1>5. Sealed'
  BY <1>4 DEF Sealed
<1> QED BY <1>3, <1>5 DEF SinkInv

\* An append under way ends: its rows landed, or it failed or was given up.
LEMMA AppendKeeps ==
  ASSUME SinkInv, NEW p \in Procs,
         \/ AppendFails(p) \/ RedisPublishesEnd(p)
         \/ (LucidCollides(p) /\ gather[p].work.attempt >= Attempts)
         \/ \E ok \in BOOLEAN : LucidInserts(p, ok) \/ RedisAppends(p, ok)
  PROVE  SinkInv'
<1>1. trouble \in Nat /\ trouble + 1 \in Nat
  BY DEF SinkInv, Typed
<1>2. Marking
  BY DEF SinkInv
<1>3. CASE AppendFails(p)
  BY <1>1, <1>3, PassedKeeps DEF AppendFails
<1>4. CASE RedisPublishesEnd(p)
  <2>1. Head(gather[p].queue).end /\ gather[p].queue # <<>>
    BY <1>2, <1>4 DEF RedisPublishesEnd, Marking
  <2> QED BY <1>1, <1>4, <2>1, PassedKeeps DEF RedisPublishesEnd
<1>5. CASE LucidCollides(p) /\ gather[p].work.attempt >= Attempts
  BY <1>1, <1>5, PassedKeeps DEF LucidCollides, Appending
<1>6. ASSUME NEW ok \in BOOLEAN, LucidInserts(p, ok) PROVE SinkInv'
  <2>1. gather[p].work.stage # "marked" /\ gather[p].queue # <<>>
    BY <1>6 DEF LucidInserts, Appending
  <2> QED BY <1>1, <1>6, <2>1, TakenKeeps DEF LucidInserts
<1>7. ASSUME NEW ok \in BOOLEAN, RedisAppends(p, ok) PROVE SinkInv'
  <2>1. gather[p].work.stage # "marked" /\ gather[p].queue # <<>>
    BY <1>2, <1>7 DEF RedisAppends, Appending, Marking
  <2>2. Head(gather[p].queue).end = FALSE
    <3>1. gather[p].queue \in Seq(Queued)
      BY GatherQueue DEF SinkInv, Typed
    <3>2. Head(gather[p].queue) \in Queued
      BY <2>1, <3>1
    <3> QED BY <1>7, <3>2 DEF Queued, RedisAppends
  <2>3. Push(Head(gather[p].queue).items, Head(gather[p].queue).end)
    BY <1>7, <2>2 DEF RedisAppends
  <2> QED BY <1>1, <1>7, <2>1, <2>3, TakenKeeps DEF RedisAppends
<1> QED BY <1>3, <1>4, <1>5, <1>6, <1>7

-----------------------------------------------------------------------------
(***************************************************************************)
(* A writer that is open takes a step.                                     *)
(***************************************************************************)
\* A writer is still open: the end is neither queued nor there.
LEMMA OpenBeforeEnd ==
  ASSUME SinkInv, NEW w \in Writers, writer[w].at = "open"
  PROVE  /\ ~Over
         /\ \A q \in Procs : gather[q].work.stage # "marked" /\ \A k \in DOMAIN gather[q].queue : ~gather[q].queue[k].end
         /\ ~Lost => ~HasEnd
<1>1. ~Over
  <2>1. CASE w = Owner
    BY <2>1 DEF Over
  <2>2. CASE w # Owner
    BY <2>2 DEF SinkInv, OwnerLast, Stopped
  <2> QED BY <2>1, <2>2
<1>2. \A q \in Procs : \A k \in DOMAIN gather[q].queue : ~gather[q].queue[k].end
  BY <1>1 DEF SinkInv, EndQueued
<1>3. ASSUME NEW q \in Procs, gather[q].work.stage = "marked" PROVE FALSE
  <2>1. gather[q].queue \in Seq(Queued) /\ gather[q].queue # <<>> /\ Head(gather[q].queue).end
    BY <1>3, GatherQueue DEF SinkInv, Typed, Marking
  <2>2. 1 \in DOMAIN gather[q].queue /\ gather[q].queue[1] = Head(gather[q].queue)
    BY <2>1
  <2> QED BY <1>2, <2>1, <2>2
<1> QED BY <1>1, <1>2, <1>3 DEF SinkInv, Sealed

\* Writer w becomes r and its process's gather f.
Fresh(w, f, r, k) ==
  /\ f.queue[k].by \in {None, w}
  /\ f.queue[k].by = w => r.at \in {"writing", "flushing", "ending"} /\ r.until >= f.attempted + k
  /\ f.queue[k].end => /\ w = Owner /\ k = Len(f.queue) /\ f.held = <<>> /\ f.queue[k].items = <<>>
                       /\ r.at = "ending"

Proceeds(w, g, f, r) ==
  /\ Becomes(place[w], f) /\ r \in Writer /\ writer' = [writer EXCEPT ![w] = r]
  /\ f.attempted = g.attempted /\ f.work = g.work /\ f.lost = g.lost
  /\ f.key = "none" <=> f.held = <<>>
  /\ f.queue = <<>> => g.queue = <<>>
  /\ f.failure => g.failure
  /\ g.failure => f.failure \/ r.broken
  /\ r.broken => writer[w].broken \/ g.failure
  /\ writer[w].broken => r.broken
  /\ r.at # "dead" /\ (w = Owner => r.at # "flushing")
  /\ w = Owner /\ r.at \in {"ending", "done"} => \A x \in Writers \ {Owner} : Stopped(x)
  /\ \A k \in DOMAIN f.queue : (k \in DOMAIN g.queue /\ f.queue[k] = g.queue[k]) \/ Fresh(w, f, r, k)
  /\ Busy(f) => \/ r.at \in {"open", "writing"} \/ r.broken
                \/ (r.at \in {"flushing", "ending"} /\ f.held = <<>> /\ r.until = LastQueued(f))
  /\ backend = "memory" => f.queue = <<>> /\ f.held = <<>> /\ ~f.failure
  /\ g.calls <= f.calls /\ InLine(place[w], f.calls, landed, f.queue, f.held)
  /\ \A n \in 1 .. f.calls : Kept(landed, g.queue, g.held, <<place[w], n>>) \/ n > g.calls
                               => Kept(landed, f.queue, f.held, <<place[w], n>>)

\* An open writer that proceeds as described keeps the invariant.
LEMMA ProceedsKeeps ==
  ASSUME SinkInv, NEW w \in Writers, writer[w].at = "open", NEW f, NEW r, Proceeds(w, gather[place[w]], f, r),
         UNCHANGED <<place, backend, stream, trouble>>
  PROVE  SinkInv'
<1>1. PICK p \in Procs : p = place[w]
  BY DEF SinkInv, Typed
<1> DEFINE g == gather[p]
<1>2. p \in Procs /\ g \in Gather
  BY DEF SinkInv, Typed
<1>3. gather'[p] = f /\ \A q \in Procs : q # p => gather'[q] = gather[q]
  BY <1>2, <1>1 DEF Proceeds, Becomes, SinkInv, Typed
<1>4. writer'[w] = r /\ \A x \in Writers : x # w => writer'[x] = writer[x]
  BY DEF Proceeds, SinkInv, Typed
<1>5. UNCHANGED <<rows, marked, gen, landed>>
  BY DEF stream
<1>6. /\ ~Over
      /\ ~Lost => ~HasEnd
      /\ \A q \in Procs : gather[q].work.stage # "marked" /\ \A k \in DOMAIN gather[q].queue : ~gather[q].queue[k].end
  BY OpenBeforeEnd
<1>7. Typed'
  <2>1. gather' \in [Procs -> Gather] /\ writer' \in [Writers -> Writer]
    BY DEF SinkInv, Typed, Proceeds, Becomes
  <2>2. ASSUME NEW q \in Procs
        PROVE  /\ gather'[q].key = "none" <=> gather'[q].held = <<>>
               /\ gather'[q].queue = <<>> => gather'[q].work.stage = "none"
               /\ backend = "memory" => gather'[q].queue = <<>> /\ gather'[q].held = <<>> /\ ~gather'[q].failure
    <3>1. /\ gather[q].key = "none" <=> gather[q].held = <<>>
          /\ gather[q].queue = <<>> => gather[q].work.stage = "none"
          /\ backend = "memory" => gather[q].queue = <<>> /\ gather[q].held = <<>> /\ ~gather[q].failure
      BY DEF SinkInv, Typed
    <3>2. CASE q = p
      BY <1>1, <1>3, <3>1, <3>2 DEF Proceeds
    <3>3. CASE q # p
      BY <1>3, <3>1, <3>3
    <3> QED BY <3>2, <3>3
  <2> QED BY <1>5, <2>1, <2>2 DEF SinkInv, Typed
<1>8. Lines' /\ Whole'
  <2>1. Becomes(p, f) /\ InLine(p, f.calls, landed, f.queue, f.held) /\ g.calls <= f.calls
    BY <1>1 DEF Proceeds
  <2>2. ASSUME ~f.lost, NEW n \in 1 .. f.calls PROVE Kept(landed, f.queue, f.held, <<p, n>>)
    <3>1. ~g.lost
      BY <1>1, <2>2 DEF Proceeds
    <3>2. g.calls \in Nat /\ (n \in 1 .. g.calls \/ n > g.calls)
      BY <1>2, GatherQueue
    <3>3. Kept(landed, g.queue, g.held, <<p, n>>) \/ n > g.calls
      BY <1>2, <3>1, <3>2 DEF SinkInv, Whole
    <3> QED BY <1>1, <3>3 DEF Proceeds
  <2> QED BY <1>2, <1>5, <2>1, <2>2, PendingKeeps DEF SinkInv
<1>9. Blamed'
  <2>1. \A q \in Procs : gather'[q].failure => gather'[q].lost
    BY <1>1, <1>3 DEF SinkInv, Blamed, Proceeds
  <2>2. ASSUME NEW x \in Writers, Knows(x)' PROVE gather'[place[x]].lost
    <3>1. place[x] \in Procs
      BY DEF SinkInv, Typed
    <3>2. gather[place[x]].lost
      <4>1. CASE x = w
        BY <1>1, <1>2, <1>4, <2>2, <4>1 DEF SinkInv, Blamed, Knows, Proceeds
      <4>2. CASE x # w
        BY <1>4, <2>2, <4>2 DEF SinkInv, Blamed, Knows
      <4> QED BY <4>1, <4>2
    <3>3. f.lost = gather[p].lost
      BY <1>1 DEF Proceeds
    <3> QED BY <1>3, <3>1, <3>2, <3>3
  <2> QED BY <2>1, <2>2 DEF Blamed
<1>10. Reported'
  <2>1. \A x \in Writers : Knows(x) => Knows(x)'
    BY <1>4 DEF Knows, Proceeds
  <2>2. ASSUME NEW q \in Procs, gather'[q].lost PROVE gather'[q].failure \/ \E x \in Writers : place[x] = q /\ Knows(x)'
    <3>1. gather[q].lost
      BY <1>1, <1>3, <2>2 DEF Proceeds
    <3>2. gather[q].failure \/ \E x \in Writers : place[x] = q /\ Knows(x)
      BY <3>1 DEF SinkInv, Reported
    <3>3. gather[q].failure => gather'[q].failure \/ (q = p /\ Knows(w)')
      BY <1>1, <1>3, <1>4 DEF Proceeds, Knows
    <3> QED BY <1>1, <2>1, <3>2, <3>3
  <2> QED BY <2>2 DEF Reported
<1>11. Awaited'
  <2>1. ASSUME NEW q \in Procs, NEW k \in DOMAIN gather[q].queue, NEW x \in Writers, gather[q].queue[k].by = x
        PROVE  place[x] = q /\ (writer'[x].broken \/ (Waiting(x)' /\ writer'[x].until >= gather[q].attempted + k))
    <3>1. place[x] = q /\ (writer[x].broken \/ (Waiting(x) /\ writer[x].until >= gather[q].attempted + k))
      BY <2>1 DEF SinkInv, Awaited
    <3>2. CASE x = w
      BY <1>4, <3>1, <3>2 DEF Proceeds, Waiting
    <3>3. CASE x # w
      <4>1. writer'[x] = writer[x]
        BY <1>4, <3>3
      <4> QED BY <3>1, <4>1 DEF Waiting
    <3> QED BY <3>2, <3>3
  <2>2. ASSUME NEW k \in DOMAIN f.queue, NEW x \in Writers, f.queue[k].by = x
        PROVE  place[x] = p /\ (writer'[x].broken \/ (Waiting(x)' /\ writer'[x].until >= f.attempted + k))
    <3>1. f.attempted = gather[p].attempted
      BY <1>1 DEF Proceeds
    <3>2. CASE k \in DOMAIN gather[p].queue /\ f.queue[k] = gather[p].queue[k]
      <4>1. gather[p].queue[k].by = x
        BY <2>2, <3>2
      <4> QED BY <1>2, <2>1, <3>1, <3>2, <4>1
    <3>3. CASE Fresh(w, f, r, k)
      <4>1. x = w
        BY <2>2, <3>3, StreamAssumption DEF Fresh
      <4>2. Waiting(w)' /\ writer'[w].until >= f.attempted + k
        BY <1>4, <2>2, <3>3, <4>1 DEF Fresh, Waiting
      <4> QED BY <1>1, <4>1, <4>2
    <3> QED BY <1>1, <3>2, <3>3 DEF Proceeds
  <2>3. ASSUME NEW q \in Procs, NEW k \in DOMAIN gather'[q].queue, NEW x \in Writers, gather'[q].queue[k].by = x
        PROVE  place[x] = q /\ (writer'[x].broken \/ (Waiting(x)' /\ writer'[x].until >= gather'[q].attempted + k))
    <3>1. CASE q = p
      BY <1>3, <2>2, <2>3, <3>1
    <3>2. CASE q # p
      <4>1. gather'[q] = gather[q]
        BY <1>3, <3>2
      <4>2. k \in DOMAIN gather[q].queue /\ gather[q].queue[k].by = x
        BY <2>3, <4>1
      <4> QED BY <2>1, <4>1, <4>2
    <3> QED BY <3>1, <3>2
  <2> QED BY <2>3 DEF Awaited
<1>12. Minded'
  <2>1. ASSUME NEW q \in Procs, q # p, Busy(gather'[q]) PROVE \E x \in Writers : place[x] = q /\ Minds(x, gather[q])'
    <3>1. PICK x \in Writers : place[x] = q /\ Minds(x, gather[q])
      BY <1>3, <2>1 DEF SinkInv, Minded
    <3>2. writer'[x] = writer[x] /\ gather'[q] = gather[q]
      BY <1>1, <1>3, <1>4, <2>1, <3>1
    <3> QED BY <3>1, <3>2 DEF Minds, Knows, Covers
  <2>2. Busy(f) => Minds(w, gather[p])'
    BY <1>3, <1>4 DEF Proceeds, Minds, Knows, Covers
  <2>3. ASSUME NEW q \in Procs, Busy(gather'[q]) PROVE \E x \in Writers : place[x] = q /\ Minds(x, gather[q])'
    <3>1. CASE q = p
      BY <1>1, <1>3, <2>2, <2>3, <3>1
    <3> QED BY <2>1, <2>3, <3>1
  <2> QED BY <2>3 DEF Minded
<1>13. Over' => w = Owner /\ r.at \in {"ending", "done"}
  BY <1>4, <1>6, StreamAssumption DEF Over
<1>14. OwnerLast'
  <2>1. writer'[Owner].at # "flushing"
    BY <1>4 DEF SinkInv, OwnerLast, Proceeds
  <2>2. ASSUME Over', NEW x \in Writers \ {Owner} PROVE Stopped(x)'
    <3>1. Stopped(x) /\ x # w
      BY <1>13, <2>2 DEF Proceeds
    <3> QED BY <1>4, <3>1 DEF Stopped
  <2> QED BY <2>1, <2>2 DEF OwnerLast
<1>15. EndQueued'
  <2>1. ASSUME NEW k \in DOMAIN f.queue, f.queue[k].end
        PROVE  p = Home /\ k = Len(f.queue) /\ f.held = <<>> /\ f.queue[k].items = <<>> /\ Over'
    <3>1. Fresh(w, f, r, k)
      BY <1>1, <1>2, <1>6, <2>1 DEF Proceeds
    <3>2. w = Owner /\ r.at = "ending" /\ k = Len(f.queue) /\ f.held = <<>> /\ f.queue[k].items = <<>>
      BY <2>1, <3>1 DEF Fresh
    <3> QED BY <1>1, <1>4, <3>2 DEF Over, SinkInv, Typed
  <2> QED BY <1>3, <1>6, <2>1 DEF EndQueued
<1>16. Marking'
  <2>1. f.work = gather[p].work
    BY <1>1 DEF Proceeds
  <2> QED BY <1>2, <1>3, <1>6, <2>1 DEF Marking
<1>17. Sealed'
  <2>1. Lost => Lost'
    <3>1. f.lost = gather[p].lost
      BY <1>1 DEF Proceeds
    <3> QED BY <1>3, <3>1 DEF Lost
  <2>2. HasEnd' => HasEnd
    BY <1>5 DEF HasEnd, EndRow
  <2> QED BY <1>6, <2>1, <2>2 DEF Sealed
<1> QED BY <1>7, <1>8, <1>9, <1>10, <1>11, <1>12, <1>14, <1>15, <1>16, <1>17 DEF SinkInv

\* A call joins what is gathered.
LEMMA CallInLine ==
  ASSUME NEW p \in Procs, NEW top \in Nat, NEW past \in Seq(Calls), \A n \in DOMAIN past : past[n][1] = p => past[n][2] <= top,
         NEW queue \in Seq(Queued), NEW held \in Seq(Calls), InLine(p, top, past, queue, held)
  PROVE  InLine(p, top + 1, past, queue, Append(held, <<p, top + 1>>))
<1> DEFINE call == <<p, top + 1>>
           longer == Append(held, call)
<1>1. /\ DOMAIN longer = DOMAIN held \cup {Len(held) + 1} /\ longer[Len(held) + 1] = call
      /\ \A n \in DOMAIN held : longer[n] = held[n] /\ n \in 1 .. Len(held)
      /\ Len(held) \in Nat
  OBVIOUS
<1>2. call[1] = p /\ call[2] = top + 1
  OBVIOUS
<1>3. \A n \in DOMAIN past : past[n][2] \in Nat
  BY DEF Calls
<1> HIDE DEF call, longer
<1>4. \A s : Made(p, top, s) => Made(p, top + 1, s) /\ \A n \in DOMAIN s : s[n][2] < call[2] /\ s[n][1] = call[1]
  BY <1>2 DEF Made
<1>5. Made(p, top, held) /\ Ordered(held) /\ Before(past, held)
  BY DEF InLine, Piece
<1>6. Made(p, top + 1, longer)
  <2>1. call[2] \in 1 .. (top + 1)
    BY <1>2
  <2> QED BY <1>1, <1>2, <1>4, <1>5, <2>1 DEF Made
<1>7. Ordered(longer)
  <2> SUFFICES ASSUME NEW m \in DOMAIN longer, NEW n \in DOMAIN longer, m < n, longer[m][1] = longer[n][1]
               PROVE  longer[m][2] < longer[n][2]
    BY DEF Ordered
  <2>1. m \in DOMAIN held
    BY <1>1
  <2>2. CASE n \in DOMAIN held
    BY <1>1, <1>5, <2>1, <2>2 DEF Ordered
  <2>3. CASE n = Len(held) + 1
    BY <1>1, <1>4, <1>5, <2>1, <2>3
  <2> QED BY <1>1, <2>2, <2>3
<1>8. \A m \in DOMAIN past : past[m][1] = p => past[m][2] < call[2]
  BY <1>2, <1>3
<1>9. Before(past, longer)
  BY <1>1, <1>2, <1>5, <1>8 DEF Before
<1>10. ASSUME NEW k \in DOMAIN queue PROVE Piece(p, top + 1, past, queue[k].items) /\ Before(queue[k].items, longer)
  <2>1. Piece(p, top, past, queue[k].items) /\ Before(queue[k].items, held)
    BY DEF InLine
  <2>2. Made(p, top, queue[k].items)
    BY <2>1 DEF Piece
  <2>3. Piece(p, top + 1, past, queue[k].items)
    BY <1>4, <2>1, <2>2 DEF Piece
  <2>4. Before(queue[k].items, longer)
    BY <1>1, <1>4, <2>1, <2>2 DEF Before
  <2> QED BY <2>3, <2>4
<1> QED BY <1>6, <1>7, <1>9, <1>10 DEF InLine, Piece, longer, call

\* A call that is gathered is kept.
LEMMA CallHeld ==
  ASSUME NEW past, NEW queue, NEW held \in Seq(Calls), NEW call, NEW c
  PROVE  Kept(past, queue, held, c) \/ c = call => Kept(past, queue, Append(held, call), c)
<1> DEFINE longer == Append(held, call)
<1>1. /\ Len(held) + 1 \in DOMAIN longer /\ longer[Len(held) + 1] = call
      /\ \A n \in DOMAIN held : n \in DOMAIN longer /\ longer[n] = held[n]
  OBVIOUS
<1> HIDE DEF longer
<1>2. Kept(past, queue, held, c) \/ c = call => Kept(past, queue, longer, c)
  BY <1>1 DEF Kept, Has
<1> QED BY <1>2 DEF longer

\* The calls of p that landed are among those it made.
LEMMA LandedBelow ==
  ASSUME Typed, Lines, NEW p \in Procs
  PROVE  landed \in Seq(Calls) /\ \A n \in DOMAIN landed : landed[n][1] = p => landed[n][2] <= gather[p].calls
<1>1. landed \in Seq(Calls) /\ gather[p].calls \in Nat
  BY GatherQueue DEF Typed
<1>2. \A n \in DOMAIN landed : landed[n][2] \in Nat
  BY <1>1 DEF Calls
<1> QED BY <1>1, <1>2 DEF Lines

\* A queue that gains the gathered frame, awaited by its writer or by nobody.
LEMMA FlushedFresh ==
  ASSUME NEW g \in Gather, NEW by \in Writers \cup {None}, NEW queue, queue = FlushedQueue(g, by)
  PROVE  /\ queue \in Seq(Queued) /\ Len(queue) \in Nat
         /\ \A k \in DOMAIN queue : \/ k \in DOMAIN g.queue /\ queue[k] = g.queue[k]
                                    \/ queue[k].by = by /\ ~queue[k].end /\ k = Len(queue)
         /\ queue = <<>> => g.queue = <<>> /\ g.held = <<>>
<1>1. g.queue \in Seq(Queued)
  BY GatherQueue
<1>2. CASE g.held = <<>>
  BY <1>1, <1>2 DEF FlushedQueue
<1>3. CASE g.held # <<>>
  <2> DEFINE entry == [items |-> g.held, end |-> FALSE, by |-> by]
  <2>1. entry \in Queued /\ entry.by = by /\ ~entry.end
    BY QueuedType, GatherQueue
  <2> HIDE DEF entry
  <2>2. queue = Append(g.queue, entry)
    BY <1>3 DEF FlushedQueue, entry
  <2> QED BY <1>1, <2>1, <2>2
<1> QED BY <1>2, <1>3

\* A write that raises an earlier failure.
LEMMA RaisesKeeps ==
  ASSUME SinkInv, NEW w \in Writers, WriteRaises(w)
  PROVE  SinkInv'
<1>1. PICK p \in Procs : p = place[w]
  BY DEF SinkInv, Typed
<1> DEFINE g == gather[p]
           f == [g EXCEPT !.failure = FALSE]
           r == [writer[w] EXCEPT !.broken = TRUE]
<1>2. g \in Gather /\ writer[w] \in Writer
  BY DEF SinkInv, Typed
<1>3. /\ f \in Gather /\ f.held = g.held /\ f.key = g.key /\ f.queue = g.queue /\ ~f.failure /\ f.work = g.work
      /\ f.attempted = g.attempted /\ f.calls = g.calls /\ f.lost = g.lost
  <2> HIDE DEF g
  <2> QED BY <1>2, GatherQueue
<1>4. r \in Writer /\ r.broken /\ r.at = writer[w].at
  BY <1>2 DEF Writer
<1>5. /\ gather' = [gather EXCEPT ![p] = f] /\ writer' = [writer EXCEPT ![w] = r]
      /\ g.failure /\ backend # "memory" /\ writer[w].at = "open"
      /\ UNCHANGED <<place, backend, stream, trouble>>
  BY <1>1, <1>2 DEF WriteRaises, Ready, Gather
<1>6. g.calls \in Nat /\ InLine(p, g.calls, landed, g.queue, g.held)
  BY <1>2, GatherQueue DEF SinkInv, Lines
<1>7. g.key = "none" <=> g.held = <<>>
  BY DEF SinkInv, Typed
<1> HIDE DEF g, f, r
<1>8. \A n \in 1 .. f.calls : n > g.calls => FALSE
  BY <1>3, <1>6
<1>9. Proceeds(w, g, f, r)
  BY <1>1, <1>3, <1>4, <1>5, <1>6, <1>7, <1>8 DEF Proceeds, Becomes
<1> QED BY <1>1, <1>5, <1>9, ProceedsKeeps DEF g

\* A write that is gathered with the ones before it.
LEMMA DeltaKeeps ==
  ASSUME SinkInv, NEW w \in Writers, NEW kind \in Kinds, WriteDelta(w, kind)
  PROVE  SinkInv'
<1>1. PICK p \in Procs : p = place[w]
  BY DEF SinkInv, Typed
<1> DEFINE g == gather[p]
           call == <<p, g.calls + 1>>
           queue == IF g.key = kind THEN g.queue ELSE FlushedQueue(g, None)
           held == IF g.key = kind THEN Append(g.held, call) ELSE <<call>>
           f == [held |-> held, key |-> kind, queue |-> queue, failure |-> g.failure, work |-> g.work,
                 attempted |-> g.attempted, calls |-> g.calls + 1, lost |-> g.lost]
           r == writer[w]
           flushed == Flushed(g, None)
           next == IF g.key = kind THEN [g EXCEPT !.held = Append(@, call)]
                   ELSE [flushed EXCEPT !.held = <<call>>, !.key = kind]
<1>2. g \in Gather /\ r \in Writer
  BY DEF SinkInv, Typed
<1>3. /\ g.held \in Seq(Calls) /\ g.calls \in Nat /\ g.queue \in Seq(Queued) /\ g.attempted \in Nat
      /\ InLine(p, g.calls, landed, g.queue, g.held)
  BY <1>2, GatherQueue DEF SinkInv, Lines
<1>4. call \in Calls
  <2> HIDE DEF g
  <2> QED BY <1>3 DEF Calls
<1>5. /\ queue \in Seq(Queued) /\ Len(queue) \in Nat
      /\ \A k \in DOMAIN queue : \/ k \in DOMAIN g.queue /\ queue[k] = g.queue[k]
                                 \/ queue[k].by = None /\ ~queue[k].end
      /\ queue = <<>> => g.queue = <<>>
  <2> HIDE DEF g
  <2> QED BY <1>2, <1>3, FlushedFresh
<1>6. held \in Seq(Calls) /\ held # <<>>
  <2> HIDE DEF g, call
  <2> QED BY <1>3, <1>4
<1>7. kind # "none"
  BY StreamAssumption
<1>8. gather' = [gather EXCEPT ![p] = f]
  <2>1. gather' = [gather EXCEPT ![p] = [next EXCEPT !.calls = g.calls + 1]]
    <3>1. next.calls = g.calls
      <4>1. flushed \in Gather /\ flushed.calls = g.calls
        <5> HIDE DEF g
        <5> QED BY <1>2, FlushedIs
      <4> HIDE DEF g, flushed, call
      <4> QED BY <1>2, <4>1 DEF Gather
    <3>2. gather' = [gather EXCEPT ![p] = [next EXCEPT !.calls = @ + 1]]
      BY <1>1 DEF WriteDelta
    <3> HIDE DEF next
    <3> QED BY <3>1, <3>2
  <2>2. ASSUME NEW x, x = [next EXCEPT !.calls = g.calls + 1] PROVE x = f
    <3> DEFINE more == g.calls + 1
    <3>1. CASE g.key = kind
      <4> DEFINE longer == Append(g.held, call)
      <4>1. x = [g EXCEPT !.held = longer, !.calls = more]
        <5>1. next = [g EXCEPT !.held = longer] /\ x = [next EXCEPT !.calls = more]
          BY <2>2, <3>1
        <5> HIDE DEF g, longer, next, more
        <5> QED BY <1>2, <5>1
      <4>2. held = longer /\ queue = g.queue /\ kind = g.key
        BY <3>1
      <4> HIDE DEF g, longer, held, queue, more
      <4>3. x = [held |-> longer, key |-> g.key, queue |-> g.queue, failure |-> g.failure, work |-> g.work,
                 attempted |-> g.attempted, calls |-> more, lost |-> g.lost]
        BY <1>2, <4>1, GatherQueue
      <4> QED BY <4>2, <4>3 DEF more
    <3>2. CASE g.key # kind
      <4> DEFINE one == <<call>>
      <4>1. /\ flushed \in Gather /\ flushed.queue = FlushedQueue(g, None) /\ flushed.failure = g.failure
            /\ flushed.work = g.work /\ flushed.attempted = g.attempted /\ flushed.lost = g.lost
        <5> HIDE DEF g
        <5> QED BY <1>2, FlushedIs
      <4>2. next = [flushed EXCEPT !.held = one, !.key = kind] /\ x = [next EXCEPT !.calls = more]
        BY <2>2, <3>2
      <4>3. held = one /\ queue = FlushedQueue(g, None)
        BY <3>2
      <4> HIDE DEF g, flushed, held, queue, more, next, one
      <4>4. x = [flushed EXCEPT !.held = one, !.key = kind, !.calls = more]
        BY <4>1, <4>2
      <4>5. x = [held |-> one, key |-> kind, queue |-> flushed.queue, failure |-> flushed.failure, work |-> flushed.work,
                 attempted |-> flushed.attempted, calls |-> more, lost |-> flushed.lost]
        BY <4>1, <4>4, GatherQueue
      <4> QED BY <4>1, <4>3, <4>5 DEF more
    <3> QED BY <3>1, <3>2
  <2> HIDE DEF f, next
  <2> QED BY <2>1, <2>2
<1>9. /\ UNCHANGED <<writer, place, backend, stream, trouble>> /\ ~g.failure /\ backend # "memory" /\ r.at = "open"
  BY <1>1 DEF WriteDelta, Ready
<1>10. f \in Gather
  <2> HIDE DEF g, held, queue
  <2> QED BY <1>2, <1>3, <1>5, <1>6, GatherQueue
<1>11. /\ f.held = held /\ f.key = kind /\ f.queue = queue /\ f.failure = g.failure /\ f.work = g.work
       /\ f.attempted = g.attempted /\ f.calls = g.calls + 1 /\ f.lost = g.lost
  OBVIOUS
<1>12. InLine(p, g.calls + 1, landed, queue, held)
  <2>1. landed \in Seq(Calls) /\ \A n \in DOMAIN landed : landed[n][1] = p => landed[n][2] <= g.calls
    BY LandedBelow DEF SinkInv
  <2>2. InLine(p, g.calls, landed, FlushedQueue(g, None), <<>>)
    <3> HIDE DEF g
    <3> QED BY <1>2, <1>3, FlushInLine
  <2>3. FlushedQueue(g, None) \in Seq(Queued)
    <3> HIDE DEF g
    <3> QED BY <1>2, FlushedFresh
  <2>4. Append(<<>>, call) = <<call>> /\ <<>> \in Seq(Calls)
    OBVIOUS
  <2> HIDE DEF g
  <2>5. InLine(p, g.calls + 1, landed, g.queue, Append(g.held, call))
    BY <1>3, <2>1, CallInLine
  <2>6. InLine(p, g.calls + 1, landed, FlushedQueue(g, None), Append(<<>>, call))
    BY <1>3, <2>1, <2>2, <2>3, <2>4, CallInLine
  <2> QED BY <2>4, <2>5, <2>6
<1>13. ASSUME NEW n \in 1 .. (g.calls + 1), Kept(landed, g.queue, g.held, <<p, n>>) \/ n > g.calls
       PROVE  Kept(landed, queue, held, <<p, n>>)
  <2>1. Kept(landed, g.queue, g.held, <<p, n>>) \/ <<p, n>> = call
    BY <1>3, <1>13
  <2>2. CASE g.key = kind
    <3>1. queue = g.queue /\ held = Append(g.held, call)
      BY <2>2
    <3> HIDE DEF g, call, queue, held
    <3> QED BY <1>3, <2>1, <3>1, CallHeld
  <2>3. CASE g.key # kind
    <3>1. queue = FlushedQueue(g, None) /\ held = Append(<<>>, call) /\ <<>> \in Seq(Calls)
      BY <2>3
    <3> HIDE DEF g, call, queue, held
    <3>2. Kept(landed, queue, <<>>, <<p, n>>) \/ <<p, n>> = call
      BY <1>2, <2>1, <3>1, FlushKept
    <3> QED BY <3>1, <3>2, CallHeld
  <2> QED BY <2>2, <2>3
<1>14. writer' = [writer EXCEPT ![w] = r]
  BY <1>9 DEF SinkInv, Typed
<1>15. g.calls <= g.calls + 1
  BY <1>3
<1> HIDE DEF f, g, r, queue, held
<1>16. Proceeds(w, g, f, r)
  <2>1. Becomes(p, f)
    BY <1>8, <1>10 DEF Becomes
  <2>2. \A k \in DOMAIN f.queue : (k \in DOMAIN g.queue /\ f.queue[k] = g.queue[k]) \/ Fresh(w, f, r, k)
    BY <1>5, <1>11, StreamAssumption DEF Fresh
  <2>3. f.key = "none" <=> f.held = <<>>
    BY <1>6, <1>7, <1>11
  <2>4. r.broken <=> writer[w].broken
    BY DEF r
  <2> QED BY <1>1, <1>2, <1>5, <1>9, <1>11, <1>12, <1>13, <1>14, <1>15, <2>1, <2>2, <2>3, <2>4 DEF Proceeds
<1> QED BY <1>1, <1>9, <1>16, ProceedsKeeps DEF g, r

\* What the loop queues behind the gathered frame: one of its own frames, or the end.
Queues(w, p, g, f, high, items, end) ==
  /\ f \in Gather /\ f.held = <<>> /\ f.key = "none" /\ f.failure = g.failure /\ f.work = g.work
  /\ f.attempted = g.attempted /\ f.lost = g.lost /\ f.calls = high /\ LastQueued(f) \in Nat
  /\ g.calls <= f.calls /\ f.queue # <<>>
  /\ \A k \in DOMAIN f.queue :
       \/ k \in DOMAIN g.queue /\ f.queue[k] = g.queue[k]
       \/ /\ f.queue[k].by = w /\ f.attempted + k <= LastQueued(f)
          /\ f.queue[k].end => end /\ k = Len(f.queue) /\ f.queue[k].items = items
  /\ InLine(p, f.calls, landed, f.queue, f.held)
  /\ \A n \in 1 .. f.calls : Kept(landed, g.queue, g.held, <<p, n>>) \/ n > g.calls
                               => Kept(landed, f.queue, f.held, <<p, n>>)

\* Queueing the gathered frame and then one's own keeps the line.
LEMMA QueuesBehind ==
  ASSUME SinkInv, NEW w \in Writers, NEW p \in Procs, p = place[w], NEW g, g = gather[p], NEW high \in Nat,
         NEW items \in Seq(Calls), NEW end \in BOOLEAN,
         \/ high = g.calls /\ items = <<>>
         \/ high = g.calls + 1 /\ items = << <<p, high>> >>,
         NEW f, f = Enqueued(Flushed([g EXCEPT !.calls = high], w), items, end, w)
  PROVE  Queues(w, p, g, f, high, items, end)
<1> DEFINE more == [g EXCEPT !.calls = high]
           flushed == Flushed(more, w)
           entry == [items |-> items, end |-> end, by |-> w]
           queue == FlushedQueue(g, w)
<1>1. g \in Gather
  BY DEF SinkInv, Typed
<1>2. /\ g.held \in Seq(Calls) /\ g.calls \in Nat /\ g.queue \in Seq(Queued) /\ g.attempted \in Nat
      /\ InLine(p, g.calls, landed, g.queue, g.held)
  BY <1>1, GatherQueue DEF SinkInv, Lines
<1>3. /\ more \in Gather /\ more.held = g.held /\ more.key = g.key /\ more.queue = g.queue /\ more.failure = g.failure
      /\ more.work = g.work /\ more.attempted = g.attempted /\ more.lost = g.lost /\ more.calls = high
  BY <1>1, GatherQueue
<1> HIDE DEF more
<1>4. /\ flushed \in Gather /\ flushed.held = <<>> /\ flushed.queue = FlushedQueue(more, w)
      /\ flushed.failure = more.failure /\ flushed.work = more.work /\ flushed.attempted = more.attempted
      /\ flushed.calls = more.calls /\ flushed.lost = more.lost
      /\ flushed.key = IF more.held = <<>> THEN more.key ELSE "none"
  BY <1>3, FlushedIs
<1>5. flushed.queue = queue
  BY <1>3, <1>4 DEF FlushedQueue
<1> HIDE DEF flushed
<1>6. /\ f \in Gather /\ f.held = flushed.held /\ f.key = flushed.key /\ f.failure = flushed.failure /\ f.work = flushed.work
      /\ f.attempted = flushed.attempted /\ f.calls = flushed.calls /\ f.lost = flushed.lost
      /\ f.queue = Append(flushed.queue, entry)
  <2>1. f = Enqueued(flushed, items, end, w)
    BY DEF flushed, more
  <2>2. PICK x \in Gather : x = flushed
    BY <1>4
  <2>3. f = Enqueued(x, items, end, w) /\ w \in Writers \cup {None}
    BY <2>1, <2>2
  <2> DEFINE y == Enqueued(x, items, end, w)
  <2>4. /\ y \in Gather /\ y.held = x.held /\ y.key = x.key /\ y.failure = x.failure
        /\ y.work = x.work /\ y.attempted = x.attempted /\ y.calls = x.calls /\ y.lost = x.lost
        /\ y.queue = Append(x.queue, [items |-> items, end |-> end, by |-> w])
    BY <2>3, EnqueuedIs, Zenon
  <2>5. f = y
    BY <2>3
  <2> HIDE DEF y
  <2>6. /\ f \in Gather /\ f.held = x.held /\ f.key = x.key /\ f.failure = x.failure
        /\ f.work = x.work /\ f.attempted = x.attempted /\ f.calls = x.calls /\ f.lost = x.lost
        /\ f.queue = Append(x.queue, [items |-> items, end |-> end, by |-> w])
    BY <2>4, <2>5
  <2> QED BY <2>2, <2>6 DEF entry
<1>7. f.key = "none"
  <2>1. g.held = <<>> => g.key = "none"
    BY DEF SinkInv, Typed
  <2> QED BY <1>3, <1>4, <1>6, <2>1
<1>8. entry \in Queued /\ entry.items = items /\ entry.end = end /\ entry.by = w
  BY QueuedType
<1>9. /\ queue \in Seq(Queued) /\ Len(queue) \in Nat
      /\ \A k \in DOMAIN queue : \/ k \in DOMAIN g.queue /\ queue[k] = g.queue[k]
                                 \/ queue[k].by = w /\ ~queue[k].end
  BY <1>1, FlushedFresh
<1> HIDE DEF entry, queue
<1>10. /\ f.queue = Append(queue, entry) /\ Len(f.queue) = Len(queue) + 1 /\ f.queue # <<>>
       /\ DOMAIN f.queue = DOMAIN queue \cup {Len(f.queue)} /\ f.queue[Len(f.queue)] = entry
       /\ \A k \in DOMAIN queue : f.queue[k] = queue[k] /\ k \in Nat /\ k <= Len(queue)
  <2>1. queue \in Seq(Queued) /\ entry \in Queued /\ f.queue = Append(queue, entry)
    BY <1>5, <1>6, <1>8, <1>9
  <2> DEFINE t == Append(queue, entry)
  <2>2. /\ t \in Seq(Queued) /\ Len(t) = Len(queue) + 1 /\ t # <<>> /\ Len(queue) \in Nat
        /\ DOMAIN t = DOMAIN queue \cup {Len(t)} /\ t[Len(t)] = entry
        /\ \A k \in DOMAIN queue : t[k] = queue[k] /\ k \in Nat /\ k <= Len(queue) /\ k < Len(t)
    BY <2>1, Appended, Zenon
  <2>3. f.queue = t
    BY <2>1
  <2> HIDE DEF t
  <2>4. /\ f.queue # <<>> /\ Len(f.queue) = Len(queue) + 1 /\ DOMAIN f.queue = DOMAIN queue \cup {Len(f.queue)}
        /\ f.queue[Len(f.queue)] = entry /\ \A k \in DOMAIN queue : f.queue[k] = queue[k] /\ k \in Nat /\ k <= Len(queue)
    BY <2>2, <2>3
  <2> QED BY <2>1, <2>4
<1>11. LastQueued(f) \in Nat /\ \A k \in DOMAIN f.queue : f.attempted + k <= LastQueued(f)
  <2> DEFINE size == Len(queue)
  <2>1. size \in Nat /\ LastQueued(f) = g.attempted + (size + 1) /\ f.attempted = g.attempted
    BY <1>3, <1>4, <1>6, <1>9, <1>10 DEF LastQueued
  <2>2. \A k \in DOMAIN f.queue : k \in Nat /\ k <= size + 1
    BY <1>9, <1>10
  <2> HIDE DEF size
  <2> QED BY SMTT(30), <1>2, <2>1, <2>2
<1>12. \A k \in DOMAIN f.queue :
         \/ k \in DOMAIN g.queue /\ f.queue[k] = g.queue[k]
         \/ /\ f.queue[k].by = w /\ f.attempted + k <= LastQueued(f)
            /\ f.queue[k].end => end /\ k = Len(f.queue) /\ f.queue[k].items = items
  <2> TAKE k \in DOMAIN f.queue
  <2>1. CASE k \in DOMAIN queue
    BY <1>9, <1>10, <1>11, <2>1
  <2>2. CASE k = Len(f.queue)
    BY <1>8, <1>10, <1>11, <2>2
  <2> QED BY <1>10, <2>1, <2>2
<1>13. InLine(p, high, landed, Append(queue, entry), <<>>)
  <2>1. landed \in Seq(Calls) /\ \A n \in DOMAIN landed : landed[n][1] = p => landed[n][2] <= g.calls
    BY LandedBelow DEF SinkInv
  <2>2. InLine(p, g.calls, landed, queue, <<>>)
    BY <1>1, <1>2, FlushInLine DEF queue
  <2>3. Piece(p, high, landed, items) /\ \A k \in DOMAIN queue : Before(queue[k].items, items)
    <3>1. CASE items = <<>>
      BY <3>1 DEF Piece, Made, Ordered, Before
    <3>2. CASE high = g.calls + 1 /\ items = << <<p, high>> >>
      <4>1. ASSUME NEW k \in DOMAIN queue PROVE Made(p, g.calls, queue[k].items) /\ queue[k].items \in Seq(Calls)
        <5>1. queue[k] \in Queued
          BY <1>9
        <5> QED BY <2>2, <5>1 DEF InLine, Piece, Queued
      <4>2. Piece(p, high, landed, items)
        <5>1. Made(p, g.calls, <<>>) /\ <<>> \in Seq(Calls)
          BY DEF Made
        <5> QED BY <1>2, <2>1, <3>2, <5>1, NewCall
      <4>3. \A k \in DOMAIN queue : Before(queue[k].items, items)
        BY <1>2, <2>1, <3>2, <4>1, NewCall
      <4> QED BY <4>2, <4>3
    <3> QED BY <3>1, <3>2
  <2>4. g.calls <= high
    BY <1>2
  <2> QED BY <1>2, <1>8, <1>9, <2>2, <2>3, <2>4, EntryInLine
<1>14. ASSUME NEW n \in 1 .. high, Kept(landed, g.queue, g.held, <<p, n>>) \/ n > g.calls
       PROVE  Kept(landed, Append(queue, entry), <<>>, <<p, n>>)
  <2>1. CASE Kept(landed, g.queue, g.held, <<p, n>>)
    <3>1. Kept(landed, queue, <<>>, <<p, n>>)
      BY <1>1, <2>1, FlushKept DEF queue
    <3> QED BY <1>8, <1>9, <3>1, EntryKept
  <2>2. CASE n > g.calls
    <3>1. n = high /\ items = << <<p, high>> >>
      BY <1>2, <2>2
    <3>2. Has(entry.items, <<p, n>>)
      BY <1>8, <3>1 DEF Has
    <3> QED BY <1>8, <1>9, <3>2, EntryKept
  <2> QED BY <1>14, <2>1, <2>2
<1>15. f.held = <<>> /\ f.calls = high /\ g.calls <= high
  BY <1>2, <1>3, <1>4, <1>6
<1> QED BY ZenonT(40), <1>3, <1>4, <1>6, <1>7, <1>10, <1>11, <1>12, <1>13, <1>14, <1>15 DEF Queues

\* A write that is a frame of its own.
LEMMA FrameKeeps ==
  ASSUME SinkInv, NEW w \in Writers, WriteFrame(w)
  PROVE  SinkInv'
<1>1. PICK p \in Procs : p = place[w]
  BY DEF SinkInv, Typed
<1>2. PICK g : g = gather[p]
  OBVIOUS
<1>3. g \in Gather /\ g.calls \in Nat /\ writer[w] \in Writer
  BY <1>2, GatherQueue DEF SinkInv, Typed
<1> DEFINE high == g.calls + 1
           items == << <<p, high>> >>
           more == [g EXCEPT !.calls = high]
           f == Enqueued(Flushed(more, w), items, FALSE, w)
           r == [at |-> "writing", broken |-> writer[w].broken, until |-> LastQueued(f)]
<1>4. high \in Nat /\ items \in Seq(Calls)
  BY <1>3 DEF Calls
<1>5. /\ gather' = [gather EXCEPT ![p] = f]
      /\ writer' = [writer EXCEPT ![w] = [@ EXCEPT !.at = "writing", !.until = LastQueued(f)]]
      /\ writer[w].at = "open" /\ ~writer[w].broken /\ ~g.failure /\ backend # "memory"
      /\ UNCHANGED <<place, backend, stream, trouble>>
  <2>1. more.calls = high
    BY <1>3, GatherQueue
  <2> QED BY <1>1, <1>2, <2>1 DEF WriteFrame, Ready
<1>6. f = Enqueued(Flushed([g EXCEPT !.calls = high], w), items, FALSE, w)
  OBVIOUS
<1>7. high = g.calls + 1 /\ items = << <<p, high>> >>
  OBVIOUS
<1> HIDE DEF high, items, more, f
<1>8. /\ f \in Gather /\ f.held = <<>> /\ f.key = "none" /\ f.failure = g.failure /\ f.work = g.work
      /\ f.attempted = g.attempted /\ f.lost = g.lost /\ f.calls = high /\ LastQueued(f) \in Nat
      /\ g.calls <= f.calls /\ f.queue # <<>>
      /\ \A k \in DOMAIN f.queue :
           \/ k \in DOMAIN g.queue /\ f.queue[k] = g.queue[k]
           \/ /\ f.queue[k].by = w /\ f.attempted + k <= LastQueued(f)
              /\ ~f.queue[k].end
      /\ InLine(p, f.calls, landed, f.queue, f.held)
      /\ \A n \in 1 .. f.calls : Kept(landed, g.queue, g.held, <<p, n>>) \/ n > g.calls
                                   => Kept(landed, f.queue, f.held, <<p, n>>)
  <2>1. Queues(w, p, g, f, high, items, FALSE)
    BY <1>1, <1>2, <1>4, <1>6, <1>7, QueuesBehind
  <2> QED BY <2>1 DEF Queues
<1>9. r \in Writer /\ writer' = [writer EXCEPT ![w] = r]
  <2>1. ASSUME NEW x, x = [writer[w] EXCEPT !.at = "writing", !.until = LastQueued(f)] PROVE x = r
    BY <1>3, <2>1 DEF Writer
  <2>2. r \in Writer
    BY <1>3, <1>8 DEF Writer
  <2> QED BY <1>5, <2>1, <2>2
<1>10. r.at = "writing" /\ r.broken = writer[w].broken /\ r.until = LastQueued(f)
  OBVIOUS
<1> HIDE DEF r
<1>11. \A k \in DOMAIN f.queue : (k \in DOMAIN g.queue /\ f.queue[k] = g.queue[k]) \/ Fresh(w, f, r, k)
  <2> TAKE k \in DOMAIN f.queue
  <2> SUFFICES ASSUME f.queue[k].by = w, f.attempted + k <= LastQueued(f), ~f.queue[k].end PROVE Fresh(w, f, r, k)
    BY <1>8
  <2>1. r.until >= f.attempted + k
    <3>1. k \in Nat /\ f.attempted \in Nat
      <4>1. f.queue \in Seq(Queued) /\ f.attempted \in Nat
        BY <1>8, GatherQueue
      <4> QED BY <4>1
    <3> QED BY <1>8, <1>10, <3>1
  <2> QED BY <1>10, <2>1 DEF Fresh
<1>12. Proceeds(w, g, f, r)
  BY <1>1, <1>2, <1>5, <1>8, <1>9, <1>10, <1>11 DEF Proceeds, Becomes
<1> QED BY <1>1, <1>2, <1>5, <1>12, ProceedsKeeps

\* A delegate that is broken, or whose transport gathers nothing, just ends.
LEMMA QuietEndKeeps ==
  ASSUME SinkInv, NEW w \in Writers, EndDelegate(w), backend = "memory" \/ writer[w].broken
  PROVE  SinkInv'
<1>1. PICK p \in Procs : p = place[w]
  BY DEF SinkInv, Typed
<1>2. PICK g : g = gather[p]
  OBVIOUS
<1>3. g \in Gather /\ g.calls \in Nat /\ writer[w] \in Writer
  BY <1>2, GatherQueue DEF SinkInv, Typed
<1> DEFINE r == [at |-> "done", broken |-> writer[w].broken, until |-> 0]
<1>4. /\ gather' = gather /\ w # Owner /\ writer[w].at = "open"
      /\ writer' = [writer EXCEPT ![w] = [writer[w] EXCEPT !.at = "done", !.until = 0, !.broken = @ \/ FALSE]]
      /\ UNCHANGED <<place, backend, stream, trouble>>
  BY DEF EndDelegate
<1>5. writer' = [writer EXCEPT ![w] = r] /\ r \in Writer
  <2>1. PICK x : x = [writer[w] EXCEPT !.at = "done", !.until = 0, !.broken = @ \/ FALSE]
    OBVIOUS
  <2>2. writer' = [writer EXCEPT ![w] = x]
    BY <1>4, <2>1
  <2>3. x = r
    BY <1>3, <2>1 DEF Writer
  <2>4. r \in Writer
    BY <1>3 DEF Writer
  <2> QED BY <2>2, <2>3, <2>4
<1>6. r.at = "done" /\ r.broken = writer[w].broken
  OBVIOUS
<1> HIDE DEF r
<1>7. gather' = [gather EXCEPT ![p] = g]
  BY <1>2, <1>4 DEF SinkInv, Typed
<1>8. /\ g.key = "none" <=> g.held = <<>>
      /\ backend = "memory" => g.queue = <<>> /\ g.held = <<>> /\ ~g.failure
  BY <1>2 DEF SinkInv, Typed
<1>9. InLine(p, g.calls, landed, g.queue, g.held) /\ g.calls <= g.calls
  BY <1>2, <1>3 DEF SinkInv, Lines
<1>10. Busy(g) => r.broken
  BY <1>6, <1>8 DEF Busy, EndDelegate
<1>11. \A n \in 1 .. g.calls : ~(n > g.calls)
  BY <1>3
<1>12. Busy(g) => backend # "memory"
  BY <1>8 DEF Busy
<1>13. Proceeds(w, g, g, r)
  BY <1>1, <1>3, <1>4, <1>5, <1>6, <1>7, <1>8, <1>9, <1>10, <1>11 DEF Proceeds, Becomes
<1> QED BY <1>1, <1>2, <1>4, <1>13, ProceedsKeeps

\* Another flushes the shared stream, and waits for it or hears what failed.
LEMMA EndDelegateKeeps ==
  ASSUME SinkInv, NEW w \in Writers, EndDelegate(w)
  PROVE  SinkInv'
<1> SUFFICES ASSUME backend # "memory", ~writer[w].broken PROVE SinkInv'
  BY QuietEndKeeps
<1>1. PICK p \in Procs : p = place[w]
  BY DEF SinkInv, Typed
<1>2. PICK g : g = gather[p]
  OBVIOUS
<1>3. g \in Gather /\ g.calls \in Nat /\ g.attempted \in Nat /\ writer[w] \in Writer
  BY <1>2, GatherQueue DEF SinkInv, Typed
<1>4. PICK next : next = Flushed(g, w)
  OBVIOUS
<1>5. /\ next \in Gather /\ next.held = <<>> /\ next.queue = FlushedQueue(g, w)
      /\ next.failure = g.failure /\ next.work = g.work /\ next.attempted = g.attempted /\ next.calls = g.calls
      /\ next.lost = g.lost
      /\ next.key = IF g.held = <<>> THEN g.key ELSE "none"
  BY <1>3, <1>4, FlushedIs
<1>6. /\ g.key = "none" <=> g.held = <<>>
      /\ InLine(p, g.calls, landed, g.queue, g.held)
  BY <1>2 DEF SinkInv, Typed, Lines
<1>7. next.key = "none"
  BY <1>5, <1>6
<1>8. w # Owner /\ writer[w].at = "open" /\ UNCHANGED <<place, backend, stream, trouble>>
  BY DEF EndDelegate
<1>9. CASE next.queue # <<>>
  <2> DEFINE r == [at |-> "flushing", broken |-> FALSE, until |-> LastQueued(next)]
  <2>1. /\ gather' = [gather EXCEPT ![p] = [next EXCEPT !.failure = @ /\ TRUE]]
        /\ writer' = [writer EXCEPT ![w] = [writer[w] EXCEPT !.at = "flushing", !.until = LastQueued(next), !.broken = @ \/ FALSE]]
    BY <1>1, <1>2, <1>4, <1>9 DEF EndDelegate
  <2>2. gather' = [gather EXCEPT ![p] = next]
    <3>1. PICK x : x = [next EXCEPT !.failure = @ /\ TRUE]
      OBVIOUS
    <3>2. gather' = [gather EXCEPT ![p] = x]
      BY <2>1, <3>1, Zenon
    <3>3. x = next
      BY <1>5, <3>1, GatherQueue
    <3> QED BY <3>2, <3>3
  <2>3. /\ next.queue \in Seq(Queued) /\ Len(next.queue) \in Nat
        /\ \A k \in DOMAIN next.queue : \/ k \in DOMAIN g.queue /\ next.queue[k] = g.queue[k]
                                        \/ next.queue[k].by = w /\ ~next.queue[k].end /\ k = Len(next.queue)
        /\ next.queue = <<>> => g.queue = <<>>
    BY <1>3, <1>5, FlushedFresh
  <2>4. LastQueued(next) \in Nat /\ LastQueued(next) = next.attempted + Len(next.queue)
    BY <1>3, <1>5, <2>3 DEF LastQueued
  <2>5. r \in Writer /\ writer' = [writer EXCEPT ![w] = r]
    <3>1. PICK x : x = [writer[w] EXCEPT !.at = "flushing", !.until = LastQueued(next), !.broken = @ \/ FALSE]
      OBVIOUS
    <3>2. writer' = [writer EXCEPT ![w] = x]
      BY <2>1, <3>1
    <3>3. x = r
      BY <1>3, <1>8, <3>1 DEF Writer
    <3>4. r \in Writer
      BY <2>4 DEF Writer
    <3> QED BY <3>2, <3>3, <3>4
  <2>6. r.at = "flushing" /\ ~r.broken /\ r.until = LastQueued(next)
    OBVIOUS
  <2> HIDE DEF r
  <2>7. \A k \in DOMAIN next.queue : (k \in DOMAIN g.queue /\ next.queue[k] = g.queue[k]) \/ Fresh(w, next, r, k)
    <3>1. \A k \in DOMAIN next.queue : k = Len(next.queue) => r.until >= next.attempted + k
      BY <2>4, <2>6
    <3> QED BY <2>3, <2>6, <3>1 DEF Fresh
  <2>8. InLine(p, next.calls, landed, next.queue, next.held) /\ g.calls <= next.calls
    <3>1. InLine(p, g.calls, landed, FlushedQueue(g, w), <<>>)
      BY <1>3, <1>6, FlushInLine
    <3> QED BY <1>3, <1>5, <3>1
  <2>9. \A n \in 1 .. next.calls : Kept(landed, g.queue, g.held, <<p, n>>) \/ n > g.calls
                                     => Kept(landed, next.queue, next.held, <<p, n>>)
    BY <1>3, <1>5, FlushKept
  <2>10. Proceeds(w, g, next, r)
    BY <1>1, <1>5, <1>7, <1>8, <2>2, <2>3, <2>4, <2>5, <2>6, <2>7, <2>8, <2>9 DEF Proceeds, Becomes
  <2> QED BY <1>1, <1>2, <1>8, <2>10, ProceedsKeeps
<1>10. CASE next.queue = <<>>
  <2>1. g.queue = <<>> /\ g.held = <<>> /\ next = g
    <3>1. g.queue = <<>> /\ g.held = <<>>
      <4>1. FlushedQueue(g, w) = <<>>
        BY <1>5, <1>10
      <4> QED BY <1>3, <4>1, FlushedFresh
    <3> QED BY <1>4, <3>1 DEF Flushed
  <2> DEFINE f == [g EXCEPT !.failure = FALSE]
             r == [at |-> "done", broken |-> g.failure, until |-> 0]
  <2>2. /\ gather' = [gather EXCEPT ![p] = [next EXCEPT !.failure = @ /\ FALSE]]
        /\ writer' = [writer EXCEPT ![w] = [writer[w] EXCEPT !.at = "done", !.until = 0, !.broken = @ \/ next.failure]]
    BY <1>1, <1>2, <1>4, <1>10 DEF EndDelegate
  <2>3. gather' = [gather EXCEPT ![p] = f]
    BY <1>3, <2>1, <2>2 DEF Gather
  <2>4. r \in Writer /\ writer' = [writer EXCEPT ![w] = r]
    <3>1. g.failure \in BOOLEAN
      BY <1>3 DEF Gather
    <3>2. PICK x : x = [writer[w] EXCEPT !.at = "done", !.until = 0, !.broken = @ \/ next.failure]
      OBVIOUS
    <3>3. writer' = [writer EXCEPT ![w] = x]
      BY <2>2, <3>2
    <3>4. PICK b \in BOOLEAN : b = (writer[w].broken \/ next.failure)
      OBVIOUS
    <3>5. b = g.failure
      BY <2>1, <3>1, <3>4
    <3>6. x = [writer[w] EXCEPT !.at = "done", !.until = 0, !.broken = b]
      BY <3>2, <3>4, Zenon
    <3>7. x = r
      BY <1>3, <3>5, <3>6 DEF Writer
    <3>8. r \in Writer
      BY <3>1 DEF Writer
    <3> QED BY <3>3, <3>7, <3>8
  <2>5. /\ f \in Gather /\ f.held = g.held /\ f.key = g.key /\ f.queue = g.queue /\ ~f.failure /\ f.work = g.work
        /\ f.attempted = g.attempted /\ f.calls = g.calls /\ f.lost = g.lost
    BY <1>3, GatherQueue
  <2>6. r.at = "done" /\ r.broken = g.failure
    OBVIOUS
  <2> HIDE DEF f, r
  <2>7. ~Busy(f)
    BY <2>1, <2>5 DEF Busy
  <2>8. \A n \in 1 .. f.calls : ~(n > g.calls)
    BY <1>3, <2>5
  <2>9. g.calls <= f.calls
    BY <1>3, <2>5
  <2>10. Proceeds(w, g, f, r)
    BY <1>1, <1>6, <1>8, <2>3, <2>4, <2>5, <2>6, <2>7, <2>8, <2>9 DEF Proceeds, Becomes
  <2> QED BY <1>1, <1>2, <1>8, <2>10, ProceedsKeeps
<1> QED BY <1>9, <1>10

\* The owner's end: what is gathered is queued, and the end marker behind it.
LEMMA EndOwnerKeeps ==
  ASSUME SinkInv, EndOwner, backend # "memory"
  PROVE  SinkInv'
<1> DEFINE w == Owner
<1>1. PICK p \in Procs : p = place[w]
  BY StreamAssumption DEF SinkInv, Typed
<1>2. PICK g : g = gather[p]
  OBVIOUS
<1>3. g \in Gather /\ g.calls \in Nat /\ writer[w] \in Writer /\ w \in Writers
  BY <1>2, GatherQueue, StreamAssumption DEF SinkInv, Typed
<1>4. PICK f : f = Enqueued(Flushed(g, w), <<>>, TRUE, w)
  OBVIOUS
<1> DEFINE r == [at |-> "ending", broken |-> writer[w].broken, until |-> LastQueued(f)]
<1>5. /\ gather' = [gather EXCEPT ![p] = f]
      /\ writer' = [writer EXCEPT ![w] = [@ EXCEPT !.at = "ending", !.until = LastQueued(f)]]
      /\ writer[w].at = "open" /\ \A x \in Writers \ {Owner} : Stopped(x)
      /\ UNCHANGED <<place, backend, stream, trouble>>
  BY <1>1, <1>2, <1>4 DEF EndOwner, stream
<1>6. Queues(w, p, g, f, g.calls, <<>>, TRUE)
  <2>1. [g EXCEPT !.calls = g.calls] = g
    <3>1. ASSUME NEW x, x = [g EXCEPT !.calls = g.calls] PROVE x = g
      BY <1>3, <3>1, GatherQueue
    <3> QED BY <3>1
  <2>2. f = Enqueued(Flushed([g EXCEPT !.calls = g.calls], w), <<>>, TRUE, w)
    BY <1>4, <2>1
  <2>3. <<>> \in Seq(Calls)
    OBVIOUS
  <2> HIDE DEF w
  <2> QED BY <1>1, <1>2, <1>3, <2>2, <2>3, QueuesBehind
<1>7. /\ f \in Gather /\ f.held = <<>> /\ f.key = "none" /\ f.failure = g.failure /\ f.work = g.work
      /\ f.attempted = g.attempted /\ f.lost = g.lost /\ f.calls = g.calls /\ LastQueued(f) \in Nat
      /\ g.calls <= f.calls /\ f.queue # <<>>
      /\ \A k \in DOMAIN f.queue :
           \/ k \in DOMAIN g.queue /\ f.queue[k] = g.queue[k]
           \/ /\ f.queue[k].by = w /\ f.attempted + k <= LastQueued(f)
              /\ f.queue[k].end => k = Len(f.queue) /\ f.queue[k].items = <<>>
      /\ InLine(p, f.calls, landed, f.queue, f.held)
      /\ \A n \in 1 .. f.calls : Kept(landed, g.queue, g.held, <<p, n>>) \/ n > g.calls
                                   => Kept(landed, f.queue, f.held, <<p, n>>)
  BY <1>6 DEF Queues
<1>8. r \in Writer /\ writer' = [writer EXCEPT ![w] = r]
  <2>1. ASSUME NEW x, x = [writer[w] EXCEPT !.at = "ending", !.until = LastQueued(f)] PROVE x = r
    BY <1>3, <2>1 DEF Writer
  <2>2. r \in Writer
    BY <1>3, <1>7 DEF Writer
  <2> QED BY <1>5, <2>1, <2>2
<1>9. r.at = "ending" /\ r.broken = writer[w].broken /\ r.until = LastQueued(f)
  OBVIOUS
<1> HIDE DEF r
<1>10. \A k \in DOMAIN f.queue : (k \in DOMAIN g.queue /\ f.queue[k] = g.queue[k]) \/ Fresh(w, f, r, k)
  <2> TAKE k \in DOMAIN f.queue
  <2> SUFFICES ASSUME f.queue[k].by = w, f.attempted + k <= LastQueued(f),
                      f.queue[k].end => k = Len(f.queue) /\ f.queue[k].items = <<>>
               PROVE  Fresh(w, f, r, k)
    BY <1>7
  <2>1. r.until >= f.attempted + k
    <3>1. k \in Nat /\ f.attempted \in Nat
      <4>1. f.queue \in Seq(Queued) /\ f.attempted \in Nat
        BY <1>7, GatherQueue
      <4> QED BY <4>1
    <3> QED BY <1>7, <1>9, <3>1
  <2> QED BY <1>7, <1>9, <2>1 DEF Fresh
<1>11. Proceeds(w, g, f, r)
  <2>1. r.broken <=> writer[w].broken
    BY <1>9
  <2>2. Busy(f) => r.at \in {"flushing", "ending"} /\ f.held = <<>> /\ r.until = LastQueued(f)
    BY <1>7, <1>9
  <2> QED BY <1>1, <1>5, <1>7, <1>8, <1>9, <1>10, <2>1, <2>2 DEF Proceeds, Becomes
<1> QED BY <1>1, <1>2, <1>3, <1>5, <1>11, ProceedsKeeps

\* In process the end is only marked.
LEMMA EndMemoryKeeps ==
  ASSUME SinkInv, EndOwner, backend = "memory"
  PROVE  SinkInv'
<1>1. /\ writer[Owner].at = "open" /\ \A w \in Writers \ {Owner} : Stopped(w)
      /\ writer' = [writer EXCEPT ![Owner].at = "done"] /\ marked' = TRUE
      /\ UNCHANGED <<backend, place, gather, rows, gen, landed, trouble>>
  BY DEF EndOwner
<1>2. writer'[Owner].at = "done" /\ writer'[Owner].broken = writer[Owner].broken /\ Owner \in Writers
  BY <1>1, StreamAssumption DEF SinkInv, Typed, Writer
<1>3. \A w \in Writers : w # Owner => writer'[w] = writer[w]
  BY <1>1 DEF SinkInv, Typed
<1>4. \A q \in Procs : gather[q].queue = <<>> /\ gather[q].held = <<>> /\ ~gather[q].failure /\ gather[q].work.stage = "none"
  BY DEF SinkInv, Typed
<1>5. Typed'
  <2>1. writer' \in [Writers -> Writer]
    BY <1>1 DEF SinkInv, Typed, Writer
  <2> QED BY <1>1, <2>1 DEF SinkInv, Typed
<1>6. Lines' /\ Whole'
  BY <1>1 DEF SinkInv, Lines, Whole
<1>7. \A w \in Writers : Knows(w)' <=> Knows(w)
  BY <1>1, <1>2, <1>3 DEF Knows
<1>8. Blamed' /\ Reported'
  BY <1>1, <1>7 DEF SinkInv, Blamed, Reported
<1>9. Awaited' /\ Minded' /\ EndQueued' /\ Marking'
  BY <1>1, <1>4 DEF Awaited, Minded, Busy, EndQueued, Marking
<1>10. OwnerLast'
  BY <1>1, <1>2, <1>3 DEF OwnerLast, Stopped
<1>11. ASSUME ~Lost' PROVE /\ Over' /\ \A p \in Procs : Settles(gather[p])'
                           /\ \A n \in DOMAIN rows' : EndRow(rows'[n]) => n = Len(rows')
  <2>1. ~Lost
    BY <1>1, <1>11 DEF Lost
  <2>2. ~HasEnd
    BY <1>1, <1>2, <2>1, OpenBeforeEnd
  <2>3. \A n \in DOMAIN rows' : ~EndRow(rows'[n])
    BY <1>1, <2>2 DEF HasEnd, EndRow
  <2> QED BY <1>1, <1>2, <1>4, <2>3 DEF Over, Settles
<1>12. Sealed'
  BY <1>11 DEF Sealed
<1> QED BY <1>5, <1>6, <1>8, <1>9, <1>10, <1>12 DEF SinkInv

\* A write of the in-process sink lands at once.
LEMMA MemoryKeeps ==
  ASSUME SinkInv, NEW w \in Writers, WriteMemory(w)
  PROVE  SinkInv'
<1>1. PICK p \in Procs : p = place[w]
  BY DEF SinkInv, Typed
<1>2. PICK g : g = gather[p]
  OBVIOUS
<1>3. g \in Gather /\ g.calls \in Nat
  BY <1>2, GatherQueue DEF SinkInv, Typed
<1> DEFINE top == g.calls
           call == <<p, top + 1>>
           f == [g EXCEPT !.calls = top + 1]
           row == [items |-> <<call>>, end |-> FALSE, gen |-> gen]
<1>4. /\ gather' = [gather EXCEPT ![p] = f]
      /\ rows' = Append(rows, row) /\ landed' = landed \o <<call>>
      /\ backend = "memory" /\ writer[w].at = "open"
      /\ UNCHANGED <<marked, gen, place, backend, writer, trouble>>
  <2>1. gather' = [gather EXCEPT ![p].calls = @ + 1]
    BY <1>1 DEF WriteMemory
  <2>2. gather' = [gather EXCEPT ![p] = f]
    BY <1>2, <2>1 DEF SinkInv, Typed
  <2> QED BY <1>1, <1>2, <2>2 DEF WriteMemory, Push, Ready
<1>5. /\ f \in Gather /\ f.held = g.held /\ f.key = g.key /\ f.queue = g.queue /\ f.failure = g.failure /\ f.work = g.work
      /\ f.attempted = g.attempted /\ f.calls = top + 1 /\ f.lost = g.lost
  BY <1>3, GatherQueue
<1>6. call \in Calls
  BY <1>3 DEF Calls
<1>7. row \in Row /\ ~EndRow(row)
  <2>1. <<call>> \in Seq(Calls) /\ gen \in Nat
    BY <1>6 DEF SinkInv, Typed
  <2> HIDE DEF call
  <2> QED BY <2>1 DEF Row, EndRow
<1> HIDE DEF f, row
<1>8. gather'[p] = f /\ \A q \in Procs : q # p => gather'[q] = gather[q]
  BY <1>4 DEF SinkInv, Typed
<1>9. \A q \in Procs : gather[q].queue = <<>> /\ gather[q].held = <<>> /\ ~gather[q].failure /\ gather[q].work.stage = "none"
  BY <1>4 DEF SinkInv, Typed
<1>10. \A q \in Procs : /\ gather'[q].queue = <<>> /\ gather'[q].held = <<>> /\ ~gather'[q].failure /\ gather'[q].work.stage = "none"
                        /\ gather'[q].lost = gather[q].lost /\ gather'[q].key = gather[q].key
  BY <1>2, <1>5, <1>8, <1>9
<1>11. landed \in Seq(Calls) /\ \A n \in DOMAIN landed : landed[n][1] = p => landed[n][2] <= top
  BY <1>2, LandedBelow DEF SinkInv
<1>12. /\ <<call>> \in Seq(Calls) /\ Piece(p, top + 1, landed, <<call>>)
  <2>1. Made(p, top, <<>>) /\ <<>> \in Seq(Calls)
    BY DEF Made
  <2>2. Piece(p, g.calls + 1, landed, << <<p, g.calls + 1>> >>)
    BY <1>3, <1>11, <2>1, NewCall
  <2>3. <<call>> \in Seq(Calls)
    <3> HIDE DEF call
    <3> QED BY <1>6
  <2> QED BY <2>2, <2>3
<1> HIDE DEF call
<1>13. Typed'
  <2>1. gather' \in [Procs -> Gather] /\ rows' \in Seq(Row) /\ landed' \in Seq(Calls)
    BY <1>4, <1>5, <1>7, <1>11, <1>12 DEF SinkInv, Typed
  <2> QED BY <1>4, <1>10, <2>1 DEF SinkInv, Typed
<1>14. Lines'
  <2>1. Ordered(landed')
    BY <1>4, <1>11, <1>12, LandedOrdered DEF Piece, SinkInv, Lines
  <2>2. ASSUME NEW q \in Procs PROVE InLine(q, gather'[q].calls, landed', gather'[q].queue, gather'[q].held)
    <3>1. \A high, past : InLine(q, high, past, <<>>, <<>>)
      BY DEF InLine, Piece, Made, Ordered, Before
    <3>2. gather'[q].queue = <<>> /\ gather'[q].held = <<>>
      BY <1>10
    <3> QED BY <3>1, <3>2
  <2>3. ASSUME NEW n \in DOMAIN landed' PROVE landed'[n][2] \in 1 .. gather'[landed'[n][1]].calls
    <3>1. CASE n \in DOMAIN landed
      <4>1. landed'[n] = landed[n]
        BY <1>4, <1>11, <1>12, <3>1
      <4>2. landed[n][1] \in Procs /\ landed[n][2] \in 1 .. gather[landed[n][1]].calls /\ landed[n][2] \in Nat
        BY <1>11, <3>1 DEF SinkInv, Lines, Calls
      <4> QED BY <1>2, <1>3, <1>5, <1>8, <4>1, <4>2
    <3>2. CASE n \notin DOMAIN landed
      <4>1. landed'[n] = call
        BY <1>4, <1>11, <1>12, <2>3, <3>2
      <4> QED BY <1>3, <1>5, <1>8, <4>1 DEF call
    <3> QED BY <3>1, <3>2
  <2> QED BY <2>1, <2>2, <2>3 DEF Lines
<1>15. Whole'
  <2>1. ASSUME NEW q \in Procs, ~gather'[q].lost, NEW n \in 1 .. gather'[q].calls PROVE Has(landed', <<q, n>>)
    <3>1. Has(landed, <<q, n>>) \/ <<q, n>> = call
      <4>1. CASE n \in 1 .. gather[q].calls
        <5>1. Kept(landed, gather[q].queue, gather[q].held, <<q, n>>)
          BY <1>10, <2>1, <4>1 DEF SinkInv, Whole
        <5> QED BY <1>9, <5>1 DEF Kept, Has
      <4>2. CASE n \notin 1 .. gather[q].calls
        <5>1. q = p /\ n = top + 1
          BY <1>2, <1>3, <1>5, <1>8, <2>1, <4>2
        <5> QED BY <5>1 DEF call
      <4> QED BY <4>1, <4>2
    <3>2. Has(<<call>>, call)
      BY DEF Has
    <3>3. Has(landed \o <<call>>, <<q, n>>)
      <4>1. Has(landed, <<q, n>>) \/ Has(<<call>>, <<q, n>>)
        BY <3>1, <3>2
      <4> HIDE DEF top
      <4> QED BY <1>11, <1>12, <4>1, LandedHas
    <3> QED BY <1>4, <3>3
  <2> QED BY <2>1 DEF Whole, Kept
<1>16. Blamed' /\ Reported'
  <2>1. \A x \in Writers : place[x] \in Procs /\ (Knows(x)' <=> Knows(x))
    BY <1>4 DEF Knows, SinkInv, Typed
  <2> QED BY <1>4, <1>9, <1>10, <2>1 DEF SinkInv, Blamed, Reported
<1>17. Awaited' /\ Minded' /\ EndQueued' /\ Marking'
  BY <1>10 DEF Awaited, Minded, Busy, EndQueued, Marking
<1>18. OwnerLast'
  BY <1>4 DEF SinkInv, OwnerLast, Over, Stopped
<1>19. ~Lost' => ~HasEnd'
  <2> SUFFICES ASSUME ~Lost' PROVE ~HasEnd'
    OBVIOUS
  <2>1. ~Lost
    BY <1>10 DEF Lost
  <2>2. ~HasEnd
    BY <1>4, <2>1, OpenBeforeEnd
  <2>3. \A n \in DOMAIN rows' : rows'[n] = row \/ (n \in DOMAIN rows /\ rows'[n] = rows[n])
    BY <1>4, <1>7 DEF SinkInv, Typed
  <2> QED BY <1>4, <1>7, <2>2, <2>3 DEF HasEnd, EndRow
<1> QED BY <1>13, <1>14, <1>15, <1>16, <1>17, <1>18, <1>19 DEF SinkInv, Sealed

-----------------------------------------------------------------------------
(***************************************************************************)
(* The gathered frame's window, an append under way, a lapse, a crash.     *)
(***************************************************************************)
LEMMA WindowKeeps ==
  ASSUME SinkInv, NEW p \in Procs, FlushWindow(p)
  PROVE  SinkInv'
<1>1. PICK g : g = gather[p]
  OBVIOUS
<1>2. PICK f : f = Flushed(g, None)
  OBVIOUS
<1>3. g \in Gather /\ g.calls \in Nat /\ g.held # <<>> /\ g.queue \in Seq(Queued)
  BY <1>1, GatherQueue DEF SinkInv, Typed, FlushWindow
<1>4. gather' = [gather EXCEPT ![p] = f] /\ UNCHANGED <<backend, place, writer, rows, marked, gen, landed, trouble>>
  BY <1>1, <1>2 DEF FlushWindow, stream
<1>5. /\ f \in Gather /\ f.held = <<>> /\ f.queue = FlushedQueue(g, None)
      /\ f.failure = g.failure /\ f.work = g.work /\ f.attempted = g.attempted /\ f.calls = g.calls
      /\ f.lost = g.lost /\ f.key = "none"
  BY <1>2, <1>3, FlushedIs
<1>6. /\ \A k \in DOMAIN f.queue : \/ k \in DOMAIN g.queue /\ f.queue[k] = g.queue[k]
                                   \/ f.queue[k].by = None /\ ~f.queue[k].end
      /\ f.queue # <<>>
  <2>1. \A k \in DOMAIN f.queue : \/ k \in DOMAIN g.queue /\ f.queue[k] = g.queue[k]
                                  \/ f.queue[k].by = None /\ ~f.queue[k].end
    BY <1>3, <1>5, FlushedFresh
  <2>2. f.queue # <<>>
    <3>1. FlushedQueue(g, None) = <<>> => g.held = <<>>
      BY <1>3, FlushedFresh
    <3> QED BY <1>3, <1>5, <3>1
  <2> QED BY <2>1, <2>2
<1>7. gather'[p] = f /\ \A q \in Procs : q # p => gather'[q] = gather[q]
  BY <1>4 DEF SinkInv, Typed
<1>8. backend # "memory"
  BY <1>1, <1>3 DEF SinkInv, Typed
<1>9. \A k \in DOMAIN g.queue : ~g.queue[k].end
  BY <1>1, <1>3 DEF SinkInv, EndQueued
<1>10. Typed'
  <2>1. gather' \in [Procs -> Gather]
    BY <1>4, <1>5 DEF SinkInv, Typed
  <2>2. \A q \in Procs : /\ gather'[q].key = "none" <=> gather'[q].held = <<>>
                         /\ gather'[q].queue = <<>> => gather'[q].work.stage = "none"
    BY <1>5, <1>6, <1>7 DEF SinkInv, Typed
  <2> QED BY <1>4, <1>8, <2>1, <2>2 DEF SinkInv, Typed
<1>11. Lines' /\ Whole'
  <2>1. InLine(p, g.calls, landed, FlushedQueue(g, None), <<>>)
    BY <1>1, <1>3, FlushInLine DEF SinkInv, Lines
  <2>2. ASSUME ~f.lost, NEW n \in 1 .. f.calls PROVE Kept(landed, f.queue, f.held, <<p, n>>)
    <3>1. Kept(landed, g.queue, g.held, <<p, n>>)
      BY <1>1, <1>5, <2>2 DEF SinkInv, Whole
    <3> QED BY <1>3, <1>5, <3>1, FlushKept
  <2>3. Becomes(p, f) /\ gather[p].calls <= f.calls /\ InLine(p, f.calls, landed, f.queue, f.held)
    BY <1>1, <1>3, <1>4, <1>5, <2>1 DEF Becomes
  <2> QED BY <1>4, <2>2, <2>3, PendingKeeps DEF SinkInv
<1>12. Blamed' /\ Reported'
  <2>1. \A q \in Procs : gather'[q].failure = gather[q].failure /\ gather'[q].lost = gather[q].lost
    BY <1>1, <1>5, <1>7
  <2>2. \A x \in Writers : place[x] \in Procs /\ (Knows(x)' <=> Knows(x))
    BY <1>4 DEF Knows, SinkInv, Typed
  <2> QED BY <1>4, <2>1, <2>2 DEF SinkInv, Blamed, Reported
<1>13. Awaited'
  <2>1. ASSUME NEW q \in Procs, NEW k \in DOMAIN gather'[q].queue, NEW x \in Writers, gather'[q].queue[k].by = x
        PROVE  place[x] = q /\ (writer[x].broken \/ (Waiting(x) /\ writer[x].until >= gather'[q].attempted + k))
    <3>1. k \in DOMAIN gather[q].queue /\ gather'[q].queue[k] = gather[q].queue[k]
      BY <1>1, <1>6, <1>7, <2>1, StreamAssumption
    <3>2. gather'[q].attempted = gather[q].attempted
      BY <1>1, <1>5, <1>7
    <3> QED BY <2>1, <3>1, <3>2 DEF SinkInv, Awaited
  <2> QED BY <1>4, <2>1 DEF Awaited, Waiting
<1>14. Minded'
  <2>1. ASSUME NEW q \in Procs, Busy(gather'[q]) PROVE \E x \in Writers : place[x] = q /\ Minds(x, gather[q])'
    <3>1. Busy(gather[q])
      BY <1>1, <1>3, <1>7, <2>1 DEF Busy
    <3>2. PICK x \in Writers : place[x] = q /\ Minds(x, gather[q])
      BY <3>1 DEF SinkInv, Minded
    <3>3. CASE q = p
      <4>1. writer[x].at \in {"open", "writing"} \/ Knows(x)
        BY <1>1, <1>3, <3>2, <3>3 DEF Minds, Covers
      <4> QED BY <1>4, <3>2, <4>1 DEF Minds, Knows
    <3>4. CASE q # p
      <4>1. gather'[q] = gather[q] /\ writer' = writer
        BY <1>4, <1>7, <3>4
      <4> QED BY <3>2, <4>1 DEF Minds, Knows, Covers
    <3> QED BY <3>3, <3>4
  <2> QED BY <1>4, <2>1 DEF Minded
<1>15. EndQueued'
  <2>1. \A k \in DOMAIN f.queue : ~f.queue[k].end
    BY <1>6, <1>9
  <2>2. Over' <=> Over
    BY <1>4 DEF Over
  <2> QED BY <1>7, <2>1, <2>2 DEF SinkInv, EndQueued
<1>16. OwnerLast'
  BY <1>4 DEF SinkInv, OwnerLast, Over, Stopped
<1>17. Marking'
  <2>1. f.work.stage # "marked"
    <3> SUFFICES ASSUME g.work.stage = "marked" PROVE FALSE
      BY <1>5
    <3>1. g.queue # <<>> /\ Head(g.queue).end
      BY <1>1 DEF SinkInv, Marking
    <3>2. 1 \in DOMAIN g.queue /\ g.queue[1] = Head(g.queue)
      BY <1>3, <3>1
    <3> QED BY <1>9, <3>1, <3>2
  <2> QED BY <1>4, <1>7, <2>1 DEF SinkInv, Marking
<1>18. ~Lost' => ~HasEnd'
  <2> SUFFICES ASSUME ~Lost' PROVE ~HasEnd'
    OBVIOUS
  <2>1. ~Lost
    BY <1>1, <1>5, <1>7 DEF Lost
  <2>2. ~HasEnd
    BY <1>1, <1>3, <2>1, SealedFacts DEF Settles
  <2> QED BY <1>4, <2>2 DEF HasEnd, EndRow
<1> QED BY <1>10, <1>11, <1>12, <1>13, <1>14, <1>15, <1>16, <1>17, <1>18 DEF SinkInv, Sealed

\* The append under way goes a step further, and Redis may mark the end.
LEMMA WorkKeeps ==
  ASSUME SinkInv, NEW p \in Procs, NEW f, Becomes(p, f), SameBut(gather[p], f), gather[p].queue # <<>>,
         UNCHANGED <<writer, place, backend, rows, gen, landed, trouble>>,
         gather[p].work.stage # "marked",
         \/ marked' = marked /\ f.work.stage # "marked"
         \/ marked' = TRUE /\ f.work.stage = "marked" /\ backend = "redis" /\ Head(gather[p].queue).end
  PROVE  SinkInv'
<1>1. gather'[p] = f /\ \A q \in Procs : q # p => gather'[q] = gather[q]
  BY DEF Becomes, SinkInv, Typed
<1>2. /\ f.held = gather[p].held /\ f.key = gather[p].key /\ f.queue = gather[p].queue /\ f.failure = gather[p].failure
      /\ f.attempted = gather[p].attempted /\ f.calls = gather[p].calls /\ f.lost = gather[p].lost
  BY DEF SameBut
<1>3. \A q \in Procs : /\ gather'[q].held = gather[q].held /\ gather'[q].key = gather[q].key /\ gather'[q].queue = gather[q].queue
                       /\ gather'[q].failure = gather[q].failure /\ gather'[q].attempted = gather[q].attempted
                       /\ gather'[q].calls = gather[q].calls /\ gather'[q].lost = gather[q].lost
  BY <1>1, <1>2
<1>4. Typed'
  <2>1. gather' \in [Procs -> Gather] /\ marked' \in BOOLEAN
    BY DEF Becomes, SinkInv, Typed
  <2>2. \A q \in Procs : gather'[q].queue = <<>> => gather'[q].work.stage = "none"
    BY <1>1, <1>2 DEF SinkInv, Typed
  <2> QED BY <1>3, <2>1, <2>2 DEF SinkInv, Typed
<1>5. Lines' /\ Whole'
  <2>1. \A n \in DOMAIN landed : landed[n][1] \in Procs
    BY DEF SinkInv, Typed, Calls
  <2> QED BY <1>3, <2>1 DEF SinkInv, Lines, Whole
<1>6. Blamed' /\ Reported'
  <2>1. \A x \in Writers : place[x] \in Procs /\ (Knows(x)' <=> Knows(x))
    BY DEF Knows, SinkInv, Typed
  <2> QED BY <1>3, <2>1 DEF SinkInv, Blamed, Reported
<1>7. Awaited'
  BY <1>3 DEF SinkInv, Awaited, Waiting
<1>8. Minded'
  <2>1. \A q \in Procs : Busy(gather'[q]) <=> Busy(gather[q])
    BY <1>3 DEF Busy
  <2>2. ASSUME NEW q \in Procs, NEW x \in Writers, Minds(x, gather[q]) PROVE Minds(x, gather[q])'
    <3>1. LastQueued(gather'[q]) = LastQueued(gather[q])
      BY <1>3 DEF LastQueued
    <3> QED BY <1>3, <2>2, <3>1 DEF Minds, Knows, Covers
  <2> QED BY <2>1, <2>2 DEF SinkInv, Minded
<1>9. EndQueued' /\ OwnerLast'
  BY <1>3 DEF SinkInv, EndQueued, OwnerLast, Over, Stopped
<1>10. Marking'
  BY <1>1, <1>2 DEF SinkInv, Marking
<1>11. ASSUME ~Lost', HasEnd' PROVE /\ Over' /\ \A q \in Procs : Settles(gather[q])'
                                    /\ \A n \in DOMAIN rows' : EndRow(rows'[n]) => n = Len(rows')
  <2>1. ~Lost
    BY <1>3, <1>11 DEF Lost
  <2>2. ~HasEnd
    BY <2>1, SealedFacts DEF Settles
  <2>3. marked' = TRUE /\ f.work.stage = "marked" /\ Head(gather[p].queue).end
    BY <1>11, <2>2 DEF HasEnd, EndRow
  <2>4. /\ Over /\ gather[p].held = <<>>
        /\ \A q \in Procs : q # p => gather[q].queue = <<>> /\ gather[q].held = <<>>
    BY <2>1, <2>3, EndAtHead
  <2>5. \A q \in Procs : Settles(gather[q])'
    BY <1>1, <1>2, <2>3, <2>4 DEF Settles
  <2>6. \A n \in DOMAIN rows' : ~EndRow(rows'[n])
    BY <2>2 DEF HasEnd, EndRow
  <2> QED BY <2>4, <2>5, <2>6 DEF Over
<1> QED BY <1>4, <1>5, <1>6, <1>7, <1>8, <1>9, <1>10, <1>11 DEF SinkInv, Sealed

\* An append under way gets a number, another number, or its marker, and nothing lands.
LEMMA AppendStarts ==
  ASSUME SinkInv, NEW p \in Procs,
         LucidNumbers(p) \/ (LucidCollides(p) /\ ~(gather[p].work.attempt >= Attempts)) \/ RedisMarks(p)
  PROVE  SinkInv'
<1>1. PICK g : g = gather[p]
  OBVIOUS
<1>2. g \in Gather /\ g.work \in Work
  BY <1>1, GatherQueue DEF SinkInv, Typed
<1>3. ASSUME NEW work \in Work, NEW f, f = [g EXCEPT !.work = work]
      PROVE  f \in Gather /\ SameBut(g, f) /\ f.work = work
  BY <1>2, <1>3, GatherQueue DEF SameBut
<1>4. CASE LucidNumbers(p)
  <2>1. PICK work : work = [g.work EXCEPT !.stage = "numbered", !.seq = Len(rows) + 1]
    OBVIOUS
  <2>2. work \in Work /\ work.stage = "numbered"
    <3>1. PICK n \in Nat : n = Len(rows) + 1
      BY DEF SinkInv, Typed
    <3>2. work = [g.work EXCEPT !.stage = "numbered", !.seq = n]
      BY <2>1, <3>1
    <3> QED BY <1>2, <3>2 DEF Work
  <2>3. PICK f : f = [g EXCEPT !.work = work]
    OBVIOUS
  <2>4. gather' = [gather EXCEPT ![p] = f]
    <3>1. PICK x : x = [g EXCEPT !.work.stage = "numbered", !.work.seq = Len(rows) + 1]
      OBVIOUS
    <3>2. gather' = [gather EXCEPT ![p] = x]
      BY <1>1, <1>4, <3>1 DEF LucidNumbers, SinkInv, Typed
    <3>3. x = f
      <4>1. PICK y : y = [g EXCEPT !.work = [g.work EXCEPT !.stage = "numbered"]]
        OBVIOUS
      <4>2. y.work = [g.work EXCEPT !.stage = "numbered"]
        BY <1>2, <4>1 DEF Gather
      <4>3. x = [y EXCEPT !.work = work]
        BY <2>1, <3>1, <4>1, <4>2
      <4> QED BY <1>2, <2>3, <4>1, <4>3 DEF Gather
    <3> QED BY <3>2, <3>3
  <2>5. /\ gather[p].queue # <<>> /\ gather[p].work.stage = "none"
        /\ UNCHANGED <<writer, place, backend, rows, marked, gen, landed, trouble>>
    BY <1>4 DEF LucidNumbers, Appending, stream
  <2>6. f \in Gather /\ SameBut(g, f) /\ f.work.stage = "numbered"
    BY <1>3, <2>1, <2>2, <2>3
  <2> QED BY <1>1, <2>4, <2>5, <2>6, WorkKeeps DEF Becomes
<1>5. CASE LucidCollides(p) /\ ~(gather[p].work.attempt >= Attempts)
  <2>1. PICK work : work = [Idle EXCEPT !.attempt = g.work.attempt + 1]
    OBVIOUS
  <2>2. work \in Work /\ work.stage = "none"
    BY <1>2, <2>1 DEF Work, Idle
  <2>3. PICK f : f = [g EXCEPT !.work = work]
    OBVIOUS
  <2>4. /\ gather' = [gather EXCEPT ![p] = f]
        /\ gather[p].queue # <<>> /\ gather[p].work.stage = "numbered"
        /\ UNCHANGED <<writer, place, backend, rows, marked, gen, landed, trouble>>
    BY <1>1, <1>5, <2>1, <2>3 DEF LucidCollides, Appending, stream
  <2>5. f \in Gather /\ SameBut(g, f) /\ f.work.stage = "none"
    BY <1>3, <2>2, <2>3
  <2> QED BY <1>1, <2>4, <2>5, WorkKeeps DEF Becomes
<1>6. CASE RedisMarks(p)
  <2>1. PICK work : work = [g.work EXCEPT !.stage = "marked"]
    OBVIOUS
  <2>2. work \in Work /\ work.stage = "marked"
    BY <1>2, <2>1 DEF Work
  <2>3. PICK f : f = [g EXCEPT !.work = work]
    OBVIOUS
  <2>4. /\ gather' = [gather EXCEPT ![p] = f]
        /\ gather[p].queue # <<>> /\ gather[p].work.stage = "none" /\ Head(gather[p].queue).end
        /\ marked' = TRUE /\ backend = "redis"
        /\ UNCHANGED <<writer, place, backend, rows, gen, landed, trouble>>
    BY <1>1, <1>6, <2>1, <2>3 DEF RedisMarks, Appending, stream
  <2>5. f \in Gather /\ SameBut(g, f) /\ f.work.stage = "marked"
    BY <1>3, <2>2, <2>3
  <2> QED BY <1>1, <2>4, <2>5, WorkKeeps DEF Becomes
<1> QED BY <1>4, <1>5, <1>6

\* The rows lapse, or the buffer is dropped, with no end half announced.
LEMMA ForgetKeeps ==
  ASSUME SinkInv, Forget, UNCHANGED <<place, backend, writer, gather>>, trouble' \in Nat,
         \A q \in Procs : gather[q].work.stage # "marked"
  PROVE  SinkInv'
<1>1. rows' = <<>> /\ marked' = FALSE /\ gen' = gen + 1 /\ landed' = landed
  BY DEF Forget
<1>2. Typed'
  <2>1. rows' \in Seq(Row) /\ gen' \in Nat
    BY <1>1 DEF SinkInv, Typed
  <2> QED BY <1>1, <2>1 DEF SinkInv, Typed
<1>3. Lines' /\ Whole' /\ Blamed' /\ Reported'
  BY <1>1 DEF SinkInv, Lines, Whole, Blamed, Reported, Knows
<1>4. Awaited' /\ Minded' /\ EndQueued' /\ OwnerLast' /\ Marking'
  BY <1>1 DEF SinkInv, Awaited, Minded, Minds, Knows, Covers, Waiting, EndQueued, OwnerLast, Over, Stopped, Marking
<1>5. ~HasEnd'
  BY <1>1 DEF HasEnd
<1> QED BY <1>2, <1>3, <1>4, <1>5 DEF SinkInv, Sealed

\* A step that leaves the writers, the queues and the stream alone.
LEMMA StillKeeps ==
  ASSUME SinkInv, UNCHANGED <<place, backend, writer, gather, stream>>, trouble' \in Nat
  PROVE  SinkInv'
<1>1. UNCHANGED <<rows, marked, gen, landed>>
  BY DEF stream
<1>2. Typed' /\ Lines' /\ Whole' /\ Blamed' /\ Reported'
  BY <1>1 DEF SinkInv, Typed, Lines, Whole, Blamed, Reported, Knows
<1>3. Awaited' /\ Minded' /\ EndQueued' /\ OwnerLast' /\ Marking'
  BY <1>1 DEF SinkInv, Awaited, Minded, Minds, Knows, Covers, Waiting, EndQueued, OwnerLast, Over, Stopped, Marking
<1>4. Sealed'
  BY <1>1 DEF SinkInv, Sealed, HasEnd, EndRow, Lost, Over, Settles
<1> QED BY <1>2, <1>3, <1>4 DEF SinkInv

\* A process dies with its writers and what they gathered.
LEMMA CrashKeeps ==
  ASSUME SinkInv, NEW p \in Procs, Crash(p)
  PROVE  SinkInv'
<1>1. PICK f : f = [Nothing EXCEPT !.calls = gather[p].calls, !.lost = TRUE]
  OBVIOUS
<1>2. gather[p].calls \in Nat
  BY GatherQueue DEF SinkInv, Typed
<1>3. /\ f \in Gather /\ f.held = <<>> /\ f.key = "none" /\ f.queue = <<>> /\ ~f.failure /\ f.work.stage = "none"
      /\ f.calls = gather[p].calls /\ f.lost
  <2>1. PICK c \in Nat : c = gather[p].calls
    BY <1>2
  <2>2. PICK work \in Work : work = Idle /\ work.stage = "none"
    <3>1. Idle \in Work /\ Idle.stage = "none"
      BY GatherQueue DEF Idle
    <3> QED BY <3>1
  <2>3. f = [held |-> <<>>, key |-> "none", queue |-> <<>>, failure |-> FALSE, work |-> work,
             attempted |-> 0, calls |-> c, lost |-> TRUE]
    BY <1>1, <2>1, <2>2 DEF Nothing
  <2>4. f \in Gather
    BY <2>3, GatherQueue
  <2> QED BY <2>1, <2>2, <2>3, <2>4
<1>4. /\ gather' = [gather EXCEPT ![p] = f] /\ trouble' = trouble + 1 /\ landed' = landed /\ UNCHANGED <<backend, place>>
      /\ backend # "memory" => UNCHANGED <<rows, marked, gen>>
      /\ backend = "memory" => rows' = <<>> /\ marked' = FALSE /\ gen' = gen + 1
  BY <1>1 DEF Crash, Forget, stream
<1>5. gather'[p] = f /\ \A q \in Procs : q # p => gather'[q] = gather[q]
  BY <1>4 DEF SinkInv, Typed
<1>6. /\ writer' \in [Writers -> Writer]
      /\ \A x \in Writers : /\ writer'[x].broken = writer[x].broken
                            /\ \/ writer'[x] = writer[x]
                               \/ place[x] = p /\ writer'[x].at = "dead"
      /\ \E x \in Writers : place[x] = p /\ writer'[x].at = "dead"
  <2>1. writer' = [x \in Writers |-> IF place[x] = p /\ ~Stopped(x) THEN [writer[x] EXCEPT !.at = "dead"] ELSE writer[x]]
    BY DEF Crash
  <2>2. \A x \in Writers : /\ [writer[x] EXCEPT !.at = "dead"] \in Writer /\ [writer[x] EXCEPT !.at = "dead"].at = "dead"
                           /\ [writer[x] EXCEPT !.at = "dead"].broken = writer[x].broken
    BY DEF SinkInv, Typed, Writer
  <2>3. PICK x \in Writers : place[x] = p /\ ~Stopped(x)
    BY DEF Crash
  <2> QED BY <2>1, <2>2, <2>3 DEF SinkInv, Typed
<1>7. Typed'
  <2>1. gather' \in [Procs -> Gather]
    BY <1>3, <1>4 DEF SinkInv, Typed
  <2>2. rows' \in Seq(Row) /\ marked' \in BOOLEAN /\ gen' \in Nat /\ trouble' \in Nat
    <3>1. <<>> \in Seq(Row) /\ gen + 1 \in Nat /\ trouble + 1 \in Nat
      BY DEF SinkInv, Typed
    <3>2. CASE backend = "memory"
      BY <1>4, <3>1, <3>2
    <3>3. CASE backend # "memory"
      BY <1>4, <3>1, <3>3 DEF SinkInv, Typed
    <3> QED BY <3>2, <3>3
  <2>3. \A q \in Procs : /\ gather'[q].key = "none" <=> gather'[q].held = <<>>
                         /\ gather'[q].queue = <<>> => gather'[q].work.stage = "none"
                         /\ backend = "memory" => gather'[q].queue = <<>> /\ gather'[q].held = <<>> /\ ~gather'[q].failure
    BY <1>3, <1>5 DEF SinkInv, Typed
  <2> QED BY <1>4, <1>6, <2>1, <2>2, <2>3 DEF SinkInv, Typed
<1>8. Lines' /\ Whole'
  <2>1. InLine(p, f.calls, landed, f.queue, f.held)
    BY <1>3 DEF InLine, Piece, Made, Ordered, Before
  <2>2. Becomes(p, f) /\ gather[p].calls <= f.calls
    BY <1>2, <1>3, <1>4 DEF Becomes
  <2> QED BY <1>3, <1>4, <2>1, <2>2, PendingKeeps DEF SinkInv
<1>9. \A x \in Writers : place[x] \in Procs
  BY DEF SinkInv, Typed
<1>10. Blamed' /\ Reported'
  <2>1. \A x \in Writers : place[x] # p => (Knows(x)' <=> Knows(x))
    BY <1>6 DEF Knows
  <2>2. \E x \in Writers : place[x] = p /\ Knows(x)'
    BY <1>6 DEF Knows
  <2>3. Blamed'
    BY <1>3, <1>4, <1>5, <1>9, <2>1 DEF SinkInv, Blamed
  <2> QED BY <1>3, <1>4, <1>5, <2>1, <2>2, <2>3 DEF SinkInv, Reported
<1>11. Awaited'
  <2>1. ASSUME NEW q \in Procs, q # p, NEW k \in DOMAIN gather[q].queue, NEW x \in Writers, gather[q].queue[k].by = x
        PROVE  place[x] = q /\ (writer'[x].broken \/ (Waiting(x)' /\ writer'[x].until >= gather[q].attempted + k))
    <3>1. place[x] = q /\ (writer[x].broken \/ (Waiting(x) /\ writer[x].until >= gather[q].attempted + k))
      BY <2>1 DEF SinkInv, Awaited
    <3>2. writer'[x] = writer[x]
      BY <1>6, <2>1, <3>1
    <3> QED BY <3>1, <3>2 DEF Waiting
  <2> QED BY <1>3, <1>4, <1>5, <2>1 DEF Awaited
<1>12. Minded'
  <2>1. ASSUME NEW q \in Procs, q # p, Busy(gather[q]) PROVE \E x \in Writers : place[x] = q /\ Minds(x, gather[q])'
    <3>1. PICK x \in Writers : place[x] = q /\ Minds(x, gather[q])
      BY <2>1 DEF SinkInv, Minded
    <3>2. writer'[x] = writer[x] /\ gather'[q] = gather[q]
      BY <1>5, <1>6, <2>1, <3>1
    <3> QED BY <3>1, <3>2 DEF Minds, Knows, Covers
  <2>2. ~Busy(f)
    BY <1>3 DEF Busy
  <2> QED BY <1>4, <1>5, <2>1, <2>2 DEF Minded
<1>13. EndQueued'
  <2>1. ASSUME NEW q \in Procs, q # p, NEW k \in DOMAIN gather[q].queue, gather[q].queue[k].end
        PROVE  q = Home /\ k = Len(gather[q].queue) /\ gather[q].held = <<>> /\ gather[q].queue[k].items = <<>> /\ Over'
    <3>1. q = Home /\ k = Len(gather[q].queue) /\ gather[q].held = <<>> /\ gather[q].queue[k].items = <<>> /\ Over
      BY <2>1 DEF SinkInv, EndQueued
    <3>2. writer'[Owner] = writer[Owner]
      BY <1>6, <2>1, <3>1, StreamAssumption DEF SinkInv, Typed
    <3> QED BY <3>1, <3>2 DEF Over
  <2> QED BY <1>3, <1>5, <2>1 DEF EndQueued
<1>14. OwnerLast'
  BY <1>6, StreamAssumption DEF SinkInv, OwnerLast, Over, Stopped
<1>15. Marking'
  <2>1. ASSUME NEW q \in Procs, q # p, gather[q].work.stage = "marked"
        PROVE  backend = "redis" /\ gather[q].queue # <<>> /\ Head(gather[q].queue).end /\ marked'
    BY <1>4, <2>1 DEF SinkInv, Marking
  <2> QED BY <1>3, <1>4, <1>5, <2>1 DEF Marking
<1>16. Lost'
  BY <1>3, <1>5 DEF Lost
<1> QED BY <1>7, <1>8, <1>10, <1>11, <1>12, <1>13, <1>14, <1>15, <1>16 DEF SinkInv, Sealed

-----------------------------------------------------------------------------
\* Only the purge of SQL rows is in two steps.
Purges == purging \in BOOLEAN /\ (purging => backend = "lucid")

\* Nobody has written.
LEMMA SinkInit == Init => SinkInv /\ Purges
<1> SUFFICES ASSUME Init PROVE SinkInv /\ Purges
  OBVIOUS
<1>1. PICK f : f = Nothing
  OBVIOUS
<1>2. /\ f \in Gather /\ f.held = <<>> /\ f.key = "none" /\ f.queue = <<>> /\ ~f.failure /\ f.work.stage = "none"
      /\ f.calls = 0 /\ ~f.lost
  <2>1. PICK work \in Work : work = Idle
    BY GatherQueue
  <2>2. work.stage = "none"
    BY <2>1 DEF Idle
  <2>3. f = [held |-> <<>>, key |-> "none", queue |-> <<>>, failure |-> FALSE, work |-> work,
             attempted |-> 0, calls |-> 0, lost |-> FALSE]
    BY <1>1, <2>1 DEF Nothing
  <2> QED BY <2>2, <2>3, GatherQueue
<1>3. gather = [p \in Procs |-> f] /\ \A p \in Procs : gather[p] = f
  BY <1>1 DEF Init
<1>4. /\ \A w \in Writers : writer[w].at = "open" /\ ~writer[w].broken
      /\ writer \in [Writers -> Writer]
  <2>1. [at |-> "open", broken |-> FALSE, until |-> 0] \in Writer
    BY DEF Writer
  <2> QED BY <2>1 DEF Init
<1>5. Typed
  <2>1. gather \in [Procs -> Gather]
    BY <1>2, <1>3
  <2>2. rows \in Seq(Row) /\ landed \in Seq(Calls) /\ gen \in Nat /\ marked \in BOOLEAN /\ trouble \in Nat
    <3>1. rows = <<>> /\ landed = <<>> /\ gen = 0 /\ marked = FALSE /\ trouble = 0
      BY DEF Init
    <3>2. rows \in Seq(Row) /\ landed \in Seq(Calls) /\ gen \in Nat /\ trouble \in Nat
      BY <3>1
    <3>3. marked \in BOOLEAN
      BY <3>1
    <3> QED BY <3>2, <3>3
  <2> QED BY <1>2, <1>3, <1>4, <2>1, <2>2, StreamAssumption DEF Init, Typed
<1>6. Lines /\ Whole
  BY <1>2, <1>3 DEF Init, Lines, Whole, InLine, Piece, Made, Ordered, Before
<1>7. Blamed /\ Awaited /\ Minded /\ Reported /\ EndQueued /\ Marking
  BY <1>2, <1>3, <1>4 DEF Blamed, Awaited, Minded, Busy, Reported, EndQueued, Marking, Knows
<1>8. OwnerLast
  BY <1>4, StreamAssumption DEF OwnerLast, Over
<1>9. ~HasEnd
  BY DEF Init, HasEnd
<1> QED BY <1>5, <1>6, <1>7, <1>8, <1>9 DEF SinkInv, Sealed, Purges, Init

\* A step of the loop: it spawns, writes or ends a stream.
LEMMA LoopKeeps ==
  ASSUME SinkInv, Loop
  PROVE  SinkInv'
<1>1. CASE EndOwner
  BY <1>1, EndOwnerKeeps, EndMemoryKeeps
<1>2. ASSUME NEW w \in Writers, WriteMemory(w) \/ WriteRaises(w) \/ WriteFrame(w) \/ EndDelegate(w)
      PROVE  SinkInv'
  BY <1>2, MemoryKeeps, RaisesKeeps, FrameKeeps, EndDelegateKeeps
<1>3. ASSUME NEW w \in Writers, NEW kind \in Kinds, WriteDelta(w, kind) PROVE SinkInv'
  BY <1>3, DeltaKeeps
<1> QED BY <1>1, <1>2, <1>3 DEF Loop

\* A step of a process's queue.
LEMMA DrainKeeps ==
  ASSUME SinkInv, NEW p \in Procs, DrainQueue(p)
  PROVE  SinkInv'
<1>1. CASE FlushWindow(p)
  BY <1>1, WindowKeeps
<1>2. CASE LucidNumbers(p) \/ LucidCollides(p) \/ RedisMarks(p)
  BY <1>2, AppendStarts, AppendKeeps
<1>3. CASE AppendFails(p) \/ RedisPublishesEnd(p)
  BY <1>3, AppendKeeps
<1>4. CASE \E ok \in BOOLEAN : LucidInserts(p, ok) \/ RedisAppends(p, ok)
  BY <1>4, AppendKeeps
<1> QED BY <1>1, <1>2, <1>3, <1>4 DEF DrainQueue

\* A stream that was quiet for an hour has nothing under way.
LEMMA QuietStages ==
  ASSUME SinkInv, Quiet
  PROVE  trouble' \in Nat /\ \A q \in Procs : gather[q].work.stage = "none"
BY DEF Quiet, SinkInv, Typed

\* A lapse or a purge of the stream.
LEMMA ExpireKeeps ==
  ASSUME SinkInv, Purges, Expire
  PROVE  SinkInv'
<1>1. CASE RedisExpires
  BY <1>1, QuietStages, ForgetKeeps DEF RedisExpires
<1>2. CASE PurgeFinds
  BY <1>2, QuietStages, StillKeeps DEF PurgeFinds
<1>3. CASE PurgeDeletes
  <2>1. \A q \in Procs : gather[q].work.stage # "marked"
    BY <1>3 DEF PurgeDeletes, Purges, SinkInv, Marking
  <2> QED BY <1>3, <2>1, ForgetKeeps DEF PurgeDeletes, SinkInv, Typed
<1> QED BY <1>1, <1>2, <1>3 DEF Expire

\* What the client, its connection and its follower do.
ClientStep ==
  \/ Attach \/ Reconnect \/ Drop
  \/ Yield \/ FollowMemory \/ FollowLucid \/ RecheckLucid
  \/ FollowRedis \/ DrainRedis \/ Drained \/ RecheckRedis \/ WakeRedis
  \/ \E message \in {"chunk", "end"} : Deliver(message)

\* The browser and its follower read, and change nothing of the stream.
LEMMA ClientFacts ==
  ASSUME SinkInv, ClientStep
  PROVE  UNCHANGED <<backend, place, writer, gather, stream, purging>> /\ trouble' \in Nat
<1>1. trouble \in Nat
  BY DEF SinkInv, Typed
<1>2. CASE Attach \/ Reconnect
  BY <1>1, <1>2 DEF Attach, Reconnect
<1>3. CASE Drop
  BY <1>1, <1>3 DEF Drop
<1>4. CASE Yield \/ FollowMemory \/ FollowLucid \/ RecheckLucid \/ FollowRedis \/ DrainRedis \/ WakeRedis
  BY <1>1, <1>4 DEF Yield, FollowMemory, FollowLucid, RecheckLucid, FollowRedis, DrainRedis, WakeRedis, sinkVars, stream
<1>5. CASE Drained
  BY <1>1, <1>5 DEF Drained
<1>6. CASE RecheckRedis
  BY <1>1, <1>6 DEF RecheckRedis
<1>7. CASE \E message \in {"chunk", "end"} : Deliver(message)
  BY <1>1, <1>7 DEF Deliver
<1> QED BY <1>2, <1>3, <1>4, <1>5, <1>6, <1>7 DEF ClientStep

\* The steps: of the loop, the transport, a queue, a process that dies, the follower.
LEMMA NextIs ==
  ASSUME Next
  PROVE  \/ Loop /\ UNCHANGED client
         \/ Expire /\ UNCHANGED client
         \/ \E p \in Procs : (DrainQueue(p) /\ UNCHANGED client) \/ Crash(p)
         \/ ClientStep \/ DropBuffer
BY DEF Next, Sink, ClientStep

\* Every step keeps the invariant of the sink.
LEMMA SinkStep == SinkInv /\ Purges /\ [Next]_vars => SinkInv' /\ Purges'
<1> SUFFICES ASSUME SinkInv, Purges, [Next]_vars PROVE SinkInv' /\ Purges'
  OBVIOUS
<1>1. CASE Loop
  <2>1. UNCHANGED <<purging, backend>>
    BY <1>1 DEF Loop, EndOwner, WriteMemory, WriteRaises, WriteFrame, EndDelegate, WriteDelta
  <2> QED BY <1>1, <2>1, LoopKeeps DEF Purges
<1>2. CASE Expire
  <2>1. Purges'
    <3>1. CASE RedisExpires
      BY <3>1 DEF RedisExpires, Purges
    <3>2. CASE PurgeFinds
      BY <3>2 DEF PurgeFinds, Purges
    <3>3. CASE PurgeDeletes
      BY <3>3 DEF PurgeDeletes, Purges
    <3> QED BY <1>2, <3>1, <3>2, <3>3 DEF Expire
  <2> QED BY <1>2, <2>1, ExpireKeeps
<1>3. ASSUME NEW p \in Procs, DrainQueue(p) PROVE SinkInv' /\ Purges'
  <2>1. UNCHANGED <<purging, backend>>
    BY <1>3 DEF DrainQueue, FlushWindow, AppendFails, LucidNumbers, LucidCollides, RedisMarks, RedisPublishesEnd,
                LucidInserts, RedisAppends
  <2> QED BY <1>3, <2>1, DrainKeeps DEF Purges
<1>4. ASSUME NEW p \in Procs, Crash(p) PROVE SinkInv' /\ Purges'
  <2>1. UNCHANGED <<purging, backend>>
    BY <1>4 DEF Crash
  <2> QED BY <1>4, <2>1, CrashKeeps DEF Purges
<1>5. CASE ClientStep
  BY <1>5, ClientFacts, StillKeeps DEF Purges
<1>6. CASE DropBuffer
  <2>1. UNCHANGED <<purging, backend, place, writer, gather>> /\ Forget /\ Quiet
    BY <1>6 DEF DropBuffer
  <2> QED BY <2>1, QuietStages, ForgetKeeps DEF Purges
<1>7. CASE UNCHANGED vars
  <2>1. UNCHANGED <<backend, place, writer, gather, stream, purging, trouble>>
    BY <1>7 DEF vars, sinkVars, stream
  <2> QED BY <2>1, StillKeeps DEF Purges, SinkInv, Typed
<1> QED BY <1>1, <1>2, <1>3, <1>4, <1>5, <1>6, <1>7, NextIs

\* The invariant of the sink holds.
LEMMA SinkHolds == Spec => [](SinkInv /\ Purges)
BY SinkInit, SinkStep, PTL DEF Spec

-----------------------------------------------------------------------------
\* THEOREM: whatever is gathered, queued, retried, displaced or given up, and however many writers
\* of a process write at once, the calls of one process reach the stream in the order they were
\* made, and none twice (CoalescedWrites, and the append of each sink).
THEOREM CallOrder == Spec => []CallOrderKept
<1>1. SinkInv => CallOrderKept
  BY DEF SinkInv, Lines, Ordered, CallOrderKept
<1> QED BY <1>1, SinkHolds, PTL

\* THEOREM: unless an append failed or a process died, the end marker is the last thing of the
\* stream and everything that was written is before it: the frames still gathered or queued when the
\* owner ends, those of the delegates too (childSinkWriter, CoalescedWrites.end).
THEOREM EndLast == Spec => []EndIsLast
<1>1. SinkInv => EndIsLast
  <2> SUFFICES ASSUME SinkInv, ~Lost, HasEnd
               PROVE  /\ ToSet(landed) = UNION {MadeBy(p) : p \in Procs}
                      /\ \A n \in DOMAIN rows : EndRow(rows[n]) => n = Len(rows)
    BY DEF EndIsLast
  <2>1. /\ Over /\ \A p \in Procs : Settles(gather[p])
        /\ \A n \in DOMAIN rows : EndRow(rows[n]) => n = Len(rows)
    BY SealedFacts
  <2>2. landed \in Seq(Calls)
    BY DEF SinkInv, Typed
  <2>3. ASSUME NEW p \in Procs, NEW n \in 1 .. gather[p].calls PROVE Has(landed, <<p, n>>)
    <3>1. Kept(landed, gather[p].queue, gather[p].held, <<p, n>>)
      BY DEF SinkInv, Whole, Lost
    <3>2. gather[p].held = <<>> /\ gather[p].queue \in Seq(Queued)
      BY <2>1, GatherQueue DEF Settles, SinkInv, Typed
    <3>3. CASE gather[p].queue = <<>>
      BY <3>1, <3>2, <3>3 DEF Kept, Has
    <3>4. CASE gather[p].queue # <<>>
      <4>1. Head(gather[p].queue).items = <<>> /\ Tail(gather[p].queue) = <<>>
        BY <2>1, <3>4, EndAtHead DEF Settles
      <4>2. \A k \in DOMAIN gather[p].queue : gather[p].queue[k] = Head(gather[p].queue)
        <5>1. PICK queue \in Seq(Queued) : queue = gather[p].queue
          BY <3>2
        <5>2. queue # <<>> /\ Tail(queue) = <<>>
          BY <3>4, <4>1, <5>1
        <5>3. Len(queue) = 1
          <6>1. Len(Tail(queue)) = Len(queue) - 1 /\ Len(queue) \in Nat
            BY <5>1, <5>2
          <6>2. Len(Tail(queue)) = 0
            BY <5>2, EmptySeq
          <6> QED BY <6>1, <6>2
        <5> QED BY <5>1, <5>2, <5>3
      <4> QED BY <3>1, <3>2, <4>1, <4>2 DEF Kept, Has
    <3> QED BY <3>3, <3>4
  <2>4. \A n \in DOMAIN landed : \E p \in Procs : \E m \in 1 .. gather[p].calls : landed[n] = <<p, m>>
    <3> TAKE n \in DOMAIN landed
    <3>1. landed[n] \in Calls
      BY <2>2
    <3>2. landed[n] = <<landed[n][1], landed[n][2]>> /\ landed[n][1] \in Procs
      BY <3>1 DEF Calls
    <3>3. landed[n][2] \in 1 .. gather[landed[n][1]].calls
      BY DEF SinkInv, Lines
    <3> QED BY <3>2, <3>3
  <2>5. ToSet(landed) = UNION {MadeBy(p) : p \in Procs}
    BY <2>3, <2>4 DEF ToSet, MadeBy, Has
  <2> QED BY <2>1, <2>5
<1> QED BY <1>1, SinkHolds, PTL

\* THEOREM: an append that failed is never swallowed.  When every writer is done, one of the process
\* that lost something was told, through its own write, a later one, or its flush at the end
\* (CoalescedWrites.failure, and who awaits an append).
THEOREM LossReported == Spec => []FailureIsReported
<1>1. SinkInv => FailureIsReported
  <2> SUFFICES ASSUME SinkInv, NEW p \in Procs, gather[p].lost, \A w \in Writers : writer[w].at = "done"
               PROVE  \E w \in Writers : place[w] = p /\ writer[w].broken
    BY DEF FailureIsReported
  <2>1. CASE gather[p].failure
    <3>1. PICK w \in Writers : place[w] = p /\ Minds(w, gather[p])
      BY <2>1 DEF SinkInv, Minded, Busy
    <3> QED BY <3>1 DEF Minds, Knows, Covers
  <2>2. CASE ~gather[p].failure
    BY <2>2 DEF SinkInv, Reported, Knows
  <2> QED BY <2>1, <2>2
<1> QED BY <1>1, SinkHolds, PTL
=============================================================================
