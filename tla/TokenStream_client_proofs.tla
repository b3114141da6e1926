--------------------- MODULE TokenStream_client_proofs ----------------------
(***************************************************************************)
(* What a browser gets of a stream, over every connection it loses and     *)
(* resumes: the inductive invariant of its follower (ClientInv), and the   *)
(* properties that follow from it.                                         *)
(***************************************************************************)
EXTENDS TokenStream_proofs

\* The broker's subscription.
Channel == [open : BOOLEAN, messages : SUBSET {"chunk", "end"}]

ClientTyped == client \in Client /\ channel \in Channel

\* A cut of the rows after the cursor.
LEMMA AfterIs ==
  ASSUME Typed, client \in Client, NEW hi \in Nat, hi <= Len(rows)
  PROVE  After(hi) \in Seq(Row)
<1>1. \A i \in (client.cursor + 1) .. hi : rows[i] \in Row
  BY DEF Typed, Client
<1>2. client.cursor + 1 \in Int /\ hi \in Int
  BY DEF Client
<1> QED BY <1>1, <1>2, SubSeqProperties DEF After

\* A follower that has only the place the browser resumes from.
LEMMA AwayIs ==
  ASSUME client \in Client, NEW at \in {"away", "dropped", "attaching", "reading"}, NEW n \in Nat, NEW m \in Nat,
         NEW c, c = [Away EXCEPT !.at = at, !.cursorGen = n, !.after = m, !.last = client.last, !.seen = client.seen]
  PROVE  c \in Client
<1>1. c = [at |-> at, page |-> <<>>, cursor |-> 0, cursorGen |-> n, ended |-> FALSE, drainsToEnd |-> FALSE,
           woken |-> FALSE, position |-> 0, after |-> m, last |-> client.last, seen |-> client.seen]
  BY DEF Away
<1>2. client.last \in Nat /\ client.seen \in Seq(Calls)
  BY DEF Client
<1>3. PICK page \in Seq(Row) : page = <<>>
  <2>1. <<>> \in Seq(Row)
    OBVIOUS
  <2> QED BY <2>1, Zenon
<1>4. PICK zero \in Nat : zero = 0
  OBVIOUS
<1>5. PICK no \in BOOLEAN : no = FALSE
  OBVIOUS
<1>6. c = [at |-> at, page |-> page, cursor |-> zero, cursorGen |-> n, ended |-> no, drainsToEnd |-> no,
           woken |-> no, position |-> zero, after |-> m, last |-> client.last, seen |-> client.seen]
  BY <1>1, <1>3, <1>4, <1>5
<1> QED BY <1>2, <1>6 DEF Client

\* A follower whose connection was lost.
LEMMA DroppedIs ==
  ASSUME client \in Client
  PROVE  Dropped(client) \in Client
<1>1. PICK c : c = [Away EXCEPT !.at = "dropped", !.cursorGen = 0, !.after = 0, !.last = client.last, !.seen = client.seen]
  OBVIOUS
<1>2. c \in Client
  BY <1>1, AwayIs
<1>3. c = Dropped(client)
  <2>1. PICK d : d = Dropped(client)
    OBVIOUS
  <2>2. d = [at |-> "dropped", page |-> <<>>, cursor |-> 0, cursorGen |-> 0, ended |-> FALSE, drainsToEnd |-> FALSE,
             woken |-> FALSE, position |-> 0, after |-> 0, last |-> client.last, seen |-> client.seen]
    BY <2>1 DEF Dropped, Away
  <2>3. c = [at |-> "dropped", page |-> <<>>, cursor |-> 0, cursorGen |-> 0, ended |-> FALSE, drainsToEnd |-> FALSE,
             woken |-> FALSE, position |-> 0, after |-> 0, last |-> client.last, seen |-> client.seen]
    BY <1>1 DEF Away
  <2> QED BY <2>1, <2>2, <2>3
<1> QED BY <1>2, <1>3

\* A follower that yielded a row.
LEMMA YieldedIs ==
  ASSUME Typed, client \in Client, client.page # <<>>
  PROVE  Yielded(client) \in Client
<1> DEFINE row == Head(client.page)
           rest == Tail(client.page)
<1>1. row \in Row /\ rest \in Seq(Row)
  BY DEF Client
<1>2. row.items \in Seq(Calls) /\ row.gen \in Nat
  BY <1>1 DEF Row
<1> HIDE DEF row, rest
<1>3. client.seen \o row.items \in Seq(Calls)
  BY <1>2 DEF Client
<1>4. PICK seen \in Seq(Calls) : seen = client.seen \o row.items
  BY <1>3
<1>5. PICK c : c = Take(client, row)
  OBVIOUS
<1>6. c \in Client /\ c.page = client.page /\ c.cursor = client.cursor
  <2>1. PICK n \in Nat : n = client.position + 1
    BY DEF Client
  <2>2. CASE n > client.after /\ n > client.last
    BY <1>4, <1>5, <2>1, <2>2 DEF Take, Client
  <2>3. CASE ~(n > client.after /\ n > client.last)
    BY <1>4, <1>5, <2>1, <2>3 DEF Take, Client
  <2> QED BY <2>2, <2>3
<1>7. PICK d \in Client : /\ d = IF EndRow(row) THEN [client EXCEPT !.ended = TRUE] ELSE c
                          /\ d.page = client.page /\ d.cursor = client.cursor
  <2>1. PICK e : e = [client EXCEPT !.ended = TRUE]
    OBVIOUS
  <2>2. e \in Client /\ e.page = client.page /\ e.cursor = client.cursor
    BY <2>1 DEF Client
  <2> QED BY <1>6, <2>1, <2>2
<1>8. Yielded(client) = [d EXCEPT !.page = rest, !.cursor = d.cursor + 1, !.cursorGen = row.gen]
  <2>1. Yielded(client) = [d EXCEPT !.page = Tail(d.page), !.cursor = d.cursor + 1, !.cursorGen = row.gen]
    BY <1>5, <1>7 DEF Yielded, row
  <2> QED BY <1>7, <2>1 DEF rest
<1>9. PICK n \in Nat : n = d.cursor + 1
  BY SMTT(30), <1>7 DEF Client
<1> QED BY <1>1, <1>2, <1>7, <1>8, <1>9 DEF Client

\* The follower's steps keep its types.
LEMMA ClientTypedStep ==
  ASSUME SinkInv, ClientTyped, ClientStep
  PROVE  ClientTyped'
<1>1. /\ client \in Client /\ client.last \in Nat /\ gen \in Nat /\ channel \in Channel
      /\ rows \in Seq(Row) /\ Len(rows) \in Nat /\ client.cursor \in Nat
  BY DEF ClientTyped, Client, SinkInv, Typed
<1>2. Closed \in Channel /\ [Closed EXCEPT !.open = TRUE] \in Channel
  BY DEF Closed, Channel
<1>3. Subscribing(client) \in Client
  <2>1. PICK at \in {"attaching", "reading"} : at = IF backend = "redis" THEN "attaching" ELSE "reading"
    OBVIOUS
  <2>2. PICK c : c = [Away EXCEPT !.at = at, !.cursorGen = gen, !.after = client.last, !.last = client.last, !.seen = client.seen]
    OBVIOUS
  <2>3. c \in Client
    BY <1>1, <2>2, AwayIs
  <2> QED BY <2>1, <2>2, <2>3 DEF Subscribing
<1>4. CASE Attach
  <2>1. client' = Subscribing(client) /\ channel' \in Channel
    BY <1>1, <1>2, <1>4 DEF Attach
  <2> QED BY <1>3, <2>1 DEF ClientTyped
<1>5. CASE Reconnect
  <2>1. client' = Subscribing(client) \/ client' = [client EXCEPT !.at = "gone"]
    BY <1>5 DEF Reconnect
  <2>2. channel' \in Channel
    BY <1>1, <1>2, <1>5 DEF Reconnect
  <2>3. [client EXCEPT !.at = "gone"] \in Client
    BY <1>1 DEF Client
  <2> QED BY <1>3, <2>1, <2>2, <2>3 DEF ClientTyped
<1>6. Dropped(client) \in Client
  BY <1>1, DroppedIs
<1>7. CASE Drop
  BY <1>2, <1>6, <1>7 DEF Drop, ClientTyped
<1>8. CASE Yield
  <2>1. client' = Yielded(client) /\ client.page # <<>> /\ channel' = channel
    BY <1>8 DEF Yield, sinkVars
  <2> QED BY <1>1, <2>1, YieldedIs DEF ClientTyped, SinkInv
<1>9. \A hi \in Nat : hi <= Len(rows) => After(hi) \in Seq(Row)
  BY <1>1, AfterIs DEF SinkInv
<1>10. ASSUME NEW page \in Seq(Row) PROVE /\ [client EXCEPT !.page = page] \in Client
                                          /\ [client EXCEPT !.at = "drained", !.page = page] \in Client
  BY <1>1 DEF Client
<1>11. Finished(client) \in Client
  BY <1>1 DEF Client, Finished
<1>12. CASE FollowMemory
  <2>1. channel' = channel /\ (client' = [client EXCEPT !.page = After(Len(rows))] \/ client' = Finished(client))
    BY <1>12 DEF FollowMemory, sinkVars
  <2>2. After(Len(rows)) \in Seq(Row)
    BY <1>1, <1>9
  <2> QED BY <1>1, <1>10, <1>11, <2>1, <2>2 DEF ClientTyped
<1>13. CASE FollowLucid
  <2>1. PICK hi \in Nat : /\ hi = IF client.cursor + Page < Len(rows) THEN client.cursor + Page ELSE Len(rows)
                          /\ hi <= Len(rows)
    BY <1>1, ReadAssumption
  <2>2. channel' = channel /\ \/ client' = [client EXCEPT !.page = After(hi)] \/ client' = Finished(client)
                              \/ client' = [client EXCEPT !.at = "checking"]
    BY <1>13, <2>1 DEF FollowLucid, sinkVars
  <2>3. [client EXCEPT !.at = "checking"] \in Client
    BY <1>1 DEF Client
  <2>4. PICK page \in Seq(Row) : page = After(hi)
    BY <1>9, <2>1
  <2> QED BY <1>1, <1>10, <1>11, <2>2, <2>3, <2>4 DEF ClientTyped
<1>14. ASSUME NEW c \in Client PROVE Armed(c) \in Client /\ StartsOver(c, "reading") \in Client
  BY DEF Client, Armed, StartsOver
<1>15. CASE RecheckLucid
  BY <1>1, <1>11, <1>14, <1>15 DEF RecheckLucid, sinkVars, ClientTyped
<1>16. CASE FollowRedis
  <2>1. PICK b \in BOOLEAN : b = (client.ended \/ marked)
    OBVIOUS
  <2>2. PICK c \in Client : c = [client EXCEPT !.ended = b]
    BY <1>1 DEF Client
  <2>3. client' = Armed(c) /\ channel' = channel
    BY <1>16, <2>1, <2>2 DEF FollowRedis, sinkVars
  <2> QED BY <1>1, <1>14, <2>3 DEF ClientTyped
<1>17. CASE DrainRedis
  <2>1. channel' = channel /\ \/ client' = [client EXCEPT !.at = "drained", !.page = After(Len(rows))]
                              \/ client' = [client EXCEPT !.at = "checking"]
    BY <1>17 DEF DrainRedis, sinkVars
  <2>2. [client EXCEPT !.at = "checking"] \in Client
    BY <1>1 DEF Client
  <2>3. PICK page \in Seq(Row) : page = After(Len(rows))
    BY <1>1, <1>9
  <2> QED BY <1>1, <1>10, <2>1, <2>2, <2>3 DEF ClientTyped
<1>18. CASE Drained
  <2>1. channel' \in Channel /\ \/ client' = Finished(client) \/ client' = Armed(client)
                                \/ client' = [client EXCEPT !.at = "waiting"]
    BY <1>1, <1>2, <1>18 DEF Drained
  <2>2. [client EXCEPT !.at = "waiting"] \in Client
    BY <1>1 DEF Client
  <2> QED BY <1>1, <1>11, <1>14, <2>1, <2>2 DEF ClientTyped
<1>19. CASE RecheckRedis
  <2>1. channel' \in Channel /\ (client' = Finished(client) \/ client' = Armed(StartsOver(client, "reading")))
    BY <1>1, <1>2, <1>19 DEF RecheckRedis
  <2> QED BY <1>1, <1>11, <1>14, <2>1 DEF ClientTyped
<1>20. CASE WakeRedis
  BY <1>1, <1>14, <1>20 DEF WakeRedis, sinkVars, ClientTyped
<1>21. ASSUME NEW message \in {"chunk", "end"}, Deliver(message) PROVE ClientTyped'
  <2>1. PICK b \in BOOLEAN : b = (client.ended \/ message = "end")
    OBVIOUS
  <2>2. client' = [client EXCEPT !.ended = b, !.woken = TRUE] /\ channel' = [channel EXCEPT !.messages = @ \ {message}]
    BY <1>21, <2>1 DEF Deliver
  <2>3. [client EXCEPT !.ended = b, !.woken = TRUE] \in Client
    BY <1>1 DEF Client
  <2>4. [channel EXCEPT !.messages = @ \ {message}] \in Channel
    BY <1>1 DEF Channel
  <2> QED BY <2>2, <2>3, <2>4 DEF ClientTyped
<1> QED BY <1>4, <1>5, <1>7, <1>8, <1>12, <1>13, <1>15, <1>16, <1>17, <1>18, <1>19, <1>20, <1>21 DEF ClientStep

-----------------------------------------------------------------------------
(***************************************************************************)
(* What a step of the writers and of the transport does to what a follower *)
(* reads.                                                                  *)
(***************************************************************************)
Announcing == \E p \in Procs : gather[p].work.stage = "marked"

Unmoved ==
  /\ UNCHANGED <<rows, gen, landed>> /\ (marked => marked')
  /\ \/ /\ channel' = channel /\ (Announcing => Announcing' \/ Lost')
        /\ backend = "redis" /\ marked' => marked \/ Announcing'
     \/ marked /\ marked' /\ backend = "redis" /\ Publish("end")

Adds(items, end) ==
  /\ rows' = Append(rows, [items |-> items, end |-> end, gen |-> gen]) /\ landed' = landed \o items
  /\ UNCHANGED <<marked, gen>> /\ (Announcing => Announcing' \/ Lost')
  /\ IF backend = "redis" THEN Publish("chunk") ELSE channel' = channel
  /\ end => items = <<>>
  /\ ~Lost' => ~HasEnd

Added == \E items \in Seq(Calls), end \in BOOLEAN : Adds(items, end)

\* A failed append is a loss, and other processes have no part in it.
LEMMA AttemptLoses ==
  ASSUME Typed, NEW p \in Procs, NEW ok \in BOOLEAN, gather[p].queue # <<>>, Attempted(p, ok)
  PROVE  (Lost => Lost') /\ (~ok => Lost') /\ \A q \in Procs : q # p => gather'[q] = gather[q]
<1>1. PICK f : Tried(p, ok, f)
  BY AttemptedIs
<1>2. gather'[p] = f /\ \A q \in Procs : q # p => gather'[q] = gather[q]
  BY <1>1, TriedFacts
<1>3. f.lost = (gather[p].lost \/ ~ok)
  BY <1>1 DEF Tried
<1> QED BY <1>2, <1>3 DEF Lost

\* The loop writes nothing any more once the end is queued.
LEMMA LoopEffects ==
  ASSUME SinkInv, Loop
  PROVE  backend' = backend /\ (Lost => Lost') /\ (Unmoved \/ Added)
<1>1. ASSUME NEW w \in Writers, writer[w].at = "open" PROVE ~Announcing /\ (~Lost => ~HasEnd)
  BY <1>1, OpenBeforeEnd DEF Announcing
<1>2. ASSUME NEW f, NEW p \in Procs, gather' = [gather EXCEPT ![p] = f], f.lost = gather[p].lost PROVE Lost' <=> Lost
  BY <1>2 DEF Lost, SinkInv, Typed
<1>3. ASSUME NEW w \in Writers, WriteMemory(w) PROVE backend' = backend /\ (Lost => Lost') /\ Added
  <2>1. PICK p \in Procs : p = place[w]
    BY DEF SinkInv, Typed
  <2>2. PICK g \in Gather : g = gather[p]
    BY DEF SinkInv, Typed
  <2>3. PICK call : call = <<p, g.calls + 1>>
    OBVIOUS
  <2>4. /\ rows' = Append(rows, [items |-> <<call>>, end |-> FALSE, gen |-> gen]) /\ landed' = landed \o <<call>>
        /\ backend = "memory" /\ writer[w].at = "open" /\ UNCHANGED <<marked, gen, channel, backend>>
        /\ gather' = [gather EXCEPT ![p].calls = @ + 1]
    BY <1>3, <2>1, <2>2, <2>3 DEF WriteMemory, Push, Ready
  <2>5. <<call>> \in Seq(Calls)
    <3>1. call \in Calls
      BY <2>3, GatherQueue DEF Calls
    <3> QED BY <3>1
  <2>6. ~Announcing /\ (~Lost => ~HasEnd)
    BY <1>1, <2>4
  <2>7. Lost' <=> Lost
    <3>1. PICK f : f = [g EXCEPT !.calls = g.calls + 1]
      OBVIOUS
    <3>2. f.lost = gather[p].lost
      BY <2>2, <3>1 DEF Gather
    <3>3. gather' = [gather EXCEPT ![p] = f]
      BY <2>2, <2>4, <3>1 DEF SinkInv, Typed
    <3> QED BY <1>2, <3>2, <3>3
  <2>8. Adds(<<call>>, FALSE)
    BY <2>4, <2>6, <2>7 DEF Adds
  <2> QED BY <2>4, <2>5, <2>7, <2>8 DEF Added
<1>4. ASSUME NEW w \in Writers, writer[w].at = "open", UNCHANGED <<backend, channel>>,
             \/ backend # "memory" /\ UNCHANGED stream
             \/ backend = "memory" /\ UNCHANGED <<rows, gen, landed>> /\ (marked => marked')
      PROVE  backend' = backend /\ Unmoved
  <2>1. ~Announcing
    BY <1>1, <1>4
  <2> QED BY <1>4, <2>1 DEF Unmoved, stream
<1>5. ASSUME NEW w \in Writers, WriteRaises(w) PROVE backend' = backend /\ (Lost => Lost') /\ Unmoved
  <2>1. PICK p \in Procs : p = place[w]
    BY DEF SinkInv, Typed
  <2>2. PICK g \in Gather : g = gather[p]
    BY DEF SinkInv, Typed
  <2>3. PICK f : f = [g EXCEPT !.failure = FALSE]
    OBVIOUS
  <2>4. gather' = [gather EXCEPT ![p] = f]
    BY <1>5, <2>1, <2>2, <2>3 DEF WriteRaises
  <2>5. f.lost = g.lost
    BY <2>3 DEF Gather
  <2>6. writer[w].at = "open" /\ UNCHANGED <<backend, channel, stream>> /\ backend # "memory"
    BY <1>5 DEF WriteRaises, Ready
  <2> QED BY <1>2, <1>4, <2>2, <2>4, <2>5, <2>6
<1>6. ASSUME NEW w \in Writers, NEW kind \in Kinds, WriteDelta(w, kind) PROVE backend' = backend /\ (Lost => Lost') /\ Unmoved
  <2>1. PICK p \in Procs : p = place[w]
    BY DEF SinkInv, Typed
  <2>2. PICK g \in Gather : g = gather[p]
    BY DEF SinkInv, Typed
  <2>3. PICK flushed \in Gather : flushed = Flushed(g, None) /\ flushed.lost = g.lost
    BY FlushedIs
  <2>4. PICK call : call = <<p, g.calls + 1>>
    OBVIOUS
  <2>5. PICK next : next = IF g.key = kind THEN [g EXCEPT !.held = Append(g.held, call)]
                           ELSE [flushed EXCEPT !.held = <<call>>, !.key = kind]
    OBVIOUS
  <2>6. next.lost = g.lost /\ "calls" \in DOMAIN next /\ "lost" \in DOMAIN next
    <3>1. CASE g.key = kind
      BY <2>5, <3>1 DEF Gather
    <3>2. CASE g.key # kind
      BY <2>3, <2>5, <3>2 DEF Gather
    <3> QED BY <3>1, <3>2
  <2>7. PICK f : f = [next EXCEPT !.calls = next.calls + 1]
    OBVIOUS
  <2>8. gather' = [gather EXCEPT ![p] = f]
    BY <1>6, <2>1, <2>2, <2>3, <2>4, <2>5, <2>7 DEF WriteDelta
  <2>9. f.lost = g.lost
    BY <2>6, <2>7
  <2>10. writer[w].at = "open" /\ UNCHANGED <<backend, channel, stream>> /\ backend # "memory"
    BY <1>6 DEF WriteDelta, Ready
  <2> QED BY <1>2, <1>4, <2>2, <2>8, <2>9, <2>10
<1>7. ASSUME NEW w \in Writers, NEW p \in Procs, NEW g \in Gather, g.lost = gather[p].lost, NEW items \in Seq(Calls), NEW end \in BOOLEAN,
             gather' = [gather EXCEPT ![p] = Enqueued(Flushed(g, w), items, end, w)]
      PROVE  Lost => Lost'
  <2>1. PICK flushed \in Gather : flushed = Flushed(g, w) /\ flushed.lost = g.lost
    BY FlushedIs
  <2>2. PICK f : f = Enqueued(flushed, items, end, w)
    OBVIOUS
  <2>3. f.lost = flushed.lost
    BY <2>1, <2>2 DEF Enqueued, Gather
  <2> QED BY <1>2, <1>7, <2>1, <2>2, <2>3
<1>8. ASSUME NEW w \in Writers, WriteFrame(w) PROVE backend' = backend /\ (Lost => Lost') /\ Unmoved
  <2>1. PICK p \in Procs : p = place[w]
    BY DEF SinkInv, Typed
  <2>2. PICK high \in Nat : high = gather[p].calls + 1
    BY GatherQueue DEF SinkInv, Typed
  <2>3. PICK g \in Gather : g = [gather[p] EXCEPT !.calls = high] /\ g.lost = gather[p].lost /\ g.calls = high
    <3>1. PICK x \in Gather : x = gather[p]
      BY DEF SinkInv, Typed
    <3>2. PICK g : g = [x EXCEPT !.calls = high]
      OBVIOUS
    <3>3. g \in Gather /\ g.lost = x.lost /\ g.calls = high
      BY <3>2, GatherQueue
    <3> QED BY <3>1, <3>2, <3>3
  <2>4. PICK items : items = << <<p, high>> >>
    OBVIOUS
  <2>5. gather' = [gather EXCEPT ![p] = Enqueued(Flushed(g, w), items, FALSE, w)]
    BY <1>8, <2>1, <2>2, <2>3, <2>4 DEF WriteFrame
  <2>6. items \in Seq(Calls)
    BY <2>4 DEF Calls
  <2>7. writer[w].at = "open" /\ UNCHANGED <<backend, channel, stream>> /\ backend # "memory"
    BY <1>8 DEF WriteFrame, Ready
  <2>8. Lost => Lost'
    BY <1>7, <2>3, <2>5, <2>6
  <2> QED BY <1>4, <2>7, <2>8
<1>9. ASSUME NEW w \in Writers, EndDelegate(w) PROVE backend' = backend /\ (Lost => Lost') /\ Unmoved
  <2>1. PICK p \in Procs : p = place[w]
    BY DEF SinkInv, Typed
  <2>2. PICK next \in Gather : next = Flushed(gather[p], w) /\ next.lost = gather[p].lost
    BY FlushedIs DEF SinkInv, Typed
  <2>3. \A b \in BOOLEAN : [next EXCEPT !.failure = b].lost = next.lost
    BY <2>2 DEF Gather
  <2>4. PICK b \in BOOLEAN : b = (next.failure /\ backend # "memory" /\ ~writer[w].broken /\ next.queue # <<>>)
    OBVIOUS
  <2>5. gather' = gather \/ gather' = [gather EXCEPT ![p] = [next EXCEPT !.failure = b]]
    BY <1>9, <2>1, <2>2, <2>4 DEF EndDelegate
  <2>6. writer[w].at = "open" /\ UNCHANGED <<backend, channel, stream>>
    BY <1>9 DEF EndDelegate
  <2>7. Lost => Lost'
    <3>1. CASE gather' = gather
      BY <3>1 DEF Lost
    <3> QED BY <1>2, <2>2, <2>3, <2>5, <3>1
  <2>8. backend = "memory" => UNCHANGED <<rows, gen, landed, marked>>
    BY <2>6 DEF stream
  <2>9. backend' = backend /\ Unmoved
    BY <1>4, <2>6, <2>8
  <2> QED BY <2>7, <2>9
<1>10. CASE EndOwner
  <2>1. Owner \in Writers /\ writer[Owner].at = "open" /\ UNCHANGED <<backend, channel, rows, gen, landed>>
    BY <1>10, StreamAssumption DEF EndOwner
  <2>2. CASE backend = "memory"
    <3>1. marked' = TRUE /\ gather' = gather
      BY <1>10, <2>2 DEF EndOwner
    <3> QED BY <1>4, <2>1, <2>2, <3>1 DEF Lost
  <2>3. CASE backend # "memory"
    <3>1. PICK p \in Procs : p = place[Owner]
      BY <2>1 DEF SinkInv, Typed
    <3>2. gather' = [gather EXCEPT ![p] = Enqueued(Flushed(gather[p], Owner), <<>>, TRUE, Owner)] /\ marked' = marked
      BY <1>10, <2>3, <3>1 DEF EndOwner
    <3>3. <<>> \in Seq(Calls) /\ gather[p] \in Gather
      BY DEF SinkInv, Typed
    <3>4. Lost => Lost'
      BY <1>7, <2>1, <3>2, <3>3
    <3> QED BY <1>4, <2>1, <2>3, <3>2, <3>4 DEF stream
  <2> QED BY <2>2, <2>3
<1> QED BY <1>3, <1>5, <1>6, <1>8, <1>9, <1>10 DEF Loop

\* A step of a queue: it adds no row, or the row it lands.
LEMMA DrainEffects ==
  ASSUME SinkInv, NEW p \in Procs, DrainQueue(p)
  PROVE  backend' = backend /\ (Lost => Lost') /\ (Unmoved \/ Added)
<1>1. Typed /\ Marking
  BY DEF SinkInv
<1>2. backend # "redis" => ~Announcing
  BY <1>1 DEF Marking, Announcing
<1>3. ASSUME NEW ok \in BOOLEAN, gather[p].queue # <<>>, Attempted(p, ok)
      PROVE  (Lost => Lost') /\ (~ok => Lost') /\ \A q \in Procs : q # p => gather'[q] = gather[q]
  BY <1>1, <1>3, AttemptLoses
<1>4. ASSUME NEW f, gather' = [gather EXCEPT ![p] = f], f.lost = gather[p].lost PROVE Lost' <=> Lost
  BY <1>1, <1>4 DEF Lost, Typed
<1>5. ASSUME gather[p].queue # <<>>
      PROVE  /\ Head(gather[p].queue).items \in Seq(Calls) /\ Head(gather[p].queue).end \in BOOLEAN
             /\ Head(gather[p].queue).end => Head(gather[p].queue).items = <<>>
  <2>1. gather[p].queue \in Seq(Queued)
    BY <1>1, GatherQueue DEF Typed
  <2>2. gather[p].queue[1] = Head(gather[p].queue) /\ 1 \in DOMAIN gather[p].queue /\ gather[p].queue[1] \in Queued
    BY <1>5, <2>1
  <2> QED BY <2>2 DEF Queued, SinkInv, EndQueued
<1>6. ASSUME gather[p].queue # <<>>, gather[p].work.stage # "marked" PROVE ~Lost => ~HasEnd
  BY <1>6, SealedFacts DEF Settles
<1>7. CASE FlushWindow(p)
  <2>1. PICK f : f = Flushed(gather[p], None)
    OBVIOUS
  <2>2. f.lost = gather[p].lost /\ f.work = gather[p].work
    BY <1>1, <2>1, FlushedIs DEF Typed
  <2>3. gather' = [gather EXCEPT ![p] = f] /\ UNCHANGED <<backend, channel, rows, marked, gen, landed>>
    BY <1>7, <2>1 DEF FlushWindow, stream
  <2>4. \A q \in Procs : gather'[q].work = gather[q].work
    BY <1>1, <2>2, <2>3 DEF Typed
  <2>5. Announcing' <=> Announcing
    BY <2>4 DEF Announcing
  <2> QED BY <1>4, <2>2, <2>3, <2>5 DEF Unmoved
<1>8. CASE AppendFails(p)
  <2>1. gather[p].queue # <<>> /\ Attempted(p, FALSE) /\ UNCHANGED <<backend, channel, rows, marked, gen, landed>>
    BY <1>8 DEF AppendFails, stream
  <2> QED BY <1>3, <2>1 DEF Unmoved
<1>9. CASE LucidNumbers(p)
  <2>1. PICK f : f = [gather[p] EXCEPT !.work.stage = "numbered", !.work.seq = Len(rows) + 1]
    OBVIOUS
  <2>2. f.lost = gather[p].lost
    BY <1>1, <2>1 DEF Typed, Gather
  <2>3. gather' = [gather EXCEPT ![p] = f] /\ backend = "lucid" /\ UNCHANGED <<backend, channel, rows, marked, gen, landed>>
    BY <1>1, <1>9, <2>1 DEF LucidNumbers, Appending, stream, Typed
  <2> QED BY <1>2, <1>4, <2>2, <2>3 DEF Unmoved
<1>10. CASE LucidCollides(p)
  <2>1. backend = "lucid" /\ gather[p].queue # <<>> /\ UNCHANGED <<backend, channel, rows, marked, gen, landed>>
    BY <1>10 DEF LucidCollides, Appending, stream
  <2>2. Lost => Lost'
    <3>1. CASE gather[p].work.attempt >= Attempts
      BY <1>3, <1>10, <2>1, <3>1 DEF LucidCollides
    <3>2. CASE ~(gather[p].work.attempt >= Attempts)
      <4>1. PICK f : f = [gather[p] EXCEPT !.work = [Idle EXCEPT !.attempt = gather[p].work.attempt + 1]]
        OBVIOUS
      <4>2. f.lost = gather[p].lost
        BY <1>1, <4>1 DEF Typed, Gather
      <4>3. gather' = [gather EXCEPT ![p] = f]
        BY <1>10, <3>2, <4>1 DEF LucidCollides
      <4> QED BY <1>4, <4>2, <4>3
    <3> QED BY <3>1, <3>2
  <2> QED BY <1>2, <2>1, <2>2 DEF Unmoved
<1>11. CASE RedisMarks(p)
  <2>1. PICK f : f = [gather[p] EXCEPT !.work.stage = "marked"]
    OBVIOUS
  <2>2. f.lost = gather[p].lost /\ f.work.stage = "marked"
    BY <1>1, <2>1 DEF Typed, Gather, Work
  <2>3. gather' = [gather EXCEPT ![p] = f] /\ marked' = TRUE /\ UNCHANGED <<backend, channel, rows, gen, landed>>
    BY <1>11, <2>1 DEF RedisMarks, stream
  <2>4. Announcing'
    BY <1>1, <2>2, <2>3 DEF Announcing, Typed
  <2> QED BY <1>4, <2>2, <2>3, <2>4 DEF Unmoved
<1>12. CASE RedisPublishesEnd(p)
  <2>1. /\ gather[p].queue # <<>> /\ Attempted(p, TRUE) /\ UNCHANGED <<backend, rows, marked, gen, landed>>
        /\ Publish("end") /\ backend = "redis" /\ gather[p].work.stage = "marked"
    BY <1>12 DEF RedisPublishesEnd, Appending, stream
  <2>2. marked
    BY <1>1, <2>1 DEF Marking
  <2> QED BY <1>3, <2>1, <2>2 DEF Unmoved
<1>13. ASSUME NEW ok \in BOOLEAN, LucidInserts(p, ok) PROVE backend' = backend /\ (Lost => Lost') /\ Added
  <2>1. PICK items \in Seq(Calls), end \in BOOLEAN : /\ items = Head(gather[p].queue).items /\ end = Head(gather[p].queue).end
                                                     /\ end => items = <<>>
    BY <1>5, <1>13 DEF LucidInserts, Appending
  <2>2. /\ gather[p].queue # <<>> /\ Attempted(p, ok) /\ gather[p].work.stage # "marked" /\ backend = "lucid"
        /\ rows' = Append(rows, [items |-> items, end |-> end, gen |-> gen]) /\ landed' = landed \o items
        /\ UNCHANGED <<marked, gen, backend, channel>>
    BY <1>13, <2>1 DEF LucidInserts, Appending, Push
  <2>3. Lost => Lost'
    BY <1>3, <2>2
  <2>4. Adds(items, end)
    BY <1>2, <1>6, <2>1, <2>2, <2>3 DEF Adds
  <2> QED BY <2>2, <2>3, <2>4 DEF Added
<1>14. ASSUME NEW ok \in BOOLEAN, RedisAppends(p, ok) PROVE backend' = backend /\ (Lost => Lost') /\ Added
  <2>1. PICK items \in Seq(Calls) : items = Head(gather[p].queue).items
    BY <1>5, <1>14 DEF RedisAppends, Appending
  <2>2. /\ gather[p].queue # <<>> /\ Attempted(p, ok) /\ backend = "redis" /\ ~Head(gather[p].queue).end
        /\ rows' = Append(rows, [items |-> items, end |-> FALSE, gen |-> gen]) /\ landed' = landed \o items
        /\ UNCHANGED <<marked, gen, backend>> /\ Publish("chunk")
    BY <1>14, <2>1 DEF RedisAppends, Appending, Push
  <2>3. (Lost => Lost') /\ \A q \in Procs : q # p => gather'[q] = gather[q]
    BY <1>3, <2>2
  <2>4. gather[p].work.stage # "marked"
    BY <1>1, <2>2 DEF Marking
  <2>5. Announcing => Announcing'
    BY <2>3, <2>4 DEF Announcing
  <2>6. Adds(items, FALSE)
    BY <1>6, <2>2, <2>3, <2>4, <2>5 DEF Adds
  <2> QED BY <2>2, <2>3, <2>6 DEF Added
<1> QED BY <1>7, <1>8, <1>9, <1>10, <1>11, <1>12, <1>13, <1>14 DEF DrainQueue

\* Either nothing changes for a follower, or a row is added, or the stream lapses.
LEMMA SinkEffects ==
  ASSUME SinkInv, Purges,
         Loop \/ Expire \/ DropBuffer \/ \E p \in Procs : DrainQueue(p) \/ Crash(p)
  PROVE  backend' = backend /\ (Lost => Lost') /\ (Unmoved \/ Added \/ (gen' = gen + 1 /\ channel' = channel))
<1>1. CASE Loop
  BY <1>1, LoopEffects
<1>2. ASSUME gather' = gather PROVE (Lost => Lost') /\ (Announcing => Announcing')
  BY <1>2 DEF Lost, Announcing
<1>3. CASE Expire
  <2>1. CASE RedisExpires
    BY <1>2, <2>1 DEF RedisExpires, Forget
  <2>2. CASE PurgeFinds
    BY <1>2, <2>2 DEF PurgeFinds, Unmoved, stream
  <2>3. CASE PurgeDeletes
    BY <1>2, <2>3 DEF PurgeDeletes, Forget
  <2> QED BY <1>3, <2>1, <2>2, <2>3 DEF Expire
<1>4. CASE DropBuffer
  BY <1>2, <1>4 DEF DropBuffer, Forget
<1>5. ASSUME NEW p \in Procs, Crash(p)
      PROVE  backend' = backend /\ (Lost => Lost') /\ (Unmoved \/ (gen' = gen + 1 /\ channel' = channel))
  <2>1. PICK f : f = [Nothing EXCEPT !.calls = gather[p].calls, !.lost = TRUE]
    OBVIOUS
  <2>2. gather' = [gather EXCEPT ![p] = f] /\ f.lost
    BY <1>5, <2>1 DEF Crash, Nothing
  <2>3. Lost'
    BY <2>2 DEF Lost, SinkInv, Typed
  <2>4. UNCHANGED <<backend, channel>> /\ (backend = "memory" => Forget) /\ (backend # "memory" => UNCHANGED stream)
    BY <1>5 DEF Crash
  <2> QED BY <2>3, <2>4 DEF Unmoved, Forget, stream
<1> QED BY <1>1, <1>3, <1>4, <1>5, DrainEffects

-----------------------------------------------------------------------------
(***************************************************************************)
(* As long as the stream never lapsed: the rows cut what landed into the   *)
(* events the encoder numbers, and the client has the first of them.       *)
(* num[k] events are in the first k rows, cut[e] calls in the first e      *)
(* events.                                                                 *)
(***************************************************************************)
EventOf(num, cut, row, ls, k) ==
  /\ row.end => num[k] = num[k - 1]
  /\ ~row.end => /\ num[k] = num[k - 1] + 1 /\ cut[num[k - 1]] <= cut[num[k]]
                 /\ row.items = SubSeq(ls, cut[num[k - 1]] + 1, cut[num[k]])

Numbers(f) == \A n \in Nat : f[n] \in Nat

Layout(num, cut, rs, ls) ==
  /\ Numbers(num) /\ Numbers(cut)
  /\ num[0] = 0 /\ cut[0] = 0 /\ cut[num[Len(rs)]] = Len(ls)
  /\ \A e \in Nat : e <= num[Len(rs)] => cut[e] <= Len(ls)
  /\ \A k \in 1 .. Len(rs) : num[k] <= num[Len(rs)] /\ EventOf(num, cut, rs[k], ls, k)

\* A cut of a sequence is the same cut of what extends it.
LEMMA SubSeqStays ==
  ASSUME NEW S, NEW s \in Seq(S), NEW t \in Seq(S), NEW m \in Nat, m > 0, NEW n \in Nat, n <= Len(s)
  PROVE  SubSeq(s \o t, m, n) = SubSeq(s, m, n)
<1>1. CASE m <= n
  <2>1. m \in 1 .. Len(s) /\ n \in 1 .. Len(s)
    BY <1>1
  <2> QED BY <2>1, SubSeqOfConcat1
<1>2. CASE n < m
  <2>1. m \in Int /\ n \in Int
    OBVIOUS
  <2> QED BY <1>2, <2>1, SubSeqEmpty
<1> QED BY <1>1, <1>2

\* What extends a sequence is the cut behind it.
LEMMA TailOf ==
  ASSUME NEW S, NEW s \in Seq(S), NEW t \in Seq(S), NEW m \in Nat, NEW n \in Nat, m = Len(s) + 1, n = Len(s \o t)
  PROVE  SubSeq(s \o t, m, n) = t
<1>1. PICK size \in Nat : size = Len(s)
  OBVIOUS
<1>2. PICK much \in Nat : much = Len(t)
  OBVIOUS
<1>3. n = size + much
  BY <1>1, <1>2
<1>4. CASE t = <<>>
  <2>1. m \in Int /\ n \in Int /\ n < m
    BY <1>1, <1>2, <1>3, <1>4
  <2> QED BY <1>4, <2>1, SubSeqEmpty
<1>5. CASE t # <<>>
  <2>1. much > 0
    BY <1>2, <1>5
  <2>2. m \in (Len(s) + 1) .. (Len(s) + Len(t)) /\ n \in (Len(s) + 1) .. (Len(s) + Len(t))
    BY <1>1, <1>2, <1>3, <2>1
  <2>3. SubSeq(s \o t, m, n) = SubSeq(t, m - Len(s), n - Len(s))
    BY <2>2, SubSeqOfConcat2
  <2>4. m - Len(s) = 1 /\ n - Len(s) = Len(t)
    BY <1>1, <1>2, <1>3
  <2> QED BY <2>3, <2>4, SubSeqFull
<1> QED BY <1>4, <1>5

\* Numbers g are numbers f but for the m-th, which is v.
Extends(g, f, m, v) == Numbers(g) /\ g[m] = v /\ \A k \in Nat : k # m => g[k] = f[k]

\* A numbering has room for one more number.
LEMMA Extended ==
  ASSUME NEW f, Numbers(f), NEW m \in Nat, NEW v \in Nat
  PROVE  \E g : Extends(g, f, m, v)
<1>1. PICK g : g = [k \in Nat |-> IF k = m THEN v ELSE f[k]]
  OBVIOUS
<1>2. g[m] = v /\ \A k \in Nat : k # m => g[k] = f[k]
  BY <1>1
<1>3. Numbers(g)
  BY <1>1 DEF Numbers
<1>4. Extends(g, f, m, v)
  BY <1>2, <1>3 DEF Extends
<1> QED BY <1>4

\* The numbers of a layout.
LEMMA LayoutOf ==
  ASSUME NEW rs \in Seq(Row), NEW ls \in Seq(Calls), NEW num, NEW cut, Layout(num, cut, rs, ls)
  PROVE  /\ Len(rs) \in Nat /\ Len(ls) \in Nat /\ num[Len(rs)] \in Nat
         /\ \A k \in Nat : num[k] \in Nat /\ cut[k] \in Nat
         /\ \A k \in 0 .. Len(rs) : num[k] <= num[Len(rs)]
<1>1. num[0] = 0
  BY DEF Layout
<1>2. \A k \in 1 .. Len(rs) : num[k] <= num[Len(rs)]
  BY DEF Layout
<1>3. Len(rs) \in Nat /\ Len(ls) \in Nat
  OBVIOUS
<1>4. \A k \in Nat : num[k] \in Nat /\ cut[k] \in Nat
  BY DEF Layout, Numbers
<1>5. num[Len(rs)] \in Nat
  BY <1>3, <1>4
<1>6. ASSUME NEW k \in 0 .. Len(rs) PROVE num[k] <= num[Len(rs)]
  <2>1. CASE k = 0
    BY <1>1, <1>5, <2>1
  <2>2. CASE k # 0
    <3>1. k \in 1 .. Len(rs)
      BY <1>3, <2>2
    <3> QED BY <1>2, <3>1
  <2> QED BY <2>1, <2>2
<1> QED BY <1>3, <1>4, <1>5, <1>6

\* An event is where it was when more lands behind it.
LEMMA EventStays ==
  ASSUME NEW num, Numbers(num), NEW cut, Numbers(cut), NEW more, NEW further,
         NEW ls \in Seq(Calls), NEW items \in Seq(Calls), NEW row \in Row, NEW top \in Nat, NEW k \in Nat, k - 1 \in Nat,
         more[k] = num[k], more[k - 1] = num[k - 1], num[k] <= top,
         \A e \in Nat : e <= top => further[e] = cut[e] /\ cut[e] <= Len(ls),
         EventOf(num, cut, row, ls, k)
  PROVE  EventOf(more, further, row, ls \o items, k)
<1>1. PICK a \in Nat : a = num[k]
  BY DEF Numbers
<1>2. PICK b \in Nat : b = num[k - 1]
  BY DEF Numbers
<1>3. CASE row.end
  BY <1>3 DEF EventOf
<1>4. CASE ~row.end
  <2>1. a = b + 1 /\ cut[b] <= cut[a] /\ row.items = SubSeq(ls, cut[b] + 1, cut[a])
    BY <1>1, <1>2, <1>4 DEF EventOf
  <2>2. further[a] = cut[a] /\ further[b] = cut[b] /\ cut[a] <= Len(ls)
    BY <1>1, <2>1
  <2>3. PICK m \in Nat : m = cut[b] + 1 /\ m > 0
    <3>1. PICK n \in Nat : n = cut[b]
      BY <1>2 DEF Numbers
    <3> QED BY <3>1
  <2>4. PICK n \in Nat : n = cut[a] /\ n <= Len(ls)
    BY <1>1, <2>2 DEF Numbers
  <2>5. SubSeq(ls \o items, m, n) = SubSeq(ls, m, n)
    <3>1. \A i, j \in Nat : i > 0 /\ j <= Len(ls) => SubSeq(ls \o items, i, j) = SubSeq(ls, i, j)
      BY SubSeqStays
    <3> QED BY <2>3, <2>4, <3>1
  <2>6. more[k] = more[k - 1] + 1 /\ further[more[k - 1]] <= further[more[k]]
    BY <1>1, <1>2, <2>1, <2>2
  <2>7. row.items = SubSeq(ls \o items, further[more[k - 1]] + 1, further[more[k]])
    BY <1>1, <1>2, <2>1, <2>2, <2>3, <2>4, <2>5
  <2> QED BY <1>4, <2>6, <2>7 DEF EventOf
<1> QED BY <1>3, <1>4

\* A row that is added is one more event, or the end.
LEMMA LayoutGrows ==
  ASSUME NEW rs \in Seq(Row), NEW ls \in Seq(Calls), NEW items \in Seq(Calls),
         NEW row \in Row, row.items = items, row.end => items = <<>>,
         NEW num, NEW cut, Layout(num, cut, rs, ls)
  PROVE  \E more, further :
           /\ Layout(more, further, Append(rs, row), ls \o items)
           /\ \A k \in Nat : k <= Len(rs) => more[k] = num[k]
           /\ \A e \in Nat : e <= num[Len(rs)] => further[e] = cut[e]
           /\ num[Len(rs)] <= more[Len(rs) + 1]
<1>1. PICK size \in Nat : size = Len(rs)
  OBVIOUS
<1>2. PICK top \in Nat : top = num[size]
  BY <1>1, LayoutOf
<1>3. PICK rs2 : rs2 = Append(rs, row)
  OBVIOUS
<1>4. PICK ls2 \in Seq(Calls) : ls2 = ls \o items
  <2>1. ls \o items \in Seq(Calls)
    BY ConcatProperties
  <2> QED BY <2>1, Zenon
<1>5. PICK had \in Nat : had = Len(ls)
  OBVIOUS
<1>6. PICK has \in Nat : has = Len(ls2) /\ had <= has
  BY <1>4, <1>5
<1>7. /\ Numbers(num) /\ Numbers(cut) /\ num[0] = 0 /\ cut[0] = 0 /\ cut[top] = had
      /\ \A e \in Nat : e <= top => cut[e] <= had
      /\ \A k \in 1 .. size : num[k] <= top /\ EventOf(num, cut, rs[k], ls, k)
  BY <1>1, <1>2, <1>5 DEF Layout
<1>8. \A e \in Nat : num[e] \in Nat /\ cut[e] \in Nat
  BY <1>7 DEF Numbers
<1>9. Numbers(num)
  BY <1>7
<1>10. Numbers(cut)
  BY <1>7
<1>11. \A k \in 1 .. size : rs2[k] = rs[k] /\ rs[k] \in Row
  BY <1>1, <1>3
<1>12. Len(rs2) = size + 1 /\ rs2[size + 1] = row
  BY <1>1, <1>3
<1>13. \E more, further :
         /\ Numbers(more) /\ Numbers(further)
         /\ \A k \in Nat : k <= size => more[k] = num[k]
         /\ \A e \in Nat : e <= top => further[e] = cut[e]
         /\ top <= more[size + 1] /\ further[more[size + 1]] = has
         /\ \A e \in Nat : e <= more[size + 1] => further[e] <= has
         /\ EventOf(more, further, row, ls2, size + 1)
  <2>1. CASE row.end
    <3>1. PICK more : Numbers(more) /\ more[size + 1] = top /\ \A k \in Nat : k <= size => more[k] = num[k]
      <4>1. PICK next \in Nat : next = size + 1
        OBVIOUS
      <4>2. PICK more : Extends(more, num, next, top)
        BY <1>9, <4>1, Extended
      <4>3. Numbers(more) /\ more[next] = top /\ \A k \in Nat : k # next => more[k] = num[k]
        BY <4>2 DEF Extends
      <4>4. \A k \in Nat : k <= size => more[k] = num[k]
        BY <4>1, <4>3
      <4> QED BY <4>1, <4>3, <4>4
    <3>2. ls2 = ls /\ has = had
      BY <1>4, <1>5, <1>6, <2>1, ConcatEmptySeq
    <3>3. more[(size + 1) - 1] = top
      BY <1>2, <3>1
    <3>4. EventOf(more, cut, row, ls2, size + 1)
      BY <2>1, <3>1, <3>3 DEF EventOf
    <3> QED BY <1>7, <3>1, <3>2, <3>4
  <2>2. CASE ~row.end
    <3>1. PICK v \in Nat : v = top + 1
      OBVIOUS
    <3>2. PICK more : Numbers(more) /\ more[size + 1] = v /\ \A k \in Nat : k <= size => more[k] = num[k]
      <4>1. PICK next \in Nat : next = size + 1
        OBVIOUS
      <4>2. PICK more : Extends(more, num, next, v)
        BY <1>9, <4>1, Extended
      <4>3. Numbers(more) /\ more[next] = v /\ \A k \in Nat : k # next => more[k] = num[k]
        BY <4>2 DEF Extends
      <4>4. \A k \in Nat : k <= size => more[k] = num[k]
        BY <4>1, <4>3
      <4> QED BY <4>1, <4>3, <4>4
    <3>3. PICK further : Numbers(further) /\ further[top + 1] = has /\ \A e \in Nat : e <= top => further[e] = cut[e]
      <4>1. PICK next \in Nat : next = top + 1
        OBVIOUS
      <4>2. PICK further : Extends(further, cut, next, has)
        BY <1>10, <4>1, Extended
      <4>3. Numbers(further) /\ further[next] = has /\ \A e \in Nat : e # next => further[e] = cut[e]
        BY <4>2 DEF Extends
      <4>4. \A e \in Nat : e <= top => further[e] = cut[e]
        BY <4>1, <4>3
      <4> QED BY <4>1, <4>3, <4>4
    <3>4. further[top] = had
      BY <1>7, <3>3
    <3>5. more[(size + 1) - 1] = top
      BY <1>2, <3>2
    <3>6. row.items = SubSeq(ls2, further[top] + 1, further[top + 1])
      <4>1. PICK m \in Nat : m = had + 1
        OBVIOUS
      <4>2. SubSeq(ls \o items, m, has) = items
        BY <1>4, <1>5, <1>6, <4>1, TailOf
      <4> QED BY <1>4, <3>3, <3>4, <4>1, <4>2
    <3>7. EventOf(more, further, row, ls2, size + 1)
      BY <1>6, <2>2, <3>2, <3>1, <3>3, <3>4, <3>5, <3>6 DEF EventOf
    <3>8. ASSUME NEW e \in Nat, e <= top + 1 PROVE further[e] <= has
      <4>1. CASE e <= top
        <5>1. PICK n \in Nat : n = cut[e] /\ n <= had
          BY <1>7, <1>8, <4>1
        <5>2. further[e] = n
          BY <3>3, <4>1, <5>1
        <5> QED BY <1>6, <5>1, <5>2
      <4>2. CASE e = top + 1
        BY <3>3, <4>2
      <4> QED BY <3>8, <4>1, <4>2
    <3>9. more[size + 1] = top + 1
      BY <3>2, <3>1
    <3>10. /\ top <= more[size + 1] /\ further[more[size + 1]] = has
           /\ \A e \in Nat : e <= more[size + 1] => further[e] <= has
      BY <3>3, <3>8, <3>9
    <3> QED BY <3>2, <3>3, <3>7, <3>10
  <2> QED BY <2>1, <2>2
<1>14. PICK more, further :
         /\ Numbers(more) /\ Numbers(further)
         /\ \A k \in Nat : k <= size => more[k] = num[k]
         /\ \A e \in Nat : e <= top => further[e] = cut[e]
         /\ top <= more[size + 1] /\ further[more[size + 1]] = has
         /\ \A e \in Nat : e <= more[size + 1] => further[e] <= has
         /\ EventOf(more, further, row, ls2, size + 1)
  BY <1>13
<1>15. more[size + 1] \in Nat
  BY <1>14 DEF Numbers
<1>16. ASSUME NEW k \in 1 .. size + 1
       PROVE  more[k] <= more[size + 1] /\ EventOf(more, further, rs2[k], ls2, k)
  <2>1. CASE k = size + 1
    BY <1>12, <1>14, <1>15, <2>1
  <2>2. CASE k \in 1 .. size
    <3>1. k - 1 \in Nat /\ k - 1 <= size /\ k \in Nat /\ k <= size
      BY <2>2
    <3>2. more[k] = num[k] /\ more[k - 1] = num[k - 1]
      BY <1>14, <3>1
    <3>3. num[k] <= top /\ EventOf(num, cut, rs[k], ls, k) /\ rs2[k] = rs[k] /\ rs[k] \in Row
      BY <1>7, <1>11, <2>2
    <3>4. \A e \in Nat : e <= top => further[e] = cut[e] /\ cut[e] <= Len(ls)
      BY <1>5, <1>7, <1>14
    <3>5. EventOf(more, further, rs[k], ls \o items, k)
      BY <1>7, <3>1, <3>2, <3>3, <3>4, EventStays
    <3>6. more[k] <= more[size + 1]
      <4>1. more[k] <= top /\ top <= more[size + 1]
        BY <1>14, <3>2, <3>3
      <4>2. more[k] \in Nat
        BY <1>14, <3>1 DEF Numbers
      <4> QED BY <1>15, <4>1, <4>2
    <3> QED BY <1>4, <3>3, <3>5, <3>6
  <2> QED BY <1>16, <2>1, <2>2
<1>17. more[0] = 0 /\ further[0] = 0
  BY <1>7, <1>14
<1>18. Layout(more, further, rs2, ls2)
  BY <1>6, <1>12, <1>14, <1>16, <1>17 DEF Layout
<1> QED BY <1>1, <1>2, <1>3, <1>4, <1>14, <1>18

\* A follower that keeps in step with the layout: what it saw ends with the event it is at.
Follows(c, num, cut, rs, ls) ==
  /\ c.last <= num[Len(rs)] /\ c.seen = SubSeq(ls, 1, cut[c.last])
  /\ c.cursor + Len(c.page) <= Len(rs)
  /\ c.page = SubSeq(rs, c.cursor + 1, c.cursor + Len(c.page))
  /\ c.position = num[c.cursor]
  /\ c.after <= c.last /\ c.position <= c.last /\ c.cursorGen = 0 /\ c.at # "checking"

\* How far apart two numbers are.
LEMMA Difference ==
  ASSUME NEW low \in Nat, NEW high \in Nat, low <= high
  PROVE  \E n \in Nat : low + n = high /\ n = IF low + 1 <= high THEN high - (low + 1) + 1 ELSE 0
<1>1. high - low \in Nat /\ low + (high - low) = high
  OBVIOUS
<1>2. high - low = IF low + 1 <= high THEN high - (low + 1) + 1 ELSE 0
  OBVIOUS
<1> QED BY <1>1, <1>2

\* The fields of a follower.
LEMMA ClientFields ==
  ASSUME NEW c \in Client
  PROVE  /\ c.page \in Seq(Row) /\ c.cursor \in Nat /\ c.cursorGen \in Nat /\ c.ended \in BOOLEAN
         /\ c.position \in Nat /\ c.after \in Nat /\ c.last \in Nat /\ c.seen \in Seq(Calls)
BY DEF Client

\* Who follows the rows follows them when one more lands.
LEMMA FollowsOn ==
  ASSUME NEW rs \in Seq(Row), NEW ls \in Seq(Calls), NEW items \in Seq(Calls), NEW row \in Row, NEW c \in Client,
         NEW num, NEW cut, Layout(num, cut, rs, ls), Follows(c, num, cut, rs, ls),
         NEW more, NEW further, Layout(more, further, Append(rs, row), ls \o items),
         \A k \in Nat : k <= Len(rs) => more[k] = num[k],
         \A e \in Nat : e <= num[Len(rs)] => further[e] = cut[e],
         num[Len(rs)] <= more[Len(rs) + 1]
  PROVE  Follows(c, more, further, Append(rs, row), ls \o items)
<1>1. PICK last \in Nat, cursor \in Nat, much \in Nat, size \in Nat :
        last = c.last /\ cursor = c.cursor /\ much = Len(c.page) /\ size = Len(rs)
  <2>1. c.last \in Nat /\ c.cursor \in Nat /\ c.page \in Seq(Row)
    BY ClientFields
  <2>2. Len(c.page) \in Nat /\ Len(rs) \in Nat
    BY <2>1
  <2> QED BY <2>1, <2>2, Zenon
<1>2. /\ \A k \in Nat : k <= size => more[k] = num[k]
      /\ \A e \in Nat : e <= num[size] => further[e] = cut[e]
      /\ num[size] <= more[size + 1]
  BY <1>1
<1>3. /\ last <= num[size] /\ c.seen = SubSeq(ls, 1, cut[last])
      /\ cursor + much <= size /\ c.page = SubSeq(rs, cursor + 1, cursor + much) /\ c.position = num[cursor]
      /\ c.after <= last /\ c.position <= last /\ c.cursorGen = 0 /\ c.at # "checking"
  BY <1>1 DEF Follows
<1>4. /\ num[size] \in Nat /\ more[size + 1] \in Nat /\ cut[last] \in Nat /\ cut[last] <= Len(ls)
  <2>1. Numbers(num) /\ Numbers(cut) /\ Numbers(more) /\ \A e \in Nat : e <= num[Len(rs)] => cut[e] <= Len(ls)
    BY DEF Layout
  <2>2. PICK next \in Nat : next = size + 1
    BY <1>1
  <2>3. num[size] \in Nat /\ more[next] \in Nat /\ cut[last] \in Nat
    BY <1>1, <2>1, <2>2 DEF Numbers
  <2> QED BY <1>1, <1>3, <2>1, <2>2, <2>3
<1>5. Append(rs, row) = rs \o <<row>> /\ <<row>> \in Seq(Row) /\ Len(Append(rs, row)) = size + 1
  BY <1>1
<1>6. \A i, j \in Nat : i > 0 /\ j <= Len(ls) => SubSeq(ls \o items, i, j) = SubSeq(ls, i, j)
  BY SubSeqStays
<1>7. \A i, j \in Nat : i > 0 /\ j <= Len(rs) => SubSeq(rs \o <<row>>, i, j) = SubSeq(rs, i, j)
  BY <1>5, SubSeqStays
<1>8. c.seen = SubSeq(ls \o items, 1, further[last])
  <2>1. further[last] = cut[last]
    BY <1>1, <1>3
  <2>2. PICK j \in Nat : j = cut[last] /\ j <= Len(ls)
    BY <1>4
  <2>3. SubSeq(ls \o items, 1, j) = SubSeq(ls, 1, j)
    BY <1>6, <2>2
  <2> QED BY <1>3, <2>1, <2>2, <2>3
<1>9. c.page = SubSeq(Append(rs, row), cursor + 1, cursor + much)
  <2>1. PICK i \in Nat : i = cursor + 1 /\ i > 0
    BY <1>1
  <2>2. PICK j \in Nat : j = cursor + much /\ j <= Len(rs)
    <3>1. cursor + much <= size
      BY <1>3
    <3> QED BY <1>1, <3>1
  <2>3. SubSeq(rs \o <<row>>, i, j) = SubSeq(rs, i, j)
    BY <1>7, <2>1, <2>2
  <2> QED BY <1>3, <1>5, <2>1, <2>2, <2>3
<1>10. more[cursor] = num[cursor]
  <2>1. cursor + much <= size
    BY <1>3
  <2>2. cursor <= size
    BY <1>1, <2>1
  <2> QED BY <1>1, <1>2, <2>2
<1>11. last <= more[size + 1]
  <2>1. last <= num[size] /\ num[size] <= more[size + 1]
    BY <1>3, <1>2
  <2>2. PICK m \in Nat : m = num[size]
    BY <1>4
  <2>3. PICK n \in Nat : n = more[size + 1]
    BY <1>4
  <2> QED BY <1>1, <2>1, <2>2, <2>3
<1>12. cursor + much <= size + 1
  BY <1>3
<1> QED BY <1>1, <1>3, <1>5, <1>8, <1>9, <1>10, <1>11, <1>12 DEF Follows

\* What follows, follows whatever else changes; a subscription that starts over follows from the first row.
LEMMA FollowsSame ==
  ASSUME NEW c, NEW d, NEW num, NEW cut, NEW rs, NEW ls, Follows(c, num, cut, rs, ls),
         d.last = c.last, d.seen = c.seen, d.cursor = c.cursor, d.page = c.page, d.position = c.position,
         d.after = c.after, d.cursorGen = c.cursorGen, d.at # "checking"
  PROVE  Follows(d, num, cut, rs, ls)
BY DEF Follows

\* A new subscription, and none, follow the rows from their start.
LEMMA FollowsAnew ==
  ASSUME NEW rs \in Seq(Row), NEW ls \in Seq(Calls), NEW c \in Client, NEW d,
         NEW num, NEW cut, Layout(num, cut, rs, ls), Follows(c, num, cut, rs, ls),
         d.last = c.last, d.seen = c.seen, d.cursor = 0, d.page = <<>>, d.position = 0,
         d.after = 0 \/ d.after = c.last, d.cursorGen = 0, d.at # "checking"
  PROVE  Follows(d, num, cut, rs, ls)
<1>1. c.last \in Nat /\ Len(rs) \in Nat
  BY ClientFields
<1>2. c.last <= num[Len(rs)] /\ c.seen = SubSeq(ls, 1, cut[c.last]) /\ num[0] = 0
  BY DEF Follows, Layout
<1>3. SubSeq(rs, 0 + 1, 0 + 0) = <<>> /\ Len(<<>>) = 0
  BY SubSeqEmpty
<1>4. d.after <= d.last /\ d.position <= d.last
  BY <1>1
<1>5. d.cursor + Len(d.page) <= Len(rs) /\ d.cursor + Len(d.page) = 0 + 0 /\ d.cursor + 1 = 0 + 1
  BY <1>1, <1>3
<1>6. d.page = SubSeq(rs, d.cursor + 1, d.cursor + Len(d.page))
  BY <1>3, <1>5
<1> QED BY <1>2, <1>4, <1>5, <1>6 DEF Follows

\* A page read after the cursor.
LEMMA FollowsPage ==
  ASSUME NEW rs \in Seq(Row), NEW ls \in Seq(Calls), NEW c \in Client, NEW d,
         NEW num, NEW cut, Follows(c, num, cut, rs, ls), NEW hi \in Nat, c.cursor <= hi, hi <= Len(rs),
         d.page = SubSeq(rs, c.cursor + 1, hi),
         d.last = c.last, d.seen = c.seen, d.cursor = c.cursor, d.position = c.position,
         d.after = c.after, d.cursorGen = c.cursorGen, d.at # "checking"
  PROVE  Follows(d, num, cut, rs, ls) /\ d.cursor + Len(d.page) = hi
<1>1. PICK cursor \in Nat : cursor = c.cursor /\ cursor + 1 \in Int
  BY ClientFields
<1>2. PICK size \in Nat : size = Len(rs)
  OBVIOUS
<1>3. \A i \in (cursor + 1) .. hi : rs[i] \in Row
  <2>1. ASSUME NEW i \in (cursor + 1) .. hi PROVE rs[i] \in Row
    <3>1. i \in 1 .. Len(rs)
      BY <1>1, <1>2
    <3> QED BY <3>1
  <2> QED BY <2>1
<1>4. PICK len : len = Len(d.page)
  OBVIOUS
<1>5. len = IF cursor + 1 <= hi THEN hi - (cursor + 1) + 1 ELSE 0
  BY <1>1, <1>3, <1>4, SubSeqProperties
<1>6. PICK much \in Nat : much = Len(d.page) /\ cursor + much = hi
  <2>1. cursor <= hi
    BY <1>1
  <2>2. PICK n \in Nat : cursor + n = hi /\ n = IF cursor + 1 <= hi THEN hi - (cursor + 1) + 1 ELSE 0
    BY <2>1, Difference
  <2>3. len = n
    BY <1>5, <2>2
  <2> QED BY <1>4, <2>2, <2>3
<1> QED BY <1>1, <1>6 DEF Follows

\* The next row of the page: its event is the one after those the client has, or one of them.
LEMMA YieldFollows ==
  ASSUME NEW rs \in Seq(Row), NEW ls \in Seq(Calls), NEW c \in Client, c.page # <<>>,
         NEW num, NEW cut, Layout(num, cut, rs, ls), Follows(c, num, cut, rs, ls),
         \A k \in DOMAIN rs : rs[k].gen = 0
  PROVE  /\ Follows(Yielded(c), num, cut, rs, ls)
         /\ Yielded(c).cursor + Len(Yielded(c).page) = c.cursor + Len(c.page)
<1>1. PICK last \in Nat, cursor \in Nat, much \in Nat, size \in Nat :
        last = c.last /\ cursor = c.cursor /\ much = Len(c.page) /\ size = Len(rs)
  <2>1. c.last \in Nat /\ c.cursor \in Nat /\ c.page \in Seq(Row)
    BY ClientFields
  <2>2. Len(c.page) \in Nat /\ Len(rs) \in Nat
    BY <2>1
  <2> QED BY <2>1, <2>2, Zenon
<1>2. /\ last <= num[size] /\ c.seen = SubSeq(ls, 1, cut[last])
      /\ cursor + much <= size /\ c.page = SubSeq(rs, cursor + 1, cursor + much) /\ c.position = num[cursor]
      /\ c.after <= last /\ c.position <= last /\ c.cursorGen = 0 /\ c.at # "checking"
  BY <1>1 DEF Follows
<1>3. much > 0
  <2>1. c.page \in Seq(Row)
    BY ClientFields
  <2> QED BY <1>1, <2>1
<1>4. PICK next \in Nat : next = cursor + 1 /\ next \in 1 .. size /\ cursor = next - 1
  <2>1. cursor + much <= size
    BY <1>2
  <2> QED BY <1>1, <1>3, <2>1
<1>5. PICK end \in Nat : end = cursor + much /\ end \in next .. size
  <2>1. cursor + much <= size
    BY <1>2
  <2> QED BY SMTT(30), <1>1, <1>3, <1>4, <2>1
<1>6. Head(c.page) = rs[next] /\ Tail(c.page) = SubSeq(rs, next + 1, end)
  <2>1. c.page = SubSeq(rs, next, end)
    BY <1>2, <1>4, <1>5
  <2>2. next \in 1 .. Len(rs) /\ end \in next .. Len(rs)
    BY <1>1, <1>4, <1>5
  <2> QED BY <2>1, <2>2, HeadTailOfSubSeq
<1>7. PICK rest \in Seq(Row) : rest = Tail(c.page) /\ next + Len(rest) = end
  <2>1. Tail(c.page) \in Seq(Row) /\ Len(Tail(c.page)) = Len(c.page) - 1
    BY <1>1, <1>3, ClientFields, HeadTailProperties
  <2>2. Len(Tail(c.page)) = much - 1
    BY <1>1, <2>1
  <2>3. next + (much - 1) = end
    <3>1. next = cursor + 1 /\ end = cursor + much
      BY <1>4, <1>5
    <3> QED BY <3>1
  <2> QED BY <2>1, <2>2, <2>3, Zenon
<1>8. PICK row \in Row : row = rs[next] /\ row.gen = 0 /\ EventOf(num, cut, row, ls, next) /\ num[next] <= num[size]
  <2>1. next \in 1 .. Len(rs)
    BY <1>1, <1>4
  <2>2. next \in DOMAIN rs /\ rs[next] \in Row
    BY <2>1
  <2>3. num[next] <= num[Len(rs)] /\ EventOf(num, cut, rs[next], ls, next)
    BY <2>1 DEF Layout
  <2> QED BY <1>1, <2>2, <2>3
<1>9. PICK had \in Nat, has \in Nat : had = num[cursor] /\ has = num[next]
  BY <1>1, <1>4 DEF Layout, Numbers
<1>10. PICK d : d = Yielded(c)
  OBVIOUS
<1>11. CASE row.end
  <2>1. d = [[c EXCEPT !.ended = TRUE] EXCEPT !.page = rest, !.cursor = @ + 1, !.cursorGen = row.gen]
    BY <1>6, <1>7, <1>8, <1>10, <1>11 DEF Yielded, EndRow
  <2>2. /\ d.last = c.last /\ d.seen = c.seen /\ d.cursor = next /\ d.page = rest /\ d.position = c.position
        /\ d.after = c.after /\ d.cursorGen = 0 /\ d.at = c.at
    BY <1>1, <1>4, <1>8, <2>1 DEF Client
  <2>3. num[next] = num[cursor]
    BY <1>4, <1>8, <1>11 DEF EventOf
  <2>4. Follows(d, num, cut, rs, ls)
    BY <1>1, <1>2, <1>5, <1>6, <1>7, <2>2, <2>3 DEF Follows
  <2> QED BY <1>1, <1>5, <1>7, <1>10, <2>2, <2>4
<1>12. CASE ~row.end
  <2>1. /\ has = had + 1 /\ cut[had] <= cut[has] /\ row.items = SubSeq(ls, cut[had] + 1, cut[has])
    BY <1>4, <1>8, <1>9, <1>12 DEF EventOf
  <2>2. PICK t : t = Take(c, row)
    OBVIOUS
  <2>3. d = [t EXCEPT !.page = Tail(t.page), !.cursor = t.cursor + 1, !.cursorGen = row.gen]
    BY <1>6, <1>8, <1>10, <1>12, <2>2 DEF Yielded, EndRow
  <2>4. c.position + 1 = has /\ c.position = had
    BY <1>2, <1>9, <2>1
  <2>5. PICK taken \in BOOLEAN : taken = (has > c.after /\ has > last)
    OBVIOUS
  <2>6. t = [c EXCEPT !.position = has, !.last = IF taken THEN has ELSE @, !.seen = IF taken THEN @ \o row.items ELSE @]
    BY <1>1, <2>2, <2>4, <2>5 DEF Take
  <2>7. /\ d.page = rest /\ d.cursor = next /\ d.cursorGen = 0 /\ d.position = has /\ d.after = c.after /\ d.at = c.at
        /\ d.last = (IF taken THEN has ELSE c.last) /\ d.seen = (IF taken THEN c.seen \o row.items ELSE c.seen)
    BY <1>1, <1>4, <1>7, <1>8, <2>3, <2>6 DEF Client
  <2>8. PICK after \in Nat : after = c.after /\ after <= last /\ had <= last
    BY <1>2, <2>4, ClientFields
  <2>9. has = had + 1 /\ had <= last /\ after <= last
    BY <2>1, <2>8
  <2>10. CASE taken
    <3>1. last = had
      <4>1. has > last
        BY <2>5, <2>10
      <4> QED BY <2>9, <4>1
    <3>2. PICK low \in Nat, high \in Nat : low = cut[had] /\ high = cut[has] /\ low <= high /\ high <= Len(ls)
      <4>1. cut[had] \in Nat /\ cut[has] \in Nat
        BY <1>9 DEF Layout, Numbers
      <4>2. cut[has] <= Len(ls)
        BY <1>1, <1>8, <1>9 DEF Layout
      <4> QED BY <2>1, <4>1, <4>2
    <3>3. SubSeq(ls, 1, low) \o SubSeq(ls, low + 1, high) = SubSeq(ls, 1, high)
      <4>1. Len(ls) \in Nat
        OBVIOUS
      <4>2. 1 \in 1 .. Len(ls) + 1 /\ low \in 1 - 1 .. Len(ls) /\ high \in low .. Len(ls)
        BY <3>2, <4>1
      <4> QED BY <4>2, ConcatAdjacentSubSeq
    <3>4. d.seen = SubSeq(ls, 1, cut[has]) /\ d.last = has
      BY <1>2, <2>1, <2>7, <2>10, <3>1, <3>2, <3>3
    <3>5. after <= has
      BY <2>9, <3>1
    <3>6. cursor + much <= size /\ has <= num[size] /\ has <= has
      BY <1>2, <1>8, <1>9
    <3>7. next + Len(rest) <= size
      BY <1>5, <1>7
    <3>8. Follows(d, num, cut, rs, ls)
      <4>1. d.page = SubSeq(rs, d.cursor + 1, d.cursor + Len(d.page)) /\ d.cursor + Len(d.page) <= Len(rs)
        BY <1>1, <1>6, <1>7, <2>7, <3>7
      <4>2. d.last <= num[Len(rs)] /\ d.seen = SubSeq(ls, 1, cut[d.last])
        BY <1>1, <3>4, <3>6
      <4>3. /\ d.position = num[d.cursor] /\ d.cursorGen = 0 /\ d.at # "checking"
            /\ d.after <= d.last /\ d.position <= d.last
        BY <1>2, <1>9, <2>7, <2>8, <3>4, <3>5, <3>6
      <4> QED BY <4>1, <4>2, <4>3 DEF Follows
    <3> QED BY <1>1, <1>5, <1>7, <1>10, <2>7, <3>8
  <2>11. CASE ~taken
    <3>1. has <= last
      <4>1. ~(has > after /\ has > last)
        BY <2>5, <2>8, <2>11
      <4> QED BY <2>9, <4>1
    <3>2. Follows(d, num, cut, rs, ls)
      BY <1>1, <1>2, <1>5, <1>6, <1>7, <1>9, <2>7, <2>8, <2>11, <3>1 DEF Follows
    <3> QED BY <1>1, <1>5, <1>7, <1>10, <2>7, <3>2
  <2> QED BY <2>10, <2>11
<1> QED BY <1>11, <1>12

-----------------------------------------------------------------------------
(***************************************************************************)
(* The steps of the follower, as long as the stream never lapsed.          *)
(***************************************************************************)

\* The follower is in step: it holds a prefix of what landed, cut where its events end.
InStep ==
  gen = 0 => /\ \A n \in DOMAIN rows : rows[n].gen = 0
             /\ \E num, cut : Layout(num, cut, rows, landed) /\ Follows(client, num, cut, rows, landed)

\* What a step of the client does, as long as the stream never lapsed.
Keeps(c, e) == /\ e.last = c.last /\ e.seen = c.seen /\ e.cursor = c.cursor /\ e.page = c.page
               /\ e.position = c.position /\ e.after = c.after /\ e.cursorGen = c.cursorGen
Knew(c, e)  == e.ended = c.ended /\ e.drainsToEnd = c.drainsToEnd /\ e.woken = c.woken

Subscribes(c, e) ==
  /\ e.at = (IF backend = "redis" THEN "attaching" ELSE "reading")
  /\ e.page = <<>> /\ e.cursor = 0 /\ e.cursorGen = gen /\ e.position = 0 /\ e.after = c.last
  /\ ~e.ended /\ ~e.drainsToEnd /\ ~e.woken /\ e.last = c.last /\ e.seen = c.seen
  /\ channel' = IF backend = "redis" THEN [Closed EXCEPT !.open = TRUE] ELSE channel

Leaves(c, e) ==
  \/ c.at = "dropped" /\ e.at = "gone" /\ Keeps(c, e) /\ Knew(c, e) /\ channel' = channel
  \/ /\ e.at = "dropped" /\ e.page = <<>> /\ e.cursor = 0 /\ e.cursorGen = 0 /\ e.position = 0 /\ e.after = 0
     /\ ~e.ended /\ ~e.drainsToEnd /\ ~e.woken /\ e.last = c.last /\ e.seen = c.seen
     /\ channel' = Closed

Yields(c, e) ==
  /\ Attached /\ c.page # <<>> /\ e = Yielded(c) /\ e.at = c.at
  /\ e.ended = (c.ended \/ EndRow(Head(c.page))) /\ e.drainsToEnd = c.drainsToEnd /\ e.woken = c.woken
  /\ channel' = channel

Reads(c, e) ==
  /\ c.at = "reading" /\ e.at = (IF backend = "redis" THEN "drained" ELSE "reading")
  /\ backend # "redis" => ~c.ended
  /\ \E hi \in Nat : /\ c.cursor <= hi /\ hi <= Len(rows) /\ e.page = SubSeq(rows, c.cursor + 1, hi)
                     /\ backend = "redis" => hi = Len(rows)
  /\ e.last = c.last /\ e.seen = c.seen /\ e.cursor = c.cursor
  /\ e.position = c.position /\ e.after = c.after /\ e.cursorGen = c.cursorGen
  /\ Knew(c, e) /\ channel' = channel

Finishes(c, e) ==
  /\ e.at = "done" /\ Keeps(c, e) /\ Knew(c, e) /\ c.page = <<>>
  /\ \/ backend = "redis" /\ c.at = "drained" /\ c.drainsToEnd /\ channel' = Closed
     \/ backend # "redis" /\ (c.ended \/ (marked /\ c.cursor = Len(rows))) /\ channel' = channel

Arms(c, e) ==
  /\ backend = "redis" /\ e.at = "reading" /\ Keeps(c, e)
  /\ e.ended = (c.ended \/ (c.at = "attaching" /\ marked)) /\ e.drainsToEnd = e.ended /\ ~e.woken
  /\ c.at \in {"attaching", "drained", "waiting"} /\ channel' = channel

Waits(c, e) ==
  /\ backend = "redis" /\ c.at = "drained" /\ c.page = <<>> /\ ~c.ended
  /\ e.at = "waiting" /\ Keeps(c, e) /\ Knew(c, e) /\ channel' = channel

Delivers(c, e, message) ==
  /\ message \in channel.messages /\ channel' = [channel EXCEPT !.messages = @ \ {message}]
  /\ e.at = c.at /\ Keeps(c, e) /\ e.ended = (c.ended \/ message = "end") /\ e.drainsToEnd = c.drainsToEnd /\ e.woken

Moves(c, e) ==
  \/ Subscribes(c, e) \/ Leaves(c, e) \/ Yields(c, e) \/ Reads(c, e) \/ Finishes(c, e) \/ Arms(c, e) \/ Waits(c, e)
  \/ \E message \in {"chunk", "end"} : Delivers(c, e, message)

\* Yielding a row changes what was taken, and whether the end was seen.
LEMMA YieldedAs ==
  ASSUME NEW c \in Client, c.page # <<>>, NEW e, e = Yielded(c)
  PROVE  /\ e.at = c.at /\ e.ended = (c.ended \/ EndRow(Head(c.page)))
         /\ e.drainsToEnd = c.drainsToEnd /\ e.woken = c.woken
<1>1. PICK row : row = Head(c.page)
  OBVIOUS
<1>2. c.ended \in BOOLEAN /\ EndRow(row) \in BOOLEAN
  <2>1. row \in Row
    BY <1>1, ClientFields
  <2> QED BY <2>1 DEF Client, Row, EndRow
<1>3. CASE EndRow(row)
  <2>1. PICK d : d = [c EXCEPT !.ended = TRUE]
    OBVIOUS
  <2>2. e = [d EXCEPT !.page = Tail(d.page), !.cursor = d.cursor + 1, !.cursorGen = row.gen]
    BY <1>1, <1>3, <2>1 DEF Yielded
  <2>3. e.at = c.at /\ e.ended = TRUE /\ e.drainsToEnd = c.drainsToEnd /\ e.woken = c.woken
    BY <2>1, <2>2 DEF Client
  <2> QED BY <1>1, <1>3, <2>3
<1>4. CASE ~EndRow(row)
  <2>1. PICK d : d = Take(c, row)
    OBVIOUS
  <2>2. e = [d EXCEPT !.page = Tail(d.page), !.cursor = d.cursor + 1, !.cursorGen = row.gen]
    BY <1>1, <1>4, <2>1 DEF Yielded
  <2>3. /\ d.at = c.at /\ d.ended = c.ended /\ d.drainsToEnd = c.drainsToEnd /\ d.woken = c.woken
        /\ DOMAIN d = DOMAIN c
    BY <2>1 DEF Take, Client
  <2>4. e.at = c.at /\ e.ended = c.ended /\ e.drainsToEnd = c.drainsToEnd /\ e.woken = c.woken
    BY <2>2, <2>3 DEF Client
  <2>5. (c.ended \/ EndRow(row)) = c.ended
    BY <1>2, <1>4
  <2> QED BY <1>1, <2>4, <2>5
<1> QED BY <1>2, <1>3, <1>4

\* As long as the stream never lapsed, a step of the follower is one of these.
LEMMA ClientMoves ==
  ASSUME SinkInv, ClientTyped, client.at \in {"attaching", "drained", "waiting"} => backend = "redis",
         InStep, gen = 0, ClientStep
  PROVE  Moves(client, client')
<1>1. PICK c \in Client : c = client
  BY DEF ClientTyped
<1>2. PICK e : e = client'
  OBVIOUS
<1>3. c.at # "checking" /\ SameStream /\ c.cursor <= Len(rows) /\ c.cursor \in Nat /\ Len(rows) \in Nat
  <2>1. PICK num, cut : Follows(client, num, cut, rows, landed)
    BY DEF InStep
  <2>2. c.at # "checking" /\ c.cursorGen = 0 /\ c.cursor + Len(c.page) <= Len(rows)
    BY <1>1, <2>1 DEF Follows
  <2>3. c.cursor \in Nat /\ Len(c.page) \in Nat /\ rows \in Seq(Row) /\ Len(rows) \in Nat
    <3>1. c.cursor \in Nat /\ c.page \in Seq(Row) /\ rows \in Seq(Row)
      BY <1>1, ClientFields DEF SinkInv, Typed
    <3> QED BY <3>1
  <2>4. c.cursor <= Len(rows)
    BY <2>2, <2>3
  <2>5. SameStream
    BY <1>1, <2>2, <2>3, <2>4 DEF SameStream, InStep
  <2> QED BY <2>2, <2>3, <2>4, <2>5
<1>4. ASSUME e = Subscribing(c), channel' = IF backend = "redis" THEN [Closed EXCEPT !.open = TRUE] ELSE channel
      PROVE  Subscribes(c, e)
  BY <1>4 DEF Subscribing, Away, Subscribes
<1>5. CASE Attach
  <2>1. e = Subscribing(c) /\ channel' = IF backend = "redis" THEN [Closed EXCEPT !.open = TRUE] ELSE channel
    BY <1>1, <1>2, <1>5 DEF Attach
  <2> QED BY <1>1, <1>2, <1>4, <2>1 DEF Moves
<1>6. CASE Reconnect
  <2>1. \/ e = Subscribing(c) /\ channel' = IF backend = "redis" THEN [Closed EXCEPT !.open = TRUE] ELSE channel
        \/ c.at = "dropped" /\ e = [c EXCEPT !.at = "gone"] /\ channel' = channel
    BY <1>1, <1>2, <1>6 DEF Reconnect
  <2>2. CASE c.at = "dropped" /\ e = [c EXCEPT !.at = "gone"] /\ channel' = channel
    <3>1. Leaves(c, e)
      BY <2>2 DEF Client, Leaves, Keeps, Knew
    <3> QED BY <1>1, <1>2, <3>1 DEF Moves
  <2> QED BY <1>1, <1>2, <1>4, <2>1, <2>2 DEF Moves
<1>7. CASE Drop
  <2>1. e = Dropped(c) /\ channel' = Closed
    BY <1>1, <1>2, <1>7 DEF Drop
  <2>2. Leaves(c, e)
    BY <2>1 DEF Dropped, Away, Leaves
  <2> QED BY <1>1, <1>2, <2>2 DEF Moves
<1>8. CASE Yield
  <2>1. e = Yielded(c) /\ channel' = channel /\ Attached /\ c.page # <<>>
    BY <1>1, <1>2, <1>8 DEF Yield, sinkVars
  <2>2. e.at = c.at /\ e.ended = (c.ended \/ EndRow(Head(c.page))) /\ e.drainsToEnd = c.drainsToEnd /\ e.woken = c.woken
    <3> QED BY <2>1, YieldedAs
  <2>3. Yields(c, e)
    BY <2>1, <2>2 DEF Yields
  <2> QED BY <1>1, <1>2, <2>3 DEF Moves
<1>9. ASSUME NEW at, NEW hi \in Nat, c.cursor <= hi, hi <= Len(rows), backend = "redis" => hi = Len(rows),
             e = [c EXCEPT !.at = at, !.page = After(hi)], c.at = "reading", channel' = channel,
             at = (IF backend = "redis" THEN "drained" ELSE "reading"), backend # "redis" => ~c.ended
      PROVE  Reads(c, e)
  <2>1. PICK page : page = After(hi) /\ page = SubSeq(rows, c.cursor + 1, hi)
    BY <1>1 DEF After
  <2>2. /\ e.at = at /\ e.page = page /\ e.last = c.last /\ e.seen = c.seen /\ e.cursor = c.cursor
        /\ e.position = c.position /\ e.after = c.after /\ e.cursorGen = c.cursorGen /\ Knew(c, e)
    <3>1. e = [c EXCEPT !.at = at, !.page = page]
      BY <1>9, <2>1
    <3> QED BY <3>1 DEF Client, Knew
  <2> QED BY <1>9, <2>1, <2>2 DEF Reads
<1>10. PICK whole \in Nat : whole = Len(rows) /\ c.cursor <= whole /\ whole <= whole
  BY <1>3
<1>11. ASSUME e = Finished(c), c.page = <<>>,
              \/ backend = "redis" /\ c.at = "drained" /\ c.drainsToEnd /\ channel' = Closed
              \/ backend # "redis" /\ (c.ended \/ (marked /\ c.cursor = Len(rows))) /\ channel' = channel
       PROVE  Finishes(c, e)
  <2>1. e.at = "done" /\ Keeps(c, e) /\ Knew(c, e)
    BY <1>11 DEF Finished, Client, Keeps, Knew
  <2> QED BY <1>11, <2>1 DEF Finishes
<1>12. ASSUME NEW page PROVE c.at = "reading" => [c EXCEPT !.page = page] = [c EXCEPT !.at = "reading", !.page = page]
  BY DEF Client
<1>13. CASE FollowMemory
  <2>1. channel' = channel /\ c.at = "reading" /\ c.page = <<>> /\ backend # "redis"
    BY <1>1, <1>13 DEF FollowMemory, sinkVars, Reading
  <2>2. CASE ~c.ended /\ c.cursor < Len(rows) /\ e = [c EXCEPT !.page = After(Len(rows))]
    <3>1. e = [c EXCEPT !.at = "reading", !.page = After(Len(rows))]
      BY <1>12, <2>1, <2>2
    <3>2. Reads(c, e)
      BY <1>9, <1>10, <2>1, <2>2, <3>1
    <3> QED BY <1>1, <1>2, <3>2 DEF Moves
  <2>3. CASE (c.ended \/ (marked /\ c.cursor = Len(rows))) /\ e = Finished(c)
    BY <1>1, <1>2, <1>11, <2>1, <2>3 DEF Moves
  <2> QED BY <1>1, <1>2, <1>13, <2>2, <2>3 DEF FollowMemory
<1>14. CASE FollowLucid
  <2>1. channel' = channel /\ c.at = "reading" /\ c.page = <<>> /\ backend # "redis"
    BY <1>1, <1>14 DEF FollowLucid, sinkVars, Reading
  <2>2. PICK hi \in Nat : /\ hi = IF client.cursor + Page < Len(rows) THEN client.cursor + Page ELSE Len(rows)
                          /\ hi <= Len(rows) /\ c.cursor <= hi
    <3>1. PICK to \in Nat : to = c.cursor + Page /\ c.cursor <= to
      BY <1>3, ReadAssumption
    <3>2. PICK size \in Nat : size = Len(rows) /\ c.cursor <= size
      BY <1>3
    <3>3. PICK hi \in Nat : hi = (IF to < size THEN to ELSE size) /\ hi <= size /\ c.cursor <= hi
      BY <3>1, <3>2
    <3> QED BY <1>1, <3>1, <3>2, <3>3
  <2>3. e = IF c.ended THEN Finished(c) ELSE [c EXCEPT !.page = After(hi)]
    BY <1>1, <1>2, <1>3, <1>14, <2>2 DEF FollowLucid
  <2>4. CASE c.ended
    BY <1>1, <1>2, <1>11, <2>1, <2>3, <2>4 DEF Moves
  <2>5. CASE ~c.ended
    <3>1. e = [c EXCEPT !.at = "reading", !.page = After(hi)]
      BY <1>12, <2>1, <2>3, <2>5
    <3>2. Reads(c, e)
      BY <1>3, <1>9, <2>1, <2>2, <2>5, <3>1
    <3> QED BY <1>1, <1>2, <3>2 DEF Moves
  <2> QED BY <2>4, <2>5
<1>15. CASE DrainRedis
  <2>1. channel' = channel /\ c.at = "reading" /\ backend = "redis" /\ e = [c EXCEPT !.at = "drained", !.page = After(Len(rows))]
    BY <1>1, <1>2, <1>3, <1>15 DEF DrainRedis, sinkVars
  <2>2. Reads(c, e)
    BY <1>9, <1>10, <2>1
  <2> QED BY <1>1, <1>2, <2>2 DEF Moves
<1>16. ASSUME NEW b \in BOOLEAN, b = (c.ended \/ (c.at = "attaching" /\ marked)), e = Armed([c EXCEPT !.ended = b]),
              backend = "redis", c.at \in {"attaching", "drained", "waiting"}, channel' = channel
       PROVE  Arms(c, e)
  <2>1. PICK d : d = [c EXCEPT !.ended = b]
    OBVIOUS
  <2>2. d \in Client /\ Keeps(c, d) /\ d.ended = b
    BY <2>1 DEF Client, Keeps
  <2>3. e = [d EXCEPT !.at = "reading", !.drainsToEnd = b, !.woken = FALSE]
    BY <1>16, <2>1, <2>2 DEF Armed
  <2>4. e.at = "reading" /\ Keeps(d, e) /\ e.ended = b /\ e.drainsToEnd = b /\ ~e.woken
    BY <2>2, <2>3 DEF Client, Keeps
  <2> QED BY <1>16, <2>2, <2>4 DEF Arms, Keeps
<1>17. c.ended \in BOOLEAN /\ [c EXCEPT !.ended = c.ended] = c
  BY DEF Client
<1>18. CASE FollowRedis
  <2>1. PICK b \in BOOLEAN : b = (c.ended \/ marked)
    OBVIOUS
  <2>2. e = Armed([c EXCEPT !.ended = b]) /\ backend = "redis" /\ c.at = "attaching" /\ channel' = channel
    BY <1>1, <1>2, <1>18, <2>1 DEF FollowRedis, sinkVars
  <2>3. Arms(c, e)
    BY <1>16, <2>1, <2>2
  <2> QED BY <1>1, <1>2, <2>3 DEF Moves
<1>19. CASE WakeRedis
  <2>1. e = Armed(c) /\ backend = "redis" /\ c.at = "waiting" /\ channel' = channel
    BY <1>1, <1>2, <1>19 DEF WakeRedis, sinkVars
  <2>2. Arms(c, e)
    BY <1>16, <1>17, <2>1
  <2> QED BY <1>1, <1>2, <2>2 DEF Moves
<1>20. CASE Drained
  <2>1. c.at = "drained" /\ c.page = <<>> /\ backend = "redis"
    BY <1>1, <1>20 DEF Drained
  <2>2. CASE c.drainsToEnd
    <3>1. e = Finished(c) /\ channel' = Closed
      BY <1>1, <1>2, <1>20, <2>2 DEF Drained
    <3> QED BY <1>1, <1>2, <1>11, <2>1, <2>2, <3>1 DEF Moves
  <2>3. CASE ~c.drainsToEnd /\ c.ended
    <3>1. e = Armed(c) /\ channel' = channel
      BY <1>1, <1>2, <1>20, <2>3 DEF Drained
    <3>2. Arms(c, e)
      BY <1>16, <1>17, <2>1, <3>1
    <3> QED BY <1>1, <1>2, <3>2 DEF Moves
  <2>4. CASE ~c.drainsToEnd /\ ~c.ended
    <3>1. e = [c EXCEPT !.at = "waiting"] /\ channel' = channel
      BY <1>1, <1>2, <1>20, <2>4 DEF Drained
    <3>2. e.at = "waiting" /\ Keeps(c, e) /\ Knew(c, e)
      BY <3>1 DEF Client, Keeps, Knew
    <3>3. Waits(c, e)
      BY <2>1, <2>4, <3>1, <3>2 DEF Waits
    <3> QED BY <1>1, <1>2, <3>3 DEF Moves
  <2> QED BY <2>2, <2>3, <2>4
<1>21. CASE RecheckLucid \/ RecheckRedis
  BY <1>1, <1>3, <1>21 DEF RecheckLucid, RecheckRedis
<1>22. ASSUME NEW message \in {"chunk", "end"}, Deliver(message) PROVE Moves(client, client')
  <2>1. PICK b \in BOOLEAN : b = (c.ended \/ message = "end")
    OBVIOUS
  <2>2. /\ e = [c EXCEPT !.ended = b, !.woken = TRUE]
        /\ message \in channel.messages /\ channel' = [channel EXCEPT !.messages = @ \ {message}]
    BY <1>1, <1>2, <1>22, <2>1 DEF Deliver
  <2>3. e.at = c.at /\ Keeps(c, e) /\ e.ended = b /\ e.drainsToEnd = c.drainsToEnd /\ e.woken
    BY <2>2 DEF Client, Keeps
  <2>4. Delivers(c, e, message)
    BY <2>1, <2>2, <2>3 DEF Delivers
  <2> QED BY <1>1, <1>2, <2>4 DEF Moves
<1> QED BY <1>5, <1>6, <1>7, <1>8, <1>13, <1>14, <1>15, <1>18, <1>19, <1>20, <1>21, <1>22 DEF ClientStep

\* The subscription at the broker and the follower's place go together.
Linked ==
  /\ client.at \in {"attaching", "drained", "waiting"} => backend = "redis"
  /\ backend = "redis" /\ Attached => channel.open
  /\ backend # "redis" => ~channel.open /\ channel.messages = {}
  /\ client.at = "waiting" => client.page = <<>>

\* What the follower knows of the end is true, and the end is behind whatever it read since it knew.
Told ==
  gen = 0 =>
    /\ "end" \in channel.messages => HasEnd
    /\ client.ended => HasEnd
    /\ client.drainsToEnd => client.ended
    /\ ~Lost => /\ client.ended /\ backend # "redis" => client.cursor = Len(rows)
                /\ client.at = "done" => HasEnd /\ client.cursor = Len(rows)
                /\ client.at = "drained" /\ client.drainsToEnd => client.cursor + Len(client.page) = Len(rows)

\* A Redis follower that nothing wakes has read everything, and hears of the end.
Wakes ==
  gen = 0 /\ backend = "redis" =>
    /\ client.at \in {"drained", "waiting"} /\ ~client.woken /\ "chunk" \notin channel.messages
         => client.cursor + Len(client.page) = Len(rows)
    /\ marked /\ client.at \in {"reading", "drained", "waiting"}
         => client.ended \/ "end" \in channel.messages \/ Lost \/ Announcing
    /\ client.at = "waiting" /\ client.ended => client.woken

\* The follower's steps keep it in step with the rows.
LEMMA ClientInStep ==
  ASSUME SinkInv, ClientTyped, InStep, gen = 0, Moves(client, client'), UNCHANGED <<rows, landed, gen>>
  PROVE  InStep'
<1>1. PICK num, cut : Layout(num, cut, rows, landed) /\ Follows(client, num, cut, rows, landed)
  BY DEF InStep
<1>2. PICK c \in Client : c = client
  BY DEF ClientTyped
<1>3. PICK e : e = client'
  OBVIOUS
<1>4. PICK rs \in Seq(Row), ls \in Seq(Calls) : rs = rows /\ ls = landed
  BY DEF SinkInv, Typed
<1>5. Moves(c, e) /\ Layout(num, cut, rs, ls) /\ Follows(c, num, cut, rs, ls) /\ \A n \in DOMAIN rs : rs[n].gen = 0
  BY <1>1, <1>2, <1>3, <1>4 DEF InStep
<1>6. c.at # "checking" /\ c.cursorGen = 0
  BY <1>5 DEF Follows
<1>7. Follows(e, num, cut, rs, ls)
  <2>1. CASE Subscribes(c, e)
    <3>1. /\ e.last = c.last /\ e.seen = c.seen /\ e.cursor = 0 /\ e.page = <<>> /\ e.position = 0
          /\ e.after = c.last /\ e.cursorGen = 0 /\ e.at # "checking"
      BY <2>1 DEF Subscribes
    <3> QED BY <1>5, <3>1, FollowsAnew
  <2>2. ASSUME Keeps(c, e), e.at # "checking" PROVE Follows(e, num, cut, rs, ls)
    <3>1. /\ e.last = c.last /\ e.seen = c.seen /\ e.cursor = c.cursor /\ e.page = c.page
          /\ e.position = c.position /\ e.after = c.after /\ e.cursorGen = c.cursorGen
      BY <2>2 DEF Keeps
    <3> QED BY <1>5, <2>2, <3>1, FollowsSame
  <2>3. CASE Leaves(c, e)
    <3>1. CASE c.at = "dropped" /\ e.at = "gone" /\ Keeps(c, e)
      BY <2>2, <3>1
    <3>2. CASE /\ e.at = "dropped" /\ e.page = <<>> /\ e.cursor = 0 /\ e.cursorGen = 0 /\ e.position = 0 /\ e.after = 0
               /\ e.last = c.last /\ e.seen = c.seen
      <4>1. e.at # "checking"
        BY <3>2
      <4> QED BY <1>5, <3>2, <4>1, FollowsAnew
    <3> QED BY <2>3, <3>1, <3>2 DEF Leaves
  <2>4. CASE Yields(c, e)
    <3>1. e = Yielded(c) /\ c.page # <<>>
      BY <2>4 DEF Yields
    <3> QED BY <1>5, <3>1, YieldFollows
  <2>5. CASE Reads(c, e)
    <3>1. PICK hi \in Nat : c.cursor <= hi /\ hi <= Len(rs) /\ e.page = SubSeq(rs, c.cursor + 1, hi)
      BY <1>4, <2>5 DEF Reads
    <3>2. /\ e.last = c.last /\ e.seen = c.seen /\ e.cursor = c.cursor /\ e.position = c.position
          /\ e.after = c.after /\ e.cursorGen = c.cursorGen /\ e.at # "checking"
      BY <2>5 DEF Reads
    <3> QED BY <1>5, <3>1, <3>2, FollowsPage
  <2>6. CASE Finishes(c, e)
    BY <2>2, <2>6 DEF Finishes
  <2>7. CASE Arms(c, e)
    BY <2>2, <2>7 DEF Arms
  <2>8. CASE Waits(c, e)
    BY <2>2, <2>8 DEF Waits
  <2>9. ASSUME NEW message, Delivers(c, e, message) PROVE Follows(e, num, cut, rs, ls)
    BY <1>6, <2>2, <2>9 DEF Delivers
  <2> QED BY <1>5, <2>1, <2>3, <2>4, <2>5, <2>6, <2>7, <2>8, <2>9 DEF Moves
<1>8. rows' = rows /\ landed' = landed /\ gen' = gen
  OBVIOUS
<1> QED BY <1>3, <1>4, <1>5, <1>7, <1>8 DEF InStep

\* A row that lands keeps the follower in step.
LEMMA SinkInStep ==
  ASSUME SinkInv, ClientTyped, InStep, gen = 0, UNCHANGED <<gen, client>>, Unmoved \/ Added
  PROVE  InStep'
<1>1. PICK num, cut : Layout(num, cut, rows, landed) /\ Follows(client, num, cut, rows, landed)
  BY DEF InStep
<1>2. PICK c \in Client : c = client
  BY DEF ClientTyped
<1>3. PICK rs \in Seq(Row), ls \in Seq(Calls) : rs = rows /\ ls = landed
  BY DEF SinkInv, Typed
<1>4. Layout(num, cut, rs, ls) /\ Follows(c, num, cut, rs, ls) /\ \A n \in DOMAIN rs : rs[n].gen = 0
  BY <1>1, <1>2, <1>3 DEF InStep
<1>5. CASE Unmoved
  <2>1. rows' = rs /\ landed' = ls /\ client' = c
    BY <1>2, <1>3, <1>5 DEF Unmoved
  <2> QED BY <1>4, <2>1 DEF InStep
<1>6. CASE Added
  <2>1. PICK items \in Seq(Calls), end \in BOOLEAN : Adds(items, end)
    BY <1>6 DEF Added
  <2>2. PICK row : row = [items |-> items, end |-> end, gen |-> 0]
    OBVIOUS
  <2>3. row \in Row /\ row.items = items /\ row.end = end /\ row.gen = 0
    <3>1. PICK zero \in Nat : zero = 0
      OBVIOUS
    <3>2. row = [items |-> items, end |-> end, gen |-> zero]
      BY <2>2, <3>1
    <3> QED BY <3>1, <3>2 DEF Row
  <2>4. rows' = Append(rs, row) /\ landed' = ls \o items /\ client' = c /\ (row.end => items = <<>>)
    BY <1>2, <1>3, <2>1, <2>2, <2>3 DEF Adds
  <2>5. PICK more, further :
           /\ Layout(more, further, Append(rs, row), ls \o items)
           /\ \A k \in Nat : k <= Len(rs) => more[k] = num[k]
           /\ \A e \in Nat : e <= num[Len(rs)] => further[e] = cut[e]
           /\ num[Len(rs)] <= more[Len(rs) + 1]
    <3>1. Layout(num, cut, rs, ls) /\ row \in Row /\ row.items = items /\ (row.end => items = <<>>)
      BY <1>4, <2>3, <2>4
    <3> QED BY SMTT(60), <3>1, LayoutGrows
  <2>6. Follows(c, more, further, Append(rs, row), ls \o items)
    BY <1>4, <2>3, <2>5, FollowsOn
  <2>7. \A n \in DOMAIN rows' : rows'[n].gen = 0
    <3>1. ASSUME NEW n \in DOMAIN Append(rs, row) PROVE Append(rs, row)[n].gen = 0
      <4>1. n \in DOMAIN rs \/ n = Len(Append(rs, row))
        BY <2>3, Appended
      <4>2. Append(rs, row)[Len(Append(rs, row))] = row /\ \A k \in DOMAIN rs : Append(rs, row)[k] = rs[k]
        BY <2>3, Appended
      <4> QED BY <1>4, <2>3, <4>1, <4>2
    <3> QED BY <2>4, <3>1
  <2> QED BY <2>4, <2>5, <2>6, <2>7 DEF InStep
<1> QED BY <1>5, <1>6

-----------------------------------------------------------------------------
(***************************************************************************)
(* What the follower knows of the end of the stream.                       *)
(***************************************************************************)

\* The rows between two cursors.
LEMMA PageLength ==
  ASSUME NEW rs \in Seq(Row), NEW low \in Nat, NEW hi \in Nat, low <= hi, hi <= Len(rs)
  PROVE  low + Len(SubSeq(rs, low + 1, hi)) = hi
<1>1. PICK from \in Int : from = low + 1 /\ from > 0
  OBVIOUS
<1>2. PICK size \in Nat : size = Len(rs)
  OBVIOUS
<1>3. \A i \in from .. hi : rs[i] \in Row
  <2>1. ASSUME NEW i \in from .. hi PROVE rs[i] \in Row
    <3>1. i \in 1 .. Len(rs)
      BY <1>1, <1>2
    <3> QED BY <3>1
  <2> QED BY <2>1
<1>4. PICK len : len = Len(SubSeq(rs, low + 1, hi))
  OBVIOUS
<1>5. len = IF low + 1 <= hi THEN hi - (low + 1) + 1 ELSE 0
  BY <1>1, <1>3, <1>4, SubSeqProperties
<1>6. PICK n \in Nat : low + n = hi /\ n = IF low + 1 <= hi THEN hi - (low + 1) + 1 ELSE 0
  BY Difference
<1>7. len = n
  BY <1>5, <1>6
<1> QED BY <1>4, <1>6, <1>7

\* What is yielded is the row behind the cursor.
LEMMA YieldedRow ==
  ASSUME NEW rs \in Seq(Row), NEW ls, NEW c \in Client, c.page # <<>>, NEW num, NEW cut, Follows(c, num, cut, rs, ls)
  PROVE  \E next \in DOMAIN rs : next = c.cursor + 1 /\ Head(c.page) = rs[next] /\ Yielded(c).cursor = next
<1>1. PICK cursor \in Nat, much \in Nat, size \in Nat : cursor = c.cursor /\ much = Len(c.page) /\ size = Len(rs)
  <2>1. c.cursor \in Nat /\ c.page \in Seq(Row)
    BY ClientFields
  <2>2. Len(c.page) \in Nat /\ Len(rs) \in Nat
    BY <2>1
  <2> QED BY <2>1, <2>2, Zenon
<1>2. cursor + much <= size /\ c.page = SubSeq(rs, cursor + 1, cursor + much)
  BY <1>1 DEF Follows
<1>3. much > 0
  <2>1. c.page \in Seq(Row)
    BY ClientFields
  <2> QED BY <1>1, <2>1
<1>4. PICK next \in Nat : next = cursor + 1 /\ next \in 1 .. size
  <2>1. cursor + much <= size
    BY <1>2
  <2> QED BY <1>1, <1>3, <2>1
<1>5. PICK end \in Nat : end = cursor + much /\ end \in next .. size
  <2>1. cursor + much <= size
    BY <1>2
  <2> QED BY <1>1, <1>3, <1>4, <2>1
<1>6. Head(c.page) = rs[next]
  <2>1. c.page = SubSeq(rs, next, end)
    BY <1>2, <1>4, <1>5
  <2>2. next \in 1 .. Len(rs) /\ end \in next .. Len(rs)
    BY <1>1, <1>4, <1>5
  <2> QED BY <2>1, <2>2, HeadTailOfSubSeq
<1>7. PICK row : row = Head(c.page)
  OBVIOUS
<1>8. PICK d : d = IF EndRow(row) THEN [c EXCEPT !.ended = TRUE] ELSE Take(c, row)
  OBVIOUS
<1>9. d.cursor = c.cursor /\ "cursor" \in DOMAIN d
  <2>1. CASE EndRow(row)
    BY <1>8, <2>1 DEF Client
  <2>2. CASE ~EndRow(row)
    BY <1>8, <2>2 DEF Client, Take
  <2> QED BY <2>1, <2>2
<1>10. Yielded(c) = [d EXCEPT !.page = Tail(d.page), !.cursor = d.cursor + 1, !.cursorGen = row.gen]
  BY <1>7, <1>8 DEF Yielded
<1>11. Yielded(c).cursor = next
  BY <1>1, <1>4, <1>9, <1>10
<1>12. next \in DOMAIN rs
  BY <1>1, <1>4
<1> QED BY <1>1, <1>4, <1>6, <1>11, <1>12

\* Where the follower stands among the rows.
LEMMA Cursor ==
  ASSUME SinkInv, ClientTyped, InStep, gen = 0
  PROVE  /\ client.cursor \in Nat /\ client.page \in Seq(Row) /\ Len(client.page) \in Nat /\ Len(rows) \in Nat
         /\ client.cursor + Len(client.page) <= Len(rows)
         /\ client.page = <<>> => Len(client.page) = 0
         /\ client.page # <<>> => Len(client.page) > 0
<1>1. PICK num, cut : Follows(client, num, cut, rows, landed)
  BY DEF InStep
<1>2. client \in Client /\ rows \in Seq(Row)
  BY DEF ClientTyped, SinkInv, Typed
<1>3. client.cursor \in Nat /\ client.page \in Seq(Row)
  BY <1>2, ClientFields
<1>4. Len(client.page) \in Nat /\ Len(rows) \in Nat
  BY <1>2, <1>3
<1>5. client.cursor + Len(client.page) <= Len(rows)
  BY <1>1 DEF Follows
<1>6. (client.page = <<>> => Len(client.page) = 0) /\ (client.page # <<>> => Len(client.page) > 0)
  BY <1>3
<1> QED BY <1>3, <1>4, <1>5, <1>6

\* Yielding takes the cursor to the next row, and leaves the end of the page.
LEMMA YieldSteps ==
  ASSUME SinkInv, ClientTyped, InStep, gen = 0, Yields(client, client')
  PROVE  /\ client.cursor < Len(rows) /\ client'.cursor = client.cursor + 1
         /\ Head(client.page) = rows[client.cursor + 1] /\ client.cursor + 1 \in DOMAIN rows
         /\ client'.cursor + Len(client'.page) = client.cursor + Len(client.page)
<1>1. PICK num, cut : Layout(num, cut, rows, landed) /\ Follows(client, num, cut, rows, landed)
  BY DEF InStep
<1>2. client \in Client /\ rows \in Seq(Row) /\ landed \in Seq(Calls)
  BY DEF ClientTyped, SinkInv, Typed
<1>3. client' = Yielded(client) /\ client.page # <<>>
  BY DEF Yields
<1>4. PICK next \in DOMAIN rows : next = client.cursor + 1 /\ Head(client.page) = rows[next] /\ Yielded(client).cursor = next
  BY <1>1, <1>2, <1>3, YieldedRow
<1>5. \A n \in DOMAIN rows : rows[n].gen = 0
  BY DEF InStep
<1>6. Yielded(client).cursor + Len(Yielded(client).page) = client.cursor + Len(client.page)
  BY <1>1, <1>2, <1>3, <1>5, YieldFollows
<1>7. client.cursor < Len(rows)
  <2>1. client.cursor \in Nat /\ Len(rows) \in Nat /\ next \in 1 .. Len(rows)
    BY <1>2, Cursor
  <2> QED BY <1>4, <2>1
<1> QED BY <1>3, <1>4, <1>6, <1>7

\* The follower's steps keep what it knows of the end true.
LEMMA ToldClient ==
  ASSUME SinkInv, ClientTyped, Linked, InStep, Told, gen = 0, Moves(client, client'),
         UNCHANGED <<backend, gather, rows, marked, gen>>
  PROVE  Told'
<1>1. PICK c \in Client : c = client
  BY DEF ClientTyped
<1>2. PICK e : e = client'
  OBVIOUS
<1>3. PICK size \in Nat, cursor \in Nat, much \in Nat : size = Len(rows) /\ cursor = c.cursor /\ much = Len(c.page) /\ cursor + much <= size
  <2>1. c.cursor \in Nat /\ Len(c.page) \in Nat /\ Len(rows) \in Nat /\ c.cursor + Len(c.page) <= Len(rows)
    BY <1>1, Cursor
  <2> QED BY <2>1, Zenon
<1>4. Moves(c, e) /\ (c.page = <<>> => much = 0) /\ (c.page # <<>> => much > 0)
  BY <1>1, <1>2, <1>3, Cursor
<1>5. (Lost' <=> Lost) /\ (HasEnd' <=> HasEnd) /\ rows' = rows /\ backend' = backend
  BY DEF Lost, HasEnd
<1>6. /\ "end" \in channel.messages => HasEnd
      /\ c.ended => HasEnd
      /\ c.drainsToEnd => c.ended
      /\ ~Lost => /\ c.ended /\ backend # "redis" => cursor = size
                  /\ c.at = "done" => HasEnd /\ cursor = size
                  /\ c.at = "drained" /\ c.drainsToEnd => cursor + much = size
  BY <1>1, <1>3 DEF Told
<1>7. channel \in Channel /\ (backend # "redis" => channel.messages = {}) /\ (c.at \in {"attaching", "drained", "waiting"} => backend = "redis")
  BY <1>1 DEF ClientTyped, Linked
<1>8. "end" \in channel'.messages => "end" \in channel.messages
  <2>1. CASE channel' = channel \/ channel' = Closed \/ channel' = [Closed EXCEPT !.open = TRUE]
    BY <2>1 DEF Closed
  <2>2. ASSUME NEW message, Delivers(c, e, message) PROVE "end" \in channel'.messages => "end" \in channel.messages
    BY <1>7, <2>2 DEF Delivers, Channel
  <2> QED BY <1>4, <2>1, <2>2 DEF Moves, Subscribes, Leaves, Yields, Reads, Finishes, Arms, Waits
<1>9. SUFFICES /\ e.ended => HasEnd
               /\ e.drainsToEnd => e.ended
               /\ ~Lost => /\ e.ended /\ backend # "redis" => e.cursor = size
                           /\ e.at = "done" => HasEnd /\ e.cursor = size
                           /\ e.at = "drained" /\ e.drainsToEnd => e.cursor + Len(e.page) = size
  BY <1>2, <1>3, <1>5, <1>6, <1>8 DEF Told
<1>10. CASE Subscribes(c, e) \/ Leaves(c, e)
  <2>1. CASE c.at = "dropped" /\ e.at = "gone" /\ Keeps(c, e) /\ Knew(c, e)
    BY <1>3, <1>6, <2>1 DEF Keeps, Knew
  <2>2. CASE ~e.ended /\ ~e.drainsToEnd /\ e.at # "done"
    BY <2>2
  <2> QED BY <1>10, <2>1, <2>2 DEF Subscribes, Leaves
<1>11. CASE Yields(c, e)
  <2>1. /\ cursor < size /\ e.cursor = cursor + 1 /\ Head(c.page) = rows[cursor + 1] /\ cursor + 1 \in DOMAIN rows
        /\ e.cursor + Len(e.page) = cursor + much
    BY <1>1, <1>2, <1>3, <1>11, YieldSteps
  <2>2. /\ e.at = c.at /\ e.ended = (c.ended \/ EndRow(Head(c.page))) /\ e.drainsToEnd = c.drainsToEnd
        /\ c.at \in {"attaching", "reading", "checking", "drained", "waiting"}
    BY <1>1, <1>11 DEF Yields, Attached
  <2>3. EndRow(Head(c.page)) => HasEnd
    BY <2>1 DEF HasEnd
  <2>4. e.ended => HasEnd
    BY <1>6, <2>2, <2>3
  <2>5. e.drainsToEnd => e.ended
    BY <1>6, <2>2
  <2>6. ASSUME ~Lost, e.ended, backend # "redis" PROVE e.cursor = size
    <3>1. ~c.ended
      BY <1>3, <1>6, <2>1, <2>6
    <3>2. EndRow(rows[cursor + 1]) /\ HasEnd
      BY <2>1, <2>2, <2>3, <2>6, <3>1
    <3>3. cursor + 1 = Len(rows)
      BY <2>1, <2>6, <3>2, SealedFacts
    <3> QED BY <1>3, <2>1, <3>3
  <2>7. e.at = "drained" /\ e.drainsToEnd => c.at = "drained" /\ c.drainsToEnd
    BY <2>2
  <2>8. e.at # "done"
    BY <2>2
  <2> QED BY <1>6, <2>1, <2>4, <2>5, <2>6, <2>7, <2>8
<1>12. CASE Reads(c, e)
  <2>1. /\ e.ended = c.ended /\ e.drainsToEnd = c.drainsToEnd /\ e.cursor = cursor /\ e.at \in {"drained", "reading"}
        /\ (e.at = "drained" => backend = "redis") /\ (backend # "redis" => ~c.ended)
    BY <1>3, <1>12 DEF Reads, Knew
  <2>2. e.at = "drained" => e.cursor + Len(e.page) = size
    <3>1. PICK hi \in Nat : cursor <= hi /\ hi <= Len(rows) /\ e.page = SubSeq(rows, cursor + 1, hi) /\ (backend = "redis" => hi = Len(rows))
      BY <1>3, <1>12 DEF Reads
    <3>2. cursor + Len(e.page) = hi
      BY <1>3, <3>1, PageLength DEF SinkInv, Typed
    <3> QED BY <1>3, <2>1, <3>1, <3>2
  <2> QED BY <1>6, <2>1, <2>2
<1>13. CASE Finishes(c, e)
  <2>1. e.at = "done" /\ e.cursor = cursor /\ e.ended = c.ended /\ e.drainsToEnd = c.drainsToEnd /\ much = 0
    BY <1>3, <1>4, <1>13 DEF Finishes, Keeps, Knew
  <2>2. \/ c.at = "drained" /\ c.drainsToEnd
        \/ backend # "redis" /\ (c.ended \/ (marked /\ cursor = size))
    BY <1>3, <1>13 DEF Finishes
  <2>3. HasEnd
    BY <1>6, <2>2 DEF HasEnd
  <2>4. ~Lost => cursor = size
    BY <1>3, <1>6, <2>1, <2>2
  <2> QED BY <1>6, <2>1, <2>3, <2>4
<1>14. CASE Arms(c, e)
  <2>1. /\ e.ended = (c.ended \/ (c.at = "attaching" /\ marked)) /\ e.drainsToEnd = e.ended /\ e.at = "reading"
        /\ backend = "redis"
    BY <1>14 DEF Arms
  <2>2. e.ended => HasEnd
    BY <1>6, <2>1 DEF HasEnd
  <2> QED BY <2>1, <2>2
<1>15. CASE Waits(c, e)
  BY <1>6, <1>15 DEF Waits, Knew
<1>16. ASSUME NEW message, Delivers(c, e, message)
       PROVE  /\ e.ended => HasEnd
              /\ e.drainsToEnd => e.ended
              /\ ~Lost => /\ e.ended /\ backend # "redis" => e.cursor = size
                          /\ e.at = "done" => HasEnd /\ e.cursor = size
                          /\ e.at = "drained" /\ e.drainsToEnd => e.cursor + Len(e.page) = size
  <2>1. /\ e.at = c.at /\ e.cursor = cursor /\ Len(e.page) = much /\ e.ended = (c.ended \/ message = "end")
        /\ e.drainsToEnd = c.drainsToEnd /\ message \in channel.messages
    BY <1>3, <1>16 DEF Delivers, Keeps
  <2>2. backend = "redis"
    BY <1>7, <2>1
  <2> QED BY <1>6, <2>1, <2>2
<1> QED BY <1>4, <1>10, <1>11, <1>12, <1>13, <1>14, <1>15, <1>16 DEF Moves

-----------------------------------------------------------------------------
(***************************************************************************)
(* What wakes a Redis follower that waits.                                 *)
(***************************************************************************)

\* A published message goes to whoever subscribed.
LEMMA Published ==
  ASSUME channel \in Channel, NEW message \in {"chunk", "end"}, Publish(message)
  PROVE  /\ channel' \in Channel /\ channel'.open = channel.open /\ channel.messages \subseteq channel'.messages
         /\ channel.open => channel'.messages = channel.messages \cup {message}
         /\ ~channel.open => channel' = channel
<1>1. CASE channel.open
  <2>1. channel' = [channel EXCEPT !.messages = channel.messages \cup {message}]
    BY <1>1 DEF Publish
  <2>2. PICK messages \in SUBSET {"chunk", "end"} : messages = channel.messages \cup {message}
    BY DEF Channel
  <2>3. channel' = [channel EXCEPT !.messages = messages]
    BY <2>1, <2>2
  <2> QED BY <1>1, <2>2, <2>3 DEF Channel
<1>2. CASE ~channel.open
  BY <1>2 DEF Publish
<1> QED BY <1>1, <1>2

\* What a sink step does to the subscription: nothing, or a message is published.
LEMMA SinkChannel ==
  ASSUME channel \in Channel, Unmoved \/ Added \/ channel' = channel
  PROVE  /\ channel' \in Channel /\ channel'.open = channel.open /\ channel.messages \subseteq channel'.messages
         /\ backend # "redis" => channel' = channel
<1>1. CASE channel' = channel
  BY <1>1
<1>2. CASE Unmoved /\ channel' # channel
  <2>1. Publish("end") /\ backend = "redis"
    BY <1>2 DEF Unmoved
  <2> QED BY <2>1, Published
<1>3. CASE Added /\ channel' # channel
  <2>1. Publish("chunk") /\ backend = "redis"
    BY <1>3 DEF Added, Adds
  <2> QED BY <2>1, Published
<1> QED BY <1>1, <1>2, <1>3

\* Rows that land, and the end, keep what the follower knows of the end true.
LEMMA ToldSink ==
  ASSUME SinkInv, ClientTyped, Linked, InStep, Told, gen = 0, UNCHANGED <<gen, client, backend>>, Lost => Lost',
         Unmoved \/ Added
  PROVE  Told'
<1>1. PICK c \in Client : c = client
  BY DEF ClientTyped
<1>2. /\ "end" \in channel.messages => HasEnd
      /\ c.ended => HasEnd
      /\ c.drainsToEnd => c.ended
      /\ ~Lost => /\ c.ended /\ backend # "redis" => c.cursor = Len(rows)
                  /\ c.at = "done" => HasEnd /\ c.cursor = Len(rows)
                  /\ c.at = "drained" /\ c.drainsToEnd => c.cursor + Len(c.page) = Len(rows)
  BY <1>1 DEF Told
<1>3. CASE Unmoved
  <2>1. HasEnd => HasEnd'
    BY <1>3 DEF Unmoved, HasEnd, EndRow
  <2>2. "end" \in channel'.messages => HasEnd'
    <3>1. CASE channel' = channel
      BY <1>2, <2>1, <3>1
    <3>2. CASE channel' # channel
      BY <1>3, <3>2 DEF Unmoved, HasEnd
    <3> QED BY <3>1, <3>2
  <2>3. rows' = rows /\ client' = c /\ backend' = backend
    BY <1>1, <1>3 DEF Unmoved
  <2> QED BY <1>2, <2>1, <2>2, <2>3 DEF Told
<1>4. CASE Added
  <2>1. PICK items \in Seq(Calls), end \in BOOLEAN : Adds(items, end)
    BY <1>4 DEF Added
  <2>2. ~Lost' => ~Lost /\ ~HasEnd
    BY <2>1 DEF Adds
  <2>3. HasEnd => HasEnd'
    <3>1. PICK rs \in Seq(Row) : rs = rows
      BY DEF SinkInv, Typed
    <3>2. PICK row : row = [items |-> items, end |-> end, gen |-> gen]
      OBVIOUS
    <3>3. row \in Row
      BY <3>2 DEF Row, SinkInv, Typed
    <3>4. PICK new : new = Append(rs, row)
      OBVIOUS
    <3>5. rows' = new /\ marked' = marked
      BY <2>1, <3>1, <3>2, <3>4 DEF Adds
    <3>6. \A k \in DOMAIN rs : k \in DOMAIN new /\ new[k] = rs[k]
      BY <3>3, <3>4, Appended
    <3> QED BY <3>1, <3>5, <3>6 DEF HasEnd, EndRow
  <2>4. "end" \in channel'.messages => HasEnd'
    <3>1. channel' = channel \/ Publish("chunk")
      BY <2>1 DEF Adds
    <3>2. "end" \in channel'.messages => "end" \in channel.messages
      BY <3>1, Published DEF ClientTyped
    <3> QED BY <1>2, <2>3, <3>2
  <2>5. client' = c /\ backend' = backend
    BY <1>1
  <2> QED BY <1>2, <2>2, <2>3, <2>4, <2>5 DEF Told
<1> QED BY <1>3, <1>4

\* The follower checks for what it missed before it waits.
LEMMA WakesClient ==
  ASSUME SinkInv, ClientTyped, Linked, InStep, Wakes, gen = 0, Moves(client, client'),
         UNCHANGED <<backend, gather, rows, marked, gen>>
  PROVE  Wakes'
<1> SUFFICES ASSUME backend = "redis" PROVE Wakes'
  BY DEF Wakes
<1>1. PICK c \in Client : c = client
  BY DEF ClientTyped
<1>2. PICK e : e = client'
  OBVIOUS
<1>3. Moves(c, e) /\ channel \in Channel
  BY <1>1, <1>2 DEF ClientTyped
<1>4. (Lost' <=> Lost) /\ (Announcing' <=> Announcing) /\ rows' = rows
  BY DEF Lost, Announcing
<1>5. /\ c.at \in {"drained", "waiting"} /\ ~c.woken /\ "chunk" \notin channel.messages => c.cursor + Len(c.page) = Len(rows)
      /\ marked /\ c.at \in {"reading", "drained", "waiting"}
           => c.ended \/ "end" \in channel.messages \/ Lost \/ Announcing
      /\ c.at = "waiting" /\ c.ended => c.woken
  BY <1>1 DEF Wakes
<1>6. SUFFICES /\ e.at \in {"drained", "waiting"} /\ ~e.woken /\ "chunk" \notin channel'.messages => e.cursor + Len(e.page) = Len(rows)
               /\ marked /\ e.at \in {"reading", "drained", "waiting"}
                    => e.ended \/ "end" \in channel'.messages \/ Lost \/ Announcing
               /\ e.at = "waiting" /\ e.ended => e.woken
  BY <1>2, <1>4 DEF Wakes
<1>7. CASE Subscribes(c, e) \/ Leaves(c, e) \/ Finishes(c, e)
  BY <1>7 DEF Subscribes, Leaves, Finishes
<1>8. CASE Yields(c, e)
  <2>1. /\ e.at = c.at /\ e.woken = c.woken /\ e.ended = (c.ended \/ EndRow(Head(c.page))) /\ channel' = channel
        /\ e.cursor + Len(e.page) = c.cursor + Len(c.page)
    BY <1>1, <1>2, <1>8, YieldSteps DEF Yields
  <2>2. ~EndRow(Head(c.page)) \/ c.at # "waiting"
    BY <1>1, <1>8 DEF Yields, Linked
  <2> QED BY <1>5, <2>1, <2>2
<1>9. CASE Reads(c, e)
  <2>1. c.at = "reading" /\ e.ended = c.ended /\ e.at = "drained" /\ channel' = channel /\ e.cursor = c.cursor
    BY <1>9 DEF Reads, Knew
  <2>2. e.cursor + Len(e.page) = Len(rows)
    <3>1. PICK hi \in Nat : c.cursor <= hi /\ hi = Len(rows) /\ e.page = SubSeq(rows, c.cursor + 1, hi)
      BY <1>9 DEF Reads
    <3>2. c.cursor \in Nat /\ rows \in Seq(Row) /\ hi <= Len(rows)
      BY <1>1, <3>1, Cursor DEF SinkInv, Typed
    <3>3. c.cursor + Len(e.page) = hi
      BY <3>1, <3>2, PageLength
    <3> QED BY <2>1, <3>1, <3>3
  <2> QED BY <1>5, <2>1, <2>2
<1>10. CASE Arms(c, e)
  <2>1. /\ e.at = "reading" /\ e.ended = (c.ended \/ (c.at = "attaching" /\ marked)) /\ channel' = channel
        /\ c.at \in {"attaching", "drained", "waiting"}
    BY <1>10 DEF Arms
  <2> QED BY <1>5, <2>1
<1>11. CASE Waits(c, e)
  <2>1. /\ e.at = "waiting" /\ c.at = "drained" /\ e.ended = c.ended /\ ~c.ended /\ e.woken = c.woken /\ channel' = channel
        /\ e.cursor = c.cursor /\ e.page = c.page
    BY <1>11 DEF Waits, Keeps, Knew
  <2> QED BY <1>5, <2>1
<1>12. ASSUME NEW message \in {"chunk", "end"}, Delivers(c, e, message)
       PROVE  /\ e.at \in {"drained", "waiting"} /\ ~e.woken /\ "chunk" \notin channel'.messages => e.cursor + Len(e.page) = Len(rows)
              /\ marked /\ e.at \in {"reading", "drained", "waiting"}
                   => e.ended \/ "end" \in channel'.messages \/ Lost \/ Announcing
              /\ e.at = "waiting" /\ e.ended => e.woken
  <2>1. e.at = c.at /\ e.woken /\ e.ended = (c.ended \/ message = "end")
    BY <1>12 DEF Delivers
  <2>2. channel'.messages = channel.messages \ {message}
    BY <1>3, <1>12 DEF Delivers, Channel
  <2> QED BY <1>5, <2>1, <2>2
<1> QED BY <1>3, <1>7, <1>8, <1>9, <1>10, <1>11, <1>12 DEF Moves

\* A row or an end that lands behind a follower's back wakes it.
LEMMA WakesSink ==
  ASSUME SinkInv, ClientTyped, Linked, InStep, Wakes, gen = 0, UNCHANGED <<gen, client, backend>>, Lost => Lost',
         Unmoved \/ Added
  PROVE  Wakes'
<1> SUFFICES ASSUME backend = "redis" PROVE Wakes'
  BY DEF Wakes
<1>1. PICK c \in Client : c = client
  BY DEF ClientTyped
<1>2. /\ c.at \in {"drained", "waiting"} /\ ~c.woken /\ "chunk" \notin channel.messages => c.cursor + Len(c.page) = Len(rows)
      /\ marked /\ c.at \in {"reading", "drained", "waiting"}
           => c.ended \/ "end" \in channel.messages \/ Lost \/ Announcing
      /\ c.at = "waiting" /\ c.ended => c.woken
      /\ c.at \in {"reading", "drained", "waiting"} => channel.open
  BY <1>1 DEF Wakes, Linked, Attached
<1>3. client' = c /\ channel \in Channel
  BY <1>1 DEF ClientTyped
<1>4. CASE Unmoved
  <2>1. CASE ~Publish("end")
    <3>1. /\ channel' = channel
          /\ Announcing => Announcing' \/ Lost'
          /\ marked' => marked \/ Announcing'
          /\ rows' = rows
      BY <1>4, <2>1 DEF Unmoved
    <3> QED BY <1>2, <1>3, <3>1 DEF Wakes
  <2>2. CASE Publish("end")
    <3>1. Publish("end") /\ rows' = rows
      BY <1>4, <2>2 DEF Unmoved
    <3>2. channel.messages \subseteq channel'.messages /\ (channel.open => "end" \in channel'.messages)
      BY <1>3, <3>1, Published
    <3> QED BY <1>2, <1>3, <3>1, <3>2 DEF Wakes
  <2> QED BY <2>1, <2>2
<1>5. CASE Added
  <2>1. marked' = marked /\ (Announcing => Announcing' \/ Lost') /\ Publish("chunk")
    BY <1>5 DEF Added, Adds
  <2>2. channel.messages \subseteq channel'.messages /\ (channel.open => "chunk" \in channel'.messages)
    BY <1>3, <2>1, Published
  <2> QED BY <1>2, <1>3, <2>1, <2>2 DEF Wakes
<1> QED BY <1>4, <1>5

\* The subscription at the broker and the follower's place go together.
LEMMA LinkedClient ==
  ASSUME SinkInv, ClientTyped, Linked, ClientStep
  PROVE  Linked'
<1>1. PICK c \in Client : c = client
  BY DEF ClientTyped
<1>2. PICK e : e = client'
  OBVIOUS
<1>3. backend' = backend /\ channel \in Channel
  BY ClientFacts DEF ClientTyped
<1>4. /\ c.at \in {"attaching", "drained", "waiting"} => backend = "redis"
      /\ backend = "redis" /\ c.at \in {"attaching", "reading", "checking", "drained", "waiting"} => channel.open
      /\ backend # "redis" => ~channel.open /\ channel.messages = {}
      /\ c.at = "waiting" => c.page = <<>>
  BY <1>1 DEF Linked, Attached
<1>5. SUFFICES /\ e.at \in {"attaching", "drained", "waiting"} => backend = "redis"
               /\ backend = "redis" /\ e.at \in {"attaching", "reading", "checking", "drained", "waiting"} => channel'.open
               /\ backend # "redis" => ~channel'.open /\ channel'.messages = {}
               /\ e.at = "waiting" => e.page = <<>>
  BY <1>2, <1>3 DEF Linked, Attached
<1>6. ~Closed.open /\ Closed.messages = {} /\ [Closed EXCEPT !.open = TRUE].open
  BY DEF Closed
<1>7. ASSUME e.at = (IF backend = "redis" THEN "attaching" ELSE "reading"),
             channel' = IF backend = "redis" THEN [Closed EXCEPT !.open = TRUE] ELSE channel
      PROVE  Linked'
  BY <1>2, <1>3, <1>4, <1>6, <1>7 DEF Linked, Attached
<1>8. Subscribing(c).at = IF backend = "redis" THEN "attaching" ELSE "reading"
  BY DEF Subscribing, Away
<1>9. CASE Attach \/ Reconnect
  <2>1. \/ e = Subscribing(c) /\ channel' = IF backend = "redis" THEN [Closed EXCEPT !.open = TRUE] ELSE channel
        \/ e = [c EXCEPT !.at = "gone"] /\ channel' = channel
    BY <1>1, <1>2, <1>9 DEF Attach, Reconnect
  <2>2. [c EXCEPT !.at = "gone"].at = "gone"
    BY DEF Client
  <2> QED BY <1>2, <1>3, <1>4, <1>7, <1>8, <2>1, <2>2 DEF Linked, Attached
<1>10. CASE Drop
  <2>1. e.at = "dropped" /\ channel' = Closed
    BY <1>2, <1>10 DEF Drop, Dropped, Away
  <2> QED BY <1>6, <2>1
<1>11. CASE Yield
  <2>1. e = Yielded(c) /\ c.page # <<>> /\ channel' = channel
    BY <1>1, <1>2, <1>11 DEF Yield, sinkVars
  <2>2. e.at = c.at
    BY <2>1, YieldedAs
  <2> QED BY <1>4, <2>1, <2>2
<1>12. CASE FollowMemory \/ FollowLucid
  <2>1. channel' = channel /\ backend # "redis" /\ e.at \in {"reading", "checking", "done"}
    <3>1. channel' = channel /\ backend # "redis" /\ c.at = "reading"
      BY <1>1, <1>12 DEF FollowMemory, FollowLucid, sinkVars, Reading
    <3>2. (\E page : e = [c EXCEPT !.page = page]) \/ e = [c EXCEPT !.at = "checking"] \/ e = [c EXCEPT !.at = "done"]
      BY <1>1, <1>2, <1>12 DEF FollowMemory, FollowLucid, Finished
    <3> QED BY <3>1, <3>2 DEF Client
  <2> QED BY <1>4, <2>1
<1>13. CASE RecheckLucid
  <2>1. channel' = channel /\ backend # "redis" /\ (e = [c EXCEPT !.at = "done"] \/ e = [c EXCEPT !.cursor = 0, !.at = "reading"])
    BY <1>1, <1>2, <1>13 DEF RecheckLucid, Finished, StartsOver, sinkVars
  <2>2. e.at \in {"reading", "done"}
    BY <2>1 DEF Client
  <2> QED BY <1>4, <2>1, <2>2
<1>14. ASSUME NEW d, e = Armed(d), DOMAIN d = DOMAIN c, backend = "redis", channel.open, channel' = channel PROVE Linked'
  <2>1. e.at = "reading"
    BY <1>14 DEF Armed, Client
  <2> QED BY <1>2, <1>3, <1>14, <2>1 DEF Linked, Attached
<1>15. CASE FollowRedis
  <2>1. PICK d : d = [c EXCEPT !.ended = @ \/ marked]
    OBVIOUS
  <2>2. e = Armed(d) /\ backend = "redis" /\ c.at = "attaching" /\ channel' = channel
    BY <1>1, <1>2, <1>15, <2>1 DEF FollowRedis, sinkVars
  <2> QED BY <1>4, <1>14, <2>1, <2>2, <1>2, <1>3 DEF Linked, Attached
<1>16. CASE DrainRedis
  <2>1. /\ backend = "redis" /\ c.at = "reading" /\ channel' = channel
        /\ (\E page : e = [c EXCEPT !.at = "drained", !.page = page]) \/ e = [c EXCEPT !.at = "checking"]
    BY <1>1, <1>2, <1>16 DEF DrainRedis, sinkVars
  <2>2. e.at \in {"drained", "checking"}
    BY <2>1 DEF Client
  <2> QED BY <1>4, <2>1, <2>2
<1>17. CASE Drained
  <2>1. /\ backend = "redis" /\ c.at = "drained" /\ c.page = <<>>
        /\ \/ e = [c EXCEPT !.at = "done"] /\ channel' = Closed
           \/ e = Armed(c) /\ channel' = channel
           \/ e = [c EXCEPT !.at = "waiting"] /\ channel' = channel
    BY <1>1, <1>2, <1>4, <1>17 DEF Drained, Finished
  <2>2. CASE e = [c EXCEPT !.at = "done"] /\ channel' = Closed
    BY <1>6, <2>1, <2>2 DEF Client
  <2>3. CASE e = Armed(c) /\ channel' = channel
    BY <1>2, <1>3, <1>4, <1>14, <2>1, <2>3 DEF Linked, Attached
  <2>4. CASE e = [c EXCEPT !.at = "waiting"] /\ channel' = channel
    <3>1. e.at = "waiting" /\ e.page = <<>>
      BY <2>1, <2>4 DEF Client
    <3> QED BY <1>4, <2>1, <2>4, <3>1
  <2> QED BY <2>1, <2>2, <2>3, <2>4
<1>18. CASE RecheckRedis
  <2>1. /\ backend = "redis" /\ c.at = "checking"
        /\ \/ e = [c EXCEPT !.at = "done"] /\ channel' = Closed
           \/ e = Armed([c EXCEPT !.cursor = 0, !.at = "reading"]) /\ channel' = channel
    BY <1>1, <1>2, <1>18 DEF RecheckRedis, Finished, StartsOver
  <2>2. CASE e = [c EXCEPT !.at = "done"] /\ channel' = Closed
    BY <1>6, <2>1, <2>2 DEF Client
  <2>3. CASE e = Armed([c EXCEPT !.cursor = 0, !.at = "reading"]) /\ channel' = channel
    <3>1. PICK d : d = [c EXCEPT !.cursor = 0, !.at = "reading"]
      OBVIOUS
    <3> QED BY <1>2, <1>3, <1>4, <1>14, <2>1, <2>3, <3>1 DEF Linked, Attached
  <2> QED BY <2>1, <2>2, <2>3
<1>19. CASE WakeRedis
  <2>1. e = Armed(c) /\ backend = "redis" /\ c.at = "waiting" /\ channel' = channel
    BY <1>1, <1>2, <1>19 DEF WakeRedis, sinkVars
  <2> QED BY <1>2, <1>3, <1>4, <1>14, <2>1 DEF Linked, Attached
<1>20. ASSUME NEW message \in {"chunk", "end"}, Deliver(message)
       PROVE  /\ e.at \in {"attaching", "drained", "waiting"} => backend = "redis"
              /\ backend = "redis" /\ e.at \in {"attaching", "reading", "checking", "drained", "waiting"} => channel'.open
              /\ backend # "redis" => ~channel'.open /\ channel'.messages = {}
              /\ e.at = "waiting" => e.page = <<>>
  <2>1. PICK b : b = (c.ended \/ message = "end")
    OBVIOUS
  <2>2. /\ e = [c EXCEPT !.ended = b, !.woken = TRUE] /\ message \in channel.messages
        /\ channel' = [channel EXCEPT !.messages = @ \ {message}]
    BY <1>1, <1>2, <1>20, <2>1 DEF Deliver
  <2>3. e.at = c.at /\ e.page = c.page
    BY <2>2 DEF Client
  <2>4. channel'.open = channel.open
    BY <1>3, <2>2 DEF Channel
  <2> QED BY <1>4, <2>2, <2>3, <2>4
<1>21. Linked' => /\ e.at \in {"attaching", "drained", "waiting"} => backend = "redis"
                  /\ backend = "redis" /\ e.at \in {"attaching", "reading", "checking", "drained", "waiting"} => channel'.open
                  /\ backend # "redis" => ~channel'.open /\ channel'.messages = {}
                  /\ e.at = "waiting" => e.page = <<>>
  BY <1>2, <1>3 DEF Linked, Attached
<1> QED BY <1>9, <1>10, <1>11, <1>12, <1>13, <1>15, <1>16, <1>17, <1>18, <1>19, <1>20, <1>21 DEF ClientStep

-----------------------------------------------------------------------------
(***************************************************************************)
(* The invariant of the follower, and what follows from it.                *)
(***************************************************************************)

\* A cut from the start is a prefix.
LEMMA PrefixIs ==
  ASSUME NEW S, NEW s \in Seq(S), NEW n \in Nat, n <= Len(s), NEW t, t = SubSeq(s, 1, n)
  PROVE  IsPrefix(t, s)
<1>1. \A i \in 1 .. n : s[i] \in S
  OBVIOUS
<1>2. t \in Seq(S) /\ Len(t) = n
  <2>1. PICK len : len = Len(SubSeq(s, 1, n))
    OBVIOUS
  <2>2. SubSeq(s, 1, n) \in Seq(S) /\ len = IF 1 <= n THEN n - 1 + 1 ELSE 0
    BY <1>1, <2>1, SubSeqProperties
  <2>3. len = n
    BY <2>2
  <2> QED BY <2>1, <2>2, <2>3
<1>3. SubSeq(t, 1, n) = t
  BY <1>2, SubSeqFull
<1> QED BY <1>2, <1>3 DEF IsPrefix

\* The steps that are not the follower's.
SinkMove == Loop \/ Expire \/ DropBuffer \/ \E p \in Procs : DrainQueue(p) \/ Crash(p)

\* No step but the follower's moves it, except that its process dies or its stream lapses.
LEMMA LinkedSink ==
  ASSUME SinkInv, Purges, ClientTyped, Linked, SinkMove,
         UNCHANGED client \/ DropBuffer \/ \E p \in Procs : Crash(p)
  PROVE  ClientTyped' /\ Linked' /\ (client' = client \/ gen' = gen + 1)
<1>1. PICK c \in Client : c = client
  BY DEF ClientTyped
<1>2. PICK e : e = client'
  OBVIOUS
<1>3. backend' = backend /\ (Unmoved \/ Added \/ channel' = channel)
  BY SinkEffects DEF SinkMove
<1>4. /\ channel' \in Channel /\ channel'.open = channel.open /\ channel.messages \subseteq channel'.messages
      /\ backend # "redis" => channel' = channel
  BY <1>3, SinkChannel DEF ClientTyped
<1>5. /\ c.at \in {"attaching", "drained", "waiting"} => backend = "redis"
      /\ backend = "redis" /\ c.at \in {"attaching", "reading", "checking", "drained", "waiting"} => channel.open
      /\ backend # "redis" => ~channel.open /\ channel.messages = {}
      /\ c.at = "waiting" => c.page = <<>>
  BY <1>1 DEF Linked, Attached
<1>6. ASSUME e = c PROVE ClientTyped' /\ Linked' /\ (client' = client \/ gen' = gen + 1)
  <2>1. client' = c
    BY <1>2, <1>6
  <2> QED BY <1>1, <1>3, <1>4, <1>5, <2>1 DEF ClientTyped, Linked, Attached
<1>7. CASE DropBuffer
  <2>1. /\ backend = "memory" /\ gen' = gen + 1
        /\ e = IF c.at = "reading" /\ ~c.ended THEN [c EXCEPT !.page = After(Len(rows)), !.ended = TRUE] ELSE c
    BY <1>1, <1>2, <1>7 DEF DropBuffer, Forget, Holds
  <2>2. PICK page \in Seq(Row) : page = After(Len(rows))
    <3>1. Len(rows) \in Nat /\ Len(rows) <= Len(rows)
      BY DEF SinkInv, Typed
    <3>2. After(Len(rows)) \in Seq(Row)
      BY <1>1, <3>1, AfterIs DEF SinkInv
    <3> QED BY <3>2, Zenon
  <2>3. CASE c.at = "reading" /\ ~c.ended
    <3>1. e = [c EXCEPT !.page = page, !.ended = TRUE]
      BY <2>1, <2>2, <2>3
    <3>2. e \in Client /\ e.at = "reading"
      BY <2>3, <3>1 DEF Client
    <3> QED BY <1>2, <1>3, <1>4, <1>5, <2>1, <3>2 DEF ClientTyped, Linked, Attached
  <2>4. CASE ~(c.at = "reading" /\ ~c.ended)
    BY <1>6, <2>1, <2>4
  <2> QED BY <2>3, <2>4
<1>8. ASSUME NEW p \in Procs, Crash(p) PROVE ClientTyped' /\ Linked' /\ (client' = client \/ gen' = gen + 1)
  <2>1. CASE e = c
    BY <1>6, <2>1
  <2>2. CASE e # c
    <3>1. backend = "memory" /\ gen' = gen + 1 /\ e = Dropped(c)
      BY <1>1, <1>2, <1>8, <2>2 DEF Crash, Forget
    <3>2. e \in Client
      BY <1>1, <3>1, DroppedIs
    <3>3. e.at = "dropped"
      BY <3>1 DEF Dropped, Away
    <3> QED BY <1>2, <1>3, <1>4, <1>5, <3>1, <3>2, <3>3 DEF ClientTyped, Linked, Attached
  <2> QED BY <2>1, <2>2
<1>9. CASE UNCHANGED client
  BY <1>1, <1>2, <1>6, <1>9
<1> QED BY <1>7, <1>8, <1>9

\* The inductive invariant of the follower, next to the sink's.
ClientInv == ClientTyped /\ Linked /\ InStep /\ Told /\ Wakes

\* Nobody has subscribed.
LEMMA ClientInit == Init => ClientInv
<1> SUFFICES ASSUME Init PROVE ClientInv
  OBVIOUS
<1>1. client = Away /\ channel = Closed /\ rows = <<>> /\ landed = <<>> /\ gen = 0 /\ ~marked
  BY DEF Init
<1>2. /\ client = [at |-> "away", page |-> <<>>, cursor |-> 0, cursorGen |-> 0, ended |-> FALSE, drainsToEnd |-> FALSE,
                   woken |-> FALSE, position |-> 0, after |-> 0, last |-> 0, seen |-> <<>>]
      /\ channel.messages = {} /\ ~channel.open
  BY <1>1 DEF Away, Closed
<1>3. ClientTyped
  <2>1. PICK page \in Seq(Row) : page = <<>>
    <3>1. <<>> \in Seq(Row)
      OBVIOUS
    <3> QED BY <3>1, Zenon
  <2>2. PICK seen \in Seq(Calls) : seen = <<>>
    <3>1. <<>> \in Seq(Calls)
      OBVIOUS
    <3> QED BY <3>1, Zenon
  <2>3. PICK zero \in Nat : zero = 0
    OBVIOUS
  <2>4. PICK no \in BOOLEAN : no = FALSE
    OBVIOUS
  <2>5. client = [at |-> "away", page |-> page, cursor |-> zero, cursorGen |-> zero, ended |-> no, drainsToEnd |-> no,
                  woken |-> no, position |-> zero, after |-> zero, last |-> zero, seen |-> seen]
    BY <1>2, <2>1, <2>2, <2>3, <2>4
  <2>6. client \in Client
    BY <2>5 DEF Client
  <2>7. channel \in Channel
    BY <1>1 DEF Closed, Channel
  <2> QED BY <2>6, <2>7 DEF ClientTyped
<1>4. Linked
  BY <1>2 DEF Linked, Attached
<1>5. InStep
  <2>1. PICK num : num = [n \in Nat |-> 0]
    OBVIOUS
  <2>2. Numbers(num) /\ num[0] = 0
    BY <2>1 DEF Numbers
  <2>3. Len(<<>>) = 0 /\ SubSeq(<<>>, 1, 0) = <<>> /\ SubSeq(<<>>, 0 + 1, 0 + 0) = <<>>
    BY SubSeqEmpty
  <2>4. Layout(num, num, <<>>, <<>>)
    BY <2>1, <2>2, <2>3 DEF Layout
  <2>5. PICK c : c = client
    OBVIOUS
  <2>6. /\ c.last = 0 /\ c.seen = <<>> /\ c.cursor = 0 /\ c.page = <<>> /\ c.position = 0 /\ c.after = 0
        /\ c.cursorGen = 0 /\ c.at = "away"
    BY <1>2, <2>5
  <2>7. Follows(c, num, num, <<>>, <<>>)
    BY <2>2, <2>3, <2>6 DEF Follows
  <2>8. \A n \in DOMAIN rows : rows[n].gen = 0
    BY <1>1
  <2> QED BY <1>1, <2>4, <2>5, <2>7, <2>8 DEF InStep
<1>6. Told /\ Wakes
  BY <1>1, <1>2 DEF Told, Wakes
<1> QED BY <1>3, <1>4, <1>5, <1>6 DEF ClientInv

\* Every step keeps the invariant of the follower.
LEMMA ClientInvStep == SinkInv /\ Purges /\ ClientInv /\ [Next]_vars => ClientInv'
<1> SUFFICES ASSUME SinkInv, Purges, ClientInv, [Next]_vars PROVE ClientInv'
  OBVIOUS
<1> USE DEF ClientInv
<1>1. gen \in Nat
  BY DEF SinkInv, Typed
<1>2. CASE ClientStep
  <2>1. UNCHANGED <<backend, gather, rows, marked, gen, landed>>
    BY <1>2, ClientFacts DEF stream
  <2>2. ClientTyped' /\ Linked'
    BY <1>2, ClientTypedStep, LinkedClient
  <2>3. CASE gen = 0
    <3>1. Moves(client, client')
      BY <1>2, <2>3, ClientMoves DEF Linked
    <3> QED BY <2>1, <2>2, <2>3, <3>1, ClientInStep, ToldClient, WakesClient
  <2>4. CASE gen # 0
    <3>1. gen' # 0
      BY <2>1, <2>4
    <3> QED BY <2>2, <3>1 DEF InStep, Told, Wakes
  <2> QED BY <2>3, <2>4
<1>3. CASE SinkMove /\ (UNCHANGED client \/ DropBuffer \/ \E p \in Procs : Crash(p))
  <2>1. backend' = backend /\ (Lost => Lost') /\ (Unmoved \/ Added \/ (gen' = gen + 1 /\ channel' = channel))
    BY <1>3, SinkEffects DEF SinkMove
  <2>2. ClientTyped' /\ Linked' /\ (client' = client \/ gen' = gen + 1)
    BY <1>3, LinkedSink
  <2>3. CASE gen = 0 /\ gen' = gen
    <3>1. client' = client /\ (Unmoved \/ Added)
      BY <1>1, <2>1, <2>2, <2>3
    <3> QED BY <2>1, <2>2, <2>3, <3>1, SinkInStep, ToldSink, WakesSink
  <2>4. CASE gen' # 0
    BY <2>2, <2>4 DEF InStep, Told, Wakes
  <2>5. gen' = gen \/ gen' = gen + 1
    BY <2>1 DEF Unmoved, Added, Adds
  <2>6. gen' # 0 \/ (gen = 0 /\ gen' = gen)
    BY <1>1, <2>5
  <2> QED BY <2>3, <2>4, <2>6
<1>4. CASE UNCHANGED vars
  <2>1. UNCHANGED <<client, channel, backend, gather, rows, marked, gen, landed>>
    BY <1>4 DEF vars, sinkVars, stream
  <2> QED BY <2>1 DEF ClientTyped, Linked, Attached, InStep, Told, Wakes, HasEnd, EndRow, Lost, Announcing
<1>5. Next => ClientStep \/ (SinkMove /\ (UNCHANGED client \/ DropBuffer \/ \E p \in Procs : Crash(p)))
  BY NextIs DEF SinkMove
<1> QED BY <1>2, <1>3, <1>4, <1>5

\* The invariant of the follower holds.
LEMMA ClientHolds == Spec => [](SinkInv /\ ClientInv)
<1>1. Init => SinkInv /\ Purges /\ ClientInv
  BY SinkInit, ClientInit
<1>2. (SinkInv /\ Purges /\ ClientInv) /\ [Next]_vars => (SinkInv /\ Purges /\ ClientInv)'
  BY SinkStep, ClientInvStep
<1> QED BY <1>1, <1>2, PTL DEF Spec

\* THEOREM: the sinks, the stream, the follower and the subscription keep their types, and a gather's
\* key is set exactly while it holds calls (CoalescedWrites).
THEOREM StreamTypes == Spec => []TypeOK
<1>1. SinkInv /\ Purges /\ ClientInv => TypeOK
  BY DEF SinkInv, Typed, Purges, ClientInv, ClientTyped, Channel, TypeOK
<1> QED BY <1>1, SinkHolds, ClientHolds, PTL

\* THEOREM: as long as the stream never lapsed, what a browser has, over every connection it lost and
\* resumed, is the beginning of what was stored: nothing missing, twice or out of order (the encoder's
\* numbers, `after`, and the client's lastSeq).
THEOREM ClientNeverSkips == Spec => []ClientIsInStep
<1>1. SinkInv /\ ClientInv => ClientIsInStep
  <2> SUFFICES ASSUME SinkInv, ClientInv, gen = 0 PROVE IsPrefix(client.seen, landed)
    BY DEF ClientIsInStep
  <2>1. PICK num, cut : Layout(num, cut, rows, landed) /\ Follows(client, num, cut, rows, landed)
    BY DEF ClientInv, InStep
  <2>2. landed \in Seq(Calls) /\ rows \in Seq(Row) /\ client \in Client
    BY DEF SinkInv, Typed, ClientInv, ClientTyped
  <2>3. client.last \in Nat
    BY <2>2, ClientFields
  <2>4. client.last <= num[Len(rows)] /\ client.seen = SubSeq(landed, 1, cut[client.last])
    BY <2>1 DEF Follows
  <2>5. PICK n \in Nat : n = cut[client.last] /\ n <= Len(landed)
    BY <2>1, <2>3, <2>4 DEF Layout, Numbers
  <2>6. client.seen = SubSeq(landed, 1, n)
    BY <2>4, <2>5
  <2> QED BY <2>2, <2>5, <2>6, PrefixIs
<1> QED BY <1>1, ClientHolds, PTL

\* THEOREM: a client that is told `done` by a stream that ended, with nothing lost on the way to it,
\* has all of it (the end of the follow of each sink: the drain begun after the end, the end row).
THEOREM DoneHasAll == Spec => []DoneIsComplete
<1>1. SinkInv /\ ClientInv => DoneIsComplete
  <2> SUFFICES ASSUME SinkInv, ClientInv, gen = 0, ~Lost, client.at = "done" PROVE client.seen = landed /\ HasEnd
    BY DEF DoneIsComplete
  <2>1. PICK num, cut : Layout(num, cut, rows, landed) /\ Follows(client, num, cut, rows, landed)
    BY DEF ClientInv, InStep
  <2>2. landed \in Seq(Calls) /\ rows \in Seq(Row) /\ client \in Client
    BY DEF SinkInv, Typed, ClientInv, ClientTyped
  <2>3. client.cursor = Len(rows) /\ HasEnd
    BY DEF ClientInv, Told
  <2>4. PICK last \in Nat : last = client.last
    BY <2>2, ClientFields
  <2>5. PICK top \in Nat : top = num[Len(rows)]
    BY <2>1, <2>2, LayoutOf
  <2>6. last <= top /\ top <= last /\ client.seen = SubSeq(landed, 1, cut[last])
    BY <2>1, <2>3, <2>4, <2>5 DEF Follows
  <2>7. last = top
    BY <2>6
  <2>8. cut[top] = Len(landed)
    BY <2>1, <2>5 DEF Layout
  <2>9. client.seen = SubSeq(landed, 1, Len(landed))
    BY <2>6, <2>7, <2>8
  <2> QED BY <2>2, <2>3, <2>9, SubSeqFull
<1> QED BY <1>1, ClientHolds, PTL

\* THEOREM: a Redis follower that waits, not woken and with no message on its way, has read all there
\* is and the end is not marked: between the read of the list and the wait, no message is missed
\* (the wake-up armed before each drain, the subscription made before the first).
THEOREM WakeupsAreKept == Spec => []NoLostWakeup
<1>1. SinkInv /\ ClientInv => NoLostWakeup
  <2> SUFFICES ASSUME SinkInv, ClientInv, client.at = "waiting", ~client.woken, channel.messages = {},
                      gen = 0, ~Lost, \A p \in Procs : gather[p].work.stage # "marked"
               PROVE  client.cursor = Len(rows) /\ ~marked
    BY DEF NoLostWakeup
  <2>1. backend = "redis" /\ client.page = <<>>
    BY DEF ClientInv, Linked
  <2>2. client.cursor + Len(client.page) = Len(rows) /\ client.cursor \in Nat /\ Len(client.page) = 0
    BY <2>1, Cursor DEF ClientInv, Wakes
  <2>3. client.cursor = Len(rows)
    BY <2>2
  <2>4. ~client.ended /\ ~Announcing
    BY <2>1 DEF ClientInv, Wakes, Announcing
  <2>5. ~marked
    BY <2>1, <2>4 DEF ClientInv, Wakes
  <2> QED BY <2>3, <2>5
<1> QED BY <1>1, ClientHolds, PTL
=============================================================================
