----------------------------- MODULE TokenStream -----------------------------
(***************************************************************************)
(* The live stream of one run, read by one browser: the writers and the    *)
(* transport of StreamWrites, the subscription a replica follows it with   *)
(* (`follow` of each sink), the SSE encoder that numbers its events, and   *)
(* the client that reconnects with the number of the last one it took.     *)
(***************************************************************************)
EXTENDS StreamWrites

CONSTANT Page  \* READ_PAGE

ASSUME ReadAssumption == Page \in Nat \ {0}

VARIABLE client  \* the browser, its connection and the subscription behind it

vars == <<sinkVars, client>>

\* page: rows read and not yielded yet; cursor, cursorGen: the last row yielded and when it was written;
\* ended: the follower knows of the end; drainsToEnd, woken: the Redis follower's; position, after:
\* the encoder's; last: the client's lastSeq.
Client == [at : {"away", "dropped", "attaching", "reading", "checking", "drained", "waiting", "done", "gone"},
           page : Seq(Row), cursor : Nat, cursorGen : Nat,
           ended : BOOLEAN, drainsToEnd : BOOLEAN, woken : BOOLEAN,
           position : Nat, after : Nat, last : Nat, seen : Seq(Calls)]

Away == [at |-> "away", page |-> <<>>, cursor |-> 0, cursorGen |-> 0, ended |-> FALSE, drainsToEnd |-> FALSE,
         woken |-> FALSE, position |-> 0, after |-> 0, last |-> 0, seen |-> <<>>]

Attached == client.at \in {"attaching", "reading", "checking", "drained", "waiting"}
Closed   == [open |-> FALSE, messages |-> {}]

Init ==
  /\ backend \in Backends
  /\ place \in [Writers -> Procs] /\ place[Owner] = Home
  /\ backend = "memory" => \A w \in Writers : place[w] = Home
  /\ writer = [w \in Writers |-> [at |-> "open", broken |-> FALSE, until |-> 0]]
  /\ gather = [p \in Procs |-> Nothing]
  /\ rows = <<>> /\ marked = FALSE /\ gen = 0 /\ landed = <<>>
  /\ purging = FALSE
  /\ channel = Closed
  /\ trouble = 0
  /\ client = Away

-----------------------------------------------------------------------------
(***************************************************************************)
(* Attaching.  The POST that started the run pipes it at once; a later GET *)
(* asks `has` first and answers 404 when nothing is kept.                  *)
(***************************************************************************)
Subscribing(c) ==
  [Away EXCEPT !.at = IF backend = "redis" THEN "attaching" ELSE "reading",
               !.cursorGen = gen, !.after = c.last, !.last = c.last, !.seen = c.seen]

Attach ==
  /\ client.at = "away"
  /\ client' = Subscribing(client)
  /\ channel' = IF backend = "redis" THEN [Closed EXCEPT !.open = TRUE] ELSE channel
  /\ UNCHANGED <<backend, place, writer, gather, stream, purging, trouble>>

\* A client that took no event has nothing to resume from and stops.
Reconnect ==
  /\ client.at = "dropped"
  /\ IF HasStream /\ client.last > 0
     THEN /\ client' = Subscribing(client)
          /\ channel' = IF backend = "redis" THEN [Closed EXCEPT !.open = TRUE] ELSE channel
     ELSE /\ client' = [client EXCEPT !.at = "gone"]
          /\ UNCHANGED channel
  /\ UNCHANGED <<backend, place, writer, gather, stream, purging, trouble>>

\* The subscription ends with the connection; the browser keeps what it took.
Dropped(c) == [Away EXCEPT !.at = "dropped", !.last = c.last, !.seen = c.seen]

Drop ==
  /\ Attached /\ trouble < MaxTrouble
  /\ trouble' = trouble + 1
  /\ client' = Dropped(client)
  /\ channel' = Closed
  /\ UNCHANGED <<backend, place, writer, gather, stream, purging>>

-----------------------------------------------------------------------------
\* Mutant: the client keeps the number it resumed from.
TakeUnnoted(c, row) ==
  LET position == c.position + 1
      taken == position > c.after
  IN  [c EXCEPT !.position = position,
                !.last = IF taken /\ @ = 0 THEN position ELSE @,
                !.seen = IF taken THEN @ \o row.items ELSE @]

\* AgentSseEncoder numbers each row as it passes; the client skips what it has.
Take(c, row) ==
  LET position == c.position + 1
      taken == position > c.after /\ position > c.last
  IN  [c EXCEPT !.position = position,
                !.last = IF taken THEN position ELSE @,
                !.seen = IF taken THEN @ \o row.items ELSE @]

\* The next row of the page; the end marker yields nothing.
Yielded(c) ==
  LET row == Head(c.page)
  IN  [(IF EndRow(row) THEN [c EXCEPT !.ended = TRUE] ELSE Take(c, row))
         EXCEPT !.page = Tail(@), !.cursor = @ + 1, !.cursorGen = row.gen]

Yield ==
  /\ Attached /\ client.page # <<>>
  /\ client' = Yielded(client)
  /\ UNCHANGED sinkVars

\* The follower asks for what comes after the cursor: it has yielded what it read before.
Reading   == client.at = "reading" /\ client.page = <<>>
After(hi) == SubSeq(rows, client.cursor + 1, hi)

\* The row at the cursor is still the one that was read.
SameStream == client.cursor = 0 \/ (client.cursor <= Len(rows) /\ rows[client.cursor].gen = client.cursorGen)

Finished(c) == [c EXCEPT !.at = "done"]

\* The buffer it follows is its own: once dropped, it still holds what was in it.
FollowMemory ==
  /\ backend = "memory" /\ Reading
  /\ \/ /\ ~client.ended /\ client.cursor < Len(rows)
        /\ client' = [client EXCEPT !.page = After(Len(rows))]
     \/ /\ client.ended \/ (marked /\ client.cursor = Len(rows))
        /\ client' = Finished(client)
  /\ UNCHANGED sinkVars

\* A follower holds the buffer that is kept, not one that was dropped.
Holds == client.at = "reading" /\ ~client.ended

\* The buffer is dropped: its followers are woken, take what it still holds and end.
DropBuffer ==
  /\ backend = "memory" /\ Quiet /\ (HasStream \/ Holds)
  /\ Forget
  /\ client' = IF Holds THEN [client EXCEPT !.page = After(Len(rows)), !.ended = TRUE] ELSE client
  /\ UNCHANGED <<backend, place, writer, gather, purging, channel>>

\* One page past the cursor, the row at the cursor read again with it.
FollowLucid ==
  /\ backend = "lucid" /\ Reading
  /\ LET hi == IF client.cursor + Page < Len(rows) THEN client.cursor + Page ELSE Len(rows)
     IN  client' = IF client.ended THEN Finished(client)
                   ELSE IF ~SameStream THEN [client EXCEPT !.at = "checking"]
                   ELSE [client EXCEPT !.page = After(hi)]
  /\ UNCHANGED sinkVars

\* The rows it was following are gone: over, or numbered anew from the first.
StartsOver(c, at) == [c EXCEPT !.cursor = 0, !.at = at]

RecheckLucid ==
  /\ backend = "lucid" /\ client.at = "checking"
  /\ client' = IF rows = <<>> THEN Finished(client) ELSE StartsOver(client, "reading")
  /\ UNCHANGED sinkVars

\* A wake-up is armed before each read of the list, and the end seen so far noted.
Armed(c) == [c EXCEPT !.at = "reading", !.drainsToEnd = c.ended, !.woken = FALSE]

\* Subscribed already, it reads the terminal marker once.
FollowRedis ==
  /\ backend = "redis" /\ client.at = "attaching"
  /\ client' = Armed([client EXCEPT !.ended = @ \/ marked])
  /\ UNCHANGED sinkVars

DrainRedis ==
  /\ backend = "redis" /\ client.at = "reading"
  /\ client' = IF SameStream
               THEN [client EXCEPT !.at = "drained", !.page = After(Len(rows))]
               ELSE [client EXCEPT !.at = "checking"]
  /\ UNCHANGED sinkVars

\* Mutant: the drain during which the end message came is taken for one begun after it.
DrainedAtOnce ==
  /\ client.at = "drained" /\ client.page = <<>>
  /\ IF client.ended THEN client' = Finished(client) /\ channel' = Closed
     ELSE client' = [client EXCEPT !.at = "waiting"] /\ UNCHANGED channel
  /\ UNCHANGED <<backend, place, writer, gather, stream, purging, trouble>>

\* Mutant: the wake-up is armed after the list was read.
DrainedThenArm ==
  /\ client.at = "drained" /\ client.page = <<>>
  /\ IF client.drainsToEnd THEN client' = Finished(client) /\ channel' = Closed
     ELSE /\ client' = IF client.ended THEN Armed(client)
                       ELSE [client EXCEPT !.at = "waiting", !.woken = FALSE]
          /\ UNCHANGED channel
  /\ UNCHANGED <<backend, place, writer, gather, stream, purging, trouble>>

\* A drain begun after the end was seen has everything; one that began before reads once more.
Drained ==
  /\ client.at = "drained" /\ client.page = <<>>
  /\ IF client.drainsToEnd THEN client' = Finished(client) /\ channel' = Closed
     ELSE /\ client' = IF client.ended THEN Armed(client) ELSE [client EXCEPT !.at = "waiting"]
          /\ UNCHANGED channel
  /\ UNCHANGED <<backend, place, writer, gather, stream, purging, trouble>>

\* Mutant: a list that is gone is waited for.
RecheckRedisAgain ==
  /\ backend = "redis" /\ client.at = "checking"
  /\ client' = Armed(client) /\ UNCHANGED channel
  /\ UNCHANGED <<backend, place, writer, gather, stream, purging, trouble>>

RecheckRedis ==
  /\ backend = "redis" /\ client.at = "checking"
  /\ IF rows = <<>>
     THEN client' = Finished(client) /\ channel' = Closed
     ELSE client' = Armed(StartsOver(client, "reading")) /\ UNCHANGED channel
  /\ UNCHANGED <<backend, place, writer, gather, stream, purging, trouble>>

\* A message wakes it; with none for a minute it reads again on its own.
WakeRedis ==
  /\ backend = "redis" /\ client.at = "waiting"
  /\ client' = Armed(client)
  /\ UNCHANGED sinkVars

Deliver(message) ==
  /\ message \in channel.messages
  /\ channel' = [channel EXCEPT !.messages = @ \ {message}]
  /\ client' = [client EXCEPT !.ended = @ \/ message = "end", !.woken = TRUE]
  /\ UNCHANGED <<backend, place, writer, gather, stream, purging, trouble>>

\* A process dies with its writers and what they gathered; the in-process buffer dies with it.
Crash(p) ==
  /\ trouble < MaxTrouble /\ \E w \in Writers : place[w] = p /\ ~Stopped(w)
  /\ trouble' = trouble + 1
  /\ writer' = [w \in Writers |-> IF place[w] = p /\ ~Stopped(w) THEN [writer[w] EXCEPT !.at = "dead"]
                                  ELSE writer[w]]
  /\ gather' = [gather EXCEPT ![p] = [Nothing EXCEPT !.calls = gather[p].calls, !.lost = TRUE]]
  /\ IF backend = "memory"
     THEN Forget /\ client' = IF Attached THEN Dropped(client) ELSE client
     ELSE UNCHANGED <<stream, client>>
  /\ UNCHANGED <<backend, place, purging, channel>>

Sink(step) == step /\ UNCHANGED client

Next ==
  \/ Sink(Loop) \/ Sink(Expire) \/ \E p \in Procs : Sink(DrainQueue(p)) \/ Crash(p)
  \/ Attach \/ Reconnect \/ Drop
  \/ Yield \/ FollowMemory \/ DropBuffer
  \/ FollowLucid \/ RecheckLucid
  \/ FollowRedis \/ DrainRedis \/ Drained \/ RecheckRedis \/ WakeRedis
  \/ \E message \in {"chunk", "end"} : Deliver(message)

Spec == Init /\ [][Next]_vars

\* Timers fire, transports reply, followers poll, and a stream nobody writes lapses.  Nothing makes
\* the loop write, the client attach or reconnect, or anything fail.
Fairness ==
  /\ \A p \in Procs : WF_vars(Sink(DrainQueue(p)))
  /\ WF_vars(Sink(Expire)) /\ WF_vars(DropBuffer)
  /\ WF_vars(Yield) /\ WF_vars(FollowMemory)
  /\ WF_vars(FollowLucid) /\ WF_vars(RecheckLucid)
  /\ WF_vars(FollowRedis) /\ WF_vars(DrainRedis) /\ WF_vars(Drained) /\ WF_vars(RecheckRedis) /\ WF_vars(WakeRedis)
  /\ \A message \in {"chunk", "end"} : WF_vars(Deliver(message))

LiveSpec == Spec /\ Fairness

-----------------------------------------------------------------------------
TypeOK ==
  /\ backend \in Backends /\ place \in [Writers -> Procs]
  /\ writer \in [Writers -> Writer] /\ gather \in [Procs -> Gather]
  /\ \A p \in Procs : gather[p].key = "none" <=> gather[p].held = <<>>
  /\ rows \in Seq(Row) /\ landed \in Seq(Calls) /\ gen \in Nat /\ marked \in BOOLEAN /\ purging \in BOOLEAN
  /\ client \in Client /\ channel \in [open : BOOLEAN, messages : SUBSET {"chunk", "end"}]

Lost == \E p \in Procs : gather[p].lost

\* Whatever is gathered, queued, retried or displaced, the calls of one process reach the stream in
\* the order they were made, and none twice (CoalescedWrites, append).
CallOrderKept ==
  \A m, n \in DOMAIN landed : m < n /\ landed[m][1] = landed[n][1] => landed[m][2] < landed[n][2]

MadeBy(p) == {<<p, n>> : n \in 1 .. gather[p].calls}

\* Nothing lands after the end marker, and everything every writer wrote landed before it, unless an
\* append failed or a process died: delegates flush, the owner's end waits its turn.
EndIsLast ==
  ~Lost /\ HasEnd => /\ ToSet(landed) = UNION {MadeBy(p) : p \in Procs}
                     /\ \A n \in DOMAIN rows : EndRow(rows[n]) => n = Len(rows)

\* As long as the stream never lapsed, what the client took - over every connection it lost and
\* resumed - is what was stored, in order, nothing missing or twice.
ClientIsInStep == gen = 0 => IsPrefix(client.seen, landed)

\* A client told `done` by a stream that ended has the whole of it.
DoneIsComplete == gen = 0 /\ ~Lost /\ client.at = "done" => client.seen = landed /\ HasEnd

\* A Redis follower that waits, not woken and with no message on its way, has read everything
\* there is: it never depends on the idle check while messages arrive.
NoLostWakeup ==
  (/\ client.at = "waiting" /\ ~client.woken /\ channel.messages = {}
   /\ gen = 0 /\ ~Lost /\ \A p \in Procs : gather[p].work.stage # "marked")
    => client.cursor = Len(rows) /\ ~marked

\* An append that failed is never swallowed: when the owner is done, a writer of that process knows.
FailureIsReported ==
  \A p \in Procs : gather[p].lost /\ AllStopped /\ (\A w \in Writers : writer[w].at = "done")
                      => \E w \in Writers : place[w] = p /\ writer[w].broken

\* Once every writer has stopped - ended, failed or died with its process - a client that has read
\* anything is let go: by the end marker, by the message, or when the rows lapse.
ClientIsReleased ==
  AllStopped /\ Attached ~> ~Attached \/ (~HasStream /\ client.cursor = 0 /\ backend # "memory")

\* Not true of the code (README, section 5): a subscription is over only for a run that ended.
DoneMeansEnded == client.at = "done" => writer[Owner].at \in {"ending", "done"}

\* Not true of the code (README, section 5): of one process's calls, none is stored after one
\* that is not.
NoHole == \A n \in DOMAIN landed : landed[n][2] > 1 => \E m \in DOMAIN landed : landed[m] = <<landed[n][1], landed[n][2] - 1>>
=============================================================================
