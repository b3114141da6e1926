---------------------------- MODULE StreamWrites ----------------------------
(***************************************************************************)
(* The write half of a run's live stream: the loop's writers (the run that *)
(* owns the stream and the delegates that forward into it), the gathering  *)
(* of consecutive deltas that writers of one process share, and the three  *)
(* transports (in-process buffer, SQL rows, Redis list).                   *)
(* A frame is the sequence of the calls it concatenates; a call is         *)
(* <<process, number>>, numbered in the order the process made it.         *)
(***************************************************************************)
EXTENDS Integers, FiniteSets, SequencesExt

CONSTANTS Backends,    \* the transports looked at, of "memory", "lucid", "redis"
          Writers,     \* the writers opened on the run's stream
          Owner,       \* the one that belongs to the run itself; the others are delegates
          Procs,       \* the processes they may be in
          Home,        \* the one the owner is in
          Kinds,       \* kinds of frames; "event" stands for those that never merge
          MaxWrites,   \* bound: frames written
          Attempts,    \* APPEND_ATTEMPTS
          MaxTrouble,  \* bound: transport errors, lost connections, crashes, and lapses of a
                       \* stream somebody may still write, together
          None

ASSUME StreamAssumption ==
  /\ Backends \subseteq {"memory", "lucid", "redis"}
  /\ Owner \in Writers /\ Home \in Procs /\ MaxWrites \in Nat /\ Attempts \in Nat \ {0}
  /\ MaxTrouble \in Nat
  /\ None \notin Writers /\ "none" \notin Kinds

VARIABLES
  backend,   \* the transport of this behaviour
  place,     \* [Writers -> the process each is in]
  writer,    \* [Writers -> where the loop stands with it]
  gather,    \* [Procs -> what CoalescedWrites keeps of the run]
  rows,      \* frames the transport holds, in its order
  marked,    \* the end is marked beside the frames (Redis state key, the buffer's `ended`)
  gen,       \* how many times the stream lapsed: rows of two generations never compare equal
  purging,   \* a purge found the run lapsed and is about to delete it
  channel,   \* the subscriber's subscription at the broker
  landed,    \* history: every call that reached the transport, in order
  trouble    \* how much of MaxTrouble happened

stream   == <<rows, marked, gen, landed>>
sinkVars == <<backend, place, writer, gather, stream, purging, channel, trouble>>

Calls == Procs \X Nat
Row   == [items : Seq(Calls), end : BOOLEAN, gen : Nat]

\* An append under way: the number the statement read, whether the end was marked already.
Work   == [stage : {"none", "numbered", "marked"}, seq : Nat, attempt : Nat]
Idle   == [stage |-> "none", seq |-> 0, attempt |-> 1]

\* `tail` is `queue` with its head being appended; `by` awaits the append, `until` counts appends.
Gather == [held : Seq(Calls), key : Kinds \cup {"none"},
           queue : Seq([items : Seq(Calls), end : BOOLEAN, by : Writers \cup {None}]),
           failure : BOOLEAN, work : Work,
           attempted : Nat, calls : Nat, lost : BOOLEAN]
Writer == [at : {"open", "writing", "flushing", "ending", "done", "dead"},
           broken : BOOLEAN, until : Nat]

Nothing == [held |-> <<>>, key |-> "none", queue |-> <<>>, failure |-> FALSE, work |-> Idle,
            attempted |-> 0, calls |-> 0, lost |-> FALSE]

Stopped(w)  == writer[w].at \in {"done", "dead"}
AllStopped  == \A w \in Writers : Stopped(w)
EndRow(r)   == r.end
HasEnd      == marked \/ \E n \in DOMAIN rows : EndRow(rows[n])

-----------------------------------------------------------------------------
\* Mutant: the gathered frame's kind outlives it.
FlushedKeepingKey(g, by) ==
  IF g.held = <<>> THEN g
  ELSE [g EXCEPT !.queue = Append(@, [items |-> g.held, end |-> FALSE, by |-> by]), !.held = <<>>]

\* flushHeld: the gathered frame joins the queue, awaited by `by` or by nobody.
Flushed(g, by) ==
  IF g.held = <<>> THEN g
  ELSE [g EXCEPT !.queue = Append(@, [items |-> g.held, end |-> FALSE, by |-> by]),
                 !.held = <<>>, !.key = "none"]

\* enqueue: behind every write already queued.
Enqueued(g, items, end, by) ==
  [g EXCEPT !.queue = Append(@, [items |-> items, end |-> end, by |-> by])]

LastQueued(g) == g.attempted + Len(g.queue)

\* The in-process buffer takes a frame at once.
Push(items, end) ==
  /\ rows' = Append(rows, [items |-> items, end |-> end, gen |-> gen])
  /\ landed' = landed \o items
  /\ UNCHANGED <<marked, gen>>

Publish(message) ==
  channel' = IF channel.open THEN [channel EXCEPT !.messages = @ \cup {message}] ELSE channel

(***************************************************************************)
(* Writers.  A broken one drops what it is given (ResilientTokenStreamSink)*)
(* and only still tries to end the stream.                                 *)
(***************************************************************************)
Written == FoldFunction(LAMBDA g, n : g.calls + n, 0, gather)

Ready(w) == writer[w].at = "open" /\ ~writer[w].broken /\ Written < MaxWrites

WriteMemory(w) ==
  /\ backend = "memory" /\ Ready(w)
  /\ LET p == place[w] IN
     /\ Push(<< <<p, gather[p].calls + 1>> >>, FALSE)
     /\ gather' = [gather EXCEPT ![p].calls = @ + 1]
  /\ UNCHANGED <<backend, place, writer, purging, channel, trouble>>

\* A gathered write that failed with nobody awaiting it is raised by the next call, which drops its frame.
WriteRaises(w) ==
  /\ backend # "memory" /\ Ready(w)
  /\ gather[place[w]].failure
  /\ gather' = [gather EXCEPT ![place[w]].failure = FALSE]
  /\ writer' = [writer EXCEPT ![w].broken = TRUE]
  /\ UNCHANGED <<backend, place, stream, purging, channel, trouble>>

\* A delta joins the gathered frame of its kind, or displaces that of another kind.
WriteDelta(w, kind) ==
  /\ backend # "memory" /\ Ready(w) /\ kind # "event"
  /\ ~gather[place[w]].failure
  /\ LET p == place[w]
         g == gather[p]
         call == <<p, g.calls + 1>>
         next == IF g.key = kind THEN [g EXCEPT !.held = Append(@, call)]
                 ELSE [Flushed(g, None) EXCEPT !.held = <<call>>, !.key = kind]
     IN  gather' = [gather EXCEPT ![p] = [next EXCEPT !.calls = @ + 1]]
  /\ UNCHANGED <<backend, place, writer, stream, purging, channel, trouble>>

\* Mutant: the frame is queued before the gathered one is.
WriteFrameFirst(w) ==
  /\ backend # "memory" /\ Ready(w)
  /\ ~gather[place[w]].failure
  /\ LET p == place[w]
         g == [gather[p] EXCEPT !.calls = @ + 1]
         next == Flushed(Enqueued(g, << <<p, g.calls>> >>, FALSE, w), w)
     IN  /\ gather' = [gather EXCEPT ![p] = next]
         /\ writer' = [writer EXCEPT ![w] = [@ EXCEPT !.at = "writing", !.until = LastQueued(next)]]
  /\ UNCHANGED <<backend, place, stream, purging, channel, trouble>>

\* Any other frame is queued behind the gathered one, and both are awaited.
WriteFrame(w) ==
  /\ backend # "memory" /\ Ready(w)
  /\ ~gather[place[w]].failure
  /\ LET p == place[w]
         g == [gather[p] EXCEPT !.calls = @ + 1]
         next == Enqueued(Flushed(g, w), << <<p, g.calls>> >>, FALSE, w)
     IN  /\ gather' = [gather EXCEPT ![p] = next]
         /\ writer' = [writer EXCEPT ![w] = [@ EXCEPT !.at = "writing", !.until = LastQueued(next)]]
  /\ UNCHANGED <<backend, place, stream, purging, channel, trouble>>

\* The window of the gathered frame passed.
FlushWindow(p) ==
  /\ gather[p].held # <<>>
  /\ gather' = [gather EXCEPT ![p] = Flushed(@, None)]
  /\ UNCHANGED <<backend, place, writer, stream, purging, channel, trouble>>

\* Mutant: a delegate ends without flushing what it gathered.
EndDelegateQuietly(w) ==
  /\ w # Owner /\ writer[w].at = "open"
  /\ writer' = [writer EXCEPT ![w].at = "done"]
  /\ UNCHANGED <<backend, place, gather, stream, purging, channel, trouble>>

\* A delegate ends: childSinkWriter flushes the shared stream and leaves it open.
EndDelegate(w) ==
  /\ w # Owner /\ writer[w].at = "open"
  /\ LET p == place[w]
         next == Flushed(gather[p], w)
         waits == backend # "memory" /\ ~writer[w].broken /\ next.queue # <<>>
         raises == backend # "memory" /\ ~writer[w].broken /\ ~waits /\ next.failure
     IN  /\ gather' = IF backend = "memory" \/ writer[w].broken THEN gather
                      ELSE [gather EXCEPT ![p] = [next EXCEPT !.failure = @ /\ waits]]
         /\ writer' = [writer EXCEPT ![w] =
                         [writer[w] EXCEPT !.at = IF waits THEN "flushing" ELSE "done",
                                           !.until = IF waits THEN LastQueued(next) ELSE 0,
                                           !.broken = @ \/ raises]]
  /\ UNCHANGED <<backend, place, stream, purging, channel, trouble>>

\* The owner ends after its delegates, broken or not: the end marker lets a subscriber go.
EndOwner ==
  /\ writer[Owner].at = "open" /\ \A w \in Writers \ {Owner} : Stopped(w)
  /\ LET p == place[Owner]
         next == Enqueued(Flushed(gather[p], Owner), <<>>, TRUE, Owner)
     IN  IF backend = "memory"
         THEN /\ marked' = TRUE
              /\ writer' = [writer EXCEPT ![Owner].at = "done"]
              /\ UNCHANGED gather
         ELSE /\ gather' = [gather EXCEPT ![p] = next]
              /\ writer' = [writer EXCEPT ![Owner] = [@ EXCEPT !.at = "ending",
                                                              !.until = LastQueued(next)]]
              /\ UNCHANGED marked
  /\ UNCHANGED <<backend, place, rows, gen, landed, purging, channel, trouble>>

(***************************************************************************)
(* The head of a process's queue is appended.                              *)
(***************************************************************************)
\* The writers of p that an attempted append lets go on, and how.
Settled(p, g, ok, by) ==
  [w \in Writers |->
    LET own     == place[w] = p /\ writer[w].at \in {"writing", "flushing", "ending"}
        rejects == own /\ ~ok /\ by = w
        ends    == own /\ writer[w].until <= g.attempted
        raises  == ends /\ writer[w].at # "writing" /\ g.failure
    IN  IF ~(rejects \/ ends) THEN writer[w]
        ELSE [writer[w] EXCEPT !.at = IF @ = "writing" THEN "open" ELSE "done",
                               !.until = 0,
                               !.broken = @ \/ rejects \/ raises]]

\* Mutant: a failed append nobody awaits is forgotten.
AttemptedUnreported(p, ok) ==
  LET g == gather[p]
      next == [g EXCEPT !.queue = Tail(@), !.work = Idle, !.attempted = @ + 1, !.lost = @ \/ ~ok]
  IN  /\ gather' = [gather EXCEPT ![p] = next]
      /\ writer' = Settled(p, next, ok, Head(g.queue).by)

Attempted(p, ok) ==
  LET g == gather[p]
      head == Head(g.queue)
      next == [g EXCEPT !.queue = Tail(@), !.work = Idle, !.attempted = @ + 1,
                        !.lost = @ \/ ~ok, !.failure = @ \/ (~ok /\ head.by = None)]
      now  == Settled(p, next, ok, head.by)
      raised == \E w \in Writers : /\ writer[w].at \in {"flushing", "ending"}
                                   /\ place[w] = p /\ now[w].at = "done"
                                   /\ ~(~ok /\ head.by = w)
  IN  /\ gather' = [gather EXCEPT ![p] = [next EXCEPT !.failure = @ /\ ~raised]]
      /\ writer' = now

Appending(p, sink) == backend = sink /\ gather[p].queue # <<>>

\* A reply may be lost after the transport took the frame: the append is reported failed.
Replied(ok) == ok \/ trouble < MaxTrouble

AppendFails(p) ==
  /\ gather[p].queue # <<>> /\ trouble < MaxTrouble
  /\ trouble' = trouble + 1
  /\ Attempted(p, FALSE)
  /\ UNCHANGED <<backend, place, stream, purging, channel>>

\* INSERT ... SELECT MAX(seq) + 1: the number is read, then the primary key decides.
LucidNumbers(p) ==
  /\ Appending(p, "lucid") /\ gather[p].work.stage = "none"
  /\ gather' = [gather EXCEPT ![p].work.stage = "numbered", ![p].work.seq = Len(rows) + 1]
  /\ UNCHANGED <<backend, place, writer, stream, purging, channel, trouble>>

LucidInserts(p, ok) ==
  /\ Appending(p, "lucid") /\ gather[p].work.stage = "numbered" /\ Replied(ok)
  /\ gather[p].work.seq = Len(rows) + 1
  /\ Push(Head(gather[p].queue).items, Head(gather[p].queue).end)
  /\ Attempted(p, ok)
  /\ trouble' = IF ok THEN trouble ELSE trouble + 1
  /\ UNCHANGED <<backend, place, purging, channel>>

LucidCollides(p) ==
  /\ Appending(p, "lucid") /\ gather[p].work.stage = "numbered"
  /\ gather[p].work.seq <= Len(rows)
  /\ IF gather[p].work.attempt >= Attempts
     THEN Attempted(p, FALSE)
     ELSE /\ gather' = [gather EXCEPT ![p].work = [Idle EXCEPT !.attempt = gather[p].work.attempt + 1]]
          /\ UNCHANGED writer
  /\ UNCHANGED <<backend, place, stream, purging, channel, trouble>>

\* RPUSH, EXPIRE and PUBLISH in one round trip.
RedisAppends(p, ok) ==
  /\ Appending(p, "redis") /\ ~Head(gather[p].queue).end /\ Replied(ok)
  /\ Push(Head(gather[p].queue).items, FALSE)
  /\ Publish("chunk")
  /\ Attempted(p, ok)
  /\ trouble' = IF ok THEN trouble ELSE trouble + 1
  /\ UNCHANGED <<backend, place, purging>>

RedisMarks(p) ==
  /\ Appending(p, "redis") /\ Head(gather[p].queue).end /\ gather[p].work.stage = "none"
  /\ marked' = TRUE
  /\ gather' = [gather EXCEPT ![p].work.stage = "marked"]
  /\ UNCHANGED <<backend, place, writer, rows, gen, landed, purging, channel, trouble>>

RedisPublishesEnd(p) ==
  /\ Appending(p, "redis") /\ gather[p].work.stage = "marked"
  /\ Publish("end")
  /\ Attempted(p, TRUE)
  /\ UNCHANGED <<backend, place, stream, purging, trouble>>

-----------------------------------------------------------------------------
\* An hour passed since the last write, so nothing is gathered or queued.
Quiet ==
  /\ \A p \in Procs : gather[p].held = <<>> /\ gather[p].queue = <<>>
  /\ trouble' = IF AllStopped THEN trouble ELSE trouble + 1
  /\ trouble' <= MaxTrouble

HasStream == rows # <<>> \/ marked

Forget == rows' = <<>> /\ marked' = FALSE /\ gen' = gen + 1 /\ UNCHANGED landed

RedisExpires ==
  /\ backend = "redis" /\ Quiet /\ HasStream
  /\ Forget
  /\ UNCHANGED <<backend, place, writer, gather, purging, channel>>

\* purgeExpired reads which runs lapsed, and then deletes their rows.
PurgeFinds ==
  /\ backend = "lucid" /\ Quiet /\ HasStream /\ ~purging
  /\ purging' = TRUE
  /\ UNCHANGED <<backend, place, writer, gather, stream, channel>>

\* The database runs the delete before or after an append's one statement, not inside it.
PurgeDeletes ==
  /\ purging /\ \A p \in Procs : gather[p].work.stage # "numbered"
  /\ purging' = FALSE
  /\ Forget
  /\ UNCHANGED <<backend, place, writer, gather, channel, trouble>>

DrainQueue(p) ==
  \/ FlushWindow(p) \/ AppendFails(p)
  \/ LucidNumbers(p) \/ LucidCollides(p) \/ RedisMarks(p) \/ RedisPublishesEnd(p)
  \/ \E ok \in BOOLEAN : LucidInserts(p, ok) \/ RedisAppends(p, ok)

Expire == RedisExpires \/ PurgeFinds \/ PurgeDeletes

Loop ==
  \/ \E w \in Writers : \/ WriteMemory(w) \/ WriteRaises(w) \/ WriteFrame(w) \/ EndDelegate(w)
                        \/ \E kind \in Kinds : WriteDelta(w, kind)
  \/ EndOwner
=============================================================================
