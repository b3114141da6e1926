# Adonis agent: TLA+ models, checks and proofs

`@adonis-agora/agent` runs language-model turns for the threads of a chat
application: a request starts a turn, the turn calls tools, people approve what
the tools want to do, and messages sent meanwhile wait in the thread's queue.
This directory holds TLA+ models of the parts of it where processes, requests
and timers meet in one database, the TLC runs that check them, and the theorems
that TLAPS proves about them. Paths below are relative to
`src/packages/adonis/src/` unless they start with `docs/` or `packages/`.

## 1. Inventory of the system

| Component | State it keeps | Operations | Talks to |
| --- | --- | --- | --- |
| **Action proposals** ("independent approvals": `action-proposal-*.ts`, `stores/lucid-action-proposal-store.ts`) | One row per proposal: decision, deadline, embedded execution (generation, lease), outcome and its delivery (generation, lease), version. Per worker: timer, tick, running executions | create, replace, decide, expire, claim, renew, settle, claim outcome, admit outcome, tick, stop | Runs create proposals; HTTP routes and text decisions decide them; workers of every process execute them and post outcomes into the thread |
| **Thread message queue and inline runner** (`chat-queue-service.ts`, `spi/chat-queue.ts`, `runners/inline-agent-runner.ts`, the send and queue requests of `agent-service.ts`) | Thread row: `active_stream_id` (the holder), `queue_pause`; the queued messages; in memory: `starting`, `live`, `cancelled` | send (auto / queue / interrupt), chat, kick, plan, launch, restore, resume, interrupt a queued message, reorder, remove, clear, start, cancel, settle | Requests and settling turns race on the thread row; a turn's end starts the next turn |
| **Agent loop** (`agent-loop.ts`, `tool-registry.ts`, `delegation.ts`) | One turn: messages, tool calls and their rows, checkpoints | model step, tool batch, approval wait, hand-off, delegate, record the end | Model providers, tools, store, sink, runner hooks |
| **Durable runner** (`durable/`) | The journal of a run's steps, signals | start, replay, suspend, signal, cancel | Loop, queue, durable engine |
| **Streaming sinks** (`in-process-sink.ts`, `redis-token-stream-sink.ts`, `lucid-token-stream-sink.ts`, `resilient-token-stream-sink.ts`, `sse.ts`) | Frames of a run, its end marker, subscribers | open, write, end, subscribe, replay | Loop, HTTP |
| **Confirm tokens** (`confirm-token.ts`, `confirmed-tool.ts`) | Consumed token ids | mint, verify, consume | Tools |
| **Elicitation** (`elicitation*.ts`, `interruptible.ts`) | Parked questions | ask, answer, expire | Loop |
| **Channels** (`channels/`) | Inbound claims, coalescing windows, outbound attempts | receive, coalesce, deliver, retry | Messaging platforms, agent service |
| **Quota and usage** (`usage-ledger.ts`, `stores/ledger-quota-provider.ts`, `pricing/`) | Ledger rows | assert, record, report | Send path, loop, queue |
| **Memory and history** (`memory.ts`, `history-window.ts`) | Messages of a thread, window | append, compact, window | Loop |
| **Governance** (`authorize-decision.ts`, `ownership.ts`, `personas.ts`, ...) | None of its own | check | Every request |
| **Protocol adapters** (`mcp/`, `mcp-client/`, `a2a/`, `ag-ui/`, `a2ui/`, `ai-sdk/`) | Translation state | translate | Outside clients |
| **External agents** (`opencode/`, `poppy*/`) | Sessions of other programs | start, poll, relay | Outside processes |
| **RAG, media, generated UI, guardrails, evals, dashboards, browser clients** | Indexes, catalogues, views | pure or read-only | Loop, HTTP |

### What is hard here

* **Lost updates.** `LucidActionProposalStore.mutate` reads a row, computes its
  successor in memory and stores it later with `WHERE version = ...`, retrying
  from a fresh read. Everything that happens in between must make the write fail.
* **Leases.** A worker that is only slow looks dead: its lease lapses, another
  worker recovers the proposal, and then the first one comes back with a result.
* **Races for a decision.** Approval, rejection, expiry and replacement meet on
  one pending row.
* **Admission.** `claimActiveStream` and `releaseActiveStream` are atomic, but
  what a drain decides between them (is the holder alive, what is the head, is
  the queue paused, has a Stop come) was read one or more `await`s earlier.
* **Hand-over.** The queue drains only when somebody looks at it: at the end of
  a turn, at a send, at a resume. A look that comes too early and a look that
  never comes are the same bug seen from two sides.
* **Process death** between taking a message and starting it, between claiming
  and settling, in the middle of a delivery.
* **Replay.** A durable turn is run again from its start after every wait and every
  crash. What it asks its journal, position by position, must not depend on which of
  several overlapped tools ended first, or on anything read outside the journal.
* **Streams.** Writers in several processes append to one run, frames gather in
  memory, an append that failed may have landed, the browser comes back at another
  replica with only a number, and the writer may have died without an end.
* **Bursts.** Webhooks of several processes log messages in any order and may be
  delivered twice; the job that leads a burst claims its messages one write at a
  time, and every phase of it may be run again.

### What makes each part correct

* Proposals: decided once and the caller is told the truth; executed only when
  approved; the recorded result is one the tool returned to the lease's holder;
  one pending proposal per replacement group; one notice in the thread per
  outcome; an approved action settles, a due proposal expires, an outcome
  arrives.
* Queue: one turn at a time; a message is started at most once and is not lost;
  a Stop stops; an idle thread has nothing waiting in an unpaused queue.
* Loop and durable runner: a replay never asks its journal for something else than
  it holds; an action runs only when approved in time, and more than once only
  because a worker died while it ran; a call's row, message and decision agree;
  every call of a finished turn has a result, no card of it stays open and what it
  spent is recorded; a stopped or finished turn passes its thread on once.
* Sinks: the calls of a process reach the transport in order and once; nothing
  follows the end; the browser's copy is the stream's prefix through every
  reconnect; a reader is not left waiting for a stream nobody writes any more.
* Channels: a message the webhook accepted is in one turn, not two and not none.

## 2. Modules

| Module | Models | Lines it stands for |
| --- | --- | --- |
| `ActionProposalTransitions` | The pure functions on a proposal row | `action-proposal-transitions.ts`, `action-proposal-outcome.ts` |
| `ActionProposals` (extends it) | Store, runs, decision routes, workers, executions, faults | `stores/lucid-action-proposal-store.ts`, `action-proposal-worker.ts`, `action-proposal-service.ts`, `action-proposal-executor.ts`, `action-proposal-approval.ts` |
| `ProposalLifecycle` | The abstract specification: what is promised of a proposal, without store, leases or workers | |
| `ActionProposalsLifecycle` (extends it) | The refinement mapping from it to `ProposalLifecycle` | |
| `MCActionProposals` | Values for TLC | |
| `ActionProposalsLive` | The same system with unbounded, relative time, and its fairness | |
| `ActionProposals_proofs` | Theorems: its types, and the inductive invariant of its store | |
| `ActionProposals_safety_proofs` (extends it) | Theorems: its safety properties, and that it implements `ProposalLifecycle` | |
| `ChatQueue` | One thread: holder, queue, pause, requests, drains and turns with the inline runner | `chat-queue-service.ts`, `agent-service.ts`, `runners/inline-agent-runner.ts`, `stores/lucid.ts`, `dead-run.ts` |
| `ChatQueue_proofs` | Theorems: its types, that a message is started once and not lost, and that a thread at rest has drained its queue | |
| `MCChatQueue` | The scenarios: which requests are made, how many at a time, and what may go wrong | |
| `StreamWrites` | The write half of a run's stream: writers, delegates, gathering, and the three transports | `coalesced-writes.ts`, `resilient-token-stream-sink.ts`, `in-process-sink.ts`, `lucid-token-stream-sink.ts`, `redis-token-stream-sink.ts` |
| `TokenStream` (extends it) | The read half: the followers, the numbered events, the browser that reconnects | `follow` of the same sinks, `sse.ts`, `react/core/agent-chat-transport.ts` |
| `TokenStream_proofs` | Theorems: the order, the end and the failures of a stream | |
| `TokenStream_client_proofs` (extends it) | Theorems: its types, and what a browser gets of it | |
| `AgentRun` | One durable turn: the loop, its journal, people, the clock, a Stop, the next message | `agent-loop.ts`, `durable/agent-run-workflow.ts`, `durable/durable-agent-runner.ts`, `chat-queue-service.ts` |
| `AgentRun_proofs` | The loop as a function of where its body is; theorem: a replay follows its journal | |
| `AgentRun_store_proofs` (extends it) | Theorems: its types and its other safety properties | |
| `MCAgentRun` | What the model may call in each run | |
| `ChannelBursts` | One conversation of a channel: webhooks, burst log, the phases of its jobs | `channels/handler.ts`, `channels/executor.ts`, `channels/store.ts` |
| `ChannelBursts_proofs` | Theorems: no message is dropped, none is answered twice | |
| `MCChannelBursts` | The messages and their deliveries | |

### How `ActionProposals` corresponds to the code

`rows` is the proposal table; a row keeps the fields that decide control. The
payload, the audit text and the presentation are left out, a lease token (a fresh
UUID per claim) is the pair of worker and generation, and the null deadline is 0.
`deadline[p]` is what the creating run journaled: `ResolveActionProposalApproval`
evaluates the time-to-live once, so a replayed creation carries the same deadline.

A store call is a record (`Call`) in the hands of a caller, a tick or an
execution. `Read` is the SELECT of `mutate` and the computation of the new row;
while the call is not `done`, its UPDATE is outstanding and anything may happen.
`RowsAfter` and `CallAfter` are that UPDATE: it succeeds when the version is the
one read, else the call reads again, at most `MaxAttempts` times. The code has no
lock there, and the model has none. The two real transactions, a replacing creation
and an admission, lock the thread row (`thread.lock`) because the code does.

A worker's tick is its program counter: expire the due proposals of its scan,
claim up to `MaxConcurrency` and start their executions, wait for the awaited
ones, then deliver up to `OutcomeBatch` outcomes. `jobs` are the executions: the
tool runs while `Renew` extends the lease, and its result is settled only when no
renewal was refused (`Fenced`). `stop()` clears the timers of tools that go on
running, as the code does. Faults are a store call that throws (`TickThrows`,
`RenewThrows`, `SettleThrows`, each with what the `catch` around it leaves behind)
and the death of a process. The executor's returned value is an input; what the
executor itself checks about tools and actors is not modelled.

### How `ChatQueue` corresponds to the code

One thread, one process, the inline runner. A *task* is a request being served or
a turn; its `pc` names the `await` it is at, and each store statement is one step,
so requests, drains and turns interleave at every `await`. `plan`, `launch` and
`restore` are the same steps for every caller: a turn that ends, a cancel and a
kick; `back` remembers where to return to. `Live` and `Starting` are the runner's
map and the queue service's set, derived from where the tasks stand. A turn's own
work is one state, `running`: it completes, fails, or stops at a safe point after
somebody cancelled it. A message's id is also the id of the run it starts, as in
the code, and `Spare` are the new ids of messages put back by `restore`. `scenario`
is chosen at the start and never changes: it says of which kinds each request may be,
how many are served at once and which faults happen, so that one run covers several
such choices.

### How `StreamWrites` and `TokenStream` correspond

A frame is the sequence of the `write()` calls it concatenates, which is all that
order, loss and duplication depend on. `gather[p]` is what `CoalescedWrites` keeps of
the run in one process: the delta being gathered, the queue behind it and the failure
owed to a later call. Each append is one step of the transport, and the step may fail,
fail after it landed, or die with its process. The writers are the run's own and a
delegate that forwards into the same stream, in the same process or another.
`backend` picks the transport: the in-process buffer, SQL rows numbered by
`MAX(seq) + 1`, or the Redis list with its publication and its state key. `gen` counts
how often a stream lapsed, because rows of two lives must not compare equal.

`client` is the browser and the subscription behind it. Reading a page, yielding each of
its rows, re-checking that the rows are still those that were read, waiting, and being
woken are separate steps, since a write may come between any two; Redis publications are delivered
separately and may be overtaken by the list. The encoder numbers events by position,
and the client comes back with the last number it took.

### How `AgentRun` corresponds to the code

The engine that runs the workflow is not in this repository. Its journal is modelled
from what `packages/adonis/test/helpers/journal.ts:1` says of it and from its use:
positions are taken in the order of the calls, a recorded position answers what it
holds, a new one has its effect and is then recorded. `Checkpoint` and `StepAt` stand
for `ctx.localStep`, `Wait` for `ctx.waitForSignal`. A crash may fall before the
effect, or between the effect and the record, or cut one of several overlapped reads
and not the others; the body then starts over and walks its journal.

`body` is the loop's place in its step and batch, `db` what the store holds of the
run, its calls and its thread. Claiming a call, deciding what its approval needs,
parking, and running are steps of one batch in the code's order; reads that the loop
overlaps take their positions when they start and end in any order, as in
`agent-loop.ts`. A claim is what the checkpoint `persist:toolcall` returns: a preflight
that denied, failed or completed the call settles its row there (`Preflights`), and the
rest of the step tells the model what the claim said; otherwise the action runs at once
(`auto`), waits for a person with the policy's `ttlMs` (`ask`) or without one (`hold`), or
becomes a proposal. `threw` stands for whatever makes the claim throw: the row it finds
after a crash, a proposal whose stored payload differs, a policy that fails. `Halts` is
the `halt` of the step: a proposal, or a terminal tool that succeeded. People send
`Replies` through the route, which checks the row before it signals, so the reply and
the deadline race. A Stop takes six steps, as `DurableAgentRunner.cancel` and its
service do, and each of them may meet the body doing the same. `Diverged` would be the engine's answer to a replay that asks for
something else; `NeverDiverges` says that it does not occur, which is why the path
behind it is not modelled.

### How `ChannelBursts` corresponds to the code

The channel store's keys are `taken` (the webhook's claim of a message id), `slot`,
`tail` and `head` (the burst log), `owner`, `batchDone` and `turnKey`; each write of
one is a step. A slot that is claimed and not yet written reads as null, as the memory
and Lucid stores give it. A message's job is started once per id, as
`engine.start` does, and the jobs of one conversation run one at a time (the
singleton of `registerChannelWorkflows`). `job` is where the running one stands in
`gather`, `prepare` and `act`. An error or a crash starts the phase again from its
beginning with the store as it is (`PhaseRunsAgain`), or uses up its attempts and
reports the job (`JobFails`). A send that throws is a step of its own (`SendFails`): it
may have thrown before the service stored the message or after, and the handler, which
cannot tell, gives the turn key back either way. `cuts` remembers which phase of which
job was cut, and whose send threw late; it is history, and only the properties read it.

A look at the log that is followed by another wait changes nothing and is a stutter;
`Look` is the last one. It reads the whole log in one step: the webhooks write
different slots and do not depend on one another, so whatever an interleaved scan
reads, one step reads after some other order of the same writes. Instants
are the order in which the webhooks took their messages. The slots a leader still has to
claim are a set, taken from the lowest up (`left`), and the messages past the gate keep
their places in the batch (`through`), of which the first names the turn.

## 3. Runs

Every run explores all interleavings of its instance. `CHECK_DEADLOCK FALSE` is
set in the `ChatQueue` runs only because a system whose requests are all answered
and whose turns are over stops.

### Action proposals

| Run | Shows | Instance |
| --- | --- | --- |
| `decisions` | `OutcomeIsWhatHappened`, `FirstDecisionStands`, `OnePendingPerGroup`, `ReplacedByNewcomerOnly` | Two callers, three proposals (two replace each other, one of them expires), the thread may be deleted, creations are replayed |
| `execution` | `TypeOK`, `SettledByItsHolder`, `ClaimsAreExclusive`, `RowsOnlyAdvance` | Two workers that may be stopped while their tool runs, one approved proposal, leases of 2 in a time of 3, one fault anywhere |
| `delivery` | `PostedOnce` | Two workers, one expired proposal, turns and the thread's deletion, delivery leases that lapse, one fault |
| `lifecycle` | `RunsOnlyApproved`, `ImplementsLifecycle` | Two replacing proposals, one worker, from creation to notice: the model implements `ProposalLifecycle` |
| `liveness` | `ApprovedSettles`, `DueExpires`, `OutcomeDelivered` | One process that may crash once (or meet one throwing store call) and comes back under the same name, one expiring proposal, a caller, turns that take the thread, unbounded time |

Bounds. Two writers are enough for every conflict on a row: a lost update, a stolen
lease and a late settlement each involve one writer that read and one that wrote. A
third proposal is there where a property is about a group and a bystander.
`MaxAttempts` is 2 (the code has 32): one retry exercises the fresh read, the
second failure the give-up answer. `MaxTime` lets every lease taken early lapse and
be taken again. One fault per run is what the code's recovery is written for; the
liveness run states its properties under it.

### Thread message queue

| Run | Shows | Instance |
| --- | --- | --- |
| `thread` | `TypeOK`, `DrainsByItself`, `NothingLost`, `StartedOnce` | Two scenarios. `Edits`: a queued send, a `chat()`, a removal and a reorder, three at a time; turns fail, the quota is used up. `Settles`: a send, an interrupting send, and two of a Stop, a promotion, a resume and a clear, one at a time beside the turns; once, between any two steps, the process dies or a start fails |
| `stuck_stop` | A disagreement (section 5) | A send, a queued send and a Stop |

Bounds. `inFlight` bounds the requests served at once; turns and their drains come on
top. `MaxDrain` is the code's 8 and is not reached at these sizes.

`DrainsByItself` says what `Drained` says where no Stop, resume, clear or failing
start is among the requests; with a Stop `Drained` does not hold, which is what
`stuck_stop` shows (section 5 says what happens with the others). `NothingLost` is
stated without crashes and failing starts: the inline runner takes the message out of
the table before its run has a row, so a process that dies in between loses it, and
nothing in the repository claims otherwise.

### Streams, turns, channels

| Run | Shows | Instance |
| --- | --- | --- |
| `streams` | `TypeOK`, `CallOrderKept`, `EndIsLast`, `ClientIsInStep`, `DoneIsComplete`, `NoLostWakeup`, `FailureIsReported`, `ClientIsReleased` | Each transport; the owner and a delegate, in one process or two; three writes of text, reasoning or events; a page of one row; an append fails, its reply is lost, a process dies, the connection drops or the rows lapse, once |
| `turn` | `TypeOK`, `NeverDiverges`, `RunsOnlyApproved`, `RowsTellTheTruth`, `RepeatedOnlyByCrash`, `EndedIsSettled`, `CompletedIsWhole`, `SpendIsRecorded`, `TurnEnds`, `CardCloses` | Two model steps and two calls: overlapped reads, a malformed question set before a good one, one action or two; an action fails or is completed and presented by its claim, waits with a deadline or without one, or becomes a proposal; the second call is of a terminal tool; tools and the gate fail; one crash, one reply, two instants |
| `turn_stopped` | `NextWaitsItsTurn`, `StoppedThreadMovesOn` | One action, refused by its claim, run at once or put to a person; a Stop or an interrupt in its six steps, a message waiting, one crash, failures of quota, model and start |
| `handover` | A disagreement (section 5) | A turn, a waiting message and a crash |
| `bursts` | `NeverDropped`, `NeverTwice` | Three messages of one sender: the second delivered twice, the third never grouped, the first possibly stopped at the gate; two webhooks at a time; one fault at any write of a webhook or a phase, or in a send |

Bounds. `streams`: three writes are the least with which a gathered delta is displaced
by another kind and followed by a third; a page of one makes every row a page
boundary; `Attempts` is 2, as for the proposals. `turn`: two calls are the least that
overlap, two steps the least that carry a result into the next prompt, and one crash
falls between any two steps of the body, replayed slices included; of the claims,
`completed` is `presented` without its presenting step, and `refused` and `auto` are in
`turn_stopped`. `bursts`: a leader,
a member and an outsider; with two webhooks at a time the log's slots are claimed,
written and published in every order. All three have one sender, so what closes a
burst early is the message that is never grouped.

## 4. Fairness

Safety runs assume none. `ActionProposalsLive` assumes, for every worker: the tick
goes on and starts again (the interval timer of `start()`), a store call that was
issued ends, a tool returns, the renewal timer fires before its lease lapses, and a
caller's UPDATE ends, all weak. Time passes under strong fairness: it may only pass
while no store call is outstanding, and such moments keep coming back. Nothing is
assumed of people, of turns or of crashes: `OutcomeDelivered` has the hypothesis
that the thread is eventually left alone, because `admitActionProposalOutcome`
postpones a notice while a turn holds the thread. In this module the clock stands
still and the stored instants come nearer instead, which is the same system since
the code only compares instants with the clock.

`TokenStream`'s `LiveSpec` assumes weakly that a process works off its queue of gathered
frames, that a lapsed stream is purged or its buffer dropped, that a follower goes on
(its timers and its loop), and that a published message is delivered. Nothing makes
the loop write, a client come back, or a fault happen: `ClientIsReleased` speaks of
streams whose writers have all stopped and of a client that is attached.

`AgentRun`'s `LiveSpec` assumes weakly that a worker runs a body it holds (`Body`),
that the engine resumes a run that can go on (`Resume`) and hands a parked run its
reply or its timeout (`TakeReply \/ Lapse`), that a signal a route sent arrives
(`Signal`), and that time passes (`Tick`). Nobody has to decide a card or stop a run:
`CardCloses` speaks of cards with a deadline or an answer that no earlier call of their
step holds back, and `TurnEnds` lets a run wait for a decision that has no deadline.

## 5. Disagreements between the code and what the repository says

Two are runs that TLC must find violated; PROJECT.json quotes the line.

* `stuck_stop`: "anything else queued pauses behind the Stop"
  (`runners/inline-agent-runner.ts:298`). The aborted loop leaves `live` while
  `cancel` awaits the store; then nobody settles the queue or frees the thread.
* `handover`: "a run holds its thread from its claim to its own settle, on every
  replay" (`durable/agent-run-workflow.ts:281`). The `cancelled` hook asks live who
  holds the thread. A worker that dies after the checkpoint that gave the thread to
  the next message, and before it started that message, is replayed, takes the new
  holder for a Stop and returns: the message is in no queue and in no run, and the
  thread stays held.

The others are properties or hypotheses stated in the modules; adding the named
definition to a cfg, with the instance given, shows the counterexample.

* `OneTurn` (`thread`'s cfg with `Scenarios <- OnlyOvertaken`): "admit ONE run per thread
  at a time" (`spi/chat-queue.ts:123`). A run that has claimed the thread and not yet
  registered with the runner is in neither `starting` nor `live`, so another request
  takes its claim for stale.
* `StopObserved` (the same): "the loop observes it at its next safe point"
  (`runners/inline-agent-runner.ts:63`). A Stop of a run that is just being
  launched is recorded as cancelled and its flag is forgotten; the turn runs on.
* `ConcurrencyBounded` (`execution`'s cfg with one worker, `MaxConcurrency` 2, three
  proposals, no symmetry): "Proposals executed at once per process"
  (`packages/adonis/docs/independent-approvals.mdx:36`). A store call that throws
  rejects the tick while its executions go on; the next tick starts a full batch
  beside them.
* `WaitsAsLongAsTheCard` (`turn`): "With a `ttlMs` the frame carries `expiresAt`, and
  the run waits at most that long" (`packages/adonis/docs/streaming-and-http.mdx:260`).
  The card's instant is taken when the call is claimed and the wait's when the body
  parks on it; a call that waits for another one first, or a crash between the two,
  lets the run wait longer than its card says.
* `DoneMeansEnded` (`streams`): "`event: done` for a run that ended" (`sse.ts:123`). A
  subscription is also over when the rows have lapsed, and the encoder closes it with
  the same frame.
* `NoHole` (`streams`): "the first failure of a run is reported and that run's writer
  goes quiet" (`resilient-token-stream-sink.ts:29`). A gathered frame fails after its
  `write` returned; frames already queued behind it are appended before a later call
  learns of it, and a delegate's writer of the same run goes on, so what is stored can
  have a hole in its middle.
* `NeverDropped` and `NeverTwice` (`bursts`) without their last disjuncts: "a message
  is never dropped and never answered twice, through retries, recoveries and
  redelivered webhooks" (`packages/adonis/docs/channels.mdx:416`). Five ways around it:
  a send that throws after `AgentService` stored the message (`agent-service.ts:735`; what
  follows it, the kick, the publication and the state, may throw) is taken for one that
  started nothing (`channels/handler.ts:2134`), the turn key is given back, and the retry
  sends the message again, which is what `NeverAnsweredTwice` shows with one message,
  delivered once (`Deliveries <- OnlyOnce`);
  a gather phase that runs again passes over the members its first run claimed, since
  they have an owner now (`channels/handler.ts:2308`), so the turn starts without them
  and their own jobs end; an act phase that dies after it sent, or whose attempts are
  used up there, has not marked its burst as handled, so the members' own jobs start a
  second turn with what the first one said (`channels/handler.ts:2084`); an `enqueue`
  that fails after the message was logged lets the redelivery log it again, and one
  turn holds it twice (`channels/handler.ts:2707`); and while a webhook that claimed the
  id is still at work, a second delivery is answered 200 as a duplicate, so that nobody
  delivers the message again when the first one fails or dies (`channels/handler.ts:2701`).

Other orders of the same steps, seen while modelling and not kept as definitions:

* A drain that read the pause before a Stop set it still starts the head
  (`chat-queue-service.ts:84`, `:231`).
* A resume or a clear that lifts the pause between a drain's `setQueuePause` and its
  release starts nothing, and the drain does not look again, so the head waits in an
  idle, unpaused thread (`agent-service.ts:921`).
* A kick that meets a claim whose start then fails plans for a holder that is gone
  (`agent-service.ts:716`, `:758`), with the same result.
* The copy of a message put back after a failed start carries no persona
  (`chat-queue-service.ts:342`), while `spi/chat-queue.ts:44` says a queued message
  runs under the persona its send resolved. Personas are not in the model.
* A Stop of a durable run leaves its calls `pending_approval` until somebody tries to
  decide them, while `spi/agent-store.ts:492` speaks of every run that ends without
  settling them.
* A Redis channel store answers a claimed, unwritten slot with the empty string, which
  `gather` parses as JSON and fails on; the phase is then run again (`channels/store.ts:95`,
  `channels/handler.ts:2303`). The model has the null of the other two stores.
* `settleQuestion` that dies between its claim and its `set` leaves a question nobody
  settles (`channels/handler.ts:865`). Questions are not in the model.

## 6. Proofs

### Action proposals

`ActionProposals_proofs` and `ActionProposals_safety_proofs` prove, for any sets of proposals, workers and callers, any lease, lifetimes, number of attempts
and number of faults, every safety property the runs check of `ActionProposals`, and
that it implements `ProposalLifecycle`. They assume what the modules assume of
their constants (`LeaseAssumption`, `NoneAssumption`, `BoundAssumption`).

1. `TypeCorrect`: `Spec => []TypeOK`. `TypeOK` alone is not inductive: the row a
   call is about to store is typed only if the call names a proposal, and a worker
   where its operation needs one. `TypeInv` adds that (`CallFormed`), that only the
   delivery phase of a tick holds an admission, and that an execution past its tool
   has a result. One lemma per transition says that it keeps the type of a row, one
   lemma per step of a store call that it keeps the shape of the call, and one per
   group of actions that it keeps `TypeInv`.
2. `StoreSound`: `Spec => []StoreInv`, the inductive invariant of the store. Its
   heart is `Sound`, a statement about every call anybody has in hand, however old
   the row it read is: the version it would store is at most one ahead of the
   stored row, and *if* it is one ahead, which is what the WHERE of the UPDATE
   tests, then what it stores is a transition of the row that is stored now
   (`Writes`). `Writes` lists what a transition may do: it keeps what is decided,
   settled or delivered, settles what is approved only, makes a notice due and nothing
   else where there was none, moves the generation only to claim, touches the lease of
   an execution only as its claim, and records a result only for the generation
   of the caller. `Sound` survives the UPDATEs of all other callers because each of
   them moves the version (`RowStep`, `SoundStable`): this is what the
   version check buys.
   A call to settle also remembers that the tool returned that result to that
   claim, which is how a result reaches a row only by way of the executor.
3. From `StoreInv`:

| theorem | property | what it adds to `StoreInv` |
|---|---|---|
| `OutcomesAgree` | `OutcomeIsWhatHappened` | nothing: a part of it |
| `HolderSettles` | `SettledByItsHolder` | nothing: a part of it |
| `RowsAdvance` | `RowsOnlyAdvance` | nothing: every step is a `RowStep` of every row |
| `FirstWins` | `FirstDecisionStands` | a caller newly told `applied` found the row pending (`ToldOnce`), so nobody was told so before, and the decision never moves again |
| `OnlyApprovedRun` | `RunsOnlyApproved` | executions begin with a won claim (`JobsShape`), and a won claim is of an approved row (`WonApproved`) |
| `OnePending` | `OnePendingPerGroup` | rows become pending only by a creation, which closes its pending siblings in the same transaction (`RowsMove`, `CreateShape`) |
| `NewcomerReplaces` | `ReplacedByNewcomerOnly` | only a creation that inserts its row supersedes |
| `PostedWithAdmission` | `PostedOnce` | a delivery becomes `admitted` in the transaction that posts, whose UPDATE passed the version check, and in no other step |
| `ClaimsExclusive` | `ClaimsAreExclusive` | `ClaimsInv` |

`ClaimsAreExclusive` is about executions, and an execution begins a step after its
claim was won, so it is not inductive even with `StoreInv`. `ClaimsInv` says of the
calls that won a claim what it says of executions: no claim is ahead of its row,
the one at the row's generation belongs to the holder (`ClaimsHeld`), and no two
claims of a proposal, in a call or in an execution, share a generation
(`ClaimsDiffer`). A claim is won by the UPDATE of its worker alone (`WonOrigin`),
and is then ahead of every other claim (`WinsAhead`).

4. `LifecycleImplemented`: `Spec => ImplementsLifecycle`, under the mapping of
   `ActionProposalsLifecycle`. The initial table shows nothing of any proposal
   (`Absent`); a step shows at most one change. A tool that returns adds to what ran and
   stores nothing (`EffectsGrow`); an UPDATE that stores its row shows, by `Writes`, a
   decision, a result, a notice posted or dropped, or nothing (`ShownByWrite`,
   `UpdateShows`): a recovered lease, a new generation, a renewal and a lost UPDATE are
   stutters. A result that shows is one that ran, because the call that stores it
   carries what its executor returned (`StoreInv`).

### Thread message queue

`ChatQueue_proofs` proves `TypeOK`, `StartedOnce`, `NothingLost` and `DrainsByItself` for
any requests, spare ids, kinds of requests, number of scenarios and `MaxDrain`, from
`QueueAssumption` (a message put back gets an id no request has); `DrainsByItself` needs
one assumption more. None of the first three is inductive: what keeps a message from a second start is not in the queue but in the
hands of the tasks around it. `QueueInv` says where a message can be:

* it waits in the queue, once (`Ordered`), and nobody has started it or told its
  client it is gone (`Waits`);
* a task took it out and carries it (`Carrying`: at `input`, `set` or `restore`), no
  other task carries it and it is not in the queue (`Carried`, `Apart`);
* its own request has not put it anywhere yet (`Sent`), or its id is unused
  (`Unused`);
* it was started once, or taken back and never started (`History`, `Born`).

The step that matters is `Pop`: of several drains that read the same head, the DELETE
answers only one, and that one alone moves from `pop` to `input`. `Locals` says what the
variables of a task hold at each of its steps. The lemmas about the queue itself (`TakenOut`,
`PutIn`, `PutFirst`, `PutLast`) say what removing and inserting do to its ids and to
their order.

`DrainsByItself` speaks of a thread at rest, many steps after the one that would leave a
message behind. `Attended` says, of a scenario where clients only send, queue, remove and
reorder and nothing breaks (`Undisturbed`), who will look after the queue at every step:

* `Held`: a thread that is claimed has a turn that will settle its queue (`Drives`), or a
  task that claimed it for that message and will start it or give it back (`Takes`);
* `Watched`: where the thread is free and not paused and a message waits, some task is
  about to read the queue (`Watches`). A task that gives the thread back is one, since it
  reads the queue once more: a message that came while it held the thread is not left
  behind. When the last turn gives it back, `FreeAttends` finds the task that wants it;
* `Tries`: a drain has lost no more races than messages have left the queue. With fewer
  requests than attempts (`FewRequests`) it therefore never gives up (`NeverGivesUp`).

`FewRequests` is the hypothesis of `DrainedByItself`: with as many competing messages as
`MAX_DRAIN_ATTEMPTS` the code does give up, and leaves the queue to the next send.

### Durable turn

`AgentRun_proofs` and `AgentRun_store_proofs` prove every safety property the runs check
of `AgentRun`, for any number of steps, calls, replies, queued messages and crashes, any
`Ttl`, and whatever the model calls, a claim comes to and the environment does, from
`TurnAssumption`.

A body dies, parks and comes back, and each time walks its journal from the start, so
a property of the body at hand is never inductive: what a fresh body will do depends on
everything journaled before it. The invariant is about all the bodies at once.

1. *The body as a function.* `AgentRun_proofs` writes the loop as what a body asks for
   (`Asks`), what the effect may come to (`Found`), what it does to the store (`Store`)
   and where the body goes with the answer (`Then`), shows that every action of `Body`
   is one of these steps (`BodySteps` and one lemma per action), and that each of
   them keeps the shape a body has at its place (`Shaped`).
2. *The chain.* `Replay(S, f)`: there is a set `S` of bodies that begins at `Fresh`, in
   which the journal leads from each to the next (`Follows`), and ends at a frontier
   `f` whose checkpoint is not recorded; whatever body a worker holds is in `S`, or is
   one of `S` some of whose overlapped reads have come back. `Moved` shows that every
   step either walks inside the chain or moves the frontier by exactly one checkpoint.
   A body of the chain asks for what the journal holds at its position, so
   `ReplayFollowsJournal`: it never diverges.
3. *The store.* `Settles` adds that the store is what the frontier says, whichever body
   is at work: the run's row and the thread (`Thread`), the rows of the calls with a
   result, with a claim, and not claimed yet (`Rows`), who agreed to what ran (`Truth`),
   what the model was told (`Telling`), what was spent (`Spent`), and how the run ended
   (`Completed`, `NoCard`); and that what the journal holds of a call's claim is what the
   frontier claimed (`Filed`): a claim that threw may come before, nothing else. An effect that a crash cut off from its record is one the
   frontier is about to have again, and a Stop or a refused late decision changes the
   store without moving the frontier: both are cases of every part.
4. *The count.* `Accounted(f)` keeps the accounts of what the body does outside its
   journal, against the crashes so far. What the frontier has not come to is not done
   (`Unspent`); a call ran at most once more than the run was cut, and one that is about
   to run at most as often as that (`Retried`); a call claimed as a read is one in the
   journal (`Known`). `Counted` pays for the repetitions: they are contained in a finite
   set no larger than the number of crashes, and smaller while the frontier is about to
   have an effect that is there already (`Owed`), which only a crash before its record
   leaves it. A body that goes on comes to an effect nobody has had (`FirstRun`); one that
   has an effect adds at most one repetition (`RepetitionsGrow`), which was owed.

| theorem | property | the part of `Settles` it comes from |
|---|---|---|
| `ReplayFollowsJournal` | `NeverDiverges` | `Replay` |
| `TurnTyped` | `TypeOK` | `Replay` (a parked run has no body and waits at an unrecorded position), and the kinds of the store |
| `ToldToRun` | `RunsOnlyApproved` | `Truth`: a yes in the mail, on its way or journaled was admitted in time (`Yes`), the frontier reaches the tool of an asked call only by one (`Here`), and whether a call was put to a person is what its journaled claim says (`Filed`, `MayRun`) |
| `ToldWhatHappened` | `RowsTellTheTruth` | `Truth`, `Filed`, `Rows` and `Telling`: a call ran only if its row and its claim let it (`MayRun`), and is done by its tool, its answer or its claim (`ByClaim`); the numbering of the calls is the one the frontiers had |
| `EndLeavesNoCard` | `EndedIsSettled` | `Thread` and `NoCard` |
| `CompletedAnsweredAll` | `CompletedIsWhole` | `Completed`, `Rows`, `Telling` and `Spent` |
| `EveryTurnPaid` | `SpendIsRecorded` | `Spent`: past its `bump` a step has been paid for |
| `OneTurnAtATime` | `NextWaitsItsTurn` | `Thread`: while the row is not settled the run holds its thread |
| `StopFreesTheThread` | `StoppedThreadMovesOn` | `Thread`, by how far the Stop has come |
| `RepetitionsPaid` | `RepeatedOnlyByCrash` | `Accounted` |

`TurnAssumption` also says of which kinds `Turns`, `Approvals` and `Replies` are.
`RowsTellTheTruth` asks for a numbering of the calls instead of adding up the lengths of
the messages; `Numbers` leaves it no choice.
`RepeatedOnlyByCrash` counts the repetitions as the elements of a set, `Repetitions`, so
that what a step adds is a set too, and the finite-set theorems of the library apply; as
a sum over all calls and steps it would need an induction over data.

### Live stream

`TokenStream_proofs` and `TokenStream_client_proofs` prove every safety property the
`streams` run checks, for any writers, processes, kinds of frame, page size, number of
attempts, of writes and of faults, on each of the three transports, from the assumptions of
`StreamWrites` and `TokenStream`.

*The sink.* `SinkInv` says what the writers, the processes and the transport keep,
whoever reads:

* the calls of a process stand in line: what landed, what is queued, what is gathered
  (`Lines`), and unless something of the process was lost, nothing is missing from the
  line (`Whole`);
* a failure or a writer that knows of one has a loss behind it (`Blamed`), and a loss has
  a failure still owed or a writer that knows (`Reported`). That the failure *will* be
  raised needs two more: every queued append of a writer is one it waits for (`Awaited`),
  and while anything is gathered, queued or owed in a process, one of its writers is still
  open, or knows, or waits for exactly the last of the queue (`Minded`);
* the end marker is the last of the owner's queue, nothing gathered behind it
  (`EndQueued`), and the owner ends after every other writer of the run has stopped
  (`OwnerLast`), so that where nothing is lost, an end that is stored is behind all of it
  (`Sealed`); `Marking` is the Redis append between its state key and its publication.

An attempted append is one lemma per part (`Tried...`), since it ends the wait of any number
of writers at once; every step of an open writer is an instance of `Proceeds`, so that the
invariant is shown once for all of them (`ProceedsKeeps`).

*The follower.* `ClientInv` is about streams that never lapsed (`gen` 0), as the
properties are:

* `InStep`: there are numberings of the rows and of the events (`num`, `cut`) that lay
  what landed out into the rows, and the follower's page, position and the browser's
  `last` and `seen` are places in that layout (`Layout`, `Follows`). The witnesses grow by
  one with each row (`LayoutGrows`) and by none with the end marker, which has no number:
  this is why the position of the encoder and the cursor of the follower differ;
* `Told`: whatever made the follower believe that the stream ended is true, and where
  nothing was lost, a drain begun after it believed so reads to the last row;
* `Wakes`: a Redis follower that nothing will wake has read all there is. It is said of
  each place between arming the wake-up and waiting, since a publication may fall
  anywhere between;
* `Linked`: the subscription at the broker is open exactly while the follower may count
  on it.

A step of the follower is one of eight moves (`ClientMoves`); a step of the sink leaves
the rows alone, adds one, or lapses them (`Unmoved`, `Added`, `SinkEffects`). Each part of
`ClientInv` is then shown for the moves and for the rows that land, apart.

| theorem | property | what it comes from |
|---|---|---|
| `CallOrder` | `CallOrderKept` | `Lines` |
| `EndLast` | `EndIsLast` | `Sealed`, and `Whole` for what is left in no queue |
| `LossReported` | `FailureIsReported` | `Reported` and `Minded`: once every writer is done, a failure still owed has one that knows |
| `StreamTypes` | `TypeOK` | `Typed`, `ClientTyped` |
| `ClientNeverSkips` | `ClientIsInStep` | `InStep` |
| `DoneHasAll` | `DoneIsComplete` | `InStep` and `Told` |
| `WakeupsAreKept` | `NoLostWakeup` | `Wakes` and `Linked` |

The witnesses of `InStep` stand for sums over the rows: they let a step say how the sums
grow without computing them, which would be an induction over data.

### Channel bursts

`ChannelBursts_proofs` proves `NeverDropped` and `NeverTwice` for any messages, senders,
deliveries, longest burst, calls in flight and faults, from `BurstAssumption`. Neither is
inductive: a message that is in no turn yet may be in a burst somebody else leads, in a log
nobody has read, or in the hands of a webhook, and whether it is answered a second time
is decided by three keys of the store that different jobs write.

`HookInv` is about the webhooks. Unless one of its calls failed, a message is taken by
one call at a time (`TakenOnce`), which logs it once, in a slot it alone has claimed
(`LoggedOnce`, `SlotsClaimed`), and leaves it with a job or is still at work
(`TakenServed`).

`JobInv` is about the jobs, in three parts.

* `Ledger`, of all messages: a job that has not begun leads nobody and has no burst marked
  as handled (`AheadLeadsNone`); who leads owns itself (`LeadersLead`); a message that was
  answered, or whose turn key is set, has an owner (`AnsweredOwned`). A message answered
  before its own job is past its gather is led by another, whose burst is handled, or was
  cut in `act`, had its send throw late, or has just been sent (`AnsweredEarly`): this is what
  stops its own job, and one of the two places a second turn comes from. The members of a handled burst, and messages
  whose job is over, are dealt with (`DoneDealt`, `GoneDealt`).
* `Batch`, of the running job before the gate: what it has gathered it leads, once, and
  nobody answered it (`BatchLed`, `BatchOnce`, `BatchNew`), what is left to claim is
  free (`LeftFree`), and it has gathered all it leads unless a gather of it was cut
  (`BatchWhole`): a phase that runs again passes over what its first run claimed.
* `Through`, of the same job past the gate: what it may answer it leads, once
  (`ThroughLed`, `ThroughOnce`), and while its turn key is free nobody answered it,
  unless a send of its threw late (`ThroughNew`), the other place a second turn comes from; with the key kept, all of it is dealt with (`ThroughDealt`). `KeyHeld`
  says at which steps the key is claimed and kept.

There is one lemma per action. Each exception in the two properties is a case of
an invariant that a fault opens, and no other step does.

Out of the provers' reach, and left to TLC: liveness under fairness (and
`ENABLED`), so `ApprovedSettles`, `DueExpires`, `OutcomeDelivered`,
`ClientIsReleased`, `TurnEnds` and `CardCloses` are model-checked only; and induction
over data, so what a fold over a queue or a log computes for every one is not stated as
a theorem. The modules use no `RECURSIVE` operator. Every other property of the passing
runs has a theorem.

## 7. Not modelled

* Proposals: listing, the discovery index and its backfill, remembered grants,
  input validation, the executor's own checks of tool and actor, text decisions; an
  executor that never returns, which keeps its lease renewed and its tick waiting.
* Queue: personas, actors and texts of messages, `regenerate`, edits of a waiting
  message's text and attachments, the frames written to streams, detached
  delegates, store calls that throw (other than the one that starts a turn), several
  threads (they share no state), and the drain that gives up after
  `MAX_DRAIN_ATTEMPTS` lost races.
* Loop: delegation to sub-agents and detached runs, memory, retrieval, skills, the
  history window, structured output, titles, remembered approvals, retries of transient
  tool errors, generated UI, the frames it writes, the error that ends a wait after a
  hundred replies that were no decision (`agent-loop.ts:1308`), store calls that throw
  other than a claim's, and journals written before a field existed.
* Durable runner: children, workers' leases, configuration, a Stop that comes before
  `persist:run:start`, and what the engine does with a replay that diverges.
* Streams: `close` of a run (the loop has no caller), `flushMs` 0, encodings, creation
  of the table, an error frame's `event: error`.
* Channels: adapters, media, questions and their timeouts, the reading and delivery of
  a turn, proposals, the inline executor, times to live of the store's keys, and a phase
  that runs twice at once after its dispatch was lost.
* The components of section 1 without a module: the plan below says which come
  next; the adapters, the browser clients, retrieval, generated UI, guardrails and
  dashboards translate or display and keep no state whose interleavings matter.

## 8. Plan

1. `ThreadAdmission`: an abstract specification of one thread (waiting, running,
   paused) that `ChatQueue` and the thread half of `AgentRun` refine where the
   disagreements above do not reach.
2. `ChannelQuestions`: a question put to a conversation, its answer, its timer, the
   turn's delivery and its retries.
3. `ConfirmTokens` and `QuotaLedger`: single use, and check-then-record.
4. Delegation: a parent's wait for a child run, a detached delegate's report, and a
   Stop that reaches both.
5. Proofs: that `ChatQueue` implements `ThreadAdmission`, from `QueueInv` and `Attended`;
   and for each new module its inductive invariant.
