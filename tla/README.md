# MusePi: specifications of the session daemon and its agents

TLA+ specifications of three parts of MusePi: what keeps a conversation consistent
between the daemon that runs it and the clients that show it, and what keeps the
agents of a session consistent with each other (background jobs, limits,
questions to the user), and what keeps a supervised process under control. With
them are the TLC runs that check the specifications
on small instances, and the TLAPS proofs that hold for every instance.

Paths below are relative to `src/`. `journal.ts`, `session-host.ts`,
`event-batcher.ts`, `server.ts`, `session-owner-lock.ts` and
`services/session-service.ts` are in `packages/coding-agent/src/daemon/`; `session-store.ts`, `rpc.ts` and `app.tsx`
in `packages/desktop-app/src/`; `async/`, `session/`, `task/`, `tools/`, `launch/` are under
`packages/coding-agent/src/`, `agent-loop.ts` is in `packages/agent/src/`.

## 1. Inventory

The repository is a coding agent with many front ends. Most of its volume is
providers, tools, terminal rendering and native code, which either computes over
one input or talks to the outside. The logic that is hard to test sits where
several callbacks share state: the daemon's session host, its journal, the
stream to the clients, the clients' gate, the locks and queues around agents.

| component | state it keeps | operations | correct when |
|---|---|---|---|
| **journal** (`journal.ts`) | `#seq`, a promise chain of pending writes, the append handle, the file, the checkpoint file | `open`, `append`, `flush`, `compact`, `readAll`, `recordsAfter`, `replaySource`, `close` | one numbering across restarts; a written record is never lost; appends never stall; a cursor in range can be answered |
| **session host** (`session-host.ts`) | live sessions, each with view, journal, subscribers, checkpoint | `adopt`, `publishWireEvent`, `snapshot`, `catchupFrom`, `subscribe`, idle scan, `dispose` | a snapshot and what the stream brings after it are the history |
| **event batcher** (`event-batcher.ts`) | one queue and window timer per connection | `push`, flush on window, size or backpressure deadline | order kept; every event leaves |
| **session store** (`session-store.ts`, `app.tsx`) | watermark, reorder buffer, catchup in flight, guard timer; which store is on screen | `#admitSeq`, `#requestCatchup`, `#armGapTimer`, `#triggerResync`, `openSession` | the transcript is a piece of the history; a hole is filled or replaced |
| **RPC client** (`rpc.ts`) | pending calls, connection status | call, message, close, reconnect | every call settles |
| **session owner lock** (`session-owner-lock.ts`) | a lock file per transcript, held by pid, refreshed by a heartbeat | `acquire`, take-over of a stale lock, heartbeat, `release` | one owner per transcript |
| **semaphore** (`task/parallel.ts`, under `provider-concurrency.ts`) | capacity, holders, waiters | `acquire`, abort, `release`, `resize` | capacity respected; waiters served in order; no lost slot |
| **approval bridge** (`daemon/approval-bridge.ts`) | pending approvals and asks, recent resolutions | ask, answer, time out, abort | one settlement per question |
| **async jobs** (`async/job-manager.ts`, `job-ledger.ts`) | jobs, deliveries, ledger on disk | start, finish, deliver, acknowledge, evict, recover | a result is delivered once, or reported |
| **yield queue** (`session/yield-queue.ts`) | asides waiting for a run, the latch of the idle flush | enqueue, drain, idle flush, clear | no aside lost or run twice |
| **agent loop** (`packages/agent`) | messages, steering and follow-up queues | turn, tool calls, abort | every tool call has a result; queues drain |
| **launch broker** (`launch/broker.ts`) | records of supervised processes with generation, state, restart timer, pending completions; a metadata file each | start, stop, restart, refresh, settle, persist, recover, notify | no process off the record; a stopped one stays stopped; an end is reported once |
| **collab** (`collab/`) | replicated session for guests | join, welcome, events, agents | guests converge with the host |

How they meet. The SDK session emits an event; the host's subscriber appends it
to the journal (which numbers it at once and writes it later), folds it in the
view, perhaps starts a compaction, and pushes it to the subscribers' batchers.
A client opens a session with one call that returns a snapshot and a cursor;
everything after the cursor comes over the stream. Of a session that is not live
the snapshot comes from the files, in several reads, and only the next call of the
open, for the pause state, makes it live. A client that sees a hole in
the numbers asks the host for the records in between, which the host reads from
the journal file. When the file does not have them any more, the client is told
to fetch a new snapshot. Responses and events share the connection but not the
queue: responses overtake batched events.

Inside the daemon a session's agent starts jobs and subagents. A subagent waits
for a slot of its parent's semaphore, and each model request of any agent for a
slot of the provider's. A finished job is enqueued by the manager, formatted by
the session's sink, put on the yield queue and drained by the agent loop at its
next boundary, or by an idle flush that starts a run; tools that wait for the job
suppress that path and report it themselves. A tool that needs the user's consent
waits in the approval bridge, whose records are broadcast to the subscribers and
ride the snapshots.

The launch broker is a process of its own that outlives sessions. Its clients
send it requests over a socket; children's exits, restart timers and the requests
of several clients change the same records across awaits, each change queues a
write of the record's metadata file, and the next broker starts from these files.

The hard behaviours, each listed with its line in `PROJECT.json` (`hazards`):
appends interleaved with every `await` of a compaction; a daemon that dies
between two renames or inside a line; a rename or reopen that fails; a cursor
computed before an `await` and used after it; a snapshot read after the tail it is
stamped with; a resync that meets an open in flight; live events between two pages of
a replay; answers for a store that has been replaced; a guard timer that races
the answer it guards; a restart that falls back in the numbering while a client
holds a cursor of the previous life; a job that ends while a tool watches it, or
during the last steps of a run, or across a `/new`; an id that is reused while
results of its first owner are under way; a slot that is freed while its waiter
is aborted or the limit is lowered; a question settled between the snapshot that
shows it and the stream that would take it away; an end of a process that two
callbacks notice; a broker that dies between a spawn, an end or a notice and the
write of it, or goes on after a write that failed.

## 2. Modules

| module | models | role |
|---|---|---|
| `SessionJournal` | one `AppendJournal`, the host code that opens, feeds and compacts it, deaths of the process | component, the core |
| `SessionJournalProofs` | types, numbering and replay source of the journal | proofs |
| `TranscriptFeed` | what the stream promises: the transcript is a prefix of the history that one store only extends | abstract specification |
| `SessionStream` | host, batcher, wire, client gate and open path; implements `TranscriptFeed` | composition |
| `SessionStreamProofs` | theorems about it, the refinement included | proofs |
| `OwnerLock` | the owner file of a session, several processes and several sessions in one of them | component |
| `OwnerLockProofs` | theorems about it | proofs |
| `MCOwnerLock` | two processes, one opening the session twice | instance for TLC |
| `JobDelivery` | job manager, ledger, sink, yield queue, the boundaries of the agent loop, the tools that wait for jobs, abort, `/new`, adoption after a death | composition |
| `JobDeliveryProofs` | theorems about it | proofs |
| `Selection` | `Array.filter` by a set, as queues and tables use it | operator |
| `SelectionProofs` | selections, removals and concatenations of sequences | lemmas |
| `SlotSemaphore` | `Semaphore` as operators on a record | data type |
| `SpawnSlots` | a tree of agents under the provider's and the sessions' semaphores | composition |
| `SpawnSlotsProofs` | the operators of the semaphore, and theorems about the tree | proofs |
| `MCSpawnSlots` | a root and three children | instance for TLC |
| `EventBatcher` | the coalescer of a connection as operators on a record | data type |
| `QuestionCards` | approval bridge, broadcasts, snapshot and attachment, batchers, the client's cards | composition |
| `QuestionCardsProofs` | theorems about it | proofs |
| `LaunchBroker` | one supervised name: requests, generations, timers, metadata, death and recovery of the broker, notices to the client | component |
| `LaunchBrokerProofs` | theorems about it | proofs |
| `MCLaunchBroker` | children and a detached process, each with how much happens to it | instance for TLC |

The other modules have constants a `.cfg` can write and need no instance of
their own. A mutant of a definition stands next to it: the same operator with a
plausible bug, used to see that a property notices.

### SessionJournal

An event is the number of its publication. A journal line is `[seq, ev, ok]`;
`ok` is false for a line of which only a part reached the disk. Two lines may
carry the same `seq` with different events: that is what the properties look for.

| variable | code |
|---|---|
| `file`, `torn` | the lines of `<session>.journal.jsonl`; whether the last one lacks its newline |
| `ckpt` | the checkpoint file: tail and view at the compaction, `seq = 0` when absent |
| `seq` | `#seq` |
| `queue`, `link` | the unsettled links of `#pendingWrite`, and how far the first is: it waits for its turn, it writes, or it awaits a promise nobody resolves |
| `fd`, `fdReady` | `#fd`, and what `#fdReady` resolves to (`never`: the promise `#releaseFd` installs) |
| `view` | the events `live.view` has folded |
| `pc`, `cut`, `keep`, `barrier` | which `await` `compact()` is at, its arguments, the records it keeps, and the last append its current `flush()` waits for |
| `written`, `exposed` | history: events whose line reached the file whole; events appended where the code can lose them |

Actions. `Open` is `open()` with `readTailSeq` and the seeding of the view in
`#adoptAgentSession`. `PublishOnly` and `PublishAndCompact` are the host's event
handler: append, fold, and (second) the call of `compact` with the tail and
view of that moment. `LinkStart` and `LinkDone` are one link of the chain.
`FlushBefore`, `WriteCheckpoint`, `ReadKeep`, `WriteTmp`, `DrainForRelease`,
`ReleaseFd`, `FdClosed`, `Rename`, `ReopenFd` are the awaits of `compact`,
`#replaceFile`, `#releaseFd` and `#reopenFd` in their order, with
`RewriteFails` for a rejected write and the failing branches inside `Rename`
and `ReopenFd`. `Crash` and `CrashTorn` end the process.

What is abstracted. The thresholds of `shouldCompact` (2000 events or 4 MiB,
looked at every 200th event) are a free choice at each event. Byte windows, the
line index and the reverse scan of the tail are reads of whole lines. A torn
line keeps its readable `{"seq":N` head or is not there. One journal instance
runs one compaction at a time. A link that has taken the handle when `close()`
begins fails with EBADF and drops its record, as does one that finds no handle.
Closing a session in good order (`close`, `dispose`) and the registry of several
instances over one file are left out. `HasTranscript` says what seeds the view
after a death: the SDK transcript or the persisted row of the view store, which
may lack any events the journal has and hold any it lost (the comment
`session-host.ts:1702` says so of the transcript), or the checkpoint and the
journal. What the seed lacks is counted as `exposed` at once, since the next
compaction publishes that view and trims its lines.

### SessionStream and TranscriptFeed

`SessionStream` takes the journal as a healthy one: `log` is the event of each
number, `base` the records compaction has removed, `ckpt` the checkpoint. When
that is wrong is `SessionJournal`'s question. An event is its position in the
history of the session. One client and one session: events of other sessions are
dropped by the client before the gate.

| variable | code |
|---|---|
| `live`, `subscribed` | the session is in `#sessions`; the connection is in `live.subscribers` |
| `resume` | a `session.resume`: called, on the history path with the age of the cached view (`cold`), with the tail read (`tail`), with its snapshot made (`captured`) |
| `pauseAsked` | the `session.pauseStatus` that ends an open |
| `requests` | `session.catchup` calls: asked (checkpoint compared), read (file read), push (pages) |
| `batch`, `wire` | the connection's batch; messages under way, responses included |
| `opening`, `store`, `mounted` | `openInFlightRef`, and whether it waits for the snapshot or for the pause state; the number of the last store; whether it is on screen |
| `watermark`, `reorder`, `inFlight`, `gapTimer`, `resynced` | the gate of `GuiSessionStore` |
| `shown` | the transcript on screen |
| `stale`, `refused` | history, of the store on screen: its snapshot was older than its cursor; its resync met the open that had made it |

Actions follow the handlers: `Publish`, `Compact`, `IdleDispose`, `Activate`,
`Capture` and `Respond` (the two halves of `session.resume`, the stream is
attached after the response), `AnswerPause`, `PlanCatchup`, `ReadCatchup`, `PushPage`,
`EndCatchup`, `FlushBatch`, `UserOpens`, `UserSends`, `Deliver` (with
`MountStore`, `EndOpen`, `CatchupAnswered`, `DropReplay`, `Apply`, `Hold`),
`GapTimeout`, `Disconnect`, `Restart`, `Reconnect`. `Capture` is one step for a
live session (`CaptureLive`: that branch of `snapshot()` has no await) and three
for another: `OpenHistory`, `ReadTail`, `BuildView`, between which the session may
be activated by somebody else and go on. The view that is built then is any from
what the last dispose persisted to what has been published, so it may show more
than its cursor names, which the stream replays, or less. `Apply` folds a replayed
event by its key: what the screen has is not shown again (`Unseen`). An open ends
in `EndOpen`, when the pause state has come, and a resync before that is dropped
(`TriggerResync`). A restart keeps a prefix of the log (what was written), numbers
from 0 when compaction had emptied the file, and goes on from the part of the
history that the files still have.

What is abstracted. When the batcher flushes is a free choice. After a death,
whoever reads the session's files finds the same history, shorter or not than it
was; the three sources of a view (the cached row, the journal, the transcript) are
not told apart. Reloading in place
after a moved leaf and paging older history are not modelled; questions and
their cards have a module of their own, `QuestionCards`, which leaves the
numbered events out.

`TranscriptFeed` has three variables, `total`, `shown`, `store`. The pipeline
implements it with a transcript counted as none that is about to be replaced, has
no connection, or began behind its cursor.

### OwnerLock

A caller is one call of `acquireSessionOwnerLock`. Its random token names the
lock it may create, and the file is known by the call that created it: a holder
written to a file that was unlinked meanwhile reaches nobody.

| variable | code |
|---|---|
| `file`, `full`, `old` | the owner file, by creator; whether the holder has been written in it; whether its heartbeat is older than `staleMs` |
| `held`, `refs`, `timer` | the map of a process; `refs` and `timer` of a lock |
| `beat` | a run of the interval: it reads the file, or it has read its own token and is about to rename |
| `pc`, `tries`, `seen`, `handle` | where a call is, its attempts, the file `readOwner` saw, the lock its handle belongs to |
| `raced` | history: one of the three races below has happened |

`Share` and `Begin` are the lookup in the map; `Open`, `WriteOwner`, `Enter`,
`ReadHolder`, `Unlink`, `LastRead` the file operations of the two attempts;
`Release`, `ReleaseRead`, `ReleaseUnlink` the last handle's release;
`BeatFire`, `BeatRead`, `BeatWrite` the interval; `Stall` and `Die` are
external. Time is only in `old`: a heartbeat may come late at any moment. No
caller in the repository asks for a takeover, but the option exists, so the set
of calls that use it is a constant. Process ids are not reused.

The races are the places where the code acts on a file it does not know: it
doubts a file whose creator is about to write it (or runs although the heartbeat
is old, or a takeover was requested), it unlinks a file other than the one it
read, or a heartbeat replaces another's file. `OwnerOnDisk` says that nothing
else can separate a handle from the file.

### JobDelivery

A job is the number of its registration; its id (`bg_N`) is reused once the job
is evicted. A transcript is a generation of the session: `/new` starts the next.

| variable | code |
|---|---|
| `born`, `idOf`, `home`, `status`, `body` | the jobs registered, their id, transcript and status, and whether their run promise is unsettled |
| `jobOf`, `suppressed`, `watched`, `timers` | `#jobs`, `#suppressedDeliveries`, `#watchedJobs`, the retention timers: all by id |
| `deliveries`, `sinks` | `#deliveries`; the sink calls that await the formatting of a result, with the generation they noted |
| `queue`, `flush` | the async-result entries of the yield queue; the latch of its idle flush |
| `run`, `stopped`, `tool`, `asides` | where the agent loop is, whether its signal is aborted, the tool that waits, the pending messages |
| `epoch`, `latest`, `aborting` | the transcript on screen, those so far, an `abort()` in progress |
| `rows`, `entries`, `adopting`, `appended` | the ledger's rows, the `async-job-result` entries of the transcripts, and how far adoption is with replaying rows |
| `told`, `asked`, `replayed`, `missed`, `lapsed`, `earlier` | history: injections, reports by a tool, replays, and jobs that met one of the cases the invariants except |

`StartBackground` and `StartForeground` register a job; `JobSettles` and
`JobUnwinds` are the end of its body; `Evict` the retention timer; `Deliver` and
`SinkReturns` the delivery loop around its await. `Prompt`, `IdleFlush`, `Drain`,
`Commit`, `ModelStops`, `EndRun` are the loop; `BashWakes`, `BashReturns`,
`BashBackgrounds`, `BashAborts` a foreground command, `HubWait`, `HubMessage`,
`HubTimeout`, `HubUnwatch`, `HubReturns` a wait (with a window or, for
`timeoutMs: 0`, without), `HubJobs` and `HubCancel` the
calls that do not wait. `Abort`, `SkipFlush`, `AbortEnds`, `NewSession` end a run
or a transcript; `Crash`, `Adopt`, `AppendResult`, `MarkResult` are death and
recovery.

What is abstracted. A job that fails is delivered like one that completes. One
agent owns all jobs, so owner filters are gone. The sink of the repository does
not throw, so the retry with backoff never runs. The running cap, the 20 rows a
page of the ledger returns, progress and output, the orderly dispose and the
deadlines of run drivers are left out. Any delivery may be taken first, which
covers both the loop and the filtered drain. In the code a job may be registered
under the id of a job that has been evicted while something of the old one is on
its way; the jobs this disturbs are in `lapsed`, and the invariants say nothing
of them.

### SlotSemaphore and SpawnSlots

`SlotSemaphore` is the class `Semaphore`: `max` (0 for no limit), `used`, and the
queue of the `acquire` calls that are not resolved. A waiter is admitted when it
leaves the queue with a slot counted for it; its own code runs in a later step,
and that gap is where an abort may fall.

`SpawnSlots` has a tree of agents given by `Parent`. `at[a]` is where an agent's
code stands: `slot` (waits for a spawn slot), `call`, `provider` (waits for a
request slot), `stream`, `tools`, `ends`, `done`. `permits` and `streaming` are
the agents for which a slot is held, `inline` those whose parent's turn waits for
them, `stopped` those with an aborted signal, `provider` and `spawn` the
semaphores, `providerLimit` and `spawnLimit` the settings. `Spawn`, `Enter`,
`Settle`, `Detach` are the life of a subagent; `Call`, `Request`,
`StreamSettles`, `NextTurn` a turn; `Abort` and `Forward` the signals; `Change` a
changed setting. A changed provider limit is noticed at the next model call, a
changed spawn limit at the next spawn or release, as in the code.

What is abstracted. `Turns` bounds the model calls. The limit on the depth of the
tree is the shape of `Parent`. One setting stands for those of all sessions. A
detach that the cap on jobs refuses changes nothing and is left out.

### EventBatcher and QuestionCards

`EventBatcher` is the queue and the timer of one connection: `PushOne` flushes a
full queue and arms the timer otherwise, `Flush` holds when the socket's buffer
is full and arms the timer for a retry. Whether a flush is held is a free choice
at each one.

`QuestionCards` puts it between the daemon and the clients, for the questions an
agent raises: approvals, kept by the session's store, and asks, for which the app
has one card.

| variable | code |
|---|---|
| `pending`, `timers`, `recent` | the tables of the bridge, their timeouts, the ring of recent settlements |
| `verdict`, `told` | how a question was settled, what the agent that asked was told |
| `up`, `attached`, `batcher`, `wire` | the connections, `live.subscribers`, batch and frames on the way |
| `opening`, `snap` | a `session.resume` and the questions in its snapshot |
| `wanted`, `shown`, `cards`, `slot`, `later`, `clicked` | the client: the session it opens and shows, its approvals, the ask card, `deferredResolutionsRef`, approvals it has answered |
| `calls`, `missed` | answers on their way; asks settled and forgotten while the client was away |

`Raise`, `Timeout`, `Elsewhere`, `Handle`, `Expire` are the bridge; `Capture`,
`Respond`, `Attach` the three parts of an open (snapshot, replayed settlements
with the response, replayed questions with the stream); `FlushFires` the
batcher's timer; `Open`, `LookAway`, `Deliver`, `Decide`, `AnswerAsk`, `Drop`,
`Reconnect` the client.

What is abstracted. The ring remembers 64 settlements in the code and all of
them here, until they expire; they expire when nothing is on its way to a client,
since a frame takes less than the minute they are kept. The daemon notices
a lost connection at once. An aborted run does not settle its question (see
section 4).

### LaunchBroker

A launch is a number; its process and, for the first launch of a record, the
record have the same number. A record's generation in the code counts its own
launches; here it is the number of the last one, so that a generation of a
replaced record is not taken for one of the new record.

| variable | code |
|---|---|
| `current`, `recs`, `owner` | the record of the name in `#records`; the records, replaced ones included, since requests and callbacks hold them; the record of a launch |
| `opening`, `reading`, `settles` | `#launchDetached` before its spawn; `#refreshDetached` and `#settle` before the output is read, with what they captured |
| `armed` | timers that will call `#launch`, as opposed to `timer` in a record, which is `restartTimer` |
| `watched`, `proc` | the processes whose `exited` this broker awaits; which processes run |
| `ops` | requests: what they do, at which await they are, the record they hold |
| `telling`, `box`, `seen` | completions that await `persistQueue`; `#pendingCompletions`; what the client's sink was given |
| `writes`, `meta` | `persistQueue` of each record; the metadata file |
| `up`, `closing`, `deaths` | whether a broker runs; `#shuttingDown`; its life |
| `asked`, `ended`, `stray`, `lost`, `unsaved` | history: launches that were to be stopped; launches with a completion; one of the races of `ProcessOnRecord` happened; processes no file named when a broker died; completions that are not on disk though they were or will be announced, those of a recovering broker and those whose write failed |

`Launch` is part of `StartLaunches`, `RestartLaunches` and `TimerFires`. `Opened`
and `OpenFails` are the two ends of a detached launch, `Exited` a child's exit,
`Refresh` and `RefreshRead` the look at a detached process by any request or by
the monitor, `Settles` the rest of `#settle`. `Start`, `StartChecks`,
`StopOrRestart`, `StopRecord`, `Kill`, `Waited`, `Shutdown`, `Drained`, `Exit`
are the awaits of the requests, `OpensNothing` the failing ones. `Write`,
`WriteFails`, `Notify`, `Deliver`, `Ack` carry a completion to disk and client; `Crash` and
`Recover` end a broker and start the next.

What is abstracted. A name has the same spec at every start. Readiness, output,
logs and PTYs are left out: `starting`, `ready` and `running` are one state.
A write equal to the one queued before it is not repeated; a write that fails
leaves the file as it was, and only a log line tells. The exit of a pipe process
comes with the end of its output, which a descendant may put off for ever. `terminate` ends
its process. The owner has subscribed and stays so, and its one client keeps what
it has seen.

## 3. Runs

TLC on two workers; every run takes less than a minute but `question_cards` and
`stream_gate`, which take one and a half, and `stream_restart` and
`launch_broker`, which take three. Deadlock checking is off in all of
them because the bounds stop the system.

| run | bounds | shows |
|---|---|---|
| `journal_rewrite` | 5 events, 2 compactions, 2 deaths, 1 torn line | `TypeOK`; `SingleNumbering`: numbers on disk and in the queue never repeat or go back; `WrittenIsReplayable`: a line that reached the file whole stays in checkpoint or file, except where the code can lose it (`exposed`, section 4); `HandleReturns` (liveness): a rewrite gives the handle back |
| `stream_gate` | 3 events, 1 opening, 1 compaction, pages of 1 | `TypeOK`; `ShownIsHistory`: no hole, repetition or exchange on screen, snapshots that ran ahead of their cursor included; `HoleIsAttended`: a hole has a catchup, a timer or an open at work on it; `HoleEnds` and `OpenEnds` (liveness) |
| `stream_restart` | 2 events, 1 opening, 1 loss of the connection or restart | `WatermarkMatchesScreen`: what the gate drops is on screen, and what it waits for is still to come; `ImplementsFeed`: every step is a step of `TranscriptFeed` or a stutter |
| `owner_lock` | 2 processes, 3 calls (1 takeover), 1 stall, 1 death | `TypeOK`; `OwnerOnDisk`; `MapNamesHeldLock`: the counts of a process match its handles |
| `job_delivery` | 2 jobs, 2 transcripts, 1 message, 1 abort | `TypeOK`; `NothingForgotten`: a finished job is known to the model or on its way; `NothingStranded`: results that wait outside a run have a flush coming; `InjectedOnce`; `OldResultStaysOut`: no result enters a transcript that did not start its job; `QuietStaysQuiet`: the test by which run drivers end is stable |
| `job_replay` | 2 jobs, 2 deaths | `ReplayedOnce`; `FinishedIsTold` (liveness): the result of a finished job is told, unless a wait without a window holds the turn for ever |
| `spawn_slots` | a root with 3 children, 1 turn each, provider limit 1, spawn limit 1 or 2, 1 change, 1 abort | `TypeOK`; `SlotsAccounted`: no slot leaks or is given back twice; `NoIdleSlot`; `CapRespected`; `FirstComeFirstServed`; `TreeEnds` (liveness): the tree does not deadlock on its own limits |
| `question_cards` | 1 client, 1 approval, 1 ask, batches of 2, 2 opens, switches or losses | `TypeOK`; `OneVerdict`: whoever answers first, everybody is told the same; `ApprovalsShown`: a client at rest shows the approvals that wait and no other; `AskCardIsOpen`; `BatchesLeave` |
| `launch_broker` | a child restarted on failure: 2 launches and 1 death with 1 caller, or 2 launches with 2 callers; a detached process always restarted: 1 launch, 1 death, 2 callers, or 1 caller and failing writes; a child that is not restarted: 1 launch, 2 deaths, 1 caller, failing writes | `TypeOK`; `ProcessOnRecord`: a stop or the next broker reaches every process, outside named races; `TimerMeansRestarting`: nothing launches a daemon that was stopped; `ReportKept`: an end is pending or can be found again until it is told; `ToldOnce`: two brokers announce one end only if the first died with it not on disk (section 4); `EndIsTold` (liveness): the end of a process the disk has as running is reported, if it is noticed |

Violation runs, each a comment of the repository that the code does not live up
to:

| run | property | what happens |
|---|---|---|
| `journal_append_hangs` | `AppendsDrain` | `#releaseFd` installs a promise that `#reopenFd` replaces instead of resolving: an append whose turn comes in between waits for ever, and every later append and flush behind it |
| `owner_two_writers` | `SingleWriter` | two processes start together; one reads the file between the other's create and write, takes it for corrupt and unlinks it; both own the session |
| `hub_wait_lost` | `AnswerOrDelivery` | a job that ends under a watch is not enqueued; when a message wins the wait, the answer does not report the job either |

`ShownIsHistory` and `WatermarkMatchesScreen` say nothing of a store whose
snapshot was older than its cursor (`stale`, section 4), and nothing while a
snapshot is being fetched to replace the store. After a restart that lost queued appends, a
message sent from the old store in that window attaches it to the new numbering,
and it may show new events above lost ones until the snapshot arrives.

Bounds. Two compactions and two deaths let a death fall inside the second
rewrite of a file that a first rewrite and a first recovery produced, and five
events put one before, inside and after each window. In the stream three events
make a hole of two records with a live event above it, and pages of one put a
boundary in the hole; one compaction moves the checkpoint past a cursor, and one
opening suffices because resyncs and reconnects open again. `stream_restart` has
two events, one before and one after the death, since a restart may end the
history and the numbering anywhere: six million states; the properties of both
runs that are not liveness are proved for every size. `stream_gate` loses no
connection, so its `OpenEnds` is about opens over one that stays. In
the lock two calls of one process share and race, a third from another process
competes with both, and one stall and one death let each holder look stale for
either reason; the theorems cover the rest. Two jobs let one be foreground or
watched while the other's result is under way, and let the second take the id of
the first after it was evicted; a second transcript is what a `/new` needs, and
a second death falls into the adoption the first one caused. Three children under
a provider limit of one and a spawn limit of two make queues of two at both
semaphores, which is what order, abort of a waiter that is not the first, and a
raised limit need; the theorems again cover the rest. One approval and one ask,
each with a timeout and two places to answer from, cover the races of a question
with itself; two moves let an open be superseded or interrupted, and a batch of
two makes a push that fills the queue. Two launches put a timer, a second start
or a restart behind an end; two callers let a second start, stop or restart fall
into every await of a first; one death falls before and after each write, and
a second one into the recovery that the first caused. Writes fail in two of the five scopes; the theorems have every
scope and bound.

Fairness. The journal's steps are promise reactions and completed file
operations, which the runtime always runs: weak fairness of each link step and
of the rewrite. In the stream the daemon's calls finish (`session.pauseStatus` too), the batcher's
deadline forces a flush under backpressure, a connected socket delivers, a
ten-second timer fires, and the client retries until it connects. The steps of
job delivery are promise reactions and timers too; a model call ends or calls a
tool, a foreground command has a threshold, and a hub wait ends with its window.
A wait with `timeoutMs: 0` has none (`tools/hub/index.ts:83`, `436`), and nothing
is assumed of it: `FinishedIsTold` is conditional on its not holding the turn for
ever (`HeldOpen`). The broker's file operations end, well or not, its timers fire,
the exits of detached children are noticed, a shutdown goes on, and a client with a
sink reconnects and starts a broker if there is none. Nothing is assumed of the end
of a pipe process's output, which `launchPipe` awaits with its exit
(`broker.ts:790`), nor of the monitor of a recovered process, which its first error
ends (`broker.ts:1326`): `EndIsTold` is conditional on no end going unnoticed for
ever (`Unnoticed`). In the tree, promise
reactions run and a provider ends or fails every request. Nothing is assumed of
publications, the user, compaction, the idle scan, jobs, messages, settings or
failures.

## 4. Known divergences and limits of the code

What the models show and no run repeats. The properties below are stated in
their modules and fail; naming one in a `.cfg` with the bounds of the run of its
module reproduces the trace. Where the table says "without", the property holds
with that exception and fails once it is taken out.

| module | property | what happens |
|---|---|---|
| `SessionJournal` | `BurstKeepsTail` | a line written after the rewrite's `readAll` and before its rename disappears with the old file (`journal.ts:586`) |
| `SessionJournal` | `CheckpointBelowTail` | a restart after a compaction that emptied the file numbers from 0, below the checkpoint (`journal.ts:177`) |
| `SessionJournal` | `CatchupComplete` | the file is reopened behind a torn line; the next record is glued to it and the replay ends there (`journal.ts:168`) |
| `SessionJournal` | `AdoptAppliesIncrements` | a view restored from a checkpoint is not given the records above it (`session-host.ts:1716`; needs `HasTranscript = FALSE`) |
| `SessionStream` | `HoleIsAttended` without `refused` | a store's resync that falls between its mount and the answer of `session.pauseStatus` is dropped (`app.tsx:2273`), and it was the only one of the store (`session-store.ts:836`): the hole stays until the user or a reconnect opens the session, where the comment `session-store.ts:796` says that a gap nobody fills escalates via the guard timer |
| `SessionStream` | `ShownIsHistory` without `stale` | the view store is written every 100 ms (`session-host.ts:1744`), so the cached view an archived session is opened from may be older than the tail read before it: the records between are never shown, the silent hole the comment `session-host.ts:2677` means to exclude |
| `OwnerLock` | `ReleasedIsFree` | a heartbeat that read its token before the release writes the file back after it: the session stays owned by a process that gave it up (`session-owner-lock.ts:187`) |
| `JobDelivery` | `ReplayLosesNothing` | adoption takes the entry of an earlier life's `bg_1` for that of the row it looks at, and marks the row without replaying it (`session-host.ts:2109`; the bounds of `job_replay`) |
| `LaunchBroker` | `NameIsUnique` | a restart next to a start or another restart leaves two processes of one name, where `docs/tools/hub.md:95` says a name is unique (`broker.ts:1149`; needs three launches and two callers); it holds where no race happened (`NameIsUniqueUnlessRaced`) |
| `LaunchBroker` | `StopIsAuthoritative` | a stop between a detached launch and its spawn ends the record, and the process comes up after it (`broker.ts:801`; the comment `broker-restarting-settle.test.ts:104` asks that stop be authoritative) |
| `LaunchBroker` | `NewestOnDisk` | a start does not wait for the writes of the record it replaces, and the file may end as the older record's (`broker.ts:1195`); a failed write leaves the file behind as well, until the next change |
| `LaunchBroker` | `EndBehindAnother` | a restart keeps completions nobody acknowledged, and a recovering broker reports a dead process only if none is pending (`broker.ts:1308`): the later end is never told |
| `LaunchBroker` | `ToldOnce` without its exception | a broker that recovers announces the end it finds at once, and writes it later (`broker.ts:1320`), and `#settle` announces an end whose write failed (`broker.ts:998`, `1199`): if the broker dies then, the next one finds the end unreported and announces it again, under a new id |
| `QuestionCards` | `NoStaleAskCard` | after an outage longer than the ring remembers, a client keeps the card of an ask that was settled meanwhile (`app.tsx:1538`) |
| `QuestionCards` | `AskSurfaces` | the app has one card: a second ask takes it, and the first one is not shown again when the second is answered (`session-host.ts:3249`) |

`WrittenIsReplayable` excepts, besides the windows above, what the view lacks that
an adopt was seeded with: the transcript may lack events the journal has (a reply
under way is in it only at its `message_end`, `server.ts:4991`), the next compaction
checkpoints that view, and their lines go.

Met while reading the code, outside what the properties say:

- Stream. An event between the snapshot and the attachment of the stream is in
  neither, and the client finds out only with the next event
  (`services/session-service.ts:180`). Opening an archived session activates it:
  `session.pauseStatus` does (`server.ts:2489`), where the comment `app.tsx:2035`
  means the open to be a read-only snapshot. The overlap after a snapshot that ran
  ahead is folded by key, but `thinking_level_changed` and `ttsr_triggered` have no
  key (`materialized-view.ts:234`, `247`), and are shown twice.

- Jobs. A result a tool reported is never marked delivered, and is replayed after
  a restart. A row is marked when the sink returns, so a death before the
  injection loses the result. The ledger's key is the bare `id`, written with
  INSERT OR REPLACE: a session's `bg_1` replaces another's row. The body of a
  job that was cancelled and evicted still writes its row and arms the timer of
  its id, which may be another job's by then. The retention timer drops a
  suppression while something of that id is queued, which may tell it twice. An
  idle injection that fails drops the entries it drained, and a deadline between
  a drain and its commit drops the asides.
- Questions. An abort does not reach an approval that waits: the tool's promise
  ends with an answer or the timeout. An aborted ask leaves its card until then.
  An answer carries the session the client shows, not the ask's.
- Broker. A restart that was waiting when the broker died is not resumed: the
  next one reports the end. Requests are served while the broker shuts down. Two
  records of a name write through one temporary path. The lease of the broker is
  created before it is written, as the owner lock is.
- Batcher. `maxQueuedEvents` is described as the most events per frame; under
  backpressure a held batch grows past it. A flush at disconnect that is held
  leaves a timer for a connection that is gone.

## 5. Proofs

`SessionJournalProofs` proves, for every value of the constants under
`BoundsAssumption` (they are naturals, and a Boolean):

- `TypeCorrect`: `Spec => []TypeOK`, one lemma per action.
- `SingleNumberingHolds`: `Spec => []SingleNumbering`. `SingleNumbering` is not
  inductive: `Rename` puts `keep` in the place of `file`, `Open` starts a
  numbering on the assumption that no link is left over from the previous life,
  and `LinkDone` needs a pending link to be the next number. The invariant
  `IInv` adds to `TypeOK` that a dead process has nothing pending and nothing
  kept (`DeadIsEmpty`), and that what a rewrite keeps is ordered and below the
  queued numbers (`KeepNumbered`). Each action keeps it because `file` only
  changes by the append of the next number, by `keep`, or by a line that does
  not parse; `Open` because the recovered number is the last readable line's.

`SessionJournalProofs` also proves `WrittenIsReplayableHolds`: `Spec =>
[]WrittenIsReplayable`, whatever seeds the view. What a checkpoint owes
is carried through the rewrite by one relation, `Covers(v, s, f)`: each event that
was written and is not exposed is in the view `v`, or on a line of `f` above `s`;
`QueuedAbove(v, s)` says it of the lines still to come. The published checkpoint
always covers the file; the planned one (`cut`) covers it from the call of
`compact()`, because the view holds all that was written or will be, save what
its seed lacked, which is exposed (`Seen`); from
`ReadKeep` on it covers `keep`, which is what `Rename` needs. A line written in
between is exposed, and after the close no line is written, because a write in
flight has a handle (`Handed`). `RInv` is `IInv`, `Handed` and, while no death has
torn a line, these facts.

`SessionStreamProofs` proves, under `StreamBounds`, for every number of events,
opens, compactions and disconnects and every page size: `StreamTyped`,
`ShownIsHistoryHolds`, `WatermarkMatchesScreenHolds` and `HoleIsAttendedHolds`
(`Spec => []` of the four invariants of the runs) and `ImplementsFeedHolds`: the
pipeline implements `TranscriptFeed`. None of the last four is inductive: what
the client shows next is under way already. The invariant `IInv` says that
everything under way belongs to the numbering the daemon has now, by two
relations: `Numbered(c)`, the records above the cursor `c` are the last events of
the history in its order, and `Covers(c, u)`, the first `u` events leave none out
that `c` does not have above it. It is an inequality, since a snapshot of the
history path shows more than its cursor names.

- `InTransit`, `Resuming`, `CatchingUp`: frames in the batch and on the wire are
  records of the log, what a snapshot holds covers its cursor unless it is marked
  as older, and no answer is for a store that does not exist yet. `OneOpen`: an
  open is in one place, asked for, in one message, or asking for the pause state.
- `Agrees`: while a store is mounted, connected and not being replaced
  (`OnScreen`), the transcript covers the watermark unless the store is `stale`,
  and what waits for a hole is a record of the log.
- `Silent`: without a connection nothing is under way. This is what lets a
  restart number from 0 again: `ConnectionLost` empties everything the old
  numbers are in, and `Reconnect` opens anew before the gate counts again.
- `Guarded`: the store on screen has not used its resync, and its timer is armed
  while something waits, or its resync was `refused`.

`Publish` appends to the log and keeps every cover; compaction does not renumber.
`Apply` is the step where the conjuncts meet: the run above the watermark is
cut where the held frames have their first hole, so it is a piece of the log that
begins at or before the end of the transcript; the events the screen has are its
first ones, and what is left continues the history. Each step is then a step of
the feed or leaves `total`, `store` and the visible transcript alone.

`OwnerLockProofs` proves, under `OwnerAssumption` (the calls are finitely many,
each has a process, `None` is not a call, the bounds are naturals):

- `LockTyped`, `MapNamesHeldLockHolds` and `OwnerOnDiskHolds`: `Spec => []` of
  the three invariants of the run; `SingleWriterUnlessRaced`: without a race two
  processes never have the session. `OwnerOnDisk` is not inductive, since an
  `Unlink` may hit a file somebody has. `IInv` says what each call knows: whoever
  is about to unlink has seen a file whose creator failed or died, so nobody can
  claim it (`Claims`, `OnDisk`); the call that removes the file in a release is
  alone with its lock (`Handles`); a handle belongs to a lock of the same process
  that was entered (`Homes`). The sharers of a lock are a finite set that grows
  and shrinks by one call, which ties it to `refs`.

`SpawnSlotsProofs` has first a lemma for each operator of the semaphore: what it
does to `used`, who leaves the queue, that the queue keeps its order and has
nobody twice, and that it leaves no free slot behind. It proves, under `TreeAssumption` (finitely many agents, each but
the root with a parent, limits and bounds naturals; the tree may have any shape):

- `TypesHold`, `SlotsAreCounted`, `SlotsAreUsed`, `LimitsHold`: the three
  invariants and `CapRespected` of the run. The invariant `IInv` is `Types`,
  `ProviderInv` and `SpawnInv`: the used count of a semaphore is the cardinality
  of those it is counted for (`Requesting`, `Placed`), a waiter stands where it
  waits, is not aborted and is in the queue once, and nobody waits for a free
  slot. Counting needs a little more than the properties say: an agent has a
  request out only where its code can have sent one, and a permit only where it
  runs, so that the step that takes a slot adds somebody new to the set and the
  step that gives it back removes somebody who was in it. Each action touches
  the provider's semaphore or one session's, and `OtherSessions` is the frame.
- `ServedInOrder`: `FirstComeFirstServed`. Every operation that admits takes a piece
  off the head of the queue (`Shift`), and a step composes at most two of them; a
  change of the limit comes before a newcomer is queued or let in, and he is let
  in only past an empty queue. A waiter that leaves by its abort is `stopped`.

`JobDeliveryProofs` proves, under `DeliveryBounds` (the bounds are naturals, and
there is a transcript), for every number of jobs, transcripts, messages, aborts
and deaths: `TypeCorrect`, `ForgetsNothing`, `StrandsNothing`, `ReplaysOnce`
(`Spec => []` of `TypeOK`, `NothingForgotten`, `NothingStranded`, `ReplayedOnce`)
and the action properties `InjectsOnce`, `OldResultsStayOut` and `QuietIsFinal`
(`InjectedOnce`, `OldResultStaysOut`, `QuietStaysQuiet`). None of them is
inductive. The code keys almost everything by id while ids are reused, and a
result passes through five places; `IInv` says which job an id stands for and
where a result can be:

- `Named`: what an id names has that id; `Placed`: a result is in one place of
  the pipeline, once, of a completed job, and not yet injected.
- `Owned` and `Homed`, of jobs that are not in `lapsed`: the id of a job that
  runs or whose result is enqueued still names it, and what is queued carries the
  transcript of its job. A suppressed id is that of a job a tool has reported or
  that `bash` waits for: this is why a result that was told is stale at its drain.
- `InBash` and `InWait`: the job of a foreground command is suppressed and its
  result nowhere, which is what `resumeDeliveries` relies on; a watched id has no
  result in the pipeline. `Kept` then accounts for each completed job: known,
  in the pipeline, with `bash`, or with the wait that will report it.
- `Texts`, `Adopting`, `Past`: a row that is not marked holds a result that was
  not told, and one that was replayed has its entry in the transcript, so an
  adoption that is interrupted between the two does not replay it; a job of an
  earlier life is nowhere in the process. `Away`: before adoption nothing runs.
- `Counted`: the two counts are at most one, and never both.

One lemma per action shows that it keeps `IInv`; `Stays` is the frame for the
parts an action does not touch. `Only`, the filter of the queues, is a recursive
function, and `OnlySelects` of `SelectionProofs` (it keeps exactly the elements of
the set, and none twice) is proved without the induction theorems, by the least
length at which it would fail.

`QuestionCardsProofs` proves, under `CardsAssumption` (approvals and asks are
different, the bound is a natural) and `BatcherAssumption` (a batch holds at least
one frame), for any number of clients, questions, opens and lost connections, and
every size of a batch: `TypesOfCards`, `BatchesAlwaysLeave`, `OneVerdictAlways`,
`ApprovalsShownAlways` and `AskCardAlwaysOpen` (`Spec => []` of the five invariants
of the run). The last two speak of a client at rest; the invariant has to say
what is under way to a client that is not. `Pipe(c)` is what the client will read:
the wire, then the batch. A response goes ahead of the batch, so a snapshot may
overtake the requests and the ends broadcast before it, and that is where the
work is.

- `BridgeInv`: a verdict is told as it fell, and what the ring remembers is settled.
- `Truthful`, `Alone`, `Linked`: a frame says something that is or was so, there is
  one snapshot under way at most, and the phases of an open (asked, captured,
  replied) tell whether the client is attached and what it waits for.
- `Raised`: nothing is shown before it was raised, or dropped before it was settled.
- `Ending`: the end of a question follows whatever shows it (`Follows`), in the
  pipe; or it will come by the replay of the open (`Replayed`); or, of an ask, it
  was missed.
- `Showing`: an approval that waits is on the card, or its request is under way, or
  the snapshot is under way that lists it or that its request follows.

A step changes a pipe in one of three ways: the client reads its head, frames
join the batch, or a response enters between wire and batch. `Grown` says once
what the last two keep of `Follows` and of `OneSnapshot`; each action uses it.

`LaunchBrokerProofs` proves, under `BrokerAssumption` (the bounds are naturals, a
scope is well formed), for any number of callers, launches and deaths and for
every scope: `TypesOfBroker`, `OwnerToldOnce`, `ProcessAlwaysOnRecord`,
`TimerMeansRestartingAlways` and `ReportAlwaysKept` (`Spec => []` of the five
invariants of the run). The invariant has three layers, each proved with the
help of the one before, and each with one lemma per action.

- `Layer1`: whatever a request, a callback or a timer holds exists (`HeldInv`,
  `OpsInv`); a launch belongs to one record, and so does every snapshot in a
  queue (`NumberInv`); without a broker nothing is in memory (`DownInv`).
- `Layer2`: the queue of writes of a record ends with what the record is
  (`SavedInv`), so what can reach the disk is known before it does. A completion is
  told when the disk has its launch as ended or its write has failed (`TellingInv`);
  from then on memory and queue have it as ended, and the disk too unless it failed
  (`ToldInv`, `Shut`, `Over`): this is what keeps the next broker from finding the
  end unreported. A failed write puts in `unsaved` what it would have brought to
  the disk, and the next write that succeeds takes it out. `OnceInv` says that only
  a completion in `unsaved` is ever followed by a second one.
- `Layer3` is `~stray => Calm`. `Calm` is the five invariants' reason where none of
  the races happened: nothing is under way but in the current record
  (`SingleInv`); a record with a process has that of its last launch (`PidInv`);
  one timer while it waits (`TimerInv`); a start that is about to launch has
  found the name free (`ServedInv`); a detached launch that awaits its spawn is
  the current one (`OpeningInv`); an exit that awaits the output is of a process
  that is gone (`SettleInv`). `ProcessKept` and `EndKept` are the two properties,
  with and without a broker. They are not inductive because a death may come
  when any prefix of the queue is written: `KeptInv` asks of the disk and of every
  queued snapshot that a broker that recovers from it reaches the process
  (it has not ended in it unless it has in the record) and finds each end that
  was not told (`Shows`).

Every change of a record queues its snapshot, which is `Update`; three lemmas
(`UpdateLayer1`, `UpdateLayer2`, `UpdateCalm`) say once what that keeps, and an action
only has to account for the record it writes. `StrayStays` shows that a race, once
it happened, is not forgotten, so the last layer has nothing to prove after it.

Two properties of section 4 that a run would refute hold up to the races, and
that is proved of them: `NameIsUniqueUnlessRaced` and `StopIsAuthoritativeUnlessRaced`
(save a process that no file named when a broker died). The races that `stray`
names are all the ways in which the code departs from what `hub.md` and the test
ask. `NewestOnDisk` does not hold up to them, since a write may fail.

TLC only: every liveness property, out of TLAPS' reach with ENABLED (`HandleReturns`,
`HoleEnds`, `OpenEnds`, `FinishedIsTold`, `TreeEnds`, `EndIsTold`, with their
exceptions `refused`, `HeldOpen` and `Unnoticed`), and what the
violation runs refute. Every invariant and every action property of a passing run
is a theorem, for every value of the constants. No module uses a RECURSIVE operator.

## 6. Not modelled

`PROJECT.json` lists every component with its status. Left out for good:
providers, MCP, LSP and DAP clients, the terminal UI, native code, catalogues
and tooling: pure computation, rendering or external I/O. Left out because the
models lack what they are about:

- the tables of the view store and the content of the materialized view: of the
  fold of wire events the models have which events it holds, and that an event it
  has is not added again; that the files a restart finds agree with each other
  (`sdkSupersedesCachedHistory`) is taken for granted in `SessionStream`;
- several `AppendJournal` instances over one file (`journal.ts:142`), `close`,
  and a reactivation while an old chain drains: which instances meet is decided
  by the activation of sessions, which the models take whole;
- the turn's retry policy and tool-choice queue: sequential decisions over kinds
  of errors;
- the launch broker's readiness probes, output and logs, which are I/O; the
  unsubscription of owners, which clears what is pending for them; the idle timer
  and the lease;
- what a subagent does beyond its slots and its result;
- collab: the content of the replicated entries and access control.

Hazards of these parts that are not in the list of `PROJECT.json`: a checkpoint
view without the records above it (`session-host.ts:1716`, section 4), sources of a
view that disagree, the several journal instances above, a job's row that is marked when
the sink returns (section 4), two heartbeats
of the owner lock that overlap by a whole interval and overwrite each other's
file, and a record or a multi-byte character that the reverse scan of the
journal's tail cuts at a chunk's edge (`journal.ts:478`).
