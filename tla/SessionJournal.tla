--------------------------- MODULE SessionJournal ---------------------------
(***************************************************************************)
(* The append-only journal of one live session of the daemon               *)
(* (coding-agent/src/daemon/journal.ts, class AppendJournal) together with *)
(* the host code that opens it, appends to it and compacts it              *)
(* (session-host.ts).                                                      *)
(*                                                                         *)
(* A record is written in two halves: append() assigns the sequence number *)
(* synchronously, and a link of a promise chain writes the line later.     *)
(* Compaction runs between the links: it publishes a checkpoint, reads the *)
(* file, and replaces it after closing and before reopening the append     *)
(* handle.  The process may die anywhere, and its last line may be torn.   *)
(*                                                                         *)
(* An event is the number of its publication, so two events that receive   *)
(* the same sequence number (after a restart) stay distinguishable.  The   *)
(* materialized view is the set of events it has folded.                   *)
(***************************************************************************)
EXTENDS Naturals, Sequences, FiniteSets

CONSTANTS
    MaxEvents,      \* events published in a behaviour
    MaxCompacts,    \* compactions started
    MaxCrashes,     \* deaths of the daemon process
    MaxTorn,        \* deaths that leave a partial line behind
    HasTranscript   \* adopt finds a transcript, or a persisted row of the view

ASSUME BoundsAssumption ==
    /\ MaxEvents \in Nat
    /\ MaxCompacts \in Nat
    /\ MaxCrashes \in Nat
    /\ MaxTorn \in Nat
    /\ HasTranscript \in BOOLEAN

VARIABLES
    up,         \* the daemon runs and the session is live
    file,       \* lines of <session>.journal.jsonl
    torn,       \* the last line has no newline
    ckpt,       \* <session>.journal.jsonl.checkpoint.json; seq 0: no file
    seq,        \* #seq
    queue,      \* the links of #pendingWrite that have not settled
    link,       \* how far the first link is
    fd,         \* #fd
    fdReady,    \* what #fdReady resolves to
    view,       \* live.view: the events folded into it
    pc,         \* where compact() is
    cut,        \* compact()'s arguments: the tail and the view at the call
    keep,       \* the records that compact() retains
    barrier,    \* the last event a pending flush() waits for
    published,  \* events published so far
    compacts, crashes, torns,   \* counters for the bounds
    written,    \* history: events whose line reached the file whole
    exposed     \* history: events appended where the code can lose them

disk    == <<file, torn, ckpt>>
chain   == <<queue, link>>
handle  == <<fd, fdReady>>
rewrite == <<pc, cut, keep, barrier>>
counts  == <<compacts, crashes, torns>>
history == <<written, exposed>>
vars    == <<up, disk, seq, chain, handle, view, rewrite, published, counts, history>>

-----------------------------------------------------------------------------
Event  == 1..MaxEvents
Line   == [seq : Nat, ev : Event, ok : BOOLEAN]
Steps  == {"idle", "flush", "checkpoint", "read", "tmp", "drain", "release",
           "closing", "rename", "reopen"}

\* A rewrite is past its readAll and has not renamed yet.
InWindow == pc \in {"tmp", "drain", "release", "closing"}

\* readAll stops at the first line that does not parse.
ReadableIdx(f) == {i \in DOMAIN f : \A j \in 1..i : f[j].ok}

\* replaySource: the checkpoint and the records above it.
Increments == {file[i].ev : i \in {i \in ReadableIdx(file) : file[i].seq > ckpt.seq}}
Replayable == ckpt.view \cup Increments

\* recordsAfter: the lines above the cursor, up to the first bad one among them.
RecordsAfter(c) ==
    {file[i].seq : i \in {i \in DOMAIN file :
        /\ file[i].seq > c
        /\ \A j \in 1..i : file[j].seq > c => file[j].ok}}

\* catchupPlan: a cursor the daemon answers by replay.
InRange(c) == ckpt.seq <= c /\ c <= seq

\* A flush() that was called when `barrier' was the last published event.
Flushed == queue # <<>> => Head(queue).ev > barrier

-----------------------------------------------------------------------------
Init ==
    /\ up = FALSE
    /\ file = <<>> /\ torn = FALSE /\ ckpt = [seq |-> 0, view |-> {}]
    /\ seq = 0 /\ queue = <<>> /\ link = "wait"
    /\ fd = "null" /\ fdReady = "null"
    /\ view = {}
    /\ pc = "idle" /\ cut = [seq |-> 0, view |-> {}] /\ keep = <<>> /\ barrier = 0
    /\ published = 0
    /\ compacts = 0 /\ crashes = 0 /\ torns = 0
    /\ written = {} /\ exposed = {}

\* Mutant: open() reads the last line only.
RecoverLastLine ==
    seq' = IF file # <<>> /\ file[Len(file)].ok THEN file[Len(file)].seq ELSE 0

\* readTailSeq: the last line that parses, 0 when there is none.
RecoverTail ==
    \/ /\ \A i \in DOMAIN file : ~file[i].ok
       /\ seq' = 0
    \/ \E t \in DOMAIN file :
       /\ file[t].ok
       /\ \A i \in t + 1..Len(file) : ~file[i].ok
       /\ seq' = file[t].seq

\* adopt: the SDK transcript seeds the view, or the persisted row of it.  Either
\* may lack events the journal has and hold events it lost.  Failing both, the
\* checkpoint seeds it, and without a checkpoint the events of the journal.
SeedView ==
    IF HasTranscript THEN \E held \in SUBSET (1..published) : view' = held
    ELSE view' = IF ckpt.seq > 0 THEN ckpt.view ELSE Increments

\* What the seed lacks leaves the replay source at the next compaction.
Open ==
    /\ ~up
    /\ up' = TRUE
    /\ RecoverTail
    /\ SeedView
    /\ exposed' = exposed \cup (Replayable \ view')
    /\ fd' = "open" /\ fdReady' = "fd"
    /\ UNCHANGED <<disk, chain, rewrite, published, counts, written>>

\* append + view.apply, without the compaction check.
Publish ==
    /\ up /\ published < MaxEvents
    /\ published' = published + 1
    /\ seq' = seq + 1
    /\ queue' = Append(queue, [seq |-> seq', ev |-> published'])
    /\ view' = view \cup {published'}
    /\ exposed' = IF ckpt.seq > seq THEN exposed \cup {published'} ELSE exposed
    /\ UNCHANGED <<up, disk, link, handle, counts, written>>

PublishOnly == Publish /\ UNCHANGED rewrite

\* Mutant: the checkpoint is taken before the view has folded the event.
CompactBeforeFold ==
    /\ Publish
    /\ pc = "idle" /\ compacts < MaxCompacts
    /\ pc' = "flush"
    /\ cut' = [seq |-> seq', view |-> view]
    /\ barrier' = published'
    /\ UNCHANGED keep

\* The event whose count or size makes shouldCompact() answer yes.
PublishAndCompact ==
    /\ Publish
    /\ pc = "idle" /\ compacts < MaxCompacts
    /\ pc' = "flush"
    /\ cut' = [seq |-> seq', view |-> view']
    /\ barrier' = published'
    /\ UNCHANGED keep

-----------------------------------------------------------------------------
(* One link of the write chain.                                            *)

\* Mutant: the next link inherits the state of the one that settled.
SettleKeepsLink == queue' = Tail(queue) /\ UNCHANGED link

Settle == queue' = Tail(queue) /\ link' = "wait"

\* The handle is open: the line is on its way.
LinkWrites ==
    /\ fdReady = "fd" /\ fd = "open"
    /\ link' = "writing"
    /\ UNCHANGED queue

\* The handle is being closed (EBADF), or there is none: the record is dropped.
LinkDrops ==
    /\ fdReady = "null" \/ fd = "closing"
    /\ Settle

\* #fdReady was replaced by a promise nobody resolves.
LinkHangs ==
    /\ fdReady = "never"
    /\ link' = "stuck"
    /\ UNCHANGED queue

LinkStart ==
    /\ up /\ queue # <<>> /\ link = "wait"
    /\ LinkWrites \/ LinkDrops \/ LinkHangs
    /\ UNCHANGED <<up, disk, seq, handle, view, rewrite, published, counts, history>>

\* A line written behind a torn one becomes part of it.
LinkDone ==
    /\ up /\ link = "writing"
    /\ Settle
    /\ torn' = FALSE
    /\ IF torn
       THEN UNCHANGED <<file, history>>
       ELSE /\ file' = Append(file, [seq |-> Head(queue).seq, ev |-> Head(queue).ev, ok |-> TRUE])
            /\ written' = written \cup {Head(queue).ev}
            /\ exposed' = IF InWindow THEN exposed \cup {Head(queue).ev} ELSE exposed
    /\ UNCHANGED <<up, ckpt, seq, handle, view, rewrite, published, counts>>

-----------------------------------------------------------------------------
(* compact(), one action per await.                                        *)

FlushBefore ==
    /\ pc = "flush" /\ Flushed
    /\ pc' = "checkpoint"
    /\ UNCHANGED <<up, disk, seq, chain, handle, view, cut, keep, barrier, published, counts, history>>

WriteCheckpoint ==
    /\ pc = "checkpoint"
    /\ ckpt' = cut
    /\ pc' = "read" /\ barrier' = published
    /\ UNCHANGED <<up, file, torn, seq, chain, handle, view, cut, keep, published, counts, history>>

\* readAll and the filter on seq: the lines are in seq order, so what is kept is
\* a run of the readable prefix.
ReadKeep ==
    /\ pc = "read" /\ Flushed
    /\ \E m \in 0..Len(file), n \in 0..Len(file) :
       /\ ReadableIdx(file) = 1..n
       /\ m <= n
       /\ \A i \in 1..m : file[i].seq <= cut.seq
       /\ m < n => file[m + 1].seq > cut.seq
       /\ keep' = SubSeq(file, m + 1, n)
    /\ pc' = "tmp"
    /\ UNCHANGED <<up, disk, seq, chain, handle, view, cut, barrier, published, counts, history>>

WriteTmp ==
    /\ pc = "tmp"
    /\ pc' = "drain" /\ barrier' = published
    /\ UNCHANGED <<up, disk, seq, chain, handle, view, cut, keep, published, counts, history>>

\* A write of the checkpoint or of the temporary journal fails: compact rejects.
RewriteFails ==
    /\ pc \in {"checkpoint", "tmp"}
    /\ pc' = "idle" /\ compacts' = compacts + 1
    /\ UNCHANGED <<up, disk, seq, chain, handle, view, cut, keep, barrier, published, crashes, torns, history>>

\* #replaceFile flushed; #releaseFd flushes again when there is a handle.
DrainForRelease ==
    /\ pc = "drain" /\ Flushed
    /\ \/ /\ fd = "open"
          /\ pc' = "release" /\ barrier' = published
          /\ UNCHANGED fdReady
       \/ /\ fd = "null"
          /\ pc' = "rename" /\ fdReady' = "never"
          /\ UNCHANGED barrier
    /\ UNCHANGED <<up, disk, seq, chain, fd, view, cut, keep, published, counts, history>>

ReleaseFd ==
    /\ pc = "release" /\ Flushed
    /\ pc' = "closing" /\ fd' = "closing"
    /\ UNCHANGED <<up, disk, seq, chain, fdReady, view, cut, keep, barrier, published, counts, history>>

\* close() waits for a write in flight.
FdClosed ==
    /\ pc = "closing" /\ link # "writing"
    /\ pc' = "rename" /\ fd' = "null" /\ fdReady' = "never"
    /\ UNCHANGED <<up, disk, seq, chain, view, cut, keep, barrier, published, counts, history>>

\* The rename, or its last failing attempt.
Rename ==
    /\ pc = "rename"
    /\ pc' = "reopen"
    /\ \/ file' = keep /\ torn' = FALSE
       \/ UNCHANGED <<file, torn>>
    /\ UNCHANGED <<up, ckpt, seq, chain, handle, view, cut, keep, barrier, published, counts, history>>

\* Mutant: the handle comes back, but #fdReady is not replaced.
ReopenFdOnly ==
    /\ pc = "reopen"
    /\ pc' = "idle" /\ compacts' = compacts + 1
    /\ fd' \in {"open", "null"}
    /\ UNCHANGED <<up, fdReady, disk, seq, chain, view, cut, keep, barrier, published, crashes, torns, history>>

\* #reopenFd runs whatever the rename did, and may fail itself.
ReopenFd ==
    /\ pc = "reopen"
    /\ pc' = "idle" /\ compacts' = compacts + 1
    /\ \/ fd' = "open" /\ fdReady' = "fd"
       \/ fd' = "null" /\ fdReady' = "null"
    /\ UNCHANGED <<up, disk, seq, chain, view, cut, keep, barrier, published, crashes, torns, history>>

Compaction ==
    \/ FlushBefore \/ WriteCheckpoint \/ ReadKeep \/ WriteTmp \/ RewriteFails
    \/ DrainForRelease \/ ReleaseFd \/ FdClosed \/ Rename \/ ReopenFd

-----------------------------------------------------------------------------
(* The process dies: memory is gone, the files stay.                       *)

Die ==
    /\ up /\ crashes < MaxCrashes
    /\ up' = FALSE /\ crashes' = crashes + 1
    /\ seq' = 0 /\ queue' = <<>> /\ link' = "wait"
    /\ fd' = "null" /\ fdReady' = "null" /\ view' = {}
    /\ pc' = "idle" /\ cut' = [seq |-> 0, view |-> {}] /\ keep' = <<>> /\ barrier' = 0
    /\ compacts' = IF pc = "idle" THEN compacts ELSE compacts + 1
    /\ UNCHANGED <<ckpt, published, history>>

Crash == Die /\ UNCHANGED <<file, torn, torns>>

\* The line in flight reached the disk in part.
CrashTorn ==
    /\ Die
    /\ link = "writing" /\ torns < MaxTorn
    /\ torns' = torns + 1 /\ torn' = TRUE
    /\ file' = IF torn THEN file
               ELSE Append(file, [seq |-> Head(queue).seq, ev |-> Head(queue).ev, ok |-> FALSE])

-----------------------------------------------------------------------------
Next ==
    \/ Open \/ PublishOnly \/ PublishAndCompact
    \/ LinkStart \/ LinkDone
    \/ Compaction
    \/ Crash \/ CrashTorn

\* The runtime runs every settled promise and every completed I/O.
Fairness == WF_vars(Open) /\ WF_vars(LinkStart) /\ WF_vars(LinkDone) /\ WF_vars(Compaction)

Spec     == Init /\ [][Next]_vars
FairSpec == Spec /\ Fairness
-----------------------------------------------------------------------------
(* Properties.                                                             *)

\* Every variable keeps its type: the files, the chain of pending writes, the
\* handle and the position of compact() stay in their domains.
FlagsTyped == up \in BOOLEAN /\ torn \in BOOLEAN
FilesTyped ==
    /\ file \in Seq(Line) /\ keep \in Seq(Line)
    /\ ckpt \in [seq : Nat, view : SUBSET Event] /\ cut \in [seq : Nat, view : SUBSET Event]
ChainTyped ==
    /\ seq \in Nat
    /\ queue \in Seq([seq : Nat, ev : Event])
    /\ link \in {"wait", "writing", "stuck"} /\ (link # "wait" => queue # <<>>)
HandleTyped ==
    /\ fd \in {"null", "open", "closing"} /\ fdReady \in {"null", "fd", "never"}
    /\ pc \in Steps
CountsTyped ==
    /\ barrier \in 0..MaxEvents /\ published \in 0..MaxEvents
    /\ compacts \in Nat /\ crashes \in 0..MaxCrashes /\ torns \in 0..MaxTorn
EventsTyped == view \in SUBSET Event /\ written \in SUBSET Event /\ exposed \in SUBSET Event
TypeOK ==
    FlagsTyped /\ FilesTyped /\ ChainTyped /\ HandleTyped /\ CountsTyped /\ EventsTyped

\* The numbers on disk never repeat and never go back, and the queued appends
\* continue them without a hole up to #seq: across restarts, torn tails and
\* rewrites the journal has a single numbering (open() recovers the tail).
Ordered(f) == \A i, j \in DOMAIN f : i < j /\ f[i].ok /\ f[j].ok => f[i].seq < f[j].seq
Below(f)   == \A i \in DOMAIN f : f[i].ok => f[i].seq <= seq - Len(queue)
QueueContinues ==
    /\ Len(queue) <= seq
    /\ \A i \in DOMAIN queue : queue[i].seq = seq - Len(queue) + i
SingleNumbering == Ordered(file) /\ (up => QueueContinues /\ Below(file))

\* Whatever the interleaving of appends, compaction and deaths, an event whose
\* line reached the file stays in the replay source (checkpoint and records
\* above it), except one appended between a rewrite's read and its rename,
\* numbered below the checkpoint, or lacking in what an adopt seeded the view
\* with.  Stated as long as no death has torn a line.
WrittenIsReplayable == torns = 0 => written \subseteq Replayable \cup exposed

\* Once a rewrite has taken the handle away it gives one back, or reports that
\* there is none, whether or not the rename succeeded.
HandleReturns == (pc \in {"closing", "rename", "reopen"}) ~> (fdReady # "never")

\* What the comments promise (see the violation runs).

\* "a write landing in the rewrite window is queued, not silently dropped"
\* (the comment on #fdReady): queued appends are eventually written or settled.
AppendsDrain == (queue # <<>>) ~> (queue = <<>>)

\* The watermark contract: the checkpoint never is ahead of the numbering that
\* catchup, the client gate and the next checkpoint compare it with.
CheckpointBelowTail == up => ckpt.seq <= seq

\* "a high-frequency event burst can never lose its tail" (append()): a line
\* that reached the file stays in the replay source.
BurstKeepsTail == written \subseteq Replayable

\* "otherwise the journal holds every record in (afterSeq, tail]" (catchupPlan),
\* once the chain is flushed and no rewrite is running.
CatchupComplete ==
    up /\ queue = <<>> /\ pc = "idle" =>
        \A c \in 0..seq : InRange(c) => (c + 1)..seq \subseteq RecordsAfter(c)

\* "honors a compaction checkpoint, then applies increments above it" (adopt):
\* the rebuilt view shows everything the replay source holds.
AdoptAppliesIncrements == [][Open => Replayable \subseteq view']_vars
=============================================================================
