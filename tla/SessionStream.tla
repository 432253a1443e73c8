--------------------------- MODULE SessionStream ----------------------------
(***************************************************************************)
(* The path of a session's events from the daemon's journal to the         *)
(* transcript of one client.                                               *)
(*                                                                         *)
(*   daemon   session-host.ts (publish, snapshot, catchupFrom,             *)
(*            replayCatchup, subscribe), session-service.ts (resume),      *)
(*            server.ts (handleRpcLine, catchupIfNeeded)                   *)
(*   wire     event-batcher.ts: events wait in a batch, responses go       *)
(*            around it                                                    *)
(*   client   session-store.ts (the watermark gate) and app.tsx            *)
(*            (openSession and its hooks)                                  *)
(*                                                                         *)
(* The journal is abstracted to what a healthy one holds: every record     *)
(* above the last compaction (SessionJournal says when that fails).  An    *)
(* event is its position in the history of the session, its sequence       *)
(* number its position in `log'; the two part when a restart loses queued  *)
(* writes, or events no reader of the files finds again.                   *)
(***************************************************************************)
EXTENDS Naturals, Sequences, FiniteSets, FiniteSetsExt

CONSTANTS
    MaxEvents,       \* events published
    MaxOpens,        \* sessions opened by the user
    MaxCompacts,     \* compactions
    MaxDisconnects,  \* losses of the connection, restarts of the daemon included
    PageSize         \* CATCHUP_PAGE_SIZE

ASSUME StreamBounds ==
    /\ MaxEvents \in Nat /\ MaxOpens \in Nat /\ MaxCompacts \in Nat /\ MaxDisconnects \in Nat
    /\ PageSize \in Nat \ {0}

VARIABLES
    \* the daemon
    live,       \* the session is in #sessions
    total,      \* events published
    log,        \* the event of each sequence number
    base,       \* records at or below it are no longer in the file
    ckpt,       \* the seq of the checkpoint file, 0 without one
    subscribed, \* the connection is in live.subscribers
    resume,     \* session.resume in progress: none, asked, a history being read, a snapshot
    pauseAsked, \* session.pauseStatus in progress
    requests,   \* session.catchup calls in progress
    batch,      \* the connection's EventBatcher queue
    \* the connection
    online,
    wire,       \* messages on their way to the client
    \* the client
    opening,    \* openInFlightRef: none, fetching the snapshot, asking for the pause state
    store,      \* number of the last store made
    mounted,    \* that store is on screen
    watermark, shown, reorder, inFlight, gapTimer,  \* its fields
    resynced,   \* stores whose resync has triggered
    \* what the properties except
    stale,      \* the snapshot of that store was older than its cursor
    refused,    \* its resync met the open that had made it
    opens, compacts, disconnects

journal == <<live, total, log, base, ckpt>>
serving == <<subscribed, resume, pauseAsked, requests, batch>>
gate    == <<watermark, shown, reorder, inFlight, gapTimer>>
record  == <<stale, refused>>
client  == <<opening, store, mounted, gate, resynced, record>>
counts  == <<opens, compacts, disconnects>>
vars    == <<journal, serving, online, wire, client, counts>>

-----------------------------------------------------------------------------
\* The journal tail is Len(log).
Frame(n) == [kind |-> "event", seq |-> n, ev |-> log[n]]

\* recordsAfter: what the file holds above a cursor.
RecordsAfter(c) == {n \in DOMAIN log : n > c /\ n > base}

\* What a snapshot of the first n events shows.
Transcript(n) == [i \in 1..n |-> i]

Init ==
    /\ live \in BOOLEAN
    /\ total = 0 /\ log = <<>> /\ base = 0 /\ ckpt = 0
    /\ subscribed = FALSE /\ resume = [st |-> "none"] /\ pauseAsked = FALSE
    /\ requests = {} /\ batch = <<>>
    /\ online = TRUE /\ wire = <<>>
    /\ opening = "none" /\ store = 0 /\ mounted = FALSE
    /\ watermark = 0 /\ shown = <<>> /\ reorder = {} /\ inFlight = FALSE /\ gapTimer = FALSE
    /\ resynced = {}
    /\ stale = FALSE /\ refused = FALSE
    /\ opens = 0 /\ compacts = 0 /\ disconnects = 0

-----------------------------------------------------------------------------
(* The daemon.                                                             *)

\* append, view.apply and the push to the subscribers.
Publish ==
    /\ live /\ total < MaxEvents
    /\ total' = total + 1
    /\ log' = Append(log, total')
    /\ batch' = IF subscribed
                THEN Append(batch, [kind |-> "event", seq |-> Len(log'), ev |-> total'])
                ELSE batch
    /\ UNCHANGED <<live, base, ckpt, subscribed, resume, pauseAsked, requests, online, wire, client,
                   counts>>

\* Mutant: the cut is one past the tail.
CompactPastTail ==
    /\ live /\ compacts < MaxCompacts
    /\ \E cut \in base + 1..Len(log) + 1 : ckpt' = cut /\ base' = cut
    /\ compacts' = compacts + 1
    /\ UNCHANGED <<live, total, log, serving, online, wire, client, opens, disconnects>>

\* compact: the cut was the tail when it was called.
Compact ==
    /\ live /\ compacts < MaxCompacts
    /\ \E cut \in base + 1..Len(log) : ckpt' = cut /\ base' = cut
    /\ compacts' = compacts + 1
    /\ UNCHANGED <<live, total, log, serving, online, wire, client, opens, disconnects>>

\* The idle scanner disposes of the session, subscribers included.
IdleDispose ==
    /\ live
    /\ live' = FALSE /\ subscribed' = FALSE
    /\ UNCHANGED <<total, log, base, ckpt, resume, pauseAsked, requests, batch, online, wire, client,
                   counts>>

\* Another client, or a schedule, activates the session.
Activate ==
    /\ ~live
    /\ live' = TRUE
    /\ UNCHANGED <<total, log, base, ckpt, serving, online, wire, client, counts>>

Captured(c, u, late) ==
    resume' = [st |-> "captured", cursor |-> c, upto |-> u, behind |-> late, live |-> live]

\* The snapshot of a live session: cursor, content and liveness in one step.
CaptureLive ==
    /\ resume.st = "asked" /\ live
    /\ Captured(Len(log), total, FALSE)

\* Without a live session the reply comes from the files.  Their persisted view
\* is what the last dispose left: everything published until then.
OpenHistory ==
    /\ resume.st = "asked" /\ ~live
    /\ resume' = [st |-> "cold", kept |-> total]

\* The tail is read before the view, so that an append in between lands above it.
ReadTail ==
    /\ resume.st = "cold"
    /\ resume' = [st |-> "tail", kept |-> resume.kept, cursor |-> Len(log), due |-> total]

\* Mutant: the tail is read after the view.
BuildViewFirst ==
    /\ resume.st = "tail"
    /\ \E u \in resume.kept..total : Captured(Len(log), u, u < resume.due)

\* The view, read after the tail: at least what the dispose left, and what a
\* session activated meanwhile has published and persisted since.  It shows more
\* than its cursor names, or, its cache being written every 100 ms, less.
BuildView ==
    /\ resume.st = "tail"
    /\ \E u \in resume.kept..total : Captured(resume.cursor, u, u < resume.due)

\* session.resume, before the checkpoint is read.
Capture ==
    /\ CaptureLive \/ OpenHistory \/ ReadTail \/ BuildView
    /\ UNCHANGED <<journal, subscribed, pauseAsked, requests, batch, online, wire, client, counts>>

\* The response leaves, then catchupIfNeeded attaches the stream.
Respond ==
    /\ resume.st = "captured"
    /\ wire' = Append(wire, [kind |-> "snapshot", cursor |-> resume.cursor,
                               upto |-> resume.upto, behind |-> resume.behind])
    /\ resume' = [st |-> "none"]
    /\ subscribed' = (subscribed \/ resume.live)
    /\ live' = (live \/ resume.live)
    /\ UNCHANGED <<total, log, base, ckpt, pauseAsked, requests, batch, online, client, counts>>

\* session.pauseStatus: a session that is not live is activated to be asked.
AnswerPause ==
    /\ pauseAsked
    /\ pauseAsked' = FALSE /\ live' = TRUE
    /\ wire' = Append(wire, [kind |-> "paused"])
    /\ UNCHANGED <<total, log, base, ckpt, subscribed, resume, requests, batch, online, client, counts>>

Answer(r, resync) ==
    wire' = Append(wire, [kind |-> "caught", store |-> r.store, resync |-> resync])

\* catchupFrom: catchupPlan over the checkpoint and the tail.
PlanCatchup(r) ==
    /\ r.st = "asked"
    /\ IF r.after < ckpt \/ r.after > Len(log)
       THEN Answer(r, TRUE) /\ requests' = requests \ {r}
       ELSE /\ requests' = (requests \ {r}) \cup {[r EXCEPT !.st = "read"]}
            /\ UNCHANGED wire
    /\ UNCHANGED <<journal, subscribed, resume, pauseAsked, batch, online, client, counts>>

\* recordsAfter has flushed the chain: the file may have been compacted since.
ReadCatchup(r) ==
    /\ r.st = "read"
    /\ requests' = (requests \ {r}) \cup {[r EXCEPT !.st = "push", !.rest = RecordsAfter(r.after)]}
    /\ UNCHANGED <<journal, subscribed, resume, pauseAsked, batch, online, wire, client, counts>>

\* One page of the replay; events published meanwhile land between two pages.
PushPage(r) ==
    /\ r.st = "push" /\ r.rest # {}
    /\ LET first == Min(r.rest)
           last  == Min({first + PageSize - 1, Max(r.rest)})
       IN  /\ batch' = batch \o [i \in 1..last - first + 1 |-> Frame(first + i - 1)]
           /\ requests' = (requests \ {r}) \cup {[r EXCEPT !.rest = @ \ (first..last)]}
    /\ UNCHANGED <<journal, subscribed, resume, pauseAsked, online, wire, client, counts>>

EndCatchup(r) ==
    /\ r.st = "push" /\ r.rest = {}
    /\ Answer(r, FALSE) /\ requests' = requests \ {r}
    /\ UNCHANGED <<journal, subscribed, resume, pauseAsked, batch, online, client, counts>>

ServeCatchup == \E r \in requests :
    PlanCatchup(r) \/ ReadCatchup(r) \/ PushPage(r) \/ EndCatchup(r)

\* The batcher's window ends, or it is full, or a page ends; backpressure may
\* keep it waiting.
FlushBatch ==
    /\ batch # <<>>
    /\ wire' = wire \o batch
    /\ batch' = <<>>
    /\ UNCHANGED <<journal, subscribed, resume, pauseAsked, requests, online, client, counts>>

-----------------------------------------------------------------------------
(* The client.                                                             *)

\* openSession: one at a time, and none without a connection.
OpenSession ==
    IF opening # "none" \/ ~online
    THEN UNCHANGED <<opening, resume>>
    ELSE opening' = "fetch" /\ resume' = [st |-> "asked"]

UserOpens ==
    /\ online /\ opening = "none" /\ opens < MaxOpens
    /\ opens' = opens + 1
    /\ OpenSession
    /\ UNCHANGED <<journal, subscribed, pauseAsked, requests, batch, online, wire, store, mounted,
                   gate, resynced, record, compacts, disconnects>>

\* session.send on the session on screen: activates it and attaches the stream,
\* also while a new snapshot of it is being fetched.
UserSends ==
    /\ online /\ mounted
    /\ ~live \/ ~subscribed
    /\ live' = TRUE /\ subscribed' = TRUE
    /\ UNCHANGED <<total, log, base, ckpt, resume, pauseAsked, requests, batch, online, wire, client,
                   counts>>

\* A new store takes the screen; the open goes on to ask for the pause state.
MountStore(m) ==
    /\ store' = store + 1 /\ mounted' = TRUE
    /\ opening' = "pause" /\ pauseAsked' = TRUE
    /\ watermark' = m.cursor /\ shown' = Transcript(m.upto)
    /\ reorder' = {} /\ inFlight' = FALSE /\ gapTimer' = FALSE
    /\ stale' = m.behind /\ refused' = FALSE
    /\ UNCHANGED <<resynced, resume, requests>>

\* Mutant: the open in flight is not cleared.
PausedAndStillOpen == UNCHANGED <<client, resume, pauseAsked, requests>>

\* The pause state arrives, and `finally' ends the open.
EndOpen ==
    /\ opening' = "none"
    /\ UNCHANGED <<store, mounted, gate, resynced, record, resume, pauseAsked, requests>>

\* #triggerResync of a store, once in its life: it opens the session again, but
\* for an open in flight, which drops the call.
TriggerResync(s) ==
    IF s \in resynced
    THEN UNCHANGED <<resynced, refused, opening, resume>>
    ELSE /\ resynced' = resynced \cup {s}
         /\ refused' = (refused \/ (s = store /\ opening = "pause"))
         /\ OpenSession

\* #admitSeq: a replay is dropped.
DropReplay(m) ==
    /\ m.seq <= watermark
    /\ UNCHANGED <<client, resume, pauseAsked, requests>>

\* The view folds a frame by its key: an event it shows already is put in its
\* own place.  A run is in the order of the history, so these are its first.
Unseen(page) ==
    LET seen == {i \in DOMAIN page : \E j \in DOMAIN shown : shown[j] = page[i]}
    IN  SubSeq(page, Cardinality(seen) + 1, Len(page))

\* #admitSeq: the next one is due, with what waited behind it up to `last'.
Due(m, last) ==
    LET held == {f.seq : f \in reorder} IN
    /\ m.seq = watermark + 1
    /\ m.seq + 1..last \subseteq held /\ last + 1 \notin held
Run(m, last) ==
    [k \in 1..last - watermark |->
        IF k = 1 THEN m.ev ELSE (CHOOSE f \in reorder : f.seq = watermark + k).ev]

\* Mutant: every frame of the run is one more entry.
ApplyAppends(m) ==
    /\ \E last \in m.seq..m.seq + Cardinality(reorder) :
       /\ Due(m, last)
       /\ watermark' = last
       /\ shown' = shown \o Run(m, last)
       /\ reorder' = {f \in reorder : f.seq > last}
    /\ gapTimer' = (gapTimer /\ reorder' # {})
    /\ UNCHANGED <<opening, store, mounted, inFlight, resynced, record, resume, pauseAsked, requests>>

\* The run is applied.
Apply(m) ==
    /\ \E last \in m.seq..m.seq + Cardinality(reorder) :
       /\ Due(m, last)
       /\ watermark' = last
       /\ shown' = shown \o Unseen(Run(m, last))
       /\ reorder' = {f \in reorder : f.seq > last}
    /\ gapTimer' = (gapTimer /\ reorder' # {})
    /\ UNCHANGED <<opening, store, mounted, inFlight, resynced, record, resume, pauseAsked, requests>>

\* Mutant: the guard is left to the catchup's answer.
NoGapTimer == UNCHANGED gapTimer

\* #armGapTimer: not twice, and not after the resync has been triggered.
ArmGapTimer == gapTimer' = (gapTimer \/ store \notin resynced)

\* #admitSeq and #requestCatchup: a hole.
Hold(m) ==
    /\ m.seq > watermark + 1
    /\ reorder' = {f \in reorder : f.seq # m.seq} \cup {[seq |-> m.seq, ev |-> m.ev]}
    /\ ArmGapTimer
    /\ inFlight' = TRUE
    /\ requests' = IF inFlight THEN requests
                   ELSE requests \cup {[store |-> store, after |-> watermark, st |-> "asked", rest |-> {}]}
    /\ UNCHANGED <<opening, store, mounted, watermark, shown, resynced, record, resume, pauseAsked>>

\* The answer to a catchup of this store, or of one that was replaced.
CatchupAnswered(m) ==
    /\ inFlight' = (inFlight /\ m.store # store)
    /\ IF m.resync
       THEN /\ TriggerResync(m.store)
            /\ gapTimer' = (gapTimer /\ (m.store # store \/ m.store \in resynced))
       ELSE UNCHANGED <<resynced, refused, gapTimer, opening, resume>>
    /\ UNCHANGED <<store, mounted, watermark, shown, reorder, stale, pauseAsked, requests>>

Deliver ==
    /\ wire # <<>>
    /\ wire' = SubSeq(wire, 2, Len(wire))
    /\ LET m == Head(wire) IN
       \/ m.kind = "snapshot" /\ MountStore(m)
       \/ m.kind = "paused" /\ EndOpen
       \/ m.kind = "caught" /\ CatchupAnswered(m)
       \/ /\ m.kind = "event" /\ mounted
          /\ DropReplay(m) \/ Apply(m) \/ Hold(m)
       \/ /\ m.kind = "event" /\ ~mounted
          /\ UNCHANGED <<client, resume, pauseAsked, requests>>
    /\ UNCHANGED <<journal, subscribed, batch, online, counts>>

\* Mutant: the guard fires and leaves the hole to the next frame.
GapTimeoutGivesUp ==
    /\ mounted /\ gapTimer
    /\ gapTimer' = FALSE
    /\ UNCHANGED <<journal, serving, online, wire, opening, store, mounted,
                   watermark, shown, reorder, inFlight, resynced, record, counts>>

\* The guard timer of the hole fires.
GapTimeout ==
    /\ mounted /\ gapTimer
    /\ gapTimer' = FALSE
    /\ IF reorder # {} THEN TriggerResync(store) ELSE UNCHANGED <<resynced, refused, opening, resume>>
    /\ UNCHANGED <<journal, subscribed, pauseAsked, requests, batch, online, wire, store, mounted,
                   watermark, shown, reorder, inFlight, stale, counts>>

-----------------------------------------------------------------------------
(* Loss of the connection.                                                 *)

\* Pending calls reject.  An open that waits for its snapshot fails and clears
\* the screen; one that waits for the pause state does without it.
ConnectionLost ==
    /\ online /\ disconnects < MaxDisconnects
    /\ disconnects' = disconnects + 1
    /\ online' = FALSE /\ wire' = <<>> /\ batch' = <<>>
    /\ subscribed' = FALSE /\ resume' = [st |-> "none"] /\ pauseAsked' = FALSE /\ requests' = {}
    /\ inFlight' = FALSE /\ opening' = "none"
    /\ IF opening = "fetch"
       THEN mounted' = FALSE /\ shown' = <<>> /\ watermark' = 0 /\ reorder' = {} /\ gapTimer' = FALSE
       ELSE UNCHANGED <<mounted, shown, watermark, reorder, gapTimer>>
    /\ UNCHANGED <<store, resynced, record, opens, compacts>>

Disconnect == ConnectionLost /\ UNCHANGED journal

\* The daemon restarts.  Queued appends are lost, and the next life numbers from
\* the last record of the file, or from 0 when compaction left it empty; the
\* history goes on from what the readers of the files find.
Restart ==
    /\ ConnectionLost
    /\ live' = FALSE
    /\ \E n \in base..Len(log) :
       IF n = base THEN log' = <<>> /\ base' = 0
       ELSE log' = [i \in 1..n |-> 0] /\ UNCHANGED base
    /\ \E k \in 0..total : total' = k
    /\ UNCHANGED ckpt

\* Mutant: the store on screen is kept across the reconnect.
ReconnectKeepsStore ==
    /\ ~online
    /\ online' = TRUE
    /\ UNCHANGED <<journal, serving, wire, client, counts>>

\* boot() connects again and opens the session that was on screen.
Reconnect ==
    /\ ~online
    /\ online' = TRUE
    /\ IF mounted
       THEN opening' = "fetch" /\ resume' = [st |-> "asked"]
       ELSE UNCHANGED <<opening, resume>>
    /\ UNCHANGED <<journal, subscribed, pauseAsked, requests, batch, wire, store, mounted, gate,
                   resynced, record, counts>>

-----------------------------------------------------------------------------
Next ==
    \/ Publish \/ Compact \/ IdleDispose \/ Activate
    \/ Capture \/ Respond \/ AnswerPause \/ ServeCatchup \/ FlushBatch
    \/ UserOpens \/ UserSends \/ Deliver \/ GapTimeout
    \/ Disconnect \/ Restart \/ Reconnect

\* The daemon's calls finish, the batcher's deadline forces a flush, frames
\* arrive, the ten-second guard fires, and the client keeps reconnecting.
Fairness ==
    /\ WF_vars(Capture) /\ WF_vars(Respond) /\ WF_vars(AnswerPause) /\ WF_vars(ServeCatchup) /\ WF_vars(FlushBatch)
    /\ WF_vars(Deliver) /\ WF_vars(GapTimeout) /\ WF_vars(Reconnect)

Spec     == Init /\ [][Next]_vars
FairSpec == Spec /\ Fairness

-----------------------------------------------------------------------------
(* Properties.                                                             *)

Held == {f.seq : f \in reorder}

\* Every variable keeps its type, and a compaction cuts what has been numbered.
TypeOK ==
    /\ live \in BOOLEAN /\ subscribed \in BOOLEAN /\ online \in BOOLEAN /\ pauseAsked \in BOOLEAN
    /\ mounted \in BOOLEAN /\ inFlight \in BOOLEAN /\ gapTimer \in BOOLEAN
    /\ stale \in BOOLEAN /\ refused \in BOOLEAN
    /\ opening \in {"none", "fetch", "pause"}
    /\ total \in Nat /\ base \in Nat /\ ckpt \in Nat /\ store \in Nat /\ watermark \in Nat
    /\ base <= Len(log)
    /\ log \in Seq(Nat) /\ shown \in Seq(Nat)
    /\ \A f \in reorder : f.seq \in Nat /\ f.ev \in Nat
    /\ resynced \in SUBSET Nat
    /\ \A r \in requests : r.st \in {"asked", "read", "push"} /\ r.rest \subseteq DOMAIN log

\* The transcript on screen is an initial piece of the history: replays, live
\* events that overtake them, snapshots that ran ahead of their cursor and stores
\* that are replaced in between never leave a hole, a repetition or an exchange
\* in it.  Not promised while a fresh snapshot is on its way to replace the
\* store, nor by a store whose snapshot was older than the tail it was stamped with.
ShownIsHistory == opening # "fetch" /\ ~stale => shown = Transcript(Len(shown))

\* On the daemon's numbering, the screen has every event before the one the gate
\* accepts next: dropping what is at or below the watermark never drops an event
\* that is not on screen, and the watermark never names what is still to come.
NextEvent == IF watermark < Len(log) THEN log[watermark + 1] ELSE total + 1
WatermarkMatchesScreen ==
    mounted /\ online /\ opening # "fetch" /\ ~stale =>
        watermark <= Len(log) /\ NextEvent <= Len(shown) + 1 /\ Len(shown) <= total

\* A store that waits for a hole always has someone at work on it: a catchup
\* under way, the guard timer, or the open that replaces it.  The one exception
\* is a store that asked for its replacement while the open that made it was
\* still waiting for the pause state.
HoleIsAttended ==
    mounted /\ online /\ reorder # {} =>
        inFlight \/ gapTimer \/ opening = "fetch" \/ refused

\* A hole ends: it is filled, or a fresh snapshot replaces the store.
HoleEnds == (reorder # {}) ~> (reorder = {} \/ refused)

\* An open that was begun ends, snapshot and pause state answered or not.
OpenEnds == (opening # "none") ~> (opening = "none")

\* The pipeline implements the feed.  A transcript that is about to be replaced,
\* one without a connection and one that began behind its cursor count as none.
Feed == INSTANCE TranscriptFeed WITH
    shown <- IF opening = "fetch" \/ ~online \/ stale THEN <<>> ELSE shown
ImplementsFeed == Feed!Spec
=============================================================================
