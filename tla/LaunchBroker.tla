---------------------------- MODULE LaunchBroker -----------------------------
(***************************************************************************)
(* One supervised process name, from launch/broker.ts: the requests of     *)
(* several clients, restarts with backoff, the death of the broker and its *)
(* successor, and the notice that a process ended.                         *)
(*                                                                         *)
(* A launch is a number.  The process of a launch has that number, and so  *)
(* has the record that a start creates with its first launch.  A record's  *)
(* generation is its last launch.  An id of a completion is the launch     *)
(* that ended and the life of the broker that noticed.                     *)
(***************************************************************************)
EXTENDS Naturals, Sequences, FiniteSets

CONSTANTS
    Callers,      \* requests under way at a time
    MaxLaunches,
    MaxDeaths,    \* deaths and exits of the broker
    Scopes        \* the specs of the name, the same at every start, each with how
                  \* many launches, deaths and callers it is looked at, and whether
                  \* writes fail

ASSUME BrokerAssumption ==
    /\ MaxLaunches \in Nat /\ MaxDeaths \in Nat
    /\ Scopes \subseteq [detached : BOOLEAN, policy : {"no", "on-failure", "always"},
                         launches : 0..MaxLaunches, deaths : 0..MaxDeaths, callers : SUBSET Callers,
                         fails : BOOLEAN]

Launches == 1..MaxLaunches
Ids == Launches \X (0..MaxDeaths)

VARIABLES
    \* the broker
    up, closing,   \* it runs; #shuttingDown
    current,       \* the record in #records, 0 for none
    recs,          \* ManagedDaemon, those a request still holds included
    owner,         \* the record of a launch
    launches,
    opening,       \* detached launches that await the log file
    reading,       \* generations a #refreshDetached has captured
    settles,       \* calls of #settle that await the output
    armed,         \* restart timers that will fire, by record
    watched,       \* processes whose exit this broker awaits
    ops,           \* the requests
    telling, box,  \* completions that await the disk; #pendingCompletions
    \* outside
    proc,          \* none, alive or dead
    writes, meta,  \* persistQueue; the metadata file
    seen,          \* completions the client's sink was given
    deaths,
    scope,         \* one of Scopes
    \* history
    asked,         \* launches whose stop was requested
    ended,         \* launches with a completion, save what a death hid: one the disk
                   \* has no launch of, or behind an earlier one that is pending
    stray,         \* one of the races ProcessOnRecord names has happened
    lost,          \* processes no file named when a broker died
    unsaved        \* completions announced, or about to be, that are not on disk: those
                   \* a recovering broker made, and those whose write failed

broker  == <<up, closing, current, recs, owner, launches, opening, reading, settles, armed,
             watched, ops, telling, box>>
outside == <<proc, writes, meta, seen, deaths, scope>>
history == <<asked, ended, stray, lost, unsaved>>
vars    == <<broker, outside, history>>

\* The launches of some completions.
Of(ids) == {id[1] : id \in ids}

Settled(s) == s \in {"ended", "restarting"}

NoRecord == [state |-> "none"]
NoMeta   == [state |-> "none", gen |-> 0, pid |-> 0, pend |-> {}]
Idle     == [kind |-> "idle"]

\* What #persist captures.
Snapshot(x) == [state |-> x.state, gen |-> x.gen, pid |-> x.pid, pend |-> x.pend]

\* #persist behind a queue, where a second write of the same is not told apart.
Queued(queue, x) ==
    IF queue # <<>> /\ queue[Len(queue)] = Snapshot(x) THEN queue ELSE Append(queue, Snapshot(x))

\* A record is changed and its metadata queued.
Save(r, x) ==
    /\ recs' = [recs EXCEPT ![r] = x]
    /\ writes' = [writes EXCEPT ![r] = Queued(@, x)]

Init ==
    /\ up = TRUE /\ closing = FALSE /\ current = 0 /\ launches = 0
    /\ recs = [r \in Launches |-> NoRecord] /\ owner = [n \in Launches |-> 0]
    /\ opening = {} /\ reading = {} /\ settles = {} /\ watched = {}
    /\ armed = [r \in Launches |-> 0] /\ ops = [c \in Callers |-> Idle]
    /\ telling = {} /\ box = {} /\ seen = {}
    /\ proc = [n \in Launches |-> "none"]
    /\ writes = [r \in Launches |-> <<>>] /\ meta = NoMeta
    /\ deaths = 0 /\ scope \in Scopes /\ asked = {} /\ ended = {} /\ stray = FALSE /\ lost = {}
    /\ unsaved = {}

-----------------------------------------------------------------------------
(* Launch and settlement.                                                  *)

\* #launch of a record x under the number r.  A pipe process is spawned in the
\* same turn, a detached one after its log file is open; the spawn may throw.
Launch(r, x) ==
    LET n == launches + 1
        y == [x EXCEPT !.gen = n, !.stop = FALSE, !.state = "running", !.pid = 0]
        z == [y EXCEPT !.proc = n, !.pid = n]
    IN
    /\ launches < scope.launches /\ launches' = n
    /\ owner' = [owner EXCEPT ![n] = r]
    /\ \/ /\ scope.detached /\ opening' = opening \cup {n}
          /\ Save(r, y)
          /\ UNCHANGED <<proc, watched, settles>>
       \/ /\ ~scope.detached
          /\ recs' = [recs EXCEPT ![r] = z]
          /\ writes' = [writes EXCEPT ![r] = Queued(Queued(@, y), z)]
          /\ proc' = [proc EXCEPT ![n] = "alive"] /\ watched' = watched \cup {n}
          /\ UNCHANGED <<opening, settles>>
       \/ /\ ~scope.detached
          /\ Save(r, y)
          /\ settles' = settles \cup {[n |-> n, failed |-> TRUE]}
          /\ UNCHANGED <<proc, watched, opening>>

\* The first check of #settle.
Unsettled(n) == recs[owner[n]].gen = n /\ ~Settled(recs[owner[n]].state)

SettleCall(n, failed) ==
    settles' = IF Unsettled(n) THEN settles \cup {[n |-> n, failed |-> failed]} ELSE settles

\* #launchDetached spawns, whatever became of its launch in between.
Opened(n) ==
    LET r == owner[n] IN
    /\ n \in opening /\ opening' = opening \ {n}
    /\ proc' = [proc EXCEPT ![n] = "alive"] /\ watched' = watched \cup {n}
    /\ Save(r, [recs[r] EXCEPT !.proc = n, !.pid = n])
    /\ UNCHANGED <<up, closing, current, owner, launches, reading, settles, armed, ops, telling, box,
                   meta, seen, deaths, scope, history>>

\* Its log file cannot be opened, or the spawn throws.
OpenFails(n) ==
    /\ n \in opening /\ opening' = opening \ {n}
    /\ SettleCall(n, TRUE)
    /\ UNCHANGED <<up, closing, current, recs, owner, launches, reading, armed, watched, ops, telling,
                   box, outside, history>>

\* A process ends, of itself or by a signal.
Dies(n) ==
    /\ proc[n] = "alive" /\ proc' = [proc EXCEPT ![n] = "dead"]
    /\ UNCHANGED <<broker, writes, meta, seen, deaths, scope, history>>

\* The exit of a child is noticed, with its code.  For a pipe process that is at
\* the end of its output, however long a descendant keeps it open.
Exited(n) ==
    /\ n \in watched /\ proc[n] = "dead" /\ watched' = watched \ {n}
    /\ \E failed \in BOOLEAN : SettleCall(n, failed)
    /\ UNCHANGED <<up, closing, current, recs, owner, launches, opening, reading, armed, ops, telling,
                   box, outside, history>>

\* #refreshDetached, of any request, or of the monitor of a recovered record.
Refresh(r) ==
    /\ up /\ r # 0 /\ r = current
    /\ scope.detached /\ ~Settled(recs[r].state)
    /\ reading' = reading \cup {recs[r].gen}
    /\ UNCHANGED <<up, closing, current, recs, owner, launches, opening, settles, armed, watched, ops,
                   telling, box, outside, history>>

\* After its read: a process that is neither a child nor alive has ended.
RefreshRead(n) ==
    LET x == recs[owner[n]] IN
    /\ n \in reading /\ reading' = reading \ {n}
    /\ IF x.gen = n /\ x.proc = 0 /\ ~(x.pid # 0 /\ proc[x.pid] = "alive")
       THEN SettleCall(n, FALSE) /\ stray' = (stray \/ n \in opening)
       ELSE UNCHANGED <<settles, stray>>
    /\ UNCHANGED <<up, closing, current, recs, owner, launches, opening, armed, watched, ops, telling,
                   box, outside, asked, ended, lost, unsaved>>

RestartsOn(x, failed) ==
    /\ ~x.stop /\ ~closing
    /\ \/ scope.policy = "always"
       \/ scope.policy = "on-failure" /\ failed

\* The rest of #settle on the record x: the backoff timer is armed, or the
\* record ends and, unless a stop was requested, its owner is to be told.
Settle(s, x) ==
    LET r  == owner[s.n]
        id == <<s.n, deaths>>
        y  == [x EXCEPT !.proc = 0, !.pid = 0]
        report == IF x.stop THEN {} ELSE {id}
    IN
    \/ /\ RestartsOn(x, s.failed)
       /\ Save(r, [y EXCEPT !.state = "restarting", !.timer = TRUE])
       /\ armed' = [armed EXCEPT ![r] = @ + 1]
       /\ UNCHANGED <<telling, ended>>
    \/ /\ ~RestartsOn(x, s.failed)
       /\ Save(r, [y EXCEPT !.state = "ended", !.pend = @ \cup report])
       /\ telling' = telling \cup report /\ ended' = ended \cup Of(report)
       /\ UNCHANGED armed

\* Mutant: the state is not looked at again after the read.
SettleReentered(s) ==
    /\ s \in settles /\ settles' = settles \ {s}
    /\ IF recs[owner[s.n]].gen = s.n
       THEN Settle(s, recs[owner[s.n]])
       ELSE UNCHANGED <<recs, writes, armed, telling, ended>>
    /\ UNCHANGED <<up, closing, current, owner, launches, opening, reading, watched, ops, box,
                   proc, meta, seen, deaths, scope, asked, stray, lost, unsaved>>

\* #settle after its read.
Settles(s) ==
    /\ s \in settles /\ settles' = settles \ {s}
    /\ IF Unsettled(s.n)
       THEN Settle(s, recs[owner[s.n]])
       ELSE UNCHANGED <<recs, writes, armed, telling, ended>>
    /\ UNCHANGED <<up, closing, current, owner, launches, opening, reading, watched, ops, box,
                   proc, meta, seen, deaths, scope, asked, stray, lost, unsaved>>

\* The backoff is over.
TimerFires(r) ==
    /\ armed[r] > 0 /\ armed' = [armed EXCEPT ![r] = @ - 1]
    /\ Launch(r, [recs[r] EXCEPT !.timer = FALSE])
    /\ UNCHANGED <<up, closing, current, reading, ops, telling, box, meta, seen, deaths, scope, history>>

-----------------------------------------------------------------------------
(* Requests.                                                               *)

Serving(c) == up /\ c \in scope.callers /\ ops[c] = Idle

\* The generation a refresh of record r captures, 0 if it returns at once.
Captured(r) ==
    IF r # 0 /\ scope.detached /\ ~Settled(recs[r].state) THEN recs[r].gen ELSE 0

Goes(c, pc) == ops' = [ops EXCEPT ![c].pc = pc]
Ends(c)     == ops' = [ops EXCEPT ![c] = Idle]

\* A request begins with a refresh of the record it names.
Begin(c, kind, r) ==
    /\ ops' = [ops EXCEPT ![c] = [kind |-> kind, pc |-> "refresh", rec |-> r, gen |-> Captured(r), pid |-> 0]]
    /\ reading' = reading \cup ({Captured(r)} \ {0})

\* Its refresh is over.
Refreshed(c) ==
    /\ ops[c].kind # "idle" /\ ops[c].pc = "refresh"
    /\ ops[c].gen \notin reading \cup {s.n : s \in settles}

\* Mutant: the name is not reserved.
StartUnreserved(c) ==
    /\ Serving(c) /\ Begin(c, "start", current)
    /\ UNCHANGED <<up, closing, current, recs, owner, launches, opening, settles, armed, watched,
                   telling, box, outside, history>>

\* start: a second one for the name is refused while the first is on its way.
Start(c) ==
    /\ Serving(c) /\ \A d \in Callers : ops[d].kind # "start"
    /\ Begin(c, "start", current)
    /\ UNCHANGED <<up, closing, current, recs, owner, launches, opening, settles, armed, watched,
                   telling, box, outside, history>>

\* Mutant: completions that wait for the client are not looked at.
StartChecksLive(c) ==
    LET r == ops[c].rec IN
    /\ Refreshed(c) /\ ops[c].kind = "start"
    /\ IF r # 0 /\ recs[r].state # "ended" THEN Ends(c) ELSE Goes(c, "open")
    /\ UNCHANGED <<up, closing, current, recs, owner, launches, opening, reading, settles, armed,
                   watched, telling, box, outside, history>>

\* A live name is refused, and one with a completion nobody has acknowledged.
StartChecks(c) ==
    LET r == ops[c].rec IN
    /\ Refreshed(c) /\ ops[c].kind = "start"
    /\ IF r # 0 /\ (recs[r].state # "ended" \/ recs[r].pend # {}) THEN Ends(c) ELSE Goes(c, "open")
    /\ UNCHANGED <<up, closing, current, recs, owner, launches, opening, reading, settles, armed,
                   watched, telling, box, outside, history>>

\* The directory and the log are there: the record replaces the one before.
StartLaunches(c) ==
    /\ ops[c].kind = "start" /\ ops[c].pc = "open" /\ Ends(c)
    /\ current' = launches + 1
    /\ Launch(launches + 1, [state |-> "none", gen |-> 0, stop |-> FALSE, proc |-> 0, pid |-> 0,
                             timer |-> FALSE, pend |-> {}])
    /\ stray' = (stray \/ \E r \in Launches : writes[r] # <<>>)
    /\ UNCHANGED <<up, closing, reading, armed, telling, box, meta, seen, deaths, scope,
                   asked, ended, lost, unsaved>>

\* stop and restart.
StopOrRestart(c, kind) ==
    /\ Serving(c) /\ current # 0
    /\ Begin(c, kind, current)
    /\ UNCHANGED <<up, closing, current, recs, owner, launches, opening, settles, armed, watched,
                   telling, box, outside, history>>

\* shutdown, and its pass over the record: a detached process is left alone.
Shutdown(c) ==
    LET keeps == \/ current = 0
                 \/ recs[current].state = "ended"
                 \/ scope.detached /\ ~recs[current].stop /\ recs[current].pid # 0
    IN
    /\ Serving(c) /\ deaths < scope.deaths /\ ~closing /\ closing' = TRUE
    /\ IF keeps
       THEN /\ ops' = [ops EXCEPT ![c] = [kind |-> "shutdown", pc |-> "drain", rec |-> current, gen |-> 0, pid |-> 0]]
            /\ UNCHANGED reading
       ELSE Begin(c, "shutdown", current)
    /\ UNCHANGED <<up, current, recs, owner, launches, opening, settles, armed, watched,
                   telling, box, outside, history>>

\* Where a request goes on from #stopRecord.
AfterStop(c) ==
    CASE ops[c].kind = "stop"     -> Ends(c)
      [] ops[c].kind = "restart"  -> Goes(c, "reopen")
      [] ops[c].kind = "shutdown" -> Goes(c, "drain")

\* Mutant: a timer is taken to be armed.
DisarmedAlways(r) == [armed EXCEPT ![r] = @ - 1]

\* clearTimeout(record.restartTimer).
Disarmed(r) == [armed EXCEPT ![r] = IF recs[r].timer /\ @ > 0 THEN @ - 1 ELSE @]

\* #stopRecord after its refresh: nothing to do, a restart to call off, or a
\* process to end.
StopRecord(c) ==
    LET r == ops[c].rec
        x == recs[r]
    IN
    /\ Refreshed(c) /\ ops[c].kind # "start"
    /\ \/ /\ x.state = "ended" /\ AfterStop(c)
          /\ UNCHANGED <<recs, writes, armed, asked>>
       \/ /\ x.state # "ended" /\ x.timer /\ AfterStop(c)
          /\ Save(r, [x EXCEPT !.stop = TRUE, !.timer = FALSE, !.state = "ended"])
          /\ armed' = Disarmed(r)
          /\ asked' = asked \cup {x.gen}
       \/ /\ x.state # "ended" /\ ~x.timer
          /\ Save(r, [x EXCEPT !.stop = TRUE, !.state = "stopping"])
          /\ ops' = [ops EXCEPT ![c].pc = IF x.pid = 0 THEN "wait" ELSE "kill", ![c].pid = x.pid]
          /\ asked' = asked \cup {x.gen}
          /\ UNCHANGED armed
    /\ UNCHANGED <<up, closing, current, owner, launches, opening, reading, settles, watched, telling,
                   box, proc, meta, seen, deaths, scope, ended, stray, lost, unsaved>>

\* terminate: politely, then hard.
Kill(c) ==
    /\ ops[c].kind # "idle" /\ ops[c].pc = "kill" /\ Goes(c, "wait")
    /\ proc' = [proc EXCEPT ![ops[c].pid] = "dead"]
    /\ UNCHANGED <<up, closing, current, recs, owner, launches, opening, reading, settles, armed,
                   watched, telling, box, writes, meta, seen, deaths, scope, history>>

\* #waitUntil: the record has ended, or the deadline has passed.
Waited(c) ==
    /\ ops[c].kind # "idle" /\ ops[c].pc = "wait" /\ AfterStop(c)
    /\ UNCHANGED <<up, closing, current, recs, owner, launches, opening, reading, settles, armed,
                   watched, telling, box, outside, history>>

\* The log is open again: restart launches, whatever became of the record.
RestartLaunches(c) ==
    LET r == ops[c].rec IN
    /\ ops[c].kind = "restart" /\ ops[c].pc = "reopen" /\ Ends(c)
    /\ Launch(r, recs[r])
    /\ stray' = \/ stray \/ r # current \/ recs[r].state # "ended"
                \/ \E d \in Callers : ops[d].kind = "start" /\ ops[d].pc = "open"
    /\ UNCHANGED <<up, closing, current, reading, armed, telling, box, meta, seen, deaths, scope,
                   asked, ended, lost, unsaved>>

\* A file of a start or a restart cannot be opened.
OpensNothing(c) ==
    /\ ops[c].kind # "idle" /\ ops[c].pc \in {"open", "reopen"} /\ Ends(c)
    /\ UNCHANGED <<up, closing, current, recs, owner, launches, opening, reading, settles, armed,
                   watched, telling, box, outside, history>>

\* The pass ends: the timer is cleared.
Drained(c) ==
    /\ ops[c].kind = "shutdown" /\ ops[c].pc = "drain" /\ Goes(c, "exit")
    /\ armed' = IF ops[c].rec = 0 THEN armed ELSE Disarmed(ops[c].rec)
    /\ UNCHANGED <<up, closing, current, recs, owner, launches, opening, reading, settles, watched,
                   telling, box, outside, history>>

-----------------------------------------------------------------------------
(* Completions and the disk.                                               *)

\* One link of persistQueue.
Write(r) ==
    /\ writes[r] # <<>>
    /\ meta' = Head(writes[r]) /\ writes' = [writes EXCEPT ![r] = Tail(@)]
    /\ unsaved' = unsaved \ meta'.pend
    /\ UNCHANGED <<broker, proc, seen, deaths, scope, asked, ended, stray, lost>>

\* The write or the rename fails: a warning, and all goes on as if it were done.
\* A completion of an earlier life was read from the disk.
WriteFails(r) ==
    /\ scope.fails /\ writes[r] # <<>>
    /\ writes' = [writes EXCEPT ![r] = Tail(@)]
    /\ unsaved' = unsaved \cup {id \in Head(writes[r]).pend \ meta.pend : id[2] = deaths}
    /\ UNCHANGED <<broker, proc, meta, seen, deaths, scope, asked, ended, stray, lost>>

\* Mutant: the owner is told before the completion is on disk.
NotifyAtOnce(id) ==
    /\ id \in telling /\ telling' = telling \ {id}
    /\ box' = IF id \in recs[owner[id[1]]].pend THEN box \cup {id} ELSE box
    /\ UNCHANGED <<up, closing, current, recs, owner, launches, opening, reading, settles, armed,
                   watched, ops, outside, history>>

\* The write that has it is done or has failed: #notifyCompletion.
Notify(id) ==
    LET r == owner[id[1]] IN
    /\ id \in telling /\ telling' = telling \ {id}
    /\ \A k \in DOMAIN writes[r] : id \in meta.pend \/ id \notin writes[r][k].pend
    /\ box' = IF id \in recs[r].pend THEN box \cup {id} ELSE box
    /\ UNCHANGED <<up, closing, current, recs, owner, launches, opening, reading, settles, armed,
                   watched, ops, outside, history>>

\* It reaches the client's sink, now or when the client connects again; the
\* client passes one it has seen.
Deliver(id) ==
    /\ id \in box /\ seen' = seen \cup {id}
    /\ UNCHANGED <<broker, proc, writes, meta, deaths, scope, history>>

\* The client's acknowledgement, which may be lost and is repeated.
Ack(id) ==
    /\ id \in box \cap seen /\ box' = box \ {id}
    /\ IF current # 0 /\ id \in recs[current].pend
       THEN Save(current, [recs[current] EXCEPT !.pend = @ \ {id}])
       ELSE UNCHANGED <<recs, writes>>
    /\ UNCHANGED <<up, closing, current, owner, launches, opening, reading, settles, armed, watched, ops,
                   telling, proc, meta, seen, deaths, scope, history>>

\* Whatever was in memory is gone.
Gone ==
    /\ deaths < scope.deaths /\ deaths' = deaths + 1
    /\ up' = FALSE /\ closing' = FALSE /\ current' = 0
    /\ recs' = [r \in Launches |-> NoRecord]
    /\ opening' = {} /\ reading' = {} /\ settles' = {} /\ watched' = {}
    /\ armed' = [r \in Launches |-> 0] /\ ops' = [c \in Callers |-> Idle]
    /\ telling' = {} /\ box' = {}
    /\ writes' = [r \in Launches |-> <<>>]
    /\ lost' = lost \cup {n \in Launches : proc[n] = "alive" /\ ~(meta.state # "ended" /\ meta.pid = n)}
    /\ ended' = {n \in ended : n \in Of(meta.pend) \/ (n <= meta.gen /\ \A m \in Of(meta.pend) : m > n)}
    /\ UNCHANGED <<owner, launches, proc, meta, seen, scope, asked, stray, unsaved>>

\* The broker exits after its shutdown.
Exit(c) ==
    /\ ops[c].kind = "shutdown" /\ ops[c].pc = "exit"
    /\ IF current = 0 THEN TRUE ELSE writes[current] = <<>>
    /\ Gone

\* The broker dies.
Crash == up /\ Gone

\* Mutant: a dead process the disk has as running is not reported.
ReportDeadNot(id) == {}

ReportDead(id) == {id}

\* #recoverRecords: a detached process that is alive is adopted, any other one
\* ended; one that died unnoticed is reported.
Recover ==
    LET n       == meta.gen
        alive   == meta.pid # 0 /\ proc[meta.pid] = "alive"
        open    == meta.state \notin {"ended", "stopping"}
        adopted == scope.detached /\ open /\ alive
        id      == <<n, deaths>>
        report  == IF open /\ ~adopted /\ meta.pend = {} THEN ReportDead(id) ELSE {}
        x       == [gen |-> n, stop |-> ~adopted, proc |-> 0, timer |-> FALSE,
                    state |-> IF adopted THEN "running" ELSE "ended",
                    pid |-> IF adopted \/ meta.state = "ended" THEN meta.pid ELSE 0,
                    pend |-> meta.pend \cup report]
    IN
    /\ ~up /\ up' = TRUE
    /\ IF n = 0 THEN UNCHANGED <<current, recs, owner, writes, box, proc, ended, unsaved>>
       ELSE /\ current' = n /\ owner' = [owner EXCEPT ![n] = n]
            /\ Save(n, x)
            /\ box' = x.pend /\ ended' = ended \cup Of(report)
            /\ unsaved' = unsaved \cup report
            /\ proc' = IF alive /\ ~adopted /\ meta.state # "ended"
                       THEN [proc EXCEPT ![meta.pid] = "dead"] ELSE proc
    /\ UNCHANGED <<closing, launches, opening, reading, settles, armed, watched, ops, telling, meta,
                   seen, deaths, scope, asked, stray, lost>>

-----------------------------------------------------------------------------
Supervise ==
    \/ \E n \in Launches : Opened(n) \/ OpenFails(n) \/ Exited(n) \/ RefreshRead(n)
    \/ \E s \in settles : Settles(s)
    \/ \E r \in Launches : TimerFires(r) \/ Refresh(r)

Serve(c) ==
    \/ StartChecks(c) \/ StartLaunches(c) \/ OpensNothing(c)
    \/ StopRecord(c) \/ Kill(c) \/ Waited(c) \/ RestartLaunches(c) \/ Drained(c) \/ Exit(c)

Request(c) == Start(c) \/ StopOrRestart(c, "stop") \/ StopOrRestart(c, "restart") \/ Shutdown(c)

Report ==
    \/ \E r \in Launches : Write(r) \/ WriteFails(r)
    \/ \E id \in Ids : Notify(id) \/ Deliver(id) \/ Ack(id)

Next ==
    \/ Supervise \/ Report \/ Crash \/ Recover
    \/ \E c \in Callers : Request(c) \/ Serve(c)
    \/ \E n \in Launches : Dies(n)

Spec == Init /\ [][Next]_vars

ShutsDown(c) == ops[c].kind = "shutdown" /\ Serve(c)

\* Promise reactions, timers and completed file operations; a client that has
\* a sink connects again, and starts a broker if there is none.  Nothing is
\* assumed of when the output of a pipe process ends, nor of the monitor of a
\* recovered one, which its first error ends.
Fairness ==
    /\ \A n \in Launches : /\ WF_vars(Opened(n) \/ OpenFails(n)) /\ WF_vars(scope.detached /\ Exited(n))
                           /\ WF_vars(RefreshRead(n)) /\ WF_vars(Write(n) \/ WriteFails(n))
    /\ WF_vars(\E s \in settles : Settles(s))
    /\ WF_vars(\E id \in Ids : Notify(id)) /\ WF_vars(\E id \in Ids : Deliver(id))
    /\ \A c \in Callers : WF_vars(ShutsDown(c))
    /\ WF_vars(Recover)

FairSpec == Spec /\ Fairness

-----------------------------------------------------------------------------
States == {"running", "stopping", "restarting", "ended"}

Records ==
    [state : States, gen : Launches, stop : BOOLEAN, proc : 0..MaxLaunches,
     pid : 0..MaxLaunches, timer : BOOLEAN, pend : SUBSET Ids]

Metas == [state : States, gen : Launches, pid : 0..MaxLaunches, pend : SUBSET Ids]

Requests ==
    [kind : {"start", "stop", "restart", "shutdown"}, rec : 0..MaxLaunches, gen : 0..MaxLaunches,
     pc : {"refresh", "open", "kill", "wait", "reopen", "drain", "exit"}, pid : 0..MaxLaunches]

\* Types; nothing is in memory while no broker runs.
TypeOK ==
    /\ up \in BOOLEAN /\ closing \in BOOLEAN /\ current \in 0..MaxLaunches
    /\ launches \in 0..MaxLaunches /\ deaths \in 0..MaxDeaths /\ scope \in Scopes
    /\ recs \in [Launches -> Records \cup {NoRecord}] /\ owner \in [Launches -> 0..MaxLaunches]
    /\ current # 0 => recs[current] \in Records
    /\ opening \subseteq Launches /\ reading \subseteq Launches /\ watched \subseteq Launches
    /\ settles \subseteq [n : Launches, failed : BOOLEAN]
    /\ armed \in [Launches -> Nat] /\ ops \in [Callers -> Requests \cup {Idle}]
    /\ telling \subseteq Ids /\ box \subseteq Ids /\ seen \subseteq Ids /\ ended \subseteq Launches
    /\ proc \in [Launches -> {"none", "alive", "dead"}]
    /\ writes \in [Launches -> Seq(Metas)] /\ meta \in Metas \cup {NoMeta}
    /\ unsaved \subseteq Ids /\ asked \subseteq Launches /\ lost \subseteq Launches /\ stray \in BOOLEAN
    /\ ~up => current = 0 /\ opening \cup reading \cup settles \cup watched \cup telling \cup box = {}

Alive == {n \in Launches : proc[n] = "alive"}

\* The only process of the name is the one its record, or after a death the disk,
\* has: a stop or the next broker will reach it.  Not so for a process spawned
\* shortly before a death, nor after a restart launched a record that lives
\* again, was replaced or is about to be, a refresh took a detached launch that
\* has no process yet for one that ended, or a start replaced a record whose
\* metadata was still being written.
ProcessOnRecord ==
    ~stray => \A n \in Alive \ lost :
        IF up THEN current # 0 /\ recs[current].pid = n /\ ~Settled(recs[current].state)
        ELSE meta.pid = n /\ meta.state # "ended"

\* issue 6852: one restart timer is armed while a record waits to be restarted
\* and none otherwise, so that nothing launches a daemon that was stopped.
TimerMeansRestarting ==
    ~stray => \A r \in Launches : armed[r] = IF recs[r].state = "restarting" THEN 1 ELSE 0

\* That a process ended is not forgotten before its owner has been told: it is
\* pending in the record, or the disk has it pending or still has the process
\* as running.
ReportKept ==
    ~stray => \A n \in ended \ Of(seen) :
        IF up THEN current # 0 /\ n \in Of(recs[current].pend \cap (telling \cup box))
        ELSE n \in Of(meta.pend) \/ (meta.gen = n /\ meta.pend = {} /\ meta.state \notin {"ended", "stopping"})

\* The owner is told once, although a broker that recovers makes a new
\* completion for an end it finds unreported.  Not so if it dies before the write
\* of the one it made, which it does not wait for, nor if a broker dies that
\* announced a completion whose write had failed.
ToldOnce == \A i, j \in seen : i[1] = j[1] /\ i[2] < j[2] => i \in unsaved

\* The broker has not learnt that a process ended: a descendant keeps the output
\* of a pipe process open, or nobody looks at a process that was recovered.
Unnoticed(n) ==
    /\ up /\ proc[n] = "dead"
    /\ \/ n \in watched /\ ~scope.detached
       \/ /\ current # 0 /\ recs[current].pid = n /\ recs[current].proc = 0
          /\ n \notin reading /\ ~Settled(recs[current].state)

\* A process the disk has as running, and that ended, is reported, launched
\* again, or was to be stopped, across failed writes and deaths of the broker.
\* Not so if the end of a process goes unnoticed for ever.
EndIsTold ==
    (\A n \in Launches : []<>~Unnoticed(n)) =>
        \A n \in Launches :
            meta.pid = n /\ meta.state = "running" /\ meta.pend = {} /\ proc[n] = "dead"
                ~> \/ n \in Of(seen)
                   \/ launches > n \/ n \in asked \/ stray
                   \/ current # 0 /\ recs[current].state = "restarting"

\* hub.md:95: "Names are stable and unique within one project directory.  A
\* live name must be stopped or restarted".  Two restarts at once, or a restart
\* and a start, leave two processes of one name.
NameIsUnique == Cardinality(Alive \ lost) <= 1

\* broker-restarting-settle.test.ts:104: "Stop must be authoritative".  A stop
\* that falls between a detached launch and its spawn ends the record, and the
\* process comes up after it.
StopIsAuthoritative ==
    \A n \in Alive : current # 0 /\ recs[current].gen = n => recs[current].state # "ended"

\* A start does not wait for the writes of the record it replaces, and a write may
\* fail: when nothing is queued, the file may still be the older one.
NewestOnDisk ==
    (current # 0 /\ \A r \in Launches : writes[r] = <<>>) => meta = Snapshot(recs[current])

\* A restart keeps completions nobody has acknowledged, where a start is refused,
\* and the next broker reports a dead process only if none is pending: an end
\* it finds behind an earlier one is never told.
EndBehindAnother ==
    \A n \in Launches :
        meta.pid = n /\ meta.state = "running" /\ proc[n] = "dead"
            ~> \/ n \in Of(seen) \/ launches > n \/ n \in asked \/ stray
               \/ current # 0 /\ recs[current].state = "restarting"
=============================================================================
