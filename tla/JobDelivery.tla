---------------------------- MODULE JobDelivery -----------------------------
(***************************************************************************)
(* How the result of a background job reaches the conversation.            *)
(*                                                                         *)
(*   async/job-manager.ts       jobs, deliveries, suppression, eviction    *)
(*   session/agent-session.ts   the delivery sink, /new, abort, idle flush *)
(*   session/yield-queue.ts     results waiting for a step boundary        *)
(*   agent-loop.ts              the boundaries at which they are drained   *)
(*   tools/hub, tools/bash.ts   tools that wait for a job and report it    *)
(*   async/job-ledger.ts        the rows a restart replays                 *)
(*                                                                         *)
(* A job is the number of its registration.  An id such as bg_1 is reused  *)
(* once its job is evicted.  A completed job is one that completed or      *)
(* failed: both are delivered.  One agent owns all jobs.  A transcript is  *)
(* a generation of the session: /new starts the next one.                  *)
(***************************************************************************)
EXTENDS Selection, FiniteSets, Functions

CONSTANTS
    MaxJobs,         \* registrations
    MaxTranscripts,  \* the first one and those /new starts
    MaxMessages,     \* peer messages that reach a hub wait
    MaxAborts,       \* aborts, those of /new included
    MaxCrashes

ASSUME DeliveryBounds ==
    /\ MaxJobs \in Nat /\ MaxMessages \in Nat /\ MaxAborts \in Nat /\ MaxCrashes \in Nat
    /\ MaxTranscripts \in Nat \ {0}

Jobs == 1..MaxJobs
Ids  == 1..MaxJobs
Transcripts == 1..MaxTranscripts

\* A result on its way to a transcript.
Entry == [job : Jobs, epoch : Transcripts]

VARIABLES
    \* the manager
    born,        \* jobs registered so far
    idOf, home,  \* id and transcript of a job
    status, body,  \* its status; whether its run promise is unsettled
    jobOf,       \* #jobs: the job an id names, 0 for none
    suppressed, watched,  \* #suppressedDeliveries, #watchedJobs
    timers,      \* ids whose retention timer is set
    deliveries,  \* #deliveries
    sinks,       \* #inFlightDeliveries, with the generation the sink saw
    \* the session
    epoch,       \* the transcript on screen, 0 before a session is adopted
    latest,      \* transcripts so far
    run,         \* where the agent loop is
    stopped,     \* the run's signal is aborted
    tool,        \* the waiting tool the run executes
    aborting,    \* abort() in progress: no, stop or new
    queue,       \* the async-result entries of the yield queue
    asides,      \* pendingMessages of the loop
    flush,       \* the idle flush: none, armed, or aborted with its latch set
    \* on disk
    rows,        \* async_jobs
    entries,     \* ids with an async-job-result entry, by transcript
    adopting,    \* undelivered rows adoption has still to replay
    appended,    \* the one it has appended and not marked, 0 for none
    \* history
    told,        \* times a result was injected
    asked,       \* jobs whose result a tool returned
    replayed,    \* times a result was replayed
    missed,      \* jobs that ended under a wait which a message won
    lapsed,      \* jobs the retention timer or a late body disturbed
    earlier,     \* jobs of earlier lives of the daemon
    messages, aborts, crashes

manager == <<born, idOf, home, status, body, jobOf, suppressed, watched, timers>>
pipe    == <<deliveries, sinks, queue, asides>>
loop    == <<run, stopped, tool>>
life    == <<epoch, latest, aborting, flush>>
disk    == <<rows, entries, adopting, appended>>
history == <<told, asked, replayed, missed, lapsed, earlier>>
counts  == <<messages, aborts, crashes>>
vars    == <<manager, pipe, loop, life, disk, history, counts>>

-----------------------------------------------------------------------------
NoTool == [kind |-> "none"]
NoRow  == [st |-> "none", home |-> 0, text |-> 0, delivered |-> FALSE]

Suppressed(i) == i \in suppressed \/ i \in watched

Visible == {r \in Jobs : r <= born /\ jobOf[idOf[r]] = r}
Running == {r \in Visible : status[r] = "running"}
IdsOf(S) == {idOf[r] : r \in S}

JobsIn(s) == {s[k].job : k \in DOMAIN s}
InPipe == Range(deliveries) \cup {s.job : s \in sinks}
              \cup JobsIn(queue) \cup JobsIn(asides)

Streaming == run # "idle"

\* What a dispatcher's isStale lets through.
Fresh     == {e \in Entry : e.epoch = epoch /\ ~Suppressed(idOf[e.job])}
Survivors == Only(queue, Fresh)
Told(s)   == [r \in Jobs |-> IF r \in JobsIn(s) THEN told[r] + 1 ELSE told[r]]

\* requestIdleFlush and #scheduleIdleFlush, for a queue that will hold q.
ArmFor(q) == IF q # <<>> /\ flush = "none" THEN "armed" ELSE flush

Init ==
    /\ born = 0 /\ idOf = [r \in Jobs |-> r] /\ home = [r \in Jobs |-> 0]
    /\ status = [r \in Jobs |-> "unborn"] /\ body = [r \in Jobs |-> FALSE]
    /\ jobOf = [i \in Ids |-> 0]
    /\ suppressed = {} /\ watched = {} /\ timers = {}
    /\ deliveries = <<>> /\ sinks = {} /\ queue = <<>> /\ asides = <<>>
    /\ epoch = 1 /\ latest = 1 /\ aborting = "no" /\ flush = "none"
    /\ run = "idle" /\ stopped = FALSE /\ tool = NoTool
    /\ rows = [i \in Ids |-> NoRow] /\ entries = [t \in Transcripts |-> {}]
    /\ adopting = {} /\ appended = 0
    /\ told = [r \in Jobs |-> 0] /\ replayed = [r \in Jobs |-> 0]
    /\ asked = {} /\ missed = {} /\ lapsed = {} /\ earlier = {}
    /\ messages = 0 /\ aborts = 0 /\ crashes = 0

-----------------------------------------------------------------------------
(* The manager.                                                            *)

\* #resolveJobId: the first free bg_N.
NewId == CHOOSE i \in Ids : jobOf[i] = 0 /\ \A j \in Ids : j < i => jobOf[j] # 0

\* register.  Its id may still be that of results under way.
Register(i, suppress) ==
    LET r == born + 1 IN
    /\ born < MaxJobs
    /\ born' = r
    /\ idOf' = [idOf EXCEPT ![r] = i]
    /\ home' = [home EXCEPT ![r] = epoch]
    /\ status' = [status EXCEPT ![r] = "running"]
    /\ body' = [body EXCEPT ![r] = TRUE]
    /\ jobOf' = [jobOf EXCEPT ![i] = r]
    /\ suppressed' = suppress
    /\ rows' = [rows EXCEPT ![i] = [st |-> "running", home |-> epoch, text |-> 0, delivered |-> FALSE]]
    /\ lapsed' = IF i \in IdsOf(InPipe) THEN lapsed \cup {r} ELSE lapsed
    /\ UNCHANGED <<watched, timers>>

\* finish: whatever job the row belongs to.
Finish(i, st, text) == rows' = [rows EXCEPT ![i].st = st, ![i].text = text]

\* #enqueueDelivery.  Without its job in the map the delivery has no owner and
\* no sink: #deliverDelivery drops it.
EnqueueDelivery(r) ==
    deliveries' = IF Suppressed(idOf[r]) \/ jobOf[idOf[r]] = 0
                  THEN deliveries ELSE Append(deliveries, r)

\* What the end of a job's run wakes: the wait that watches it, or the call of
\* the command itself, whose completion was resolved before.
WakeFor(r) ==
    CASE tool.kind = "wait" /\ r \in tool.jobs -> [tool EXCEPT !.woken = TRUE]
      [] tool.kind = "bash" /\ tool.won = "none" /\ tool.job = r -> [tool EXCEPT !.won = "result"]
      [] OTHER -> tool

\* The run of a job returns or throws; its status was still running.
JobSettles(r) ==
    /\ r <= born /\ status[r] = "running" /\ body[r]
    /\ status' = [status EXCEPT ![r] = "completed"]
    /\ body' = [body EXCEPT ![r] = FALSE]
    /\ Finish(idOf[r], "completed", r)
    /\ EnqueueDelivery(r)
    /\ timers' = timers \cup {idOf[r]}
    /\ tool' = WakeFor(r)
    /\ UNCHANGED <<born, idOf, home, jobOf, suppressed, watched, sinks, queue, asides, run, stopped,
                   life, entries, adopting, appended, history, counts>>

\* The run of a cancelled job ends.  Its id may belong to another job by now.
JobUnwinds(r) ==
    /\ r <= born /\ status[r] = "cancelled" /\ body[r]
    /\ body' = [body EXCEPT ![r] = FALSE]
    /\ Finish(idOf[r], "cancelled", r)
    /\ timers' = timers \cup {idOf[r]}
    /\ tool' = WakeFor(r)
    /\ lapsed' = lapsed \cup {q \in r + 1..born : idOf[q] = idOf[r]}
    /\ UNCHANGED <<born, idOf, home, status, jobOf, suppressed, watched, pipe, run, stopped, life,
                   entries, adopting, appended, told, asked, replayed, missed, earlier, counts>>

WaitsFor(r) == tool.kind = "bash" /\ tool.job = r

\* The retention timer: #evictJob, with whatever of the id is still under way.
Evict(i) ==
    /\ i \in timers
    /\ jobOf' = [jobOf EXCEPT ![i] = 0]
    /\ suppressed' = suppressed \ {i} /\ watched' = watched \ {i} /\ timers' = timers \ {i}
    /\ lapsed' = lapsed \cup {r \in 1..born : idOf[r] = i /\ (body[r] \/ r \in InPipe \/ WaitsFor(r))}
    /\ UNCHANGED <<born, idOf, home, status, body, pipe, loop, life, disk,
                   told, asked, replayed, missed, earlier, counts>>

\* The deliveries acknowledgeDeliveries keeps: those that are not suppressed,
\* already or from now on.
Unacknowledged(S) == Only(deliveries, {r \in Jobs : idOf[r] \notin S /\ ~Suppressed(idOf[r])})

Acknowledge(S) ==
    /\ suppressed' = suppressed \cup S
    /\ deliveries' = Unacknowledged(S)

\* One delivery is taken: the first by #runDeliveryLoop, any by the drain of a
\* run driver.  The sink notes the generation before it formats.
Deliver(k) ==
    /\ k \in DOMAIN deliveries
    /\ deliveries' = SubSeq(deliveries, 1, k - 1) \o SubSeq(deliveries, k + 1, Len(deliveries))
    /\ sinks' = IF Suppressed(idOf[deliveries[k]]) THEN sinks
                ELSE sinks \cup {[job |-> deliveries[k], epoch |-> epoch]}
    /\ UNCHANGED <<manager, queue, asides, loop, life, disk, history, counts>>

\* Mutant: the generation is not compared after the formatting.
SinkReturnsLate(s) ==
    LET i == idOf[s.job]
        kept == ~Suppressed(i)
    IN
    /\ s \in sinks
    /\ sinks' = sinks \ {s}
    /\ queue' = IF kept THEN Append(queue, [job |-> s.job, epoch |-> epoch]) ELSE queue
    /\ flush' = IF kept /\ ~Streaming THEN ArmFor(queue') ELSE flush
    /\ rows' = [rows EXCEPT ![i].delivered = TRUE]
    /\ UNCHANGED <<manager, deliveries, asides, loop, epoch, latest, aborting,
                   entries, adopting, appended, history, counts>>

\* #deliverAsyncJobResult after its await, and markDelivered: the sink returns
\* without an error also when it drops the result.
SinkReturns(s) ==
    LET i == idOf[s.job]
        kept == s.epoch = epoch /\ ~Suppressed(i)
    IN
    /\ s \in sinks
    /\ sinks' = sinks \ {s}
    /\ queue' = IF kept THEN Append(queue, [job |-> s.job, epoch |-> epoch]) ELSE queue
    /\ flush' = IF kept /\ ~Streaming THEN ArmFor(queue') ELSE flush
    /\ rows' = [rows EXCEPT ![i].delivered = TRUE]
    /\ UNCHANGED <<manager, deliveries, asides, loop, epoch, latest, aborting,
                   entries, adopting, appended, history, counts>>

-----------------------------------------------------------------------------
(* The agent loop: a model call, its tools, the boundary after them.       *)

\* A user's prompt.
Prompt ==
    /\ epoch > 0 /\ adopting = {} /\ run = "idle" /\ aborting = "no"
    /\ run' = "model" /\ stopped' = FALSE
    /\ UNCHANGED <<manager, pipe, tool, life, disk, history, counts>>

\* The idle flush: the queued results start a run.
IdleFlush ==
    /\ flush = "armed" /\ flush' = "none"
    /\ IF Streaming THEN UNCHANGED <<queue, told, run, stopped>>
       ELSE /\ queue' = <<>>
            /\ told' = Told(Survivors)
            /\ IF Survivors # <<>> THEN run' = "model" /\ stopped' = FALSE
               ELSE UNCHANGED <<run, stopped>>
    /\ UNCHANGED <<manager, deliveries, sinks, asides, tool, epoch, latest, aborting, disk,
                   asked, replayed, missed, lapsed, earlier, counts>>

\* Mutant: the entries are injected without the staleness check.
DrainUnchecked ==
    /\ run \in {"boundary", "yielding"}
    /\ IF stopped THEN run' = "ending" /\ UNCHANGED <<asides, queue>>
       ELSE /\ asides' = queue /\ queue' = <<>>
            /\ run' = IF run = "yielding" /\ queue = <<>> THEN "ending" ELSE "commit"
    /\ UNCHANGED <<manager, deliveries, sinks, stopped, tool, life, disk, history, counts>>

\* The drain after a tool batch, and the one before the loop would stop.
\* An aborted run drains nothing and ends.
Drain ==
    /\ run \in {"boundary", "yielding"}
    /\ IF stopped THEN run' = "ending" /\ UNCHANGED <<asides, queue>>
       ELSE /\ asides' = Survivors /\ queue' = <<>>
            /\ run' = IF run = "yielding" /\ Survivors = <<>> THEN "ending" ELSE "commit"
    /\ UNCHANGED <<manager, deliveries, sinks, stopped, tool, life, disk, history, counts>>

\* Mutant: the loop keeps what it has injected.
CommitKeeps ==
    /\ run = "commit"
    /\ run' = "model"
    /\ told' = Told(asides)
    /\ UNCHANGED <<manager, deliveries, sinks, queue, asides, stopped, tool, life, disk,
                   asked, replayed, missed, lapsed, earlier, counts>>

\* The top of the next iteration: an abort in between does not stop it.
Commit ==
    /\ run = "commit"
    /\ run' = "model"
    /\ told' = Told(asides) /\ asides' = <<>>
    /\ UNCHANGED <<manager, deliveries, sinks, queue, stopped, tool, life, disk,
                   asked, replayed, missed, lapsed, earlier, counts>>

\* A model call that asks for no tool, or is aborted.
ModelStops ==
    /\ run = "model" /\ tool = NoTool
    /\ run' = "yielding"
    /\ UNCHANGED <<manager, pipe, stopped, tool, life, disk, history, counts>>

\* Mutant: what came in after the last drain waits for the next run.
EndRunQuietly ==
    /\ run = "ending"
    /\ run' = "idle" /\ stopped' = FALSE
    /\ UNCHANGED <<manager, pipe, tool, life, disk, history, counts>>

\* endInFlight requests a flush for what came in after the last drain.
EndRun ==
    /\ run = "ending"
    /\ run' = "idle" /\ stopped' = FALSE
    /\ flush' = ArmFor(queue)
    /\ UNCHANGED <<manager, pipe, tool, epoch, latest, aborting, disk, history, counts>>

-----------------------------------------------------------------------------
(* Tools.                                                                  *)

Calling == run = "model" /\ tool = NoTool /\ ~stopped

\* A background task or command: the call returns at once.
StartBackground ==
    /\ Calling
    /\ Register(NewId, suppressed \ {NewId})
    /\ run' = "boundary"
    /\ UNCHANGED <<pipe, stopped, tool, life, entries, adopting, appended,
                   told, asked, replayed, missed, earlier, counts>>

\* A foreground command under auto-background: registered, acknowledged at
\* once, and waited for.
StartForeground ==
    /\ Calling
    /\ Register(NewId, suppressed \cup {NewId})
    /\ deliveries' = Unacknowledged({NewId})
    /\ tool' = [kind |-> "bash", job |-> born + 1, won |-> "none"]
    /\ UNCHANGED <<sinks, queue, asides, run, stopped, life, entries, adopting, appended,
                   told, asked, replayed, missed, earlier, counts>>

\* What the wait for a foreground command races: its completion, which comes
\* before the job's status changes; the threshold or a steering message.
BashWakes ==
    /\ tool.kind = "bash" /\ tool.won = "none"
    /\ \E w \in {"timer"} \cup IF body[tool.job] THEN {"result"} ELSE {} :
           tool' = [tool EXCEPT !.won = w]
    /\ UNCHANGED <<manager, pipe, run, stopped, life, disk, history, counts>>

\* The call returns the command's result.
BashReturns ==
    /\ tool.kind = "bash" /\ tool.won = "result"
    /\ asked' = asked \cup {tool.job}
    /\ tool' = NoTool /\ run' = "boundary"
    /\ UNCHANGED <<manager, pipe, stopped, life, disk, told, replayed, missed, lapsed, earlier, counts>>

\* Mutant: the suppression is lifted, a result that came meanwhile is not.
ResumeOnly(r) ==
    /\ suppressed' = suppressed \ {idOf[r]}
    /\ UNCHANGED deliveries

\* resumeDeliveries.
ResumeDeliveries(r) ==
    LET i == idOf[r]
        again == /\ i \in suppressed
                 /\ jobOf[i] # 0 /\ status[jobOf[i]] = "completed"
                 /\ i \notin IdsOf(Range(deliveries) \cup {s.job : s \in sinks})
    IN
    /\ suppressed' = suppressed \ {i}
    /\ deliveries' = IF again /\ i \notin watched THEN Append(deliveries, jobOf[i]) ELSE deliveries

\* The call returns that the command runs on.
BashBackgrounds ==
    /\ tool.kind = "bash" /\ tool.won = "timer"
    /\ ResumeDeliveries(tool.job)
    /\ tool' = NoTool /\ run' = "boundary"
    /\ UNCHANGED <<born, idOf, home, status, body, jobOf, watched, timers, sinks, queue, asides,
                   stopped, life, disk, history, counts>>

\* manager.cancel.
Cancel(r) ==
    IF r \in Running
    THEN /\ status' = [status EXCEPT ![r] = "cancelled"]
         /\ Finish(idOf[r], "cancelled", 0)
         /\ timers' = timers \cup {idOf[r]}
    ELSE UNCHANGED <<status, rows, timers>>

\* The call is aborted and the command cancelled, unless it has ended: then the
\* error carries its text.
BashAborts ==
    /\ tool.kind = "bash" /\ tool.won = "abort"
    /\ Cancel(tool.job)
    /\ asked' = IF status[tool.job] = "completed" THEN asked \cup {tool.job} ELSE asked
    /\ tool' = NoTool /\ run' = "boundary"
    /\ UNCHANGED <<born, idOf, home, body, jobOf, suppressed, watched, pipe, stopped, life,
                   entries, adopting, appended, told, replayed, missed, lapsed, earlier, counts>>

Settled(W) == {r \in W : status[r] \notin {"unborn", "running"}}

\* buildJobResult: the settled jobs are in the tool's answer.
Report(W) ==
    /\ asked' = asked \cup {r \in W : status[r] = "completed"}
    /\ Acknowledge(IdsOf(Settled(W)))

\* hub jobs, and hub wait on jobs that are all settled.
HubJobs(W) ==
    /\ Calling /\ W # {} /\ Settled(W) = W
    /\ Report(W)
    /\ run' = "boundary"
    /\ UNCHANGED <<born, idOf, home, status, body, jobOf, watched, timers, sinks, queue, asides,
                   stopped, tool, life, disk, told, replayed, missed, lapsed, earlier, counts>>

\* hub cancel.
HubCancel(r) ==
    /\ Calling /\ r \in Running
    /\ Cancel(r)
    /\ Acknowledge({idOf[r]})
    /\ run' = "boundary"
    /\ UNCHANGED <<born, idOf, home, body, jobOf, watched, sinks, queue, asides, stopped, tool, life,
                   entries, adopting, appended, history, counts>>

\* hub wait: the running ones of the jobs are watched.  With timeoutMs 0 the
\* wait has no window.
HubWait(W) ==
    /\ Calling /\ W \cap Running # {}
    /\ watched' = watched \cup IdsOf(W \cap Running)
    /\ \E windowed \in BOOLEAN :
          tool' = [kind |-> "wait", jobs |-> W, ids |-> IdsOf(W \cap Running), window |-> windowed,
                   st |-> "race", woken |-> FALSE, msg |-> FALSE]
    /\ UNCHANGED <<born, idOf, home, status, body, jobOf, suppressed, timers, pipe, run, stopped,
                   life, disk, history, counts>>

\* A message reaches the bus waiter, which listens until the race is over.
HubMessage ==
    /\ tool.kind = "wait" /\ tool.st = "race" /\ ~tool.msg
    /\ messages < MaxMessages /\ messages' = messages + 1
    /\ tool' = [tool EXCEPT !.woken = TRUE, !.msg = TRUE]
    /\ UNCHANGED <<manager, pipe, run, stopped, life, disk, history, aborts, crashes>>

\* The wait window ends.
HubTimeout ==
    /\ tool.kind = "wait" /\ tool.window /\ ~tool.woken
    /\ tool' = [tool EXCEPT !.woken = TRUE]
    /\ UNCHANGED <<manager, pipe, run, stopped, life, disk, history, counts>>

\* The race has a winner: unwatchJobs.
HubUnwatch ==
    /\ tool.kind = "wait" /\ tool.st = "race" /\ tool.woken
    /\ watched' = watched \ tool.ids
    /\ tool' = [tool EXCEPT !.st = "over"]
    /\ missed' = IF tool.msg
                 THEN missed \cup {r \in tool.jobs : /\ idOf[r] \in tool.ids
                                                     /\ status[r] = "completed" /\ r \notin InPipe}
                 ELSE missed
    /\ UNCHANGED <<born, idOf, home, status, body, jobOf, suppressed, timers, pipe, run, stopped,
                   life, disk, told, asked, replayed, lapsed, earlier, counts>>

\* A message that came wins, else the jobs are reported.
HubReturns ==
    /\ tool.kind = "wait" /\ tool.st = "over"
    /\ IF tool.msg THEN UNCHANGED <<asked, suppressed, deliveries>> ELSE Report(tool.jobs)
    /\ tool' = NoTool /\ run' = "boundary"
    /\ UNCHANGED <<born, idOf, home, status, body, jobOf, watched, timers, sinks, queue, asides,
                   stopped, life, disk, told, replayed, missed, lapsed, earlier, counts>>

-----------------------------------------------------------------------------
(* Abort, /new, death and adoption.                                        *)

\* abort(): the run's signal, the waiting tool and the scheduled flush.
Abort(k) ==
    /\ epoch > 0 /\ adopting = {} /\ aborting = "no" /\ aborts < MaxAborts
    /\ k = "new" => latest < MaxTranscripts
    /\ aborts' = aborts + 1
    /\ aborting' = k
    /\ stopped' = Streaming
    /\ flush' = IF flush = "armed" THEN "dying" ELSE flush
    /\ tool' = CASE tool.kind = "wait" -> [tool EXCEPT !.woken = TRUE]
                 [] tool.kind = "bash" /\ tool.won = "none" -> [tool EXCEPT !.won = "abort"]
                 [] OTHER -> tool
    /\ UNCHANGED <<manager, pipe, run, epoch, latest, disk, history, messages, crashes>>

\* onSkip of the aborted flush: cancelIdleFlushScheduling.
SkipFlush ==
    /\ flush = "dying" /\ flush' = "none"
    /\ UNCHANGED <<manager, pipe, loop, epoch, latest, aborting, disk, history, counts>>

\* waitForIdle and the drain of the scheduled tasks are over: resetInFlight.
AbortEnds ==
    /\ aborting = "stop" /\ ~Streaming /\ flush # "dying"
    /\ aborting' = "no"
    /\ flush' = ArmFor(queue)
    /\ UNCHANGED <<manager, pipe, loop, epoch, latest, disk, history, counts>>

\* #cancelOwnAsyncJobs: cancelAll, evictCompletedJobs, and the queue cleared.
CancelOwnJobs ==
    LET ended == {i \in Ids : jobOf[i] # 0 /\ status[jobOf[i]] = "completed"} IN
    /\ status' = [r \in Jobs |-> IF r \in Running THEN "cancelled" ELSE status[r]]
    /\ timers' = (timers \cup IdsOf(Running)) \ ended
    /\ jobOf' = [i \in Ids |-> IF i \in ended THEN 0 ELSE jobOf[i]]
    /\ suppressed' = suppressed \ ended /\ watched' = watched \ ended
    /\ deliveries' = IF ended = {} THEN deliveries ELSE Unacknowledged(ended)
    /\ queue' = <<>>

\* newSession: after the abort, in the same turn of the event loop.
NewSession ==
    /\ aborting = "new" /\ ~Streaming /\ flush # "dying"
    /\ aborting' = "no"
    /\ flush' = ArmFor(queue)
    /\ CancelOwnJobs
    /\ latest' = latest + 1 /\ epoch' = latest'
    /\ UNCHANGED <<born, idOf, home, body, sinks, asides, loop, disk, history, counts>>

\* The daemon dies.  The next one turns running rows to lost.
Crash ==
    /\ crashes < MaxCrashes /\ crashes' = crashes + 1
    /\ status' = [r \in Jobs |-> IF status[r] = "running" THEN "cancelled" ELSE status[r]]
    /\ body' = [r \in Jobs |-> FALSE]
    /\ jobOf' = [i \in Ids |-> 0]
    /\ suppressed' = {} /\ watched' = {} /\ timers' = {}
    /\ deliveries' = <<>> /\ sinks' = {} /\ queue' = <<>> /\ asides' = <<>>
    /\ epoch' = 0 /\ aborting' = "no" /\ flush' = "none"
    /\ run' = "idle" /\ stopped' = FALSE /\ tool' = NoTool
    /\ rows' = [i \in Ids |-> IF rows[i].st = "running" THEN [rows[i] EXCEPT !.st = "lost"] ELSE rows[i]]
    /\ adopting' = {} /\ appended' = 0
    /\ earlier' = 1..born
    /\ UNCHANGED <<born, idOf, home, latest, entries, told, asked, replayed, missed, lapsed,
                   messages, aborts>>

Undelivered(t) ==
    {i \in Ids : rows[i].home = t /\ ~rows[i].delivered /\ rows[i].st \in {"completed", "cancelled"}}

\* #adoptAgentSession: the undelivered rows of the session are collected.
Adopt(t) ==
    /\ epoch = 0 /\ t <= latest
    /\ epoch' = t
    /\ adopting' = Undelivered(t)
    /\ UNCHANGED <<manager, pipe, loop, latest, aborting, flush, rows, entries, appended, history, counts>>

\* Mutant: what an earlier adoption has appended is appended again.
AppendAlways(i) ==
    /\ i \in adopting /\ appended = 0
    /\ entries' = [entries EXCEPT ![epoch] = @ \cup {i}]
    /\ replayed' = [r \in Jobs |-> IF r = rows[i].text THEN replayed[r] + 1 ELSE replayed[r]]
    /\ appended' = i
    /\ UNCHANGED <<manager, pipe, loop, life, rows, adopting, told, asked, missed, lapsed, earlier, counts>>

\* One row: its text is appended to the transcript unless an entry names its id.
AppendResult(i) ==
    /\ i \in adopting /\ appended = 0
    /\ entries' = [entries EXCEPT ![epoch] = @ \cup {i}]
    /\ replayed' = [r \in Jobs |-> IF r = rows[i].text /\ i \notin entries[epoch]
                                   THEN replayed[r] + 1 ELSE replayed[r]]
    /\ appended' = i
    /\ UNCHANGED <<manager, pipe, loop, life, rows, adopting, told, asked, missed, lapsed, earlier, counts>>

\* Then it is marked.
MarkResult ==
    /\ appended # 0
    /\ rows' = [rows EXCEPT ![appended].delivered = TRUE]
    /\ adopting' = adopting \ {appended} /\ appended' = 0
    /\ UNCHANGED <<manager, pipe, loop, life, entries, history, counts>>

-----------------------------------------------------------------------------
HandleJobs ==
    \/ \E r \in Jobs : JobSettles(r) \/ JobUnwinds(r)
    \/ \E i \in Ids : Evict(i)
    \/ \E k \in 1..MaxJobs : Deliver(k)
    \/ \E s \in sinks : SinkReturns(s)

RunLoop == IdleFlush \/ Drain \/ Commit \/ ModelStops \/ EndRun

CallTool ==
    \/ StartBackground \/ StartForeground
    \/ \E W \in SUBSET Visible : HubJobs(W) \/ HubWait(W)
    \/ \E r \in Jobs : HubCancel(r)

WaitInTool ==
    \/ BashWakes \/ BashReturns \/ BashBackgrounds \/ BashAborts
    \/ HubMessage \/ HubTimeout \/ HubUnwatch \/ HubReturns

EndSession == SkipFlush \/ AbortEnds \/ NewSession

Recover == (\E t \in Transcripts : Adopt(t)) \/ (\E i \in Ids : AppendResult(i)) \/ MarkResult

Next ==
    \/ HandleJobs \/ Prompt \/ RunLoop \/ CallTool \/ WaitInTool
    \/ \E k \in {"stop", "new"} : Abort(k)
    \/ EndSession \/ Crash \/ Recover

Spec == Init /\ [][Next]_vars

\* The daemon's own steps are promise reactions and timers; a model call ends
\* or calls a tool; a foreground command has a threshold, and a hub wait ends
\* with its window if it has one.  Nothing is assumed of jobs, the user,
\* messages or deaths.
Fairness ==
    /\ \A k \in 1..MaxJobs : WF_vars(Deliver(k))
    /\ WF_vars(\E s \in sinks : SinkReturns(s))
    /\ WF_vars(IdleFlush) /\ WF_vars(Drain) /\ WF_vars(Commit) /\ WF_vars(EndRun)
    /\ WF_vars(ModelStops \/ CallTool)
    /\ WF_vars(BashWakes \/ BashReturns \/ BashBackgrounds \/ BashAborts)
    /\ WF_vars(HubTimeout \/ HubUnwatch \/ HubReturns)
    /\ WF_vars(EndSession)

FairSpec == Spec /\ Fairness

-----------------------------------------------------------------------------
Tools ==
    {NoTool} \cup [kind : {"bash"}, job : Jobs, won : {"none", "result", "timer", "abort"}]
             \cup [kind : {"wait"}, jobs : SUBSET Jobs, ids : SUBSET Ids, window : BOOLEAN,
                   st : {"race", "over"}, woken : BOOLEAN, msg : BOOLEAN]

\* Types.  The loop holds asides only before it commits them, a tool waits only
\* in its turn, and an aborted flush is gone when the abort is over.
TypeOK ==
    /\ asides # <<>> => run = "commit"
    /\ tool # NoTool => run = "model"
    /\ flush = "dying" => aborting # "no"
    /\ born \in 0..MaxJobs /\ idOf \in [Jobs -> Ids] /\ home \in [Jobs -> 0..MaxTranscripts]
    /\ status \in [Jobs -> {"unborn", "running", "completed", "cancelled"}]
    /\ body \in [Jobs -> BOOLEAN] /\ jobOf \in [Ids -> 0..MaxJobs]
    /\ suppressed \subseteq Ids /\ watched \subseteq Ids /\ timers \subseteq Ids
    /\ deliveries \in Seq(Jobs) /\ sinks \subseteq Entry /\ queue \in Seq(Entry) /\ asides \in Seq(Entry)
    /\ epoch \in 0..MaxTranscripts /\ latest \in Transcripts
    /\ run \in {"idle", "model", "boundary", "yielding", "commit", "ending"}
    /\ stopped \in BOOLEAN /\ tool \in Tools
    /\ aborting \in {"no", "stop", "new"} /\ flush \in {"none", "armed", "dying"}
    /\ rows \in [Ids -> [st : {"none", "running", "completed", "cancelled", "lost"},
                         home : 0..MaxTranscripts, text : 0..MaxJobs, delivered : BOOLEAN]]
    /\ entries \in [Transcripts -> SUBSET Ids] /\ adopting \subseteq Ids /\ appended \in 0..MaxJobs
    /\ told \in [Jobs -> Nat] /\ replayed \in [Jobs -> Nat]
    /\ asked \subseteq Jobs /\ missed \subseteq Jobs /\ lapsed \subseteq Jobs
    /\ earlier \subseteq Jobs
    /\ messages \in 0..MaxMessages /\ aborts \in 0..MaxAborts /\ crashes \in 0..MaxCrashes

\* A result is on its way, or in the hands of the tool that waits for it.
UnderWay(r) ==
    \/ r \in InPipe
    \/ tool.kind = "bash" /\ tool.job = r
    \/ tool.kind = "wait" /\ r \in tool.jobs

Known(r) == told[r] > 0 \/ r \in asked

\* A finished job of the transcript on screen is known to the model or its
\* result is on its way, whatever was watched, acknowledged, resumed, aborted
\* or injected meanwhile.  Not so for a job whose wait a message won
\* (AnswerOrDelivery), nor when the retention timer fired or an old run ended
\* with something of the same id under way.
NothingForgotten ==
    \A r \in Jobs \ (missed \cup lapsed \cup earlier) :
        status[r] = "completed" /\ home[r] = epoch => Known(r) \/ UnderWay(r)

\* hub/index.ts:479-481: "A message consumed by the bus waiter must never be
\* dropped - it wins even a photo-finish race (job results re-deliver
\* themselves; ...)".  So a job that finished is never lost to a message.
AnswerOrDelivery ==
    \A r \in Jobs \ (lapsed \cup earlier) :
        status[r] = "completed" /\ home[r] = epoch => Known(r) \/ UnderWay(r)

\* What the model was told, by an injected message or by a tool's answer, is
\* not injected (again): the up-front acknowledgement of a foreground command,
\* the watch of a wait and the staleness check of the queue together.
InjectedOnce ==
    [][\A r \in Jobs \ lapsed' : Known(r) => told'[r] = told[r]]_vars

\* A result is injected only in the transcript that started the job, although
\* /new meets deliveries queued, being formatted, and waiting for a boundary.
OldResultStaysOut ==
    [][\A r \in Jobs \ lapsed' : told'[r] > told[r] => home[r] = epoch]_vars

\* Results that wait while no run would drain them have a flush coming: those
\* that arrive during a run, in its last steps, or across an abort.
NothingStranded ==
    queue # <<>> /\ ~Streaming /\ aborting = "no" => flush = "armed"

\* Mutant: a delivery whose sink has not returned is not a wake.
WakeButSinks ==
    \/ \E r \in Running : ~Suppressed(idOf[r])
    \/ \E k \in DOMAIN deliveries : ~Suppressed(idOf[deliveries[k]])
    \/ queue # <<>>

\* #hasPendingAsyncWake.
PendingWake ==
    \/ \E r \in Running : ~Suppressed(idOf[r])
    \/ \E k \in DOMAIN deliveries : ~Suppressed(idOf[deliveries[k]])
    \/ \E s \in sinks : ~Suppressed(idOf[s.job])
    \/ queue # <<>>

\* A run driver that finds the session idle with no wake pending may end: no
\* result is injected later, and no wake appears, unless somebody starts a run
\* or another transcript.
QuietStaysQuiet ==
    [][~Streaming /\ ~PendingWake /\ lapsed' = {} /\ epoch' = epoch
           => told' = told /\ (~Streaming' => ~PendingWake')]_vars

\* No result is replayed twice, whenever the daemon dies between the append and
\* the mark, and none that was injected is replayed.
ReplayedOnce == \A r \in Jobs \ lapsed : told[r] + replayed[r] <= 1

\* job-ledger.ts:160-161: "Finished-but-undelivered rows for one session.  A
\* restart can replay the text into the transcript instead of losing the result
\* with the process."  So adoption marks no row whose text it did not replay.
ReplayLosesNothing ==
    [][\A i \in Ids : appended = i /\ rows'[i].delivered /\ rows[i].text # 0
           => replayed[rows[i].text] > 0]_vars

\* The agent waits without a window, and nothing has ended the wait.
HeldOpen == tool.kind = "wait" /\ ~tool.window /\ ~tool.woken

\* A job that finished is told, or its transcript is left, unless the turn is
\* held for ever by a wait without a window, on jobs that do not end.
FinishedIsTold ==
    []<>~HeldOpen =>
        \A r \in Jobs :
            status[r] = "completed"
                ~> Known(r) \/ home[r] # epoch \/ r \in missed \cup lapsed \cup earlier
====
