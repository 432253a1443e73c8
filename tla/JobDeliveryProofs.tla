------------------------- MODULE JobDeliveryProofs --------------------------
(***************************************************************************)
(* Theorems about JobDelivery, for every number of jobs, transcripts,      *)
(* messages, aborts and deaths.                                            *)
(***************************************************************************)
EXTENDS JobDelivery, SelectionProofs, FiniteSetTheorems

Enqueued   == Range(deliveries)
Formatting == {s.job : s \in sinks}
Entries    == sinks \cup Range(queue)

\* The id of a job that runs or has completed still names it.
Active(r) == status[r] \in {"running", "completed"} /\ jobOf[idOf[r]] = r

BashOf(r) == tool.kind = "bash" /\ tool.job = r

-----------------------------------------------------------------------------
(* TypeOK, by the parts of the state.                                      *)

ManagerTypes ==
    /\ born \in 0..MaxJobs /\ idOf \in [Jobs -> Ids] /\ home \in [Jobs -> 0..MaxTranscripts]
    /\ status \in [Jobs -> {"unborn", "running", "completed", "cancelled"}]
    /\ body \in [Jobs -> BOOLEAN] /\ jobOf \in [Ids -> 0..MaxJobs]
    /\ suppressed \subseteq Ids /\ watched \subseteq Ids /\ timers \subseteq Ids

PipeTypes ==
    /\ deliveries \in Seq(Jobs) /\ sinks \subseteq Entry /\ queue \in Seq(Entry) /\ asides \in Seq(Entry)

LoopTypes ==
    /\ asides # <<>> => run = "commit"
    /\ tool # NoTool => run = "model"
    /\ run \in {"idle", "model", "boundary", "yielding", "commit", "ending"}
    /\ stopped \in BOOLEAN /\ tool \in Tools

LifeTypes ==
    /\ flush = "dying" => aborting # "no"
    /\ epoch \in 0..MaxTranscripts /\ latest \in Transcripts
    /\ aborting \in {"no", "stop", "new"} /\ flush \in {"none", "armed", "dying"}

Rows == [st : {"none", "running", "completed", "cancelled", "lost"},
         home : 0..MaxTranscripts, text : 0..MaxJobs, delivered : BOOLEAN]

DiskTypes ==
    /\ rows \in [Ids -> Rows]
    /\ entries \in [Transcripts -> SUBSET Ids] /\ adopting \subseteq Ids /\ appended \in 0..MaxJobs

HistoryTypes ==
    /\ told \in [Jobs -> Nat] /\ replayed \in [Jobs -> Nat]
    /\ asked \subseteq Jobs /\ missed \subseteq Jobs /\ lapsed \subseteq Jobs
    /\ earlier \subseteq Jobs

CountTypes ==
    messages \in 0..MaxMessages /\ aborts \in 0..MaxAborts /\ crashes \in 0..MaxCrashes

Types ==
    /\ ManagerTypes /\ PipeTypes /\ LoopTypes /\ LifeTypes /\ DiskTypes /\ HistoryTypes /\ CountTypes

-----------------------------------------------------------------------------
(* The invariant.                                                          *)

Named ==
    /\ \A r \in Jobs : /\ r > born <=> status[r] = "unborn"
                       /\ r <= born => home[r] \in 1..latest
                       /\ status[r] = "running" => body[r]
    /\ \A i \in Ids : jobOf[i] # 0 => jobOf[i] <= born /\ idOf[jobOf[i]] = i
    /\ asked \cup earlier \subseteq 1..born /\ epoch <= latest
    /\ aborting = "new" => latest < MaxTranscripts

\* A result has one place.
Placed ==
    /\ Once(deliveries) /\ \A s, t \in sinks : s.job = t.job => s = t
    /\ Enqueued \cap (Formatting \cup JobsIn(queue) \cup JobsIn(asides)) = {}
    /\ Formatting \cap (JobsIn(queue) \cup JobsIn(asides)) = {}
    /\ JobsIn(queue) \cap JobsIn(asides) = {}
    /\ \A r \in InPipe : r <= born /\ status[r] = "completed" /\ told[r] = 0

Owned ==
    \A r \in Jobs \ lapsed :
          /\ status[r] = "running" \/ r \in Enqueued => Active(r)
          /\ r \in JobsIn(asides) => home[r] = epoch /\ r \notin asked
          /\ Active(r) => /\ home[r] = epoch
                          /\ r \in asked => idOf[r] \in suppressed
                          /\ idOf[r] \in suppressed => r \in asked \/ BashOf(r)

Homed ==
    \A e \in Entries :
        e.job \notin lapsed => e.epoch = home[e.job] /\ (e.epoch = epoch => Active(e.job))

InBash ==
    tool.kind = "bash" =>
        LET r == tool.job
            i == idOf[r]
        IN  /\ r <= born /\ r \notin asked \cup InPipe /\ told[r] = 0
            /\ status[r] \in {"running", "completed"}
            /\ jobOf[i] \in {0, r} /\ (jobOf[i] = r => i \in suppressed)
            /\ r \notin lapsed => jobOf[i] = r /\ i \notin IdsOf(Enqueued \cup Formatting)

InWait ==
    /\ tool.kind = "wait" =>
          /\ tool.ids \subseteq IdsOf(tool.jobs)
          /\ \A r \in tool.jobs : r <= born /\ jobOf[idOf[r]] \in {0, r}
    /\ watched # {} => tool.kind = "wait" /\ tool.st = "race" /\ watched \subseteq tool.ids
    /\ \A i \in watched : jobOf[i] \notin InPipe

\* The daemon has not adopted the session yet.
Away ==
    epoch = 0 \/ adopting # {} =>
        /\ run = "idle" /\ aborting = "no" /\ flush = "none"
        /\ deliveries = <<>> /\ sinks = {} /\ queue = <<>>
        /\ jobOf = [i \in Ids |-> 0] /\ body = [r \in Jobs |-> FALSE] /\ earlier = 1..born

\* The wait will report it.
WaitOf(r) ==
    /\ tool.kind = "wait" /\ r \in tool.jobs
    /\ IF tool.st = "race" THEN idOf[r] \in tool.ids ELSE ~tool.msg

Kept ==
    \A r \in Jobs \ (missed \cup lapsed \cup earlier) :
        status[r] = "completed" /\ home[r] = epoch => Known(r) \/ r \in InPipe \/ BashOf(r) \/ WaitOf(r)

Texts ==
    \A i \in Ids : LET r == rows[i].text IN
          r # 0 => /\ idOf[r] = i /\ r <= born
                   /\ ~rows[i].delivered => told[r] = 0 /\ r \notin JobsIn(queue) \cup JobsIn(asides)
                   /\ replayed[r] > 0 => rows[i].delivered \/ i \in entries[rows[i].home]

Adopting ==
    /\ \A i \in adopting : rows[i].home = epoch /\ ~rows[i].delivered
    /\ appended # 0 => appended \in adopting
    /\ epoch = 0 => adopting = {}

Past ==
    \A r \in earlier : r \notin InPipe /\ ~BashOf(r) /\ ~body[r] /\ jobOf[idOf[r]] # r

Counted ==
    \A r \in Jobs :
        /\ told[r] <= 1 /\ (told[r] > 0 => status[r] = "completed")
        /\ replayed[r] <= 1 /\ (replayed[r] > 0 => told[r] = 0 /\ r \in earlier)

IInv ==
    /\ Types /\ Named /\ Placed /\ Owned /\ Homed /\ InBash /\ InWait /\ Away /\ Kept
    /\ Texts /\ Adopting /\ Past /\ Counted /\ NothingStranded

-----------------------------------------------------------------------------
(* What a step leaves alone.                                               *)

LEMMA TypesStay ==
    /\ ManagerTypes /\ UNCHANGED manager => ManagerTypes'
    /\ PipeTypes /\ UNCHANGED pipe => PipeTypes'
    /\ LoopTypes /\ UNCHANGED <<asides, loop>> => LoopTypes'
    /\ LifeTypes /\ UNCHANGED life => LifeTypes'
    /\ DiskTypes /\ UNCHANGED disk => DiskTypes'
    /\ HistoryTypes /\ UNCHANGED <<told, asked, replayed, missed, lapsed, earlier>> => HistoryTypes'
    /\ CountTypes /\ UNCHANGED counts => CountTypes'
  BY DEF ManagerTypes, PipeTypes, LoopTypes, LifeTypes, DiskTypes, HistoryTypes, CountTypes,
         manager, pipe, loop, life, disk, counts

LEMMA Stays ==
    /\ Named /\ UNCHANGED <<born, status, home, latest, body, jobOf,
                            idOf, asked, earlier, epoch, aborting>> => Named'
    /\ Placed /\ UNCHANGED <<deliveries, sinks, queue, asides, born, status, told>> => Placed'
    /\ Owned /\ UNCHANGED <<lapsed, status, deliveries, jobOf, idOf,
                            asides, home, epoch, asked, suppressed, tool>> => Owned'
    /\ Homed /\ UNCHANGED <<sinks, queue, lapsed, home, epoch, status, jobOf, idOf>> => Homed'
    /\ InBash /\ UNCHANGED <<tool, idOf, born, asked, deliveries, sinks,
                             queue, asides, told, status, jobOf, suppressed, lapsed>> => InBash'
    /\ InWait /\ UNCHANGED <<tool, idOf, born, jobOf, watched, deliveries,
                             sinks, queue, asides>> => InWait'
    /\ Away /\ UNCHANGED <<epoch, adopting, run, aborting, flush, deliveries,
                           sinks, queue, jobOf, body, earlier, born>> => Away'
    /\ Kept /\ UNCHANGED <<missed, lapsed, earlier, status, home, epoch,
                           told, asked, deliveries, sinks, queue, asides, tool, idOf>> => Kept'
    /\ Texts /\ UNCHANGED <<rows, idOf, born, told, queue, asides, replayed,
                            entries>> => Texts'
    /\ Adopting /\ UNCHANGED <<adopting, rows, epoch, appended>> => Adopting'
    /\ Past /\ UNCHANGED <<earlier, deliveries, sinks, queue, asides,
                           tool, body, jobOf, idOf>> => Past'
    /\ Counted /\ UNCHANGED <<told, status, replayed, earlier>> => Counted'
    /\ NothingStranded /\ UNCHANGED <<queue, run, aborting, flush>> => NothingStranded'
<1>1. Named /\ UNCHANGED <<born, status, home, latest, body, jobOf,
                          idOf, asked, earlier, epoch, aborting>> => Named'
  BY DEF Named
<1>2. Placed /\ UNCHANGED <<deliveries, sinks, queue, asides, born, status, told>> => Placed'
  BY DEF Placed, InPipe, Enqueued, Formatting
<1>3. Owned /\ UNCHANGED <<lapsed, status, deliveries, jobOf, idOf,
                          asides, home, epoch, asked, suppressed, tool>> => Owned'
  BY DEF Owned, Active, BashOf, Enqueued
<1>4. Homed /\ UNCHANGED <<sinks, queue, lapsed, home, epoch, status, jobOf, idOf>> => Homed'
  BY DEF Homed, Entries, Active
<1>5. InBash /\ UNCHANGED <<tool, idOf, born, asked, deliveries, sinks,
                           queue, asides, told, status, jobOf, suppressed, lapsed>> => InBash'
  BY DEF InBash, InPipe, Enqueued, Formatting, IdsOf
<1>6. InWait /\ UNCHANGED <<tool, idOf, born, jobOf, watched, deliveries,
                           sinks, queue, asides>> => InWait'
  BY DEF InWait, InPipe, IdsOf
<1>7. Away /\ UNCHANGED <<epoch, adopting, run, aborting, flush, deliveries,
                         sinks, queue, jobOf, body, earlier, born>> => Away'
  BY DEF Away
<1>8. Kept /\ UNCHANGED <<missed, lapsed, earlier, status, home, epoch,
                         told, asked, deliveries, sinks, queue, asides, tool, idOf>> => Kept'
  BY DEF Kept, Known, InPipe, BashOf, WaitOf
<1>9. Texts /\ UNCHANGED <<rows, idOf, born, told, queue, asides, replayed,
                          entries>> => Texts'
  BY DEF Texts
<1>10. Adopting /\ UNCHANGED <<adopting, rows, epoch, appended>> => Adopting'
  BY DEF Adopting
<1>11. Past /\ UNCHANGED <<earlier, deliveries, sinks, queue, asides,
                         tool, body, jobOf, idOf>> => Past'
  BY DEF Past, InPipe, BashOf
<1>12. Counted /\ UNCHANGED <<told, status, replayed, earlier>> => Counted'
  BY DEF Counted
<1>13. NothingStranded /\ UNCHANGED <<queue, run, aborting, flush>> => NothingStranded'
  BY DEF NothingStranded, Streaming
<1> QED
  BY <1>1, <1>2, <1>3, <1>4, <1>5, <1>6, <1>7, <1>8, <1>9, <1>10, <1>11, <1>12, <1>13

-----------------------------------------------------------------------------
(* Sequences.                                                              *)

LEMMA Ranges ==
    ASSUME NEW S, NEW s \in Seq(S)
    PROVE  Range(s) \subseteq S /\ (s = <<>> <=> Range(s) = {}) /\ JobsIn(s) = {e.job : e \in Range(s)}
<1>1. DOMAIN s = 1..Len(s) /\ Len(s) \in Nat /\ \A k \in 1..Len(s) : s[k] \in S
  BY LenProperties, ElementOfSeq
<1>2. Len(s) = 0 <=> s = <<>>
  BY EmptySeq
<1>3. s # <<>> => s[1] \in Range(s)
  BY <1>1, <1>2 DEF Range
<1>4. s = <<>> => Range(s) = {}
  BY DEF Range
<1> QED
  BY <1>1, <1>3, <1>4 DEF Range, JobsIn

LEMMA RangeAppend ==
    ASSUME NEW S, NEW s \in Seq(S), NEW x \in S
    PROVE  /\ Append(s, x) \in Seq(S) /\ Range(Append(s, x)) = Range(s) \cup {x}
           /\ JobsIn(Append(s, x)) = JobsIn(s) \cup {x.job}
           /\ x \notin Range(s) /\ Once(s) => Once(Append(s, x))
<1> DEFINE t == Append(s, x)
<1>1. /\ t \in Seq(S) /\ Len(s) \in Nat /\ DOMAIN t = 1..Len(s) + 1 /\ DOMAIN s = 1..Len(s)
      /\ t[Len(s) + 1] = x /\ \A k \in 1..Len(s) : t[k] = s[k]
  BY AppendProperties, LenProperties
<1> HIDE DEF t
<1>2. DOMAIN t = DOMAIN s \cup {Len(s) + 1}
  BY <1>1
<1>3. Range(t) = Range(s) \cup {x}
  BY <1>1, <1>2 DEF Range
<1>4. JobsIn(t) = JobsIn(s) \cup {x.job}
  BY <1>1, <1>2 DEF JobsIn
<1>5. x \notin Range(s) /\ Once(s) => Once(t)
  BY <1>1 DEF Once, Range
<1> QED
  BY <1>1, <1>3, <1>4, <1>5 DEF t

-----------------------------------------------------------------------------
(* Tools, rows and ids.                                                    *)

BashTools == [kind : {"bash"}, job : Jobs, won : {"none", "result", "timer", "abort"}]
WaitTools == [kind : {"wait"}, jobs : SUBSET Jobs, ids : SUBSET Ids, window : BOOLEAN,
              st : {"race", "over"}, woken : BOOLEAN, msg : BOOLEAN]

LEMMA ToolKinds ==
    /\ NoTool \in Tools /\ NoTool.kind = "none"
    /\ \A t \in Tools : /\ t.kind = "bash" => t \in BashTools
                        /\ t.kind = "wait" => t \in WaitTools
                        /\ t.kind \notin {"bash", "wait"} => t = NoTool
    /\ \A t \in BashTools : t \in Tools /\ t.kind = "bash" /\ t.job \in Jobs
    /\ \A t \in WaitTools : /\ t \in Tools /\ t.kind = "wait" /\ t.st \in {"race", "over"}
                            /\ t.jobs \subseteq Jobs /\ t.ids \subseteq Ids
  BY DEF Tools, NoTool, BashTools, WaitTools

\* The same call of the same tool, perhaps woken.
SameTool ==
    /\ tool' \in Tools /\ tool'.kind = tool.kind
    /\ tool.kind = "bash" => tool'.job = tool.job
    /\ tool.kind = "wait" => /\ tool'.jobs = tool.jobs /\ tool'.ids = tool.ids
                             /\ tool'.st = tool.st /\ tool'.msg = tool.msg

LEMMA Woken ==
    ASSUME tool \in Tools,
           \/ tool' = tool
           \/ tool.kind = "wait" /\ tool' = [tool EXCEPT !.woken = TRUE]
           \/ tool.kind = "bash" /\ \E w \in {"result", "timer", "abort"} : tool' = [tool EXCEPT !.won = w]
    PROVE  SameTool
<1>1. CASE tool' = tool
  BY <1>1 DEF SameTool
<1>2. CASE tool.kind = "wait" /\ tool' = [tool EXCEPT !.woken = TRUE]
  <2>1. tool \in WaitTools
    BY <1>2, ToolKinds
  <2>2. tool' \in WaitTools
    BY <1>2, <2>1 DEF WaitTools
  <2> QED
    BY <1>2, <2>1, <2>2, ToolKinds DEF SameTool, WaitTools
<1>3. CASE tool.kind = "bash" /\ \E w \in {"result", "timer", "abort"} : tool' = [tool EXCEPT !.won = w]
  <2>1. tool \in BashTools
    BY <1>3, ToolKinds
  <2>2. tool' \in BashTools
    BY <1>3, <2>1 DEF BashTools
  <2> QED
    BY <1>3, <2>1, <2>2, ToolKinds DEF SameTool, BashTools
<1> QED
  BY <1>1, <1>2, <1>3

LEMMA Wakes ==
    ASSUME tool \in Tools, NEW r, tool' = WakeFor(r)
    PROVE  SameTool
  BY Woken DEF WakeFor

\* A row is written.
Wrote(i) ==
    /\ rows' \in [Ids -> Rows] /\ \A j \in Ids \ {i} : rows'[j] = rows[j]
    /\ rows'[i].home = rows[i].home

LEMMA Writes ==
    ASSUME rows \in [Ids -> Rows], NEW i \in Ids, NEW text \in 0..MaxJobs,
           \/ rows' = [rows EXCEPT ![i].st = "completed", ![i].text = text]
           \/ rows' = [rows EXCEPT ![i].st = "cancelled", ![i].text = text]
    PROVE  Wrote(i) /\ rows'[i].text = text /\ rows'[i].delivered = rows[i].delivered
  BY DEF Rows, Wrote

LEMMA Marks ==
    ASSUME rows \in [Ids -> Rows], NEW i \in Ids, rows' = [rows EXCEPT ![i].delivered = TRUE]
    PROVE  Wrote(i) /\ rows'[i].text = rows[i].text /\ rows'[i].delivered
  BY DEF Rows, Wrote

LEMMA Intervals ==
    ASSUME NEW n \in Nat
    PROVE  IsFiniteSet(1..n) /\ Cardinality(1..n) = n
<1>1. 1 \in Int /\ n \in Int
  OBVIOUS
<1>2. IsFiniteSet(1..n) /\ Cardinality(1..n) = IF 1 > n THEN 0 ELSE n - 1 + 1
  BY <1>1, FS_Interval
<1> QED
  BY <1>2

LEMMA Pigeons ==
    ASSUME NEW m \in Nat, NEW n \in Nat, m < n, NEW f \in [1..n -> 1..m]
    PROVE  \E x, y \in 1..n : x # y /\ f[x] = f[y]
<1>1. /\ IsFiniteSet(1..m) /\ Cardinality(1..m) = m
      /\ IsFiniteSet(1..n) /\ Cardinality(1..n) = n
  BY Intervals
<1>2. Cardinality(1..m) < Cardinality(1..n)
  BY <1>1
<1> QED
  BY <1>1, <1>2, FS_PigeonHole

\* While fewer than MaxJobs are registered an id is free.
LEMMA FreeId ==
    ASSUME ManagerTypes, Named, born < MaxJobs
    PROVE  NewId \in Ids /\ jobOf[NewId] = 0
<1> DEFINE Free == {i \in Ids : jobOf[i] = 0}
<1>0. MaxJobs \in Nat /\ born \in Nat
  BY DeliveryBounds DEF DeliveryBounds, ManagerTypes
<1>1. Free # {}
  <2> SUFFICES ASSUME Free = {} PROVE FALSE
    OBVIOUS
  <2>1. jobOf \in [1..MaxJobs -> 1..born]
    <3>1. \A i \in Ids : jobOf[i] \in 1..born
      BY <1>0 DEF ManagerTypes, Named
    <3> QED
      BY <3>1 DEF ManagerTypes, Ids
  <2>2. \E x, y \in 1..MaxJobs : x # y /\ jobOf[x] = jobOf[y]
    BY <1>0, <2>1, Pigeons
  <2>3. PICK x \in Ids, y \in Ids : x # y /\ jobOf[x] = jobOf[y]
    BY <2>2 DEF Ids
  <2>4. jobOf[x] \in 1..born /\ 0 \notin 1..born
    BY <2>1 DEF Ids
  <2> QED
    BY <2>3, <2>4 DEF Named
<1>2. Free \in SUBSET Nat
  BY DEF Ids
<1>3. \E i \in Free : \A j \in Free : i <= j
  BY <1>1, <1>2, LeastNumber
<1>4. \E i \in Ids : jobOf[i] = 0 /\ \A j \in Ids : j < i => jobOf[j] # 0
  <2>1. PICK i \in Free : \A j \in Free : i <= j
    BY <1>3
  <2>2. ASSUME NEW j \in Ids, j < i PROVE jobOf[j] # 0
    BY <1>0, <2>1, <2>2 DEF Ids
  <2> QED
    BY <2>1, <2>2
<1> QED
  BY <1>4 DEF NewId

LEMMA EntriesPlaced ==
    ASSUME PipeTypes
    PROVE  /\ \A e \in Entries : e \in Entry /\ e.job \in InPipe
           /\ JobsIn(queue) = {e.job : e \in Range(queue)} /\ Range(queue) \subseteq Entry
           /\ queue = <<>> <=> Range(queue) = {}
           /\ InPipe \subseteq Jobs
<1>1. /\ JobsIn(queue) = {e.job : e \in Range(queue)} /\ Range(queue) \subseteq Entry
      /\ queue = <<>> <=> Range(queue) = {}
  BY Ranges DEF PipeTypes
<1>2. /\ JobsIn(asides) = {e.job : e \in Range(asides)} /\ Range(asides) \subseteq Entry
      /\ Range(deliveries) \subseteq Jobs
  BY Ranges DEF PipeTypes
<1> QED
  BY <1>1, <1>2 DEF PipeTypes, Entries, InPipe, Entry

\* A tool that is only woken leaves what is said of it as it is.
LEMMA SameToolStays ==
    ASSUME SameTool
    PROVE  /\ Owned /\ UNCHANGED <<lapsed, status, deliveries, jobOf, idOf,
                                   asides, home, epoch, asked, suppressed>> => Owned'
           /\ InBash /\ UNCHANGED <<idOf, born, asked, deliveries, sinks, queue,
                                    asides, told, status, jobOf, suppressed, lapsed>> => InBash'
           /\ InWait /\ UNCHANGED <<idOf, born, jobOf, watched, deliveries,
                                    sinks, queue, asides>> => InWait'
           /\ Kept /\ UNCHANGED <<missed, lapsed, earlier, status, home, epoch,
                                  told, asked, deliveries, sinks, queue, asides, idOf>> => Kept'
           /\ Past /\ UNCHANGED <<earlier, deliveries, sinks, queue, asides,
                                  body, jobOf, idOf>> => Past'
<1>1. Owned /\ UNCHANGED <<lapsed, status, deliveries, jobOf, idOf,
                          asides, home, epoch, asked, suppressed>> => Owned'
  BY DEF SameTool, Owned, Active, BashOf, Enqueued
<1>2. InBash /\ UNCHANGED <<idOf, born, asked, deliveries, sinks, queue,
                           asides, told, status, jobOf, suppressed, lapsed>> => InBash'
  BY DEF SameTool, InBash, IdsOf, InPipe, Enqueued, Formatting
<1>3. InWait /\ UNCHANGED <<idOf, born, jobOf, watched, deliveries,
                           sinks, queue, asides>> => InWait'
  BY DEF SameTool, InWait, IdsOf, InPipe
<1>4. Kept /\ UNCHANGED <<missed, lapsed, earlier, status, home, epoch,
                         told, asked, deliveries, sinks, queue, asides, idOf>> => Kept'
  BY DEF SameTool, Kept, Known, InPipe, BashOf, WaitOf
<1>5. Past /\ UNCHANGED <<earlier, deliveries, sinks, queue, asides,
                         body, jobOf, idOf>> => Past'
  BY DEF SameTool, Past, InPipe, BashOf
<1> QED
  BY <1>1, <1>2, <1>3, <1>4, <1>5

\* What a registration does.
New == born + 1

LEMMA Registers ==
    ASSUME IInv, Calling, NEW S, Register(NewId, S)
    PROVE  /\ NewId \in Ids /\ jobOf[NewId] = 0 /\ New \in Jobs /\ born \in Nat /\ born' = New
           /\ epoch \in 1..latest /\ adopting = {} /\ tool = NoTool /\ run = "model" /\ ~stopped
           /\ asides = <<>> /\ watched = {}
           /\ status[New] = "unborn" /\ told[New] = 0 /\ replayed[New] = 0
           /\ New \notin InPipe \cup asked \cup earlier
           /\ lapsed \subseteq lapsed' /\ lapsed' \subseteq Jobs /\ suppressed' = S
           /\ New \notin lapsed' => NewId \notin IdsOf(InPipe)
           /\ \A q \in Jobs : q \in InPipe \/ jobOf[idOf[q]] = q => q # New
           /\ UNCHANGED <<watched, timers>>
<1>1. /\ MaxJobs \in Nat /\ born \in Nat /\ born < MaxJobs /\ New \in Jobs /\ New > born
  BY DeliveryBounds DEF DeliveryBounds, Register, IInv, Types, ManagerTypes, New, Jobs
<1>2. NewId \in Ids /\ jobOf[NewId] = 0
  BY <1>1, FreeId DEF IInv, Types
<1>3. /\ tool = NoTool /\ run = "model" /\ ~stopped /\ asides = <<>> /\ watched = {}
  BY ToolKinds DEF Calling, IInv, Types, LoopTypes, InWait
<1>4. epoch \in 1..latest /\ adopting = {}
  BY <1>3 DEF IInv, Types, LifeTypes, Away, Named, Transcripts
<1>5. status[New] = "unborn" /\ told[New] = 0 /\ replayed[New] = 0
  BY <1>1 DEF IInv, Types, HistoryTypes, Named, Counted
<1>6. New \notin InPipe \cup asked \cup earlier
  BY <1>1 DEF IInv, Named, Placed
<1>7. \A q \in Jobs : q \in InPipe \/ jobOf[idOf[q]] = q => q # New
  <2>1. jobOf[idOf[New]] # New
    BY <1>1 DEF IInv, Types, ManagerTypes, Named
  <2> QED
    BY <1>6, <2>1
<1>8. /\ lapsed \subseteq lapsed' /\ lapsed' \subseteq Jobs /\ suppressed' = S
      /\ New \notin lapsed' => NewId \notin IdsOf(InPipe)
  BY <1>1 DEF Register, New, IInv, Types, HistoryTypes
<1>9. born' = New /\ UNCHANGED <<watched, timers>>
  BY DEF Register, New
<1> QED
  BY <1>1, <1>2, <1>3, <1>4, <1>5, <1>6, <1>7, <1>8, <1>9

LEMMA RegistersJob ==
    ASSUME IInv, Calling, NEW S \in SUBSET Ids, Register(NewId, S), UNCHANGED <<epoch, latest, aborting, asked, earlier>>
    PROVE  /\ ManagerTypes' /\ Named' /\ rows' \in [Ids -> Rows] /\ rows'[NewId].text = 0
           /\ \A j \in Ids \ {NewId} : rows'[j] = rows[j]
           /\ idOf'[New] = NewId /\ home'[New] = epoch /\ status'[New] = "running" /\ body'[New]
           /\ \A q \in Jobs \ {New} : /\ idOf'[q] = idOf[q] /\ home'[q] = home[q]
                                      /\ status'[q] = status[q] /\ body'[q] = body[q]
           /\ jobOf'[NewId] = New /\ \A i \in Ids \ {NewId} : jobOf'[i] = jobOf[i]
           /\ \A q \in Jobs : Active(q)' <=> Active(q) \/ q = New
<1> USE Registers
<1>1. /\ idOf'[New] = NewId /\ home'[New] = epoch /\ status'[New] = "running" /\ body'[New]
      /\ \A q \in Jobs \ {New} : /\ idOf'[q] = idOf[q] /\ home'[q] = home[q]
                                 /\ status'[q] = status[q] /\ body'[q] = body[q]
      /\ jobOf'[NewId] = New /\ \A i \in Ids \ {NewId} : jobOf'[i] = jobOf[i]
  BY DEF Register, New, IInv, Types, ManagerTypes
<1>2. ManagerTypes'
  <2>1. epoch \in 0..MaxTranscripts /\ New \in 0..MaxJobs
    BY DeliveryBounds DEF DeliveryBounds, IInv, Types, LifeTypes, Jobs
  <2> QED
    BY <2>1 DEF Register, New, IInv, Types, ManagerTypes
<1>3. /\ rows' \in [Ids -> Rows] /\ rows'[NewId].text = 0
      /\ \A j \in Ids \ {NewId} : rows'[j] = rows[j]
  <2>1. [st |-> "running", home |-> epoch, text |-> 0, delivered |-> FALSE] \in Rows
    BY DeliveryBounds DEF DeliveryBounds, IInv, Types, LifeTypes, Rows
  <2> QED
    BY <2>1 DEF Register, IInv, Types, DiskTypes
<1>4. \A q \in Jobs : Active(q)' <=> Active(q) \/ q = New
  <2> SUFFICES ASSUME NEW q \in Jobs PROVE Active(q)' <=> Active(q) \/ q = New
    OBVIOUS
  <2>1. CASE q = New
    BY <1>1, <2>1 DEF Active
  <2>2. CASE q # New
    <3>1. idOf'[q] = idOf[q] /\ status'[q] = status[q] /\ idOf[q] \in Ids
      BY <1>1, <2>2 DEF IInv, Types, ManagerTypes
    <3>2. idOf[q] = NewId => jobOf[idOf[q]] # q /\ jobOf'[idOf[q]] # q
      BY <1>1, <2>2 DEF Jobs
    <3>3. idOf[q] # NewId => jobOf'[idOf[q]] = jobOf[idOf[q]]
      BY <1>1, <3>1
    <3> QED
      BY <2>2, <3>1, <3>2, <3>3 DEF Active
  <2> QED
    BY <2>1, <2>2
<1>5. Named'
  <2>1. \A q \in Jobs : /\ q > born' <=> status'[q] = "unborn"
                        /\ q <= born' => home'[q] \in 1..latest
                        /\ status'[q] = "running" => body'[q]
    <3> SUFFICES ASSUME NEW q \in Jobs
                 PROVE  /\ q > born' <=> status'[q] = "unborn"
                        /\ q <= born' => home'[q] \in 1..latest
                        /\ status'[q] = "running" => body'[q]
      OBVIOUS
    <3>1. CASE q = New
      BY <1>1, <3>1 DEF Jobs
    <3>2. CASE q # New
      <4>1. (q > New <=> q > born) /\ (q <= New <=> q <= born)
        BY <3>2 DEF New, Jobs
      <4>2. idOf'[q] = idOf[q] /\ home'[q] = home[q] /\ status'[q] = status[q] /\ body'[q] = body[q]
        BY <1>1, <3>2
      <4> QED
        BY <4>1, <4>2 DEF IInv, Named
    <3> QED
      BY <3>1, <3>2
  <2>2. ASSUME NEW i \in Ids, jobOf'[i] # 0 PROVE jobOf'[i] <= born' /\ idOf'[jobOf'[i]] = i
    <3>1. CASE i = NewId
      BY <1>1, <3>1 DEF New
    <3>2. CASE i # NewId
      <4>1. jobOf'[i] = jobOf[i] /\ jobOf[i] <= born /\ idOf[jobOf[i]] = i /\ jobOf[i] \in 1..born
        BY <1>1, <2>2, <3>2 DEF IInv, Named, Types, ManagerTypes
      <4>2. jobOf[i] \in Jobs \ {New}
        BY <4>1 DEF New, IInv, Types, ManagerTypes, Jobs
      <4> QED
        BY <1>1, <4>1, <4>2 DEF New
    <3> QED
      BY <3>1, <3>2
  <2>3. asked \cup earlier \subseteq 1..born'
    BY DEF IInv, Named, New
  <2> QED
    BY <2>1, <2>2, <2>3 DEF IInv, Named
<1> QED
  BY <1>1, <1>2, <1>3, <1>4, <1>5

\* An acknowledgement takes suppressed deliveries away.
LEMMA Acknowledges ==
    ASSUME IInv, NEW S, deliveries' = Unacknowledged(S)
    PROVE  /\ deliveries' \in Seq(Jobs) /\ Once(deliveries') /\ Enqueued' \subseteq Enqueued
           /\ deliveries = <<>> => deliveries' = <<>>
           /\ \A q \in Enqueued \ Enqueued' : idOf[q] \in S \/ Suppressed(idOf[q])
           /\ \A q \in Enqueued' : idOf[q] \notin S /\ ~Suppressed(idOf[q])
<1>1. deliveries \in Seq(Jobs) /\ Once(deliveries)
  BY DEF IInv, Types, PipeTypes, Placed
<1>2. /\ deliveries' \in Seq(Jobs) /\ Once(deliveries')
      /\ Range(deliveries') = Range(deliveries) \cap {r \in Jobs : idOf[r] \notin S /\ ~Suppressed(idOf[r])}
  BY <1>1, OnlySelects DEF Unacknowledged
<1>3. Range(deliveries) \subseteq Jobs /\ (deliveries = <<>> <=> Range(deliveries) = {})
      /\ (deliveries' = <<>> <=> Range(deliveries') = {})
  BY <1>1, <1>2, Ranges
<1> QED
  BY <1>2, <1>3 DEF Enqueued

-----------------------------------------------------------------------------
(* Each action keeps the invariant.                                        *)

LEMMA StepJobSettles ==
    ASSUME IInv, NEW r \in Jobs, JobSettles(r)
    PROVE  IInv'
<1>1. SameTool
  BY Wakes DEF JobSettles, IInv, Types, LoopTypes
<1>2. r \in 1..born /\ idOf[r] \in Ids
  BY DEF JobSettles, IInv, Types, ManagerTypes, Jobs
<1>3. status[r] = "running" /\ body[r] /\ r \notin InPipe /\ told[r] = 0
  BY DEF JobSettles, IInv, Types, HistoryTypes, Placed, Counted
<1>4. \/ deliveries' = deliveries /\ (Suppressed(idOf[r]) \/ jobOf[idOf[r]] = 0)
      \/ /\ deliveries' \in Seq(Jobs) /\ Range(deliveries') = Range(deliveries) \cup {r} /\ Once(deliveries')
         /\ ~Suppressed(idOf[r]) /\ jobOf[idOf[r]] # 0 /\ deliveries' # <<>>
  <2>1. deliveries \in Seq(Jobs) /\ Once(deliveries) /\ r \notin Range(deliveries)
    BY <1>3 DEF IInv, Types, PipeTypes, Placed, InPipe
  <2>2. /\ Append(deliveries, r) \in Seq(Jobs) /\ Range(Append(deliveries, r)) = Range(deliveries) \cup {r}
        /\ Once(Append(deliveries, r))
    BY <2>1, RangeAppend
  <2>3. Append(deliveries, r) # <<>>
    BY <2>2, Ranges
  <2> QED
    BY <2>2, <2>3 DEF JobSettles, EnqueueDelivery
<1>5. Wrote(idOf[r]) /\ rows'[idOf[r]].text = r /\ rows'[idOf[r]].delivered = rows[idOf[r]].delivered
  <2>1. r \in 0..MaxJobs /\ rows \in [Ids -> Rows]
    BY DeliveryBounds DEF DeliveryBounds, IInv, Types, DiskTypes, Jobs
  <2>2. rows' = [rows EXCEPT ![idOf[r]].st = "completed", ![idOf[r]].text = r]
    BY DEF JobSettles, Finish
  <2> QED
    BY <1>2, <2>1, <2>2, Writes
<1>6. /\ status' = [status EXCEPT ![r] = "completed"]
      /\ body' = [body EXCEPT ![r] = FALSE] /\ timers' = timers \cup {idOf[r]}
      /\ UNCHANGED <<born, idOf, home, jobOf, suppressed, watched, sinks, queue, asides, run, stopped,
                     epoch, latest, aborting, flush, entries, adopting, appended,
                     told, asked, replayed, missed, lapsed, earlier>>
  BY DEF JobSettles, life, history
<1>7. \A q \in Jobs : /\ Active(q)' <=> Active(q)
                      /\ BashOf(q)' <=> BashOf(q)
                      /\ q \in InPipe' => q \in InPipe \/ q = r
                      /\ q \in InPipe => q \in InPipe'
  BY <1>1, <1>3, <1>4, <1>6 DEF Active, BashOf, SameTool, InPipe, IInv, Types, ManagerTypes
<1>8. Types'
  <2>1. LifeTypes' /\ HistoryTypes' /\ CountTypes'
    BY TypesStay DEF IInv, Types, JobSettles, manager, pipe, loop, life, disk, history, counts
  <2>2. ManagerTypes'
    BY <1>1, <1>2, <1>3, <1>4, <1>5, <1>6, <1>7 DEF IInv, Types,
        ManagerTypes
  <2>3. PipeTypes'
    BY <1>1, <1>2, <1>3, <1>4, <1>5, <1>6, <1>7 DEF IInv, Types,
        PipeTypes
  <2>4. LoopTypes'
    BY <1>1, ToolKinds DEF IInv, Types, LoopTypes, SameTool, JobSettles, pipe
  <2>5. DiskTypes'
    BY <1>5, <1>6 DEF IInv, Types, DiskTypes, Wrote
  <2> QED
    BY <2>1, <2>2, <2>3, <2>4, <2>5 DEF Types
<1>9. NothingStranded'
  BY Stays DEF IInv, JobSettles, manager, pipe, loop, life, disk, history, counts
<1>10. Named'
  BY <1>1, <1>2, <1>3, <1>4, <1>5, <1>6, <1>7 DEF IInv, Types,
      Named, ManagerTypes, LifeTypes, HistoryTypes, Jobs, Ids
<1>11. Placed'
  BY <1>1, <1>2, <1>3, <1>4, <1>5, <1>6, <1>7 DEF IInv, Types,
      Placed, ManagerTypes, InPipe, Formatting, Enqueued, HistoryTypes
<1>12. Owned'
  BY <1>1, <1>2, <1>3, <1>4, <1>5, <1>6, <1>7 DEF IInv, Types,
      Owned, Active, BashOf, Enqueued, ManagerTypes, LoopTypes, NoTool, Named
<1>13. Homed'
  BY <1>1, <1>2, <1>3, <1>4, <1>5, <1>6, <1>7 DEF IInv, Types,
      Homed, Entries, Active, ManagerTypes, PipeTypes, Entry
<1>14. InBash'
  <2> SUFFICES ASSUME tool.kind = "bash" PROVE InBash'
    BY <1>1 DEF InBash, SameTool
  <2> DEFINE c == tool.job
             i == idOf[c]
  <2>1. tool'.kind = "bash" /\ tool'.job = c /\ c \in Jobs /\ i \in Ids
    BY <1>1, ToolKinds DEF SameTool, IInv, Types, LoopTypes, ManagerTypes
  <2>2. /\ c <= born /\ c \notin asked \cup InPipe /\ told[c] = 0
        /\ status[c] \in {"running", "completed"}
        /\ jobOf[i] \in {0, c} /\ (jobOf[i] = c => i \in suppressed)
        /\ c \notin lapsed => jobOf[i] = c /\ i \notin IdsOf(Enqueued \cup Formatting)
    BY DEF IInv, InBash
  <2>3. c \notin InPipe'
    BY <1>4, <1>6, <2>2 DEF InPipe, Suppressed
  <2>4. c \notin lapsed => i \notin IdsOf(Enqueued \cup Formatting)'
    BY <1>4, <1>6, <2>2 DEF IdsOf, Enqueued, Formatting, Suppressed
  <2>5. status'[c] \in {"running", "completed"}
    BY <1>6, <2>1, <2>2 DEF IInv, Types, ManagerTypes
  <2> QED
    BY <1>6, <2>1, <2>2, <2>3, <2>4, <2>5 DEF InBash
<1>15. InWait'
  <2>1. (/\ tool.kind = "wait" => /\ tool.ids \subseteq IdsOf(tool.jobs)
                                  /\ \A q \in tool.jobs : q <= born /\ jobOf[idOf[q]] \in {0, q}
         /\ watched # {} => tool.kind = "wait" /\ tool.st = "race" /\ watched \subseteq tool.ids)'
    BY <1>1, <1>6 DEF IInv, InWait, SameTool, IdsOf
  <2>2. ASSUME NEW i \in watched' PROVE jobOf'[i] \notin InPipe'
    <3>1. i \in Ids /\ i \in watched /\ jobOf[i] \notin InPipe
      BY <1>6 DEF IInv, Types, ManagerTypes, InWait
    <3>2. jobOf[i] # r \/ Suppressed(idOf[r])
      BY <1>2, <3>1 DEF IInv, Named, Suppressed, Jobs
    <3> QED
      BY <1>4, <1>6, <3>1, <3>2 DEF InPipe
  <2> QED
    BY <2>1, <2>2 DEF InWait
<1>16. Away'
  BY <1>1, <1>2, <1>3, <1>4, <1>5, <1>6, <1>7 DEF IInv, Types,
      Away, LoopTypes
<1>17. Kept'
  <2> SUFFICES ASSUME NEW q \in Jobs \ (missed \cup lapsed \cup earlier), status'[q] = "completed", home[q] = epoch
               PROVE  Known(q) \/ q \in InPipe' \/ BashOf(q) \/ WaitOf(q)
    BY <1>1, <1>6, <1>7 DEF Kept, Known, WaitOf, SameTool
  <2>1. CASE q # r
    BY <1>6, <1>7, <2>1 DEF IInv, Types, ManagerTypes, Kept
  <2>2. CASE q = r /\ ~Suppressed(idOf[r])
    BY <1>2, <1>4, <1>3, <2>2 DEF IInv, Owned, Active, InPipe
  <2>3. CASE q = r /\ idOf[r] \in suppressed
    BY <1>3, <2>3 DEF IInv, Owned, Known
  <2>4. CASE q = r /\ idOf[r] \in watched
    <3>1. tool.kind = "wait" /\ tool.st = "race" /\ idOf[r] \in tool.ids /\ idOf[r] \in IdsOf(tool.jobs)
      BY <2>4 DEF IInv, InWait
    <3>2. r \in tool.jobs
      BY <1>2, <1>3, <2>4, <3>1 DEF IInv, InWait, IdsOf, Owned, Active
    <3> QED
      BY <2>4, <3>1, <3>2 DEF WaitOf
  <2> QED
    BY <2>1, <2>2, <2>3, <2>4 DEF Suppressed
<1>18. Texts'
  <2>1. replayed[r] = 0
    BY <1>3 DEF IInv, Types, HistoryTypes, Counted, Past
  <2>2. r \notin JobsIn(queue) \cup JobsIn(asides)
    BY <1>3 DEF InPipe
  <2> QED
    BY <1>2, <1>3, <1>5, <1>6, <2>1, <2>2 DEF IInv, Types, ManagerTypes, Texts, Wrote
<1>19. Adopting'
  BY <1>2, <1>5, <1>6 DEF IInv, Types, DiskTypes, Adopting, Wrote
<1>20. Past'
  BY <1>3, <1>6, <1>7 DEF IInv, Types, HistoryTypes, ManagerTypes, Past
<1>21. Counted'
  BY <1>1, <1>2, <1>3, <1>4, <1>5, <1>6, <1>7 DEF IInv, Types,
      Counted, HistoryTypes, ManagerTypes
<1> QED
  BY <1>8, <1>9, <1>10, <1>11, <1>12, <1>13, <1>14,
     <1>15, <1>16, <1>17, <1>18, <1>19, <1>20, <1>21 DEF IInv

LEMMA StepJobUnwinds ==
    ASSUME IInv, NEW r \in Jobs, JobUnwinds(r)
    PROVE  IInv'
<1>1. SameTool
  BY Wakes DEF JobUnwinds, IInv, Types, LoopTypes
<1>2. r \in 1..born /\ idOf[r] \in Ids /\ status[r] = "cancelled" /\ body[r]
  BY DEF JobUnwinds, IInv, Types, ManagerTypes, Jobs
<1>3. told[r] = 0 /\ replayed[r] = 0 /\ r \notin InPipe
  BY <1>2 DEF IInv, Types, HistoryTypes, Placed, Counted, Past
<1>4. Wrote(idOf[r]) /\ rows'[idOf[r]].text = r /\ rows'[idOf[r]].delivered = rows[idOf[r]].delivered
  <2>1. r \in 0..MaxJobs /\ rows \in [Ids -> Rows]
    BY DeliveryBounds DEF DeliveryBounds, IInv, Types, DiskTypes, Jobs
  <2>2. rows' = [rows EXCEPT ![idOf[r]].st = "cancelled", ![idOf[r]].text = r]
    BY DEF JobUnwinds, Finish
  <2> QED
    BY <1>2, <2>1, <2>2, Writes
<1>5. /\ body' = [body EXCEPT ![r] = FALSE] /\ timers' = timers \cup {idOf[r]}
      /\ lapsed \subseteq lapsed' /\ lapsed' \subseteq Jobs
      /\ UNCHANGED <<born, idOf, home, status, jobOf, suppressed, watched, deliveries, sinks, queue, asides,
                     run, stopped, epoch, latest, aborting, flush, entries, adopting, appended,
                     told, asked, replayed, missed, earlier>>
  <2>1. {q \in r + 1..born : idOf[q] = idOf[r]} \subseteq Jobs
    <3>1. MaxJobs \in Nat /\ born \in 0..MaxJobs /\ r \in 1..MaxJobs
      BY DeliveryBounds DEF DeliveryBounds, IInv, Types, ManagerTypes, Jobs
    <3>2. r + 1..born \subseteq 1..MaxJobs
      BY <3>1
    <3> QED
      BY <3>2 DEF Jobs
  <2> QED
    BY <2>1 DEF JobUnwinds, pipe, life, IInv, Types, HistoryTypes
<1>6. \A q : /\ Active(q)' <=> Active(q)
             /\ BashOf(q)' <=> BashOf(q)
             /\ WaitOf(q)' <=> WaitOf(q)
             /\ q \in InPipe' <=> q \in InPipe
  BY <1>1, <1>5 DEF Active, BashOf, WaitOf, SameTool, InPipe
<1>7. Types'
  <2>1. PipeTypes' /\ LifeTypes' /\ CountTypes'
    BY TypesStay DEF IInv, Types, JobUnwinds, manager, pipe, loop, life, disk, history, counts
  <2>2. ManagerTypes'
    BY <1>1, <1>2, <1>3, <1>4, <1>5, <1>6 DEF IInv, Types, ManagerTypes
  <2>3. LoopTypes'
    BY <1>1, ToolKinds DEF IInv, Types, LoopTypes, SameTool, JobUnwinds, pipe
  <2>4. DiskTypes'
    BY <1>4, <1>5 DEF IInv, Types, DiskTypes, Wrote
  <2>5. HistoryTypes'
    BY <1>5 DEF IInv, Types, HistoryTypes
  <2> QED
    BY <2>1, <2>2, <2>3, <2>4, <2>5 DEF Types
<1>8. Placed' /\ Counted' /\ NothingStranded'
  BY Stays DEF IInv, JobUnwinds, manager, pipe, loop, life, disk, history, counts
<1>9. InWait'
  BY <1>1, SameToolStays DEF IInv, JobUnwinds, manager, pipe, loop, life, disk, history,
      counts
<1>10. Named'
  BY <1>1, <1>2, <1>3, <1>4, <1>5, <1>6 DEF IInv, Types, Named,
      ManagerTypes, LifeTypes, HistoryTypes, Jobs, Ids
<1>11. Owned'
  BY <1>5, <1>6 DEF IInv, Owned, Enqueued
<1>12. Homed'
  BY <1>5, <1>6 DEF IInv, Homed, Entries
<1>13. InBash'
  BY <1>1, <1>5, <1>6 DEF IInv, InBash, SameTool, IdsOf, Enqueued, Formatting
<1>14. Away'
  BY <1>1, <1>2, <1>3, <1>4, <1>5, <1>6 DEF IInv, Types, Away, LoopTypes
<1>15. Kept'
  BY <1>5, <1>6 DEF IInv, Kept, Known
<1>16. Texts'
  BY <1>2, <1>3, <1>4, <1>5 DEF IInv, Types, ManagerTypes, Texts, Wrote, InPipe
<1>17. Adopting'
  BY <1>2, <1>4, <1>5 DEF IInv, Types, DiskTypes, Adopting, Wrote
<1>18. Past'
  BY <1>5, <1>6 DEF IInv, Types, HistoryTypes, ManagerTypes, Past
<1> QED
  BY <1>7, <1>8, <1>9, <1>10, <1>11, <1>12, <1>13, <1>14,
     <1>15, <1>16, <1>17, <1>18 DEF IInv

LEMMA StepEvict ==
    ASSUME IInv, NEW i \in Ids, Evict(i)
    PROVE  IInv'
<1>1. /\ jobOf' = [jobOf EXCEPT ![i] = 0] /\ suppressed' = suppressed \ {i} /\ watched' = watched \ {i}
      /\ timers' = timers \ {i} /\ lapsed \subseteq lapsed' /\ lapsed' \subseteq Jobs
      /\ UNCHANGED <<born, idOf, home, status, body, deliveries, sinks, queue, asides, run, stopped, tool,
                     epoch, latest, aborting, flush, rows, entries, adopting, appended,
                     told, asked, replayed, missed, earlier>>
  <2>1. 1..born \subseteq Jobs
    BY DeliveryBounds DEF DeliveryBounds, IInv, Types, ManagerTypes, Jobs
  <2> QED
    BY <2>1 DEF Evict, pipe, loop, life, disk, IInv, Types, HistoryTypes
<1>2. \A r \in Jobs \ lapsed' : r <= born /\ idOf[r] = i => ~body[r] /\ r \notin InPipe /\ ~BashOf(r)
  BY DEF Evict, IInv, Types, ManagerTypes, Jobs, WaitsFor, BashOf
<1>3. /\ InPipe' = InPipe /\ IdsOf(tool.jobs)' = IdsOf(tool.jobs) /\ IdsOf(Enqueued \cup Formatting)' = IdsOf(Enqueued \cup Formatting)
      /\ \A r : BashOf(r)' <=> BashOf(r)
      /\ \A r \in Jobs : Active(r)' <=> Active(r) /\ idOf[r] # i
  BY <1>1 DEF Active, BashOf, InPipe, IInv, Types, ManagerTypes, Jobs, IdsOf, Enqueued, Formatting
<1>4. Types'
  <2>1. PipeTypes' /\ LoopTypes' /\ LifeTypes' /\ DiskTypes' /\ CountTypes'
    BY TypesStay DEF IInv, Types, Evict, manager, pipe, loop, life, disk, history, counts
  <2>2. ManagerTypes'
    BY <1>1, DeliveryBounds DEF DeliveryBounds, IInv, Types, ManagerTypes
  <2>3. HistoryTypes'
    BY <1>1 DEF IInv, Types, HistoryTypes
  <2> QED
    BY <2>1, <2>2, <2>3 DEF Types
<1>5. Placed' /\ Texts' /\ Adopting' /\ Counted' /\ NothingStranded'
  BY Stays DEF IInv, Evict, manager, pipe, loop, life, disk, history, counts
<1>6. Named'
  BY <1>1 DEF IInv, Types, ManagerTypes, Named
<1>7. Owned'
  <2> SUFFICES ASSUME NEW q \in Jobs \ lapsed'
               PROVE  /\ status[q] = "running" \/ q \in Enqueued' => Active(q)'
                      /\ q \in JobsIn(asides) => home[q] = epoch /\ q \notin asked
                      /\ Active(q)' => /\ home[q] = epoch
                                       /\ q \in asked => idOf[q] \in suppressed'
                                       /\ idOf[q] \in suppressed' => q \in asked \/ BashOf(q)'
    BY <1>1 DEF Owned
  <2>1. /\ status[q] = "running" \/ q \in Enqueued => Active(q)
        /\ q \in JobsIn(asides) => home[q] = epoch /\ q \notin asked
        /\ Active(q) => /\ home[q] = epoch
                        /\ q \in asked => idOf[q] \in suppressed
                        /\ idOf[q] \in suppressed => q \in asked \/ BashOf(q)
    BY <1>1 DEF IInv, Owned
  <2>2. status[q] = "running" \/ q \in Enqueued => idOf[q] # i
    <3>1. status[q] = "running" => q <= born /\ body[q]
      BY DEF IInv, Types, ManagerTypes, Named, Jobs
    <3>2. q \in Enqueued => q <= born /\ q \in InPipe
      BY DEF IInv, Placed, Enqueued, InPipe
    <3> QED
      BY <1>2, <3>1, <3>2
  <2>3. Enqueued' = Enqueued
    BY <1>1 DEF Enqueued
  <2> QED
    BY <1>1, <1>3, <2>1, <2>2, <2>3
<1>8. Homed'
  BY <1>1, <1>2, <1>3, EntriesPlaced DEF IInv, Types, Homed, Placed, Entry, Entries
<1>9. InBash'
  BY <1>1, <1>2, <1>3, ToolKinds DEF IInv, Types, LoopTypes, ManagerTypes, InBash, BashOf, Jobs
<1>10. InWait'
  BY <1>1, <1>3, ToolKinds DEF IInv, Types, LoopTypes, ManagerTypes, InWait, Ids
<1>11. Away'
  BY <1>1 DEF IInv, Away, Types, ManagerTypes
<1>12. Kept'
  BY <1>1, <1>3 DEF IInv, Kept, Known, BashOf, WaitOf
<1>13. Past'
  BY <1>1, <1>3, <1>2 DEF IInv, Types, HistoryTypes, ManagerTypes, Past, Jobs
<1> QED
  BY <1>4, <1>5, <1>6, <1>7, <1>8, <1>9, <1>10,
     <1>11, <1>12, <1>13 DEF IInv

LEMMA StepDeliver ==
    ASSUME IInv, NEW k \in 1..MaxJobs, Deliver(k)
    PROVE  IInv'
<1>1. /\ deliveries' \in Seq(Jobs) /\ Range(deliveries') = Range(deliveries) \ {deliveries[k]} /\ Once(deliveries')
      /\ deliveries[k] \in Enqueued /\ deliveries[k] \in Jobs /\ deliveries # <<>>
  <2>1. deliveries \in Seq(Jobs) /\ Once(deliveries) /\ k \in DOMAIN deliveries
    BY DEF Deliver, IInv, Types, PipeTypes, Placed
  <2>2. Range(deliveries) \subseteq Jobs /\ deliveries[k] \in Range(deliveries) /\ Range(deliveries) # {}
    BY <2>1, Ranges DEF Range
  <2>3. deliveries # <<>>
    BY <2>1, <2>2, Ranges
  <2> QED
    BY <2>1, <2>2, <2>3, RangeRemove DEF Deliver, Enqueued
<1>2. epoch \in Transcripts
  BY <1>1 DEF IInv, Types, LifeTypes, Away, Transcripts
<1>3. /\ sinks' = IF Suppressed(idOf[deliveries[k]]) THEN sinks
                  ELSE sinks \cup {[job |-> deliveries[k], epoch |-> epoch]}
      /\ UNCHANGED <<born, idOf, home, status, body, jobOf, suppressed, watched, timers, queue, asides,
                     run, stopped, tool, epoch, latest, aborting, flush, rows, entries, adopting, appended,
                     told, asked, replayed, missed, lapsed, earlier>>
  BY DEF Deliver, manager, loop, life, disk, history
<1>4. Types'
  <2>1. ManagerTypes' /\ LoopTypes' /\ LifeTypes' /\ DiskTypes' /\ HistoryTypes' /\ CountTypes'
    BY TypesStay DEF IInv, Types, Deliver, manager, pipe, loop, life, disk, history, counts
  <2>2. PipeTypes'
    BY <1>1, <1>2, <1>3 DEF IInv, Types, PipeTypes, Entry
  <2> QED
    BY <2>1, <2>2 DEF Types
<1>5. Named' /\ Texts' /\ Adopting' /\ Counted' /\ NothingStranded'
  BY Stays DEF IInv, Deliver, manager, pipe, loop, life, disk, history, counts
<1>6. Placed'
  BY <1>1, <1>2, <1>3 DEF IInv, Types, Placed, ManagerTypes, InPipe, Formatting,
      Enqueued, HistoryTypes
<1>7. Owned'
  BY <1>1, <1>2, <1>3 DEF IInv, Types, Owned, Active, BashOf, Enqueued, ManagerTypes,
      LoopTypes, NoTool, Named
<1>8. Homed'
  <2>1. deliveries[k] \notin lapsed => Active(deliveries[k]) /\ home[deliveries[k]] = epoch
    BY <1>1 DEF IInv, Owned
  <2> QED
    BY <1>1, <1>3, <2>1 DEF IInv, Homed, Entries, Active
<1>9. InBash'
  BY <1>1, <1>2, <1>3 DEF IInv, Types, InBash, InPipe, Formatting, Enqueued, IdsOf,
      ManagerTypes, LoopTypes, NoTool
<1>10. InWait'
  BY <1>1, <1>2, <1>3 DEF IInv, Types, InWait, InPipe, Formatting, Enqueued, IdsOf,
      ManagerTypes, LoopTypes, NoTool
<1>11. Away'
  BY <1>1, <1>2, <1>3 DEF IInv, Types, Away, LoopTypes
<1>12. Kept'
  <2> SUFFICES ASSUME NEW q \in Jobs \ (missed \cup lapsed \cup earlier), status[q] = "completed", home[q] = epoch
               PROVE  Known(q) \/ q \in InPipe' \/ BashOf(q) \/ WaitOf(q)
    BY <1>3 DEF Kept, Known, BashOf, WaitOf
  <2>1. Known(q) \/ q \in InPipe \/ BashOf(q) \/ WaitOf(q)
    BY DEF IInv, Kept
  <2>2. CASE q # deliveries[k]
    BY <1>1, <1>3, <2>1, <2>2 DEF InPipe
  <2>3. CASE q = deliveries[k] /\ ~Suppressed(idOf[q])
    <3>1. [job |-> q, epoch |-> epoch] \in sinks'
      BY <1>3, <2>3
    <3> QED
      BY <3>1 DEF InPipe
  <2>4. CASE q = deliveries[k] /\ Suppressed(idOf[q])
    <3>1. Active(q) /\ (idOf[q] \in suppressed => q \in asked \/ BashOf(q))
      BY <1>1, <2>4 DEF IInv, Owned
    <3>2. idOf[q] \notin watched
      BY <1>1, <2>4, <3>1 DEF IInv, InWait, Active, InPipe, Enqueued
    <3> QED
      BY <2>4, <3>1, <3>2 DEF Suppressed, Known
  <2> QED
    BY <2>2, <2>3, <2>4
<1>13. Past'
  BY <1>1, <1>2, <1>3 DEF IInv, Types, Past, InPipe, Formatting, Enqueued, BashOf,
      NoTool, LoopTypes, ManagerTypes, HistoryTypes
<1> QED
  BY <1>4, <1>5, <1>6, <1>7, <1>8, <1>9, <1>10,
     <1>11, <1>12, <1>13 DEF IInv

LEMMA StepSinkReturns ==
    ASSUME IInv, NEW s \in sinks, SinkReturns(s)
    PROVE  IInv'
<1>1. s \in Entry /\ s.job \in Jobs /\ s.job \in InPipe /\ epoch \in Transcripts /\ idOf[s.job] \in Ids
  <2>1. s \in Entry /\ s.job \in Jobs /\ s.job \in InPipe
    BY DEF IInv, Types, PipeTypes, Entry, InPipe
  <2>2. epoch \in Transcripts
    BY DEF IInv, Types, LifeTypes, Away, Transcripts
  <2> QED
    BY <2>1, <2>2 DEF IInv, Types, ManagerTypes
<1>2. \/ /\ s.epoch = epoch /\ ~Suppressed(idOf[s.job])
         /\ queue' \in Seq(Entry) /\ JobsIn(queue') = JobsIn(queue) \cup {s.job}
         /\ Range(queue') = Range(queue) \cup {s} /\ queue' # <<>>
         /\ flush' = IF Streaming THEN flush ELSE IF flush = "none" THEN "armed" ELSE flush
      \/ queue' = queue /\ flush' = flush /\ ~(s.epoch = epoch /\ ~Suppressed(idOf[s.job]))
  <2>1. s.epoch = epoch => [job |-> s.job, epoch |-> epoch] = s
    BY <1>1 DEF Entry
  <2>2. /\ Append(queue, s) \in Seq(Entry) /\ Range(Append(queue, s)) = Range(queue) \cup {s}
        /\ JobsIn(Append(queue, s)) = JobsIn(queue) \cup {s.job}
    BY <1>1, RangeAppend DEF IInv, Types, PipeTypes
  <2>3. Append(queue, s) # <<>>
    BY <2>2, Ranges
  <2>4. CASE s.epoch = epoch /\ ~Suppressed(idOf[s.job])
    <3>1. queue' = Append(queue, s)
      BY <2>1, <2>4 DEF SinkReturns
    <3> QED
      BY <2>2, <2>3, <2>4, <3>1 DEF SinkReturns, ArmFor
  <2>5. CASE ~(s.epoch = epoch /\ ~Suppressed(idOf[s.job]))
    BY <2>5 DEF SinkReturns
  <2> QED
    BY <2>4, <2>5
<1>3. Wrote(idOf[s.job]) /\ rows'[idOf[s.job]].text = rows[idOf[s.job]].text /\ rows'[idOf[s.job]].delivered
  BY <1>1, Marks DEF SinkReturns, IInv, Types, DiskTypes
<1>4. /\ sinks' = sinks \ {s}
      /\ UNCHANGED <<born, idOf, home, status, body, jobOf, suppressed, watched, timers, deliveries, asides,
                     run, stopped, tool, epoch, latest, aborting, entries, adopting, appended,
                     told, asked, replayed, missed, lapsed, earlier>>
  BY DEF SinkReturns, manager, loop, life, history
<1>5. Types'
  <2>1. ManagerTypes' /\ LoopTypes' /\ HistoryTypes' /\ CountTypes'
    BY TypesStay DEF IInv, Types, SinkReturns, manager, pipe, loop, life, disk, history, counts
  <2>2. PipeTypes'
    BY <1>1, <1>2, <1>3, <1>4 DEF IInv, Types, PipeTypes
  <2>3. LifeTypes'
    BY <1>1, <1>2, <1>3, <1>4 DEF IInv, Types, LifeTypes
  <2>4. DiskTypes'
    BY <1>3, <1>4 DEF IInv, Types, DiskTypes, Wrote
  <2> QED
    BY <2>1, <2>2, <2>3, <2>4 DEF Types
<1>6. Named' /\ Owned' /\ Counted'
  BY Stays DEF IInv, SinkReturns, manager, pipe, loop, life, disk, history, counts
<1>7. Placed'
  <2>1. /\ JobsIn(queue') = JobsIn(queue) \cup {s.job} \/ JobsIn(queue') = JobsIn(queue)
        /\ s.job \in Formatting /\ Formatting' = Formatting \ {s.job} /\ Enqueued' = Enqueued
    BY <1>2, <1>4 DEF IInv, Placed, Formatting, Enqueued
  <2>2. InPipe' \subseteq InPipe
    BY <1>1, <1>2, <1>4 DEF InPipe
  <2> QED
    BY <1>4, <2>1, <2>2 DEF IInv, Placed
<1>8. Homed'
  BY <1>1, <1>2, <1>3, <1>4 DEF IInv, Types, Homed, Entries, Active,
      ManagerTypes, PipeTypes, Entry
<1>9. InBash'
  BY <1>1, <1>2, <1>3, <1>4 DEF IInv, Types, InBash, InPipe, Formatting,
      Enqueued, IdsOf, ManagerTypes, LoopTypes, NoTool
<1>10. InWait'
  BY <1>1, <1>2, <1>3, <1>4 DEF IInv, Types, InWait, InPipe, Formatting,
      Enqueued, IdsOf, ManagerTypes, LoopTypes, NoTool
<1>11. Away'
  BY <1>1, <1>2, <1>3, <1>4 DEF IInv, Types, Away, LoopTypes
<1>12. Kept'
  <2> SUFFICES ASSUME NEW q \in Jobs \ (missed \cup lapsed \cup earlier), status[q] = "completed", home[q] = epoch
               PROVE  Known(q) \/ q \in InPipe' \/ BashOf(q) \/ WaitOf(q)
    BY <1>4 DEF Kept, Known, BashOf, WaitOf
  <2>1. Known(q) \/ q \in InPipe \/ BashOf(q) \/ WaitOf(q)
    BY DEF IInv, Kept
  <2>2. CASE q # s.job \/ JobsIn(queue') = JobsIn(queue) \cup {s.job}
    BY <1>4, <1>2, <2>1, <2>2 DEF InPipe
  <2>3. CASE q = s.job /\ ~(s.epoch = epoch /\ ~Suppressed(idOf[s.job]))
    <3>1. s.epoch = epoch /\ Active(q)
      BY <2>3 DEF IInv, Homed, Entries
    <3>2. idOf[q] \notin watched
      BY <1>1, <2>3, <3>1 DEF IInv, InWait, Active
    <3>3. idOf[q] \in suppressed => q \in asked \/ BashOf(q)
      BY <3>1 DEF IInv, Owned
    <3> QED
      BY <2>3, <3>1, <3>2, <3>3 DEF Suppressed, Known
  <2> QED
    BY <1>2, <2>2, <2>3
<1>13. Texts'
  BY <1>1, <1>2, <1>3, <1>4 DEF IInv, Types, DiskTypes, Texts, Wrote
<1>14. Adopting'
  <2>1. adopting = {}
    BY DEF IInv, Away
  <2> QED
    BY <1>4, <2>1 DEF IInv, Adopting
<1>15. Past'
  BY <1>1, <1>2, <1>3, <1>4 DEF IInv, Types, Past, InPipe, Formatting, Enqueued,
      BashOf, NoTool, LoopTypes, ManagerTypes, HistoryTypes
<1>16. NothingStranded'
  BY <1>1, <1>2, <1>3, <1>4 DEF IInv, Types, NothingStranded, Streaming,
      LifeTypes
<1> QED
  BY <1>5, <1>6, <1>7, <1>8, <1>9, <1>10, <1>11,
     <1>12, <1>13, <1>14, <1>15, <1>16 DEF IInv

LEMMA StepIdleFlush ==
    ASSUME IInv, IdleFlush
    PROVE  IInv'
<1>1. /\ Survivors \in Seq(Entry) /\ Range(Survivors) = Range(queue) \cap Fresh
      /\ JobsIn(Survivors) = {e.job : e \in Range(queue) \cap Fresh}
      /\ JobsIn(queue) = {e.job : e \in Range(queue)} /\ Range(queue) \subseteq Entry
      /\ (queue = <<>> <=> Range(queue) = {}) /\ (Survivors = <<>> <=> Range(Survivors) = {})
  BY OnlySelects, Ranges DEF IInv, Types, PipeTypes, Survivors
<1>2. JobsIn(<<>>) = {} /\ Range(<<>>) = {} /\ <<>> \in Seq(Entry)
  BY DEF JobsIn, Range
<1>3. /\ flush' = "none" /\ epoch # 0 /\ adopting = {} /\ run' \in {run, "model"} /\ stopped' \in {stopped, FALSE}
      /\ run' = "model" \/ run' = run
      /\ UNCHANGED <<born, idOf, home, status, body, jobOf, suppressed, watched, timers, deliveries, sinks, asides,
                     tool, epoch, latest, aborting, rows, entries, adopting, appended,
                     asked, replayed, missed, lapsed, earlier>>
  BY DEF IdleFlush, manager, disk, IInv, Away
<1>4. \/ queue' = queue /\ told' = told /\ run' = run /\ run # "idle"
      \/ queue' = <<>> /\ told' = Told(Survivors) /\ run = "idle" 
  BY DEF IdleFlush, Streaming
<1>5. \A q \in Jobs : /\ told'[q] = told[q] \/ (q \in InPipe /\ told'[q] = told[q] + 1)
                      /\ q \notin JobsIn(queue) \cup JobsIn(asides) => told'[q] = told[q]
  BY <1>1, <1>4 DEF Told, InPipe
<1>6. Types'
  <2>1. ManagerTypes' /\ DiskTypes' /\ CountTypes'
    BY TypesStay DEF IInv, Types, IdleFlush, manager, pipe, loop, life, disk, history, counts
  <2>2. PipeTypes'
    BY <1>3, <1>4, <1>2 DEF IInv, Types, PipeTypes
  <2>3. LoopTypes'
    BY <1>3, <1>4 DEF IInv, Types, LoopTypes
  <2>4. LifeTypes'
    BY <1>1, <1>2, <1>3, <1>4, <1>5 DEF IInv, Types, LifeTypes
  <2>5. HistoryTypes'
    BY <1>3, <1>4 DEF IInv, Types, HistoryTypes, Told
  <2> QED
    BY <2>1, <2>2, <2>3, <2>4, <2>5 DEF Types
<1>7. Named' /\ Owned' /\ Adopting'
  BY Stays DEF IInv, IdleFlush, manager, pipe, loop, life, disk, history, counts
<1>8. Placed'
  <2>1. /\ InPipe' \subseteq InPipe /\ JobsIn(queue') \subseteq JobsIn(queue)
        /\ Formatting' = Formatting /\ Enqueued' = Enqueued
    BY <1>3, <1>4, <1>2 DEF InPipe, Formatting, Enqueued
  <2>2. \A q \in InPipe' : told'[q] = 0
    <3> SUFFICES ASSUME NEW q \in InPipe' PROVE told'[q] = 0
      OBVIOUS
    <3>1. q \in Jobs /\ told[q] = 0
      BY <2>1, EntriesPlaced DEF IInv, Placed, Types, ManagerTypes, HistoryTypes, PipeTypes, InPipe
    <3>2. queue' = <<>> => q \notin JobsIn(queue)
      BY <1>3, <1>2 DEF IInv, Placed, InPipe, Enqueued, Formatting
    <3> QED
      BY <1>1, <1>4, <3>1, <3>2 DEF Told
  <2> QED
    BY <1>3, <2>1, <2>2 DEF IInv, Placed
<1>9. Homed'
  BY <1>3, <1>4, <1>2 DEF IInv, Homed, Entries, Active
<1>10. InBash'
  BY <1>3, <1>4, <1>2, <1>5, ToolKinds DEF IInv, Types, LoopTypes, InBash, InPipe, Enqueued, Formatting, IdsOf
<1>11. InWait'
  BY <1>3, <1>4, <1>2 DEF IInv, InWait, InPipe, IdsOf
<1>12. Away'
  BY <1>3 DEF IInv, Away
<1>13. Kept'
  <2> SUFFICES ASSUME NEW q \in Jobs \ (missed \cup lapsed \cup earlier), status[q] = "completed", home[q] = epoch
               PROVE  told'[q] > 0 \/ q \in asked \/ q \in InPipe' \/ BashOf(q) \/ WaitOf(q)
    BY <1>3 DEF Kept, Known, BashOf, WaitOf
  <2>1. told[q] > 0 \/ q \in asked \/ q \in InPipe \/ BashOf(q) \/ WaitOf(q)
    BY DEF IInv, Kept, Known
  <2>2. CASE q \notin JobsIn(queue)
    BY <1>3, <1>5, <2>1, <2>2 DEF InPipe, IInv, Types, HistoryTypes
  <2>3. CASE q \in JobsIn(queue) /\ q \notin JobsIn(Survivors)
    <3>1. PICK e \in Range(queue) : e.job = q
      BY <1>1, <2>3
    <3>2. e \in Entry /\ e \notin Fresh
      BY <1>1, <2>3, <3>1
    <3>3. e.epoch = epoch /\ Active(q)
      BY <3>1 DEF IInv, Homed, Entries
    <3>4. idOf[q] \notin watched
      BY <2>3, <3>3 DEF IInv, InWait, Active, InPipe
    <3>5. idOf[q] \in suppressed => q \in asked \/ BashOf(q)
      BY <3>3 DEF IInv, Owned
    <3> QED
      BY <3>1, <3>2, <3>3, <3>4, <3>5 DEF Fresh, Suppressed, Known
  <2>4. CASE q \in JobsIn(Survivors)
    BY <1>1, <1>4, <1>3, <2>4 DEF Told, InPipe, IInv, Types, HistoryTypes
  <2> QED
    BY <2>2, <2>3, <2>4 DEF Known
<1>14. Texts'
  <2>1. JobsIn(queue') \subseteq JobsIn(queue)
    BY <1>2, <1>4
  <2>2. \A i \in Ids : rows[i].text # 0 => rows[i].text \in Jobs
    BY DeliveryBounds DEF DeliveryBounds, IInv, Types, DiskTypes, Rows, Jobs
  <2> QED
    BY <1>5, <1>3, <2>1, <2>2 DEF IInv, Texts
<1>15. Past'
  BY <1>1, <1>2, <1>3, <1>4, <1>5 DEF IInv, Types, Past, InPipe, Formatting,
      Enqueued, BashOf, NoTool, LoopTypes, ManagerTypes, HistoryTypes
<1>16. Counted'
  <2>1. \A q \in InPipe \cap Jobs : told[q] = 0 /\ status[q] = "completed" /\ replayed[q] = 0
    BY DEF IInv, Types, HistoryTypes, Placed, Counted, Past
  <2> QED
    BY <1>5, <1>3, <2>1 DEF IInv, Types, HistoryTypes, Counted
<1>17. NothingStranded'
  BY <1>4, <1>3 DEF IInv, NothingStranded, Streaming
<1> QED
  BY <1>6, <1>7, <1>8, <1>9, <1>10, <1>11, <1>12,
     <1>13, <1>14, <1>15, <1>16, <1>17 DEF IInv

LEMMA StepDrain ==
    ASSUME IInv, Drain
    PROVE  IInv'
<1>1. /\ Survivors \in Seq(Entry) /\ Range(Survivors) = Range(queue) \cap Fresh
      /\ JobsIn(Survivors) = {e.job : e \in Range(queue) \cap Fresh}
      /\ JobsIn(queue) = {e.job : e \in Range(queue)} /\ Range(queue) \subseteq Entry
      /\ (queue = <<>> <=> Range(queue) = {}) /\ (Survivors = <<>> <=> Range(Survivors) = {})
  BY OnlySelects, Ranges DEF IInv, Types, PipeTypes, Survivors
<1>2. JobsIn(<<>>) = {} /\ Range(<<>>) = {} /\ <<>> \in Seq(Entry)
  BY DEF JobsIn, Range
<1>3. /\ run' \in {"ending", "commit"} /\ run \notin {"idle", "commit"} /\ asides = <<>>
      /\ UNCHANGED <<born, idOf, home, status, body, jobOf, suppressed, watched, timers, deliveries, sinks,
                     stopped, tool, epoch, latest, aborting, flush, rows, entries, adopting, appended,
                     told, asked, replayed, missed, lapsed, earlier>>
  BY DEF Drain, manager, life, disk, history, IInv, Types, LoopTypes
<1>4. \/ queue' = queue /\ asides' = asides
      \/ queue' = <<>> /\ asides' = Survivors /\ (Survivors # <<>> => run' = "commit")
  BY DEF Drain
<1>5. /\ Formatting' = Formatting /\ Enqueued' = Enqueued /\ InPipe' \subseteq InPipe
      /\ \/ JobsIn(queue') = JobsIn(queue) /\ JobsIn(asides') = JobsIn(asides)
         \/ JobsIn(queue') = {} /\ JobsIn(asides') = JobsIn(Survivors) /\ JobsIn(Survivors) \subseteq JobsIn(queue)
  BY <1>1, <1>2, <1>3, <1>4 DEF Formatting, Enqueued, InPipe
<1>6. Types'
  <2>1. ManagerTypes' /\ LifeTypes' /\ DiskTypes' /\ HistoryTypes' /\ CountTypes'
    BY TypesStay DEF IInv, Types, Drain, manager, pipe, loop, life, disk, history, counts
  <2>2. PipeTypes'
    BY <1>3, <1>4, <1>1, <1>2 DEF IInv, Types, PipeTypes
  <2>3. LoopTypes'
    BY <1>3, <1>4, ToolKinds DEF Drain, IInv, Types, LoopTypes
  <2> QED
    BY <2>1, <2>2, <2>3 DEF Types
<1>7. Named' /\ Adopting' /\ Counted'
  BY Stays DEF IInv, Drain, manager, pipe, loop, life, disk, history, counts
<1>8. Placed'
  BY <1>3, <1>5 DEF IInv, Placed
<1>9. Owned'
  <2>1. ASSUME NEW q \in Jobs \ lapsed, q \in JobsIn(Survivors) PROVE home[q] = epoch /\ q \notin asked
    <3>1. PICK e \in Range(queue) \cap Fresh : e.job = q
      BY <1>1, <2>1
    <3> QED
      BY <3>1 DEF IInv, Homed, Entries, Owned, Fresh, Suppressed
  <2> QED
    BY <1>3, <1>5, <2>1 DEF IInv, Owned, Active, BashOf, Enqueued
<1>10. Homed'
  BY <1>3, <1>4, <1>2 DEF IInv, Homed, Entries, Active
<1>11. InBash'
  BY <1>3, <1>5 DEF IInv, InBash, IdsOf
<1>12. InWait'
  BY <1>3, <1>5 DEF IInv, InWait, IdsOf
<1>13. Away'
  BY <1>3 DEF IInv, Away
<1>14. Kept'
  <2> SUFFICES ASSUME NEW q \in Jobs \ (missed \cup lapsed \cup earlier), status[q] = "completed", home[q] = epoch
               PROVE  Known(q) \/ q \in InPipe' \/ BashOf(q) \/ WaitOf(q)
    BY <1>3 DEF Kept, Known, BashOf, WaitOf
  <2>1. Known(q) \/ q \in InPipe \/ BashOf(q) \/ WaitOf(q)
    BY DEF IInv, Kept
  <2>2. CASE q \notin JobsIn(queue)
    BY <1>3, <1>2, <2>1, <2>2 DEF InPipe
  <2>3. CASE q \in JobsIn(queue) /\ q \notin JobsIn(Survivors)
    <3>1. PICK e \in Range(queue) : e.job = q
      BY <1>1, <2>3
    <3>2. e \in Entry /\ e \notin Fresh
      BY <1>1, <2>3, <3>1
    <3>3. e.epoch = epoch /\ Active(q)
      BY <3>1 DEF IInv, Homed, Entries
    <3>4. idOf[q] \notin watched
      BY <2>3, <3>3 DEF IInv, InWait, Active, InPipe
    <3>5. idOf[q] \in suppressed => q \in asked \/ BashOf(q)
      BY <3>3 DEF IInv, Owned
    <3> QED
      BY <3>1, <3>2, <3>3, <3>4, <3>5 DEF Fresh, Suppressed, Known
  <2>4. CASE q \in JobsIn(queue) /\ q \in JobsIn(Survivors)
    BY <1>4, <1>5, <2>4 DEF InPipe
  <2> QED
    BY <2>2, <2>3, <2>4
<1>15. Texts'
  BY <1>1, <1>2, <1>3, <1>5 DEF IInv, Texts
<1>16. Past'
  BY <1>3, <1>5 DEF IInv, Past, BashOf
<1>17. NothingStranded'
  BY <1>1, <1>2, <1>3, <1>4, <1>5 DEF IInv, Types, NothingStranded,
      Streaming, LifeTypes
<1> QED
  BY <1>6, <1>7, <1>8, <1>9, <1>10, <1>11, <1>12,
     <1>13, <1>14, <1>15, <1>16, <1>17 DEF IInv

LEMMA StepCommit ==
    ASSUME IInv, Commit
    PROVE  IInv'
<1>1. JobsIn(<<>>) = {} /\ Range(<<>>) = {} /\ <<>> \in Seq(Entry)
  BY DEF JobsIn, Range
<1>2. /\ run = "commit" /\ run' = "model" /\ asides' = <<>> /\ told' = Told(asides)
      /\ UNCHANGED <<born, idOf, home, status, body, jobOf, suppressed, watched, timers, deliveries, sinks, queue,
                     stopped, tool, epoch, latest, aborting, flush, rows, entries, adopting, appended,
                     asked, replayed, missed, lapsed, earlier>>
  BY DEF Commit, manager, life, disk
<1>3. /\ Formatting' = Formatting /\ Enqueued' = Enqueued /\ InPipe' \subseteq InPipe
      /\ JobsIn(asides') = {} /\ JobsIn(queue') = JobsIn(queue)
  BY <1>1, <1>2 DEF Formatting, Enqueued, InPipe
<1>4. \A q \in Jobs : /\ told'[q] = told[q] \/ (q \in InPipe /\ told'[q] = told[q] + 1)
                      /\ q \notin JobsIn(queue) \cup JobsIn(asides) => told'[q] = told[q]
  BY <1>2 DEF Told, InPipe
<1>5. Types'
  <2>1. ManagerTypes' /\ LifeTypes' /\ DiskTypes' /\ CountTypes'
    BY TypesStay DEF IInv, Types, Commit, manager, pipe, loop, life, disk, history, counts
  <2>2. PipeTypes'
    BY <1>2, <1>1 DEF IInv, Types, PipeTypes
  <2>3. LoopTypes'
    BY <1>1, <1>2, <1>3, <1>4 DEF IInv, Types, LoopTypes
  <2>4. HistoryTypes'
    BY <1>2 DEF IInv, Types, HistoryTypes, Told
  <2> QED
    BY <2>1, <2>2, <2>3, <2>4 DEF Types
<1>6. Named' /\ Homed' /\ Adopting'
  BY Stays DEF IInv, Commit, manager, pipe, loop, life, disk, history, counts
<1>7. Placed'
  <2>1. ASSUME NEW q \in InPipe' PROVE told'[q] = 0
    <3>1. q \in Jobs /\ told[q] = 0
      BY <1>3, EntriesPlaced DEF IInv, Placed, Types, ManagerTypes, HistoryTypes, PipeTypes, InPipe
    <3>2. q \notin JobsIn(asides)
      BY <1>3 DEF IInv, Placed, InPipe, Enqueued, Formatting
    <3> QED
      BY <1>2, <3>1, <3>2 DEF Told
  <2> QED
    BY <1>2, <1>3, <2>1 DEF IInv, Placed
<1>8. Owned'
  BY <1>2, <1>3 DEF IInv, Owned, Active, BashOf
<1>9. InBash'
  BY <1>2, <1>3, <1>4, ToolKinds DEF IInv, Types, LoopTypes, InBash, IdsOf
<1>10. InWait'
  BY <1>2, <1>3 DEF IInv, InWait, IdsOf
<1>11. Away'
  BY <1>2 DEF IInv, Away
<1>12. Kept'
  <2> SUFFICES ASSUME NEW q \in Jobs \ (missed \cup lapsed \cup earlier), status[q] = "completed", home[q] = epoch
               PROVE  told'[q] > 0 \/ q \in asked \/ q \in InPipe' \/ BashOf(q) \/ WaitOf(q)
    BY <1>2 DEF Kept, Known, BashOf, WaitOf
  <2>1. told[q] > 0 \/ q \in asked \/ q \in InPipe \/ BashOf(q) \/ WaitOf(q)
    BY DEF IInv, Kept, Known
  <2>2. CASE q \notin JobsIn(asides)
    BY <1>2, <1>1, <1>4, <2>1, <2>2 DEF InPipe, IInv, Types, HistoryTypes
  <2>3. CASE q \in JobsIn(asides)
    BY <1>2, <2>3 DEF Told, IInv, Types, HistoryTypes
  <2> QED
    BY <2>2, <2>3
<1>13. Texts'
  <2>1. \A i \in Ids : rows[i].text # 0 => rows[i].text \in Jobs
    BY DeliveryBounds DEF DeliveryBounds, IInv, Types, DiskTypes, Rows, Jobs
  <2> QED
    BY <1>4, <1>2, <1>3, <2>1 DEF IInv, Texts
<1>14. Past'
  BY <1>2, <1>3 DEF IInv, Past, BashOf
<1>15. Counted'
  <2>1. \A q \in InPipe \cap Jobs : told[q] = 0 /\ status[q] = "completed" /\ replayed[q] = 0
    BY DEF IInv, Types, HistoryTypes, Placed, Counted, Past
  <2> QED
    BY <1>4, <1>2, <2>1 DEF IInv, Types, HistoryTypes, Counted
<1>16. NothingStranded'
  BY <1>2 DEF NothingStranded, Streaming
<1> QED
  BY <1>5, <1>6, <1>7, <1>8, <1>9, <1>10, <1>11,
     <1>12, <1>13, <1>14, <1>15, <1>16 DEF IInv

LEMMA StepStartBackground ==
    ASSUME IInv, StartBackground
    PROVE  IInv'
<1>1. Calling /\ Register(NewId, suppressed \ {NewId}) /\ UNCHANGED <<epoch, latest, aborting, asked, earlier>>
  BY DEF StartBackground, life
<1>2. /\ NewId \in Ids /\ jobOf[NewId] = 0 /\ New \in Jobs /\ born \in Nat /\ born' = New
      /\ epoch \in 1..latest /\ adopting = {} /\ tool = NoTool /\ run = "model" /\ ~stopped
      /\ asides = <<>> /\ watched = {}
      /\ status[New] = "unborn" /\ told[New] = 0 /\ replayed[New] = 0
      /\ New \notin InPipe \cup asked \cup earlier
      /\ lapsed \subseteq lapsed' /\ lapsed' \subseteq Jobs /\ suppressed' = suppressed \ {NewId}
      /\ New \notin lapsed' => NewId \notin IdsOf(InPipe)
      /\ \A q \in Jobs : q \in InPipe \/ jobOf[idOf[q]] = q => q # New
      /\ UNCHANGED <<watched, timers>>
  BY <1>1, Registers
<1>3. /\ ManagerTypes' /\ Named' /\ rows' \in [Ids -> Rows] /\ rows'[NewId].text = 0
      /\ \A j \in Ids \ {NewId} : rows'[j] = rows[j]
      /\ idOf'[New] = NewId /\ home'[New] = epoch /\ status'[New] = "running" /\ body'[New]
      /\ \A q \in Jobs \ {New} : /\ idOf'[q] = idOf[q] /\ home'[q] = home[q]
                                 /\ status'[q] = status[q] /\ body'[q] = body[q]
      /\ jobOf'[NewId] = New /\ \A i \in Ids \ {NewId} : jobOf'[i] = jobOf[i]
      /\ \A q \in Jobs : Active(q)' <=> Active(q) \/ q = New
  <2>1. suppressed \ {NewId} \in SUBSET Ids
    BY <1>2 DEF IInv, Types, ManagerTypes
  <2> QED
    BY <1>1, <2>1, RegistersJob
<1>4. /\ run' = "boundary"
      /\ UNCHANGED <<deliveries, sinks, queue, asides, stopped, tool, epoch, latest, aborting, flush,
                     entries, adopting, appended, told, asked, replayed, missed, earlier>>
  BY DEF StartBackground, pipe, life
<1>5. InPipe' = InPipe /\ Enqueued' = Enqueued /\ InPipe \subseteq Jobs \ {New} /\ Enqueued \subseteq Jobs \ {New}
      /\ \A e \in Entries : e.job \in Jobs \ {New}
  BY <1>2, <1>4, EntriesPlaced DEF InPipe, Enqueued, IInv, Types
<1>6. Types'
  <2>1. PipeTypes' /\ LifeTypes' /\ CountTypes'
    BY TypesStay DEF IInv, Types, StartBackground, Register, manager, pipe, loop, life, disk,
        history, counts
  <2>2. ManagerTypes'
    BY <1>3
  <2>3. LoopTypes'
    BY <1>2, <1>4 DEF IInv, Types, LoopTypes
  <2>4. DiskTypes'
    BY <1>3, <1>4 DEF IInv, Types, DiskTypes
  <2>5. HistoryTypes'
    BY <1>2, <1>4 DEF IInv, Types, HistoryTypes
  <2> QED
    BY <2>1, <2>2, <2>3, <2>4, <2>5 DEF Types
<1>7. Named'
  BY <1>3
<1>8. Placed'
  BY <1>2, <1>3, <1>4, <1>5 DEF IInv, Placed, Formatting, New, Jobs
<1>9. Owned'
  <2> SUFFICES ASSUME NEW q \in Jobs \ lapsed'
               PROVE  /\ status'[q] = "running" \/ q \in Enqueued' => Active(q)'
                      /\ q \in JobsIn(asides') => home'[q] = epoch' /\ q \notin asked'
                      /\ Active(q)' => /\ home'[q] = epoch'
                                       /\ q \in asked' => idOf'[q] \in suppressed'
                                       /\ idOf'[q] \in suppressed' => q \in asked' \/ BashOf(q)'
    BY DEF Owned
  <2>1. q \notin JobsIn(asides')
    BY <1>2, <1>4 DEF JobsIn
  <2>2. CASE q = New
    BY <1>2, <1>3, <1>4, <2>1, <2>2
  <2>3. CASE q # New
    <3>1. Active(q) => idOf[q] # NewId
      BY <1>2 DEF Active, Jobs
    <3> QED
      BY <1>2, <1>3, <1>4, <1>5, <2>1, <2>3, <3>1 DEF IInv, Owned, BashOf
  <2> QED
    BY <2>2, <2>3
<1>10. Homed'
  BY <1>2, <1>3, <1>4, <1>5 DEF IInv, Homed, Entries
<1>11. InBash'
  BY <1>2, <1>4 DEF InBash, NoTool
<1>12. InWait'
  BY <1>2, <1>4 DEF InWait, NoTool
<1>13. Away'
  BY <1>2, <1>4 DEF Away
<1>14. Kept'
  BY <1>2, <1>3, <1>4, <1>5 DEF IInv, Kept, Known, BashOf, WaitOf, NoTool
<1>15. Texts'
  <2>1. \A i \in Ids : rows[i].text # 0 => rows[i].text \in Jobs \ {New} /\ rows[i].text <= New
    BY <1>2, DeliveryBounds DEF DeliveryBounds, IInv, Types, DiskTypes, Rows, Jobs, Texts, New
  <2>2. \A i \in Ids \ {NewId} : rows'[i].text # 0 => idOf'[rows'[i].text] = i /\ rows'[i].text <= born'
    BY <1>2, <1>3, <2>1 DEF IInv, Texts
  <2>3. \A i \in Ids \ {NewId} :
            rows'[i].text # 0 =>
                LET r == rows[i].text IN
                /\ ~rows[i].delivered => told'[r] = 0 /\ r \notin JobsIn(queue') \cup JobsIn(asides')
                /\ replayed'[r] > 0 => rows[i].delivered \/ i \in entries'[rows[i].home]
    BY <1>3, <1>4 DEF IInv, Texts
  <2> QED
    BY <1>2, <1>3, <2>2, <2>3 DEF Texts
<1>16. Adopting'
  BY <1>2, <1>4 DEF IInv, Adopting
<1>17. Past'
  <2>1. \A q \in earlier : q \in Jobs \ {New} /\ idOf[q] \in Ids
    BY <1>2 DEF IInv, Types, HistoryTypes, ManagerTypes
  <2> QED
    BY <1>2, <1>3, <1>4, <2>1 DEF IInv, Past, InPipe, BashOf, Jobs
<1>18. Counted'
  BY <1>2, <1>3, <1>4 DEF IInv, Counted, Types, HistoryTypes
<1>19. NothingStranded'
  BY <1>4 DEF NothingStranded, Streaming
<1> QED
  BY <1>6, <1>7, <1>8, <1>9, <1>10, <1>11, <1>12,
     <1>13, <1>14, <1>15, <1>16, <1>17, <1>18, <1>19 DEF IInv

LEMMA StepStartForeground ==
    ASSUME IInv, StartForeground
    PROVE  IInv'
<1>1. Calling /\ Register(NewId, suppressed \cup {NewId}) /\ UNCHANGED <<epoch, latest, aborting, asked, earlier>>
  BY DEF StartForeground, life
<1>2. /\ NewId \in Ids /\ jobOf[NewId] = 0 /\ New \in Jobs /\ born \in Nat /\ born' = New
      /\ epoch \in 1..latest /\ adopting = {} /\ tool = NoTool /\ run = "model" /\ ~stopped
      /\ asides = <<>> /\ watched = {}
      /\ status[New] = "unborn" /\ told[New] = 0 /\ replayed[New] = 0
      /\ New \notin InPipe \cup asked \cup earlier
      /\ lapsed \subseteq lapsed' /\ lapsed' \subseteq Jobs /\ suppressed' = suppressed \cup {NewId}
      /\ New \notin lapsed' => NewId \notin IdsOf(InPipe)
      /\ \A q \in Jobs : q \in InPipe \/ jobOf[idOf[q]] = q => q # New
      /\ UNCHANGED <<watched, timers>>
  BY <1>1, Registers
<1>3. /\ ManagerTypes' /\ Named' /\ rows' \in [Ids -> Rows] /\ rows'[NewId].text = 0
      /\ \A j \in Ids \ {NewId} : rows'[j] = rows[j]
      /\ idOf'[New] = NewId /\ home'[New] = epoch /\ status'[New] = "running" /\ body'[New]
      /\ \A q \in Jobs \ {New} : /\ idOf'[q] = idOf[q] /\ home'[q] = home[q]
                                 /\ status'[q] = status[q] /\ body'[q] = body[q]
      /\ jobOf'[NewId] = New /\ \A i \in Ids \ {NewId} : jobOf'[i] = jobOf[i]
      /\ \A q \in Jobs : Active(q)' <=> Active(q) \/ q = New
  <2>1. suppressed \cup {NewId} \in SUBSET Ids
    BY <1>2 DEF IInv, Types, ManagerTypes
  <2> QED
    BY <1>1, <2>1, RegistersJob
<1>4. /\ deliveries' = Unacknowledged({NewId}) /\ tool' = [kind |-> "bash", job |-> New, won |-> "none"]
      /\ UNCHANGED <<sinks, queue, asides, run, stopped, epoch, latest, aborting, flush,
                     entries, adopting, appended, told, asked, replayed, missed, earlier>>
  BY DEF StartForeground, life, New
<1>5. /\ deliveries' \in Seq(Jobs) /\ Once(deliveries') /\ Enqueued' \subseteq Enqueued /\ (deliveries = <<>> => deliveries' = <<>>)
      /\ \A q \in Enqueued \ Enqueued' : idOf[q] \in {NewId} \/ Suppressed(idOf[q])
  BY <1>4, Acknowledges
<1>6. /\ InPipe' \subseteq InPipe /\ Formatting' = Formatting /\ InPipe \subseteq Jobs \ {New} /\ Enqueued \subseteq Jobs \ {New}
      /\ \A e \in Entries : e.job \in Jobs \ {New}
      /\ \A q : q \in InPipe \ InPipe' => q \in Enqueued \ Enqueued'
  BY <1>2, <1>4, <1>5, EntriesPlaced DEF InPipe, Enqueued, Formatting, IInv, Types
<1>7. tool' \in Tools /\ tool'.kind = "bash" /\ tool'.job = New
  BY <1>2, <1>4 DEF Tools
<1>8. Types'
  <2>1. LifeTypes' /\ CountTypes'
    BY TypesStay DEF IInv, Types, StartForeground, Register, manager, pipe, loop, life, disk,
        history, counts
  <2>2. ManagerTypes'
    BY <1>3
  <2>3. PipeTypes'
    BY <1>5, <1>4 DEF IInv, Types, PipeTypes
  <2>4. LoopTypes'
    BY <1>2, <1>4, <1>7 DEF IInv, Types, LoopTypes
  <2>5. DiskTypes'
    BY <1>3, <1>4 DEF IInv, Types, DiskTypes
  <2>6. HistoryTypes'
    BY <1>2, <1>4 DEF IInv, Types, HistoryTypes
  <2> QED
    BY <2>1, <2>2, <2>3, <2>4, <2>5, <2>6 DEF Types
<1>9. NothingStranded'
  BY Stays DEF IInv, StartForeground, Register, manager, pipe, loop, life, disk, history, counts
<1>10. Named'
  BY <1>3
<1>11. Placed'
  <2>1. ASSUME NEW q \in InPipe' PROVE q <= born' /\ status'[q] = "completed" /\ told'[q] = 0
    <3>1. q \in Jobs \ {New} /\ q <= born /\ status[q] = "completed" /\ told[q] = 0
      BY <1>6 DEF IInv, Placed
    <3> QED
      BY <1>2, <1>3, <1>4, <3>1 DEF New, Jobs
  <2> QED
    BY <1>4, <1>5, <1>6, <2>1 DEF IInv, Placed
<1>12. Owned'
  <2> SUFFICES ASSUME NEW q \in Jobs \ lapsed'
               PROVE  /\ status'[q] = "running" \/ q \in Enqueued' => Active(q)'
                      /\ q \in JobsIn(asides') => home'[q] = epoch' /\ q \notin asked'
                      /\ Active(q)' => /\ home'[q] = epoch'
                                       /\ q \in asked' => idOf'[q] \in suppressed'
                                       /\ idOf'[q] \in suppressed' => q \in asked' \/ BashOf(q)'
    BY DEF Owned
  <2>1. q \notin JobsIn(asides')
    BY <1>2, <1>4 DEF JobsIn
  <2>2. CASE q = New
    BY <1>2, <1>3, <1>4, <1>7, <2>1, <2>2 DEF BashOf
  <2>3. CASE q # New
    <3>1. Active(q) => idOf[q] # NewId
      BY <1>2 DEF Active, Jobs
    <3> QED
      BY <1>2, <1>3, <1>4, <1>5, <2>1, <2>3, <3>1 DEF IInv, Owned, BashOf, NoTool
  <2> QED
    BY <2>2, <2>3
<1>13. Homed'
  BY <1>2, <1>3, <1>4, <1>6 DEF IInv, Homed, Entries
<1>14. InBash'
  <2>1. New \notin lapsed' => idOf'[New] \notin IdsOf(Enqueued \cup Formatting)'
    <3>1. ASSUME NEW q \in (Enqueued \cup Formatting)' PROVE q \in InPipe /\ idOf'[q] = idOf[q]
      BY <1>3, <1>5, <1>6 DEF Enqueued, Formatting, InPipe
    <3> QED
      BY <1>2, <1>3, <3>1 DEF IdsOf
  <2> QED
    BY <1>2, <1>3, <1>4, <1>7, <1>6, <2>1 DEF InBash, New
<1>15. InWait'
  BY <1>2, <1>4, <1>7 DEF InWait
<1>16. Away'
  BY <1>2, <1>4 DEF Away
<1>17. Kept'
  <2> SUFFICES ASSUME NEW q \in Jobs \ (missed \cup lapsed' \cup earlier), status'[q] = "completed", home'[q] = epoch
               PROVE  Known(q) \/ q \in InPipe'
    BY <1>4 DEF Kept, Known
  <2>1. q # New /\ status[q] = "completed" /\ home[q] = epoch /\ q \notin lapsed
    BY <1>2, <1>3
  <2>2. Known(q) \/ q \in InPipe
    BY <1>2, <2>1 DEF IInv, Kept, BashOf, WaitOf, NoTool
  <2>3. q \in Enqueued \ Enqueued' => q \in asked
    <3> SUFFICES ASSUME q \in Enqueued \ Enqueued' PROVE q \in asked
      OBVIOUS
    <3>1. Active(q)
      BY <2>1 DEF IInv, Owned
    <3>2. idOf[q] # NewId
      BY <1>2, <3>1 DEF Active, Jobs
    <3>3. idOf[q] \in suppressed
      BY <1>2, <1>5, <3>2 DEF Suppressed
    <3> QED
      BY <1>2, <2>1, <3>1, <3>3 DEF IInv, Owned, BashOf, NoTool
  <2> QED
    BY <1>6, <2>2, <2>3 DEF Known
<1>18. Texts'
  <2>1. \A i \in Ids : rows[i].text # 0 => rows[i].text \in Jobs \ {New} /\ rows[i].text <= New
    BY <1>2, DeliveryBounds DEF DeliveryBounds, IInv, Types, DiskTypes, Rows, Jobs, Texts, New
  <2>2. \A i \in Ids \ {NewId} : rows'[i].text # 0 => idOf'[rows'[i].text] = i /\ rows'[i].text <= born'
    BY <1>2, <1>3, <2>1 DEF IInv, Texts
  <2>3. \A i \in Ids \ {NewId} :
            rows'[i].text # 0 =>
                LET r == rows[i].text IN
                /\ ~rows[i].delivered => told'[r] = 0 /\ r \notin JobsIn(queue') \cup JobsIn(asides')
                /\ replayed'[r] > 0 => rows[i].delivered \/ i \in entries'[rows[i].home]
    BY <1>3, <1>4 DEF IInv, Texts
  <2> QED
    BY <1>2, <1>3, <2>2, <2>3 DEF Texts
<1>19. Adopting'
  BY <1>2, <1>4 DEF IInv, Adopting
<1>20. Past'
  <2>1. \A q \in earlier : q \in Jobs \ {New} /\ idOf[q] \in Ids
    BY <1>2 DEF IInv, Types, HistoryTypes, ManagerTypes
  <2> QED
    BY <1>2, <1>3, <1>4, <1>6, <1>7, <2>1 DEF IInv, Past, BashOf, Jobs
<1>21. Counted'
  BY <1>2, <1>3, <1>4 DEF IInv, Counted, Types, HistoryTypes
<1> QED
  BY <1>8, <1>9, <1>10, <1>11, <1>12, <1>13, <1>14,
     <1>15, <1>16, <1>17, <1>18, <1>19, <1>20, <1>21 DEF IInv

LEMMA StepHubJobs ==
    ASSUME IInv, NEW W \in SUBSET Visible, HubJobs(W)
    PROVE  IInv'
<1>1. tool = NoTool /\ run = "model" /\ ~stopped /\ asides = <<>> /\ watched = {} /\ epoch # 0 /\ adopting = {}
  BY ToolKinds DEF HubJobs, Calling, IInv, Types, LoopTypes, InWait, Away
<1>2. \A r \in W : /\ r \in Jobs /\ r <= born /\ jobOf[idOf[r]] = r /\ idOf[r] \in Ids
                      /\ status[r] \in {"completed", "cancelled"}
  BY DEF HubJobs, Settled, Visible, IInv, Types, ManagerTypes
<1>3. /\ deliveries' = Unacknowledged(IdsOf(W)) /\ suppressed' = suppressed \cup IdsOf(W) /\ run' = "boundary"
      /\ asked' = asked \cup {r \in W : status[r] = "completed"}
      /\ UNCHANGED <<born, idOf, home, status, body, jobOf, watched, timers, sinks, queue, asides, stopped, tool,
                     epoch, latest, aborting, flush, rows, entries, adopting, appended,
                     told, replayed, missed, lapsed, earlier>>
  BY DEF HubJobs, Report, Acknowledge, life, disk
<1>4. /\ deliveries' \in Seq(Jobs) /\ Once(deliveries') /\ Enqueued' \subseteq Enqueued /\ (deliveries = <<>> => deliveries' = <<>>)
      /\ \A q \in Enqueued \ Enqueued' : idOf[q] \in IdsOf(W) \/ Suppressed(idOf[q])
  BY <1>3, Acknowledges
<1>5. /\ InPipe' \subseteq InPipe /\ Formatting' = Formatting /\ InPipe \subseteq Jobs
      /\ \A q : q \in InPipe \ InPipe' => q \in Enqueued \ Enqueued'
  BY <1>3, <1>4, EntriesPlaced DEF InPipe, Enqueued, Formatting, IInv, Types
<1>6. \A q \in Jobs : Active(q) /\ idOf[q] \in IdsOf(W) => q \in W /\ status[q] = "completed" 
  BY <1>2 DEF IdsOf, Active
<1>7. Types'
  <2>1. LifeTypes' /\ DiskTypes' /\ CountTypes'
    BY TypesStay DEF IInv, Types, HubJobs, Report, Acknowledge, manager, pipe, loop, life, disk,
        history, counts
  <2>2. ManagerTypes'
    BY <1>2, <1>3 DEF IInv, Types, ManagerTypes, IdsOf
  <2>3. PipeTypes'
    BY <1>4, <1>3 DEF IInv, Types, PipeTypes
  <2>4. LoopTypes'
    BY <1>1, <1>3 DEF IInv, Types, LoopTypes
  <2>5. HistoryTypes'
    BY <1>2, <1>3 DEF IInv, Types, HistoryTypes
  <2> QED
    BY <2>1, <2>2, <2>3, <2>4, <2>5 DEF Types
<1>8. Homed' /\ Texts' /\ Adopting' /\ Counted'
  BY Stays DEF IInv, HubJobs, Report, Acknowledge, manager, pipe, loop, life, disk, history, counts
<1>9. Named'
  BY <1>2, <1>3 DEF IInv, Named, Jobs
<1>10. Placed'
  BY <1>3, <1>4, <1>5 DEF IInv, Placed
<1>11. Owned'
  <2>1. \A q \in Jobs : (Active(q)' <=> Active(q)) /\ (BashOf(q)' <=> BashOf(q))
    BY <1>3 DEF Active, BashOf
  <2>2. \A q \in JobsIn(asides') : FALSE
    BY <1>1, <1>3 DEF JobsIn
  <2> QED
    BY <1>3, <1>4, <1>2, <1>6, <2>1, <2>2 DEF IInv, Owned, IdsOf
<1>12. InBash'
  BY <1>1, <1>3 DEF InBash, NoTool
<1>13. InWait'
  BY <1>1, <1>3 DEF InWait, NoTool
<1>14. Away'
  BY <1>1, <1>3 DEF Away
<1>15. Kept'
  <2> SUFFICES ASSUME NEW q \in Jobs \ (missed \cup lapsed \cup earlier), status[q] = "completed", home[q] = epoch
               PROVE  told[q] > 0 \/ q \in asked' \/ q \in InPipe'
    BY <1>3 DEF Kept, Known
  <2>1. told[q] > 0 \/ q \in asked \/ q \in InPipe
    BY <1>1 DEF IInv, Kept, Known, BashOf, WaitOf, NoTool
  <2>2. q \in Enqueued \ Enqueued' => q \in asked'
    <3> SUFFICES ASSUME q \in Enqueued \ Enqueued' PROVE q \in asked'
      OBVIOUS
    <3>1. Active(q)
      BY DEF IInv, Owned
    <3>2. CASE idOf[q] \in IdsOf(W)
      BY <1>6, <1>3, <3>1, <3>2
    <3>3. CASE idOf[q] \in suppressed
      BY <1>1, <1>3, <3>1, <3>3 DEF IInv, Owned, BashOf, NoTool
    <3> QED
      BY <1>1, <1>4, <3>2, <3>3 DEF Suppressed
  <2> QED
    BY <1>3, <1>5, <2>1, <2>2
<1>16. Past'
  BY <1>3, <1>5 DEF IInv, Past, BashOf
<1>17. NothingStranded'
  BY <1>3 DEF NothingStranded, Streaming
<1> QED
  BY <1>7, <1>8, <1>9, <1>10, <1>11, <1>12, <1>13,
     <1>14, <1>15, <1>16, <1>17 DEF IInv

LEMMA StepHubCancel ==
    ASSUME IInv, NEW r \in Jobs, HubCancel(r)
    PROVE  IInv'
<1>1. tool = NoTool /\ run = "model" /\ ~stopped /\ asides = <<>> /\ watched = {} /\ epoch # 0 /\ adopting = {}
  BY ToolKinds DEF HubCancel, Calling, IInv, Types, LoopTypes, InWait, Away
<1>2. r \in Running /\ r <= born /\ jobOf[idOf[r]] = r /\ idOf[r] \in Ids /\ status[r] = "running" /\ r \notin InPipe /\ told[r] = 0
  BY DEF HubCancel, Running, Visible, IInv, Types, ManagerTypes, HistoryTypes, Placed, Counted
<1>3. /\ deliveries' = Unacknowledged({idOf[r]}) /\ suppressed' = suppressed \cup {idOf[r]} /\ run' = "boundary"
      /\ status' = [status EXCEPT ![r] = "cancelled"] /\ timers' = timers \cup {idOf[r]}
      /\ UNCHANGED <<born, idOf, home, body, jobOf, watched, sinks, queue, asides, stopped, tool,
                     epoch, latest, aborting, flush, entries, adopting, appended,
                     told, asked, replayed, missed, lapsed, earlier>>
  BY <1>2 DEF HubCancel, Cancel, Acknowledge, life, history
<1>4. Wrote(idOf[r]) /\ rows'[idOf[r]].text = 0 /\ rows'[idOf[r]].delivered = rows[idOf[r]].delivered
  <2>1. 0 \in 0..MaxJobs /\ rows \in [Ids -> Rows]
    BY DeliveryBounds DEF DeliveryBounds, IInv, Types, DiskTypes
  <2>2. rows' = [rows EXCEPT ![idOf[r]].st = "cancelled", ![idOf[r]].text = 0]
    BY <1>2 DEF HubCancel, Cancel, Finish
  <2> QED
    BY <1>2, <2>1, <2>2, Writes
<1>5. /\ deliveries' \in Seq(Jobs) /\ Once(deliveries') /\ Enqueued' \subseteq Enqueued /\ (deliveries = <<>> => deliveries' = <<>>)
      /\ \A q \in Enqueued \ Enqueued' : idOf[q] \in {idOf[r]} \/ Suppressed(idOf[q])
  BY <1>3, Acknowledges
<1>6. /\ InPipe' \subseteq InPipe /\ Formatting' = Formatting /\ InPipe \subseteq Jobs
      /\ \A q : q \in InPipe \ InPipe' => q \in Enqueued \ Enqueued'
  BY <1>3, <1>5, EntriesPlaced DEF InPipe, Enqueued, Formatting, IInv, Types
<1>7. \A q \in Jobs : Active(q)' <=> Active(q) /\ q # r
  BY <1>2, <1>3 DEF Active, IInv, Types, ManagerTypes
<1>8. Types'
  <2>1. LifeTypes' /\ HistoryTypes' /\ CountTypes'
    BY TypesStay DEF IInv, Types, HubCancel, Cancel, Finish, Acknowledge, manager, pipe, loop,
        life, disk, history, counts
  <2>2. ManagerTypes'
    BY <1>2, <1>3 DEF IInv, Types, ManagerTypes
  <2>3. PipeTypes'
    BY <1>5, <1>3 DEF IInv, Types, PipeTypes
  <2>4. LoopTypes'
    BY <1>1, <1>3 DEF IInv, Types, LoopTypes
  <2>5. DiskTypes'
    BY <1>4, <1>3 DEF IInv, Types, DiskTypes, Wrote
  <2> QED
    BY <2>1, <2>2, <2>3, <2>4, <2>5 DEF Types
<1>9. Named'
  BY <1>2, <1>3 DEF IInv, Types, ManagerTypes, Named
<1>10. Placed'
  <2>1. \A q \in InPipe' : status'[q] = status[q]
    BY <1>2, <1>3, <1>6 DEF IInv, Types, ManagerTypes
  <2> QED
    BY <1>3, <1>5, <1>6, <2>1 DEF IInv, Placed
<1>11. Owned'
  <2>1. \A q \in Jobs : (BashOf(q)' <=> BashOf(q)) /\ (status'[q] = "running" => status[q] = "running" /\ q # r)
    BY <1>3 DEF BashOf, IInv, Types, ManagerTypes
  <2>2. \A q \in JobsIn(asides') : FALSE
    BY <1>1, <1>3 DEF JobsIn
  <2>3. \A q \in Jobs : Active(q) /\ q # r => idOf[q] # idOf[r]
    BY <1>2 DEF Active
  <2>4. r \notin Enqueued
    BY <1>2 DEF Enqueued, InPipe
  <2> QED
    BY <1>3, <1>5, <1>7, <2>1, <2>2, <2>3, <2>4 DEF IInv, Owned
<1>12. Homed'
  <2>1. \A e \in Entries : e.job \in Jobs /\ e.job # r
    BY <1>2, <1>6, EntriesPlaced DEF IInv, Types
  <2> QED
    BY <1>3, <1>7, <2>1 DEF IInv, Homed, Entries
<1>13. InBash'
  BY <1>1, <1>3 DEF InBash, NoTool
<1>14. InWait'
  BY <1>1, <1>3 DEF InWait, NoTool
<1>15. Away'
  BY <1>1, <1>3 DEF Away
<1>16. Kept'
  <2> SUFFICES ASSUME NEW q \in Jobs \ (missed \cup lapsed \cup earlier), status[q] = "completed", home[q] = epoch
               PROVE  told[q] > 0 \/ q \in asked \/ q \in InPipe'
    BY <1>3 DEF Kept, Known, IInv, Types, ManagerTypes
  <2>1. told[q] > 0 \/ q \in asked \/ q \in InPipe
    BY <1>1 DEF IInv, Kept, Known, BashOf, WaitOf, NoTool
  <2>2. q \in Enqueued \ Enqueued' => q \in asked
    <3> SUFFICES ASSUME q \in Enqueued \ Enqueued' PROVE q \in asked
      OBVIOUS
    <3>1. Active(q)
      BY DEF IInv, Owned
    <3>2. idOf[q] # idOf[r]
      BY <1>2, <3>1 DEF Active
    <3> QED
      BY <1>1, <1>5, <3>1, <3>2 DEF IInv, Owned, BashOf, NoTool, Suppressed
  <2> QED
    BY <1>6, <2>1, <2>2
<1>17. Texts'
  BY <1>4, <1>2, <1>3 DEF IInv, Texts, Wrote
<1>18. Adopting'
  BY <1>1, <1>3 DEF IInv, Adopting
<1>19. Past'
  BY <1>3, <1>6 DEF IInv, Past, BashOf
<1>20. Counted'
  BY <1>2, <1>3 DEF IInv, Counted, Types, ManagerTypes, HistoryTypes
<1>21. NothingStranded'
  BY <1>3 DEF NothingStranded, Streaming
<1> QED
  BY <1>8, <1>9, <1>10, <1>11, <1>12, <1>13, <1>14,
     <1>15, <1>16, <1>17, <1>18, <1>19, <1>20, <1>21 DEF IInv

LEMMA StepHubWait ==
    ASSUME IInv, NEW W \in SUBSET Visible, HubWait(W)
    PROVE  IInv'
<1>1. tool = NoTool /\ run = "model" /\ ~stopped /\ asides = <<>> /\ watched = {} /\ epoch # 0 /\ adopting = {}
  BY ToolKinds DEF HubWait, Calling, IInv, Types, LoopTypes, InWait, Away
<1>2. \A r \in W : r \in Jobs /\ r <= born /\ jobOf[idOf[r]] = r /\ idOf[r] \in Ids
  BY DEF HubWait, Visible, IInv, Types, ManagerTypes
<1>3. /\ watched' = IdsOf(W \cap Running)
      /\ \E windowed \in BOOLEAN :
            tool' = [kind |-> "wait", jobs |-> W, ids |-> IdsOf(W \cap Running), window |-> windowed,
                     st |-> "race", woken |-> FALSE, msg |-> FALSE]
      /\ UNCHANGED <<born, idOf, home, status, body, jobOf, suppressed, timers, deliveries, sinks, queue, asides,
                     run, stopped, epoch, latest, aborting, flush, rows, entries, adopting, appended,
                     told, asked, replayed, missed, lapsed, earlier>>
  BY <1>1 DEF HubWait, pipe, life, disk, history
<1>4. tool' \in WaitTools /\ tool'.kind = "wait" /\ tool'.jobs = W /\ tool'.ids = IdsOf(W \cap Running) /\ tool'.st = "race" 
  BY <1>2, <1>3 DEF WaitTools, IdsOf
<1>5. Types'
  <2>1. PipeTypes' /\ LifeTypes' /\ DiskTypes' /\ HistoryTypes' /\ CountTypes'
    BY TypesStay DEF IInv, Types, HubWait, manager, pipe, loop, life, disk, history, counts
  <2>2. ManagerTypes'
    BY <1>2, <1>3 DEF IInv, Types, ManagerTypes, IdsOf
  <2>3. LoopTypes'
    BY <1>1, <1>4, <1>3, ToolKinds DEF IInv, Types, LoopTypes
  <2> QED
    BY <2>1, <2>2, <2>3 DEF Types
<1>6. Named' /\ Placed' /\ Homed' /\ Away' /\ Texts' /\ Adopting' /\ Counted' /\ NothingStranded'
  BY Stays DEF IInv, HubWait, manager, pipe, loop, life, disk, history, counts
<1>7. Owned'
  BY <1>1, <1>3, <1>4 DEF IInv, Owned, Active, BashOf, Enqueued, NoTool
<1>8. InBash'
  BY <1>4 DEF InBash
<1>9. InWait'
  <2>1. \A q \in Running : q \notin InPipe /\ status[q] = "running"
    BY DEF Running, IInv, Placed
  <2>2. ASSUME NEW i \in watched' PROVE jobOf'[i] \notin InPipe'
    <3>1. PICK q \in W \cap Running : i = idOf[q]
      BY <1>3, <2>2 DEF IdsOf
    <3> QED
      BY <1>2, <1>3, <2>1, <3>1 DEF InPipe
  <2>3. IdsOf(W \cap Running) \subseteq IdsOf(W) /\ IdsOf(W)' = IdsOf(W)
    BY <1>3 DEF IdsOf
  <2>4. (tool.ids \subseteq IdsOf(tool.jobs))'
    BY <1>4, <1>3, <2>3 DEF IdsOf
  <2> QED
    BY <1>2, <1>3, <1>4, <2>2, <2>4 DEF InWait
<1>10. Kept'
  BY <1>1, <1>3 DEF IInv, Kept, Known, InPipe, BashOf, WaitOf, NoTool
<1>11. Past'
  BY <1>4, <1>3 DEF IInv, Past, InPipe, BashOf
<1> QED
  BY <1>5, <1>6, <1>7, <1>8, <1>9, <1>10, <1>11 DEF IInv

LEMMA StepBashReturns ==
    ASSUME IInv, BashReturns
    PROVE  IInv'
<1>1. /\ tool \in BashTools /\ tool.kind = "bash" /\ tool.job \in Jobs /\ run = "model" /\ asides = <<>> /\ watched = {}
      /\ epoch # 0 /\ adopting = {} /\ NoTool.kind = "none" /\ idOf[tool.job] \in Ids
  BY ToolKinds DEF BashReturns, IInv, Types, LoopTypes, ManagerTypes, InWait, Away
<1>2. LET c == tool.job
          i == idOf[c]
      IN  /\ c <= born /\ c \notin asked \cup InPipe /\ told[c] = 0
          /\ status[c] \in {"running", "completed"}
          /\ jobOf[i] \in {0, c} /\ (jobOf[i] = c => i \in suppressed)
          /\ c \notin lapsed => jobOf[i] = c /\ i \notin IdsOf(Enqueued \cup Formatting)
  BY <1>1 DEF IInv, InBash
<1>3. /\ asked' = asked \cup {tool.job} /\ tool' = NoTool /\ run' = "boundary"
      /\ UNCHANGED <<born, idOf, home, status, body, jobOf, suppressed, watched, timers, deliveries, sinks, queue, asides,
                     stopped, epoch, latest, aborting, flush, rows, entries, adopting, appended,
                     told, replayed, missed, lapsed, earlier>>
  BY DEF BashReturns, manager, pipe, life, disk
<1>4. Types'
  <2>1. ManagerTypes' /\ PipeTypes' /\ LifeTypes' /\ DiskTypes' /\ CountTypes'
    BY TypesStay DEF IInv, Types, BashReturns, manager, pipe, loop, life, disk, history, counts
  <2>2. LoopTypes'
    BY <1>1, <1>3, ToolKinds DEF IInv, Types, LoopTypes
  <2>3. HistoryTypes'
    BY <1>1, <1>3 DEF IInv, Types, HistoryTypes
  <2> QED
    BY <2>1, <2>2, <2>3 DEF Types
<1>5. Placed' /\ Homed' /\ Texts' /\ Adopting' /\ Counted'
  BY Stays DEF IInv, BashReturns, manager, pipe, loop, life, disk, history, counts
<1>6. Named'
  BY <1>1, <1>2, <1>3 DEF IInv, Named, Jobs
<1>7. Owned'
  <2>1. \A q \in JobsIn(asides') : FALSE
    BY <1>1, <1>3 DEF JobsIn
  <2>2. \A q \in Jobs : (Active(q)' <=> Active(q)) /\ Enqueued' = Enqueued /\ ~BashOf(q)'
    BY <1>1, <1>3 DEF Active, BashOf, Enqueued
  <2> QED
    BY <1>1, <1>2, <1>3, <2>1, <2>2 DEF IInv, Owned, BashOf, Active
<1>8. InBash'
  BY <1>1, <1>3 DEF InBash
<1>9. InWait'
  BY <1>1, <1>3 DEF InWait
<1>10. Away'
  BY <1>1, <1>3 DEF Away
<1>11. Kept'
  BY <1>1, <1>3 DEF IInv, Kept, Known, InPipe, BashOf, WaitOf
<1>12. Past'
  BY <1>1, <1>3 DEF IInv, Past, InPipe, BashOf
<1>13. NothingStranded'
  BY <1>3 DEF NothingStranded, Streaming
<1> QED
  BY <1>4, <1>5, <1>6, <1>7, <1>8, <1>9, <1>10, <1>11,
     <1>12, <1>13 DEF IInv

LEMMA StepBashBackgrounds ==
    ASSUME IInv, BashBackgrounds
    PROVE  IInv'
<1>1. /\ tool \in BashTools /\ tool.kind = "bash" /\ tool.job \in Jobs /\ run = "model" /\ asides = <<>> /\ watched = {}
      /\ epoch # 0 /\ adopting = {} /\ NoTool.kind = "none" /\ idOf[tool.job] \in Ids
  BY ToolKinds DEF BashBackgrounds, IInv, Types, LoopTypes, ManagerTypes, InWait, Away
<1>2. LET c == tool.job
          i == idOf[c]
      IN  /\ c <= born /\ c \notin asked \cup InPipe /\ told[c] = 0
          /\ status[c] \in {"running", "completed"}
          /\ jobOf[i] \in {0, c} /\ (jobOf[i] = c => i \in suppressed)
          /\ c \notin lapsed => jobOf[i] = c /\ i \notin IdsOf(Enqueued \cup Formatting)
  BY <1>1 DEF IInv, InBash
<1>3. /\ tool' = NoTool /\ run' = "boundary" /\ suppressed' = suppressed \ {idOf[tool.job]}
      /\ UNCHANGED <<born, idOf, home, status, body, jobOf, watched, timers, sinks, queue, asides,
                     stopped, epoch, latest, aborting, flush, rows, entries, adopting, appended,
                     told, asked, replayed, missed, lapsed, earlier>>
  BY DEF BashBackgrounds, ResumeDeliveries, life, disk, history
<1>4. \/ /\ jobOf[idOf[tool.job]] = tool.job /\ status[tool.job] = "completed"
         /\ deliveries' \in Seq(Jobs) /\ Range(deliveries') = Range(deliveries) \cup {tool.job} /\ Once(deliveries')
      \/ /\ deliveries' = deliveries
         /\ ~(/\ jobOf[idOf[tool.job]] = tool.job /\ status[tool.job] = "completed"
              /\ idOf[tool.job] \notin IdsOf(Enqueued \cup Formatting))
  <2> DEFINE c == tool.job
             i == idOf[c]
             again == /\ i \in suppressed
                      /\ jobOf[i] # 0 /\ status[jobOf[i]] = "completed"
                      /\ i \notin IdsOf(Enqueued \cup Formatting)
  <2>1. deliveries' = IF again THEN Append(deliveries, jobOf[i]) ELSE deliveries
    BY <1>1 DEF BashBackgrounds, ResumeDeliveries, Enqueued, Formatting
  <2>2. /\ Append(deliveries, c) \in Seq(Jobs) /\ Range(Append(deliveries, c)) = Range(deliveries) \cup {c}
        /\ Once(Append(deliveries, c))
    <3>1. deliveries \in Seq(Jobs) /\ Once(deliveries) /\ c \notin Range(deliveries) /\ c \in Jobs
      BY <1>1, <1>2 DEF IInv, Types, PipeTypes, Placed, InPipe
    <3> QED
      BY <3>1, RangeAppend
  <2>3. jobOf[i] # 0 => jobOf[i] = c
    BY <1>2
  <2>4. jobOf[i] = c => i \in suppressed /\ jobOf[i] # 0
    BY <1>1, <1>2 DEF Jobs
  <2>5. CASE again
    BY <2>1, <2>2, <2>3, <2>5
  <2>6. CASE ~again
    BY <2>1, <2>4, <2>6
  <2> QED
    BY <2>5, <2>6
<1>5. /\ InPipe \subseteq InPipe' /\ InPipe' \subseteq InPipe \cup {tool.job} /\ Formatting' = Formatting
      /\ Enqueued' = Enqueued \/ Enqueued' = Enqueued \cup {tool.job}
      /\ \A q \in Jobs : (Active(q)' <=> Active(q)) /\ ~BashOf(q)'
  BY <1>1, <1>4, <1>3 DEF InPipe, Formatting, Enqueued, Active, BashOf
<1>6. Types'
  <2>1. LifeTypes' /\ DiskTypes' /\ HistoryTypes' /\ CountTypes'
    BY TypesStay DEF IInv, Types, BashBackgrounds, ResumeDeliveries, manager, pipe, loop, life,
        disk, history, counts
  <2>2. ManagerTypes'
    BY <1>3 DEF IInv, Types, ManagerTypes
  <2>3. PipeTypes'
    BY <1>4, <1>3 DEF IInv, Types, PipeTypes
  <2>4. LoopTypes'
    BY <1>1, <1>3, ToolKinds DEF IInv, Types, LoopTypes
  <2> QED
    BY <2>1, <2>2, <2>3, <2>4 DEF Types
<1>7. Named' /\ Homed' /\ Texts' /\ Adopting' /\ Counted'
  BY Stays DEF IInv, BashBackgrounds, ResumeDeliveries, manager, pipe, loop, life, disk, history,
      counts
<1>8. Placed'
  <2>1. ASSUME NEW q \in InPipe' PROVE q <= born /\ status[q] = "completed" /\ told[q] = 0
    <3>1. CASE q \in InPipe
      BY <3>1 DEF IInv, Placed
    <3>2. CASE q = tool.job /\ q \notin InPipe
      BY <1>2, <1>4, <1>3, <3>2 DEF InPipe
    <3> QED
      BY <1>5, <3>1, <3>2
  <2>2. Once(deliveries')
    BY <1>4 DEF IInv, Placed
  <2>3. tool.job \notin Formatting \cup JobsIn(queue) \cup JobsIn(asides)
    BY <1>2 DEF InPipe, Formatting
  <2> QED
    BY <1>3, <1>5, <2>1, <2>2, <2>3 DEF IInv, Placed
<1>9. Owned'
  <2>1. \A q \in JobsIn(asides') : FALSE
    BY <1>1, <1>3 DEF JobsIn
  <2>2. tool.job \in Enqueued' => tool.job \in Enqueued \/ Active(tool.job)
    BY <1>4 DEF Enqueued, Active
  <2>3. \A q \in Jobs : Active(q) /\ idOf[q] = idOf[tool.job] => q = tool.job
    BY <1>2 DEF Active, Jobs
  <2>4. \A q \in Jobs : BashOf(q) => q = tool.job
    BY DEF BashOf
  <2> QED
    BY <1>1, <1>2, <1>3, <1>5, <2>1, <2>2, <2>3, <2>4 DEF IInv, Owned
<1>10. InBash'
  BY <1>1, <1>3 DEF InBash
<1>11. InWait'
  BY <1>1, <1>3 DEF InWait
<1>12. Away'
  BY <1>1, <1>3 DEF Away
<1>13. Kept'
  <2> SUFFICES ASSUME NEW q \in Jobs \ (missed \cup lapsed \cup earlier), status[q] = "completed", home[q] = epoch
               PROVE  Known(q) \/ q \in InPipe'
    BY <1>3 DEF Kept, Known
  <2>1. Known(q) \/ q \in InPipe \/ q = tool.job
    BY <1>1 DEF IInv, Kept, BashOf, WaitOf
  <2>2. q = tool.job => q \in InPipe'
    BY <1>2, <1>4 DEF InPipe
  <2> QED
    BY <1>5, <2>1, <2>2
<1>14. Past'
  <2>1. tool.job \notin earlier
    BY <1>1 DEF IInv, Past, BashOf
  <2> QED
    BY <1>3, <1>5, <2>1 DEF IInv, Types, HistoryTypes, Past
<1>15. NothingStranded'
  BY <1>3 DEF NothingStranded, Streaming
<1> QED
  BY <1>6, <1>7, <1>8, <1>9, <1>10, <1>11, <1>12,
     <1>13, <1>14, <1>15 DEF IInv

LEMMA StepBashAborts ==
    ASSUME IInv, BashAborts
    PROVE  IInv'
<1>1. /\ tool \in BashTools /\ tool.kind = "bash" /\ tool.job \in Jobs /\ run = "model" /\ asides = <<>> /\ watched = {}
      /\ epoch # 0 /\ adopting = {} /\ NoTool.kind = "none" /\ idOf[tool.job] \in Ids
  BY ToolKinds DEF BashAborts, IInv, Types, LoopTypes, ManagerTypes, InWait, Away
<1>2. LET c == tool.job
          i == idOf[c]
      IN  /\ c <= born /\ c \notin asked \cup InPipe /\ told[c] = 0
          /\ status[c] \in {"running", "completed"}
          /\ jobOf[i] \in {0, c} /\ (jobOf[i] = c => i \in suppressed)
          /\ c \notin lapsed => jobOf[i] = c /\ i \notin IdsOf(Enqueued \cup Formatting)
  BY <1>1 DEF IInv, InBash
<1>3. /\ tool' = NoTool /\ run' = "boundary"
      /\ asked' = IF status[tool.job] = "completed" THEN asked \cup {tool.job} ELSE asked
      /\ UNCHANGED <<born, idOf, home, body, jobOf, suppressed, watched, deliveries, sinks, queue, asides,
                     stopped, epoch, latest, aborting, flush, entries, adopting, appended,
                     told, replayed, missed, lapsed, earlier>>
  BY DEF BashAborts, life, pipe
<1>4. \/ UNCHANGED <<status, timers, rows>> /\ tool.job \notin Running
      \/ /\ tool.job \in Running /\ status' = [status EXCEPT ![tool.job] = "cancelled"] /\ timers' = timers \cup {idOf[tool.job]}
         /\ Wrote(idOf[tool.job]) /\ rows'[idOf[tool.job]].text = 0
         /\ rows'[idOf[tool.job]].delivered = rows[idOf[tool.job]].delivered
  <2>1. 0 \in 0..MaxJobs /\ rows \in [Ids -> Rows]
    BY DeliveryBounds DEF DeliveryBounds, IInv, Types, DiskTypes
  <2>2. CASE tool.job \in Running
    <3>1. rows' = [rows EXCEPT ![idOf[tool.job]].st = "cancelled", ![idOf[tool.job]].text = 0]
      BY <2>2 DEF BashAborts, Cancel, Finish
    <3>2. /\ Wrote(idOf[tool.job]) /\ rows'[idOf[tool.job]].text = 0
          /\ rows'[idOf[tool.job]].delivered = rows[idOf[tool.job]].delivered
      BY <1>1, <2>1, <3>1, Writes
    <3> QED
      BY <2>2, <3>2 DEF BashAborts, Cancel
  <2>3. CASE tool.job \notin Running
    BY <2>3 DEF BashAborts, Cancel
  <2> QED
    BY <2>2, <2>3
<1>5. /\ \A q \in Jobs : Active(q)' => Active(q) /\ (q = tool.job => status[q] = "completed")
      /\ \A q \in Jobs : Active(q) /\ q # tool.job => Active(q)'
      /\ \A q \in Jobs : status'[q] = status[q] \/ (q = tool.job /\ status[q] = "running" /\ status'[q] = "cancelled")
      /\ \A q \in Jobs : status'[q] = "running" /\ q = tool.job => jobOf[idOf[q]] # q
      /\ \A q : ~BashOf(q)'
  <2>1. tool.job \in Running <=> jobOf[idOf[tool.job]] = tool.job /\ status[tool.job] = "running"
    BY <1>1, <1>2 DEF Running, Visible
  <2> QED
    BY <1>1, <1>2, <1>3, <1>4, <2>1 DEF Active, BashOf, IInv, Types, ManagerTypes
<1>6. Types'
  <2>1. PipeTypes' /\ LifeTypes' /\ CountTypes'
    BY TypesStay DEF IInv, Types, BashAborts, Cancel, Finish, manager, pipe, loop, life, disk,
        history, counts
  <2>2. ManagerTypes'
    BY <1>1, <1>4, <1>3 DEF IInv, Types, ManagerTypes
  <2>3. LoopTypes'
    BY <1>1, <1>3, ToolKinds DEF IInv, Types, LoopTypes
  <2>4. DiskTypes'
    BY <1>4, <1>3 DEF IInv, Types, DiskTypes, Wrote
  <2>5. HistoryTypes'
    BY <1>1, <1>3 DEF IInv, Types, HistoryTypes
  <2> QED
    BY <2>1, <2>2, <2>3, <2>4, <2>5 DEF Types
<1>7. Named'
  BY <1>1, <1>2, <1>5, <1>3 DEF IInv, Named, Jobs
<1>8. Placed'
  <2>1. InPipe' = InPipe /\ InPipe \subseteq Jobs
    BY <1>3, EntriesPlaced DEF InPipe, IInv, Types
  <2>2. Enqueued' = Enqueued /\ Formatting' = Formatting
    BY <1>3 DEF Enqueued, Formatting
  <2> QED
    BY <1>5, <1>3, <2>1, <2>2 DEF IInv, Placed
<1>9. Owned'
  <2>1. \A q \in JobsIn(asides') : FALSE
    BY <1>1, <1>3 DEF JobsIn
  <2>2. Enqueued' = Enqueued /\ tool.job \notin Enqueued
    BY <1>2, <1>3 DEF Enqueued, InPipe
  <2>3. \A q \in Jobs : BashOf(q) => q = tool.job
    BY DEF BashOf
  <2>4. \A q \in Jobs : Active(q) => jobOf[idOf[q]] = q
    BY DEF Active
  <2> QED
    BY <1>1, <1>2, <1>5, <1>3, <2>1, <2>2, <2>3, <2>4 DEF IInv, Owned
<1>10. Homed'
  <2>1. \A e \in Entries : e.job \in Jobs /\ e.job # tool.job
    BY <1>2, EntriesPlaced DEF IInv, Types
  <2> QED
    BY <1>5, <1>3, <2>1 DEF IInv, Homed, Entries
<1>11. InBash'
  BY <1>1, <1>3 DEF InBash
<1>12. InWait'
  BY <1>1, <1>3 DEF InWait
<1>13. Away'
  BY <1>1, <1>3 DEF Away
<1>14. Kept'
  BY <1>1, <1>5, <1>3 DEF IInv, Kept, Known, InPipe, BashOf, WaitOf
<1>15. Texts'
  BY <1>1, <1>4, <1>3 DEF IInv, Texts, Wrote
<1>16. Adopting'
  BY <1>1, <1>3 DEF IInv, Adopting
<1>17. Past'
  BY <1>5, <1>3 DEF IInv, Past, InPipe
<1>18. Counted'
  BY <1>5, <1>3, <1>2 DEF IInv, Counted, Types, HistoryTypes
<1>19. NothingStranded'
  BY <1>3 DEF NothingStranded, Streaming
<1> QED
  BY <1>6, <1>7, <1>8, <1>9, <1>10, <1>11, <1>12,
     <1>13, <1>14, <1>15, <1>16, <1>17, <1>18, <1>19 DEF IInv

LEMMA StepHubMessage ==
    ASSUME IInv, HubMessage
    PROVE  IInv'
<1>1. /\ tool \in WaitTools /\ tool' \in WaitTools /\ tool.kind = "wait" /\ tool'.kind = "wait"
      /\ tool'.jobs = tool.jobs /\ tool'.ids = tool.ids /\ tool'.st = "race" /\ tool.st = "race" 
  <2>1. tool \in WaitTools /\ tool.st = "race" /\ tool' = [tool EXCEPT !.woken = TRUE, !.msg = TRUE]
    BY ToolKinds DEF HubMessage, IInv, Types, LoopTypes
  <2>2. tool' \in WaitTools /\ tool'.jobs = tool.jobs /\ tool'.ids = tool.ids /\ tool'.st = tool.st
    BY <2>1 DEF WaitTools
  <2> QED
    BY <2>1, <2>2, ToolKinds
<1>2. UNCHANGED <<born, idOf, home, status, body, jobOf, suppressed, watched, timers, deliveries, sinks, queue, asides,
                 run, stopped, epoch, latest, aborting, flush, rows, entries, adopting, appended,
                 told, asked, replayed, missed, lapsed, earlier>>
  BY DEF HubMessage, manager, pipe, life, disk, history
<1>3. Types'
  <2>1. ManagerTypes' /\ PipeTypes' /\ LifeTypes' /\ DiskTypes' /\ HistoryTypes'
    BY TypesStay DEF IInv, Types, HubMessage, manager, pipe, loop, life, disk, history, counts
  <2>2. LoopTypes'
    BY <1>1, <1>2, ToolKinds DEF IInv, Types, LoopTypes, NoTool
  <2>3. CountTypes'
    BY DeliveryBounds DEF DeliveryBounds, HubMessage, IInv, Types, CountTypes
  <2> QED
    BY <2>1, <2>2, <2>3 DEF Types
<1>4. Named' /\ Placed' /\ Homed' /\ Away' /\ Texts' /\ Adopting' /\ Counted' /\ NothingStranded'
  BY Stays DEF IInv, HubMessage, manager, pipe, loop, life, disk, history, counts
<1>5. Owned'
  BY <1>1, <1>2 DEF IInv, Owned, Active, BashOf, Enqueued
<1>6. InBash'
  BY <1>1 DEF InBash
<1>7. InWait'
  BY <1>1, <1>2 DEF IInv, InWait, InPipe, IdsOf
<1>8. Kept'
  BY <1>1, <1>2 DEF IInv, Kept, Known, InPipe, BashOf, WaitOf
<1>9. Past'
  BY <1>1, <1>2 DEF IInv, Past, InPipe, BashOf
<1> QED
  BY <1>3, <1>4, <1>5, <1>6, <1>7, <1>8, <1>9 DEF IInv

LEMMA StepHubUnwatch ==
    ASSUME IInv, HubUnwatch
    PROVE  IInv'
<1>1. /\ tool \in WaitTools /\ tool' \in WaitTools /\ tool.kind = "wait" /\ tool'.kind = "wait" /\ tool.jobs \subseteq Jobs
      /\ tool'.jobs = tool.jobs /\ tool'.ids = tool.ids /\ tool'.st = "over" /\ tool.st = "race" /\ tool'.msg = tool.msg
  <2>1. tool \in WaitTools /\ tool.st = "race" /\ tool' = [tool EXCEPT !.st = "over"]
    BY ToolKinds DEF HubUnwatch, IInv, Types, LoopTypes
  <2>2. tool' \in WaitTools /\ tool'.jobs = tool.jobs /\ tool'.ids = tool.ids /\ tool'.st = "over" /\ tool'.msg = tool.msg
    BY <2>1 DEF WaitTools
  <2> QED
    BY <2>1, <2>2, ToolKinds
<1>2. /\ watched' = {}
      /\ missed' = IF tool.msg
                   THEN missed \cup {r \in tool.jobs : /\ idOf[r] \in tool.ids
                                                       /\ status[r] = "completed" /\ r \notin InPipe}
                   ELSE missed
      /\ UNCHANGED <<born, idOf, home, status, body, jobOf, suppressed, timers, deliveries, sinks, queue, asides,
                 run, stopped, epoch, latest, aborting, flush, rows, entries, adopting, appended,
                 told, asked, replayed, lapsed, earlier>>
  BY DEF HubUnwatch, pipe, life, disk, IInv, InWait
<1>3. Types'
  <2>1. PipeTypes' /\ LifeTypes' /\ DiskTypes' /\ CountTypes'
    BY TypesStay DEF IInv, Types, HubUnwatch, manager, pipe, loop, life, disk, history, counts
  <2>2. ManagerTypes'
    BY <1>2 DEF IInv, Types, ManagerTypes
  <2>3. LoopTypes'
    BY <1>1, <1>2, ToolKinds DEF IInv, Types, LoopTypes, NoTool
  <2>4. HistoryTypes'
    BY <1>1, <1>2 DEF IInv, Types, HistoryTypes
  <2> QED
    BY <2>1, <2>2, <2>3, <2>4 DEF Types
<1>4. Named' /\ Placed' /\ Homed' /\ Away' /\ Texts' /\ Adopting' /\ Counted' /\ NothingStranded'
  BY Stays DEF IInv, HubUnwatch, manager, pipe, loop, life, disk, history, counts
<1>5. Owned'
  BY <1>1, <1>2 DEF IInv, Owned, Active, BashOf, Enqueued
<1>6. InBash'
  BY <1>1 DEF InBash
<1>7. InWait'
  BY <1>1, <1>2 DEF IInv, InWait, InPipe, IdsOf
<1>8. Kept'
  <2> SUFFICES ASSUME NEW q \in Jobs \ (missed' \cup lapsed \cup earlier), status[q] = "completed", home[q] = epoch
               PROVE  Known(q) \/ q \in InPipe \/ WaitOf(q)'
    BY <1>2 DEF Kept, Known, InPipe
  <2>1. Known(q) \/ q \in InPipe \/ (q \in tool.jobs /\ idOf[q] \in tool.ids)
    BY <1>1, <1>2 DEF IInv, Kept, BashOf, WaitOf
  <2>2. CASE q \in tool.jobs /\ idOf[q] \in tool.ids /\ q \notin InPipe
    <3>1. ~tool.msg
      BY <1>2, <2>2
    <3> QED
      BY <1>1, <2>2, <3>1 DEF WaitOf
  <2> QED
    BY <2>1, <2>2
<1>9. Past'
  BY <1>1, <1>2 DEF IInv, Past, InPipe, BashOf
<1> QED
  BY <1>3, <1>4, <1>5, <1>6, <1>7, <1>8, <1>9 DEF IInv

LEMMA StepHubReturns ==
    ASSUME IInv, HubReturns
    PROVE  IInv'
<1>1. /\ tool.kind = "wait" /\ tool.st = "over" /\ run = "model" /\ asides = <<>> /\ watched = {}
      /\ epoch # 0 /\ adopting = {} /\ NoTool.kind = "none" /\ \A q : ~BashOf(q)
  BY ToolKinds DEF HubReturns, IInv, Types, LoopTypes, InWait, Away, BashOf
<1>2. /\ tool' = NoTool /\ run' = "boundary"
      /\ UNCHANGED <<born, idOf, home, status, body, jobOf, watched, timers, sinks, queue, asides, stopped,
                     epoch, latest, aborting, flush, rows, entries, adopting, appended,
                     told, replayed, missed, lapsed, earlier>>
  BY DEF HubReturns, life, disk
<1>3. \E W \in SUBSET tool.jobs :
          /\ W = IF tool.msg THEN {} ELSE Settled(tool.jobs)
          /\ asked' = asked \cup {r \in W : status[r] = "completed"} /\ suppressed' = suppressed \cup IdsOf(W)
          /\ deliveries' = deliveries \/ deliveries' = Unacknowledged(IdsOf(W))
  <2>1. CASE tool.msg
    <3>1. {} \in SUBSET tool.jobs /\ IdsOf({}) = {} /\ {r \in {} : status[r] = "completed"} = {}
      BY DEF IdsOf
    <3>2. asked' = asked /\ suppressed' = suppressed /\ deliveries' = deliveries
      BY <2>1 DEF HubReturns
    <3> QED
      BY <2>1, <3>1, <3>2
  <2>2. CASE ~tool.msg
    <3>1. Settled(tool.jobs) \subseteq tool.jobs
      BY DEF Settled
    <3>2. asked' = asked \cup {r \in Settled(tool.jobs) : status[r] = "completed"}
      BY <2>2 DEF HubReturns, Report, Settled
    <3> QED
      BY <2>2, <3>1, <3>2 DEF HubReturns, Report, Acknowledge
  <2> QED
    BY <2>1, <2>2
<1>4. PICK W \in SUBSET tool.jobs :
          /\ W = IF tool.msg THEN {} ELSE Settled(tool.jobs)
          /\ asked' = asked \cup {r \in W : status[r] = "completed"} /\ suppressed' = suppressed \cup IdsOf(W)
          /\ deliveries' = deliveries \/ deliveries' = Unacknowledged(IdsOf(W))
  BY <1>3
<1>5. \A r \in W : /\ r \in Jobs /\ r <= born /\ jobOf[idOf[r]] \in {0, r} /\ idOf[r] \in Ids
                      /\ status[r] \in {"completed", "cancelled"}
  <2>1. tool.jobs \subseteq Jobs
    BY <1>1, ToolKinds DEF IInv, Types, LoopTypes
  <2> QED
    BY <1>1, <1>4, <2>1 DEF Settled, IInv, Types, ManagerTypes, InWait
<1>6. /\ deliveries' \in Seq(Jobs) /\ Once(deliveries') /\ Enqueued' \subseteq Enqueued /\ (deliveries = <<>> => deliveries' = <<>>)
      /\ \A q \in Enqueued \ Enqueued' : idOf[q] \in IdsOf(W) \/ Suppressed(idOf[q])
  <2>1. CASE deliveries' = deliveries
    BY <2>1 DEF IInv, Types, PipeTypes, Placed, Enqueued
  <2>2. CASE deliveries' = Unacknowledged(IdsOf(W))
    BY <2>2, Acknowledges
  <2> QED
    BY <1>4, <2>1, <2>2
<1>7. /\ InPipe' \subseteq InPipe /\ Formatting' = Formatting /\ InPipe \subseteq Jobs
      /\ \A q : q \in InPipe \ InPipe' => q \in Enqueued \ Enqueued'
  BY <1>2, <1>6, EntriesPlaced DEF InPipe, Enqueued, Formatting, IInv, Types
<1>8. \A q \in Jobs : Active(q) /\ idOf[q] \in IdsOf(W) => q \in W /\ status[q] = "completed" 
  BY <1>5 DEF IdsOf, Active, Jobs
<1>9. Types'
  <2>1. LifeTypes' /\ DiskTypes' /\ CountTypes'
    BY TypesStay DEF IInv, Types, HubReturns, Report, Acknowledge, manager, pipe, loop, life, disk,
        history, counts
  <2>2. ManagerTypes'
    BY <1>4, <1>5, <1>2 DEF IInv, Types, ManagerTypes, IdsOf
  <2>3. PipeTypes'
    BY <1>6, <1>2 DEF IInv, Types, PipeTypes
  <2>4. LoopTypes'
    BY <1>1, <1>2, ToolKinds DEF IInv, Types, LoopTypes
  <2>5. HistoryTypes'
    BY <1>4, <1>5, <1>2 DEF IInv, Types, HistoryTypes
  <2> QED
    BY <2>1, <2>2, <2>3, <2>4, <2>5 DEF Types
<1>10. Homed' /\ Texts' /\ Adopting' /\ Counted'
  BY Stays DEF IInv, HubReturns, Report, Acknowledge, manager, pipe, loop, life, disk, history,
      counts
<1>11. Named'
  BY <1>4, <1>5, <1>2 DEF IInv, Named, Jobs
<1>12. Placed'
  BY <1>2, <1>6, <1>7 DEF IInv, Placed
<1>13. Owned'
  <2>1. \A q \in Jobs : (Active(q)' <=> Active(q)) /\ ~BashOf(q)'
    BY <1>1, <1>2 DEF Active, BashOf
  <2>2. \A q \in JobsIn(asides') : FALSE
    BY <1>1, <1>2 DEF JobsIn
  <2>3. \A q \in W : idOf[q] \in suppressed'
    BY <1>4 DEF IdsOf
  <2> QED
    BY <1>1, <1>4, <1>2, <1>6, <1>8, <2>1, <2>2, <2>3 DEF IInv, Owned
<1>14. InBash'
  BY <1>1, <1>2 DEF InBash
<1>15. InWait'
  BY <1>1, <1>2 DEF InWait
<1>16. Away'
  BY <1>1, <1>2 DEF Away
<1>17. Kept'
  <2> SUFFICES ASSUME NEW q \in Jobs \ (missed \cup lapsed \cup earlier), status[q] = "completed", home[q] = epoch
               PROVE  told[q] > 0 \/ q \in asked' \/ q \in InPipe'
    BY <1>2 DEF Kept, Known
  <2>1. told[q] > 0 \/ q \in asked \/ q \in InPipe \/ WaitOf(q)
    BY <1>1 DEF IInv, Kept, Known
  <2>2. WaitOf(q) => q \in asked'
    BY <1>1, <1>4 DEF WaitOf, Settled
  <2>3. q \in Enqueued \ Enqueued' => q \in asked'
    <3> SUFFICES ASSUME q \in Enqueued \ Enqueued' PROVE q \in asked'
      OBVIOUS
    <3>1. Active(q)
      BY DEF IInv, Owned
    <3>2. CASE idOf[q] \in IdsOf(W)
      BY <1>8, <1>4, <3>1, <3>2
    <3>3. CASE idOf[q] \in suppressed
      BY <1>1, <1>4, <3>1, <3>3 DEF IInv, Owned
    <3> QED
      BY <1>1, <1>6, <3>2, <3>3 DEF Suppressed
  <2> QED
    BY <1>4, <1>7, <2>1, <2>2, <2>3
<1>18. Past'
  BY <1>1, <1>2, <1>7 DEF IInv, Past, BashOf
<1>19. NothingStranded'
  BY <1>2 DEF NothingStranded, Streaming
<1> QED
  BY <1>9, <1>10, <1>11, <1>12, <1>13, <1>14, <1>15,
     <1>16, <1>17, <1>18, <1>19 DEF IInv

LEMMA StepNewSession ==
    ASSUME IInv, NewSession
    PROVE  IInv'
<1>1. /\ run = "idle" /\ tool = NoTool /\ NoTool.kind = "none" /\ asides = <<>> /\ watched = {} /\ epoch # 0 /\ adopting = {}
      /\ latest + 1 \in Transcripts /\ latest \in Nat
  BY ToolKinds, DeliveryBounds DEF DeliveryBounds, NewSession, Streaming, IInv, Types, LoopTypes, LifeTypes, InWait, Away, Named, Transcripts
<1>2. PICK ended \in SUBSET Ids :
          /\ ended = {i \in Ids : jobOf[i] # 0 /\ status[jobOf[i]] = "completed"}
          /\ status' = [r \in Jobs |-> IF r \in Running THEN "cancelled" ELSE status[r]]
          /\ timers' = (timers \cup IdsOf(Running)) \ ended
          /\ jobOf' = [i \in Ids |-> IF i \in ended THEN 0 ELSE jobOf[i]]
          /\ suppressed' = suppressed \ ended /\ watched' = watched \ ended
          /\ deliveries' = IF ended = {} THEN deliveries ELSE Unacknowledged(ended)
          /\ queue' = <<>>
  BY DEF NewSession, CancelOwnJobs
<1>3. /\ aborting' = "no" /\ flush' \in {"none", "armed"} /\ latest' = latest + 1 /\ epoch' = latest + 1
      /\ UNCHANGED <<born, idOf, home, body, sinks, asides, run, stopped, tool, rows, entries, adopting, appended,
                     told, asked, replayed, missed, lapsed, earlier>>
  BY DEF NewSession, ArmFor, loop, disk, history, IInv, Types, LifeTypes
<1>4. /\ deliveries' \in Seq(Jobs) /\ Once(deliveries') /\ Enqueued' \subseteq Enqueued
      /\ \A q \in Enqueued' : idOf[q] \notin ended
  <2>1. CASE ended = {}
    BY <1>2, <2>1 DEF IInv, Types, PipeTypes, Placed, Enqueued
  <2>2. CASE ended # {}
    BY <1>2, <2>2, Acknowledges
  <2> QED
    BY <2>1, <2>2
<1>5. /\ InPipe' \subseteq InPipe /\ Formatting' = Formatting /\ InPipe \subseteq Jobs
      /\ JobsIn(queue') = {} /\ JobsIn(asides') = {}  /\ Range(queue') = {} /\ queue' \in Seq(Entry)
  <2>1. JobsIn(<<>>) = {} /\ Range(<<>>) = {} /\ <<>> \in Seq(Entry)
    BY DEF JobsIn, Range
  <2> QED
    BY <1>1, <1>2, <1>3, <1>4, <2>1, EntriesPlaced DEF InPipe, Enqueued, Formatting, IInv, Types
<1>6. /\ \A q \in Jobs \ lapsed : ~Active(q)' /\ status'[q] # "running"
      /\ \A q \in Jobs : status'[q] = status[q] \/ (status[q] = "running" /\ status'[q] = "cancelled")
      /\ \A i \in Ids : jobOf'[i] = 0 \/ jobOf'[i] = jobOf[i]
  <2>1. \A q \in Jobs : status'[q] = status[q] \/ (status[q] = "running" /\ status'[q] = "cancelled")
    BY <1>2 DEF Running
  <2>2. \A i \in Ids : jobOf'[i] = 0 \/ jobOf'[i] = jobOf[i]
    BY <1>2
  <2>3. ASSUME NEW q \in Jobs \ lapsed PROVE ~Active(q)' /\ status'[q] # "running"
    <3>1. status[q] = "running" => q \in Running
      BY DEF IInv, Types, ManagerTypes, Named, Owned, Active, Running, Visible, Jobs
    <3>2. status'[q] # "running"
      BY <1>2, <3>1
    <3>3. idOf'[q] \in Ids /\ idOf'[q] = idOf[q]
      BY <1>3 DEF IInv, Types, ManagerTypes
    <3>4. Active(q)' => status[q] = "completed" /\ jobOf[idOf[q]] = q /\ idOf[q] \notin ended
      BY <1>2, <2>1, <2>2, <3>2, <3>3 DEF Active, Jobs
    <3> QED
      BY <1>2, <3>2, <3>3, <3>4 DEF Jobs
  <2> QED
    BY <2>1, <2>2, <2>3
<1>7. Types'
  <2>1. LoopTypes' /\ DiskTypes' /\ HistoryTypes' /\ CountTypes'
    BY TypesStay DEF IInv, Types, NewSession, CancelOwnJobs, manager, pipe, loop, life, disk,
        history, counts
  <2>2. ManagerTypes'
    <3>1. status' \in [Jobs -> {"unborn", "running", "completed", "cancelled"}]
      BY <1>2 DEF IInv, Types, ManagerTypes
    <3>2. jobOf' \in [Ids -> 0..MaxJobs]
      BY <1>2, DeliveryBounds DEF DeliveryBounds, IInv, Types, ManagerTypes
    <3>3. timers' \subseteq Ids
      BY <1>2 DEF IInv, Types, ManagerTypes, IdsOf, Running, Visible
    <3> QED
      BY <1>2, <1>3, <3>1, <3>2, <3>3 DEF IInv, Types, ManagerTypes
  <2>3. PipeTypes'
    BY <1>4, <1>5, <1>3 DEF IInv, Types, PipeTypes
  <2>4. LifeTypes'
    BY <1>1, <1>3 DEF IInv, Types, LifeTypes, Transcripts
  <2> QED
    BY <2>1, <2>2, <2>3, <2>4 DEF Types
<1>8. Named'
  <2>1. \A q \in Jobs : home[q] \in 1..latest => home[q] \in 1..latest'
    BY <1>1, <1>3
  <2>2. \A q \in Jobs : (status'[q] = "unborn" <=> status[q] = "unborn") /\ (status'[q] = "running" => status[q] = "running")
    BY <1>6
  <2>3. \A i \in Ids : jobOf'[i] # 0 => jobOf'[i] <= born /\ idOf[jobOf'[i]] = i
    BY <1>6 DEF IInv, Named
  <2> QED
    BY <1>1, <1>3, <2>1, <2>2, <2>3 DEF IInv, Named
<1>9. Placed'
  <2>1. ASSUME NEW q \in InPipe' PROVE q <= born /\ status'[q] = "completed" /\ told[q] = 0
    BY <1>5, <1>6 DEF IInv, Placed
  <2> QED
    BY <1>4, <1>5, <1>3, <2>1 DEF IInv, Placed
<1>10. Owned'
  <2>1. \A q \in Jobs \ lapsed : q \notin Enqueued'
    <3> SUFFICES ASSUME NEW q \in Jobs \ lapsed, q \in Enqueued' PROVE FALSE
      OBVIOUS
    <3>1. Active(q) /\ status[q] = "completed" /\ idOf[q] \in Ids
      BY <1>4 DEF IInv, Owned, Types, ManagerTypes, Placed, InPipe, Enqueued
    <3> QED
      BY <1>2, <1>4, <3>1 DEF Active, Jobs
  <2> QED
    BY <1>5, <1>6, <1>3, <2>1 DEF Owned
<1>11. Homed'
  <2> SUFFICES ASSUME NEW e \in sinks, e.job \notin lapsed PROVE e.epoch = home[e.job] /\ e.epoch # epoch'
    BY <1>5, <1>3 DEF Homed, Entries
  <2>1. e \in Entries /\ e.job \in InPipe
    BY DEF Entries, InPipe
  <2>2. e.epoch = home[e.job] /\ e.job \in Jobs /\ e.job <= born
    BY <1>5, <2>1 DEF IInv, Homed, Placed
  <2>3. home[e.job] \in 1..latest
    BY <2>2 DEF IInv, Named
  <2> QED
    BY <1>1, <1>3, <2>2, <2>3
<1>12. InBash'
  BY <1>1, <1>3 DEF InBash
<1>13. InWait'
  BY <1>1, <1>2, <1>3 DEF InWait
<1>14. Away'
  BY <1>1, <1>3 DEF Away
<1>15. Kept'
  <2>1. \A q \in Jobs : status'[q] = "completed" => home[q] \in 1..latest
    BY <1>6 DEF IInv, Types, ManagerTypes, Named, Jobs
  <2> QED
    BY <1>1, <1>3, <2>1 DEF Kept
<1>16. Texts'
  BY <1>5, <1>3 DEF IInv, Texts
<1>17. Adopting'
  BY <1>1, <1>3 DEF IInv, Adopting
<1>18. Past'
  <2>1. \A q \in earlier : idOf[q] \in Ids /\ q \in Jobs
    BY DEF IInv, Types, ManagerTypes, HistoryTypes
  <2> QED
    BY <1>5, <1>6, <1>3, <2>1 DEF IInv, Past, BashOf, Jobs
<1>19. Counted'
  BY <1>6, <1>3 DEF IInv, Counted
<1>20. NothingStranded'
  BY <1>2 DEF NothingStranded
<1> QED
  BY <1>7, <1>8, <1>9, <1>10, <1>11, <1>12, <1>13,
     <1>14, <1>15, <1>16, <1>17, <1>18, <1>19, <1>20 DEF IInv

LEMMA StepCrash ==
    ASSUME IInv, Crash
    PROVE  IInv'
<1>1. /\ status' = [r \in Jobs |-> IF status[r] = "running" THEN "cancelled" ELSE status[r]]
      /\ body' = [r \in Jobs |-> FALSE] /\ jobOf' = [i \in Ids |-> 0]
      /\ suppressed' = {} /\ watched' = {} /\ timers' = {}
      /\ deliveries' = <<>> /\ sinks' = {} /\ queue' = <<>> /\ asides' = <<>>
      /\ epoch' = 0 /\ aborting' = "no" /\ flush' = "none" /\ run' = "idle" /\ stopped' = FALSE /\ tool' = NoTool
      /\ adopting' = {} /\ appended' = 0 /\ earlier' = 1..born
      /\ UNCHANGED <<born, idOf, home, latest, entries, told, asked, replayed, missed, lapsed>>
  BY DEF Crash
<1>2. /\ rows' \in [Ids -> Rows]
      /\ \A i \in Ids : rows'[i].text = rows[i].text /\ rows'[i].home = rows[i].home /\ rows'[i].delivered = rows[i].delivered
  BY DEF Crash, IInv, Types, DiskTypes, Rows
<1>3. NoTool.kind = "none" /\ JobsIn(<<>>) = {} /\ Range(<<>>) = {} /\ Once(<<>>)
  BY ToolKinds DEF JobsIn, Range, Once
<1>4. InPipe' = {} /\ Enqueued' = {} /\ Formatting' = {} /\ \A q \in Jobs : ~BashOf(q)' /\ ~Active(q)'
  <2>1. \A q \in Jobs : idOf'[q] \in Ids /\ q # 0
    BY <1>1 DEF IInv, Types, ManagerTypes, Jobs
  <2> QED
    BY <1>1, <1>3, <2>1 DEF InPipe, Enqueued, Formatting, BashOf, Active
<1>5. \A q \in Jobs : status'[q] # "running" /\ (status'[q] = "unborn" <=> status[q] = "unborn")
                      /\ (status'[q] = "completed" <=> status[q] = "completed")
  BY <1>1
<1>6. Types'
  <2>1. ManagerTypes'
    BY <1>1, DeliveryBounds DEF DeliveryBounds, IInv, Types, ManagerTypes
  <2>2. PipeTypes'
    BY <1>1 DEF PipeTypes
  <2>3. LoopTypes'
    BY <1>1, ToolKinds DEF LoopTypes
  <2>4. LifeTypes'
    BY <1>1, DeliveryBounds DEF DeliveryBounds, IInv, Types, LifeTypes
  <2>5. DiskTypes'
    BY <1>1, <1>2, DeliveryBounds DEF DeliveryBounds, IInv, Types, DiskTypes
  <2>6. HistoryTypes'
    <3>1. 1..born \subseteq Jobs
      BY DeliveryBounds DEF DeliveryBounds, IInv, Types, ManagerTypes, Jobs
    <3> QED
      BY <1>1, <3>1 DEF IInv, Types, HistoryTypes
  <2>7. CountTypes'
    BY DeliveryBounds DEF DeliveryBounds, Crash, IInv, Types, CountTypes
  <2> QED
    BY <2>1, <2>2, <2>3, <2>4, <2>5, <2>6, <2>7 DEF Types
<1>7. Named'
  <2>1. \A i \in Ids : jobOf'[i] = 0
    BY <1>1
  <2>2. epoch' <= latest
    BY <1>1 DEF IInv, Types, LifeTypes, Transcripts
  <2> QED
    BY <1>1, <1>5, <2>1, <2>2 DEF IInv, Named
<1>8. Placed'
  BY <1>1, <1>3, <1>4 DEF Placed
<1>9. Owned'
  BY <1>1, <1>3, <1>4, <1>5 DEF Owned
<1>10. Homed'
  BY <1>1, <1>3 DEF Homed, Entries
<1>11. InBash'
  BY <1>1, <1>3 DEF InBash
<1>12. InWait'
  BY <1>1, <1>3 DEF InWait
<1>13. Away'
  BY <1>1 DEF Away
<1>14. Kept'
  <2>1. \A q \in Jobs : status'[q] = "completed" => q \in earlier'
    BY <1>1, <1>5 DEF IInv, Types, ManagerTypes, Named, Jobs
  <2> QED
    BY <2>1 DEF Kept
<1>15. Texts'
  BY <1>1, <1>3, <1>2 DEF IInv, Texts
<1>16. Adopting'
  BY <1>1 DEF Adopting
<1>17. Past'
  <2>1. \A q \in earlier' : q \in Jobs /\ idOf[q] \in Ids /\ q # 0
    BY <1>1, DeliveryBounds DEF DeliveryBounds, IInv, Types, ManagerTypes, Jobs
  <2> QED
    BY <1>1, <1>4, <2>1 DEF Past
<1>18. Counted'
  BY <1>1, <1>5 DEF IInv, Counted, Named
<1>19. NothingStranded'
  BY <1>1 DEF NothingStranded
<1> QED
  BY <1>6, <1>7, <1>8, <1>9, <1>10, <1>11, <1>12,
     <1>13, <1>14, <1>15, <1>16, <1>17, <1>18, <1>19 DEF IInv

LEMMA StepAdopt ==
    ASSUME IInv, NEW t \in Transcripts, Adopt(t)
    PROVE  IInv'
<1>1. /\ run = "idle" /\ aborting = "no" /\ flush = "none" /\ deliveries = <<>> /\ sinks = {} /\ queue = <<>>
      /\ jobOf = [i \in Ids |-> 0] /\ body = [r \in Jobs |-> FALSE] /\ earlier = 1..born /\ asides = <<>> /\ appended = 0
  BY DEF Adopt, IInv, Types, LoopTypes, Away, Adopting
<1>2. /\ epoch' = t /\ t <= latest /\ adopting' = Undelivered(t) /\ t # 0
      /\ UNCHANGED <<born, idOf, home, status, body, jobOf, suppressed, watched, timers, deliveries, sinks, queue, asides,
                     run, stopped, tool, latest, aborting, flush, rows, entries, appended,
                     told, asked, replayed, missed, lapsed, earlier>>
  BY DEF Adopt, manager, pipe, loop, history, Transcripts
<1>3. \A q \in Jobs : (Active(q)' <=> Active(q)) /\ ~Active(q)
  <2>1. \A q \in Jobs : idOf[q] \in Ids /\ q # 0
    BY DEF IInv, Types, ManagerTypes, Jobs
  <2> QED
    BY <1>1, <1>2, <2>1 DEF Active
<1>4. Types'
  <2>1. ManagerTypes' /\ PipeTypes' /\ LoopTypes' /\ HistoryTypes' /\ CountTypes'
    BY TypesStay DEF IInv, Types, Adopt, manager, pipe, loop, life, disk, history, counts
  <2>2. LifeTypes'
    BY <1>2 DEF IInv, Types, LifeTypes, Transcripts
  <2>3. DiskTypes'
    BY <1>2 DEF IInv, Types, DiskTypes, Undelivered
  <2> QED
    BY <2>1, <2>2, <2>3 DEF Types
<1>5. Placed' /\ InBash' /\ InWait' /\ Texts' /\ Past' /\ Counted' /\ NothingStranded'
  BY Stays DEF IInv, Adopt, manager, pipe, loop, life, disk, history, counts
<1>6. Named'
  BY <1>1, <1>2 DEF IInv, Named
<1>7. Owned'
  BY <1>1, <1>2, <1>3 DEF IInv, Owned, Enqueued, JobsIn
<1>8. Homed'
  BY <1>1, <1>2 DEF Homed, Entries, Range
<1>9. Away'
  BY <1>1, <1>2 DEF Away
<1>10. Kept'
  <2>1. \A q \in Jobs : status[q] = "completed" => q \in earlier
    BY <1>1 DEF IInv, Types, ManagerTypes, Named, Jobs
  <2> QED
    BY <1>2, <2>1 DEF Kept
<1>11. Adopting'
  BY <1>1, <1>2 DEF Adopting, Undelivered
<1> QED
  BY <1>4, <1>5, <1>6, <1>7, <1>8, <1>9, <1>10, <1>11 DEF IInv

LEMMA StepAppendResult ==
    ASSUME IInv, NEW i \in Ids, AppendResult(i)
    PROVE  IInv'
<1>1. /\ i \in adopting /\ rows[i].home = epoch /\ ~rows[i].delivered /\ epoch \in Transcripts /\ earlier = 1..born
  BY DEF AppendResult, IInv, Adopting, Away, Types, LifeTypes, Transcripts
<1>2. /\ entries' = [entries EXCEPT ![epoch] = entries[epoch] \cup {i}] /\ appended' = i
      /\ replayed' = [r \in Jobs |-> IF r = rows[i].text /\ i \notin entries[epoch]
                                     THEN replayed[r] + 1 ELSE replayed[r]]
      /\ UNCHANGED <<born, idOf, home, status, body, jobOf, suppressed, watched, timers, deliveries, sinks, queue, asides,
                     run, stopped, tool, epoch, latest, aborting, flush, rows, adopting,
                     told, asked, missed, lapsed, earlier>>
  BY DEF AppendResult, manager, pipe, loop, life
<1>3. rows[i].text # 0 =>
          /\ idOf[rows[i].text] = i /\ rows[i].text <= born /\ told[rows[i].text] = 0
          /\ replayed[rows[i].text] > 0 => i \in entries[epoch]
  BY <1>1 DEF IInv, Texts
<1>4. Types'
  <2>1. ManagerTypes' /\ PipeTypes' /\ LoopTypes' /\ LifeTypes' /\ CountTypes'
    BY TypesStay DEF IInv, Types, AppendResult, manager, pipe, loop, life, disk, history, counts
  <2>2. DiskTypes'
    BY <1>2, <1>1 DEF IInv, Types, DiskTypes, Ids
  <2>3. HistoryTypes'
    BY <1>2 DEF IInv, Types, HistoryTypes
  <2> QED
    BY <2>1, <2>2, <2>3 DEF Types
<1>5. Named' /\ Placed' /\ Owned' /\ Homed' /\ InBash' /\ InWait' /\ Away' /\ Kept' /\ Past' /\ NothingStranded'
  BY Stays DEF IInv, AppendResult, manager, pipe, loop, life, disk, history, counts
<1>6. Texts'
  <2> SUFFICES ASSUME NEW j \in Ids, rows[j].text # 0, replayed'[rows[j].text] > 0
               PROVE  rows[j].delivered \/ j \in entries'[rows[j].home]
    BY <1>2 DEF IInv, Texts
  <2>1. rows[j].text \in Jobs /\ idOf[rows[j].text] = j
    BY DeliveryBounds DEF DeliveryBounds, IInv, Types, DiskTypes, Rows, Jobs, Texts
  <2>2. CASE rows[j].text = rows[i].text
    BY <1>1, <1>2, <1>3, <2>1, <2>2 DEF IInv, Types, DiskTypes
  <2>3. CASE rows[j].text # rows[i].text
    <3>1. rows[j].delivered \/ j \in entries[rows[j].home]
      BY <1>2, <2>1, <2>3 DEF IInv, Texts
    <3> QED
      BY <1>1, <1>2, <3>1 DEF IInv, Types, DiskTypes
  <2> QED
    BY <2>2, <2>3
<1>7. Adopting'
  BY <1>1, <1>2 DEF IInv, Adopting
<1>8. Counted'
  <2> SUFFICES ASSUME NEW q \in Jobs PROVE replayed'[q] <= 1 /\ (replayed'[q] > 0 => told[q] = 0 /\ q \in earlier)
    BY <1>2 DEF IInv, Counted
  <2>1. CASE q = rows[i].text /\ i \notin entries[epoch]
    <3>1. replayed[q] = 0 /\ told[q] = 0 /\ q \in 1..born
      BY <1>3, <2>1 DEF IInv, Types, HistoryTypes, ManagerTypes, Jobs
    <3> QED
      BY <1>1, <1>2, <2>1, <3>1
  <2>2. CASE ~(q = rows[i].text /\ i \notin entries[epoch])
    BY <1>2, <2>2 DEF IInv, Counted
  <2> QED
    BY <2>1, <2>2
<1> QED
  BY <1>4, <1>5, <1>6, <1>7, <1>8 DEF IInv

LEMMA StepMarkResult ==
    ASSUME IInv, MarkResult
    PROVE  IInv'
<1>1. appended \in adopting /\ appended \in Ids /\ rows \in [Ids -> Rows]
  BY DEF MarkResult, IInv, Types, DiskTypes, Adopting
<1>2. Wrote(appended) /\ rows'[appended].text = rows[appended].text /\ rows'[appended].delivered
  BY <1>1, Marks DEF MarkResult
<1>3. /\ adopting' = adopting \ {appended} /\ appended' = 0
      /\ UNCHANGED <<born, idOf, home, status, body, jobOf, suppressed, watched, timers, deliveries, sinks, queue, asides,
                     run, stopped, tool, epoch, latest, aborting, flush, entries,
                     told, asked, replayed, missed, lapsed, earlier>>
  BY DEF MarkResult, manager, pipe, loop, life, history
<1>4. Types'
  <2>1. ManagerTypes' /\ PipeTypes' /\ LoopTypes' /\ LifeTypes' /\ HistoryTypes' /\ CountTypes'
    BY TypesStay DEF IInv, Types, MarkResult, manager, pipe, loop, life, disk, history, counts
  <2>2. DiskTypes'
    BY <1>2, <1>3, DeliveryBounds DEF DeliveryBounds, IInv, Types, DiskTypes, Wrote
  <2> QED
    BY <2>1, <2>2 DEF Types
<1>5. Named' /\ Placed' /\ Owned' /\ Homed' /\ InBash' /\ InWait' /\ Kept' /\ Past' /\ Counted' /\ NothingStranded'
  BY Stays DEF IInv, MarkResult, manager, pipe, loop, life, disk, history, counts
<1>6. Away'
  BY <1>3 DEF IInv, Away
<1>7. Texts'
  BY <1>1, <1>2, <1>3 DEF IInv, Texts, Wrote
<1>8. Adopting'
  BY <1>1, <1>2, <1>3 DEF IInv, Types, DiskTypes, Adopting, Wrote
<1> QED
  BY <1>4, <1>5, <1>6, <1>7, <1>8 DEF IInv

LEMMA StepPrompt ==
    ASSUME IInv, Prompt
    PROVE  IInv'
<1>1. Types'
  <2>1. ManagerTypes' /\ PipeTypes' /\ LifeTypes' /\ DiskTypes' /\ HistoryTypes' /\ CountTypes'
    BY TypesStay DEF IInv, Types, Prompt, manager, pipe, loop, life, disk, history, counts
  <2>2. LoopTypes'
    BY DEF Prompt, IInv, Types, LoopTypes, pipe
  <2> QED
    BY <2>1, <2>2 DEF Types
<1>2. Named' /\ Placed' /\ Owned' /\ Homed' /\ InBash' /\ InWait' /\ Kept' /\ Texts' /\ Adopting' /\ Past' /\ Counted'
  BY Stays DEF IInv, Prompt, manager, pipe, loop, life, disk, history, counts
<1>3. Away'
  BY DEF Prompt, IInv, Types, LifeTypes, Away, life, disk
<1>4. NothingStranded'
  BY DEF Prompt, NothingStranded, Streaming
<1> QED
  BY <1>1, <1>2, <1>3, <1>4 DEF IInv

LEMMA StepModelStops ==
    ASSUME IInv, ModelStops
    PROVE  IInv'
<1>1. Types'
  <2>1. ManagerTypes' /\ PipeTypes' /\ LifeTypes' /\ DiskTypes' /\ HistoryTypes' /\ CountTypes'
    BY TypesStay DEF IInv, Types, ModelStops, manager, pipe, loop, life, disk, history, counts
  <2>2. LoopTypes'
    BY DEF ModelStops, IInv, Types, LoopTypes, pipe
  <2> QED
    BY <2>1, <2>2 DEF Types
<1>2. Named' /\ Placed' /\ Owned' /\ Homed' /\ InBash' /\ InWait' /\ Kept' /\ Texts' /\ Adopting' /\ Past' /\ Counted'
  BY Stays DEF IInv, ModelStops, manager, pipe, loop, life, disk, history, counts
<1>3. Away'
  BY DEF ModelStops, IInv, Away, manager, pipe, life, disk, history
<1>4. NothingStranded'
  BY DEF ModelStops, NothingStranded, Streaming
<1> QED
  BY <1>1, <1>2, <1>3, <1>4 DEF IInv

LEMMA StepEndRun ==
    ASSUME IInv, EndRun
    PROVE  IInv'
<1>1. Types'
  <2>1. ManagerTypes' /\ PipeTypes' /\ DiskTypes' /\ HistoryTypes' /\ CountTypes'
    BY TypesStay DEF IInv, Types, EndRun, manager, pipe, loop, life, disk, history, counts
  <2>2. LoopTypes'
    BY DEF EndRun, IInv, Types, LoopTypes, pipe
  <2>3. LifeTypes'
    BY DEF EndRun, ArmFor, IInv, Types, LifeTypes
  <2> QED
    BY <2>1, <2>2, <2>3 DEF Types
<1>2. Named' /\ Placed' /\ Owned' /\ Homed' /\ InBash' /\ InWait' /\ Kept' /\ Texts' /\ Adopting' /\ Past' /\ Counted'
  BY Stays DEF IInv, EndRun, manager, pipe, loop, life, disk, history, counts
<1>3. Away'
  BY DEF EndRun, IInv, Away, disk
<1>4. NothingStranded'
  BY DEF EndRun, ArmFor, IInv, Types, LifeTypes, NothingStranded, Streaming, pipe
<1> QED
  BY <1>1, <1>2, <1>3, <1>4 DEF IInv

LEMMA StepSkipFlush ==
    ASSUME IInv, SkipFlush
    PROVE  IInv'
<1>1. Types'
  <2>1. ManagerTypes' /\ PipeTypes' /\ LoopTypes' /\ DiskTypes' /\ HistoryTypes' /\ CountTypes'
    BY TypesStay DEF IInv, Types, SkipFlush, manager, pipe, loop, life, disk, history, counts
  <2>2. LifeTypes'
    BY DEF SkipFlush, IInv, Types, LifeTypes
  <2> QED
    BY <2>1, <2>2 DEF Types
<1>2. Named' /\ Placed' /\ Owned' /\ Homed' /\ InBash' /\ InWait' /\ Kept' /\ Texts' /\ Adopting' /\ Past' /\ Counted'
  BY Stays DEF IInv, SkipFlush, manager, pipe, loop, life, disk, history, counts
<1>3. Away'
  BY DEF SkipFlush, IInv, Away, manager, pipe, loop, life, disk, history
<1>4. NothingStranded'
  BY DEF SkipFlush, IInv, Types, LifeTypes, NothingStranded, Streaming, pipe, loop
<1> QED
  BY <1>1, <1>2, <1>3, <1>4 DEF IInv

LEMMA StepAbortEnds ==
    ASSUME IInv, AbortEnds
    PROVE  IInv'
<1>1. Types'
  <2>1. ManagerTypes' /\ PipeTypes' /\ LoopTypes' /\ DiskTypes' /\ HistoryTypes' /\ CountTypes'
    BY TypesStay DEF IInv, Types, AbortEnds, manager, pipe, loop, life, disk, history, counts
  <2>2. LifeTypes'
    BY DEF AbortEnds, ArmFor, IInv, Types, LifeTypes
  <2> QED
    BY <2>1, <2>2 DEF Types
<1>2. Placed' /\ Owned' /\ Homed' /\ InBash' /\ InWait' /\ Kept' /\ Texts' /\ Adopting' /\ Past' /\ Counted'
  BY Stays DEF IInv, AbortEnds, manager, pipe, loop, life, disk, history, counts
<1>3. Named'
  BY DEF AbortEnds, IInv, Named, manager, history
<1>4. Away'
  BY DEF AbortEnds, IInv, Away, disk
<1>5. NothingStranded'
  BY DEF AbortEnds, ArmFor, IInv, Types, LifeTypes, NothingStranded, pipe
<1> QED
  BY <1>1, <1>2, <1>3, <1>4, <1>5 DEF IInv

LEMMA StepBashWakes ==
    ASSUME IInv, BashWakes
    PROVE  IInv'
<1>1. SameTool
  BY Woken DEF BashWakes, IInv, Types, LoopTypes
<1>2. Types'
  <2>1. ManagerTypes' /\ PipeTypes' /\ LifeTypes' /\ DiskTypes' /\ HistoryTypes' /\ CountTypes'
    BY TypesStay DEF IInv, Types, BashWakes, manager, pipe, loop, life, disk, history, counts
  <2>2. LoopTypes'
    BY <1>1, ToolKinds DEF IInv, Types, LoopTypes, SameTool, BashWakes, pipe
  <2> QED
    BY <2>1, <2>2 DEF Types
<1>3. Named' /\ Placed' /\ Homed' /\ Away' /\ Texts' /\ Adopting' /\ Counted' /\ NothingStranded'
  BY Stays DEF IInv, BashWakes, manager, pipe, loop, life, disk, history, counts
<1>4. Owned' /\ InBash' /\ InWait' /\ Kept' /\ Past'
  BY <1>1, SameToolStays DEF IInv, BashWakes, manager, pipe, loop, life, disk, history, counts
<1> QED
  BY <1>2, <1>3, <1>4 DEF IInv

LEMMA StepHubTimeout ==
    ASSUME IInv, HubTimeout
    PROVE  IInv'
<1>1. SameTool
  BY Woken DEF HubTimeout, IInv, Types, LoopTypes
<1>2. Types'
  <2>1. ManagerTypes' /\ PipeTypes' /\ LifeTypes' /\ DiskTypes' /\ HistoryTypes' /\ CountTypes'
    BY TypesStay DEF IInv, Types, HubTimeout, manager, pipe, loop, life, disk, history, counts
  <2>2. LoopTypes'
    BY <1>1, ToolKinds DEF IInv, Types, LoopTypes, SameTool, HubTimeout, pipe
  <2> QED
    BY <2>1, <2>2 DEF Types
<1>3. Named' /\ Placed' /\ Homed' /\ Away' /\ Texts' /\ Adopting' /\ Counted' /\ NothingStranded'
  BY Stays DEF IInv, HubTimeout, manager, pipe, loop, life, disk, history, counts
<1>4. Owned' /\ InBash' /\ InWait' /\ Kept' /\ Past'
  BY <1>1, SameToolStays DEF IInv, HubTimeout, manager, pipe, loop, life, disk, history,
      counts
<1> QED
  BY <1>2, <1>3, <1>4 DEF IInv

LEMMA StepAbort ==
    ASSUME IInv, NEW k \in {"stop", "new"}, Abort(k)
    PROVE  IInv'
<1>1. SameTool
  BY Woken DEF Abort, IInv, Types, LoopTypes
<1>2. Types'
  <2>1. ManagerTypes' /\ PipeTypes' /\ DiskTypes' /\ HistoryTypes'
    BY TypesStay DEF IInv, Types, Abort, manager, pipe, loop, life, disk, history, counts
  <2>2. LoopTypes'
    BY <1>1, ToolKinds DEF IInv, Types, LoopTypes, SameTool, Abort, Streaming, pipe
  <2>3. LifeTypes'
    BY DEF Abort, IInv, Types, LifeTypes
  <2>4. CountTypes'
    BY DeliveryBounds DEF DeliveryBounds, Abort, IInv, Types, CountTypes
  <2> QED
    BY <2>1, <2>2, <2>3, <2>4 DEF Types
<1>3. Placed' /\ Homed' /\ Texts' /\ Adopting' /\ Counted'
  BY Stays DEF IInv, Abort, manager, pipe, loop, life, disk, history, counts
<1>4. Owned' /\ InBash' /\ InWait' /\ Kept' /\ Past'
  BY <1>1, SameToolStays DEF IInv, Abort, manager, pipe, loop, life, disk, history, counts
<1>5. Named'
  BY DeliveryBounds DEF DeliveryBounds, Abort, IInv, Types, LifeTypes, Named, Transcripts, manager, history
<1>6. Away'
  BY DEF Abort, IInv, Away, disk
<1>7. NothingStranded'
  BY DEF Abort, NothingStranded
<1> QED
  BY <1>2, <1>3, <1>4, <1>5, <1>6, <1>7 DEF IInv

-----------------------------------------------------------------------------
(* The invariant holds.                                                    *)

LEMMA Starts ==
    ASSUME Init
    PROVE  IInv
<1>1. MaxJobs \in Nat /\ MaxTranscripts \in Nat \ {0} /\ MaxMessages \in Nat /\ MaxAborts \in Nat /\ MaxCrashes \in Nat
  BY DeliveryBounds DEF DeliveryBounds
<1>2. NoTool.kind = "none" /\ NoTool \in Tools
  BY ToolKinds
<1>3. JobsIn(<<>>) = {} /\ Range(<<>>) = {} /\ Once(<<>>)
  BY DEF JobsIn, Range, Once
<1>4. Types
  <2>1. ManagerTypes
    BY <1>1 DEF Init, ManagerTypes, Jobs, Ids
  <2>2. PipeTypes /\ HistoryTypes /\ CountTypes
    BY <1>1 DEF Init, PipeTypes, HistoryTypes, CountTypes
  <2>3. LoopTypes
    BY <1>2 DEF Init, LoopTypes
  <2>4. LifeTypes
    BY <1>1 DEF Init, LifeTypes, Transcripts
  <2>5. DiskTypes
    BY <1>1 DEF Init, DiskTypes, Rows, NoRow
  <2> QED
    BY <2>1, <2>2, <2>3, <2>4, <2>5 DEF Types
<1>5. InPipe = {} /\ Enqueued = {} /\ Formatting = {} /\ Entries = {}
  BY <1>3 DEF Init, InPipe, Enqueued, Formatting, Entries
<1>6. \A q \in Jobs : q > 0 /\ ~Active(q) /\ ~BashOf(q)
  BY <1>2 DEF Init, Active, BashOf, Jobs
<1>7. Named /\ Owned /\ Homed /\ InBash /\ InWait /\ Away
  <2>1. Named
    <3>1. \A q \in Jobs : q > born /\ status[q] = "unborn"
      BY <1>6 DEF Init
    <3>2. \A q \in Jobs : ~(q <= born)
      BY DEF Init, Jobs
    <3>3. \A i \in Ids : jobOf[i] = 0
      BY DEF Init
    <3>4. asked \cup earlier \subseteq 1..born /\ epoch <= latest /\ aborting # "new"
      BY DEF Init
    <3> QED
      BY <3>1, <3>2, <3>3, <3>4 DEF Named
  <2>2. Owned
    BY <1>3, <1>5, <1>6 DEF Init, Owned
  <2>3. Homed /\ InBash /\ InWait
    BY <1>2, <1>5 DEF Init, Homed, InBash, InWait
  <2>4. Away
    BY DEF Init, Away
  <2> QED
    BY <2>1, <2>2, <2>3, <2>4
<1>8. Placed /\ Kept /\ Past /\ Counted
  BY <1>3, <1>5 DEF Init, Placed, Kept, Past, Counted
<1>9. Texts /\ Adopting /\ NothingStranded
  BY DEF Init, Texts, NoRow, Adopting, NothingStranded
<1> QED
  BY <1>4, <1>7, <1>8, <1>9 DEF IInv

LEMMA Steps ==
    ASSUME IInv, [Next]_vars
    PROVE  IInv'
<1>1. CASE UNCHANGED vars
  <2>1. Types'
    BY <1>1, TypesStay DEF vars, manager, pipe, loop, life, disk, history, counts, IInv, Types
  <2> QED
    BY <1>1, <2>1, Stays DEF vars, manager, pipe, loop, life, disk, history, IInv
<1>2. CASE HandleJobs
  BY <1>2, StepJobSettles, StepJobUnwinds, StepEvict, StepDeliver, StepSinkReturns DEF HandleJobs
<1>3. CASE Prompt \/ RunLoop
  BY <1>3, StepPrompt, StepIdleFlush, StepDrain, StepCommit, StepModelStops, StepEndRun DEF RunLoop
<1>4. CASE CallTool
  BY <1>4, StepStartBackground, StepStartForeground, StepHubJobs, StepHubWait, StepHubCancel DEF CallTool
<1>5. CASE WaitInTool
  BY <1>5, StepBashWakes, StepBashReturns, StepBashBackgrounds, StepBashAborts,
     StepHubMessage, StepHubTimeout, StepHubUnwatch, StepHubReturns DEF WaitInTool
<1>6. CASE (\E k \in {"stop", "new"} : Abort(k)) \/ EndSession \/ Crash
  BY <1>6, StepAbort, StepSkipFlush, StepAbortEnds, StepNewSession, StepCrash DEF EndSession
<1>7. CASE Recover
  BY <1>7, StepAdopt, StepAppendResult, StepMarkResult DEF Recover
<1> QED
  BY <1>1, <1>2, <1>3, <1>4, <1>5, <1>6, <1>7 DEF Next

\* The inductive invariant, from which the rest follows.
THEOREM Invariance == Spec => []IInv
<1>1. Init => IInv
  BY Starts
<1>2. IInv /\ [Next]_vars => IInv'
  BY Steps
<1> QED
  BY <1>1, <1>2, PTL DEF Spec

\* The state keeps its types, in whatever order tools, timers, aborts, deaths
\* and adoptions come.
THEOREM TypeCorrect == Spec => []TypeOK
<1>1. IInv => TypeOK
  BY DEF IInv, Types, TypeOK, ManagerTypes, PipeTypes, LoopTypes, LifeTypes, DiskTypes, Rows,
         HistoryTypes, CountTypes
<1> QED
  BY <1>1, Invariance, PTL

\* A finished job of the transcript on screen is known to the model or its
\* result is on its way, unless a message won its wait or the id was disturbed.
THEOREM ForgetsNothing == Spec => []NothingForgotten
<1>1. IInv => NothingForgotten
  BY DEF IInv, Kept, NothingForgotten, UnderWay, BashOf, WaitOf
<1> QED
  BY <1>1, Invariance, PTL

\* Results that wait while no run would drain them have a flush coming.
THEOREM StrandsNothing == Spec => []NothingStranded
<1>1. IInv => NothingStranded
  BY DEF IInv
<1> QED
  BY <1>1, Invariance, PTL

\* A result is injected at most once or replayed at most once, whenever the
\* daemon dies.
THEOREM ReplaysOnce == Spec => []ReplayedOnce
<1>1. IInv => ReplayedOnce
  BY DEF IInv, Types, HistoryTypes, Counted, ReplayedOnce
<1> QED
  BY <1>1, Invariance, PTL

\* Only the flush of an idle session and the top of a loop's turn inject.
Injecting == IdleFlush \/ Commit

LEMMA OthersInjectNothing ==
    ASSUME [Next]_vars, ~Injecting
    PROVE  told' = told
<1>1. CASE UNCHANGED vars
  BY <1>1 DEF vars, history
<1>2. CASE HandleJobs
  BY <1>2 DEF HandleJobs, JobSettles, JobUnwinds, Evict, Deliver, SinkReturns, history
<1>3. CASE Prompt \/ RunLoop
  BY <1>3 DEF RunLoop, Injecting, Prompt, Drain, ModelStops, EndRun, history
<1>4. CASE CallTool
  BY <1>4 DEF CallTool, StartBackground, StartForeground, HubJobs, HubWait, HubCancel, history
<1>5. CASE WaitInTool
  BY <1>5 DEF WaitInTool, BashWakes, BashReturns, BashBackgrounds, BashAborts,
              HubMessage, HubTimeout, HubUnwatch, HubReturns, history
<1>6. CASE (\E k \in {"stop", "new"} : Abort(k)) \/ EndSession \/ Crash
  BY <1>6 DEF Abort, EndSession, SkipFlush, AbortEnds, NewSession, Crash, history
<1>7. CASE Recover
  BY <1>7 DEF Recover, Adopt, AppendResult, MarkResult, history
<1> QED
  BY <1>1, <1>2, <1>3, <1>4, <1>5, <1>6, <1>7 DEF Next

\* What is injected is of this transcript and no tool has returned it.
LEMMA Injected ==
    ASSUME IInv, Injecting, NEW r \in Jobs \ lapsed, told'[r] # told[r]
    PROVE  ~Known(r) /\ home[r] = epoch /\ told'[r] = told[r] + 1
<1>1. /\ JobsIn(Survivors) = {e.job : e \in Range(queue) \cap Fresh}
      /\ JobsIn(queue) = {e.job : e \in Range(queue)}
  BY OnlySelects, Ranges DEF IInv, Types, PipeTypes, Survivors
<1>2. CASE IdleFlush
  <2>1. r \in JobsIn(Survivors) /\ told'[r] = told[r] + 1
    BY <1>2 DEF IdleFlush, Told
  <2>2. PICK e \in Range(queue) \cap Fresh : e.job = r
    BY <1>1, <2>1
  <2>3. r \in InPipe /\ e \in Entries
    BY <1>1, <2>2 DEF InPipe, Entries
  <2>4. e.epoch = home[r] /\ e.epoch = epoch /\ Active(r) /\ idOf[r] \notin suppressed
    BY <2>2, <2>3 DEF IInv, Homed, Fresh, Suppressed
  <2>5. r \notin asked /\ told[r] = 0
    BY <2>3, <2>4 DEF IInv, Owned, Placed
  <2> QED
    BY <2>1, <2>4, <2>5 DEF Known
<1>3. CASE Commit
  <2>1. r \in JobsIn(asides) /\ told'[r] = told[r] + 1
    BY <1>3 DEF Commit, Told
  <2>2. r \in InPipe
    BY <2>1 DEF InPipe
  <2> QED
    BY <2>1, <2>2 DEF IInv, Owned, Placed, Known
<1> QED
  BY <1>2, <1>3 DEF Injecting

\* Steps never take a job from lapsed.
LEMMA LapsedStays ==
    ASSUME IInv, [Next]_vars
    PROVE  lapsed \subseteq lapsed'
<1>1. CASE UNCHANGED vars
  BY <1>1 DEF vars, history
<1>2. CASE HandleJobs
  BY <1>2 DEF HandleJobs, JobSettles, JobUnwinds, Evict, Deliver, SinkReturns, history
<1>3. CASE Prompt \/ RunLoop
  BY <1>3 DEF RunLoop, IdleFlush, Prompt, Drain, Commit, ModelStops, EndRun, history
<1>4. CASE CallTool
  BY <1>4 DEF CallTool, StartBackground, StartForeground, Register, HubJobs, HubWait, HubCancel, history
<1>5. CASE WaitInTool
  BY <1>5 DEF WaitInTool, BashWakes, BashReturns, BashBackgrounds, BashAborts,
              HubMessage, HubTimeout, HubUnwatch, HubReturns, history
<1>6. CASE (\E k \in {"stop", "new"} : Abort(k)) \/ EndSession \/ Crash
  BY <1>6 DEF Abort, EndSession, SkipFlush, AbortEnds, NewSession, Crash, history
<1>7. CASE Recover
  BY <1>7 DEF Recover, Adopt, AppendResult, MarkResult, history
<1> QED
  BY <1>1, <1>2, <1>3, <1>4, <1>5, <1>6, <1>7 DEF Next

\* What the model was told, by an injected message or by a tool's answer, is
\* not injected (again).
THEOREM InjectsOnce == Spec => InjectedOnce
<1>1. IInv /\ [Next]_vars => [\A r \in Jobs \ lapsed' : Known(r) => told'[r] = told[r]]_vars
  BY OthersInjectNothing, Injected, LapsedStays
<1> QED
  BY <1>1, Invariance, PTL DEF Spec, InjectedOnce

\* A result is injected only in the transcript that started the job.
THEOREM OldResultsStayOut == Spec => OldResultStaysOut
<1>1. IInv /\ [Next]_vars => [\A r \in Jobs \ lapsed' : told'[r] > told[r] => home[r] = epoch]_vars
  <2> SUFFICES ASSUME IInv, [Next]_vars, NEW r \in Jobs \ lapsed', told'[r] > told[r] PROVE home[r] = epoch
    OBVIOUS
  <2>1. r \in Jobs \ lapsed /\ told[r] \in Nat
    BY LapsedStays DEF IInv, Types, HistoryTypes
  <2>2. told' # told /\ told'[r] # told[r]
    <3>1. told[r] # told'[r]
      BY <2>1
    <3> QED
      BY <3>1
  <2> QED
    BY <2>1, <2>2, OthersInjectNothing, Injected
<1> QED
  BY <1>1, Invariance, PTL DEF Spec, OldResultStaysOut

\* The session is idle and no result of a job will wake it.
Quiet == ~Streaming /\ ~PendingWake

LEMMA QuietStays ==
    ASSUME Quiet, UNCHANGED <<born, idOf, jobOf, status, suppressed, watched, deliveries, sinks, queue>>
    PROVE  ~PendingWake'
  BY DEF Quiet, PendingWake, Running, Visible, Suppressed

LEMMA QuietMeans ==
    ASSUME IInv, Quiet
    PROVE  /\ run = "idle" /\ tool = NoTool /\ watched = {} /\ queue = <<>>
           /\ \A r \in Running : idOf[r] \in suppressed
           /\ \A r \in Enqueued \cup Formatting : idOf[r] \in suppressed
<1>1. run = "idle" /\ tool = NoTool /\ watched = {} /\ queue = <<>>
  BY ToolKinds DEF Quiet, Streaming, PendingWake, IInv, Types, LoopTypes, InWait
<1>2. \A r \in Running : idOf[r] \in suppressed
  BY <1>1 DEF Quiet, PendingWake, Suppressed
<1>3. \A r \in Enqueued \cup Formatting : idOf[r] \in suppressed
  BY <1>1 DEF Quiet, PendingWake, Suppressed, Enqueued, Formatting, Range
<1> QED
  BY <1>1, <1>2, <1>3

\* Nothing else is a wake.
LEMMA NoWake ==
    ASSUME deliveries \in Seq(Jobs), queue = <<>>,
           \A r \in Running : Suppressed(idOf[r]),
           \A r \in Enqueued \cup Formatting : Suppressed(idOf[r])
    PROVE  ~PendingWake
  BY DEF PendingWake, Enqueued, Formatting, Range

LEMMA QuietStep ==
    ASSUME IInv, [Next]_vars, Quiet, lapsed' = {}, epoch' = epoch
    PROVE  told' = told /\ (~Streaming' => ~PendingWake')
<1>1. /\ run = "idle" /\ tool = NoTool /\ NoTool.kind = "none" /\ watched = {} /\ queue = <<>>
      /\ \A r \in Running : idOf[r] \in suppressed
      /\ \A r \in Enqueued \cup Formatting : idOf[r] \in suppressed
  BY QuietMeans, ToolKinds
<1>2. lapsed = {} /\ IInv'
  BY LapsedStays, Steps
<1>3. told' = told
  <2>1. CASE IdleFlush
    <3>1. JobsIn(Survivors) = {}
      <4>1. JobsIn(Survivors) = {e.job : e \in Range(queue) \cap Fresh}
        BY OnlySelects, Ranges DEF IInv, Types, PipeTypes, Survivors
      <4>2. Range(queue) = {}
        BY <1>1, EntriesPlaced DEF IInv, Types
      <4> QED
        BY <4>1, <4>2
    <3> QED
      BY <2>1, <3>1 DEF IdleFlush, Told, IInv, Types, HistoryTypes
  <2>2. ~Commit
    BY <1>1 DEF Commit
  <2> QED
    BY <2>1, <2>2, OthersInjectNothing DEF Injecting
<1> SUFFICES ASSUME ~Streaming' PROVE ~PendingWake'
  BY <1>3
<1>4. CASE \E r \in Jobs : JobSettles(r)
  <2>1. PICK r \in Jobs : JobSettles(r)
    BY <1>4
  <2>2. r \in Running
    BY <1>2, <2>1 DEF JobSettles, IInv, Owned, Active, Running, Visible
  <2>3. deliveries' = deliveries
    BY <1>1, <2>1, <2>2 DEF JobSettles, EnqueueDelivery, Suppressed
  <2>4. Running' \subseteq Running
    BY <2>1 DEF JobSettles, Running, Visible, IInv, Types, ManagerTypes
  <2> QED
    BY <2>1, <2>3, <2>4 DEF JobSettles, Quiet, PendingWake, Suppressed
<1>5. CASE \E r \in Jobs : JobUnwinds(r)
  BY <1>5, QuietStays DEF JobUnwinds, pipe
<1>6. CASE \E i \in Ids : Evict(i)
  <2>1. PICK i \in Ids : Evict(i)
    BY <1>6
  <2>2. /\ suppressed' = suppressed \ {i} /\ jobOf' = [jobOf EXCEPT ![i] = 0]
        /\ UNCHANGED <<idOf, born, status, deliveries, sinks, queue>>
    BY <2>1 DEF Evict, pipe
  <2>3. \A r \in 1..born : idOf[r] = i => r \notin InPipe
    BY <1>2, <2>1 DEF Evict
  <2>4. \A r \in Enqueued \cup Formatting : idOf[r] # i
    <3> SUFFICES ASSUME NEW r \in Enqueued \cup Formatting PROVE r \in 1..born /\ r \in InPipe
      BY <2>3
    <3>1. r \in InPipe
      BY DEF Enqueued, Formatting, InPipe
    <3>2. r \in Jobs /\ r <= born
      BY <3>1, EntriesPlaced DEF IInv, Types, Placed
    <3> QED
      BY <3>1, <3>2 DEF IInv, Types, ManagerTypes, Jobs
  <2>5. \A r \in Running' : r \in Running /\ idOf[r] # i
    BY <2>2 DEF Running, Visible, IInv, Types, ManagerTypes, Jobs
  <2>6. (\A r \in Running : Suppressed(idOf[r]))'
    BY <1>1, <2>2, <2>5 DEF Suppressed
  <2>7. (\A r \in Enqueued \cup Formatting : Suppressed(idOf[r]))'
    BY <1>1, <2>2, <2>4 DEF Suppressed, Enqueued, Formatting
  <2> QED
    BY <1>1, <1>2, <2>2, <2>6, <2>7 DEF PendingWake, IInv, Types, PipeTypes, Enqueued, Formatting, Range
<1>7. CASE \E k \in 1..MaxJobs : Deliver(k)
  <2>1. PICK k \in 1..MaxJobs : Deliver(k)
    BY <1>7
  <2>2. deliveries \in Seq(Jobs) /\ Once(deliveries) /\ k \in DOMAIN deliveries
    BY <2>1 DEF Deliver, IInv, Types, PipeTypes, Placed
  <2>3. Enqueued' \subseteq Enqueued /\ deliveries[k] \in Enqueued
    <3>1. Range(deliveries') = Range(deliveries) \ {deliveries[k]}
      BY <2>1, <2>2, RangeRemove DEF Deliver
    <3>2. deliveries[k] \in Range(deliveries)
      BY <2>2 DEF Range
    <3> QED
      BY <3>1, <3>2 DEF Enqueued
  <2>4. sinks' = sinks
    BY <1>1, <2>1, <2>3 DEF Deliver, Suppressed
  <2>5. UNCHANGED <<born, idOf, jobOf, status, suppressed, watched, queue>>
    BY <2>1 DEF Deliver, manager
  <2>6. (\A r \in Running : Suppressed(idOf[r]))'
    BY <1>1, <2>5 DEF Suppressed, Running, Visible
  <2>7. (\A r \in Enqueued \cup Formatting : Suppressed(idOf[r]))'
    BY <1>1, <2>3, <2>4, <2>5 DEF Suppressed, Formatting
  <2> QED
    BY <1>1, <1>2, <2>5, <2>6, <2>7 DEF PendingWake, IInv, Types, PipeTypes, Enqueued, Formatting, Range
<1>8. CASE \E s \in sinks : SinkReturns(s)
  <2>1. PICK s \in sinks : SinkReturns(s)
    BY <1>8
  <2>2. Suppressed(idOf[s.job])
    BY <1>1 DEF Suppressed, Formatting
  <2>3. sinks' \subseteq sinks /\ UNCHANGED <<born, idOf, jobOf, status, suppressed, watched, deliveries, queue>>
    BY <2>1, <2>2 DEF SinkReturns, manager
  <2> QED
    BY <2>3 DEF Quiet, PendingWake, Running, Visible, Suppressed
<1>9. CASE UNCHANGED vars \/ Prompt
  <2>1. CASE UNCHANGED vars
    BY <2>1, QuietStays DEF vars, manager, pipe
  <2>2. CASE Prompt
    BY <2>2 DEF Prompt, Streaming
  <2> QED
    BY <1>9, <2>1, <2>2
<1>10. CASE RunLoop
  <2>1. IdleFlush
    BY <1>1, <1>10 DEF RunLoop, Drain, Commit, ModelStops, EndRun
  <2>2. queue' = queue
    BY <1>1, <2>1 DEF IdleFlush
  <2> QED
    BY <2>1, <2>2, QuietStays DEF IdleFlush, manager
<1>11. CASE CallTool \/ WaitInTool
  <2>1. ~CallTool
    BY <1>1 DEF CallTool, StartBackground, StartForeground, HubJobs, HubWait, HubCancel, Calling
  <2>2. ~WaitInTool
    BY <1>1 DEF WaitInTool, BashWakes, BashReturns, BashBackgrounds, BashAborts,
                HubMessage, HubTimeout, HubUnwatch, HubReturns
  <2> QED
    BY <1>11, <2>1, <2>2
<1>12. CASE (\E k \in {"stop", "new"} : Abort(k)) \/ SkipFlush \/ AbortEnds
  BY <1>12, QuietStays DEF Abort, SkipFlush, AbortEnds, manager, pipe
<1>13. CASE NewSession
  BY <1>13 DEF NewSession, IInv, Types, LifeTypes, Named, Transcripts
<1>14. CASE Crash
  BY <1>14 DEF Crash, PendingWake, Running, Visible
<1>15. CASE Recover
  BY <1>15, QuietStays DEF Recover, Adopt, AppendResult, MarkResult, manager, pipe
<1> QED
  BY <1>4, <1>5, <1>6, <1>7, <1>8, <1>9, <1>10, <1>11, <1>12, <1>13, <1>14, <1>15
     DEF Next, HandleJobs, EndSession

\* A run driver that finds the session idle with no wake pending may end.
THEOREM QuietIsFinal == Spec => QuietStaysQuiet
<1>1. IInv /\ [Next]_vars
        => [~Streaming /\ ~PendingWake /\ lapsed' = {} /\ epoch' = epoch
                => told' = told /\ (~Streaming' => ~PendingWake')]_vars
  BY QuietStep DEF Quiet
<1> QED
  BY <1>1, Invariance, PTL DEF Spec, QuietStaysQuiet

=============================================================================
