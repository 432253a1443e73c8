------------------------- MODULE LaunchBrokerProofs -------------------------
(***************************************************************************)
(* Proofs about LaunchBroker, in three layers: what exists and where a     *)
(* request stands; what the disk and the queues of writes say of an end    *)
(* that was told; and, where none of the races happened, that the record   *)
(* of the name accounts for its process, its timer and its ends.  The last *)
(* theorems say of three claims of the documents, which the code does not  *)
(* keep, that the races are what breaks them.                              *)
(***************************************************************************)
EXTENDS LaunchBroker, FiniteSetTheorems, TLAPS

Record(r) == r \in Launches /\ recs[r] \in Records

\* The snapshots that #persist has queued.
Queue(r) == {writes[r][k] : k \in DOMAIN writes[r]}

-----------------------------------------------------------------------------
(* First layer: records, requests, and nothing in memory without a broker. *)

Exists(n) == n <= launches /\ Record(owner[n])

HeldInv ==
    /\ \A n \in opening \cup reading \cup watched : Exists(n)
    /\ \A s \in settles : Exists(s.n)
    /\ \A i \in telling : Exists(i[1])
    /\ \A r \in Launches : armed[r] > 0 \/ writes[r] # <<>> => Record(r)

\* A launch belongs to one record, and so does a snapshot.
NumberInv ==
    /\ \A r \in Launches :
          /\ Record(r) => r <= launches /\ recs[r].gen <= launches /\ owner[recs[r].gen] = r
          /\ \A m \in Queue(r) : owner[m.gen] = r /\ m.gen <= launches
    /\ meta.gen <= launches
    /\ \A n \in Launches : n > launches => proc[n] # "alive" /\ n \notin ended \cup lost

Steps ==
    [start |-> {"refresh", "open"}, stop |-> {"refresh", "kill", "wait"},
     restart |-> {"refresh", "kill", "wait", "reopen"},
     shutdown |-> {"refresh", "kill", "wait", "drain", "exit"}]

OpsInv ==
    /\ \A c \in Callers : ops[c] # Idle =>
          /\ ops[c].pc \in Steps[ops[c].kind]
          /\ ops[c].rec # 0 => Record(ops[c].rec)
          /\ ops[c].rec = 0 => ops[c].kind = "start" \/ ops[c].pc \in {"drain", "exit"}
          /\ ops[c].kind = "start" => ops[c].rec = current
          /\ ops[c].kind = "shutdown" => closing
    /\ \A c, d \in Callers : ops[c].kind = "start" /\ ops[d].kind = "start" => c = d

DownInv ==
    ~up => /\ recs = [r \in Launches |-> NoRecord] /\ armed = [r \in Launches |-> 0]
           /\ ops = [c \in Callers |-> Idle] /\ writes = [r \in Launches |-> <<>>] /\ ~closing

-----------------------------------------------------------------------------
(* Types by parts.                                                         *)

BrokerTypes ==
    /\ up \in BOOLEAN /\ closing \in BOOLEAN /\ current \in 0..MaxLaunches
    /\ launches \in 0..MaxLaunches /\ deaths \in 0..MaxDeaths /\ scope \in Scopes

RecordTypes ==
    /\ recs \in [Launches -> Records \cup {NoRecord}] /\ owner \in [Launches -> 0..MaxLaunches]
    /\ current # 0 => recs[current] \in Records

WaitTypes ==
    /\ opening \subseteq Launches /\ reading \subseteq Launches /\ watched \subseteq Launches
    /\ settles \subseteq [n : Launches, failed : BOOLEAN] /\ armed \in [Launches -> Nat]

OpsTypes == ops \in [Callers -> Requests \cup {Idle}]

ReportTypes ==
    /\ telling \subseteq Ids /\ box \subseteq Ids /\ seen \subseteq Ids /\ ended \subseteq Launches
    /\ asked \subseteq Launches /\ lost \subseteq Launches /\ stray \in BOOLEAN /\ unsaved \subseteq Ids

DiskTypes ==
    /\ proc \in [Launches -> {"none", "alive", "dead"}]
    /\ writes \in [Launches -> Seq(Metas)] /\ meta \in Metas \cup {NoMeta}

EmptyDown == ~up => current = 0 /\ opening \cup reading \cup settles \cup watched \cup telling \cup box = {}

TypeParts == /\ BrokerTypes /\ RecordTypes /\ WaitTypes /\ OpsTypes
             /\ ReportTypes /\ DiskTypes /\ EmptyDown

LEMMA TypesByParts == (TypeOK <=> TypeParts) /\ (TypeOK' <=> TypeParts')
  BY DEF TypeOK, TypeParts, BrokerTypes, RecordTypes, WaitTypes, OpsTypes, ReportTypes, DiskTypes, EmptyDown

Layer1 == TypeParts /\ HeldInv /\ NumberInv /\ OpsInv /\ DownInv

-----------------------------------------------------------------------------
(* A record is changed and its metadata queued.                            *)

Like(m, x) == m \in Metas /\ m.gen = x.gen /\ m.state = x.state /\ m.pend = x.pend /\ m.pid \in {0, x.pid}

Grows(q, s, x) ==
    /\ s \in Seq(Metas) /\ Len(q) <= Len(s) /\ s # <<>> /\ s[Len(s)] = Snapshot(x)
    /\ \A k \in 1..Len(q) : s[k] = q[k]
    /\ \A k \in 1..Len(s) : k > Len(q) => Like(s[k], x)

Update(r, x) ==
    /\ r \in Launches /\ x \in Records /\ recs' = [recs EXCEPT ![r] = x]
    /\ writes' \in [Launches -> Seq(Metas)]
    /\ \A p \in Launches : p # r => writes'[p] = writes[p]
    /\ Grows(writes[r], writes'[r], x)

LEMMA SnapshotFacts ==
  ASSUME NEW x \in Records
  PROVE  /\ Snapshot(x) \in Metas /\ Like(Snapshot(x), x)
         /\ Snapshot(x).state = x.state /\ Snapshot(x).gen = x.gen
         /\ Snapshot(x).pid = x.pid /\ Snapshot(x).pend = x.pend
  BY DEF Snapshot, Records, Metas, Like

LEMMA QueuedGrows ==
  ASSUME NEW q \in Seq(Metas), NEW x \in Records
  PROVE  Grows(q, Queued(q, x), x)
<1>1. CASE q # <<>> /\ q[Len(q)] = Snapshot(x)
  <2>1. Queued(q, x) = q
    BY <1>1 DEF Queued
  <2> QED
    BY <1>1, <2>1 DEF Grows
<1>2. CASE ~(q # <<>> /\ q[Len(q)] = Snapshot(x))
  <2>1. Queued(q, x) = Append(q, Snapshot(x)) /\ Snapshot(x) \in Metas /\ Like(Snapshot(x), x)
    BY <1>2, SnapshotFacts DEF Queued
  <2> DEFINE m == Snapshot(x)
             s == Append(q, m)
  <2> HIDE DEF m
  <2>2. m \in Metas /\ Like(m, x)
    BY <2>1 DEF m
  <2>3. /\ s \in Seq(Metas) /\ Len(s) = Len(q) + 1 /\ s # <<>> /\ s[Len(s)] = m
        /\ \A k \in 1..Len(q) : s[k] = q[k]
    BY <2>2
  <2>4. \A k \in 1..Len(s) : k > Len(q) => s[k] = m
    BY <2>3
  <2> QED
    BY <2>1, <2>2, <2>3, <2>4 DEF Grows, m
<1> QED
  BY <1>1, <1>2

\* Two snapshots that differ in the process only.
LEMMA QueuedTwice ==
  ASSUME NEW q \in Seq(Metas), NEW y \in Records, NEW z \in Records, Like(Snapshot(y), z)
  PROVE  Grows(q, Queued(Queued(q, y), z), z)
<1> DEFINE s == Queued(q, y)
           t == Queued(s, z)
<1>1. Grows(q, s, y)
  BY QueuedGrows
<1>2. s \in Seq(Metas)
  BY <1>1 DEF Grows
<1>3. Grows(s, t, z)
  BY <1>2, QueuedGrows
<1> HIDE DEF s, t
<1>4. /\ t \in Seq(Metas) /\ Len(q) <= Len(t) /\ t # <<>> /\ t[Len(t)] = Snapshot(z)
      /\ \A k \in 1..Len(q) : t[k] = q[k]
  BY <1>1, <1>2, <1>3 DEF Grows
<1>5. ASSUME NEW k \in 1..Len(t), k > Len(q) PROVE Like(t[k], z)
  <2>1. CASE k > Len(s)
    BY <1>3, <1>5, <2>1 DEF Grows
  <2>2. CASE k <= Len(s)
    <3>1. k \in 1..Len(s) /\ t[k] = s[k] /\ Like(s[k], y)
      BY <1>1, <1>2, <1>3, <1>5, <2>2 DEF Grows
    <3>2. Snapshot(y).gen = y.gen /\ Snapshot(y).state = y.state /\ Snapshot(y).pend = y.pend /\ Snapshot(y).pid = y.pid
      BY SnapshotFacts
    <3> QED
      BY <3>1, <3>2 DEF Like
  <2> QED
    BY <1>2, <1>4, <1>5, <2>1, <2>2
<1> QED
  BY <1>4, <1>5 DEF Grows, s, t

IsRecord(x) ==
    x = [state |-> x.state, gen |-> x.gen, stop |-> x.stop, proc |-> x.proc, pid |-> x.pid,
         timer |-> x.timer, pend |-> x.pend]

LEMMA RecordForm ==
  ASSUME NEW x, IsRecord(x), x.state \in States, x.gen \in Launches, x.stop \in BOOLEAN,
         x.proc \in 0..MaxLaunches, x.pid \in 0..MaxLaunches, x.timer \in BOOLEAN, x.pend \subseteq Ids
  PROVE  x \in Records
  BY DEF Records, IsRecord

LEMMA SaveUpdates ==
  ASSUME DiskTypes, RecordTypes, NEW r \in Launches, NEW x \in Records, Save(r, x)
  PROVE  Update(r, x)
<1>1. writes \in [Launches -> Seq(Metas)] /\ writes' = [writes EXCEPT ![r] = Queued(writes[r], x)]
  BY DEF DiskTypes, Save
<1>2. Grows(writes[r], Queued(writes[r], x), x)
  BY <1>1, QueuedGrows
<1> QED
  BY <1>1, <1>2 DEF Update, Grows, Save

\* What a launch of the record x under r does: n is its number, z the record.
Launched(r, x, z) ==
    LET n == launches + 1 IN
    /\ n \in Launches /\ launches' = n /\ owner' = [owner EXCEPT ![n] = r]
    /\ z \in Records /\ z.gen = n /\ z.state = "running" /\ ~z.stop
    /\ z.pend = x.pend /\ z.timer = x.timer
    /\ Update(r, z)
    /\ \/ /\ opening' = opening \cup {n} /\ z.pid = 0 /\ UNCHANGED <<proc, watched, settles>>
       \/ /\ proc' = [proc EXCEPT ![n] = "alive"] /\ watched' = watched \cup {n} /\ z.pid = n
          /\ UNCHANGED <<opening, settles>>
       \/ /\ settles' = settles \cup {[n |-> n, failed |-> TRUE]} /\ z.pid = 0
          /\ UNCHANGED <<proc, watched, opening>>

NewRecord == [state |-> "none", gen |-> 0, stop |-> FALSE, proc |-> 0, pid |-> 0, timer |-> FALSE, pend |-> {}]

LEMMA LaunchDoes ==
  ASSUME BrokerTypes, DiskTypes, RecordTypes, NEW r \in Launches, NEW x, x \in Records \/ x = NewRecord,
         Launch(r, x)
  PROVE  \E z \in Records : Launched(r, x, z)
<1> DEFINE n == launches + 1
           y == [x EXCEPT !.gen = n, !.stop = FALSE, !.state = "running", !.pid = 0]
           z == [y EXCEPT !.proc = n, !.pid = n]
<1>1. n \in Launches /\ launches' = n /\ owner' = [owner EXCEPT ![n] = r]
  BY BrokerAssumption DEF Launch, BrokerTypes, Launches
<1>2. n # 0 /\ n \in 0..MaxLaunches
  BY <1>1, BrokerAssumption DEF Launches
<1>a. y = [x EXCEPT !.gen = n, !.stop = FALSE, !.state = "running", !.pid = 0] /\ z = [y EXCEPT !.proc = n, !.pid = n]
  OBVIOUS
<1> HIDE DEF y, z, n
<1>b. /\ x.proc \in 0..MaxLaunches /\ x.timer \in BOOLEAN /\ x.pend \subseteq Ids
      /\ x = [state |-> x.state, gen |-> x.gen, stop |-> x.stop, proc |-> x.proc, pid |-> x.pid,
              timer |-> x.timer, pend |-> x.pend]
  <2>1. CASE x \in Records
    BY <2>1 DEF Records
  <2>2. CASE x = NewRecord
    <3>1. x.proc = 0 /\ x.timer = FALSE /\ x.pend = {}
      BY <2>2 DEF NewRecord
    <3>2. x = [state |-> x.state, gen |-> x.gen, stop |-> x.stop, proc |-> x.proc, pid |-> x.pid,
              timer |-> x.timer, pend |-> x.pend]
      BY <2>2 DEF NewRecord
    <3>3. 0 \in 0..MaxLaunches
      BY BrokerAssumption
    <3> QED
      BY <3>1, <3>2, <3>3, Zenon
  <2> QED
    BY <2>1, <2>2
<1>3. y \in Records /\ y.gen = n /\ y.state = "running" /\ ~y.stop /\ y.pid = 0 /\ y.pend = x.pend /\ y.timer = x.timer
  <2>1. /\ y.gen = n /\ y.stop = FALSE /\ y.state = "running" /\ y.pid = 0
        /\ y.pend = x.pend /\ y.timer = x.timer /\ y.proc = x.proc
    BY <1>a, <1>b
  <2>2. IsRecord(y)
    BY <1>a, <1>b DEF IsRecord
  <2>3. "running" \in States /\ 0 \in 0..MaxLaunches
    BY BrokerAssumption DEF States
  <2>4. y \in Records
    BY <1>1, <1>b, <2>1, <2>2, <2>3, RecordForm, Zenon
  <2> QED
    BY <2>1, <2>4, Zenon
<1>4. z \in Records /\ z.gen = n /\ z.state = "running" /\ ~z.stop /\ z.pid = n /\ z.pend = x.pend /\ z.timer = x.timer
  <2>1. /\ z.gen = n /\ z.stop = y.stop /\ z.state = "running" /\ z.pid = n
        /\ z.pend = x.pend /\ z.timer = x.timer /\ z.proc = n
    BY <1>a, <1>3 DEF Records
  <2>2. IsRecord(z)
    BY <1>a, <1>3 DEF IsRecord, Records
  <2>3. "running" \in States /\ y.stop \in BOOLEAN
    BY <1>3 DEF Records, States
  <2>4. z \in Records
    BY <1>1, <1>2, <1>b, <2>1, <2>2, <2>3, RecordForm, Zenon
  <2> QED
    BY <1>3, <2>1, <2>4, Zenon
<1>5. writes \in [Launches -> Seq(Metas)]
  BY DEF DiskTypes
<1>6. Like(Snapshot(y), z)
  <2>1. Snapshot(y) \in Metas /\ Snapshot(y).state = y.state /\ Snapshot(y).gen = y.gen
        /\ Snapshot(y).pid = y.pid /\ Snapshot(y).pend = y.pend
    BY <1>3, SnapshotFacts
  <2> QED
    BY <1>3, <1>4, <2>1 DEF Like
<1>7. /\ opening' = opening \cup {n} /\ Save(r, y) /\ UNCHANGED <<proc, watched, settles>>
      \/ /\ recs' = [recs EXCEPT ![r] = z]
         /\ writes' = [writes EXCEPT ![r] = Queued(Queued(writes[r], y), z)]
         /\ proc' = [proc EXCEPT ![n] = "alive"] /\ watched' = watched \cup {n}
         /\ UNCHANGED <<opening, settles>>
      \/ /\ Save(r, y) /\ settles' = settles \cup {[n |-> n, failed |-> TRUE]}
         /\ UNCHANGED <<proc, watched, opening>>
  BY DEF Launch, n, y, z
<1>8. CASE opening' = opening \cup {n} /\ Save(r, y) /\ UNCHANGED <<proc, watched, settles>>
  <2>1. Update(r, y)
    BY <1>3, <1>8, SaveUpdates
  <2>2. Launched(r, x, y)
    BY <1>1, <1>3, <1>8, <2>1 DEF Launched, n
  <2> QED
    BY <1>3, <2>2
<1>9. CASE Save(r, y) /\ settles' = settles \cup {[n |-> n, failed |-> TRUE]}
           /\ UNCHANGED <<proc, watched, opening>>
  <2>1. Update(r, y)
    BY <1>3, <1>9, SaveUpdates
  <2>2. Launched(r, x, y)
    BY <1>1, <1>3, <1>9, <2>1 DEF Launched, n
  <2> QED
    BY <1>3, <2>2
<1>10. CASE /\ recs' = [recs EXCEPT ![r] = z]
            /\ writes' = [writes EXCEPT ![r] = Queued(Queued(writes[r], y), z)]
            /\ proc' = [proc EXCEPT ![n] = "alive"] /\ watched' = watched \cup {n}
            /\ UNCHANGED <<opening, settles>>
  <2>1. Grows(writes[r], Queued(Queued(writes[r], y), z), z)
    BY <1>3, <1>4, <1>5, <1>6, QueuedTwice
  <2>2. Update(r, z)
    BY <1>4, <1>5, <1>10, <2>1 DEF Update, Grows
  <2>3. Launched(r, x, z)
    BY <1>1, <1>4, <1>10, <2>2 DEF Launched, n
  <2> QED
    BY <1>4, <2>3
<1> QED
  BY <1>7, <1>8, <1>9, <1>10

\* Records stay, and the queue of the one that changed has its old snapshots and
\* such as are like it.
LEMMA UpdateFacts ==
  ASSUME DiskTypes, RecordTypes, NEW r, NEW x, Update(r, x)
  PROVE  /\ recs' \in [Launches -> Records \cup {NoRecord}] /\ writes' \in [Launches -> Seq(Metas)]
         /\ r \in Launches /\ x \in Records /\ recs'[r] = x /\ Record(r)'
         /\ \A p \in Launches : p # r => recs'[p] = recs[p] /\ writes'[p] = writes[p]
                                         /\ Queue(p)' = Queue(p) /\ (Record(p)' <=> Record(p))
         /\ \A p : Record(p) => Record(p)'
         /\ \A m \in Queue(r)' : m \in Queue(r) \/ Like(m, x)
         /\ writes'[r] # <<>> /\ writes'[r][Len(writes'[r])] = Snapshot(x)
<1>1. /\ r \in Launches /\ x \in Records /\ recs' = [recs EXCEPT ![r] = x]
      /\ writes' \in [Launches -> Seq(Metas)]
      /\ \A p \in Launches : p # r => writes'[p] = writes[p]
  BY DEF Update
<1>2. recs' \in [Launches -> Records \cup {NoRecord}] /\ recs'[r] = x
      /\ \A p \in Launches : p # r => recs'[p] = recs[p]
  BY <1>1 DEF RecordTypes
<1>3. \A p \in Launches : p # r => Queue(p)' = Queue(p) /\ (Record(p)' <=> Record(p))
  BY <1>1, <1>2 DEF Queue, Record
<1>4. Record(r)' /\ \A p : Record(p) => Record(p)'
  BY <1>1, <1>2 DEF Record
<1>5. ASSUME NEW m \in Queue(r)' PROVE m \in Queue(r) \/ Like(m, x)
  <2>1. writes[r] \in Seq(Metas) /\ writes'[r] \in Seq(Metas)
    BY <1>1 DEF DiskTypes
  <2>2. PICK k \in DOMAIN writes'[r] : m = writes'[r][k]
    BY <1>5 DEF Queue
  <2>3. k \in 1..Len(writes'[r])
    BY <2>1, <2>2
  <2>4. CASE k > Len(writes[r])
    BY <2>2, <2>3, <2>4 DEF Update, Grows
  <2>5. CASE k <= Len(writes[r])
    <3>1. k \in 1..Len(writes[r]) /\ k \in DOMAIN writes[r] /\ m = writes[r][k]
      BY <2>1, <2>2, <2>3, <2>5 DEF Update, Grows
    <3> QED
      BY <3>1 DEF Queue
  <2> QED
    BY <2>1, <2>3, <2>4, <2>5
<1> QED
  BY <1>1, <1>2, <1>3, <1>4, <1>5 DEF Update, Grows

-----------------------------------------------------------------------------
(* The first layer holds.                                                  *)

LEMMA InitLayer1 == Init => Layer1
<1> SUFFICES ASSUME Init PROVE Layer1
  OBVIOUS
<1>1. TypeParts
  <2>1. BrokerTypes
    <3>1. up \in BOOLEAN /\ closing \in BOOLEAN
      BY DEF Init
    <3>2. current = 0 /\ launches = 0 /\ deaths = 0 /\ scope \in Scopes
      BY DEF Init
    <3> QED
      BY <3>1, <3>2, BrokerAssumption DEF BrokerTypes
  <2>3. WaitTypes /\ EmptyDown
    BY DEF Init, WaitTypes, EmptyDown
  <2>4. ReportTypes
    BY Zenon DEF Init, ReportTypes
  <2>2. RecordTypes /\ OpsTypes /\ DiskTypes
    BY BrokerAssumption DEF Init, RecordTypes, OpsTypes, DiskTypes
  <2> QED
    BY <2>1, <2>2, <2>3, <2>4 DEF TypeParts
<1>2. \A r \in Launches : recs[r] = NoRecord /\ writes[r] = <<>> /\ armed[r] = 0 /\ ~Record(r) /\ Queue(r) = {}
  BY DEF Init, Record, Records, NoRecord, States, Queue
<1>3. HeldInv /\ NumberInv
  BY <1>2, BrokerAssumption DEF Init, HeldInv, NumberInv, NoMeta, Launches
<1>4. OpsInv /\ DownInv
  BY DEF Init, OpsInv, DownInv, Idle
<1> QED
  BY <1>1, <1>3, <1>4 DEF Layer1

\* The steps that leave records, disk and reports alone.
SameRecords == UNCHANGED <<up, current, recs, owner, launches, writes, meta, deaths, scope>>
SameReports == UNCHANGED <<telling, box, seen, ended, asked, lost, unsaved>>

LEMMA QuietLayer1 ==
  ASSUME Layer1, SameRecords, SameReports,
         UNCHANGED proc \/ \E n : proc' = [proc EXCEPT ![n] = "dead"],
         stray' \in BOOLEAN, closing' \in BOOLEAN,
         up \/ UNCHANGED <<closing, armed, ops, opening, reading, settles, watched>>,
         armed' \in [Launches -> Nat], \A r \in Launches : armed'[r] <= armed[r],
         opening' \subseteq opening, watched' \subseteq watched,
         reading' \subseteq Launches, \A n \in reading' : Exists(n),
         settles' \subseteq [n : Launches, failed : BOOLEAN], \A s \in settles' : Exists(s.n),
         OpsTypes', OpsInv'
  PROVE  Layer1'
<1>1. TypeParts'
  BY DEF Layer1, TypeParts, BrokerTypes, RecordTypes, WaitTypes, ReportTypes, DiskTypes, EmptyDown,
         SameRecords, SameReports
<1>2. (\A r \in Launches : Record(r)' <=> Record(r)) /\ (\A n : Exists(n)' <=> Exists(n))
      /\ \A r \in Launches : Queue(r)' = Queue(r)
  BY DEF SameRecords, Record, Exists, Queue
<1>3. HeldInv'
  <2>1. ASSUME NEW r \in Launches, armed'[r] > 0 \/ writes'[r] # <<>> PROVE Record(r)
    BY <2>1 DEF Layer1, TypeParts, WaitTypes, HeldInv, SameRecords
  <2> QED
    BY <1>2, <2>1 DEF Layer1, HeldInv, SameReports
<1>4. NumberInv'
  BY <1>2 DEF Layer1, NumberInv, SameRecords, SameReports, TypeParts, DiskTypes
<1>5. DownInv'
  BY DEF Layer1, DownInv, SameRecords
<1> QED
  BY <1>1, <1>3, <1>4, <1>5 DEF Layer1

\* What OpsInv says of one request, with the values it will have.
Placed(v, cur, cl) ==
    v # Idle => /\ v.pc \in Steps[v.kind]
                /\ v.rec # 0 => Record(v.rec)
                /\ v.rec = 0 => v.kind = "start" \/ v.pc \in {"drain", "exit"}
                /\ v.kind = "start" => v.rec = cur
                /\ v.kind = "shutdown" => cl

LEMMA KindFacts ==
  /\ Idle.kind = "idle" /\ Idle \notin Requests
  /\ \A v \in Requests : v # Idle /\ v.kind \in {"start", "stop", "restart", "shutdown"}
  /\ Steps["start"] = {"refresh", "open"} /\ Steps["stop"] = {"refresh", "kill", "wait"}
  /\ Steps["restart"] = {"refresh", "kill", "wait", "reopen"}
  /\ Steps["shutdown"] = {"refresh", "kill", "wait", "drain", "exit"}
  BY DEF Idle, Requests, Steps

\* One request goes on.
LEMMA OneRequest ==
  ASSUME OpsTypes, OpsInv, NEW c \in Callers, NEW v \in Requests \cup {Idle},
         ops' = [ops EXCEPT ![c] = v], \A p : Record(p) => Record(p)',
         current' = current, closing => closing', Placed(v, current, closing'),
         v.kind = "start" => ops[c].kind = "start" \/ \A d \in Callers : ops[d].kind # "start"
  PROVE  OpsTypes' /\ OpsInv'
<1>1. OpsTypes'
  BY DEF OpsTypes
<1>2. ops'[c] = v /\ \A d \in Callers : d # c => ops'[d] = ops[d]
  BY DEF OpsTypes
<1>3. ASSUME NEW d \in Callers, ops'[d] # Idle
      PROVE  /\ ops'[d].pc \in Steps[ops'[d].kind]
             /\ ops'[d].rec # 0 => Record(ops[d].rec)'
             /\ ops'[d].rec = 0 => ops'[d].kind = "start" \/ ops'[d].pc \in {"drain", "exit"}
             /\ ops'[d].kind = "start" => ops'[d].rec = current'
             /\ ops'[d].kind = "shutdown" => closing'
  <2>1. CASE d = c
    BY <1>2, <1>3, <2>1 DEF Placed
  <2>2. CASE d # c
    BY <1>2, <1>3, <2>2 DEF OpsInv
  <2> QED
    BY <2>1, <2>2
<1>4. ASSUME NEW d \in Callers, NEW e \in Callers, ops'[d].kind = "start", ops'[e].kind = "start"
      PROVE  d = e
  BY <1>2, <1>4 DEF OpsInv
<1> QED
  BY <1>1, <1>3, <1>4 DEF OpsInv

LEMMA RequestEnds ==
  ASSUME OpsTypes, OpsInv, NEW c \in Callers, Ends(c), \A p : Record(p) => Record(p)',
         UNCHANGED <<current, closing>>
  PROVE  OpsTypes' /\ OpsInv'
<1>1. Placed(Idle, current, closing') /\ Idle.kind # "start"
  BY DEF Placed, Idle
<1>2. ops' = [ops EXCEPT ![c] = Idle]
  BY DEF Ends
<1> QED
  BY <1>1, <1>2, OneRequest

LEMMA RequestGoes ==
  ASSUME OpsTypes, OpsInv, NEW c \in Callers, NEW pc, Goes(c, pc), ops[c] # Idle,
         pc \in Steps[ops[c].kind], ops[c].rec = 0 => ops[c].kind = "start" \/ pc \in {"drain", "exit"},
         \A p : Record(p) => Record(p)', UNCHANGED <<current, closing>>
  PROVE  OpsTypes' /\ OpsInv'
<1> DEFINE v == [ops[c] EXCEPT !.pc = pc]
<1>1. ops[c] \in Requests /\ ops' = [ops EXCEPT ![c] = v]
  BY DEF OpsTypes, Goes
<1>2. pc \in {"refresh", "open", "kill", "wait", "reopen", "drain", "exit"}
  BY <1>1, KindFacts
<1>3. v.kind = ops[c].kind /\ v.rec = ops[c].rec /\ v.pc = pc /\ v \in Requests
  BY <1>1, <1>2 DEF Requests
<1> HIDE DEF v
<1>4. Placed(v, current, closing')
  BY <1>3 DEF OpsInv, Placed
<1> QED
  BY <1>1, <1>3, <1>4, OneRequest

LEMMA RequestBegins ==
  ASSUME Layer1, NEW c \in Callers, NEW kind \in {"start", "stop", "restart", "shutdown"}, NEW r \in 0..MaxLaunches,
         Begin(c, kind, r), r # 0 => Record(r), r = 0 => kind = "start",
         kind = "start" => r = current /\ \A d \in Callers : ops[d].kind # "start",
         kind = "shutdown" => closing', closing => closing', SameRecords
  PROVE  /\ OpsTypes' /\ OpsInv'
         /\ reading' \subseteq Launches /\ \A n \in reading' : Exists(n)
<1> DEFINE g == Captured(r)
           v == [kind |-> kind, pc |-> "refresh", rec |-> r, gen |-> g, pid |-> 0]
<1>1. g = 0 \/ (g \in Launches /\ Exists(g))
  <2>1. CASE g # 0
    <3>1. r # 0 /\ g = recs[r].gen
      BY <2>1 DEF Captured
    <3>2. Record(r) /\ r \in Launches /\ recs[r] \in Records
      BY <3>1 DEF Record
    <3> QED
      BY <3>1, <3>2 DEF Records, Layer1, NumberInv, Exists
  <2> QED
    BY <2>1
<1>2. g \in 0..MaxLaunches /\ 0 \in 0..MaxLaunches
  BY <1>1, BrokerAssumption DEF Launches
<1>3. ops' = [ops EXCEPT ![c] = v] /\ reading' = reading \cup ({g} \ {0})
  BY DEF Begin
<1> HIDE DEF g
<1>4. v \in Requests /\ v.kind = kind /\ v.rec = r /\ v.pc = "refresh"
  BY <1>2 DEF Requests
<1> HIDE DEF v
<1>5. Placed(v, current, closing')
  BY <1>4, KindFacts DEF Placed
<1>6. \A p : Record(p) => Record(p)'
  BY DEF SameRecords, Record
<1>7. OpsTypes' /\ OpsInv'
  BY <1>3, <1>4, <1>5, <1>6, OneRequest DEF Layer1, TypeParts, SameRecords
<1>8. reading' \subseteq Launches /\ \A n \in reading' : Exists(n)
  BY <1>1, <1>3 DEF Layer1, TypeParts, WaitTypes, HeldInv
<1> QED
  BY <1>7, <1>8

LEMMA SettleCallFacts ==
  ASSUME Layer1, NEW n \in Launches, Exists(n), NEW failed \in BOOLEAN, SettleCall(n, failed)
  PROVE  settles' \subseteq [n : Launches, failed : BOOLEAN] /\ \A s \in settles' : Exists(s.n)
<1> DEFINE t == [n |-> n, failed |-> failed]
<1>1. t \in [n : Launches, failed : BOOLEAN] /\ t.n = n
  OBVIOUS
<1>2. settles' \subseteq settles \cup {t}
  BY DEF SettleCall
<1> HIDE DEF t
<1> QED
  BY <1>1, <1>2 DEF Layer1, TypeParts, WaitTypes, HeldInv

LEMMA OpenFailsLayer1 == ASSUME Layer1, NEW n \in Launches, OpenFails(n) PROVE Layer1'
<1>1. /\ n \in opening /\ opening' = opening \ {n} /\ SettleCall(n, TRUE) /\ up
      /\ UNCHANGED <<closing, reading, armed, watched, ops, stray, proc>> /\ SameRecords /\ SameReports
  BY DEF OpenFails, outside, history, SameRecords, SameReports, Layer1, TypeParts, EmptyDown
<1>2. Exists(n)
  BY <1>1 DEF Layer1, HeldInv
<1>3. settles' \subseteq [n : Launches, failed : BOOLEAN] /\ \A s \in settles' : Exists(s.n)
  BY <1>1, <1>2, SettleCallFacts
<1>4. OpsTypes' /\ OpsInv'
  BY <1>1 DEF Layer1, TypeParts, OpsTypes, OpsInv, SameRecords, Record
<1> QED
  BY <1>1, <1>3, <1>4, QuietLayer1 DEF Layer1, TypeParts, BrokerTypes, WaitTypes, ReportTypes, HeldInv

LEMMA ExitedLayer1 == ASSUME Layer1, NEW n \in Launches, Exited(n) PROVE Layer1'
<1>1. /\ n \in watched /\ watched' = watched \ {n} /\ (\E failed \in BOOLEAN : SettleCall(n, failed)) /\ up
      /\ UNCHANGED <<closing, opening, reading, armed, ops, stray, proc>> /\ SameRecords /\ SameReports
  BY DEF Exited, outside, history, SameRecords, SameReports, Layer1, TypeParts, EmptyDown
<1>2. Exists(n)
  BY <1>1 DEF Layer1, HeldInv
<1>3. settles' \subseteq [n : Launches, failed : BOOLEAN] /\ \A s \in settles' : Exists(s.n)
  BY <1>1, <1>2, SettleCallFacts
<1>4. OpsTypes' /\ OpsInv'
  BY <1>1 DEF Layer1, TypeParts, OpsTypes, OpsInv, SameRecords, Record
<1> QED
  BY <1>1, <1>3, <1>4, QuietLayer1 DEF Layer1, TypeParts, BrokerTypes, WaitTypes, ReportTypes, HeldInv

LEMMA RefreshReadLayer1 == ASSUME Layer1, NEW n \in Launches, RefreshRead(n) PROVE Layer1'
<1>1. /\ n \in reading /\ reading' = reading \ {n} /\ (SettleCall(n, FALSE) \/ UNCHANGED settles) /\ up
      /\ UNCHANGED <<closing, opening, watched, armed, ops, proc>> /\ SameRecords /\ SameReports
  BY DEF RefreshRead, outside, SameRecords, SameReports, Layer1, TypeParts, EmptyDown
<1>2. Exists(n)
  BY <1>1 DEF Layer1, HeldInv
<1>3. settles' \subseteq [n : Launches, failed : BOOLEAN] /\ \A s \in settles' : Exists(s.n)
  BY <1>1, <1>2, SettleCallFacts DEF Layer1, TypeParts, WaitTypes, HeldInv
<1>4. OpsTypes' /\ OpsInv'
  BY <1>1 DEF Layer1, TypeParts, OpsTypes, OpsInv, SameRecords, Record
<1>5. stray' \in BOOLEAN
  BY DEF RefreshRead, Layer1, TypeParts, ReportTypes
<1> QED
  BY <1>1, <1>3, <1>4, <1>5, QuietLayer1 DEF Layer1, TypeParts, BrokerTypes, WaitTypes, HeldInv

LEMMA RefreshLayer1 == ASSUME Layer1, NEW r \in Launches, Refresh(r) PROVE Layer1'
<1>1. /\ up /\ r # 0 /\ r = current /\ reading' = reading \cup {recs[r].gen}
      /\ UNCHANGED <<closing, opening, watched, armed, ops, proc, settles, stray>> /\ SameRecords /\ SameReports
  BY DEF Refresh, outside, history, SameRecords, SameReports
<1>2. Record(r) /\ recs[r].gen \in Launches /\ Exists(recs[r].gen)
  BY <1>1 DEF Layer1, TypeParts, RecordTypes, Record, Records, NumberInv, Exists
<1>3. reading' \subseteq Launches /\ \A n \in reading' : Exists(n)
  BY <1>1, <1>2 DEF Layer1, TypeParts, WaitTypes, HeldInv
<1>4. OpsTypes' /\ OpsInv'
  BY <1>1 DEF Layer1, TypeParts, OpsTypes, OpsInv, SameRecords, Record
<1>5. \A r1 \in Launches : armed'[r1] <= armed[r1]
  BY <1>1 DEF Layer1, TypeParts, WaitTypes
<1>6. settles' \subseteq [n : Launches, failed : BOOLEAN] /\ \A s \in settles' : Exists(s.n)
  BY <1>1 DEF Layer1, TypeParts, WaitTypes, HeldInv
<1>7. closing' \in BOOLEAN /\ stray' \in BOOLEAN /\ armed' \in [Launches -> Nat]
  BY <1>1 DEF Layer1, TypeParts, BrokerTypes, ReportTypes, WaitTypes
<1> QED
  BY <1>1, <1>3, <1>4, <1>5, <1>6, <1>7, QuietLayer1

LEMMA DiesLayer1 == ASSUME Layer1, NEW n \in Launches, Dies(n) PROVE Layer1'
<1>1. /\ proc[n] = "alive" /\ proc' = [proc EXCEPT ![n] = "dead"]
      /\ UNCHANGED <<closing, opening, reading, watched, armed, ops, settles, stray>> /\ SameRecords /\ SameReports
  BY DEF Dies, broker, history, SameRecords, SameReports
<1>2. OpsTypes' /\ OpsInv'
  BY <1>1 DEF Layer1, TypeParts, OpsTypes, OpsInv, SameRecords, Record
<1>3. \A r \in Launches : armed'[r] <= armed[r]
  BY <1>1 DEF Layer1, TypeParts, WaitTypes
<1>4. /\ settles' \subseteq [n : Launches, failed : BOOLEAN] /\ \A s \in settles' : Exists(s.n)
      /\ reading' \subseteq Launches /\ \A m \in reading' : Exists(m)
  BY <1>1 DEF Layer1, TypeParts, WaitTypes, HeldInv
<1>5. closing' \in BOOLEAN /\ stray' \in BOOLEAN /\ armed' \in [Launches -> Nat]
  BY <1>1 DEF Layer1, TypeParts, BrokerTypes, ReportTypes, WaitTypes
<1> QED
  BY <1>1, <1>2, <1>3, <1>4, <1>5, QuietLayer1

\* Requests that only move.
LEMMA BeginsLayer1 ==
  ASSUME Layer1, NEW c \in Callers, NEW kind \in {"stop", "restart"}, Start(c) \/ StopOrRestart(c, kind)
  PROVE  Layer1'
<1>1. /\ up /\ UNCHANGED <<closing, opening, watched, armed, proc, settles, stray>> /\ SameRecords /\ SameReports
  BY DEF Start, StopOrRestart, Serving, outside, history, SameRecords, SameReports
<1>2. current \in 0..MaxLaunches /\ (current # 0 => Record(current))
  BY DEF Layer1, TypeParts, BrokerTypes, RecordTypes, Record, Launches
<1>3. /\ OpsTypes' /\ OpsInv'
      /\ reading' \subseteq Launches /\ \A n \in reading' : Exists(n)
  <2>1. CASE Start(c)
    <3>1. Begin(c, "start", current) /\ \A d \in Callers : ops[d].kind # "start"
      BY <2>1 DEF Start
    <3> QED
      BY <1>1, <1>2, <3>1, RequestBegins
  <2>2. CASE StopOrRestart(c, kind)
    <3>1. Begin(c, kind, current) /\ current # 0
      BY <2>2 DEF StopOrRestart
    <3> QED
      BY <1>1, <1>2, <3>1, RequestBegins
  <2> QED
    BY <2>1, <2>2
<1> QED
  BY <1>1, <1>3, QuietLayer1 DEF Layer1, TypeParts, BrokerTypes, WaitTypes, ReportTypes, HeldInv

LEMMA ShutdownLayer1 == ASSUME Layer1, NEW c \in Callers, Shutdown(c) PROVE Layer1'
<1>1. /\ up /\ closing' = TRUE
      /\ UNCHANGED <<opening, watched, armed, proc, settles, stray>> /\ SameRecords /\ SameReports
  BY DEF Shutdown, Serving, outside, history, SameRecords, SameReports
<1>2. current \in 0..MaxLaunches /\ (current # 0 => Record(current))
  BY DEF Layer1, TypeParts, BrokerTypes, RecordTypes, Record, Launches
<1>3. /\ OpsTypes' /\ OpsInv'
      /\ reading' \subseteq Launches /\ \A n \in reading' : Exists(n)
  <2> DEFINE v == [kind |-> "shutdown", pc |-> "drain", rec |-> current, gen |-> 0, pid |-> 0]
  <2>1. CASE ops' = [ops EXCEPT ![c] = v] /\ UNCHANGED reading
    <3>1. v \in Requests /\ v.kind = "shutdown" /\ v.pc = "drain" /\ v.rec = current
      BY <1>2, BrokerAssumption DEF Requests
    <3> HIDE DEF v
    <3>2. Placed(v, current, closing')
      BY <1>1, <1>2, <3>1, KindFacts DEF Placed
    <3>3. (\A p : Record(p) => Record(p)') /\ current' = current
      BY <1>1 DEF SameRecords, Record
    <3>4. OpsTypes' /\ OpsInv'
      BY <1>1, <2>1, <3>1, <3>2, <3>3, OneRequest DEF Layer1, TypeParts
    <3> QED
      BY <2>1, <3>4 DEF Layer1, TypeParts, WaitTypes, HeldInv
  <2>2. CASE Begin(c, "shutdown", current) /\ current # 0
    BY <1>1, <1>2, <2>2, RequestBegins
  <2> QED
    BY <2>1, <2>2 DEF Shutdown
<1>4. closing' \in BOOLEAN
  BY <1>1
<1> QED
  BY <1>1, <1>3, <1>4, QuietLayer1 DEF Layer1, TypeParts, BrokerTypes, WaitTypes, ReportTypes, HeldInv

LEMMA MovesLayer1 ==
  ASSUME Layer1, NEW c \in Callers,
         StartChecks(c) \/ Waited(c) \/ OpensNothing(c) \/ Kill(c) \/ Drained(c)
  PROVE  Layer1'
<1>1. /\ UNCHANGED <<closing, opening, reading, watched, settles, stray>> /\ SameRecords /\ SameReports
      /\ ops[c].kind # "idle"
  BY KindFacts DEF StartChecks, Waited, OpensNothing, Kill, Drained, Refreshed, outside, history,
     SameRecords, SameReports
<1>2. ops[c] # Idle /\ ops[c] \in Requests /\ up
  BY <1>1, KindFacts DEF Layer1, TypeParts, OpsTypes, DownInv
<1>3. (\A p : Record(p) => Record(p)') /\ UNCHANGED <<current, closing>>
  BY <1>1 DEF SameRecords, Record
<1>4. /\ ops[c].pc \in Steps[ops[c].kind] /\ (ops[c].rec # 0 => Record(ops[c].rec))
      /\ (ops[c].rec = 0 => ops[c].kind = "start" \/ ops[c].pc \in {"drain", "exit"})
  BY <1>2 DEF Layer1, OpsInv
<1>5. Ends(c) => OpsTypes' /\ OpsInv'
  BY <1>3, RequestEnds DEF Layer1, TypeParts
<1>6. ASSUME NEW pc, Goes(c, pc), pc \in Steps[ops[c].kind],
             ops[c].rec = 0 => ops[c].kind = "start" \/ pc \in {"drain", "exit"}
      PROVE  OpsTypes' /\ OpsInv'
  BY <1>2, <1>3, <1>6, RequestGoes DEF Layer1, TypeParts
<1>7. OpsTypes' /\ OpsInv'
  <2>1. CASE StartChecks(c)
    BY <1>5, <1>6, <2>1, KindFacts DEF StartChecks
  <2>2. CASE Waited(c)
    BY <1>4, <1>5, <1>6, <2>2, KindFacts, <1>2 DEF Waited, AfterStop
  <2>3. CASE OpensNothing(c)
    BY <1>5, <2>3 DEF OpensNothing
  <2>4. CASE Kill(c)
    BY <1>2, <1>4, <1>6, <2>4, KindFacts DEF Kill
  <2>5. CASE Drained(c)
    BY <1>6, <2>5, KindFacts DEF Drained
  <2> QED
    BY <2>1, <2>2, <2>3, <2>4, <2>5
<1>8. armed' \in [Launches -> Nat] /\ \A r \in Launches : armed'[r] <= armed[r]
  <2>1. armed \in [Launches -> Nat]
    BY DEF Layer1, TypeParts, WaitTypes
  <2>2. UNCHANGED armed \/ \E r : armed' = Disarmed(r)
    BY DEF StartChecks, Waited, OpensNothing, Kill, Drained
  <2> QED
    BY <2>1, <2>2 DEF Disarmed
<1>9. UNCHANGED proc \/ \E n : proc' = [proc EXCEPT ![n] = "dead"]
  BY DEF StartChecks, Waited, OpensNothing, Kill, Drained, outside
<1> QED
  BY <1>1, <1>2, <1>7, <1>8, <1>9, QuietLayer1 DEF Layer1, TypeParts, BrokerTypes, WaitTypes, ReportTypes, HeldInv

-----------------------------------------------------------------------------
(* The steps that change a record.                                         *)

\* The record x keeps its generation, or is launched.
Numbered(r, x) ==
    \/ /\ UNCHANGED <<owner, launches>> /\ x.gen <= launches /\ owner[x.gen] = r /\ r <= launches
    \/ /\ x.gen = launches + 1 /\ launches' = launches + 1 /\ launches' \in Launches /\ r <= launches + 1
       /\ owner' = [owner EXCEPT ![x.gen] = r]

LEMMA UpdateNumbers ==
  ASSUME Layer1, NEW r, NEW x, Update(r, x), Numbered(r, x), UNCHANGED meta,
         proc' \in [Launches -> {"none", "alive", "dead"}],
         \A n \in Launches : n > launches' => proc'[n] # "alive" /\ n \notin ended' \cup lost',
         current' \in {current, r}, up'
  PROVE  /\ RecordTypes' /\ DiskTypes' /\ NumberInv' /\ launches' \in 0..MaxLaunches
         /\ \A n \in Launches : Exists(n) => Exists(n)'
         /\ Exists(x.gen)' /\ x.gen \in Launches
<1> USE DEF Layer1, TypeParts
<1>1. /\ recs' \in [Launches -> Records \cup {NoRecord}] /\ writes' \in [Launches -> Seq(Metas)]
      /\ r \in Launches /\ x \in Records /\ recs'[r] = x /\ Record(r)'
      /\ \A p \in Launches : p # r => recs'[p] = recs[p] /\ writes'[p] = writes[p]
                                      /\ Queue(p)' = Queue(p) /\ (Record(p)' <=> Record(p))
      /\ \A p : Record(p) => Record(p)'
      /\ \A m \in Queue(r)' : m \in Queue(r) \/ Like(m, x)
  BY UpdateFacts
<1>2. x.gen \in Launches
  BY <1>1 DEF Records
<1>3. launches \in Nat /\ launches' \in Nat /\ launches <= launches' /\ launches' \in 0..MaxLaunches
  BY BrokerAssumption DEF Numbered, BrokerTypes, Launches
<1>4. owner \in [Launches -> 0..MaxLaunches] /\ owner' \in [Launches -> 0..MaxLaunches]
  <2>1. owner \in [Launches -> 0..MaxLaunches] /\ r \in 0..MaxLaunches
    BY <1>1, BrokerAssumption DEF RecordTypes, Launches
  <2>2. owner' = owner \/ owner' = [owner EXCEPT ![x.gen] = r]
    BY DEF Numbered
  <2> QED
    BY <2>1, <2>2
<1>5. owner'[x.gen] = r /\ x.gen <= launches' /\ r <= launches'
  BY <1>2, <1>3, <1>4 DEF Numbered
<1>6. \A n \in Launches : n <= launches => owner'[n] = owner[n]
  BY <1>2, <1>3, <1>4 DEF Numbered, Launches
<1>7. RecordTypes'
  <2>1. current' # 0 => recs'[current'] \in Records
    <3>1. CASE current' = r
      BY <1>1, <3>1
    <3>2. CASE current' = current /\ current # r
      BY <1>1, <3>2, BrokerAssumption DEF RecordTypes, BrokerTypes, Launches
    <3> QED
      BY <3>1, <3>2
  <2> QED
    BY <1>1, <1>4, <2>1 DEF RecordTypes
<1>8. DiskTypes'
  BY <1>1 DEF DiskTypes
<1>9. ASSUME NEW n \in Launches, Exists(n) PROVE Exists(n)'
  <2>1. n <= launches /\ Record(owner[n]) /\ owner'[n] = owner[n]
    BY <1>6, <1>9 DEF Exists
  <2>2. Record(owner[n])'
    <3>1. \A p : p = owner'[n] => Record(p)'
      BY <1>1, <2>1
    <3> QED
      BY <3>1 DEF Record
  <2>3. n <= launches'
    BY <1>3, <2>1 DEF Launches
  <2> QED
    BY <2>2, <2>3 DEF Exists
<1>10. Exists(x.gen)'
  BY <1>1, <1>5 DEF Exists, Record
<1>11. NumberInv'
  <2>1. ASSUME NEW p \in Launches, Record(p)'
        PROVE  p <= launches' /\ recs'[p].gen <= launches' /\ owner'[recs'[p].gen] = p
    <3>1. CASE p = r
      BY <1>1, <1>5, <3>1
    <3>2. CASE p # r
      <4>1. Record(p) /\ recs'[p] = recs[p] /\ recs[p].gen \in Launches
        BY <1>1, <2>1, <3>2 DEF Record, Records
      <4> QED
        BY <1>3, <1>6, <4>1 DEF NumberInv, Launches
    <3> QED
      BY <3>1, <3>2
  <2>2. ASSUME NEW p \in Launches, NEW m \in Queue(p)' PROVE owner'[m.gen] = p /\ m.gen <= launches'
    <3>1. ASSUME m \in Queue(p) PROVE owner'[m.gen] = p /\ m.gen <= launches'
      <4>1. m.gen \in Launches
        <5>1. PICK k \in DOMAIN writes[p] : m = writes[p][k]
          BY <3>1 DEF Queue
        <5>2. m \in Metas
          BY <5>1 DEF DiskTypes
        <5> QED
          BY <5>2 DEF Metas
      <4>2. owner[m.gen] = p /\ m.gen <= launches
        BY <3>1 DEF NumberInv
      <4> QED
        BY <1>3, <1>6, <4>1, <4>2 DEF Launches
    <3>2. CASE p = r
      <4>1. m \in Queue(p) \/ m.gen = x.gen
        BY <1>1, <3>2, <2>2 DEF Like
      <4> QED
        BY <1>5, <3>1, <3>2, <4>1
    <3>3. CASE p # r
      BY <1>1, <2>2, <3>1, <3>3
    <3> QED
      BY <3>2, <3>3
  <2>3. meta'.gen <= launches'
    <3>1. meta.gen \in Nat
      BY DEF DiskTypes, Metas, NoMeta, Launches
    <3> QED
      BY <1>3, <3>1 DEF NumberInv
  <2> QED
    BY <2>1, <2>2, <2>3 DEF NumberInv
<1> QED
  BY <1>2, <1>3, <1>7, <1>8, <1>9, <1>10, <1>11

LEMMA UpdateLayer1 ==
  ASSUME Layer1, NEW r, NEW x, Update(r, x), Numbered(r, x), UNCHANGED <<meta, deaths, scope>>,
         proc' \in [Launches -> {"none", "alive", "dead"}],
         \A n \in Launches : n > launches' => proc'[n] # "alive" /\ n \notin ended' \cup lost',
         current' \in {current, r}, up', closing' \in BOOLEAN, ReportTypes', OpsTypes', OpsInv',
         opening' \cup watched' \cup reading' \subseteq Launches,
         \A n \in opening' \cup watched' \cup reading' : Exists(n) \/ n = x.gen,
         settles' \subseteq [n : Launches, failed : BOOLEAN], \A s \in settles' : Exists(s.n) \/ s.n = x.gen,
         \A i \in telling' : i \in telling \/ i[1] = x.gen,
         armed' \in [Launches -> Nat], \A p \in Launches : p # r => armed'[p] = armed[p]
  PROVE  Layer1'
<1>1. /\ RecordTypes' /\ DiskTypes' /\ NumberInv' /\ launches' \in 0..MaxLaunches
      /\ \A n \in Launches : Exists(n) => Exists(n)'
      /\ Exists(x.gen)' /\ x.gen \in Launches
  BY UpdateNumbers
<1>2. BrokerTypes'
  <2>1. current' \in 0..MaxLaunches
    BY BrokerAssumption DEF Update, Layer1, TypeParts, BrokerTypes, Launches
  <2>2. up' \in BOOLEAN
    OBVIOUS
  <2> QED
    BY <1>1, <2>1, <2>2 DEF Layer1, TypeParts, BrokerTypes
<1>5. WaitTypes'
  BY DEF Layer1, TypeParts, WaitTypes
<1>6. HeldInv'
  <2>1. ASSUME NEW p \in Launches, armed'[p] > 0 \/ writes'[p] # <<>> PROVE Record(p)'
    <3>1. /\ Record(r)'
          /\ \A q \in Launches : q # r => recs'[q] = recs[q] /\ writes'[q] = writes[q]
                                          /\ Queue(q)' = Queue(q) /\ (Record(q)' <=> Record(q))
      BY UpdateFacts DEF Layer1, TypeParts
    <3> QED
      BY <2>1, <3>1 DEF Layer1, HeldInv
  <2>2. \A n \in opening' \cup reading' \cup watched' : Exists(n)'
    BY <1>1
  <2>3. \A s \in settles' : Exists(s.n)'
    BY <1>1
  <2>4. \A i \in telling' : Exists(i[1])'
    <3>1. \A i \in Ids : i[1] \in Launches
      BY DEF Ids
    <3> QED
      BY <1>1, <3>1 DEF Layer1, TypeParts, ReportTypes, HeldInv
  <2> QED
    BY <2>1, <2>2, <2>3, <2>4 DEF HeldInv
<1>7. EmptyDown' /\ DownInv'
  BY DEF EmptyDown, DownInv
<1> QED
  BY <1>1, <1>2, <1>5, <1>6, <1>7 DEF Layer1, TypeParts

\* The records a step leaves: a process, an end or a restart, a stop, a completion less.
WithProcess(x, n)  == [x EXCEPT !.proc = n, !.pid = n]
Restarting(x)      == [[x EXCEPT !.proc = 0, !.pid = 0] EXCEPT !.state = "restarting", !.timer = TRUE]
Ended(x, report)   == [[x EXCEPT !.proc = 0, !.pid = 0] EXCEPT !.state = "ended", !.pend = @ \cup report]
CalledOff(x)       == [x EXCEPT !.stop = TRUE, !.timer = FALSE, !.state = "ended"]
Stopping(x)        == [x EXCEPT !.stop = TRUE, !.state = "stopping"]
Acknowledged(x, i) == [x EXCEPT !.pend = @ \ {i}]

LEMMA Editing ==
  ASSUME NEW x \in Records, NEW e, IsRecord(e), e.gen = x.gen,
         e.state \in States, e.stop \in BOOLEAN, e.timer \in BOOLEAN,
         e.proc \in 0..MaxLaunches, e.pid \in 0..MaxLaunches, e.pend \subseteq Ids
  PROVE  e \in Records
<1>1. e.gen \in Launches
  BY DEF Records
<1> QED
  BY <1>1, RecordForm, Zenon

LEMMA WithProcessFacts ==
  ASSUME NEW x \in Records, NEW n \in Launches
  PROVE  LET e == WithProcess(x, n) IN
         /\ e \in Records /\ e.gen = x.gen /\ e.state = x.state /\ e.stop = x.stop
         /\ e.timer = x.timer /\ e.pend = x.pend /\ e.pid = n
<1> DEFINE e == WithProcess(x, n)
<1>1. e = [x EXCEPT !.proc = n, !.pid = n]
  BY DEF WithProcess
<1> HIDE DEF e
<1>2. /\ e.gen = x.gen /\ e.state = x.state /\ e.stop = x.stop /\ e.timer = x.timer
      /\ e.pend = x.pend /\ e.pid = n /\ e.proc = n
  BY <1>1 DEF Records
<1>3. IsRecord(e)
  BY <1>1 DEF IsRecord, Records
<1>4. n \in 0..MaxLaunches /\ x.stop \in BOOLEAN /\ x.timer \in BOOLEAN /\ x.pend \subseteq Ids /\ x.state \in States
  BY BrokerAssumption DEF Records, Launches
<1>5. e \in Records
  BY <1>2, <1>3, <1>4, Editing, Zenon
<1> QED
  BY <1>2, <1>5 DEF e

LEMMA RestartingFacts ==
  ASSUME NEW x \in Records
  PROVE  LET e == Restarting(x) IN
         /\ e \in Records /\ e.gen = x.gen /\ e.state = "restarting" /\ e.stop = x.stop
         /\ e.timer = TRUE /\ e.pend = x.pend /\ e.pid = 0
<1> DEFINE y == [x EXCEPT !.proc = 0, !.pid = 0]
           e == Restarting(x)
<1>1. e = [y EXCEPT !.state = "restarting", !.timer = TRUE] /\ y = [x EXCEPT !.proc = 0, !.pid = 0]
  BY DEF Restarting
<1> HIDE DEF e, y
<1>2. /\ y.gen = x.gen /\ y.state = x.state /\ y.stop = x.stop /\ y.timer = x.timer
      /\ y.pend = x.pend /\ y.pid = 0 /\ y.proc = 0 /\ IsRecord(y)
  BY <1>1 DEF Records, IsRecord
<1>3. /\ e.gen = x.gen /\ e.state = "restarting" /\ e.stop = x.stop /\ e.timer = TRUE
      /\ e.pend = x.pend /\ e.pid = 0 /\ e.proc = 0
  BY <1>1, <1>2 DEF IsRecord
<1>4. IsRecord(e)
  BY <1>1, <1>2 DEF IsRecord
<1>5. 0 \in 0..MaxLaunches /\ x.stop \in BOOLEAN /\ x.pend \subseteq Ids /\ "restarting" \in States
  BY BrokerAssumption DEF Records, States
<1>6. e \in Records
  BY <1>3, <1>4, <1>5, Editing, Zenon
<1> QED
  BY <1>3, <1>6, Zenon DEF e

LEMMA EndedFacts ==
  ASSUME NEW x \in Records, NEW report \in SUBSET Ids
  PROVE  LET e == Ended(x, report) IN
         /\ e \in Records /\ e.gen = x.gen /\ e.state = "ended" /\ e.stop = x.stop
         /\ e.timer = x.timer /\ e.pend = x.pend \cup report /\ e.pid = 0
<1> DEFINE y == [x EXCEPT !.proc = 0, !.pid = 0]
           e == Ended(x, report)
<1>1. e = [y EXCEPT !.state = "ended", !.pend = y.pend \cup report] /\ y = [x EXCEPT !.proc = 0, !.pid = 0]
  BY DEF Ended
<1> HIDE DEF e, y
<1>2. /\ y.gen = x.gen /\ y.state = x.state /\ y.stop = x.stop /\ y.timer = x.timer
      /\ y.pend = x.pend /\ y.pid = 0 /\ y.proc = 0 /\ IsRecord(y)
  BY <1>1 DEF Records, IsRecord
<1>3. /\ e.gen = x.gen /\ e.state = "ended" /\ e.stop = x.stop /\ e.timer = x.timer
      /\ e.pend = x.pend \cup report /\ e.pid = 0 /\ e.proc = 0
  BY <1>1, <1>2 DEF IsRecord
<1>4. IsRecord(e)
  BY <1>1, <1>2 DEF IsRecord
<1>5. 0 \in 0..MaxLaunches /\ x.stop \in BOOLEAN /\ x.timer \in BOOLEAN /\ "ended" \in States
      /\ x.pend \cup report \subseteq Ids
  BY BrokerAssumption DEF Records, States
<1>6. e \in Records
  BY <1>3, <1>4, <1>5, Editing, Zenon
<1> QED
  BY <1>3, <1>6, Zenon DEF e

LEMMA CalledOffFacts ==
  ASSUME NEW x \in Records
  PROVE  LET e == CalledOff(x) IN
         /\ e \in Records /\ e.gen = x.gen /\ e.state = "ended" /\ e.stop
         /\ ~e.timer /\ e.pend = x.pend /\ e.pid = x.pid
<1> DEFINE e == CalledOff(x)
<1>1. e = [x EXCEPT !.stop = TRUE, !.timer = FALSE, !.state = "ended"]
  BY DEF CalledOff
<1> HIDE DEF e
<1>2. /\ e.gen = x.gen /\ e.state = "ended" /\ e.stop = TRUE /\ e.timer = FALSE
      /\ e.pend = x.pend /\ e.pid = x.pid /\ e.proc = x.proc
  BY <1>1 DEF Records
<1>3. IsRecord(e)
  BY <1>1 DEF IsRecord, Records
<1>4. x.proc \in 0..MaxLaunches /\ x.pid \in 0..MaxLaunches /\ x.pend \subseteq Ids /\ "ended" \in States
  BY BrokerAssumption DEF Records, States
<1>5. e \in Records
  BY <1>2, <1>3, <1>4, Editing, Zenon
<1> QED
  BY <1>2, <1>5, Zenon DEF e

LEMMA StoppingFacts ==
  ASSUME NEW x \in Records
  PROVE  LET e == Stopping(x) IN
         /\ e \in Records /\ e.gen = x.gen /\ e.state = "stopping" /\ e.stop
         /\ e.timer = x.timer /\ e.pend = x.pend /\ e.pid = x.pid
<1> DEFINE e == Stopping(x)
<1>1. e = [x EXCEPT !.stop = TRUE, !.state = "stopping"]
  BY DEF Stopping
<1> HIDE DEF e
<1>2. /\ e.gen = x.gen /\ e.state = "stopping" /\ e.stop = TRUE /\ e.timer = x.timer
      /\ e.pend = x.pend /\ e.pid = x.pid /\ e.proc = x.proc
  BY <1>1 DEF Records
<1>3. IsRecord(e)
  BY <1>1 DEF IsRecord, Records
<1>4. x.proc \in 0..MaxLaunches /\ x.pid \in 0..MaxLaunches /\ x.pend \subseteq Ids /\ "stopping" \in States
      /\ x.timer \in BOOLEAN
  BY BrokerAssumption DEF Records, States
<1>5. e \in Records
  BY <1>2, <1>3, <1>4, Editing, Zenon
<1> QED
  BY <1>2, <1>5, Zenon DEF e

LEMMA AcknowledgedFacts ==
  ASSUME NEW x \in Records, NEW i
  PROVE  LET e == Acknowledged(x, i) IN
         /\ e \in Records /\ e.gen = x.gen /\ e.state = x.state /\ e.stop = x.stop
         /\ e.timer = x.timer /\ e.pend = x.pend \ {i} /\ e.pid = x.pid
<1> DEFINE e == Acknowledged(x, i)
<1>1. e = [x EXCEPT !.pend = x.pend \ {i}]
  BY DEF Acknowledged
<1> HIDE DEF e
<1>2. /\ e.gen = x.gen /\ e.state = x.state /\ e.stop = x.stop /\ e.timer = x.timer
      /\ e.pend = x.pend \ {i} /\ e.pid = x.pid /\ e.proc = x.proc
  BY <1>1 DEF Records
<1>3. IsRecord(e)
  BY <1>1 DEF IsRecord, Records
<1>4. /\ x.proc \in 0..MaxLaunches /\ x.pid \in 0..MaxLaunches /\ x.pend \ {i} \subseteq Ids /\ x.state \in States
      /\ x.timer \in BOOLEAN /\ x.stop \in BOOLEAN
  BY BrokerAssumption DEF Records
<1>5. e \in Records
  BY <1>2, <1>3, <1>4, Editing, Zenon
<1> QED
  BY <1>2, <1>5, Zenon DEF e

\* A timer that fired.
Untimed(x)         == [x EXCEPT !.timer = FALSE]

LEMMA UntimedFacts ==
  ASSUME NEW x \in Records
  PROVE  LET e == Untimed(x) IN
         /\ e \in Records /\ e.gen = x.gen /\ e.state = x.state /\ e.stop = x.stop
         /\ ~e.timer /\ e.pend = x.pend /\ e.pid = x.pid
<1> DEFINE e == Untimed(x)
<1>1. e = [x EXCEPT !.timer = FALSE]
  BY DEF Untimed
<1> HIDE DEF e
<1>2. /\ e.gen = x.gen /\ e.state = x.state /\ e.stop = x.stop /\ e.timer = FALSE
      /\ e.pend = x.pend /\ e.pid = x.pid /\ e.proc = x.proc
  BY <1>1 DEF Records
<1>3. IsRecord(e)
  BY <1>1 DEF IsRecord, Records
<1>4. /\ x.proc \in 0..MaxLaunches /\ x.pid \in 0..MaxLaunches /\ x.pend \subseteq Ids /\ x.state \in States
      /\ x.stop \in BOOLEAN
  BY DEF Records
<1>5. e \in Records
  BY <1>2, <1>3, <1>4, Editing, Zenon
<1> QED
  BY <1>2, <1>5, Zenon DEF e

LEMMA RecordOf ==
  ASSUME Layer1, NEW n \in Launches, Exists(n)
  PROVE  owner[n] \in Launches /\ recs[owner[n]] \in Records /\ owner[n] <= launches /\ n <= launches
  BY DEF Layer1, Exists, Record, NumberInv

LEMMA SameOps ==
  ASSUME Layer1, UNCHANGED <<ops, current, closing>>, \A p : Record(p) => Record(p)'
  PROVE  OpsTypes' /\ OpsInv'
<1>1. OpsTypes'
  BY DEF Layer1, TypeParts, OpsTypes
<1>2. ASSUME NEW d \in Callers, ops[d] # Idle, ops[d].rec # 0 PROVE Record(ops[d].rec)'
  <2>1. Record(ops[d].rec)
    BY <1>2 DEF Layer1, OpsInv
  <2>2. \A p : p = ops[d].rec => Record(p)'
    BY <2>1
  <2>3. ops'[d].rec = ops[d].rec
    OBVIOUS
  <2> QED
    BY <2>2, <2>3 DEF Record
<1> QED
  BY <1>1, <1>2 DEF Layer1, OpsInv

LEMMA OpenedLayer1 == ASSUME Layer1, NEW n \in Launches, Opened(n) PROVE Layer1'
<1> SUFFICES ASSUME NEW r, r = owner[n], NEW x, x = WithProcess(recs[r], n) PROVE Layer1'
  OBVIOUS
<1>1. /\ n \in opening /\ opening' = opening \ {n} /\ up
      /\ proc' = [proc EXCEPT ![n] = "alive"] /\ watched' = watched \cup {n}
      /\ Save(r, x)
      /\ UNCHANGED <<up, closing, current, owner, launches, reading, settles, armed, ops, telling, box,
                     meta, seen, deaths, scope, asked, ended, stray, lost, unsaved>>
  BY DEF Opened, history, WithProcess, Layer1, TypeParts, EmptyDown
<1>2. Exists(n)
  BY <1>1 DEF Layer1, HeldInv
<1>3. r \in Launches /\ recs[r] \in Records /\ r <= launches /\ n <= launches
  BY <1>2, RecordOf
<1>4. x \in Records /\ x.gen = recs[r].gen
  BY <1>3, WithProcessFacts
<1>5. recs[r].gen <= launches /\ owner[recs[r].gen] = r
  BY <1>3 DEF Layer1, NumberInv, Record
<1>6. Update(r, x) /\ Numbered(r, x)
  BY <1>1, <1>3, <1>4, <1>5, SaveUpdates DEF Layer1, TypeParts, Numbered
<1>7. \A p : Record(p) => Record(p)'
  BY <1>6, UpdateFacts DEF Layer1, TypeParts
<1>8. OpsTypes' /\ OpsInv'
  BY <1>1, <1>7, SameOps
<1>9. ReportTypes' /\ closing' \in BOOLEAN
  BY <1>1 DEF Layer1, TypeParts, BrokerTypes, ReportTypes
<1>10. proc' \in [Launches -> {"none", "alive", "dead"}]
  BY <1>1 DEF Layer1, TypeParts, DiskTypes
<1>11. \A m \in Launches : m > launches' => proc'[m] # "alive" /\ m \notin ended' \cup lost'
  <2>1. proc \in [Launches -> {"none", "alive", "dead"}]
    BY DEF Layer1, TypeParts, DiskTypes
  <2>2. \A m \in Launches : m > launches => proc[m] # "alive" /\ m \notin ended \cup lost
    BY DEF Layer1, NumberInv
  <2>3. launches \in Nat /\ \A m \in Launches : m > launches => m # n
    BY <1>3, BrokerAssumption DEF Layer1, TypeParts, BrokerTypes, Launches
  <2> QED
    BY <1>1, <2>1, <2>2, <2>3
<1>12. armed' \in [Launches -> Nat] /\ \A p \in Launches : p # r => armed'[p] = armed[p]
  BY <1>1 DEF Layer1, TypeParts, WaitTypes
<1>13. /\ opening' \cup watched' \cup reading' \subseteq Launches
       /\ \A m \in opening' \cup watched' \cup reading' : Exists(m)
       /\ settles' \subseteq [n : Launches, failed : BOOLEAN] /\ \A s \in settles' : Exists(s.n)
  BY <1>1, <1>2 DEF Layer1, TypeParts, WaitTypes, HeldInv
<1> QED
  BY <1>1, <1>6, <1>8, <1>9, <1>10, <1>11, <1>12, <1>13, UpdateLayer1

\* Completions that end now are of this life.
LEMMA IdFacts ==
  ASSUME BrokerTypes, NEW n \in Launches
  PROVE  /\ <<n, deaths>> \in Ids /\ <<n, deaths>>[1] = n /\ <<n, deaths>>[2] = deaths
         /\ \A i \in Ids : i[1] \in Launches /\ i[2] \in 0..MaxDeaths /\ i = <<i[1], i[2]>>
  BY DEF BrokerTypes, Ids

\* What a settlement leaves of the record x of launch n: a restart, or an end and its report.
SettlesTo(n, x, e, report) ==
    \/ e = Restarting(x) /\ report = {} /\ RestartsOn(x, TRUE)
       /\ armed' = [armed EXCEPT ![owner[n]] = @ + 1] /\ UNCHANGED <<telling, ended>>
    \/ e = Ended(x, report) /\ report = (IF x.stop THEN {} ELSE {<<n, deaths>>})
       /\ telling' = telling \cup report /\ ended' = ended \cup Of(report) /\ UNCHANGED armed

LEMMA SettleDoes ==
  ASSUME NEW s, NEW x, Settle(s, x)
  PROVE  \E e, report : SettlesTo(s.n, x, e, report) /\ Save(owner[s.n], e)
<1>1. CASE RestartsOn(x, s.failed)
  <2>1. Save(owner[s.n], Restarting(x)) /\ armed' = [armed EXCEPT ![owner[s.n]] = @ + 1] /\ UNCHANGED <<telling, ended>>
    BY <1>1 DEF Settle, Restarting
  <2>2. RestartsOn(x, TRUE)
    BY <1>1 DEF RestartsOn
  <2>3. SettlesTo(s.n, x, Restarting(x), {})
    BY <2>1, <2>2 DEF SettlesTo
  <2> QED
    BY <2>1, <2>3
<1>2. CASE ~RestartsOn(x, s.failed)
  <2> DEFINE report == IF x.stop THEN {} ELSE {<<s.n, deaths>>}
  <2>1. Save(owner[s.n], Ended(x, report)) /\ telling' = telling \cup report /\ ended' = ended \cup Of(report)
        /\ UNCHANGED armed
    BY <1>2 DEF Settle, Ended
  <2>2. SettlesTo(s.n, x, Ended(x, report), report)
    BY <2>1 DEF SettlesTo
  <2> QED
    BY <2>1, <2>2
<1> QED
  BY <1>1, <1>2

\* A settlement, of the record e it leaves and the completion it reports.
Settled1(n, r, e, report) ==
    /\ Exists(n) /\ n \in Launches /\ r = owner[n] /\ recs[r] \in Records /\ recs[r].gen = n
    /\ ~Settled(recs[r].state)
    /\ SettlesTo(n, recs[r], e, report) /\ Save(r, e) /\ up
    /\ report \subseteq {<<n, deaths>>} /\ e \in Records /\ e.gen = n /\ e.pid = 0
    /\ e.pend = recs[r].pend \cup report /\ e.stop = recs[r].stop
    /\ (e.state = "ended" /\ e.timer = recs[r].timer) \/ (e.state = "restarting" /\ e.timer /\ report = {})

LEMMA SettlesDoes ==
  ASSUME Layer1, NEW s, Settles(s)
  PROVE  /\ s \in settles /\ settles' = settles \ {s} /\ up
         /\ UNCHANGED <<up, closing, current, owner, launches, opening, reading, watched, ops, box,
                        proc, meta, seen, deaths, scope, asked, stray, lost, unsaved>>
         /\ \/ UNCHANGED <<recs, writes, armed, telling, ended>>
            \/ \E r, e, report : Settled1(s.n, r, e, report)
<1>1. /\ s \in settles /\ settles' = settles \ {s} /\ up
      /\ UNCHANGED <<up, closing, current, owner, launches, opening, reading, watched, ops, box,
                     proc, meta, seen, deaths, scope, asked, stray, lost, unsaved>>
  BY DEF Settles, Layer1, TypeParts, EmptyDown
<1>2. Exists(s.n) /\ s.n \in Launches
  BY <1>1 DEF Layer1, TypeParts, WaitTypes, HeldInv
<1>3. CASE ~Unsettled(s.n)
  BY <1>1, <1>3 DEF Settles
<1>4. CASE Unsettled(s.n)
  <2> DEFINE n == s.n
             x == recs[owner[s.n]]
  <2>1. x \in Records /\ owner[n] \in Launches /\ x.gen = n /\ ~Settled(x.state)
    BY <1>2, <1>4, RecordOf DEF Unsettled
  <2>2. Settle(s, x)
    BY <1>4 DEF Settles
  <2>3. PICK e, report : SettlesTo(n, x, e, report) /\ Save(owner[n], e)
    BY <2>2, SettleDoes
  <2>4. report \subseteq {<<n, deaths>>} /\ report \subseteq Ids
    BY <1>2, <2>3, IdFacts DEF SettlesTo, Layer1, TypeParts
  <2>5. e \in Records /\ e.gen = n /\ e.pid = 0 /\ e.pend = x.pend \cup report /\ e.stop = x.stop
        /\ ((e.state = "ended" /\ e.timer = x.timer) \/ (e.state = "restarting" /\ e.timer /\ report = {}))
    <3>1. CASE e = Restarting(x) /\ report = {}
      BY <2>1, <3>1, RestartingFacts
    <3>2. CASE e = Ended(x, report)
      BY <2>1, <2>4, <3>2, EndedFacts
    <3> QED
      BY <2>3, <3>1, <3>2 DEF SettlesTo
  <2>6. Settled1(n, owner[n], e, report)
    BY <1>1, <1>2, <2>1, <2>3, <2>4, <2>5 DEF Settled1
  <2> QED
    BY <1>1, <2>6
<1> QED
  BY <1>3, <1>4

LEMMA SettlesLayer1 == ASSUME Layer1, NEW s, Settles(s) PROVE Layer1'
<1>1. /\ s \in settles /\ settles' = settles \ {s} /\ up
      /\ UNCHANGED <<up, closing, current, owner, launches, opening, reading, watched, ops, box,
                     proc, meta, seen, deaths, scope, asked, stray, lost, unsaved>>
      /\ \/ UNCHANGED <<recs, writes, armed, telling, ended>>
         \/ \E r, e, report : Settled1(s.n, r, e, report)
  BY SettlesDoes
<1>2. settles' \subseteq [n : Launches, failed : BOOLEAN] /\ \A t \in settles' : Exists(t.n)
  BY <1>1 DEF Layer1, TypeParts, WaitTypes, HeldInv
<1>3. /\ opening' \cup watched' \cup reading' \subseteq Launches
      /\ \A m \in opening' \cup watched' \cup reading' : Exists(m)
  BY <1>1 DEF Layer1, TypeParts, WaitTypes, HeldInv
<1>4. CASE UNCHANGED <<recs, writes, armed, telling, ended>>
  <2>1. SameRecords /\ SameReports
    BY <1>1, <1>4 DEF SameRecords, SameReports
  <2>2. OpsTypes' /\ OpsInv'
    BY <1>1, <2>1 DEF Layer1, TypeParts, OpsTypes, OpsInv, SameRecords, Record
  <2> QED
    BY <1>1, <1>2, <1>3, <1>4, <2>1, <2>2, QuietLayer1 DEF Layer1, TypeParts, BrokerTypes, WaitTypes, ReportTypes
<1>5. CASE \E r, e, report : Settled1(s.n, r, e, report)
  <2>1. PICK n, r, e, report : n = s.n /\ Settled1(n, r, e, report)
    BY <1>5
  <2>2. /\ Exists(n) /\ n \in Launches /\ r = owner[n] /\ recs[r] \in Records /\ recs[r].gen = n
        /\ SettlesTo(n, recs[r], e, report) /\ Save(r, e)
        /\ report \subseteq {<<n, deaths>>} /\ e \in Records /\ e.gen = n
    BY <2>1 DEF Settled1
  <2>3. r \in Launches /\ r <= launches /\ n <= launches
    BY <2>2, RecordOf
  <2>4. Update(r, e) /\ Numbered(r, e)
    BY <1>1, <2>2, <2>3, SaveUpdates DEF Layer1, TypeParts, Numbered
  <2>5. \A p : Record(p) => Record(p)'
    BY <2>4, UpdateFacts DEF Layer1, TypeParts
  <2>6. OpsTypes' /\ OpsInv'
    BY <1>1, <2>5, SameOps
  <2>7. /\ report \subseteq Ids /\ Of(report) \subseteq {n} /\ \A i \in report : i[1] = n
        /\ \/ UNCHANGED <<telling, ended>> /\ armed' = [armed EXCEPT ![r] = @ + 1]
           \/ telling' = telling \cup report /\ ended' = ended \cup Of(report) /\ UNCHANGED armed
    <3>1. <<n, deaths>> \in Ids /\ <<n, deaths>>[1] = n
      BY <2>2, IdFacts DEF Layer1, TypeParts
    <3>2. report \subseteq Ids /\ Of(report) \subseteq {n} /\ \A i \in report : i[1] = n
      BY <2>2, <3>1 DEF Of
    <3>3. \/ UNCHANGED <<telling, ended>> /\ armed' = [armed EXCEPT ![r] = @ + 1]
          \/ telling' = telling \cup report /\ ended' = ended \cup Of(report) /\ UNCHANGED armed
      BY <2>2 DEF SettlesTo
    <3> QED
      BY <3>2, <3>3
  <2>8. ReportTypes' /\ closing' \in BOOLEAN
    BY <1>1, <2>2, <2>7 DEF Layer1, TypeParts, BrokerTypes, ReportTypes
  <2>9. proc' \in [Launches -> {"none", "alive", "dead"}]
    BY <1>1 DEF Layer1, TypeParts, DiskTypes
  <2>10. \A m \in Launches : m > launches' => proc'[m] # "alive" /\ m \notin ended' \cup lost'
    <3>1. \A m \in Launches : m > launches => proc[m] # "alive" /\ m \notin ended \cup lost
      BY DEF Layer1, NumberInv
    <3>2. \A m \in Launches : m > launches => m # n
      BY <2>3, BrokerAssumption DEF Layer1, TypeParts, BrokerTypes, Launches
    <3> QED
      BY <1>1, <2>7, <3>1, <3>2
  <2>11. armed' \in [Launches -> Nat] /\ \A p \in Launches : p # r => armed'[p] = armed[p]
    BY <2>3, <2>7 DEF Layer1, TypeParts, WaitTypes
  <2>12. \A i \in telling' : i \in telling \/ i[1] = e.gen
    BY <2>2, <2>7
  <2> QED
    BY <1>1, <1>2, <1>3, <2>4, <2>6, <2>8, <2>9, <2>10, <2>11, <2>12, UpdateLayer1
<1> QED
  BY <1>1, <1>4, <1>5

LEMMA OwnSaves ==
  ASSUME Layer1, NEW r, Record(r), NEW x \in Records, x.gen = recs[r].gen, Save(r, x), UNCHANGED <<owner, launches>>
  PROVE  Update(r, x) /\ Numbered(r, x) /\ r \in Launches /\ \A p : Record(p) => Record(p)'
<1>1. r \in Launches /\ recs[r].gen <= launches /\ owner[recs[r].gen] = r /\ r <= launches
  BY DEF Record, Layer1, NumberInv
<1>2. Update(r, x) /\ Numbered(r, x)
  BY <1>1, SaveUpdates DEF Layer1, TypeParts, Numbered
<1> QED
  BY <1>1, <1>2, UpdateFacts DEF Layer1, TypeParts

\* A launch, of a timer, a start or a restart.
LEMMA LaunchLayer1 ==
  ASSUME Layer1, up, NEW r \in Launches, NEW x, NEW z, Launched(r, x, z), r <= launches + 1,
         UNCHANGED <<up, closing, reading, telling, box, meta, seen, deaths, scope, asked, ended, lost, unsaved>>,
         current' \in {current, r}, OpsTypes', OpsInv', stray' \in BOOLEAN,
         armed' \in [Launches -> Nat], \A p \in Launches : p # r => armed'[p] = armed[p]
  PROVE  Layer1'
<1> DEFINE n == launches + 1
<1>1. /\ n \in Launches /\ launches' = n /\ owner' = [owner EXCEPT ![n] = r]
      /\ z \in Records /\ z.gen = n
      /\ Update(r, z)
      /\ \/ /\ opening' = opening \cup {n} /\ z.pid = 0 /\ UNCHANGED <<proc, watched, settles>>
         \/ /\ proc' = [proc EXCEPT ![n] = "alive"] /\ watched' = watched \cup {n} /\ z.pid = n
            /\ UNCHANGED <<opening, settles>>
         \/ /\ settles' = settles \cup {[n |-> n, failed |-> TRUE]} /\ z.pid = 0
            /\ UNCHANGED <<proc, watched, opening>>
  BY DEF Launched
<1>2. launches \in Nat /\ n > launches
  BY BrokerAssumption DEF Layer1, TypeParts, BrokerTypes, n
<1>3. Numbered(r, z)
  BY <1>1 DEF Numbered
<1> HIDE DEF n
<1>4. ReportTypes' /\ closing' \in BOOLEAN
  BY <1>1 DEF Layer1, TypeParts, BrokerTypes, ReportTypes
<1>5. proc \in [Launches -> {"none", "alive", "dead"}]
  BY DEF Layer1, TypeParts, DiskTypes
<1>6. proc' \in [Launches -> {"none", "alive", "dead"}]
  BY <1>1, <1>5
<1>7. \A m \in Launches : m > launches' => proc'[m] # "alive" /\ m \notin ended' \cup lost'
  <2>1. \A m \in Launches : m > launches => proc[m] # "alive" /\ m \notin ended \cup lost
    BY DEF Layer1, NumberInv
  <2>2. \A m \in Launches : m > n => m > launches /\ m # n
    BY <1>1, <1>2, BrokerAssumption DEF Launches
  <2>3. \A m \in Launches : m # n => proc'[m] = proc[m]
    BY <1>1, <1>5
  <2> QED
    BY <1>1, <2>1, <2>2, <2>3
<1>8. /\ opening' \cup watched' \cup reading' \subseteq Launches
      /\ \A m \in opening' \cup watched' \cup reading' : Exists(m) \/ m = z.gen
  BY <1>1 DEF Layer1, TypeParts, WaitTypes, HeldInv
<1>9. settles' \subseteq [n : Launches, failed : BOOLEAN] /\ \A t \in settles' : Exists(t.n) \/ t.n = z.gen
  <2> DEFINE t == [n |-> n, failed |-> TRUE]
  <2>1. t \in [n : Launches, failed : BOOLEAN] /\ t.n = n
    BY <1>1
  <2>2. settles' \subseteq settles \cup {t}
    BY <1>1
  <2> HIDE DEF t
  <2> QED
    BY <1>1, <2>1, <2>2 DEF Layer1, TypeParts, WaitTypes, HeldInv
<1> QED
  BY <1>1, <1>3, <1>4, <1>6, <1>7, <1>8, <1>9, UpdateLayer1

LEMMA LaunchKeepsRecords ==
  ASSUME Layer1, NEW r, NEW x, NEW z, Launched(r, x, z)
  PROVE  \A p : Record(p) => Record(p)'
  BY UpdateFacts DEF Layer1, TypeParts, Launched

LEMMA TimerFiresLayer1 == ASSUME Layer1, NEW r \in Launches, TimerFires(r) PROVE Layer1'
<1> SUFFICES ASSUME NEW x, x = [recs[r] EXCEPT !.timer = FALSE] PROVE Layer1'
  OBVIOUS
<1>1. /\ armed[r] > 0 /\ armed' = [armed EXCEPT ![r] = armed[r] - 1] /\ Launch(r, x)
      /\ UNCHANGED <<up, closing, current, reading, ops, telling, box, meta, seen, deaths, scope, history>>
  BY DEF TimerFires
<1>2. Record(r) /\ up /\ armed \in [Launches -> Nat]
  BY <1>1 DEF Layer1, TypeParts, WaitTypes, HeldInv, DownInv
<1>3. x \in Records /\ r <= launches + 1
  <2>1. r <= launches /\ recs[r] \in Records /\ launches \in Nat
    BY <1>2, BrokerAssumption DEF Record, Layer1, NumberInv, TypeParts, BrokerTypes
  <2>2. x \in Records
    BY <2>1, UntimedFacts DEF Untimed
  <2> QED
    BY <2>1, <2>2 DEF Launches
<1>4. PICK z \in Records : Launched(r, x, z)
  BY <1>1, <1>3, LaunchDoes DEF Layer1, TypeParts
<1>5. OpsTypes' /\ OpsInv'
  BY <1>1, <1>4, LaunchKeepsRecords, SameOps
<1>6. armed' \in [Launches -> Nat] /\ \A p \in Launches : p # r => armed'[p] = armed[p]
  BY <1>1, <1>2
<1>7. stray' \in BOOLEAN
  BY <1>1 DEF history, Layer1, TypeParts, ReportTypes
<1> QED
  BY <1>1, <1>2, <1>3, <1>4, <1>5, <1>6, <1>7, LaunchLayer1 DEF history

LEMMA RestartLaunchesLayer1 == ASSUME Layer1, NEW c \in Callers, RestartLaunches(c) PROVE Layer1'
<1> SUFFICES ASSUME NEW r, r = ops[c].rec, NEW x, x = recs[r] PROVE Layer1'
  OBVIOUS
<1>1. /\ ops[c].kind = "restart" /\ ops[c].pc = "reopen" /\ Ends(c) /\ Launch(r, x)
      /\ UNCHANGED <<up, closing, current, reading, armed, telling, box, meta, seen, deaths, scope,
                     asked, ended, lost, unsaved>>
  BY DEF RestartLaunches
<1>2. up /\ Record(r)
  <2>1. ops[c] # Idle
    BY <1>1, KindFacts
  <2> QED
    BY <1>1, <2>1 DEF Layer1, OpsInv, DownInv
<1>3. r \in Launches /\ x \in Records /\ r <= launches + 1
  BY <1>2, BrokerAssumption DEF Record, Layer1, NumberInv, TypeParts, BrokerTypes, Launches
<1>4. PICK z \in Records : Launched(r, x, z)
  BY <1>1, <1>3, LaunchDoes DEF Layer1, TypeParts
<1>5. OpsTypes' /\ OpsInv'
  BY <1>1, <1>4, LaunchKeepsRecords, RequestEnds DEF Layer1, TypeParts
<1>6. armed' \in [Launches -> Nat] /\ \A p \in Launches : p # r => armed'[p] = armed[p]
  BY <1>1 DEF Layer1, TypeParts, WaitTypes
<1>7. stray' \in BOOLEAN
  BY DEF RestartLaunches, Layer1, TypeParts, ReportTypes
<1> QED
  BY <1>1, <1>2, <1>3, <1>4, <1>5, <1>6, <1>7, LaunchLayer1

LEMMA StartLaunchesLayer1 == ASSUME Layer1, NEW c \in Callers, StartLaunches(c) PROVE Layer1'
<1> SUFFICES ASSUME NEW r, r = launches + 1 PROVE Layer1'
  OBVIOUS
<1>1. /\ ops[c].kind = "start" /\ ops[c].pc = "open" /\ Ends(c) /\ current' = r /\ Launch(r, NewRecord)
      /\ UNCHANGED <<up, closing, reading, armed, telling, box, meta, seen, deaths, scope,
                     asked, ended, lost, unsaved>>
  BY DEF StartLaunches, NewRecord
<1>2. up /\ ops[c] # Idle
  BY <1>1, KindFacts DEF Layer1, DownInv
<1>3. r \in Launches /\ r <= launches + 1
  BY <1>1, BrokerAssumption DEF Launch, Layer1, TypeParts, BrokerTypes, Launches
<1>4. PICK z \in Records : Launched(r, NewRecord, z)
  BY <1>1, <1>3, LaunchDoes DEF Layer1, TypeParts
<1>5. OpsTypes' /\ OpsInv'
  <2>1. ops \in [Callers -> Requests \cup {Idle}] /\ ops' = [ops EXCEPT ![c] = Idle]
    BY <1>1 DEF Ends, Layer1, TypeParts, OpsTypes
  <2>2. \A d \in Callers : d # c => ops'[d] = ops[d] /\ ops[d].kind # "start"
    BY <1>1, <2>1 DEF Layer1, OpsInv
  <2>3. ops'[c] = Idle /\ Idle.kind # "start"
    BY <2>1, KindFacts
  <2>4. \A p : Record(p) => Record(p)'
    BY <1>4, LaunchKeepsRecords
  <2>5. ASSUME NEW d \in Callers, ops'[d] # Idle
        PROVE  /\ ops'[d].pc \in Steps[ops'[d].kind]
               /\ ops'[d].rec # 0 => Record(ops[d].rec)'
               /\ ops'[d].rec = 0 => ops'[d].kind = "start" \/ ops'[d].pc \in {"drain", "exit"}
               /\ ops'[d].kind # "start"
               /\ ops'[d].kind = "shutdown" => closing'
    <3>1. d # c /\ ops'[d] = ops[d] /\ ops[d].kind # "start"
      BY <2>2, <2>3, <2>5
    <3> QED
      BY <1>1, <2>4, <2>5, <3>1 DEF Layer1, OpsInv
  <2>6. OpsInv'
    BY <2>2, <2>3, <2>5 DEF OpsInv
  <2>7. OpsTypes'
    BY <2>1 DEF OpsTypes
  <2> QED
    BY <2>6, <2>7
<1>6. armed' \in [Launches -> Nat] /\ \A p \in Launches : p # r => armed'[p] = armed[p]
  BY <1>1 DEF Layer1, TypeParts, WaitTypes
<1>7. stray' \in BOOLEAN
  BY DEF StartLaunches, Layer1, TypeParts, ReportTypes
<1> QED
  BY <1>1, <1>2, <1>3, <1>4, <1>5, <1>6, <1>7, LaunchLayer1

LEMMA StopRecordLayer1 == ASSUME Layer1, NEW c \in Callers, StopRecord(c) PROVE Layer1'
<1> SUFFICES ASSUME NEW r, r = ops[c].rec, NEW x, x = recs[r] PROVE Layer1'
  OBVIOUS
<1>1. /\ Refreshed(c) /\ ops[c].kind # "start"
      /\ \/ /\ AfterStop(c) /\ UNCHANGED <<recs, writes, armed, asked>>
         \/ /\ x.state # "ended" /\ AfterStop(c) /\ Save(r, CalledOff(x))
            /\ armed' = Disarmed(r) /\ asked' = asked \cup {x.gen}
         \/ /\ x.state # "ended" /\ Save(r, Stopping(x))
            /\ ops' = [ops EXCEPT ![c].pc = IF x.pid = 0 THEN "wait" ELSE "kill", ![c].pid = x.pid]
            /\ asked' = asked \cup {x.gen} /\ UNCHANGED armed
      /\ UNCHANGED <<up, closing, current, owner, launches, opening, reading, settles, watched, telling,
                     box, proc, meta, seen, deaths, scope, ended, stray, lost, unsaved>>
  BY DEF StopRecord, CalledOff, Stopping
<1>2. ops[c] # Idle /\ ops[c] \in Requests /\ up /\ ops[c].pc = "refresh" /\ ops[c].kind # "idle"
  BY <1>1, KindFacts DEF Refreshed, Layer1, TypeParts, OpsTypes, DownInv
<1>3. Record(r)
  BY <1>1, <1>2 DEF Layer1, OpsInv
<1>4. r \in Launches /\ x \in Records
  BY <1>3 DEF Record
<1>5. /\ ops[c].kind \in {"stop", "restart", "shutdown"} /\ ops[c].rec # 0
      /\ \A pc : AfterStop(c) => Ends(c) \/ (Goes(c, "reopen") /\ ops[c].kind = "restart")
                                   \/ (Goes(c, "drain") /\ ops[c].kind = "shutdown")
  <2>1. ops[c].kind \in {"stop", "restart", "shutdown"}
    BY <1>1, <1>2, KindFacts
  <2>2. ops[c].rec # 0
    BY <1>4 DEF Launches
  <2> QED
    BY <2>1, <2>2 DEF AfterStop
<1>6. ASSUME AfterStop(c), \A p : Record(p) => Record(p)' PROVE OpsTypes' /\ OpsInv'
  <2>1. UNCHANGED <<current, closing>>
    BY <1>1
  <2>2. CASE Ends(c)
    BY <1>6, <2>1, <2>2, RequestEnds DEF Layer1, TypeParts
  <2>3. CASE Goes(c, "reopen") /\ ops[c].kind = "restart"
    BY <1>2, <1>5, <1>6, <2>1, <2>3, RequestGoes, KindFacts DEF Layer1, TypeParts
  <2>4. CASE Goes(c, "drain") /\ ops[c].kind = "shutdown"
    BY <1>2, <1>5, <1>6, <2>1, <2>4, RequestGoes, KindFacts DEF Layer1, TypeParts
  <2> QED
    BY <1>5, <1>6, <2>2, <2>3, <2>4
<1>7. /\ settles' \subseteq [n : Launches, failed : BOOLEAN] /\ \A t \in settles' : Exists(t.n)
      /\ opening' \cup watched' \cup reading' \subseteq Launches
      /\ \A m \in opening' \cup watched' \cup reading' : Exists(m)
      /\ proc' \in [Launches -> {"none", "alive", "dead"}]
      /\ \A m \in Launches : m > launches' => proc'[m] # "alive" /\ m \notin ended' \cup lost'
  BY <1>1 DEF Layer1, TypeParts, WaitTypes, DiskTypes, HeldInv, NumberInv
<1>8. armed \in [Launches -> Nat] /\ asked \subseteq Launches /\ x.gen \in Launches
  BY <1>4 DEF Layer1, TypeParts, WaitTypes, ReportTypes, Records
<1>9. /\ armed' \in [Launches -> Nat] /\ \A p \in Launches : p # r => armed'[p] = armed[p]
      /\ \A p \in Launches : armed'[p] <= armed[p]
  BY <1>1, <1>4, <1>8 DEF Disarmed
<1>10. ReportTypes' /\ closing' \in BOOLEAN
  BY <1>1, <1>8 DEF Layer1, TypeParts, ReportTypes, BrokerTypes
<1>11. ASSUME NEW e \in Records, e.gen = x.gen, Save(r, e), OpsTypes' /\ OpsInv' PROVE Layer1'
  <2>1. Update(r, e) /\ Numbered(r, e)
    BY <1>1, <1>3, <1>4, <1>11, OwnSaves
  <2>2. UNCHANGED <<telling, meta, deaths, scope, up, current>>
    BY <1>1
  <2> QED
    BY <1>2, <1>7, <1>9, <1>10, <1>11, <2>1, <2>2, UpdateLayer1
<1>12. ASSUME NEW e \in Records, e.gen = x.gen, Save(r, e) PROVE \A p : Record(p) => Record(p)'
  BY <1>1, <1>3, <1>4, <1>12, OwnSaves
<1>13. CASE AfterStop(c) /\ UNCHANGED <<recs, writes, armed, asked>>
  <2>1. SameRecords /\ SameReports
    BY <1>1, <1>13 DEF SameRecords, SameReports
  <2>2. \A p : Record(p) => Record(p)'
    BY <2>1 DEF SameRecords, Record
  <2>3. OpsTypes' /\ OpsInv'
    BY <1>6, <1>13, <2>2
  <2> QED
    BY <1>1, <1>2, <1>7, <1>9, <1>10, <2>1, <2>3, QuietLayer1 DEF ReportTypes
<1>14. CASE AfterStop(c) /\ Save(r, CalledOff(x))
  <2>1. CalledOff(x) \in Records /\ CalledOff(x).gen = x.gen
    BY <1>4, CalledOffFacts
  <2> QED
    BY <1>6, <1>11, <1>12, <1>14, <2>1
<1>15. CASE Save(r, Stopping(x)) /\ ops' = [ops EXCEPT ![c].pc = IF x.pid = 0 THEN "wait" ELSE "kill", ![c].pid = x.pid]
  <2>1. Stopping(x) \in Records /\ Stopping(x).gen = x.gen
    BY <1>4, StoppingFacts
  <2>2. \A p : Record(p) => Record(p)'
    BY <1>12, <1>15, <2>1
  <2> DEFINE v == [ops[c] EXCEPT !.pc = IF x.pid = 0 THEN "wait" ELSE "kill", !.pid = x.pid]
  <2>3. ops' = [ops EXCEPT ![c] = v]
    BY <1>15 DEF Layer1, TypeParts, OpsTypes
  <2>4. v \in Requests /\ v.kind = ops[c].kind /\ v.rec = r /\ v.pc \in {"wait", "kill"}
    BY <1>2, <1>4 DEF Requests, Records
  <2> HIDE DEF v
  <2>5. Placed(v, current, closing')
    <3>1. v.pc \in Steps[v.kind]
      BY <1>5, <2>4, KindFacts
    <3>2. v.kind = "shutdown" => closing
      BY <1>2, <2>4 DEF Layer1, OpsInv
    <3> QED
      BY <1>1, <1>3, <1>5, <2>4, <3>1, <3>2 DEF Placed
  <2>6. OpsTypes' /\ OpsInv'
    BY <1>1, <2>2, <2>3, <2>4, <2>5, OneRequest DEF Layer1, TypeParts
  <2> QED
    BY <1>11, <1>15, <2>1, <2>6
<1> QED
  BY <1>1, <1>13, <1>14, <1>15

LEMMA AckLayer1 == ASSUME Layer1, NEW id \in Ids, Ack(id) PROVE Layer1'
<1> SUFFICES ASSUME NEW r, r = current, NEW x, x = Acknowledged(recs[r], id) PROVE Layer1'
  OBVIOUS
<1>1. /\ id \in box /\ box' = box \ {id} /\ up
      /\ \/ r # 0 /\ Save(r, x)
         \/ UNCHANGED <<recs, writes>>
      /\ UNCHANGED <<up, closing, current, owner, launches, opening, reading, settles, armed, watched, ops,
                     telling, proc, meta, seen, deaths, scope, asked, ended, stray, lost, unsaved>>
  BY DEF Ack, history, Acknowledged, Layer1, TypeParts, EmptyDown
<1>2. /\ settles' \subseteq [n : Launches, failed : BOOLEAN] /\ \A t \in settles' : Exists(t.n)
      /\ opening' \cup watched' \cup reading' \subseteq Launches
      /\ \A m \in opening' \cup watched' \cup reading' : Exists(m)
      /\ proc' \in [Launches -> {"none", "alive", "dead"}]
      /\ \A m \in Launches : m > launches' => proc'[m] # "alive" /\ m \notin ended' \cup lost'
      /\ armed' \in [Launches -> Nat] /\ UNCHANGED armed
  BY <1>1 DEF Layer1, TypeParts, WaitTypes, DiskTypes, HeldInv, NumberInv
<1>3. ReportTypes' /\ closing' \in BOOLEAN /\ stray' \in BOOLEAN
  BY <1>1 DEF Layer1, TypeParts, ReportTypes, BrokerTypes
<1>4. CASE r # 0 /\ Save(r, x)
  <2>1. Record(r)
    BY <1>4, BrokerAssumption DEF Layer1, TypeParts, RecordTypes, BrokerTypes, Record, Launches
  <2>2. x \in Records /\ x.gen = recs[r].gen
    BY <2>1, AcknowledgedFacts DEF Record
  <2>3. Update(r, x) /\ Numbered(r, x) /\ \A p : Record(p) => Record(p)'
    BY <1>1, <1>4, <2>1, <2>2, OwnSaves
  <2>4. OpsTypes' /\ OpsInv'
    BY <1>1, <2>3, SameOps
  <2> QED
    BY <1>1, <1>2, <1>3, <2>3, <2>4, UpdateLayer1
<1>5. CASE UNCHANGED <<recs, writes>>
  <2>1. \A p : Record(p)' <=> Record(p)
    BY <1>5 DEF Record
  <2>2. OpsTypes' /\ OpsInv'
    BY <1>1, <2>1, SameOps
  <2>3. TypeParts'
    BY <1>1, <1>5, <1>3, <2>2 DEF Layer1, TypeParts, BrokerTypes, RecordTypes, WaitTypes, DiskTypes, EmptyDown
  <2>4. HeldInv'
    BY <1>1, <1>5 DEF Layer1, HeldInv, Exists, Record
  <2>5. NumberInv'
    BY <1>1, <1>5 DEF Layer1, NumberInv, Queue, Record
  <2>6. DownInv'
    BY <1>1, <1>5 DEF Layer1, DownInv
  <2> QED
    BY <2>2, <2>3, <2>4, <2>5, <2>6 DEF Layer1
<1> QED
  BY <1>1, <1>4, <1>5

LEMMA NoticesLayer1 == ASSUME Layer1, NEW id \in Ids, Notify(id) \/ Deliver(id) PROVE Layer1'
<1>1. /\ up /\ telling' \subseteq telling /\ box' \subseteq box \cup {id} /\ seen' \subseteq seen \cup {id}
      /\ UNCHANGED <<up, closing, current, recs, owner, launches, opening, reading, settles, armed, watched,
                     ops, proc, writes, meta, deaths, scope, asked, ended, stray, lost, unsaved>>
  BY DEF Notify, Deliver, broker, outside, history, Layer1, TypeParts, EmptyDown
<1>2. TypeParts'
  BY <1>1 DEF Layer1, TypeParts, BrokerTypes, RecordTypes, WaitTypes, ReportTypes, OpsTypes, DiskTypes, EmptyDown
<1>3. HeldInv'
  BY <1>1 DEF Layer1, HeldInv, Exists, Record
<1>4. NumberInv'
  BY <1>1 DEF Layer1, NumberInv, Queue, Record
<1>5. OpsInv'
  BY <1>1 DEF Layer1, OpsInv, Record
<1>6. DownInv'
  BY <1>1 DEF Layer1, DownInv
<1> QED
  BY <1>2, <1>3, <1>4, <1>5, <1>6 DEF Layer1

LEMMA TailFacts ==
  ASSUME NEW q \in Seq(Metas), q # <<>>
  PROVE  /\ Head(q) = q[1] /\ q[1] \in Metas /\ 1 \in DOMAIN q
         /\ Tail(q) \in Seq(Metas) /\ Len(q) \in Nat \ {0} /\ Len(Tail(q)) = Len(q) - 1
         /\ \A k \in DOMAIN Tail(q) : k + 1 \in DOMAIN q /\ Tail(q)[k] = q[k + 1]
  OBVIOUS

LEMMA WriteDoes ==
  ASSUME Layer1, NEW r \in Launches, Write(r)
  PROVE  /\ writes[r] # <<>> /\ Record(r) /\ up /\ meta' \in Metas /\ meta' \in Queue(r) /\ meta' = writes[r][1]
         /\ writes' \in [Launches -> Seq(Metas)] /\ Queue(r)' \subseteq Queue(r)
         /\ writes'[r] = Tail(writes[r])
         /\ \A p \in Launches : p # r => writes'[p] = writes[p] /\ Queue(p)' = Queue(p)
         /\ unsaved' = unsaved \ meta'.pend
         /\ UNCHANGED <<broker, proc, seen, deaths, scope, asked, ended, stray, lost>>
<1>1. /\ writes[r] # <<>> /\ meta' = Head(writes[r]) /\ writes' = [writes EXCEPT ![r] = Tail(writes[r])]
      /\ unsaved' = unsaved \ meta'.pend
      /\ UNCHANGED <<broker, proc, seen, deaths, scope, asked, ended, stray, lost>>
  BY DEF Write
<1>2. writes \in [Launches -> Seq(Metas)] /\ writes[r] \in Seq(Metas)
  BY DEF Layer1, TypeParts, DiskTypes
<1>3. Record(r) /\ up
  BY <1>1 DEF Layer1, HeldInv, DownInv
<1>4. /\ Head(writes[r]) = writes[r][1] /\ writes[r][1] \in Metas /\ 1 \in DOMAIN writes[r]
      /\ Tail(writes[r]) \in Seq(Metas)
      /\ \A k \in DOMAIN Tail(writes[r]) : k + 1 \in DOMAIN writes[r] /\ Tail(writes[r])[k] = writes[r][k + 1]
  BY <1>1, <1>2, TailFacts
<1>5. /\ writes' \in [Launches -> Seq(Metas)] /\ writes'[r] = Tail(writes[r])
      /\ \A p \in Launches : p # r => writes'[p] = writes[p]
  BY <1>1, <1>2, <1>4
<1>6. Queue(r)' \subseteq Queue(r) /\ writes[r][1] \in Queue(r)
  BY <1>4, <1>5 DEF Queue
<1>7. \A p \in Launches : p # r => Queue(p)' = Queue(p)
  BY <1>5 DEF Queue
<1> QED
  BY <1>1, <1>3, <1>4, <1>5, <1>6, <1>7

LEMMA WriteFailsDoes ==
  ASSUME Layer1, NEW r \in Launches, WriteFails(r)
  PROVE  /\ writes[r] # <<>> /\ Record(r) /\ up /\ writes[r][1] \in Queue(r) /\ writes[r][1] \in Metas
         /\ writes' \in [Launches -> Seq(Metas)] /\ Queue(r)' \subseteq Queue(r)
         /\ writes'[r] = Tail(writes[r])
         /\ \A p \in Launches : p # r => writes'[p] = writes[p] /\ Queue(p)' = Queue(p)
         /\ unsaved' = unsaved \cup {i \in writes[r][1].pend \ meta.pend : i[2] = deaths}
         /\ unsaved' \subseteq Ids
         /\ UNCHANGED <<broker, proc, meta, seen, deaths, scope, asked, ended, stray, lost>>
<1>1. /\ writes[r] # <<>> /\ writes' = [writes EXCEPT ![r] = Tail(writes[r])]
      /\ unsaved' = unsaved \cup {i \in Head(writes[r]).pend \ meta.pend : i[2] = deaths}
      /\ UNCHANGED <<broker, proc, meta, seen, deaths, scope, asked, ended, stray, lost>>
  BY DEF WriteFails
<1>2. writes \in [Launches -> Seq(Metas)] /\ writes[r] \in Seq(Metas)
  BY DEF Layer1, TypeParts, DiskTypes
<1>3. Record(r) /\ up
  BY <1>1 DEF Layer1, HeldInv, DownInv
<1>4. /\ Head(writes[r]) = writes[r][1] /\ writes[r][1] \in Metas /\ 1 \in DOMAIN writes[r]
      /\ Tail(writes[r]) \in Seq(Metas)
      /\ \A k \in DOMAIN Tail(writes[r]) : k + 1 \in DOMAIN writes[r] /\ Tail(writes[r])[k] = writes[r][k + 1]
  BY <1>1, <1>2, TailFacts
<1>5. /\ writes' \in [Launches -> Seq(Metas)] /\ writes'[r] = Tail(writes[r])
      /\ \A p \in Launches : p # r => writes'[p] = writes[p]
  BY <1>1, <1>2, <1>4
<1>6. Queue(r)' \subseteq Queue(r) /\ writes[r][1] \in Queue(r)
  BY <1>4, <1>5 DEF Queue
<1>7. \A p \in Launches : p # r => Queue(p)' = Queue(p)
  BY <1>5 DEF Queue
<1>8. unsaved' \subseteq Ids
  BY <1>1, <1>4 DEF Layer1, TypeParts, ReportTypes, Metas
<1> QED
  BY <1>1, <1>3, <1>4, <1>5, <1>6, <1>7, <1>8

LEMMA WriteFailsLayer1 == ASSUME Layer1, NEW r \in Launches, WriteFails(r) PROVE Layer1'
<1>1. /\ writes[r] # <<>> /\ Record(r) /\ up
      /\ writes' \in [Launches -> Seq(Metas)] /\ Queue(r)' \subseteq Queue(r)
      /\ \A p \in Launches : p # r => writes'[p] = writes[p] /\ Queue(p)' = Queue(p)
      /\ unsaved' \subseteq Ids
      /\ UNCHANGED <<broker, proc, meta, seen, deaths, scope, asked, ended, stray, lost>>
  BY WriteFailsDoes
<1>2. TypeParts'
  BY <1>1 DEF broker, Layer1, TypeParts, BrokerTypes, RecordTypes, WaitTypes, OpsTypes, ReportTypes, DiskTypes, EmptyDown
<1>3. \A p : Record(p)' <=> Record(p)
  BY <1>1 DEF Record, broker
<1>4. HeldInv'
  <2>1. \A n : Exists(n)' <=> Exists(n)
    BY <1>1 DEF Exists, Record, broker
  <2>2. ASSUME NEW p \in Launches, armed'[p] > 0 \/ writes'[p] # <<>> PROVE Record(p)'
    BY <1>1, <1>3, <2>2 DEF Layer1, HeldInv, broker
  <2> QED
    BY <1>1, <2>1, <2>2 DEF Layer1, HeldInv, broker
<1>5. NumberInv'
  <2>1. ASSUME NEW p \in Launches, NEW m \in Queue(p)' PROVE owner'[m.gen] = p /\ m.gen <= launches'
    <3>1. m \in Queue(p)
      BY <1>1, <2>1
    <3> QED
      BY <1>1, <3>1 DEF Layer1, NumberInv, broker
  <2>2. ASSUME NEW p \in Launches, Record(p)' PROVE p <= launches' /\ recs'[p].gen <= launches' /\ owner'[recs'[p].gen] = p
    BY <1>1, <1>3, <2>2 DEF Layer1, NumberInv, broker
  <2>3. \A n \in Launches : n > launches' => proc'[n] # "alive" /\ n \notin ended' \cup lost'
    BY <1>1 DEF Layer1, NumberInv, broker
  <2>4. meta'.gen <= launches'
    BY <1>1 DEF Layer1, NumberInv, broker
  <2> QED
    BY <2>1, <2>2, <2>3, <2>4 DEF NumberInv
<1>6. OpsInv' /\ DownInv'
  BY <1>1, <1>3 DEF Layer1, OpsInv, DownInv, broker, Record
<1> QED
  BY <1>2, <1>4, <1>5, <1>6 DEF Layer1

LEMMA WriteLayer1 == ASSUME Layer1, NEW r \in Launches, Write(r) PROVE Layer1'
<1>1. /\ writes[r] # <<>> /\ Record(r) /\ up /\ meta' \in Metas /\ meta' \in Queue(r)
      /\ writes' \in [Launches -> Seq(Metas)] /\ Queue(r)' \subseteq Queue(r)
      /\ \A p \in Launches : p # r => writes'[p] = writes[p] /\ Queue(p)' = Queue(p)
      /\ unsaved' = unsaved \ meta'.pend
      /\ UNCHANGED <<broker, proc, seen, deaths, scope, asked, ended, stray, lost>>
  BY WriteDoes
<1>2. TypeParts'
  BY <1>1 DEF broker, Layer1, TypeParts, BrokerTypes, RecordTypes, WaitTypes, ReportTypes, OpsTypes, DiskTypes, EmptyDown
<1>3. \A p : Record(p)' <=> Record(p)
  BY <1>1 DEF Record, broker
<1>4. HeldInv'
  <2>1. \A n : Exists(n)' <=> Exists(n)
    BY <1>1 DEF Exists, Record, broker
  <2>2. ASSUME NEW p \in Launches, armed'[p] > 0 \/ writes'[p] # <<>> PROVE Record(p)'
    BY <1>1, <1>3, <2>2 DEF Layer1, HeldInv, broker
  <2> QED
    BY <1>1, <2>1, <2>2 DEF Layer1, HeldInv, broker
<1>5. NumberInv'
  <2>1. meta'.gen <= launches'
    BY <1>1 DEF Layer1, NumberInv, broker
  <2>2. ASSUME NEW p \in Launches, NEW m \in Queue(p)' PROVE owner'[m.gen] = p /\ m.gen <= launches'
    <3>1. m \in Queue(p)
      BY <1>1, <2>2
    <3> QED
      BY <1>1, <3>1 DEF Layer1, NumberInv, broker
  <2>3. ASSUME NEW p \in Launches, Record(p)' PROVE p <= launches' /\ recs'[p].gen <= launches' /\ owner'[recs'[p].gen] = p
    BY <1>1, <1>3, <2>3 DEF Layer1, NumberInv, broker
  <2>4. \A n \in Launches : n > launches' => proc'[n] # "alive" /\ n \notin ended' \cup lost'
    BY <1>1 DEF Layer1, NumberInv, broker
  <2> QED
    BY <2>1, <2>2, <2>3, <2>4 DEF NumberInv
<1>6. OpsInv' /\ DownInv'
  BY <1>1, <1>3 DEF Layer1, OpsInv, DownInv, broker, Record
<1> QED
  BY <1>2, <1>4, <1>5, <1>6 DEF Layer1

LEMMA NoRecordFacts == NoRecord \notin Records
  BY DEF NoRecord, Records, States

\* The broker is gone.
LEMMA GoneLayer1 == ASSUME Layer1, Gone PROVE Layer1'
<1>1. /\ deaths < scope.deaths /\ deaths' = deaths + 1
      /\ up' = FALSE /\ closing' = FALSE /\ current' = 0
      /\ recs' = [r \in Launches |-> NoRecord]
      /\ opening' = {} /\ reading' = {} /\ settles' = {} /\ watched' = {}
      /\ armed' = [r \in Launches |-> 0] /\ ops' = [c \in Callers |-> Idle]
      /\ telling' = {} /\ box' = {}
      /\ writes' = [r \in Launches |-> <<>>]
      /\ ended' \subseteq ended
      /\ UNCHANGED <<owner, launches, proc, meta, seen, scope, asked, stray, unsaved>>
  BY DEF Gone
<1>2. lost' \subseteq Launches /\ \A n \in lost' : n \in lost \/ proc[n] = "alive"
  BY DEF Gone, Layer1, TypeParts, ReportTypes
<1>3. TypeParts'
  <2>1. BrokerTypes'
    <3>1. deaths \in 0..MaxDeaths /\ scope.deaths \in 0..MaxDeaths
      BY BrokerAssumption DEF Layer1, TypeParts, BrokerTypes
    <3>2. deaths' \in 0..MaxDeaths
      BY <1>1, <3>1, BrokerAssumption
    <3>3. up' \in BOOLEAN /\ closing' \in BOOLEAN
      BY <1>1
    <3>4. current' \in 0..MaxLaunches
      BY <1>1, BrokerAssumption
    <3> QED
      BY <1>1, <3>2, <3>3, <3>4 DEF Layer1, TypeParts, BrokerTypes
  <2>2. RecordTypes' /\ OpsTypes' /\ EmptyDown'
    BY <1>1 DEF Layer1, TypeParts, RecordTypes, OpsTypes, EmptyDown
  <2>3. WaitTypes' /\ DiskTypes'
    BY <1>1 DEF Layer1, TypeParts, WaitTypes, DiskTypes
  <2>4. ReportTypes'
    BY <1>1, <1>2 DEF Layer1, TypeParts, ReportTypes
  <2> QED
    BY <2>1, <2>2, <2>3, <2>4 DEF TypeParts
<1>4. \A r \in Launches : ~Record(r)' /\ Queue(r)' = {} /\ armed'[r] = 0 /\ writes'[r] = <<>>
  BY <1>1, NoRecordFacts DEF Record, Queue
<1>5. HeldInv' /\ OpsInv' /\ DownInv'
  BY <1>1, <1>4, KindFacts DEF HeldInv, OpsInv, DownInv
<1>6. NumberInv'
  BY <1>1, <1>2, <1>4 DEF Layer1, NumberInv
<1> QED
  BY <1>3, <1>5, <1>6 DEF Layer1

\* What a recovery leaves, of the record x that it makes of the disk.
Adopts == /\ scope.detached /\ meta.state \notin {"ended", "stopping"}
          /\ meta.pid # 0 /\ proc[meta.pid] = "alive"

Unreported == meta.state \notin {"ended", "stopping"} /\ ~Adopts /\ meta.pend = {}

RecoversTo(n, x, report) ==
    /\ n = meta.gen /\ n \in Launches /\ meta \in Metas
    /\ report = (IF Unreported THEN {<<n, deaths>>} ELSE {})
    /\ x \in Records /\ x.gen = n /\ (x.stop <=> ~Adopts) /\ ~x.timer
    /\ x.state = (IF Adopts THEN "running" ELSE "ended")
    /\ x.pid = (IF Adopts \/ meta.state = "ended" THEN meta.pid ELSE 0)
    /\ x.pend = meta.pend \cup report
    /\ current' = n /\ owner' = [owner EXCEPT ![n] = n]
    /\ Save(n, x) /\ Update(n, x)
    /\ box' = x.pend /\ ended' = ended \cup Of(report) /\ unsaved' = unsaved \cup report
    /\ proc' = (IF meta.pid # 0 /\ proc[meta.pid] = "alive" /\ ~Adopts /\ meta.state # "ended"
                THEN [proc EXCEPT ![meta.pid] = "dead"] ELSE proc)

LEMMA RecoverDoes ==
  ASSUME Layer1, Recover, meta.gen # 0
  PROVE  \E n, x, report : RecoversTo(n, x, report)
<1> DEFINE n      == meta.gen
           id     == <<n, deaths>>
           report == IF Unreported THEN {id} ELSE {}
           x      == [gen |-> n, stop |-> ~Adopts, proc |-> 0, timer |-> FALSE,
                      state |-> IF Adopts THEN "running" ELSE "ended",
                      pid |-> IF Adopts \/ meta.state = "ended" THEN meta.pid ELSE 0,
                      pend |-> meta.pend \cup report]
<1>1. meta \in Metas
  BY DEF Layer1, TypeParts, DiskTypes, NoMeta
<1>2. n \in Launches /\ meta.pid \in 0..MaxLaunches /\ meta.pend \subseteq Ids /\ 0 \in 0..MaxLaunches
  BY <1>1, BrokerAssumption DEF Metas
<1>3. report \subseteq Ids
  BY <1>2, IdFacts DEF Layer1, TypeParts
<1>4. /\ current' = n /\ owner' = [owner EXCEPT ![n] = n]
      /\ Save(n, x)
      /\ box' = x.pend /\ ended' = ended \cup Of(report) /\ unsaved' = unsaved \cup report
      /\ proc' = (IF meta.pid # 0 /\ proc[meta.pid] = "alive" /\ ~Adopts /\ meta.state # "ended"
                  THEN [proc EXCEPT ![meta.pid] = "dead"] ELSE proc)
  BY DEF Recover, Adopts, Unreported, ReportDead
<1>5. /\ x.gen = n /\ x.proc = 0 /\ x.timer = FALSE /\ (x.stop <=> ~Adopts) /\ x.stop \in BOOLEAN
      /\ x.state = (IF Adopts THEN "running" ELSE "ended")
      /\ x.pid = (IF Adopts \/ meta.state = "ended" THEN meta.pid ELSE 0)
      /\ x.pend = meta.pend \cup report
      /\ IsRecord(x)
  <2>1. Adopts \in BOOLEAN
    BY DEF Adopts
  <2> HIDE DEF report
  <2>2. /\ x.gen = n /\ x.proc = 0 /\ x.timer = FALSE
        /\ x.state = (IF Adopts THEN "running" ELSE "ended")
        /\ x.pid = (IF Adopts \/ meta.state = "ended" THEN meta.pid ELSE 0)
        /\ x.pend = meta.pend \cup report
    OBVIOUS
  <2>3. x.stop = ~Adopts
    OBVIOUS
  <2>4. IsRecord(x)
    BY Zenon DEF IsRecord
  <2> QED
    BY <2>1, <2>2, <2>3, <2>4, Zenon
<1> HIDE DEF x, report
<1>6. x \in Records
  <2>1. x.state \in States /\ x.pid \in 0..MaxLaunches /\ x.pend \subseteq Ids
    BY <1>2, <1>3, <1>5 DEF States
  <2> QED
    BY <1>2, <1>5, <2>1, RecordForm, Zenon
<1>7. Update(n, x)
  BY <1>2, <1>4, <1>6, SaveUpdates DEF Layer1, TypeParts
<1>8. RecoversTo(n, x, report)
  BY <1>1, <1>2, <1>4, <1>5, <1>6, <1>7 DEF RecoversTo, report
<1> QED
  BY <1>8

LEMMA RecoverLayer1 == ASSUME Layer1, Recover PROVE Layer1'
<1>1. /\ ~up /\ up' = TRUE
      /\ UNCHANGED <<closing, launches, opening, reading, settles, armed, watched, ops, telling, meta,
                     seen, deaths, scope, asked, stray, lost>>
  BY DEF Recover
<1>2. /\ recs = [r \in Launches |-> NoRecord] /\ armed = [r \in Launches |-> 0] /\ current = 0
      /\ ops = [c \in Callers |-> Idle] /\ writes = [r \in Launches |-> <<>>]
      /\ opening = {} /\ reading = {} /\ settles = {} /\ watched = {} /\ telling = {}
  BY <1>1 DEF Layer1, DownInv, TypeParts, EmptyDown
<1>3. \A r \in Launches : ~Record(r) /\ Queue(r) = {} /\ armed[r] = 0 /\ writes[r] = <<>>
  BY <1>2, NoRecordFacts DEF Record, Queue
<1>4. WaitTypes' /\ OpsTypes' /\ EmptyDown' /\ DownInv' /\ OpsInv'
  BY <1>1, <1>2, KindFacts DEF Layer1, TypeParts, WaitTypes, OpsTypes, EmptyDown, DownInv, OpsInv
<1>5. CASE meta.gen = 0
  <2>1. UNCHANGED <<current, recs, owner, writes, box, proc, ended, unsaved>>
    BY <1>5 DEF Recover
  <2>2. TypeParts'
    BY <1>1, <1>4, <2>1 DEF Layer1, TypeParts, BrokerTypes, RecordTypes, DiskTypes, ReportTypes
  <2>3. HeldInv' /\ NumberInv'
    BY <1>1, <1>2, <1>3, <2>1 DEF Layer1, HeldInv, NumberInv, Record, Queue
  <2> QED
    BY <1>4, <2>2, <2>3 DEF Layer1
<1>6. CASE meta.gen # 0
  <2>1. PICK n, x, report : RecoversTo(n, x, report)
    BY <1>6, RecoverDoes
  <2>2. /\ n = meta.gen /\ n \in Launches /\ meta \in Metas /\ report \subseteq {<<n, deaths>>}
        /\ x \in Records /\ x.gen = n /\ x.pend \subseteq Ids
        /\ current' = n /\ owner' = [owner EXCEPT ![n] = n]
        /\ Update(n, x)
        /\ box' = x.pend /\ ended' = ended \cup Of(report) /\ unsaved' = unsaved \cup report
        /\ proc' = proc \/ proc' = [proc EXCEPT ![meta.pid] = "dead"]
    BY <2>1 DEF RecoversTo, Records
  <2>3. /\ recs' \in [Launches -> Records \cup {NoRecord}] /\ writes' \in [Launches -> Seq(Metas)]
        /\ recs'[n] = x /\ Record(n)'
        /\ \A p \in Launches : p # n => ~Record(p)' /\ Queue(p)' = {} /\ writes'[p] = <<>>
        /\ \A m \in Queue(n)' : Like(m, x)
    BY <1>3, <2>2, UpdateFacts DEF Layer1, TypeParts
  <2>4. owner \in [Launches -> 0..MaxLaunches] /\ n \in 0..MaxLaunches
    BY <2>2, BrokerAssumption DEF Layer1, TypeParts, RecordTypes, Launches
  <2>5. owner' \in [Launches -> 0..MaxLaunches] /\ owner'[n] = n
    BY <2>2, <2>4
  <2>6. proc' \in [Launches -> {"none", "alive", "dead"}]
        /\ \A m \in Launches : proc'[m] = "alive" => proc[m] = "alive"
    BY <2>2 DEF Layer1, TypeParts, DiskTypes
  <2>7. report \subseteq Ids /\ Of(report) \subseteq {n}
    <3>1. <<n, deaths>> \in Ids /\ <<n, deaths>>[1] = n
      BY <2>2, IdFacts DEF Layer1, TypeParts
    <3> QED
      BY <2>2, <3>1 DEF Of
  <2>8. TypeParts'
    <3>1. BrokerTypes' /\ RecordTypes' /\ DiskTypes'
      BY <1>1, <2>2, <2>3, <2>4, <2>5, <2>6 DEF Layer1, TypeParts, BrokerTypes, RecordTypes, DiskTypes
    <3>2. ReportTypes'
      BY <1>1, <2>2, <2>7 DEF Layer1, TypeParts, ReportTypes
    <3> QED
      BY <1>4, <3>1, <3>2 DEF TypeParts
  <2>9. HeldInv'
    BY <1>1, <1>2, <1>3, <2>3 DEF HeldInv
  <2>10. NumberInv'
    <3>1. n <= launches /\ launches \in Nat
      BY <2>2, BrokerAssumption DEF Layer1, NumberInv, TypeParts, BrokerTypes
    <3>2. \A p \in Launches : Record(p)' => p = n
      BY <2>3
    <3>3. \A m \in Queue(n)' : m.gen = n
      BY <2>2, <2>3 DEF Like
    <3>4. \A m \in Launches : m > launches => m # n
      BY <2>2, <3>1 DEF Launches
    <3>5. \A m \in Launches : m > launches' => proc'[m] # "alive" /\ m \notin ended' \cup lost'
      BY <1>1, <2>2, <2>6, <2>7, <3>4 DEF Layer1, NumberInv
    <3> QED
      BY <1>1, <2>2, <2>3, <2>5, <3>1, <3>2, <3>3, <3>5 DEF NumberInv
  <2> QED
    BY <1>4, <2>8, <2>9, <2>10 DEF Layer1
<1> QED
  BY <1>5, <1>6

LEMMA SkipLayer1 == ASSUME Layer1, UNCHANGED vars PROVE Layer1'
  BY DEF vars, broker, outside, history, Layer1, TypeParts, BrokerTypes, RecordTypes, WaitTypes, OpsTypes,
         ReportTypes, DiskTypes, EmptyDown, HeldInv, NumberInv, OpsInv, DownInv, Exists, Record, Queue

LEMMA NextLayer1 == Layer1 /\ [Next]_vars => Layer1'
<1> SUFFICES ASSUME Layer1, [Next]_vars PROVE Layer1'
  OBVIOUS
<1>1. CASE Supervise
  BY <1>1, OpenedLayer1, OpenFailsLayer1, ExitedLayer1, RefreshReadLayer1, SettlesLayer1,
     TimerFiresLayer1, RefreshLayer1 DEF Supervise
<1>2. CASE Report
  BY <1>2, WriteLayer1, WriteFailsLayer1, NoticesLayer1, AckLayer1 DEF Report
<1>3. ASSUME NEW c \in Callers, Request(c) PROVE Layer1'
  <2>1. \A kind \in {"stop", "restart"} : Start(c) \/ StopOrRestart(c, kind) => Layer1'
    BY BeginsLayer1
  <2> QED
    BY <1>3, <2>1, ShutdownLayer1 DEF Request
<1>4. ASSUME NEW c \in Callers, Serve(c) PROVE Layer1'
  <2>1. Exit(c) => Layer1'
    BY GoneLayer1 DEF Exit
  <2> QED
    BY <1>4, <2>1, MovesLayer1, StartLaunchesLayer1, StopRecordLayer1, RestartLaunchesLayer1 DEF Serve
<1>5. CASE Crash
  BY <1>5, GoneLayer1 DEF Crash
<1>6. CASE Recover
  BY <1>6, RecoverLayer1
<1>7. ASSUME NEW n \in Launches, Dies(n) PROVE Layer1'
  BY <1>7, DiesLayer1
<1>8. CASE UNCHANGED vars
  BY <1>8, SkipLayer1
<1> QED
  BY <1>1, <1>2, <1>3, <1>4, <1>5, <1>6, <1>7, <1>8 DEF Next

\* Types hold, and nothing is in memory while no broker runs: every step keeps what
\* the steps of launch/broker.ts hold on to, a record, its requests and its waits.
THEOREM TypesOfBroker == Spec => []TypeOK
<1>1. Spec => []Layer1
  BY InitLayer1, NextLayer1, PTL DEF Spec
<1>2. Layer1 => TypeOK
  BY TypesByParts DEF Layer1
<1> QED
  BY <1>1, <1>2, PTL

-----------------------------------------------------------------------------
(* Second layer: what the disk and the queues say of an end that was told. *)

Told == box \cup seen

Last(r) == writes[r][Len(writes[r])]

\* The queue of a record ends with what it is.
SavedInv == \A r \in Launches : writes[r] # <<>> => Last(r) = Snapshot(recs[r])

\* What has a completion pending of its last launch has ended.
PendingOf(m) == \A i \in m.pend : i[1] <= m.gen /\ (i[1] = m.gen => m.state = "ended") /\ i[2] <= deaths

Accounts(m) ==
    /\ PendingOf(m) /\ m.pend \subseteq telling \cup Told
    /\ \A i \in m.pend \cap unsaved : i[2] = deaths

PendingInv ==
    /\ PendingOf(meta) /\ meta.pend \cap unsaved = {}
    /\ up => meta.pend \subseteq telling \cup Told
    /\ ~up => \A i \in meta.pend \cup seen \cup unsaved : i[2] < deaths
    /\ \A i \in Told \cup unsaved : i[2] <= deaths
    /\ \A r \in Launches : /\ Record(r) => Accounts(recs[r])
                           /\ \A m \in Queue(r) : Accounts(m)

\* A completion that awaits the disk is pending in its record, and from some
\* place on in the queue of that record: in all of it once the disk has it.
Awaits(i) ==
    /\ i[2] = deaths /\ i \in recs[owner[i[1]]].pend
    /\ \A r \in Launches :
          /\ Record(r) /\ i \in recs[r].pend => owner[i[1]] = r
          /\ \A m \in Queue(r) : i \in m.pend => owner[i[1]] = r
          /\ \A k, l \in DOMAIN writes[r] : k < l /\ i \in writes[r][k].pend => i \in writes[r][l].pend
          /\ owner[i[1]] = r /\ i \in meta.pend => \A m \in Queue(r) : i \in m.pend

\* The disk does not have the launch as under way.
Over(i) == meta.gen = i[1] => meta.state = "ended"

\* With no write left to wait for, the last one has brought the end to the disk,
\* or has failed.
TellingInv ==
    /\ telling \cap Told = {}
    /\ \A i \in telling : Awaits(i)
    /\ \A i \in telling : i \in unsaved \/ writes[owner[i[1]]] # <<>> \/ Over(i)

\* Nothing in memory or queued has the launch of a completion as under way.
Shut(i) ==
    \A r \in Launches : /\ Record(r) /\ recs[r].gen = i[1] => recs[r].state = "ended"
                        /\ \A m \in Queue(r) : m.gen = i[1] => m.state = "ended"

ToldInv ==
    \A i \in Told :
        /\ i[1] <= launches
        /\ i \notin unsaved => Shut(i) /\ Over(i)
        /\ i[2] = deaths => Shut(i)

Known == Told \cup telling \cup (IF up THEN {} ELSE meta.pend)

OnceInv == \A i, j \in Known : i[1] = j[1] /\ i[2] < j[2] => i \in unsaved

Layer2 == SavedInv /\ PendingInv /\ TellingInv /\ ToldInv /\ OnceInv

\* What the first layer says of the values that are compared.
LEMMA Ranges ==
  ASSUME Layer1
  PROVE  /\ deaths \in Nat /\ launches \in Nat
         /\ meta.gen \in Nat /\ meta.gen <= launches /\ meta.pend \subseteq Ids
         /\ meta.gen # 0 => meta \in Metas /\ meta.gen \in Launches
         /\ \A r \in Launches :
               /\ \A m \in Queue(r) : /\ m \in Metas /\ m.gen \in Launches /\ m.pend \subseteq Ids
                                      /\ owner[m.gen] = r /\ m.gen <= launches
               /\ Record(r) => /\ recs[r] \in Records /\ recs[r].gen \in Launches /\ recs[r].pend \subseteq Ids
                               /\ recs[r].gen <= launches /\ owner[recs[r].gen] = r /\ r <= launches
         /\ telling \subseteq Ids /\ box \subseteq Ids /\ seen \subseteq Ids /\ unsaved \subseteq Ids
         /\ \A i \in Ids : i[1] \in Launches /\ i[1] \in Nat /\ i[2] \in Nat
<1> USE DEF Layer1, TypeParts
<1>1. deaths \in Nat /\ launches \in Nat
  BY BrokerAssumption DEF BrokerTypes
<1>2. meta.gen \in Nat /\ meta.pend \subseteq Ids /\ (meta.gen # 0 => meta \in Metas /\ meta.gen \in Launches)
  BY DEF DiskTypes, Metas, NoMeta, Launches
<1>3. ASSUME NEW r \in Launches, NEW m \in Queue(r)
      PROVE  m \in Metas /\ m.gen \in Launches /\ m.pend \subseteq Ids
  <2>1. PICK k \in DOMAIN writes[r] : m = writes[r][k]
    BY <1>3 DEF Queue
  <2>2. m \in Metas
    BY <2>1 DEF DiskTypes
  <2> QED
    BY <2>2 DEF Metas
<1>4. ASSUME NEW r \in Launches, Record(r)
      PROVE  recs[r] \in Records /\ recs[r].gen \in Launches /\ recs[r].pend \subseteq Ids
  BY <1>4 DEF Record, Records
<1>5. \A i \in Ids : i[1] \in Launches /\ i[1] \in Nat /\ i[2] \in Nat
  BY BrokerAssumption DEF Ids, Launches
<1> QED
  BY <1>1, <1>2, <1>3, <1>4, <1>5 DEF NumberInv, ReportTypes

\* Steps that touch neither records, queues, disk nor what waits for the disk.
LEMMA QuietLayer2 ==
  ASSUME Layer2, UNCHANGED <<up, recs, owner, launches, writes, meta, telling, unsaved, deaths>>,
         Told' = Told, up \/ UNCHANGED seen, seen' \subseteq Told
  PROVE  Layer2'
<1>1. (\A r : Record(r)' <=> Record(r)) /\ (\A r : Queue(r)' = Queue(r)) /\ \A r : Last(r)' = Last(r)
  BY DEF Record, Queue, Last
<1>2. SavedInv'
  BY <1>1 DEF Layer2, SavedInv, Record
<1>3. PendingInv'
  <2>1. \A m : Accounts(m)' <=> Accounts(m)
    BY DEF Accounts, PendingOf
  <2>2. PendingOf(meta)'
    BY DEF Layer2, PendingInv, PendingOf
  <2>3. \A r \in Launches : Record(r)' => Accounts(recs[r])'
    BY <1>1 DEF Layer2, PendingInv, Accounts, PendingOf
  <2>4. \A r \in Launches : \A m \in Queue(r)' : Accounts(m)'
    BY <1>1, <2>1 DEF Layer2, PendingInv
  <2> QED
    BY <2>2, <2>3, <2>4 DEF Layer2, PendingInv
<1>4. TellingInv'
  BY <1>1 DEF Layer2, TellingInv, Awaits, Over
<1>5. ToldInv'
  BY <1>1 DEF Layer2, ToldInv, Shut, Over
<1>6. OnceInv'
  BY DEF Layer2, OnceInv, Known
<1> QED
  BY <1>2, <1>3, <1>4, <1>5, <1>6 DEF Layer2

Old(r) == IF Record(r) THEN recs[r].pend ELSE {}

\* The record under r becomes x, with the same launch or a new one; report is
\* what ends with it, and completions that were told may go.
Changes(r, x, report) ==
    /\ up /\ Update(r, x) /\ Numbered(r, x)
    /\ UNCHANGED <<up, meta, unsaved, deaths>> /\ Told' = Told /\ UNCHANGED seen
    /\ telling' = telling \cup report /\ report \subseteq {<<x.gen, deaths>>}
    /\ x.pend \subseteq Old(r) \cup report /\ report \subseteq x.pend
    /\ \A i \in Old(r) : i \in telling => i \in x.pend
    /\ \/ x.gen = launches + 1 /\ report = {}
       \/ /\ Record(r) /\ recs[r].gen = x.gen
          /\ recs[r].state = "ended" => x.state = "ended" /\ report = {}
          /\ report # {} => x.state = "ended"

LEMMA UpdateLayer2 ==
  ASSUME Layer1, Layer2, NEW r, NEW x, NEW report, Changes(r, x, report)
  PROVE  Layer2'
<1>1. /\ recs' \in [Launches -> Records \cup {NoRecord}] /\ writes' \in [Launches -> Seq(Metas)]
      /\ r \in Launches /\ x \in Records /\ recs'[r] = x /\ Record(r)'
      /\ \A p \in Launches : p # r => recs'[p] = recs[p] /\ writes'[p] = writes[p]
                                      /\ Queue(p)' = Queue(p) /\ (Record(p)' <=> Record(p))
      /\ \A p : Record(p) => Record(p)'
      /\ \A m \in Queue(r)' : m \in Queue(r) \/ Like(m, x)
      /\ writes'[r] # <<>> /\ writes'[r][Len(writes'[r])] = Snapshot(x)
  BY UpdateFacts DEF Changes, Layer1, TypeParts
<1>2. /\ deaths \in Nat /\ launches \in Nat
      /\ meta.gen \in Nat /\ meta.gen <= launches /\ meta.pend \subseteq Ids
      /\ meta.gen # 0 => meta \in Metas /\ meta.gen \in Launches
      /\ \A p \in Launches :
            /\ \A m \in Queue(p) : /\ m \in Metas /\ m.gen \in Launches /\ m.pend \subseteq Ids
                                   /\ owner[m.gen] = p /\ m.gen <= launches
            /\ Record(p) => /\ recs[p] \in Records /\ recs[p].gen \in Launches /\ recs[p].pend \subseteq Ids
                            /\ recs[p].gen <= launches /\ owner[recs[p].gen] = p /\ p <= launches
      /\ telling \subseteq Ids /\ box \subseteq Ids /\ seen \subseteq Ids /\ unsaved \subseteq Ids
      /\ \A i \in Ids : i[1] \in Launches /\ i[1] \in Nat /\ i[2] \in Nat
  BY Ranges
<1>3. x.gen \in Launches /\ x.gen \in Nat /\ launches <= launches'
  BY <1>1, <1>2 DEF Records, Changes, Numbered, Launches
<1>4. \A n \in Launches : n <= launches => owner'[n] = owner[n]
  <2>1. owner' = owner \/ (owner' = [owner EXCEPT ![x.gen] = r] /\ x.gen = launches + 1)
    BY DEF Changes, Numbered
  <2>2. owner \in [Launches -> 0..MaxLaunches]
    BY DEF Layer1, TypeParts, RecordTypes
  <2>3. \A n \in Launches : n <= launches => n # launches + 1
    BY <1>2 DEF Launches
  <2> QED
    BY <2>1, <2>2, <2>3
<1>5. /\ up /\ UNCHANGED <<up, meta, unsaved, deaths, seen>> /\ Told' = Told
      /\ telling' = telling \cup report /\ report \subseteq {<<x.gen, deaths>>}
      /\ x.pend \subseteq Old(r) \cup report /\ report \subseteq x.pend
      /\ \A i \in Old(r) : i \in telling => i \in x.pend
      /\ \/ x.gen = launches + 1 /\ report = {}
         \/ /\ Record(r) /\ recs[r].gen = x.gen
            /\ recs[r].state = "ended" => x.state = "ended" /\ report = {}
            /\ report # {} => x.state = "ended"
  BY DEF Changes
<1>6. \A i \in report : i[1] = x.gen /\ i[2] = deaths /\ i \in Ids
  <2>1. <<x.gen, deaths>> \in Ids /\ <<x.gen, deaths>>[1] = x.gen /\ <<x.gen, deaths>>[2] = deaths
    BY <1>3, IdFacts DEF Layer1, TypeParts
  <2> QED
    BY <1>5, <2>1
<1>7. \A i \in report : i \notin Told
  <2>1. ASSUME NEW i \in report, i \in Told PROVE FALSE
    <3>1. Shut(i)
      BY <1>6, <2>1 DEF Layer2, ToldInv
    <3>2. Record(r) /\ recs[r].gen = i[1] /\ recs[r].state # "ended"
      BY <1>5, <1>6, <2>1
    <3> QED
      BY <1>1, <3>1, <3>2 DEF Shut
  <2> QED
    BY <2>1
<1>8. Told \subseteq Ids /\ Old(r) \subseteq Ids /\ \A i \in Old(r) : Record(r) /\ i \in recs[r].pend
  BY <1>1, <1>2 DEF Told, Old
<1>9. Accounts(x)' /\ \A m : Like(m, x) => Accounts(m)'
  <2>1. ASSUME NEW i \in x.pend
        PROVE  /\ i[1] <= x.gen /\ (i[1] = x.gen => x.state = "ended") /\ i[2] <= deaths
               /\ i \in telling' \cup Told /\ (i \in unsaved => i[2] = deaths)
    <3>1. CASE i \in report
      BY <1>2, <1>3, <1>5, <1>6, <3>1
    <3>2. CASE i \in Old(r)
      <4>1. /\ Record(r) /\ i[1] <= recs[r].gen /\ (i[1] = recs[r].gen => recs[r].state = "ended") /\ i[2] <= deaths
            /\ i \in telling \cup Told /\ (i \in unsaved => i[2] = deaths)
        BY <1>1, <1>8, <3>2 DEF Layer2, PendingInv, Accounts, PendingOf
      <4>2. recs[r].gen <= launches /\ recs[r].gen \in Nat /\ i[1] \in Nat
        BY <1>1, <1>2, <1>8, <3>2, <4>1 DEF Launches
      <4>3. x.gen = launches + 1 \/ (recs[r].gen = x.gen /\ (recs[r].state = "ended" => x.state = "ended"))
        BY <1>5
      <4> QED
        BY <1>2, <1>3, <1>5, <4>1, <4>2, <4>3
    <3> QED
      BY <1>5, <3>1, <3>2
  <2>2. Accounts(x)'
    BY <1>5, <2>1 DEF Accounts, PendingOf
  <2>3. ASSUME NEW m, Like(m, x) PROVE Accounts(m)'
    <3>1. m.pend = x.pend /\ m.gen = x.gen /\ m.state = x.state
      BY <2>3 DEF Like
    <3> QED
      BY <1>5, <2>1, <3>1 DEF Accounts, PendingOf
  <2> QED
    BY <2>2, <2>3
<1>10. SavedInv'
  BY <1>1 DEF Layer2, SavedInv, Last
<1>11. PendingInv'
  <2>1. \A m : Accounts(m) => Accounts(m)'
    BY <1>5 DEF Accounts, PendingOf
  <2>2. \A p \in Launches : Record(p)' => Accounts(recs[p])'
    <3>1. ASSUME NEW p \in Launches, Record(p)' PROVE Accounts(recs[p])'
      <4>1. CASE p = r
        BY <1>1, <1>9, <4>1 DEF Accounts, PendingOf
      <4>2. CASE p # r
        <5>1. Accounts(recs[p]) /\ recs'[p] = recs[p]
          BY <1>1, <3>1, <4>2 DEF Layer2, PendingInv
        <5> QED
          BY <1>5, <5>1 DEF Accounts, PendingOf
      <4> QED
        BY <4>1, <4>2
    <3> QED
      BY <3>1
  <2>3. \A p \in Launches : \A m \in Queue(p)' : Accounts(m)'
    BY <1>1, <1>9, <2>1 DEF Layer2, PendingInv
  <2>4. PendingOf(meta)'
    BY <1>5 DEF Layer2, PendingInv, PendingOf
  <2> QED
    BY <1>5, <2>2, <2>3, <2>4 DEF Layer2, PendingInv
<1>12. TellingInv'
  <2>1. ASSUME NEW i \in telling' PROVE Awaits(i)'
    <3>1. CASE i \in telling
      <4>1. /\ i[2] = deaths /\ i \in recs[owner[i[1]]].pend
            /\ \A p \in Launches :
                  /\ Record(p) /\ i \in recs[p].pend => owner[i[1]] = p
                  /\ \A m \in Queue(p) : i \in m.pend => owner[i[1]] = p
                  /\ \A k, l \in DOMAIN writes[p] : k < l /\ i \in writes[p][k].pend => i \in writes[p][l].pend
                  /\ owner[i[1]] = p /\ i \in meta.pend => \A m \in Queue(p) : i \in m.pend
        BY <3>1 DEF Layer2, TellingInv, Awaits
      <4>2. i[1] \in Launches /\ i[1] <= launches /\ Record(owner[i[1]])
        BY <1>2, <3>1 DEF Layer1, HeldInv, Exists
      <4>3. owner'[i[1]] = owner[i[1]]
        BY <1>4, <4>2
      <4>4. owner[i[1]] = r => i \in x.pend
        BY <1>5, <3>1, <4>1, <4>2 DEF Old
      <4>5. i \notin report => (i \in x.pend => owner[i[1]] = r)
        BY <1>1, <1>5, <1>8, <4>1
      <4>6. i \in report => owner[i[1]] = r
        BY <1>1, <1>2, <1>5, <1>6
      <4>7. i \in recs'[owner[i[1]]].pend
        <5>1. owner[i[1]] \in Launches
          BY <4>2 DEF Record
        <5> QED
          BY <1>1, <4>1, <4>4, <5>1
      <4>8. ASSUME NEW p \in Launches
            PROVE  /\ Record(p)' /\ i \in recs'[p].pend => owner[i[1]] = p
                   /\ \A m \in Queue(p)' : i \in m.pend => owner[i[1]] = p
                   /\ \A k, l \in DOMAIN writes'[p] : k < l /\ i \in writes'[p][k].pend => i \in writes'[p][l].pend
                   /\ owner[i[1]] = p /\ i \in meta.pend => \A m \in Queue(p)' : i \in m.pend
        <5>1. CASE p # r
          <6>1. recs'[p] = recs[p] /\ writes'[p] = writes[p] /\ Queue(p)' = Queue(p) /\ (Record(p)' <=> Record(p))
            BY <1>1, <5>1
          <6>2. /\ Record(p)' /\ i \in recs'[p].pend => owner[i[1]] = p
                /\ \A m \in Queue(p)' : i \in m.pend => owner[i[1]] = p
                /\ owner[i[1]] = p /\ i \in meta.pend => \A m \in Queue(p)' : i \in m.pend
            BY <4>1, <6>1
          <6>3. \A k, l \in DOMAIN writes'[p] : k < l /\ i \in writes'[p][k].pend => i \in writes'[p][l].pend
            BY <4>1, <6>1
          <6> QED
            BY <6>2, <6>3
        <5>2. CASE p = r
          <6>1. Record(p)' /\ i \in recs'[p].pend => owner[i[1]] = p
            BY <1>1, <4>5, <4>6, <5>2
          <6>2. \A m \in Queue(p)' : i \in m.pend => owner[i[1]] = p
            BY <1>1, <4>1, <4>5, <4>6, <5>2 DEF Like
          <6>3. owner[i[1]] = p /\ i \in meta.pend => \A m \in Queue(p)' : i \in m.pend
            BY <1>1, <4>1, <4>4, <5>2 DEF Like
          <6>4. ASSUME NEW k \in DOMAIN writes'[p], NEW l \in DOMAIN writes'[p], k < l, i \in writes'[p][k].pend
                PROVE  i \in writes'[p][l].pend
            <7> DEFINE q == writes[r]
                       s == writes'[r]
            <7>1. /\ q \in Seq(Metas) /\ s \in Seq(Metas) /\ Len(q) <= Len(s)
                  /\ \A j \in 1..Len(q) : s[j] = q[j]
                  /\ \A j \in 1..Len(s) : j > Len(q) => Like(s[j], x)
              BY <1>1 DEF Changes, Update, Grows, Layer1, TypeParts, DiskTypes
            <7>2. k \in 1..Len(s) /\ l \in 1..Len(s) /\ s[k] \in Metas
              BY <5>2, <6>4, <7>1
            <7>3. i \in s[k].pend => owner[i[1]] = r
              <8>1. s[k] \in Queue(r)'
                BY <5>2, <6>4 DEF Queue
              <8> QED
                BY <5>2, <6>2, <8>1
            <7>4. i \in x.pend
              BY <4>4, <5>2, <6>4, <7>3
            <7>5. CASE l > Len(q)
              <8>1. Like(s[l], x)
                BY <7>1, <7>2, <7>5
              <8> QED
                BY <5>2, <7>4, <8>1 DEF Like
            <7>6. CASE l <= Len(q)
              <8>1. k \in 1..Len(q) /\ l \in 1..Len(q) /\ s[k] = q[k] /\ s[l] = q[l]
                BY <6>4, <7>1, <7>2, <7>6
              <8>2. k \in DOMAIN q /\ l \in DOMAIN q
                BY <7>1, <8>1
              <8> QED
                BY <1>1, <4>1, <5>2, <6>4, <8>1, <8>2
            <7> QED
              BY <7>1, <7>2, <7>5, <7>6
          <6> QED
            BY <6>1, <6>2, <6>3, <6>4
        <5> QED
          BY <5>1, <5>2
      <4> QED
        BY <1>5, <4>1, <4>3, <4>7, <4>8 DEF Awaits
    <3>2. CASE i \in report /\ i \notin telling
      <4>1. i \notin Told /\ i[1] = x.gen /\ i[2] = deaths /\ i \in x.pend
        BY <1>5, <1>6, <1>7, <3>2
      <4>2. Record(r) /\ recs[r].gen = x.gen
        BY <1>5, <3>2
      <4>3. x.gen <= launches /\ owner[x.gen] = r /\ owner'[x.gen] = r
        BY <1>1, <1>2, <1>4, <4>2
      <4>4. /\ \A p \in Launches : (Record(p) => i \notin recs[p].pend) /\ \A m \in Queue(p) : i \notin m.pend
            /\ i \notin meta.pend
        BY <1>5, <3>2, <4>1 DEF Layer2, PendingInv, Accounts
      <4>5. ASSUME NEW p \in Launches
            PROVE  /\ Record(p)' /\ i \in recs'[p].pend => r = p
                   /\ \A m \in Queue(p)' : i \in m.pend => r = p
                   /\ \A k, l \in DOMAIN writes'[p] : k < l /\ i \in writes'[p][k].pend => i \in writes'[p][l].pend
        <5>1. CASE p # r
          <6>1. \A k \in DOMAIN writes'[p] : writes'[p][k] \in Queue(p)
            BY <1>1, <5>1 DEF Queue
          <6> QED
            BY <1>1, <4>4, <5>1, <6>1
        <5>2. CASE p = r
          <6> DEFINE q == writes[r]
                     s == writes'[r]
          <6>1. /\ q \in Seq(Metas) /\ s \in Seq(Metas) /\ Len(q) <= Len(s)
                /\ \A j \in 1..Len(q) : s[j] = q[j]
                /\ \A j \in 1..Len(s) : j > Len(q) => Like(s[j], x)
            BY <1>1 DEF Changes, Update, Grows, Layer1, TypeParts, DiskTypes
          <6>2. ASSUME NEW k \in DOMAIN s, i \in s[k].pend PROVE k > Len(q)
            <7>1. k \in 1..Len(s)
              BY <6>1, <6>2
            <7>2. CASE k <= Len(q)
              <8>1. k \in DOMAIN q /\ s[k] = q[k]
                BY <6>1, <7>1, <7>2
              <8>2. q[k] \in Queue(r)
                BY <8>1 DEF Queue
              <8> QED
                BY <1>1, <4>4, <6>2, <8>1, <8>2
            <7> QED
              BY <6>1, <7>1, <7>2
          <6>3. ASSUME NEW k \in DOMAIN s, NEW l \in DOMAIN s, k < l, i \in s[k].pend PROVE i \in s[l].pend
            <7>1. k > Len(q) /\ l \in 1..Len(s) /\ k \in 1..Len(s)
              BY <6>1, <6>2, <6>3
            <7>2. Like(s[l], x)
              BY <6>1, <6>3, <7>1
            <7> QED
              BY <4>1, <7>2 DEF Like
          <6> QED
            BY <5>2, <6>3
        <5> QED
          BY <5>1, <5>2
      <4>6. i \in recs'[r].pend
        BY <1>1, <4>1
      <4> QED
        BY <1>5, <4>1, <4>3, <4>4, <4>5, <4>6 DEF Awaits
    <3> QED
      BY <1>5, <2>1, <3>1, <3>2
  <2>2. ASSUME NEW i \in telling' PROVE i \in unsaved' \/ writes'[owner'[i[1]]] # <<>> \/ Over(i)'
    <3>1. CASE i \in telling
      <4>1. i[1] \in Launches /\ i[1] <= launches /\ Record(owner[i[1]])
        BY <1>2, <3>1 DEF Layer1, HeldInv, Exists
      <4>2. owner'[i[1]] = owner[i[1]] /\ owner[i[1]] \in Launches
        BY <1>4, <4>1 DEF Record
      <4>3. i \in unsaved \/ writes[owner[i[1]]] # <<>> \/ Over(i)
        BY <3>1 DEF Layer2, TellingInv
      <4>4. CASE owner[i[1]] = r
        BY <1>1, <4>2, <4>4
      <4>5. CASE owner[i[1]] # r
        BY <1>1, <1>5, <4>2, <4>3, <4>5 DEF Over
      <4> QED
        BY <4>4, <4>5
    <3>2. CASE i \in report
      <4>1. i[1] = x.gen /\ Record(r) /\ recs[r].gen = x.gen
        BY <1>5, <1>6, <3>2
      <4>2. owner'[i[1]] = r
        BY <1>1, <1>2, <1>4, <4>1
      <4> QED
        BY <1>1, <4>2
    <3> QED
      BY <1>5, <2>2, <3>1, <3>2
  <2> QED
    BY <1>5, <1>7, <2>1, <2>2 DEF Layer2, TellingInv
<1>13. ToldInv'
  <2>1. ASSUME NEW i \in Told, Shut(i) PROVE Shut(i)'
    <3>1. i[1] <= launches /\ i[1] \in Nat
      BY <1>2, <1>8, <2>1 DEF Layer2, ToldInv
    <3>2. x.gen = i[1] => x.state = "ended"
      BY <1>1, <1>2, <1>5, <2>1, <3>1 DEF Shut
    <3>3. ASSUME NEW p \in Launches
          PROVE  /\ Record(p)' /\ recs'[p].gen = i[1] => recs'[p].state = "ended"
                 /\ \A m \in Queue(p)' : m.gen = i[1] => m.state = "ended"
      <4>1. CASE p # r
        BY <1>1, <2>1, <4>1 DEF Shut
      <4>2. CASE p = r
        BY <1>1, <2>1, <3>2, <4>2 DEF Shut, Like
      <4> QED
        BY <4>1, <4>2
    <3> QED
      BY <3>3 DEF Shut
  <2>2. \A i \in Told : i[1] <= launches'
    <3>1. \A i \in Told : i[1] <= launches /\ i[1] \in Nat
      BY <1>2, <1>8 DEF Layer2, ToldInv
    <3>2. launches' \in Nat
      BY <1>2 DEF Changes, Numbered
    <3> QED
      BY <1>2, <1>3, <3>1, <3>2
  <2> QED
    BY <1>5, <2>1, <2>2 DEF Layer2, ToldInv, Over
<1>14. OnceInv'
  <2>1. Known = Told \cup telling /\ Known' = Known \cup report
    BY <1>5 DEF Known
  <2>2. ASSUME NEW i \in Known', NEW j \in Known', i[1] = j[1], i[2] < j[2] PROVE i \in unsaved
    <3>1. \A k \in Known' : k[2] <= deaths /\ k[2] \in Nat
      BY <1>2, <1>6, <1>8, <2>1 DEF Layer2, PendingInv, TellingInv, Awaits
    <3>2. i \notin report /\ i \notin telling
      BY <1>2, <1>6, <2>2, <3>1 DEF Layer2, TellingInv, Awaits
    <3>3. CASE j \in Known
      BY <2>1, <2>2, <3>2, <3>3 DEF Layer2, OnceInv
    <3>4. CASE j \in report
      <4>1. i \in Told /\ i[1] = x.gen /\ Record(r) /\ recs[r].gen = x.gen /\ recs[r].state # "ended"
        BY <1>5, <1>6, <2>1, <2>2, <3>2, <3>4
      <4>2. ~Shut(i)
        BY <1>1, <4>1 DEF Shut
      <4> QED
        BY <4>1, <4>2 DEF Layer2, ToldInv
    <3> QED
      BY <2>1, <3>3, <3>4
  <2> QED
    BY <1>5, <2>2 DEF OnceInv
<1> QED
  BY <1>10, <1>11, <1>12, <1>13, <1>14 DEF Layer2

Unmoved == UNCHANGED <<up, recs, owner, launches, writes, meta, telling, unsaved, deaths, box, seen>>

LEMMA UnmovedLayer2 == ASSUME Layer2, Unmoved PROVE Layer2'
<1>1. Told' = Told /\ seen' \subseteq Told
  BY DEF Unmoved, Told
<1> QED
  BY <1>1, QuietLayer2 DEF Unmoved

LEMMA WaitsUnmoved ==
  ASSUME NEW n, OpenFails(n) \/ Exited(n) \/ RefreshRead(n) \/ Refresh(n) \/ Dies(n)
  PROVE  Unmoved
  BY DEF OpenFails, Exited, RefreshRead, Refresh, Dies, Unmoved, broker, outside, history

LEMMA RequestsUnmoved ==
  ASSUME NEW c, Request(c) \/ StartChecks(c) \/ Waited(c) \/ OpensNothing(c) \/ Kill(c) \/ Drained(c)
  PROVE  Unmoved
<1>1. ASSUME Request(c) PROVE Unmoved
  BY <1>1 DEF Request, Start, StopOrRestart, Shutdown, Unmoved, outside, history
<1>2. ASSUME StartChecks(c) \/ Waited(c) \/ OpensNothing(c) \/ Kill(c) \/ Drained(c) PROVE Unmoved
  BY <1>2 DEF StartChecks, Waited, OpensNothing, Kill, Drained, Unmoved, outside, history
<1> QED
  BY <1>1, <1>2

\* A record that keeps its launch.
LEMMA OwnChanges ==
  ASSUME Layer1, up, NEW r, Record(r), NEW x \in Records, x.gen = recs[r].gen, Save(r, x),
         UNCHANGED <<owner, launches, up, meta, unsaved, deaths, seen, telling>>, Told' = Told,
         x.pend \subseteq recs[r].pend, \A i \in recs[r].pend : i \in telling => i \in x.pend,
         recs[r].state = "ended" => x.state = "ended"
  PROVE  Changes(r, x, {})
<1>1. Update(r, x) /\ Numbered(r, x)
  BY OwnSaves
<1> QED
  BY <1>1 DEF Changes, Old

LEMMA OpenedLayer2 == ASSUME Layer1, Layer2, NEW n \in Launches, Opened(n) PROVE Layer2'
<1> SUFFICES ASSUME NEW r, r = owner[n], NEW x, x = WithProcess(recs[r], n) PROVE Layer2'
  OBVIOUS
<1>1. /\ n \in opening /\ up /\ Save(r, x)
      /\ UNCHANGED <<up, owner, launches, telling, box, meta, seen, deaths, unsaved>>
  BY DEF Opened, history, WithProcess, Layer1, TypeParts, EmptyDown
<1>2. Record(r)
  BY <1>1 DEF Layer1, HeldInv, Exists
<1>3. x \in Records /\ x.gen = recs[r].gen /\ x.state = recs[r].state /\ x.pend = recs[r].pend
  BY <1>2, WithProcessFacts DEF Record
<1>4. Changes(r, x, {})
  BY <1>1, <1>2, <1>3, OwnChanges DEF Told
<1> QED
  BY <1>4, UpdateLayer2

LEMMA SettlesLayer2 == ASSUME Layer1, Layer2, NEW s, Settles(s) PROVE Layer2'
<1>1. /\ up /\ UNCHANGED <<up, owner, launches, box, meta, seen, deaths, unsaved>>
      /\ \/ UNCHANGED <<recs, writes, armed, telling, ended>>
         \/ \E r, e, report : Settled1(s.n, r, e, report)
  BY SettlesDoes
<1>2. CASE UNCHANGED <<recs, writes, armed, telling, ended>>
  BY <1>1, <1>2, UnmovedLayer2 DEF Unmoved
<1>3. CASE \E r, e, report : Settled1(s.n, r, e, report)
  <2>1. PICK n, r, e, report : n = s.n /\ Settled1(n, r, e, report)
    BY <1>3
  <2>2. /\ Exists(n) /\ r = owner[n] /\ recs[r].gen = n /\ ~Settled(recs[r].state)
        /\ SettlesTo(n, recs[r], e, report) /\ Save(r, e)
        /\ report \subseteq {<<n, deaths>>} /\ e \in Records /\ e.gen = n
        /\ e.pend = recs[r].pend \cup report
        /\ report # {} => e.state = "ended"
    BY <2>1 DEF Settled1
  <2>3. Record(r) /\ recs[r].state # "ended"
    BY <2>2 DEF Exists, Settled
  <2>4. Update(r, e) /\ Numbered(r, e)
    BY <1>1, <2>2, <2>3, OwnSaves
  <2>5. telling' = telling \cup report
    BY <2>2 DEF SettlesTo
  <2>6. Changes(r, e, report)
    BY <1>1, <2>2, <2>3, <2>4, <2>5 DEF Changes, Old, Told
  <2> QED
    BY <2>6, UpdateLayer2
<1> QED
  BY <1>1, <1>2, <1>3

LEMMA LaunchLayer2 ==
  ASSUME Layer1, Layer2, up, NEW r \in Launches, NEW x, NEW z, Launched(r, x, z), r <= launches + 1,
         UNCHANGED <<up, telling, box, meta, seen, deaths, unsaved>>, x.pend = Old(r)
  PROVE  Layer2'
<1>1. /\ launches + 1 \in Launches /\ launches' = launches + 1 /\ owner' = [owner EXCEPT ![launches + 1] = r]
      /\ z \in Records /\ z.gen = launches + 1 /\ z.pend = x.pend /\ Update(r, z)
  BY DEF Launched
<1>2. Numbered(r, z)
  BY <1>1 DEF Numbered
<1>3. Changes(r, z, {})
  BY <1>1, <1>2 DEF Changes, Told
<1> QED
  BY <1>3, UpdateLayer2

LEMMA TimerFiresLayer2 == ASSUME Layer1, Layer2, NEW r \in Launches, TimerFires(r) PROVE Layer2'
<1> SUFFICES ASSUME NEW x, x = [recs[r] EXCEPT !.timer = FALSE] PROVE Layer2'
  OBVIOUS
<1>1. /\ armed[r] > 0 /\ Launch(r, x)
      /\ UNCHANGED <<up, telling, box, meta, seen, deaths, unsaved>>
  BY DEF TimerFires, history
<1>2. Record(r) /\ up
  BY <1>1 DEF Layer1, TypeParts, WaitTypes, HeldInv, DownInv
<1>3. x \in Records /\ x.pend = recs[r].pend
  BY <1>2, UntimedFacts DEF Untimed, Record
<1>4. PICK z \in Records : Launched(r, x, z)
  BY <1>1, <1>3, LaunchDoes DEF Layer1, TypeParts
<1>5. r <= launches + 1
  BY <1>2, Ranges DEF Launches
<1> QED
  BY <1>1, <1>2, <1>3, <1>4, <1>5, LaunchLayer2 DEF Old

LEMMA RestartLaunchesLayer2 == ASSUME Layer1, Layer2, NEW c \in Callers, RestartLaunches(c) PROVE Layer2'
<1> SUFFICES ASSUME NEW q, q = ops[c].rec, NEW x, x = recs[q] PROVE Layer2'
  OBVIOUS
<1>1. /\ ops[c].kind = "restart" /\ ops[c].pc = "reopen" /\ Launch(q, x)
      /\ UNCHANGED <<up, telling, box, meta, seen, deaths, unsaved>>
  BY DEF RestartLaunches
<1>2. up /\ Record(q)
  <2>1. ops[c] # Idle
    BY <1>1, KindFacts
  <2> QED
    BY <1>1, <2>1 DEF Layer1, OpsInv, DownInv
<1>3. q \in Launches /\ x \in Records
  BY <1>2 DEF Record
<1>4. PICK z \in Records : Launched(q, x, z)
  BY <1>1, <1>3, LaunchDoes DEF Layer1, TypeParts
<1>5. q <= launches + 1
  BY <1>2, <1>3, Ranges DEF Launches
<1> QED
  BY <1>1, <1>2, <1>3, <1>4, <1>5, LaunchLayer2 DEF Old

LEMMA StartLaunchesLayer2 == ASSUME Layer1, Layer2, NEW c \in Callers, StartLaunches(c) PROVE Layer2'
<1> SUFFICES ASSUME NEW q, q = launches + 1 PROVE Layer2'
  OBVIOUS
<1>1. /\ ops[c].kind = "start" /\ Launch(q, NewRecord)
      /\ UNCHANGED <<up, telling, box, meta, seen, deaths, unsaved>>
  BY DEF StartLaunches, NewRecord
<1>2. up
  BY <1>1, KindFacts DEF Layer1, DownInv
<1>3. q \in Launches /\ q <= launches + 1 /\ ~(q <= launches)
  BY <1>1, BrokerAssumption DEF Launch, Layer1, TypeParts, BrokerTypes, Launches
<1>4. ~Record(q)
  BY <1>3, Ranges
<1>5. PICK z \in Records : Launched(q, NewRecord, z)
  BY <1>1, <1>3, LaunchDoes DEF Layer1, TypeParts
<1>6. NewRecord.pend = {}
  BY DEF NewRecord
<1> QED
  BY <1>1, <1>2, <1>3, <1>4, <1>5, <1>6, LaunchLayer2 DEF Old

LEMMA StopRecordLayer2 == ASSUME Layer1, Layer2, NEW c \in Callers, StopRecord(c) PROVE Layer2'
<1> SUFFICES ASSUME NEW r, r = ops[c].rec, NEW x, x = recs[r] PROVE Layer2'
  OBVIOUS
<1>1. /\ Refreshed(c) /\ ops[c].kind # "start"
      /\ \/ UNCHANGED <<recs, writes>>
         \/ x.state # "ended" /\ Save(r, CalledOff(x))
         \/ x.state # "ended" /\ Save(r, Stopping(x))
      /\ UNCHANGED <<up, owner, launches, telling, box, meta, seen, deaths, unsaved>>
  BY DEF StopRecord, CalledOff, Stopping
<1>2. ops[c] # Idle /\ up /\ ops[c].pc = "refresh"
  BY <1>1, KindFacts DEF Refreshed, Layer1, DownInv
<1>3. Record(r) /\ x \in Records
  BY <1>1, <1>2 DEF Layer1, OpsInv, Record
<1>4. CASE UNCHANGED <<recs, writes>>
  BY <1>1, <1>4, UnmovedLayer2 DEF Unmoved
<1>5. ASSUME NEW e \in Records, e.gen = x.gen, e.pend = x.pend, x.state # "ended", Save(r, e) PROVE Layer2'
  <2>1. Changes(r, e, {})
    BY <1>1, <1>2, <1>3, <1>5, OwnChanges DEF Told
  <2> QED
    BY <2>1, UpdateLayer2
<1>6. CASE x.state # "ended" /\ Save(r, CalledOff(x))
  <2>1. CalledOff(x) \in Records /\ CalledOff(x).gen = x.gen /\ CalledOff(x).pend = x.pend
    BY <1>3, CalledOffFacts
  <2> QED
    BY <1>5, <1>6, <2>1
<1>7. CASE x.state # "ended" /\ Save(r, Stopping(x))
  <2>1. Stopping(x) \in Records /\ Stopping(x).gen = x.gen /\ Stopping(x).pend = x.pend
    BY <1>3, StoppingFacts
  <2> QED
    BY <1>5, <1>7, <2>1
<1> QED
  BY <1>1, <1>4, <1>6, <1>7

LEMMA DeliverLayer2 == ASSUME Layer1, Layer2, NEW id \in Ids, Deliver(id) PROVE Layer2'
<1>1. /\ id \in box /\ seen' = seen \cup {id} /\ up
      /\ UNCHANGED <<up, recs, owner, launches, writes, meta, telling, unsaved, deaths, box>>
  BY DEF Deliver, broker, history, Layer1, TypeParts, EmptyDown
<1>2. Told' = Told /\ seen' \subseteq Told
  BY <1>1 DEF Told
<1> QED
  BY <1>1, <1>2, QuietLayer2

LEMMA AckLayer2 == ASSUME Layer1, Layer2, NEW id \in Ids, Ack(id) PROVE Layer2'
<1> SUFFICES ASSUME NEW r, r = current, NEW x, x = Acknowledged(recs[r], id) PROVE Layer2'
  OBVIOUS
<1>1. /\ id \in box /\ id \in seen /\ box' = box \ {id} /\ up
      /\ \/ r # 0 /\ Save(r, x)
         \/ UNCHANGED <<recs, writes>>
      /\ UNCHANGED <<up, owner, launches, telling, meta, seen, deaths, unsaved>>
  BY DEF Ack, history, Acknowledged, Layer1, TypeParts, EmptyDown
<1>2. Told' = Told /\ seen' \subseteq Told /\ id \in Told
  BY <1>1 DEF Told
<1>3. CASE r # 0 /\ Save(r, x)
  <2>1. Record(r)
    BY <1>3, BrokerAssumption DEF Layer1, TypeParts, RecordTypes, BrokerTypes, Record, Launches
  <2>2. x \in Records /\ x.gen = recs[r].gen /\ x.state = recs[r].state /\ x.pend = recs[r].pend \ {id}
    BY <2>1, AcknowledgedFacts DEF Record
  <2>3. id \notin telling
    BY <1>2 DEF Layer2, TellingInv
  <2>4. Changes(r, x, {})
    BY <1>1, <1>2, <1>3, <2>1, <2>2, <2>3, OwnChanges
  <2> QED
    BY <2>4, UpdateLayer2
<1>4. CASE UNCHANGED <<recs, writes>>
  BY <1>1, <1>2, <1>4, QuietLayer2
<1> QED
  BY <1>1, <1>3, <1>4

\* The last write of a queue is of what the record is.
LEMMA EmptiedLast ==
  ASSUME Layer1, Layer2, NEW r \in Launches, writes[r] # <<>>, Tail(writes[r]) = <<>>
  PROVE  writes[r][1] = Snapshot(recs[r])
<1> DEFINE t == Tail(writes[r])
<1>1. writes[r] \in Seq(Metas)
  BY DEF Layer1, TypeParts, DiskTypes
<1>2. Len(writes[r]) \in Nat \ {0} /\ Len(t) = Len(writes[r]) - 1 /\ t = <<>>
  BY <1>1, TailFacts
<1> HIDE DEF t
<1>3. Len(t) = 0
  BY <1>2
<1>4. Len(writes[r]) = 1
  BY <1>2, <1>3
<1> QED
  BY <1>4 DEF Layer2, SavedInv, Last

LEMMA WriteLayer2 == ASSUME Layer1, Layer2, NEW r \in Launches, Write(r) PROVE Layer2'
<1> SUFFICES ASSUME NEW m, m = writes[r][1] PROVE Layer2'
  OBVIOUS
<1>1. /\ writes[r] # <<>> /\ Record(r) /\ up /\ meta' = m /\ m \in Queue(r)
      /\ writes'[r] = Tail(writes[r]) /\ Queue(r)' \subseteq Queue(r)
      /\ \A p \in Launches : p # r => writes'[p] = writes[p] /\ Queue(p)' = Queue(p)
      /\ unsaved' = unsaved \ m.pend
      /\ UNCHANGED <<up, recs, owner, launches, telling, box, seen, deaths>>
  BY WriteDoes DEF broker
<1>2. /\ deaths \in Nat /\ telling \subseteq Ids /\ box \subseteq Ids /\ seen \subseteq Ids
      /\ \A p \in Launches : \A k \in Queue(p) : k \in Metas /\ k.gen \in Launches /\ k.pend \subseteq Ids
                                                 /\ owner[k.gen] = p /\ k.gen <= launches
      /\ \A i \in Ids : i[1] \in Launches /\ i[2] \in Nat
  BY Ranges
<1>3. /\ writes[r] \in Seq(Metas) /\ Len(writes[r]) \in Nat \ {0} /\ 1 \in DOMAIN writes[r]
      /\ Tail(writes[r]) \in Seq(Metas) /\ Len(Tail(writes[r])) = Len(writes[r]) - 1
      /\ \A k \in DOMAIN Tail(writes[r]) : k + 1 \in DOMAIN writes[r] /\ Tail(writes[r])[k] = writes[r][k + 1]
  <2>1. writes[r] \in Seq(Metas)
    BY DEF Layer1, TypeParts, DiskTypes
  <2> QED
    BY <1>1, <2>1, TailFacts
<1>4. Told' = Told /\ (\A p : Record(p)' <=> Record(p)) /\ \A p \in Launches : Queue(p)' \subseteq Queue(p)
  BY <1>1 DEF Told, Record
<1>5. Accounts(m) /\ PendingOf(m) /\ owner[m.gen] = r /\ \A p \in Launches : \A k \in Queue(p) : Accounts(k)
  BY <1>1, <1>2 DEF Layer2, PendingInv, Accounts
<1>6. SavedInv'
  <2>1. ASSUME NEW p \in Launches, writes'[p] # <<>> PROVE Last(p)' = Snapshot(recs'[p])
    <3>1. CASE p # r
      BY <1>1, <2>1, <3>1 DEF Layer2, SavedInv, Last
    <3>2. CASE p = r
      <4> DEFINE t == Tail(writes[r])
      <4>1. t \in Seq(Metas) /\ t # <<>> /\ writes'[p] = t
        BY <1>1, <1>3, <2>1, <3>2
      <4>2. Len(t) \in DOMAIN t
        BY <4>1
      <4>3. t[Len(t)] = writes[r][Len(writes[r])]
        BY <1>3, <4>2
      <4>4. writes[r][Len(writes[r])] = Snapshot(recs[r])
        BY <1>1 DEF Layer2, SavedInv, Last
      <4> QED
        BY <1>1, <3>2, <4>1, <4>3, <4>4 DEF Last
    <3> QED
      BY <3>1, <3>2
  <2> QED
    BY <2>1 DEF SavedInv
<1>7. PendingInv'
  <2>1. PendingOf(meta)' /\ meta'.pend \cap unsaved' = {} /\ meta'.pend \subseteq telling' \cup Told'
    BY <1>1, <1>4, <1>5 DEF PendingOf, Accounts
  <2>2. ASSUME NEW p \in Launches PROVE (Record(p)' => Accounts(recs[p])') /\ \A k \in Queue(p)' : Accounts(k)'
    <3>1. \A k : Accounts(k) => Accounts(k)'
      BY <1>1, <1>4 DEF Accounts, PendingOf
    <3>2. \A k \in Queue(p)' : Accounts(k)'
      BY <1>4, <1>5, <3>1
    <3>3. Record(p)' => Accounts(recs[p])'
      BY <1>1, <1>4 DEF Layer2, PendingInv, Accounts, PendingOf
    <3> QED
      BY <3>2, <3>3
  <2>3. \A i \in Told' \cup unsaved' : i[2] <= deaths'
    BY <1>1, <1>4 DEF Layer2, PendingInv
  <2> QED
    BY <1>1, <2>1, <2>2, <2>3 DEF PendingInv
<1>8. TellingInv'
  <2>1. ASSUME NEW i \in telling PROVE Awaits(i)'
    <3>1. /\ i[2] = deaths /\ i \in recs[owner[i[1]]].pend
          /\ \A p \in Launches :
                /\ Record(p) /\ i \in recs[p].pend => owner[i[1]] = p
                /\ \A k \in Queue(p) : i \in k.pend => owner[i[1]] = p
                /\ \A k, l \in DOMAIN writes[p] : k < l /\ i \in writes[p][k].pend => i \in writes[p][l].pend
                /\ owner[i[1]] = p /\ i \in meta.pend => \A k \in Queue(p) : i \in k.pend
      BY <2>1 DEF Layer2, TellingInv, Awaits
    <3>2. ASSUME NEW p \in Launches, NEW k \in DOMAIN writes'[p], NEW l \in DOMAIN writes'[p], k < l,
                 i \in writes'[p][k].pend
          PROVE  i \in writes'[p][l].pend
      <4>1. CASE p # r
        BY <1>1, <3>1, <3>2, <4>1
      <4>2. CASE p = r
        <5>1. k \in DOMAIN Tail(writes[r]) /\ l \in DOMAIN Tail(writes[r])
          BY <1>1, <3>2, <4>2
        <5>2. k \in Nat /\ l \in Nat
          BY <1>3, <5>1
        <5>3. /\ k + 1 \in DOMAIN writes[r] /\ writes'[r][k] = writes[r][k + 1]
              /\ l + 1 \in DOMAIN writes[r] /\ writes'[r][l] = writes[r][l + 1]
          BY <1>1, <1>3, <5>1
        <5>4. k + 1 < l + 1
          BY <3>2, <5>2
        <5> QED
          BY <3>1, <3>2, <4>2, <5>3, <5>4
      <4> QED
        BY <4>1, <4>2
    <3>3. ASSUME NEW p \in Launches, owner[i[1]] = p, i \in m.pend, NEW k \in Queue(p)' PROVE i \in k.pend
      <4>1. p = r
        BY <1>1, <3>1, <3>3
      <4>a. PICK l \in DOMAIN writes'[p] : k = writes'[p][l]
        BY <3>3 DEF Queue
      <4>2. l \in DOMAIN Tail(writes[r]) /\ k = Tail(writes[r])[l]
        BY <1>1, <4>1, <4>a
      <4>3. l + 1 \in DOMAIN writes[r] /\ k = writes[r][l + 1] /\ l \in Nat /\ 1 < l + 1
        BY <1>3, <4>2
      <4> QED
        BY <1>1, <1>3, <3>1, <3>3, <4>3
    <3>4. ASSUME NEW p \in Launches
          PROVE  /\ Record(p)' /\ i \in recs'[p].pend => owner[i[1]] = p
                 /\ \A k \in Queue(p)' : i \in k.pend => owner[i[1]] = p
      BY <1>1, <1>4, <3>1
    <3> QED
      BY <1>1, <3>1, <3>2, <3>3, <3>4 DEF Awaits
  <2>2. writes'[r] = <<>> => m = Snapshot(recs[r])
    BY <1>1, EmptiedLast
  <2>3. ASSUME NEW i \in telling PROVE i \in unsaved' \/ writes'[owner'[i[1]]] # <<>> \/ Over(i)'
    <3>1. i \in unsaved \/ writes[owner[i[1]]] # <<>> \/ Over(i)
      BY <2>3 DEF Layer2, TellingInv
    <3>2. i \in recs[owner[i[1]]].pend /\ i[1] \in Launches /\ Record(owner[i[1]]) /\ owner[i[1]] \in Launches
      BY <1>2, <2>3 DEF Layer1, HeldInv, Exists, Record, Layer2, TellingInv, Awaits
    <3>3. CASE owner[i[1]] = r
      <4>1. CASE writes'[r] = <<>>
        <5>1. i \in m.pend
          BY <1>1, <2>2, <3>2, <3>3, <4>1, SnapshotFacts DEF Record
        <5> QED
          BY <1>1, <1>5, <5>1 DEF PendingOf, Over
      <4> QED
        BY <1>1, <3>3, <4>1
    <3>4. CASE owner[i[1]] # r
      <4>1. m.gen # i[1]
        BY <1>5, <3>4
      <4> QED
        BY <1>1, <4>1 DEF Over
    <3> QED
      BY <3>3, <3>4
  <2> QED
    BY <1>1, <1>4, <2>1, <2>3 DEF Layer2, TellingInv
<1>9. ToldInv'
  <2>1. ASSUME NEW i \in Told, Shut(i) PROVE Shut(i)' /\ (m.gen = i[1] => m.state = "ended")
    <3>1. m.gen = i[1] => m.state = "ended"
      BY <1>1, <2>1 DEF Shut
    <3>2. Shut(i)'
      BY <1>1, <1>4, <2>1 DEF Shut
    <3> QED
      BY <3>1, <3>2
  <2>2. ASSUME NEW i \in Told, i \in unsaved, i \in m.pend PROVE i[2] = deaths
    BY <1>5, <2>2 DEF Accounts
  <2> QED
    BY <1>1, <1>4, <2>1, <2>2 DEF Layer2, ToldInv, Over
<1>10. OnceInv'
  <2>1. Known' = Known /\ Known = Told \cup telling
    BY <1>1, <1>4 DEF Known
  <2>2. ASSUME NEW i \in Known, NEW j \in Known, i[1] = j[1], i[2] < j[2] PROVE i \notin m.pend \/ i \notin unsaved
    <3>1. j[2] <= deaths /\ j[2] \in Nat /\ i[2] \in Nat
      BY <1>2, <2>1 DEF Layer2, PendingInv, TellingInv, Awaits, Told
    <3>2. i \in m.pend /\ i \in unsaved => i[2] = deaths
      BY <1>5 DEF Accounts
    <3> QED
      BY <1>2, <2>2, <3>1, <3>2
  <2> QED
    BY <1>1, <2>1, <2>2 DEF Layer2, OnceInv
<1> QED
  BY <1>6, <1>7, <1>8, <1>9, <1>10 DEF Layer2

\* A write that fails leaves the disk as it is, and what it had counts as unsaved.
LEMMA WriteFailsLayer2 == ASSUME Layer1, Layer2, NEW r \in Launches, WriteFails(r) PROVE Layer2'
<1> SUFFICES ASSUME NEW m, m = writes[r][1] PROVE Layer2'
  OBVIOUS
<1>1. /\ writes[r] # <<>> /\ Record(r) /\ up /\ m \in Queue(r)
      /\ writes'[r] = Tail(writes[r]) /\ Queue(r)' \subseteq Queue(r)
      /\ \A p \in Launches : p # r => writes'[p] = writes[p] /\ Queue(p)' = Queue(p)
      /\ unsaved' = unsaved \cup {i \in m.pend \ meta.pend : i[2] = deaths}
      /\ UNCHANGED <<up, recs, owner, launches, telling, box, seen, deaths, meta>>
  BY WriteFailsDoes DEF broker
<1>2. /\ writes[r] \in Seq(Metas) /\ Tail(writes[r]) \in Seq(Metas)
      /\ Len(writes[r]) \in Nat \ {0} /\ Len(Tail(writes[r])) = Len(writes[r]) - 1
      /\ \A k \in DOMAIN Tail(writes[r]) : k + 1 \in DOMAIN writes[r] /\ Tail(writes[r])[k] = writes[r][k + 1]
  <2>1. writes[r] \in Seq(Metas)
    BY DEF Layer1, TypeParts, DiskTypes
  <2> QED
    BY <1>1, <2>1, TailFacts
<1>3. Told' = Told /\ (\A p : Record(p)' <=> Record(p)) /\ \A p \in Launches : Queue(p)' \subseteq Queue(p)
  BY <1>1 DEF Told, Record
<1>4. unsaved \subseteq unsaved' /\ \A i \in unsaved' : i \in unsaved \/ (i[2] = deaths /\ i \notin meta.pend)
  BY <1>1
<1>5. deaths \in Nat
  BY Ranges
<1>6. SavedInv'
  <2>1. ASSUME NEW p \in Launches, writes'[p] # <<>> PROVE Last(p)' = Snapshot(recs'[p])
    <3>1. CASE p # r
      BY <1>1, <2>1, <3>1 DEF Layer2, SavedInv, Last
    <3>2. CASE p = r
      <4> DEFINE t == Tail(writes[r])
      <4>1. t \in Seq(Metas) /\ t # <<>> /\ writes'[p] = t
        BY <1>1, <1>2, <2>1, <3>2
      <4>2. Len(t) \in DOMAIN t
        BY <4>1
      <4>3. t[Len(t)] = writes[r][Len(writes[r])]
        BY <1>2, <4>2
      <4>4. writes[r][Len(writes[r])] = Snapshot(recs[r])
        BY <1>1 DEF Layer2, SavedInv, Last
      <4> QED
        BY <1>1, <3>2, <4>1, <4>3, <4>4 DEF Last
    <3> QED
      BY <3>1, <3>2
  <2> QED
    BY <2>1 DEF SavedInv
<1>7. PendingInv'
  <2>1. PendingOf(meta)' /\ meta'.pend \cap unsaved' = {} /\ meta'.pend \subseteq telling' \cup Told'
    BY <1>1, <1>3, <1>4 DEF Layer2, PendingInv, PendingOf
  <2>2. ASSUME NEW p \in Launches PROVE (Record(p)' => Accounts(recs[p])') /\ \A k \in Queue(p)' : Accounts(k)'
    <3>1. \A k : Accounts(k) => Accounts(k)'
      BY <1>1, <1>3, <1>4 DEF Accounts, PendingOf
    <3>2. \A k \in Queue(p)' : Accounts(k)'
      BY <1>3, <3>1 DEF Layer2, PendingInv
    <3>3. Record(p)' => Accounts(recs[p])'
      BY <1>1, <1>3, <1>4 DEF Layer2, PendingInv, Accounts, PendingOf
    <3> QED
      BY <3>2, <3>3
  <2>3. \A i \in Told' \cup unsaved' : i[2] <= deaths'
    BY <1>1, <1>3, <1>4, <1>5 DEF Layer2, PendingInv
  <2> QED
    BY <1>1, <2>1, <2>2, <2>3 DEF PendingInv
<1>8. TellingInv'
  <2>1. ASSUME NEW i \in telling PROVE Awaits(i)'
    <3>1. /\ i[2] = deaths /\ i \in recs[owner[i[1]]].pend
          /\ \A p \in Launches :
                /\ Record(p) /\ i \in recs[p].pend => owner[i[1]] = p
                /\ \A k \in Queue(p) : i \in k.pend => owner[i[1]] = p
                /\ \A k, l \in DOMAIN writes[p] : k < l /\ i \in writes[p][k].pend => i \in writes[p][l].pend
                /\ owner[i[1]] = p /\ i \in meta.pend => \A k \in Queue(p) : i \in k.pend
      BY <2>1 DEF Layer2, TellingInv, Awaits
    <3>2. ASSUME NEW p \in Launches, NEW k \in DOMAIN writes'[p], NEW l \in DOMAIN writes'[p], k < l,
                 i \in writes'[p][k].pend
          PROVE  i \in writes'[p][l].pend
      <4>1. CASE p # r
        BY <1>1, <3>1, <3>2, <4>1
      <4>2. CASE p = r
        <5>1. k \in DOMAIN Tail(writes[r]) /\ l \in DOMAIN Tail(writes[r])
          BY <1>1, <3>2, <4>2
        <5>2. k \in Nat /\ l \in Nat
          BY <1>2, <5>1
        <5>3. /\ k + 1 \in DOMAIN writes[r] /\ writes'[r][k] = writes[r][k + 1]
              /\ l + 1 \in DOMAIN writes[r] /\ writes'[r][l] = writes[r][l + 1]
          BY <1>1, <1>2, <5>1
        <5>4. k + 1 < l + 1
          BY <3>2, <5>2
        <5> QED
          BY <3>1, <3>2, <4>2, <5>3, <5>4
      <4> QED
        BY <4>1, <4>2
    <3>3. ASSUME NEW p \in Launches
          PROVE  /\ Record(p)' /\ i \in recs'[p].pend => owner[i[1]] = p
                 /\ \A k \in Queue(p)' : i \in k.pend => owner[i[1]] = p
                 /\ owner[i[1]] = p /\ i \in meta.pend => \A k \in Queue(p)' : i \in k.pend
      BY <1>1, <1>3, <3>1
    <3> QED
      BY <1>1, <3>1, <3>2, <3>3 DEF Awaits
  <2>2. ASSUME NEW i \in telling PROVE i \in unsaved' \/ writes'[owner'[i[1]]] # <<>> \/ Over(i)'
    <3>1. i \in unsaved \/ writes[owner[i[1]]] # <<>> \/ Over(i)
      BY <2>2 DEF Layer2, TellingInv
    <3>2. /\ i[2] = deaths /\ i \in recs[owner[i[1]]].pend
          /\ Record(owner[i[1]]) /\ owner[i[1]] \in Launches
      BY <2>2 DEF Layer1, HeldInv, Exists, Record, Layer2, TellingInv, Awaits
    <3>3. CASE owner[i[1]] = r /\ writes'[r] = <<>>
      <4>1. m = Snapshot(recs[r])
        BY <1>1, <3>3, EmptiedLast
      <4>2. i \in m.pend
        BY <3>2, <3>3, <4>1, SnapshotFacts DEF Record
      <4>3. i \in meta.pend => Over(i)
        BY DEF Layer2, PendingInv, PendingOf, Over
      <4> QED
        BY <1>1, <3>2, <4>2, <4>3 DEF Over
    <3>4. CASE owner[i[1]] # r
      BY <1>1, <1>4, <3>1, <3>2, <3>4 DEF Over
    <3> QED
      BY <1>1, <3>3, <3>4
  <2> QED
    BY <1>1, <1>3, <2>1, <2>2 DEF Layer2, TellingInv
<1>9. ToldInv'
  <2>1. \A i \in Told : Shut(i) => Shut(i)'
    BY <1>1, <1>3 DEF Shut
  <2> QED
    BY <1>1, <1>3, <1>4, <2>1 DEF Layer2, ToldInv, Over
<1>10. OnceInv'
  <2>1. Known' = Known
    BY <1>1, <1>3 DEF Known
  <2> QED
    BY <1>4, <2>1 DEF Layer2, OnceInv
<1> QED
  BY <1>6, <1>7, <1>8, <1>9, <1>10 DEF Layer2

\* The completion that the notice moves is of a launch that is over, in memory,
\* in the queue and on disk.
LEMMA NotifyLayer2 == ASSUME Layer1, Layer2, NEW id \in Ids, Notify(id) PROVE Layer2'
<1> SUFFICES ASSUME NEW r, r = owner[id[1]] PROVE Layer2'
  OBVIOUS
<1>1. /\ id \in telling /\ telling' = telling \ {id} /\ up
      /\ \A k \in DOMAIN writes[r] : id \in meta.pend \/ id \notin writes[r][k].pend
      /\ box' = (IF id \in recs[r].pend THEN box \cup {id} ELSE box)
      /\ UNCHANGED <<up, recs, owner, launches, writes, meta, unsaved, deaths, seen>>
  BY DEF Notify, outside, history, Layer1, TypeParts, EmptyDown
<1>2. /\ id[2] = deaths /\ id \in recs[r].pend /\ id \notin Told
      /\ \A p \in Launches :
            /\ \A k, l \in DOMAIN writes[p] : k < l /\ id \in writes[p][k].pend => id \in writes[p][l].pend
            /\ r = p /\ id \in meta.pend => \A m \in Queue(p) : id \in m.pend
  BY <1>1 DEF Layer2, TellingInv, Awaits
<1>3. id[1] \in Launches /\ id[1] <= launches /\ Record(r) /\ r \in Launches
  BY <1>1, Ranges DEF Layer1, HeldInv, Exists, Record
<1>4. /\ \A p \in Launches : /\ \A m \in Queue(p) : m.pend \subseteq Ids /\ owner[m.gen] = p
                             /\ Record(p) => recs[p].gen \in Launches /\ owner[recs[p].gen] = p
      /\ deaths \in Nat /\ meta.gen \in Nat /\ (meta.gen # 0 => meta.gen \in Launches)
  BY Ranges
<1>5. box' = box \cup {id} /\ Told' = Told \cup {id}
  BY <1>1, <1>2 DEF Told
<1>6. (\A p : Record(p)' <=> Record(p)) /\ (\A p : Queue(p)' = Queue(p)) /\ \A p : Last(p)' = Last(p)
  BY <1>1 DEF Record, Queue, Last
<1>7. SavedInv'
  BY <1>1, <1>6 DEF Layer2, SavedInv
<1>8. PendingInv'
  <2>1. \A m : Accounts(m) => Accounts(m)'
    BY <1>1, <1>5 DEF Accounts, PendingOf
  <2>2. \A p \in Launches : Record(p)' => Accounts(recs[p])'
    BY <1>1, <1>5, <1>6 DEF Layer2, PendingInv, Accounts, PendingOf
  <2>3. \A p \in Launches : \A m \in Queue(p)' : Accounts(m)'
    BY <1>6, <2>1 DEF Layer2, PendingInv
  <2>4. PendingOf(meta)' /\ meta'.pend \cap unsaved' = {} /\ meta'.pend \subseteq telling' \cup Told'
    BY <1>1, <1>5 DEF Layer2, PendingInv, PendingOf
  <2>5. \A i \in Told' \cup unsaved' : i[2] <= deaths'
    BY <1>1, <1>2, <1>4, <1>5 DEF Layer2, PendingInv
  <2> QED
    BY <1>1, <2>2, <2>3, <2>4, <2>5 DEF PendingInv
<1>9. TellingInv'
  <2>1. \A i \in telling' : Awaits(i)'
    BY <1>1, <1>6 DEF Layer2, TellingInv, Awaits
  <2>2. \A i \in telling' : i \in unsaved' \/ writes'[owner'[i[1]]] # <<>> \/ Over(i)'
    BY <1>1 DEF Layer2, TellingInv, Over
  <2> QED
    BY <1>1, <1>5, <2>1, <2>2 DEF Layer2, TellingInv
<1>10. Shut(id) /\ (id \notin unsaved => Over(id))
  <2>1. PendingOf(recs[r]) /\ (\A m \in Queue(r) : PendingOf(m)) /\ PendingOf(meta)
    BY <1>3 DEF Layer2, PendingInv, Accounts
  <2>2. recs[r].gen = id[1] => recs[r].state = "ended"
    BY <1>2, <2>1 DEF PendingOf
  <2>3. CASE id \in meta.pend
    <3>1. \A m \in Queue(r) : m.gen = id[1] => m.state = "ended"
      BY <1>2, <1>3, <2>1, <2>3 DEF PendingOf
    <3>2. Over(id)
      BY <2>1, <2>3 DEF PendingOf, Over
    <3>3. \A p \in Launches : (Record(p) /\ recs[p].gen = id[1] => p = r) /\ \A m \in Queue(p) : m.gen = id[1] => p = r
      BY <1>4
    <3> QED
      BY <2>2, <3>1, <3>2, <3>3 DEF Shut
  <2>4. CASE id \notin meta.pend
    <3>1. writes[r] = <<>>
      <4>1. SUFFICES ASSUME writes[r] # <<>> PROVE FALSE
        OBVIOUS
      <4>2. Len(writes[r]) \in DOMAIN writes[r]
        BY <1>3, <4>1 DEF Layer1, TypeParts, DiskTypes
      <4>3. writes[r][Len(writes[r])] = Snapshot(recs[r]) /\ Snapshot(recs[r]).pend = recs[r].pend
        BY <1>3, <4>1, SnapshotFacts DEF Layer2, SavedInv, Last, Record
      <4> QED
        BY <1>1, <1>2, <2>4, <4>2, <4>3
    <3>2. Queue(r) = {}
      BY <3>1 DEF Queue
    <3>3. id \in unsaved \/ Over(id)
      BY <1>1, <3>1 DEF Layer2, TellingInv
    <3>4. \A p \in Launches : (Record(p) /\ recs[p].gen = id[1] => p = r) /\ \A m \in Queue(p) : m.gen = id[1] => p = r
      BY <1>4
    <3> QED
      BY <2>2, <3>2, <3>3, <3>4 DEF Shut
  <2> QED
    BY <2>3, <2>4
<1>11. ToldInv'
  <2>1. \A i : Shut(i) <=> Shut(i)'
    BY <1>1, <1>6 DEF Shut
  <2> QED
    BY <1>1, <1>3, <1>5, <1>10, <2>1 DEF Layer2, ToldInv, Over
<1>12. OnceInv'
  <2>1. Known' = Known
    BY <1>1, <1>5 DEF Known
  <2> QED
    BY <1>1, <2>1 DEF Layer2, OnceInv
<1> QED
  BY <1>7, <1>8, <1>9, <1>11, <1>12 DEF Layer2

LEMMA GoneLayer2 == ASSUME Layer1, Layer2, up, Gone PROVE Layer2'
<1>1. /\ deaths' = deaths + 1 /\ up' = FALSE
      /\ recs' = [r \in Launches |-> NoRecord] /\ telling' = {} /\ box' = {}
      /\ writes' = [r \in Launches |-> <<>>]
      /\ UNCHANGED <<owner, launches, meta, seen, unsaved>>
  BY DEF Gone
<1>2. \A r \in Launches : ~Record(r)' /\ Queue(r)' = {} /\ writes'[r] = <<>>
  BY <1>1, NoRecordFacts DEF Record, Queue
<1>3. Told' = seen /\ Told' \subseteq Told /\ Known' = seen \cup meta.pend
  BY <1>1 DEF Told, Known
<1>4. deaths \in Nat /\ seen \subseteq Ids /\ unsaved \subseteq Ids /\ meta.pend \subseteq Ids /\ \A i \in Ids : i[2] \in Nat
  BY Ranges
<1>5. \A i \in meta.pend \cup seen \cup unsaved : i[2] <= deaths /\ i[2] \in Nat
  BY <1>4 DEF Layer2, PendingInv, PendingOf, Told
<1>6. \A i \in meta.pend \cup seen \cup unsaved : i[2] < deaths' /\ i[2] <= deaths' /\ i[2] # deaths'
  BY <1>1, <1>4, <1>5
<1>7. SavedInv'
  BY <1>1, <1>2 DEF SavedInv
<1>8. PendingInv'
  BY <1>1, <1>2, <1>3, <1>6 DEF Layer2, PendingInv, PendingOf
<1>9. TellingInv'
  BY <1>1 DEF TellingInv
<1>10. ToldInv'
  BY <1>1, <1>2, <1>3, <1>6 DEF Layer2, ToldInv, Shut, Over
<1>11. OnceInv'
  <2>1. meta.pend \subseteq Known /\ seen \subseteq Known
    BY DEF Layer2, PendingInv, Known, Told
  <2> QED
    BY <1>1, <1>3, <2>1 DEF Layer2, OnceInv
<1> QED
  BY <1>7, <1>8, <1>9, <1>10, <1>11 DEF Layer2

LEMMA RecoverLayer2 == ASSUME Layer1, Layer2, Recover PROVE Layer2'
<1>1. /\ ~up /\ up' = TRUE
      /\ UNCHANGED <<launches, telling, meta, seen, deaths>>
  BY DEF Recover
<1>2. /\ recs = [r \in Launches |-> NoRecord] /\ current = 0 /\ telling = {} /\ box = {}
      /\ writes = [r \in Launches |-> <<>>]
  BY <1>1 DEF Layer1, DownInv, TypeParts, EmptyDown
<1>3. \A r \in Launches : ~Record(r) /\ Queue(r) = {} /\ writes[r] = <<>>
  BY <1>2, NoRecordFacts DEF Record, Queue
<1>4. /\ deaths \in Nat /\ launches \in Nat /\ meta.gen \in Nat /\ meta.gen <= launches
      /\ seen \subseteq Ids /\ unsaved \subseteq Ids /\ meta.pend \subseteq Ids
      /\ \A i \in Ids : i[1] \in Launches /\ i[1] \in Nat /\ i[2] \in Nat
  BY Ranges
<1>5. Known = seen \cup meta.pend
  BY <1>1, <1>2 DEF Known, Told
<1>6. /\ \A i \in meta.pend : i[1] <= meta.gen /\ (i[1] = meta.gen => meta.state = "ended") /\ i[2] < deaths
      /\ meta.pend \cap unsaved = {}
      /\ \A i \in seen \cup unsaved : i[2] < deaths
      /\ \A i \in seen : i[1] <= launches /\ (i \notin unsaved => (meta.gen = i[1] => meta.state = "ended"))
  BY <1>1 DEF Layer2, PendingInv, PendingOf, ToldInv, Over, Told
<1>7. CASE meta.gen = 0
  <2>1. UNCHANGED <<current, recs, owner, writes, box, proc, ended, unsaved>>
    BY <1>7 DEF Recover
  <2>2. meta.pend = {}
    BY <1>4, <1>6, <1>7 DEF Launches
  <2>3. \A r \in Launches : ~Record(r)' /\ Queue(r)' = {} /\ writes'[r] = <<>>
    BY <1>3, <2>1 DEF Record, Queue
  <2>4. Told' = seen /\ Known' = seen
    BY <1>1, <1>2, <2>1 DEF Told, Known
  <2>5. \A i \in seen \cup unsaved : i[2] <= deaths
    BY <1>4, <1>6
  <2>6. SavedInv' /\ PendingInv' /\ TellingInv' /\ ToldInv'
    BY <1>1, <1>2, <1>6, <1>7, <2>1, <2>2, <2>3, <2>4, <2>5
       DEF SavedInv, PendingInv, PendingOf, TellingInv, ToldInv, Shut, Over
  <2>7. OnceInv'
    BY <1>5, <2>1, <2>4 DEF Layer2, OnceInv
  <2> QED
    BY <2>6, <2>7 DEF Layer2
<1>8. CASE meta.gen # 0
  <2>1. PICK n, x, report : RecoversTo(n, x, report)
    BY <1>8, RecoverDoes
  <2>2. /\ n = meta.gen /\ n \in Launches /\ meta \in Metas /\ n \in Nat
        /\ report = (IF Unreported THEN {<<n, deaths>>} ELSE {})
        /\ x \in Records /\ x.gen = n /\ x.pend = meta.pend \cup report
        /\ owner' = [owner EXCEPT ![n] = n] /\ Update(n, x)
        /\ box' = x.pend /\ unsaved' = unsaved \cup report
    BY <1>4, <2>1 DEF RecoversTo
  <2>3. (meta.state = "ended" => x.state = "ended") /\ (report # {} => x.state = "ended")
    BY <2>1 DEF RecoversTo, Adopts, Unreported
  <2>4. report # {} => meta.pend = {} /\ meta.state # "ended"
    BY <2>2 DEF Unreported
  <2>5. report \subseteq Ids /\ \A i \in report : i[1] = n /\ i[2] = deaths
    <3>1. <<n, deaths>> \in Ids /\ <<n, deaths>>[1] = n /\ <<n, deaths>>[2] = deaths
      BY <2>2, IdFacts DEF Layer1, TypeParts
    <3> QED
      BY <2>2, <3>1
  <2>6. /\ recs'[n] = x /\ Record(n)' /\ writes'[n] # <<>> /\ writes'[n][Len(writes'[n])] = Snapshot(x)
        /\ \A p \in Launches : p # n => ~Record(p)' /\ Queue(p)' = {} /\ writes'[p] = <<>>
        /\ \A m \in Queue(n)' : m.gen = n /\ m.state = x.state /\ m.pend = x.pend
    <3>1. /\ recs'[n] = x /\ Record(n)' /\ writes'[n] # <<>> /\ writes'[n][Len(writes'[n])] = Snapshot(x)
          /\ \A p \in Launches : p # n => ~Record(p)' /\ Queue(p)' = {} /\ writes'[p] = <<>>
          /\ \A m \in Queue(n)' : Like(m, x)
      BY <1>3, <2>2, UpdateFacts DEF Layer1, TypeParts
    <3> QED
      BY <2>2, <3>1 DEF Like
  <2>7. owner'[n] = n
    BY <2>2 DEF Layer1, TypeParts, RecordTypes
  <2>8. Told' = seen \cup meta.pend \cup report /\ Known' = Told'
    BY <1>1, <1>2, <2>2 DEF Told, Known
  <2>9. \A i \in seen \cup meta.pend \cup report \cup unsaved : i[2] <= deaths /\ i[2] \in Nat
    BY <1>4, <1>6, <2>5
  <2>10. \A i \in x.pend : i[1] <= n /\ (i[1] = n => x.state = "ended") /\ i[2] <= deaths
    <3>1. \A i \in report : i[1] <= n /\ (i[1] = n => x.state = "ended") /\ i[2] <= deaths
      BY <2>2, <2>3, <2>5, <2>9
    <3>2. \A i \in meta.pend : i[1] <= n /\ (i[1] = n => x.state = "ended") /\ i[2] <= deaths
      BY <1>6, <2>2, <2>3, <2>9
    <3> QED
      BY <2>2, <3>1, <3>2
  <2>11. \A i \in x.pend \cap unsaved' : i[2] = deaths
    BY <1>6, <2>2, <2>5
  <2>12. SavedInv'
    BY <2>6 DEF SavedInv, Last
  <2>13. PendingInv'
    <3>1. Accounts(recs[n])' /\ \A m \in Queue(n)' : Accounts(m)'
      BY <1>1, <2>2, <2>6, <2>8, <2>10, <2>11 DEF Accounts, PendingOf
    <3>2. \A p \in Launches : (Record(p)' => Accounts(recs[p])') /\ \A m \in Queue(p)' : Accounts(m)'
      <4>1. ASSUME NEW p \in Launches PROVE (Record(p)' => Accounts(recs[p])') /\ \A m \in Queue(p)' : Accounts(m)'
        <5>1. CASE p = n
          BY <3>1, <5>1 DEF Accounts, PendingOf
        <5>2. CASE p # n
          BY <2>6, <5>2
        <5> QED
          BY <5>1, <5>2
      <4> QED
        BY <4>1
    <3>3. PendingOf(meta)' /\ meta'.pend \subseteq telling' \cup Told'
      BY <1>1, <1>6, <2>8, <2>9 DEF PendingOf
    <3>4. meta'.pend \cap unsaved' = {}
      BY <1>1, <1>6, <2>2, <2>4
    <3>5. \A i \in Told' \cup unsaved' : i[2] <= deaths'
      BY <1>1, <2>2, <2>8, <2>9
    <3> QED
      BY <1>1, <3>2, <3>3, <3>4, <3>5 DEF PendingInv
  <2>14. TellingInv'
    BY <1>1, <1>2 DEF TellingInv
  <2>15. \A i : (i[1] = n => x.state = "ended") => Shut(i)'
    BY <2>2, <2>6 DEF Shut
  <2>16. ToldInv'
    <3>1. ASSUME NEW i \in Told' PROVE i[1] <= launches
      BY <1>4, <1>6, <2>2, <2>5, <2>8, <3>1
    <3>2. ASSUME NEW i \in Told', i \notin unsaved' PROVE Shut(i)' /\ (meta.gen = i[1] => meta.state = "ended")
      <4>1. i \in seen \cup meta.pend /\ i \notin unsaved
        BY <2>2, <2>8, <3>2
      <4>2. meta.gen = i[1] => meta.state = "ended"
        BY <1>6, <4>1
      <4> QED
        BY <2>2, <2>3, <2>15, <4>2
    <3>3. ASSUME NEW i \in Told', i[2] = deaths PROVE Shut(i)'
      <4>1. i \in report
        BY <1>4, <1>6, <2>8, <2>9, <3>3
      <4> QED
        BY <2>3, <2>15, <4>1
    <3> QED
      BY <1>1, <3>1, <3>2, <3>3 DEF ToldInv, Over
  <2>17. OnceInv'
    <3>1. ASSUME NEW i \in Known', NEW j \in Known', i[1] = j[1], i[2] < j[2] PROVE i \in unsaved'
      <4>1. i \notin report
        BY <1>4, <2>5, <2>8, <2>9, <3>1
      <4>2. CASE j \in report
        <5>1. i \in seen /\ i[1] = n /\ meta.state # "ended"
          BY <2>4, <2>5, <2>8, <3>1, <4>1, <4>2
        <5> QED
          BY <1>6, <2>2, <5>1
      <4>3. CASE j \notin report
        BY <1>5, <2>2, <2>8, <3>1, <4>1, <4>3 DEF Layer2, OnceInv
      <4> QED
        BY <4>2, <4>3
    <3> QED
      BY <3>1 DEF OnceInv
  <2> QED
    BY <2>12, <2>13, <2>14, <2>16, <2>17 DEF Layer2
<1> QED
  BY <1>7, <1>8

LEMMA InitLayer2 == Init => Layer2
<1> SUFFICES ASSUME Init PROVE Layer2
  OBVIOUS
<1>1. \A r \in Launches : ~Record(r) /\ Queue(r) = {} /\ writes[r] = <<>>
  BY NoRecordFacts DEF Init, Record, Queue
<1>2. telling = {} /\ Told = {} /\ unsaved = {} /\ up = TRUE /\ meta.gen = 0 /\ meta.pend = {} /\ seen = {}
  BY DEF Init, NoMeta, Told
<1>3. Known = {}
  BY <1>2 DEF Known
<1> QED
  BY <1>1, <1>2, <1>3 DEF Layer2, SavedInv, PendingInv, PendingOf, TellingInv, ToldInv, OnceInv

LEMMA NextLayer2 == Layer1 /\ Layer2 /\ [Next]_vars => Layer2'
<1> SUFFICES ASSUME Layer1, Layer2, [Next]_vars PROVE Layer2'
  OBVIOUS
<1>1. CASE Supervise
  BY <1>1, OpenedLayer2, WaitsUnmoved, UnmovedLayer2, SettlesLayer2, TimerFiresLayer2 DEF Supervise
<1>2. CASE Report
  BY <1>2, WriteLayer2, WriteFailsLayer2, NotifyLayer2, DeliverLayer2, AckLayer2 DEF Report
<1>3. ASSUME NEW c \in Callers, Request(c) PROVE Layer2'
  BY <1>3, RequestsUnmoved, UnmovedLayer2
<1>4. ASSUME NEW c \in Callers, Serve(c) PROVE Layer2'
  <2>1. Exit(c) => up
    BY KindFacts DEF Exit, Layer1, DownInv
  <2>2. Exit(c) => Layer2'
    BY <2>1, GoneLayer2 DEF Exit
  <2> QED
    BY <1>4, <2>2, RequestsUnmoved, UnmovedLayer2, StartLaunchesLayer2, RestartLaunchesLayer2, StopRecordLayer2
       DEF Serve
<1>5. CASE Crash
  BY <1>5, GoneLayer2 DEF Crash
<1>6. CASE Recover
  BY <1>6, RecoverLayer2
<1>7. ASSUME NEW n \in Launches, Dies(n) PROVE Layer2'
  BY <1>7, WaitsUnmoved, UnmovedLayer2
<1>8. CASE UNCHANGED vars
  BY <1>8, UnmovedLayer2 DEF vars, broker, outside, history, Unmoved
<1> QED
  BY <1>1, <1>2, <1>3, <1>4, <1>5, <1>6, <1>7, <1>8 DEF Next

\* For any number of launches, deaths, requests and failed writes, the owner is told
\* once that a process ended, unless what it was told never reached the disk and
\* the broker dies: one that recovers does not wait for the write, and a write may
\* fail.  Otherwise a completion waits for its record's metadata, which has the
\* launch as ended from then on, in memory, in the queue of writes and on disk.
THEOREM OwnerToldOnce == Spec => []ToldOnce
<1>1. Init => Layer1 /\ Layer2
  BY InitLayer1, InitLayer2
<1>2. Layer1 /\ Layer2 /\ [Next]_vars => (Layer1 /\ Layer2)'
  BY NextLayer1, NextLayer2
<1>3. Spec => [](Layer1 /\ Layer2)
  BY <1>1, <1>2, PTL DEF Spec
<1>4. Layer1 /\ Layer2 => ToldOnce
  BY DEF Layer2, OnceInv, Known, Told, ToldOnce
<1> QED
  BY <1>3, <1>4, PTL

-----------------------------------------------------------------------------
(* Third layer: what holds where none of the races happened.               *)

\* Nothing is under way but in the current record.
SingleInv ==
    /\ \A r \in Launches \ {current} : (Record(r) => recs[r].state = "ended") /\ writes[r] = <<>>
    /\ up /\ current = 0 => meta = NoMeta

\* A process has the number of its launch, and none of those that a death hid.
PidOf(m) == m.pid \in {0, m.gen} /\ (Settled(m.state) => m.pid = 0) /\ m.pid \notin lost

PidInv ==
    /\ PidOf(meta)
    /\ \A r \in Launches : (Record(r) => PidOf(recs[r])) /\ \A m \in Queue(r) : PidOf(m)

EndedInv == \A n \in ended : proc[n] = "alive" => n \in lost

StateOf(x) == (x.timer <=> x.state = "restarting") /\ (x.state = "stopping" => x.stop)

TimerInv ==
    \A r \in Launches : /\ Record(r) => StateOf(recs[r])
                        /\ armed[r] = IF recs[r].state = "restarting" THEN 1 ELSE 0

\* A start has found the name free; a shutdown is past what it could call off.
ServedInv ==
    \A c \in Callers :
        /\ ops[c].kind = "start" /\ ops[c].pc = "open" /\ current # 0 =>
               recs[current].state = "ended" /\ recs[current].pend = {}
        /\ ops[c].kind = "shutdown" /\ ops[c].pc # "refresh" /\ ops[c].rec # 0 =>
               recs[ops[c].rec].state # "restarting"

\* A detached launch without a process is the current one.
OpeningInv ==
    \A n \in opening : /\ owner[n] = current /\ recs[current].gen = n /\ recs[current].pid = 0
                       /\ ~Settled(recs[current].state)
                       /\ n \notin lost /\ n \notin ended /\ n \notin watched
                       /\ \A s \in settles : s.n # n

NotAlive(p) == p = 0 \/ proc[p] # "alive"

SettleInv == \A s \in settles : Unsettled(s.n) => NotAlive(recs[owner[s.n]].pid)

\* What a broker that recovers from m knows of the end of launch n, or could not.
Shows(m, n) ==
    \/ n \in Of(m.pend)
    \/ n <= m.gen /\ (\A k \in Of(m.pend) : k > n) => m.gen = n /\ m.pend = {} /\ m.state \notin {"ended", "stopping"}

Keeps(m, x) ==
    /\ m.gen <= x.gen
    /\ m.gen = x.gen /\ ~Settled(x.state) /\ ~x.stop => m.state \notin {"ended", "stopping"}
    /\ \A n \in ended \ Of(seen) : Shows(m, n)

KeptInv == current # 0 => \A m \in {meta} \cup Queue(current) : Keeps(m, recs[current])

ProcessKept ==
    \A n \in Alive \ lost :
        IF up THEN current # 0 /\ recs[current].pid = n /\ ~Settled(recs[current].state)
        ELSE meta.pid = n /\ meta.state # "ended"

EndKept ==
    \A n \in ended \ Of(seen) :
        IF up THEN current # 0 /\ n \in Of(recs[current].pend \cap (telling \cup box))
        ELSE n \in Of(meta.pend) \/ (meta.gen = n /\ meta.pend = {} /\ meta.state \notin {"ended", "stopping"})

Calm == /\ SingleInv /\ PidInv /\ EndedInv /\ TimerInv /\ ServedInv /\ OpeningInv /\ SettleInv
        /\ KeptInv /\ ProcessKept /\ EndKept

Layer3 == ~stray => Calm

LEMMA OfFacts ==
  /\ \A S, i : i \in S => i[1] \in Of(S)
  /\ \A S, T : S \subseteq T => Of(S) \subseteq Of(T)
  /\ \A S, n : n \in Of(S) => \E i \in S : i[1] = n
  BY DEF Of

LEMMA LikePid ==
  ASSUME Layer1, NEW m, NEW x, Like(m, x), PidOf(x)
  PROVE  PidOf(m)
<1>1. 0 \notin lost
  BY DEF Layer1, TypeParts, ReportTypes, Launches
<1> QED
  BY <1>1 DEF Like, PidOf

\* The record x under r is the current one, alone, and tells of every process and end.
Calmly(r, x) ==
    /\ up' /\ r = current' /\ Update(r, x) /\ UNCHANGED <<meta, seen, lost>>
    /\ \A p \in Launches \ {r} : (Record(p) => recs[p].state = "ended") /\ writes[p] = <<>>
    /\ PidOf(x) /\ StateOf(x)
    /\ armed'[r] = (IF x.state = "restarting" THEN 1 ELSE 0)
    /\ \A p \in Launches : p # r => armed'[p] = armed[p]
    /\ \A m \in {meta} \cup Queue(r) : Keeps(m, x)'
    /\ \A n \in ended' \ Of(seen) : n \in Of(x.pend \cap (telling' \cup box'))
    /\ \A n \in Launches : proc'[n] = "alive" /\ n \notin lost => x.pid = n /\ ~Settled(x.state)
    /\ EndedInv' /\ ServedInv' /\ OpeningInv' /\ SettleInv'

LEMMA UpdateCalm ==
  ASSUME Layer1, Calm, NEW r, NEW x, Calmly(r, x)
  PROVE  Calm'
<1>1. /\ r \in Launches /\ x \in Records /\ recs'[r] = x /\ Record(r)'
      /\ \A p \in Launches : p # r => recs'[p] = recs[p] /\ writes'[p] = writes[p]
                                      /\ Queue(p)' = Queue(p) /\ (Record(p)' <=> Record(p))
      /\ \A m \in Queue(r)' : m \in Queue(r) \/ Like(m, x)
  BY UpdateFacts DEF Calmly, Layer1, TypeParts
<1>2. up' /\ r = current' /\ UNCHANGED <<meta, seen, lost>> /\ r # 0
  BY <1>1 DEF Calmly, Launches
<1>3. SingleInv'
  BY <1>1, <1>2 DEF Calmly, SingleInv
<1>4. PidInv'
  <2>1. \A m : PidOf(m) => PidOf(m)'
    BY <1>2 DEF PidOf
  <2>2. \A m \in Queue(r)' : PidOf(m)
    BY <1>1, LikePid DEF Calmly, Calm, PidInv
  <2>3. ASSUME NEW p \in Launches PROVE (Record(p)' => PidOf(recs[p])') /\ \A m \in Queue(p)' : PidOf(m)'
    <3>1. CASE p = r
      BY <1>1, <1>2, <2>1, <2>2, <3>1 DEF Calmly, PidOf
    <3>2. CASE p # r
      <4>1. (Record(p) => PidOf(recs[p])) /\ \A m \in Queue(p) : PidOf(m)
        BY DEF Calm, PidInv
      <4> QED
        BY <1>1, <1>2, <2>1, <3>2, <4>1 DEF PidOf
    <3> QED
      BY <3>1, <3>2
  <2>4. PidOf(meta)'
    BY <1>2 DEF Calm, PidInv, PidOf
  <2> QED
    BY <2>3, <2>4 DEF PidInv
<1>5. TimerInv'
  <2>1. ASSUME NEW p \in Launches
        PROVE  (Record(p)' => StateOf(recs'[p])) /\ armed'[p] = IF recs'[p].state = "restarting" THEN 1 ELSE 0
    <3>1. CASE p = r
      BY <1>1, <3>1 DEF Calmly
    <3>2. CASE p # r
      BY <1>1, <3>2 DEF Calmly, Calm, TimerInv
    <3> QED
      BY <3>1, <3>2
  <2> QED
    BY <2>1 DEF TimerInv, StateOf
<1>6. KeptInv'
  <2>1. \A m \in {meta} \cup Queue(r) : Keeps(m, x)'
    BY DEF Calmly
  <2>2. ASSUME NEW m, Like(m, x) PROVE Keeps(m, x)'
    <3>1. m.gen = x.gen /\ m.state = x.state /\ m.pend = x.pend /\ x.gen \in Nat
      BY <1>1, <2>2 DEF Like, Records, Launches
    <3>2. ~Settled(x.state) /\ ~x.stop => m.state \notin {"ended", "stopping"}
      BY <3>1 DEF Calmly, StateOf, Settled
    <3>3. \A n \in ended' \ Of(seen') : n \in Of(m.pend)
      BY <1>2, <3>1, OfFacts DEF Calmly
    <3> QED
      BY <3>1, <3>2, <3>3 DEF Keeps, Shows
  <2>3. \A m \in {meta'} \cup Queue(r)' : Keeps(m, x)'
    BY <1>1, <1>2, <2>1, <2>2
  <2> QED
    BY <1>1, <1>2, <2>3 DEF KeptInv, Queue, Keeps, Shows
<1>7. ProcessKept' /\ EndKept'
  BY <1>1, <1>2 DEF Calmly, ProcessKept, EndKept, Alive
<1>8. EndedInv' /\ ServedInv' /\ OpeningInv' /\ SettleInv'
  BY DEF Calmly
<1> QED
  BY <1>3, <1>4, <1>5, <1>6, <1>7, <1>8 DEF Calm

\* Steps that leave the records and the disk: a process may die, a settlement come.
LEMMA QuietCalm ==
  ASSUME Calm, UNCHANGED <<up, current, recs, owner, writes, meta, ended, lost, armed>>,
         \A n \in Launches : proc'[n] = "alive" => proc[n] = "alive", Of(seen) \subseteq Of(seen'),
         \A i \in telling \cup box : i \in telling' \cup box' \cup seen',
         opening' \subseteq opening, \A n \in opening' : n \notin watched', ended \subseteq Launches,
         \A s \in settles' : \/ s \in settles
                             \/ s.n \notin opening' /\ (Unsettled(s.n) => NotAlive(recs[owner[s.n]].pid)'),
         \A s \in settles : Unsettled(s.n) => recs[owner[s.n]].pid = 0 \/ recs[owner[s.n]].pid \in Launches,
         ServedInv'
  PROVE  Calm'
<1>1. (\A r : Record(r)' <=> Record(r)) /\ (\A r : Queue(r)' = Queue(r)) /\ \A n : Unsettled(n)' <=> Unsettled(n)
  BY DEF Record, Queue, Unsettled
<1>2. SingleInv'
  BY <1>1 DEF Calm, SingleInv
<1>3. PidInv'
  BY <1>1 DEF Calm, PidInv, PidOf
<1>4. EndedInv'
  BY DEF Calm, EndedInv
<1>5. TimerInv'
  BY <1>1 DEF Calm, TimerInv
<1>6. OpeningInv'
  BY DEF Calm, OpeningInv
<1>7. SettleInv'
  <2>1. ASSUME NEW s \in settles', Unsettled(s.n) PROVE NotAlive(recs[owner[s.n]].pid)'
    <3>1. CASE s \in settles
      <4>1. NotAlive(recs[owner[s.n]].pid)
        BY <2>1, <3>1 DEF Calm, SettleInv
      <4> QED
        BY <2>1, <3>1, <4>1 DEF NotAlive
    <3>2. CASE s \notin settles
      BY <2>1, <3>2
    <3> QED
      BY <3>1, <3>2
  <2> QED
    BY <1>1, <2>1 DEF SettleInv
<1>8. KeptInv'
  <2>1. \A m, x : Keeps(m, x) => Keeps(m, x)'
    BY DEF Keeps, Shows
  <2>2. current # 0 => \A m \in {meta} \cup Queue(current) : Keeps(m, recs[current])
    BY DEF Calm, KeptInv
  <2>3. current # 0 => \A m \in {meta} \cup Queue(current) : Keeps(m, recs[current])'
    BY <2>1, <2>2 DEF Keeps, Shows
  <2> QED
    BY <1>1, <2>3 DEF KeptInv, Queue
<1>9. ProcessKept'
  BY DEF Calm, ProcessKept, Alive
<1>10. EndKept'
  <2>1. ASSUME NEW n \in ended \ Of(seen'), up PROVE current # 0 /\ n \in Of(recs[current].pend \cap (telling' \cup box'))
    <3>1. current # 0 /\ n \in Of(recs[current].pend \cap (telling \cup box))
      BY <2>1 DEF Calm, EndKept
    <3>2. PICK i \in recs[current].pend \cap (telling \cup box) : i[1] = n
      BY <3>1, OfFacts
    <3>3. i \notin seen'
      BY <2>1, <3>2, OfFacts
    <3>4. i \in recs[current].pend \cap (telling' \cup box')
      BY <3>2, <3>3
    <3> QED
      BY <3>1, <3>2, <3>4, OfFacts
  <2>2. ASSUME NEW n \in ended \ Of(seen), ~up
        PROVE  n \in Of(meta.pend) \/ (meta.gen = n /\ meta.pend = {} /\ meta.state \notin {"ended", "stopping"})
    BY <2>2 DEF Calm, EndKept
  <2>3. ended' \ Of(seen') \subseteq ended \ Of(seen)
    OBVIOUS
  <2> QED
    BY <2>1, <2>2, <2>3 DEF EndKept
<1> QED
  BY <1>2, <1>3, <1>4, <1>5, <1>6, <1>7, <1>8, <1>9, <1>10 DEF Calm

\* What ServedInv says of one request, with the record it will see.
ServedAt(v) ==
    /\ v.kind = "start" /\ v.pc = "open" /\ current # 0 => recs[current].state = "ended" /\ recs[current].pend = {}
    /\ v.kind = "shutdown" /\ v.pc # "refresh" /\ v.rec # 0 => recs[v.rec].state # "restarting"

LEMMA ServedOne ==
  ASSUME OpsTypes, ServedInv, NEW c \in Callers, NEW v, ops' = [ops EXCEPT ![c] = v], ServedAt(v),
         UNCHANGED <<current, recs>>
  PROVE  ServedInv'
<1>1. ops'[c] = v /\ \A d \in Callers : d # c => ops'[d] = ops[d]
  BY DEF OpsTypes
<1>2. ASSUME NEW d \in Callers
      PROVE  /\ ops'[d].kind = "start" /\ ops'[d].pc = "open" /\ current # 0 =>
                    recs[current].state = "ended" /\ recs[current].pend = {}
             /\ ops'[d].kind = "shutdown" /\ ops'[d].pc # "refresh" /\ ops'[d].rec # 0 =>
                    recs[ops'[d].rec].state # "restarting"
  <2>1. CASE d = c
    BY <1>1, <2>1 DEF ServedAt
  <2>2. CASE d # c
    BY <1>1, <2>2 DEF ServedInv
  <2> QED
    BY <2>1, <2>2
<1> QED
  BY <1>2 DEF ServedInv

LEMMA SettlePids ==
  ASSUME Layer1, NEW s \in settles, Unsettled(s.n)
  PROVE  recs[owner[s.n]].pid = 0 \/ recs[owner[s.n]].pid \in Launches
<1>1. Exists(s.n) /\ s.n \in Launches
  BY DEF Layer1, TypeParts, WaitTypes, HeldInv
<1>2. recs[owner[s.n]] \in Records
  BY <1>1 DEF Exists, Record
<1> QED
  BY <1>2, BrokerAssumption DEF Records, Launches

\* Steps of a request, and of a process.
LEMMA MovesCalm ==
  ASSUME Layer1, Calm, ServedInv', \A n \in Launches : proc'[n] = "alive" => proc[n] = "alive",
         UNCHANGED <<up, current, recs, owner, writes, meta, ended, lost, armed, opening, watched, settles,
                     telling, box, seen>>
  PROVE  Calm'
<1>1. \A n \in opening' : n \notin watched'
  BY DEF Calm, OpeningInv
<1>2. ended \subseteq Launches
  BY DEF Layer1, TypeParts, ReportTypes
<1>3. \A s \in settles : Unsettled(s.n) => recs[owner[s.n]].pid = 0 \/ recs[owner[s.n]].pid \in Launches
  BY SettlePids
<1>4. Of(seen) \subseteq Of(seen')
  OBVIOUS
<1>5. \A s \in settles' : s \in settles
  OBVIOUS
<1> QED
  BY <1>1, <1>2, <1>3, <1>4, <1>5, QuietCalm

LEMMA DiesCalm == ASSUME Layer1, Calm, NEW n \in Launches, Dies(n) PROVE Calm'
<1>1. proc' = [proc EXCEPT ![n] = "dead"] /\ UNCHANGED <<broker, writes, meta, seen, history>>
  BY DEF Dies
<1>2. \A m \in Launches : proc'[m] = "alive" => proc[m] = "alive"
  BY <1>1 DEF Layer1, TypeParts, DiskTypes
<1>3. ServedInv'
  BY <1>1 DEF broker, Calm, ServedInv
<1>4. UNCHANGED <<up, current, recs, owner, writes, meta, ended, lost, armed, opening, watched, settles,
                  telling, box, seen>>
  BY <1>1 DEF broker, history
<1> QED
  BY <1>2, <1>3, <1>4, MovesCalm

LEMMA RequestEndsCalm == ASSUME Layer1, Calm, NEW c \in Callers, Ends(c), UNCHANGED <<current, recs>> PROVE ServedInv'
<1>1. ops' = [ops EXCEPT ![c] = Idle] /\ ServedAt(Idle)
  BY DEF Ends, ServedAt, Idle
<1> QED
  BY <1>1, ServedOne DEF Layer1, TypeParts, Calm

LEMMA RequestGoesCalm ==
  ASSUME Layer1, Calm, NEW c \in Callers, NEW pc, Goes(c, pc), ops[c] \in Requests, UNCHANGED <<current, recs>>,
         ops[c].kind = "start" => pc = "open" /\ (current # 0 => recs[current].state = "ended" /\ recs[current].pend = {}),
         ops[c].kind = "shutdown" /\ ops[c].rec # 0 => recs[ops[c].rec].state # "restarting"
  PROVE  ServedInv'
<1> DEFINE v == [ops[c] EXCEPT !.pc = pc]
<1>1. ops' = [ops EXCEPT ![c] = v]
  BY DEF Goes
<1>2. v.kind = ops[c].kind /\ v.rec = ops[c].rec /\ v.pc = pc
  BY DEF Requests
<1> HIDE DEF v
<1>3. ServedAt(v)
  BY <1>2 DEF ServedAt
<1> QED
  BY <1>1, <1>3, ServedOne DEF Layer1, TypeParts, Calm

LEMMA RequestCalm ==
  ASSUME Layer1, Calm, NEW c \in Callers,
         Request(c) \/ StartChecks(c) \/ Waited(c) \/ OpensNothing(c) \/ Kill(c) \/ Drained(c)
  PROVE  Calm'
<1>1. UNCHANGED <<up, current, recs, owner, writes, meta, ended, lost, opening, watched, settles,
                  telling, box, seen>>
  <2>1. ASSUME Request(c)
        PROVE  UNCHANGED <<up, current, recs, owner, writes, meta, ended, lost, opening, watched, settles,
                           telling, box, seen>>
    BY <2>1 DEF Request, Start, StopOrRestart, Shutdown, outside, history
  <2>2. ASSUME StartChecks(c) \/ Waited(c) \/ OpensNothing(c) \/ Kill(c) \/ Drained(c)
        PROVE  UNCHANGED <<up, current, recs, owner, writes, meta, ended, lost, opening, watched, settles,
                           telling, box, seen>>
    BY <2>2 DEF StartChecks, Waited, OpensNothing, Kill, Drained, outside, history
  <2> QED
    BY <2>1, <2>2
<1>2. \A n \in Launches : proc'[n] = "alive" => proc[n] = "alive"
  <2>1. Request(c) => proc' = proc
    BY DEF Request, Start, StopOrRestart, Shutdown, outside
  <2>2. StartChecks(c) \/ Waited(c) \/ OpensNothing(c) \/ Drained(c) => proc' = proc
    BY DEF StartChecks, Waited, OpensNothing, Drained, outside
  <2>3. Kill(c) => proc' = [proc EXCEPT ![ops[c].pid] = "dead"]
    BY DEF Kill
  <2> QED
    BY <2>1, <2>2, <2>3 DEF Layer1, TypeParts, DiskTypes
<1>3. ServedInv'
  <2>1. ASSUME NEW kind, NEW r, kind \in {"start", "stop", "restart", "shutdown"}, Begin(c, kind, r) PROVE ServedInv'
    <3> DEFINE v == [kind |-> kind, pc |-> "refresh", rec |-> r, gen |-> Captured(r), pid |-> 0]
    <3>1. ops' = [ops EXCEPT ![c] = v] /\ v.pc = "refresh"
      BY <2>1 DEF Begin
    <3> HIDE DEF v
    <3>2. ServedAt(v)
      BY <3>1 DEF ServedAt
    <3> QED
      BY <1>1, <3>1, <3>2, ServedOne DEF Layer1, TypeParts, Calm
  <2>2. CASE Start(c)
    BY <2>1, <2>2 DEF Start
  <2>3. CASE StopOrRestart(c, "stop") \/ StopOrRestart(c, "restart")
    BY <2>1, <2>3 DEF StopOrRestart
  <2>4. CASE Shutdown(c)
    <3> DEFINE v == [kind |-> "shutdown", pc |-> "drain", rec |-> current, gen |-> 0, pid |-> 0]
    <3>1. CASE /\ ops' = [ops EXCEPT ![c] = v]
               /\ \/ current = 0 \/ recs[current].state = "ended"
                  \/ recs[current].pid # 0
      <4>1. v.kind = "shutdown" /\ v.rec = current
        OBVIOUS
      <4> HIDE DEF v
      <4>2. current # 0 => recs[current].state # "restarting"
        <5>1. ASSUME current # 0, recs[current].state = "restarting" PROVE recs[current].pid = 0
          <6>1. Record(current)
            BY <5>1, BrokerAssumption DEF Layer1, TypeParts, RecordTypes, BrokerTypes, Record, Launches
          <6>2. PidOf(recs[current]) /\ current \in Launches
            BY <6>1 DEF Calm, PidInv, Record
          <6> QED
            BY <5>1, <6>2 DEF PidOf, Settled
        <5> QED
          BY <3>1, <5>1
      <4>3. ServedAt(v)
        BY <4>1, <4>2 DEF ServedAt
      <4> QED
        BY <1>1, <3>1, <4>3, ServedOne DEF Layer1, TypeParts, Calm
    <3>2. CASE Begin(c, "shutdown", current)
      BY <2>1, <3>2
    <3> QED
      BY <2>4, <3>1, <3>2 DEF Shutdown
  <2>5. CASE StartChecks(c) \/ Waited(c) \/ OpensNothing(c) \/ Kill(c) \/ Drained(c)
    <3>1. ops[c].kind # "idle"
      BY <2>5, KindFacts DEF StartChecks, Waited, OpensNothing, Kill, Drained, Refreshed
    <3>2. ops[c] \in Requests /\ ops[c] # Idle
      BY <3>1, KindFacts DEF Layer1, TypeParts, OpsTypes
    <3>3. ops[c].pc \in Steps[ops[c].kind] /\ (ops[c].kind = "start" => ops[c].rec = current)
      BY <3>2 DEF Layer1, OpsInv
    <3>4. ops[c].pc # "refresh" /\ ops[c].kind = "shutdown" /\ ops[c].rec # 0 => recs[ops[c].rec].state # "restarting"
      BY DEF Calm, ServedInv
    <3>5. CASE Ends(c)
      BY <1>1, <3>5, RequestEndsCalm
    <3>6. CASE StartChecks(c) /\ Goes(c, "open")
      <4>1. ops[c].kind = "start" /\ ops[c].rec = current
        BY <3>3, <3>6 DEF StartChecks
      <4>2. CASE current # 0 /\ (recs[current].state # "ended" \/ recs[current].pend # {})
        <5>1. Ends(c)
          BY <3>6, <4>1, <4>2 DEF StartChecks
        <5> QED
          BY <1>1, <5>1, RequestEndsCalm
      <4>3. CASE ~(current # 0 /\ (recs[current].state # "ended" \/ recs[current].pend # {}))
        <5>1. Goes(c, "open") /\ (current # 0 => recs[current].state = "ended" /\ recs[current].pend = {})
          BY <3>6, <4>3
        <5>2. UNCHANGED <<current, recs>> /\ ops[c].kind # "shutdown"
          BY <1>1, <4>1
        <5> QED
          BY <3>2, <5>1, <5>2, RequestGoesCalm
      <4> QED
        BY <4>2, <4>3
    <3>7. ASSUME NEW pc, Goes(c, pc), Waited(c) \/ Kill(c) \/ Drained(c) PROVE ServedInv'
      <4>1. ops[c].pc # "refresh" /\ ops[c].kind # "start"
        BY <3>3, <3>7, KindFacts DEF Waited, Kill, Drained
      <4> QED
        BY <1>1, <3>2, <3>4, <3>7, <4>1, RequestGoesCalm
    <3>8. Ends(c) \/ (StartChecks(c) /\ Goes(c, "open")) \/ \E pc : Goes(c, pc) /\ (Waited(c) \/ Kill(c) \/ Drained(c))
      <4>1. CASE StartChecks(c)
        BY <4>1 DEF StartChecks
      <4>2. CASE OpensNothing(c)
        BY <4>2 DEF OpensNothing
      <4>3. CASE Kill(c)
        BY <4>3 DEF Kill
      <4>4. CASE Drained(c)
        BY <4>4 DEF Drained
      <4>5. CASE Waited(c)
        <5>1. ops[c].pc = "wait" /\ AfterStop(c)
          BY <4>5 DEF Waited
        <5>2. ops[c].kind \in {"stop", "restart", "shutdown"}
          BY <3>2, <3>3, <5>1, KindFacts
        <5>3. Ends(c) \/ Goes(c, "reopen") \/ Goes(c, "drain")
          BY <5>1, <5>2 DEF AfterStop
        <5> QED
          BY <4>5, <5>3
      <4> QED
        BY <2>5, <4>1, <4>2, <4>3, <4>4, <4>5
    <3> QED
      BY <3>5, <3>6, <3>7, <3>8
  <2> QED
    BY <2>2, <2>3, <2>4, <2>5 DEF Request
<1>4. armed' = armed
  <2>1. armed \in [Launches -> Nat]
    BY DEF Layer1, TypeParts, WaitTypes
  <2>2. CASE Drained(c) /\ ops[c].rec # 0
    <3>1. ops[c].kind = "shutdown" /\ ops[c].pc = "drain" /\ armed' = Disarmed(ops[c].rec)
      BY <2>2 DEF Drained
    <3>2. recs[ops[c].rec].state # "restarting"
      BY <2>2, <3>1 DEF Calm, ServedInv
    <3>3. Record(ops[c].rec)
      BY <2>2, <3>1, KindFacts DEF Layer1, OpsInv
    <3>4. ~recs[ops[c].rec].timer
      BY <3>2, <3>3 DEF Calm, TimerInv, StateOf, Record
    <3> QED
      BY <2>1, <3>1, <3>4 DEF Disarmed
  <2>3. CASE ~(Drained(c) /\ ops[c].rec # 0)
    <3>1. Request(c) => armed' = armed
      BY DEF Request, Start, StopOrRestart, Shutdown
    <3>2. StartChecks(c) \/ Waited(c) \/ OpensNothing(c) \/ Kill(c) => armed' = armed
      BY DEF StartChecks, Waited, OpensNothing, Kill
    <3>3. Drained(c) => armed' = armed
      BY <2>3 DEF Drained
    <3> QED
      BY <3>1, <3>2, <3>3
  <2> QED
    BY <2>2, <2>3
<1> QED
  BY <1>1, <1>2, <1>3, <1>4, MovesCalm

\* Settlements come.
LEMMA WaitsCalm ==
  ASSUME Layer1, Calm, NEW n \in Launches, OpenFails(n) \/ Exited(n) \/ RefreshRead(n) \/ Refresh(n), ~stray'
  PROVE  Calm'
<1>1. /\ UNCHANGED <<up, current, recs, owner, writes, meta, ended, lost, armed, telling, box, seen, proc, ops>>
      /\ opening' \subseteq opening /\ watched' \subseteq watched
  BY DEF OpenFails, Exited, RefreshRead, Refresh, outside, history
<1>2. ASSUME NEW s \in settles', s \notin settles
      PROVE  s.n \notin opening' /\ (Unsettled(s.n) => NotAlive(recs[owner[s.n]].pid))
  <2>1. \A failed : SettleCall(n, failed) => s.n = n
    <3>1. ASSUME NEW failed, SettleCall(n, failed) PROVE s.n = n
      <4> DEFINE t == [n |-> n, failed |-> failed]
      <4>1. settles' \subseteq settles \cup {t} /\ t.n = n
        BY <3>1 DEF SettleCall
      <4> QED
        BY <1>2, <4>1
    <3> QED
      BY <3>1
  <2>2. CASE OpenFails(n)
    <3>1. s.n = n /\ n \in opening /\ opening' = opening \ {n}
      BY <2>1, <2>2 DEF OpenFails
    <3>2. recs[owner[n]].pid = 0
      BY <3>1 DEF Calm, OpeningInv
    <3> QED
      BY <3>1, <3>2 DEF NotAlive
  <2>3. CASE Exited(n)
    <3>1. s.n = n /\ n \in watched /\ proc[n] = "dead" /\ opening' = opening
      BY <2>1, <2>3 DEF Exited
    <3>2. n \notin opening
      BY <3>1 DEF Calm, OpeningInv
    <3>3. Record(owner[n]) /\ owner[n] \in Launches
      BY <3>1 DEF Layer1, HeldInv, Exists, Record
    <3>4. recs[owner[n]].pid \in {0, recs[owner[n]].gen}
      BY <3>3 DEF Calm, PidInv, PidOf
    <3> QED
      BY <3>1, <3>2, <3>4 DEF NotAlive, Unsettled
  <2>4. CASE RefreshRead(n)
    <3> DEFINE x == recs[owner[n]]
    <3>1. CASE x.gen = n /\ x.proc = 0 /\ ~(x.pid # 0 /\ proc[x.pid] = "alive")
      <4>1. SettleCall(n, FALSE) /\ stray' = (stray \/ n \in opening) /\ opening' = opening
        BY <2>4, <3>1 DEF RefreshRead
      <4>2. s.n = n /\ n \notin opening
        BY <2>1, <4>1
      <4> QED
        BY <3>1, <4>1, <4>2 DEF NotAlive
    <3>2. CASE ~(x.gen = n /\ x.proc = 0 /\ ~(x.pid # 0 /\ proc[x.pid] = "alive"))
      BY <1>2, <2>4, <3>2 DEF RefreshRead
    <3> QED
      BY <3>1, <3>2
  <2>5. CASE Refresh(n)
    BY <1>2, <2>5 DEF Refresh
  <2> QED
    BY <2>2, <2>3, <2>4, <2>5
<1>3. \A m \in opening' : m \notin watched'
  BY <1>1 DEF Calm, OpeningInv
<1>4. ServedInv'
  BY <1>1 DEF Calm, ServedInv
<1>5. ended \subseteq Launches /\ Of(seen) \subseteq Of(seen')
  BY <1>1 DEF Layer1, TypeParts, ReportTypes
<1>6. \A s \in settles : Unsettled(s.n) => recs[owner[s.n]].pid = 0 \/ recs[owner[s.n]].pid \in Launches
  BY SettlePids
<1>7. \A p : NotAlive(p) => NotAlive(p)'
  BY <1>1 DEF NotAlive
<1>8. \A s \in settles' : \/ s \in settles
                          \/ s.n \notin opening' /\ (Unsettled(s.n) => NotAlive(recs[owner[s.n]].pid)')
  BY <1>1, <1>2, <1>7 DEF NotAlive
<1> QED
  BY <1>1, <1>3, <1>4, <1>5, <1>6, <1>8, QuietCalm

LEMMA NoticesCalm == ASSUME Layer1, Layer2, Calm, NEW id \in Ids, Notify(id) \/ Deliver(id) PROVE Calm'
<1>1. /\ UNCHANGED <<up, current, recs, owner, writes, meta, ended, lost, armed, opening, watched, settles, proc, ops>>
      /\ seen \subseteq seen'
      /\ \A i \in telling \cup box : i \in telling' \cup box'
  <2>1. CASE Notify(id)
    <3>1. id \in telling /\ telling' = telling \ {id} /\ box' = (IF id \in recs[owner[id[1]]].pend THEN box \cup {id} ELSE box)
          /\ UNCHANGED <<up, current, recs, owner, writes, meta, ended, lost, armed, opening, watched, settles, proc, ops, seen>>
      BY <2>1 DEF Notify, outside, history
    <3>2. id \in recs[owner[id[1]]].pend
      BY <3>1 DEF Layer2, TellingInv, Awaits
    <3> QED
      BY <3>1, <3>2
  <2>2. CASE Deliver(id)
    BY <2>2 DEF Deliver, broker, history
  <2> QED
    BY <2>1, <2>2
<1>2. Of(seen) \subseteq Of(seen')
  BY <1>1, OfFacts
<1>3. \A m \in opening' : m \notin watched'
  BY <1>1 DEF Calm, OpeningInv
<1>4. ServedInv'
  BY <1>1 DEF Calm, ServedInv
<1>5. ended \subseteq Launches /\ \A s \in settles' : s \in settles
  BY <1>1 DEF Layer1, TypeParts, ReportTypes
<1>6. \A s \in settles : Unsettled(s.n) => recs[owner[s.n]].pid = 0 \/ recs[owner[s.n]].pid \in Launches
  BY SettlePids
<1> QED
  BY <1>1, <1>2, <1>3, <1>4, <1>5, <1>6, QuietCalm

-----------------------------------------------------------------------------
(* Third layer: steps that change the current record.                      *)

\* What has not ended, or still is to be written, is the current record.
LEMMA TheCurrent ==
  ASSUME Layer1, Calm, NEW r, Record(r), recs[r].state # "ended" \/ writes[r] # <<>>
  PROVE  up /\ r = current /\ r \in Launches
<1>1. r \in Launches
  BY DEF Record
<1>2. up
  <2>1. ASSUME ~up PROVE FALSE
    <3>1. recs[r] = NoRecord
      BY <1>1, <2>1 DEF Layer1, DownInv
    <3> QED
      BY <3>1, NoRecordFacts DEF Record
  <2> QED
    BY <2>1
<1> QED
  BY <1>1, <1>2 DEF Calm, SingleInv

\* The third layer, of the current record.
Current(r, y) ==
    /\ up /\ r = current /\ r \in Launches /\ y = recs[r] /\ y \in Records /\ y.gen \in Launches
    /\ \A p \in Launches \ {r} : (Record(p) => recs[p].state = "ended") /\ writes[p] = <<>>
    /\ PidOf(y) /\ StateOf(y) /\ armed[r] = (IF y.state = "restarting" THEN 1 ELSE 0)
    /\ \A m \in {meta} \cup Queue(r) : Keeps(m, y) /\ PendingOf(m) /\ m.pend \subseteq Ids /\ m.gen \in Nat
    /\ \A n \in Launches : proc[n] = "alive" /\ n \notin lost => y.pid = n /\ ~Settled(y.state)
    /\ \A n \in ended \ Of(seen) : n \in Of(y.pend \cap (telling \cup box))

LEMMA CurrentFacts ==
  ASSUME Layer1, Layer2, Calm, NEW r, r = current, r # 0
  PROVE  Current(r, recs[r])
<1>1. up /\ r \in Launches /\ recs[r] \in Records /\ Record(r)
  BY BrokerAssumption DEF Layer1, TypeParts, EmptyDown, BrokerTypes, RecordTypes, Launches, Record
<1>2. recs[r].gen \in Launches /\ \A m \in {meta} \cup Queue(r) : m.pend \subseteq Ids /\ m.gen \in Nat
  BY <1>1, Ranges DEF Launches
<1>3. \A m \in {meta} \cup Queue(r) : PendingOf(m)
  BY <1>1 DEF Layer2, PendingInv, Accounts
<1>4. \A m \in {meta} \cup Queue(r) : Keeps(m, recs[r])
  BY DEF Calm, KeptInv
<1>5. PidOf(recs[r]) /\ StateOf(recs[r]) /\ armed[r] = (IF recs[r].state = "restarting" THEN 1 ELSE 0)
  BY <1>1 DEF Calm, PidInv, TimerInv
<1>6. \A p \in Launches \ {r} : (Record(p) => recs[p].state = "ended") /\ writes[p] = <<>>
  BY DEF Calm, SingleInv
<1>7. \A n \in Launches : proc[n] = "alive" /\ n \notin lost => recs[r].pid = n /\ ~Settled(recs[r].state)
  BY <1>1 DEF Calm, ProcessKept, Alive
<1>8. \A n \in ended \ Of(seen) : n \in Of(recs[r].pend \cap (telling \cup box))
  BY <1>1 DEF Calm, EndKept
<1> QED
  BY <1>1, <1>2, <1>3, <1>4, <1>5, <1>6, <1>7, <1>8 DEF Current

\* A record that keeps its launch is accounted for by what was written of it: an
\* end that comes now is one the disk has as running, or as pending.
LEMMA EditKeeps ==
  ASSUME NEW r, NEW y, Current(r, y), NEW x, x.gen = y.gen, UNCHANGED seen,
         ~Settled(x.state) /\ ~x.stop => ~Settled(y.state) /\ ~y.stop,
         \A n \in ended' : n \in ended \/ (n = x.gen /\ ~Settled(y.state) /\ ~y.stop)
  PROVE  \A m \in {meta} \cup Queue(r) : Keeps(m, x)'
<1> SUFFICES ASSUME NEW m \in {meta} \cup Queue(r) PROVE Keeps(m, x)'
  OBVIOUS
<1>1. Keeps(m, y) /\ PendingOf(m) /\ m.pend \subseteq Ids /\ m.gen \in Nat /\ x.gen \in Nat
  BY DEF Current, Launches
<1>2. m.gen <= x.gen
  BY <1>1 DEF Keeps
<1>3. m.gen = x.gen /\ ~Settled(x.state) /\ ~x.stop => m.state \notin {"ended", "stopping"}
  BY <1>1 DEF Keeps
<1>4. ASSUME NEW n \in ended' \ Of(seen) PROVE Shows(m, n)
  <2>1. CASE n \in ended
    BY <1>1, <2>1 DEF Keeps
  <2>2. CASE n = x.gen /\ ~Settled(y.state) /\ ~y.stop
    <3>1. ASSUME n <= m.gen, \A k \in Of(m.pend) : k > n, n \notin Of(m.pend)
          PROVE  m.gen = n /\ m.pend = {} /\ m.state \notin {"ended", "stopping"}
      <4>1. m.gen = n
        BY <1>1, <1>2, <2>2, <3>1
      <4>2. ASSUME NEW i \in m.pend PROVE FALSE
        <5>1. i[1] \in Of(m.pend) /\ i[1] \in Nat /\ i[1] <= m.gen
          BY <1>1, <4>2, OfFacts, BrokerAssumption DEF PendingOf, Ids, Launches
        <5> QED
          BY <1>1, <3>1, <4>1, <5>1
      <4>3. m.state \notin {"ended", "stopping"}
        BY <1>1, <2>2, <4>1 DEF Keeps
      <4> QED
        BY <4>1, <4>2, <4>3
    <3> QED
      BY <3>1 DEF Shows
  <2> QED
    BY <1>4, <2>1, <2>2
<1> QED
  BY <1>2, <1>3, <1>4 DEF Keeps, Shows

\* The requests are where they were: no start has found this name free.
LEMMA ServedKept ==
  ASSUME Layer1, Calm, NEW r, NEW y, Current(r, y), NEW x, Update(r, x), UNCHANGED <<ops, current>>,
         y.state # "ended" \/ y.pend # {}, x.state = "restarting" => y.state = "restarting" \/ ~closing
  PROVE  ServedInv'
<1>1. recs'[r] = x /\ \A p \in Launches : p # r => recs'[p] = recs[p]
  BY UpdateFacts DEF Layer1, TypeParts
<1>2. ASSUME NEW c \in Callers
      PROVE  /\ ops[c].kind = "start" /\ ops[c].pc = "open" /\ current # 0 =>
                    recs'[current].state = "ended" /\ recs'[current].pend = {}
             /\ ops[c].kind = "shutdown" /\ ops[c].pc # "refresh" /\ ops[c].rec # 0 =>
                    recs'[ops[c].rec].state # "restarting"
  <2>1. ~(ops[c].kind = "start" /\ ops[c].pc = "open" /\ current # 0)
    BY DEF Calm, ServedInv, Current
  <2>2. ASSUME ops[c].kind = "shutdown", ops[c].pc # "refresh", ops[c].rec # 0 PROVE recs'[ops[c].rec].state # "restarting"
    <3>1. ops[c] # Idle
      BY <2>2 DEF Idle
    <3>2. closing /\ Record(ops[c].rec)
      BY <2>2, <3>1 DEF Layer1, OpsInv
    <3>3. recs[ops[c].rec].state # "restarting"
      BY <2>2 DEF Calm, ServedInv
    <3>4. ops[c].rec \in Launches
      BY <3>2 DEF Record
    <3> QED
      BY <1>1, <3>2, <3>3, <3>4 DEF Current
  <2> QED
    BY <2>1, <2>2
<1> QED
  BY <1>2 DEF ServedInv

LEMMA OpenedCalm == ASSUME Layer1, Layer2, Calm, NEW n \in Launches, Opened(n) PROVE Calm'
<1> SUFFICES ASSUME NEW r, r = owner[n], NEW y, y = recs[r], NEW x, x = WithProcess(y, n) PROVE Calm'
  OBVIOUS
<1>1. /\ n \in opening /\ opening' = opening \ {n} /\ up
      /\ proc' = [proc EXCEPT ![n] = "alive"] /\ watched' = watched \cup {n}
      /\ Save(r, x)
      /\ UNCHANGED <<up, closing, current, owner, launches, reading, settles, armed, ops, telling, box,
                     meta, seen, deaths, scope, asked, ended, stray, lost, unsaved>>
  BY DEF Opened, history, WithProcess, Layer1, TypeParts, EmptyDown
<1>2. /\ r = current /\ y.gen = n /\ y.pid = 0 /\ ~Settled(y.state) /\ n \notin lost /\ n \notin ended
      /\ \A s \in settles : s.n # n
  BY <1>1 DEF Calm, OpeningInv
<1>3. Record(r) /\ r # 0 /\ r \in Launches
  BY <1>1 DEF Layer1, HeldInv, Exists, Record, Launches
<1>4. Current(r, y)
  BY <1>2, <1>3, CurrentFacts
<1>5. /\ x \in Records /\ x.gen = y.gen /\ x.state = y.state /\ x.stop = y.stop
      /\ x.timer = y.timer /\ x.pend = y.pend /\ x.pid = n
  BY <1>4, WithProcessFacts DEF Current
<1>6. Update(r, x)
  BY <1>1, <1>3, <1>5, OwnSaves
<1>7. proc'[n] = "alive" /\ \A m \in Launches : m # n => proc'[m] = proc[m]
  BY <1>1 DEF Layer1, TypeParts, DiskTypes
<1>8. PidOf(x) /\ StateOf(x)
  BY <1>2, <1>4, <1>5 DEF Current, PidOf, StateOf
<1>9. \A m \in {meta} \cup Queue(r) : Keeps(m, x)'
  <2>1. UNCHANGED seen /\ \A m \in ended' : m \in ended \/ (m = x.gen /\ ~Settled(y.state) /\ ~y.stop)
    <3>1. seen' = seen /\ ended' = ended
      BY <1>1
    <3> QED
      BY <3>1
  <2>2. x.gen = y.gen /\ (~Settled(x.state) /\ ~x.stop => ~Settled(y.state) /\ ~y.stop)
    BY <1>5
  <2> QED
    BY <1>4, <2>1, <2>2, EditKeeps
<1>10. armed'[r] = (IF x.state = "restarting" THEN 1 ELSE 0)
  BY <1>1, <1>4, <1>5 DEF Current
<1>11. \A m \in ended' \ Of(seen) : m \in Of(x.pend \cap (telling' \cup box'))
  BY <1>1, <1>4, <1>5 DEF Current
<1>12. ASSUME NEW m \in Launches, proc'[m] = "alive", m \notin lost PROVE x.pid = m /\ ~Settled(x.state)
  <2>1. m = n
    BY <1>2, <1>4, <1>7, <1>12 DEF Current, Launches
  <2> QED
    BY <1>2, <1>5, <2>1
<1>13. EndedInv'
  <2>1. \A m \in ended : m \in Launches /\ m # n /\ (proc[m] = "alive" => m \in lost)
    BY <1>2 DEF Calm, EndedInv, Layer1, TypeParts, ReportTypes
  <2> QED
    BY <1>1, <1>7, <2>1 DEF EndedInv
<1>14. ServedInv'
  BY <1>1, <1>2, <1>4, <1>5, <1>6, ServedKept DEF Settled
<1>15. OpeningInv'
  <2>1. \A m \in opening : m = n
    BY <1>2 DEF Calm, OpeningInv
  <2> QED
    BY <1>1, <2>1 DEF OpeningInv
<1>16. SettleInv'
  <2>1. recs'[r] = x /\ \A p \in Launches : p # r => recs'[p] = recs[p]
    BY <1>6, UpdateFacts DEF Layer1, TypeParts
  <2>2. ASSUME NEW s \in settles, Unsettled(s.n)' PROVE FALSE
    <3>1. s.n # n /\ owner'[s.n] = owner[s.n]
      BY <1>1, <1>2
    <3>2. Record(owner[s.n]) /\ owner[s.n] \in Launches
      BY DEF Layer1, HeldInv, Exists, Record
    <3>3. owner[s.n] # r
      BY <1>2, <1>5, <2>1, <2>2, <3>1 DEF Unsettled
    <3>4. recs[owner[s.n]].state = "ended"
      BY <1>4, <3>2, <3>3 DEF Current
    <3> QED
      BY <2>1, <2>2, <3>1, <3>2, <3>3, <3>4 DEF Unsettled, Settled
  <2> QED
    BY <1>1, <2>2 DEF SettleInv
<1>17. Calmly(r, x)
  <2>1. up /\ up' /\ r = current' /\ Update(r, x) /\ UNCHANGED <<meta, seen, lost>>
        /\ \A p \in Launches : p # r => armed'[p] = armed[p]
    BY <1>1, <1>2, <1>6
  <2>2. \A p \in Launches \ {r} : (Record(p) => recs[p].state = "ended") /\ writes[p] = <<>>
    BY <1>4 DEF Current
  <2> QED
    BY <1>8, <1>9, <1>10, <1>11, <1>12, <1>13, <1>14, <1>15, <1>16, <2>1, <2>2 DEF Calmly
<1> QED
  BY <1>17, UpdateCalm

LEMMA SettlesCalm == ASSUME Layer1, Layer2, Calm, NEW s, Settles(s) PROVE Calm'
<1>1. /\ s \in settles /\ settles' = settles \ {s} /\ up
      /\ UNCHANGED <<up, closing, current, owner, launches, opening, reading, watched, ops, box,
                     proc, meta, seen, deaths, scope, asked, stray, lost, unsaved>>
      /\ \/ UNCHANGED <<recs, writes, armed, telling, ended>>
         \/ \E r, e, report : Settled1(s.n, r, e, report)
  BY SettlesDoes
<1>2. CASE UNCHANGED <<recs, writes, armed, telling, ended>>
  <2>1. \A n \in opening' : n \notin watched'
    BY <1>1 DEF Calm, OpeningInv
  <2>2. ServedInv'
    BY <1>1, <1>2 DEF Calm, ServedInv
  <2>3. ended \subseteq Launches /\ Of(seen) \subseteq Of(seen') /\ opening' \subseteq opening
    BY <1>1 DEF Layer1, TypeParts, ReportTypes
  <2>4. \A t \in settles : Unsettled(t.n) => recs[owner[t.n]].pid = 0 \/ recs[owner[t.n]].pid \in Launches
    BY SettlePids
  <2>5. UNCHANGED <<up, current, recs, owner, writes, meta, ended, lost, armed>>
        /\ (\A n \in Launches : proc'[n] = "alive" => proc[n] = "alive")
        /\ (\A i \in telling \cup box : i \in telling' \cup box') /\ \A t \in settles' : t \in settles
    BY <1>1, <1>2
  <2> QED
    BY <2>1, <2>2, <2>3, <2>4, <2>5, QuietCalm
<1>3. CASE \E r, e, report : Settled1(s.n, r, e, report)
  <2>1. PICK n, r, x, report : n = s.n /\ Settled1(n, r, x, report)
    BY <1>3
  <2> SUFFICES ASSUME NEW y, y = recs[r] PROVE Calm'
    OBVIOUS
  <2>2. /\ Exists(n) /\ n \in Launches /\ r = owner[n] /\ y \in Records /\ y.gen = n
        /\ ~Settled(y.state)
        /\ SettlesTo(n, y, x, report) /\ Save(r, x)
        /\ report \subseteq {<<n, deaths>>} /\ x \in Records /\ x.gen = n /\ x.pid = 0
        /\ x.pend = y.pend \cup report /\ x.stop = y.stop
        /\ (x.state = "ended" /\ x.timer = y.timer) \/ (x.state = "restarting" /\ x.timer /\ report = {})
    BY <2>1 DEF Settled1
  <2>3. Record(r) /\ r = current /\ r \in Launches /\ r # 0
    BY <2>2, TheCurrent DEF Exists, Settled, Launches
  <2>4. Current(r, y)
    BY <2>3, CurrentFacts
  <2>5. Update(r, x)
    BY <1>1, <2>2, <2>3, OwnSaves
  <2>6. recs'[r] = x /\ \A p \in Launches : p # r => recs'[p] = recs[p]
    BY <2>5, UpdateFacts DEF Layer1, TypeParts
  <2>7. /\ Of(report) \subseteq {n} /\ (report # {} => ~y.stop)
        /\ \/ UNCHANGED <<telling, ended>> /\ report = {} /\ x.state = "restarting" /\ RestartsOn(y, TRUE)
              /\ armed' = [armed EXCEPT ![r] = @ + 1]
           \/ telling' = telling \cup report /\ ended' = ended \cup Of(report) /\ x.state = "ended" /\ UNCHANGED armed
    <3>1. <<n, deaths>>[1] = n
      OBVIOUS
    <3>2. Of(report) \subseteq {n}
      BY <2>2, <3>1 DEF Of
    <3>3. CASE x = Restarting(y) /\ report = {} /\ RestartsOn(y, TRUE)
               /\ armed' = [armed EXCEPT ![owner[n]] = @ + 1] /\ UNCHANGED <<telling, ended>>
      <4>1. x.state = "restarting"
        BY <2>2, <3>3, RestartingFacts
      <4> QED
        BY <2>2, <3>2, <3>3, <4>1
    <3>4. CASE x = Ended(y, report) /\ report = (IF y.stop THEN {} ELSE {<<n, deaths>>})
               /\ telling' = telling \cup report /\ ended' = ended \cup Of(report) /\ UNCHANGED armed
      <4>1. report \in SUBSET Ids
        BY <2>2, IdFacts DEF Layer1, TypeParts
      <4>2. x.state = "ended"
        BY <2>2, <3>4, <4>1, EndedFacts
      <4> QED
        BY <3>2, <3>4, <4>2
    <3> QED
      BY <2>2, <3>3, <3>4 DEF SettlesTo
  <2>8. ended' \subseteq ended \cup Of(report) /\ telling' = telling \cup report
        /\ (x.state = "restarting" => ended' = ended /\ ~closing)
    <3>1. "restarting" # "ended"
      OBVIOUS
    <3> QED
      BY <2>7, <3>1 DEF RestartsOn
  <2>9. PidOf(x) /\ StateOf(x)
    <3>1. x.pid \notin lost
      BY <2>2 DEF Layer1, TypeParts, ReportTypes, Launches
    <3>2. ~y.timer
      BY <2>2, <2>4 DEF Current, StateOf, Settled
    <3>3. "restarting" # "stopping" /\ "ended" # "stopping" /\ "ended" # "restarting"
      OBVIOUS
    <3>4. StateOf(x)
      BY <2>2, <3>2, <3>3 DEF StateOf
    <3> QED
      BY <2>2, <3>1, <3>4 DEF PidOf
  <2>10. /\ armed'[r] = (IF x.state = "restarting" THEN 1 ELSE 0)
         /\ \A p \in Launches : p # r => armed'[p] = armed[p]
    <3>1. armed \in [Launches -> Nat] /\ armed[r] = 0
      BY <2>2, <2>4 DEF Current, Settled, Layer1, TypeParts, WaitTypes
    <3>2. CASE x.state = "restarting" /\ armed' = [armed EXCEPT ![r] = @ + 1]
      BY <2>3, <3>1, <3>2
    <3>3. CASE x.state = "ended" /\ armed' = armed
      BY <3>1, <3>3
    <3> QED
      BY <2>7, <3>2, <3>3
  <2>11. \A m \in {meta} \cup Queue(r) : Keeps(m, x)'
    <3>1. UNCHANGED seen /\ x.gen = y.gen /\ (~Settled(x.state) /\ ~x.stop => ~Settled(y.state) /\ ~y.stop)
      BY <1>1, <2>2
    <3>2. \A k \in ended' : k \in ended \/ (k = x.gen /\ ~Settled(y.state) /\ ~y.stop)
      BY <2>2, <2>7, <2>8, OfFacts
    <3> QED
      BY <2>4, <3>1, <3>2, EditKeeps
  <2>12. ASSUME NEW k \in ended' \ Of(seen) PROVE k \in Of(x.pend \cap (telling' \cup box'))
    <3>1. CASE k \in ended
      <4>1. k \in Of(y.pend \cap (telling \cup box))
        BY <2>4, <2>12, <3>1 DEF Current
      <4>2. y.pend \cap (telling \cup box) \subseteq x.pend \cap (telling' \cup box')
        BY <1>1, <2>2, <2>8
      <4> QED
        BY <4>1, <4>2, OfFacts
    <3>2. CASE k \in Of(report)
      <4>1. report \subseteq x.pend \cap (telling' \cup box')
        BY <2>2, <2>8
      <4> QED
        BY <3>2, <4>1, OfFacts
    <3> QED
      BY <2>8, <2>12, <3>1, <3>2
  <2>13. NotAlive(y.pid)
    BY <1>1, <2>1, <2>2 DEF Calm, SettleInv, Unsettled
  <2>14. \A k \in Launches : proc[k] = "alive" => k \in lost
    <3>1. \A k \in Launches : proc[k] = "alive" /\ k \notin lost => y.pid = k
      BY <2>4 DEF Current
    <3> QED
      BY <2>13, <3>1 DEF NotAlive, Launches
  <2>15. EndedInv'
    <3>1. ended' \subseteq Launches
      BY <2>2, <2>7, <2>8 DEF Layer1, TypeParts, ReportTypes
    <3> QED
      BY <1>1, <2>14, <3>1 DEF EndedInv
  <2>16. ServedInv'
    BY <1>1, <2>2, <2>4, <2>5, <2>8, ServedKept DEF Settled
  <2>17. OpeningInv'
    <3>1. opening = {}
      BY <1>1, <2>1, <2>2, <2>3 DEF Calm, OpeningInv
    <3> QED
      BY <1>1, <3>1 DEF OpeningInv
  <2>18. SettleInv'
    <3>1. ASSUME NEW t \in settles, Unsettled(t.n)' PROVE FALSE
      <4>1. Record(owner[t.n]) /\ owner[t.n] \in Launches /\ owner'[t.n] = owner[t.n]
        BY <1>1 DEF Layer1, HeldInv, Exists, Record
      <4>2. CASE owner[t.n] = r
        BY <2>2, <2>6, <3>1, <4>1, <4>2 DEF Unsettled, Settled
      <4>3. CASE owner[t.n] # r
        <5>1. recs[owner[t.n]].state = "ended"
          BY <2>4, <4>1, <4>3 DEF Current
        <5> QED
          BY <2>6, <3>1, <4>1, <4>3, <5>1 DEF Unsettled, Settled
      <4> QED
        BY <4>2, <4>3
    <3> QED
      BY <1>1, <3>1 DEF SettleInv
  <2>19. Calmly(r, x)
    <3>1. up /\ up' /\ r = current' /\ Update(r, x) /\ UNCHANGED <<meta, seen, lost>>
      BY <1>1, <2>3, <2>5
    <3>2. \A p \in Launches \ {r} : (Record(p) => recs[p].state = "ended") /\ writes[p] = <<>>
      BY <2>4 DEF Current
    <3>3. \A k \in Launches : proc'[k] = "alive" /\ k \notin lost => x.pid = k /\ ~Settled(x.state)
      BY <1>1, <2>14
    <3> QED
      BY <2>9, <2>10, <2>11, <2>12, <2>15, <2>16, <2>17, <2>18, <3>1, <3>2, <3>3 DEF Calmly
  <2> QED
    BY <2>19, UpdateCalm
<1> QED
  BY <1>1, <1>2, <1>3

\* A request that stops the current record leaves it as e.
LEMMA ServedStop ==
  ASSUME Layer1, Calm, NEW r, NEW y, Current(r, y), NEW e, Update(r, e), UNCHANGED current, NEW c \in Callers,
         y.state # "ended", e.state # "restarting", \A d \in Callers : d # c => ops'[d] = ops[d],
         ops'[c] = Idle \/ (ops'[c].kind # "start" /\ ops'[c].rec = r)
  PROVE  ServedInv'
<1>1. recs'[r] = e /\ \A p \in Launches : p # r => recs'[p] = recs[p]
  BY UpdateFacts DEF Layer1, TypeParts
<1>2. ASSUME NEW d \in Callers
      PROVE  /\ ops'[d].kind = "start" /\ ops'[d].pc = "open" /\ current # 0 =>
                    recs'[current].state = "ended" /\ recs'[current].pend = {}
             /\ ops'[d].kind = "shutdown" /\ ops'[d].pc # "refresh" /\ ops'[d].rec # 0 =>
                    recs'[ops'[d].rec].state # "restarting"
  <2>1. CASE d = c
    BY <1>1, <2>1 DEF Idle
  <2>2. CASE d # c
    <3>1. ~(ops[d].kind = "start" /\ ops[d].pc = "open" /\ current # 0)
      BY DEF Calm, ServedInv, Current
    <3>2. ASSUME ops[d].kind = "shutdown", ops[d].pc # "refresh", ops[d].rec # 0 PROVE recs'[ops[d].rec].state # "restarting"
      <4>1. ops[d] # Idle
        BY <3>2 DEF Idle
      <4>2. ops[d].rec \in Launches
        BY <3>2, <4>1 DEF Layer1, OpsInv, Record
      <4>3. recs[ops[d].rec].state # "restarting"
        BY <3>2 DEF Calm, ServedInv
      <4> QED
        BY <1>1, <4>2, <4>3
    <3> QED
      BY <2>2, <3>1, <3>2
  <2> QED
    BY <2>1, <2>2
<1> QED
  BY <1>2 DEF ServedInv

\* Where no process comes: what awaited one, or the end of one, still does.
LEMMA WaitsKept ==
  ASSUME Layer1, Calm, NEW r, NEW y, Current(r, y), NEW e, Update(r, e), e.gen = y.gen, e.pid = y.pid,
         UNCHANGED <<current, owner, opening, watched, settles, lost, ended, proc>>,
         Settled(e.state) <=> Settled(y.state)
  PROVE  OpeningInv' /\ SettleInv'
<1>1. recs'[r] = e /\ \A p \in Launches : p # r => recs'[p] = recs[p]
  BY UpdateFacts DEF Layer1, TypeParts
<1>2. ASSUME NEW s \in settles, Unsettled(s.n)' PROVE NotAlive(recs'[owner[s.n]].pid)
  <2>1. Record(owner[s.n]) /\ owner[s.n] \in Launches
    BY DEF Layer1, HeldInv, Exists, Record
  <2>2. CASE owner[s.n] = r
    <3>1. Unsettled(s.n)
      BY <1>1, <1>2, <2>2 DEF Unsettled, Current
    <3>2. NotAlive(y.pid)
      BY <2>2, <3>1 DEF Calm, SettleInv, Current
    <3> QED
      BY <1>1, <2>2, <3>2
  <2>3. CASE owner[s.n] # r
    <3>1. recs[owner[s.n]].state = "ended"
      BY <2>1, <2>3 DEF Current
    <3> QED
      BY <1>1, <1>2, <2>1, <2>3, <3>1 DEF Unsettled, Settled
  <2> QED
    BY <2>2, <2>3
<1>3. SettleInv'
  BY <1>2 DEF SettleInv, NotAlive
<1>4. OpeningInv'
  <2>1. \A n \in opening : /\ owner[n] = r /\ y.gen = n /\ y.pid = 0 /\ ~Settled(y.state)
                           /\ n \notin lost /\ n \notin ended /\ n \notin watched
                           /\ \A s \in settles : s.n # n
    BY DEF Calm, OpeningInv, Current
  <2>2. current' = r /\ recs'[r] = e
    BY <1>1 DEF Current
  <2> QED
    BY <2>1, <2>2 DEF OpeningInv
<1> QED
  BY <1>3, <1>4

\* The record of the name is changed, its launch and process are not.
LEMMA EditCalm ==
  ASSUME Layer1, Layer2, Calm, NEW r, NEW y, Current(r, y), NEW e, Update(r, e), e.gen = y.gen, e.pid = y.pid,
         UNCHANGED <<up, current, owner, opening, watched, settles, lost, ended, proc, meta, seen>>,
         Settled(e.state) <=> Settled(y.state), StateOf(e), ~Settled(e.state) /\ ~e.stop => ~y.stop,
         armed'[r] = (IF e.state = "restarting" THEN 1 ELSE 0), \A p \in Launches : p # r => armed'[p] = armed[p],
         \A i \in y.pend \cap (telling \cup box) : i \in (e.pend \cap (telling' \cup box')) \cup seen,
         ServedInv'
  PROVE  Calm'
<1>1. PidOf(e)
  BY DEF Current, PidOf
<1>2. \A m \in {meta} \cup Queue(r) : Keeps(m, e)'
  <2>1. UNCHANGED seen /\ (\A n \in ended' : n \in ended \/ (n = e.gen /\ ~Settled(y.state) /\ ~y.stop))
    <3>1. seen' = seen /\ ended' = ended
      OBVIOUS
    <3> QED
      BY <3>1
  <2>2. ~Settled(e.state) /\ ~e.stop => ~Settled(y.state) /\ ~y.stop
    OBVIOUS
  <2> QED
    BY <2>1, <2>2, EditKeeps
<1>3. ASSUME NEW n \in ended' \ Of(seen) PROVE n \in Of(e.pend \cap (telling' \cup box'))
  <2>1. n \in Of(y.pend \cap (telling \cup box))
    BY <1>3 DEF Current
  <2>2. PICK i \in y.pend \cap (telling \cup box) : i[1] = n
    BY <2>1, OfFacts
  <2>3. i \notin seen
    BY <1>3, <2>2, OfFacts
  <2>4. i \in e.pend \cap (telling' \cup box')
    BY <2>2, <2>3
  <2> QED
    BY <2>2, <2>4, OfFacts
<1>4. \A n \in Launches : proc'[n] = "alive" /\ n \notin lost => e.pid = n /\ ~Settled(e.state)
  BY DEF Current
<1>5. EndedInv'
  BY DEF Calm, EndedInv
<1>6. OpeningInv' /\ SettleInv'
  BY WaitsKept
<1>7. up /\ up' /\ r = current' /\ UNCHANGED <<meta, seen, lost>>
      /\ \A p \in Launches \ {r} : (Record(p) => recs[p].state = "ended") /\ writes[p] = <<>>
  BY DEF Current
<1>8. Calmly(r, e)
  BY <1>1, <1>2, <1>3, <1>4, <1>5, <1>6, <1>7 DEF Calmly
<1> QED
  BY <1>8, UpdateCalm

LEMMA StopRecordCalm == ASSUME Layer1, Layer2, Calm, NEW c \in Callers, StopRecord(c) PROVE Calm'
<1> SUFFICES ASSUME NEW r, r = ops[c].rec, NEW y, y = recs[r] PROVE Calm'
  OBVIOUS
<1>1. /\ Refreshed(c) /\ ops[c].kind # "start"
      /\ UNCHANGED <<up, closing, current, owner, launches, opening, reading, settles, watched, telling,
                     box, proc, meta, seen, deaths, scope, ended, stray, lost, unsaved>>
  BY DEF StopRecord
<1>2. ops[c] # Idle /\ ops[c] \in Requests /\ ops[c].pc = "refresh" /\ ops[c].kind \in {"stop", "restart", "shutdown"}
  BY <1>1, KindFacts DEF Refreshed, Layer1, TypeParts, OpsTypes, Requests
<1>3. Record(r) /\ r \in Launches /\ y \in Records
  BY <1>1, <1>2 DEF Layer1, OpsInv, Record
<1>4. AfterStop(c) => Ends(c) \/ \E pc : Goes(c, pc)
  BY <1>2 DEF AfterStop
<1>5. CASE y.state = "ended" /\ AfterStop(c) /\ UNCHANGED <<recs, writes, armed>>
  <2>1. ServedInv'
    <3>1. CASE Ends(c)
      BY <1>1, <1>5, <3>1, RequestEndsCalm
    <3>2. ASSUME NEW pc, Goes(c, pc) PROVE ServedInv'
      <4>1. UNCHANGED <<current, recs>> /\ (ops[c].kind = "shutdown" /\ ops[c].rec # 0 => recs[ops[c].rec].state # "restarting")
        BY <1>1, <1>5
      <4> QED
        BY <1>1, <1>2, <3>2, <4>1, RequestGoesCalm
    <3> QED
      BY <1>4, <1>5, <3>1, <3>2
  <2>2. \A n \in Launches : proc'[n] = "alive" => proc[n] = "alive"
    BY <1>1
  <2> QED
    BY <1>1, <1>5, <2>1, <2>2, MovesCalm
<1>6. ASSUME y.state # "ended"
      PROVE  r = current /\ Current(r, y) /\ (\A i \in y.pend \cap (telling \cup box) : i \in y.pend \cap (telling' \cup box'))
  <2>1. r = current /\ r # 0
    BY <1>3, <1>6, TheCurrent DEF Launches
  <2>2. Current(r, y)
    BY <2>1, CurrentFacts
  <2> QED
    BY <1>1, <2>1, <2>2
<1>7. ASSUME NEW v, ops' = [ops EXCEPT ![c] = v] PROVE ops'[c] = v /\ \A d \in Callers : d # c => ops'[d] = ops[d]
  BY <1>7 DEF Layer1, TypeParts, OpsTypes
<1>8. CASE y.state # "ended" /\ y.timer /\ AfterStop(c) /\ Save(r, CalledOff(y)) /\ armed' = Disarmed(r)
  <2> SUFFICES ASSUME NEW e, e = CalledOff(y) PROVE Calm'
    OBVIOUS
  <2>1. e \in Records /\ e.gen = y.gen /\ e.state = "ended" /\ e.stop /\ ~e.timer /\ e.pend = y.pend /\ e.pid = y.pid
    BY <1>3, CalledOffFacts
  <2>2. Update(r, e)
    BY <1>1, <1>3, <1>8, <2>1, OwnSaves
  <2>3. y.state = "restarting" /\ armed[r] = 1
    BY <1>6, <1>8 DEF Current, StateOf
  <2>4. StateOf(e) /\ (Settled(e.state) <=> Settled(y.state)) /\ Settled(e.state)
    BY <2>1, <2>3 DEF StateOf, Settled
  <2>5. armed'[r] = 0 /\ \A p \in Launches : p # r => armed'[p] = armed[p]
    BY <1>3, <1>8, <2>3 DEF Disarmed, Layer1, TypeParts, WaitTypes
  <2>6. ServedInv'
    <3>1. ASSUME NEW v, ops' = [ops EXCEPT ![c] = v], v = Idle \/ (v.kind # "start" /\ v.rec = r) PROVE ServedInv'
      <4>1. UNCHANGED current /\ e.state # "restarting"
        BY <1>1, <2>1
      <4>2. (\A d \in Callers : d # c => ops'[d] = ops[d]) /\ (ops'[c] = Idle \/ (ops'[c].kind # "start" /\ ops'[c].rec = r))
        BY <1>7, <3>1
      <4> QED
        BY <1>6, <1>8, <2>2, <4>1, <4>2, ServedStop
    <3>2. CASE Ends(c)
      BY <3>1, <3>2 DEF Ends
    <3>3. ASSUME NEW pc, Goes(c, pc) PROVE ServedInv'
      <4> DEFINE v == [ops[c] EXCEPT !.pc = pc]
      <4>1. ops' = [ops EXCEPT ![c] = v] /\ v.kind # "start" /\ v.rec = r
        BY <1>1, <1>2, <3>3 DEF Goes, Requests
      <4> QED
        BY <3>1, <4>1
    <3> QED
      BY <1>4, <1>8, <3>2, <3>3
  <2>7. \A i \in y.pend \cap (telling \cup box) : i \in (e.pend \cap (telling' \cup box')) \cup seen
    BY <1>6, <1>8, <2>1
  <2>8. armed'[r] = IF e.state = "restarting" THEN 1 ELSE 0
    BY <2>1, <2>5
  <2> QED
    BY <1>1, <1>6, <1>8, <2>1, <2>2, <2>4, <2>5, <2>6, <2>7, <2>8, EditCalm
<1>9. CASE /\ y.state # "ended" /\ ~y.timer /\ Save(r, Stopping(y)) /\ UNCHANGED armed
           /\ ops' = [ops EXCEPT ![c].pc = IF y.pid = 0 THEN "wait" ELSE "kill", ![c].pid = y.pid]
  <2> SUFFICES ASSUME NEW e, e = Stopping(y) PROVE Calm'
    OBVIOUS
  <2>1. e \in Records /\ e.gen = y.gen /\ e.state = "stopping" /\ e.stop /\ e.timer = y.timer /\ e.pend = y.pend /\ e.pid = y.pid
    BY <1>3, StoppingFacts
  <2>2. Update(r, e)
    BY <1>1, <1>3, <1>9, <2>1, OwnSaves
  <2>3. y.state # "restarting" /\ armed[r] = 0
    BY <1>6, <1>9 DEF Current, StateOf
  <2>4. StateOf(e) /\ (Settled(e.state) <=> Settled(y.state)) /\ e.stop
    BY <1>9, <2>1, <2>3 DEF StateOf, Settled
  <2>5. armed'[r] = (IF e.state = "restarting" THEN 1 ELSE 0) /\ \A p \in Launches : p # r => armed'[p] = armed[p]
    BY <1>9, <2>1, <2>3
  <2>6. ServedInv'
    <3> DEFINE pc == IF y.pid = 0 THEN "wait" ELSE "kill"
               v == [ops[c] EXCEPT !.pc = pc, !.pid = y.pid]
    <3>1. ops' = [ops EXCEPT ![c] = v]
      BY <1>9
    <3> HIDE DEF pc
    <3>2. v.kind # "start" /\ v.rec = r
      BY <1>1, <1>2 DEF Requests
    <3> HIDE DEF v
    <3>3. UNCHANGED current /\ e.state # "restarting"
      BY <1>1, <2>1
    <3>4. (\A d \in Callers : d # c => ops'[d] = ops[d]) /\ (ops'[c] = Idle \/ (ops'[c].kind # "start" /\ ops'[c].rec = r))
      BY <1>7, <3>1, <3>2
    <3>5. y.state # "ended" /\ Current(r, y)
      BY <1>6, <1>9
    <3> QED
      BY <2>2, <3>3, <3>4, <3>5, ServedStop
  <2>7. \A i \in y.pend \cap (telling \cup box) : i \in (e.pend \cap (telling' \cup box')) \cup seen
    BY <1>6, <1>9, <2>1
  <2> QED
    BY <1>1, <1>6, <1>9, <2>1, <2>2, <2>4, <2>5, <2>6, <2>7, EditCalm
<1>10. \/ y.state = "ended" /\ AfterStop(c) /\ UNCHANGED <<recs, writes, armed>>
       \/ y.state # "ended" /\ y.timer /\ AfterStop(c) /\ Save(r, CalledOff(y)) /\ armed' = Disarmed(r)
       \/ /\ y.state # "ended" /\ ~y.timer /\ Save(r, Stopping(y)) /\ UNCHANGED armed
          /\ ops' = [ops EXCEPT ![c].pc = IF y.pid = 0 THEN "wait" ELSE "kill", ![c].pid = y.pid]
  BY DEF StopRecord, CalledOff, Stopping
<1> QED
  BY <1>5, <1>8, <1>9, <1>10

LEMMA AckCalm == ASSUME Layer1, Layer2, Calm, NEW id \in Ids, Ack(id) PROVE Calm'
<1>1. /\ id \in box \cap seen /\ box' = box \ {id}
      /\ UNCHANGED <<up, closing, current, owner, launches, opening, reading, settles, armed, watched, ops,
                     telling, proc, meta, seen, deaths, scope, asked, ended, stray, lost, unsaved>>
  BY DEF Ack, history
<1>2. CASE UNCHANGED <<recs, writes>>
  <2>1. \A n \in opening' : n \notin watched'
    BY <1>1 DEF Calm, OpeningInv
  <2>2. ServedInv'
    BY <1>1, <1>2 DEF Calm, ServedInv
  <2>3. ended \subseteq Launches /\ Of(seen) \subseteq Of(seen') /\ opening' \subseteq opening
    BY <1>1 DEF Layer1, TypeParts, ReportTypes
  <2>4. \A t \in settles : Unsettled(t.n) => recs[owner[t.n]].pid = 0 \/ recs[owner[t.n]].pid \in Launches
    BY SettlePids
  <2>5. UNCHANGED <<up, current, recs, owner, writes, meta, ended, lost, armed>>
        /\ (\A n \in Launches : proc'[n] = "alive" => proc[n] = "alive")
        /\ (\A i \in telling \cup box : i \in telling' \cup box' \cup seen') /\ \A t \in settles' : t \in settles
    BY <1>1, <1>2
  <2> QED
    BY <2>1, <2>2, <2>3, <2>4, <2>5, QuietCalm
<1>3. CASE current # 0 /\ id \in recs[current].pend /\ Save(current, Acknowledged(recs[current], id))
  <2> SUFFICES ASSUME NEW r, r = current, NEW y, y = recs[r], NEW e, e = Acknowledged(y, id) PROVE Calm'
    OBVIOUS
  <2>1. Current(r, y)
    BY <1>3, CurrentFacts
  <2>2. /\ e \in Records /\ e.gen = y.gen /\ e.state = y.state /\ e.stop = y.stop
        /\ e.timer = y.timer /\ e.pend = y.pend \ {id} /\ e.pid = y.pid
    BY <2>1, AcknowledgedFacts DEF Current
  <2>3. Record(r)
    BY <2>1 DEF Current, Record
  <2>4. Update(r, e)
    BY <1>1, <1>3, <2>2, <2>3, OwnSaves
  <2>5. ServedInv'
    <3>1. (y.state # "ended" \/ y.pend # {}) /\ (e.state = "restarting" => y.state = "restarting" \/ ~closing)
      BY <1>3, <2>2
    <3>2. UNCHANGED <<ops, current>>
      BY <1>1
    <3> QED
      BY <2>1, <2>4, <3>1, <3>2, ServedKept
  <2>6. StateOf(e) /\ (Settled(e.state) <=> Settled(y.state)) /\ (~Settled(e.state) /\ ~e.stop => ~y.stop)
    BY <2>1, <2>2 DEF Current, StateOf
  <2>7. armed'[r] = (IF e.state = "restarting" THEN 1 ELSE 0) /\ \A p \in Launches : p # r => armed'[p] = armed[p]
    BY <1>1, <2>1, <2>2 DEF Current
  <2>8. \A i \in y.pend \cap (telling \cup box) : i \in (e.pend \cap (telling' \cup box')) \cup seen
    BY <1>1, <2>2
  <2> QED
    BY <1>1, <2>1, <2>2, <2>4, <2>5, <2>6, <2>7, <2>8, EditCalm
<1> QED
  BY <1>2, <1>3 DEF Ack, Acknowledged

\* A launch where nothing runs, under r, old or new.
Free(r) ==
    /\ up /\ opening = {}
    /\ \A p \in Launches \ {r} : (Record(p) => recs[p].state = "ended") /\ writes[p] = <<>>
    /\ \A k \in Launches : proc[k] = "alive" => k \in lost
    /\ \A m \in {meta} \cup Queue(r) : \A k \in ended \ Of(seen) : Shows(m, k)

LEMMA LaunchCalm ==
  ASSUME Layer1, Calm, NEW r \in Launches, NEW x, NEW z, Launched(r, x, z), Free(r), ~x.timer, current' = r,
         UNCHANGED <<up, telling, box, meta, seen, ended, lost>>,
         \A k \in ended \ Of(seen) : k \in Of(x.pend \cap (telling \cup box)),
         armed'[r] = 0, \A p \in Launches : p # r => armed'[p] = armed[p],
         \A c \in Callers : /\ ops'[c] = Idle \/ ops'[c] = ops[c]
                            /\ ~(ops'[c].kind = "start" /\ ops'[c].pc = "open")
  PROVE  Calm'
<1> SUFFICES ASSUME NEW n, n = launches + 1 PROVE Calm'
  OBVIOUS
<1>1. /\ n \in Launches /\ owner' = [owner EXCEPT ![n] = r]
      /\ z \in Records /\ z.gen = n /\ z.state = "running" /\ ~z.stop /\ z.pend = x.pend /\ z.timer = x.timer
      /\ Update(r, z)
      /\ \/ /\ opening' = opening \cup {n} /\ z.pid = 0 /\ UNCHANGED <<proc, watched, settles>>
         \/ /\ proc' = [proc EXCEPT ![n] = "alive"] /\ watched' = watched \cup {n} /\ z.pid = n
            /\ UNCHANGED <<opening, settles>>
         \/ /\ settles' = settles \cup {[n |-> n, failed |-> TRUE]} /\ z.pid = 0
            /\ UNCHANGED <<proc, watched, opening>>
  BY DEF Launched
<1>2. launches \in Nat /\ n > launches /\ ~(n <= launches) /\ n \in Nat
  BY <1>1, Ranges DEF Launches
<1>3. /\ n \notin lost /\ n \notin ended /\ n \notin watched /\ 0 \notin lost
      /\ \A s \in settles : s.n # n
  <2>1. n \notin ended \cup lost
    BY <1>1, <1>2 DEF Layer1, NumberInv
  <2>2. \A k \in watched : k <= launches
    BY DEF Layer1, HeldInv, Exists
  <2>3. \A s \in settles : s.n <= launches
    BY DEF Layer1, HeldInv, Exists
  <2>4. 0 \notin lost
    BY DEF Layer1, TypeParts, ReportTypes, Launches
  <2> QED
    BY <1>2, <2>1, <2>2, <2>3, <2>4
<1>4. recs'[r] = z /\ \A p \in Launches : p # r => recs'[p] = recs[p]
  BY <1>1, UpdateFacts DEF Layer1, TypeParts
<1>5. owner'[n] = r /\ \A k \in Launches : k # n => owner'[k] = owner[k]
  BY <1>1 DEF Layer1, TypeParts, RecordTypes
<1>6. \A k \in Launches : k # n => proc'[k] = proc[k]
  BY <1>1 DEF Layer1, TypeParts, DiskTypes
<1>7. PidOf(z) /\ StateOf(z) /\ ~Settled(z.state) /\ z.state # "restarting"
  <2>1. ~Settled(z.state) /\ z.state # "restarting" /\ z.state # "stopping"
    BY <1>1 DEF Settled
  <2>2. z.pid \in {0, z.gen} /\ z.pid \notin lost
    BY <1>1, <1>3
  <2>3. StateOf(z)
    BY <1>1, <2>1, Zenon DEF StateOf
  <2> QED
    BY <2>1, <2>2, <2>3 DEF PidOf
<1>8. ASSUME NEW m \in {meta} \cup Queue(r) PROVE Keeps(m, z)'
  <2>1. m.gen \in Nat /\ m.gen <= launches
    BY Ranges DEF Launches
  <2>2. m.gen <= z.gen /\ m.gen # z.gen
    BY <1>1, <1>2, <2>1
  <2>3. \A k \in ended' \ Of(seen') : Shows(m, k)
    BY DEF Free
  <2> QED
    BY <2>2, <2>3 DEF Keeps, Shows
<1>9. ASSUME NEW k \in ended' \ Of(seen) PROVE k \in Of(z.pend \cap (telling' \cup box'))
  BY <1>1, <1>9
<1>10. ASSUME NEW k \in Launches, proc'[k] = "alive", k \notin lost PROVE z.pid = k /\ ~Settled(z.state)
  <2>1. k = n
    BY <1>6, <1>10 DEF Free
  <2>2. proc[n] # "alive"
    BY <1>1, <1>3 DEF Free
  <2> QED
    BY <1>1, <1>7, <1>10, <2>1, <2>2
<1>11. EndedInv'
  <2>1. \A k \in ended : k \in Launches /\ k # n /\ (proc[k] = "alive" => k \in lost)
    BY <1>3 DEF Calm, EndedInv, Layer1, TypeParts, ReportTypes
  <2> QED
    BY <1>6, <2>1 DEF EndedInv
<1>12. ServedInv'
  <2>1. ASSUME NEW c \in Callers, ops'[c].kind = "shutdown", ops'[c].pc # "refresh", ops'[c].rec # 0
        PROVE  recs'[ops'[c].rec].state # "restarting"
    <3>1. ops'[c] # Idle /\ ops'[c] = ops[c]
      BY <2>1 DEF Idle
    <3>2. Record(ops[c].rec) /\ ops[c].rec \in Launches
      BY <2>1, <3>1 DEF Layer1, OpsInv, Record
    <3>3. CASE ops[c].rec = r
      BY <1>4, <1>7, <3>1, <3>3
    <3>4. CASE ops[c].rec # r
      BY <1>4, <3>1, <3>2, <3>4 DEF Free
    <3> QED
      BY <3>3, <3>4
  <2> QED
    BY <2>1 DEF ServedInv
<1>13. OpeningInv'
  <2>1. opening' \subseteq {n} /\ (opening' # {} => UNCHANGED <<watched, settles>> /\ z.pid = 0)
    BY <1>1 DEF Free
  <2> QED
    BY <1>1, <1>3, <1>4, <1>5, <1>7, <2>1 DEF OpeningInv
<1>14. SettleInv'
  <2>1. ASSUME NEW s \in settles', Unsettled(s.n)' PROVE NotAlive(recs[owner[s.n]].pid)'
    <3>1. CASE s \in settles
      <4>1. Record(owner[s.n]) /\ owner[s.n] \in Launches /\ s.n \in Launches /\ s.n # n
        BY <1>3, <3>1 DEF Layer1, TypeParts, WaitTypes, HeldInv, Exists, Record
      <4>2. owner'[s.n] = owner[s.n]
        BY <1>5, <4>1
      <4>3. CASE owner[s.n] = r
        BY <1>1, <1>4, <2>1, <4>1, <4>2, <4>3 DEF Unsettled
      <4>4. CASE owner[s.n] # r
        <5>1. recs'[owner[s.n]].state = "ended"
          BY <1>4, <4>1, <4>4 DEF Free
        <5> QED
          BY <2>1, <4>2, <5>1 DEF Unsettled, Settled
      <4> QED
        BY <4>3, <4>4
    <3>2. CASE s \notin settles
      <4>1. settles' = settles \cup {[n |-> n, failed |-> TRUE]} /\ z.pid = 0
        BY <1>1, <3>2
      <4>2. s.n = n
        BY <3>2, <4>1
      <4> QED
        BY <1>4, <1>5, <4>1, <4>2 DEF NotAlive
    <3> QED
      BY <3>1, <3>2
  <2> QED
    BY <2>1 DEF SettleInv
<1>15. Calmly(r, z)
  <2>1. up /\ up' /\ r = current' /\ Update(r, z) /\ UNCHANGED <<meta, seen, lost>>
    BY <1>1 DEF Free
  <2>2. \A p \in Launches \ {r} : (Record(p) => recs[p].state = "ended") /\ writes[p] = <<>>
    BY DEF Free
  <2>3. armed'[r] = IF z.state = "restarting" THEN 1 ELSE 0
    BY <1>7
  <2> QED
    BY <1>7, <1>8, <1>9, <1>10, <1>11, <1>12, <1>13, <1>14, <2>1, <2>2, <2>3 DEF Calmly
<1> QED
  BY <1>15, UpdateCalm

\* The current record has ended, or waits to be restarted: it is free for a launch.
LEMMA SettledFree ==
  ASSUME Calm, NEW r, NEW y, Current(r, y), Settled(y.state)
  PROVE  Free(r)
<1>1. opening = {}
  BY DEF Calm, OpeningInv, Current
<1>2. \A m \in {meta} \cup Queue(r) : \A k \in ended \ Of(seen) : Shows(m, k)
  BY DEF Current, Keeps
<1>3. \A k \in Launches : proc[k] = "alive" => k \in lost
  BY DEF Current
<1> QED
  BY <1>1, <1>2, <1>3 DEF Free, Current

LEMMA TimerFiresCalm == ASSUME Layer1, Layer2, Calm, NEW r \in Launches, TimerFires(r) PROVE Calm'
<1> SUFFICES ASSUME NEW y, y = recs[r], NEW x, x = Untimed(y) PROVE Calm'
  OBVIOUS
<1>1. /\ armed[r] > 0 /\ Launch(r, x) /\ armed' = [armed EXCEPT ![r] = @ - 1]
      /\ UNCHANGED <<up, closing, current, reading, ops, telling, box, meta, seen, deaths, scope, ended, lost>>
  BY DEF TimerFires, history, Untimed
<1>2. Record(r) /\ y \in Records
  BY <1>1 DEF Layer1, HeldInv, Record
<1>3. y.state = "restarting" /\ armed[r] = 1
  BY <1>1 DEF Calm, TimerInv
<1>4. up /\ r = current /\ r # 0
  BY <1>2, <1>3, TheCurrent DEF Launches
<1>5. Current(r, y)
  BY <1>4, CurrentFacts
<1>6. Free(r)
  BY <1>3, <1>5, SettledFree DEF Settled
<1>7. x \in Records /\ ~x.timer /\ x.pend = y.pend
  BY <1>2, UntimedFacts
<1>8. PICK z \in Records : Launched(r, x, z)
  BY <1>1, <1>7, LaunchDoes DEF Layer1, TypeParts
<1>9. armed'[r] = 0 /\ \A p \in Launches : p # r => armed'[p] = armed[p]
  BY <1>1, <1>3 DEF Layer1, TypeParts, WaitTypes
<1>10. \A k \in ended \ Of(seen) : k \in Of(x.pend \cap (telling \cup box))
  BY <1>5, <1>7 DEF Current
<1>11. \A c \in Callers : ~(ops[c].kind = "start" /\ ops[c].pc = "open")
  BY <1>3, <1>4 DEF Calm, ServedInv
<1>12. ops' = ops /\ current' = r
  BY <1>1, <1>4
<1>13. \A c \in Callers : /\ ops'[c] = Idle \/ ops'[c] = ops[c]
                          /\ ~(ops'[c].kind = "start" /\ ops'[c].pc = "open")
  BY <1>11, <1>12
<1> QED
  BY <1>1, <1>6, <1>7, <1>8, <1>9, <1>10, <1>12, <1>13, LaunchCalm

LEMMA RestartLaunchesCalm == ASSUME Layer1, Layer2, Calm, NEW c \in Callers, RestartLaunches(c), ~stray' PROVE Calm'
<1> SUFFICES ASSUME NEW r, r = ops[c].rec, NEW y, y = recs[r] PROVE Calm'
  OBVIOUS
<1>1. /\ ops[c].kind = "restart" /\ ops[c].pc = "reopen" /\ Launch(r, y) /\ Ends(c)
      /\ UNCHANGED <<up, closing, current, reading, armed, telling, box, meta, seen, deaths, scope, ended, lost>>
  BY DEF RestartLaunches
<1>2. /\ r = current /\ y.state = "ended"
      /\ \A d \in Callers : ~(ops[d].kind = "start" /\ ops[d].pc = "open")
  BY DEF RestartLaunches
<1>3. Record(r) /\ r # 0 /\ r \in Launches
  <2>1. ops[c] # Idle
    BY <1>1, KindFacts
  <2> QED
    BY <1>1, <2>1 DEF Layer1, OpsInv, Record, Launches
<1>4. Current(r, y)
  BY <1>2, <1>3, CurrentFacts
<1>5. Free(r)
  BY <1>2, <1>4, SettledFree DEF Settled
<1>6. y \in Records /\ ~y.timer /\ armed[r] = 0
  BY <1>2, <1>4 DEF Current, StateOf
<1>7. PICK z \in Records : Launched(r, y, z)
  BY <1>1, <1>3, <1>6, LaunchDoes DEF Layer1, TypeParts
<1>8. armed'[r] = 0 /\ \A p \in Launches : p # r => armed'[p] = armed[p]
  BY <1>1, <1>6
<1>9. \A k \in ended \ Of(seen) : k \in Of(y.pend \cap (telling \cup box))
  BY <1>4 DEF Current
<1>10. \A d \in Callers : ops'[d] = Idle \/ ops'[d] = ops[d]
  BY <1>1 DEF Ends, Layer1, TypeParts, OpsTypes
<1>11. \A d \in Callers : /\ ops'[d] = Idle \/ ops'[d] = ops[d]
                          /\ ~(ops'[d].kind = "start" /\ ops'[d].pc = "open")
  BY <1>2, <1>10 DEF Idle
<1>12. current' = r
  BY <1>1, <1>2
<1> QED
  BY <1>1, <1>3, <1>5, <1>6, <1>7, <1>8, <1>9, <1>11, <1>12, LaunchCalm

LEMMA StartLaunchesCalm == ASSUME Layer1, Layer2, Calm, NEW c \in Callers, StartLaunches(c), ~stray' PROVE Calm'
<1> SUFFICES ASSUME NEW r, r = launches + 1 PROVE Calm'
  OBVIOUS
<1>1. /\ ops[c].kind = "start" /\ ops[c].pc = "open" /\ Launch(r, NewRecord) /\ Ends(c) /\ current' = r
      /\ UNCHANGED <<up, closing, reading, armed, telling, box, meta, seen, deaths, scope, ended, lost>>
  BY DEF StartLaunches, NewRecord
<1>2. \A p \in Launches : writes[p] = <<>>
  BY DEF StartLaunches
<1>3. up /\ ops[c] # Idle
  BY <1>1, KindFacts DEF Layer1, DownInv
<1>4. r \in Launches /\ ~(r <= launches)
  BY <1>1, BrokerAssumption DEF Launch, Layer1, TypeParts, BrokerTypes, Launches
<1>5. current # 0 => recs[current].state = "ended" /\ recs[current].pend = {}
  BY <1>1 DEF Calm, ServedInv
<1>6. ~Record(r)
  BY <1>4, Ranges
<1>7. ended \ Of(seen) = {} /\ \A k \in Launches : proc[k] = "alive" => k \in lost
  <2>1. CASE current = 0
    BY <1>3, <2>1 DEF Calm, EndKept, ProcessKept, Alive
  <2>2. CASE current # 0
    <3>1. Current(current, recs[current])
      BY <2>2, CurrentFacts
    <3>2. recs[current].pend \cap (telling \cup box) = {} /\ Settled(recs[current].state)
      BY <1>5, <2>2 DEF Settled
    <3>3. \A k : k \notin Of({})
      BY DEF Of
    <3> QED
      BY <3>1, <3>2, <3>3 DEF Current
  <2> QED
    BY <2>1, <2>2
<1>8. Free(r)
  <2>1. opening = {}
    BY <1>5, BrokerAssumption DEF Calm, OpeningInv, Settled, Layer1, HeldInv, Exists, Record, Launches
  <2>2. \A p \in Launches : Record(p) => recs[p].state = "ended"
    BY <1>5 DEF Calm, SingleInv, Launches
  <2> QED
    BY <1>2, <1>3, <1>7, <2>1, <2>2 DEF Free
<1>9. PICK z \in Records : Launched(r, NewRecord, z)
  BY <1>1, <1>4, LaunchDoes DEF Layer1, TypeParts
<1>10. armed'[r] = 0 /\ \A p \in Launches : p # r => armed'[p] = armed[p]
  <2>1. ~(armed[r] > 0) /\ armed[r] \in Nat
    BY <1>4, <1>6 DEF Layer1, HeldInv, TypeParts, WaitTypes
  <2> QED
    BY <1>1, <2>1
<1>11. ~NewRecord.timer
  BY DEF NewRecord
<1>12. \A d \in Callers : ops[d].kind = "start" => d = c
  BY <1>1 DEF Layer1, OpsInv
<1>13. ops'[c] = Idle /\ \A d \in Callers : d # c => ops'[d] = ops[d]
  BY <1>1 DEF Ends, Layer1, TypeParts, OpsTypes
<1>14. \A d \in Callers : /\ ops'[d] = Idle \/ ops'[d] = ops[d]
                          /\ ~(ops'[d].kind = "start" /\ ops'[d].pc = "open")
  BY <1>12, <1>13 DEF Idle
<1>15. \A k \in ended \ Of(seen) : k \in Of(NewRecord.pend \cap (telling \cup box))
  BY <1>7
<1> QED
  BY <1>1, <1>4, <1>8, <1>9, <1>10, <1>11, <1>14, <1>15, LaunchCalm

-----------------------------------------------------------------------------
(* Third layer: the disk, deaths and recoveries.                           *)

LEMMA WriteCalm == ASSUME Layer1, Calm, NEW r \in Launches, Write(r) PROVE Calm'
<1>1. /\ writes[r] # <<>> /\ Record(r) /\ up /\ meta' \in Metas /\ meta' \in Queue(r)
      /\ writes' \in [Launches -> Seq(Metas)] /\ Queue(r)' \subseteq Queue(r)
      /\ \A p \in Launches : p # r => writes'[p] = writes[p] /\ Queue(p)' = Queue(p)
      /\ UNCHANGED <<broker, proc, seen, deaths, scope, asked, ended, stray, lost>>
  BY WriteDoes
<1>2. UNCHANGED <<up, current, recs, owner, opening, settles, armed, watched, ops, telling, box, proc, seen, ended, lost>>
  BY <1>1 DEF broker
<1>3. r = current /\ r # 0
  BY <1>1, TheCurrent DEF Launches
<1>4. \A p : Record(p)' <=> Record(p)
  BY <1>2 DEF Record
<1>5. SingleInv'
  BY <1>1, <1>2, <1>3, <1>4 DEF Calm, SingleInv
<1>6. PidInv'
  <2>1. \A m : PidOf(m)' <=> PidOf(m)
    BY <1>2 DEF PidOf
  <2>2. \A p \in Launches : (Record(p) => PidOf(recs[p])) /\ \A m \in Queue(p) : PidOf(m)
    BY DEF Calm, PidInv
  <2>3. \A p \in Launches : Queue(p)' \subseteq Queue(p)
    BY <1>1
  <2>4. PidOf(meta)'
    <3> SUFFICES ASSUME NEW m, m = meta' PROVE PidOf(m)'
      BY DEF PidOf
    <3> QED
      BY <1>1, <2>1, <2>2
  <2>5. \A p \in Launches : Record(p)' => PidOf(recs[p])'
    BY <1>2, <1>4, <2>2 DEF PidOf
  <2>6. \A p \in Launches : \A m \in Queue(p)' : PidOf(m)'
    BY <2>1, <2>2, <2>3
  <2> QED
    BY <2>4, <2>5, <2>6 DEF PidInv
<1>7. EndedInv' /\ TimerInv'
  BY <1>2, <1>4 DEF Calm, EndedInv, TimerInv
<1>8. ServedInv' /\ OpeningInv'
  BY <1>2 DEF Calm, ServedInv, OpeningInv
<1>9. SettleInv'
  BY <1>2 DEF Calm, SettleInv, Unsettled, NotAlive
<1>10. KeptInv'
  <2>1. \A m \in Queue(r) : Keeps(m, recs[r])
    BY <1>3 DEF Calm, KeptInv
  <2>2. ASSUME NEW m, m = meta' \/ m \in Queue(r)' PROVE Keeps(m, recs[r])'
    <3>1. m \in Queue(r)
      BY <1>1, <2>2
    <3> QED
      BY <1>2, <2>1, <3>1 DEF Keeps, Shows
  <2>3. Keeps(meta, recs[r])'
    <3> SUFFICES ASSUME NEW m, m = meta' PROVE Keeps(m, recs[r])'
      BY DEF Keeps, Shows
    <3> QED
      BY <2>2
  <2>4. \A m \in Queue(r)' : Keeps(m, recs[r])'
    BY <2>2
  <2> QED
    BY <1>2, <1>3, <2>3, <2>4 DEF KeptInv, Queue, Keeps, Shows
<1>11. ProcessKept' /\ EndKept'
  BY <1>1, <1>2 DEF Calm, ProcessKept, EndKept, Alive
<1> QED
  BY <1>5, <1>6, <1>7, <1>8, <1>9, <1>10, <1>11 DEF Calm

LEMMA WriteFailsCalm == ASSUME Layer1, Calm, NEW r \in Launches, WriteFails(r) PROVE Calm'
<1>1. /\ writes[r] # <<>> /\ Record(r) /\ up /\ Queue(r)' \subseteq Queue(r)
      /\ \A p \in Launches : p # r => writes'[p] = writes[p] /\ Queue(p)' = Queue(p)
      /\ UNCHANGED <<broker, proc, meta, seen, deaths, scope, asked, ended, stray, lost>>
  BY WriteFailsDoes
<1>2. UNCHANGED <<up, current, recs, owner, opening, settles, armed, watched, ops, telling, box, proc, meta, seen, ended, lost>>
  BY <1>1 DEF broker
<1>3. r = current /\ r # 0
  BY <1>1, TheCurrent DEF Launches
<1>4. (\A p : Record(p)' <=> Record(p)) /\ \A p \in Launches : Queue(p)' \subseteq Queue(p)
  BY <1>1, <1>2 DEF Record
<1>5. SingleInv'
  BY <1>1, <1>2, <1>3, <1>4 DEF Calm, SingleInv
<1>6. PidInv'
  <2>1. \A m : PidOf(m)' <=> PidOf(m)
    BY <1>2 DEF PidOf
  <2>2. (\A p \in Launches : (Record(p) => PidOf(recs[p])) /\ \A m \in Queue(p) : PidOf(m)) /\ PidOf(meta)
    BY DEF Calm, PidInv
  <2>3. PidOf(meta)' /\ \A p \in Launches : Record(p)' => PidOf(recs[p])'
    BY <1>2, <1>4, <2>2 DEF PidOf
  <2>4. \A p \in Launches : \A m \in Queue(p)' : PidOf(m)'
    BY <1>4, <2>1, <2>2
  <2> QED
    BY <2>3, <2>4 DEF PidInv
<1>7. EndedInv' /\ TimerInv'
  BY <1>2, <1>4 DEF Calm, EndedInv, TimerInv
<1>8. ServedInv' /\ OpeningInv'
  BY <1>2 DEF Calm, ServedInv, OpeningInv
<1>9. SettleInv'
  BY <1>2 DEF Calm, SettleInv, Unsettled, NotAlive
<1>10. KeptInv'
  <2>1. \A m : Keeps(m, recs[r])' <=> Keeps(m, recs[r])
    BY <1>2 DEF Keeps, Shows
  <2>2. Keeps(meta, recs[r])' /\ \A m \in Queue(r)' : Keeps(m, recs[r])'
    BY <1>1, <1>2, <1>3, <2>1 DEF Calm, KeptInv, Keeps, Shows
  <2> QED
    BY <1>2, <1>3, <2>2 DEF KeptInv, Queue, Keeps, Shows
<1>11. ProcessKept' /\ EndKept'
  BY <1>1, <1>2 DEF Calm, ProcessKept, EndKept, Alive
<1> QED
  BY <1>5, <1>6, <1>7, <1>8, <1>9, <1>10, <1>11 DEF Calm

LEMMA GoneCalm == ASSUME Layer1, Calm, up, Gone PROVE Calm'
<1>1. /\ up' = FALSE /\ current' = 0 /\ recs' = [r \in Launches |-> NoRecord]
      /\ opening' = {} /\ settles' = {} /\ armed' = [r \in Launches |-> 0]
      /\ ops' = [c \in Callers |-> Idle] /\ writes' = [r \in Launches |-> <<>>]
      /\ lost' = lost \cup {n \in Launches : proc[n] = "alive" /\ ~(meta.state # "ended" /\ meta.pid = n)}
      /\ ended' = {n \in ended : n \in Of(meta.pend) \/ (n <= meta.gen /\ \A m \in Of(meta.pend) : m > n)}
      /\ UNCHANGED <<owner, proc, meta, seen>>
  BY DEF Gone
<1>2. \A r \in Launches : ~Record(r)' /\ Queue(r)' = {} /\ writes'[r] = <<>> /\ recs'[r] = NoRecord /\ armed'[r] = 0
  BY <1>1, NoRecordFacts DEF Record, Queue
<1>3. SingleInv'
  BY <1>1, <1>2 DEF SingleInv
<1>4. PidInv'
  <2>1. PidOf(meta)
    BY DEF Calm, PidInv
  <2>2. meta.pid \notin lost'
    BY <1>1, <2>1 DEF PidOf, Settled, Launches
  <2>3. PidOf(meta)'
    BY <1>1, <2>1, <2>2 DEF PidOf
  <2> QED
    BY <1>2, <2>3 DEF PidInv
<1>5. EndedInv'
  BY <1>1 DEF Calm, EndedInv
<1>6. TimerInv'
  BY <1>2 DEF TimerInv, NoRecord
<1>7. ServedInv'
  BY <1>1 DEF ServedInv, Idle
<1>8. OpeningInv' /\ SettleInv' /\ KeptInv'
  BY <1>1 DEF OpeningInv, SettleInv, KeptInv
<1>9. ProcessKept'
  BY <1>1 DEF ProcessKept, Alive
<1>10. EndKept'
  <2>1. ASSUME NEW n \in ended' \ Of(seen')
        PROVE  n \in Of(meta.pend) \/ (meta.gen = n /\ meta.pend = {} /\ meta.state \notin {"ended", "stopping"})
    <3>1. n \in ended \ Of(seen) /\ (n \in Of(meta.pend) \/ (n <= meta.gen /\ \A m \in Of(meta.pend) : m > n))
      BY <1>1, <2>1
    <3>2. current # 0
      BY <3>1 DEF Calm, EndKept
    <3>3. Shows(meta, n)
      BY <3>1, <3>2 DEF Calm, KeptInv, Keeps
    <3> QED
      BY <3>1, <3>3 DEF Shows
  <2> QED
    BY <1>1, <2>1 DEF EndKept
<1> QED
  BY <1>3, <1>4, <1>5, <1>6, <1>7, <1>8, <1>9, <1>10 DEF Calm

LEMMA RecoverCalm == ASSUME Layer1, Calm, Recover PROVE Calm'
<1>1. /\ ~up /\ up' = TRUE
      /\ UNCHANGED <<closing, launches, opening, reading, settles, armed, watched, ops, telling, meta,
                     seen, deaths, scope, asked, stray, lost>>
      /\ meta.gen = 0 => UNCHANGED <<current, recs, owner, writes, box, proc, ended, unsaved>>
  BY DEF Recover
<1>2. \A r \in Launches : ~Record(r) /\ Queue(r) = {} /\ writes[r] = <<>> /\ recs[r] = NoRecord /\ armed[r] = 0
  BY <1>1, NoRecordFacts DEF Layer1, DownInv, Record, Queue
<1>3. opening' = {} /\ settles' = {} /\ current = 0
  BY <1>1 DEF Layer1, TypeParts, EmptyDown
<1>4. ops' = [c \in Callers |-> Idle]
  BY <1>1 DEF Layer1, DownInv
<1>5. OpeningInv' /\ SettleInv' /\ ServedInv'
  BY <1>3, <1>4 DEF OpeningInv, SettleInv, ServedInv, Idle
<1>6. PidOf(meta)
  BY DEF Calm, PidInv
<1>7. ASSUME NEW k \in Launches, proc[k] = "alive", k \notin lost PROVE meta.pid = k /\ meta.state # "ended"
  BY <1>1, <1>7 DEF Calm, ProcessKept, Alive
<1>8. ASSUME NEW k \in ended \ Of(seen)
      PROVE  k \in Of(meta.pend) \/ (meta.gen = k /\ meta.pend = {} /\ meta.state \notin {"ended", "stopping"})
  BY <1>1, <1>8 DEF Calm, EndKept
<1>9. CASE meta.gen = 0
  <2>1. UNCHANGED <<current, recs, owner, writes, box, proc, ended, unsaved, meta, lost, seen, armed>> /\ current' = 0
    BY <1>1, <1>3, <1>9
  <2>2. meta = NoMeta
    BY <1>9 DEF Layer1, TypeParts, DiskTypes, Metas, Launches
  <2>3. SingleInv'
    BY <1>2, <2>1, <2>2 DEF SingleInv, Record
  <2>4. PidInv'
    BY <1>2, <1>6, <2>1 DEF PidInv, PidOf, Record, Queue
  <2>5. EndedInv' /\ KeptInv'
    BY <2>1 DEF Calm, EndedInv, KeptInv
  <2>6. TimerInv'
    BY <1>2, <2>1 DEF TimerInv, NoRecord, Record
  <2>7. \A k \in Launches : proc[k] = "alive" => k \in lost
    BY <1>7, <2>2 DEF NoMeta, Launches
  <2>8. ProcessKept'
    BY <2>1, <2>7 DEF ProcessKept, Alive
  <2>9. ended \ Of(seen) = {}
    <3>1. meta.gen = 0 /\ meta.pend = {}
      BY <2>2 DEF NoMeta
    <3>2. \A k : k \notin Of({})
      BY DEF Of
    <3>3. \A k \in ended : k # 0
      BY DEF Layer1, TypeParts, ReportTypes, Launches
    <3>4. QED
      BY <1>8, <3>1, <3>2, <3>3
  <2>10. EndKept'
    BY <2>1, <2>9 DEF EndKept
  <2> QED
    BY <1>5, <2>3, <2>4, <2>5, <2>6, <2>8, <2>10 DEF Calm
<1>10. CASE meta.gen # 0
  <2>1. PICK n, x, report : RecoversTo(n, x, report)
    BY <1>10, RecoverDoes
  <2>2. /\ n = meta.gen /\ n \in Launches /\ meta \in Metas
        /\ report = (IF Unreported THEN {<<n, deaths>>} ELSE {})
        /\ x \in Records /\ x.gen = n /\ (x.stop <=> ~Adopts) /\ ~x.timer
        /\ x.state = (IF Adopts THEN "running" ELSE "ended")
        /\ x.pid = (IF Adopts \/ meta.state = "ended" THEN meta.pid ELSE 0)
        /\ x.pend = meta.pend \cup report
        /\ current' = n /\ Update(n, x)
        /\ box' = x.pend /\ ended' = ended \cup Of(report)
        /\ proc' = (IF meta.pid # 0 /\ proc[meta.pid] = "alive" /\ ~Adopts /\ meta.state # "ended"
                    THEN [proc EXCEPT ![meta.pid] = "dead"] ELSE proc)
    BY <2>1 DEF RecoversTo
  <2>3. Of(report) \subseteq {n} /\ (Of(report) # {} => Unreported)
    <3>1. <<n, deaths>>[1] = n
      OBVIOUS
    <3> QED
      BY <2>2, <3>1 DEF Of
  <2>4. meta.pid \in {0, n} /\ meta.pid \notin lost /\ 0 \notin lost /\ (Settled(meta.state) => meta.pid = 0)
    BY <1>6, <2>2 DEF PidOf, Layer1, TypeParts, ReportTypes, Launches
  <2>5. PidOf(x) /\ StateOf(x) /\ x.state # "restarting"
    <3>1. x.state # "restarting" /\ x.state # "stopping"
      BY <2>2
    <3>2. x.pid \in {0, x.gen} /\ x.pid \notin lost
      BY <2>2, <2>4
    <3>3. Settled(x.state) => x.pid = 0
      BY <2>2, <2>4 DEF Settled
    <3>4. StateOf(x)
      BY <2>2, <3>1, Zenon DEF StateOf
    <3> QED
      BY <3>1, <3>2, <3>3, <3>4 DEF PidOf
  <2>6. proc \in [Launches -> {"none", "alive", "dead"}] /\ \A k \in Launches : proc'[k] = "alive" => proc[k] = "alive"
    BY <2>2 DEF Layer1, TypeParts, DiskTypes
  <2>7. ASSUME NEW k \in Launches, proc'[k] = "alive", k \notin lost PROVE Adopts /\ x.pid = k /\ ~Settled(x.state)
    <3>1. meta.pid = k /\ meta.state # "ended" /\ proc[k] = "alive" /\ k # 0
      BY <1>7, <2>6, <2>7 DEF Launches
    <3>2. Adopts
      BY <2>2, <2>6, <2>7, <3>1
    <3> QED
      BY <2>2, <3>1, <3>2 DEF Settled
  <2>8. ASSUME NEW k \in ended' \ Of(seen) PROVE Shows(meta, k) /\ k \in Of(x.pend \cap (telling' \cup box'))
    <3>1. x.pend \cap (telling' \cup box') = x.pend
      BY <2>2
    <3>2. CASE k \in Of(meta.pend)
      BY <2>2, <3>1, <3>2, OfFacts DEF Shows
    <3>3. CASE k \in Of(report)
      <4>1. k = n /\ Unreported
        BY <2>3, <3>3
      <4>2. Shows(meta, k)
        BY <2>2, <4>1 DEF Shows, Unreported
      <4>3. k \in Of(x.pend)
        BY <2>2, <3>3, OfFacts
      <4> QED
        BY <3>1, <4>2, <4>3
    <3>4. CASE k \in ended /\ meta.gen = k /\ meta.pend = {} /\ meta.state \notin {"ended", "stopping"}
      <4>1. ~Adopts
        BY <2>2, <2>4, <3>4 DEF Adopts, Calm, EndedInv
      <4>2. Unreported
        BY <3>4, <4>1 DEF Unreported
      <4>3. report = {<<n, deaths>>} /\ <<n, deaths>>[1] = k
        BY <2>2, <3>4, <4>2
      <4>4. k \in Of(report)
        BY <4>3 DEF Of
      <4> QED
        BY <3>3, <4>4
    <3> QED
      BY <1>8, <2>2, <2>8, <3>2, <3>3, <3>4
  <2>9. \A m \in {meta} \cup Queue(n) : Keeps(m, x)'
    <3>1. n \in Nat
      BY <2>2 DEF Launches
    <3>2. meta.gen <= x.gen /\ (~Settled(x.state) /\ ~x.stop => meta.state \notin {"ended", "stopping"})
      BY <2>2, <3>1 DEF Adopts
    <3>3. \A k \in ended' \ Of(seen) : Shows(meta, k)
      BY <2>8
    <3>4. Queue(n) = {}
      BY <1>2, <2>2
    <3>5. ASSUME NEW m, m = meta PROVE Keeps(m, x)'
      BY <1>1, <3>2, <3>3, <3>5 DEF Keeps, Shows
    <3> QED
      BY <3>4, <3>5
  <2>10. EndedInv'
    <3>1. ASSUME NEW k \in ended', proc'[k] = "alive" PROVE k \in lost'
      <4>1. k \in Launches
        BY <2>2, <2>3, <3>1 DEF Layer1, TypeParts, ReportTypes
      <4>2. CASE k \in ended
        BY <1>1, <2>6, <3>1, <4>1, <4>2 DEF Calm, EndedInv
      <4>3. CASE k \in Of(report)
        BY <1>1, <2>3, <2>7, <3>1, <4>1, <4>3 DEF Unreported
      <4> QED
        BY <2>2, <3>1, <4>2, <4>3
    <3> QED
      BY <3>1 DEF EndedInv
  <2>11. Calmly(n, x)
    <3>1. up' /\ n = current' /\ Update(n, x) /\ UNCHANGED <<meta, seen, lost>>
          /\ \A p \in Launches : p # n => armed'[p] = armed[p]
      BY <1>1, <2>2
    <3>2. \A p \in Launches \ {n} : (Record(p) => recs[p].state = "ended") /\ writes[p] = <<>>
      BY <1>2
    <3>3. armed'[n] = IF x.state = "restarting" THEN 1 ELSE 0
      BY <1>1, <1>2, <2>2, <2>5
    <3>4. \A k \in ended' \ Of(seen) : k \in Of(x.pend \cap (telling' \cup box'))
      BY <2>8
    <3>5. \A k \in Launches : proc'[k] = "alive" /\ k \notin lost => x.pid = k /\ ~Settled(x.state)
      BY <2>7
    <3> QED
      BY <1>5, <2>5, <2>9, <2>10, <3>1, <3>2, <3>3, <3>4, <3>5 DEF Calmly
  <2> QED
    BY <2>11, UpdateCalm
<1> QED
  BY <1>9, <1>10

LEMMA InitCalm == Init => Calm
<1> SUFFICES ASSUME Init PROVE Calm
  OBVIOUS
<1>1. /\ up = TRUE /\ current = 0 /\ opening = {} /\ settles = {} /\ ended = {} /\ lost = {} /\ meta = NoMeta
      /\ ops = [c \in Callers |-> Idle]
  BY DEF Init
<1>2. \A r \in Launches : recs[r] = NoRecord /\ writes[r] = <<>> /\ armed[r] = 0 /\ ~Record(r) /\ Queue(r) = {}
                          /\ proc[r] = "none"
  BY DEF Init, Record, Records, NoRecord, States, Queue
<1>3. SingleInv /\ TimerInv
  BY <1>1, <1>2 DEF SingleInv, TimerInv, NoRecord
<1>4. PidInv
  BY <1>1, <1>2 DEF PidInv, PidOf, NoMeta, Settled
<1>5. EndedInv /\ ServedInv /\ OpeningInv /\ SettleInv /\ KeptInv
  BY <1>1 DEF EndedInv, ServedInv, OpeningInv, SettleInv, KeptInv, Idle
<1>6. ProcessKept /\ EndKept
  BY <1>1, <1>2 DEF ProcessKept, EndKept, Alive
<1> QED
  BY <1>3, <1>4, <1>5, <1>6 DEF Calm

\* A race that happened stays on record.
LEMMA StrayStays == [Next]_vars /\ ~stray' => ~stray
<1> SUFFICES ASSUME [Next]_vars, ~stray' PROVE ~stray
  OBVIOUS
<1>1. CASE Supervise
  BY <1>1 DEF Supervise, Opened, OpenFails, Exited, RefreshRead, Settles, TimerFires, Refresh, outside, history
<1>2. CASE Report
  BY <1>2 DEF Report, Write, WriteFails, Notify, Deliver, Ack, outside, history
<1>3. ASSUME NEW c \in Callers, Request(c) PROVE ~stray
  BY <1>3 DEF Request, Start, StopOrRestart, Shutdown, outside, history
<1>4. ASSUME NEW c \in Callers, Serve(c) PROVE ~stray
  <2>1. ASSUME StartChecks(c) \/ OpensNothing(c) \/ Kill(c) \/ Waited(c) \/ Drained(c) PROVE ~stray
    BY <2>1 DEF StartChecks, OpensNothing, Kill, Waited, Drained, outside, history
  <2>2. ASSUME StartLaunches(c) \/ RestartLaunches(c) \/ StopRecord(c) \/ Exit(c) PROVE ~stray
    BY <2>2 DEF StartLaunches, RestartLaunches, StopRecord, Exit, Gone
  <2> QED
    BY <1>4, <2>1, <2>2 DEF Serve
<1>5. CASE Crash \/ Recover
  BY <1>5 DEF Crash, Gone, Recover
<1>6. ASSUME NEW n \in Launches, Dies(n) PROVE ~stray
  BY <1>6 DEF Dies, history
<1>7. CASE UNCHANGED vars
  BY <1>7 DEF vars, history
<1> QED
  BY <1>1, <1>2, <1>3, <1>4, <1>5, <1>6, <1>7 DEF Next

LEMMA NextLayer3 == Layer1 /\ Layer2 /\ Layer3 /\ [Next]_vars => Layer3'
<1> SUFFICES ASSUME Layer1, Layer2, Layer3, [Next]_vars, ~stray' PROVE Calm'
  BY DEF Layer3
<1>0. Calm
  BY StrayStays DEF Layer3
<1>1. CASE Supervise
  BY <1>0, <1>1, OpenedCalm, WaitsCalm, SettlesCalm, TimerFiresCalm DEF Supervise
<1>2. CASE Report
  BY <1>0, <1>2, WriteCalm, WriteFailsCalm, NoticesCalm, AckCalm DEF Report
<1>3. ASSUME NEW c \in Callers, Request(c) PROVE Calm'
  BY <1>0, <1>3, RequestCalm
<1>4. ASSUME NEW c \in Callers, Serve(c) PROVE Calm'
  <2>1. Exit(c) => up
    BY KindFacts DEF Exit, Layer1, DownInv
  <2>2. Exit(c) => Calm'
    BY <1>0, <2>1, GoneCalm DEF Exit
  <2> QED
    BY <1>0, <1>4, <2>2, RequestCalm, StartLaunchesCalm, RestartLaunchesCalm, StopRecordCalm DEF Serve
<1>5. CASE Crash
  BY <1>0, <1>5, GoneCalm DEF Crash
<1>6. CASE Recover
  BY <1>0, <1>6, RecoverCalm
<1>7. ASSUME NEW n \in Launches, Dies(n) PROVE Calm'
  BY <1>0, <1>7, DiesCalm
<1>8. CASE UNCHANGED vars
  <2>1. ServedInv'
    BY <1>0, <1>8 DEF vars, broker, Calm, ServedInv
  <2>2. UNCHANGED <<up, current, recs, owner, writes, meta, ended, lost, armed, opening, watched, settles,
                    telling, box, seen>> /\ \A n \in Launches : proc'[n] = "alive" => proc[n] = "alive"
    BY <1>8 DEF vars, broker, outside, history
  <2> QED
    BY <1>0, <2>1, <2>2, MovesCalm
<1> QED
  BY <1>1, <1>2, <1>3, <1>4, <1>5, <1>6, <1>7, <1>8 DEF Next

LEMMA LayersAlways == Spec => [](Layer1 /\ Layer2 /\ Layer3)
<1>1. Init => Layer1 /\ Layer2 /\ Layer3
  BY InitLayer1, InitLayer2, InitCalm DEF Layer3
<1>2. Layer1 /\ Layer2 /\ Layer3 /\ [Next]_vars => (Layer1 /\ Layer2 /\ Layer3)'
  BY NextLayer1, NextLayer2, NextLayer3
<1> QED
  BY <1>1, <1>2, PTL DEF Spec

LEMMA CalmAlways == Spec => [](~stray => Calm)
<1>1. Layer1 /\ Layer2 /\ Layer3 => (~stray => Calm)
  BY DEF Layer3
<1> QED
  BY <1>1, LayersAlways, PTL

\* For any number of launches, deaths and requests, and where none of the races
\* that ProcessOnRecord names has happened: the one process of the name is the one
\* its record has, or after a death the disk, so that a stop or the next broker
\* reaches it.
THEOREM ProcessAlwaysOnRecord == Spec => []ProcessOnRecord
<1>1. (~stray => Calm) => ProcessOnRecord
  BY DEF Calm, ProcessKept, ProcessOnRecord
<1> QED
  BY <1>1, CalmAlways, PTL

\* One timer is armed while the record waits to be restarted, and none otherwise:
\* no settlement arms a second one, and no stop leaves one behind.
THEOREM TimerMeansRestartingAlways == Spec => []TimerMeansRestarting
<1>1. (~stray => Calm) => TimerMeansRestarting
  BY DEF Calm, TimerInv, TimerMeansRestarting
<1> QED
  BY <1>1, CalmAlways, PTL

\* That a process ended stays pending in the record until the owner was told, or
\* can be found again on disk by the next broker.
THEOREM ReportAlwaysKept == Spec => []ReportKept
<1>1. (~stray => Calm) => ReportKept
  BY DEF Calm, EndKept, ReportKept
<1> QED
  BY <1>1, CalmAlways, PTL

-----------------------------------------------------------------------------
(* What the documents say, where none of the races happened.               *)

\* hub.md:95, a name is unique, is so where none of the races happened: they are
\* all the ways in which two processes of one name come about.
THEOREM NameIsUniqueUnlessRaced == Spec => [](~stray => NameIsUnique)
<1>1. Calm => NameIsUnique
  <2> SUFFICES ASSUME Calm PROVE Cardinality(Alive \ lost) <= 1
    BY DEF NameIsUnique
  <2>1. PICK p : \A n \in Alive \ lost : n = p
    BY DEF Calm, ProcessKept
  <2>2. Alive \ lost = {} \/ Alive \ lost = {p}
    BY <2>1
  <2>3. Cardinality({}) = 0 /\ Cardinality({p}) = 1
    BY FS_EmptySet, FS_Singleton
  <2> QED
    BY <2>2, <2>3
<1>2. (~stray => Calm) => (~stray => NameIsUnique)
  BY <1>1
<1> QED
  BY <1>2, CalmAlways, PTL

\* broker-restarting-settle.test.ts:104, a stop is authoritative: where none of the
\* races happened, no record has ended whose process runs, save a process that no
\* file named when a broker died.
THEOREM StopIsAuthoritativeUnlessRaced ==
    Spec => [](~stray => \A n \in Alive \ lost :
                             current # 0 /\ recs[current].gen = n => recs[current].state # "ended")
<1>1. Layer1 /\ Calm => \A n \in Alive \ lost : current # 0 /\ recs[current].gen = n => recs[current].state # "ended"
  <2> SUFFICES ASSUME Layer1, Calm, NEW n \in Alive \ lost, current # 0 PROVE recs[current].state # "ended"
    OBVIOUS
  <2>1. up
    BY DEF Layer1, TypeParts, EmptyDown
  <2> QED
    BY <2>1 DEF Calm, ProcessKept, Settled
<1> QED
  BY <1>1, LayersAlways, PTL DEF Layer3
=============================================================================
