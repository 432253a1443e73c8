------------------------ MODULE SessionJournalProofs ------------------------
(***************************************************************************)
(* Proofs about SessionJournal: the types, the single numbering of the     *)
(* journal across appends, rewrites, deaths and restarts, and that written *)
(* lines stay replayable, for every bound on the number of events,         *)
(* compactions and deaths.                                                 *)
(***************************************************************************)
EXTENDS SessionJournal, TLAPS, SequenceTheorems

\* A dead process holds nothing.
DeadIsEmpty == ~up => queue = <<>> /\ keep = <<>> /\ pc = "idle"

\* What a rewrite retains is numbered as the file is, and stays below the queue
\* while the appends that follow settle.
KeepNumbered == Ordered(keep) /\ (up => Below(keep))

Numbered == SingleNumbering /\ DeadIsEmpty /\ KeepNumbered
IInv == TypeOK /\ Numbered

-----------------------------------------------------------------------------
(* Sequences of lines.                                                     *)

\* A stretch of an ordered sequence of lines is ordered.
LEMMA SubSeqOrdered ==
    ASSUME NEW f \in Seq(Line), NEW m \in 0..Len(f), NEW n \in 0..Len(f), m <= n, Ordered(f)
    PROVE  /\ SubSeq(f, m + 1, n) \in Seq(Line)
           /\ Ordered(SubSeq(f, m + 1, n))
           /\ \A i \in DOMAIN SubSeq(f, m + 1, n) :
                 \E j \in DOMAIN f : SubSeq(f, m + 1, n)[i] = f[j]
<1> DEFINE g == SubSeq(f, m + 1, n)
<1>1. g = [i \in 1..(n - m) |-> f[m + i]]
  BY SMT
<1>2. g \in Seq(Line) /\ Len(g) = n - m /\ DOMAIN g = 1..(n - m)
  BY <1>1, SMT
<1>3. \A i \in DOMAIN g : m + i \in DOMAIN f /\ g[i] = f[m + i]
  BY <1>1, <1>2, SMT
<1> HIDE DEF g
<1>4. ASSUME NEW i \in DOMAIN g, NEW j \in DOMAIN g, i < j, g[i].ok, g[j].ok
      PROVE  g[i].seq < g[j].seq
  <2>1. m + i \in DOMAIN f /\ m + j \in DOMAIN f /\ g[i] = f[m + i] /\ g[j] = f[m + j]
    BY <1>3, <1>4
  <2>2. m + i < m + j
    BY <1>2, <1>4, SMT
  <2> QED
    BY <2>1, <2>2, <1>4 DEF Ordered
<1>5. Ordered(g)
  BY <1>4 DEF Ordered
<1> QED
  BY <1>2, <1>3, <1>5 DEF g

\* A line numbered above all the good ones goes to the end.
LEMMA AppendOrdered ==
    ASSUME NEW f \in Seq(Line), NEW l \in Line, Ordered(f),
           \A i \in DOMAIN f : f[i].ok => f[i].seq < l.seq
    PROVE  Append(f, l) \in Seq(Line) /\ Ordered(Append(f, l))
  BY SMT DEF Ordered, Line

\* A line that does not parse changes nothing in the order.
LEMMA AppendBadOrdered ==
    ASSUME NEW f \in Seq(Line), NEW l \in Line, Ordered(f), ~l.ok
    PROVE  Append(f, l) \in Seq(Line) /\ Ordered(Append(f, l))
  BY SMT DEF Ordered, Line

\* Taking the settled link off the chain.
LEMMA SettleTyped ==
    ASSUME ChainTyped, queue # <<>>, Settle
    PROVE  /\ queue' \in Seq([seq : Nat, ev : Event])
           /\ Len(queue) \in Nat /\ Len(queue') = Len(queue) - 1 /\ 1 <= Len(queue)
           /\ \A i \in DOMAIN queue' : i + 1 \in DOMAIN queue /\ queue'[i] = queue[i + 1]
           /\ Head(queue) = queue[1] /\ 1 \in DOMAIN queue
           /\ Head(queue) \in [seq : Nat, ev : Event]
           /\ link' = "wait"
<1>1. queue \in Seq([seq : Nat, ev : Event]) /\ queue # <<>> /\ queue' = Tail(queue) /\ link' = "wait"
  BY DEF ChainTyped, Settle
<1>2. /\ Head(queue) \in [seq : Nat, ev : Event]
      /\ Tail(queue) \in Seq([seq : Nat, ev : Event])
      /\ Len(Tail(queue)) = Len(queue) - 1
      /\ \A i \in 1..Len(Tail(queue)) : Tail(queue)[i] = queue[i + 1]
  BY <1>1, HeadTailProperties
<1>3. Len(queue) \in Nat \ {0} /\ DOMAIN queue = 1..Len(queue) /\ Head(queue) = queue[1]
  BY <1>1
<1>4. DOMAIN Tail(queue) = 1..(Len(queue) - 1)
  BY <1>1, <1>2
<1> QED
  BY <1>1, <1>2, <1>3, <1>4

\* The fields of the lines on disk.
LEMMA LineFields ==
    ASSUME NEW f \in Seq(Line), NEW i \in DOMAIN f
    PROVE  f[i] \in Line /\ f[i].seq \in Nat /\ f[i].ev \in Event
<1>1. f[i] \in Line
  BY ElementOfSeq, LenProperties
<1> QED
  BY <1>1 DEF Line

-----------------------------------------------------------------------------
(* Type correctness.                                                       *)

LEMMA TypeInit == Init => TypeOK
<1> SUFFICES ASSUME Init PROVE TypeOK
  OBVIOUS
<1>1. FlagsTyped
  BY DEF Init, FlagsTyped
<1>2. FilesTyped /\ ChainTyped /\ HandleTyped /\ EventsTyped
  BY DEF Init, FilesTyped, ChainTyped, HandleTyped, EventsTyped, Steps
<1>3. CountsTyped
  BY BoundsAssumption DEF Init, CountsTyped, BoundsAssumption
<1> QED
  BY <1>1, <1>2, <1>3 DEF TypeOK

LEMMA TypeOpen == TypeOK /\ Open => TypeOK'
<1> SUFFICES ASSUME TypeOK, Open PROVE TypeOK'
  OBVIOUS
<1>1. FlagsTyped' /\ FilesTyped' /\ CountsTyped'
  BY DEF TypeOK, Open, FlagsTyped, FilesTyped, CountsTyped, disk, rewrite, counts
<1>2. HandleTyped'
  BY DEF TypeOK, Open, HandleTyped, rewrite
<1>3. ChainTyped'
  <2>1. \A i \in DOMAIN file : file[i].seq \in Nat
    BY LineFields DEF TypeOK, FilesTyped
  <2>2. seq' \in Nat
    BY <2>1 DEF Open, RecoverTail
  <2> QED
    BY <2>2 DEF TypeOK, ChainTyped, Open, chain
<1>4. EventsTyped'
  <2>1. Increments \in SUBSET Event
    BY LineFields DEF TypeOK, FilesTyped, Increments, ReadableIdx
  <2>2. 1..published \in SUBSET Event
    BY BoundsAssumption DEF TypeOK, CountsTyped, Event, BoundsAssumption
  <2>3. ckpt.view \in SUBSET Event
    BY DEF TypeOK, FilesTyped
  <2>4. view' \in SUBSET Event
    BY <2>1, <2>2, <2>3 DEF Open, SeedView
  <2> QED
    BY <2>1, <2>3, <2>4 DEF TypeOK, EventsTyped, Open, Replayable
<1> QED
  BY <1>1, <1>2, <1>3, <1>4 DEF TypeOK

\* What append() and view.apply do to the types, with or without a compaction.
LEMMA TypePublish ==
    ASSUME TypeOK, Publish
    PROVE  /\ FlagsTyped' /\ ChainTyped' /\ EventsTyped'
           /\ published' \in 0..MaxEvents /\ Len(queue') = Len(queue) + 1
<1>1. published' \in Event /\ published' \in 0..MaxEvents /\ seq' \in Nat
  BY BoundsAssumption DEF TypeOK, CountsTyped, ChainTyped, Publish, Event, BoundsAssumption
<1>2. [seq |-> seq', ev |-> published'] \in [seq : Nat, ev : Event]
  BY <1>1
<1>3. /\ queue' \in Seq([seq : Nat, ev : Event])
      /\ queue' # <<>> /\ Len(queue') = Len(queue) + 1
  BY <1>2 DEF TypeOK, ChainTyped, Publish
<1>4. ChainTyped'
  BY <1>1, <1>3 DEF TypeOK, ChainTyped, Publish
<1>5. EventsTyped'
  BY <1>1 DEF TypeOK, EventsTyped, Publish
<1>6. FlagsTyped'
  BY DEF TypeOK, FlagsTyped, Publish, disk
<1> QED
  BY <1>1, <1>3, <1>4, <1>5, <1>6

\* The death of the process, whatever it does to the file.
LEMMA TypeDie ==
    ASSUME TypeOK, Die
    PROVE  /\ up' \in BOOLEAN /\ ChainTyped' /\ HandleTyped' /\ EventsTyped'
           /\ keep' = <<>> /\ cut' \in [seq : Nat, view : SUBSET Event] /\ ckpt' = ckpt
           /\ barrier' \in 0..MaxEvents /\ published' = published
           /\ compacts' \in Nat /\ crashes' \in 0..MaxCrashes
<1>1. up' \in BOOLEAN
  BY DEF Die
<1>2. ChainTyped' /\ HandleTyped'
  BY DEF Die, ChainTyped, HandleTyped, Steps
<1>3. EventsTyped'
  BY DEF TypeOK, Die, EventsTyped, history
<1>4. barrier' \in 0..MaxEvents /\ compacts' \in Nat /\ crashes' \in 0..MaxCrashes
  BY BoundsAssumption DEF TypeOK, CountsTyped, Die, BoundsAssumption
<1> QED
  BY <1>1, <1>2, <1>3, <1>4 DEF Die

LEMMA TypeNext == TypeOK /\ [Next]_vars => TypeOK'
<1> SUFFICES ASSUME TypeOK, [Next]_vars PROVE TypeOK'
  OBVIOUS
<1> USE DEF TypeOK
<1>1. CASE Open
  BY <1>1, TypeOpen
<1>2. CASE PublishOnly
  <2>1. FilesTyped' /\ HandleTyped'
    BY <1>2 DEF PublishOnly, Publish, FilesTyped, HandleTyped, disk, handle, rewrite
  <2>2. CountsTyped'
    BY <1>2, TypePublish DEF PublishOnly, Publish, CountsTyped, counts, rewrite
  <2> QED
    BY <1>2, <2>1, <2>2, TypePublish DEF PublishOnly
<1>3. CASE PublishAndCompact
  <2>1. HandleTyped'
    BY <1>3 DEF PublishAndCompact, Publish, HandleTyped, handle, Steps
  <2>2. FilesTyped'
    BY <1>3, TypePublish DEF PublishAndCompact, Publish, FilesTyped, ChainTyped, EventsTyped, disk
  <2>3. CountsTyped'
    BY <1>3, TypePublish DEF PublishAndCompact, Publish, CountsTyped, counts
  <2> QED
    BY <1>3, <2>1, <2>2, <2>3, TypePublish DEF PublishAndCompact
<1>4. CASE LinkStart
  <2>1. FlagsTyped' /\ FilesTyped' /\ HandleTyped' /\ CountsTyped' /\ EventsTyped'
    BY <1>4 DEF LinkStart, FlagsTyped, FilesTyped, HandleTyped, CountsTyped, EventsTyped,
                disk, handle, rewrite, counts, history
  <2>2. CASE LinkWrites \/ LinkHangs
    BY <1>4, <2>1, <2>2 DEF ChainTyped, LinkStart, LinkWrites, LinkHangs
  <2>3. CASE LinkDrops
    BY <1>4, <2>1, <2>3, SettleTyped DEF ChainTyped, LinkStart, LinkDrops
  <2> QED
    BY <1>4, <2>2, <2>3 DEF LinkStart
<1>5. CASE LinkDone
  <2>1. queue # <<>>
    BY <1>5 DEF ChainTyped, LinkDone
  <2>2. [seq |-> Head(queue).seq, ev |-> Head(queue).ev, ok |-> TRUE] \in Line /\ Head(queue).ev \in Event
    BY <1>5, <2>1, SettleTyped DEF LinkDone, Line
  <2>3. file' \in Seq(Line)
    <3>1. \A l \in Line : Append(file, l) \in Seq(Line)
      BY DEF FilesTyped
    <3>2. CASE torn
      BY <1>5, <3>2 DEF FilesTyped, LinkDone
    <3>3. CASE ~torn
      BY <1>5, <2>2, <3>1, <3>3 DEF LinkDone
    <3> QED BY <3>2, <3>3
  <2>4. FilesTyped'
    BY <1>5, <2>3 DEF FilesTyped, LinkDone, rewrite
  <2>5. FlagsTyped' /\ EventsTyped'
    BY <1>5, <2>2 DEF FlagsTyped, EventsTyped, LinkDone, history
  <2>6. ChainTyped'
    BY <1>5, <2>1, SettleTyped DEF ChainTyped, LinkDone
  <2>7. HandleTyped' /\ CountsTyped'
    BY <1>5 DEF HandleTyped, CountsTyped, LinkDone, handle, rewrite, counts
  <2> QED
    BY <2>4, <2>5, <2>6, <2>7
<1>6. CASE Compaction
  <2>1. ChainTyped' /\ EventsTyped'
    BY <1>6 DEF ChainTyped, EventsTyped, Compaction, FlushBefore, RewriteFails, WriteTmp,
                WriteCheckpoint, ReadKeep, DrainForRelease, ReleaseFd, FdClosed, Rename,
                ReopenFd, chain, history
  <2>2. FlagsTyped'
    BY <1>6 DEF FlagsTyped, Compaction, FlushBefore, RewriteFails, WriteTmp,
                WriteCheckpoint, ReadKeep, DrainForRelease, ReleaseFd, FdClosed, Rename,
                ReopenFd, disk
  <2>3. HandleTyped'
    BY <1>6 DEF HandleTyped, Compaction, FlushBefore, RewriteFails, WriteTmp,
                WriteCheckpoint, ReadKeep, DrainForRelease, ReleaseFd, FdClosed, Rename,
                ReopenFd, handle, Steps
  <2>4. CountsTyped'
    BY <1>6 DEF CountsTyped, Compaction, FlushBefore, RewriteFails, WriteTmp,
                WriteCheckpoint, ReadKeep, DrainForRelease, ReleaseFd, FdClosed, Rename,
                ReopenFd, counts
  <2>5. CASE ReadKeep
    <3>1. keep' \in Seq(Line)
      BY <2>5 DEF ReadKeep, FilesTyped
    <3> QED
      BY <2>1, <2>2, <2>3, <2>4, <2>5, <3>1 DEF FilesTyped, ReadKeep, disk
  <2>6. CASE Compaction /\ ~ReadKeep
    <3>1. FilesTyped'
      BY <2>6 DEF FilesTyped, Compaction, FlushBefore, RewriteFails, WriteTmp, WriteCheckpoint,
                  DrainForRelease, ReleaseFd, FdClosed, Rename, ReopenFd, disk
    <3> QED
      BY <2>1, <2>2, <2>3, <2>4, <3>1
  <2> QED
    BY <1>6, <2>5, <2>6
<1>7. CASE Crash
  <2>1. torn' = torn /\ file' = file /\ torns' = torns
    BY <1>7 DEF Crash
  <2>2. FilesTyped'
    <3>1. <<>> \in Seq(Line)
      OBVIOUS
    <3> QED
      BY <1>7, <2>1, <3>1, TypeDie DEF Crash, FilesTyped
  <2>3. FlagsTyped' /\ CountsTyped'
    BY <1>7, <2>1, TypeDie DEF Crash, FlagsTyped, CountsTyped
  <2> QED
    BY <1>7, <2>2, <2>3, TypeDie DEF Crash
<1>8. CASE CrashTorn
  <2>1. queue # <<>>
    BY <1>8 DEF ChainTyped, CrashTorn
  <2>2. Head(queue) \in [seq : Nat, ev : Event]
    BY <2>1, HeadTailProperties DEF ChainTyped
  <2>3. [seq |-> Head(queue).seq, ev |-> Head(queue).ev, ok |-> FALSE] \in Line
    BY <2>2 DEF Line
  <2>4. file' \in Seq(Line)
    BY <1>8, <2>3 DEF FilesTyped, CrashTorn
  <2>5. FilesTyped'
    <3>1. <<>> \in Seq(Line)
      OBVIOUS
    <3> QED
      BY <1>8, <2>4, <3>1, TypeDie DEF FilesTyped, CrashTorn
  <2>6. FlagsTyped'
    BY <1>8, TypeDie DEF CrashTorn, FlagsTyped
  <2>7. CountsTyped'
    BY <1>8, TypeDie, BoundsAssumption DEF CountsTyped, CrashTorn, BoundsAssumption
  <2> QED
    BY <1>8, <2>5, <2>6, <2>7, TypeDie DEF CrashTorn
<1>9. CASE UNCHANGED vars
  BY <1>9 DEF FlagsTyped, FilesTyped, ChainTyped, HandleTyped, CountsTyped, EventsTyped,
              vars, disk, chain, handle, rewrite, counts, history
<1> QED
  BY <1>1, <1>2, <1>3, <1>4, <1>5, <1>6, <1>7, <1>8, <1>9 DEF Next

\* Every reachable state is well typed: the chain, the handle, the rewrite and
\* the files of AppendJournal stay in their domains for every bound.
THEOREM TypeCorrect == Spec => []TypeOK
  BY TypeInit, TypeNext, PTL DEF Spec

-----------------------------------------------------------------------------
(* The single numbering.  SingleNumbering is not inductive: a rename puts  *)
(* `keep' in the place of the file, and a restart assumes that nothing is  *)
(* queued or kept.  IInv adds both facts.                                  *)

LEMMA NumberedInit == Init => Numbered
  BY DEF Init, Numbered, SingleNumbering, DeadIsEmpty, KeepNumbered, Ordered

\* Nothing that the numbering reads has changed.
LEMMA NumberedFrame ==
    ASSUME Numbered, UNCHANGED <<up, file, seq, queue, keep>>, ~up => pc' = "idle"
    PROVE  Numbered'
  BY DEF Numbered, SingleNumbering, DeadIsEmpty, KeepNumbered, Ordered, Below, QueueContinues

\* A link that settles takes the lowest queued number with it.
LEMMA SettleNumbered ==
    ASSUME IInv, up, queue # <<>>, Settle, seq' = seq
    PROVE  /\ QueueContinues'
           /\ Head(queue).seq = seq' - Len(queue')
           /\ seq - Len(queue) \in Nat
           /\ seq' - Len(queue') = seq - Len(queue) + 1
<1>1. ChainTyped /\ QueueContinues /\ seq \in Nat
  BY DEF IInv, TypeOK, ChainTyped, Numbered, SingleNumbering
<1>2. Len(queue) <= seq /\ Len(queue) \in Nat /\ Len(queue') = Len(queue) - 1
  BY <1>1, SettleTyped DEF QueueContinues
<1>3. Head(queue).seq = seq - Len(queue) + 1
  BY <1>1, SettleTyped DEF QueueContinues
<1>4. ASSUME NEW i \in DOMAIN queue' PROVE queue'[i].seq = seq' - Len(queue') + i
  <2>1. i + 1 \in DOMAIN queue /\ queue'[i] = queue[i + 1]
    BY <1>1, <1>4, SettleTyped
  <2>2. i \in Nat
    BY <1>1, <1>4, SettleTyped, LenProperties
  <2> QED
    BY <1>1, <1>2, <2>1, <2>2 DEF QueueContinues
<1> QED
  BY <1>1, <1>2, <1>3, <1>4 DEF QueueContinues

\* What lies below the queue stays there while the bound does not sink.
LEMMA BelowMonotone ==
    ASSUME NEW f \in Seq(Line), NEW a \in Int, NEW b \in Int, a <= b,
           \A i \in DOMAIN f : f[i].ok => f[i].seq <= a
    PROVE  \A i \in DOMAIN f : f[i].ok => f[i].seq <= b
<1> SUFFICES ASSUME NEW i \in DOMAIN f, f[i].ok PROVE f[i].seq <= b
  OBVIOUS
<1>1. f[i].seq \in Nat /\ f[i].seq <= a
  BY LineFields
<1> QED
  BY <1>1

LEMMA NumberedOpen == IInv /\ Open => Numbered'
<1> SUFFICES ASSUME IInv, Open PROVE Numbered'
  OBVIOUS
<1>1. /\ up' = TRUE /\ file' = file /\ keep' = keep /\ queue' = queue
      /\ queue = <<>> /\ keep = <<>> /\ seq' \in Nat
  BY TypeOpen DEF Open, disk, chain, rewrite, IInv, Numbered, DeadIsEmpty, TypeOK, ChainTyped
<1>2. file \in Seq(Line) /\ Ordered(file)
  BY DEF IInv, TypeOK, FilesTyped, Numbered, SingleNumbering
<1>3. Len(queue') = 0 /\ DOMAIN queue' = {} /\ DOMAIN keep' = {}
  BY <1>1
<1>4. \A i \in DOMAIN file : file[i].ok => file[i].seq <= seq'
  <2> SUFFICES ASSUME NEW i \in DOMAIN file, file[i].ok PROVE file[i].seq <= seq'
    OBVIOUS
  <2>1. PICK t \in DOMAIN file :
          /\ file[t].ok
          /\ \A k \in t + 1..Len(file) : ~file[k].ok
          /\ seq' = file[t].seq
    BY DEF Open, RecoverTail
  <2>2. i \in 1..Len(file) /\ t \in 1..Len(file) /\ Len(file) \in Nat
    BY <1>2, LenProperties
  <2>3. ~(i > t)
    BY <2>1, <2>2
  <2>4. CASE i < t
    <3>1. file[i].seq < file[t].seq
      BY <1>2, <2>1, <2>4 DEF Ordered
    <3> QED
      BY <1>2, <2>1, <3>1, LineFields
  <2>5. CASE i = t
    BY <1>2, <2>1, <2>5, LineFields
  <2> QED
    BY <2>2, <2>3, <2>4, <2>5
<1>5. QueueContinues' /\ Below(file)' /\ Below(keep)'
  BY <1>1, <1>3, <1>4 DEF QueueContinues, Below
<1> QED
  BY <1>1, <1>2, <1>3, <1>5 DEF Numbered, SingleNumbering, DeadIsEmpty, KeepNumbered, Ordered

LEMMA NumberedPublish ==
    ASSUME IInv, Publish, keep' = keep
    PROVE  Numbered'
<1>1. /\ up /\ up' = up /\ file' = file /\ seq \in Nat /\ seq' = seq + 1
      /\ queue \in Seq([seq : Nat, ev : Event])
      /\ queue' = Append(queue, [seq |-> seq', ev |-> published'])
  BY DEF IInv, TypeOK, ChainTyped, Publish, disk
<1>2. QueueContinues /\ Below(file) /\ Below(keep) /\ Ordered(file) /\ Ordered(keep)
  BY <1>1 DEF IInv, Numbered, SingleNumbering, KeepNumbered
<1>3. /\ Len(queue) \in Nat /\ Len(queue') = Len(queue) + 1
      /\ DOMAIN queue = 1..Len(queue) /\ DOMAIN queue' = 1..Len(queue) + 1
      /\ \A i \in 1..Len(queue) : queue'[i] = queue[i]
      /\ queue'[Len(queue) + 1] = [seq |-> seq', ev |-> published']
  BY <1>1
<1>4. seq' - Len(queue') = seq - Len(queue)
  BY <1>1, <1>3
<1>5. QueueContinues'
  <2>1. Len(queue') <= seq'
    BY <1>1, <1>2, <1>3 DEF QueueContinues
  <2>2. ASSUME NEW i \in DOMAIN queue' PROVE queue'[i].seq = seq' - Len(queue') + i
    <3>1. CASE i \in 1..Len(queue)
      BY <1>2, <1>3, <1>4, <3>1 DEF QueueContinues
    <3>2. CASE i = Len(queue) + 1
      BY <1>1, <1>3, <3>2
    <3> QED
      BY <1>3, <2>2, <3>1, <3>2
  <2> QED
    BY <2>1, <2>2 DEF QueueContinues
<1>6. Below(file)' /\ Below(keep)'
  BY <1>1, <1>2, <1>4 DEF Below
<1> QED
  BY <1>1, <1>2, <1>5, <1>6 DEF Numbered, SingleNumbering, DeadIsEmpty, KeepNumbered, Ordered

\* The chain moves on: by a dropped record, or by a line at the end of the file.
LEMMA NumberedSettle ==
    ASSUME IInv, up, queue # <<>>, Settle, UNCHANGED <<up, seq, keep>>,
           \/ file' = file
           \/ file' = Append(file, [seq |-> Head(queue).seq, ev |-> Head(queue).ev, ok |-> TRUE])
    PROVE  Numbered'
<1>1. /\ QueueContinues' /\ Head(queue).seq = seq' - Len(queue')
      /\ seq - Len(queue) \in Nat /\ seq' - Len(queue') = seq - Len(queue) + 1
  BY SettleNumbered
<1>2. /\ file \in Seq(Line) /\ keep \in Seq(Line) /\ Ordered(file) /\ Ordered(keep)
      /\ Below(file) /\ Below(keep)
  BY DEF IInv, TypeOK, FilesTyped, Numbered, SingleNumbering, KeepNumbered
<1>3. /\ \A i \in DOMAIN file : file[i].ok => file[i].seq <= seq' - Len(queue')
      /\ \A i \in DOMAIN keep : keep[i].ok => keep[i].seq <= seq' - Len(queue')
  <2>1. seq - Len(queue) \in Int /\ seq' - Len(queue') \in Int /\ seq - Len(queue) <= seq' - Len(queue')
    BY <1>1
  <2>2. \A i \in DOMAIN file : file[i].ok => file[i].seq <= seq - Len(queue)
    BY <1>2 DEF Below
  <2>3. \A i \in DOMAIN keep : keep[i].ok => keep[i].seq <= seq - Len(queue)
    BY <1>2 DEF Below
  <2>4. \A i \in DOMAIN file : file[i].ok => file[i].seq <= seq' - Len(queue')
    BY <1>2, <2>1, <2>2, BelowMonotone
  <2>5. \A i \in DOMAIN keep : keep[i].ok => keep[i].seq <= seq' - Len(queue')
    BY <1>2, <2>1, <2>3, BelowMonotone
  <2> QED
    BY <2>4, <2>5
<1>4. Below(keep)'
  BY <1>3 DEF Below
<1>5. Ordered(file') /\ Below(file)'
  <2>1. CASE file' = file
    BY <1>2, <1>3, <2>1 DEF Below
  <2>2. CASE file' = Append(file, [seq |-> Head(queue).seq, ev |-> Head(queue).ev, ok |-> TRUE])
    <3> DEFINE l == [seq |-> Head(queue).seq, ev |-> Head(queue).ev, ok |-> TRUE]
    <3>1. l \in Line /\ l.seq = seq' - Len(queue')
      BY <1>1, SettleTyped DEF IInv, TypeOK, Line
    <3>2. \A i \in DOMAIN file : file[i].ok => file[i].seq < l.seq
      <4> SUFFICES ASSUME NEW i \in DOMAIN file, file[i].ok PROVE file[i].seq < l.seq
        OBVIOUS
      <4>1. file[i].seq \in Nat /\ file[i].seq <= seq - Len(queue)
        BY <1>2, LineFields DEF Below
      <4> QED
        BY <1>1, <3>1, <4>1
    <3>3. Ordered(file')
      BY <1>2, <2>2, <3>1, <3>2, AppendOrdered
    <3>4. /\ DOMAIN file' = 1..Len(file) + 1 /\ DOMAIN file = 1..Len(file) /\ Len(file) \in Nat
          /\ \A i \in 1..Len(file) : file'[i] = file[i]
          /\ file'[Len(file) + 1] = l
      BY <1>2, <2>2, <3>1
    <3>5. ASSUME NEW i \in DOMAIN file', file'[i].ok PROVE file'[i].seq <= seq' - Len(queue')
      <4>1. CASE i \in 1..Len(file)
        BY <1>3, <3>4, <3>5, <4>1
      <4>2. CASE i = Len(file) + 1
        BY <1>1, <3>1, <3>4, <4>2
      <4> QED
        BY <3>4, <3>5, <4>1, <4>2
    <3> QED
      BY <3>3, <3>5 DEF Below
  <2> QED
    BY <2>1, <2>2
<1> QED
  BY <1>1, <1>2, <1>4, <1>5 DEF Numbered, SingleNumbering, DeadIsEmpty, KeepNumbered, Ordered

\* The retained records are a stretch of the file as it is read.
LEMMA NumberedReadKeep == IInv /\ ReadKeep => Numbered'
<1> SUFFICES ASSUME IInv, ReadKeep PROVE Numbered'
  OBVIOUS
<1>1. UNCHANGED <<up, file, seq, queue>> /\ up
  BY DEF ReadKeep, disk, chain, IInv, Numbered, DeadIsEmpty
<1>2. file \in Seq(Line) /\ Ordered(file) /\ QueueContinues /\ Below(file)
  BY <1>1 DEF IInv, TypeOK, FilesTyped, Numbered, SingleNumbering
<1>3. PICK m \in 0..Len(file), n \in 0..Len(file) : m <= n /\ keep' = SubSeq(file, m + 1, n)
  BY DEF ReadKeep
<1>4. Ordered(keep') /\ \A i \in DOMAIN keep' : \E j \in DOMAIN file : keep'[i] = file[j]
  BY <1>2, <1>3, SubSeqOrdered
<1>5. Below(keep)'
  BY <1>1, <1>2, <1>4 DEF Below
<1> QED
  BY <1>1, <1>2, <1>4, <1>5 DEF Numbered, SingleNumbering, DeadIsEmpty, KeepNumbered,
                               Ordered, Below, QueueContinues

LEMMA NumberedRename == IInv /\ Rename => Numbered'
<1> SUFFICES ASSUME IInv, Rename PROVE Numbered'
  OBVIOUS
<1>1. UNCHANGED <<up, seq, queue, keep>> /\ up /\ (file' = keep \/ file' = file)
  BY DEF Rename, chain, IInv, Numbered, DeadIsEmpty
<1> QED
  BY <1>1 DEF IInv, Numbered, SingleNumbering, DeadIsEmpty, KeepNumbered, Ordered, Below,
              QueueContinues

\* A dead process holds nothing; its torn line, if there is one, has no number.
LEMMA NumberedDie ==
    ASSUME IInv, Die, Ordered(file')
    PROVE  Numbered'
<1>1. up' = FALSE /\ queue' = <<>> /\ keep' = <<>> /\ pc' = "idle" /\ DOMAIN <<>> = {}
  BY DEF Die
<1> QED
  BY <1>1 DEF Numbered, SingleNumbering, DeadIsEmpty, KeepNumbered, Ordered

LEMMA NumberedNext == IInv /\ [Next]_vars => Numbered'
<1> SUFFICES ASSUME IInv, [Next]_vars PROVE Numbered'
  OBVIOUS
<1>1. CASE Open
  BY <1>1, NumberedOpen
<1>2. CASE PublishOnly \/ PublishAndCompact
  BY <1>2, NumberedPublish DEF PublishOnly, PublishAndCompact, rewrite
<1>3. CASE LinkStart
  <2>1. up /\ queue # <<>> /\ UNCHANGED <<up, file, seq, keep, pc>>
    BY <1>3 DEF LinkStart, disk, rewrite
  <2>2. CASE LinkWrites \/ LinkHangs
    BY <2>1, <2>2, NumberedFrame DEF IInv, LinkWrites, LinkHangs
  <2>3. CASE LinkDrops
    BY <2>1, <2>3, NumberedSettle DEF LinkDrops
  <2> QED
    BY <1>3, <2>2, <2>3 DEF LinkStart
<1>4. CASE LinkDone
  <2>1. up /\ queue # <<>> /\ Settle /\ UNCHANGED <<up, seq, keep>>
    BY <1>4 DEF IInv, TypeOK, ChainTyped, LinkDone, rewrite
  <2> QED
    BY <1>4, <2>1, NumberedSettle DEF LinkDone
<1>5. CASE Compaction
  <2>1. up
    BY <1>5 DEF IInv, Numbered, DeadIsEmpty, Compaction, FlushBefore, WriteCheckpoint, ReadKeep,
                WriteTmp, RewriteFails, DrainForRelease, ReleaseFd, FdClosed, Rename, ReopenFd
  <2>2. CASE ReadKeep
    BY <2>2, NumberedReadKeep
  <2>3. CASE Rename
    BY <2>3, NumberedRename
  <2>4. CASE \/ FlushBefore \/ WriteCheckpoint \/ WriteTmp \/ RewriteFails
             \/ DrainForRelease \/ ReleaseFd \/ FdClosed \/ ReopenFd
    <3>1. UNCHANGED <<up, file, seq, queue, keep>>
      BY <2>4 DEF FlushBefore, WriteCheckpoint, WriteTmp, RewriteFails, DrainForRelease,
                  ReleaseFd, FdClosed, ReopenFd, disk, chain
    <3> QED
      BY <2>1, <3>1, NumberedFrame DEF IInv
  <2> QED
    BY <1>5, <2>2, <2>3, <2>4 DEF Compaction
<1>6. CASE Crash
  BY <1>6, NumberedDie DEF Crash, IInv, Numbered, SingleNumbering
<1>7. CASE CrashTorn
  <2> DEFINE l == [seq |-> Head(queue).seq, ev |-> Head(queue).ev, ok |-> FALSE]
  <2>1. Head(queue) \in [seq : Nat, ev : Event]
    BY <1>7, HeadTailProperties DEF CrashTorn, IInv, TypeOK, ChainTyped
  <2>2. l \in Line /\ ~l.ok
    BY <2>1 DEF Line
  <2>3. file \in Seq(Line) /\ Ordered(file)
    BY DEF IInv, TypeOK, FilesTyped, Numbered, SingleNumbering
  <2>4. Ordered(Append(file, l))
    BY <2>2, <2>3, AppendBadOrdered
  <2>5. Ordered(file')
    BY <1>7, <2>3, <2>4 DEF CrashTorn
  <2> QED
    BY <1>7, <2>5, NumberedDie DEF CrashTorn
<1>8. CASE UNCHANGED vars
  BY <1>8, NumberedFrame DEF vars, disk, chain, rewrite, IInv, Numbered, DeadIsEmpty
<1> QED
  BY <1>1, <1>2, <1>3, <1>4, <1>5, <1>6, <1>7, <1>8 DEF Next

\* Across appends, rewrites, deaths, torn tails and restarts the journal has one
\* numbering: what is on disk is ordered, and the queue continues it up to #seq.
THEOREM SingleNumberingHolds == Spec => []SingleNumbering
<1>1. Init => IInv
  BY TypeInit, NumberedInit DEF IInv
<1>2. IInv /\ [Next]_vars => IInv'
  BY TypeNext, NumberedNext DEF IInv
<1>3. IInv => SingleNumbering
  BY DEF IInv, Numbered
<1> QED
  BY <1>1, <1>2, <1>3, PTL DEF Spec

-----------------------------------------------------------------------------
(***************************************************************************)
(* A line which reached the journal whole stays in the replay source       *)
(* (WrittenIsReplayable): across appends, rewrites, failures of the rename *)
(* and deaths, for every bound on their number, as long as no death has    *)
(* torn a line, whatever an adopt seeds the view with.                     *)
(***************************************************************************)

\* A write in flight has a handle, and a rewrite has none around its rename.
Handed ==
    /\ link = "writing" => fd # "null"
    /\ pc \in {"rename", "reopen"} => fd = "null"

Whole(f) == \A i \in DOMAIN f : f[i].ok

\* A checkpoint <<v, s>> and the lines of f above it hold every safe event.
Covers(v, s, f) ==
    \A e \in written \ exposed : e \in v \/ \E i \in DOMAIN f : f[i].ev = e /\ f[i].seq > s

\* ... and will hold every queued one, once it is written.
QueuedAbove(v, s) ==
    \A i \in DOMAIN queue : queue[i].ev \in v \cup exposed \/ queue[i].seq > s

Clean == ~torn /\ Whole(file) /\ Whole(keep)

\* The view has folded what is queued, and what is on disk and safe.
Seen ==
    /\ up => written \ exposed \subseteq view
    /\ \A i \in DOMAIN queue : queue[i].ev \in view

Planned   == pc \in {"flush", "checkpoint"}
Announced == pc \in {"read", "tmp", "drain", "release", "closing", "rename"}
Retained  == pc \in {"tmp", "drain", "release", "closing", "rename"}

CkptCovers == Covers(ckpt.view, ckpt.seq, file) /\ QueuedAbove(ckpt.view, ckpt.seq)
CutCovers  ==
    Planned => Covers(cut.view, cut.seq, file) /\ QueuedAbove(cut.view, cut.seq) /\ cut.seq <= seq
KeepCovers ==
    /\ Announced => ckpt = cut
    /\ Retained => Covers(cut.view, cut.seq, keep)

Safe == Clean /\ Seen /\ CkptCovers /\ CutCovers /\ KeepCovers
RInv == IInv /\ Handed /\ (torns = 0 => Safe)
-----------------------------------------------------------------------------
(* Sequences of lines, and the two relations above.                        *)

\* What an appended line changes, read by index.
LEMMA AppendLine ==
    ASSUME NEW f \in Seq(Line), NEW l \in Line
    PROVE  /\ \A i \in DOMAIN f : i \in DOMAIN Append(f, l) /\ Append(f, l)[i] = f[i]
           /\ \E j \in DOMAIN Append(f, l) : Append(f, l)[j] = l
           /\ \A i \in DOMAIN Append(f, l) : i \in DOMAIN f \/ Append(f, l)[i] = l
<1> DEFINE g == Append(f, l)
<1>1. /\ Len(f) \in Nat /\ DOMAIN f = 1..Len(f) /\ DOMAIN g = 1..(Len(f) + 1)
      /\ \A i \in 1..Len(f) : g[i] = f[i]
      /\ g[Len(f) + 1] = l
  BY AppendProperties, LenProperties
<1> HIDE DEF g
<1> QED
  BY <1>1 DEF g

\* The lines read end where the file ends.
LEMMA SameInterval ==
    ASSUME NEW a \in Nat, NEW b \in Nat, a <= b, 1..a = 1..b
    PROVE  a = b
<1> SUFFICES ASSUME a < b PROVE FALSE
  OBVIOUS
<1>1. b \in 1..b /\ b \notin 1..a
  OBVIOUS
<1> QED
  BY <1>1

\* Every line behind the m-th is in the stretch that starts there.
LEMMA SubSeqReaches ==
    ASSUME NEW f \in Seq(Line), NEW m \in 0..Len(f), NEW j \in m + 1..Len(f)
    PROVE  \E i \in DOMAIN SubSeq(f, m + 1, Len(f)) : SubSeq(f, m + 1, Len(f))[i] = f[j]
<1> DEFINE g == SubSeq(f, m + 1, Len(f))
<1>1. g = [i \in 1..(Len(f) - m) |-> f[m + i]]
  BY SMT
<1>2. j - m \in 1..(Len(f) - m) /\ m + (j - m) = j
  BY SMT
<1> HIDE DEF g
<1>3. j - m \in DOMAIN g /\ g[j - m] = f[j]
  BY <1>1, <1>2
<1> QED
  BY <1>3 DEF g

\* Nothing that the safety of the replay source reads has changed, and the
\* rewrite has not come into a stage that asks for more.
LEMMA SafeFrame ==
    ASSUME Safe, UNCHANGED <<up, disk, seq, queue, view, cut, keep, published, history>>,
           Planned' => Planned, Announced' => Announced, Retained' => Retained
    PROVE  Safe'
<1>1. UNCHANGED <<up, file, torn, ckpt, seq, queue, view, cut, keep, published, written, exposed>>
  BY DEF disk, history
<1>2. Clean' /\ Seen'
  BY <1>1 DEF Safe, Clean, Whole, Seen
<1>3. /\ \A v, s, f : Covers(v, s, f)' <=> Covers(v, s, f)
      /\ \A v, s : QueuedAbove(v, s)' <=> QueuedAbove(v, s)
  BY <1>1 DEF Covers, QueuedAbove
<1> QED
  BY <1>1, <1>2, <1>3 DEF Safe, CkptCovers, CutCovers, KeepCovers
-----------------------------------------------------------------------------
(* The handle.                                                             *)

LEMMA HandedNext == IInv /\ Handed /\ [Next]_vars => Handed'
<1> SUFFICES ASSUME IInv, Handed, [Next]_vars PROVE Handed'
  OBVIOUS
<1>1. CASE Open
  BY <1>1 DEF Open, Handed, IInv, TypeOK, ChainTyped, Numbered, DeadIsEmpty, chain, rewrite
<1>2. CASE PublishOnly \/ PublishAndCompact
  BY <1>2 DEF PublishOnly, PublishAndCompact, Publish, Handed, handle, rewrite
<1>3. CASE LinkStart
  BY <1>3 DEF LinkStart, LinkWrites, LinkDrops, LinkHangs, Settle, Handed, handle, rewrite
<1>4. CASE LinkDone
  BY <1>4 DEF LinkDone, Settle, Handed, handle, rewrite
<1>5. CASE Compaction
  <2>1. CASE FlushBefore \/ WriteCheckpoint \/ ReadKeep \/ WriteTmp \/ RewriteFails
    BY <2>1 DEF FlushBefore, WriteCheckpoint, ReadKeep, WriteTmp, RewriteFails, Handed, chain, handle
  <2>2. CASE DrainForRelease \/ ReleaseFd \/ FdClosed
    BY <2>2 DEF DrainForRelease, ReleaseFd, FdClosed, Handed, chain
  <2>3. CASE Rename
    BY <2>3 DEF Rename, Handed, chain, handle
  <2>4. CASE ReopenFd
    BY <2>4 DEF ReopenFd, Handed, chain
  <2> QED
    BY <1>5, <2>1, <2>2, <2>3, <2>4 DEF Compaction
<1>6. CASE Crash \/ CrashTorn
  BY <1>6 DEF Crash, CrashTorn, Die, Handed
<1>7. CASE UNCHANGED vars
  BY <1>7 DEF vars, Handed, chain, handle, rewrite
<1> QED
  BY <1>1, <1>2, <1>3, <1>4, <1>5, <1>6, <1>7 DEF Next

-----------------------------------------------------------------------------
(* What each operation does to the replay source.                          *)

\* The checkpoint and the lines above it that parse are the replay source.
LEMMA SafeHeld ==
    ASSUME TypeOK, Clean, CkptCovers
    PROVE  written \ exposed \subseteq Replayable
<1> SUFFICES ASSUME NEW e \in written \ exposed PROVE e \in Replayable
  OBVIOUS
<1>1. Whole(file) /\ (e \in ckpt.view \/ \E i \in DOMAIN file : file[i].ev = e /\ file[i].seq > ckpt.seq)
  BY DEF Clean, CkptCovers, Covers
<1>2. file \in Seq(Line) /\ DOMAIN file = 1..Len(file) /\ Len(file) \in Nat
  BY LenProperties DEF TypeOK, FilesTyped
<1>3. ReadableIdx(file) = DOMAIN file
  BY <1>1, <1>2 DEF Whole, ReadableIdx
<1> QED
  BY <1>1, <1>3 DEF Replayable, Increments

\* What the seed of the view lacks is exposed from here on; nothing is queued.
LEMMA SafeOpen ==
    ASSUME IInv, Safe, Open
    PROVE  Safe'
<1>1. /\ UNCHANGED <<file, torn, ckpt, queue, cut, keep, published, written, pc>>
      /\ exposed' = exposed \cup (Replayable \ view')
  BY DEF Open, disk, chain, rewrite
<1>2. pc = "idle" /\ queue = <<>>
  BY DEF Open, IInv, Numbered, DeadIsEmpty
<1>3. written \ exposed \subseteq Replayable
  BY SafeHeld DEF IInv, Safe
<1>4. Clean'
  BY <1>1 DEF Safe, Clean, Whole
<1>5. Seen'
  <2>1. DOMAIN queue' = {}
    BY <1>1, <1>2
  <2> QED
    BY <1>1, <1>3, <2>1 DEF Seen
<1>6. CkptCovers'
  BY <1>1 DEF Safe, CkptCovers, Covers, QueuedAbove
<1>7. CutCovers' /\ KeepCovers'
  BY <1>1, <1>2 DEF CutCovers, KeepCovers, Planned, Announced, Retained
<1> QED
  BY <1>4, <1>5, <1>6, <1>7 DEF Safe

\* An event numbered above the checkpoint will be an increment; one numbered
\* below it is exposed.
LEMMA SafePublish ==
    ASSUME IInv, Safe, Publish, keep' = keep,
           \/ UNCHANGED <<pc, cut>>
           \/ pc' = "flush" /\ cut' = [seq |-> seq', view |-> view']
    PROVE  Safe'
<1> DEFINE new == [seq |-> seq', ev |-> published']
<1>1. /\ up /\ UNCHANGED <<up, file, torn, ckpt, keep, written>>
      /\ published' = published + 1 /\ seq' = seq + 1 /\ view' = view \cup {published'}
      /\ queue' = Append(queue, new)
      /\ exposed \subseteq exposed'
      /\ ckpt.seq > seq => published' \in exposed'
  BY DEF Publish, disk
<1>2. /\ seq \in Nat /\ published \in Nat /\ ckpt.seq \in Nat /\ cut.seq \in Nat
      /\ queue \in Seq([seq : Nat, ev : Event])
      /\ \A i \in DOMAIN queue : queue[i].seq \in Nat
  <2>1. queue \in Seq([seq : Nat, ev : Event])
    BY DEF IInv, TypeOK, ChainTyped
  <2>2. \A i \in DOMAIN queue : queue[i].seq \in Nat
    <3>1. \A i \in DOMAIN queue : queue[i] \in [seq : Nat, ev : Event]
      BY <2>1, ElementOfSeq, LenProperties
    <3> QED
      BY <3>1
  <2> QED
    BY <2>1, <2>2, BoundsAssumption
       DEF IInv, TypeOK, ChainTyped, CountsTyped, FilesTyped, BoundsAssumption
<1>3. \A i \in DOMAIN queue' : \/ i \in DOMAIN queue /\ queue'[i] = queue[i]
                               \/ queue'[i] = new
  <2>1. /\ Len(queue) \in Nat /\ DOMAIN queue = 1..Len(queue)
        /\ DOMAIN queue' = 1..Len(queue) + 1
        /\ \A i \in 1..Len(queue) : queue'[i] = queue[i]
        /\ queue'[Len(queue) + 1] = new
    BY <1>1, <1>2
  <2> QED
    BY <2>1
<1>4. Clean'
  BY <1>1 DEF Safe, Clean, Whole
<1>5. Seen'
  <2>1. written' \ exposed' \subseteq view'
    BY <1>1 DEF Safe, Seen
  <2>2. \A i \in DOMAIN queue' : queue'[i].ev \in view'
    BY <1>1, <1>3 DEF Safe, Seen
  <2> QED
    BY <2>1, <2>2 DEF Seen
<1>6. ASSUME NEW v, NEW s, NEW f, Covers(v, s, f)
      PROVE  \A e \in written' \ exposed' :
                e \in v \/ \E i \in DOMAIN f : f[i].ev = e /\ f[i].seq > s
  BY <1>1, <1>6 DEF Covers
<1>7. ASSUME NEW v, NEW s, QueuedAbove(v, s), s < seq' \/ published' \in exposed'
      PROVE  \A i \in DOMAIN queue' : queue'[i].ev \in v \cup exposed' \/ queue'[i].seq > s
  <2> SUFFICES ASSUME NEW i \in DOMAIN queue'
               PROVE  queue'[i].ev \in v \cup exposed' \/ queue'[i].seq > s
    OBVIOUS
  <2>1. CASE i \in DOMAIN queue /\ queue'[i] = queue[i]
    BY <1>1, <1>7, <2>1 DEF QueuedAbove
  <2>2. CASE queue'[i] = new
    <3>1. queue'[i].ev = published' /\ queue'[i].seq = seq'
      BY <2>2
    <3>2. CASE published' \in exposed'
      BY <3>1, <3>2
    <3>3. CASE s < seq'
      BY <3>1, <3>3
    <3> QED
      BY <1>7, <3>2, <3>3
  <2> QED
    BY <1>3, <2>1, <2>2
<1>8. CkptCovers'
  <2>1. ckpt.seq < seq' \/ published' \in exposed'
    BY <1>1, <1>2
  <2> QED
    BY <1>1, <1>6, <1>7, <2>1 DEF Safe, CkptCovers, Covers, QueuedAbove
<1>9. CutCovers' /\ KeepCovers'
  <2>1. CASE UNCHANGED <<pc, cut>>
    <3>1. Planned => cut.seq < seq' /\ cut.seq <= seq'
      BY <1>1, <1>2 DEF Safe, CutCovers
    <3>2. CutCovers'
      BY <1>1, <1>6, <1>7, <2>1, <3>1 DEF Safe, CutCovers, Planned, Covers, QueuedAbove
    <3>3. KeepCovers'
      BY <1>1, <1>6, <2>1 DEF Safe, KeepCovers, Announced, Retained, Covers
    <3> QED
      BY <3>2, <3>3
  <2>2. CASE pc' = "flush" /\ cut' = [seq |-> seq', view |-> view']
    <3>1. cut'.view = view' /\ cut'.seq = seq'
      BY <2>2
    <3>2. written' \ exposed' \subseteq view' /\ \A i \in DOMAIN queue' : queue'[i].ev \in view'
      BY <1>1, <1>5 DEF Seen
    <3>3. seq' <= seq'
      BY <1>1, <1>2
    <3> QED
      BY <2>2, <3>1, <3>2, <3>3
         DEF CutCovers, KeepCovers, Planned, Announced, Retained, Covers, QueuedAbove
  <2> QED
    BY <2>1, <2>2
<1> QED
  BY <1>4, <1>5, <1>8, <1>9 DEF Safe

\* A dropped record was never written, and leaves the queue.
LEMMA SafeDrop ==
    ASSUME IInv, Safe, LinkStart, LinkDrops
    PROVE  Safe'
<1>1. /\ UNCHANGED <<up, file, torn, ckpt, seq, view, pc, cut, keep, published, written, exposed>>
      /\ queue # <<>> /\ Settle
  BY DEF LinkStart, LinkDrops, disk, rewrite, history
<1>2. \A i \in DOMAIN queue' : i + 1 \in DOMAIN queue /\ queue'[i] = queue[i + 1]
  BY <1>1, SettleTyped DEF IInv, TypeOK
<1>3. Clean' /\ Seen'
  BY <1>1, <1>2 DEF Safe, Clean, Whole, Seen
<1>4. \A v, s : QueuedAbove(v, s) =>
          \A i \in DOMAIN queue' : queue'[i].ev \in v \cup exposed' \/ queue'[i].seq > s
  BY <1>1, <1>2 DEF QueuedAbove
<1>5. CkptCovers'
  BY <1>1, <1>4 DEF Safe, CkptCovers, Covers, QueuedAbove
<1>6. CutCovers' /\ KeepCovers'
  BY <1>1, <1>4 DEF Safe, CutCovers, KeepCovers, Planned, Announced, Retained, Covers, QueuedAbove
<1> QED
  BY <1>3, <1>5, <1>6 DEF Safe

\* A written line is above the checkpoint and above the one a rewrite is about
\* to publish; while the rewrite holds its records, the line is exposed.
LEMMA SafeWrite ==
    ASSUME IInv, Handed, Safe, LinkDone
    PROVE  Safe'
<1> DEFINE e0 == Head(queue).ev
           l  == [seq |-> Head(queue).seq, ev |-> e0, ok |-> TRUE]
<1>1. /\ up /\ queue # <<>> /\ Settle /\ link = "writing" /\ torn' = FALSE
      /\ file' = Append(file, l) /\ written' = written \cup {e0}
      /\ exposed' = IF InWindow THEN exposed \cup {e0} ELSE exposed
      /\ UNCHANGED <<up, ckpt, seq, view, pc, cut, keep, published>>
  BY DEF IInv, TypeOK, ChainTyped, LinkDone, Safe, Clean, rewrite
<1>2. /\ \A i \in DOMAIN queue' : i + 1 \in DOMAIN queue /\ queue'[i] = queue[i + 1]
      /\ 1 \in DOMAIN queue /\ queue[1] = Head(queue)
      /\ Head(queue) \in [seq : Nat, ev : Event]
  BY <1>1, SettleTyped DEF IInv, TypeOK
<1>3. l \in Line /\ l.ev = e0 /\ l.ok /\ l.seq = Head(queue).seq
  BY <1>2 DEF Line
<1>4. /\ \A i \in DOMAIN file : i \in DOMAIN file' /\ file'[i] = file[i]
      /\ \E j \in DOMAIN file' : file'[j] = l
      /\ \A i \in DOMAIN file' : i \in DOMAIN file \/ file'[i] = l
  <2>1. file \in Seq(Line) /\ l \in Line /\ file' = Append(file, l)
    BY <1>1, <1>3 DEF IInv, TypeOK, FilesTyped
  <2> HIDE DEF l
  <2> QED
    BY <2>1, AppendLine
<1> HIDE DEF l
<1>5. Clean'
  BY <1>1, <1>3, <1>4 DEF Safe, Clean, Whole
<1>6. Seen'
  BY <1>1, <1>2 DEF Safe, Seen
<1>7. ASSUME NEW v, NEW s, Covers(v, s, file), QueuedAbove(v, s)
      PROVE  /\ \A e \in written' \ exposed' :
                   e \in v \/ \E i \in DOMAIN file' : file'[i].ev = e /\ file'[i].seq > s
             /\ \A i \in DOMAIN queue' : queue'[i].ev \in v \cup exposed' \/ queue'[i].seq > s
  <2>1. exposed \subseteq exposed'
    BY <1>1
  <2>2. \A i \in DOMAIN queue' : queue'[i].ev \in v \cup exposed' \/ queue'[i].seq > s
    BY <1>2, <1>7, <2>1 DEF QueuedAbove
  <2>3. ASSUME NEW e \in written' \ exposed'
        PROVE  e \in v \/ \E i \in DOMAIN file' : file'[i].ev = e /\ file'[i].seq > s
    <3>1. CASE e \in written
      <4>1. e \in v \/ \E i \in DOMAIN file : file[i].ev = e /\ file[i].seq > s
        BY <1>7, <2>1, <2>3, <3>1 DEF Covers
      <4> QED
        BY <1>4, <4>1
    <3>2. CASE e = e0
      <4>1. e0 \in v \/ Head(queue).seq > s
        BY <1>2, <1>7, <2>1, <2>3, <3>2 DEF QueuedAbove
      <4> QED
        BY <1>3, <1>4, <3>2, <4>1
    <3> QED
      BY <1>1, <2>3, <3>1, <3>2
  <2> QED
    BY <2>2, <2>3
<1>8. CkptCovers'
  <2> DEFINE v == ckpt.view
             s == ckpt.seq
  <2>1. Covers(v, s, file) /\ QueuedAbove(v, s) /\ v' = v /\ s' = s
    BY <1>1 DEF Safe, CkptCovers
  <2> HIDE DEF v, s
  <2>2. /\ \A e \in written' \ exposed' :
              e \in v \/ \E i \in DOMAIN file' : file'[i].ev = e /\ file'[i].seq > s
        /\ \A i \in DOMAIN queue' : queue'[i].ev \in v \cup exposed' \/ queue'[i].seq > s
    BY <1>7, <2>1
  <2>3. Covers(v, s, file)' /\ QueuedAbove(v, s)'
    BY <2>1, <2>2 DEF Covers, QueuedAbove
  <2> QED
    BY <2>3 DEF CkptCovers, v, s
<1>9. CutCovers'
  <2> SUFFICES ASSUME Planned
               PROVE  Covers(cut.view, cut.seq, file)' /\ QueuedAbove(cut.view, cut.seq)'
    BY <1>1 DEF Safe, CutCovers, Planned
  <2> DEFINE v == cut.view
             s == cut.seq
  <2>1. Covers(v, s, file) /\ QueuedAbove(v, s) /\ v' = v /\ s' = s
    BY <1>1 DEF Safe, CutCovers
  <2> HIDE DEF v, s
  <2>2. /\ \A e \in written' \ exposed' :
              e \in v \/ \E i \in DOMAIN file' : file'[i].ev = e /\ file'[i].seq > s
        /\ \A i \in DOMAIN queue' : queue'[i].ev \in v \cup exposed' \/ queue'[i].seq > s
    BY <1>7, <2>1
  <2>3. Covers(v, s, file)' /\ QueuedAbove(v, s)'
    BY <2>1, <2>2 DEF Covers, QueuedAbove
  <2> QED
    BY <2>3 DEF v, s
<1>10. KeepCovers'
  <2>1. Retained => InWindow
    BY <1>1 DEF Handed, Retained, InWindow
  <2>2. Retained => written' \ exposed' \subseteq written \ exposed
    BY <1>1, <2>1
  <2> QED
    BY <1>1, <2>2 DEF Safe, KeepCovers, Announced, Retained, Covers
<1> QED
  BY <1>5, <1>6, <1>8, <1>9, <1>10 DEF Safe

\* The checkpoint is published: it covers what the file holds without it.
LEMMA SafeCheckpoint ==
    ASSUME Safe, WriteCheckpoint
    PROVE  Safe'
<1>1. /\ UNCHANGED <<up, file, torn, seq, queue, view, cut, keep, published, written, exposed>>
      /\ ckpt' = cut /\ Planned /\ pc' = "read"
  BY DEF WriteCheckpoint, chain, history, Planned
<1>2. Clean' /\ Seen'
  BY <1>1 DEF Safe, Clean, Whole, Seen
<1>3. CkptCovers'
  BY <1>1 DEF Safe, CutCovers, CkptCovers, Covers, QueuedAbove
<1>4. CutCovers' /\ KeepCovers'
  BY <1>1 DEF CutCovers, KeepCovers, Planned, Announced, Retained
<1> QED
  BY <1>2, <1>3, <1>4 DEF Safe

\* Every line parses, so readAll reads them all, and the filter keeps whatever
\* is above the checkpoint.
LEMMA SafeReadKeep ==
    ASSUME IInv, Safe, ReadKeep
    PROVE  Safe'
<1>1. /\ UNCHANGED <<up, file, torn, ckpt, seq, queue, view, cut, published, written, exposed>>
      /\ pc = "read" /\ pc' = "tmp"
  BY DEF ReadKeep, disk, chain, history
<1>2. /\ file \in Seq(Line) /\ cut.seq \in Nat /\ Len(file) \in Nat
      /\ DOMAIN file = 1..Len(file)
      /\ \A i \in DOMAIN file : file[i].ok /\ file[i].seq \in Nat
  <2>1. file \in Seq(Line) /\ cut.seq \in Nat
    BY DEF IInv, TypeOK, FilesTyped
  <2>2. \A i \in DOMAIN file : file[i].ok /\ file[i].seq \in Nat
    BY <2>1, LineFields DEF Safe, Clean, Whole
  <2> QED
    BY <2>1, <2>2, LenProperties
<1>3. PICK m \in 0..Len(file), n \in 0..Len(file) :
         /\ ReadableIdx(file) = 1..n
         /\ m <= n
         /\ \A i \in 1..m : file[i].seq <= cut.seq
         /\ keep' = SubSeq(file, m + 1, n)
  BY DEF ReadKeep
<1>4. n = Len(file)
  <2>1. ReadableIdx(file) = 1..Len(file)
    BY <1>2 DEF ReadableIdx
  <2>2. n \in Nat /\ n <= Len(file)
    BY <1>2, <1>3
  <2>3. 1..n = 1..Len(file)
    BY <1>3, <2>1
  <2> QED
    BY <1>2, <2>2, <2>3, SameInterval
<1>5. keep' = SubSeq(file, m + 1, Len(file))
  BY <1>3, <1>4
<1>6. Whole(keep')
  <2>1. Ordered(file) /\ m <= Len(file) /\ Len(file) \in 0..Len(file)
    BY <1>2, <1>3 DEF IInv, Numbered, SingleNumbering
  <2>2. \A i \in DOMAIN keep' : \E j \in DOMAIN file : keep'[i] = file[j]
    BY <1>2, <1>5, <2>1, SubSeqOrdered
  <2> QED
    BY <1>2, <2>2 DEF Whole
<1>7. \A e \in written' \ exposed' :
          e \in cut.view \/ \E i \in DOMAIN keep' : keep'[i].ev = e /\ keep'[i].seq > cut.seq
  <2> SUFFICES ASSUME NEW e \in written \ exposed, e \notin cut.view
               PROVE  \E i \in DOMAIN keep' : keep'[i].ev = e /\ keep'[i].seq > cut.seq
    BY <1>1
  <2>1. PICK j \in DOMAIN file : file[j].ev = e /\ file[j].seq > cut.seq
    BY <1>1 DEF Safe, CkptCovers, KeepCovers, Announced, Covers
  <2>2. j \in m + 1..Len(file)
    BY <1>2, <1>3, <2>1
  <2>3. PICK i \in DOMAIN keep' : keep'[i] = file[j]
    BY <1>2, <1>5, <2>2, SubSeqReaches
  <2> QED
    BY <2>1, <2>3
<1>8. Clean' /\ Seen'
  BY <1>1, <1>6 DEF Safe, Clean, Whole, Seen
<1>9. CkptCovers'
  BY <1>1 DEF Safe, CkptCovers, Covers, QueuedAbove
<1>10. CutCovers' /\ KeepCovers'
  BY <1>1, <1>7 DEF Safe, CutCovers, KeepCovers, Planned, Announced, Retained, Covers
<1> QED
  BY <1>8, <1>9, <1>10 DEF Safe

\* The retained records take the place of the file, or the file stays.
LEMMA SafeRename ==
    ASSUME Safe, Rename
    PROVE  Safe'
<1>1. /\ UNCHANGED <<up, ckpt, seq, queue, view, cut, keep, published, written, exposed>>
      /\ pc = "rename" /\ pc' = "reopen"
      /\ \/ file' = keep /\ torn' = FALSE
         \/ UNCHANGED <<file, torn>>
  BY DEF Rename, chain, history
<1>2. ckpt = cut /\ Covers(cut.view, cut.seq, keep)
  BY <1>1 DEF Safe, KeepCovers, Announced, Retained
<1>3. Clean' /\ Seen'
  BY <1>1 DEF Safe, Clean, Whole, Seen
<1>4. CkptCovers'
  BY <1>1, <1>2 DEF Safe, CkptCovers, Covers, QueuedAbove
<1>5. CutCovers' /\ KeepCovers'
  BY <1>1 DEF CutCovers, KeepCovers, Planned, Announced, Retained
<1> QED
  BY <1>3, <1>4, <1>5 DEF Safe

\* The process dies without tearing a line: the files are as they were.
LEMMA SafeCrash ==
    ASSUME Safe, Crash
    PROVE  Safe'
<1>1. /\ UNCHANGED <<file, torn, ckpt, published, written, exposed>>
      /\ up' = FALSE /\ queue' = <<>> /\ keep' = <<>> /\ pc' = "idle"
  BY DEF Crash, Die, history
<1>2. DOMAIN queue' = {} /\ DOMAIN keep' = {}
  BY <1>1
<1>3. Clean' /\ Seen'
  BY <1>1, <1>2 DEF Safe, Clean, Whole, Seen
<1>4. CkptCovers'
  BY <1>1, <1>2 DEF Safe, CkptCovers, Covers, QueuedAbove
<1>5. CutCovers' /\ KeepCovers'
  BY <1>1 DEF CutCovers, KeepCovers, Planned, Announced, Retained
<1> QED
  BY <1>3, <1>4, <1>5 DEF Safe

-----------------------------------------------------------------------------
(* The step, and the theorem.                                              *)

LEMMA ReplayInit == Init => Handed /\ (torns = 0 => Safe)
<1> SUFFICES ASSUME Init PROVE Handed /\ Safe
  OBVIOUS
<1>1. Handed
  BY DEF Init, Handed
<1>2. Clean /\ Seen
  BY DEF Init, Clean, Whole, Seen
<1>3. CkptCovers /\ CutCovers /\ KeepCovers
  BY DEF Init, CkptCovers, CutCovers, KeepCovers, Covers, QueuedAbove, Planned, Announced, Retained
<1> QED
  BY <1>1, <1>2, <1>3 DEF Safe

LEMMA SafeNext ==
    ASSUME RInv, [Next]_vars, torns' = 0
    PROVE  Safe'
<1>1. IInv /\ Handed
  BY DEF RInv
<1>2. CASE CrashTorn
  <2>1. torns \in Nat
    BY BoundsAssumption DEF RInv, IInv, TypeOK, CountsTyped, BoundsAssumption
  <2> QED
    BY <1>2, <2>1 DEF CrashTorn
<1>3. CASE [Next]_vars /\ ~CrashTorn
  <2>1. torns' = torns
    BY <1>3 DEF Next, vars, counts, Open, PublishOnly, PublishAndCompact, Publish, LinkStart,
                LinkDone, Compaction, FlushBefore, WriteCheckpoint, ReadKeep, WriteTmp,
                RewriteFails, DrainForRelease, ReleaseFd, FdClosed, Rename, ReopenFd, Crash
  <2>2. Safe
    BY <2>1 DEF RInv
  <2>3. CASE Open
    BY <1>1, <2>2, <2>3, SafeOpen
  <2>4. CASE PublishOnly \/ PublishAndCompact
    BY <1>1, <2>2, <2>4, SafePublish DEF PublishOnly, PublishAndCompact, rewrite
  <2>5. CASE LinkStart
    <3>1. CASE LinkDrops
      BY <1>1, <2>2, <2>5, <3>1, SafeDrop
    <3>2. CASE LinkWrites \/ LinkHangs
      <4>1. /\ UNCHANGED <<up, disk, seq, queue, view, cut, keep, published, history>>
            /\ pc' = pc
        BY <2>5, <3>2 DEF LinkStart, LinkWrites, LinkHangs, rewrite
      <4> QED
        BY <2>2, <4>1, SafeFrame DEF Planned, Announced, Retained
    <3> QED
      BY <2>5, <3>1, <3>2 DEF LinkStart
  <2>6. CASE LinkDone
    BY <1>1, <2>2, <2>6, SafeWrite
  <2>7. CASE Compaction
    <3>1. CASE WriteCheckpoint
      BY <2>2, <3>1, SafeCheckpoint
    <3>2. CASE ReadKeep
      BY <1>1, <2>2, <3>2, SafeReadKeep
    <3>3. CASE Rename
      BY <2>2, <3>3, SafeRename
    <3>4. CASE \/ FlushBefore \/ WriteTmp \/ RewriteFails \/ DrainForRelease
               \/ ReleaseFd \/ FdClosed \/ ReopenFd
      <4>1. UNCHANGED <<up, disk, seq, queue, view, cut, keep, published, history>>
        BY <3>4 DEF FlushBefore, WriteTmp, RewriteFails, DrainForRelease, ReleaseFd,
                    FdClosed, ReopenFd, chain
      <4>2. (Planned' => Planned) /\ (Announced' => Announced) /\ (Retained' => Retained)
        BY <3>4 DEF FlushBefore, WriteTmp, RewriteFails, DrainForRelease, ReleaseFd,
                    FdClosed, ReopenFd, Planned, Announced, Retained
      <4> QED
        BY <2>2, <4>1, <4>2, SafeFrame
    <3> QED
      BY <2>7, <3>1, <3>2, <3>3, <3>4 DEF Compaction
  <2>8. CASE Crash
    BY <2>2, <2>8, SafeCrash
  <2>9. CASE UNCHANGED vars
    <3>1. UNCHANGED <<up, disk, seq, queue, view, cut, keep, published, history>> /\ pc' = pc
      BY <2>9 DEF vars, chain, rewrite
    <3> QED
      BY <2>2, <3>1, SafeFrame DEF Planned, Announced, Retained
  <2> QED
    BY <1>3, <2>3, <2>4, <2>5, <2>6, <2>7, <2>8, <2>9 DEF Next
<1> QED
  BY <1>2, <1>3

LEMMA SafeReplays == RInv => WrittenIsReplayable
  BY SafeHeld DEF RInv, IInv, Safe, WrittenIsReplayable

\* While no death has torn a line, an event whose line reached the journal
\* whole stays in the replay source through every rewrite, failed rename, death
\* and restart, unless it was appended where the code can lose it, or an adopt
\* seeded the view without it: the next checkpoint publishes that view.
THEOREM WrittenIsReplayableHolds == Spec => []WrittenIsReplayable
<1>1. Init => RInv
  BY TypeInit, NumberedInit, ReplayInit DEF RInv, IInv
<1>2. RInv /\ [Next]_vars => RInv'
  <2> SUFFICES ASSUME RInv, [Next]_vars PROVE RInv'
    OBVIOUS
  <2>1. IInv'
    BY TypeNext, NumberedNext DEF RInv, IInv
  <2>2. Handed'
    BY HandedNext DEF RInv
  <2> QED
    BY <2>1, <2>2, SafeNext DEF RInv
<1>3. RInv => WrittenIsReplayable
  BY SafeReplays
<1> QED
  BY <1>1, <1>2, <1>3, PTL DEF Spec
=============================================================================
