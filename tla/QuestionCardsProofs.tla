------------------------ MODULE QuestionCardsProofs -------------------------
(***************************************************************************)
(* Proofs about QuestionCards: what a client shows at rest is what waits.  *)
(* The invariant says of everything under way to a client what it stands   *)
(* for, and what comes behind it: the end of a question behind whatever    *)
(* shows it, or the replay of the open that will bring that end.           *)
(***************************************************************************)
EXTENDS QuestionCards, SelectionProofs

\* What the client will read: the responses sent meanwhile go ahead of the batch.
Pipe(c) == wire[c] \o batcher[c].queue

IsSnapshot(f) == f.kind = "snapshot"

OneSnapshot(s) ==
    \A i, j \in DOMAIN s : IsSnapshot(s[i]) /\ IsSnapshot(s[j]) => i = j

Closed(q) == verdict[q] \in Verdicts
Fin(q)    == End(q, verdict[q])

BridgeInv ==
    /\ \A q \in Questions : verdict[q] \in {"new", "open"} => told[q] = "waits"
    /\ \A q \in Questions : told[q] \in {"waits", verdict[q]}
    /\ \A q \in Range(recent) : Closed(q)
    /\ \A x \in calls : x[1] \in up

\* What a frame under way says of the question, of the client and of its open.
Truthful(c, f) ==
    /\ f.kind = "request" => verdict[f.q] # "new" /\ c \in attached
    /\ f.kind = "end" => f = Fin(f.q) /\ f.q \in Range(recent)
    /\ f.kind = "done" => Closed(f.q)
    /\ IsSnapshot(f) => /\ \A q \in Range(f.pending) : verdict[q] # "new"
                        /\ opening[c] = "replied" \/ (opening[c] = "no" /\ c \in attached)
                        /\ c \in wanted \/ c \notin shown

Alone(c) ==
    /\ OneSnapshot(Pipe(c))
    /\ \A f \in Range(batcher[c].queue) : f.kind \in {"request", "end"}

Linked(c) ==
    /\ c \notin up => Pipe(c) = <<>> /\ opening[c] = "no"
    /\ opening[c] # "captured" => snap[c] = <<>>
    /\ opening[c] \in {"asked", "captured"} => c \in wanted \/ c \notin shown
    /\ c \in wanted => opening[c] \in {"asked", "captured"} \/ \E f \in Range(Pipe(c)) : IsSnapshot(f)
    /\ c \in up /\ opening[c] = "no" /\ c \in shown \cup wanted => c \in attached

\* Nothing is shown before it is raised, or dropped before it is settled.
Raised(c) ==
    /\ \A q \in cards[c] \cup Range(snap[c]) : verdict[q] # "new"
    /\ slot[c] # None => verdict[slot[c]] # "new"
    /\ \A q \in later[c] : Closed(q)

\* The end of q comes by the replay of the open.
Replayed(c, q) == opening[c] # "no" /\ q \in Range(recent)

\* The settlement of q comes after whatever shows q.
Ending(c, q) ==
    /\ Follows(Pipe(c), Request(q), Fin(q))
    /\ \A f \in Range(Pipe(c)) :
          IsSnapshot(f) /\ q \in Range(f.pending) => Follows(Pipe(c), f, Fin(q)) \/ Replayed(c, q)
    /\ q \in Range(snap[c]) => q \in Range(recent)
    /\ c \in up /\ q \in cards[c] => c \in wanted \/ Fin(q) \in Range(Pipe(c)) \/ Replayed(c, q)
    /\ q = slot[c] => \/ q \in missed[c] \/ Fin(q) \in Range(Pipe(c)) \/ Replayed(c, q)
                      \/ c \notin attached /\ q \in Range(recent)

\* An approval that waits is shown, or will be.
Showing(c, q) ==
    c \in up /\ opening[c] = "no" =>
        /\ c \in wanted => \E f \in Range(Pipe(c)) :
              IsSnapshot(f) /\ (q \in Range(f.pending) \/ Follows(Pipe(c), f, Request(q)))
        /\ c \in shown \ wanted => q \in cards[c] \/ Request(q) \in Range(Pipe(c))

ClientInv(c) ==
    /\ \A f \in Range(Pipe(c)) : Truthful(c, f)
    /\ Alone(c) /\ Linked(c) /\ Raised(c)
    /\ \A q \in Questions : Closed(q) => Ending(c, q)
    /\ \A q \in InTable \cap Approvals : Showing(c, q)

IInv == TypeOK /\ BatchesLeave /\ BridgeInv /\ \A c \in Clients : ClientInv(c)
-----------------------------------------------------------------------------
(* Frames.                                                                 *)

LEMMA FrameKinds ==
    /\ \A q \in Questions : /\ Request(q) \in Frames /\ Request(q).kind = "request" /\ Request(q).q = q
                            /\ Done(q) \in Frames /\ Done(q).kind = "done" /\ Done(q).q = q
    /\ \A q \in Questions : \A v \in Verdicts :
          /\ End(q, v) \in Frames /\ End(q, v).kind = "end"
          /\ End(q, v).q = q /\ End(q, v).verdict = v
    /\ \A s \in Seq(Questions) :
          /\ Snapshot(s) \in Frames /\ Snapshot(s).kind = "snapshot" /\ Snapshot(s).pending = s
    /\ \A f \in Frames :
          /\ f.kind \in {"request", "done", "end", "snapshot"}
          /\ f.kind = "request" => f.q \in Questions /\ f = Request(f.q)
          /\ f.kind = "done" => f.q \in Questions
          /\ f.kind = "end" => f.q \in Questions /\ f.verdict \in Verdicts /\ f = End(f.q, f.verdict)
          /\ f.kind = "snapshot" => f.pending \in Seq(Questions)
  BY DEF Frames, Request, Done, End, Snapshot

LEMMA RequestsEnds ==
    ASSUME NEW s \in Seq(Questions)
    PROVE  /\ Requests(s) \in Seq(Frames) /\ Range(Requests(s)) = {Request(q) : q \in Range(s)}
           /\ (\A q \in Range(s) : Closed(q)) =>
                 Ends(s) \in Seq(Frames) /\ Range(Ends(s)) = {Fin(q) : q \in Range(s)}
<1>1. Len(s) \in Nat /\ DOMAIN s = 1..Len(s) /\ \A k \in 1..Len(s) : s[k] \in Questions
  BY LenProperties, ElementOfSeq
<1>2. Requests(s) \in Seq(Frames)
  <2>1. Requests(s) = [k \in 1..Len(s) |-> Request(s[k])]
    BY <1>1 DEF Requests
  <2>2. \A k \in 1..Len(s) : Request(s[k]) \in Frames
    BY <1>1, FrameKinds
  <2>3. Requests(s) \in [1..Len(s) -> Frames]
    BY <2>1, <2>2
  <2> QED
    BY <1>1, <2>3
<1>3. Range(Requests(s)) = {Request(q) : q \in Range(s)}
  BY DEF Requests, Range
<1>4. ASSUME \A q \in Range(s) : Closed(q)
      PROVE  Ends(s) \in Seq(Frames) /\ Range(Ends(s)) = {Fin(q) : q \in Range(s)}
  <2>1. Ends(s) = [k \in 1..Len(s) |-> Fin(s[k])]
    BY <1>1 DEF Ends, Fin
  <2>2. \A k \in 1..Len(s) : Fin(s[k]) \in Frames
    BY <1>1, <1>4, FrameKinds DEF Closed, Fin, Range
  <2>3. Ends(s) \in [1..Len(s) -> Frames]
    BY <2>1, <2>2
  <2>4. Range(Ends(s)) = {Fin(q) : q \in Range(s)}
    BY DEF Ends, Fin, Range
  <2> QED
    BY <1>1, <2>3, <2>4
<1> QED
  BY <1>2, <1>3, <1>4

LEMMA OneSnapshotFacts ==
    ASSUME NEW s \in Seq(Frames), NEW t \in Seq(Frames), \A f \in Range(t) : ~IsSnapshot(f)
    PROVE  /\ OneSnapshot(s) => OneSnapshot(Cat(s, t))
           /\ s # <<>> /\ OneSnapshot(s) => /\ OneSnapshot(Tail(s))
                                            /\ IsSnapshot(Head(s)) => \A f \in Range(Tail(s)) : ~IsSnapshot(f)
<1>1. ASSUME OneSnapshot(s) PROVE OneSnapshot(Cat(s, t))
  <2> DEFINE u == Cat(s, t)
  <2>0. Joined(s, t, u)
    BY CatFacts
  <2>1. /\ DOMAIN s = 1..Len(s) /\ DOMAIN t = 1..Len(t) /\ DOMAIN u = 1..Len(s) + Len(t)
        /\ Len(s) \in Nat /\ Len(t) \in Nat
        /\ \A i \in 1..Len(s) : u[i] = s[i]
        /\ \A i \in 1..Len(t) : u[Len(s) + i] = t[i]
    BY <2>0 DEF Joined
  <2> HIDE DEF u
  <2>2. ASSUME NEW i \in DOMAIN u, IsSnapshot(u[i]) PROVE i \in DOMAIN s /\ u[i] = s[i]
    <3> SUFFICES ASSUME ~(i <= Len(s)) PROVE FALSE
      BY <2>1
    <3>1. i - Len(s) \in 1..Len(t) /\ Len(s) + (i - Len(s)) = i
      BY <2>1
    <3>2. u[i] = t[i - Len(s)]
      BY <2>1, <3>1
    <3>3. u[i] \in Range(t)
      BY <2>1, <3>1, <3>2 DEF Range
    <3> QED
      BY <2>2, <3>3
  <2> QED
    BY <1>1, <2>2 DEF OneSnapshot, u
<1>2. ASSUME s # <<>>, OneSnapshot(s)
      PROVE  /\ OneSnapshot(Tail(s))
             /\ IsSnapshot(Head(s)) => \A f \in Range(Tail(s)) : ~IsSnapshot(f)
  <2> DEFINE u == Tail(s)
  <2>1. /\ Head(s) = s[1] /\ Len(s) \in Nat \ {0} /\ DOMAIN s = 1..Len(s) /\ DOMAIN u = 1..Len(s) - 1
        /\ \A i \in 1..Len(s) - 1 : u[i] = s[i + 1]
    BY <1>2, TailFacts
  <2> HIDE DEF u
  <2>2. \A i \in DOMAIN u : i + 1 \in DOMAIN s /\ i + 1 # 1 /\ i \in Nat
    BY <2>1
  <2>3. OneSnapshot(u)
    BY <1>2, <2>1, <2>2 DEF OneSnapshot
  <2>4. IsSnapshot(Head(s)) => \A i \in DOMAIN u : ~IsSnapshot(u[i])
    BY <1>2, <2>1, <2>2 DEF OneSnapshot
  <2> QED
    BY <2>3, <2>4 DEF Range, u
<1> QED
  BY <1>1, <1>2

\* A response goes in between.
LEMMA OneSnapshotSplice ==
    ASSUME NEW s \in Seq(Frames), NEW r \in Seq(Frames), NEW t \in Seq(Frames),
           NEW u, u = Cat(s, t), NEW x, x = Cat(Cat(s, r), t),
           \/ OneSnapshot(u) /\ \A f \in Range(r) : ~IsSnapshot(f)
           \/ (\A f \in Range(u) : ~IsSnapshot(f)) /\ Len(r) = 1
    PROVE  OneSnapshot(x)
<1>1. Spliced(s, r, u, x)
  BY SpliceFacts
<1>2. CASE OneSnapshot(u) /\ \A f \in Range(r) : ~IsSnapshot(f)
  <2>1. ASSUME NEW k \in DOMAIN x, IsSnapshot(x[k])
        PROVE  \E i \in DOMAIN u : k = Beyond(s, r, i) /\ x[k] = u[i]
    BY <1>1, <1>2, <2>1 DEF Spliced
  <2> SUFFICES ASSUME NEW k \in DOMAIN x, NEW l \in DOMAIN x, IsSnapshot(x[k]), IsSnapshot(x[l])
               PROVE  k = l
    BY DEF OneSnapshot
  <2>2. PICK i \in DOMAIN u : k = Beyond(s, r, i) /\ x[k] = u[i]
    BY <2>1
  <2>3. PICK j \in DOMAIN u : l = Beyond(s, r, j) /\ x[l] = u[j]
    BY <2>1
  <2> QED
    BY <1>2, <2>2, <2>3 DEF OneSnapshot
<1>3. CASE (\A f \in Range(u) : ~IsSnapshot(f)) /\ Len(r) = 1
  <2>1. ASSUME NEW k \in DOMAIN x, IsSnapshot(x[k]) PROVE k - Len(s) \in 1..Len(r)
    <3>1. \A i \in DOMAIN u : ~IsSnapshot(u[i])
      BY <1>3 DEF Range
    <3> QED
      BY <1>1, <2>1, <3>1 DEF Spliced
  <2>2. DOMAIN x \subseteq Nat /\ Len(s) \in Nat
    <3>1. x \in Seq(Frames)
      BY SpliceFacts
    <3>2. DOMAIN x = 1..Len(x) /\ Len(x) \in Nat
      BY <3>1, LenProperties
    <3> QED
      BY <1>1, <3>2 DEF Spliced
  <2> QED
    BY <1>3, <2>1, <2>2 DEF OneSnapshot, IsSnapshot
<1> QED
  BY <1>2, <1>3

-----------------------------------------------------------------------------
(* The batcher.                                                            *)

\* Whatever a push sends goes ahead of what waits, and what waits has a timer.
LEMMA PushOneFacts ==
    ASSUME NEW F, NEW b \in Batchers(F), NEW f \in F, NEW held \in BOOLEAN
    PROVE  /\ PushOne(b, f, held) \in Batchers(F) /\ SentByPush(b, f, held) \in Seq(F)
           /\ Cat(SentByPush(b, f, held), PushOne(b, f, held).queue) = Cat(b.queue, <<f>>)
           /\ NothingStuck(PushOne(b, f, held))
<1> DEFINE d == [b EXCEPT !.queue = Append(@, f)]
<1>1. /\ d \in Batchers(F) /\ d.queue = Cat(b.queue, <<f>>) /\ d = Queued(b, f)
      /\ Cat(b.queue, <<f>>) \in Seq(F)
  <2>1. b.queue \in Seq(F)
    BY DEF Batchers
  <2>2. Append(b.queue, f) \in Seq(F)
    BY <2>1
  <2>3. Append(b.queue, f) = Cat(b.queue, <<f>>)
    BY <2>1, AppendIsConcat DEF Cat
  <2>4. d \in Batchers(F) /\ d.queue = Append(b.queue, f)
    BY <2>2 DEF Batchers
  <2>5. d = Queued(b, f)
    BY DEF Queued
  <2> QED
    BY <2>2, <2>3, <2>4, <2>5
<1> HIDE DEF d
<1>2. /\ <<>> \in Seq(F) /\ \A q \in Seq(F) : Cat(<<>>, q) = q /\ Cat(q, <<>>) = q
  BY EmptySeq, ConcatEmptySeq DEF Cat
<1>3. CASE ~Full(d)
  <2> DEFINE e == [d EXCEPT !.timer = TRUE]
  <2>1. PushOne(b, f, held) = e /\ SentByPush(b, f, held) = <<>>
    BY <1>1, <1>3 DEF PushOne, SentByPush
  <2>2. e \in Batchers(F) /\ e.queue = d.queue /\ e.timer
    BY <1>1 DEF Batchers
  <2> HIDE DEF e
  <2>3. d.queue \in Seq(F)
    BY <1>1
  <2> QED
    BY <1>1, <1>2, <2>1, <2>2, <2>3 DEF NothingStuck
<1>4. CASE Full(d) /\ held
  <2> DEFINE e == [[d EXCEPT !.timer = FALSE] EXCEPT !.timer = TRUE]
  <2>1. e \in Batchers(F) /\ e.queue = d.queue /\ e.timer
    BY <1>1 DEF Batchers
  <2>2. SentByPush(b, f, held) = <<>>
    BY <1>1, <1>4 DEF SentByPush, Sent
  <2>3. PushOne(b, f, held) = e \/ (PushOne(b, f, held) = [d EXCEPT !.timer = FALSE] /\ d.queue = <<>>)
    <3>1. [d EXCEPT !.timer = FALSE].queue = d.queue
      BY <1>1 DEF Batchers
    <3>2. PushOne(b, f, held) = Flush([d EXCEPT !.timer = FALSE], held)
      BY <1>1, <1>4 DEF PushOne, FlushNow, Disarmed
    <3> DEFINE z == [d EXCEPT !.timer = FALSE]
    <3>3. z.queue = d.queue /\ PushOne(b, f, held) = Flush(z, held) /\ e = [z EXCEPT !.timer = TRUE]
      BY <3>1, <3>2
    <3> HIDE DEF z, e
    <3>4. CASE z.queue = <<>>
      <4>1. Flush(z, held) = z
        BY <3>4, Zenon DEF Flush
      <4> QED
        BY <3>3, <3>4, <4>1 DEF z
    <3>5. CASE z.queue # <<>>
      <4>1. Flush(z, held) = [z EXCEPT !.timer = TRUE]
        BY <1>4, <3>5, Zenon DEF Flush
      <4> QED
        BY <3>3, <4>1
    <3> QED
      BY <3>4, <3>5
  <2>4. [d EXCEPT !.timer = FALSE] \in Batchers(F) /\ [d EXCEPT !.timer = FALSE].queue = d.queue
    BY <1>1 DEF Batchers
  <2> HIDE DEF e
  <2> QED
    BY <1>1, <1>2, <2>1, <2>2, <2>3, <2>4 DEF NothingStuck
<1>5. CASE Full(d) /\ ~held
  <2> DEFINE e == [[d EXCEPT !.timer = FALSE] EXCEPT !.queue = <<>>]
  <2>1. e \in Batchers(F) /\ e.queue = <<>>
    BY <1>1, <1>2 DEF Batchers
  <2>2. SentByPush(b, f, held) = d.queue
    BY <1>1, <1>5 DEF SentByPush, Sent
  <2>3. PushOne(b, f, held) = e \/ (PushOne(b, f, held) = [d EXCEPT !.timer = FALSE] /\ d.queue = <<>>)
    <3>1. [d EXCEPT !.timer = FALSE].queue = d.queue
      BY <1>1 DEF Batchers
    <3>2. PushOne(b, f, held) = Flush([d EXCEPT !.timer = FALSE], held)
      BY <1>1, <1>5 DEF PushOne, FlushNow, Disarmed
    <3> DEFINE z == [d EXCEPT !.timer = FALSE]
    <3>3. z.queue = d.queue /\ PushOne(b, f, held) = Flush(z, held) /\ e = [z EXCEPT !.queue = <<>>]
      BY <3>1, <3>2
    <3> HIDE DEF z, e
    <3>4. CASE z.queue = <<>>
      <4>1. Flush(z, held) = z
        BY <3>4, Zenon DEF Flush
      <4> QED
        BY <3>3, <3>4, <4>1 DEF z
    <3>5. CASE z.queue # <<>>
      <4>1. Flush(z, held) = [z EXCEPT !.queue = <<>>]
        BY <1>5, <3>5, Zenon DEF Flush
      <4> QED
        BY <3>3, <4>1
    <3> QED
      BY <3>4, <3>5
  <2>4. [d EXCEPT !.timer = FALSE] \in Batchers(F) /\ [d EXCEPT !.timer = FALSE].queue = d.queue
    BY <1>1 DEF Batchers
  <2> HIDE DEF e
  <2> QED
    BY <1>1, <1>2, <2>1, <2>2, <2>3, <2>4 DEF NothingStuck
<1> QED
  BY <1>3, <1>4, <1>5

\* The step of the recursion in PushAll.
Pushing(b, fs, held, g, k) ==
    IF k = 0 THEN [b |-> b, out |-> <<>>]
    ELSE [b   |-> PushOne(g[k - 1].b, fs[k], held),
          out |-> g[k - 1].out \o SentByPush(g[k - 1].b, fs[k], held)]

LEMMA PushAllDefined ==
    ASSUME NEW F, NEW fs \in Seq(F), NEW b, NEW held
    PROVE  \A m \in 0..Len(fs) : \E g : g = [k \in 0..m |-> Pushing(b, fs, held, g, k)]
<1> DEFINE Bad == {m \in 0..Len(fs) : ~ \E g : g = [k \in 0..m |-> Pushing(b, fs, held, g, k)]}
<1> SUFFICES ASSUME Bad # {} PROVE FALSE
  OBVIOUS
<1>1. Bad \in SUBSET Nat
  BY LenProperties
<1>2. PICK m \in Bad : \A y \in Bad : m <= y
  BY <1>1, LeastNumber
<1>3. m \in Nat /\ m \in 0..Len(fs) /\ Len(fs) \in Nat
  BY <1>2, LenProperties
<1>4. m # 0
  <2> SUFFICES ASSUME m = 0 PROVE FALSE
    OBVIOUS
  <2> DEFINE g == [k \in 0..0 |-> [b |-> b, out |-> <<>>]]
  <2>1. g = [k \in 0..m |-> Pushing(b, fs, held, g, k)]
    BY DEF Pushing
  <2> QED
    BY <1>2, <2>1
<1>5. m - 1 \in 0..Len(fs) /\ ~(m <= m - 1)
  BY <1>3, <1>4
<1>6. PICK g : g = [k \in 0..m - 1 |-> Pushing(b, fs, held, g, k)]
  BY <1>2, <1>5
<1> DEFINE h == [k \in 0..m |-> IF k = m THEN Pushing(b, fs, held, g, m) ELSE g[k]]
<1>7. \A k \in 0..m : h[k] = Pushing(b, fs, held, h, k)
  <2> SUFFICES ASSUME NEW k \in 0..m PROVE h[k] = Pushing(b, fs, held, h, k)
    OBVIOUS
  <2>1. k # 0 => h[k - 1] = g[k - 1]
    BY <1>3
  <2>2. k # m => g[k] = Pushing(b, fs, held, g, k)
    <3>1. k # m => k \in 0..m - 1
      BY <1>3
    <3> QED
      BY <1>6, <3>1
  <2>3. h[k] = Pushing(b, fs, held, g, k)
    BY <2>2
  <2> QED
    BY <2>1, <2>3 DEF Pushing
<1>8. h = [k \in 0..m |-> Pushing(b, fs, held, h, k)]
  BY <1>7
<1> QED
  BY <1>2, <1>8

LEMMA PushAllSteps ==
    ASSUME NEW F, NEW fs \in Seq(F), NEW b, NEW held
    PROVE  \E g : /\ PushAll(b, fs, held) = g[Len(fs)]
                  /\ \A k \in 0..Len(fs) : g[k] = Pushing(b, fs, held, g, k)
<1> DEFINE g == CHOOSE g : g = [k \in 0..Len(fs) |-> Pushing(b, fs, held, g, k)]
<1>1. g = [k \in 0..Len(fs) |-> Pushing(b, fs, held, g, k)]
  <2>1. Len(fs) \in Nat
    BY LenProperties
  <2>2. Len(fs) \in 0..Len(fs)
    BY <2>1
  <2>3. \E f : f = [k \in 0..Len(fs) |-> Pushing(b, fs, held, f, k)]
    BY <2>2, PushAllDefined
  <2> QED
    BY <2>3, Zenon
<1>2. PushAll(b, fs, held) = g[Len(fs)]
  BY DEF PushAll, Pushing
<1>3. \A k \in 0..Len(fs) : g[k] = Pushing(b, fs, held, g, k)
  BY <1>1
<1> QED
  BY <1>2, <1>3

\* The two parts of what a push makes.
LEMMA PushParts ==
    ASSUME NEW r, NEW x, NEW y, r = [b |-> x, out |-> y]
    PROVE  r.b = x /\ r.out = y
  OBVIOUS

LEMMA PushAllFacts ==
    ASSUME NEW F, NEW a \in Batchers(F), NEW fs \in Seq(F), NEW held \in BOOLEAN,
           NEW p, p = PushAll(a, fs, held)
    PROVE  /\ p.b \in Batchers(F) /\ p.out \in Seq(F)
           /\ Cat(p.out, p.b.queue) = Cat(a.queue, fs)
           /\ NothingStuck(a) => NothingStuck(p.b)
<1> DEFINE N == Len(fs)
<1>1. PICK g : p = g[N] /\ \A k \in 0..N : g[k] = Pushing(a, fs, held, g, k)
  BY PushAllSteps
<1> DEFINE Good(k) == /\ g[k].b \in Batchers(F) /\ g[k].out \in Seq(F)
                      /\ Cat(g[k].out, g[k].b.queue) = Cat(a.queue, SubSeq(fs, 1, k))
                      /\ NothingStuck(a) => NothingStuck(g[k].b)
           Bad == {k \in 0..N : ~Good(k)}
<1>2. /\ N \in Nat /\ DOMAIN fs = 1..N /\ a.queue \in Seq(F)
      /\ \A k \in 1..N : fs[k] \in F
  BY LenProperties, ElementOfSeq DEF Batchers
<1>3. Good(0)
  <2>1. SubSeq(fs, 1, 0) = <<>>
    BY SubSeqEmpty
  <2>2. Cat(a.queue, <<>>) = a.queue /\ Cat(<<>>, a.queue) = a.queue /\ <<>> \in Seq(F)
    BY <1>2, ConcatEmptySeq, EmptySeq DEF Cat
  <2>3. g[0].b = a /\ g[0].out = <<>>
    <3>1. 0 \in 0..N
      BY <1>2
    <3>2. g[0] = [b |-> a, out |-> <<>>]
      BY <1>1, <3>1, Zenon DEF Pushing
    <3> QED
      BY <3>2, PushParts, Zenon
  <2> QED
    BY <2>1, <2>2, <2>3
<1>4. ASSUME NEW k \in 1..N, Good(k - 1) PROVE Good(k)
  <2> DEFINE c == g[k - 1].b
             o == g[k - 1].out
             f == fs[k]
             s == SentByPush(c, f, held)
             d == PushOne(c, f, held)
             h == SubSeq(fs, 1, k - 1)
  <2>1. g[k] = [b |-> d, out |-> Cat(o, s)]
    <3>1. k \in 0..N /\ k # 0
      BY <1>2
    <3> QED
      BY <1>1, <3>1, Zenon DEF Pushing, Cat
  <2>2. c \in Batchers(F) /\ o \in Seq(F) /\ Cat(o, c.queue) = Cat(a.queue, h)
    BY <1>4
  <2>3. f \in F /\ h \in Seq(F) /\ SubSeq(fs, 1, k) = Cat(h, <<f>>) /\ <<f>> \in Seq(F)
    <3>1. h \in Seq(F)
      <4>1. 1 \in Int /\ k - 1 \in Int /\ \A i \in 1..k - 1 : fs[i] \in F
        BY <1>2
      <4> QED
        BY <4>1, SubSeqProperties
    <3>2. SubSeq(fs, 1, k) = Append(h, f) /\ f \in F
      BY <1>2, <3>1
    <3> HIDE DEF h, f
    <3> QED
      BY <3>1, <3>2, AppendIsConcat, Shortest DEF Cat
  <2> HIDE DEF c, o, f, h
  <2>4. /\ d \in Batchers(F) /\ s \in Seq(F) /\ Cat(s, d.queue) = Cat(c.queue, <<f>>) /\ NothingStuck(d)
    BY <2>2, <2>3, PushOneFacts
  <2> HIDE DEF d, s
  <2>5. d.queue \in Seq(F) /\ c.queue \in Seq(F)
    BY <2>2, <2>4 DEF Batchers
  <2>6. Cat(o, s) \in Seq(F) /\ Cat(Cat(o, s), d.queue) = Cat(a.queue, Cat(h, <<f>>))
    <3> DEFINE x  == <<f>>
               qa == a.queue
               qc == c.queue
               qd == d.queue
    <3>1. /\ x \in Seq(F) /\ qa \in Seq(F) /\ qc \in Seq(F) /\ qd \in Seq(F)
          /\ Cat(o, qc) = Cat(qa, h) /\ Cat(s, qd) = Cat(qc, x)
      BY <1>2, <2>2, <2>3, <2>4, <2>5, Zenon
    <3>2. Cat(o, s) \in Seq(F) /\ o \in Seq(F) /\ s \in Seq(F) /\ h \in Seq(F)
      BY <2>2, <2>3, <2>4, CatFacts
    <3> HIDE DEF x, qa, qc, qd
    <3>3. Cat(Cat(o, s), qd) = Cat(qa, Cat(h, x))
      <4>1. Cat(Cat(o, s), qd) = Cat(o, Cat(s, qd))
        BY <3>1, <3>2, CatGroups
      <4>2. Cat(o, Cat(qc, x)) = Cat(Cat(o, qc), x)
        BY <3>1, <3>2, CatGroups
      <4>3. Cat(Cat(qa, h), x) = Cat(qa, Cat(h, x))
        BY <3>1, <3>2, CatGroups
      <4> QED
        BY <3>1, <4>1, <4>2, <4>3
    <3> QED
      BY <3>2, <3>3, Zenon DEF x, qa, qc, qd
  <2>7. g[k].b = d /\ g[k].out = Cat(o, s)
    BY <2>1, PushParts, Zenon
  <2> QED
    BY <2>3, <2>4, <2>6, <2>7, Zenon
<1> HIDE DEF Good
<1>5. Good(N)
  <2> SUFFICES ASSUME Bad # {} PROVE FALSE
    <3>1. N \in 0..N
      BY <1>2
    <3> QED
      BY <3>1
  <2>1. PICK m \in Bad : \A y \in Bad : m <= y
    <3>1. Bad \in SUBSET Nat
      BY <1>2
    <3> QED
      BY <3>1, LeastNumber
  <2>2. m \in 0..N /\ ~Good(m)
    BY <2>1
  <2>3. m # 0
    BY <1>3, <2>2
  <2>4. m \in 1..N /\ m - 1 \in 0..N /\ ~(m <= m - 1)
    BY <1>2, <2>2, <2>3
  <2>5. Good(m - 1)
    BY <2>1, <2>4
  <2> QED
    BY <1>4, <2>2, <2>4, <2>5
<1>6. SubSeq(fs, 1, N) = fs
  BY SubSeqFull
<1> QED
  BY <1>1, <1>5, <1>6 DEF Good

-----------------------------------------------------------------------------
(* TypeOK, by the parts of the state.                                      *)

BridgeTypes ==
    /\ pending \in Seq(Questions) /\ recent \in Seq(Questions)
    /\ verdict \in [Questions -> Verdicts \cup {"new", "open"}]
    /\ told \in [Questions -> Verdicts \cup {"waits"}]
    /\ InTable = {q \in Questions : verdict[q] = "open"} /\ timers = InTable
    /\ IsInjective(pending)

ServerTypes ==
    /\ up \subseteq Clients /\ attached \subseteq up
    /\ opening \in [Clients -> {"no", "asked", "captured", "replied"}]
    /\ snap \in [Clients -> Seq(Questions)]

PipeTypes == batcher \in [Clients -> Batchers(Frames)] /\ wire \in [Clients -> Seq(Frames)]

ScreenTypes ==
    /\ shown \subseteq Clients /\ wanted \subseteq up
    /\ cards \in [Clients -> SUBSET Approvals] /\ slot \in [Clients -> Asks \cup {None}]
    /\ later \in [Clients -> SUBSET Questions] /\ clicked \in [Clients -> SUBSET Approvals]
    /\ \A c \in Clients : c \notin shown => cards[c] = {}

CallTypes == calls \subseteq Clients \X Questions \X Verdicts /\ missed \in [Clients -> SUBSET Asks]

LEMMA TypeParts ==
    TypeOK <=> BridgeTypes /\ ServerTypes /\ PipeTypes /\ ScreenTypes /\ CallTypes
  BY DEF TypeOK, BridgeTypes, ServerTypes, PipeTypes, ScreenTypes, CallTypes

LEMMA TypePartsNext ==
    BridgeTypes' /\ ServerTypes' /\ PipeTypes' /\ ScreenTypes' /\ CallTypes' => TypeOK'
  BY DEF TypeOK, BridgeTypes, ServerTypes, PipeTypes, ScreenTypes, CallTypes

LEMMA TypesStay ==
    /\ BridgeTypes /\ UNCHANGED bridge => BridgeTypes'
    /\ ServerTypes /\ UNCHANGED <<server, up>> => ServerTypes'
    /\ PipeTypes /\ UNCHANGED <<batcher, wire>> => PipeTypes'
    /\ ScreenTypes /\ UNCHANGED <<screen, up>> => ScreenTypes'
    /\ CallTypes /\ UNCHANGED <<calls, missed>> => CallTypes'
  BY DEF BridgeTypes, ServerTypes, PipeTypes, ScreenTypes, CallTypes, bridge, server, screen, InTable

-----------------------------------------------------------------------------
(* What a push does to the pipe of a client.                               *)

LEMMA PipeFacts ==
    ASSUME PipeTypes, NEW c \in Clients
    PROVE  /\ batcher[c] \in Batchers(Frames) /\ wire[c] \in Seq(Frames) /\ batcher[c].queue \in Seq(Frames)
           /\ Pipe(c) \in Seq(Frames) /\ Pipe(c) = Cat(wire[c], batcher[c].queue)
           /\ Range(Pipe(c)) = Range(wire[c]) \cup Range(batcher[c].queue)
           /\ Pipe(c) = <<>> <=> wire[c] = <<>> /\ batcher[c].queue = <<>>
<1> DEFINE w == wire[c]
           q == batcher[c].queue
<1>1. batcher[c] \in Batchers(Frames) /\ w \in Seq(Frames)
  BY DEF PipeTypes
<1>2. q \in Seq(Frames)
  BY <1>1 DEF Batchers
<1>3. Pipe(c) = Cat(w, q)
  BY DEF Pipe, Cat
<1> HIDE DEF w, q
<1>4. Cat(w, q) \in Seq(Frames) /\ Range(Cat(w, q)) = Range(w) \cup Range(q)
  BY <1>1, <1>2, CatFacts
<1>5. Cat(w, q) = <<>> <=> w = <<>> /\ q = <<>>
  BY <1>1, <1>2, <1>4, Shortest
<1> QED
  BY <1>1, <1>2, <1>3, <1>4, <1>5 DEF w, q

LEMMA PipeFactsNext ==
    ASSUME PipeTypes', NEW c \in Clients
    PROVE  /\ Pipe(c)' = Cat(wire'[c], batcher'[c].queue)
           /\ wire'[c] \in Seq(Frames) /\ batcher'[c].queue \in Seq(Frames) /\ batcher'[c] \in Batchers(Frames)
<1>1. batcher'[c] \in Batchers(Frames) /\ wire'[c] \in Seq(Frames)
  BY DEF PipeTypes
<1>2. batcher'[c].queue \in Seq(Frames)
  BY <1>1 DEF Batchers
<1> QED
  BY <1>1, <1>2 DEF Pipe, Cat

\* The frames of fs wait at the end, the response r goes out in between.
GrownTo(p, q, fs, r, x, e) ==
    /\ x \in Seq(Frames) /\ Range(x) = Range(p) \cup Range(fs) \cup Range(r)
    /\ Range(e) \subseteq Range(q) \cup Range(fs)
    /\ \A f, g \in Frames :
          f \notin Range(fs) \cup Range(r) /\ (g \in Range(fs) \/ Follows(p, f, g)) => Follows(x, f, g)
    /\ /\ \A f \in Range(fs) : ~IsSnapshot(f)
       /\ \/ OneSnapshot(p) /\ \A f \in Range(r) : ~IsSnapshot(f)
          \/ (\A f \in Range(p) : ~IsSnapshot(f)) /\ Len(r) = 1
       => OneSnapshot(x)

Grown(c, fs, r) == GrownTo(Pipe(c), batcher[c].queue, fs, r, Pipe(c)', batcher'[c].queue)

LEMMA Grows ==
    ASSUME NEW w \in Seq(Frames), NEW q \in Seq(Frames), NEW o \in Seq(Frames), NEW e \in Seq(Frames),
           NEW fs \in Seq(Frames), NEW r \in Seq(Frames), Cat(o, e) = Cat(q, fs)
    PROVE  GrownTo(Cat(w, q), q, fs, r, Cat(Cat(Cat(w, o), r), e), e)
<1> DEFINE s == Cat(w, o)
           u == Cat(s, e)
           p == Cat(w, q)
           v == Cat(s, r)
           x == Cat(v, e)
<1>1. /\ p \in Seq(Frames) /\ s \in Seq(Frames)
      /\ Range(Cat(o, e)) = Range(o) \cup Range(e) /\ Range(Cat(q, fs)) = Range(q) \cup Range(fs)
  BY CatFacts
<1>2. u = Cat(p, fs)
  <2>1. Cat(Cat(w, o), e) = Cat(w, Cat(o, e))
    BY CatGroups
  <2>2. Cat(Cat(w, q), fs) = Cat(w, Cat(q, fs))
    BY CatGroups
  <2> QED
    BY <2>1, <2>2
<1>3. x = Cat(Cat(s, r), e) /\ u = Cat(s, e) /\ x = Cat(v, e) /\ v = Cat(s, r)
  OBVIOUS
<1>0. x = Cat(Cat(Cat(w, o), r), e) /\ p = Cat(w, q)
  OBVIOUS
<1> HIDE DEF s, u, x, v, p
<1>4. x \in Seq(Frames) /\ u \in Seq(Frames) /\ Range(x) = Range(u) \cup Range(r)
  <2>1. /\ v \in Seq(Frames) /\ Range(v) = Range(s) \cup Range(r)
        /\ u \in Seq(Frames) /\ Range(u) = Range(s) \cup Range(e)
    BY <1>1, <1>3, CatFacts
  <2>2. x \in Seq(Frames) /\ Range(x) = Range(v) \cup Range(e)
    BY <1>3, <2>1, CatFacts
  <2> QED
    BY <2>1, <2>2
<1>5. Range(u) = Range(p) \cup Range(fs)
  BY <1>1, <1>2, CatFacts
<1>6. ASSUME NEW f \in Frames, NEW g \in Frames, f \notin Range(fs) \cup Range(r),
             g \in Range(fs) \/ Follows(p, f, g)
      PROVE  Follows(x, f, g)
  <2>1. Follows(fs, f, g)
    BY <1>6 DEF Follows, Range
  <2>2. Follows(u, f, g)
    BY <1>1, <1>2, <1>6, <2>1, FollowsCat
  <2>3. f \notin Range(r)
    BY <1>6
  <2> QED
    BY <1>1, <1>3, <2>2, <2>3, FollowsSplice
<1>7. ASSUME \A f \in Range(fs) : ~IsSnapshot(f),
             \/ OneSnapshot(p) /\ \A f \in Range(r) : ~IsSnapshot(f)
             \/ (\A f \in Range(p) : ~IsSnapshot(f)) /\ Len(r) = 1
      PROVE  OneSnapshot(x)
  <2>1. OneSnapshot(p) => OneSnapshot(u)
    BY <1>1, <1>2, <1>7, OneSnapshotFacts
  <2>2. (\A f \in Range(p) : ~IsSnapshot(f)) => \A f \in Range(u) : ~IsSnapshot(f)
    BY <1>5, <1>7
  <2>3. \/ OneSnapshot(u) /\ \A f \in Range(r) : ~IsSnapshot(f)
        \/ (\A f \in Range(u) : ~IsSnapshot(f)) /\ Len(r) = 1
    BY <1>7, <2>1, <2>2
  <2> QED
    BY <1>1, <1>3, <2>3, OneSnapshotSplice
<1>8. Range(e) \subseteq Range(q) \cup Range(fs)
  BY <1>1
<1>9. Range(x) = Range(p) \cup Range(fs) \cup Range(r)
  BY <1>4, <1>5
<1>10. GrownTo(p, q, fs, r, x, e)
  BY <1>4, <1>6, <1>7, <1>8, <1>9 DEF GrownTo
<1> QED
  BY <1>0, <1>10

LEMMA PushFacts ==
    ASSUME PipeTypes, NEW C, NEW fs \in Seq(Frames), NEW reply \in [Clients -> Seq(Frames)],
           Push(C, fs, reply)
    PROVE  /\ PipeTypes' /\ (BatchesLeave => BatchesLeave')
           /\ \A c \in Clients : c \in C => Grown(c, fs, reply[c])
           /\ \A c \in Clients \ C : Grown(c, <<>>, reply[c])
           /\ \A c \in Clients \ C : reply[c] = <<>> => wire'[c] = wire[c] /\ batcher'[c] = batcher[c]
<1>1. PICK held \in BOOLEAN :
         /\ batcher' = [c \in Clients |-> (IF c \in C THEN PushAll(batcher[c], fs, held)
                                           ELSE [b |-> batcher[c], out |-> <<>>]).b]
         /\ wire' = [c \in Clients |-> wire[c] \o (IF c \in C THEN PushAll(batcher[c], fs, held)
                                                    ELSE [b |-> batcher[c], out |-> <<>>]).out \o reply[c]]
  BY DEF Push
<1> DEFINE gs(c) == IF c \in C THEN fs ELSE <<>>
<1>2. ASSUME NEW c \in Clients
      PROVE  /\ batcher'[c] \in Batchers(Frames) /\ wire'[c] \in Seq(Frames)
             /\ NothingStuck(batcher[c]) => NothingStuck(batcher'[c])
             /\ c \in C => Grown(c, fs, reply[c])
             /\ c \notin C => Grown(c, <<>>, reply[c])
             /\ c \notin C /\ reply[c] = <<>> => wire'[c] = wire[c] /\ batcher'[c] = batcher[c]
  <2>1. /\ batcher[c] \in Batchers(Frames) /\ wire[c] \in Seq(Frames) /\ batcher[c].queue \in Seq(Frames)
        /\ Pipe(c) = Cat(wire[c], batcher[c].queue) /\ reply[c] \in Seq(Frames)
    BY PipeFacts
  <2>2. \E p : /\ batcher'[c] = p.b /\ wire'[c] = Cat(Cat(wire[c], p.out), reply[c])
               /\ p.b \in Batchers(Frames) /\ p.out \in Seq(Frames)
               /\ Cat(p.out, p.b.queue) = Cat(batcher[c].queue, gs(c))
               /\ NothingStuck(batcher[c]) => NothingStuck(p.b)
               /\ c \notin C => p.b = batcher[c] /\ p.out = <<>>
    <3>1. CASE c \in C
      <4> DEFINE p == PushAll(batcher[c], fs, held)
      <4>1. batcher'[c] = p.b /\ wire'[c] = Cat(Cat(wire[c], p.out), reply[c])
        BY <1>1, <3>1, Zenon DEF Cat
      <4>2. /\ p.b \in Batchers(Frames) /\ p.out \in Seq(Frames)
            /\ Cat(p.out, p.b.queue) = Cat(batcher[c].queue, fs)
            /\ NothingStuck(batcher[c]) => NothingStuck(p.b)
        BY <2>1, PushAllFacts
      <4> HIDE DEF p
      <4> QED
        BY <3>1, <4>1, <4>2
    <3>2. CASE c \notin C
      <4> DEFINE p == [b |-> batcher[c], out |-> <<>>]
      <4>1. batcher'[c] = p.b /\ wire'[c] = Cat(Cat(wire[c], p.out), reply[c])
        BY <1>1, <3>2, Zenon DEF Cat
      <4>2. p.b = batcher[c] /\ p.out = <<>>
        BY PushParts, Zenon
      <4> HIDE DEF p
      <4>3. Cat(<<>>, batcher[c].queue) = batcher[c].queue /\ Cat(batcher[c].queue, <<>>) = batcher[c].queue
        BY <2>1, ConcatEmptySeq DEF Cat
      <4>4. <<>> \in Seq(Frames)
        BY EmptySeq
      <4> QED
        BY <2>1, <3>2, <4>1, <4>2, <4>3, <4>4
    <3> QED
      BY <3>1, <3>2
  <2>3. PICK p : /\ batcher'[c] = p.b /\ wire'[c] = Cat(Cat(wire[c], p.out), reply[c])
                 /\ p.b \in Batchers(Frames) /\ p.out \in Seq(Frames)
                 /\ Cat(p.out, p.b.queue) = Cat(batcher[c].queue, gs(c))
                 /\ NothingStuck(batcher[c]) => NothingStuck(p.b)
                 /\ c \notin C => p.b = batcher[c] /\ p.out = <<>>
    BY <2>2
  <2> DEFINE w == wire[c]
             q == batcher[c].queue
             o == p.out
             e == batcher'[c].queue
             r == reply[c]
             g == gs(c)
  <2>4. /\ w \in Seq(Frames) /\ q \in Seq(Frames) /\ o \in Seq(Frames) /\ e \in Seq(Frames)
        /\ g \in Seq(Frames) /\ r \in Seq(Frames) /\ Cat(o, e) = Cat(q, g)
        /\ Pipe(c) = Cat(w, q) /\ Pipe(c)' = Cat(wire'[c], e) /\ wire'[c] = Cat(Cat(w, o), r)
        /\ batcher'[c] \in Batchers(Frames)
    <3>1. e \in Seq(Frames)
      BY <2>3 DEF Batchers
    <3>2. g \in Seq(Frames)
      BY EmptySeq
    <3>3. Pipe(c)' = Cat(wire'[c], e)
      BY DEF Pipe, Cat
    <3> QED
      BY <2>1, <2>3, <3>1, <3>2, <3>3
  <2>5. Grown(c, g, r) /\ wire'[c] \in Seq(Frames)
    <3>1. Pipe(c) = Cat(w, q) /\ Pipe(c)' = Cat(Cat(Cat(w, o), r), e)
      BY <2>4
    <3>2. GrownTo(Cat(w, q), q, g, r, Cat(Cat(Cat(w, o), r), e), e)
      <4> HIDE DEF w, q, o, e, r, g
      <4> QED
        BY <2>4, Grows
    <3>3. Cat(w, o) \in Seq(Frames)
      BY <2>4, CatFacts
    <3>4. wire'[c] \in Seq(Frames)
      BY <2>4, <3>3, CatFacts
    <3> QED
      BY <3>1, <3>2, <3>4 DEF Grown
  <2>6. c \notin C /\ r = <<>> => wire'[c] = w
    <3>1. Cat(w, <<>>) = w
      BY <2>4, ConcatEmptySeq DEF Cat
    <3> QED
      BY <2>3, <2>4, <3>1
  <2> QED
    BY <2>3, <2>4, <2>5, <2>6
<1>3. PipeTypes'
  BY <1>1, <1>2 DEF PipeTypes
<1> HIDE DEF gs
<1> QED
  BY <1>2, <1>3 DEF BatchesLeave
-----------------------------------------------------------------------------
(* What a step leaves alone.                                               *)

SameFor(c) ==
    /\ Pipe(c)' = Pipe(c) /\ Range(batcher'[c].queue) \subseteq Range(batcher[c].queue)
    /\ opening'[c] = opening[c] /\ snap'[c] = snap[c] /\ cards'[c] = cards[c] /\ slot'[c] = slot[c]
    /\ later'[c] = later[c] /\ missed'[c] = missed[c]
    /\ (c \in up') = (c \in up) /\ (c \in attached') = (c \in attached)
    /\ (c \in wanted') = (c \in wanted) /\ (c \in shown') = (c \in shown)

LEMMA Others ==
    ASSUME NEW c \in Clients, ClientInv(c), SameFor(c), UNCHANGED <<pending, verdict, recent>>
    PROVE  ClientInv(c)'
<1>1. \A f \in Range(Pipe(c)') : Truthful(c, f)'
  <2> SUFFICES ASSUME NEW f \in Range(Pipe(c)) PROVE Truthful(c, f)'
    BY DEF SameFor
  <2>1. Truthful(c, f)
    BY DEF ClientInv
  <2> QED
    BY <2>1 DEF Truthful, SameFor, Fin, End, Closed, IsSnapshot
<1>2. Alone(c)'
  <2>1. OneSnapshot(Pipe(c)')
    BY DEF ClientInv, Alone, SameFor
  <2>2. \A f \in Range(batcher'[c].queue) : f.kind \in {"request", "end"}
    BY DEF ClientInv, Alone, SameFor
  <2> QED
    BY <2>1, <2>2 DEF Alone
<1>3. Linked(c)'
  BY DEF ClientInv, Linked, SameFor, IsSnapshot
<1>4. Raised(c)'
  BY DEF ClientInv, Raised, SameFor, Closed
<1>5. ASSUME NEW q \in Questions, Closed(q)' PROVE Ending(c, q)'
  <2>1. Ending(c, q)
    BY <1>5 DEF ClientInv, Closed
  <2>2. Fin(q)' = Fin(q)
    BY DEF Fin, End
  <2>3. Replayed(c, q)' <=> Replayed(c, q)
    BY DEF Replayed, SameFor
  <2> QED
    BY <2>1, <2>2, <2>3 DEF Ending, SameFor, IsSnapshot, Request
<1>6. ASSUME NEW q \in InTable' \cap Approvals PROVE Showing(c, q)'
  <2>1. Showing(c, q)
    BY <1>6 DEF ClientInv, InTable
  <2> QED
    BY <2>1 DEF Showing, SameFor, IsSnapshot, Request
<1> QED
  BY <1>1, <1>2, <1>3, <1>4, <1>5, <1>6 DEF ClientInv

LEMMA PipeStays ==
    ASSUME NEW c, wire'[c] = wire[c], batcher'[c] = batcher[c]
    PROVE  Pipe(c)' = Pipe(c) /\ Range(batcher'[c].queue) \subseteq Range(batcher[c].queue)
  BY DEF Pipe

\* A step that touches neither the bridge nor a pipe leaves what is said of them.
LEMMA BridgeStays ==
    ASSUME BridgeInv, UNCHANGED bridge, \A x \in calls' : x[1] \in up'
    PROVE  BridgeInv'
  BY DEF BridgeInv, bridge, Closed

-----------------------------------------------------------------------------
(* The steps that push nothing and read nothing.                           *)

LEMMA FlushFacts ==
    ASSUME NEW F, NEW b \in Batchers(F), NEW held \in BOOLEAN
    PROVE  /\ FlushNow(b, held) \in Batchers(F) /\ NothingStuck(FlushNow(b, held))
           /\ Sent(b, held) \in Seq(F) /\ Range(FlushNow(b, held).queue) \subseteq Range(b.queue)
           /\ Cat(Sent(b, held), FlushNow(b, held).queue) = b.queue
<1> DEFINE d == [b EXCEPT !.timer = FALSE]
           t == [d EXCEPT !.timer = TRUE]
           e == [d EXCEPT !.queue = <<>>]
<1>1. /\ d \in Batchers(F) /\ d.queue = b.queue /\ t \in Batchers(F) /\ t.queue = b.queue /\ t.timer
      /\ b.queue \in Seq(F)
  BY DEF Batchers
<1>2. e \in Batchers(F) /\ e.queue = <<>>
  BY <1>1, EmptySeq DEF Batchers
<1>3. FlushNow(b, held) = Flush(d, held)
  BY DEF FlushNow, Disarmed
<1>4. Flush(d, held) = IF d.queue = <<>> THEN d ELSE IF held THEN t ELSE e
  BY DEF Flush
<1>5. Sent(b, held) = IF held THEN <<>> ELSE b.queue
  BY DEF Sent
<1> HIDE DEF d, t, e
<1>6. /\ <<>> \in Seq(F) /\ \A s \in Seq(F) : Cat(<<>>, s) = s /\ Cat(s, <<>>) = s
  BY EmptySeq, ConcatEmptySeq DEF Cat
<1>7. Range(<<>>) = {}
  BY Shortest
<1> DEFINE x == Flush(d, held)
           s == Sent(b, held)
           bq == b.queue
<1>8. /\ x \in Batchers(F) /\ NothingStuck(x) /\ s \in Seq(F)
      /\ \/ x.queue = <<>> /\ s = bq
         \/ x.queue = bq /\ s = <<>>
  <2>1. CASE d.queue = <<>>
    <3>1. x = d /\ bq = <<>> /\ s = <<>>
      BY <1>1, <1>4, <1>5, <2>1
    <3> QED
      BY <1>1, <1>6, <2>1, <3>1 DEF NothingStuck
  <2>2. CASE d.queue # <<>> /\ held
    <3>1. x = t /\ s = <<>>
      BY <1>4, <1>5, <2>2
    <3> QED
      BY <1>1, <1>6, <3>1 DEF NothingStuck
  <2>3. CASE d.queue # <<>> /\ ~held
    <3>1. x = e /\ s = bq
      BY <1>4, <1>5, <2>3
    <3> QED
      BY <1>1, <1>2, <3>1 DEF NothingStuck
  <2> QED
    BY <2>1, <2>2, <2>3
<1>9. x = FlushNow(b, held) /\ bq \in Seq(F) /\ bq = b.queue
  BY <1>1, <1>3
<1> HIDE DEF x, s, bq
<1>10. Cat(s, x.queue) = bq /\ Range(x.queue) \subseteq Range(bq)
  BY <1>6, <1>7, <1>8, <1>9
<1> QED
  BY <1>8, <1>9, <1>10 DEF s

LEMMA FlushFiresStep ==
    ASSUME IInv, NEW c \in Clients, NEW held \in BOOLEAN, FlushFires(c, held)
    PROVE  IInv'
<1> DEFINE b == batcher[c]
           w == wire[c]
           z == Sent(b, held)
           n == FlushNow(b, held)
<1>0. /\ BridgeTypes /\ ServerTypes /\ PipeTypes /\ ScreenTypes /\ CallTypes
      /\ BatchesLeave /\ BridgeInv /\ \A d \in Clients : ClientInv(d)
  BY TypeParts DEF IInv
<1>1. /\ b \in Batchers(Frames) /\ w \in Seq(Frames) /\ b.queue \in Seq(Frames)
      /\ Pipe(c) = Cat(w, b.queue)
  BY <1>0, PipeFacts
<1>2. /\ n \in Batchers(Frames) /\ NothingStuck(n) /\ z \in Seq(Frames)
      /\ Range(n.queue) \subseteq Range(b.queue) /\ Cat(z, n.queue) = b.queue
  BY <1>1, FlushFacts
<1>3. /\ batcher' = [batcher EXCEPT ![c] = n] /\ wire' = [wire EXCEPT ![c] = Cat(w, z)]
      /\ UNCHANGED <<bridge, server, screen, up, calls, missed, moves>>
  BY Zenon DEF FlushFires, Cat
<1>4. wire \in [Clients -> Seq(Frames)] /\ batcher \in [Clients -> Batchers(Frames)]
  BY <1>0 DEF PipeTypes
<1> HIDE DEF b, w, z, n
<1>5. Cat(w, z) \in Seq(Frames)
  BY <1>1, <1>2, CatFacts
<1>6. PipeTypes'
  BY <1>2, <1>3, <1>4, <1>5 DEF PipeTypes
<1>7. TypeOK'
  BY <1>0, <1>3, <1>6, TypesStay, TypePartsNext
<1>8. BatchesLeave'
  BY <1>0, <1>2, <1>3, <1>4 DEF BatchesLeave
<1>9. BridgeInv'
  BY <1>0, <1>3, BridgeStays DEF BridgeInv
<1>10. batcher'[c] = n /\ wire'[c] = Cat(w, z)
  BY <1>3, <1>4
<1>11. Pipe(c)' = Pipe(c) /\ Range(batcher'[c].queue) \subseteq Range(batcher[c].queue)
  <2>1. n.queue \in Seq(Frames)
    BY <1>2 DEF Batchers
  <2>2. Cat(Cat(w, z), n.queue) = Cat(w, Cat(z, n.queue))
    BY <1>1, <1>2, <2>1, CatGroups
  <2>3. Pipe(c)' = Cat(Cat(w, z), n.queue)
    BY <1>10 DEF Pipe, Cat
  <2> QED
    BY <1>1, <1>2, <1>10, <2>2, <2>3 DEF b
<1>12. ASSUME NEW d \in Clients PROVE ClientInv(d)'
  <2>1. Pipe(d)' = Pipe(d) /\ Range(batcher'[d].queue) \subseteq Range(batcher[d].queue)
    <3>1. d # c => wire'[d] = wire[d] /\ batcher'[d] = batcher[d]
      BY <1>3, <1>4
    <3> QED
      BY <1>11, <3>1, PipeStays
  <2>2. SameFor(d)
    BY <1>3, <2>1 DEF SameFor, server, screen
  <2> QED
    BY <1>0, <1>3, <2>2, Others DEF bridge
<1> QED
  BY <1>7, <1>8, <1>9, <1>12 DEF IInv

\* No snapshot is under way to a client that may open the session.
LEMMA OpenStep ==
    ASSUME IInv, NEW c \in Clients, Open(c)
    PROVE  IInv'
<1>0. /\ BridgeTypes /\ ServerTypes /\ PipeTypes /\ ScreenTypes /\ CallTypes
      /\ BatchesLeave /\ BridgeInv /\ \A d \in Clients : ClientInv(d)
  BY TypeParts DEF IInv
<1>1. /\ c \in up /\ opening[c] = "no" /\ c \notin wanted
      /\ \A k \in DOMAIN wire[c] : wire[c][k].kind # "snapshot"
      /\ opening' = [opening EXCEPT ![c] = "asked"] /\ wanted' = wanted \cup {c}
      /\ UNCHANGED <<bridge, attached, snap, shown, cards, slot, later, clicked, up,
                     batcher, wire, calls, missed>>
  BY DEF Open, Ask
<1>2. ServerTypes' /\ ScreenTypes'
  BY <1>0, <1>1 DEF ServerTypes, ScreenTypes
<1>3. TypeOK'
  BY <1>0, <1>1, <1>2, TypesStay, TypePartsNext
<1>4. BatchesLeave' /\ BridgeInv'
  BY <1>0, <1>1, BridgeStays DEF BatchesLeave, BridgeInv
<1>5. opening'[c] = "asked" /\ \A d \in Clients \ {c} : opening'[d] = opening[d]
  BY <1>0, <1>1 DEF ServerTypes
<1>6. ClientInv(c)'
  <2>1. Pipe(c)' = Pipe(c) /\ Range(batcher'[c].queue) \subseteq Range(batcher[c].queue)
    BY <1>1, PipeStays
  <2>2. \A f \in Range(Pipe(c)) : ~IsSnapshot(f)
    <3>1. Range(Pipe(c)) = Range(wire[c]) \cup Range(batcher[c].queue)
      BY <1>0, PipeFacts
    <3>2. \A f \in Range(batcher[c].queue) : f.kind \in {"request", "end"}
      BY <1>0 DEF ClientInv, Alone
    <3> QED
      BY <1>1, <3>1, <3>2 DEF IsSnapshot, Range
  <2>3. \A f \in Range(Pipe(c)') : Truthful(c, f)'
    <3> SUFFICES ASSUME NEW f \in Range(Pipe(c)) PROVE Truthful(c, f)'
      BY <2>1
    <3>1. Truthful(c, f)
      BY <1>0 DEF ClientInv
    <3> QED
      BY <1>1, <2>2, <3>1 DEF Truthful, Fin, End, Closed, IsSnapshot, bridge
  <2>4. Alone(c)'
    BY <1>0, <1>1, <2>1 DEF ClientInv, Alone
  <2>5. Linked(c)'
    BY <1>0, <1>1, <1>5, <2>1 DEF ClientInv, Linked
  <2>6. Raised(c)'
    BY <1>0, <1>1 DEF ClientInv, Raised, Closed, bridge
  <2>7. ASSUME NEW q \in Questions, Closed(q)' PROVE Ending(c, q)'
    <3>1. Ending(c, q)
      BY <1>0, <1>1, <2>7 DEF ClientInv, Closed, bridge
    <3>2. Fin(q)' = Fin(q)
      BY <1>1 DEF Fin, End, bridge
    <3>3. Replayed(c, q) => Replayed(c, q)'
      BY <1>1 DEF Replayed
    <3> QED
      BY <1>1, <2>1, <2>2, <3>1, <3>2, <3>3 DEF Ending, bridge, IsSnapshot, Request
  <2>8. ASSUME NEW q \in InTable' \cap Approvals PROVE Showing(c, q)'
    BY <1>5 DEF Showing
  <2> QED
    BY <2>3, <2>4, <2>5, <2>6, <2>7, <2>8 DEF ClientInv
<1>7. ASSUME NEW d \in Clients \ {c} PROVE ClientInv(d)'
  <2>1. SameFor(d)
    BY <1>1, <1>5, PipeStays DEF SameFor
  <2> QED
    BY <1>0, <1>1, <2>1, Others DEF bridge
<1> QED
  BY <1>3, <1>4, <1>6, <1>7 DEF IInv

LEMMA LookAwayStep ==
    ASSUME IInv, NEW c \in Clients, LookAway(c)
    PROVE  IInv'
<1>0. /\ BridgeTypes /\ ServerTypes /\ PipeTypes /\ ScreenTypes /\ CallTypes
      /\ BatchesLeave /\ BridgeInv /\ \A d \in Clients : ClientInv(d)
  BY TypeParts DEF IInv
<1>1. /\ shown' = shown \ {c} /\ wanted' = wanted \ {c}
      /\ cards' = [cards EXCEPT ![c] = {}] /\ clicked' = [clicked EXCEPT ![c] = {}]
      /\ UNCHANGED <<bridge, server, slot, later, up, batcher, wire, calls, missed>>
  BY DEF LookAway
<1>2. ScreenTypes'
  BY <1>0, <1>1 DEF ScreenTypes
<1>3. TypeOK'
  BY <1>0, <1>1, <1>2, TypesStay, TypePartsNext
<1>4. BatchesLeave' /\ BridgeInv'
  BY <1>0, <1>1, BridgeStays DEF BatchesLeave, BridgeInv
<1>5. cards'[c] = {} /\ \A d \in Clients \ {c} : cards'[d] = cards[d]
  BY <1>0, <1>1 DEF ScreenTypes
<1>6. ClientInv(c)'
  <2>1. Pipe(c)' = Pipe(c) /\ Range(batcher'[c].queue) \subseteq Range(batcher[c].queue)
    BY <1>1, PipeStays
  <2>2. \A f \in Range(Pipe(c)') : Truthful(c, f)'
    <3> SUFFICES ASSUME NEW f \in Range(Pipe(c)) PROVE Truthful(c, f)'
      BY <2>1
    <3>1. Truthful(c, f)
      BY <1>0 DEF ClientInv
    <3> QED
      BY <1>1, <3>1 DEF Truthful, Fin, End, Closed, IsSnapshot, bridge, server
  <2>3. Alone(c)'
    BY <1>0, <1>1, <2>1 DEF ClientInv, Alone
  <2>4. Linked(c)'
    BY <1>0, <1>1, <2>1 DEF ClientInv, Linked, server
  <2>5. Raised(c)'
    BY <1>0, <1>1, <1>5 DEF ClientInv, Raised, Closed, bridge, server
  <2>6. ASSUME NEW q \in Questions, Closed(q)' PROVE Ending(c, q)'
    <3>1. Ending(c, q)
      BY <1>0, <1>1, <2>6 DEF ClientInv, Closed, bridge
    <3>2. Fin(q)' = Fin(q) /\ (Replayed(c, q)' <=> Replayed(c, q))
      BY <1>1 DEF Fin, End, Replayed, bridge, server
    <3> QED
      BY <1>1, <1>5, <2>1, <3>1, <3>2 DEF Ending, bridge, server, IsSnapshot, Request
  <2>7. ASSUME NEW q \in InTable' \cap Approvals PROVE Showing(c, q)'
    BY <1>1 DEF Showing
  <2> QED
    BY <2>2, <2>3, <2>4, <2>5, <2>6, <2>7 DEF ClientInv
<1>7. ASSUME NEW d \in Clients \ {c} PROVE ClientInv(d)'
  <2>1. SameFor(d)
    BY <1>1, <1>5, PipeStays DEF SameFor, server
  <2> QED
    BY <1>0, <1>1, <2>1, Others DEF bridge
<1> QED
  BY <1>3, <1>4, <1>6, <1>7 DEF IInv

LEMMA DecideStep ==
    ASSUME IInv, NEW c \in Clients, NEW q \in Questions, Decide(c, q, "yes")
    PROVE  IInv'
<1>0. /\ BridgeTypes /\ ServerTypes /\ PipeTypes /\ ScreenTypes /\ CallTypes
      /\ BatchesLeave /\ BridgeInv /\ \A d \in Clients : ClientInv(d)
  BY TypeParts DEF IInv
<1>1. /\ c \in up /\ q \in cards[c]
      /\ clicked' = [clicked EXCEPT ![c] = @ \cup {q}] /\ calls' = calls \cup {<<c, q, "yes">>}
      /\ UNCHANGED <<bridge, server, wanted, shown, cards, slot, later, up, batcher, wire, missed>>
  BY DEF Decide
<1>2. ScreenTypes' /\ CallTypes'
  BY <1>0, <1>1 DEF ScreenTypes, CallTypes, Verdicts
<1>3. TypeOK'
  BY <1>0, <1>1, <1>2, TypesStay, TypePartsNext
<1>4. BatchesLeave' /\ BridgeInv'
  BY <1>0, <1>1, BridgeStays DEF BatchesLeave, BridgeInv
<1>5. ASSUME NEW d \in Clients PROVE ClientInv(d)'
  <2>1. SameFor(d)
    BY <1>1, PipeStays DEF SameFor, server
  <2> QED
    BY <1>0, <1>1, <2>1, Others DEF bridge
<1> QED
  BY <1>3, <1>4, <1>5 DEF IInv

LEMMA AnswerAskStep ==
    ASSUME IInv, NEW c \in Clients, AnswerAsk(c, "yes")
    PROVE  IInv'
<1>0. /\ BridgeTypes /\ ServerTypes /\ PipeTypes /\ ScreenTypes /\ CallTypes
      /\ BatchesLeave /\ BridgeInv /\ \A d \in Clients : ClientInv(d)
  BY TypeParts DEF IInv
<1>1. /\ slot[c] # None /\ slot' = [slot EXCEPT ![c] = None]
      /\ calls' = IF c \in up THEN calls \cup {<<c, slot[c], "yes">>} ELSE calls
      /\ UNCHANGED <<bridge, server, wanted, shown, cards, later, clicked, up, batcher, wire, missed>>
  BY DEF AnswerAsk
<1>2. ScreenTypes' /\ CallTypes'
  BY <1>0, <1>1 DEF ScreenTypes, CallTypes, Verdicts, Questions
<1>3. TypeOK'
  BY <1>0, <1>1, <1>2, TypesStay, TypePartsNext
<1>4. BatchesLeave' /\ BridgeInv'
  BY <1>0, <1>1, BridgeStays DEF BatchesLeave, BridgeInv
<1>5. slot'[c] = None /\ None \notin Questions /\ \A d \in Clients \ {c} : slot'[d] = slot[d]
  BY <1>0, <1>1, CardsAssumption DEF ScreenTypes, Questions
<1>6. ClientInv(c)'
  <2>1. Pipe(c)' = Pipe(c) /\ Range(batcher'[c].queue) \subseteq Range(batcher[c].queue)
    BY <1>1, PipeStays
  <2>2. \A f \in Range(Pipe(c)') : Truthful(c, f)'
    <3> SUFFICES ASSUME NEW f \in Range(Pipe(c)) PROVE Truthful(c, f)'
      BY <2>1
    <3>1. Truthful(c, f)
      BY <1>0 DEF ClientInv
    <3> QED
      BY <1>1, <3>1 DEF Truthful, Fin, End, Closed, IsSnapshot, bridge, server
  <2>3. Alone(c)'
    BY <1>0, <1>1, <2>1 DEF ClientInv, Alone
  <2>4. Linked(c)'
    BY <1>0, <1>1, <2>1 DEF ClientInv, Linked, server
  <2>5. Raised(c)'
    BY <1>0, <1>1, <1>5 DEF ClientInv, Raised, Closed, bridge, server
  <2>6. ASSUME NEW q \in Questions, Closed(q)' PROVE Ending(c, q)'
    <3>1. Ending(c, q)
      BY <1>0, <1>1, <2>6 DEF ClientInv, Closed, bridge
    <3>2. Fin(q)' = Fin(q) /\ (Replayed(c, q)' <=> Replayed(c, q))
      BY <1>1 DEF Fin, End, Replayed, bridge, server
    <3> QED
      BY <1>1, <1>5, <2>1, <3>1, <3>2 DEF Ending, bridge, server, IsSnapshot, Request
  <2>7. ASSUME NEW q \in InTable' \cap Approvals PROVE Showing(c, q)'
    <3>1. Showing(c, q)
      BY <1>0, <1>1, <2>7 DEF ClientInv, InTable, bridge
    <3> QED
      BY <1>1, <2>1, <3>1 DEF Showing, IsSnapshot, Request, server
  <2> QED
    BY <2>2, <2>3, <2>4, <2>5, <2>6, <2>7 DEF ClientInv
<1>7. ASSUME NEW d \in Clients \ {c} PROVE ClientInv(d)'
  <2>1. SameFor(d)
    BY <1>1, <1>5, PipeStays DEF SameFor, server
  <2> QED
    BY <1>0, <1>1, <2>1, Others DEF bridge
<1> QED
  BY <1>3, <1>4, <1>6, <1>7 DEF IInv

LEMMA CaptureStep ==
    ASSUME IInv, NEW c \in Clients, Capture(c)
    PROVE  IInv'
<1>0. /\ BridgeTypes /\ ServerTypes /\ PipeTypes /\ ScreenTypes /\ CallTypes
      /\ BatchesLeave /\ BridgeInv /\ \A d \in Clients : ClientInv(d)
  BY TypeParts DEF IInv
<1>1. /\ opening[c] = "asked" /\ opening' = [opening EXCEPT ![c] = "captured"]
      /\ snap' = [snap EXCEPT ![c] = pending]
      /\ UNCHANGED <<bridge, attached, screen, up, batcher, wire, calls, missed>>
  BY DEF Capture
<1>2. ServerTypes'
  BY <1>0, <1>1 DEF ServerTypes, BridgeTypes
<1>3. TypeOK'
  BY <1>0, <1>1, <1>2, TypesStay, TypePartsNext
<1>4. BatchesLeave' /\ BridgeInv'
  BY <1>0, <1>1, BridgeStays DEF BatchesLeave, BridgeInv
<1>5. /\ opening'[c] = "captured" /\ snap'[c] = pending
      /\ \A d \in Clients \ {c} : opening'[d] = opening[d] /\ snap'[d] = snap[d]
  BY <1>0, <1>1 DEF ServerTypes
<1>6. ClientInv(c)'
  <2>1. Pipe(c)' = Pipe(c) /\ Range(batcher'[c].queue) \subseteq Range(batcher[c].queue)
    BY <1>1, PipeStays
  <2>2. \A f \in Range(Pipe(c)') : Truthful(c, f)'
    <3> SUFFICES ASSUME NEW f \in Range(Pipe(c)) PROVE Truthful(c, f)'
      BY <2>1
    <3>1. Truthful(c, f)
      BY <1>0 DEF ClientInv
    <3> QED
      BY <1>1, <3>1 DEF Truthful, Fin, End, Closed, IsSnapshot, bridge
  <2>3. Alone(c)'
    BY <1>0, <1>1, <2>1 DEF ClientInv, Alone
  <2>4. Linked(c)'
    BY <1>0, <1>1, <1>5, <2>1 DEF ClientInv, Linked, screen
  <2>5. \A q \in Range(pending) : verdict[q] = "open"
    BY <1>0 DEF BridgeTypes, InTable
  <2>6. Raised(c)'
    BY <1>0, <1>1, <1>5, <2>5 DEF ClientInv, Raised, Closed, bridge, screen
  <2>7. ASSUME NEW q \in Questions, Closed(q)' PROVE Ending(c, q)'
    <3>1. Ending(c, q) /\ q \notin Range(pending)
      BY <1>0, <1>1, <2>5, <2>7 DEF ClientInv, Closed, bridge, Verdicts
    <3>2. Fin(q)' = Fin(q) /\ (Replayed(c, q)' <=> Replayed(c, q))
      BY <1>1, <1>5 DEF Fin, End, Replayed, bridge
    <3> QED
      BY <1>1, <1>5, <2>1, <3>1, <3>2 DEF Ending, bridge, screen, IsSnapshot, Request
  <2>8. ASSUME NEW q \in InTable' \cap Approvals PROVE Showing(c, q)'
    BY <1>5 DEF Showing
  <2> QED
    BY <2>2, <2>3, <2>4, <2>6, <2>7, <2>8 DEF ClientInv
<1>7. ASSUME NEW d \in Clients \ {c} PROVE ClientInv(d)'
  <2>1. SameFor(d)
    BY <1>1, <1>5, PipeStays DEF SameFor, screen
  <2> QED
    BY <1>0, <1>1, <2>1, Others DEF bridge
<1> QED
  BY <1>3, <1>4, <1>6, <1>7 DEF IInv

\* An end is forgotten when no open and no frame is under way.
LEMMA ExpireStep ==
    ASSUME IInv, NEW p \in Questions, Expire(p)
    PROVE  IInv'
<1>0. /\ BridgeTypes /\ ServerTypes /\ PipeTypes /\ ScreenTypes /\ CallTypes
      /\ BatchesLeave /\ BridgeInv /\ \A d \in Clients : ClientInv(d)
  BY TypeParts DEF IInv
<1>1. /\ \A c \in Clients : opening[c] = "no" /\ wire[c] = <<>> /\ batcher[c].queue = <<>>
      /\ recent' = Only(recent, Questions \ {p})
      /\ missed' = [c \in Clients |-> IF c \in attached THEN missed[c] ELSE missed[c] \cup ({p} \cap Asks)]
      /\ UNCHANGED <<pending, verdict, told, timers, server, screen, up, batcher, wire, calls>>
  BY DEF Expire
<1>2. recent' \in Seq(Questions) /\ Range(recent') = Range(recent) \ {p} /\ Range(recent) \subseteq Questions
  <2>1. recent \in Seq(Questions)
    BY <1>0 DEF BridgeTypes
  <2>2. Range(recent) \subseteq Questions
    BY <2>1, ElementOfSeq, LenProperties DEF Range
  <2>3. Only(recent, Questions \ {p}) \in Seq(Questions)
    BY <2>1, OnlySelects
  <2>4. Range(Only(recent, Questions \ {p})) = Range(recent) \cap (Questions \ {p})
    BY <2>1, OnlySelects
  <2> QED
    BY <1>1, <2>2, <2>3, <2>4
<1>3. BridgeTypes' /\ CallTypes'
  BY <1>0, <1>1, <1>2 DEF BridgeTypes, CallTypes, InTable
<1>4. TypeOK'
  BY <1>0, <1>1, <1>3, TypesStay, TypePartsNext
<1>5. BatchesLeave' /\ BridgeInv'
  BY <1>0, <1>1, <1>2 DEF BatchesLeave, BridgeInv, Closed
<1>6. ASSUME NEW c \in Clients PROVE ClientInv(c)'
  <2>0. ClientInv(c)
    BY <1>0
  <2>1. /\ Pipe(c)' = Pipe(c) /\ Range(batcher'[c].queue) \subseteq Range(batcher[c].queue)
        /\ Pipe(c) = <<>>
    BY <1>0, <1>1, PipeStays, PipeFacts
  <2>2. Range(Pipe(c)) = {} /\ DOMAIN Pipe(c) = {}
    BY <2>1 DEF Range
  <2>3. opening[c] = "no" /\ opening'[c] = "no" /\ snap[c] = <<>> /\ Range(snap[c]) = {}
    BY <1>1, <2>0 DEF ClientInv, Linked, server, Range
  <2>4. /\ \A q \in missed[c] : q \in missed'[c]
        /\ c \notin attached /\ p \in Asks => p \in missed'[c]
    BY <1>1
  <2>5. \A f \in Range(Pipe(c)') : Truthful(c, f)'
    BY <2>1, <2>2
  <2>6. Alone(c)'
    BY <2>0, <1>1, <2>1 DEF ClientInv, Alone
  <2>7. Linked(c)'
    BY <2>0, <1>1, <2>1 DEF ClientInv, Linked, server, screen
  <2>8. Raised(c)'
    BY <2>0, <1>1 DEF ClientInv, Raised, Closed, server, screen
  <2>9. ASSUME NEW q \in Questions, Closed(q)' PROVE Ending(c, q)'
    <3>1. Ending(c, q)
      BY <2>0, <1>1, <2>9 DEF ClientInv, Closed
    <3>2. Fin(q)' = Fin(q) /\ ~Replayed(c, q) /\ ~Replayed(c, q)'
      BY <1>1, <2>3 DEF Fin, End, Replayed
    <3>3. Follows(Pipe(c)', Request(q), Fin(q))
      BY <2>1, <2>2 DEF Follows
    <3>4. c \in up /\ q \in cards[c] => c \in wanted
      BY <2>2, <3>1, <3>2 DEF Ending
    <3>5. q = slot[c] => q \in missed'[c] \/ (c \notin attached /\ q \in Range(recent'))
      <4> SUFFICES ASSUME q = slot[c], q \notin missed[c] PROVE q \in missed'[c] \/ (c \notin attached /\ q \in Range(recent'))
        BY <2>4
      <4>1. c \notin attached /\ q \in Range(recent)
        BY <2>2, <3>1, <3>2 DEF Ending
      <4>2. q \in Asks
        BY CardsAssumption, <1>0 DEF ScreenTypes, Questions
      <4> QED
        BY <1>2, <2>4, <4>1, <4>2
    <3> QED
      BY <1>1, <2>1, <2>2, <2>3, <3>2, <3>3, <3>4, <3>5 DEF Ending, server, screen, IsSnapshot, Request
  <2>10. ASSUME NEW q \in InTable' \cap Approvals PROVE Showing(c, q)'
    <3>1. Showing(c, q)
      BY <2>0, <1>1, <2>10 DEF ClientInv, InTable
    <3> QED
      BY <1>1, <2>1, <3>1 DEF Showing, IsSnapshot, Request, server, screen
  <2> QED
    BY <2>5, <2>6, <2>7, <2>8, <2>9, <2>10 DEF ClientInv
<1> QED
  BY <1>4, <1>5, <1>6 DEF IInv

-----------------------------------------------------------------------------
(* The steps that push.                                                    *)

\* What a client is going to read.
LEMMA Readable ==
    ASSUME PipeTypes, NEW c \in Clients, NEW f \in Range(Pipe(c))
    PROVE  /\ f \in Frames
           /\ f.kind \in {"request", "done", "end"} => f.q \in Questions
           /\ IsSnapshot(f) => f.kind = "snapshot" /\ Range(f.pending) \subseteq Questions
<1>1. Pipe(c) \in Seq(Frames)
  BY PipeFacts
<1>2. f \in Frames
  BY <1>1, ElementOfSeq, LenProperties DEF Range
<1>3. IsSnapshot(f) => f.pending \in Seq(Questions)
  BY <1>2, FrameKinds DEF IsSnapshot
<1>4. ASSUME IsSnapshot(f) PROVE Range(f.pending) \subseteq Questions
  BY <1>3, <1>4, ElementOfSeq, LenProperties DEF Range
<1> QED
  BY <1>2, <1>4, FrameKinds DEF IsSnapshot

\* The frame h goes to those attached, a reply of R goes to one of the others too.
Told(c, h, R) ==
    /\ Range(Pipe(c)) \subseteq Range(Pipe(c)') /\ Range(Pipe(c)') \subseteq Range(Pipe(c)) \cup {h} \cup R
    /\ c \in attached => h \in Range(Pipe(c)')
    /\ c \notin attached => Range(Pipe(c)') \subseteq Range(Pipe(c)) \cup R
    /\ c \notin up /\ Pipe(c) = <<>> => Pipe(c)' = <<>>
    /\ Range(batcher'[c].queue) \subseteq Range(batcher[c].queue) \cup {h}
    /\ \A f, g \in Frames :
          f \notin {h} \cup R /\ ((c \in attached /\ g = h) \/ Follows(Pipe(c), f, g)) => Follows(Pipe(c)', f, g)
    /\ OneSnapshot(Pipe(c)) => OneSnapshot(Pipe(c)')

LEMMA TellAll ==
    ASSUME PipeTypes, ServerTypes, NEW h \in Frames, ~IsSnapshot(h),
           NEW R \in SUBSET Frames, \A f \in R : ~IsSnapshot(f),
           NEW reply \in [Clients -> Seq(Frames)],
           \A c \in Clients : Range(reply[c]) \subseteq R /\ (c \notin up => reply[c] = <<>>),
           Push(attached, <<h>>, reply)
    PROVE  PipeTypes' /\ (BatchesLeave => BatchesLeave') /\ \A c \in Clients : Told(c, h, R)
<1>1. <<h>> \in Seq(Frames) /\ Range(<<h>>) = {h} /\ Range(<<>>) = {}
  BY Shortest
<1> DEFINE hs == <<h>>
<1>2. /\ PipeTypes' /\ (BatchesLeave => BatchesLeave')
      /\ \A c \in Clients : c \in attached => Grown(c, hs, reply[c])
      /\ \A c \in Clients \ attached : Grown(c, <<>>, reply[c])
      /\ \A c \in Clients \ attached : reply[c] = <<>> => wire'[c] = wire[c] /\ batcher'[c] = batcher[c]
  <2>1. hs \in Seq(Frames) /\ Push(attached, hs, reply)
    BY <1>1
  <2> HIDE DEF hs
  <2> QED
    BY <2>1, PushFacts
<1>3. hs \in Seq(Frames) /\ Range(hs) = {h}
  BY <1>1
<1> HIDE DEF hs
<1>4. ASSUME NEW c \in Clients PROVE Told(c, h, R)
  <2> DEFINE r == reply[c]
  <2>0. Range(r) \subseteq R /\ (c \notin up => r = <<>>) /\ (\A f \in Range(r) : ~IsSnapshot(f))
    OBVIOUS
  <2>1. CASE c \in attached
    <3>1. Grown(c, hs, r) /\ c \in up
      BY <1>2, <2>1 DEF ServerTypes
    <3> HIDE DEF r
    <3>2. \A f \in Range(hs) : ~IsSnapshot(f)
      BY <1>3
    <3> QED
      BY <1>3, <2>0, <2>1, <3>1, <3>2 DEF Grown, GrownTo, Told
  <2>2. CASE c \notin attached
    <3>1. Grown(c, <<>>, r) /\ (r = <<>> => Pipe(c)' = Pipe(c))
      BY <1>2, <2>2, PipeStays
    <3> HIDE DEF r
    <3> QED
      BY <1>1, <2>0, <2>2, <3>1 DEF Grown, GrownTo, Told
  <2> QED
    BY <2>1, <2>2
<1> QED
  BY <1>2, <1>4

LEMMA Replies ==
    ASSUME NEW c \in Clients, NEW f \in Frames
    PROVE  /\ NoReply \in [Clients -> Seq(Frames)] /\ \A d \in Clients : NoReply[d] = <<>>
           /\ Reply(c, f) \in [Clients -> Seq(Frames)] /\ Reply(c, f)[c] = <<f>>
           /\ \A d \in Clients \ {c} : Reply(c, f)[d] = <<>>
           /\ Range(<<>>) = {} /\ Range(<<f>>) = {f} /\ <<f>> \in Seq(Frames) /\ Len(<<f>>) = 1
<1>1. <<>> \in Seq(Frames) /\ Range(<<>>) = {} /\ <<f>> \in Seq(Frames) /\ Range(<<f>>) = {f}
  BY Shortest
<1>2. Len(<<f>>) = 1
  OBVIOUS
<1> DEFINE x == <<f>>
<1>3. Reply(c, f) = [NoReply EXCEPT ![c] = x]
  BY DEF Reply
<1>4. x \in Seq(Frames) /\ x = <<f>>
  BY <1>1
<1> HIDE DEF x
<1>5. /\ Reply(c, f) \in [Clients -> Seq(Frames)] /\ Reply(c, f)[c] = x
      /\ \A d \in Clients \ {c} : Reply(c, f)[d] = <<>>
      /\ NoReply \in [Clients -> Seq(Frames)] /\ \A d \in Clients : NoReply[d] = <<>>
  BY <1>1, <1>3, <1>4 DEF NoReply
<1> QED
  BY <1>1, <1>2, <1>4, <1>5

LEMMA RaiseStep ==
    ASSUME IInv, NEW q \in Questions, Raise(q)
    PROVE  IInv'
<1> DEFINE h == Request(q)
<1>0. /\ BridgeTypes /\ ServerTypes /\ PipeTypes /\ ScreenTypes /\ CallTypes
      /\ BatchesLeave /\ BridgeInv /\ \A d \in Clients : ClientInv(d)
  BY TypeParts DEF IInv
<1>1. /\ verdict[q] = "new" /\ verdict' = [verdict EXCEPT ![q] = "open"]
      /\ pending' = Append(pending, q) /\ timers' = timers \cup {q}
      /\ Push(attached, <<h>>, NoReply)
      /\ UNCHANGED <<told, recent, server, screen, up, calls, missed>>
  BY DEF Raise
<1>2. /\ verdict'[q] = "open" /\ \A p \in Questions \ {q} : verdict'[p] = verdict[p]
      /\ verdict' \in [Questions -> Verdicts \cup {"new", "open"}]
  BY <1>0, <1>1 DEF BridgeTypes
<1>3. h \in Frames /\ h.kind = "request" /\ h.q = q /\ ~IsSnapshot(h)
  BY FrameKinds DEF IsSnapshot
<1>4. PipeTypes' /\ BatchesLeave' /\ \A c \in Clients : Told(c, h, {})
  <2> HIDE DEF h
  <2>1. NoReply \in [Clients -> Seq(Frames)] /\ \A d \in Clients : NoReply[d] = <<>>
    <3>1. <<>> \in Seq(Frames)
      BY Shortest
    <3> QED
      BY <3>1 DEF NoReply
  <2>2. \A d \in Clients : Range(NoReply[d]) \subseteq {} /\ (d \notin up => NoReply[d] = <<>>)
    BY <2>1, Shortest
  <2>3. {} \in SUBSET Frames /\ \A f \in {} : ~IsSnapshot(f)
    OBVIOUS
  <2> QED
    BY <1>0, <1>1, <1>3, <2>1, <2>2, <2>3, TellAll
<1>5. BridgeTypes'
  <2>1. pending \in Seq(Questions) /\ q \notin Range(pending)
    BY <1>0, <1>1 DEF BridgeTypes, InTable
  <2>2. Once(pending)
    BY <1>0 DEF BridgeTypes, IsInjective, Once
  <2>3. pending' \in Seq(Questions) /\ Range(pending') = Range(pending) \cup {q} /\ Once(pending')
    BY <1>1, <2>1, <2>2, AppendFacts
  <2>4. IsInjective(pending')
    BY <2>3 DEF IsInjective, Once
  <2>5. Range(pending') = {p \in Questions : verdict'[p] = "open"}
    BY <1>0, <1>2, <2>3 DEF BridgeTypes, InTable
  <2>6. timers' = Range(pending')
    BY <1>0, <1>1, <2>3 DEF BridgeTypes, InTable
  <2> QED
    BY <1>0, <1>1, <1>2, <2>3, <2>4, <2>5, <2>6 DEF BridgeTypes, InTable
<1>6. TypeOK'
  BY <1>0, <1>1, <1>4, <1>5, TypesStay, TypePartsNext
<1>7. /\ \A p \in Questions : /\ Closed(p)' <=> Closed(p)
                              /\ Closed(p) => p # q /\ Fin(p)' = Fin(p)
                              /\ verdict[p] # "new" => verdict'[p] # "new"
      /\ InTable' = InTable \cup {q} /\ \A p \in Range(recent) : p \in Questions
  <2>1. InTable' = InTable \cup {q}
    BY <1>0, <1>2, <1>5 DEF BridgeTypes
  <2>2. recent \in Seq(Questions)
    BY <1>0 DEF BridgeTypes
  <2>3. \A p \in Range(recent) : p \in Questions
    BY <2>2, ElementOfSeq, LenProperties DEF Range
  <2> QED
    BY <1>1, <1>2, <2>1, <2>3 DEF Closed, Verdicts, Fin, End
<1>8. BridgeInv'
  <2>1. \A p \in Questions : verdict'[p] \in {"new", "open"} => told'[p] = "waits"
    BY <1>0, <1>1, <1>2 DEF BridgeInv
  <2>2. \A p \in Questions : told'[p] \in {"waits", verdict'[p]}
    BY <1>0, <1>1, <1>2 DEF BridgeInv
  <2> QED
    BY <1>0, <1>1, <1>7, <2>1, <2>2 DEF BridgeInv
<1>9. ASSUME NEW c \in Clients PROVE ClientInv(c)'
  <2> HIDE DEF h
  <2>0. ClientInv(c) /\ Told(c, h, {})
    BY <1>0, <1>4
  <2>1. /\ Range(Pipe(c)) \subseteq Range(Pipe(c)') /\ Range(Pipe(c)') \subseteq Range(Pipe(c)) \cup {h}
        /\ \A f \in Range(Pipe(c)') : IsSnapshot(f) => f \in Range(Pipe(c))
    BY <1>3, <2>0 DEF Told
  <2>2. \A f \in Range(Pipe(c)') : Truthful(c, f)'
    <3> SUFFICES ASSUME NEW f \in Range(Pipe(c)') PROVE Truthful(c, f)'
      OBVIOUS
    <3>1. CASE f \in Range(Pipe(c))
      <4>1. Truthful(c, f)
        BY <2>0, <3>1 DEF ClientInv
      <4>2. /\ f.kind \in {"request", "done", "end"} => f.q \in Questions
            /\ IsSnapshot(f) => Range(f.pending) \subseteq Questions
        BY <1>0, <3>1, Readable
      <4>3. f.kind = "end" => Closed(f.q)
        BY <1>0, <4>1 DEF Truthful, BridgeInv
      <4> QED
        BY <1>1, <1>7, <4>1, <4>2, <4>3 DEF Truthful, server, screen, IsSnapshot
    <3>2. CASE f = h /\ f \notin Range(Pipe(c))
      <4>1. c \in attached
        BY <2>0, <3>2 DEF Told
      <4> QED
        BY <1>1, <1>2, <1>3, <3>2, <4>1 DEF Truthful, server, IsSnapshot
    <3> QED
      BY <2>1, <3>1, <3>2
  <2>3. Alone(c)'
    <3>1. OneSnapshot(Pipe(c)')
      BY <2>0 DEF ClientInv, Alone, Told
    <3>2. \A f \in Range(batcher'[c].queue) : f.kind \in {"request", "end"}
      BY <1>3, <2>0 DEF ClientInv, Alone, Told
    <3> QED
      BY <3>1, <3>2 DEF Alone
  <2>4. Linked(c)'
    <3>1. c \notin up => Pipe(c)' = <<>>
      BY <2>0 DEF ClientInv, Linked, Told
    <3> QED
      BY <1>1, <2>0, <2>1, <3>1 DEF ClientInv, Linked, server, screen, IsSnapshot
  <2>5. Raised(c)'
    <3>1. cards[c] \subseteq Questions /\ (slot[c] # None => slot[c] \in Questions)
      BY <1>0 DEF ScreenTypes, Questions
    <3>2. later[c] \subseteq Questions /\ snap[c] \in Seq(Questions)
      BY <1>0 DEF ScreenTypes, ServerTypes
    <3>3. Range(snap[c]) \subseteq Questions
      BY <3>2, ElementOfSeq, LenProperties DEF Range
    <3> QED
      BY <1>1, <1>7, <2>0, <3>1, <3>2, <3>3 DEF ClientInv, Raised, server, screen
  <2>6. ASSUME NEW p \in Questions, Closed(p)' PROVE Ending(c, p)'
    <3>1. Ending(c, p) /\ p # q /\ Fin(p)' = Fin(p) /\ Closed(p)
      BY <1>7, <2>0, <2>6 DEF ClientInv
    <3>2. Replayed(c, p)' <=> Replayed(c, p)
      BY <1>1 DEF Replayed, server
    <3>3. Fin(p) \in Frames /\ Request(p) \in Frames /\ Request(p) # h
      BY <3>1, FrameKinds DEF Fin, Closed, h
    <3>4. Follows(Pipe(c)', Request(p), Fin(p))
      BY <2>0, <3>1, <3>3 DEF Told, Ending
    <3>5. ASSUME NEW f \in Range(Pipe(c)'), IsSnapshot(f), p \in Range(f.pending)
          PROVE  Follows(Pipe(c)', f, Fin(p)) \/ Replayed(c, p)
      <4>1. f \in Range(Pipe(c)) /\ f \in Frames /\ f # h
        BY <1>0, <1>3, <2>1, <3>5, Readable
      <4>2. Follows(Pipe(c), f, Fin(p)) \/ Replayed(c, p)
        BY <3>1, <3>5, <4>1 DEF Ending
      <4> QED
        BY <2>0, <3>3, <4>1, <4>2 DEF Told
    <3> QED
      BY <1>1, <2>1, <3>1, <3>2, <3>4, <3>5 DEF Ending, server, screen, IsSnapshot, Request
  <2>7. ASSUME NEW p \in InTable' \cap Approvals PROVE Showing(c, p)'
    <3> SUFFICES ASSUME c \in up, opening[c] = "no"
                 PROVE  /\ c \in wanted => \E f \in Range(Pipe(c)') :
                             IsSnapshot(f) /\ (p \in Range(f.pending) \/ Follows(Pipe(c)', f, Request(p)))
                        /\ c \in shown \ wanted => p \in cards[c] \/ Request(p) \in Range(Pipe(c)')
      BY <1>1 DEF Showing, server, screen, IsSnapshot, Request
    <3>1. c \in shown \cup wanted => c \in attached
      BY <2>0 DEF ClientInv, Linked
    <3>2. p \in Questions /\ Request(p) \in Frames
      BY FrameKinds DEF Questions
    <3>3. ASSUME NEW f \in Range(Pipe(c)), IsSnapshot(f), c \in attached,
                 p = q \/ Follows(Pipe(c), f, Request(p))
          PROVE  Follows(Pipe(c)', f, Request(p))
      <4>1. f \in Frames /\ f # h
        BY <1>0, <1>3, <3>3, Readable
      <4> QED
        BY <2>0, <3>2, <3>3, <4>1 DEF Told, h
    <3>4. CASE p = q
      <4>1. c \in wanted => \E f \in Range(Pipe(c)) : IsSnapshot(f)
        BY <2>0 DEF ClientInv, Linked
      <4>2. c \in attached => Request(p) \in Range(Pipe(c)')
        BY <2>0, <3>4 DEF Told, h
      <4> QED
        BY <2>1, <3>1, <3>3, <3>4, <4>1, <4>2
    <3>5. CASE p # q
      <4>1. Showing(c, p)
        BY <1>7, <2>0, <3>5 DEF ClientInv
      <4> QED
        BY <2>1, <3>1, <3>3, <4>1 DEF Showing
    <3> QED
      BY <3>4, <3>5
  <2> QED
    BY <2>2, <2>3, <2>4, <2>5, <2>6, <2>7 DEF ClientInv
<1> QED
  BY <1>4, <1>6, <1>8, <1>9 DEF IInv

\* The end goes behind whatever shows the question to a client attached, and is
\* remembered for the others.
LEMMA SettleStep ==
    ASSUME IInv, NEW q \in InTable, NEW v \in Verdicts, NEW reply \in [Clients -> Seq(Frames)],
           \A c \in Clients : Range(reply[c]) \subseteq {Done(q)} /\ (c \notin up => reply[c] = <<>>),
           Settle(q, v, reply), UNCHANGED <<server, screen, up, missed>>, calls' \subseteq calls
    PROVE  IInv'
<1> DEFINE h == End(q, v)
           d == Done(q)
<1>0. /\ BridgeTypes /\ ServerTypes /\ PipeTypes /\ ScreenTypes /\ CallTypes
      /\ BatchesLeave /\ BridgeInv /\ \A c \in Clients : ClientInv(c)
  BY TypeParts DEF IInv
<1>1. /\ pending' = Only(pending, Questions \ {q}) /\ timers' = timers \ {q}
      /\ verdict' = [verdict EXCEPT ![q] = v]
      /\ told' = IF told[q] = "waits" THEN [told EXCEPT ![q] = v] ELSE told
      /\ recent' = Append(recent, q)
      /\ Push(attached, <<h>>, reply)
  BY DEF Settle, Remember
<1>2. q \in Questions /\ verdict[q] = "open"
  BY <1>0 DEF BridgeTypes
<1>3. /\ verdict'[q] = v /\ \A p \in Questions \ {q} : verdict'[p] = verdict[p]
      /\ verdict' \in [Questions -> Verdicts \cup {"new", "open"}]
  BY <1>0, <1>1, <1>2 DEF BridgeTypes
<1>4. /\ h \in Frames /\ h.kind = "end" /\ h.q = q /\ ~IsSnapshot(h)
      /\ d \in Frames /\ d.kind = "done" /\ d.q = q /\ ~IsSnapshot(d)
  BY <1>2, FrameKinds DEF IsSnapshot
<1>5. PipeTypes' /\ BatchesLeave' /\ \A c \in Clients : Told(c, h, {d})
  <2> HIDE DEF h
  <2>1. \A c \in Clients : Range(reply[c]) \subseteq {d} /\ (c \notin up => reply[c] = <<>>)
    OBVIOUS
  <2> HIDE DEF d
  <2>2. {d} \in SUBSET Frames /\ \A f \in {d} : ~IsSnapshot(f)
    BY <1>4
  <2> QED
    BY <1>0, <1>1, <1>4, <2>1, <2>2, TellAll
<1>6. /\ recent' \in Seq(Questions) /\ Range(recent') = Range(recent) \cup {q}
      /\ \A p \in Range(recent) : p \in Questions
  <2>1. recent \in Seq(Questions)
    BY <1>0 DEF BridgeTypes
  <2>2. \A p \in Range(recent) : p \in Questions
    BY <2>1, ElementOfSeq, LenProperties DEF Range
  <2> QED
    BY <1>1, <1>2, <2>1, <2>2, AppendFacts
<1>7. BridgeTypes'
  <2>1. pending \in Seq(Questions) /\ Once(pending)
    BY <1>0 DEF BridgeTypes, IsInjective, Once
  <2>2. Only(pending, Questions \ {q}) \in Seq(Questions)
    BY <2>1, OnlySelects
  <2>3. Range(Only(pending, Questions \ {q})) = Range(pending) \cap (Questions \ {q})
    BY <2>1, OnlySelects
  <2>4. Once(Only(pending, Questions \ {q}))
    BY <2>1, OnlySelects
  <2>5. IsInjective(pending')
    BY <1>1, <2>4 DEF IsInjective, Once
  <2>6. Range(pending') = {p \in Questions : verdict'[p] = "open"}
    BY <1>0, <1>1, <1>3, <2>3 DEF BridgeTypes, InTable, Verdicts
  <2>7. timers' = Range(pending')
    BY <1>0, <1>1, <2>3 DEF BridgeTypes, InTable
  <2>8. told' \in [Questions -> Verdicts \cup {"waits"}]
    BY <1>0, <1>1, <1>2 DEF BridgeTypes
  <2> QED
    BY <1>1, <1>3, <1>6, <2>2, <2>5, <2>6, <2>7, <2>8 DEF BridgeTypes, InTable
<1>8. TypeOK'
  <2>1. CallTypes'
    BY <1>0 DEF CallTypes
  <2> QED
    BY <1>0, <1>5, <1>7, <2>1, TypesStay, TypePartsNext
<1>9. /\ \A p \in Questions : /\ Closed(p)' <=> Closed(p) \/ p = q
                              /\ Closed(p) => p # q /\ Fin(p)' = Fin(p)
                              /\ verdict[p] # "new" => verdict'[p] # "new"
      /\ Fin(q)' = h /\ InTable' = InTable \ {q}
  <2>1. InTable' = InTable \ {q}
    BY <1>0, <1>2, <1>3, <1>7 DEF BridgeTypes, Verdicts
  <2> QED
    BY <1>2, <1>3, <2>1 DEF Closed, Verdicts, Fin, End
<1>10. BridgeInv'
  <2>1. told[q] = "waits" /\ told' = [told EXCEPT ![q] = v]
    BY <1>0, <1>1, <1>2 DEF BridgeInv
  <2>2. told'[q] = v /\ \A p \in Questions \ {q} : told'[p] = told[p]
    BY <1>0, <1>2, <2>1 DEF BridgeTypes
  <2>3. \A p \in Questions : verdict'[p] \in {"new", "open"} => told'[p] = "waits"
    BY <1>0, <1>3, <2>2 DEF BridgeInv, Verdicts
  <2>4. \A p \in Questions : told'[p] \in {"waits", verdict'[p]}
    BY <1>0, <1>3, <2>2 DEF BridgeInv
  <2>5. \A p \in Range(recent') : Closed(p)'
    BY <1>0, <1>2, <1>6, <1>9 DEF BridgeInv
  <2>6. \A x \in calls' : x[1] \in up'
    BY <1>0 DEF BridgeInv
  <2> QED
    BY <2>3, <2>4, <2>5, <2>6 DEF BridgeInv
<1>11. ASSUME NEW c \in Clients PROVE ClientInv(c)'
  <2> HIDE DEF h, d
  <2>0. ClientInv(c) /\ Told(c, h, {d})
    BY <1>0, <1>5
  <2>1. /\ Range(Pipe(c)) \subseteq Range(Pipe(c)') /\ Range(Pipe(c)') \subseteq Range(Pipe(c)) \cup {h, d}
        /\ \A f \in Range(Pipe(c)') : IsSnapshot(f) => f \in Range(Pipe(c))
    BY <1>4, <2>0 DEF Told
  <2>2. \A f \in Range(Pipe(c)') : Truthful(c, f)'
    <3> SUFFICES ASSUME NEW f \in Range(Pipe(c)') PROVE Truthful(c, f)'
      OBVIOUS
    <3>1. CASE f \in Range(Pipe(c))
      <4>1. Truthful(c, f)
        BY <2>0, <3>1 DEF ClientInv
      <4>2. /\ f.kind \in {"request", "done", "end"} => f.q \in Questions
            /\ IsSnapshot(f) => Range(f.pending) \subseteq Questions
        BY <1>0, <3>1, Readable
      <4>3. f.kind = "end" => Closed(f.q)
        BY <1>0, <4>1 DEF Truthful, BridgeInv
      <4> QED
        BY <1>6, <1>9, <4>1, <4>2, <4>3 DEF Truthful, server, screen, IsSnapshot
    <3>2. CASE f = h
      BY <1>4, <1>6, <1>9, <3>2 DEF Truthful, IsSnapshot
    <3>3. CASE f = d
      BY <1>2, <1>4, <1>9, <3>3 DEF Truthful, IsSnapshot
    <3> QED
      BY <2>1, <3>1, <3>2, <3>3
  <2>3. Alone(c)'
    <3>1. OneSnapshot(Pipe(c)')
      BY <2>0 DEF ClientInv, Alone, Told
    <3>2. \A f \in Range(batcher'[c].queue) : f.kind \in {"request", "end"}
      BY <1>4, <2>0 DEF ClientInv, Alone, Told
    <3> QED
      BY <3>1, <3>2 DEF Alone
  <2>4. Linked(c)'
    <3>1. c \notin up => Pipe(c)' = <<>>
      BY <2>0 DEF ClientInv, Linked, Told
    <3> QED
      BY <2>0, <2>1, <3>1 DEF ClientInv, Linked, server, screen, IsSnapshot
  <2>5. Raised(c)'
    <3>1. cards[c] \subseteq Questions /\ (slot[c] # None => slot[c] \in Questions)
      BY <1>0 DEF ScreenTypes, Questions
    <3>2. later[c] \subseteq Questions /\ snap[c] \in Seq(Questions)
      BY <1>0 DEF ScreenTypes, ServerTypes
    <3>3. Range(snap[c]) \subseteq Questions
      BY <3>2, ElementOfSeq, LenProperties DEF Range
    <3>4. cards'[c] = cards[c] /\ snap'[c] = snap[c] /\ slot'[c] = slot[c] /\ later'[c] = later[c]
      BY DEF server, screen
    <3>5. Raised(c)
      BY <2>0 DEF ClientInv
    <3>6. \A p \in cards[c] \cup Range(snap[c]) : verdict'[p] # "new"
      BY <1>9, <3>1, <3>3, <3>5 DEF Raised
    <3>7. slot[c] # None => verdict'[slot[c]] # "new"
      BY <1>9, <3>1, <3>5 DEF Raised
    <3>8. \A p \in later[c] : Closed(p)'
      BY <1>9, <3>2, <3>5 DEF Raised
    <3> QED
      BY <3>4, <3>6, <3>7, <3>8 DEF Raised
  <2>6. ASSUME NEW p \in Questions, Closed(p), p # q PROVE Ending(c, p)'
    <3>1. Ending(c, p) /\ Fin(p)' = Fin(p)
      BY <1>9, <2>0, <2>6 DEF ClientInv
    <3>2. Replayed(c, p) => Replayed(c, p)'
      BY <1>6 DEF Replayed, server
    <3>3. Fin(p) \in Frames /\ Request(p) \in Frames /\ Request(p) \notin {h, d}
      BY <1>4, <2>6, FrameKinds DEF Fin, Closed
    <3>4. Follows(Pipe(c)', Request(p), Fin(p))
      BY <2>0, <3>1, <3>3 DEF Told, Ending
    <3>5. ASSUME NEW f \in Range(Pipe(c)'), IsSnapshot(f), p \in Range(f.pending)
          PROVE  Follows(Pipe(c)', f, Fin(p)) \/ Replayed(c, p)
      <4>1. f \in Range(Pipe(c)) /\ f \in Frames /\ f \notin {h, d}
        BY <1>0, <1>4, <2>1, <3>5, Readable
      <4>2. Follows(Pipe(c), f, Fin(p)) \/ Replayed(c, p)
        BY <3>1, <3>5, <4>1 DEF Ending
      <4> QED
        BY <2>0, <3>3, <4>1, <4>2 DEF Told
    <3> QED
      BY <1>6, <2>1, <3>1, <3>2, <3>4, <3>5 DEF Ending, server, screen, IsSnapshot, Request
  <2>7. Ending(c, q)'
    <3>1. Fin(q)' = h /\ q \in Range(recent') /\ Request(q) \in Frames /\ Request(q) \notin {h, d}
      BY <1>2, <1>4, <1>6, <1>9, FrameKinds
    <3>2. c \in attached => h \in Range(Pipe(c)')
      BY <2>0 DEF Told
    <3>3. ASSUME NEW f \in Frames, f \notin {h, d}, c \in attached PROVE Follows(Pipe(c)', f, h)
      BY <1>4, <2>0, <3>3 DEF Told
    <3>4. Follows(Pipe(c)', Request(q), h)
      <4>1. CASE c \in attached
        BY <3>1, <3>3, <4>1
      <4>2. CASE c \notin attached
        <5>1. Request(q) \notin Range(Pipe(c))
          BY <1>2, <2>0, <4>2, FrameKinds DEF ClientInv, Truthful
        <5>2. Request(q) \notin Range(Pipe(c)')
          BY <2>1, <3>1, <5>1
        <5> QED
          BY <5>2 DEF Follows, Range
      <4> QED
        BY <4>1, <4>2
    <3>5. ASSUME NEW f \in Range(Pipe(c)'), IsSnapshot(f)
          PROVE  Follows(Pipe(c)', f, h) \/ (opening[c] # "no" /\ q \in Range(recent'))
      <4>1. f \in Range(Pipe(c)) /\ f \in Frames /\ f \notin {h, d}
        BY <1>0, <1>4, <2>1, <3>5, Readable
      <4>2. opening[c] = "replied" \/ c \in attached
        BY <2>0, <3>5, <4>1 DEF ClientInv, Truthful
      <4> QED
        BY <3>1, <3>3, <4>1, <4>2
    <3>6. c \in up /\ q \in cards[c] => h \in Range(Pipe(c)') \/ opening[c] # "no"
      <4>1. q \in cards[c] => c \in shown
        BY <1>0 DEF ScreenTypes
      <4> QED
        BY <2>0, <3>2, <4>1 DEF ClientInv, Linked
    <3> QED
      BY <3>1, <3>2, <3>4, <3>5, <3>6 DEF Ending, Replayed, server, screen, IsSnapshot, Request
  <2>8. ASSUME NEW p \in InTable' \cap Approvals PROVE Showing(c, p)'
    <3>1. Showing(c, p) /\ p \in Questions /\ Request(p) \in Frames
      BY <1>9, <2>0, FrameKinds DEF ClientInv, Questions
    <3>2. ASSUME NEW f \in Range(Pipe(c)), IsSnapshot(f), Follows(Pipe(c), f, Request(p))
          PROVE  Follows(Pipe(c)', f, Request(p))
      <4>1. f \in Frames /\ f \notin {h, d}
        BY <1>0, <1>4, <3>2, Readable
      <4> QED
        BY <2>0, <3>1, <3>2, <4>1 DEF Told
    <3> SUFFICES ASSUME c \in up, opening[c] = "no"
                 PROVE  /\ c \in wanted => \E f \in Range(Pipe(c)') :
                             IsSnapshot(f) /\ (p \in Range(f.pending) \/ Follows(Pipe(c)', f, Request(p)))
                        /\ c \in shown \ wanted => p \in cards[c] \/ Request(p) \in Range(Pipe(c)')
      BY DEF Showing, server, screen, IsSnapshot, Request
    <3> QED
      BY <2>1, <3>1, <3>2 DEF Showing
  <2>9. ASSUME NEW p \in Questions, Closed(p)' PROVE Ending(c, p)'
    BY <1>9, <2>6, <2>7, <2>9
  <2> QED
    BY <2>2, <2>3, <2>4, <2>5, <2>8, <2>9 DEF ClientInv
<1> QED
  BY <1>5, <1>8, <1>10, <1>11 DEF IInv

LEMMA TimeoutStep ==
    ASSUME IInv, NEW q \in Questions, Timeout(q)
    PROVE  IInv'
<1>1. q \in InTable
  BY TypeParts DEF IInv, BridgeTypes, Timeout
<1>2. Settle(q, "no", NoReply) /\ UNCHANGED <<server, screen, up, calls, missed, moves>>
  BY DEF Timeout
<1>3. /\ NoReply \in [Clients -> Seq(Frames)]
      /\ \A c \in Clients : Range(NoReply[c]) \subseteq {Done(q)} /\ (c \notin up => NoReply[c] = <<>>)
  BY Shortest DEF NoReply
<1>4. "no" \in Verdicts /\ calls' \subseteq calls /\ UNCHANGED <<server, screen, up, missed>>
  BY <1>2 DEF Verdicts
<1> QED
  BY <1>1, <1>2, <1>3, <1>4, SettleStep

LEMMA ElsewhereStep ==
    ASSUME IInv, NEW q \in Questions, Elsewhere(q, "no")
    PROVE  IInv'
<1>1. q \in InTable
  BY DEF Elsewhere
<1>2. Settle(q, "no", NoReply) /\ UNCHANGED <<server, screen, up, calls, missed, moves>>
  BY <1>1 DEF Elsewhere, Resolve
<1>3. /\ NoReply \in [Clients -> Seq(Frames)]
      /\ \A c \in Clients : Range(NoReply[c]) \subseteq {Done(q)} /\ (c \notin up => NoReply[c] = <<>>)
  BY Shortest DEF NoReply
<1>4. "no" \in Verdicts /\ calls' \subseteq calls /\ UNCHANGED <<server, screen, up, missed>>
  BY <1>2 DEF Verdicts
<1> QED
  BY <1>1, <1>2, <1>3, <1>4, SettleStep

\* An answer to a question that is settled changes nothing.
LEMMA HandleStep ==
    ASSUME IInv, NEW c \in Clients, NEW q \in Questions, Handle(c, q, "yes")
    PROVE  IInv'
<1> DEFINE reply == IF q \in Approvals THEN Reply(c, Done(q)) ELSE NoReply
<1>0. /\ BridgeTypes /\ ServerTypes /\ PipeTypes /\ ScreenTypes /\ CallTypes
      /\ BatchesLeave /\ BridgeInv /\ \A d \in Clients : ClientInv(d)
  BY TypeParts DEF IInv
<1>1. /\ <<c, q, "yes">> \in calls /\ calls' \subseteq calls
      /\ IF q \in InTable THEN Settle(q, "yes", reply) ELSE UNCHANGED <<bridge, batcher, wire>>
      /\ UNCHANGED <<server, screen, up, missed>>
  BY DEF Handle, Resolve
<1>2. c \in up
  BY <1>0, <1>1 DEF BridgeInv
<1>3. Done(q) \in Frames
  BY FrameKinds
<1>4. /\ reply \in [Clients -> Seq(Frames)]
      /\ \A d \in Clients : Range(reply[d]) \subseteq {Done(q)} /\ (d \notin up => reply[d] = <<>>)
  <2> DEFINE f == Done(q)
             r == Reply(c, f)
  <2> HIDE DEF f
  <2>1. f \in Frames
    BY <1>3 DEF f
  <2>2. /\ NoReply \in [Clients -> Seq(Frames)] /\ \A d \in Clients : NoReply[d] = <<>>
        /\ r \in [Clients -> Seq(Frames)] /\ r[c] = <<f>> /\ \A d \in Clients \ {c} : r[d] = <<>>
        /\ Range(<<>>) = {} /\ Range(<<f>>) = {f}
    BY <2>1, Replies
  <2>3. reply = IF q \in Approvals THEN r ELSE NoReply
    BY DEF f
  <2> HIDE DEF r, reply
  <2>4. CASE q \in Approvals
    <3>1. reply = r
      BY <2>3, <2>4
    <3>2. \A d \in Clients : Range(r[d]) \subseteq {f} /\ (d \notin up => r[d] = <<>>)
      <4> DEFINE x == <<f>>
      <4>1. r[c] = x /\ Range(x) = {f}
        BY <2>2
      <4> HIDE DEF x
      <4> QED
        BY <1>2, <2>2, <4>1
    <3> QED
      BY <2>2, <3>1, <3>2 DEF f
  <2>5. CASE q \notin Approvals
    <3>1. reply = NoReply
      BY <2>3, <2>5
    <3> QED
      BY <2>2, <3>1
  <2> QED
    BY <2>4, <2>5
<1> HIDE DEF reply
<1>5. CASE q \in InTable
  <2>1. "yes" \in Verdicts /\ Settle(q, "yes", reply)
    BY <1>1, <1>5 DEF Verdicts
  <2> QED
    BY <1>1, <1>4, <1>5, <2>1, SettleStep
<1>6. CASE q \notin InTable
  <2>1. UNCHANGED <<bridge, batcher, wire>>
    BY <1>1, <1>6
  <2>2. CallTypes'
    BY <1>0, <1>1 DEF CallTypes
  <2>3. TypeOK'
    BY <1>0, <1>1, <2>1, <2>2, TypesStay, TypePartsNext
  <2>4. BatchesLeave' /\ BridgeInv'
    BY <1>0, <1>1, <2>1, BridgeStays DEF BatchesLeave, BridgeInv
  <2>5. ASSUME NEW d \in Clients PROVE ClientInv(d)'
    <3>1. SameFor(d)
      BY <1>1, <2>1, PipeStays DEF SameFor, server, screen
    <3> QED
      BY <1>0, <2>1, <3>1, Others DEF bridge
  <2> QED
    BY <2>3, <2>4, <2>5 DEF IInv
<1> QED
  BY <1>5, <1>6

\* The response takes the snapshot, and the ends that were missed wait behind it.
LEMMA RespondStep ==
    ASSUME IInv, NEW c \in Clients, Respond(c)
    PROVE  IInv'
<1> DEFINE es == Ends(recent)
           S == Snapshot(snap[c])
           r == <<S>>
           reply == Reply(c, S)
<1>0. /\ BridgeTypes /\ ServerTypes /\ PipeTypes /\ ScreenTypes /\ CallTypes
      /\ BatchesLeave /\ BridgeInv /\ \A d \in Clients : ClientInv(d)
  BY TypeParts DEF IInv
<1>1. /\ opening[c] = "captured" /\ opening' = [opening EXCEPT ![c] = "replied"]
      /\ snap' = [snap EXCEPT ![c] = <<>>] /\ Push({c}, es, reply)
      /\ UNCHANGED <<bridge, attached, screen, up, calls, missed>>
  BY DEF Respond
<1>2. /\ opening'[c] = "replied" /\ snap'[c] = <<>>
      /\ \A d \in Clients \ {c} : opening'[d] = opening[d] /\ snap'[d] = snap[d]
  BY <1>0, <1>1 DEF ServerTypes
<1>3. /\ recent \in Seq(Questions) /\ (\A q \in Range(recent) : q \in Questions /\ Closed(q))
      /\ es \in Seq(Frames) /\ Range(es) = {Fin(q) : q \in Range(recent)}
  <2>1. recent \in Seq(Questions) /\ \A q \in Range(recent) : Closed(q)
    BY <1>0 DEF BridgeTypes, BridgeInv
  <2>2. \A q \in Range(recent) : q \in Questions
    BY <2>1, ElementOfSeq, LenProperties DEF Range
  <2> QED
    BY <2>1, <2>2, RequestsEnds
<1>4. /\ snap[c] \in Seq(Questions) /\ S \in Frames /\ S.kind = "snapshot" /\ S.pending = snap[c]
      /\ Range(snap[c]) \subseteq Questions
  <2>1. snap[c] \in Seq(Questions)
    BY <1>0 DEF ServerTypes
  <2>2. Range(snap[c]) \subseteq Questions
    BY <2>1, ElementOfSeq, LenProperties DEF Range
  <2> QED
    BY <2>1, <2>2, FrameKinds
<1>5. /\ reply \in [Clients -> Seq(Frames)] /\ reply[c] = r /\ Range(r) = {S} /\ Len(r) = 1
      /\ \A d \in Clients \ {c} : reply[d] = <<>>
  <2> HIDE DEF S
  <2> QED
    BY <1>4, Replies
<1> HIDE DEF es, S, r, reply
<1>6. /\ PipeTypes' /\ BatchesLeave' /\ Grown(c, es, r)
      /\ \A d \in Clients \ {c} : wire'[d] = wire[d] /\ batcher'[d] = batcher[d]
  <2>1. /\ PipeTypes' /\ (BatchesLeave => BatchesLeave')
        /\ \A d \in Clients : d \in {c} => Grown(d, es, reply[d])
        /\ \A d \in Clients \ {c} : reply[d] = <<>> => wire'[d] = wire[d] /\ batcher'[d] = batcher[d]
    BY <1>0, <1>1, <1>3, <1>5, PushFacts
  <2> QED
    BY <1>0, <1>5, <2>1
<1>7. ServerTypes'
  BY <1>0, <1>1, EmptySeq DEF ServerTypes
<1>8. TypeOK'
  BY <1>0, <1>1, <1>6, <1>7, TypesStay, TypePartsNext
<1>9. BridgeInv'
  BY <1>0, <1>1, BridgeStays DEF BridgeInv
<1>10. ClientInv(c)'
  <2>0. ClientInv(c)
    BY <1>0
  <2>1. /\ Range(Pipe(c)') = Range(Pipe(c)) \cup Range(es) \cup {S}
        /\ \A f \in Range(Pipe(c)) : ~IsSnapshot(f)
        /\ \A f \in Range(es) : ~IsSnapshot(f) /\ f.kind = "end"
        /\ IsSnapshot(S)
    <3>1. Range(Pipe(c)') = Range(Pipe(c)) \cup Range(es) \cup {S}
      BY <1>5, <1>6 DEF Grown, GrownTo
    <3>2. \A f \in Range(Pipe(c)) : ~IsSnapshot(f)
      BY <1>1, <2>0 DEF ClientInv, Truthful
    <3>3. \A f \in Range(es) : ~IsSnapshot(f) /\ f.kind = "end"
      BY <1>3, FrameKinds DEF Fin, Closed, IsSnapshot
    <3> QED
      BY <1>4, <3>1, <3>2, <3>3 DEF IsSnapshot
  <2>2. \A q \in Questions : (Closed(q)' <=> Closed(q)) /\ Fin(q)' = Fin(q)
    BY <1>1 DEF bridge, Closed, Fin, End
  <2>3. \A f \in Range(Pipe(c)') : Truthful(c, f)'
    <3> SUFFICES ASSUME NEW f \in Range(Pipe(c)') PROVE Truthful(c, f)'
      OBVIOUS
    <3>1. CASE f \in Range(Pipe(c))
      <4>1. Truthful(c, f) /\ ~IsSnapshot(f)
        BY <2>0, <2>1, <3>1 DEF ClientInv
      <4> QED
        BY <1>1, <4>1 DEF Truthful, bridge, Closed, Fin, End, IsSnapshot
    <3>2. CASE f \in Range(es)
      <4>1. PICK q \in Range(recent) : f = Fin(q)
        BY <1>3, <3>2
      <4>2. f.kind = "end" /\ f.q = q
        BY <1>3, <4>1, FrameKinds DEF Fin, Closed
      <4> QED
        BY <1>1, <1>3, <2>2, <4>1, <4>2 DEF Truthful, bridge, IsSnapshot
    <3>3. CASE f = S
      <4>1. \A q \in Range(snap[c]) : verdict[q] # "new"
        BY <2>0 DEF ClientInv, Raised
      <4>2. c \in wanted \/ c \notin shown
        BY <1>1, <2>0 DEF ClientInv, Linked
      <4> QED
        BY <1>1, <1>2, <1>4, <3>3, <4>1, <4>2 DEF Truthful, bridge, screen
    <3> QED
      BY <2>1, <3>1, <3>2, <3>3
  <2>4. Alone(c)'
    <3>1. OneSnapshot(Pipe(c)')
      BY <1>5, <1>6, <2>1 DEF Grown, GrownTo
    <3>2. \A f \in Range(batcher'[c].queue) : f.kind \in {"request", "end"}
      BY <1>6, <2>0, <2>1 DEF ClientInv, Alone, Grown, GrownTo
    <3> QED
      BY <3>1, <3>2 DEF Alone
  <2>5. Linked(c)'
    <3>1. c \in up
      BY <1>1, <2>0 DEF ClientInv, Linked
    <3>2. \E f \in Range(Pipe(c)') : IsSnapshot(f)
      BY <2>1
    <3> QED
      BY <1>1, <1>2, <3>1, <3>2 DEF Linked, IsSnapshot
  <2>6. Raised(c)'
    <3>1. Range(snap'[c]) = {}
      BY <1>2, Shortest
    <3> QED
      BY <1>1, <2>0, <3>1 DEF ClientInv, Raised, bridge, screen, Closed
  <2>7. ASSUME NEW p \in Questions, Closed(p)' PROVE Ending(c, p)'
    <3>1. Ending(c, p) /\ Fin(p)' = Fin(p) /\ Closed(p)
      BY <2>0, <2>2, <2>7 DEF ClientInv
    <3>2. Replayed(c, p) => Replayed(c, p)'
      BY <1>1, <1>2 DEF Replayed, bridge
    <3>3. Fin(p) \in Frames /\ Request(p) \in Frames /\ Request(p) \notin Range(es) \cup {S}
      BY <1>4, <2>1, <3>1, FrameKinds DEF Fin, Closed
    <3>4. Follows(Pipe(c)', Request(p), Fin(p))
      BY <1>5, <1>6, <3>1, <3>3 DEF Grown, GrownTo, Ending
    <3>5. ASSUME NEW f \in Range(Pipe(c)'), IsSnapshot(f), p \in Range(f.pending)
          PROVE  Replayed(c, p)'
      <4>1. f = S
        BY <2>1, <3>5
      <4>2. p \in Range(recent)
        BY <1>4, <3>1, <3>5, <4>1 DEF Ending
      <4> QED
        BY <1>1, <1>2, <4>2 DEF Replayed, bridge
    <3>6. Range(snap'[c]) = {}
      BY <1>2, Shortest
    <3> QED
      BY <1>1, <2>1, <3>1, <3>2, <3>4, <3>5, <3>6 DEF Ending, bridge, screen, IsSnapshot, Request
  <2>8. ASSUME NEW p \in InTable' \cap Approvals PROVE Showing(c, p)'
    BY <1>2 DEF Showing
  <2> QED
    BY <2>3, <2>4, <2>5, <2>6, <2>7, <2>8 DEF ClientInv
<1>11. ASSUME NEW d \in Clients \ {c} PROVE ClientInv(d)'
  <2>1. SameFor(d)
    BY <1>1, <1>2, <1>6, PipeStays DEF SameFor, screen
  <2> QED
    BY <1>0, <1>1, <2>1, Others DEF bridge
<1> QED
  BY <1>6, <1>8, <1>9, <1>10, <1>11 DEF IInv

\* What is open and what was settled is said again to a client that is attached.
LEMMA AttachStep ==
    ASSUME IInv, NEW c \in Clients, Attach(c)
    PROVE  IInv'
<1> DEFINE fs == Requests(pending) \o Ends(recent)
<1>0. /\ BridgeTypes /\ ServerTypes /\ PipeTypes /\ ScreenTypes /\ CallTypes
      /\ BatchesLeave /\ BridgeInv /\ \A d \in Clients : ClientInv(d)
  BY TypeParts DEF IInv
<1>1. /\ opening[c] = "replied" /\ opening' = [opening EXCEPT ![c] = "no"]
      /\ attached' = attached \cup {c} /\ Push({c}, fs, NoReply)
      /\ UNCHANGED <<bridge, snap, screen, up, calls, missed>>
  BY DEF Attach
<1>2. opening'[c] = "no" /\ \A d \in Clients \ {c} : opening'[d] = opening[d]
  BY <1>0, <1>1 DEF ServerTypes
<1>3. /\ recent \in Seq(Questions) /\ (\A q \in Range(recent) : q \in Questions /\ Closed(q))
      /\ \A q \in InTable : q \in Questions /\ verdict[q] = "open"
  <2>1. recent \in Seq(Questions) /\ \A q \in Range(recent) : Closed(q)
    BY <1>0 DEF BridgeTypes, BridgeInv
  <2>2. \A q \in Range(recent) : q \in Questions
    BY <2>1, ElementOfSeq, LenProperties DEF Range
  <2> QED
    BY <1>0, <2>1, <2>2 DEF BridgeTypes
<1>4. /\ fs \in Seq(Frames)
      /\ Range(fs) = {Request(q) : q \in InTable} \cup {Fin(q) : q \in Range(recent)}
  <2> DEFINE rs == Requests(pending)
             es == Ends(recent)
  <2>1. pending \in Seq(Questions)
    BY <1>0 DEF BridgeTypes
  <2>2. /\ rs \in Seq(Frames) /\ Range(rs) = {Request(q) : q \in InTable}
        /\ es \in Seq(Frames) /\ Range(es) = {Fin(q) : q \in Range(recent)}
    BY <1>3, <2>1, RequestsEnds DEF InTable
  <2>3. fs = Cat(rs, es)
    BY DEF Cat
  <2> HIDE DEF rs, es, fs
  <2> QED
    BY <2>2, <2>3, CatFacts
<1> HIDE DEF fs
<1>5. \A d \in Clients : NoReply[d] = <<>>
  BY DEF NoReply
<1>6. /\ PipeTypes' /\ BatchesLeave' /\ Grown(c, fs, <<>>)
      /\ \A d \in Clients \ {c} : wire'[d] = wire[d] /\ batcher'[d] = batcher[d]
  <2>1. NoReply \in [Clients -> Seq(Frames)]
    BY EmptySeq DEF NoReply
  <2>2. /\ PipeTypes' /\ (BatchesLeave => BatchesLeave')
        /\ \A d \in Clients : d \in {c} => Grown(d, fs, NoReply[d])
        /\ \A d \in Clients \ {c} : NoReply[d] = <<>> => wire'[d] = wire[d] /\ batcher'[d] = batcher[d]
    BY <1>0, <1>1, <1>4, <2>1, PushFacts
  <2> QED
    BY <1>0, <1>5, <2>2
<1>7. c \in up /\ snap[c] = <<>>
  BY <1>0, <1>1 DEF ClientInv, Linked
<1>8. ServerTypes'
  BY <1>0, <1>1, <1>7 DEF ServerTypes
<1>9. TypeOK'
  BY <1>0, <1>1, <1>6, <1>8, TypesStay, TypePartsNext
<1>10. BridgeInv'
  BY <1>0, <1>1, BridgeStays DEF BridgeInv
<1>11. ClientInv(c)'
  <2>0. ClientInv(c)
    BY <1>0
  <2>1. /\ Range(Pipe(c)') = Range(Pipe(c)) \cup Range(fs)
        /\ \A f \in Range(fs) : ~IsSnapshot(f) /\ f.kind \in {"request", "end"}
        /\ \A f, g \in Frames :
              f \notin Range(fs) /\ (g \in Range(fs) \/ Follows(Pipe(c), f, g)) => Follows(Pipe(c)', f, g)
        /\ \A f \in Range(Pipe(c)') : IsSnapshot(f) => f \in Range(Pipe(c))
    <3>1. Range(<<>>) = {}
      BY Shortest
    <3>2. Range(Pipe(c)') = Range(Pipe(c)) \cup Range(fs)
      BY <1>6, <3>1 DEF Grown, GrownTo
    <3>3. \A f \in Range(fs) : ~IsSnapshot(f) /\ f.kind \in {"request", "end"}
      BY <1>3, <1>4, FrameKinds DEF Fin, Closed, IsSnapshot
    <3>4. \A f, g \in Frames :
              f \notin Range(fs) /\ (g \in Range(fs) \/ Follows(Pipe(c), f, g)) => Follows(Pipe(c)', f, g)
      BY <1>6, <3>1 DEF Grown, GrownTo
    <3> QED
      BY <3>2, <3>3, <3>4
  <2>2. \A q \in Questions : (Closed(q)' <=> Closed(q)) /\ Fin(q)' = Fin(q)
    BY <1>1 DEF bridge, Closed, Fin, End
  <2>3. \A f \in Range(Pipe(c)') : Truthful(c, f)'
    <3> SUFFICES ASSUME NEW f \in Range(Pipe(c)') PROVE Truthful(c, f)'
      OBVIOUS
    <3>1. CASE f \in Range(Pipe(c))
      <4>1. Truthful(c, f)
        BY <2>0, <3>1 DEF ClientInv
      <4> QED
        BY <1>1, <1>2, <4>1 DEF Truthful, bridge, screen, Closed, Fin, End, IsSnapshot
    <3>2. CASE \E q \in InTable : f = Request(q)
      <4>1. PICK q \in InTable : f = Request(q)
        BY <3>2
      <4>2. f.kind = "request" /\ f.q = q
        BY <1>3, <4>1, FrameKinds
      <4> QED
        BY <1>1, <1>3, <4>1, <4>2 DEF Truthful, bridge, IsSnapshot
    <3>3. CASE \E q \in Range(recent) : f = Fin(q)
      <4>1. PICK q \in Range(recent) : f = Fin(q)
        BY <3>3
      <4>2. f.kind = "end" /\ f.q = q
        BY <1>3, <4>1, FrameKinds DEF Fin, Closed
      <4> QED
        BY <1>1, <1>3, <2>2, <4>1, <4>2 DEF Truthful, bridge, IsSnapshot
    <3> QED
      BY <1>4, <2>1, <3>1, <3>2, <3>3
  <2>4. Alone(c)'
    <3>1. OneSnapshot(Pipe(c)')
      <4>1. \A f \in Range(<<>>) : ~IsSnapshot(f)
        BY Shortest
      <4> QED
        BY <1>6, <2>0, <2>1, <4>1 DEF ClientInv, Alone, Grown, GrownTo
    <3>2. \A f \in Range(batcher'[c].queue) : f.kind \in {"request", "end"}
      BY <1>6, <2>0, <2>1 DEF ClientInv, Alone, Grown, GrownTo
    <3> QED
      BY <3>1, <3>2 DEF Alone
  <2>5. Linked(c)'
    <3>1. c \in wanted => \E f \in Range(Pipe(c)') : IsSnapshot(f)
      BY <1>1, <2>0, <2>1 DEF ClientInv, Linked
    <3> QED
      BY <1>1, <1>2, <1>7, <3>1 DEF Linked, screen, IsSnapshot
  <2>6. Raised(c)'
    BY <1>1, <2>0 DEF ClientInv, Raised, bridge, screen, Closed
  <2>7. ASSUME NEW p \in Questions, Closed(p)' PROVE Ending(c, p)'
    <3>1. Ending(c, p) /\ Fin(p)' = Fin(p) /\ Closed(p)
      BY <2>0, <2>2, <2>7 DEF ClientInv
    <3>2. p \in Range(recent) => Fin(p) \in Range(fs) /\ Fin(p) \in Range(Pipe(c)')
      BY <1>4, <2>1
    <3>3. Fin(p) \in Frames /\ Request(p) \in Frames /\ Request(p) \notin Range(fs)
      <4>1. Fin(p) \in Frames /\ Request(p) \in Frames /\ p \notin InTable
        BY <1>3, <3>1, FrameKinds DEF Fin, Closed, Verdicts
      <4>2. \A q \in InTable : Request(p) # Request(q)
        BY <1>3, <4>1, FrameKinds
      <4>3. \A q \in Range(recent) : Request(p) # Fin(q)
        BY <1>3, FrameKinds DEF Fin, Closed
      <4> QED
        BY <1>4, <4>1, <4>2, <4>3
    <3>4. Follows(Pipe(c)', Request(p), Fin(p))
      BY <2>1, <3>1, <3>3 DEF Ending
    <3>5. ASSUME NEW f \in Range(Pipe(c)'), IsSnapshot(f), p \in Range(f.pending)
          PROVE  Follows(Pipe(c)', f, Fin(p))
      <4>1. f \in Range(Pipe(c)) /\ f \in Frames /\ f \notin Range(fs)
        BY <1>0, <2>1, <3>5, Readable
      <4>2. Follows(Pipe(c), f, Fin(p)) \/ Replayed(c, p)
        BY <3>1, <3>5, <4>1 DEF Ending
      <4> QED
        BY <2>1, <3>2, <3>3, <4>1, <4>2 DEF Replayed
    <3>6. c \in up /\ p \in cards[c] => c \in wanted \/ Fin(p) \in Range(Pipe(c)')
      BY <2>1, <3>1, <3>2 DEF Ending, Replayed
    <3>7. p = slot[c] => p \in missed[c] \/ Fin(p) \in Range(Pipe(c)')
      BY <2>1, <3>1, <3>2 DEF Ending, Replayed
    <3>8. p \in Range(snap[c]) => p \in Range(recent)
      BY <3>1 DEF Ending
    <3> QED
      BY <1>1, <3>1, <3>4, <3>5, <3>6, <3>7, <3>8 DEF Ending, bridge, screen, IsSnapshot, Request
  <2>8. ASSUME NEW p \in InTable' \cap Approvals PROVE Showing(c, p)'
    <3>1. p \in InTable /\ p \in Questions
      BY <1>1, <1>3 DEF bridge, InTable
    <3>2. Request(p) \in Frames /\ Request(p) \in Range(fs) /\ Request(p) \in Range(Pipe(c)')
      BY <1>4, <2>1, <3>1, FrameKinds
    <3>3. c \in wanted => \E f \in Range(Pipe(c)') : IsSnapshot(f) /\ Follows(Pipe(c)', f, Request(p))
      <4> SUFFICES ASSUME c \in wanted PROVE \E f \in Range(Pipe(c)') : IsSnapshot(f) /\ Follows(Pipe(c)', f, Request(p))
        OBVIOUS
      <4>1. PICK f \in Range(Pipe(c)) : IsSnapshot(f)
        BY <1>1, <2>0 DEF ClientInv, Linked
      <4>2. f \in Frames /\ f \notin Range(fs)
        BY <1>0, <2>1, <4>1, Readable
      <4> QED
        BY <2>1, <3>2, <4>1, <4>2
    <3> QED
      BY <1>1, <3>2, <3>3 DEF Showing, screen, IsSnapshot, Request
  <2> QED
    BY <2>3, <2>4, <2>5, <2>6, <2>7, <2>8 DEF ClientInv
<1>12. ASSUME NEW d \in Clients \ {c} PROVE ClientInv(d)'
  <2>1. SameFor(d)
    BY <1>1, <1>2, <1>6, PipeStays DEF SameFor, screen
  <2> QED
    BY <1>0, <1>1, <2>1, Others DEF bridge
<1> QED
  BY <1>6, <1>9, <1>10, <1>11, <1>12 DEF IInv

-----------------------------------------------------------------------------
(* The client reads.                                                       *)

\* The frame f is gone from the pipe, and what was to follow it is there.
Reads(c, f) ==
    /\ c \in up /\ f \in Frames /\ f \in Range(Pipe(c)) /\ Range(Pipe(c)) = {f} \cup Range(Pipe(c)')
    /\ \A g, h \in Frames : Follows(Pipe(c), g, h) =>
          Follows(Pipe(c)', g, h) /\ (g = f => h \in Range(Pipe(c)'))
    /\ OneSnapshot(Pipe(c)') /\ (IsSnapshot(f) => \A g \in Range(Pipe(c)') : ~IsSnapshot(g))
    /\ f.kind \in {"request", "done", "end"} => f.q \in Questions
    /\ IsSnapshot(f) => f.kind = "snapshot" /\ f.pending \in Seq(Questions)
    /\ UNCHANGED <<bridge, server, up, batcher, missed>>

LEMMA ReadFacts ==
    ASSUME PipeTypes, NEW c \in Clients, Alone(c), c \in up, wire[c] # <<>>, Read(c),
           UNCHANGED <<bridge, server, up, batcher, missed>>
    PROVE  Reads(c, Head(wire[c])) /\ PipeTypes' /\ \A d \in Clients \ {c} : wire'[d] = wire[d]
<1> DEFINE w == wire[c]
           q == batcher[c].queue
           p == Pipe(c)
           x == Pipe(c)'
           f == Head(w)
<1>1. /\ w \in Seq(Frames) /\ q \in Seq(Frames) /\ p \in Seq(Frames) /\ p = Cat(w, q) /\ w # <<>>
  BY PipeFacts
<1>2. wire' = [wire EXCEPT ![c] = Tail(w)] /\ wire \in [Clients -> Seq(Frames)]
  BY DEF Read, PipeTypes
<1>3. Tail(w) \in Seq(Frames) /\ f \in Frames
  <2> HIDE DEF w
  <2> QED
    BY <1>1, TailFacts
<1>4. PipeTypes' /\ wire'[c] = Tail(w) /\ \A d \in Clients \ {c} : wire'[d] = wire[d]
  BY <1>2, <1>3 DEF PipeTypes
<1>5. x = Cat(Tail(w), q)
  BY <1>4 DEF Pipe, Cat
<1>6. OneSnapshot(p)
  BY DEF Alone
<1>7. f = Head(w)
  OBVIOUS
<1> HIDE DEF w, q, p, x, f
<1>8. p # <<>> /\ f = Head(p) /\ x = Tail(p)
  <2>1. Cat(w, q) # <<>> /\ Head(Cat(w, q)) = Head(w) /\ Tail(Cat(w, q)) = Cat(Tail(w), q)
    BY <1>1, CatTail
  <2> QED
    BY <1>1, <1>5, <1>7, <2>1
<1>9. Range(p) = {f} \cup Range(x)
  <2>1. Range(p) = {Head(p)} \cup Range(Tail(p))
    BY <1>1, <1>8, TailFacts
  <2> QED
    BY <1>8, <2>1
<1>10. ASSUME NEW g \in Frames, NEW h \in Frames, Follows(p, g, h)
       PROVE  Follows(x, g, h) /\ (g = f => h \in Range(x))
  <2>1. Follows(Tail(p), g, h) /\ (Head(p) = g => h \in Range(Tail(p)))
    BY <1>1, <1>8, <1>10, FollowsTail
  <2> QED
    BY <1>8, <2>1
<1>11. OneSnapshot(x) /\ (IsSnapshot(f) => \A g \in Range(x) : ~IsSnapshot(g))
  <2>1. <<>> \in Seq(Frames) /\ \A g \in Range(<<>>) : ~IsSnapshot(g)
    BY Shortest
  <2>2. OneSnapshot(Tail(p)) /\ (IsSnapshot(Head(p)) => \A g \in Range(Tail(p)) : ~IsSnapshot(g))
    BY <1>1, <1>6, <1>8, <2>1, OneSnapshotFacts
  <2> QED
    BY <1>8, <2>2
<1>12. /\ f.kind \in {"request", "done", "end"} => f.q \in Questions
       /\ IsSnapshot(f) => f.kind = "snapshot" /\ f.pending \in Seq(Questions)
  BY <1>3, FrameKinds DEF IsSnapshot
<1>13. Reads(c, f)
  BY <1>3, <1>9, <1>10, <1>11, <1>12 DEF Reads, p, x
<1> QED
  BY <1>4, <1>13 DEF f, w

\* What every kind of frame leaves to show.
LEMMA ReadStays ==
    ASSUME PipeTypes, NEW c \in Clients, NEW f, ClientInv(c), Reads(c, f),
           IsSnapshot(f) \/ UNCHANGED <<wanted, shown>>,
           IsSnapshot(f) => c \notin wanted',
           Raised(c)',
           \A p \in Questions : Closed(p) =>
              /\ p \in cards'[c] => c \in wanted' \/ Fin(p) \in Range(Pipe(c)') \/ Replayed(c, p)
              /\ p = slot'[c] => \/ p \in missed[c] \/ Fin(p) \in Range(Pipe(c)') \/ Replayed(c, p)
                                 \/ (c \notin attached /\ p \in Range(recent)),
           \A p \in InTable \cap Approvals : Showing(c, p)'
    PROVE  ClientInv(c)'
<1>1. /\ Range(Pipe(c)') \subseteq Range(Pipe(c)) /\ \A g \in Range(Pipe(c)') : Truthful(c, g)
      /\ \A g \in Range(Pipe(c)) : g \in Range(Pipe(c)') \/ g = f
  BY DEF Reads, ClientInv
<1>2. \A g \in Range(Pipe(c)') : Truthful(c, g)'
  <2> SUFFICES ASSUME NEW g \in Range(Pipe(c)') PROVE Truthful(c, g)'
    OBVIOUS
  <2>1. Truthful(c, g)
    BY <1>1
  <2>2. IsSnapshot(g) => UNCHANGED <<wanted, shown>>
    BY DEF Reads
  <2> QED
    BY <2>1, <2>2 DEF Reads, Truthful, bridge, server, Closed, Fin, End, IsSnapshot
<1>3. Alone(c)'
  BY DEF Reads, ClientInv, Alone
<1>4. Linked(c)'
  <2>1. Truthful(c, f)
    BY DEF Reads, ClientInv
  <2>2. CASE IsSnapshot(f)
    <3>1. opening[c] = "replied" \/ (opening[c] = "no" /\ c \in attached)
      BY <2>1, <2>2 DEF Truthful
    <3> QED
      BY <2>2, <3>1 DEF Reads, ClientInv, Linked, server
  <2>3. CASE ~IsSnapshot(f)
    <3>1. c \in wanted => opening[c] \in {"asked", "captured"} \/ \E g \in Range(Pipe(c)') : IsSnapshot(g)
      BY <1>1, <2>3 DEF ClientInv, Linked
    <3> QED
      BY <2>3, <3>1 DEF Reads, ClientInv, Linked, server, IsSnapshot
  <2> QED
    BY <2>2, <2>3
<1>5. ASSUME NEW p \in Questions, Closed(p)' PROVE Ending(c, p)'
  <2>1. Closed(p) /\ Ending(c, p) /\ Fin(p)' = Fin(p) /\ (Replayed(c, p)' <=> Replayed(c, p))
    BY <1>5 DEF Reads, ClientInv, Closed, Fin, End, Replayed, bridge, server
  <2>2. Fin(p) \in Frames /\ Request(p) \in Frames
    BY <2>1, FrameKinds DEF Fin, Closed
  <2>3. Follows(Pipe(c)', Request(p), Fin(p))
    BY <2>1, <2>2 DEF Reads, Ending
  <2>4. ASSUME NEW g \in Range(Pipe(c)'), IsSnapshot(g), p \in Range(g.pending)
        PROVE  Follows(Pipe(c)', g, Fin(p)) \/ Replayed(c, p)
    <3>1. g \in Frames
      BY <1>1, Readable
    <3> QED
      BY <1>1, <2>1, <2>2, <2>4, <3>1 DEF Reads, Ending
  <2>5. p \in Range(snap[c]) => p \in Range(recent)
    BY <2>1 DEF Ending
  <2>6. /\ p \in cards'[c] => c \in wanted' \/ Fin(p) \in Range(Pipe(c)') \/ Replayed(c, p)
        /\ p = slot'[c] => \/ p \in missed[c] \/ Fin(p) \in Range(Pipe(c)') \/ Replayed(c, p)
                           \/ (c \notin attached /\ p \in Range(recent))
    BY <2>1
  <2>7. UNCHANGED <<snap, recent, missed, attached, up>>
    BY DEF Reads, bridge, server
  <2> QED
    BY <2>1, <2>3, <2>4, <2>5, <2>6, <2>7 DEF Ending, IsSnapshot, Request
<1>6. ASSUME NEW p \in InTable' \cap Approvals PROVE Showing(c, p)'
  BY DEF Reads, bridge, InTable
<1> QED
  BY <1>2, <1>3, <1>4, <1>5, <1>6 DEF ClientInv

\* The screens of the other clients.
OthersScreens(c) ==
    \A d \in Clients \ {c} :
        /\ slot'[d] = slot[d] /\ cards'[d] = cards[d] /\ later'[d] = later[d]
        /\ (d \in wanted') = (d \in wanted) /\ (d \in shown') = (d \in shown)

LEMMA ReadRequestStep ==
    ASSUME IInv, NEW c \in Clients, NEW f, Reads(c, f), ReadRequest(c, f)
    PROVE  ScreenTypes' /\ ClientInv(c)' /\ OthersScreens(c)
<1>0. /\ BridgeTypes /\ ServerTypes /\ PipeTypes /\ ScreenTypes /\ ClientInv(c) /\ BridgeInv
  BY TypeParts DEF IInv
<1>1. /\ f.kind = "request" /\ ~IsSnapshot(f) /\ UNCHANGED <<wanted, shown, later, clicked>>
      /\ slot' = IF f.q \in Asks THEN [slot EXCEPT ![c] = f.q] ELSE slot
      /\ cards' = IF f.q \in Approvals /\ c \in shown THEN [cards EXCEPT ![c] = @ \cup {f.q}] ELSE cards
  BY DEF ReadRequest, IsSnapshot
<1>2. f.q \in Questions /\ f = Request(f.q) /\ verdict[f.q] # "new" /\ UNCHANGED up
  <2>1. f.kind = "request" => f.q \in Questions /\ f = Request(f.q)
    BY FrameKinds DEF Reads
  <2>2. Truthful(c, f)
    BY <1>0 DEF Reads, ClientInv
  <2> QED
    BY <1>1, <2>1, <2>2 DEF Truthful, Reads
<1>3. /\ slot'[c] = IF f.q \in Asks THEN f.q ELSE slot[c]
      /\ cards'[c] = IF f.q \in Approvals /\ c \in shown THEN cards[c] \cup {f.q} ELSE cards[c]
      /\ OthersScreens(c)
  BY <1>0, <1>1 DEF ScreenTypes, OthersScreens
<1>4. ScreenTypes'
  BY <1>0, <1>1, <1>2 DEF ScreenTypes
<1>5. Raised(c)'
  BY <1>0, <1>1, <1>2, <1>3 DEF ClientInv, Raised, Reads, bridge, server, Closed
<1>6. ASSUME NEW p \in Questions, Closed(p)
      PROVE  /\ p \in cards'[c] => c \in wanted' \/ Fin(p) \in Range(Pipe(c)') \/ Replayed(c, p)
             /\ p = slot'[c] => \/ p \in missed[c] \/ Fin(p) \in Range(Pipe(c)') \/ Replayed(c, p)
                                \/ (c \notin attached /\ p \in Range(recent))
  <2>1. Ending(c, p)
    BY <1>0, <1>6 DEF ClientInv
  <2>2. Fin(p) # f /\ Fin(p) \in Frames /\ Request(p) \in Frames
    BY <1>1, <1>6, FrameKinds DEF Fin, Closed
  <2>3. Fin(p) \in Range(Pipe(c)) => Fin(p) \in Range(Pipe(c)')
    BY <2>2 DEF Reads
  <2>4. p = f.q => Fin(p) \in Range(Pipe(c)')
    BY <1>2, <2>1, <2>2 DEF Reads, Ending
  <2>5. c \in up
    BY DEF Reads
  <2> QED
    BY <1>1, <1>3, <2>1, <2>3, <2>4, <2>5 DEF Ending
<1>7. ASSUME NEW p \in InTable \cap Approvals PROVE Showing(c, p)'
  <2>1. Showing(c, p) /\ p \in Questions /\ Request(p) \in Frames
    BY <1>0, FrameKinds DEF ClientInv, Questions
  <2> SUFFICES ASSUME opening[c] = "no"
               PROVE  /\ c \in wanted => \E g \in Range(Pipe(c)') :
                           IsSnapshot(g) /\ (p \in Range(g.pending) \/ Follows(Pipe(c)', g, Request(p)))
                      /\ c \in shown \ wanted => p \in cards'[c] \/ Request(p) \in Range(Pipe(c)')
    BY <1>1 DEF Reads, Showing, server, IsSnapshot, Request
  <2>2. c \in up
    BY DEF Reads
  <2>3. ASSUME NEW g \in Range(Pipe(c)), IsSnapshot(g)
        PROVE  g \in Range(Pipe(c)') /\ (Follows(Pipe(c), g, Request(p)) => Follows(Pipe(c)', g, Request(p)))
    BY <1>0, <1>1, <2>1, <2>3, Readable DEF Reads
  <2>4. c \in shown \ wanted => p \in cards'[c] \/ Request(p) \in Range(Pipe(c)')
    <3>1. c \in shown \ wanted => p \in cards[c] \/ Request(p) \in Range(Pipe(c))
      BY <2>1, <2>2 DEF Showing
    <3>2. Request(p) = f => p = f.q
      BY <2>1, FrameKinds
    <3> QED
      BY <1>3, <3>1, <3>2 DEF Reads
  <2> QED
    BY <2>1, <2>2, <2>3, <2>4 DEF Showing
<1>8. ClientInv(c)'
  BY <1>0, <1>1, <1>5, <1>6, <1>7, ReadStays
<1> QED
  BY <1>3, <1>4, <1>8

LEMMA ReadEndStep ==
    ASSUME IInv, NEW c \in Clients, NEW f, Reads(c, f), ReadEnd(c, f)
    PROVE  ScreenTypes' /\ ClientInv(c)' /\ OthersScreens(c)
<1>0. /\ BridgeTypes /\ ServerTypes /\ PipeTypes /\ ScreenTypes /\ ClientInv(c) /\ BridgeInv
  BY TypeParts DEF IInv
<1>1. /\ f.kind = "end" /\ ~IsSnapshot(f) /\ UNCHANGED <<wanted, shown, clicked>>
      /\ slot' = IF slot[c] = f.q THEN [slot EXCEPT ![c] = None] ELSE slot
      /\ cards' = [cards EXCEPT ![c] = @ \ {f.q}]
      /\ later' = IF c \in shown THEN later ELSE [later EXCEPT ![c] = @ \cup {f.q}]
  BY DEF ReadEnd, IsSnapshot
<1>2. f.q \in Questions /\ f = Fin(f.q) /\ Closed(f.q) /\ UNCHANGED up
  <2>1. f.q \in Questions
    BY <1>1 DEF Reads
  <2>2. f = Fin(f.q) /\ f.q \in Range(recent)
    BY <1>0, <1>1 DEF Reads, ClientInv, Truthful
  <2> QED
    BY <1>0, <2>1, <2>2 DEF BridgeInv, Reads
<1>3. /\ slot'[c] = IF slot[c] = f.q THEN None ELSE slot[c]
      /\ cards'[c] = cards[c] \ {f.q}
      /\ later'[c] = IF c \in shown THEN later[c] ELSE later[c] \cup {f.q}
      /\ OthersScreens(c) /\ None \notin Questions
  BY <1>0, <1>1, CardsAssumption DEF ScreenTypes, OthersScreens, Questions
<1>4. ScreenTypes'
  BY <1>0, <1>1, <1>2 DEF ScreenTypes
<1>5. Raised(c)'
  <2>1. verdict' = verdict /\ snap' = snap
    BY DEF Reads, bridge, server
  <2>2. Raised(c)
    BY <1>0 DEF ClientInv
  <2> QED
    BY <1>2, <1>3, <2>1, <2>2 DEF Raised, Closed
<1>6. ASSUME NEW p \in Questions, Closed(p)
      PROVE  /\ p \in cards'[c] => c \in wanted' \/ Fin(p) \in Range(Pipe(c)') \/ Replayed(c, p)
             /\ p = slot'[c] => \/ p \in missed[c] \/ Fin(p) \in Range(Pipe(c)') \/ Replayed(c, p)
                                \/ (c \notin attached /\ p \in Range(recent))
  <2>1. Ending(c, p)
    BY <1>0, <1>6 DEF ClientInv
  <2>2. p # f.q => Fin(p) # f
    BY <1>2, <1>6, FrameKinds DEF Fin, Closed
  <2>3. p # f.q /\ Fin(p) \in Range(Pipe(c)) => Fin(p) \in Range(Pipe(c)')
    BY <2>2 DEF Reads
  <2>4. c \in up
    BY DEF Reads
  <2> QED
    BY <1>1, <1>3, <2>1, <2>3, <2>4 DEF Ending
<1>7. ASSUME NEW p \in InTable \cap Approvals PROVE Showing(c, p)'
  <2>1. Showing(c, p) /\ p \in Questions /\ Request(p) \in Frames /\ verdict[p] = "open"
    BY <1>0, FrameKinds DEF ClientInv, Questions, BridgeTypes
  <2> SUFFICES ASSUME opening[c] = "no"
               PROVE  /\ c \in wanted => \E g \in Range(Pipe(c)') :
                           IsSnapshot(g) /\ (p \in Range(g.pending) \/ Follows(Pipe(c)', g, Request(p)))
                      /\ c \in shown \ wanted => p \in cards'[c] \/ Request(p) \in Range(Pipe(c)')
    BY <1>1 DEF Reads, Showing, server, IsSnapshot, Request
  <2>2. c \in up
    BY DEF Reads
  <2>3. ASSUME NEW g \in Range(Pipe(c)), IsSnapshot(g)
        PROVE  g \in Range(Pipe(c)') /\ (Follows(Pipe(c), g, Request(p)) => Follows(Pipe(c)', g, Request(p)))
    BY <1>0, <1>1, <2>1, <2>3, Readable DEF Reads
  <2>4. c \in shown \ wanted => p \in cards'[c] \/ Request(p) \in Range(Pipe(c)')
    <3>1. c \in shown \ wanted => p \in cards[c] \/ Request(p) \in Range(Pipe(c))
      BY <2>1, <2>2 DEF Showing
    <3>2. Request(p) # f /\ p # f.q
      BY <1>1, <1>2, <2>1, FrameKinds DEF Closed, Verdicts
    <3> QED
      BY <1>3, <3>1, <3>2 DEF Reads
  <2> QED
    BY <2>1, <2>2, <2>3, <2>4 DEF Showing
<1>8. ClientInv(c)'
  BY <1>0, <1>1, <1>5, <1>6, <1>7, ReadStays
<1> QED
  BY <1>3, <1>4, <1>8

LEMMA ReadDoneStep ==
    ASSUME IInv, NEW c \in Clients, NEW f, Reads(c, f), ReadDone(c, f)
    PROVE  ScreenTypes' /\ ClientInv(c)' /\ OthersScreens(c)
<1>0. /\ BridgeTypes /\ ServerTypes /\ PipeTypes /\ ScreenTypes /\ ClientInv(c) /\ BridgeInv
  BY TypeParts DEF IInv
<1>1. /\ f.kind = "done" /\ ~IsSnapshot(f) /\ UNCHANGED <<wanted, shown, slot, later, clicked>>
      /\ cards' = IF f.q \in clicked[c] THEN [cards EXCEPT ![c] = @ \ {f.q}] ELSE cards
  BY DEF ReadDone, IsSnapshot
<1>2. f.q \in Questions /\ Closed(f.q) /\ UNCHANGED up
  BY <1>0, <1>1 DEF Reads, ClientInv, Truthful
<1>3. cards[c] \ {f.q} \subseteq cards'[c] /\ cards'[c] \subseteq cards[c] /\ OthersScreens(c)
  BY <1>0, <1>1 DEF ScreenTypes, OthersScreens
<1>4. ScreenTypes'
  BY <1>0, <1>1, <1>2 DEF ScreenTypes
<1>5. Raised(c)'
  <2>1. verdict' = verdict /\ snap' = snap
    BY DEF Reads, bridge, server
  <2>2. Raised(c)
    BY <1>0 DEF ClientInv
  <2> QED
    BY <1>1, <1>3, <2>1, <2>2 DEF Raised, Closed
<1>6. ASSUME NEW p \in Questions, Closed(p)
      PROVE  /\ p \in cards'[c] => c \in wanted' \/ Fin(p) \in Range(Pipe(c)') \/ Replayed(c, p)
             /\ p = slot'[c] => \/ p \in missed[c] \/ Fin(p) \in Range(Pipe(c)') \/ Replayed(c, p)
                                \/ (c \notin attached /\ p \in Range(recent))
  <2>1. Ending(c, p)
    BY <1>0, <1>6 DEF ClientInv
  <2>2. Fin(p) # f
    BY <1>1, <1>6, FrameKinds DEF Fin, Closed
  <2>3. Fin(p) \in Range(Pipe(c)) => Fin(p) \in Range(Pipe(c)')
    BY <2>2 DEF Reads
  <2>4. c \in up
    BY DEF Reads
  <2> QED
    BY <1>1, <1>3, <2>1, <2>3, <2>4 DEF Ending
<1>7. ASSUME NEW p \in InTable \cap Approvals PROVE Showing(c, p)'
  <2>1. Showing(c, p) /\ p \in Questions /\ Request(p) \in Frames /\ verdict[p] = "open"
    BY <1>0, FrameKinds DEF ClientInv, Questions, BridgeTypes
  <2> SUFFICES ASSUME opening[c] = "no"
               PROVE  /\ c \in wanted => \E g \in Range(Pipe(c)') :
                           IsSnapshot(g) /\ (p \in Range(g.pending) \/ Follows(Pipe(c)', g, Request(p)))
                      /\ c \in shown \ wanted => p \in cards'[c] \/ Request(p) \in Range(Pipe(c)')
    BY <1>1 DEF Reads, Showing, server, IsSnapshot, Request
  <2>2. c \in up
    BY DEF Reads
  <2>3. ASSUME NEW g \in Range(Pipe(c)), IsSnapshot(g)
        PROVE  g \in Range(Pipe(c)') /\ (Follows(Pipe(c), g, Request(p)) => Follows(Pipe(c)', g, Request(p)))
    BY <1>0, <1>1, <2>1, <2>3, Readable DEF Reads
  <2>4. c \in shown \ wanted => p \in cards'[c] \/ Request(p) \in Range(Pipe(c)')
    <3>1. c \in shown \ wanted => p \in cards[c] \/ Request(p) \in Range(Pipe(c))
      BY <2>1, <2>2 DEF Showing
    <3>2. Request(p) # f /\ p # f.q
      BY <1>1, <1>2, <2>1, FrameKinds DEF Closed, Verdicts
    <3> QED
      BY <1>3, <3>1, <3>2 DEF Reads
  <2> QED
    BY <2>1, <2>2, <2>3, <2>4 DEF Showing
<1>8. ClientInv(c)'
  BY <1>0, <1>1, <1>5, <1>6, <1>7, ReadStays
<1> QED
  BY <1>3, <1>4, <1>8

LEMMA FirstAskFacts ==
    ASSUME NEW s \in Seq(Questions)
    PROVE  FirstAsk(s) = None \/ FirstAsk(s) \in Range(s) \cap Asks
<1> DEFINE asks == Only(s, Asks)
<1>1. asks \in Seq(Questions)
  BY OnlySelects
<1>2. Range(asks) = Range(s) \cap Asks
  BY OnlySelects
<1>3. FirstAsk(s) = IF asks = <<>> THEN None ELSE Head(asks)
  BY DEF FirstAsk
<1> HIDE DEF asks
<1>4. asks # <<>> => Head(asks) \in Range(asks)
  <2> SUFFICES ASSUME asks # <<>> PROVE Head(asks) \in Range(asks)
    OBVIOUS
  <2>1. Range(asks) = {Head(asks)} \cup Range(Tail(asks))
    BY <1>1, TailFacts
  <2> QED
    BY <2>1
<1> QED
  BY <1>2, <1>3, <1>4

\* What the snapshot shows and was settled has its end behind it, in the
\* settlements kept for the store, or in the replay.
LEMMA ReadSnapshotStep ==
    ASSUME IInv, NEW c \in Clients, NEW f, Reads(c, f), ReadSnapshot(c, f)
    PROVE  ScreenTypes' /\ ClientInv(c)' /\ OthersScreens(c)
<1> DEFINE ask  == IF FirstAsk(f.pending) = None THEN slot[c] ELSE FirstAsk(f.pending)
           held == Range(f.pending) \cap Approvals
<1>0. /\ BridgeTypes /\ ServerTypes /\ PipeTypes /\ ScreenTypes /\ ClientInv(c) /\ BridgeInv
  BY TypeParts DEF IInv
<1>1. /\ f.kind = "snapshot" /\ IsSnapshot(f)
      /\ c \in wanted => /\ slot' = [slot EXCEPT ![c] = IF ask \in later[c] THEN None ELSE ask]
                         /\ cards' = [cards EXCEPT ![c] = held \ later[c]]
                         /\ later' = [later EXCEPT ![c] = {}] /\ clicked' = [clicked EXCEPT ![c] = {}]
                         /\ shown' = shown \cup {c} /\ wanted' = wanted \ {c}
      /\ c \notin wanted => slot' = [slot EXCEPT ![c] = ask] /\ UNCHANGED <<wanted, shown, cards, later, clicked>>
  BY DEF ReadSnapshot, IsSnapshot
<1>2. /\ f.pending \in Seq(Questions) /\ Range(f.pending) \subseteq Questions
      /\ \A p \in Range(f.pending) : verdict[p] # "new"
      /\ UNCHANGED up
  <2>1. f.pending \in Seq(Questions)
    BY <1>1 DEF Reads
  <2>2. Range(f.pending) \subseteq Questions
    BY <2>1, ElementOfSeq, LenProperties DEF Range
  <2>3. Truthful(c, f)
    BY <1>0 DEF Reads, ClientInv
  <2> QED
    BY <1>1, <2>1, <2>2, <2>3 DEF Truthful, Reads
<1>3. ask = slot[c] \/ ask \in Range(f.pending) \cap Asks
  BY <1>2, FirstAskFacts
<1>4. slot[c] \in Asks \cup {None} /\ ask \in Asks \cup {None} /\ None \notin Questions
  BY <1>0, <1>3, CardsAssumption DEF ScreenTypes, Questions
<1> HIDE DEF ask
<1>5. /\ slot'[c] \in {None, ask}
      /\ cards'[c] = IF c \in wanted THEN held \ later[c] ELSE cards[c]
      /\ later'[c] \subseteq later[c] /\ c \notin wanted'
      /\ OthersScreens(c)
  <2> HIDE DEF held
  <2>1. CASE c \in wanted
    <3>1. /\ slot' = [slot EXCEPT ![c] = IF ask \in later[c] THEN None ELSE ask]
          /\ cards' = [cards EXCEPT ![c] = held \ later[c]] /\ later' = [later EXCEPT ![c] = {}]
          /\ shown' = shown \cup {c} /\ wanted' = wanted \ {c}
      BY <1>1, <2>1
    <3>2. slot'[c] \in {None, ask} /\ cards'[c] = held \ later[c] /\ later'[c] = {}
      BY <1>0, <3>1 DEF ScreenTypes
    <3>3. OthersScreens(c)
      BY <1>0, <3>1 DEF ScreenTypes, OthersScreens
    <3> QED
      BY <2>1, <3>1, <3>2, <3>3
  <2>2. CASE c \notin wanted
    <3>1. slot' = [slot EXCEPT ![c] = ask] /\ UNCHANGED <<wanted, shown, cards, later>>
      BY <1>1, <2>2
    <3>2. slot'[c] = ask /\ OthersScreens(c)
      BY <1>0, <3>1 DEF ScreenTypes, OthersScreens
    <3> QED
      BY <2>2, <3>1, <3>2
  <2> QED
    BY <2>1, <2>2
<1>6. ScreenTypes'
  BY <1>0, <1>1, <1>2, <1>4 DEF ScreenTypes
<1>7. Raised(c)'
  <2>1. verdict' = verdict /\ snap' = snap
    BY DEF Reads, bridge, server
  <2>2. Raised(c)
    BY <1>0 DEF ClientInv
  <2>3. \A q \in cards'[c] : verdict[q] # "new"
    BY <1>2, <1>5, <2>2 DEF Raised
  <2>4. slot'[c] # None => verdict[slot'[c]] # "new"
    BY <1>2, <1>3, <1>5, <2>2 DEF Raised
  <2> QED
    BY <1>5, <2>1, <2>2, <2>3, <2>4 DEF Raised, Closed
<1>8. ASSUME NEW p \in Questions, Closed(p)
      PROVE  /\ p \in cards'[c] => c \in wanted' \/ Fin(p) \in Range(Pipe(c)') \/ Replayed(c, p)
             /\ p = slot'[c] => \/ p \in missed[c] \/ Fin(p) \in Range(Pipe(c)') \/ Replayed(c, p)
                                \/ (c \notin attached /\ p \in Range(recent))
  <2>1. Ending(c, p)
    BY <1>0, <1>8 DEF ClientInv
  <2>2. Fin(p) # f /\ Fin(p) \in Frames
    BY <1>1, <1>8, FrameKinds DEF Fin, Closed
  <2>3. Fin(p) \in Range(Pipe(c)) => Fin(p) \in Range(Pipe(c)')
    BY <2>2 DEF Reads
  <2>4. p \in Range(f.pending) => Fin(p) \in Range(Pipe(c)') \/ Replayed(c, p)
    BY <1>1, <2>1, <2>2 DEF Reads, Ending
  <2>5. c \in up
    BY DEF Reads
  <2>6. p \in cards'[c] => Fin(p) \in Range(Pipe(c)') \/ Replayed(c, p)
    BY <1>5, <2>1, <2>3, <2>4, <2>5 DEF Ending
  <2>7. p = slot'[c] => p = slot[c] \/ p \in Range(f.pending)
    BY <1>3, <1>4, <1>5
  <2> QED
    BY <2>1, <2>3, <2>4, <2>6, <2>7 DEF Ending
<1>9. ASSUME NEW p \in InTable \cap Approvals PROVE Showing(c, p)'
  <2>1. Showing(c, p) /\ p \in Questions /\ Request(p) \in Frames /\ verdict[p] = "open"
    BY <1>0, FrameKinds DEF ClientInv, Questions, BridgeTypes
  <2>2. c \in up /\ Request(p) # f /\ (opening'[c] = "no" => opening[c] = "no")
    BY <1>1, <2>1, FrameKinds DEF Reads, server
  <2>3. p \notin later[c]
    BY <1>0, <2>1 DEF ClientInv, Raised, Closed, Verdicts
  <2>4. ASSUME opening[c] = "no", c \in shown' \ wanted' PROVE p \in cards'[c] \/ Request(p) \in Range(Pipe(c)')
    <3>1. CASE c \in wanted
      <4>1. PICK g \in Range(Pipe(c)) : IsSnapshot(g) /\ (p \in Range(g.pending) \/ Follows(Pipe(c), g, Request(p)))
        BY <2>1, <2>2, <2>4, <3>1 DEF Showing
      <4>2. g = f
        BY <1>1, <4>1 DEF Reads
      <4> QED
        BY <1>5, <2>1, <2>3, <3>1, <4>1, <4>2 DEF Reads
    <3>2. CASE c \notin wanted
      <4>1. c \in shown \ wanted
        BY <1>1, <2>4, <3>2
      <4>2. p \in cards[c] \/ Request(p) \in Range(Pipe(c))
        BY <2>1, <2>2, <2>4, <4>1 DEF Showing
      <4> QED
        BY <1>5, <2>2, <3>2, <4>2 DEF Reads
    <3> QED
      BY <3>1, <3>2
  <2> QED
    BY <1>5, <2>2, <2>4 DEF Showing, Request
<1>10. ClientInv(c)'
  BY <1>0, <1>1, <1>5, <1>7, <1>8, <1>9, ReadStays
<1> QED
  BY <1>5, <1>6, <1>10

LEMMA DeliverStep ==
    ASSUME IInv, NEW c \in Clients, Deliver(c)
    PROVE  IInv'
<1> DEFINE f == Head(wire[c])
<1>0. /\ BridgeTypes /\ ServerTypes /\ PipeTypes /\ ScreenTypes /\ CallTypes
      /\ BatchesLeave /\ BridgeInv /\ \A d \in Clients : ClientInv(d)
  BY TypeParts DEF IInv
<1>1. /\ c \in up /\ wire[c] # <<>> /\ Read(c)
      /\ ReadRequest(c, f) \/ ReadEnd(c, f) \/ ReadSnapshot(c, f) \/ ReadDone(c, f)
      /\ UNCHANGED <<bridge, server, up, batcher, calls, missed>>
  BY DEF Deliver
<1>2. Reads(c, f) /\ PipeTypes' /\ \A d \in Clients \ {c} : wire'[d] = wire[d]
  <2>1. Alone(c) /\ UNCHANGED <<bridge, server, up, batcher, missed>>
    BY <1>0, <1>1 DEF ClientInv
  <2> QED
    BY <1>0, <1>1, <2>1, ReadFacts
<1> HIDE DEF f
<1>3. ScreenTypes' /\ ClientInv(c)' /\ OthersScreens(c)
  BY <1>1, <1>2, ReadRequestStep, ReadEndStep, ReadSnapshotStep, ReadDoneStep
<1>4. TypeOK'
  BY <1>0, <1>1, <1>2, <1>3, TypesStay, TypePartsNext
<1>5. BatchesLeave' /\ BridgeInv'
  BY <1>0, <1>1, BridgeStays DEF BatchesLeave, BridgeInv
<1>6. ASSUME NEW d \in Clients \ {c} PROVE ClientInv(d)'
  <2>1. SameFor(d)
    BY <1>1, <1>2, <1>3, PipeStays DEF SameFor, OthersScreens, server
  <2> QED
    BY <1>0, <1>1, <2>1, Others DEF bridge
<1> QED
  BY <1>3, <1>4, <1>5, <1>6 DEF IInv

-----------------------------------------------------------------------------
(* Connections.                                                            *)

\* Nothing is under way to a client without a connection.
LEMMA Emptied ==
    ASSUME NEW c, wire'[c] = <<>>, batcher'[c] = NewBatcher
    PROVE  Pipe(c)' = <<>> /\ batcher'[c].queue = <<>> /\ Range(Pipe(c)') = {} /\ DOMAIN Pipe(c)' = {}
<1>1. batcher'[c].queue = <<>>
  BY DEF NewBatcher
<1>2. Pipe(c)' = <<>>
  BY <1>1 DEF Pipe
<1> QED
  BY <1>1, <1>2 DEF Range

LEMMA DropStep ==
    ASSUME IInv, NEW c \in Clients, Drop(c)
    PROVE  IInv'
<1>0. /\ BridgeTypes /\ ServerTypes /\ PipeTypes /\ ScreenTypes /\ CallTypes
      /\ BatchesLeave /\ BridgeInv /\ \A d \in Clients : ClientInv(d)
  BY TypeParts DEF IInv
<1>1. /\ c \in up /\ up' = up \ {c} /\ attached' = attached \ {c}
      /\ opening' = [opening EXCEPT ![c] = "no"] /\ snap' = [snap EXCEPT ![c] = <<>>]
      /\ batcher' = [batcher EXCEPT ![c] = NewBatcher] /\ wire' = [wire EXCEPT ![c] = <<>>]
      /\ calls' = {x \in calls : x[1] # c} /\ wanted' = wanted \ {c}
      /\ IF c \in wanted
         THEN shown' = shown \ {c} /\ cards' = [cards EXCEPT ![c] = {}] /\ clicked' = [clicked EXCEPT ![c] = {}]
         ELSE UNCHANGED <<shown, cards, clicked>>
      /\ UNCHANGED <<bridge, slot, later, missed>>
  BY DEF Drop
<1>2. NewBatcher \in Batchers(Frames) /\ NothingStuck(NewBatcher) /\ <<>> \in Seq(Frames) /\ <<>> \in Seq(Questions)
  BY EmptySeq DEF NewBatcher, Batchers, NothingStuck
<1>3. PipeTypes' /\ ServerTypes'
  BY <1>0, <1>1, <1>2 DEF PipeTypes, ServerTypes
<1>4. ScreenTypes' /\ CallTypes'
  BY <1>0, <1>1 DEF ScreenTypes, CallTypes
<1>5. TypeOK'
  BY <1>0, <1>1, <1>3, <1>4, TypesStay, TypePartsNext
<1>6. /\ wire'[c] = <<>> /\ batcher'[c] = NewBatcher /\ opening'[c] = "no" /\ snap'[c] = <<>>
      /\ cards'[c] \subseteq cards[c] /\ (c \in wanted => cards'[c] = {})
      /\ \A d \in Clients \ {c} : /\ wire'[d] = wire[d] /\ batcher'[d] = batcher[d]
                                  /\ opening'[d] = opening[d] /\ snap'[d] = snap[d] /\ cards'[d] = cards[d]
  BY <1>0, <1>1 DEF PipeTypes, ServerTypes, ScreenTypes
<1>7. BatchesLeave'
  BY <1>0, <1>2, <1>6 DEF BatchesLeave
<1>8. BridgeInv'
  BY <1>0, <1>1, BridgeStays DEF BridgeInv
<1>9. ClientInv(c)'
  <2>0. ClientInv(c)
    BY <1>0
  <2>1. Pipe(c)' = <<>> /\ batcher'[c].queue = <<>> /\ Range(Pipe(c)') = {} /\ DOMAIN Pipe(c)' = {}
    BY <1>6, Emptied
  <2>2. c \notin up' /\ c \notin wanted' /\ c \notin attached' /\ Range(snap'[c]) = {}
    BY <1>1, <1>6, Shortest
  <2>3. \A f \in Range(Pipe(c)') : Truthful(c, f)'
    BY <2>1
  <2>4. Alone(c)'
    BY <2>1, Shortest DEF Alone, OneSnapshot
  <2>5. Linked(c)'
    BY <1>6, <2>1, <2>2 DEF Linked
  <2>6. Raised(c)'
    BY <1>1, <1>6, <2>0, <2>2 DEF ClientInv, Raised, bridge, Closed
  <2>7. ASSUME NEW p \in Questions, Closed(p)' PROVE Ending(c, p)'
    <3>1. Ending(c, p) /\ Closed(p)
      BY <1>1, <2>0, <2>7 DEF ClientInv, Closed, bridge
    <3>2. p = slot[c] => p \in missed[c] \/ p \in Range(recent)
      <4> SUFFICES ASSUME p = slot[c], Fin(p) \in Range(Pipe(c)) PROVE p \in Range(recent)
        BY <3>1 DEF Ending, Replayed
      <4>1. Fin(p).kind = "end" /\ Fin(p).q = p
        BY <3>1, FrameKinds DEF Fin, Closed
      <4> QED
        BY <2>0, <4>1 DEF ClientInv, Truthful
    <3>3. Follows(Pipe(c)', Request(p)', Fin(p)')
      BY <2>1 DEF Follows
    <3> QED
      BY <1>1, <2>1, <2>2, <3>2, <3>3 DEF Ending, bridge
  <2>8. ASSUME NEW p \in InTable' \cap Approvals PROVE Showing(c, p)'
    BY <2>2 DEF Showing
  <2> QED
    BY <2>3, <2>4, <2>5, <2>6, <2>7, <2>8 DEF ClientInv
<1>10. ASSUME NEW d \in Clients \ {c} PROVE ClientInv(d)'
  <2>1. SameFor(d)
    BY <1>1, <1>6, PipeStays DEF SameFor
  <2> QED
    BY <1>0, <1>1, <2>1, Others DEF bridge
<1> QED
  BY <1>5, <1>7, <1>8, <1>9, <1>10 DEF IInv

LEMMA ReconnectStep ==
    ASSUME IInv, NEW c \in Clients, Reconnect(c)
    PROVE  IInv'
<1>0. /\ BridgeTypes /\ ServerTypes /\ PipeTypes /\ ScreenTypes /\ CallTypes
      /\ BatchesLeave /\ BridgeInv /\ \A d \in Clients : ClientInv(d)
  BY TypeParts DEF IInv
<1>1. /\ c \notin up /\ up' = up \cup {c}
      /\ IF c \in shown THEN opening' = [opening EXCEPT ![c] = "asked"] /\ wanted' = wanted \cup {c}
         ELSE UNCHANGED <<opening, wanted>>
      /\ UNCHANGED <<bridge, attached, snap, shown, cards, slot, later, clicked, batcher, wire, calls, missed>>
  BY DEF Reconnect
<1>2. c \notin wanted /\ c \notin attached /\ Pipe(c) = <<>> /\ opening[c] = "no"
  BY <1>0, <1>1 DEF ScreenTypes, ServerTypes, ClientInv, Linked
<1>3. ServerTypes' /\ ScreenTypes'
  BY <1>0, <1>1 DEF ServerTypes, ScreenTypes
<1>4. TypeOK'
  BY <1>0, <1>1, <1>3, TypesStay, TypePartsNext
<1>5. BatchesLeave' /\ BridgeInv'
  BY <1>0, <1>1, BridgeStays DEF BatchesLeave, BridgeInv
<1>6. /\ opening'[c] = IF c \in shown THEN "asked" ELSE "no"
      /\ c \in wanted' <=> c \in shown
      /\ \A d \in Clients \ {c} : opening'[d] = opening[d] /\ ((d \in wanted') = (d \in wanted))
  BY <1>0, <1>1, <1>2 DEF ServerTypes
<1>7. ClientInv(c)'
  <2>0. ClientInv(c)
    BY <1>0
  <2>1. /\ Pipe(c)' = Pipe(c) /\ Range(batcher'[c].queue) \subseteq Range(batcher[c].queue)
        /\ Range(Pipe(c)) = {}
    <3>1. Range(<<>>) = {}
      BY Shortest
    <3> QED
      BY <1>1, <1>2, <3>1, PipeStays
  <2>2. \A f \in Range(Pipe(c)') : Truthful(c, f)'
    BY <2>1
  <2>3. Alone(c)'
    BY <1>1, <2>0, <2>1 DEF ClientInv, Alone
  <2>4. Linked(c)'
    BY <1>1, <1>2, <1>6, <2>0 DEF ClientInv, Linked
  <2>5. Raised(c)'
    BY <1>1, <2>0 DEF ClientInv, Raised, bridge, Closed
  <2>6. ASSUME NEW p \in Questions, Closed(p)' PROVE Ending(c, p)'
    <3>1. Ending(c, p)
      BY <1>1, <2>0, <2>6 DEF ClientInv, Closed, bridge
    <3>2. Fin(p)' = Fin(p) /\ ~Replayed(c, p)
      BY <1>1, <1>2 DEF Fin, End, Replayed, bridge
    <3>3. c \in up' /\ p \in cards'[c] => c \in wanted'
      BY <1>0, <1>1, <1>6 DEF ScreenTypes
    <3> QED
      BY <1>1, <2>1, <3>1, <3>2, <3>3 DEF Ending, bridge, Request
  <2>7. ASSUME NEW p \in InTable' \cap Approvals PROVE Showing(c, p)'
    BY <1>1, <1>6 DEF Showing
  <2> QED
    BY <2>2, <2>3, <2>4, <2>5, <2>6, <2>7 DEF ClientInv
<1>8. ASSUME NEW d \in Clients \ {c} PROVE ClientInv(d)'
  <2>1. SameFor(d)
    BY <1>1, <1>6, PipeStays DEF SameFor
  <2> QED
    BY <1>0, <1>1, <2>1, Others DEF bridge
<1> QED
  BY <1>4, <1>5, <1>7, <1>8 DEF IInv

-----------------------------------------------------------------------------
(* The theorems.                                                           *)

LEMMA InitIInv == Init => IInv
<1> SUFFICES ASSUME Init PROVE IInv
  OBVIOUS
<1>1. NewBatcher \in Batchers(Frames) /\ NothingStuck(NewBatcher) /\ NewBatcher.queue = <<>> /\ <<>> \in Seq(Frames)
  BY EmptySeq DEF NewBatcher, Batchers, NothingStuck
<1>2. Range(<<>>) = {} /\ <<>> \in Seq(Questions) /\ DOMAIN <<>> = {}
  BY Shortest
<1>3. BridgeTypes
  <2>1. pending = <<>> /\ recent = <<>>
    BY DEF Init
  <2>2. IsInjective(pending)
    BY <1>2, <2>1 DEF IsInjective
  <2> QED
    BY <1>2, <2>1, <2>2 DEF Init, BridgeTypes, InTable, Verdicts
<1>4. ServerTypes /\ PipeTypes /\ ScreenTypes /\ CallTypes
  BY <1>1, <1>2 DEF Init, ServerTypes, PipeTypes, ScreenTypes, CallTypes
<1>5. BatchesLeave
  BY <1>1 DEF Init, BatchesLeave
<1>6. BridgeInv
  <2>1. Range(recent) = {} /\ calls = {}
    BY <1>2 DEF Init
  <2> QED
    BY <2>1 DEF Init, BridgeInv
<1>7. ASSUME NEW c \in Clients PROVE ClientInv(c)
  <2>1. /\ Pipe(c) = <<>> /\ Range(Pipe(c)) = {} /\ Range(batcher[c].queue) = {} /\ DOMAIN Pipe(c) = {}
    <3>1. wire[c] = <<>> /\ batcher[c].queue = <<>>
      BY <1>1 DEF Init
    <3>2. Pipe(c) = <<>>
      BY <3>1 DEF Pipe
    <3> QED
      BY <1>2, <3>1, <3>2
  <2>2. /\ opening[c] = "asked" /\ snap[c] = <<>> /\ Range(snap[c]) = {} /\ cards[c] = {} /\ slot[c] = None
        /\ later[c] = {} /\ c \in wanted /\ c \in up /\ c \notin shown
    BY <1>2 DEF Init
  <2>3. Alone(c)
    BY <2>1 DEF Alone, OneSnapshot
  <2>4. Linked(c) /\ Raised(c)
    BY <2>2 DEF Linked, Raised
  <2>5. \A q \in Questions : ~Closed(q)
    BY DEF Init, Closed, Verdicts
  <2>6. \A q \in InTable \cap Approvals : Showing(c, q)
    BY <2>2 DEF Showing
  <2> QED
    BY <2>1, <2>3, <2>4, <2>5, <2>6 DEF ClientInv
<1> QED
  BY <1>3, <1>4, <1>5, <1>6, <1>7, TypeParts DEF IInv

LEMMA NextIInv == IInv /\ [Next]_vars => IInv'
<1> SUFFICES ASSUME IInv, [Next]_vars PROVE IInv'
  OBVIOUS
<1>1. ASSUME NEW q \in Questions, Raise(q) \/ Timeout(q) \/ Expire(q) \/ Elsewhere(q, "no") PROVE IInv'
  BY <1>1, RaiseStep, TimeoutStep, ExpireStep, ElsewhereStep
<1>2. ASSUME NEW c \in Clients,
             \/ Open(c) \/ LookAway(c) \/ Capture(c) \/ Respond(c) \/ Attach(c) \/ Deliver(c)
             \/ Drop(c) \/ Reconnect(c)
      PROVE  IInv'
  BY <1>2, OpenStep, LookAwayStep, CaptureStep, RespondStep, AttachStep, DeliverStep, DropStep, ReconnectStep
<1>3. ASSUME NEW c \in Clients, NEW held \in BOOLEAN, FlushFires(c, held) PROVE IInv'
  BY <1>3, FlushFiresStep
<1>4. ASSUME NEW c \in Clients, AnswerAsk(c, "yes") PROVE IInv'
  BY <1>4, AnswerAskStep
<1>5. ASSUME NEW c \in Clients, NEW q \in Questions, Decide(c, q, "yes") \/ Handle(c, q, "yes") PROVE IInv'
  BY <1>5, DecideStep, HandleStep
<1>6. CASE UNCHANGED vars
  <2>1. /\ BridgeTypes /\ ServerTypes /\ PipeTypes /\ ScreenTypes /\ CallTypes
        /\ BatchesLeave /\ BridgeInv /\ \A d \in Clients : ClientInv(d)
    BY TypeParts DEF IInv
  <2>2. UNCHANGED <<bridge, server, screen, up, batcher, wire, calls, missed>>
    BY <1>6 DEF vars
  <2>3. TypeOK'
    BY <2>1, <2>2, TypesStay, TypePartsNext
  <2>4. BatchesLeave' /\ BridgeInv'
    BY <2>1, <2>2, BridgeStays DEF BatchesLeave, BridgeInv
  <2>5. ASSUME NEW d \in Clients PROVE ClientInv(d)'
    <3>1. SameFor(d)
      BY <2>2, PipeStays DEF SameFor, server, screen
    <3> QED
      BY <2>1, <2>2, <3>1, Others DEF bridge
  <2> QED
    BY <2>3, <2>4, <2>5 DEF IInv
<1> QED
  BY <1>1, <1>2, <1>3, <1>4, <1>5, <1>6 DEF Next

\* The types; the table holds the open questions, each once and under a timeout.
THEOREM TypesOfCards == Spec => []TypeOK
<1>1. IInv => TypeOK
  BY DEF IInv
<1> QED
  BY <1>1, InitIInv, NextIInv, PTL DEF Spec

\* Frames that wait in a batcher have a timer that will flush them.
THEOREM BatchesAlwaysLeave == Spec => []BatchesLeave
<1>1. IInv => BatchesLeave
  BY DEF IInv
<1> QED
  BY <1>1, InitIInv, NextIInv, PTL DEF Spec

\* The asker and every device are told the one verdict of a question, whoever
\* answered first, the timeout included.
THEOREM OneVerdictAlways == Spec => []OneVerdict
<1>1. IInv => OneVerdict
  <2> SUFFICES ASSUME IInv PROVE OneVerdict
    OBVIOUS
  <2>1. /\ PipeTypes /\ BridgeInv /\ \A c \in Clients : ClientInv(c)
    BY TypeParts DEF IInv
  <2>2. ASSUME NEW c \in Clients, NEW f \in Range(wire[c]) \cup Range(batcher[c].queue), f.kind = "end"
        PROVE  f.verdict = verdict[f.q]
    <3>1. f \in Range(Pipe(c))
      BY <2>1, PipeFacts
    <3>2. f = End(f.q, verdict[f.q])
      BY <2>1, <2>2, <3>1 DEF ClientInv, Truthful, Fin
    <3> QED
      BY <3>2 DEF End
  <2> QED
    BY <2>1, <2>2 DEF OneVerdict, BridgeInv
<1> QED
  BY <1>1, InitIInv, NextIInv, PTL DEF Spec

\* At rest, a client that shows the session shows the approvals that wait and no
\* other, however they were raised and settled around its opens.
THEOREM ApprovalsShownAlways == Spec => []ApprovalsShown
<1>1. IInv => ApprovalsShown
  <2> SUFFICES ASSUME IInv, NEW c \in Clients, Rest(c) PROVE cards[c] = InTable \cap Approvals
    BY DEF ApprovalsShown
  <2>1. BridgeTypes /\ ServerTypes /\ PipeTypes /\ ScreenTypes /\ ClientInv(c)
    BY TypeParts DEF IInv
  <2>2. Pipe(c) = <<>> /\ Range(Pipe(c)) = {}
    BY <2>1, PipeFacts, Shortest DEF Rest
  <2>3. ASSUME NEW q \in InTable \cap Approvals PROVE q \in cards[c]
    BY <2>1, <2>2 DEF ClientInv, Showing, Rest
  <2>4. ASSUME NEW q \in cards[c] PROVE q \in InTable \cap Approvals
    <3>1. q \in Approvals /\ q \in Questions /\ verdict[q] # "new"
      BY <2>1 DEF ScreenTypes, Questions, ClientInv, Raised
    <3>2. ~Closed(q)
      BY <2>1, <2>2, <3>1 DEF ClientInv, Ending, Replayed, Rest
    <3> QED
      BY <2>1, <3>1, <3>2 DEF BridgeTypes, Closed
  <2> QED
    BY <2>3, <2>4
<1> QED
  BY <1>1, InitIInv, NextIInv, PTL DEF Spec

\* At rest, the ask card is of an ask that waits, except after a settlement the
\* bridge forgot while the client was not attached.
THEOREM AskCardAlwaysOpen == Spec => []AskCardIsOpen
<1>1. IInv => AskCardIsOpen
  <2> SUFFICES ASSUME IInv, NEW c \in Clients, Rest(c), slot[c] # None PROVE slot[c] \in InTable \cup missed[c]
    BY DEF AskCardIsOpen
  <2>1. BridgeTypes /\ ServerTypes /\ PipeTypes /\ ScreenTypes /\ ClientInv(c)
    BY TypeParts DEF IInv
  <2>2. Pipe(c) = <<>> /\ Range(Pipe(c)) = {}
    BY <2>1, PipeFacts, Shortest DEF Rest
  <2>3. slot[c] \in Questions /\ verdict[slot[c]] # "new"
    BY <2>1 DEF ScreenTypes, Questions, ClientInv, Raised
  <2>4. c \in attached
    BY <2>1 DEF ClientInv, Linked, Rest
  <2>5. Closed(slot[c]) => slot[c] \in missed[c]
    BY <2>1, <2>2, <2>3, <2>4 DEF ClientInv, Ending, Replayed, Rest
  <2> QED
    BY <2>1, <2>3, <2>5 DEF BridgeTypes, Closed
<1> QED
  BY <1>1, InitIInv, NextIInv, PTL DEF Spec

=============================================================================
