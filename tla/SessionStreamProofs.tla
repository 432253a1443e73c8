------------------------- MODULE SessionStreamProofs ------------------------
(***************************************************************************)
(* Theorems about SessionStream, for every number of events, opens,        *)
(* compactions and disconnects and every page size: the transcript on      *)
(* screen is a piece of the history, the watermark agrees with it, a hole  *)
(* is attended, and the pipeline implements TranscriptFeed.                *)
(*                                                                         *)
(* The invariant says of everything on its way to the client that it       *)
(* belongs to the numbering the daemon has now: frames are records of the  *)
(* log, and a snapshot shows at least the events its cursor leaves out.    *)
(* It also says that one open at a time is on its way through the daemon.  *)
(***************************************************************************)
EXTENDS SessionStream, SequenceTheorems, FiniteSetTheorems, WellFoundedInduction, TLAPS

\* The events above the cursor c are the last of the history, in its order.
Numbered(c) ==
    /\ c \in 0..Len(log) /\ total + c >= Len(log)
    /\ \A n \in c + 1..Len(log) : log[n] + Len(log) = total + n

\* The first u events leave none out that c does not have above it.
Covers(c, u) == Numbered(c) /\ u \in 0..total /\ u + Len(log) >= total + c

Frames    == {Frame(n) : n \in DOMAIN log}
Snapshots == {m \in [kind : {"snapshot"}, cursor : Nat, upto : Nat, behind : BOOLEAN] :
                m.behind \/ Covers(m.cursor, m.upto)}
Pauses    == [kind : {"paused"}]
Answers   == [kind : {"caught"}, store : 0..store, resync : BOOLEAN]
Messages  == Frames \cup Snapshots \cup Pauses \cup Answers
InTransit == batch \in Seq(Frames) /\ wire \in Seq(Messages)

Resumes ==
    [st : {"none", "asked"}] \cup [st : {"cold"}, kept : Nat]
      \cup [st : {"tail"}, kept : Nat, cursor : Nat, due : Nat]
      \cup [st : {"captured"}, cursor : Nat, upto : Nat, behind : BOOLEAN, live : BOOLEAN]
Resuming ==
    /\ resume \in Resumes
    /\ resume.st = "tail" => Covers(resume.cursor, resume.due)
    /\ resume.st = "captured" => resume.behind \/ Covers(resume.cursor, resume.upto)

Catchups   == [store : 0..store, after : Nat, st : {"asked", "read", "push"}, rest : SUBSET DOMAIN log]
CatchingUp == requests \subseteq Catchups

\* An open is in one place: asked for, in one message, or asking for the pause
\* state; `opening' says which half it is in.
OfOpen(m) == m.kind \in {"snapshot", "paused"}
OneOpen ==
    /\ \A i, j \in DOMAIN wire : OfOpen(wire[i]) /\ OfOpen(wire[j]) => i = j
    /\ \A i \in DOMAIN wire :
          /\ OfOpen(wire[i]) => resume.st = "none" /\ ~pauseAsked
          /\ wire[i].kind = "snapshot" => opening = "fetch"
          /\ wire[i].kind = "paused" => opening = "pause"
    /\ resume.st # "none" => opening = "fetch"
    /\ pauseAsked => opening = "pause"

\* Without a connection nothing is on its way.
Silent ==
    ~online => /\ wire = <<>> /\ batch = <<>> /\ requests = {}
               /\ ~subscribed /\ resume.st = "none" /\ ~pauseAsked /\ opening = "none"

OnScreen == mounted /\ online /\ opening # "fetch"

Agrees ==
    /\ IsFiniteSet(reorder)
    /\ ~mounted => shown = <<>>
    /\ OnScreen => /\ ~stale => Covers(watermark, Len(shown))
                   /\ \A f \in reorder : f.seq \in DOMAIN log /\ f.ev = log[f.seq]

\* The resync of the store on screen has not been used up, but for nothing.
Guarded ==
    /\ resynced \subseteq 0..store
    /\ OnScreen => \/ refused
                   \/ store \notin resynced /\ (reorder # {} => gapTimer)

IInv ==
    /\ TypeOK /\ InTransit /\ Resuming /\ CatchingUp /\ OneOpen /\ Silent
    /\ Agrees /\ Guarded /\ ShownIsHistory

-----------------------------------------------------------------------------
(* Sequences, and what depends on the journal alone.                       *)

LEMMA SeqMonotone ==
    ASSUME NEW S, NEW T, S \subseteq T, NEW s \in Seq(S)
    PROVE  s \in Seq(T)
  BY SMT

LEMMA SameRecords ==
    ASSUME UNCHANGED <<log, total>>
    PROVE  /\ Frames' = Frames /\ Snapshots' = Snapshots /\ Pauses' = Pauses
           /\ \A c, u : Covers(c, u)' <=> Covers(c, u)
<1>1. \A c, u : Covers(c, u)' <=> Covers(c, u)
  BY DEF Covers, Numbered
<1>2. Frames' = Frames
  BY DEF Frames, Frame
<1>3. Snapshots' = Snapshots
  BY <1>1 DEF Snapshots
<1>4. Pauses' = Pauses
  BY DEF Pauses
<1> QED
  BY <1>1, <1>2, <1>3, <1>4

\* What the daemon does without publishing leaves the client as it is.
LEMMA ClientFrame ==
    ASSUME IInv, UNCHANGED <<log, total, online, client>>
    PROVE  Agrees' /\ Guarded' /\ ShownIsHistory'
<1>1. UNCHANGED <<opening, store, mounted, watermark, shown, reorder, inFlight, gapTimer, resynced,
                  stale, refused>>
  BY DEF client, gate, record
<1>2. OnScreen' <=> OnScreen
  BY <1>1 DEF OnScreen
<1>3. Agrees'
  BY <1>1, <1>2, SameRecords DEF IInv, Agrees
<1>4. Guarded'
  BY <1>1, <1>2 DEF IInv, Guarded
<1>5. ShownIsHistory'
  BY <1>1 DEF IInv, ShownIsHistory, Transcript
<1> QED
  BY <1>3, <1>4, <1>5

\* The types of the client and of the journal, when neither changes.
LEMMA TypeFrame ==
    ASSUME TypeOK, UNCHANGED <<log, total, online, client>>,
           live' \in BOOLEAN, subscribed' \in BOOLEAN, pauseAsked' \in BOOLEAN,
           base' \in Nat, ckpt' \in Nat, base' <= Len(log), CatchingUp'
    PROVE  TypeOK'
<1>1. UNCHANGED <<opening, store, mounted, watermark, shown, reorder, inFlight, gapTimer, resynced,
                  stale, refused>>
  BY DEF client, gate, record
<1>2. \A r \in requests' : r.st \in {"asked", "read", "push"} /\ r.rest \subseteq DOMAIN log'
  BY DEF CatchingUp, Catchups
<1> QED
  BY <1>1, <1>2 DEF TypeOK

LEMMA TransitFrame ==
    ASSUME InTransit, UNCHANGED <<log, total, store, batch, wire>>
    PROVE  InTransit'
  BY SameRecords DEF InTransit, Messages, Answers

LEMMA ResumingFrame ==
    ASSUME Resuming, UNCHANGED <<log, total, resume>>
    PROVE  Resuming'
  BY SameRecords DEF Resuming, Resumes

LEMMA CatchingUpFrame ==
    ASSUME CatchingUp, UNCHANGED <<log, store, requests>>
    PROVE  CatchingUp'
  BY DEF CatchingUp, Catchups

\* What is on the wire when only messages of no open are added to it.
LEMMA OneOpenFrame ==
    ASSUME OneOpen, UNCHANGED <<opening, resume, pauseAsked>>,
           \A i \in DOMAIN wire' : \/ i \in DOMAIN wire /\ wire'[i] = wire[i]
                                  \/ ~OfOpen(wire'[i])
    PROVE  OneOpen'
  BY DEF OneOpen, OfOpen

\* What is on the wire when no open is.
LEMMA OneOpenElsewhere ==
    ASSUME \A i \in DOMAIN wire' : ~OfOpen(wire'[i]),
           (resume.st # "none" => opening = "fetch")', (pauseAsked => opening = "pause")'
    PROVE  OneOpen'
  BY DEF OneOpen, OfOpen

\* The kinds tell the messages apart.
LEMMA Kinds ==
    /\ \A m \in Frames : m.kind = "event" /\ m.seq \in DOMAIN log /\ m.ev = log[m.seq]
    /\ \A m \in Snapshots : m.kind = "snapshot" /\ m.cursor \in Nat /\ m.upto \in Nat
                            /\ m.behind \in BOOLEAN /\ (m.behind \/ Covers(m.cursor, m.upto))
    /\ \A m \in Pauses : m.kind = "paused"
    /\ \A m \in Answers : m.kind = "caught" /\ m.store \in 0..store /\ m.resync \in BOOLEAN
  BY DEF Frames, Frame, Snapshots, Pauses, Answers

-----------------------------------------------------------------------------
(* The daemon.                                                             *)

LEMMA StreamInit == Init => IInv
<1> SUFFICES ASSUME Init PROVE IInv
  OBVIOUS
<1>1. shown = <<>> /\ Len(shown) = 0 /\ reorder = {} /\ ~mounted /\ ~OnScreen
  BY DEF Init, OnScreen
<1>2. TypeOK
  <2>1. base <= Len(log) /\ log \in Seq(Nat) /\ shown \in Seq(Nat)
    BY DEF Init
  <2>2. total \in Nat /\ base \in Nat /\ ckpt \in Nat /\ store \in Nat /\ watermark \in Nat
    BY DEF Init
  <2> QED
    BY <2>1, <2>2 DEF Init, TypeOK
<1>3. InTransit /\ Resuming /\ CatchingUp /\ Silent /\ OneOpen
  BY DEF Init, InTransit, Resuming, Resumes, CatchingUp, Silent, OneOpen
<1>4. Agrees /\ Guarded
  BY <1>1, FS_EmptySet DEF Init, Agrees, Guarded
<1>5. ShownIsHistory
  <2>1. Transcript(0) = <<>>
    BY DEF Transcript
  <2> QED
    BY <1>1, <2>1 DEF ShownIsHistory
<1> QED
  BY <1>2, <1>3, <1>4, <1>5 DEF IInv

\* The cut of a compaction, the disposal and the activation of the session.
LEMMA StreamQuiet == IInv /\ (Compact \/ IdleDispose \/ Activate) => IInv'
<1> SUFFICES ASSUME IInv, Compact \/ IdleDispose \/ Activate PROVE IInv'
  OBVIOUS
<1>1. /\ UNCHANGED <<log, total, online, client, store, batch, wire, resume, requests, opening, pauseAsked>>
      /\ live' \in BOOLEAN /\ subscribed' \in BOOLEAN /\ (subscribed' => subscribed)
      /\ base' \in Nat /\ ckpt' \in Nat /\ base' <= Len(log)
  <2>1. UNCHANGED <<log, total, online, client, store, batch, wire, resume, requests, opening, pauseAsked>>
    BY DEF Compact, IdleDispose, Activate, serving, client
  <2>2. live' \in BOOLEAN /\ subscribed' \in BOOLEAN /\ (subscribed' => subscribed)
    <3>1. live \in BOOLEAN /\ subscribed \in BOOLEAN
      BY DEF IInv, TypeOK
    <3>2. CASE Compact
      BY <3>1, <3>2 DEF Compact, serving
    <3>3. CASE IdleDispose
      BY <3>1, <3>3 DEF IdleDispose
    <3>4. CASE Activate
      BY <3>1, <3>4 DEF Activate, serving
    <3> QED
      BY <3>2, <3>3, <3>4
  <2>3. base' \in Nat /\ ckpt' \in Nat /\ base' <= Len(log)
    <3>1. base \in Nat /\ ckpt \in Nat /\ base <= Len(log) /\ Len(log) \in Nat
      BY LenProperties DEF IInv, TypeOK
    <3>2. CASE Compact
      BY <3>1, <3>2 DEF Compact
    <3>3. CASE IdleDispose \/ Activate
      BY <3>1, <3>3 DEF IdleDispose, Activate
    <3> QED
      BY <3>2, <3>3
  <2> QED
    BY <2>1, <2>2, <2>3
<1>2. InTransit' /\ Resuming' /\ CatchingUp'
  BY <1>1, TransitFrame, ResumingFrame, CatchingUpFrame DEF IInv
<1>3. TypeOK'
  <2>1. pauseAsked' \in BOOLEAN
    BY <1>1 DEF IInv, TypeOK
  <2> QED
    BY <1>1, <1>2, <2>1, TypeFrame DEF IInv
<1>4. Silent' /\ OneOpen'
  BY <1>1, OneOpenFrame DEF IInv, Silent
<1> QED
  BY <1>1, <1>2, <1>3, <1>4, ClientFrame DEF IInv

\* A live snapshot holds what has been published, and its cursor is the tail.  One
\* from the files was asked for after its tail was read.
LEMMA StreamCapture == IInv /\ Capture => IInv'
<1> SUFFICES ASSUME IInv, Capture PROVE IInv'
  OBVIOUS
<1>1. /\ UNCHANGED <<live, total, log, base, ckpt, online, client, store, batch, wire, requests,
                     subscribed, opening, pauseAsked>>
      /\ CaptureLive \/ OpenHistory \/ ReadTail \/ BuildView
  BY DEF Capture, journal, client
<1>2. Len(log) \in Nat /\ total \in Nat /\ live \in BOOLEAN /\ resume \in Resumes
  BY LenProperties DEF IInv, TypeOK, Resuming
<1>3. Covers(Len(log), total)
  BY <1>2 DEF Covers, Numbered
<1>4. resume.st # "none" /\ resume' \in Resumes
      /\ (resume'.st = "tail" => Covers(resume'.cursor, resume'.due))
      /\ (resume'.st = "captured" => resume'.behind \/ Covers(resume'.cursor, resume'.upto))
  <2>1. CASE CaptureLive
    BY <1>2, <1>3, <2>1 DEF CaptureLive, Captured, Resumes
  <2>2. CASE OpenHistory
    BY <1>2, <2>2 DEF OpenHistory, Resumes
  <2>3. CASE ReadTail
    <3>1. resume.kept \in Nat /\ resume.st = "cold"
      BY <1>2, <2>3 DEF ReadTail, Resumes
    <3>2. resume' = [st |-> "tail", kept |-> resume.kept, cursor |-> Len(log), due |-> total]
      BY <2>3 DEF ReadTail
    <3> QED
      BY <1>2, <1>3, <3>1, <3>2 DEF Resumes
  <2>4. CASE BuildView
    <3>1. /\ resume.st = "tail" /\ resume.kept \in Nat /\ resume.cursor \in Nat /\ resume.due \in Nat
          /\ Covers(resume.cursor, resume.due)
      BY <1>2, <2>4 DEF BuildView, Resumes, IInv, Resuming
    <3>2. PICK u \in resume.kept..total : Captured(resume.cursor, u, u < resume.due)
      BY <2>4 DEF BuildView
    <3>3. u \in Nat /\ (u < resume.due) \in BOOLEAN
      BY <1>2, <3>1, <3>2
    <3>4. ~(u < resume.due) => Covers(resume.cursor, u)
      BY <1>2, <3>1, <3>2, <3>3 DEF Covers, Numbered
    <3> QED
      BY <1>2, <3>1, <3>2, <3>3, <3>4 DEF Captured, Resumes
  <2> QED
    BY <1>1, <2>1, <2>2, <2>3, <2>4
<1>5. Resuming'
  BY <1>1, <1>4, SameRecords DEF Resuming, Resumes
<1>6. InTransit' /\ CatchingUp'
  BY <1>1, TransitFrame, CatchingUpFrame DEF IInv
<1>7. TypeOK'
  BY <1>1, <1>6, TypeFrame DEF IInv, TypeOK
<1>8. Silent' /\ OneOpen'
  BY <1>1, <1>4 DEF IInv, Silent, OneOpen
<1> QED
  BY <1>1, <1>5, <1>6, <1>7, <1>8, ClientFrame DEF IInv

\* One more message on the wire.
LEMMA SentOne ==
    ASSUME InTransit, UNCHANGED <<log, total, store, batch>>,
           NEW m \in Messages, wire' = Append(wire, m)
    PROVE  /\ InTransit' /\ Len(wire) \in Nat /\ DOMAIN wire = 1..Len(wire)
           /\ DOMAIN wire' = 1..Len(wire) + 1 /\ wire'[Len(wire) + 1] = m
           /\ \A i \in DOMAIN wire : wire'[i] = wire[i]
<1> DEFINE S == Messages
<1>1. wire \in Seq(S) /\ m \in S
  BY DEF InTransit
<1>2. S' = S
  BY SameRecords DEF Messages, Answers
<1> HIDE DEF S
<1>3. wire' \in Seq(S) /\ Len(wire) \in Nat /\ DOMAIN wire = 1..Len(wire)
      /\ DOMAIN wire' = 1..Len(wire) + 1 /\ wire'[Len(wire) + 1] = m
      /\ \A i \in DOMAIN wire : wire'[i] = wire[i]
  BY <1>1
<1>4. InTransit'
  BY <1>2, <1>3, SameRecords DEF InTransit, S
<1> QED
  BY <1>3, <1>4

LEMMA StreamRespond == IInv /\ Respond => IInv'
<1> SUFFICES ASSUME IInv, Respond PROVE IInv'
  OBVIOUS
<1> DEFINE m == [kind |-> "snapshot", cursor |-> resume.cursor, upto |-> resume.upto,
                 behind |-> resume.behind]
<1>1. /\ UNCHANGED <<total, log, base, ckpt, online, client, store, batch, requests, opening, pauseAsked>>
      /\ resume.st = "captured" /\ resume' = [st |-> "none"] /\ wire' = Append(wire, m)
      /\ subscribed' = (subscribed \/ resume.live) /\ live' = (live \/ resume.live)
  BY DEF Respond, client
<1>2. online /\ opening = "fetch" /\ ~pauseAsked
  BY <1>1 DEF IInv, Silent, OneOpen
<1>3. resume \in [st : {"captured"}, cursor : Nat, upto : Nat, behind : BOOLEAN, live : BOOLEAN]
  BY <1>1 DEF IInv, Resuming, Resumes
<1>4. m \in Messages /\ m.kind = "snapshot"
  BY <1>1, <1>3 DEF IInv, Resuming, Snapshots, Messages
<1> HIDE DEF m
<1>5. /\ InTransit' /\ Len(wire) \in Nat /\ DOMAIN wire = 1..Len(wire)
      /\ DOMAIN wire' = 1..Len(wire) + 1 /\ wire'[Len(wire) + 1] = m
      /\ \A i \in DOMAIN wire : wire'[i] = wire[i]
  BY <1>1, <1>4, SentOne DEF IInv
<1>6. Resuming'
  BY <1>1 DEF Resuming, Resumes
<1>7. CatchingUp'
  BY <1>1, CatchingUpFrame DEF IInv
<1>8. TypeOK'
  BY <1>1, <1>3, <1>7, TypeFrame DEF IInv, TypeOK
<1>9. Silent'
  BY <1>1, <1>2 DEF Silent
<1>10. OneOpen'
  <2>1. \A i \in DOMAIN wire : ~OfOpen(wire[i])
    BY <1>1 DEF IInv, OneOpen
  <2>2. \A i \in DOMAIN wire' : i = Len(wire) + 1 \/ ~OfOpen(wire'[i])
    BY <1>5, <2>1
  <2>3. resume'.st = "none" /\ opening' = "fetch" /\ ~pauseAsked'
    BY <1>1, <1>2
  <2> QED
    BY <1>4, <1>5, <2>2, <2>3 DEF OneOpen, OfOpen
<1> QED
  BY <1>1, <1>5, <1>6, <1>7, <1>8, <1>9, <1>10, ClientFrame DEF IInv

LEMMA StreamPause == IInv /\ AnswerPause => IInv'
<1> SUFFICES ASSUME IInv, AnswerPause PROVE IInv'
  OBVIOUS
<1> DEFINE m == [kind |-> "paused"]
<1>1. /\ UNCHANGED <<total, log, base, ckpt, online, client, store, batch, requests, opening, subscribed,
                     resume>>
      /\ pauseAsked /\ pauseAsked' = FALSE /\ live' = TRUE /\ wire' = Append(wire, m)
  BY DEF AnswerPause, client
<1>2. online /\ opening = "pause" /\ resume.st = "none"
  BY <1>1 DEF IInv, Silent, OneOpen
<1>3. m \in Messages /\ m.kind = "paused"
  BY DEF Messages, Pauses
<1> HIDE DEF m
<1>4. /\ InTransit' /\ Len(wire) \in Nat /\ DOMAIN wire = 1..Len(wire)
      /\ DOMAIN wire' = 1..Len(wire) + 1 /\ wire'[Len(wire) + 1] = m
      /\ \A i \in DOMAIN wire : wire'[i] = wire[i]
  BY <1>1, <1>3, SentOne DEF IInv
<1>5. Resuming' /\ CatchingUp'
  BY <1>1, ResumingFrame, CatchingUpFrame DEF IInv
<1>6. TypeOK'
  BY <1>1, <1>5, TypeFrame DEF IInv, TypeOK
<1>7. Silent'
  BY <1>1, <1>2 DEF Silent
<1>8. OneOpen'
  <2>1. \A i \in DOMAIN wire : ~OfOpen(wire[i])
    BY <1>1 DEF IInv, OneOpen
  <2>2. \A i \in DOMAIN wire' : i = Len(wire) + 1 \/ ~OfOpen(wire'[i])
    BY <1>4, <2>1
  <2>3. resume'.st = "none" /\ opening' = "pause" /\ ~pauseAsked'
    BY <1>1, <1>2
  <2> QED
    BY <1>3, <1>4, <2>2, <2>3 DEF OneOpen, OfOpen
<1> QED
  BY <1>1, <1>4, <1>5, <1>6, <1>7, <1>8, ClientFrame DEF IInv

\* The least and the greatest of some numbers.
LEMMA LeastIn ==
    ASSUME NEW S \in SUBSET Nat, S # {}
    PROVE  Min(S) \in S /\ \A y \in S : Min(S) <= y
<1>1. PICK x \in S : \A y \in S : ~(<<y, x>> \in OpToRel(<, Nat))
  BY NatLessThanWellFounded, WFMin
<1>2. \A y \in S : x <= y
  <2> SUFFICES ASSUME NEW y \in S, y < x PROVE FALSE
    OBVIOUS
  <2>1. <<y, x>> \in Nat \X Nat /\ <<y, x>>[1] < <<y, x>>[2]
    OBVIOUS
  <2>2. <<y, x>> \in OpToRel(<, Nat)
    BY <2>1 DEF OpToRel
  <2> QED
    BY <1>1, <2>2
<1> QED
  BY <1>2 DEF Min

LEMMA GreatestIn ==
    ASSUME NEW N \in Nat, NEW S \in SUBSET (1..N), S # {}
    PROVE  Max(S) \in S /\ \A y \in S : Max(S) >= y
<1> DEFINE T == {N - x : x \in S}
<1>1. T \in SUBSET Nat /\ T # {}
  <2>1. PICK z \in S : TRUE
    OBVIOUS
  <2>2. N - z \in T
    BY <2>1
  <2>3. \A y \in S : N - y \in Nat
    OBVIOUS
  <2> QED
    BY <2>2, <2>3
<1>2. Min(T) \in T /\ \A y \in T : Min(T) <= y
  BY <1>1, LeastIn
<1>3. PICK x \in S : Min(T) = N - x
  BY <1>2
<1>4. \A y \in S : x >= y
  <2> SUFFICES ASSUME NEW y \in S PROVE x >= y
    OBVIOUS
  <2>1. N - y \in T
    OBVIOUS
  <2>2. N - x <= N - y
    BY <1>2, <1>3, <2>1
  <2> QED
    BY <2>2
<1> QED
  BY <1>4 DEF Max

\* A page is a stretch of the log.
LEMMA PageInLog ==
    ASSUME log \in Seq(Nat), NEW rest \in SUBSET DOMAIN log, rest # {}
    PROVE  LET first == Min(rest)
               last  == Min({first + PageSize - 1, Max(rest)})
           IN  first \in Nat /\ last \in Nat /\ \A n \in first..last : n \in DOMAIN log
<1> DEFINE first == Min(rest)
           last  == Min({first + PageSize - 1, Max(rest)})
<1>1. DOMAIN log = 1..Len(log) /\ Len(log) \in Nat
  BY LenProperties
<1>2. first \in 1..Len(log)
  BY <1>1, LeastIn
<1>3. Max(rest) \in 1..Len(log)
  BY <1>1, GreatestIn
<1> HIDE DEF first
<1>4. first + PageSize - 1 \in Nat
  BY <1>2, StreamBounds DEF StreamBounds
<1>5. last \in {first + PageSize - 1, Max(rest)} /\ last <= Max(rest)
  <2>1. {first + PageSize - 1, Max(rest)} \in SUBSET Nat
    BY <1>3, <1>4
  <2> QED
    BY <2>1, LeastIn
<1> HIDE DEF last
<1>6. last \in Nat /\ last <= Len(log)
  BY <1>1, <1>3, <1>4, <1>5
<1>7. first \in Nat /\ \A n \in first..last : n \in DOMAIN log
  BY <1>1, <1>2, <1>6
<1> QED
  BY <1>6, <1>7 DEF first, last

\* The steps of a catchup, from its plan to its answer.
LEMMA StreamCatchup ==
    ASSUME IInv, NEW r \in requests,
           PlanCatchup(r) \/ ReadCatchup(r) \/ PushPage(r) \/ EndCatchup(r)
    PROVE  IInv'
<1>1. UNCHANGED <<live, total, log, base, ckpt, online, client, store, opening, subscribed, resume,
                  pauseAsked>>
  BY DEF PlanCatchup, ReadCatchup, PushPage, EndCatchup, journal, client
<1>2. online
  BY DEF IInv, Silent
<1>3. r \in Catchups /\ log \in Seq(Nat)
  BY DEF IInv, CatchingUp, TypeOK
<1>4. CatchingUp'
  <2>1. \A x \in requests' : x \in Catchups
    <3>1. CASE PlanCatchup(r)
      <4>1. [r EXCEPT !.st = "read"] \in Catchups
        BY <1>3 DEF Catchups
      <4>2. requests' \subseteq requests \cup {[r EXCEPT !.st = "read"]}
        BY <3>1 DEF PlanCatchup
      <4> QED
        BY <4>1, <4>2 DEF IInv, CatchingUp
    <3>2. CASE ReadCatchup(r)
      <4>1. RecordsAfter(r.after) \subseteq DOMAIN log
        BY DEF RecordsAfter
      <4> QED
        BY <1>3, <3>2, <4>1 DEF IInv, CatchingUp, Catchups, ReadCatchup
    <3>3. CASE PushPage(r)
      BY <1>3, <3>3 DEF IInv, CatchingUp, Catchups, PushPage
    <3>4. CASE EndCatchup(r)
      BY <1>3, <3>4 DEF IInv, CatchingUp, Catchups, EndCatchup
    <3> QED
      BY <3>1, <3>2, <3>3, <3>4
  <2> QED
    BY <1>1, <2>1 DEF CatchingUp, Catchups
<1>5. InTransit'
  <2>1. \A b \in BOOLEAN : [kind |-> "caught", store |-> r.store, resync |-> b] \in Answers
    BY <1>3 DEF Answers, Catchups
  <2>2. wire' \in Seq(Messages)
    <3>1. wire \in Seq(Messages)
      BY DEF IInv, InTransit
    <3>2. \A m \in Answers : Append(wire, m) \in Seq(Messages)
      BY <3>1 DEF Messages
    <3>3. \/ wire' = wire
          \/ \E b \in BOOLEAN :
                wire' = Append(wire, [kind |-> "caught", store |-> r.store, resync |-> b])
      BY DEF PlanCatchup, ReadCatchup, PushPage, EndCatchup, Answer
    <3> QED
      BY <2>1, <3>1, <3>2, <3>3
  <2>3. batch' \in Seq(Frames)
    <3>1. CASE PushPage(r)
      <4> DEFINE first == Min(r.rest)
                 last  == Min({first + PageSize - 1, Max(r.rest)})
                 page  == [i \in 1..last - first + 1 |-> Frame(first + i - 1)]
      <4>1. r.rest \in SUBSET DOMAIN log /\ r.rest # {} /\ batch' = batch \o page
        BY <1>3, <3>1 DEF Catchups, PushPage
      <4>2. first \in Nat /\ last \in Nat /\ \A n \in first..last : n \in DOMAIN log
        BY <1>3, <4>1, PageInLog
      <4> HIDE DEF first, last
      <4>3. page \in Seq(Frames)
        <5>1. \A i \in 1..last - first + 1 : Frame(first + i - 1) \in Frames
          BY <4>2 DEF Frames
        <5>2. CASE last - first + 1 \in Nat
          BY <5>1, <5>2
        <5>3. CASE last - first + 1 \notin Nat
          <6>1. page = <<>>
            BY <4>2, <5>3
          <6> HIDE DEF page
          <6> QED
            BY <6>1
        <5> QED
          BY <5>2, <5>3
      <4> HIDE DEF page
      <4> QED
        BY <4>1, <4>3 DEF IInv, InTransit
    <3>2. CASE PlanCatchup(r) \/ ReadCatchup(r) \/ EndCatchup(r)
      BY <3>2 DEF IInv, InTransit, PlanCatchup, ReadCatchup, EndCatchup
    <3> QED
      BY <3>1, <3>2
  <2> QED
    BY <1>1, <2>2, <2>3, SameRecords DEF InTransit, Messages, Answers
<1>6. Resuming'
  BY <1>1, ResumingFrame DEF IInv
<1>7. TypeOK'
  BY <1>1, <1>4, TypeFrame DEF IInv, TypeOK
<1>8. Silent'
  BY <1>1, <1>2 DEF Silent
<1>9. OneOpen'
  <2>1. wire \in Seq(Messages)
    BY DEF IInv, InTransit
  <2>2. ASSUME NEW b \in BOOLEAN,
               wire' = Append(wire, [kind |-> "caught", store |-> r.store, resync |-> b])
        PROVE  \A i \in DOMAIN wire' : (i \in DOMAIN wire /\ wire'[i] = wire[i]) \/ ~OfOpen(wire'[i])
    <3> DEFINE a == [kind |-> "caught", store |-> r.store, resync |-> b]
               S == Messages
    <3>1. wire \in Seq(S) /\ wire' = Append(wire, a) /\ a.kind = "caught"
      BY <2>1, <2>2
    <3> HIDE DEF a, S
    <3>2. \A i \in DOMAIN wire' : (i \in DOMAIN wire /\ wire'[i] = wire[i]) \/ wire'[i] = a
      BY <3>1
    <3> QED
      BY <3>1, <3>2 DEF OfOpen
  <2>3. \/ wire' = wire
        \/ \E b \in BOOLEAN :
              wire' = Append(wire, [kind |-> "caught", store |-> r.store, resync |-> b])
    BY DEF PlanCatchup, ReadCatchup, PushPage, EndCatchup, Answer
  <2>4. \A i \in DOMAIN wire' : (i \in DOMAIN wire /\ wire'[i] = wire[i]) \/ ~OfOpen(wire'[i])
    BY <2>2, <2>3
  <2> QED
    BY <1>1, <2>4, OneOpenFrame DEF IInv
<1> QED
  BY <1>1, <1>4, <1>5, <1>6, <1>7, <1>8, <1>9, ClientFrame DEF IInv

\* The batch goes on the wire as it is.
LEMMA StreamFlush == IInv /\ FlushBatch => IInv'
<1> SUFFICES ASSUME IInv, FlushBatch PROVE IInv'
  OBVIOUS
<1>1. /\ UNCHANGED <<live, total, log, base, ckpt, online, client, store, opening, subscribed, resume,
                     pauseAsked, requests>>
      /\ batch # <<>> /\ wire' = wire \o batch /\ batch' = <<>>
  BY DEF FlushBatch, journal, client
<1>2. online
  BY <1>1 DEF IInv, Silent
<1>3. wire \in Seq(Messages) /\ batch \in Seq(Messages) /\ batch \in Seq(Frames)
  BY SeqMonotone DEF IInv, InTransit, Messages
<1>4. InTransit'
  <2>1. wire' \in Seq(Messages) /\ batch' \in Seq(Frames)
    BY <1>1, <1>3
  <2> QED
    BY <1>1, <2>1, SameRecords DEF InTransit, Messages, Answers
<1>5. OneOpen'
  <2> DEFINE S == Messages
             F == Frames
  <2>1. wire \in Seq(S) /\ batch \in Seq(F) /\ \A f \in F : ~OfOpen(f)
    BY <1>3, Kinds DEF OfOpen
  <2> HIDE DEF S, F
  <2>2. \A i \in DOMAIN wire' : (i \in DOMAIN wire /\ wire'[i] = wire[i]) \/ wire'[i] \in F
    BY <1>1, <2>1
  <2> QED
    BY <1>1, <2>1, <2>2, OneOpenFrame DEF IInv
<1>6. Resuming' /\ CatchingUp'
  BY <1>1, ResumingFrame, CatchingUpFrame DEF IInv
<1>7. TypeOK'
  BY <1>1, <1>6, TypeFrame DEF IInv, TypeOK
<1>8. Silent'
  BY <1>1, <1>2 DEF Silent
<1> QED
  BY <1>1, <1>4, <1>5, <1>6, <1>7, <1>8, ClientFrame DEF IInv

LEMMA StreamSends == IInv /\ UserSends => IInv'
<1> SUFFICES ASSUME IInv, UserSends PROVE IInv'
  OBVIOUS
<1>1. /\ UNCHANGED <<total, log, base, ckpt, online, client, store, opening, resume, requests, batch, wire,
                     pauseAsked>>
      /\ online /\ live' = TRUE /\ subscribed' = TRUE
  BY DEF UserSends, client
<1>2. InTransit' /\ Resuming' /\ CatchingUp'
  BY <1>1, TransitFrame, ResumingFrame, CatchingUpFrame DEF IInv
<1>3. TypeOK'
  BY <1>1, <1>2, TypeFrame DEF IInv, TypeOK
<1>4. Silent' /\ OneOpen'
  BY <1>1, OneOpenFrame DEF IInv, Silent
<1> QED
  BY <1>1, <1>2, <1>3, <1>4, ClientFrame DEF IInv

\* A new event keeps every cursor valid: it follows the last one.
LEMMA CoversPublish ==
    ASSUME log \in Seq(Nat), total \in Nat, Publish, NEW c, NEW u, Covers(c, u)
    PROVE  Covers(c, u)'
<1>1. /\ Len(log) \in Nat /\ Len(log') = Len(log) + 1 /\ total' = total + 1
      /\ \A n \in 1..Len(log) : log'[n] = log[n]
      /\ log'[Len(log) + 1] = total + 1
  BY DEF Publish
<1>2. c \in 0..Len(log) /\ total + c >= Len(log) /\ u \in 0..total /\ u + Len(log) >= total + c
  BY DEF Covers, Numbered
<1>3. ASSUME NEW n \in c + 1..Len(log) + 1 PROVE log'[n] + Len(log') = total' + n
  <2>1. CASE n = Len(log) + 1
    BY <1>1, <2>1
  <2>2. CASE n # Len(log) + 1
    <3>1. n \in c + 1..Len(log) /\ n \in 1..Len(log)
      BY <1>1, <1>2, <2>2
    <3>2. log[n] + Len(log) = total + n /\ log[n] \in Nat
      BY <3>1, ElementOfSeq DEF Covers, Numbered
    <3> QED
      <4>1. log'[n] = log[n] /\ n \in Nat /\ total \in Nat
        BY <1>1, <3>1
      <4>2. log'[n] + Len(log') = log[n] + (Len(log) + 1)
        BY <1>1, <4>1
      <4>3. Len(log) \in Nat /\ total' = total + 1
        BY <1>1
      <4> QED
        BY <3>2, <4>1, <4>2, <4>3
  <2> QED
    BY <2>1, <2>2
<1>4. c \in 0..Len(log') /\ total' + c >= Len(log') /\ u \in 0..total' /\ u + Len(log') >= total' + c
  BY <1>1, <1>2
<1> QED
  BY <1>1, <1>2, <1>3, <1>4 DEF Covers, Numbered

LEMMA StreamPublish == IInv /\ Publish => IInv'
<1> SUFFICES ASSUME IInv, Publish PROVE IInv'
  OBVIOUS
<1>1. /\ UNCHANGED <<live, base, ckpt, subscribed, resume, pauseAsked, requests, online, wire, opening,
                     store, mounted, watermark, shown, reorder, inFlight, gapTimer, resynced, stale, refused>>
      /\ live /\ log \in Seq(Nat) /\ total \in Nat /\ log' = Append(log, total + 1) /\ total' = total + 1
  BY DEF Publish, client, gate, record, IInv, TypeOK
<1>2. /\ Len(log) \in Nat /\ Len(log') = Len(log) + 1 /\ log' \in Seq(Nat)
      /\ DOMAIN log = 1..Len(log) /\ DOMAIN log' = 1..Len(log) + 1
      /\ \A n \in DOMAIN log : n \in DOMAIN log' /\ log'[n] = log[n]
      /\ Len(log') \in DOMAIN log' /\ log'[Len(log')] = total'
  BY <1>1
<1>3. Frames \subseteq Frames' /\ [kind |-> "event", seq |-> Len(log'), ev |-> total'] \in Frames'
  BY <1>2 DEF Frames, Frame
<1>4. \A c, u : Covers(c, u) => Covers(c, u)'
  BY <1>1, CoversPublish
<1>5. Snapshots \subseteq Snapshots' /\ Answers' = Answers /\ Pauses' = Pauses
  BY <1>1, <1>4 DEF Snapshots, Answers, Pauses
<1>6. InTransit'
  <2>1. batch \in Seq(Frames') /\ wire \in Seq(Messages')
    <3>1. Messages \subseteq Messages'
      BY <1>3, <1>5 DEF Messages
    <3> QED
      BY <1>3, <3>1, SeqMonotone DEF IInv, InTransit
  <2>2. batch' \in Seq(Frames')
    BY <1>3, <2>1 DEF Publish
  <2> QED
    BY <1>1, <2>1, <2>2 DEF InTransit
<1>7. Resuming'
  BY <1>1, <1>4 DEF IInv, Resuming, Resumes
<1>8. CatchingUp'
  BY <1>1, <1>2 DEF IInv, CatchingUp, Catchups
<1>9. OnScreen' <=> OnScreen
  BY <1>1 DEF OnScreen
<1>10. Agrees' /\ Guarded'
  BY <1>1, <1>2, <1>4, <1>9 DEF IInv, Agrees, Guarded
<1>11. Silent' /\ ShownIsHistory' /\ OneOpen'
  <2>1. batch' = <<>> \/ online
    BY <1>1 DEF IInv, Silent, Publish
  <2> QED
    BY <1>1, <2>1, OneOpenFrame DEF IInv, Silent, ShownIsHistory, Transcript
<1>12. TypeOK'
  <2>1. base <= Len(log')
    BY <1>1, <1>2 DEF IInv, TypeOK
  <2>2. total' \in Nat
    BY <1>1
  <2>3. \A r \in requests' : r.st \in {"asked", "read", "push"} /\ r.rest \subseteq DOMAIN log'
    BY <1>8 DEF CatchingUp, Catchups
  <2> QED
    BY <1>1, <1>2, <2>1, <2>2, <2>3 DEF IInv, TypeOK
<1> QED
  BY <1>6, <1>7, <1>8, <1>10, <1>11, <1>12 DEF IInv

-----------------------------------------------------------------------------
(* The client.                                                             *)

\* An open replaces the store: until it has, nothing is promised.  It begins where
\* none is on its way.
LEMMA Opens ==
    ASSUME IInv, OpenSession, UNCHANGED <<log, total, online, pauseAsked>>,
           \A i \in DOMAIN wire' : \E j \in DOMAIN wire : wire'[i] = wire[j]
    PROVE  /\ Resuming' /\ opening' \in {"none", "fetch", "pause"}
           /\ \/ /\ UNCHANGED <<opening, resume>>
                 /\ opening # "none" \/ ~online
              \/ /\ online /\ opening = "none" /\ opening' = "fetch" /\ OneOpen'
<1>1. opening \in {"none", "fetch", "pause"}
  BY DEF IInv, TypeOK
<1>2. CASE opening # "none" \/ ~online
  BY <1>1, <1>2, ResumingFrame DEF IInv, OpenSession
<1>3. CASE opening = "none" /\ online
  <2>1. opening' = "fetch" /\ resume' = [st |-> "asked"]
    BY <1>3 DEF OpenSession
  <2>2. Resuming'
    BY <2>1 DEF Resuming, Resumes
  <2>3. ~pauseAsked /\ \A i \in DOMAIN wire : ~OfOpen(wire[i])
    BY <1>3 DEF IInv, OneOpen, OfOpen
  <2>4. OneOpen'
    BY <2>1, <2>3, OneOpenElsewhere
  <2> QED
    BY <1>3, <2>1, <2>2, <2>4
<1> QED
  BY <1>2, <1>3

LEMMA StreamOpens == IInv /\ UserOpens => IInv'
<1> SUFFICES ASSUME IInv, UserOpens PROVE IInv'
  OBVIOUS
<1>1. /\ UNCHANGED <<live, total, log, base, ckpt, subscribed, requests, batch, online, wire, store, mounted,
                     watermark, shown, reorder, inFlight, gapTimer, resynced, stale, refused, pauseAsked>>
      /\ online /\ opening = "none" /\ OpenSession
  BY DEF UserOpens, journal, gate, record
<1>2. Resuming' /\ opening' = "fetch" /\ OneOpen'
  BY <1>1, Opens
<1>3. InTransit' /\ CatchingUp'
  BY <1>1, TransitFrame, CatchingUpFrame DEF IInv
<1>4. Silent' /\ ~OnScreen'
  BY <1>1, <1>2 DEF Silent, OnScreen
<1>5. Agrees' /\ Guarded' /\ ShownIsHistory'
  BY <1>1, <1>2, <1>4 DEF IInv, Agrees, Guarded, ShownIsHistory
<1>6. TypeOK'
  BY <1>1, <1>2 DEF IInv, TypeOK
<1> QED
  BY <1>2, <1>3, <1>4, <1>5, <1>6 DEF IInv

\* A resync of the store on screen is dropped only by the open that made it.
LEMMA Resyncs ==
    ASSUME IInv, NEW n \in 0..store, TriggerResync(n),
           UNCHANGED <<log, total, online, pauseAsked, store, mounted>>,
           \A i \in DOMAIN wire' : \E j \in DOMAIN wire : wire'[i] = wire[j]
    PROVE  /\ Resuming' /\ opening' \in {"none", "fetch", "pause"} /\ refused' \in BOOLEAN
           /\ resynced' \in SUBSET Nat /\ resynced' \subseteq 0..store /\ resynced \subseteq resynced'
           /\ resynced' \subseteq resynced \cup {n}
           /\ UNCHANGED <<opening, resume>> \/ (online /\ opening = "none" /\ opening' = "fetch" /\ OneOpen')
           /\ OnScreen' => /\ OnScreen /\ (refused => refused')
                           /\ n = store => (refused' \/ store \in resynced)
<1>1. /\ opening \in {"none", "fetch", "pause"} /\ refused \in BOOLEAN /\ store \in Nat
      /\ resynced \in SUBSET Nat /\ resynced \subseteq 0..store
  BY DEF IInv, TypeOK, Guarded
<1>2. CASE n \in resynced
  <2>1. UNCHANGED <<resynced, refused, opening, resume>>
    BY <1>2 DEF TriggerResync
  <2>2. Resuming'
    BY <2>1, ResumingFrame DEF IInv
  <2>3. OnScreen' <=> OnScreen
    BY <2>1 DEF OnScreen
  <2> QED
    BY <1>1, <1>2, <2>1, <2>2, <2>3
<1>3. CASE n \notin resynced
  <2>1. /\ resynced' = resynced \cup {n} /\ OpenSession
        /\ refused' = (refused \/ (n = store /\ opening = "pause"))
    BY <1>3 DEF TriggerResync
  <2>2. /\ Resuming' /\ opening' \in {"none", "fetch", "pause"}
        /\ \/ /\ UNCHANGED <<opening, resume>>
              /\ opening # "none" \/ ~online
           \/ /\ online /\ opening = "none" /\ opening' = "fetch" /\ OneOpen'
    BY <2>1, Opens
  <2>3. OnScreen' => OnScreen /\ opening = "pause"
    BY <1>1, <2>2 DEF OnScreen
  <2>4. refused' \in BOOLEAN /\ (refused => refused') /\ (n = store /\ opening = "pause" => refused')
    BY <2>1
  <2>5. resynced' \in SUBSET Nat /\ resynced' \subseteq 0..store
    BY <1>1, <2>1
  <2> QED
    BY <2>1, <2>2, <2>3, <2>4, <2>5
<1> QED
  BY <1>2, <1>3

LEMMA StreamTimeout == IInv /\ GapTimeout => IInv'
<1> SUFFICES ASSUME IInv, GapTimeout PROVE IInv'
  OBVIOUS
<1>1. /\ UNCHANGED <<live, total, log, base, ckpt, subscribed, requests, batch, online, wire, store, mounted,
                     watermark, shown, reorder, inFlight, stale, pauseAsked>>
      /\ gapTimer' = FALSE
  BY DEF GapTimeout, journal
<1>2. \/ reorder # {} /\ TriggerResync(store)
      \/ reorder = {} /\ UNCHANGED <<resynced, refused, opening, resume>>
  BY DEF GapTimeout
<1>3. store \in Nat /\ store \in 0..store /\ opening \in {"none", "fetch", "pause"} /\ refused \in BOOLEAN
      /\ resynced \in SUBSET Nat /\ resynced \subseteq 0..store
  BY DEF IInv, TypeOK, Guarded
<1>4. InTransit' /\ CatchingUp'
  BY <1>1, TransitFrame, CatchingUpFrame DEF IInv
<1>5. /\ Resuming' /\ opening' \in {"none", "fetch", "pause"} /\ refused' \in BOOLEAN
      /\ resynced' \in SUBSET Nat /\ resynced' \subseteq 0..store
      /\ UNCHANGED <<opening, resume>> \/ (online /\ opening = "none" /\ opening' = "fetch" /\ OneOpen')
      /\ OnScreen' => /\ OnScreen
                      /\ \/ refused'
                         \/ reorder = {} /\ resynced' = resynced /\ refused' = refused
                         \/ store \in resynced /\ (refused => refused')
  <2>1. CASE reorder # {} /\ TriggerResync(store)
    BY <1>1, <1>3, <2>1, Resyncs
  <2>2. CASE reorder = {} /\ UNCHANGED <<resynced, refused, opening, resume>>
    <3>1. OnScreen' <=> OnScreen
      BY <1>1, <2>2 DEF OnScreen
    <3>2. Resuming'
      BY <1>1, <2>2, ResumingFrame DEF IInv
    <3> QED
      BY <1>3, <2>2, <3>1, <3>2
  <2> QED
    BY <1>2, <2>1, <2>2
<1>6. OneOpen'
  <2>1. CASE UNCHANGED <<opening, resume>>
    BY <1>1, <2>1, OneOpenFrame DEF IInv
  <2> QED
    BY <1>5, <2>1
<1>7. Silent'
  BY <1>1, <1>5 DEF IInv, Silent
<1>8. Agrees'
  BY <1>1, <1>5, SameRecords DEF IInv, Agrees
<1>9. Guarded'
  <2>1. OnScreen' => refused' \/ (reorder = {} /\ store \notin resynced')
    BY <1>5 DEF IInv, Guarded
  <2> QED
    BY <1>1, <1>5, <2>1 DEF Guarded
<1>10. ShownIsHistory'
  BY <1>1, <1>5 DEF IInv, ShownIsHistory, Transcript
<1>11. TypeOK'
  BY <1>1, <1>5 DEF IInv, TypeOK
<1> QED
  BY <1>4, <1>5, <1>6, <1>7, <1>8, <1>9, <1>10, <1>11 DEF IInv

-----------------------------------------------------------------------------
(* A message reaches the client.                                           *)

\* Whatever arrives belongs to the numbering the daemon has now.
LEMMA WireHead ==
    ASSUME IInv, wire # <<>>
    PROVE  Head(wire) \in Messages /\ Head(wire) = wire[1] /\ 1 \in DOMAIN wire
<1> DEFINE S == Messages
<1>1. wire \in Seq(S)
  BY DEF IInv, InTransit
<1> HIDE DEF S
<1>2. Head(wire) \in S /\ Head(wire) = wire[1] /\ 1 \in DOMAIN wire
  BY <1>1
<1> QED
  BY <1>2 DEF S

\* What is common to all messages: the wire gets shorter, and the daemon stays.
LEMMA DeliverFrame ==
    ASSUME IInv, Deliver, store' \in Nat, store <= store'
    PROVE  /\ UNCHANGED <<live, total, log, base, ckpt, subscribed, batch, online>>
           /\ online /\ InTransit' /\ Silent'
           /\ \A i \in DOMAIN wire' : /\ i \in Nat /\ i + 1 # 1 /\ i + 1 \in DOMAIN wire
                                     /\ wire'[i] = wire[i + 1]
<1>1. /\ UNCHANGED <<live, total, log, base, ckpt, subscribed, batch, online>>
      /\ wire # <<>> /\ wire' = SubSeq(wire, 2, Len(wire))
  BY DEF Deliver, journal
<1>2. online
  BY <1>1 DEF IInv, Silent
<1> DEFINE S == Messages
<1>3. wire \in Seq(S)
  BY DEF IInv, InTransit
<1> HIDE DEF S
<1>4. /\ wire' \in Seq(S)
      /\ \A i \in DOMAIN wire' : i \in Nat /\ i + 1 # 1 /\ i + 1 \in DOMAIN wire /\ wire'[i] = wire[i + 1]
  BY <1>1, <1>3
<1>5. Answers \subseteq Answers'
  BY DEF Answers, IInv, TypeOK
<1>6. InTransit'
  <2>1. wire' \in Seq(Messages')
    <3>1. Messages \subseteq Messages'
      BY <1>1, <1>5, SameRecords DEF Messages
    <3> QED
      BY <1>4, <3>1, SeqMonotone DEF S
  <2> QED
    BY <1>1, <2>1, SameRecords DEF IInv, InTransit
<1> QED
  BY <1>1, <1>2, <1>4, <1>6 DEF Silent

\* The open that is on its way goes on, or its message was the first.
LEMMA OpenGoesOn ==
    ASSUME OneOpen, UNCHANGED <<opening, resume, pauseAsked>>,
           \A i \in DOMAIN wire' : /\ i \in Nat /\ i + 1 # 1 /\ i + 1 \in DOMAIN wire
                                  /\ wire'[i] = wire[i + 1]
    PROVE  OneOpen'
<1>1. \A i, j \in DOMAIN wire' : OfOpen(wire'[i]) /\ OfOpen(wire'[j]) => i = j
  <2> SUFFICES ASSUME NEW i \in DOMAIN wire', NEW j \in DOMAIN wire', OfOpen(wire'[i]), OfOpen(wire'[j])
               PROVE  i = j
    OBVIOUS
  <2>1. i + 1 = j + 1 /\ i \in Nat /\ j \in Nat
    BY DEF OneOpen
  <2> QED
    BY <2>1
<1>2. \A i \in DOMAIN wire' :
          /\ OfOpen(wire'[i]) => resume.st = "none" /\ ~pauseAsked
          /\ wire'[i].kind = "snapshot" => opening = "fetch"
          /\ wire'[i].kind = "paused" => opening = "pause"
  BY DEF OneOpen
<1> QED
  BY <1>1, <1>2 DEF OneOpen, OfOpen

LEMMA OpenArrives ==
    ASSUME IInv, wire # <<>>, OfOpen(Head(wire)),
           \A i \in DOMAIN wire' : /\ i \in Nat /\ i + 1 # 1 /\ i + 1 \in DOMAIN wire
                                  /\ wire'[i] = wire[i + 1]
    PROVE  /\ \A i \in DOMAIN wire' : ~OfOpen(wire'[i])
           /\ resume.st = "none" /\ ~pauseAsked
           /\ Head(wire).kind = "snapshot" => opening = "fetch"
           /\ Head(wire).kind = "paused" => opening = "pause"
<1>1. Head(wire) = wire[1] /\ 1 \in DOMAIN wire
  BY WireHead
<1> QED
  BY <1>1 DEF IInv, OneOpen

\* The requests of older stores, when there is a new one.
LEMMA OlderCatchups ==
    ASSUME CatchingUp, store \in Nat, store' \in Nat, store <= store', UNCHANGED <<log, requests>>
    PROVE  CatchingUp'
<1>1. 0..store \subseteq 0..store'
  OBVIOUS
<1>2. Catchups \subseteq Catchups'
  BY <1>1 DEF Catchups
<1> QED
  BY <1>2 DEF CatchingUp

\* A transcript of the first u events.
LEMMA TranscriptSeq ==
    ASSUME NEW u \in Nat
    PROVE  /\ Transcript(u) \in Seq(Nat) /\ Len(Transcript(u)) = u
           /\ \A i \in 1..u : Transcript(u)[i] = i
<1>1. Transcript(u) = [i \in 1..u |-> i]
  BY DEF Transcript
<1>2. \A i \in 1..u : i \in Nat
  OBVIOUS
<1> QED
  BY <1>1, <1>2

LEMMA StreamMount ==
    ASSUME IInv, Deliver, Head(wire) \in Snapshots, MountStore(Head(wire))
    PROVE  IInv'
<1> DEFINE m == Head(wire)
<1>1. /\ store' = store + 1 /\ mounted' = TRUE /\ opening' = "pause" /\ pauseAsked' = TRUE
      /\ watermark' = m.cursor /\ shown' = Transcript(m.upto)
      /\ reorder' = {} /\ inFlight' = FALSE /\ gapTimer' = FALSE
      /\ stale' = m.behind /\ refused' = FALSE
      /\ UNCHANGED <<resynced, resume, requests>>
  BY DEF MountStore
<1>2. store \in Nat /\ store' \in Nat /\ store <= store'
  BY <1>1 DEF IInv, TypeOK
<1>3. /\ UNCHANGED <<live, total, log, base, ckpt, subscribed, online>>
      /\ online /\ InTransit' /\ Silent'
      /\ \A i \in DOMAIN wire' : /\ i \in Nat /\ i + 1 # 1 /\ i + 1 \in DOMAIN wire
                                /\ wire'[i] = wire[i + 1]
  BY <1>2, DeliverFrame
<1>4. /\ m.kind = "snapshot" /\ m.cursor \in Nat /\ m.upto \in Nat /\ m.behind \in BOOLEAN
      /\ m.behind \/ Covers(m.cursor, m.upto)
  BY Kinds
<1>5. OneOpen'
  <2>1. (\A i \in DOMAIN wire' : ~OfOpen(wire'[i])) /\ resume.st = "none"
    <3>1. wire # <<>> /\ OfOpen(Head(wire))
      BY <1>4 DEF Deliver, OfOpen
    <3> QED
      BY <1>3, <3>1, OpenArrives
  <2> QED
    BY <1>1, <2>1, OneOpenElsewhere
<1> HIDE DEF m
<1>6. shown' \in Seq(Nat) /\ Len(shown') = m.upto
  BY <1>1, <1>4, TranscriptSeq
<1>7. Resuming' /\ CatchingUp'
  BY <1>1, <1>2, <1>3, ResumingFrame, OlderCatchups DEF IInv
<1>8. Agrees'
  <2>1. ~stale' => Covers(watermark, Len(shown))'
    BY <1>1, <1>3, <1>4, <1>6, SameRecords
  <2> QED
    BY <1>1, <2>1, FS_EmptySet DEF Agrees
<1>9. Guarded'
  BY <1>1, <1>2 DEF IInv, Guarded
<1>10. ShownIsHistory'
  BY <1>1, <1>6 DEF ShownIsHistory, Transcript
<1>11. TypeOK'
  BY <1>1, <1>2, <1>3, <1>4, <1>6 DEF IInv, TypeOK
<1> QED
  BY <1>3, <1>5, <1>7, <1>8, <1>9, <1>10, <1>11 DEF IInv

\* The open ends: what it leaves on screen was on screen before.
LEMMA StreamEndOpen ==
    ASSUME IInv, Deliver, Head(wire) \in Pauses, EndOpen
    PROVE  IInv'
<1>1. /\ opening' = "none"
      /\ UNCHANGED <<store, mounted, watermark, shown, reorder, inFlight, gapTimer, resynced, stale,
                     refused, resume, pauseAsked, requests>>
  BY DEF EndOpen, gate, record
<1>2. store \in Nat /\ store' \in Nat /\ store <= store'
  BY <1>1 DEF IInv, TypeOK
<1>3. /\ UNCHANGED <<live, total, log, base, ckpt, subscribed, online>>
      /\ online /\ InTransit' /\ Silent'
      /\ \A i \in DOMAIN wire' : /\ i \in Nat /\ i + 1 # 1 /\ i + 1 \in DOMAIN wire
                                /\ wire'[i] = wire[i + 1]
  BY <1>2, DeliverFrame
<1>4. Head(wire).kind = "paused" /\ OfOpen(Head(wire)) /\ wire # <<>>
  BY Kinds DEF OfOpen, Deliver
<1>5. /\ \A i \in DOMAIN wire' : ~OfOpen(wire'[i])
      /\ resume.st = "none" /\ ~pauseAsked /\ opening = "pause"
  BY <1>3, <1>4, OpenArrives
<1>6. OneOpen'
  BY <1>1, <1>5, OneOpenElsewhere
<1>7. Resuming' /\ CatchingUp'
  BY <1>1, <1>3, ResumingFrame, CatchingUpFrame DEF IInv
<1>8. OnScreen' <=> OnScreen
  BY <1>1, <1>3, <1>5 DEF OnScreen
<1>9. Agrees' /\ Guarded'
  BY <1>1, <1>3, <1>8, SameRecords DEF IInv, Agrees, Guarded
<1>10. ShownIsHistory'
  BY <1>1, <1>5 DEF IInv, ShownIsHistory, Transcript
<1>11. TypeOK'
  BY <1>1, <1>3 DEF IInv, TypeOK
<1> QED
  BY <1>3, <1>6, <1>7, <1>9, <1>10, <1>11 DEF IInv

LEMMA StreamAnswered ==
    ASSUME IInv, Deliver, NEW m \in Answers, CatchupAnswered(m)
    PROVE  IInv'
<1>1. /\ inFlight' = (inFlight /\ m.store # store)
      /\ UNCHANGED <<store, mounted, watermark, shown, reorder, stale, pauseAsked, requests>>
      /\ \/ /\ TriggerResync(m.store)
            /\ gapTimer' = (gapTimer /\ (m.store # store \/ m.store \in resynced))
         \/ UNCHANGED <<resynced, refused, gapTimer, opening, resume>>
  BY DEF CatchupAnswered
<1>2. store \in Nat /\ store' \in Nat /\ store <= store'
  BY <1>1 DEF IInv, TypeOK
<1>3. /\ UNCHANGED <<live, total, log, base, ckpt, subscribed, online>>
      /\ online /\ InTransit' /\ Silent'
      /\ \A i \in DOMAIN wire' : /\ i \in Nat /\ i + 1 # 1 /\ i + 1 \in DOMAIN wire
                                /\ wire'[i] = wire[i + 1]
  BY <1>2, DeliverFrame
<1>4. CatchingUp'
  BY <1>1, <1>3, CatchingUpFrame DEF IInv
<1>5. m.store \in 0..store
  BY Kinds
<1>6. /\ opening \in {"none", "fetch", "pause"} /\ refused \in BOOLEAN
      /\ gapTimer \in BOOLEAN /\ inFlight \in BOOLEAN
      /\ resynced \in SUBSET Nat /\ resynced \subseteq 0..store
  BY DEF IInv, TypeOK, Guarded
<1>7. /\ Resuming' /\ opening' \in {"none", "fetch", "pause"} /\ refused' \in BOOLEAN
      /\ resynced' \in SUBSET Nat /\ resynced' \subseteq 0..store
      /\ UNCHANGED <<opening, resume>> \/ (online /\ opening = "none" /\ opening' = "fetch" /\ OneOpen')
      /\ OnScreen' => /\ OnScreen /\ (refused => refused')
                      /\ \/ refused'
                         \/ UNCHANGED <<resynced, gapTimer>>
                         \/ store \in resynced
                         \/ /\ store \notin resynced => store \notin resynced'
                            /\ gapTimer' = gapTimer
  <2>1. CASE /\ TriggerResync(m.store)
             /\ gapTimer' = (gapTimer /\ (m.store # store \/ m.store \in resynced))
    <3>1. /\ Resuming' /\ opening' \in {"none", "fetch", "pause"} /\ refused' \in BOOLEAN
          /\ resynced' \in SUBSET Nat /\ resynced' \subseteq 0..store
          /\ resynced' \subseteq resynced \cup {m.store}
          /\ UNCHANGED <<opening, resume>> \/ (online /\ opening = "none" /\ opening' = "fetch" /\ OneOpen')
          /\ OnScreen' => /\ OnScreen /\ (refused => refused')
                          /\ m.store = store => (refused' \/ store \in resynced)
      BY <1>1, <1>3, <1>5, <2>1, Resyncs
    <3>2. m.store # store => gapTimer' = gapTimer /\ (store \notin resynced => store \notin resynced')
      BY <1>6, <2>1, <3>1
    <3> QED
      BY <3>1, <3>2
  <2>2. CASE UNCHANGED <<resynced, refused, gapTimer, opening, resume>>
    <3>1. OnScreen' <=> OnScreen
      BY <1>1, <1>3, <2>2 DEF OnScreen
    <3>2. Resuming'
      BY <1>3, <2>2, ResumingFrame DEF IInv
    <3> QED
      BY <1>1, <1>6, <2>2, <3>1, <3>2
  <2> QED
    BY <1>1, <2>1, <2>2
<1>8. gapTimer' \in BOOLEAN /\ inFlight' \in BOOLEAN
  BY <1>1, <1>6
<1>9. OneOpen'
  <2>1. CASE UNCHANGED <<opening, resume>>
    BY <1>1, <1>3, <2>1, OpenGoesOn DEF IInv
  <2> QED
    BY <1>7, <2>1
<1>10. Agrees'
  BY <1>1, <1>3, <1>7, SameRecords DEF IInv, Agrees
<1>11. Guarded'
  <2>1. OnScreen' => \/ refused'
                     \/ store \notin resynced' /\ (reorder # {} => gapTimer')
    BY <1>7 DEF IInv, Guarded
  <2> QED
    BY <1>1, <1>7, <2>1 DEF Guarded
<1>12. ShownIsHistory'
  BY <1>1, <1>7 DEF IInv, ShownIsHistory, Transcript
<1>13. TypeOK'
  <2>1. \A r \in requests' : r.st \in {"asked", "read", "push"} /\ r.rest \subseteq DOMAIN log'
    BY <1>4 DEF CatchingUp, Catchups
  <2> QED
    BY <1>1, <1>3, <1>7, <1>8, <2>1 DEF IInv, TypeOK
<1> QED
  BY <1>3, <1>4, <1>7, <1>9, <1>10, <1>11, <1>12, <1>13 DEF IInv

\* A frame that is dropped, or that has nothing to reach.
LEMMA StreamDropped ==
    ASSUME IInv, Deliver, UNCHANGED <<client, resume, pauseAsked, requests>>
    PROVE  IInv'
<1>1. store' \in Nat /\ store <= store' /\ store' = store /\ opening' = opening
  BY DEF IInv, TypeOK, client
<1>2. /\ UNCHANGED <<live, total, log, base, ckpt, subscribed, online>>
      /\ InTransit' /\ Silent'
      /\ \A i \in DOMAIN wire' : /\ i \in Nat /\ i + 1 # 1 /\ i + 1 \in DOMAIN wire
                                /\ wire'[i] = wire[i + 1]
  BY <1>1, DeliverFrame
<1>3. Resuming' /\ CatchingUp' /\ OneOpen'
  BY <1>1, <1>2, ResumingFrame, CatchingUpFrame, OpenGoesOn DEF IInv
<1>4. TypeOK'
  BY <1>2, <1>3, TypeFrame DEF IInv, TypeOK
<1> QED
  BY <1>2, <1>3, <1>4, ClientFrame DEF IInv

\* A frame behind a hole waits for it, with a guard.
LEMMA StreamHold ==
    ASSUME IInv, Deliver, NEW m \in Frames, Hold(m), mounted
    PROVE  IInv'
<1> DEFINE f0 == [seq |-> m.seq, ev |-> m.ev]
           r0 == [store |-> store, after |-> watermark, st |-> "asked", rest |-> {}]
<1>1. /\ reorder' \subseteq reorder \cup {f0}
      /\ gapTimer' = (gapTimer \/ store \notin resynced)
      /\ inFlight' = TRUE
      /\ requests' \subseteq requests \cup {r0}
      /\ UNCHANGED <<opening, store, mounted, watermark, shown, resynced, stale, refused, resume,
                     pauseAsked>>
  BY DEF Hold, ArmGapTimer, record
<1>2. store \in Nat /\ store' \in Nat /\ store <= store' /\ watermark \in Nat /\ log \in Seq(Nat)
  BY <1>1 DEF IInv, TypeOK
<1>3. /\ UNCHANGED <<live, total, log, base, ckpt, subscribed, online>>
      /\ online /\ InTransit' /\ Silent'
      /\ \A i \in DOMAIN wire' : /\ i \in Nat /\ i + 1 # 1 /\ i + 1 \in DOMAIN wire
                                /\ wire'[i] = wire[i + 1]
  BY <1>2, DeliverFrame
<1>4. /\ f0.seq \in DOMAIN log /\ f0.ev = log[f0.seq] /\ f0.seq \in Nat /\ f0.ev \in Nat
  <2>1. m.seq \in DOMAIN log /\ m.ev = log[m.seq]
    BY Kinds
  <2>2. m.seq \in Nat /\ m.ev \in Nat
    BY <1>2, <2>1, ElementOfSeq, LenProperties
  <2> QED
    BY <2>1, <2>2
<1> HIDE DEF f0
<1>5. CatchingUp'
  <2>1. r0 \in Catchups
    BY <1>2 DEF Catchups
  <2> QED
    BY <1>1, <1>3, <2>1 DEF IInv, CatchingUp, Catchups
<1>6. Resuming' /\ OneOpen'
  BY <1>1, <1>3, ResumingFrame, OpenGoesOn DEF IInv
<1>7. OnScreen' <=> OnScreen
  BY <1>1, <1>3 DEF OnScreen
<1>8. Agrees'
  <2>1. IsFiniteSet(reorder')
    <3>1. IsFiniteSet(reorder \cup {f0})
      BY FS_AddElement DEF IInv, Agrees
    <3> QED
      BY <1>1, <3>1, FS_Subset
  <2>2. OnScreen' => \A f \in reorder' : f.seq \in DOMAIN log /\ f.ev = log[f.seq]
    BY <1>1, <1>4, <1>7 DEF IInv, Agrees
  <2> QED
    BY <1>1, <1>3, <1>7, <2>1, <2>2, SameRecords DEF IInv, Agrees
<1>9. Guarded' /\ ShownIsHistory'
  BY <1>1, <1>7 DEF IInv, Guarded, ShownIsHistory, Transcript
<1>10. TypeOK'
  <2>1. \A f \in reorder' : f.seq \in Nat /\ f.ev \in Nat
    BY <1>1, <1>4 DEF IInv, TypeOK
  <2>2. gapTimer' \in BOOLEAN
    BY <1>1
  <2>3. \A r \in requests' : r.st \in {"asked", "read", "push"} /\ r.rest \subseteq DOMAIN log'
    BY <1>5 DEF CatchingUp, Catchups
  <2> QED
    BY <1>1, <1>3, <2>1, <2>2, <2>3 DEF IInv, TypeOK
<1> QED
  BY <1>3, <1>5, <1>6, <1>8, <1>9, <1>10 DEF IInv

\* What a frame brings with it: itself, and the held frames behind it.
LEMMA RunOfFrames ==
    ASSUME log \in Seq(Nat), watermark \in Nat, \A f \in reorder : f.seq \in Nat /\ f.ev \in Nat,
           NEW m \in Frames, NEW last \in Int, m.seq <= last, Due(m, last)
    PROVE  /\ Run(m, last) \in Seq(Nat) /\ Len(Run(m, last)) = last - watermark
           /\ (\A f \in reorder : f.seq \in DOMAIN log /\ f.ev = log[f.seq])
                  => last \in DOMAIN log
                     /\ \A i \in 1..last - watermark : Run(m, last)[i] = log[watermark + i]
<1> DEFINE run  == Run(m, last)
           Real == \A f \in reorder : f.seq \in DOMAIN log /\ f.ev = log[f.seq]
<1>1. m.seq = watermark + 1 /\ m.seq + 1..last \subseteq {f.seq : f \in reorder}
  BY DEF Due
<1>2. m.seq \in DOMAIN log /\ m.ev = log[m.seq] /\ m.ev \in Nat /\ m.seq \in Nat
  BY Kinds, ElementOfSeq, LenProperties
<1>3. ASSUME NEW i \in 1..last - watermark
      PROVE  run[i] \in Nat /\ (Real => watermark + i \in DOMAIN log /\ run[i] = log[watermark + i])
  <2>1. run[i] = IF i = 1 THEN m.ev ELSE (CHOOSE f \in reorder : f.seq = watermark + i).ev
    BY DEF Run
  <2>2. CASE i = 1
    BY <1>1, <1>2, <2>1, <2>2
  <2>3. CASE i # 1
    <3>1. watermark + i \in m.seq + 1..last
      BY <1>1, <2>3
    <3>2. PICK g \in reorder : g.seq = watermark + i
      BY <1>1, <3>1
    <3> DEFINE f0 == CHOOSE f \in reorder : f.seq = watermark + i
    <3>3. f0 \in reorder /\ f0.seq = watermark + i
      BY <3>2
    <3>4. run[i] = f0.ev
      BY <2>1, <2>3
    <3> HIDE DEF f0, run
    <3> QED
      BY <3>3, <3>4
  <2> QED
    BY <2>2, <2>3
<1>4. last - watermark \in Nat /\ last - watermark \in 1..last - watermark /\ last = watermark + (last - watermark)
  BY <1>1, <1>2
<1>5. run = [i \in 1..last - watermark |-> run[i]]
  BY DEF Run
<1> HIDE DEF run, Real
<1>6. run \in Seq(Nat) /\ Len(run) = last - watermark
  BY <1>3, <1>4, <1>5
<1>7. Real => last \in DOMAIN log /\ \A i \in 1..last - watermark : run[i] = log[watermark + i]
  BY <1>3, <1>4
<1> QED
  BY <1>6, <1>7 DEF run, Real

\* What the screen takes of a run is a piece of it.
LEMMA UnseenIsSeq ==
    ASSUME NEW page \in Seq(Nat)
    PROVE  Unseen(page) \in Seq(Nat)
<1> DEFINE seen == {i \in DOMAIN page : \E j \in DOMAIN shown : shown[j] = page[i]}
           c == Cardinality(seen)
<1>1. DOMAIN page = 1..Len(page) /\ Len(page) \in Nat
  BY LenProperties
<1>2. IsFiniteSet(1..Len(page))
  BY <1>1, FS_Interval
<1>3. IsFiniteSet(seen)
  BY <1>1, <1>2, FS_Subset
<1>4. c \in Nat
  BY <1>3, FS_CardinalityType
<1>5. Unseen(page) = SubSeq(page, c + 1, Len(page))
  BY DEF Unseen
<1> HIDE DEF c
<1>6. SubSeq(page, c + 1, Len(page)) \in Seq(Nat)
  BY <1>1, <1>4
<1> QED
  BY <1>5, <1>6

LEMMA TranscriptExtends ==
    ASSUME NEW k \in Nat, NEW d \in Nat, NEW page \in Seq(Nat), Len(page) = d,
           \A i \in 1..d : page[i] = k + i
    PROVE  Transcript(k) \o page = Transcript(k + d)
<1> DEFINE s == Transcript(k) \o page
           t == Transcript(k + d)
<1>1. /\ Transcript(k) \in Seq(Nat) /\ Len(Transcript(k)) = k
      /\ \A i \in 1..k : Transcript(k)[i] = i
  BY TranscriptSeq
<1>2. t \in Seq(Nat) /\ Len(t) = k + d /\ \A i \in 1..k + d : t[i] = i
  BY TranscriptSeq
<1>3. s \in Seq(Nat) /\ Len(s) = k + d
  BY <1>1
<1>4. ASSUME NEW i \in 1..k + d PROVE s[i] = i
  <2>1. CASE i <= k
    BY <1>1, <2>1
  <2>2. CASE ~(i <= k)
    <3>1. i - k \in 1..d /\ k + (i - k) = i
      BY <2>2
    <3>2. s[i] = page[i - k]
      BY <1>1, <2>2
    <3> QED
      BY <3>1, <3>2
  <2> QED
    BY <2>1, <2>2
<1> HIDE DEF s, t
<1>5. s = t
  BY <1>2, <1>3, <1>4, SeqEqual
<1> QED
  BY <1>5 DEF s, t

\* A run that begins no later than where the transcript ends continues it: what
\* it shares with it is shown once.
LEMMA RunContinues ==
    ASSUME NEW k \in Nat, shown = Transcript(k), NEW a \in Nat, a <= k,
           NEW d \in Nat, NEW page \in Seq(Nat), Len(page) = d, \A i \in 1..d : page[i] = a + i
    PROVE  \E n \in Nat : /\ shown \o Unseen(page) = Transcript(n)
                          /\ n = k \/ n = a + d
                          /\ k <= n /\ a + d <= n
<1> DEFINE seen == {i \in DOMAIN page : \E j \in DOMAIN shown : shown[j] = page[i]}
           e == IF k - a <= d THEN k - a ELSE d
           rest == SubSeq(page, e + 1, d)
<1>1. DOMAIN shown = 1..k /\ \A j \in 1..k : shown[j] = j
  BY TranscriptSeq, LenProperties
<1>2. DOMAIN page = 1..d
  BY LenProperties
<1>3. e \in Nat /\ e <= d /\ (e = k - a \/ (e = d /\ d <= k - a))
  OBVIOUS
<1> HIDE DEF e
<1>4. seen = 1..e
  <2>1. ASSUME NEW i \in 1..d PROVE (\E j \in 1..k : shown[j] = page[i]) <=> i <= e
    <3>1. page[i] = a + i /\ i \in Nat
      OBVIOUS
    <3>2. (\E j \in 1..k : shown[j] = page[i]) <=> a + i \in 1..k
      BY <1>1, <3>1
    <3>3. a + i \in 1..k <=> i <= e
      BY <1>3, <3>1
    <3> QED
      BY <3>2, <3>3
  <2>2. 1..e = {i \in 1..d : i <= e}
    BY <1>3
  <2> QED
    BY <1>1, <1>2, <2>1, <2>2
<1>5. Cardinality(1..e) = e
  BY <1>3, FS_Interval
<1>6. Unseen(page) = rest
  BY <1>4, <1>5 DEF Unseen
<1>7. rest \in Seq(Nat) /\ Len(rest) = d - e /\ \A i \in 1..d - e : rest[i] = page[e + i]
  BY <1>3
<1> HIDE DEF rest, seen
<1>8. CASE e = k - a
  <2>1. d - e \in Nat /\ k + (d - e) = a + d
    BY <1>3, <1>8
  <2>2. \A i \in 1..d - e : rest[i] = k + i
    <3> SUFFICES ASSUME NEW i \in 1..d - e PROVE rest[i] = k + i
      OBVIOUS
    <3>1. e + i \in 1..d /\ a + (e + i) = k + i
      BY <1>3, <1>8
    <3> QED
      BY <1>7, <3>1
  <2>3. Transcript(k) \o rest = Transcript(k + (d - e))
    BY <1>7, <2>1, <2>2, TranscriptExtends
  <2>4. k <= a + d
    BY <1>3, <1>8
  <2> QED
    BY <1>6, <2>1, <2>3, <2>4
<1>9. CASE e = d /\ d <= k - a
  <2>1. d - e = 0 /\ k + 0 = k /\ a + d <= k
    BY <1>3, <1>9
  <2>2. Transcript(k) \o rest = Transcript(k + 0)
    BY <1>7, <2>1, TranscriptExtends
  <2> QED
    BY <1>6, <2>1, <2>2
<1> QED
  BY <1>3, <1>8, <1>9

LEMMA Difference ==
    ASSUME NEW x \in Nat, NEW n \in Nat, NEW t \in Nat, NEW w \in Nat, NEW i \in Nat,
           x + n = t + (w + i)
    PROVE  x = (t + w - n) + i
  OBVIOUS

\* What Apply does to the screen: the run of frames behind the watermark, but for
\* what is there already.
LEMMA Applied ==
    ASSUME IInv, NEW m \in Frames, Apply(m), UNCHANGED <<log, total>>
    PROVE  /\ watermark' \in Nat /\ shown' \in Seq(Nat) /\ reorder' \subseteq reorder
           /\ OnScreen /\ ~stale =>
                 /\ Covers(watermark', Len(shown'))
                 /\ shown' = shown \/ Len(shown') \in Len(shown) + 1..total
                 /\ shown' = Transcript(Len(shown'))
<1>1. /\ log \in Seq(Nat) /\ watermark \in Nat /\ shown \in Seq(Nat) /\ total \in Nat
      /\ \A f \in reorder : f.seq \in Nat /\ f.ev \in Nat
      /\ Len(shown) \in Nat /\ Len(log) \in Nat /\ DOMAIN log = 1..Len(log)
  BY LenProperties DEF IInv, TypeOK
<1>2. m.seq \in Nat
  BY <1>1, Kinds
<1>3. PICK last \in m.seq..m.seq + Cardinality(reorder) :
         /\ Due(m, last)
         /\ watermark' = last
         /\ shown' = shown \o Unseen(Run(m, last))
         /\ reorder' = {f \in reorder : f.seq > last}
  BY DEF Apply
<1>4. last \in Int /\ m.seq <= last /\ last \in Nat /\ m.seq = watermark + 1
  <2>1. Cardinality(reorder) \in Nat
    BY FS_CardinalityType DEF IInv, Agrees
  <2> QED
    BY <1>2, <1>3, <2>1 DEF Due
<1> DEFINE page == Run(m, last)
           more == Unseen(page)
<1>5. /\ page \in Seq(Nat) /\ Len(page) = last - watermark
      /\ (\A f \in reorder : f.seq \in DOMAIN log /\ f.ev = log[f.seq])
             => last \in DOMAIN log
                /\ \A i \in 1..last - watermark : page[i] = log[watermark + i]
  BY <1>1, <1>3, <1>4, RunOfFrames
<1> HIDE DEF page
<1>6. more \in Seq(Nat)
  BY <1>5, UnseenIsSeq
<1>7. shown' = shown \o more /\ watermark' = last
  BY <1>3 DEF page
<1>8. shown' \in Seq(Nat) /\ reorder' \subseteq reorder
  <2> HIDE DEF more
  <2>1. shown \o more \in Seq(Nat)
    BY <1>1, <1>6
  <2> QED
    BY <1>3, <1>7, <2>1
<1>9. ASSUME OnScreen, ~stale
      PROVE  /\ Covers(watermark', Len(shown'))
             /\ shown' = shown \/ Len(shown') \in Len(shown) + 1..total
             /\ shown' = Transcript(Len(shown'))
  <2> DEFINE k == Len(shown)
             a == total + watermark - Len(log)
             d == last - watermark
  <2>1. /\ Covers(watermark, k) /\ shown = Transcript(k)
        /\ last \in 1..Len(log) /\ \A i \in 1..d : page[i] = log[watermark + i]
    BY <1>1, <1>5, <1>9 DEF IInv, Agrees, ShownIsHistory, OnScreen
  <2>2. /\ watermark \in 0..Len(log) /\ total + watermark >= Len(log)
        /\ \A n \in watermark + 1..Len(log) : log[n] + Len(log) = total + n
        /\ k \in 0..total /\ k + Len(log) >= total + watermark
    BY <2>1 DEF Covers, Numbered
  <2>3. a \in Nat /\ a <= k /\ d \in Nat /\ k \in Nat
    BY <1>1, <1>4, <2>2
  <2>4. \A i \in 1..d : page[i] = a + i
    <3> SUFFICES ASSUME NEW i \in 1..d PROVE page[i] = a + i
      OBVIOUS
    <3>1. watermark + i \in watermark + 1..Len(log) /\ watermark + i \in 1..Len(log) /\ i \in Nat
      BY <1>1, <1>4, <2>1
    <3>2. log[watermark + i] + Len(log) = total + (watermark + i)
      BY <2>2, <3>1
    <3>3. log[watermark + i] \in Nat
      BY <1>1, <3>1, ElementOfSeq
    <3>4. page[i] = log[watermark + i]
      BY <2>1
    <3>5. log[watermark + i] = (total + watermark - Len(log)) + i
      <4> DEFINE x == log[watermark + i]
                 n == Len(log)
      <4>1. x \in Nat /\ n \in Nat /\ total \in Nat /\ watermark \in Nat /\ i \in Nat
        BY <1>1, <3>1, <3>3
      <4>2. x + n = total + (watermark + i)
        BY <3>2
      <4> HIDE DEF x, n
      <4>3. x = (total + watermark - n) + i
        BY <4>1, <4>2, Difference
      <4> QED
        BY <4>3 DEF x, n
    <3> HIDE DEF page
    <3> QED
      BY <3>4, <3>5
  <2>5. PICK n \in Nat : shown \o more = Transcript(n) /\ (n = k \/ n = a + d) /\ k <= n /\ a + d <= n
    <3> HIDE DEF k, a, d
    <3> QED
      BY <1>5, <2>1, <2>3, <2>4, RunContinues DEF d, k
  <2>6. shown' = Transcript(n) /\ Len(shown') = n
    BY <1>7, <2>5, TranscriptSeq
  <2>7. a + d + Len(log) = total + last /\ a + d <= total
    BY <1>1, <1>4, <2>1
  <2>8. n \in 0..total /\ n + Len(log) >= total + last
    BY <1>1, <2>2, <2>5, <2>7
  <2>9. Numbered(last)
    <3>1. last \in 0..Len(log) /\ total + last >= Len(log)
      BY <1>1, <1>4, <2>1, <2>2
    <3>2. \A x \in last + 1..Len(log) : x \in watermark + 1..Len(log)
      BY <1>1, <1>4
    <3> QED
      BY <2>2, <3>1, <3>2 DEF Numbered
  <2>10. n = k => shown' = shown
    BY <2>1, <2>6
  <2>11. n # k => n \in k + 1..total
    BY <2>3, <2>5, <2>8
  <2> QED
    BY <1>7, <2>6, <2>8, <2>9, <2>10, <2>11 DEF Covers
<1> QED
  BY <1>4, <1>7, <1>8, <1>9

LEMMA StreamApply ==
    ASSUME IInv, Deliver, NEW m \in Frames, Apply(m), mounted
    PROVE  IInv'
<1>1. /\ gapTimer' = (gapTimer /\ reorder' # {})
      /\ UNCHANGED <<opening, store, mounted, inFlight, resynced, stale, refused, resume, pauseAsked, requests>>
  BY DEF Apply, record
<1>2. store \in Nat /\ store' \in Nat /\ store <= store'
  BY <1>1 DEF IInv, TypeOK
<1>3. /\ UNCHANGED <<live, total, log, base, ckpt, subscribed, online>>
      /\ online /\ InTransit' /\ Silent'
      /\ \A i \in DOMAIN wire' : /\ i \in Nat /\ i + 1 # 1 /\ i + 1 \in DOMAIN wire
                                /\ wire'[i] = wire[i + 1]
  BY <1>2, DeliverFrame
<1>4. /\ watermark' \in Nat /\ shown' \in Seq(Nat) /\ reorder' \subseteq reorder
      /\ OnScreen /\ ~stale => Covers(watermark', Len(shown')) /\ shown' = Transcript(Len(shown'))
  BY <1>3, Applied
<1>5. Resuming' /\ CatchingUp' /\ OneOpen'
  BY <1>1, <1>3, ResumingFrame, CatchingUpFrame, OpenGoesOn DEF IInv
<1>6. OnScreen' <=> OnScreen
  BY <1>1, <1>3 DEF OnScreen
<1>7. Agrees'
  <2>1. IsFiniteSet(reorder')
    BY <1>4, FS_Subset DEF IInv, Agrees
  <2>2. OnScreen' /\ ~stale' => Covers(watermark, Len(shown))'
    BY <1>1, <1>3, <1>4, <1>6, SameRecords
  <2>3. OnScreen' => \A f \in reorder' : f.seq \in DOMAIN log' /\ f.ev = log'[f.seq]
    BY <1>3, <1>4, <1>6 DEF IInv, Agrees
  <2> QED
    BY <1>1, <2>1, <2>2, <2>3 DEF Agrees
<1>8. Guarded'
  BY <1>1, <1>4, <1>6 DEF IInv, Guarded
<1>9. ShownIsHistory'
  BY <1>1, <1>3, <1>4 DEF ShownIsHistory, OnScreen, Transcript
<1>10. TypeOK'
  <2>1. gapTimer' \in BOOLEAN
    BY <1>1 DEF IInv, TypeOK
  <2>2. \A f \in reorder' : f.seq \in Nat /\ f.ev \in Nat
    BY <1>4 DEF IInv, TypeOK
  <2> QED
    BY <1>1, <1>3, <1>4, <2>1, <2>2 DEF IInv, TypeOK
<1> QED
  BY <1>3, <1>5, <1>7, <1>8, <1>9, <1>10 DEF IInv

\* What a message does, by its kind.
LEMMA DeliverCases ==
    ASSUME IInv, Deliver
    PROVE  \/ Head(wire) \in Snapshots /\ MountStore(Head(wire))
           \/ Head(wire) \in Pauses /\ EndOpen
           \/ \E m \in Answers : CatchupAnswered(m)
           \/ \E m \in Frames : mounted /\ (Apply(m) \/ Hold(m))
           \/ UNCHANGED <<client, resume, pauseAsked, requests>>
<1>1. Head(wire) \in Frames \cup Snapshots \cup Pauses \cup Answers
  BY WireHead DEF Deliver, Messages
<1> QED
  BY <1>1, Kinds DEF Deliver, DropReplay

LEMMA StreamDeliver == IInv /\ Deliver => IInv'
  BY DeliverCases, StreamMount, StreamEndOpen, StreamAnswered, StreamApply, StreamHold, StreamDropped

-----------------------------------------------------------------------------
(* The connection.                                                         *)

LEMMA StreamLost ==
    ASSUME IInv, ConnectionLost,
           live' \in BOOLEAN, total' \in Nat, log' \in Seq(Nat), base' \in Nat, base' <= Len(log'),
           ckpt' \in Nat
    PROVE  IInv'
<1>1. /\ online' = FALSE /\ wire' = <<>> /\ batch' = <<>> /\ subscribed' = FALSE
      /\ resume' = [st |-> "none"] /\ pauseAsked' = FALSE /\ requests' = {} /\ inFlight' = FALSE
      /\ opening' = "none"
      /\ UNCHANGED <<store, resynced, stale, refused>>
      /\ \/ /\ opening = "fetch" /\ mounted' = FALSE /\ shown' = <<>> /\ watermark' = 0 /\ reorder' = {}
            /\ gapTimer' = FALSE
         \/ opening # "fetch" /\ UNCHANGED <<mounted, shown, watermark, reorder, gapTimer>>
  BY DEF ConnectionLost, record
<1>2. InTransit' /\ CatchingUp' /\ Silent' /\ OneOpen'
  BY <1>1 DEF InTransit, CatchingUp, Silent, OneOpen
<1>3. Resuming'
  BY <1>1 DEF Resuming, Resumes
<1>4. ~OnScreen'
  BY <1>1 DEF OnScreen
<1>5. Agrees' /\ Guarded'
  BY <1>1, <1>4, FS_EmptySet DEF IInv, Agrees, Guarded
<1>6. ShownIsHistory'
  <2>1. CASE shown' = <<>>
    <3>1. Transcript(0) = <<>> /\ Len(shown') = 0
      BY <2>1 DEF Transcript
    <3> QED
      BY <2>1, <3>1 DEF ShownIsHistory, Transcript
  <2>2. CASE opening # "fetch" /\ shown' = shown
    BY <1>1, <2>2 DEF IInv, ShownIsHistory, Transcript
  <2> QED
    BY <1>1, <2>1, <2>2
<1>7. TypeOK'
  <2>1. /\ mounted' \in BOOLEAN /\ gapTimer' \in BOOLEAN /\ watermark' \in Nat /\ shown' \in Seq(Nat)
        /\ \A f \in reorder' : f.seq \in Nat /\ f.ev \in Nat
    <3>1. CASE opening = "fetch"
      <4>1. <<>> \in Seq(Nat) /\ 0 \in Nat
        OBVIOUS
      <4> QED
        BY <1>1, <3>1, <4>1
    <3>2. CASE opening # "fetch"
      BY <1>1, <3>2 DEF IInv, TypeOK
    <3> QED
      BY <3>1, <3>2
  <2>2. /\ opening' \in {"none", "fetch", "pause"} /\ inFlight' \in BOOLEAN /\ online' \in BOOLEAN
        /\ subscribed' \in BOOLEAN /\ pauseAsked' \in BOOLEAN
    BY <1>1
  <2> QED
    BY <1>1, <2>1, <2>2 DEF IInv, TypeOK
<1> QED
  BY <1>2, <1>3, <1>5, <1>6, <1>7 DEF IInv

LEMMA StreamDisconnect == IInv /\ Disconnect => IInv'
<1> SUFFICES ASSUME IInv, Disconnect PROVE IInv'
  OBVIOUS
<1>1. ConnectionLost /\ UNCHANGED <<live, total, log, base, ckpt>>
  BY DEF Disconnect, journal
<1> QED
  BY <1>1, StreamLost DEF IInv, TypeOK

\* The journal the next life finds is a piece of this one's.
LEMMA StreamRestart == IInv /\ Restart => IInv'
<1> SUFFICES ASSUME IInv, Restart PROVE IInv'
  OBVIOUS
<1>1. ConnectionLost /\ live' = FALSE /\ ckpt' = ckpt
  BY DEF Restart
<1>2. PICK n \in base..Len(log) :
         IF n = base THEN log' = <<>> /\ base' = 0
         ELSE log' = [i \in 1..n |-> 0] /\ UNCHANGED base
  BY DEF Restart
<1>3. base \in Nat /\ log \in Seq(Nat) /\ Len(log) \in Nat /\ n \in Nat /\ base <= n /\ n <= Len(log)
  BY LenProperties DEF IInv, TypeOK
<1>4. log' \in Seq(Nat) /\ base' \in Nat /\ base' <= Len(log')
  <2>1. CASE n = base
    BY <1>2, <2>1
  <2>2. CASE n # base
    <3>1. log' = [i \in 1..n |-> 0] /\ base' = base
      BY <1>2, <2>2
    <3>2. [i \in 1..n |-> 0] \in Seq(Nat) /\ Len([i \in 1..n |-> 0]) = n
      BY <1>3
    <3> QED
      BY <1>3, <3>1, <3>2
  <2> QED
    BY <2>1, <2>2
<1>5. total' \in Nat
  BY DEF Restart, IInv, TypeOK
<1> QED
  BY <1>1, <1>4, <1>5, StreamLost DEF IInv, TypeOK

\* A store that was mounted is opened again at once.
LEMMA StreamReconnect == IInv /\ Reconnect => IInv'
<1> SUFFICES ASSUME IInv, Reconnect PROVE IInv'
  OBVIOUS
<1>1. /\ UNCHANGED <<live, total, log, base, ckpt, subscribed, requests, batch, wire, store, mounted,
                     watermark, shown, reorder, inFlight, gapTimer, resynced, stale, refused, pauseAsked>>
      /\ ~online /\ online' = TRUE
      /\ \/ mounted /\ opening' = "fetch" /\ resume' = [st |-> "asked"]
         \/ ~mounted /\ UNCHANGED <<opening, resume>>
  BY DEF Reconnect, journal, gate, record
<1>2. /\ opening = "none" /\ resume.st = "none" /\ ~pauseAsked /\ wire = <<>>
      /\ mounted \in BOOLEAN
  BY <1>1 DEF IInv, Silent, TypeOK
<1>3. InTransit' /\ CatchingUp'
  BY <1>1, TransitFrame, CatchingUpFrame DEF IInv
<1>4. Resuming'
  <2>1. CASE mounted
    BY <1>1, <2>1 DEF Resuming, Resumes
  <2>2. CASE ~mounted
    BY <1>1, <2>2, ResumingFrame DEF IInv
  <2> QED
    BY <2>1, <2>2
<1>5. Silent' /\ ~OnScreen' /\ OneOpen'
  BY <1>1, <1>2, OneOpenElsewhere DEF Silent, OnScreen
<1>6. Agrees' /\ Guarded' /\ ShownIsHistory'
  BY <1>1, <1>2, <1>5 DEF IInv, Agrees, Guarded, ShownIsHistory, Transcript
<1>7. TypeOK'
  BY <1>1, <1>2 DEF IInv, TypeOK
<1> QED
  BY <1>3, <1>4, <1>5, <1>6, <1>7 DEF IInv

LEMMA StreamStutter == IInv /\ UNCHANGED vars => IInv'
<1> SUFFICES ASSUME IInv, UNCHANGED vars PROVE IInv'
  OBVIOUS
<1>1. UNCHANGED <<live, total, log, base, ckpt, subscribed, resume, requests, batch, online, wire,
                  store, client, opening, pauseAsked>>
  BY DEF vars, journal, serving, client
<1>2. InTransit' /\ Resuming' /\ CatchingUp'
  BY <1>1, TransitFrame, ResumingFrame, CatchingUpFrame DEF IInv
<1>3. TypeOK'
  BY <1>1, <1>2, TypeFrame DEF IInv, TypeOK
<1>4. Silent' /\ OneOpen'
  BY <1>1, OneOpenFrame DEF IInv, Silent
<1> QED
  BY <1>1, <1>2, <1>3, <1>4, ClientFrame DEF IInv

LEMMA StreamNext == IInv /\ [Next]_vars => IInv'
  BY StreamPublish, StreamQuiet, StreamCapture, StreamRespond, StreamPause, StreamCatchup, StreamFlush,
     StreamOpens, StreamSends, StreamDeliver, StreamTimeout, StreamDisconnect, StreamRestart,
     StreamReconnect, StreamStutter
  DEF Next, ServeCatchup

-----------------------------------------------------------------------------
(* The invariants of the runs.                                             *)

\* IInv is the invariant behind the theorems: types, provenance of what is in
\* transit, agreement of the screen with the numbering, the guard of a hole.
LEMMA StreamInvariant == Spec => []IInv
  BY StreamInit, StreamNext, PTL DEF Spec

\* Every reachable state of host, batcher, wire and client is well typed, and a
\* compaction cuts only what has been numbered.
THEOREM StreamTyped == Spec => []TypeOK
<1>1. IInv => TypeOK
  BY DEF IInv
<1> QED
  BY <1>1, StreamInvariant, PTL

\* For every number of events, opens, compactions, disconnects and every page
\* size: the transcript on screen is an initial piece of the history, without a
\* hole, a repetition or an exchange.
THEOREM ShownIsHistoryHolds == Spec => []ShownIsHistory
<1>1. IInv => ShownIsHistory
  BY DEF IInv
<1> QED
  BY <1>1, StreamInvariant, PTL

\* What the gate drops as a replay is on screen: no event before the record behind
\* the watermark is missing there, also where the snapshot ran ahead of its cursor.
THEOREM WatermarkMatchesScreenHolds == Spec => []WatermarkMatchesScreen
<1>1. IInv => WatermarkMatchesScreen
  <2> SUFFICES ASSUME IInv, OnScreen, ~stale
               PROVE  watermark <= Len(log) /\ NextEvent <= Len(shown) + 1 /\ Len(shown) <= total
    BY DEF WatermarkMatchesScreen, OnScreen
  <2>1. /\ Covers(watermark, Len(shown)) /\ log \in Seq(Nat)
        /\ Len(log) \in Nat /\ total \in Nat /\ watermark \in Nat
    BY LenProperties DEF IInv, TypeOK, Agrees
  <2>2. /\ watermark <= Len(log) /\ Len(shown) + Len(log) >= total + watermark
        /\ Len(shown) \in Nat /\ Len(shown) <= total
    BY <2>1 DEF Covers, Numbered
  <2>3. CASE watermark < Len(log)
    <3>1. watermark + 1 \in watermark + 1..Len(log) /\ watermark + 1 \in 1..Len(log)
      BY <2>1, <2>3
    <3>2. log[watermark + 1] + Len(log) = total + (watermark + 1)
      BY <2>1, <3>1 DEF Covers, Numbered
    <3>3. log[watermark + 1] \in Nat
      BY <2>1, <3>1, ElementOfSeq
    <3>4. log[watermark + 1] = (total + watermark - Len(log)) + 1
      BY <2>1, <3>2, <3>3, Difference
    <3>5. log[watermark + 1] <= Len(shown) + 1
      BY <2>1, <2>2, <3>4
    <3> QED
      BY <2>2, <2>3, <3>5 DEF NextEvent
  <2>4. CASE watermark = Len(log)
    <3>1. total <= Len(shown)
      BY <2>1, <2>2, <2>4
    <3> QED
      BY <2>1, <2>2, <2>4, <3>1 DEF NextEvent
  <2> QED
    BY <2>1, <2>2, <2>3, <2>4
<1> QED
  BY <1>1, StreamInvariant, PTL

\* A store that waits for a hole has its guard timer armed until an open replaces
\* it: the resync of a store on screen has not been used up, unless the open that
\* made the store has dropped it.
THEOREM HoleIsAttendedHolds == Spec => []HoleIsAttended
<1>1. IInv => HoleIsAttended
  BY DEF IInv, TypeOK, Guarded, OnScreen, HoleIsAttended
<1> QED
  BY <1>1, StreamInvariant, PTL

-----------------------------------------------------------------------------
(* The refinement.                                                         *)

\* What TranscriptFeed calls shown.
Visible == IF opening = "fetch" \/ ~online \/ stale THEN <<>> ELSE shown

\* The transcript disappears when an open begins, or a connection ends one.
LEMMA FeedHides ==
    ASSUME UNCHANGED <<total, store>>, Visible' = Visible \/ Visible' = <<>>
    PROVE  [Feed!Next]_(Feed!feed)
<1>1. CASE Visible' = Visible
  BY <1>1 DEF Visible, Feed!feed
<1>2. CASE Visible' = <<>> /\ Visible # <<>>
  BY <1>2 DEF Visible, Feed!Next, Feed!Unmount
<1> QED
  BY <1>1, <1>2

LEMMA FeedDelivers ==
    ASSUME IInv, Deliver
    PROVE  [Feed!Next]_(Feed!feed)
<1>1. UNCHANGED <<log, total, online>> /\ online /\ wire # <<>>
  <2>1. wire # <<>> /\ UNCHANGED <<log, total, online>>
    BY DEF Deliver, journal
  <2> QED
    BY <2>1 DEF IInv, Silent
<1>2. ASSUME Head(wire) \in Snapshots, MountStore(Head(wire)) PROVE Feed!Mount
  <2> DEFINE m == Head(wire)
  <2>1. /\ m.upto \in Nat /\ m.behind \in BOOLEAN
        /\ ~m.behind => m.upto \in 0..total
    BY <1>2, Kinds DEF Covers
  <2>2. /\ store' = store + 1 /\ opening' = "pause" /\ shown' = Transcript(m.upto)
        /\ stale' = m.behind
    BY <1>2 DEF MountStore
  <2> HIDE DEF m
  <2>3. CASE m.behind
    <3>1. Visible' = <<>> /\ 0 \in 0..total
      BY <2>2, <2>3 DEF Visible, IInv, TypeOK
    <3>2. Transcript(0) = <<>>
      BY DEF Transcript
    <3> QED
      BY <1>1, <2>2, <3>1, <3>2 DEF Feed!Mount, Feed!History, Transcript, Visible
  <2>4. CASE ~m.behind
    <3>1. Visible' = Transcript(m.upto) /\ m.upto \in 0..total
      BY <1>1, <2>1, <2>2, <2>4 DEF Visible
    <3> QED
      BY <1>1, <2>2, <3>1 DEF Feed!Mount, Feed!History, Transcript, Visible
  <2> QED
    BY <2>3, <2>4
<1>3. ASSUME NEW m \in Frames, mounted, Apply(m) PROVE [Feed!Next]_(Feed!feed)
  <2>1. UNCHANGED <<opening, store, stale>>
    BY <1>3 DEF Apply, record
  <2>2. CASE opening = "fetch" \/ stale
    BY <1>1, <2>1, <2>2, FeedHides DEF Visible
  <2>3. CASE opening # "fetch" /\ ~stale
    <3>1. /\ shown' = shown \/ Len(shown') \in Len(shown) + 1..total
          /\ shown' = Transcript(Len(shown'))
      BY <1>1, <1>3, <2>3, Applied DEF OnScreen
    <3>2. CASE shown' = shown
      BY <1>1, <2>1, <3>2, FeedHides DEF Visible
    <3>3. CASE Len(shown') \in Len(shown) + 1..total
      <4>1. Feed!Extend
        BY <1>1, <2>1, <2>3, <3>1, <3>3 DEF Feed!Extend, Feed!History, Transcript
      <4> QED
        BY <4>1 DEF Feed!Next
    <3> QED
      BY <3>1, <3>2, <3>3
  <2> QED
    BY <2>2, <2>3
<1>4. ASSUME NEW m, CatchupAnswered(m) PROVE [Feed!Next]_(Feed!feed)
  <2>1. UNCHANGED <<store, shown, stale>> /\ (OpenSession \/ opening' = opening)
    BY <1>4 DEF CatchupAnswered, TriggerResync
  <2>2. Visible' = Visible \/ Visible' = <<>>
    BY <1>1, <2>1 DEF Visible, OpenSession
  <2> QED
    BY <1>1, <2>1, <2>2, FeedHides
<1>5. ASSUME NEW m, Hold(m) PROVE [Feed!Next]_(Feed!feed)
  BY <1>1, <1>5, FeedHides DEF Hold, Visible, record
<1>6. CASE UNCHANGED <<client, resume, pauseAsked, requests>>
  BY <1>1, <1>6, FeedHides DEF client, gate, record, Visible
<1>7. ASSUME Head(wire) \in Pauses, EndOpen PROVE [Feed!Next]_(Feed!feed)
  <2>1. opening = "pause"
    <3>1. Head(wire).kind = "paused" /\ Head(wire) = wire[1] /\ 1 \in DOMAIN wire
      BY <1>1, <1>7, Kinds, WireHead
    <3> QED
      BY <3>1 DEF IInv, OneOpen
  <2>2. opening' = "none" /\ UNCHANGED <<store, shown, stale>>
    BY <1>7 DEF EndOpen, gate, record
  <2> QED
    BY <1>1, <2>1, <2>2, FeedHides DEF Visible
<1> QED
  BY <1>2, <1>3, <1>4, <1>5, <1>6, <1>7, DeliverCases DEF Feed!Next

LEMMA FeedNext ==
    ASSUME IInv, [Next]_vars
    PROVE  [Feed!Next]_(Feed!feed)
<1>1. CASE Publish
  <2>1. total' = total + 1 /\ UNCHANGED <<opening, shown, store, online, stale>>
    BY <1>1 DEF Publish, client, gate, record
  <2> QED
    BY <2>1 DEF Feed!Next, Feed!Publish
<1>2. CASE \/ Compact \/ IdleDispose \/ Activate \/ Capture \/ Respond \/ AnswerPause
           \/ ServeCatchup \/ FlushBatch \/ UserSends
  <2>1. UNCHANGED <<total, client, online>>
    BY <1>2 DEF Compact, IdleDispose, Activate, Capture, Respond, AnswerPause, ServeCatchup, PlanCatchup,
                ReadCatchup, PushPage, EndCatchup, FlushBatch, UserSends, journal
  <2> QED
    BY <2>1, FeedHides DEF client, gate, record, Visible
<1>3. CASE UserOpens \/ GapTimeout
  <2>1. UNCHANGED <<total, store, shown, online, stale>> /\ (OpenSession \/ opening' = opening)
    BY <1>3 DEF UserOpens, GapTimeout, TriggerResync, journal, gate, record
  <2>2. Visible' = Visible \/ Visible' = <<>>
    BY <2>1 DEF Visible, OpenSession
  <2> QED
    BY <2>1, <2>2, FeedHides
<1>4. CASE Deliver
  BY <1>4, FeedDelivers
<1>5. CASE Disconnect
  <2>1. Visible' = <<>> /\ UNCHANGED <<total, store>>
    BY <1>5 DEF Disconnect, ConnectionLost, journal, Visible
  <2> QED
    BY <2>1, FeedHides
<1>6. CASE Restart
  <2>1. Visible' = <<>> /\ store' = store /\ \E n \in 0..total : total' = n
    BY <1>6 DEF Restart, ConnectionLost, Visible
  <2> QED
    BY <2>1 DEF Feed!Next, Feed!Forget, Visible
<1>7. CASE Reconnect
  <2>1. /\ UNCHANGED <<total, store, shown, stale>> /\ ~online
        /\ mounted \/ shown = <<>>
        /\ mounted => opening' = "fetch"
    BY <1>7 DEF Reconnect, journal, gate, record, IInv, Agrees
  <2>2. Visible' = <<>>
    BY <2>1 DEF Visible
  <2> QED
    BY <2>1, <2>2, FeedHides
<1>8. CASE UNCHANGED vars
  BY <1>8, FeedHides DEF vars, journal, client, gate, record, Visible
<1> QED
  BY <1>1, <1>2, <1>3, <1>4, <1>5, <1>6, <1>7, <1>8 DEF Next

\* The pipeline implements TranscriptFeed: under one store the transcript only
\* grows along the history, and a shorter piece comes with a new store or with
\* none, across batches, replays, gaps, resyncs, disconnects and restarts.
THEOREM ImplementsFeedHolds == Spec => ImplementsFeed
<1>1. Init => Feed!Init
  BY DEF Init, Feed!Init
<1>2. IInv /\ [Next]_vars => [Feed!Next]_(Feed!feed)
  BY FeedNext
<1> QED
  BY <1>1, <1>2, StreamInvariant, PTL DEF Spec, ImplementsFeed, Feed!Spec
=============================================================================
