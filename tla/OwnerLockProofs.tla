--------------------------- MODULE OwnerLockProofs ---------------------------
(***************************************************************************)
(* Theorems about OwnerLock for every set of processes and calls:          *)
(* MapNamesHeldLock is an invariant, and so is OwnerOnDisk: until one of   *)
(* the three races of its comment, the file names the lock of everyone who *)
(* has a handle.                                                           *)
(*                                                                         *)
(* Neither is inductive.  A handle stays on disk because whoever is about  *)
(* to unlink the file has read one nobody can claim any more: Claims says  *)
(* what each call at work knows of the file, Handles that the last release *)
(* of a lock is alone with it, Homes that locks are shared in one process  *)
(* and only after they were entered, OnDisk who may have left an unwritten *)
(* file.                                                                   *)
(***************************************************************************)
EXTENDS OwnerLock, FiniteSetTheorems, TLAPS

Begun(t) == pc[t] \in {"held", "check", "remove", "done", "dead"}

Attempts == \A c \in Caller :
    pc[c] \in {"idle", "open", "write", "enter", "read", "unlink"} => tries[c] \in {0, 1}
Homes ==
    /\ \A c \in Caller : pc[c] = "dead" <=> ~alive[Home[c]]
    /\ \A c \in Caller : handle[c] # None => Home[handle[c]] = Home[c] /\ Begun(handle[c])
    /\ \A p \in Proc : held[p] # None => Home[held[p]] = p /\ Begun(held[p])
    /\ \A t \in Caller : timer[t] \/ beat[t] # "idle" => Begun(t)
Handles ==
    /\ \A c \in Caller : pc[c] \in {"held", "check", "remove"} => handle[c] # None
    /\ \A c \in Caller : pc[c] \in {"check", "remove"} => refs[handle[c]] = 0
    /\ \A c, d \in Caller :
          pc[c] \in {"check", "remove"} /\ pc[d] \in {"check", "remove"} /\ handle[c] = handle[d]
          => c = d
OnDisk ==
    /\ file = None => ~full
    /\ file # None /\ ~full => pc[file] \in {"write", "failed", "dead"}
Claim(c) ==
    /\ pc[c] = "write" => file = c /\ ~full
    /\ pc[c] = "enter" => file = c /\ full
    /\ pc[c] = "held" => file = handle[c] /\ full
    /\ pc[c] = "remove" => file = handle[c]
    /\ pc[c] = "unlink" /\ seen[c] # None => pc[seen[c]] \in {"failed", "dead"}
Claims == ~raced => \A c \in Caller : Claim(c)

IInv == TypeOK /\ Attempts /\ MapNamesHeldLock /\ Homes /\ Handles /\ OnDisk /\ Claims

-----------------------------------------------------------------------------
(* The sets of sharers.                                                    *)

\* A step that changes no handle in use changes no set of sharers.
LEMMA SharersKept ==
    ASSUME Holder' = Holder, \A c \in Holder : handle'[c] = handle[c],
           NEW t \in Caller
    PROVE  Sharers(t)' = Sharers(t)
BY DEF Sharers

\* A call that gets a handle of t is one more sharer of t.
LEMMA SharersGrow ==
    ASSUME OwnerAssumption, NEW c \in Caller, NEW t \in Caller,
           c \notin Holder, Holder' = Holder \cup {c},
           handle'[c] = t, \A d \in Holder : handle'[d] = handle[d]
    PROVE  /\ Cardinality(Sharers(t)') = Cardinality(Sharers(t)) + 1
           /\ \A s \in Caller \ {t} : Sharers(s)' = Sharers(s)
<1>1. Sharers(t)' = Sharers(t) \cup {c} /\ c \notin Sharers(t)
  BY DEF Sharers
<1>2. IsFiniteSet(Sharers(t))
  <2>1. Sharers(t) \subseteq Caller
    BY DEF Sharers, Holder
  <2> QED BY <2>1, FS_Subset DEF OwnerAssumption
<1>3. \A s \in Caller \ {t} : Sharers(s)' = Sharers(s)
  BY DEF Sharers
<1> QED BY <1>1, <1>2, <1>3, FS_AddElement

\* A call that gives its handle of t back is one less.
LEMMA SharersShrink ==
    ASSUME OwnerAssumption, NEW c \in Holder, NEW t \in Caller,
           Holder' = Holder \ {c}, handle[c] = t, handle' = handle
    PROVE  /\ Cardinality(Sharers(t)') = Cardinality(Sharers(t)) - 1
           /\ \A s \in Caller \ {t} : Sharers(s)' = Sharers(s)
<1>1. Sharers(t)' = Sharers(t) \ {c} /\ c \in Sharers(t)
  BY DEF Sharers
<1>2. IsFiniteSet(Sharers(t))
  <2>1. Sharers(t) \subseteq Caller
    BY DEF Sharers, Holder
  <2> QED BY <2>1, FS_Subset DEF OwnerAssumption
<1>3. \A s \in Caller \ {t} : Sharers(s)' = Sharers(s)
  BY DEF Sharers
<1>4. Cardinality(Sharers(t) \ {c}) = Cardinality(Sharers(t)) - 1
  BY <1>1, <1>2, FS_RemoveElement
<1> QED BY <1>1, <1>3, <1>4

\* A lock has a positive count exactly when somebody has a handle of it.
LEMMA CountsSharers ==
    ASSUME OwnerAssumption, MapNamesHeldLock, NEW t \in Caller
    PROVE  refs[t] = 0 <=> Sharers(t) = {}
<1>1. IsFiniteSet(Sharers(t))
  <2>1. Sharers(t) \subseteq Caller
    BY DEF Sharers, Holder
  <2> QED BY <2>1, FS_Subset DEF OwnerAssumption
<1> QED BY <1>1, FS_EmptySet DEF MapNamesHeldLock

-----------------------------------------------------------------------------
(* One lemma per action: it keeps every part of IInv.                      *)

\* Nothing is claimed before the file is opened.
LEMMA BeginKeeps ==
    ASSUME OwnerAssumption, IInv, NEW c \in Caller, Begin(c)
    PROVE  IInv'
<1>1. TypeOK' /\ Attempts'
  BY DEF IInv, TypeOK, OwnerAssumption, Attempts, Begin, disk, locks, call, counts
<1>2. MapNamesHeldLock'
  <2>1. Holder' = Holder /\ handle' = handle
    BY DEF IInv, TypeOK, Holder, Begin, disk, locks, call, counts
  <2>2. \A s \in Caller : Sharers(s)' = Sharers(s)
    BY <2>1, SharersKept
  <2> QED BY <2>2 DEF IInv, TypeOK, OwnerAssumption, MapNamesHeldLock, Begin, disk, locks, call, counts
<1>3. Homes'
  BY DEF IInv, TypeOK, OwnerAssumption, Homes, Begun, Begin, disk, locks, call, counts
<1>4. Handles'
  BY DEF IInv, TypeOK, Handles, Begin, disk, locks, call, counts
<1>5. OnDisk'
  BY DEF IInv, TypeOK, OwnerAssumption, OnDisk, Homes, Begun, Claims, Claim, Begin, disk, locks, call, counts
<1>6. Claims'
  BY DEF IInv, TypeOK, OwnerAssumption, OnDisk, Homes, Handles, Begun, Claims, Claim, Begin, disk, locks, call, counts
<1> QED BY <1>1, <1>2, <1>3, <1>4, <1>5, <1>6 DEF IInv

\* The creator claims an absent file; nobody else claims one.
LEMMA OpenKeeps ==
    ASSUME OwnerAssumption, IInv, NEW c \in Caller, Open(c)
    PROVE  IInv'
<1>1. TypeOK' /\ Attempts'
  <2>1. pc' = [pc EXCEPT ![c] = "write"] \/ pc' = [pc EXCEPT ![c] = "read"]
    BY DEF Open
  <2>2. file' \in Caller \cup {None} /\ full' \in BOOLEAN /\ old' \in BOOLEAN
    BY DEF IInv, TypeOK, Open, disk
  <2>3. pc' \in [Caller -> {"idle", "open", "write", "enter", "read", "unlink", "last",
                            "held", "check", "remove", "done", "refused", "failed", "dead"}]
    BY <2>1 DEF IInv, TypeOK
  <2>4. Attempts'
    BY <2>1 DEF IInv, TypeOK, Attempts, Open
  <2> QED BY <2>2, <2>3, <2>4 DEF IInv, TypeOK, Open, locks, counts
<1>2. MapNamesHeldLock'
  <2>1. Holder' = Holder /\ handle' = handle
    BY DEF IInv, TypeOK, Holder, Open, disk, locks, call, counts
  <2>2. \A s \in Caller : Sharers(s)' = Sharers(s)
    BY <2>1, SharersKept
  <2> QED BY <2>2 DEF IInv, TypeOK, OwnerAssumption, MapNamesHeldLock, Open, disk, locks, call, counts
<1>3. Homes'
  BY DEF IInv, TypeOK, OwnerAssumption, Homes, Begun, Open, disk, locks, call, counts
<1>4. Handles'
  BY DEF IInv, TypeOK, Handles, Open, disk, locks, call, counts
<1>5. OnDisk'
  BY DEF IInv, TypeOK, OwnerAssumption, OnDisk, Homes, Begun, Claims, Claim, Open, disk, locks, call, counts
<1>6. Claims'
  <2>1. CASE file = None
    <3>1. ~raced => \A d \in Caller : pc[d] \notin {"write", "enter", "held", "remove"}
      BY <2>1 DEF IInv, TypeOK, OwnerAssumption, Claims, Claim, Handles
    <3> QED
      BY <2>1, <3>1 DEF IInv, TypeOK, Claims, Claim, Open
  <2>2. CASE file # None
    BY <2>2 DEF IInv, TypeOK, Claims, Claim, Open, disk
  <2> QED BY <2>1, <2>2
<1> QED BY <1>1, <1>2, <1>3, <1>4, <1>5, <1>6 DEF IInv

\* Only the creator claims an unwritten file, and it writes it or gives up.
LEMMA WriteOwnerKeeps ==
    ASSUME OwnerAssumption, IInv, NEW c \in Caller, WriteOwner(c)
    PROVE  IInv'
<1>1. TypeOK' /\ Attempts'
  <2>1. pc' = [pc EXCEPT ![c] = "enter"] \/ pc' = [pc EXCEPT ![c] = "failed"]
    BY DEF WriteOwner
  <2>2. full' \in BOOLEAN
    BY DEF IInv, TypeOK, WriteOwner
  <2>3. pc' \in [Caller -> {"idle", "open", "write", "enter", "read", "unlink", "last",
                            "held", "check", "remove", "done", "refused", "failed", "dead"}]
    BY <2>1 DEF IInv, TypeOK
  <2>4. Attempts'
    BY <2>1 DEF IInv, TypeOK, Attempts, WriteOwner
  <2> QED BY <2>2, <2>3, <2>4 DEF IInv, TypeOK, WriteOwner, locks, counts
<1>2. MapNamesHeldLock'
  <2>1. Holder' = Holder /\ handle' = handle
    BY DEF IInv, TypeOK, Holder, WriteOwner, disk, locks, call, counts
  <2>2. \A s \in Caller : Sharers(s)' = Sharers(s)
    BY <2>1, SharersKept
  <2> QED BY <2>2 DEF IInv, TypeOK, OwnerAssumption, MapNamesHeldLock, WriteOwner, disk, locks, call, counts
<1>3. Homes'
  BY DEF IInv, TypeOK, OwnerAssumption, Homes, Begun, WriteOwner, disk, locks, call, counts
<1>4. Handles'
  BY DEF IInv, TypeOK, Handles, WriteOwner, disk, locks, call, counts
<1>5. OnDisk'
  BY DEF IInv, TypeOK, OwnerAssumption, OnDisk, Homes, Begun, Claims, Claim, WriteOwner, disk, locks, call, counts
<1>6. Claims'
  BY DEF IInv, TypeOK, OwnerAssumption, OnDisk, Homes, Handles, Begun, Claims, Claim, WriteOwner, disk, locks, call, counts
<1> QED BY <1>1, <1>2, <1>3, <1>4, <1>5, <1>6 DEF IInv

\* A file that is doubted without a race has no creator left to claim it.
LEMMA ReadHolderKeeps ==
    ASSUME OwnerAssumption, IInv, NEW c \in Caller, ReadHolder(c)
    PROVE  IInv'
<1>1. TypeOK' /\ Attempts'
  <2>1. raced' \in BOOLEAN
    BY DEF IInv, TypeOK, ReadHolder, Refused, Doubted
  <2> QED BY <2>1 DEF IInv, TypeOK, Attempts, ReadHolder, disk, locks, counts, Refused, Doubted
<1>2. MapNamesHeldLock'
  <2>1. Holder' = Holder /\ handle' = handle
    BY DEF IInv, TypeOK, Holder, ReadHolder, disk, locks, call, counts, Refused, Doubted, Fresh
  <2>2. \A s \in Caller : Sharers(s)' = Sharers(s)
    BY <2>1, SharersKept
  <2> QED BY <2>2 DEF IInv, TypeOK, OwnerAssumption, MapNamesHeldLock, ReadHolder, disk, locks, call, counts, Refused, Doubted, Fresh
<1>3. Homes'
  BY DEF IInv, TypeOK, OwnerAssumption, Homes, Begun, ReadHolder, disk, locks, call, counts, Refused, Doubted, Fresh
<1>4. Handles'
  BY DEF IInv, TypeOK, Handles, ReadHolder, disk, locks, call, counts, Refused, Doubted, Fresh
<1>5. OnDisk'
  BY DEF IInv, TypeOK, OwnerAssumption, OnDisk, Homes, Begun, Claims, Claim, ReadHolder, disk, locks, call, counts, Refused, Doubted, Fresh
<1>6. Claims'
  BY DEF IInv, TypeOK, OwnerAssumption, OnDisk, Homes, Handles, Begun, Claims, Claim, ReadHolder, disk, locks, call, counts, Refused, Doubted, Fresh
<1> QED BY <1>1, <1>2, <1>3, <1>4, <1>5, <1>6 DEF IInv

\* The file that was read had no claim, so nobody loses one.
LEMMA UnlinkKeeps ==
    ASSUME OwnerAssumption, IInv, NEW c \in Caller, Unlink(c)
    PROVE  IInv'
<1>1. TypeOK' /\ Attempts'
  <2>1. raced' \in BOOLEAN
    BY DEF IInv, TypeOK, Unlink
  <2>2. tries' \in [Caller -> 0..2] /\ Attempts'
    BY DEF IInv, TypeOK, Attempts, Unlink
  <2>3. pc' \in [Caller -> {"idle", "open", "write", "enter", "read", "unlink", "last",
                            "held", "check", "remove", "done", "refused", "failed", "dead"}]
    BY DEF IInv, TypeOK, Unlink
  <2> QED BY <2>1, <2>2, <2>3 DEF IInv, TypeOK, Unlink, locks, counts
<1>2. MapNamesHeldLock'
  <2>1. Holder' = Holder /\ handle' = handle
    BY DEF IInv, TypeOK, Holder, Unlink, disk, locks, call, counts
  <2>2. \A s \in Caller : Sharers(s)' = Sharers(s)
    BY <2>1, SharersKept
  <2> QED BY <2>2 DEF IInv, TypeOK, OwnerAssumption, MapNamesHeldLock, Unlink, disk, locks, call, counts
<1>3. Homes'
  BY DEF IInv, TypeOK, OwnerAssumption, Homes, Begun, Unlink, disk, locks, call, counts
<1>4. Handles'
  BY DEF IInv, TypeOK, Handles, Unlink, disk, locks, call, counts
<1>5. OnDisk'
  BY DEF IInv, TypeOK, OwnerAssumption, OnDisk, Homes, Begun, Claims, Claim, Unlink, disk, locks, call, counts
<1>6. Claims'
  BY DEF IInv, TypeOK, OwnerAssumption, OnDisk, Homes, Handles, Begun, Claims, Claim, Unlink, disk, locks, call, counts
<1> QED BY <1>1, <1>2, <1>3, <1>4, <1>5, <1>6 DEF IInv

\* Nothing changes but the call's own end.
LEMMA LastReadKeeps ==
    ASSUME OwnerAssumption, IInv, NEW c \in Caller, LastRead(c)
    PROVE  IInv'
<1>1. TypeOK' /\ Attempts'
  BY DEF IInv, TypeOK, OwnerAssumption, Attempts, LastRead, disk, locks, call, counts
<1>2. MapNamesHeldLock'
  <2>1. Holder' = Holder /\ handle' = handle
    BY DEF IInv, TypeOK, Holder, LastRead, disk, locks, call, counts
  <2>2. \A s \in Caller : Sharers(s)' = Sharers(s)
    BY <2>1, SharersKept
  <2> QED BY <2>2 DEF IInv, TypeOK, OwnerAssumption, MapNamesHeldLock, LastRead, disk, locks, call, counts
<1>3. Homes'
  BY DEF IInv, TypeOK, OwnerAssumption, Homes, Begun, LastRead, disk, locks, call, counts
<1>4. Handles'
  BY DEF IInv, TypeOK, Handles, LastRead, disk, locks, call, counts
<1>5. OnDisk'
  BY DEF IInv, TypeOK, OwnerAssumption, OnDisk, Homes, Begun, Claims, Claim, LastRead, disk, locks, call, counts
<1>6. Claims'
  BY DEF IInv, TypeOK, OwnerAssumption, OnDisk, Homes, Handles, Begun, Claims, Claim, LastRead, disk, locks, call, counts
<1> QED BY <1>1, <1>2, <1>3, <1>4, <1>5, <1>6 DEF IInv

\* A call that found its own token is alone to remove the file.
LEMMA ReleaseReadKeeps ==
    ASSUME OwnerAssumption, IInv, NEW c \in Caller, ReleaseRead(c)
    PROVE  IInv'
<1>1. TypeOK' /\ Attempts'
  BY DEF IInv, TypeOK, OwnerAssumption, Attempts, ReleaseRead, disk, locks, call, counts
<1>2. MapNamesHeldLock'
  <2>1. Holder' = Holder /\ handle' = handle
    BY DEF IInv, TypeOK, Holder, ReleaseRead, disk, locks, call, counts
  <2>2. \A s \in Caller : Sharers(s)' = Sharers(s)
    BY <2>1, SharersKept
  <2> QED BY <2>2 DEF IInv, TypeOK, OwnerAssumption, MapNamesHeldLock, ReleaseRead, disk, locks, call, counts
<1>3. Homes'
  BY DEF IInv, TypeOK, OwnerAssumption, Homes, Begun, ReleaseRead, disk, locks, call, counts
<1>4. Handles'
  BY DEF IInv, TypeOK, Handles, ReleaseRead, disk, locks, call, counts
<1>5. OnDisk'
  BY DEF IInv, TypeOK, OwnerAssumption, OnDisk, Homes, Begun, Claims, Claim, ReleaseRead, disk, locks, call, counts
<1>6. Claims'
  BY DEF IInv, TypeOK, OwnerAssumption, OnDisk, Homes, Handles, Begun, Claims, Claim, ReleaseRead, disk, locks, call, counts
<1> QED BY <1>1, <1>2, <1>3, <1>4, <1>5, <1>6 DEF IInv

\* The lock has no other handle, and no other call is removing it.
LEMMA ReleaseUnlinkKeeps ==
    ASSUME OwnerAssumption, IInv, NEW c \in Caller, ReleaseUnlink(c)
    PROVE  IInv'
<1>1. TypeOK' /\ Attempts'
  BY DEF IInv, TypeOK, OwnerAssumption, Attempts, ReleaseUnlink, disk, locks, call, counts
<1>2. MapNamesHeldLock'
  <2>1. Holder' = Holder /\ handle' = handle
    BY DEF IInv, TypeOK, Holder, ReleaseUnlink, disk, locks, call, counts
  <2>2. \A s \in Caller : Sharers(s)' = Sharers(s)
    BY <2>1, SharersKept
  <2> QED BY <2>2 DEF IInv, TypeOK, OwnerAssumption, MapNamesHeldLock, ReleaseUnlink, disk, locks, call, counts
<1>3. Homes'
  BY DEF IInv, TypeOK, OwnerAssumption, Homes, Begun, ReleaseUnlink, disk, locks, call, counts
<1>4. Handles'
  BY DEF IInv, TypeOK, Handles, ReleaseUnlink, disk, locks, call, counts
<1>5. OnDisk'
  BY DEF IInv, TypeOK, OwnerAssumption, OnDisk, Homes, Begun, Claims, Claim, ReleaseUnlink, disk, locks, call, counts
<1>6. Claims'
  <2> SUFFICES ASSUME ~raced, NEW d \in Caller
               PROVE  Claim(d)'
    BY DEF Claims, ReleaseUnlink
  <2>1. /\ \A e \in Caller : Claim(e)
        /\ handle[c] \in Caller /\ file = handle[c]
        /\ pc[handle[c]] \in {"held", "check", "remove", "done", "dead"}
        /\ refs[handle[c]] = 0
    BY DEF IInv, TypeOK, Claims, Claim, Handles, Homes, Begun, ReleaseUnlink
  <2>2. ~(pc[d] = "held" /\ handle[d] = handle[c])
    BY <2>1, CountsSharers DEF IInv, Sharers, Holder
  <2>3. pc[d] = "remove" /\ handle[d] = handle[c] => d = c
    BY DEF IInv, Handles, ReleaseUnlink
  <2>4. pc[d] \notin {"write", "enter"}
    BY <2>1 DEF Claim
  <2> QED
    BY <2>1, <2>2, <2>3, <2>4 DEF Claim, ReleaseUnlink, IInv, TypeOK, call
<1> QED BY <1>1, <1>2, <1>3, <1>4, <1>5, <1>6 DEF IInv

\* A heartbeat starts for a lock that was entered.
LEMMA BeatFireKeeps ==
    ASSUME OwnerAssumption, IInv, NEW t \in Caller, BeatFire(t)
    PROVE  IInv'
<1>1. TypeOK' /\ Attempts'
  BY DEF IInv, TypeOK, OwnerAssumption, Attempts, BeatFire, disk, locks, call, counts
<1>2. MapNamesHeldLock'
  <2>1. Holder' = Holder /\ handle' = handle
    BY DEF IInv, TypeOK, Holder, BeatFire, disk, locks, call, counts
  <2>2. \A s \in Caller : Sharers(s)' = Sharers(s)
    BY <2>1, SharersKept
  <2> QED BY <2>2 DEF IInv, TypeOK, OwnerAssumption, MapNamesHeldLock, BeatFire, disk, locks, call, counts
<1>3. Homes'
  BY DEF IInv, TypeOK, OwnerAssumption, Homes, Begun, BeatFire, disk, locks, call, counts
<1>4. Handles'
  BY DEF IInv, TypeOK, Handles, BeatFire, disk, locks, call, counts
<1>5. OnDisk'
  BY DEF IInv, TypeOK, OwnerAssumption, OnDisk, Homes, Begun, Claims, Claim, BeatFire, disk, locks, call, counts
<1>6. Claims'
  BY DEF IInv, TypeOK, OwnerAssumption, OnDisk, Homes, Handles, Begun, Claims, Claim, BeatFire, disk, locks, call, counts
<1> QED BY <1>1, <1>2, <1>3, <1>4, <1>5, <1>6 DEF IInv

\* A lock that gives up leaves the file alone.
LEMMA BeatReadKeeps ==
    ASSUME OwnerAssumption, IInv, NEW t \in Caller, BeatRead(t)
    PROVE  IInv'
<1>1. TypeOK' /\ Attempts'
  <2>1. held' \in [Proc -> Caller \cup {None}]
    BY DEF IInv, TypeOK, BeatRead
  <2>2. timer' \in [Caller -> BOOLEAN] /\ beat' \in [Caller -> {"idle", "read", "write"}]
    BY DEF IInv, TypeOK, BeatRead
  <2> QED BY <2>1, <2>2 DEF IInv, TypeOK, Attempts, BeatRead, disk, call, counts
<1>2. MapNamesHeldLock'
  <2>1. Holder' = Holder /\ handle' = handle
    BY DEF IInv, TypeOK, Holder, BeatRead, disk, locks, call, counts
  <2>2. \A s \in Caller : Sharers(s)' = Sharers(s)
    BY <2>1, SharersKept
  <2> QED BY <2>2 DEF IInv, TypeOK, OwnerAssumption, MapNamesHeldLock, BeatRead, disk, locks, call, counts
<1>3. Homes'
  BY DEF IInv, TypeOK, OwnerAssumption, Homes, Begun, BeatRead, disk, locks, call, counts
<1>4. Handles'
  BY DEF IInv, TypeOK, Handles, BeatRead, disk, locks, call, counts
<1>5. OnDisk'
  BY DEF IInv, TypeOK, OwnerAssumption, OnDisk, Homes, Begun, Claims, Claim, BeatRead, disk, locks, call, counts
<1>6. Claims'
  BY DEF IInv, TypeOK, OwnerAssumption, OnDisk, Homes, Handles, Begun, Claims, Claim, BeatRead, disk, locks, call, counts
<1> QED BY <1>1, <1>2, <1>3, <1>4, <1>5, <1>6 DEF IInv

\* Without a race the heartbeat restores its own file or an absent one.
LEMMA BeatWriteKeeps ==
    ASSUME OwnerAssumption, IInv, NEW t \in Caller, BeatWrite(t)
    PROVE  IInv'
<1>1. TypeOK' /\ Attempts'
  BY DEF IInv, TypeOK, OwnerAssumption, Attempts, BeatWrite, disk, locks, call, counts
<1>2. MapNamesHeldLock'
  <2>1. Holder' = Holder /\ handle' = handle
    BY DEF IInv, TypeOK, Holder, BeatWrite, disk, locks, call, counts
  <2>2. \A s \in Caller : Sharers(s)' = Sharers(s)
    BY <2>1, SharersKept
  <2> QED BY <2>2 DEF IInv, TypeOK, OwnerAssumption, MapNamesHeldLock, BeatWrite, disk, locks, call, counts
<1>3. Homes'
  BY DEF IInv, TypeOK, OwnerAssumption, Homes, Begun, BeatWrite, disk, locks, call, counts
<1>4. Handles'
  BY DEF IInv, TypeOK, Handles, BeatWrite, disk, locks, call, counts
<1>5. OnDisk'
  BY DEF IInv, TypeOK, OwnerAssumption, OnDisk, Homes, Begun, Claims, Claim, BeatWrite, disk, locks, call, counts
<1>6. Claims'
  BY DEF IInv, TypeOK, OwnerAssumption, OnDisk, Homes, Handles, Begun, Claims, Claim, BeatWrite, disk, locks, call, counts
<1> QED BY <1>1, <1>2, <1>3, <1>4, <1>5, <1>6 DEF IInv

\* A session that shares the lock finds it on disk: somebody else has it.
LEMMA ShareKeeps ==
    ASSUME OwnerAssumption, IInv, NEW c \in Caller, Share(c)
    PROVE  IInv'
<1>1. PICK t \in Caller : /\ t = held[Home[c]] /\ Home[c] \in Proc /\ pc[c] = "idle"
                         /\ refs[t] > 0 /\ Home[t] = Home[c] /\ Begun(t)
  BY DEF IInv, TypeOK, OwnerAssumption, MapNamesHeldLock, Homes, Share
<1>2. TypeOK' /\ Attempts'
  BY <1>1 DEF IInv, TypeOK, Attempts, Share, disk, counts
<1>3. MapNamesHeldLock'
  <2>1. /\ c \notin Holder /\ Holder' = Holder \cup {c}
        /\ handle'[c] = t /\ \A d \in Holder : handle'[d] = handle[d]
    BY <1>1 DEF IInv, TypeOK, Holder, Share
  <2>2. /\ Cardinality(Sharers(t)') = Cardinality(Sharers(t)) + 1
        /\ \A s \in Caller \ {t} : Sharers(s)' = Sharers(s)
    BY <1>1, <2>1, SharersGrow
  <2>3. refs' = [refs EXCEPT ![t] = @ + 1] /\ held' = held
    BY <1>1 DEF Share
  <2>4. \A s \in Caller : refs'[s] = Cardinality(Sharers(s)')
    BY <1>1, <2>2, <2>3 DEF IInv, TypeOK, MapNamesHeldLock
  <2>5. \A p \in Proc : held'[p] # None => refs'[held'[p]] > 0
    BY <1>1, <2>3 DEF IInv, TypeOK, MapNamesHeldLock
  <2> QED BY <2>4, <2>5 DEF MapNamesHeldLock
<1>4. Homes'
  BY <1>1 DEF IInv, TypeOK, OwnerAssumption, Homes, Begun, Share
<1>5. Handles'
  BY <1>1 DEF IInv, TypeOK, OwnerAssumption, Handles, Share
<1>6. OnDisk'
  BY DEF IInv, TypeOK, OnDisk, Share, disk
<1>7. Claims'
  <2>1. PICK d \in Caller : pc[d] = "held" /\ handle[d] = t
    BY <1>1, CountsSharers DEF IInv, Sharers, Holder
  <2> QED
    BY <1>1, <2>1 DEF IInv, TypeOK, Claims, Claim, Share, disk
<1> QED BY <1>2, <1>3, <1>4, <1>5, <1>6, <1>7 DEF IInv

\* A call that enters has the file, and nobody had a handle of its lock.
LEMMA EnterKeeps ==
    ASSUME OwnerAssumption, IInv, NEW c \in Caller, Enter(c)
    PROVE  IInv'
<1>1. Home[c] \in Proc /\ c # None /\ pc[c] = "enter" /\ \A d \in Caller : handle[d] # c
  BY DEF IInv, Homes, Begun, OwnerAssumption, Enter
<1>2. TypeOK' /\ Attempts'
  BY <1>1 DEF IInv, TypeOK, Attempts, Enter, disk, counts
<1>3. MapNamesHeldLock'
  <2>1. /\ c \notin Holder /\ Holder' = Holder \cup {c}
        /\ handle'[c] = c /\ \A d \in Holder : handle'[d] = handle[d]
    BY <1>1 DEF IInv, TypeOK, Holder, Enter
  <2>2. /\ Cardinality(Sharers(c)') = Cardinality(Sharers(c)) + 1
        /\ \A s \in Caller \ {c} : Sharers(s)' = Sharers(s)
    BY <2>1, SharersGrow
  <2>3. refs' = [refs EXCEPT ![c] = 1] /\ held' = [held EXCEPT ![Home[c]] = c]
    BY DEF Enter
  <2>4. refs[c] = 0
    BY <1>1, CountsSharers DEF IInv, Sharers, Holder
  <2>5. \A s \in Caller : refs'[s] = Cardinality(Sharers(s)')
    BY <2>2, <2>3, <2>4 DEF IInv, TypeOK, MapNamesHeldLock
  <2>6. \A p \in Proc : held'[p] # None => refs'[held'[p]] > 0
    BY <1>1, <2>3 DEF IInv, TypeOK, MapNamesHeldLock
  <2> QED BY <2>5, <2>6 DEF MapNamesHeldLock
<1>4. Homes'
  BY <1>1 DEF IInv, TypeOK, OwnerAssumption, Homes, Begun, Enter
<1>5. Handles'
  BY <1>1 DEF IInv, TypeOK, OwnerAssumption, Handles, Enter
<1>6. OnDisk'
  BY DEF IInv, TypeOK, OnDisk, Claims, Claim, Enter, disk
<1>7. Claims'
  BY <1>1 DEF IInv, TypeOK, Claims, Claim, Enter, disk
<1> QED BY <1>2, <1>3, <1>4, <1>5, <1>6, <1>7 DEF IInv

\* The release that leaves no handle is the only one to look at the file.
LEMMA ReleaseKeeps ==
    ASSUME OwnerAssumption, IInv, NEW c \in Caller, Release(c)
    PROVE  IInv'
<1> DEFINE t == handle[c]
<1>1. /\ Home[c] \in Proc /\ t \in Caller /\ Home[t] = Home[c] /\ Begun(t)
      /\ c \in Holder /\ pc[c] = "held"
  BY DEF IInv, TypeOK, OwnerAssumption, Handles, Homes, Release, Holder
<1>2. refs[t] \in Nat \ {0}
  BY <1>1, CountsSharers DEF IInv, TypeOK, Sharers
<1>3. refs' = [refs EXCEPT ![t] = @ - 1] /\ handle' = handle
  BY DEF Release
<1>4. TypeOK' /\ Attempts'
  <2>1. refs' \in [Caller -> Nat]
    BY <1>1, <1>2, <1>3 DEF IInv, TypeOK
  <2>2. held' \in [Proc -> Caller \cup {None}] /\ timer' \in [Caller -> BOOLEAN]
    BY <1>1 DEF IInv, TypeOK, Release
  <2>3. pc' = [pc EXCEPT ![c] = "done"] \/ pc' = [pc EXCEPT ![c] = "check"]
    BY DEF Release
  <2>4. Attempts'
    BY <2>3 DEF IInv, TypeOK, Attempts, Release
  <2>5. pc' \in [Caller -> {"idle", "open", "write", "enter", "read", "unlink", "last",
                            "held", "check", "remove", "done", "refused", "failed", "dead"}]
    BY <2>3 DEF IInv, TypeOK
  <2> QED BY <2>1, <2>2, <2>4, <2>5 DEF IInv, TypeOK, Release, disk, counts
<1>5. MapNamesHeldLock'
  <2>1. Holder' = Holder \ {c}
    BY <1>1 DEF IInv, TypeOK, Holder, Release
  <2>2. /\ Cardinality(Sharers(t)') = Cardinality(Sharers(t)) - 1
        /\ \A s \in Caller \ {t} : Sharers(s)' = Sharers(s)
    BY <1>1, <1>3, <2>1, SharersShrink
  <2>3. \A s \in Caller : refs'[s] = Cardinality(Sharers(s)')
    BY <1>1, <1>3, <2>2 DEF IInv, TypeOK, MapNamesHeldLock
  <2>4. ASSUME NEW p \in Proc, held'[p] # None
        PROVE  refs'[held'[p]] > 0
    <3>1. held[p] # None /\ held'[p] = held[p] /\ refs[held[p]] > 0 /\ Home[held[p]] = p
      BY <1>1, <2>4 DEF IInv, TypeOK, MapNamesHeldLock, Homes, Release
    <3>2. CASE refs[t] > 1
      BY <1>1, <1>3, <3>1, <3>2 DEF IInv, TypeOK
    <3>3. CASE refs[t] <= 1
      <4>1. held' = [held EXCEPT ![Home[c]] = None]
        BY <1>1, <1>2, <3>3 DEF Release, IInv, TypeOK
      <4>2. held[p] # t
        BY <1>1, <2>4, <3>1, <4>1 DEF IInv, TypeOK
      <4> QED BY <1>1, <1>3, <3>1, <4>2 DEF IInv, TypeOK
    <3> QED BY <1>2, <3>2, <3>3
  <2> QED BY <2>3, <2>4 DEF MapNamesHeldLock
<1>6. Homes'
  BY <1>1 DEF IInv, TypeOK, OwnerAssumption, Homes, Begun, Release
<1>7. Handles'
  <2>1. \A d \in Caller : pc[d] \in {"check", "remove"} => handle[d] # t
    BY <1>2 DEF IInv, Handles
  <2>2. pc'[c] = "check" => refs'[t] = 0
    <3>1. CASE refs[t] > 1
      <4>1. pc' = [pc EXCEPT ![c] = "done"]
        BY <1>2, <3>1 DEF Release
      <4> QED BY <1>1, <4>1 DEF IInv, TypeOK
    <3>2. CASE refs[t] <= 1
      BY <1>1, <1>2, <1>3, <3>2 DEF IInv, TypeOK
    <3> QED BY <1>2, <3>1, <3>2
  <2> QED
    BY <1>1, <1>3, <2>1, <2>2 DEF IInv, TypeOK, Handles, Release
<1>8. OnDisk'
  BY DEF IInv, TypeOK, OnDisk, Release, disk
<1>9. Claims'
  BY DEF IInv, TypeOK, Claims, Claim, Release, disk, call
<1> QED BY <1>4, <1>5, <1>6, <1>7, <1>8, <1>9 DEF IInv

\* Time changes what the file is worth, not whose it is.
LEMMA StallKeeps ==
    ASSUME OwnerAssumption, IInv, Stall
    PROVE  IInv'
<1>1. UNCHANGED <<alive, file, full, held, refs, timer, beat, pc, tries, seen, handle, deaths, raced>>
  BY DEF Stall, locks, call
<1>2. TypeOK'
  <2>1. old' \in BOOLEAN /\ stalls' \in 0..MaxStalls
    BY DEF IInv, TypeOK, OwnerAssumption, Stall
  <2> QED BY <1>1, <2>1 DEF IInv, TypeOK
<1> QED
  BY <1>1, <1>2 DEF IInv, Attempts, MapNamesHeldLock, Sharers, Holder, Homes, Begun, Handles, OnDisk,
                    Claims, Claim

\* A death takes the handles, the locks and the calls of its process at once.
LEMMA DieKeeps ==
    ASSUME OwnerAssumption, IInv, NEW p \in Proc, Die(p)
    PROVE  IInv'
<1>1. TypeOK' /\ Attempts'
  BY DEF IInv, TypeOK, OwnerAssumption, Attempts, Die, disk
<1>2. MapNamesHeldLock'
  <2>1. ASSUME NEW s \in Caller, Home[s] = p
        PROVE  refs'[s] = Cardinality(Sharers(s)')
    <3>1. Sharers(s)' = {}
      BY <2>1 DEF IInv, TypeOK, OwnerAssumption, Sharers, Holder, Homes, Die
    <3> QED BY <2>1, <3>1, FS_EmptySet DEF Die
  <2>2. ASSUME NEW s \in Caller, Home[s] # p
        PROVE  refs'[s] = Cardinality(Sharers(s)')
    <3>1. Sharers(s)' = Sharers(s)
      BY <2>2 DEF IInv, TypeOK, OwnerAssumption, Sharers, Holder, Homes, Die
    <3> QED BY <2>2, <3>1 DEF IInv, MapNamesHeldLock, Die
  <2>3. \A r \in Proc : held'[r] # None => refs'[held'[r]] > 0
    BY DEF IInv, TypeOK, OwnerAssumption, MapNamesHeldLock, Homes, Die
  <2> QED BY <2>1, <2>2, <2>3 DEF MapNamesHeldLock
<1>3. Homes'
  BY DEF IInv, TypeOK, OwnerAssumption, Homes, Begun, Die
<1>4. Handles'
  BY DEF IInv, TypeOK, OwnerAssumption, Handles, Homes, Die
<1>5. OnDisk'
  BY DEF IInv, TypeOK, OnDisk, Die, disk
<1>6. Claims'
  BY DEF IInv, TypeOK, Claims, Claim, Die, disk
<1> QED BY <1>1, <1>2, <1>3, <1>4, <1>5, <1>6 DEF IInv

-----------------------------------------------------------------------------
(* The theorems.                                                           *)

LEMMA InitHolds ==
    ASSUME OwnerAssumption, Init
    PROVE  IInv
<1>1. TypeOK /\ Attempts
  <2>1. stalls \in 0..MaxStalls /\ deaths \in 0..MaxDeaths
    BY DEF Init, OwnerAssumption
  <2>2. tries \in [Caller -> 0..2] /\ Attempts
    BY DEF Init, Attempts
  <2> QED BY <2>1, <2>2 DEF Init, TypeOK
<1>2. MapNamesHeldLock
  <2>1. \A t \in Caller : Sharers(t) = {}
    BY DEF Init, Sharers, Holder
  <2> QED BY <2>1, FS_EmptySet DEF Init, MapNamesHeldLock
<1>3. Homes /\ Handles /\ OnDisk /\ Claims
  BY DEF Init, OwnerAssumption, Homes, Handles, OnDisk, Claims, Claim
<1> QED BY <1>1, <1>2, <1>3 DEF IInv

LEMMA StepKeeps ==
    ASSUME OwnerAssumption, IInv, [Next]_vars
    PROVE  IInv'
<1>1. CASE \E c \in Caller : \/ Share(c) \/ Begin(c) \/ Attempt(c)
                             \/ Release(c) \/ ReleaseRead(c) \/ ReleaseUnlink(c) \/ Heartbeat(c)
  BY <1>1, ShareKeeps, BeginKeeps, OpenKeeps, WriteOwnerKeeps, EnterKeeps, ReadHolderKeeps,
     UnlinkKeeps, LastReadKeeps, ReleaseKeeps, ReleaseReadKeeps, ReleaseUnlinkKeeps,
     BeatFireKeeps, BeatReadKeeps, BeatWriteKeeps
     DEF Attempt, Heartbeat
<1>2. CASE Stall
  BY <1>2, StallKeeps
<1>3. CASE \E p \in Proc : Die(p)
  BY <1>3, DieKeeps
<1>4. CASE UNCHANGED vars
  BY <1>4 DEF IInv, TypeOK, Attempts, MapNamesHeldLock, Sharers, Holder, Homes, Begun, Handles,
              OnDisk, Claims, Claim, vars, disk, locks, call, counts
<1> QED BY <1>1, <1>2, <1>3, <1>4 DEF Next

LEMMA Inductive == OwnerAssumption /\ Spec => []IInv
<1>1. OwnerAssumption /\ Init => IInv
  BY InitHolds
<1>2. OwnerAssumption /\ IInv /\ [Next]_vars => IInv'
  BY StepKeeps
<1> QED BY <1>1, <1>2, OwnerAssumption, PTL DEF Spec

\* Every reachable state of the owner file and its calls is well typed, and a
\* call unlinks at most two files.
THEOREM LockTyped == Spec => []TypeOK
<1>1. IInv => TypeOK
  BY DEF IInv
<1> QED BY <1>1, Inductive, OwnerAssumption, PTL

\* The reference counts of a process count its handles, and its map names only
\* locks somebody has (handleFor, the map held).
THEOREM MapNamesHeldLockHolds == Spec => []MapNamesHeldLock
<1>1. IInv => MapNamesHeldLock
  BY DEF IInv
<1> QED BY <1>1, Inductive, OwnerAssumption, PTL

\* Until one of the three races, the owner file names the lock of every handle,
\* for any number of processes, calls, stalls and deaths.
THEOREM OwnerOnDiskHolds == Spec => []OwnerOnDisk
<1>1. IInv => OwnerOnDisk
  BY DEF IInv, Claims, Claim, OwnerOnDisk, Holder
<1> QED BY <1>1, Inductive, OwnerAssumption, PTL

\* Until then no two processes have the session (a handle belongs to the process
\* whose lock the file names).
THEOREM SingleWriterUnlessRaced == Spec => [](~raced => SingleWriter)
<1>1. IInv => (~raced => SingleWriter)
  BY DEF IInv, Claims, Claim, Handles, Homes, SingleWriter, Holder
<1> QED BY <1>1, Inductive, OwnerAssumption, PTL
=============================================================================
