------------------------------ MODULE OwnerLock ------------------------------
(***************************************************************************)
(* The owner file of one session                                           *)
(* (coding-agent/src/daemon/session-owner-lock.ts): processes that want to *)
(* write the session create <session>.owner exclusively, refresh it with a *)
(* heartbeat, share it inside a process by a reference count, take it over *)
(* when it looks stale, and remove it when the last handle is released.    *)
(* Every file operation is an await of its own.                            *)
(*                                                                         *)
(* A caller is one call of acquireSessionOwnerLock; its token is the       *)
(* random token of that call, and names the lock it may create.  The file  *)
(* is known by the call that created it, whatever has been written in it.  *)
(***************************************************************************)
EXTENDS Naturals, FiniteSets

CONSTANTS
    Proc,       \* the processes
    Caller,     \* the acquire calls, and their tokens
    Home,       \* the process of a call
    Takeover,   \* the calls that ask to take a live holder over
    None,       \* no file, no lock
    MaxStalls,  \* times the heartbeat in the file grows older than staleMs
    MaxDeaths   \* deaths of a process

ASSUME OwnerAssumption ==
    /\ IsFiniteSet(Caller)
    /\ Home \in [Caller -> Proc]
    /\ Takeover \subseteq Caller
    /\ None \notin Caller
    /\ MaxStalls \in Nat /\ MaxDeaths \in Nat

VARIABLES
    alive,  \* the process runs
    file,   \* the call that created the owner file
    full,   \* its holder has been written
    old,    \* the heartbeat in it is older than staleMs
    held,   \* the map of a process
    refs,   \* refs of the lock
    timer,  \* its interval is set
    beat,   \* how far a run of the heartbeat is
    pc,     \* how far the call is, then its handle
    tries,  \* attempts that unlinked a holder
    seen,   \* the file readOwner read, until the unlink
    handle, \* the lock the handle belongs to
    stalls, deaths,  \* counters for the bounds
    raced   \* history: the code acted on a file it does not know

disk   == <<file, full, old>>
locks  == <<held, refs, timer>>
call   == <<pc, tries, seen, handle>>
counts == <<stalls, deaths>>
vars   == <<alive, disk, locks, beat, call, counts, raced>>

-----------------------------------------------------------------------------
\* readOwner finds a holder, and isStale says no.
Fresh == file # None /\ full /\ ~old /\ alive[Home[file]]

Init ==
    /\ alive = [p \in Proc |-> TRUE]
    /\ file = None /\ full = FALSE /\ old = FALSE
    /\ held = [p \in Proc |-> None]
    /\ refs = [c \in Caller |-> 0]
    /\ timer = [c \in Caller |-> FALSE] /\ beat = [c \in Caller |-> "idle"]
    /\ pc = [c \in Caller |-> "idle"] /\ tries = [c \in Caller |-> 0]
    /\ seen = [c \in Caller |-> None] /\ handle = [c \in Caller |-> None]
    /\ stalls = 0 /\ deaths = 0 /\ raced = FALSE

-----------------------------------------------------------------------------
(* acquireSessionOwnerLock.                                                *)

\* Another session of the process has the lock: share it.
Share(c) ==
    /\ pc[c] = "idle" /\ held[Home[c]] # None
    /\ refs' = [refs EXCEPT ![held[Home[c]]] = @ + 1]
    /\ handle' = [handle EXCEPT ![c] = held[Home[c]]]
    /\ pc' = [pc EXCEPT ![c] = "held"]
    /\ UNCHANGED <<alive, disk, held, timer, beat, tries, seen, counts, raced>>

\* Up to the mkdir.
Begin(c) ==
    /\ pc[c] = "idle" /\ held[Home[c]] = None
    /\ pc' = [pc EXCEPT ![c] = "open"]
    /\ UNCHANGED <<alive, disk, locks, beat, tries, seen, handle, counts, raced>>

\* open(file, "wx")
Open(c) ==
    /\ pc[c] = "open"
    /\ \/ /\ file = None
          /\ file' = c /\ full' = FALSE /\ old' = FALSE
          /\ pc' = [pc EXCEPT ![c] = "write"]
       \/ /\ file # None
          /\ pc' = [pc EXCEPT ![c] = "read"]
          /\ UNCHANGED disk
    /\ UNCHANGED <<alive, locks, beat, tries, seen, handle, counts, raced>>

\* The holder is written to the file the call opened, wherever that is by now.
\* The write or the close may fail, which leaves the file empty or written.
WriteOwner(c) ==
    /\ pc[c] = "write"
    /\ \/ pc' = [pc EXCEPT ![c] = "enter"] /\ full' = (full \/ file = c)
       \/ pc' = [pc EXCEPT ![c] = "failed"] /\ full' \in {full, full \/ file = c}
    /\ UNCHANGED <<alive, file, old, locks, beat, tries, seen, handle, counts, raced>>

\* The file is closed: the lock and its interval exist.
Enter(c) ==
    /\ pc[c] = "enter"
    /\ pc' = [pc EXCEPT ![c] = "held"]
    /\ handle' = [handle EXCEPT ![c] = c]
    /\ refs' = [refs EXCEPT ![c] = 1] /\ timer' = [timer EXCEPT ![c] = TRUE]
    /\ held' = [held EXCEPT ![Home[c]] = c]
    /\ UNCHANGED <<alive, disk, beat, tries, seen, counts, raced>>

\* A holder that can be read and is not stale refuses the call.
Refused(c) ==
    /\ Fresh /\ c \notin Takeover
    /\ pc' = [pc EXCEPT ![c] = "refused"]
    /\ UNCHANGED <<seen, raced>>

\* Otherwise the file will be unlinked.  The race: its creator is about to write
\* it, or runs although its heartbeat is old or a takeover was asked for.
Doubted(c) ==
    /\ ~Fresh \/ c \in Takeover
    /\ pc' = [pc EXCEPT ![c] = "unlink"]
    /\ seen' = [seen EXCEPT ![c] = file]
    /\ raced' = (raced \/ (file # None /\ IF full THEN alive[Home[file]] ELSE pc[file] = "write"))

ReadHolder(c) ==
    /\ pc[c] = "read"
    /\ Refused(c) \/ Doubted(c)
    /\ UNCHANGED <<alive, disk, locks, beat, tries, handle, counts>>

\* Mutant: the attempts are not counted.
UnlinkForEver(c) ==
    /\ pc[c] = "unlink"
    /\ file' = None /\ full' = FALSE /\ old' = FALSE
    /\ tries' = [tries EXCEPT ![c] = @ + 1]
    /\ pc' = [pc EXCEPT ![c] = "open"]
    /\ raced' = (raced \/ file \notin {None, seen[c]})
    /\ seen' = [seen EXCEPT ![c] = None]
    /\ UNCHANGED <<alive, locks, beat, handle, counts>>

\* unlink, then the second attempt.  The race: the file is not the one that was read.
Unlink(c) ==
    /\ pc[c] = "unlink"
    /\ file' = None /\ full' = FALSE /\ old' = FALSE
    /\ tries' = [tries EXCEPT ![c] = @ + 1]
    /\ pc' = [pc EXCEPT ![c] = IF tries[c] = 0 THEN "open" ELSE "last"]
    /\ raced' = (raced \/ file \notin {None, seen[c]})
    /\ seen' = [seen EXCEPT ![c] = None]
    /\ UNCHANGED <<alive, locks, beat, handle, counts>>

\* Both attempts are used up.
LastRead(c) ==
    /\ pc[c] = "last"
    /\ pc' = [pc EXCEPT ![c] = IF file # None /\ full THEN "refused" ELSE "failed"]
    /\ UNCHANGED <<alive, disk, locks, beat, tries, seen, handle, counts, raced>>

-----------------------------------------------------------------------------
(* release() of a handle.                                                  *)

\* Mutants: the other sessions of the process are not counted; the map keeps
\* the lock.
ReleaseForAll(c) ==
    /\ pc[c] = "held"
    /\ refs' = [refs EXCEPT ![handle[c]] = @ - 1]
    /\ pc' = [pc EXCEPT ![c] = "check"]
    /\ timer' = [timer EXCEPT ![handle[c]] = FALSE]
    /\ held' = [held EXCEPT ![Home[c]] = None]
    /\ UNCHANGED <<alive, disk, beat, tries, seen, handle, counts, raced>>
ReleaseKeepsMap(c) ==
    /\ pc[c] = "held"
    /\ refs' = [refs EXCEPT ![handle[c]] = @ - 1]
    /\ \/ refs[handle[c]] > 1 /\ pc' = [pc EXCEPT ![c] = "done"] /\ UNCHANGED timer
       \/ /\ refs[handle[c]] <= 1
          /\ pc' = [pc EXCEPT ![c] = "check"]
          /\ timer' = [timer EXCEPT ![handle[c]] = FALSE]
    /\ UNCHANGED <<alive, disk, held, beat, tries, seen, handle, counts, raced>>

Release(c) ==
    /\ pc[c] = "held"
    /\ refs' = [refs EXCEPT ![handle[c]] = @ - 1]
    /\ \/ /\ refs[handle[c]] > 1
          /\ pc' = [pc EXCEPT ![c] = "done"]
          /\ UNCHANGED <<held, timer>>
       \/ /\ refs[handle[c]] <= 1
          /\ pc' = [pc EXCEPT ![c] = "check"]
          /\ timer' = [timer EXCEPT ![handle[c]] = FALSE]
          /\ held' = [held EXCEPT ![Home[c]] = None]
    /\ UNCHANGED <<alive, disk, beat, tries, seen, handle, counts, raced>>

\* The file is removed only if it still has the token of the lock.
ReleaseRead(c) ==
    /\ pc[c] = "check"
    /\ pc' = [pc EXCEPT ![c] = IF full /\ file = handle[c] THEN "remove" ELSE "done"]
    /\ UNCHANGED <<alive, disk, locks, beat, tries, seen, handle, counts, raced>>

ReleaseUnlink(c) ==
    /\ pc[c] = "remove"
    /\ file' = None /\ full' = FALSE /\ old' = FALSE
    /\ pc' = [pc EXCEPT ![c] = "done"]
    /\ UNCHANGED <<alive, locks, beat, tries, seen, handle, counts, raced>>

-----------------------------------------------------------------------------
(* The interval of the lock t.                                             *)

BeatFire(t) ==
    /\ timer[t] /\ beat[t] = "idle"
    /\ beat' = [beat EXCEPT ![t] = "read"]
    /\ UNCHANGED <<alive, disk, locks, call, counts, raced>>

\* Another token: the lock gives up.
BeatRead(t) ==
    /\ beat[t] = "read"
    /\ \/ /\ full /\ file = t
          /\ beat' = [beat EXCEPT ![t] = "write"]
          /\ UNCHANGED <<held, timer>>
       \/ /\ ~(full /\ file = t)
          /\ beat' = [beat EXCEPT ![t] = "idle"]
          /\ timer' = [timer EXCEPT ![t] = FALSE]
          /\ held' = [held EXCEPT ![Home[t]] = None]
    /\ UNCHANGED <<alive, disk, refs, call, counts, raced>>

\* The temporary file replaces the owner file, or could not be written.  The
\* race: it replaces another call's file.
BeatWrite(t) ==
    /\ beat[t] = "write"
    /\ beat' = [beat EXCEPT ![t] = "idle"]
    /\ \/ /\ file' = t /\ full' = TRUE /\ old' = FALSE
          /\ raced' = (raced \/ file \notin {None, t})
       \/ UNCHANGED <<disk, raced>>
    /\ UNCHANGED <<alive, locks, call, counts>>

-----------------------------------------------------------------------------
(* Time and failures.                                                      *)

\* The heartbeats do not come for staleMs, although the process may run.
Stall ==
    /\ file # None /\ full /\ ~old /\ stalls < MaxStalls
    /\ old' = TRUE /\ stalls' = stalls + 1
    /\ UNCHANGED <<alive, file, full, locks, beat, call, deaths, raced>>

\* The memory of a process is gone, the file stays as it is.
Die(p) ==
    /\ alive[p] /\ deaths < MaxDeaths
    /\ alive' = [alive EXCEPT ![p] = FALSE] /\ deaths' = deaths + 1
    /\ held' = [held EXCEPT ![p] = None]
    /\ refs' = [c \in Caller |-> IF Home[c] = p THEN 0 ELSE refs[c]]
    /\ timer' = [c \in Caller |-> timer[c] /\ Home[c] # p]
    /\ beat' = [c \in Caller |-> IF Home[c] = p THEN "idle" ELSE beat[c]]
    /\ pc' = [c \in Caller |-> IF Home[c] = p THEN "dead" ELSE pc[c]]
    /\ UNCHANGED <<disk, tries, seen, handle, stalls, raced>>

-----------------------------------------------------------------------------
Attempt(c) == Open(c) \/ WriteOwner(c) \/ Enter(c) \/ ReadHolder(c) \/ Unlink(c) \/ LastRead(c)
Heartbeat(t) == BeatFire(t) \/ BeatRead(t) \/ BeatWrite(t)

Next ==
    \/ \E c \in Caller :
        \/ Share(c) \/ Begin(c) \/ Attempt(c)
        \/ Release(c) \/ ReleaseRead(c) \/ ReleaseUnlink(c)
        \/ Heartbeat(c)
    \/ Stall
    \/ \E p \in Proc : Die(p)

Spec == Init /\ [][Next]_vars

-----------------------------------------------------------------------------
(* Properties.                                                             *)

Holder == {c \in Caller : pc[c] = "held"}

\* Every variable keeps its type, and a call unlinks at most two files.
TypeOK ==
    /\ alive \in [Proc -> BOOLEAN]
    /\ file \in Caller \cup {None} /\ full \in BOOLEAN /\ old \in BOOLEAN
    /\ held \in [Proc -> Caller \cup {None}]
    /\ refs \in [Caller -> Nat]
    /\ timer \in [Caller -> BOOLEAN] /\ beat \in [Caller -> {"idle", "read", "write"}]
    /\ pc \in [Caller -> {"idle", "open", "write", "enter", "read", "unlink", "last",
                          "held", "check", "remove", "done", "refused", "failed", "dead"}]
    /\ tries \in [Caller -> 0..2]
    /\ seen \in [Caller -> Caller \cup {None}] /\ handle \in [Caller -> Caller \cup {None}]
    /\ stalls \in 0..MaxStalls /\ deaths \in 0..MaxDeaths /\ raced \in BOOLEAN

\* Whatever the order of acquires, shares, releases, heartbeats and deaths, the
\* file names the lock of everyone who has a handle, so that two processes never
\* have one, until one of three things happens: a call doubts a file whose
\* creator is about to write it, or runs in spite of an old heartbeat or a
\* takeover; an unlink hits another file than the one that was read; or a
\* heartbeat replaces another's file.
OwnerOnDisk == ~raced => \A c \in Holder : file = handle[c] /\ full

\* The map of a process never names a lock that has been given up: a session
\* that shares the lock shares it with somebody who still has it, and no release
\* ends a lock under another session.
Sharers(t) == {c \in Holder : handle[c] = t}
MapNamesHeldLock ==
    /\ \A t \in Caller : refs[t] = Cardinality(Sharers(t))
    /\ \A p \in Proc : held[p] # None => refs[held[p]] > 0

\* What the comments and tests say (see the violation runs).

\* "The daemon is the single writer for a live session" (the comment at the top).
SingleWriter == \A c, d \in Holder : Home[c] = Home[d]

\* After release() of the last handle there is no owner ("acquires and releases
\* the owner file").
ReleasedIsFree ==
    (\A c \in Caller : pc[c] \in {"idle", "done"} /\ beat[c] = "idle") => file = None
=============================================================================
