--------------------------- MODULE TranscriptFeed ---------------------------
(***************************************************************************)
(* What the event pipeline promises a client: the transcript it shows is   *)
(* at every moment an initial piece of the session's history, without a    *)
(* hole, a repetition or an exchange.  One mounted store only ever adds to *)
(* it; a shorter piece comes with a new store, never under the old one.    *)
(* Only a death of the daemon shortens the history, and it leaves no       *)
(* transcript on screen.                                                   *)
(***************************************************************************)
EXTENDS Naturals, Sequences

VARIABLES
    total,  \* events the session has published
    shown,  \* the transcript on screen
    store   \* the number of the mounted store

feed == <<total, shown, store>>

\* The history is the events in the order of their publication.
History(n) == [i \in 1..n |-> i]

Init == total = 0 /\ shown = <<>> /\ store = 0

Publish == total' = total + 1 /\ UNCHANGED <<shown, store>>

Extend ==
    /\ \E n \in Len(shown) + 1..total : shown' = History(n)
    /\ UNCHANGED <<total, store>>

Mount ==
    /\ store' = store + 1
    /\ \E n \in 0..total : shown' = History(n)
    /\ UNCHANGED total

Unmount == shown # <<>> /\ shown' = <<>> /\ UNCHANGED <<total, store>>

Forget ==
    /\ \E n \in 0..total : total' = n
    /\ shown' = <<>>
    /\ UNCHANGED store

Next == Publish \/ Extend \/ Mount \/ Unmount \/ Forget

Spec == Init /\ [][Next]_feed
=============================================================================
