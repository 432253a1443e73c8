---------------------------- MODULE EventBatcher ----------------------------
(***************************************************************************)
(* The coalescer of one connection, daemon/event-batcher.ts: the frames    *)
(* that wait, and whether the flush timer is armed.  Time is left out: a   *)
(* flush is held when the socket's buffer is above the threshold and the   *)
(* deadline set when it was first put off has not passed.                  *)
(***************************************************************************)
EXTENDS Naturals, Sequences

CONSTANT MaxEvents   \* frames that are not kept for the timer

ASSUME BatcherAssumption == MaxEvents \in Nat \ {0}

Batchers(F) == [queue : Seq(F), timer : BOOLEAN]

NewBatcher == [queue |-> <<>>, timer |-> FALSE]

\* Mutant: a flush that is held schedules no retry.
FlushUntimed(b, held) == IF b.queue = <<>> \/ held THEN b ELSE [b EXCEPT !.queue = <<>>]

\* #flush, and what it hands to the socket.
Flush(b, held) ==
    IF b.queue = <<>> THEN b
    ELSE IF held THEN [b EXCEPT !.timer = TRUE] ELSE [b EXCEPT !.queue = <<>>]

Sent(b, held) == IF held THEN <<>> ELSE b.queue

\* flushNow and the timer's callback: either way the timer is gone first.
Disarmed(b)       == [b EXCEPT !.timer = FALSE]
FlushNow(b, held) == Flush(Disarmed(b), held)

\* push(): a full queue is flushed at once, any other waits for the timer.
Queued(b, f) == [b EXCEPT !.queue = Append(@, f)]
Full(b)      == Len(b.queue) >= MaxEvents

PushOne(b, f, held) ==
    IF Full(Queued(b, f)) THEN FlushNow(Queued(b, f), held)
    ELSE [Queued(b, f) EXCEPT !.timer = TRUE]

SentByPush(b, f, held) ==
    IF Full(Queued(b, f)) THEN Sent(Queued(b, f), held) ELSE <<>>

\* One frame after another, in one step of the daemon.
PushAll(b, fs, held) ==
    LET push[k \in 0..Len(fs)] ==
            IF k = 0 THEN [b |-> b, out |-> <<>>]
            ELSE LET p == push[k - 1] IN
                 [b   |-> PushOne(p.b, fs[k], held),
                  out |-> p.out \o SentByPush(p.b, fs[k], held)]
    IN  push[Len(fs)]

\* Frames that wait have a timer that will flush them.
NothingStuck(b) == b.queue # <<>> => b.timer
=============================================================================
