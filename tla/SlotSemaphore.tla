--------------------------- MODULE SlotSemaphore ----------------------------
(***************************************************************************)
(* The counting semaphore of task/parallel.ts: a ceiling max (0 for none), *)
(* the slots in use, and the queue of those whose acquire() has not been   *)
(* resolved.  A waiter is admitted when it leaves the queue with a slot    *)
(* counted for it; its own code runs later.                                *)
(***************************************************************************)
EXTENDS Integers, Sequences

Free(s) == s.max = 0 \/ s.used < s.max

Waiting(s) == {s.queue[k] : k \in DOMAIN s.queue}

\* The semaphores whose waiters are in A.
Semaphores(A) == [max : Nat, used : Nat, queue : Seq(A)]

\* No waiter is in the queue twice.
Once(s) == \A i, j \in DOMAIN s.queue : i # j => s.queue[i] # s.queue[j]

NewSemaphore(m) == [max |-> m, used |-> 0, queue |-> <<>>]

Acquire(s, a) ==
    IF Free(s) THEN [s EXCEPT !.used = @ + 1] ELSE [s EXCEPT !.queue = Append(@, a)]

Freed(s) == [s EXCEPT !.used = IF @ > 0 THEN @ - 1 ELSE 0]

\* Mutant: a freed slot is left to the next acquire().
ReleaseAdmitsNobody(s) == Freed(s)

\* Mutant: the freed slot is handed on without a look at the ceiling.
ReleaseAlwaysAdmits(s) ==
    IF s.queue # <<>> THEN [s EXCEPT !.queue = Tail(@)] ELSE Freed(s)

\* Mutant: the youngest waiter is taken.
ReleaseYoungest(s) ==
    LET t == Freed(s) IN
    IF Free(t) /\ t.queue # <<>>
    THEN [t EXCEPT !.used = @ + 1, !.queue = SubSeq(@, 1, Len(@) - 1)]
    ELSE t

\* The next waiter only, and only under the ceiling.
Release(s) ==
    LET t == Freed(s) IN
    IF Free(t) /\ t.queue # <<>>
    THEN [t EXCEPT !.used = @ + 1, !.queue = Tail(@)]
    ELSE t

\* How many waiters fit under a new ceiling.
Fitting(s, m) ==
    IF m = 0 \/ s.used + Len(s.queue) <= m THEN Len(s.queue)
    ELSE IF s.used < m THEN m - s.used ELSE 0

\* resize: the waiters that fit are admitted in order.
Resize(s, m) ==
    LET n == Fitting(s, m) IN
    [max |-> m, used |-> s.used + n, queue |-> SubSeq(s.queue, n + 1, Len(s.queue))]

\* Mutant: the abort rejects the waiter and leaves it in the queue.
LeaveForgets(s, a) == s

\* The abort of a waiter.
Leave(s, a) ==
    LET k == CHOOSE i \in DOMAIN s.queue : s.queue[i] = a IN
    IF a \in Waiting(s)
    THEN [s EXCEPT !.queue = SubSeq(@, 1, k - 1) \o SubSeq(@, k + 1, Len(@))]
    ELSE s
=============================================================================
