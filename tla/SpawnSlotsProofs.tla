-------------------------- MODULE SpawnSlotsProofs --------------------------
(***************************************************************************)
(* Theorems about SpawnSlots for every tree of agents, every number of     *)
(* turns and all limits: TypeOK, NoIdleSlot and SlotsAccounted are         *)
(* invariants, and CapRespected and FirstComeFirstServed hold of every     *)
(* step.                                                                   *)
(*                                                                         *)
(* SlotsAccounted is not inductive: a slot is given back by an agent that  *)
(* has one, which takes Places, where an agent with a request out or a     *)
(* permit stands.  The invariant has a half for the provider's semaphore   *)
(* and one for those of the sessions; an action moves at most one of them. *)
(* The lemmas on the operations of the semaphore, SlotSemaphore, come      *)
(* first.                                                                  *)
(***************************************************************************)
EXTENDS SpawnSlots, FiniteSetTheorems, SequenceTheorems, TLAPS

-----------------------------------------------------------------------------
(* What the operations of the semaphore do, for waiters of any set A:      *)
(* nobody is queued twice, the slots counted grow by those admitted, and   *)
(* whoever is left in the queue finds no slot free.                        *)

Sound(s, A) == s \in Semaphores(A) /\ Once(s)

Idle(s) == s.queue # <<>> /\ Free(s)

\* acquire(): a slot at once, or the end of the queue.
LEMMA AcquireFacts ==
    ASSUME NEW A, NEW s, Sound(s, A), NEW a \in A, a \notin Waiting(s), ~Idle(s)
    PROVE  /\ Sound(Acquire(s, a), A) /\ ~Idle(Acquire(s, a))
           /\ Acquire(s, a).max = s.max
           /\ Free(s) => /\ Waiting(Acquire(s, a)) = Waiting(s)
                         /\ Acquire(s, a).used = s.used + 1
           /\ ~Free(s) => /\ Waiting(Acquire(s, a)) = Waiting(s) \cup {a}
                          /\ Acquire(s, a).used = s.used
<1>1. CASE Free(s)
  BY <1>1 DEF Acquire, Sound, Semaphores, Once, Idle, Waiting, Free
<1>2. CASE ~Free(s)
  <2> DEFINE q == Append(s.queue, a)
  <2>1. s.queue \in Seq(A)
    BY DEF Sound, Semaphores
  <2>2. /\ q \in Seq(A) /\ DOMAIN q = 1..Len(s.queue) + 1
        /\ \A i \in 1..Len(s.queue) : q[i] = s.queue[i]
        /\ q[Len(s.queue) + 1] = a
    BY <2>1
  <2>3. Acquire(s, a) = [s EXCEPT !.queue = q]
    BY <1>2 DEF Acquire
  <2>4. /\ Acquire(s, a) \in Semaphores(A)
        /\ Acquire(s, a).queue = q /\ Acquire(s, a).used = s.used /\ Acquire(s, a).max = s.max
    BY <2>2, <2>3 DEF Sound, Semaphores
  <2>5. Waiting(Acquire(s, a)) = Waiting(s) \cup {a}
    BY <2>1, <2>2, <2>4 DEF Waiting
  <2>6. Once(Acquire(s, a))
    BY <2>1, <2>2, <2>4 DEF Once, Sound, Waiting
  <2>7. ~Free(Acquire(s, a))
    BY <1>2, <2>4 DEF Free
  <2> QED BY <1>2, <2>4, <2>5, <2>6, <2>7 DEF Sound, Idle
<1> QED BY <1>1, <1>2

\* Arithmetic of the rest of a queue.
LEMMA RestLength ==
    ASSUME NEW l \in Nat, NEW n \in Nat, n <= l
    PROVE  /\ l - (n + 1) + 1 = l - n
           /\ n + 1 <= l \/ l - n = 0
           /\ \A i \in 1..l - n : (n + 1) + i - 1 = n + i
  OBVIOUS

Rest(q, n)  == SubSeq(q, n + 1, Len(q))
Elems(q)    == {q[i] : i \in DOMAIN q}
First(q, n) == {q[i] : i \in 1..n}

\* The rest of a queue from the n-th on.
LEMMA RestElements ==
    ASSUME NEW A, NEW q \in Seq(A), NEW n \in 0..Len(q)
    PROVE  /\ Rest(q, n) \in Seq(A) /\ Len(Rest(q, n)) = Len(q) - n
           /\ DOMAIN Rest(q, n) = 1..Len(q) - n
           /\ \A i \in 1..Len(q) - n : Rest(q, n)[i] = q[n + i]
<1> DEFINE r == SubSeq(q, n + 1, Len(q))
<1>1. Len(q) \in Nat /\ DOMAIN q = 1..Len(q) /\ n \in Nat /\ n <= Len(q)
  BY LenProperties
<1>2. \A i \in n + 1..Len(q) : q[i] \in A
  BY <1>1, ElementOfSeq
<1>3. /\ r \in Seq(A)
      /\ Len(r) = IF n + 1 <= Len(q) THEN Len(q) - (n + 1) + 1 ELSE 0
      /\ \A i \in 1..Len(q) - (n + 1) + 1 : r[i] = q[n + 1 + i - 1]
  <2>1. n + 1 \in Int /\ Len(q) \in Int
    BY <1>1
  <2> QED BY <1>2, <2>1, SubSeqProperties
<1> HIDE DEF r
<1>4. /\ Len(q) - (n + 1) + 1 = Len(q) - n
      /\ n + 1 <= Len(q) \/ Len(q) - n = 0
      /\ \A i \in 1..Len(q) - n : (n + 1) + i - 1 = n + i
  BY <1>1, RestLength
<1>5. Len(r) = Len(q) - n
  BY <1>1, <1>3, <1>4
<1>6. DOMAIN r = 1..Len(r)
  BY <1>3, LenProperties
<1>7. \A i \in 1..Len(q) - n : r[i] = q[n + i]
  BY <1>3, <1>4
<1>8. r = Rest(q, n)
  BY DEF r, Rest
<1> QED BY <1>3, <1>5, <1>6, <1>7, <1>8

LEMMA RestFacts ==
    ASSUME NEW A, NEW q \in Seq(A), NEW n \in 0..Len(q),
           \A i, j \in DOMAIN q : i # j => q[i] # q[j]
    PROVE  /\ Rest(q, n) \in Seq(A) /\ Len(Rest(q, n)) = Len(q) - n
           /\ \A i, j \in DOMAIN Rest(q, n) : i # j => Rest(q, n)[i] # Rest(q, n)[j]
           /\ Elems(Rest(q, n)) \subseteq Elems(q)
           /\ Elems(q) \ Elems(Rest(q, n)) = First(q, n)
           /\ IsFiniteSet(First(q, n)) /\ Cardinality(First(q, n)) = n
<1> DEFINE r == Rest(q, n)
<1>1. Len(q) \in Nat /\ DOMAIN q = 1..Len(q) /\ n \in Nat /\ n <= Len(q)
  BY LenProperties
<1>3. r \in Seq(A)
  BY RestElements
<1>4. Len(r) = Len(q) - n /\ DOMAIN r = 1..Len(q) - n /\ \A i \in DOMAIN r : r[i] = q[n + i]
  BY RestElements
<1> HIDE DEF r
<1>5. \A i \in DOMAIN r : n + i \in DOMAIN q
  BY <1>1, <1>4
<1>6. \A i, j \in DOMAIN r : i # j => r[i] # r[j]
  <2>1. \A i, j \in DOMAIN r : i # j => n + i # n + j
    BY <1>1, <1>4
  <2> QED BY <1>4, <1>5, <2>1
<1>7. {r[i] : i \in DOMAIN r} \subseteq {q[i] : i \in DOMAIN q}
  BY <1>4, <1>5
<1>8. {q[i] : i \in DOMAIN q} \ {r[i] : i \in DOMAIN r} = {q[i] : i \in 1..n}
  <2>1. \A k \in DOMAIN q : k \in 1..n \/ (k - n \in DOMAIN r /\ r[k - n] = q[k])
    <3>1. \A k \in DOMAIN q : k \in 1..n \/ (k - n \in 1..Len(q) - n /\ n + (k - n) = k)
      BY <1>1
    <3> QED BY <1>4, <3>1
  <2>2. \A k \in 1..n : k \in DOMAIN q /\ \A i \in DOMAIN r : r[i] # q[k]
    <3>1. \A k \in 1..n : k \in DOMAIN q /\ \A i \in DOMAIN r : n + i # k
      BY <1>1, <1>4
    <3> QED BY <1>4, <1>5, <3>1
  <2> QED BY <2>1, <2>2
<1>9. IsFiniteSet({q[i] : i \in 1..n}) /\ Cardinality({q[i] : i \in 1..n}) = n
  <2> DEFINE f == [i \in 1..n |-> q[i]]
             T == {q[i] : i \in 1..n}
  <2>1. 1..n \subseteq DOMAIN q
    BY <1>1
  <2>2. f \in Bijection(1..n, T)
    <3>1. f \in [1..n -> T]
      OBVIOUS
    <3>2. \A i, j \in 1..n : f[i] = f[j] => i = j
      BY <2>1
    <3>3. \A t \in T : \E i \in 1..n : f[i] = t
      OBVIOUS
    <3> HIDE DEF f, T
    <3>4. DOMAIN f = 1..n
      BY <3>1
    <3>5. f \in Injection(1..n, T)
      BY <3>1, <3>2, <3>4 DEF Injection, IsInjective
    <3>6. f \in Surjection(1..n, T)
      BY <3>1, <3>3 DEF Surjection
    <3> QED BY <3>5, <3>6 DEF Bijection
  <2>3. ExistsBijection(1..n, T)
    BY <2>2 DEF ExistsBijection
  <2>4. IsFiniteSet(1..n) /\ Cardinality(1..n) = n
    <3>1. IsFiniteSet(1..n) /\ Cardinality(1..n) = IF 1 > n THEN 0 ELSE n - 1 + 1
      BY <1>1, FS_Interval
    <3> QED BY <1>1, <3>1
  <2> HIDE DEF T
  <2>5. IsFiniteSet(T) /\ Cardinality(T) = n
    BY <2>3, <2>4, FS_Bijection
  <2> QED BY <2>5 DEF T
<1>10. r = Rest(q, n)
  BY DEF r
<1>11. r \in Seq(A) /\ Len(r) = Len(q) - n /\ \A i, j \in DOMAIN r : i # j => r[i] # r[j]
  BY <1>3, <1>4, <1>6
<1>12. Elems(r) = {r[i] : i \in DOMAIN r} /\ Elems(q) = {q[i] : i \in DOMAIN q}
  BY DEF Elems
<1>13. First(q, n) = {q[i] : i \in 1..n}
  BY DEF First
<1>14. Elems(r) \subseteq Elems(q) /\ Elems(q) \ Elems(r) = First(q, n)
  BY <1>7, <1>8, <1>12, <1>13
<1>15. IsFiniteSet(First(q, n)) /\ Cardinality(First(q, n)) = n
  BY <1>9, <1>13
<1> QED BY <1>10, <1>11, <1>14, <1>15

\* resize(): as many as fit, in order; those left find no slot.
LEMMA ResizeFacts ==
    ASSUME NEW A, NEW s, Sound(s, A), NEW m \in Nat
    PROVE  LET t == Resize(s, m)
               G == Waiting(s) \ Waiting(t)
           IN  /\ Sound(t, A) /\ ~Idle(t) /\ t.max = m
               /\ Waiting(t) \subseteq Waiting(s)
               /\ IsFiniteSet(G) /\ t.used = s.used + Cardinality(G)
               /\ t.used > s.used \/ G # {} => m = 0 \/ t.used <= m
<1> DEFINE n == Fitting(s, m)
           t == Resize(s, m)
           q == s.queue
           r == SubSeq(q, n + 1, Len(q))
           G == Waiting(s) \ Waiting(t)
<1>1. q \in Seq(A) /\ Len(q) \in Nat /\ s.used \in Nat /\ \A i, j \in DOMAIN q : i # j => q[i] # q[j]
  BY LenProperties DEF Sound, Semaphores, Once
<1>2. /\ n \in 0..Len(q)
      /\ n < Len(q) => m # 0 /\ s.used + n >= m
      /\ n > 0 => m = 0 \/ s.used + n <= m
  BY <1>1 DEF Fitting
<1>3. /\ r \in Seq(A) /\ Len(r) = Len(q) - n
      /\ \A i, j \in DOMAIN r : i # j => r[i] # r[j]
      /\ Elems(r) \subseteq Elems(q) /\ Elems(q) \ Elems(r) = First(q, n)
      /\ IsFiniteSet(First(q, n)) /\ Cardinality(First(q, n)) = n
  <2> HIDE DEF q, n
  <2>1. \A i, j \in DOMAIN q : i # j => q[i] # q[j]
    BY <1>1
  <2> QED BY <1>1, <1>2, <2>1, RestFacts DEF Rest
<1>4. t = [max |-> m, used |-> s.used + n, queue |-> r]
  BY DEF Resize
<1> HIDE DEF n, r, t
<1>5. t.max = m /\ t.used = s.used + n /\ t.queue = r
  BY <1>4
<1>6. Waiting(s) = Elems(q) /\ Waiting(t) = Elems(r)
  BY <1>5 DEF Waiting, Elems
<1> HIDE DEF q
<1>7. n \in Nat
  BY <1>1, <1>2
<1>8. Sound(t, A)
  <2>1. s.used + n \in Nat
    BY <1>1, <1>7
  <2>2. t \in Semaphores(A)
    BY <1>3, <1>4, <2>1 DEF Semaphores
  <2>3. Once(t)
    BY <1>3, <1>5 DEF Once
  <2> QED BY <2>2, <2>3 DEF Sound
<1>9. ~Idle(t)
  <2>1. n = Len(q) => t.queue = <<>>
    <3>1. n = Len(q) => Len(r) = 0
      BY <1>1, <1>3
    <3>2. r # <<>> => Len(r) \in Nat \ {0}
      BY <1>3, EmptySeq
    <3> QED BY <1>5, <3>1, <3>2
  <2>2. n # Len(q) => ~Free(t)
    BY <1>1, <1>2, <1>5 DEF Free
  <2> QED BY <2>1, <2>2 DEF Idle
<1>10. G = First(q, n)
  BY <1>3, <1>6
<1>11. IsFiniteSet(G) /\ Cardinality(G) = n
  BY <1>3, <1>10
<1>12. Waiting(t) \subseteq Waiting(s)
  BY <1>3, <1>6
<1>13. t.used > s.used \/ G # {} => m = 0 \/ t.used <= m
  <2>1. n = 0 => t.used = s.used /\ G = {}
    <3> HIDE DEF G
    <3>1. n = 0 => G = {}
      BY <1>11, FS_EmptySet
    <3> QED BY <1>1, <1>5, <3>1
  <2>2. n > 0 => m = 0 \/ t.used <= m
    BY <1>2, <1>5
  <2> QED BY <1>1, <1>7, <2>1, <2>2
<1> QED BY <1>5, <1>8, <1>9, <1>11, <1>12, <1>13 DEF t

\* release(): the slot goes to the head of the queue, if there is one and the
\* ceiling allows it.
LEMMA ReleaseFacts ==
    ASSUME NEW A, NEW s, Sound(s, A), ~Idle(s), s.used > 0
    PROVE  LET t == Release(s) IN
           /\ Sound(t, A) /\ ~Idle(t) /\ t.max = s.max
           /\ \/ t.used = s.used - 1 /\ Waiting(t) = Waiting(s)
              \/ /\ t.used = s.used
                 /\ t.max = 0 \/ t.used <= t.max
                 /\ \E h \in Waiting(s) : Waiting(t) = Waiting(s) \ {h}
<1> DEFINE f == Freed(s)
           t == Release(s)
           q == s.queue
<1>1. q \in Seq(A) /\ s.used \in Nat /\ s.max \in Nat
  BY DEF Sound, Semaphores
<1>2. f = [s EXCEPT !.used = s.used - 1] /\ s.used - 1 \in Nat
  BY <1>1 DEF Freed
<1>3. Sound(f, A) /\ f.queue = q /\ f.max = s.max /\ f.used = s.used - 1
  BY <1>1, <1>2 DEF Sound, Semaphores, Once
<1> HIDE DEF f
<1>4. CASE ~(Free(f) /\ q # <<>>)
  <2>1. t = f
    BY <1>3, <1>4 DEF Release, f
  <2>2. ~Idle(f) /\ Waiting(f) = Waiting(s)
    BY <1>3, <1>4 DEF Idle, Waiting
  <2> QED BY <1>3, <2>1, <2>2
<1>5. CASE Free(f) /\ q # <<>>
  <2> DEFINE r == Tail(q)
             h == q[1]
  <2>1. t = [f EXCEPT !.used = f.used + 1, !.queue = r]
    BY <1>3, <1>5 DEF Release, f
  <2>2. /\ r \in Seq(A) /\ Len(q) \in Nat \ {0} /\ DOMAIN q = 1..Len(q)
        /\ DOMAIN r = 1..Len(q) - 1 /\ \A i \in DOMAIN r : r[i] = q[i + 1]
    BY <1>1, <1>5, HeadTailProperties, LenProperties, EmptySeq
  <2>3. t.max = s.max /\ t.used = s.used /\ t.queue = r /\ t \in Semaphores(A)
    <3>1. f \in Semaphores(A) /\ f.used + 1 = s.used
      BY <1>1, <1>3 DEF Sound
    <3> HIDE DEF r
    <3>2. t = [max |-> f.max, used |-> s.used, queue |-> r]
      BY <2>1, <3>1 DEF Semaphores
    <3> HIDE DEF t
    <3> QED BY <1>1, <1>3, <2>2, <3>2 DEF Semaphores
  <2> HIDE DEF r, t
  <2>4. \A i, j \in DOMAIN q : i # j => q[i] # q[j]
    BY DEF Sound, Once
  <2>5. \A i \in DOMAIN r : i + 1 \in DOMAIN q /\ i + 1 # 1
    BY <2>2
  <2>6. Once(t)
    <3>1. \A i, j \in DOMAIN r : i # j => i + 1 # j + 1
      BY <2>2
    <3> QED BY <2>2, <2>3, <2>4, <2>5, <3>1 DEF Once
  <2>7. Waiting(t) = Waiting(s) \ {h}
    <3>1. \A i \in DOMAIN q : i # 1 => i - 1 \in DOMAIN r /\ r[i - 1] = q[i]
      BY <2>2
    <3>2. 1 \in DOMAIN q
      BY <2>2
    <3>3. \A i \in DOMAIN r : r[i] \in Waiting(s) \ {h}
      BY <2>2, <2>4, <2>5, <3>2 DEF Waiting
    <3>4. \A x \in Waiting(s) \ {h} : \E i \in DOMAIN r : r[i] = x
      BY <3>1, <3>2 DEF Waiting
    <3> QED BY <2>3, <3>3, <3>4 DEF Waiting
  <2>8. h \in Waiting(s)
    BY <2>2 DEF Waiting
  <2>9. t.max = 0 \/ t.used <= t.max
    BY <1>1, <1>3, <1>5, <2>3 DEF Free
  <2>10. ~Idle(t)
    <3>1. ~Free(s)
      BY <1>5 DEF Idle
    <3> QED BY <2>3, <3>1 DEF Idle, Free
  <2> QED BY <2>3, <2>6, <2>7, <2>8, <2>9, <2>10 DEF Sound, t
<1> QED BY <1>4, <1>5

\* The abort of a waiter: the rest of the queue stays as it was.
LEMMA LeaveFacts ==
    ASSUME NEW A, NEW s, Sound(s, A), ~Idle(s), NEW a
    PROVE  LET t == Leave(s, a) IN
           /\ Sound(t, A) /\ ~Idle(t) /\ t.max = s.max /\ t.used = s.used
           /\ Waiting(t) = Waiting(s) \ {a}
<1> DEFINE t == Leave(s, a)
           q == s.queue
<1>1. CASE a \notin Waiting(s)
  <2>1. t = s
    BY <1>1 DEF Leave
  <2> QED BY <1>1, <2>1
<1>2. CASE a \in Waiting(s)
  <2> DEFINE k == CHOOSE i \in DOMAIN q : q[i] = a
             l == SubSeq(q, 1, k - 1)
             r == SubSeq(q, k + 1, Len(q))
             u == l \o r
  <2>1. q \in Seq(A) /\ Len(q) \in Nat /\ DOMAIN q = 1..Len(q)
    BY LenProperties DEF Sound, Semaphores
  <2>2. k \in 1..Len(q) /\ q[k] = a
    BY <1>2, <2>1 DEF Waiting
  <2>3. \A i, j \in DOMAIN q : i # j => q[i] # q[j]
    BY DEF Sound, Once
  <2>4. t = [s EXCEPT !.queue = u]
    BY <1>2 DEF Leave
  <2> HIDE DEF k, t
  <2>5. \A i \in 1..Len(q) : q[i] \in A
    BY <2>1, ElementOfSeq
  <2>6. l \in Seq(A) /\ Len(l) = k - 1 /\ \A i \in 1..k - 1 : l[i] = q[i]
    <3>1. 1 \in Int /\ k - 1 \in Int /\ \A i \in 1..k - 1 : q[i] \in A
      BY <2>1, <2>2, <2>5
    <3>2. /\ l \in Seq(A) /\ Len(l) = IF 1 <= k - 1 THEN k - 1 - 1 + 1 ELSE 0
          /\ \A i \in 1..k - 1 - 1 + 1 : l[i] = q[1 + i - 1]
      BY <3>1, SubSeqProperties
    <3>3. /\ (IF 1 <= k - 1 THEN k - 1 - 1 + 1 ELSE 0) = k - 1 /\ k - 1 - 1 + 1 = k - 1
          /\ \A i \in 1..k - 1 : 1 + i - 1 = i
      BY <2>1, <2>2
    <3> QED BY <3>2, <3>3
  <2>7. r \in Seq(A) /\ Len(r) = Len(q) - k /\ \A i \in 1..Len(q) - k : r[i] = q[k + i]
    <3>1. k + 1 \in Int /\ Len(q) \in Int /\ \A i \in k + 1..Len(q) : q[i] \in A
      BY <2>1, <2>2, <2>5
    <3>2. /\ r \in Seq(A) /\ Len(r) = IF k + 1 <= Len(q) THEN Len(q) - (k + 1) + 1 ELSE 0
          /\ \A i \in 1..Len(q) - (k + 1) + 1 : r[i] = q[(k + 1) + i - 1]
      BY <3>1, SubSeqProperties
    <3>3. k \in Nat /\ k <= Len(q)
      BY <2>1, <2>2
    <3> QED BY <2>1, <3>2, <3>3, RestLength
  <2> HIDE DEF l, r
  <2>8. /\ u \in Seq(A) /\ DOMAIN u = 1..Len(q) - 1
        /\ \A i \in 1..Len(q) - 1 : u[i] = IF i < k THEN q[i] ELSE q[i + 1]
    <3>1. /\ u \in Seq(A) /\ Len(u) = Len(l) + Len(r)
          /\ \A i \in 1..Len(l) + Len(r) : u[i] = IF i <= Len(l) THEN l[i] ELSE r[i - Len(l)]
      BY <2>6, <2>7, ConcatProperties
    <3>2. Len(l) + Len(r) = Len(q) - 1
      BY <2>1, <2>2, <2>6, <2>7
    <3>3. \A i \in 1..Len(q) - 1 : u[i] = IF i < k THEN q[i] ELSE q[i + 1]
      <4> TAKE i \in 1..Len(q) - 1
      <4>1. u[i] = IF i <= k - 1 THEN l[i] ELSE r[i - (k - 1)]
        BY <2>6, <3>1, <3>2
      <4>2. CASE i < k
        <5>1. i \in 1..k - 1 /\ i <= k - 1
          BY <2>1, <2>2, <4>2
        <5> QED BY <2>6, <4>1, <4>2, <5>1
      <4>3. CASE ~(i < k)
        <5>1. i - (k - 1) \in 1..Len(q) - k /\ k + (i - (k - 1)) = i + 1 /\ ~(i <= k - 1)
          BY <2>1, <2>2, <4>3
        <5> QED BY <2>7, <4>1, <4>3, <5>1
      <4> QED BY <4>2, <4>3
    <3>4. DOMAIN u = 1..Len(u)
      BY <3>1, LenProperties
    <3> QED BY <3>1, <3>2, <3>3, <3>4
  <2> HIDE DEF u
  <2> DEFINE from(i) == IF i < k THEN i ELSE i + 1
  <2>9. \A i \in DOMAIN u : u[i] = q[from(i)] /\ from(i) \in DOMAIN q \ {k}
    BY <2>1, <2>2, <2>8
  <2>10. \A i, j \in DOMAIN u : i # j => from(i) # from(j)
    BY <2>1, <2>2, <2>8
  <2>11. \A x \in DOMAIN q \ {k} : \E i \in DOMAIN u : from(i) = x
    <3> TAKE x \in DOMAIN q \ {k}
    <3>1. CASE x < k
      <4>1. x \in DOMAIN u /\ from(x) = x
        BY <2>1, <2>2, <2>8, <3>1
      <4> QED BY <4>1
    <3>2. CASE x > k
      <4>1. x - 1 \in 1..Len(q) - 1 /\ ~(x - 1 < k) /\ x - 1 + 1 = x
        BY <2>1, <2>2, <3>2
      <4>2. from(x - 1) = x
        BY <4>1
      <4> QED BY <2>8, <4>1, <4>2
    <3> QED BY <2>1, <2>2, <3>1, <3>2
  <2> HIDE DEF from
  <2>12. t.queue = u /\ t.max = s.max /\ t.used = s.used /\ t \in Semaphores(A)
    BY <2>4, <2>8 DEF Sound, Semaphores
  <2>13. Once(t)
    BY <2>3, <2>9, <2>10, <2>12 DEF Once
  <2>14. Waiting(t) = Waiting(s) \ {a}
    <3>1. \A i \in DOMAIN u : u[i] \in Waiting(s) \ {a}
      BY <2>1, <2>2, <2>3, <2>9 DEF Waiting
    <3>2. \A x \in Waiting(s) \ {a} : \E i \in DOMAIN u : u[i] = x
      <4> TAKE x \in Waiting(s) \ {a}
      <4>1. PICK j \in DOMAIN q : q[j] = x
        BY DEF Waiting
      <4>2. j # k
        BY <2>2, <4>1
      <4>3. PICK i \in DOMAIN u : from(i) = j
        BY <2>11, <4>1, <4>2
      <4> QED BY <2>9, <4>1, <4>3
    <3> QED BY <2>12, <3>1, <3>2 DEF Waiting
  <2>15. ~Idle(t)
    <3>1. s.queue # <<>>
      BY <2>1, <2>2, EmptySeq
    <3> QED BY <2>12, <3>1 DEF Idle, Free
  <2> QED BY <2>12, <2>13, <2>14, <2>15 DEF Sound, t
<1> QED BY <1>1, <1>2

\* The queue of t is that of s without its first n waiters.
Shift(s, t, n) ==
    /\ n \in 0..Len(s.queue) /\ Len(t.queue) = Len(s.queue) - n
    /\ \A i \in 1..Len(t.queue) : t.queue[i] = s.queue[n + i]

LEMMA ResizeShifts ==
    ASSUME NEW A, NEW s, Sound(s, A), NEW m \in Nat
    PROVE  \E n : Shift(s, Resize(s, m), n)
<1> DEFINE n == Fitting(s, m)
           q == s.queue
<1>1. q \in Seq(A) /\ Len(q) \in Nat /\ s.used \in Nat
  BY LenProperties DEF Sound, Semaphores
<1>2. n \in 0..Len(q)
  BY <1>1 DEF Fitting
<1>3. Resize(s, m).queue = Rest(q, n)
  BY DEF Resize, Rest
<1> HIDE DEF n, q
<1>4. Len(Rest(q, n)) = Len(q) - n /\ \A i \in 1..Len(q) - n : Rest(q, n)[i] = q[n + i]
  BY <1>1, <1>2, RestElements
<1>5. Shift(s, Resize(s, m), n)
  BY <1>2, <1>3, <1>4 DEF Shift, q
<1> QED BY <1>5

LEMMA ReleaseShifts ==
    ASSUME NEW A, NEW s, Sound(s, A)
    PROVE  \E n : Shift(s, Release(s), n)
<1> DEFINE q == s.queue
<1>1. q \in Seq(A) /\ Len(q) \in Nat /\ s \in Semaphores(A)
  BY LenProperties DEF Sound, Semaphores
<1>2. Freed(s).queue = q
  BY <1>1 DEF Freed, Semaphores
<1>3. CASE Release(s).queue = q
  <2>1. Shift(s, Release(s), 0)
    BY <1>1, <1>3 DEF Shift
  <2> QED BY <2>1
<1>4. CASE q # <<>> /\ Release(s).queue = Tail(q)
  <2> HIDE DEF q
  <2>1. Len(q) \in Nat \ {0} /\ Len(Tail(q)) = Len(q) - 1
    BY <1>1, <1>4, HeadTailProperties, EmptySeq
  <2>2. \A i \in 1..Len(Tail(q)) : Tail(q)[i] = q[1 + i]
    <3>1. \A i \in 1..Len(Tail(q)) : Tail(q)[i] = q[i + 1] /\ i + 1 = 1 + i
      BY <1>1, <1>4, HeadTailProperties
    <3> QED BY <3>1
  <2>3. 1 \in 0..Len(q)
    BY <2>1
  <2>4. Shift(s, Release(s), 1)
    BY <1>4, <2>1, <2>2, <2>3 DEF Shift, q
  <2> QED BY <2>4
<1>5. Release(s).queue = q \/ (q # <<>> /\ Release(s).queue = Tail(q))
  BY <1>1, <1>2 DEF Release, Freed, Semaphores
<1> QED BY <1>3, <1>4, <1>5

LEMMA ShiftTwice ==
    ASSUME NEW A, NEW s, Sound(s, A), NEW r, NEW t, NEW n, NEW m, Shift(s, r, n), Shift(r, t, m)
    PROVE  Shift(s, t, n + m)
<1>1. Len(s.queue) \in Nat
  BY LenProperties DEF Sound, Semaphores
<1>2. n \in 0..Len(s.queue) /\ Len(r.queue) = Len(s.queue) - n
  BY DEF Shift
<1>3. m \in 0..Len(r.queue) /\ Len(t.queue) = Len(r.queue) - m
  BY DEF Shift
<1>4. n + m \in 0..Len(s.queue) /\ Len(t.queue) = Len(s.queue) - (n + m)
  BY <1>1, <1>2, <1>3
<1>5. ASSUME NEW i \in 1..Len(t.queue)
      PROVE  t.queue[i] = s.queue[(n + m) + i]
  <2>1. m + i \in 1..Len(r.queue) /\ n + (m + i) = (n + m) + i
    BY <1>1, <1>2, <1>3
  <2>2. t.queue[i] = r.queue[m + i] /\ r.queue[m + i] = s.queue[n + (m + i)]
    BY <2>1 DEF Shift
  <2> QED BY <2>1, <2>2
<1> QED BY <1>4, <1>5 DEF Shift

\* Who leaves the queue at its head overtakes nobody, also if u has one more
\* waiter than t.
LEMMA ShiftOvertakesNobody ==
    ASSUME NEW A, NEW s, Sound(s, A), NEW t, Sound(t, A), NEW n, Shift(s, t, n),
           NEW u, Waiting(t) \subseteq Waiting(u), Waiting(u) \cap Waiting(s) \subseteq Waiting(t), NEW left
    PROVE  ~Overtakes(s, u, left)
<1> DEFINE q == s.queue
<1>1. q \in Seq(A) /\ t.queue \in Seq(A) /\ \A i, j \in DOMAIN q : i # j => q[i] # q[j]
  BY DEF Sound, Semaphores, Once
<1>2. /\ Len(q) \in Nat /\ DOMAIN q = 1..Len(q)
      /\ Len(t.queue) \in Nat /\ DOMAIN t.queue = 1..Len(t.queue)
  BY <1>1, LenProperties
<1>3. /\ n \in 0..Len(q) /\ Len(t.queue) = Len(q) - n
      /\ \A i \in DOMAIN t.queue : t.queue[i] = q[n + i]
  BY <1>2 DEF Shift
<1>4. ASSUME NEW i \in DOMAIN q, NEW j \in DOMAIN q, i < j, q[j] \notin Waiting(u), q[i] \in Waiting(u)
      PROVE  FALSE
  <2>1. q[i] \in Waiting(t)
    BY <1>4 DEF Waiting
  <2>2. PICK k \in DOMAIN t.queue : t.queue[k] = q[i]
    BY <2>1 DEF Waiting
  <2>3. n + k \in DOMAIN q /\ q[n + k] = q[i]
    <3>1. n + k \in DOMAIN q
      BY <1>2, <1>3
    <3> QED BY <1>3, <2>2, <3>1
  <2>4. i = n + k
    BY <1>1, <2>3
  <2>5. j - n \in DOMAIN t.queue /\ n + (j - n) = j
    BY <1>2, <1>3, <1>4, <2>4
  <2>6. t.queue[j - n] = q[j]
    BY <1>3, <2>5
  <2>7. q[j] \in Waiting(t)
    BY <2>5, <2>6 DEF Waiting
  <2> QED BY <1>4, <2>7
<1> QED BY <1>4 DEF Overtakes

\* The operations of a step, in order.
LEMMA TakeInOrder ==
    ASSUME NEW A, NEW s, Sound(s, A), NEW m \in Nat, NEW a \in A, a \notin Waiting(s), NEW left
    PROVE  LET t == Acquire(Resize(s, m), a) IN
           /\ ~Overtakes(s, t, left)
           /\ a \notin Waiting(t) => t.queue = <<>>
<1> DEFINE r == Resize(s, m)
           t == Acquire(r, a)
<1>1. Sound(r, A) /\ ~Idle(r) /\ Waiting(r) \subseteq Waiting(s)
  BY ResizeFacts
<1>2. PICK n : Shift(s, r, n)
  BY ResizeShifts
<1> HIDE DEF r
<1>3. /\ Free(r) => Waiting(t) = Waiting(r)
      /\ ~Free(r) => Waiting(t) = Waiting(r) \cup {a}
  BY <1>1, AcquireFacts
<1>4. Waiting(r) \subseteq Waiting(t) /\ Waiting(t) \cap Waiting(s) \subseteq Waiting(r)
  BY <1>3
<1>5. ~Overtakes(s, t, left)
  <2> HIDE DEF t
  <2> QED BY <1>1, <1>2, <1>4, ShiftOvertakesNobody
<1>6. Free(r) => t.queue = <<>>
  <2>1. Free(r) => r.queue = <<>>
    BY <1>1 DEF Idle
  <2>2. Free(r) => t.queue = r.queue
    BY <1>1 DEF Acquire, Sound, Semaphores
  <2> QED BY <2>1, <2>2
<1>7. a \notin Waiting(t) => t.queue = <<>>
  BY <1>3, <1>6
<1> QED BY <1>5, <1>7 DEF r

LEMMA ReleaseInOrder ==
    ASSUME NEW A, NEW s, Sound(s, A), ~Idle(s), s.used > 0, NEW left
    PROVE  ~Overtakes(s, Release(s), left)
<1> DEFINE t == Release(s)
<1>1. Sound(t, A)
  BY ReleaseFacts
<1>2. PICK n : Shift(s, t, n)
  BY ReleaseShifts
<1> HIDE DEF t
<1>3. ~Overtakes(s, t, left)
  BY <1>1, <1>2, ShiftOvertakesNobody
<1> QED BY <1>3 DEF t

LEMMA GiveInOrder ==
    ASSUME NEW A, NEW s, Sound(s, A), s.used > 0, NEW m \in Nat, NEW left
    PROVE  ~Overtakes(s, Release(Resize(s, m)), left)
<1> DEFINE r == Resize(s, m)
           t == Release(r)
<1>1. /\ Sound(r, A) /\ ~Idle(r) /\ IsFiniteSet(Waiting(s) \ Waiting(r))
      /\ r.used = s.used + Cardinality(Waiting(s) \ Waiting(r))
  BY ResizeFacts
<1>2. PICK n : Shift(s, r, n)
  BY ResizeShifts
<1> HIDE DEF r
<1>3. r.used > 0
  <2>1. Cardinality(Waiting(s) \ Waiting(r)) \in Nat /\ s.used \in Nat
    BY <1>1, FS_CardinalityType DEF Sound, Semaphores
  <2> QED BY <1>1, <2>1
<1>4. Sound(t, A)
  BY <1>1, <1>3, ReleaseFacts
<1>5. PICK k : Shift(r, t, k)
  BY <1>1, ReleaseShifts
<1> HIDE DEF t
<1>6. Shift(s, t, n + k)
  BY <1>2, <1>5, ShiftTwice
<1>7. ~Overtakes(s, t, left)
  BY <1>4, <1>6, ShiftOvertakesNobody
<1> QED BY <1>7 DEF t, r

\* Whoever left has been aborted.
LEMMA NobodyOvertakes ==
    ASSUME NEW s, NEW t, NEW left, Waiting(s) \subseteq Waiting(t) \cup left
    PROVE  ~Overtakes(s, t, left)
BY DEF Overtakes, Waiting

-----------------------------------------------------------------------------
(* The invariant.                                                          *)

Active == {"call", "provider", "stream", "tools"}

\* The slots of s are counted for C, and those who wait are others.
Counted(s, C) ==
    /\ Sound(s, Agents) /\ ~Idle(s)
    /\ IsFiniteSet(C) /\ s.used = Cardinality(C)
    /\ C \cap Waiting(s) = {}

\* Whoever was admitted from s to t fits under the ceiling.
Capped(s, t) ==
    t.used > s.used \/ ~(Waiting(s) \subseteq Waiting(t)) => t.max = 0 \/ t.used <= t.max

ProviderInv ==
    /\ Counted(provider, Requesting)
    /\ \A a \in Waiting(provider) : at[a] = "provider" /\ a \notin stopped
    /\ streaming \subseteq Agents
    /\ \A a \in streaming : at[a] \in {"stream", "ends", "done"}
    /\ \A a \in Agents : at[a] = "stream" => a \in streaming

SpawnInv ==
    /\ spawn \in [Agents -> Semaphores(Agents)]
    /\ permits \subseteq Agents \ {Root} /\ at[Root] \notin {"none", "slot"}
    /\ \A a \in permits : at[a] \in Active \cup {"ends"}
    /\ \A a \in Agents \ {Root} : at[a] \in Active => a \in permits
    /\ \A p \in Agents :
          /\ Counted(spawn[p], Placed(p))
          /\ \A a \in Waiting(spawn[p]) : a \in Children(p) /\ at[a] = "slot" /\ a \notin stopped

Types ==
    /\ at \in [Agents -> Places] /\ calls \in [Agents -> Nat]
    /\ inline \subseteq Agents \ {Root} /\ stopped \subseteq Agents
    /\ \A a \in stopped : at[a] # "none"
    /\ providerLimit \in Nat /\ spawnLimit \in Nat /\ changes \in Nat /\ aborts \in Nat

IInv == Types /\ ProviderInv /\ SpawnInv

\* The two halves of CapRespected.
ProviderCap ==
    Admits(provider, provider', stopped') => provider'.max = 0 \/ provider'.used <= provider'.max

SpawnCap ==
    \A p \in Agents : Admits(spawn[p], spawn'[p], stopped')
                          => spawnLimit = 0 \/ spawn'[p].used <= spawnLimit

-----------------------------------------------------------------------------
(* Counting.                                                               *)

\* Two disjoint sets.
LEMMA CountUnion ==
    ASSUME NEW S, NEW T, IsFiniteSet(S), IsFiniteSet(T), S \cap T = {}
    PROVE  IsFiniteSet(S \cup T) /\ Cardinality(S \cup T) = Cardinality(S) + Cardinality(T)
<1>1. Cardinality({}) = 0
  BY FS_EmptySet
<1>2. Cardinality(S) \in Nat /\ Cardinality(T) \in Nat
  BY FS_CardinalityType
<1>3. /\ IsFiniteSet(S \cup T)
      /\ Cardinality(S \cup T) = Cardinality(S) + Cardinality(T) - Cardinality(S \cap T)
  BY FS_Union
<1>4. Cardinality(S \cap T) = 0
  <2>1. S \cap T = {}
    OBVIOUS
  <2> QED BY <2>1, <1>1, Zenon
<1> QED BY <1>2, <1>3, <1>4

\* One more, one less, and at least one.
LEMMA CountOne ==
    ASSUME NEW S, IsFiniteSet(S), NEW x
    PROVE  /\ Cardinality(S) \in Nat
           /\ x \notin S => /\ IsFiniteSet(S \cup {x})
                            /\ Cardinality(S \cup {x}) = Cardinality(S) + 1
           /\ x \in S => /\ IsFiniteSet(S \ {x}) /\ Cardinality(S) > 0
                         /\ Cardinality(S \ {x}) = Cardinality(S) - 1
<1>1. Cardinality(S) \in Nat
  BY FS_CardinalityType
<1>2. x \notin S => IsFiniteSet(S \cup {x}) /\ Cardinality(S \cup {x}) = Cardinality(S) + 1
  BY FS_AddElement
<1>3. x \in S => IsFiniteSet(S \ {x}) /\ Cardinality(S \ {x}) = Cardinality(S) - 1
  BY FS_RemoveElement
<1>4. x \in S => Cardinality(S) # 0
  BY FS_EmptySet
<1> QED BY <1>1, <1>2, <1>3, <1>4

\* The waiters of a sound semaphore are agents.
LEMMA WaitersAreAgents ==
    ASSUME NEW s, Sound(s, Agents)
    PROVE  Waiting(s) \subseteq Agents
BY ElementOfSeq, LenProperties DEF Sound, Semaphores, Waiting

-----------------------------------------------------------------------------
(* What the operations do to those the slots are counted for.              *)

\* A new ceiling: those admitted are counted, under it.
LEMMA ResizeCounts ==
    ASSUME NEW s, NEW C, Counted(s, C), NEW m \in Nat
    PROVE  LET t == Resize(s, m) IN
           /\ Counted(t, C \cup (Waiting(s) \ Waiting(t)))
           /\ Waiting(t) \subseteq Waiting(s) /\ t.max = m /\ Capped(s, t)
           /\ t.used >= s.used
<1> DEFINE t == Resize(s, m)
           G == Waiting(s) \ Waiting(t)
<1>1. /\ Sound(t, Agents) /\ ~Idle(t) /\ t.max = m /\ Waiting(t) \subseteq Waiting(s)
      /\ IsFiniteSet(G) /\ t.used = s.used + Cardinality(G)
      /\ t.used > s.used \/ G # {} => m = 0 \/ t.used <= m
  BY ResizeFacts DEF Counted
<1> HIDE DEF t
<1>2. C \cap G = {} /\ IsFiniteSet(C) /\ s.used = Cardinality(C)
  BY DEF Counted
<1>3. IsFiniteSet(C \cup G) /\ Cardinality(C \cup G) = Cardinality(C) + Cardinality(G)
  BY <1>1, <1>2, CountUnion
<1>4. Counted(t, C \cup G)
  BY <1>1, <1>2, <1>3 DEF Counted
<1>5. Cardinality(G) \in Nat /\ Cardinality(C) \in Nat
  BY <1>1, <1>2, FS_CardinalityType
<1>6. Capped(s, t) /\ t.used >= s.used
  BY <1>1, <1>2, <1>5 DEF Capped
<1> QED BY <1>1, <1>4, <1>6 DEF t

\* acquire() of a newcomer: it waits, or is counted.
LEMMA AcquireCounts ==
    ASSUME NEW s, NEW C, Counted(s, C), NEW a \in Agents, a \notin C, a \notin Waiting(s)
    PROVE  LET t == Acquire(s, a) IN
           /\ Counted(t, IF a \in Waiting(t) THEN C ELSE C \cup {a})
           /\ Waiting(s) \subseteq Waiting(t) /\ Waiting(t) \subseteq Waiting(s) \cup {a}
           /\ t.max = s.max
           /\ t.used = s.used \/ t.max = 0 \/ t.used <= t.max
<1> DEFINE t == Acquire(s, a)
<1>1. /\ Sound(s, Agents) /\ ~Idle(s) /\ IsFiniteSet(C) /\ s.used = Cardinality(C)
      /\ C \cap Waiting(s) = {}
  BY DEF Counted
<1>2. /\ Sound(t, Agents) /\ ~Idle(t) /\ t.max = s.max
      /\ Free(s) => Waiting(t) = Waiting(s) /\ t.used = s.used + 1
      /\ ~Free(s) => Waiting(t) = Waiting(s) \cup {a} /\ t.used = s.used
  BY <1>1, AcquireFacts
<1> HIDE DEF t
<1>3. /\ Cardinality(C) \in Nat
      /\ IsFiniteSet(C \cup {a}) /\ Cardinality(C \cup {a}) = Cardinality(C) + 1
  BY <1>1, CountOne
<1>4. CASE Free(s)
  <2>1. Counted(t, C \cup {a}) /\ a \notin Waiting(t)
    BY <1>1, <1>2, <1>3, <1>4 DEF Counted
  <2>2. s.max \in Nat /\ s.used \in Nat
    BY <1>1 DEF Sound, Semaphores
  <2>3. t.max = 0 \/ t.used <= t.max
    BY <1>2, <1>4, <2>2 DEF Free
  <2> QED BY <1>2, <1>4, <2>1, <2>3 DEF t
<1>5. CASE ~Free(s)
  <2>1. Counted(t, C) /\ a \in Waiting(t)
    BY <1>1, <1>2, <1>5 DEF Counted
  <2> QED BY <1>2, <1>5, <2>1 DEF t
<1> QED BY <1>4, <1>5 DEF t

\* release() by one who is counted: it is not any more, the next one may be.
LEMMA ReleaseCounts ==
    ASSUME NEW s, NEW C, Counted(s, C), NEW a \in C
    PROVE  LET t == Release(s) IN
           /\ Counted(t, (C \ {a}) \cup (Waiting(s) \ Waiting(t)))
           /\ Waiting(t) \subseteq Waiting(s) /\ t.max = s.max
           /\ t.used <= s.used /\ Capped(s, t)
<1> DEFINE t == Release(s)
<1>1. /\ Sound(s, Agents) /\ ~Idle(s) /\ IsFiniteSet(C) /\ s.used = Cardinality(C)
      /\ C \cap Waiting(s) = {}
  BY DEF Counted
<1>2. /\ Cardinality(C) \in Nat /\ Cardinality(C) > 0
      /\ IsFiniteSet(C \ {a}) /\ Cardinality(C \ {a}) = Cardinality(C) - 1
  BY <1>1, CountOne
<1>3. /\ Sound(t, Agents) /\ ~Idle(t) /\ t.max = s.max
      /\ \/ t.used = s.used - 1 /\ Waiting(t) = Waiting(s)
         \/ /\ t.used = s.used
            /\ t.max = 0 \/ t.used <= t.max
            /\ \E h \in Waiting(s) : Waiting(t) = Waiting(s) \ {h}
  BY <1>1, <1>2, ReleaseFacts
<1> HIDE DEF t
<1>4. CASE t.used = s.used - 1 /\ Waiting(t) = Waiting(s)
  <2>1. (C \ {a}) \cup (Waiting(s) \ Waiting(t)) = C \ {a}
    BY <1>4
  <2>2. Counted(t, C \ {a})
    BY <1>1, <1>2, <1>3, <1>4 DEF Counted
  <2>3. t.used <= s.used /\ Capped(s, t)
    BY <1>1, <1>2, <1>4 DEF Capped
  <2> QED BY <1>3, <1>4, <2>1, <2>2, <2>3 DEF t
<1>5. ASSUME t.used = s.used, t.max = 0 \/ t.used <= t.max,
             NEW h \in Waiting(s), Waiting(t) = Waiting(s) \ {h}
      PROVE  /\ Counted(t, (C \ {a}) \cup (Waiting(s) \ Waiting(t)))
             /\ Waiting(t) \subseteq Waiting(s) /\ t.used <= s.used /\ Capped(s, t)
  <2>1. (C \ {a}) \cup (Waiting(s) \ Waiting(t)) = (C \ {a}) \cup {h}
    BY <1>5
  <2>2. h \notin C \ {a}
    BY <1>1
  <2>3. /\ IsFiniteSet((C \ {a}) \cup {h})
        /\ Cardinality((C \ {a}) \cup {h}) = Cardinality(C \ {a}) + 1
    BY <1>2, <2>2, CountOne
  <2>4. t.used = Cardinality((C \ {a}) \cup {h})
    BY <1>1, <1>2, <1>5, <2>3
  <2>5. ((C \ {a}) \cup {h}) \cap Waiting(t) = {}
    BY <1>1, <1>5
  <2>6. Counted(t, (C \ {a}) \cup {h})
    BY <1>3, <2>3, <2>4, <2>5 DEF Counted
  <2>7. t.used <= s.used /\ Capped(s, t)
    BY <1>1, <1>2, <1>5 DEF Capped
  <2> QED BY <1>5, <2>1, <2>6, <2>7
<1> QED BY <1>3, <1>4, <1>5 DEF t

\* The abort of a waiter: nobody else notices.
LEMMA LeaveCounts ==
    ASSUME NEW s, NEW C, Counted(s, C), NEW a
    PROVE  LET t == Leave(s, a) IN
           /\ Counted(t, C) /\ Waiting(t) = Waiting(s) \ {a}
           /\ t.max = s.max /\ t.used = s.used
<1> DEFINE t == Leave(s, a)
<1>1. /\ Sound(t, Agents) /\ ~Idle(t) /\ t.max = s.max /\ t.used = s.used
      /\ Waiting(t) = Waiting(s) \ {a}
  BY LeaveFacts DEF Counted
<1> HIDE DEF t
<1> QED BY <1>1 DEF Counted, t

\* acquire() under the setting of the moment.
LEMMA TakeCounts ==
    ASSUME NEW s, NEW C, Counted(s, C), NEW m \in Nat,
           NEW a \in Agents, a \notin C, a \notin Waiting(s)
    PROVE  LET t == Acquire(Resize(s, m), a)
               D == C \cup (Waiting(s) \ Waiting(t))
           IN  /\ Counted(t, IF a \in Waiting(t) THEN D ELSE D \cup {a})
               /\ Waiting(t) \subseteq Waiting(s) \cup {a} /\ t.max = m /\ Capped(s, t)
<1> DEFINE r == Resize(s, m)
           t == Acquire(r, a)
           E == C \cup (Waiting(s) \ Waiting(r))
           D == C \cup (Waiting(s) \ Waiting(t))
<1>1. /\ Counted(r, E) /\ Waiting(r) \subseteq Waiting(s) /\ r.max = m /\ Capped(s, r)
      /\ r.used >= s.used
  BY ResizeCounts
<1> HIDE DEF r
<1>2. a \notin E /\ a \notin Waiting(r)
  BY <1>1
<1> HIDE DEF E
<1>3. /\ Counted(t, IF a \in Waiting(t) THEN E ELSE E \cup {a})
      /\ Waiting(r) \subseteq Waiting(t) /\ Waiting(t) \subseteq Waiting(r) \cup {a}
      /\ t.max = r.max
      /\ t.used = r.used \/ t.max = 0 \/ t.used <= t.max
  BY <1>1, <1>2, AcquireCounts
<1> HIDE DEF t
<1>4. E = D
  BY <1>1, <1>3 DEF E
<1>5. s.used \in Nat /\ r.used \in Nat /\ t.used \in Nat
  BY <1>1, <1>3 DEF Counted, Sound, Semaphores
<1>6. Capped(s, t)
  BY <1>1, <1>3, <1>5 DEF Capped
<1> QED BY <1>1, <1>3, <1>4, <1>6 DEF r, t

\* release() under the setting of the moment.
LEMMA GiveCounts ==
    ASSUME NEW s, NEW C, Counted(s, C), NEW m \in Nat, NEW a \in C
    PROVE  LET t == Release(Resize(s, m)) IN
           /\ Counted(t, (C \ {a}) \cup (Waiting(s) \ Waiting(t)))
           /\ Waiting(t) \subseteq Waiting(s) /\ t.max = m /\ Capped(s, t)
<1> DEFINE r == Resize(s, m)
           t == Release(r)
           E == C \cup (Waiting(s) \ Waiting(r))
<1>1. /\ Counted(r, E) /\ Waiting(r) \subseteq Waiting(s) /\ r.max = m /\ Capped(s, r)
      /\ r.used >= s.used
  BY ResizeCounts
<1> HIDE DEF r
<1>2. a \in E /\ a \notin Waiting(s)
  BY DEF Counted
<1> HIDE DEF E
<1>3. /\ Counted(t, (E \ {a}) \cup (Waiting(r) \ Waiting(t)))
      /\ Waiting(t) \subseteq Waiting(r) /\ t.max = r.max
      /\ t.used <= r.used /\ Capped(r, t)
  BY <1>1, <1>2, ReleaseCounts
<1> HIDE DEF t
<1>4. (E \ {a}) \cup (Waiting(r) \ Waiting(t)) = (C \ {a}) \cup (Waiting(s) \ Waiting(t))
  BY <1>1, <1>2, <1>3 DEF E
<1>5. s.used \in Nat /\ r.used \in Nat /\ t.used \in Nat /\ m \in Nat
  BY <1>1, <1>3 DEF Counted, Sound, Semaphores
<1>6. Capped(s, t)
  BY <1>1, <1>3, <1>5 DEF Capped
<1> QED BY <1>1, <1>3, <1>4, <1>6 DEF r, t

\* Whoever is admitted fits.
LEMMA AdmittedFits ==
    ASSUME NEW s, NEW t, NEW left, Admits(s, t, left), Capped(s, t)
    PROVE  t.max = 0 \/ t.used <= t.max
BY DEF Admits, Capped

\* Nobody is admitted by what leaves the slots alone.
LEMMA NobodyAdmitted ==
    ASSUME NEW s, NEW t, NEW left, s.used \in Nat, t.used = s.used,
           Waiting(s) \subseteq Waiting(t) \cup left
    PROVE  ~Admits(s, t, left)
BY DEF Admits

-----------------------------------------------------------------------------
(* The provider's semaphore.                                               *)

\* Steps that neither reach nor leave a model request.
LEMMA ProviderKept ==
    ASSUME ProviderInv, UNCHANGED <<provider, streaming>>,
           \A b \in Agents : at'[b] # at[b] =>
               {at[b], at'[b]} \cap {"provider", "stream"} = {} /\ (b \in streaming => at'[b] = "done"),
           \A b \in stopped' : b \in stopped \/ b \notin Waiting(provider)
    PROVE  ProviderInv' /\ ProviderCap
<1>1. \A b \in Agents : /\ at'[b] = "provider" <=> at[b] = "provider"
                        /\ at'[b] = "stream" <=> at[b] = "stream"
  OBVIOUS
<1>2. Requesting' = Requesting
  BY <1>1 DEF Requesting
<1>3. Waiting(provider) \subseteq Agents
  BY WaitersAreAgents DEF ProviderInv, Counted
<1>4. ProviderInv'
  BY <1>1, <1>2, <1>3 DEF ProviderInv
<1>5. provider.used \in Nat
  BY DEF ProviderInv, Counted, Sound, Semaphores
<1>6. ProviderCap
  BY <1>5, NobodyAdmitted DEF ProviderCap
<1> QED BY <1>4, <1>6

\* getProviderSemaphore and acquire().
LEMMA CallKeepsProvider ==
    ASSUME IInv, NEW a \in Agents, Call(a)
    PROVE  ProviderInv' /\ ProviderCap
<1> DEFINE t == provider'
<1> USE DEF Types, IInv
<1>1. /\ at \in [Agents -> Places] /\ at[a] = "call" /\ providerLimit \in Nat
      /\ Counted(provider, Requesting)
      /\ \A b \in Waiting(provider) : at[b] = "provider" /\ b \notin stopped
      /\ stopped' = stopped /\ streaming' = streaming
  BY DEF Call, ProviderInv
<1>2. a \notin Waiting(provider) /\ a \notin Requesting /\ a \notin streaming
  BY <1>1 DEF Requesting, ProviderInv
<1>3. Waiting(provider) \subseteq Agents
  BY <1>1, WaitersAreAgents DEF Counted
<1>4. CASE a \in stopped
  <2>1. t = Resize(provider, providerLimit) /\ at' = [at EXCEPT ![a] = "ends"]
    BY <1>4 DEF Call
  <2>2. /\ Counted(t, Requesting \cup (Waiting(provider) \ Waiting(t)))
        /\ Waiting(t) \subseteq Waiting(provider) /\ Capped(provider, t)
    BY <1>1, <2>1, ResizeCounts
  <2>3. Requesting' = Requesting \cup (Waiting(provider) \ Waiting(t))
    BY <1>1, <1>2, <1>3, <2>1, <2>2 DEF Requesting
  <2>4. ProviderInv'
    BY <1>1, <1>2, <1>3, <2>1, <2>2, <2>3 DEF ProviderInv
  <2>5. ProviderCap
    BY <2>2, AdmittedFits DEF ProviderCap
  <2> QED BY <2>4, <2>5
<1>5. CASE a \notin stopped
  <2> DEFINE D == Requesting \cup (Waiting(provider) \ Waiting(t))
  <2>1. t = Acquire(Resize(provider, providerLimit), a) /\ at' = [at EXCEPT ![a] = "provider"]
    BY <1>5 DEF Call
  <2>2. /\ Counted(t, IF a \in Waiting(t) THEN D ELSE D \cup {a})
        /\ Waiting(t) \subseteq Waiting(provider) \cup {a} /\ Capped(provider, t)
    BY <1>1, <1>2, <2>1, TakeCounts
  <2>3. Requesting' = IF a \in Waiting(t) THEN D ELSE D \cup {a}
    BY <1>1, <1>2, <1>3, <2>1, <2>2 DEF Requesting
  <2>4. ProviderInv'
    BY <1>1, <1>2, <1>3, <1>5, <2>1, <2>2, <2>3 DEF ProviderInv
  <2>5. ProviderCap
    BY <2>2, AdmittedFits DEF ProviderCap
  <2> QED BY <2>4, <2>5
<1> QED BY <1>4, <1>5

\* The request goes out with the slot it was given.
LEMMA RequestKeepsProvider ==
    ASSUME IInv, NEW a \in Agents, Request(a)
    PROVE  ProviderInv' /\ ProviderCap
<1>1. /\ at \in [Agents -> Places] /\ at[a] = "provider" /\ a \notin Waiting(provider)
      /\ at' = [at EXCEPT ![a] = IF a \in stopped THEN "ends" ELSE "stream"]
      /\ streaming' = streaming \cup {a} /\ UNCHANGED <<provider, stopped>>
  BY DEF IInv, Types, Request
<1>2. Requesting' = Requesting
  BY <1>1 DEF Requesting
<1>3. Waiting(provider) \subseteq Agents
  BY WaitersAreAgents DEF IInv, ProviderInv, Counted
<1>4. ProviderInv'
  BY <1>1, <1>2, <1>3 DEF ProviderInv, IInv
<1>5. provider.used \in Nat
  BY DEF IInv, ProviderInv, Counted, Sound, Semaphores
<1>6. ProviderCap
  BY <1>1, <1>5, NobodyAdmitted DEF ProviderCap
<1> QED BY <1>4, <1>6

\* The slot is given back, and handed on.
LEMMA SettlesKeepsProvider ==
    ASSUME IInv, NEW a \in Agents, StreamSettles(a)
    PROVE  ProviderInv' /\ ProviderCap
<1> DEFINE t == provider'
<1>1. /\ at \in [Agents -> Places] /\ a \in streaming /\ a \in Requesting
      /\ t = Release(provider) /\ streaming' = streaming \ {a} /\ stopped' = stopped
      /\ at' = IF at[a] = "stream" THEN [at EXCEPT ![a] = "tools"] ELSE at
      /\ \A b \in Waiting(provider) : at[b] = "provider" /\ b \notin stopped
      /\ at[a] \in {"stream", "ends", "done"}
  BY DEF IInv, Types, StreamSettles, Requesting, ProviderInv
<1>2. /\ Counted(t, (Requesting \ {a}) \cup (Waiting(provider) \ Waiting(t)))
      /\ Waiting(t) \subseteq Waiting(provider) /\ Capped(provider, t)
  BY <1>1, ReleaseCounts DEF IInv, ProviderInv
<1>3. Waiting(provider) \subseteq Agents
  BY WaitersAreAgents DEF IInv, ProviderInv, Counted
<1>4. Requesting' = (Requesting \ {a}) \cup (Waiting(provider) \ Waiting(t))
  BY <1>1, <1>2, <1>3 DEF Requesting
<1>5. ProviderInv'
  BY <1>1, <1>2, <1>3, <1>4 DEF IInv, ProviderInv
<1>6. ProviderCap
  BY <1>2, AdmittedFits DEF ProviderCap
<1> QED BY <1>5, <1>6

\* An aborted waiter leaves the queue.
LEMMA StopKeepsProvider ==
    ASSUME IInv, NEW a \in Agents, Stop(a)
    PROVE  ProviderInv' /\ ProviderCap
<1> DEFINE t == provider'
<1>1. /\ at \in [Agents -> Places] /\ streaming' = streaming /\ stopped' = stopped \cup {a}
      /\ t = IF at[a] = "provider" THEN Leave(provider, a) ELSE provider
      /\ \A b \in Waiting(provider) : at[b] = "provider" /\ b \notin stopped
      /\ Counted(provider, Requesting)
  BY DEF IInv, Types, Stop, ProviderInv
<1>2. Waiting(provider) \subseteq Agents
  BY <1>1, WaitersAreAgents DEF Counted
<1>3. /\ Counted(t, Requesting) /\ Waiting(t) = Waiting(provider) \ {a} /\ t.used = provider.used
  <2>1. CASE at[a] = "provider"
    BY <1>1, <2>1, LeaveCounts
  <2>2. CASE at[a] # "provider"
    BY <1>1, <2>2
  <2> QED BY <2>1, <2>2
<1>4. /\ \A b \in Agents \ {a} : at'[b] = at[b]
      /\ at[a] = "provider" => at'[a] = IF a \in Waiting(provider) THEN "ends" ELSE "provider"
      /\ at[a] = "stream" => at'[a] = "ends"
      /\ at[a] \notin {"provider", "stream"} => at'[a] \in {at[a], "ends"}
      /\ at[a] # "done"
  BY <1>1 DEF Stop
<1>5. Requesting' = Requesting
  BY <1>1, <1>2, <1>3, <1>4 DEF Requesting
<1>6. ProviderInv'
  BY <1>1, <1>2, <1>3, <1>4, <1>5 DEF IInv, ProviderInv
<1>7. provider.used \in Nat
  BY <1>1 DEF Counted, Sound, Semaphores
<1>8. ProviderCap
  BY <1>1, <1>3, <1>7, NobodyAdmitted DEF ProviderCap
<1> QED BY <1>6, <1>8

-----------------------------------------------------------------------------
(* The sessions' semaphores.                                               *)

\* What SpawnInv says of the semaphore of p.
SpawnAt(p) ==
    /\ Counted(spawn[p], Placed(p))
    /\ \A a \in Waiting(spawn[p]) : a \in Children(p) /\ at[a] = "slot" /\ a \notin stopped

\* A semaphore whose slots stay as they are admits nobody.
LEMMA SpawnCapAt ==
    ASSUME SpawnInv, NEW p \in Agents,
           spawn'[p].used = spawn[p].used /\ Waiting(spawn[p]) \subseteq Waiting(spawn'[p]) \cup stopped'
    PROVE  ~Admits(spawn[p], spawn'[p], stopped')
<1>1. spawn[p].used \in Nat
  BY DEF SpawnInv, Counted, Sound, Semaphores
<1> QED BY <1>1, NobodyAdmitted

\* Steps in which no subagent starts or ends its life.
LEMMA SpawnKept ==
    ASSUME SpawnInv, UNCHANGED <<spawn, permits>>,
           \A b \in Agents : at'[b] # at[b] => at[b] \in Active /\ at'[b] \in Active \cup {"ends"},
           \A b \in stopped' : b \in stopped \/ at[b] # "slot"
    PROVE  SpawnInv' /\ SpawnCap
<1>1. ASSUME NEW p \in Agents
      PROVE  SpawnAt(p)'
  <2>1. Children(p) \subseteq Agents \ {Root}
    BY DEF Children
  <2>2. Placed(p)' = Placed(p)
    BY <2>1 DEF Placed, SpawnInv, Active
  <2> QED BY <2>1, <2>2 DEF SpawnAt, SpawnInv, Active
<1>2. SpawnInv'
  BY <1>1, TreeAssumption DEF SpawnInv, SpawnAt, Active
<1>3. SpawnCap
  BY SpawnCapAt DEF SpawnCap
<1> QED BY <1>2, <1>3

\* The semaphores of the other sessions, in a step of a that is at its own.
LEMMA OtherSessions ==
    ASSUME IInv, NEW a \in Agents \ {Root}, NEW p \in Agents, p # Parent[a],
           spawn'[p] = spawn[p], permits' \ {a} = permits \ {a},
           \A b \in Agents \ {a} : at'[b] = at[b],
           \A b \in stopped' : b \in stopped \/ b = a
    PROVE  SpawnAt(p)' /\ ~Admits(spawn[p], spawn'[p], stopped')
<1>1. Children(p) \subseteq Agents \ {Root} /\ a \notin Children(p)
  BY DEF Children
<1>2. Placed(p)' = Placed(p)
  BY <1>1 DEF Placed
<1>3. SpawnAt(p)'
  BY <1>1, <1>2 DEF SpawnAt, IInv, SpawnInv
<1>4. ~Admits(spawn[p], spawn'[p], stopped')
  BY SpawnCapAt DEF IInv
<1> QED BY <1>3, <1>4

\* A subagent asks for its slot.
LEMMA SpawnKeepsSpawn ==
    ASSUME IInv, NEW a \in Agents, NEW i, Spawn(a, i)
    PROVE  SpawnInv' /\ SpawnCap
<1> DEFINE p == Parent[a]
           t == Acquire(Resize(spawn[p], spawnLimit), a)
           D == Placed(p) \cup (Waiting(spawn[p]) \ Waiting(t))
<1>1. /\ at \in [Agents -> Places] /\ spawnLimit \in Nat
      /\ a # Root /\ at[a] = "none" /\ p \in Agents /\ at[p] = "tools"
      /\ at' = [at EXCEPT ![a] = "slot"] /\ UNCHANGED <<permits, stopped>>
      /\ spawn' = [spawn EXCEPT ![p] = t] /\ spawn \in [Agents -> Semaphores(Agents)]
      /\ SpawnAt(p)
  BY TreeAssumption DEF IInv, Types, Spawn, SpawnInv, SpawnAt
<1>2. /\ Children(p) \subseteq Agents \ {Root} /\ a \in Children(p)
      /\ Waiting(spawn[p]) \subseteq Children(p)
  BY <1>1 DEF Children, SpawnAt
<1>3. a \notin Placed(p) /\ a \notin Waiting(spawn[p])
  BY <1>1 DEF Placed, SpawnAt
<1>4. /\ Counted(t, IF a \in Waiting(t) THEN D ELSE D \cup {a})
      /\ Waiting(t) \subseteq Waiting(spawn[p]) \cup {a} /\ t.max = spawnLimit
      /\ Capped(spawn[p], t)
  BY <1>1, <1>3, TakeCounts DEF SpawnAt
<1> HIDE DEF t
<1>5. spawn'[p] = t /\ t \in Semaphores(Agents) /\ spawn' \in [Agents -> Semaphores(Agents)]
  BY <1>1, <1>4 DEF Counted, Sound
<1>6. Placed(p)' = IF a \in Waiting(t) THEN D ELSE D \cup {a}
  BY <1>1, <1>2, <1>3, <1>4, <1>5 DEF Placed, SpawnAt
<1>7. a \notin stopped
  BY <1>1 DEF IInv, Types
<1>8. SpawnAt(p)'
  BY <1>1, <1>2, <1>4, <1>5, <1>6, <1>7 DEF SpawnAt
<1>9. \A q \in Agents \ {p} : SpawnAt(q)' /\ ~Admits(spawn[q], spawn'[q], stopped')
  BY <1>1, OtherSessions
<1>10. SpawnInv'
  BY <1>1, <1>5, <1>8, <1>9 DEF SpawnInv, SpawnAt, IInv, Active
<1>11. SpawnCap
  BY <1>4, <1>5, <1>9, AdmittedFits DEF SpawnCap
<1> QED BY <1>10, <1>11

\* An admitted subagent begins, or gives up.
LEMMA EnterKeepsSpawn ==
    ASSUME IInv, NEW a \in Agents, Enter(a)
    PROVE  SpawnInv' /\ SpawnCap
<1>1. /\ at \in [Agents -> Places] /\ a # Root /\ at[a] = "slot"
      /\ a \notin Waiting(spawn[Parent[a]]) /\ permits' = permits \cup {a}
      /\ at' = [at EXCEPT ![a] = IF a \in stopped THEN "ends" ELSE "call"]
      /\ UNCHANGED <<spawn, stopped>>
  BY DEF IInv, Types, Enter
<1>2. ASSUME NEW p \in Agents
      PROVE  SpawnAt(p)'
  <2>1. Children(p) \subseteq Agents \ {Root} /\ \A b \in Children(p) : Parent[b] = p
    BY DEF Children
  <2>2. Placed(p)' = Placed(p)
    BY <1>1, <2>1 DEF Placed, SpawnInv, IInv, Active
  <2>3. a \notin Waiting(spawn[p])
    BY <1>1, <2>1 DEF SpawnInv, IInv
  <2> QED BY <1>1, <2>1, <2>2, <2>3 DEF SpawnAt, SpawnInv, IInv
<1>3. SpawnInv'
  BY <1>1, <1>2 DEF SpawnInv, SpawnAt, IInv, Active
<1>4. SpawnCap
  BY <1>1, SpawnCapAt DEF SpawnCap, IInv
<1> QED BY <1>3, <1>4

\* A subagent gives its slot back, if it holds one.
LEMMA SettleKeepsSpawn ==
    ASSUME IInv, NEW a \in Agents, Settle(a)
    PROVE  SpawnInv' /\ SpawnCap
<1> DEFINE p == Parent[a]
           t == Release(Resize(spawn[p], spawnLimit))
<1>1. /\ at \in [Agents -> Places] /\ spawnLimit \in Nat
      /\ at[a] = "ends" /\ at' = [at EXCEPT ![a] = "done"]
      /\ permits' = permits \ {a} /\ stopped' = stopped
      /\ spawn' = IF a \in permits THEN [spawn EXCEPT ![p] = t] ELSE spawn
      /\ spawn \in [Agents -> Semaphores(Agents)] /\ permits \subseteq Agents \ {Root}
  BY DEF IInv, Types, Settle, SpawnInv
<1>2. CASE a \notin permits
  <2>1. ASSUME NEW q \in Agents
        PROVE  SpawnAt(q)'
    <3>1. Children(q) \subseteq Agents
      BY DEF Children
    <3>2. Placed(q)' = Placed(q)
      BY <1>1, <1>2, <3>1 DEF Placed
    <3> QED BY <1>1, <1>2, <3>1, <3>2 DEF SpawnAt, SpawnInv, IInv
  <2>2. SpawnInv'
    BY <1>1, <1>2, <2>1 DEF SpawnInv, SpawnAt, IInv, Active
  <2>3. SpawnCap
    BY <1>1, <1>2, SpawnCapAt DEF SpawnCap, IInv
  <2> QED BY <2>2, <2>3
<1>3. CASE a \in permits
  <2>1. /\ p \in Agents /\ SpawnAt(p) /\ a # Root /\ spawn' = [spawn EXCEPT ![p] = t]
    BY <1>1, <1>3, TreeAssumption DEF IInv, SpawnInv, SpawnAt
  <2>2. /\ Children(p) \subseteq Agents \ {Root} /\ a \in Children(p)
        /\ Waiting(spawn[p]) \subseteq Children(p)
    BY <1>1, <1>3, <2>1 DEF Children, SpawnAt
  <2>3. a \in Placed(p) /\ a \notin Waiting(spawn[p])
    BY <1>1, <1>3, <2>1, <2>2 DEF Placed, SpawnAt
  <2>4. /\ Counted(t, (Placed(p) \ {a}) \cup (Waiting(spawn[p]) \ Waiting(t)))
        /\ Waiting(t) \subseteq Waiting(spawn[p]) /\ t.max = spawnLimit
        /\ Capped(spawn[p], t)
    BY <1>1, <2>1, <2>3, GiveCounts DEF SpawnAt
  <2> HIDE DEF t
  <2>5. spawn'[p] = t /\ t \in Semaphores(Agents) /\ spawn' \in [Agents -> Semaphores(Agents)]
    BY <1>1, <2>1, <2>4 DEF Counted, Sound
  <2>6. Placed(p)' = (Placed(p) \ {a}) \cup (Waiting(spawn[p]) \ Waiting(t))
    BY <1>1, <2>1, <2>2, <2>3, <2>4, <2>5 DEF Placed, SpawnAt
  <2>7. SpawnAt(p)'
    BY <1>1, <2>1, <2>2, <2>3, <2>4, <2>5, <2>6 DEF SpawnAt
  <2>8. \A q \in Agents \ {p} : SpawnAt(q)' /\ ~Admits(spawn[q], spawn'[q], stopped')
    BY <1>1, <2>1, OtherSessions
  <2>9. SpawnInv'
    BY <1>1, <2>1, <2>5, <2>7, <2>8 DEF SpawnInv, SpawnAt, IInv, Active
  <2>10. SpawnCap
    BY <2>4, <2>5, <2>8, AdmittedFits DEF SpawnCap
  <2> QED BY <2>9, <2>10
<1> QED BY <1>2, <1>3

\* An aborted waiter leaves its session's queue.
LEMMA StopKeepsSpawn ==
    ASSUME IInv, NEW a \in Agents, Stop(a)
    PROVE  SpawnInv' /\ SpawnCap
<1> DEFINE p == Parent[a]
           t == Leave(spawn[p], a)
<1>1. /\ at \in [Agents -> Places] /\ stopped' = stopped \cup {a} /\ permits' = permits
      /\ at[a] \notin {"none", "done"} /\ \A b \in Agents \ {a} : at'[b] = at[b]
      /\ spawn' = IF at[a] = "slot" THEN [spawn EXCEPT ![p] = t] ELSE spawn
      /\ spawn \in [Agents -> Semaphores(Agents)]
      /\ at' \in [Agents -> Places]
  BY DEF IInv, Types, Stop, SpawnInv, Places
<1>2. CASE at[a] # "slot"
  <2>1. at'[a] = at[a] \/ (at[a] \in Active /\ at'[a] = "ends")
    BY <1>1, <1>2 DEF Stop, Active
  <2> QED BY <1>1, <1>2, <2>1, SpawnKept DEF IInv, Active
<1>3. CASE at[a] = "slot"
  <2>1. /\ a # Root /\ p \in Agents /\ SpawnAt(p) /\ a \notin permits
        /\ spawn' = [spawn EXCEPT ![p] = t]
        /\ at'[a] = IF a \in Waiting(spawn[p]) THEN "ends" ELSE "slot"
    BY <1>1, <1>3, TreeAssumption DEF IInv, SpawnInv, SpawnAt, Stop, Active
  <2>2. /\ Counted(t, Placed(p)) /\ Waiting(t) = Waiting(spawn[p]) \ {a}
        /\ t.used = spawn[p].used
    BY <2>1, LeaveCounts DEF SpawnAt
  <2> HIDE DEF t
  <2>3. spawn'[p] = t /\ t \in Semaphores(Agents) /\ spawn' \in [Agents -> Semaphores(Agents)]
    BY <1>1, <2>1, <2>2 DEF Counted, Sound
  <2>4. Children(p) \subseteq Agents \ {Root}
    BY DEF Children
  <2>5. Placed(p)' = Placed(p)
    BY <1>1, <1>3, <2>1, <2>2, <2>3, <2>4 DEF Placed
  <2>6. SpawnAt(p)'
    BY <1>1, <2>1, <2>2, <2>3, <2>4, <2>5 DEF SpawnAt
  <2>7. \A q \in Agents \ {p} : SpawnAt(q)' /\ ~Admits(spawn[q], spawn'[q], stopped')
    BY <1>1, <2>1, OtherSessions
  <2>8. SpawnInv'
    <3>1. \A q \in Agents : SpawnAt(q)'
      BY <2>6, <2>7
    <3>2. /\ permits' \subseteq Agents \ {Root} /\ at'[Root] \notin {"none", "slot"}
          /\ \A b \in permits' : at'[b] \in Active \cup {"ends"}
          /\ \A b \in Agents \ {Root} : at'[b] \in Active => b \in permits'
      BY <1>1, <2>1, TreeAssumption DEF SpawnInv, IInv, Active
    <3> QED BY <2>3, <3>1, <3>2 DEF SpawnInv, SpawnAt
  <2>9. SpawnCap
    BY <1>1, <2>2, <2>3, <2>7, SpawnCapAt DEF SpawnCap, IInv
  <2> QED BY <2>8, <2>9
<1> QED BY <1>2, <1>3

-----------------------------------------------------------------------------
(* The theorems.                                                           *)

\* The initial states.
LEMMA InitHolds == Init => IInv
<1> SUFFICES ASSUME Init PROVE IInv
  OBVIOUS
<1>1. Types
  BY TreeAssumption DEF Init, Types, Places
<1>2. \A m \in Nat : Counted(NewSemaphore(m), {}) /\ Waiting(NewSemaphore(m)) = {}
  <2> SUFFICES ASSUME NEW m \in Nat
               PROVE  Counted(NewSemaphore(m), {}) /\ Waiting(NewSemaphore(m)) = {}
    OBVIOUS
  <2>1. IsFiniteSet({}) /\ Cardinality({}) = 0
    BY FS_EmptySet
  <2>2. /\ NewSemaphore(m) \in Semaphores(Agents)
        /\ NewSemaphore(m).queue = <<>> /\ NewSemaphore(m).used = 0
    BY DEF NewSemaphore, Semaphores
  <2>3. Waiting(NewSemaphore(m)) = {} /\ Once(NewSemaphore(m)) /\ ~Idle(NewSemaphore(m))
    BY <2>2 DEF Waiting, Once, Idle
  <2> QED BY <2>1, <2>2, <2>3 DEF Counted, Sound
<1>3. ProviderInv
  <2>1. Counted(provider, {}) /\ Waiting(provider) = {}
    BY <1>1, <1>2 DEF Init, Types
  <2>2. Requesting = {}
    BY DEF Init, Requesting
  <2> QED BY <2>1, <2>2 DEF Init, ProviderInv
<1>4. SpawnInv
  <2>1. \A p \in Agents : Counted(spawn[p], {}) /\ Waiting(spawn[p]) = {}
    BY <1>1, <1>2 DEF Init, Types
  <2>2. \A p \in Agents : Placed(p) = {}
    BY DEF Init, Placed, Children
  <2>3. spawn \in [Agents -> Semaphores(Agents)]
    BY <2>1 DEF Init, Counted, Sound
  <2> QED BY <2>1, <2>2, <2>3, TreeAssumption DEF Init, SpawnInv, Active
<1> QED BY <1>1, <1>3, <1>4 DEF IInv

\* The types of what no semaphore knows.
LEMMA TypesKept == Types /\ [Next]_vars => Types'
<1> SUFFICES ASSUME Types, [Next]_vars PROVE Types'
  OBVIOUS
<1> USE DEF Types, Places
<1>1. ASSUME NEW a \in Agents, Enter(a) \/ Settle(a) \/ Call(a) \/ Request(a) PROVE Types'
  BY <1>1 DEF Enter, Settle, Call, Request
<1>2. ASSUME NEW a \in Agents, StreamSettles(a) \/ NextTurn(a) \/ Detach(a) PROVE Types'
  BY <1>2 DEF StreamSettles, NextTurn, Detach
<1>3. ASSUME NEW a \in Agents, Forward(a) \/ Abort(a) PROVE Types'
  BY <1>3 DEF Forward, Abort, Stop
<1>4. ASSUME NEW a \in Agents, Spawn(a, TRUE) \/ Spawn(a, FALSE) PROVE Types'
  BY <1>4 DEF Spawn
<1>5. CASE Change
  <2>1. /\ UNCHANGED <<at, calls, inline, stopped, aborts>> /\ changes' = changes + 1
        /\ providerLimit' \in ProviderLimits \cup {providerLimit}
        /\ spawnLimit' \in SpawnLimits \cup {spawnLimit}
    BY <1>5 DEF Change
  <2> QED BY <2>1, TreeAssumption
<1>6. CASE UNCHANGED vars
  BY <1>6 DEF vars
<1> QED BY <1>1, <1>2, <1>3, <1>4, <1>5, <1>6 DEF Next, Step

\* Every step keeps the invariant and the ceilings.
LEMMA NextHolds == IInv /\ [Next]_vars => IInv' /\ ProviderCap /\ SpawnCap
<1> SUFFICES ASSUME IInv, [Next]_vars PROVE IInv' /\ ProviderCap /\ SpawnCap
  OBVIOUS
<1> DEFINE P == ProviderInv' /\ ProviderCap
           S == SpawnInv' /\ SpawnCap
<1>1. Types'
  BY TypesKept DEF IInv
<1>2. ASSUME NEW a \in Agents, Enter(a) PROVE P /\ S
  <2>1. P
    BY <1>2, ProviderKept DEF Enter, IInv, Types, ProviderInv
  <2>2. S
    BY <1>2, EnterKeepsSpawn
  <2> QED BY <2>1, <2>2
<1>3. ASSUME NEW a \in Agents, Settle(a) PROVE P /\ S
  <2>1. P
    BY <1>3, ProviderKept DEF Settle, IInv, Types, ProviderInv
  <2>2. S
    BY <1>3, SettleKeepsSpawn
  <2> QED BY <2>1, <2>2
<1>4. ASSUME NEW a \in Agents, Call(a) PROVE P /\ S
  <2>1. P
    BY <1>4, CallKeepsProvider
  <2>2. S
    BY <1>4, SpawnKept DEF Call, IInv, Types, Active
  <2> QED BY <2>1, <2>2
<1>5. ASSUME NEW a \in Agents, Request(a) PROVE P /\ S
  <2>1. P
    BY <1>5, RequestKeepsProvider
  <2>2. S
    BY <1>5, SpawnKept DEF Request, IInv, Types, Active
  <2> QED BY <2>1, <2>2
<1>6. ASSUME NEW a \in Agents, StreamSettles(a) PROVE P /\ S
  <2>1. P
    BY <1>6, SettlesKeepsProvider
  <2>2. S
    BY <1>6, SpawnKept DEF StreamSettles, IInv, Types, Active
  <2> QED BY <2>1, <2>2
<1>7. ASSUME NEW a \in Agents, NextTurn(a) PROVE P /\ S
  <2>1. P
    BY <1>7, ProviderKept DEF NextTurn, IInv, Types, ProviderInv
  <2>2. S
    BY <1>7, SpawnKept DEF NextTurn, IInv, Types, Active
  <2> QED BY <2>1, <2>2
<1>8. ASSUME NEW a \in Agents, Stop(a) PROVE P /\ S
  BY <1>8, StopKeepsProvider, StopKeepsSpawn
<1>9. ASSUME NEW a \in Agents, Spawn(a, TRUE) \/ Spawn(a, FALSE) PROVE P /\ S
  <2>1. P
    BY <1>9, ProviderKept DEF Spawn, IInv, Types, ProviderInv
  <2>2. S
    BY <1>9, SpawnKeepsSpawn
  <2> QED BY <2>1, <2>2
<1>10. ASSUME UNCHANGED <<at, stopped, permits, streaming, provider, spawn>> PROVE P /\ S
  <2>1. P
    BY <1>10, ProviderKept DEF IInv
  <2>2. S
    BY <1>10, SpawnKept DEF IInv
  <2> QED BY <2>1, <2>2
<1>11. P /\ S
  BY <1>2, <1>3, <1>4, <1>5, <1>6, <1>7, <1>8, <1>9, <1>10
     DEF Next, Step, Forward, Abort, Detach, Change, vars
<1> QED BY <1>1, <1>11 DEF IInv

\* The inductive invariant, and what follows from it.
LEMMA IInvHolds == Spec => []IInv
BY InitHolds, NextHolds, PTL DEF Spec

\* TypeOK is an invariant: every queue holds waiting agents, each once, and
\* none whose signal is aborted.
THEOREM TypesHold == Spec => []TypeOK
<1>1. IInv => TypeOK
  BY DEF IInv, Types, ProviderInv, SpawnInv, Counted, Sound, TypeOK
<1> QED BY <1>1, IInvHolds, PTL

\* NoIdleSlot is an invariant: nobody waits while a slot is free.
THEOREM SlotsAreUsed == Spec => []NoIdleSlot
<1>1. IInv => NoIdleSlot
  BY DEF IInv, ProviderInv, SpawnInv, Counted, Idle, NoIdleSlot
<1> QED BY <1>1, IInvHolds, PTL

\* SlotsAccounted is an invariant: no abort, failure, detach or change of a
\* limit leaks a slot or gives one back twice.
THEOREM SlotsAreCounted == Spec => []SlotsAccounted
<1>1. IInv => SlotsAccounted
  BY DEF IInv, ProviderInv, SpawnInv, Counted, SlotsAccounted
<1> QED BY <1>1, IInvHolds, PTL

\* CapRespected: no admission exceeds the limit of its moment.
THEOREM LimitsHold == Spec => CapRespected
<1>1. IInv /\ [Next]_vars => [ProviderCap /\ SpawnCap]_vars
  BY NextHolds
<1> QED BY <1>1, IInvHolds, PTL DEF Spec, CapRespected, ProviderCap, SpawnCap

-----------------------------------------------------------------------------
(* The order of the queues.                                                *)

ProviderOrder ==
    /\ ~Overtakes(provider, provider', stopped')
    /\ \A a \in Requesting' \ (Requesting \cup Waiting(provider)) : provider'.queue = <<>>

SpawnOrder(p) ==
    /\ ~Overtakes(spawn[p], spawn'[p], stopped')
    /\ \A a \in Placed(p)' \ (Placed(p) \cup Waiting(spawn[p])) : spawn'[p].queue = <<>>

LEMMA NoNewRequests ==
    ASSUME \A b \in streaming' : b \in streaming \/ (b \in Agents /\ at[b] = "provider"),
           \A b \in Agents : at'[b] = "provider" => at[b] = "provider"
    PROVE  Requesting' \subseteq Requesting \cup Waiting(provider)
BY DEF Requesting

LEMMA NoNewSubagents ==
    ASSUME at \in [Agents -> Places], NEW p,
           \A b \in Children(p) : /\ at[b] \in {"none", "done"} => at'[b] = at[b]
                                  /\ at[b] = "ends" => at'[b] \in {"ends", "done"}
                                                       /\ (b \in permits' => b \in permits)
    PROVE  Placed(p)' \subseteq Placed(p) \cup Waiting(spawn[p])
<1>1. \A b \in Children(p) : at[b] \in Places
  BY DEF Children
<1>2. ASSUME NEW b \in Placed(p)', b \notin Waiting(spawn[p])
      PROVE  b \in Placed(p)
  <2>1. /\ b \in Children(p) /\ at'[b] \in {"call", "provider", "stream", "tools", "ends", "slot"}
        /\ at'[b] = "ends" => b \in permits'
    BY DEF Placed
  <2>2. at[b] \notin {"none", "done"} /\ (at[b] = "ends" => b \in permits)
    <3>1. at[b] \in {"none", "done"} => at'[b] = at[b]
      BY <2>1
    <3>2. at[b] = "ends" => at'[b] \in {"ends", "done"} /\ (b \in permits' => b \in permits)
      BY <2>1
    <3> QED BY <2>1, <3>1, <3>2
  <2>3. at[b] \in {"call", "provider", "stream", "tools"} \/ at[b] = "ends" \/ at[b] = "slot"
    BY <1>1, <2>1, <2>2 DEF Places
  <2> QED BY <1>2, <2>1, <2>2, <2>3 DEF Placed
<1> QED BY <1>2

\* Steps that admit nobody to a model request.
LEMMA ProviderAsItWas ==
    ASSUME Waiting(provider) \subseteq Waiting(provider') \cup stopped',
           \A b \in streaming' : b \in streaming \/ (b \in Agents /\ at[b] = "provider"),
           \A b \in Agents : at'[b] = "provider" => at[b] = "provider"
    PROVE  ProviderOrder
<1>1. Requesting' \subseteq Requesting \cup Waiting(provider)
  BY NoNewRequests
<1>2. ~Overtakes(provider, provider', stopped')
  BY NobodyOvertakes
<1> QED BY <1>1, <1>2 DEF ProviderOrder

LEMMA ProviderInOrder == IInv /\ [Next]_vars => ProviderOrder
<1> SUFFICES ASSUME IInv, [Next]_vars PROVE ProviderOrder
  OBVIOUS
<1>1. /\ at \in [Agents -> Places] /\ providerLimit \in Nat /\ Sound(provider, Agents) /\ ~Idle(provider)
      /\ \A b \in Waiting(provider) : at[b] = "provider"
  BY DEF IInv, Types, ProviderInv, Counted
<1>2. ASSUME NEW a \in Agents, Enter(a) \/ Settle(a) \/ NextTurn(a) \/ Detach(a) PROVE ProviderOrder
  BY <1>1, <1>2, ProviderAsItWas DEF Enter, Settle, NextTurn, Detach
<1>3. ASSUME NEW a \in Agents, Request(a) PROVE ProviderOrder
  BY <1>1, <1>3, ProviderAsItWas DEF Request
<1>4. ASSUME NEW a \in Agents, Spawn(a, TRUE) \/ Spawn(a, FALSE) PROVE ProviderOrder
  BY <1>1, <1>4, ProviderAsItWas DEF Spawn
<1>5. ASSUME NEW a \in Agents, StreamSettles(a) PROVE ProviderOrder
  <2>1. /\ provider' = Release(provider) /\ streaming' = streaming \ {a}
        /\ \A b \in Agents : at'[b] = "provider" => at[b] = "provider"
    BY <1>1, <1>5 DEF StreamSettles
  <2>2. provider.used > 0
    <3>1. a \in Requesting
      BY <1>5 DEF StreamSettles, Requesting
    <3> QED BY <3>1, CountOne DEF IInv, ProviderInv, Counted
  <2>3. ~Overtakes(provider, provider', stopped')
    BY <1>1, <2>1, <2>2, ReleaseInOrder
  <2>4. Requesting' \subseteq Requesting \cup Waiting(provider)
    BY <2>1, NoNewRequests
  <2> QED BY <2>3, <2>4 DEF ProviderOrder
<1>6. ASSUME NEW a \in Agents, Call(a) PROVE ProviderOrder
  <2>1. /\ provider' = IF a \in stopped THEN Resize(provider, providerLimit)
                       ELSE Acquire(Resize(provider, providerLimit), a)
        /\ at' = [at EXCEPT ![a] = IF a \in stopped THEN "ends" ELSE "provider"]
        /\ at[a] = "call" /\ streaming' = streaming /\ a \notin Waiting(provider)
    BY <1>1, <1>6 DEF Call
  <2>2. CASE a \in stopped
    <3>1. PICK n : Shift(provider, provider', n)
      BY <1>1, <2>1, <2>2, ResizeShifts
    <3>2. Sound(provider', Agents)
      BY <1>1, <2>1, <2>2, ResizeFacts
    <3>3. ~Overtakes(provider, provider', stopped')
      BY <1>1, <3>1, <3>2, ShiftOvertakesNobody
    <3>4. Requesting' \subseteq Requesting \cup Waiting(provider)
      BY <1>1, <2>1, <2>2, NoNewRequests
    <3> QED BY <3>3, <3>4 DEF ProviderOrder
  <2>3. CASE a \notin stopped
    <3>1. ~Overtakes(provider, provider', stopped') /\ (a \notin Waiting(provider') => provider'.queue = <<>>)
      BY <1>1, <2>1, <2>3, TakeInOrder
    <3>2. \A b \in Requesting' \ (Requesting \cup Waiting(provider)) : b = a /\ a \notin Waiting(provider')
      BY <1>1, <2>1, <2>3 DEF Requesting
    <3> QED BY <3>1, <3>2 DEF ProviderOrder
  <2> QED BY <2>2, <2>3
<1>7. ASSUME NEW a \in Agents, Stop(a) PROVE ProviderOrder
  <2>1. /\ provider' = IF at[a] = "provider" THEN Leave(provider, a) ELSE provider
        /\ stopped' = stopped \cup {a} /\ streaming' = streaming
        /\ \A b \in Agents : at'[b] = "provider" => at[b] = "provider"
    BY <1>1, <1>7 DEF Stop
  <2>2. Waiting(provider) \subseteq Waiting(provider') \cup stopped'
    BY <1>1, <2>1, LeaveFacts
  <2> QED BY <2>1, <2>2, ProviderAsItWas
<1>8. ASSUME UNCHANGED <<at, stopped, streaming, provider>> PROVE ProviderOrder
  BY <1>8, ProviderAsItWas
<1> QED BY <1>2, <1>3, <1>4, <1>5, <1>6, <1>7, <1>8 DEF Next, Step, Forward, Abort, Change, vars

\* Steps that admit nobody to a slot of the session p.
LEMMA SessionAsItWas ==
    ASSUME at \in [Agents -> Places], NEW p, Waiting(spawn[p]) \subseteq Waiting(spawn'[p]) \cup stopped',
           \A b \in Children(p) : /\ at[b] \in {"none", "done"} => at'[b] = at[b]
                                  /\ at[b] = "ends" => at'[b] \in {"ends", "done"}
                                                       /\ (b \in permits' => b \in permits)
    PROVE  SpawnOrder(p)
<1>1. Placed(p)' \subseteq Placed(p) \cup Waiting(spawn[p])
  BY NoNewSubagents
<1>2. ~Overtakes(spawn[p], spawn'[p], stopped')
  BY NobodyOvertakes
<1> QED BY <1>1, <1>2 DEF SpawnOrder

LEMMA SpawnInOrder == ASSUME IInv, [Next]_vars, NEW p \in Agents PROVE SpawnOrder(p)
<1>1. /\ at \in [Agents -> Places] /\ spawnLimit \in Nat /\ spawn \in [Agents -> Semaphores(Agents)]
      /\ Sound(spawn[p], Agents) /\ ~Idle(spawn[p])
      /\ \A b \in Waiting(spawn[p]) : at[b] = "slot"
      /\ permits \subseteq Agents \ {Root} /\ \A b \in permits : at[b] # "slot"
  BY DEF IInv, Types, SpawnInv, Counted, Active
<1>2. /\ Children(p) \subseteq Agents \ {Root} /\ \A b \in Children(p) : Parent[b] = p
      /\ \A b \in Agents \ {Root} : Parent[b] = p => b \in Children(p)
  BY DEF Children
<1>3. ASSUME NEW a \in Agents, Call(a) \/ Request(a) \/ StreamSettles(a) \/ NextTurn(a) \/ Detach(a)
      PROVE  SpawnOrder(p)
  <2>1. /\ UNCHANGED <<spawn, permits>>
        /\ \A b \in Agents : at[b] \in {"none", "done", "ends"} => at'[b] = at[b]
    BY <1>1, <1>3 DEF Call, Request, StreamSettles, NextTurn, Detach
  <2> QED BY <1>1, <1>2, <2>1, SessionAsItWas
<1>4. ASSUME NEW a \in Agents, Enter(a) PROVE SpawnOrder(p)
  <2>1. /\ UNCHANGED spawn /\ at[a] = "slot" /\ permits' = permits \cup {a}
        /\ \A b \in Agents : at[b] \in {"none", "done", "ends"} => at'[b] = at[b]
    BY <1>1, <1>4 DEF Enter
  <2> QED BY <1>1, <1>2, <2>1, SessionAsItWas
<1>5. ASSUME NEW a \in Agents, Settle(a) PROVE SpawnOrder(p)
  <2>1. /\ at[a] = "ends" /\ at' = [at EXCEPT ![a] = "done"] /\ permits' = permits \ {a}
        /\ spawn' = IF a \in permits
                    THEN [spawn EXCEPT ![Parent[a]] = Release(Resize(@, spawnLimit))] ELSE spawn
    BY <1>5 DEF Settle
  <2>2. \A b \in Agents : /\ at[b] \in {"none", "done"} => at'[b] = at[b]
                          /\ at[b] = "ends" => at'[b] \in {"ends", "done"}
                                               /\ (b \in permits' => b \in permits)
    BY <1>1, <2>1
  <2>3. CASE a \in permits /\ Parent[a] = p
    <3>1. spawn'[p] = Release(Resize(spawn[p], spawnLimit))
      BY <1>1, <2>1, <2>3
    <3>2. spawn[p].used > 0
      <4>1. a \in Placed(p)
        BY <1>1, <1>2, <2>1, <2>3 DEF Placed
      <4> QED BY <4>1, CountOne DEF IInv, SpawnInv, Counted
    <3>3. ~Overtakes(spawn[p], spawn'[p], stopped')
      BY <1>1, <3>1, <3>2, GiveInOrder
    <3>4. Placed(p)' \subseteq Placed(p) \cup Waiting(spawn[p])
      BY <1>1, <1>2, <2>2, NoNewSubagents
    <3> QED BY <3>3, <3>4 DEF SpawnOrder
  <2>4. CASE ~(a \in permits /\ Parent[a] = p)
    <3>1. spawn'[p] = spawn[p]
      BY <1>1, <2>1, <2>4
    <3> QED BY <1>1, <1>2, <2>2, <3>1, SessionAsItWas
  <2> QED BY <2>3, <2>4
<1>6. ASSUME NEW a \in Agents, NEW i, Spawn(a, i) PROVE SpawnOrder(p)
  <2>1. /\ a # Root /\ at[a] = "none" /\ at' = [at EXCEPT ![a] = "slot"] /\ permits' = permits
        /\ spawn' = [spawn EXCEPT ![Parent[a]] = Acquire(Resize(@, spawnLimit), a)]
    BY <1>6 DEF Spawn
  <2>2. CASE Parent[a] = p
    <3>1. spawn'[p] = Acquire(Resize(spawn[p], spawnLimit), a) /\ a \notin Waiting(spawn[p])
      BY <1>1, <2>1, <2>2
    <3>2. ~Overtakes(spawn[p], spawn'[p], stopped') /\ (a \notin Waiting(spawn'[p]) => spawn'[p].queue = <<>>)
      BY <1>1, <3>1, TakeInOrder
    <3>3. \A b \in Placed(p)' \ (Placed(p) \cup Waiting(spawn[p])) : b = a /\ a \notin Waiting(spawn'[p])
      BY <1>1, <1>2, <2>1 DEF Placed
    <3> QED BY <3>2, <3>3 DEF SpawnOrder
  <2>3. CASE Parent[a] # p
    <3>1. spawn'[p] = spawn[p] /\ a \notin Children(p)
      BY <1>1, <1>2, <2>1, <2>3
    <3> QED BY <1>1, <1>2, <2>1, <3>1, SessionAsItWas
  <2> QED BY <2>2, <2>3
<1>7. ASSUME NEW a \in Agents, Stop(a) PROVE SpawnOrder(p)
  <2>1. /\ spawn' = IF at[a] = "slot" THEN [spawn EXCEPT ![Parent[a]] = Leave(@, a)] ELSE spawn
        /\ stopped' = stopped \cup {a} /\ permits' = permits
        /\ \A b \in Agents : at[b] \in {"none", "done", "ends"} => at'[b] = at[b]
    BY <1>1, <1>7 DEF Stop
  <2>2. Waiting(spawn[p]) \subseteq Waiting(spawn'[p]) \cup stopped'
    <3>1. spawn'[p] = spawn[p] \/ spawn'[p] = Leave(spawn[p], a)
      BY <1>1, <2>1
    <3> QED BY <1>1, <2>1, <3>1, LeaveFacts
  <2> QED BY <1>1, <1>2, <2>1, <2>2, SessionAsItWas
<1>8. ASSUME UNCHANGED <<at, stopped, permits, spawn>> PROVE SpawnOrder(p)
  BY <1>1, <1>8, SessionAsItWas
<1> QED BY <1>3, <1>4, <1>5, <1>6, <1>7, <1>8 DEF Next, Step, Forward, Abort, Change, vars

InOrder ==
    /\ ~Overtakes(provider, provider', stopped')
    /\ \A p \in Agents : ~Overtakes(spawn[p], spawn'[p], stopped')
    /\ \A a \in Requesting' \ (Requesting \cup Waiting(provider)) : provider'.queue = <<>>
    /\ \A p \in Agents : \A a \in Placed(p)' \ (Placed(p) \cup Waiting(spawn[p])) :
           spawn'[p].queue = <<>>

\* FirstComeFirstServed: whatever limits are changed, waiters are aborted or slots
\* given back, nobody is admitted before one who asked earlier and still waits.
THEOREM ServedInOrder == Spec => FirstComeFirstServed
<1>1. IInv /\ [Next]_vars => InOrder
  BY ProviderInOrder, SpawnInOrder DEF ProviderOrder, SpawnOrder, InOrder
<1>2. IInv /\ [Next]_vars => [InOrder]_vars
  BY <1>1
<1> QED BY <1>2, IInvHolds, PTL DEF Spec, FirstComeFirstServed, InOrder
=============================================================================
