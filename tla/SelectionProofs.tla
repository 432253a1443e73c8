-------------------------- MODULE SelectionProofs ---------------------------
(***************************************************************************)
(* What the queues and tables of the daemon are after a step: a selection  *)
(* of a sequence, an element taken out of it, sequences put together.      *)
(***************************************************************************)
EXTENDS Selection, Functions, SequenceTheorems, WellFoundedInduction, TLAPS

Once(s) == \A i, j \in DOMAIN s : s[i] = s[j] => i = j

\* Numbers have a least, which is how the lemmas on Only go by induction.
LEMMA LeastNumber ==
    ASSUME NEW S \in SUBSET Nat, S # {}
    PROVE  \E x \in S : \A y \in S : x <= y
<1>1. PICK x \in S : \A y \in S : ~(<<y, x>> \in OpToRel(<, Nat))
  BY NatLessThanWellFounded, WFMin
<1>2. \A y \in S : x <= y
  <2> SUFFICES ASSUME NEW y \in S, y < x PROVE FALSE
    OBVIOUS
  <2>1. <<y, x>> \in Nat \X Nat /\ <<y, x>>[1] < <<y, x>>[2]
    OBVIOUS
  <2>2. <<y, x>> \in OpToRel(<, Nat)
    BY <2>1 DEF OpToRel
  <2> QED
    BY <1>1, <2>2
<1> QED
  BY <1>2

\* The step of the recursion in Only.
Step(s, T, g, n) ==
    IF n = 0 THEN <<>> ELSE IF s[n] \in T THEN Append(g[n - 1], s[n]) ELSE g[n - 1]

LEMMA OnlyDefined ==
    ASSUME NEW S, NEW s \in Seq(S), NEW T
    PROVE  \A m \in 0..Len(s) : \E g : g = [n \in 0..m |-> Step(s, T, g, n)]
<1> DEFINE Bad == {m \in 0..Len(s) : ~ \E g : g = [n \in 0..m |-> Step(s, T, g, n)]}
<1> SUFFICES ASSUME Bad # {} PROVE FALSE
  OBVIOUS
<1>1. Bad \in SUBSET Nat
  BY LenProperties
<1>2. PICK m \in Bad : \A y \in Bad : m <= y
  BY <1>1, LeastNumber
<1>3. m \in Nat /\ m \in 0..Len(s) /\ Len(s) \in Nat
  BY <1>2, LenProperties
<1>4. m # 0
  <2> SUFFICES ASSUME m = 0 PROVE FALSE
    OBVIOUS
  <2> DEFINE g == [n \in 0..0 |-> <<>>]
  <2>1. g = [n \in 0..m |-> Step(s, T, g, n)]
    BY DEF Step
  <2> QED
    BY <1>2, <2>1
<1>5. m - 1 \in 0..Len(s) /\ ~(m <= m - 1)
  BY <1>3, <1>4
<1>6. PICK g : g = [n \in 0..m - 1 |-> Step(s, T, g, n)]
  BY <1>2, <1>5
<1> DEFINE h == [n \in 0..m |-> IF n = m THEN Step(s, T, g, m) ELSE g[n]]
<1>7. \A n \in 0..m : h[n] = Step(s, T, h, n)
  <2> SUFFICES ASSUME NEW n \in 0..m PROVE h[n] = Step(s, T, h, n)
    OBVIOUS
  <2>1. n # 0 => h[n - 1] = g[n - 1]
    BY <1>3
  <2>2. n # m => g[n] = Step(s, T, g, n)
    <3>1. n # m => n \in 0..m - 1
      BY <1>3
    <3> QED
      BY <1>6, <3>1
  <2>3. h[n] = Step(s, T, g, n)
    BY <2>2
  <2> QED
    BY <2>1, <2>3 DEF Step
<1>8. h = [n \in 0..m |-> Step(s, T, h, n)]
  BY <1>7
<1> QED
  BY <1>2, <1>8

LEMMA OnlySteps ==
    ASSUME NEW S, NEW s \in Seq(S), NEW T
    PROVE  \E g : /\ Only(s, T) = g[Len(s)]
                  /\ g[0] = <<>>
                  /\ \A n \in 1..Len(s) : g[n] = IF s[n] \in T THEN Append(g[n - 1], s[n]) ELSE g[n - 1]
<1> DEFINE g == CHOOSE g : g = [n \in 0..Len(s) |-> Step(s, T, g, n)]
<1>1. g = [n \in 0..Len(s) |-> Step(s, T, g, n)]
  <2>1. Len(s) \in Nat
    BY LenProperties
  <2>2. Len(s) \in 0..Len(s)
    BY <2>1
  <2>3. \E f : f = [n \in 0..Len(s) |-> Step(s, T, f, n)]
    BY <2>2, OnlyDefined, Zenon
  <2> QED
    BY <2>3, Zenon
<1>2. Only(s, T) = g[Len(s)]
  BY DEF Only, Step
<1>3. \A n \in 0..Len(s) : g[n] = Step(s, T, g, n)
  BY <1>1
<1> HIDE DEF g
<1>4. Len(s) \in Nat
  BY LenProperties
<1> QED
  BY <1>2, <1>3, <1>4 DEF Step

LEMMA OnlySelects ==
    ASSUME NEW S, NEW s \in Seq(S), NEW T
    PROVE  /\ Only(s, T) \in Seq(S)
           /\ Range(Only(s, T)) = Range(s) \cap T
           /\ Once(s) => Once(Only(s, T))
<1> DEFINE N == Len(s)
<1>1. PICK g : /\ Only(s, T) = g[N]
               /\ g[0] = <<>>
               /\ \A n \in 1..N : g[n] = IF s[n] \in T THEN Append(g[n - 1], s[n]) ELSE g[n - 1]
  BY OnlySteps
<1> DEFINE Good(n) == /\ g[n] \in Seq(S)
                      /\ Range(g[n]) = {s[k] : k \in 1..n} \cap T
                      /\ Once(s) => Once(g[n])
           Bad == {n \in 0..N : ~Good(n)}
<1>2. N \in Nat /\ DOMAIN s = 1..N /\ \A n \in 1..N : s[n] \in S
  BY LenProperties, ElementOfSeq
<1>3. Good(0)
  BY <1>1 DEF Range, Once
<1>4. ASSUME NEW n \in 1..N, Good(n - 1) PROVE Good(n)
  <2>1. n - 1 \in 0..N /\ n - 1 \in Nat /\ {s[k] : k \in 1..n} = {s[k] : k \in 1..n - 1} \cup {s[n]}
    <3>1. 1..n = (1..n - 1) \cup {n}
      BY <1>2
    <3> QED
      BY <1>2, <3>1
  <2>2. CASE s[n] \notin T
    BY <1>1, <1>4, <2>1, <2>2
  <2>3. CASE s[n] \in T
    <3> DEFINE t == g[n - 1]
    <3>1. g[n] = Append(t, s[n]) /\ t \in Seq(S) /\ s[n] \in S
      BY <1>1, <1>2, <1>4, <2>3
    <3> HIDE DEF t
    <3>2. /\ g[n] \in Seq(S) /\ Len(t) \in Nat /\ DOMAIN g[n] = 1..Len(t) + 1 /\ DOMAIN t = 1..Len(t)
          /\ g[n][Len(t) + 1] = s[n] /\ \A k \in 1..Len(t) : g[n][k] = t[k]
      BY <3>1, AppendProperties, LenProperties
    <3>3. Range(g[n]) = Range(t) \cup {s[n]}
      <4>1. DOMAIN g[n] = DOMAIN t \cup {Len(t) + 1}
        BY <3>2
      <4> QED
        BY <3>2, <4>1 DEF Range
    <3>4. Range(t) = {s[k] : k \in 1..n - 1} \cap T /\ (Once(s) => Once(t))
      BY <1>4 DEF t
    <3>5. Once(s) => Once(g[n])
      <4> SUFFICES ASSUME Once(s), NEW i \in DOMAIN g[n], NEW j \in DOMAIN g[n], g[n][i] = g[n][j], i # j
                   PROVE  FALSE
        BY DEF Once
      <4>1. \A k \in DOMAIN t : t[k] # s[n]
        <5> SUFFICES ASSUME NEW k \in DOMAIN t, t[k] = s[n] PROVE FALSE
          OBVIOUS
        <5>1. t[k] \in Range(t)
          BY DEF Range
        <5>2. PICK l \in 1..n - 1 : t[k] = s[l]
          BY <3>4, <5>1
        <5>3. l \in DOMAIN s /\ n \in DOMAIN s /\ l # n
          BY <1>2
        <5> QED
          BY <5>2, <5>3 DEF Once
      <4> QED
        BY <3>2, <3>4, <4>1 DEF Once
    <3> QED
      BY <2>1, <2>3, <3>2, <3>3, <3>4, <3>5
  <2> QED
    BY <2>2, <2>3
<1>5. Good(N)
  <2> SUFFICES ASSUME Bad # {} PROVE FALSE
    <3>1. N \in 0..N
      BY <1>2
    <3> QED
      BY <3>1
  <2>1. PICK m \in Bad : \A y \in Bad : m <= y
    <3>1. Bad \in SUBSET Nat
      BY <1>2
    <3> QED
      BY <3>1, LeastNumber
  <2>2. m \in 0..N /\ ~Good(m)
    BY <2>1
  <2>3. m # 0
    BY <1>3, <2>2
  <2>4. m \in 1..N /\ m - 1 \in 0..N /\ ~(m <= m - 1)
    BY <1>2, <2>2, <2>3
  <2>5. Good(m - 1)
    BY <2>1, <2>4
  <2> QED
    BY <1>4, <2>2, <2>4, <2>5
<1>6. Range(s) = {s[k] : k \in 1..N}
  BY <1>2 DEF Range
<1> QED
  BY <1>1, <1>5, <1>6

\* Deliver takes the k-th away.
LEMMA RangeRemove ==
    ASSUME NEW S, NEW s \in Seq(S), NEW k \in DOMAIN s, Once(s)
    PROVE  LET t == SubSeq(s, 1, k - 1) \o SubSeq(s, k + 1, Len(s)) IN
           t \in Seq(S) /\ Range(t) = Range(s) \ {s[k]} /\ Once(t)
<1> DEFINE a == SubSeq(s, 1, k - 1)
           b == SubSeq(s, k + 1, Len(s))
           t == a \o b
           N == Len(s)
<1>1. N \in Nat /\ DOMAIN s = 1..N /\ k \in 1..N /\ \A i \in 1..N : s[i] \in S
  BY LenProperties, ElementOfSeq
<1>2. /\ a \in Seq(S) /\ Len(a) = k - 1 /\ \A i \in 1..k - 1 : a[i] = s[i]
      /\ b \in Seq(S) /\ Len(b) = N - k /\ \A i \in 1..N - k : b[i] = s[k + i]
  <2>1. a \in Seq(S) /\ Len(a) = k - 1 /\ \A i \in 1..k - 1 : a[i] = s[i]
    <3>1. \A i \in 1..k - 1 : s[i] \in S
      BY <1>1
    <3>2. 1 \in Int /\ k - 1 \in Int
      BY <1>1
    <3>3. /\ a \in Seq(S) /\ Len(a) = IF 1 <= k - 1 THEN k - 1 - 1 + 1 ELSE 0
          /\ \A i \in 1..k - 1 - 1 + 1 : a[i] = s[1 + i - 1]
      BY <3>1, <3>2, SubSeqProperties DEF a
    <3> HIDE DEF a
    <3> QED
      BY <1>1, <3>3
  <2>2. b \in Seq(S) /\ Len(b) = N - k /\ \A i \in 1..N - k : b[i] = s[k + i]
    <3>1. \A i \in k + 1..N : s[i] \in S
      BY <1>1
    <3>2. k + 1 \in Int /\ N \in Int
      BY <1>1
    <3>3. /\ b \in Seq(S) /\ Len(b) = IF k + 1 <= N THEN N - (k + 1) + 1 ELSE 0
          /\ \A i \in 1..N - (k + 1) + 1 : b[i] = s[k + 1 + i - 1]
      BY <3>1, <3>2, SubSeqProperties DEF b
    <3> HIDE DEF b
    <3>4. N - (k + 1) + 1 = N - k /\ \A i \in 1..N - k : k + 1 + i - 1 = k + i
      BY <1>1
    <3> QED
      BY <1>1, <3>3, <3>4
  <2> QED
    BY <2>1, <2>2
<1> HIDE DEF a, b
<1>3. /\ t \in Seq(S) /\ Len(t) = N - 1 /\ DOMAIN t = 1..N - 1
      /\ \A i \in 1..N - 1 : t[i] = IF i < k THEN s[i] ELSE s[i + 1]
  <2>1. /\ t \in Seq(S) /\ Len(t) = (k - 1) + (N - k)
        /\ \A i \in 1..(k - 1) + (N - k) : t[i] = IF i <= k - 1 THEN a[i] ELSE b[i - (k - 1)]
    <3>1. a \in Seq(S) /\ b \in Seq(S)
      BY <1>2
    <3>2. /\ t \in Seq(S) /\ Len(t) = Len(a) + Len(b)
          /\ \A i \in 1..Len(a) + Len(b) : t[i] = IF i <= Len(a) THEN a[i] ELSE b[i - Len(a)]
      BY <3>1, ConcatProperties
    <3> QED
      BY <1>2, <3>2
  <2>2. (k - 1) + (N - k) = N - 1 /\ N - 1 \in Nat
    BY <1>1
  <2>3. DOMAIN t = 1..N - 1
    BY <2>1, <2>2, LenProperties
  <2>4. ASSUME NEW i \in 1..N - 1 PROVE t[i] = IF i < k THEN s[i] ELSE s[i + 1]
    <3>1. CASE i < k
      BY <1>1, <1>2, <2>1, <2>2, <3>1
    <3>2. CASE ~(i < k)
      <4>1. i - (k - 1) \in 1..N - k /\ k + (i - (k - 1)) = i + 1 /\ ~(i <= k - 1)
        BY <1>1, <3>2
      <4>2. b[i - (k - 1)] = s[i + 1]
        BY <1>2, <4>1
      <4> QED
        BY <2>1, <2>2, <3>2, <4>1, <4>2
    <3> QED
      BY <3>1, <3>2
  <2> QED
    BY <2>1, <2>2, <2>3, <2>4
<1> HIDE DEF t
<1>4. Range(t) = Range(s) \ {s[k]}
  <2>1. ASSUME NEW x \in Range(t) PROVE x \in Range(s) \ {s[k]}
    <3>1. PICK i \in 1..N - 1 : x = t[i]
      BY <1>3 DEF Range
    <3>2. CASE i < k
      <4>1. i \in 1..N /\ i # k /\ x = s[i]
        BY <1>1, <1>3, <3>1, <3>2
      <4> QED
        BY <1>1, <4>1 DEF Range, Once
    <3>3. CASE ~(i < k)
      <4>1. i + 1 \in 1..N /\ i + 1 # k /\ x = s[i + 1]
        BY <1>1, <1>3, <3>1, <3>3
      <4> QED
        BY <1>1, <4>1 DEF Range, Once
    <3> QED
      BY <3>2, <3>3
  <2>2. ASSUME NEW x \in Range(s) \ {s[k]} PROVE x \in Range(t)
    <3>1. PICK i \in 1..N : x = s[i]
      BY <1>1 DEF Range
    <3>2. i # k
      BY <3>1
    <3>3. CASE i < k
      BY <1>1, <1>3, <3>1, <3>3 DEF Range
    <3>4. CASE i > k
      <4>1. i - 1 \in 1..N - 1 /\ t[i - 1] = s[i]
        BY <1>1, <1>3, <3>1, <3>4
      <4> QED
        BY <1>3, <3>1, <4>1 DEF Range
    <3> QED
      BY <1>1, <3>2, <3>3, <3>4
  <2> QED
    BY <2>1, <2>2
<1>5. Once(t)
  <2> SUFFICES ASSUME NEW i \in 1..N - 1, NEW j \in 1..N - 1, t[i] = t[j] PROVE i = j
    BY <1>3 DEF Once
  <2> DEFINE at(n) == IF n < k THEN n ELSE n + 1
  <2>1. at(i) \in 1..N /\ at(j) \in 1..N /\ t[i] = s[at(i)] /\ t[j] = s[at(j)]
    BY <1>1, <1>3
  <2>2. at(i) = at(j)
    BY <1>1, <2>1 DEF Once
  <2> QED
    BY <1>1, <2>2
<1>6. t = SubSeq(s, 1, k - 1) \o SubSeq(s, k + 1, Len(s))
  BY DEF t, a, b
<1>7. t \in Seq(S) /\ Range(t) = Range(s) \ {s[k]} /\ Once(t)
  BY <1>3, <1>4, <1>5
<1> QED
  BY <1>6, <1>7

-----------------------------------------------------------------------------
(* Sequences put together.                                                 *)

\* Under a name, so that the provers take it apart only where they are told to.
Cat(s, t) == s \o t

Joined(s, t, u) ==
    /\ DOMAIN s = 1..Len(s) /\ DOMAIN t = 1..Len(t) /\ DOMAIN u = 1..Len(s) + Len(t)
    /\ Len(s) \in Nat /\ Len(t) \in Nat
    /\ \A i \in 1..Len(s) : u[i] = s[i]
    /\ \A i \in 1..Len(t) : u[Len(s) + i] = t[i]

LEMMA CatFacts ==
    ASSUME NEW S, NEW s \in Seq(S), NEW t \in Seq(S)
    PROVE  /\ Cat(s, t) \in Seq(S) /\ Range(Cat(s, t)) = Range(s) \cup Range(t)
           /\ Joined(s, t, Cat(s, t))
<1> DEFINE u == Cat(s, t)
<1>1. /\ Len(s) \in Nat /\ DOMAIN s = 1..Len(s) /\ Len(t) \in Nat /\ DOMAIN t = 1..Len(t)
      /\ u \in Seq(S) /\ Len(u) = Len(s) + Len(t) /\ DOMAIN u = 1..Len(u)
      /\ \A i \in 1..Len(s) + Len(t) : u[i] = IF i <= Len(s) THEN s[i] ELSE t[i - Len(s)]
  <2>1. /\ u \in Seq(S) /\ Len(u) = Len(s) + Len(t)
        /\ \A i \in 1..Len(s) + Len(t) : u[i] = IF i <= Len(s) THEN s[i] ELSE t[i - Len(s)]
    BY ConcatProperties DEF Cat
  <2> HIDE DEF u
  <2> QED
    BY <2>1, LenProperties
<1> HIDE DEF u
<1>2. \A i \in 1..Len(s) : i \in DOMAIN u /\ u[i] = s[i]
  BY <1>1
<1>3. ASSUME NEW i \in 1..Len(t) PROVE Len(s) + i \in DOMAIN u /\ u[Len(s) + i] = t[i]
  <2>1. Len(s) + i \in 1..Len(s) + Len(t) /\ ~(Len(s) + i <= Len(s)) /\ (Len(s) + i) - Len(s) = i
    BY <1>1
  <2> QED
    BY <1>1, <2>1
<1>4. ASSUME NEW i \in DOMAIN u PROVE u[i] \in Range(s) \cup Range(t)
  <2>1. CASE i <= Len(s)
    BY <1>1, <2>1 DEF Range
  <2>2. CASE ~(i <= Len(s))
    <3>1. i - Len(s) \in 1..Len(t)
      BY <1>1, <2>2
    <3> QED
      BY <1>1, <2>2, <3>1 DEF Range
  <2> QED
    BY <2>1, <2>2
<1>5. Range(u) = Range(s) \cup Range(t)
  <2>1. Range(u) \subseteq Range(s) \cup Range(t)
    BY <1>4 DEF Range
  <2>2. Range(s) \subseteq Range(u)
    BY <1>1, <1>2 DEF Range
  <2>3. Range(t) \subseteq Range(u)
    <3> SUFFICES ASSUME NEW i \in 1..Len(t) PROVE t[i] \in Range(u)
      BY <1>1 DEF Range
    <3> QED
      BY <1>3 DEF Range
  <2> QED
    BY <2>1, <2>2, <2>3
<1> QED
  BY <1>1, <1>2, <1>3, <1>5 DEF u, Joined

LEMMA CatGroups ==
    ASSUME NEW S, NEW a \in Seq(S), NEW b \in Seq(S), NEW c \in Seq(S)
    PROVE  Cat(Cat(a, b), c) = Cat(a, Cat(b, c))
  BY ConcatAssociative DEF Cat

LEMMA AppendFacts ==
    ASSUME NEW S, NEW s \in Seq(S), NEW x \in S
    PROVE  /\ Append(s, x) \in Seq(S) /\ Range(Append(s, x)) = Range(s) \cup {x}
           /\ x \notin Range(s) /\ Once(s) => Once(Append(s, x))
<1> DEFINE t == Append(s, x)
<1>1. /\ t \in Seq(S) /\ Len(s) \in Nat /\ DOMAIN t = 1..Len(s) + 1 /\ DOMAIN s = 1..Len(s)
      /\ t[Len(s) + 1] = x /\ \A k \in 1..Len(s) : t[k] = s[k]
  BY AppendProperties, LenProperties
<1> HIDE DEF t
<1>2. DOMAIN t = DOMAIN s \cup {Len(s) + 1}
  BY <1>1
<1>3. Range(t) = Range(s) \cup {x}
  BY <1>1, <1>2 DEF Range
<1>4. x \notin Range(s) /\ Once(s) => Once(t)
  BY <1>1 DEF Once, Range
<1> QED
  BY <1>1, <1>3, <1>4 DEF t

\* The sequences of one element and of none.
LEMMA Shortest ==
    ASSUME NEW S
    PROVE  /\ <<>> \in Seq(S) /\ Range(<<>>) = {}
           /\ \A s \in Seq(S) : s = <<>> <=> Range(s) = {}
           /\ \A x \in S : <<x>> \in Seq(S) /\ Range(<<x>>) = {x}
<1>1. <<>> \in Seq(S) /\ Range(<<>>) = {}
  BY DEF Range
<1>2. ASSUME NEW s \in Seq(S), s # <<>> PROVE Range(s) # {}
  <2>1. Len(s) \in Nat \ {0} /\ DOMAIN s = 1..Len(s)
    BY <1>2, EmptySeq, LenProperties
  <2>2. 1 \in DOMAIN s
    BY <2>1
  <2> QED
    BY <2>2 DEF Range
<1>3. ASSUME NEW x \in S PROVE <<x>> \in Seq(S) /\ Range(<<x>>) = {x}
  BY DEF Range
<1> QED
  BY <1>1, <1>2, <1>3

LEMMA TailFacts ==
    ASSUME NEW S, NEW s \in Seq(S), s # <<>>
    PROVE  /\ Head(s) \in S /\ Head(s) = s[1] /\ Tail(s) \in Seq(S)
           /\ Range(s) = {Head(s)} \cup Range(Tail(s))
           /\ Len(s) \in Nat \ {0} /\ DOMAIN s = 1..Len(s) /\ DOMAIN Tail(s) = 1..Len(s) - 1
           /\ \A i \in 1..Len(s) - 1 : Tail(s)[i] = s[i + 1]
<1> DEFINE t == Tail(s)
<1>1. /\ Len(s) \in Nat \ {0} /\ DOMAIN s = 1..Len(s) /\ Head(s) \in S /\ Head(s) = s[1]
      /\ t \in Seq(S) /\ Len(t) = Len(s) - 1 /\ DOMAIN t = 1..Len(t)
      /\ \A i \in 1..Len(t) : t[i] = s[i + 1]
  <2>1. t \in Seq(S) /\ Len(t) = Len(s) - 1 /\ \A i \in 1..Len(t) : t[i] = s[i + 1]
    BY HeadTailProperties
  <2> HIDE DEF t
  <2>2. DOMAIN t = 1..Len(t)
    BY <2>1, LenProperties
  <2> QED
    BY <2>1, <2>2, EmptySeq, LenProperties, HeadTailProperties
<1> HIDE DEF t
<1>2. ASSUME NEW i \in DOMAIN s PROVE s[i] \in {Head(s)} \cup Range(t)
  <2>1. CASE i = 1
    BY <1>1, <2>1
  <2>2. CASE i # 1
    <3>1. i - 1 \in DOMAIN t /\ t[i - 1] = s[i]
      BY <1>1, <2>2
    <3> QED
      BY <3>1 DEF Range
  <2> QED
    BY <2>1, <2>2
<1>3. Range(s) = {Head(s)} \cup Range(t)
  <2>1. Range(s) \subseteq {Head(s)} \cup Range(t)
    BY <1>2 DEF Range
  <2>2. Head(s) \in Range(s)
    BY <1>1 DEF Range
  <2>3. Range(t) \subseteq Range(s)
    <3> SUFFICES ASSUME NEW i \in DOMAIN t PROVE t[i] \in Range(s)
      BY DEF Range
    <3>1. i + 1 \in DOMAIN s /\ t[i] = s[i + 1]
      BY <1>1
    <3> QED
      BY <3>1 DEF Range
  <2> QED
    BY <2>1, <2>2, <2>3
<1> QED
  BY <1>1, <1>3 DEF t

\* The first element is taken from what goes ahead.
LEMMA CatTail ==
    ASSUME NEW S, NEW s \in Seq(S), NEW t \in Seq(S), s # <<>>
    PROVE  Cat(s, t) # <<>> /\ Head(Cat(s, t)) = Head(s) /\ Tail(Cat(s, t)) = Cat(Tail(s), t)
<1> DEFINE u == Cat(s, t)
           r == Tail(s)
           v == Cat(r, t)
           x == Tail(u)
<1>1. /\ r \in Seq(S) /\ Head(s) = s[1] /\ Len(s) \in Nat \ {0} /\ DOMAIN r = 1..Len(s) - 1
      /\ \A i \in 1..Len(s) - 1 : r[i] = s[i + 1]
  BY TailFacts
<1> HIDE DEF r
<1>2. u \in Seq(S) /\ v \in Seq(S) /\ Joined(s, t, u) /\ Joined(r, t, v)
  BY <1>1, CatFacts
<1> HIDE DEF u, v
<1>3. /\ Len(r) = Len(s) - 1 /\ Len(t) \in Nat
      /\ DOMAIN u = 1..Len(s) + Len(t) /\ DOMAIN v = 1..Len(r) + Len(t)
      /\ \A i \in 1..Len(s) : u[i] = s[i]
      /\ \A i \in 1..Len(t) : u[Len(s) + i] = t[i]
      /\ \A i \in 1..Len(r) : v[i] = r[i]
      /\ \A i \in 1..Len(t) : v[Len(r) + i] = t[i]
  <2>1. Len(r) \in Nat /\ DOMAIN r = 1..Len(r)
    BY <1>1, LenProperties
  <2>2. Len(r) = Len(s) - 1
    BY <1>1, <2>1
  <2> QED
    BY <1>2, <2>2 DEF Joined
<1>4. Len(u) = Len(s) + Len(t) /\ Len(v) = Len(s) + Len(t) - 1 /\ u # <<>>
  <2>1. DOMAIN u = 1..Len(u) /\ Len(u) \in Nat /\ DOMAIN v = 1..Len(v) /\ Len(v) \in Nat
    BY <1>2, LenProperties
  <2>2. Len(u) = Len(s) + Len(t) /\ Len(v) = Len(s) + Len(t) - 1
    <3>1. \A m, n \in Nat : 1..m = 1..n => m = n
      OBVIOUS
    <3>2. 1..Len(u) = 1..Len(s) + Len(t) /\ 1..Len(v) = 1..Len(r) + Len(t)
      BY <1>3, <2>1
    <3>3. Len(s) + Len(t) \in Nat /\ Len(r) + Len(t) \in Nat /\ Len(r) + Len(t) = Len(s) + Len(t) - 1
      BY <1>1, <1>3
    <3> QED
      BY <2>1, <3>1, <3>2, <3>3
  <2>3. 1 \in DOMAIN u
    BY <1>1, <1>3
  <2> QED
    BY <2>2, <2>3, Shortest
<1>5. /\ Head(u) = u[1] /\ x \in Seq(S) /\ DOMAIN x = 1..Len(u) - 1
      /\ \A i \in 1..Len(u) - 1 : x[i] = u[i + 1]
  BY <1>2, <1>4, TailFacts
<1> HIDE DEF x
<1>6. Head(u) = Head(s)
  BY <1>1, <1>3, <1>5
<1>7. Len(x) = Len(v)
  <2>1. DOMAIN x = 1..Len(x) /\ Len(x) \in Nat
    BY <1>5, LenProperties
  <2> QED
    BY <1>1, <1>3, <1>4, <1>5, <2>1
<1>8. ASSUME NEW i \in 1..Len(v) PROVE x[i] = v[i]
  <2>1. i \in 1..Len(u) - 1 /\ x[i] = u[i + 1] /\ i \in Nat
    BY <1>1, <1>3, <1>4, <1>5
  <2>2. CASE i <= Len(r)
    <3>1. i \in 1..Len(r) /\ i + 1 \in 1..Len(s) /\ i \in 1..Len(s) - 1
      BY <1>1, <1>3, <2>1, <2>2
    <3> QED
      BY <1>1, <1>3, <2>1, <3>1
  <2>3. CASE ~(i <= Len(r))
    <3> DEFINE j == i - Len(r)
    <3>1. j \in 1..Len(t) /\ Len(r) + j = i /\ Len(s) + j = i + 1
      BY <1>1, <1>3, <1>4, <2>1, <2>3
    <3> HIDE DEF j
    <3>2. v[Len(r) + j] = t[j] /\ u[Len(s) + j] = t[j]
      BY <1>3, <3>1
    <3> QED
      BY <2>1, <3>1, <3>2
  <2> QED
    BY <2>2, <2>3
<1>9. x = v
  BY <1>2, <1>5, <1>7, <1>8, SeqEqual
<1> QED
  BY <1>4, <1>6, <1>9 DEF u, v, r, x

\* Every f in s has a g behind it.
Follows(s, f, g) ==
    \A i \in DOMAIN s : s[i] = f => \E j \in DOMAIN s : i < j /\ s[j] = g

LEMMA FollowsCat ==
    ASSUME NEW S, NEW s \in Seq(S), NEW t \in Seq(S), NEW f, NEW g,
           Follows(s, f, g) \/ g \in Range(t), Follows(t, f, g)
    PROVE  Follows(Cat(s, t), f, g)
<1> DEFINE u == Cat(s, t)
<1>0. Joined(s, t, u)
  BY CatFacts
<1>1. /\ DOMAIN s = 1..Len(s) /\ DOMAIN t = 1..Len(t) /\ DOMAIN u = 1..Len(s) + Len(t)
      /\ Len(s) \in Nat /\ Len(t) \in Nat
      /\ \A i \in 1..Len(s) : u[i] = s[i]
      /\ \A i \in 1..Len(t) : u[Len(s) + i] = t[i]
  BY <1>0 DEF Joined
<1> HIDE DEF u
<1> SUFFICES ASSUME NEW i \in DOMAIN u, u[i] = f
             PROVE  \E j \in DOMAIN u : i < j /\ u[j] = g
  BY DEF Follows, u
<1>2. CASE i <= Len(s) /\ Follows(s, f, g)
  <2>1. i \in DOMAIN s /\ s[i] = f
    BY <1>1, <1>2
  <2>2. PICK j \in DOMAIN s : i < j /\ s[j] = g
    BY <1>2, <2>1 DEF Follows
  <2> QED
    BY <1>1, <2>2
<1>3. CASE i <= Len(s) /\ g \in Range(t)
  <2>1. PICK j \in DOMAIN t : t[j] = g
    BY <1>3 DEF Range
  <2>2. Len(s) + j \in DOMAIN u /\ i < Len(s) + j
    BY <1>1, <1>3, <2>1
  <2> QED
    BY <1>1, <2>1, <2>2
<1>4. CASE ~(i <= Len(s))
  <2>1. i - Len(s) \in DOMAIN t /\ Len(s) + (i - Len(s)) = i
    BY <1>1, <1>4
  <2>2. t[i - Len(s)] = f
    BY <1>1, <2>1
  <2>3. PICK j \in DOMAIN t : i - Len(s) < j /\ t[j] = g
    BY <2>1, <2>2 DEF Follows
  <2>4. Len(s) + j \in DOMAIN u /\ i < Len(s) + j
    BY <1>1, <2>1, <2>3
  <2> QED
    BY <1>1, <2>3, <2>4
<1> QED
  BY <1>2, <1>3, <1>4

\* r goes in between s and t: where the elements are then.
Beyond(s, r, i) == IF i <= Len(s) THEN i ELSE i + Len(r)

Spliced(s, r, u, x) ==
    /\ Len(s) \in Nat /\ Len(r) \in Nat /\ DOMAIN u \subseteq Nat
    /\ \A i \in DOMAIN u : Beyond(s, r, i) \in DOMAIN x /\ x[Beyond(s, r, i)] = u[i]
    /\ \A k \in DOMAIN x :
          \/ k - Len(s) \in 1..Len(r) /\ x[k] = r[k - Len(s)] /\ x[k] \in Range(r)
          \/ \E i \in DOMAIN u : k = Beyond(s, r, i) /\ x[k] = u[i]

LEMMA SpliceFacts ==
    ASSUME NEW S, NEW s \in Seq(S), NEW r \in Seq(S), NEW t \in Seq(S),
           NEW u, u = Cat(s, t), NEW x, x = Cat(Cat(s, r), t)
    PROVE  /\ u \in Seq(S) /\ x \in Seq(S) /\ Range(x) = Range(u) \cup Range(r)
           /\ Spliced(s, r, u, x)
<1> DEFINE v == Cat(s, r)
<1>0. x = Cat(v, t)
  OBVIOUS
<1>1. /\ u \in Seq(S) /\ v \in Seq(S) /\ Range(u) = Range(s) \cup Range(t) /\ Range(v) = Range(s) \cup Range(r)
      /\ Len(s) \in Nat /\ Len(r) \in Nat /\ Len(t) \in Nat /\ Len(v) = Len(s) + Len(r)
      /\ DOMAIN u = 1..Len(s) + Len(t) /\ DOMAIN v = 1..Len(s) + Len(r) /\ DOMAIN r = 1..Len(r)
      /\ \A i \in 1..Len(s) : u[i] = s[i] /\ v[i] = s[i]
      /\ \A i \in 1..Len(t) : u[Len(s) + i] = t[i]
      /\ \A i \in 1..Len(r) : v[Len(s) + i] = r[i]
  <2>1. /\ u \in Seq(S) /\ v \in Seq(S) /\ Range(u) = Range(s) \cup Range(t) /\ Range(v) = Range(s) \cup Range(r)
        /\ Joined(s, t, u) /\ Joined(s, r, v)
    BY CatFacts
  <2> HIDE DEF v
  <2>2. DOMAIN v = 1..Len(v) /\ Len(v) \in Nat
    BY <2>1, LenProperties
  <2> QED
    BY <2>1, <2>2 DEF Joined
<1> HIDE DEF v
<1>2. /\ x \in Seq(S) /\ Range(x) = Range(v) \cup Range(t) /\ DOMAIN x = 1..Len(v) + Len(t)
      /\ \A i \in 1..Len(v) : x[i] = v[i]
      /\ \A i \in 1..Len(t) : x[Len(v) + i] = t[i]
  <2>1. v \in Seq(S)
    BY <1>1
  <2>2. x \in Seq(S) /\ Range(x) = Range(v) \cup Range(t) /\ Joined(v, t, x)
    BY <1>0, <2>1, CatFacts
  <2> QED
    BY <2>2 DEF Joined
<1>3. ASSUME NEW i \in DOMAIN u PROVE Beyond(s, r, i) \in DOMAIN x /\ x[Beyond(s, r, i)] = u[i]
  <2>1. CASE i <= Len(s)
    <3>1. i \in 1..Len(s) /\ i \in 1..Len(v) /\ i \in 1..Len(v) + Len(t)
      BY <1>1, <2>1
    <3> QED
      BY <1>1, <1>2, <2>1, <3>1 DEF Beyond
  <2>2. CASE ~(i <= Len(s))
    <3> DEFINE j == i - Len(s)
    <3>1. j \in 1..Len(t) /\ Len(s) + j = i /\ Len(v) + j = i + Len(r) /\ i + Len(r) \in 1..Len(v) + Len(t)
      BY <1>1, <2>2
    <3>2. u[i] = t[j] /\ x[i + Len(r)] = t[j]
      <4> HIDE DEF j
      <4>1. u[Len(s) + j] = t[j] /\ x[Len(v) + j] = t[j]
        BY <1>1, <1>2, <3>1
      <4> QED
        BY <3>1, <4>1
    <3> QED
      BY <1>2, <2>2, <3>1, <3>2 DEF Beyond
  <2> QED
    BY <2>1, <2>2
<1>4. ASSUME NEW k \in DOMAIN x
      PROVE  \/ k - Len(s) \in 1..Len(r) /\ x[k] = r[k - Len(s)] /\ x[k] \in Range(r)
             \/ \E i \in DOMAIN u : k = Beyond(s, r, i) /\ x[k] = u[i]
  <2>1. CASE k <= Len(s)
    <3>1. k \in DOMAIN u /\ k = Beyond(s, r, k)
      BY <1>1, <1>2, <2>1 DEF Beyond
    <3> QED
      BY <1>3, <3>1
  <2>2. CASE ~(k <= Len(s)) /\ k <= Len(v)
    <3> DEFINE j == k - Len(s)
    <3>1. j \in 1..Len(r) /\ Len(s) + j = k /\ k \in 1..Len(v)
      BY <1>1, <1>2, <2>2
    <3>2. x[k] = r[j]
      <4> HIDE DEF j
      <4>1. v[Len(s) + j] = r[j]
        BY <1>1, <3>1
      <4> QED
        BY <1>2, <3>1, <4>1
    <3> QED
      BY <1>1, <3>1, <3>2 DEF Range
  <2>3. CASE ~(k <= Len(v))
    <3> DEFINE i == k - Len(r)
    <3>1. i \in 1..Len(s) + Len(t) /\ ~(i <= Len(s)) /\ i + Len(r) = k
      BY <1>1, <1>2, <2>3
    <3>2. i \in DOMAIN u /\ k = Beyond(s, r, i)
      BY <1>1, <3>1 DEF Beyond
    <3> QED
      BY <1>3, <3>2
  <2> QED
    BY <2>1, <2>2, <2>3
<1>5. DOMAIN u \subseteq Nat
  BY <1>1
<1>6. Range(x) = Range(u) \cup Range(r)
  BY <1>1, <1>2
<1> QED
  BY <1>1, <1>2, <1>3, <1>4, <1>5, <1>6 DEF Spliced

LEMMA FollowsSplice ==
    ASSUME NEW S, NEW s \in Seq(S), NEW r \in Seq(S), NEW t \in Seq(S), NEW f, NEW g,
           NEW u, u = Cat(s, t), NEW x, x = Cat(Cat(s, r), t),
           f \notin Range(r), Follows(u, f, g)
    PROVE  Follows(x, f, g)
<1>1. Spliced(s, r, u, x)
  BY SpliceFacts
<1> SUFFICES ASSUME NEW k \in DOMAIN x, x[k] = f
             PROVE  \E l \in DOMAIN x : k < l /\ x[l] = g
  BY DEF Follows
<1>3. PICK i \in DOMAIN u : k = Beyond(s, r, i) /\ u[i] = f
  BY <1>1 DEF Spliced
<1>4. PICK j \in DOMAIN u : i < j /\ u[j] = g
  BY <1>3 DEF Follows
<1>5. k < Beyond(s, r, j)
  BY <1>1, <1>3, <1>4 DEF Beyond, Spliced
<1> QED
  BY <1>1, <1>4, <1>5 DEF Spliced

LEMMA FollowsTail ==
    ASSUME NEW S, NEW s \in Seq(S), s # <<>>, NEW f, NEW g, Follows(s, f, g)
    PROVE  Follows(Tail(s), f, g) /\ (Head(s) = f => g \in Range(Tail(s)))
<1> DEFINE t == Tail(s)
<1>1. /\ Head(s) = s[1] /\ Len(s) \in Nat \ {0} /\ DOMAIN s = 1..Len(s) /\ DOMAIN t = 1..Len(s) - 1
      /\ \A i \in 1..Len(s) - 1 : t[i] = s[i + 1]
  BY TailFacts
<1> HIDE DEF t
<1>2. ASSUME NEW i \in DOMAIN s, s[i] = f
      PROVE  \E j \in DOMAIN t : i <= j /\ t[j] = g
  <2>1. PICK j \in DOMAIN s : i < j /\ s[j] = g
    BY <1>2 DEF Follows
  <2>2. j - 1 \in 1..Len(s) - 1 /\ i <= j - 1 /\ (j - 1) + 1 = j
    BY <1>1, <2>1
  <2>3. t[j - 1] = s[j]
    BY <1>1, <2>2
  <2> QED
    BY <1>1, <2>1, <2>2, <2>3
<1>3. ASSUME NEW i \in DOMAIN t, t[i] = f
      PROVE  \E j \in DOMAIN t : i < j /\ t[j] = g
  <2>1. i + 1 \in DOMAIN s /\ s[i + 1] = f
    BY <1>1, <1>3
  <2>2. PICK j \in DOMAIN t : i + 1 <= j /\ t[j] = g
    BY <1>2, <2>1
  <2>3. i < j
    BY <1>1, <2>2
  <2> QED
    BY <2>2, <2>3
<1>4. 1 \in DOMAIN s
  BY <1>1
<1>5. Head(s) = f => g \in Range(t)
  BY <1>1, <1>2, <1>4 DEF Range
<1> QED
  BY <1>3, <1>5 DEF Follows, t
=============================================================================
