---------------------------- MODULE ValuesProofs ----------------------------
(***************************************************************************)
(* Proofs about the lists of conditions and of finalizers, for lists of    *)
(* every length, every set of finalizers and every number of calls.  A     *)
(* loop of the code is a function of the number of turns taken, and what   *)
(* it has done after each turn is shown by induction on that number.       *)
(***************************************************************************)
EXTENDS Conditions, Finalizers, SequenceTheorems, FiniteSetTheorems,
        WellFoundedInduction, TLAPS

-----------------------------------------------------------------------------
(* Induction *)

\* Induction over the natural numbers, for a set instead of a predicate.
LEMMA SetInduction ==
  ASSUME NEW S, 0 \in S, \A n \in Nat : n \in S => n + 1 \in S
  PROVE  Nat \subseteq S
<1> DEFINE T == Nat \ S
<1> SUFFICES ASSUME T # {} PROVE FALSE
  OBVIOUS
<1>1. PICK m \in T : \A k \in T : ~(<<k, m>> \in OpToRel(<, Nat))
  <2> HIDE DEF T
  <2>1. T \subseteq Nat
    BY DEF T
  <2> QED
    BY <2>1, WFMin, NatLessThanWellFounded
<1>2. \A k \in T : ~(k < m)
  BY <1>1 DEF OpToRel
<1>3. m # 0 /\ m \in Nat
  OBVIOUS
<1>4. m - 1 \in Nat /\ (m - 1) + 1 = m /\ m - 1 < m
  BY <1>3
<1> QED
  BY <1>2, <1>4

-----------------------------------------------------------------------------
(* Least numbers, and sets in order *)

\* Min is the least of a set of natural numbers that is not empty.
LEMMA MinIsLeast ==
  ASSUME NEW S, S \subseteq Nat, S # {}
  PROVE  Min(S) \in S /\ Min(S) \in Nat /\ \A x \in S : Min(S) <= x
<1>1. PICK m \in S : \A k \in S : ~(<<k, m>> \in OpToRel(<, Nat))
  BY WFMin, NatLessThanWellFounded
<1>2. m \in Nat /\ \A k \in S : k \in Nat /\ ~(k < m)
  BY <1>1 DEF OpToRel
<1>3. \A k \in S : m =< k
  BY <1>2
<1> QED
  BY <1>2, <1>3 DEF Min

\* q lists S in the order R.
Lists(q, n, S, R) ==
  /\ q \in Bijection(1..n, S)
  /\ \A i, j \in 1..n : i < j => <<q[i], q[j]>> \in R

\* A list takes one more element, in its place.
LEMMA ListInsert ==
  ASSUME NEW S, NEW x, x \notin S, NEW R, NEW n \in Nat, NEW q, Lists(q, n, S, R),
         \A y \in S : <<x, y>> \in R \/ <<y, x>> \in R,
         \A y, z \in S : <<x, y>> \in R /\ <<y, z>> \in R => <<x, z>> \in R
  PROVE  \E r : Lists(r, n + 1, S \cup {x}, R)
<1> DEFINE After == {i \in 1..(n + 1) : i = n + 1 \/ <<x, q[i]>> \in R}
           k == Min(After)
           r == [i \in 1..(n + 1) |-> IF i < k THEN q[i] ELSE IF i = k THEN x ELSE q[i - 1]]
<1>1. /\ q \in [1..n -> S] /\ \A y \in S : \E i \in 1..n : q[i] = y
      /\ \A i, j \in 1..n : q[i] = q[j] => i = j
      /\ \A i, j \in 1..n : i < j => <<q[i], q[j]>> \in R
  BY DEF Lists, Bijection, Injection, Surjection, IsInjective
<1>2. k \in 1..(n + 1) /\ (k = n + 1 \/ <<x, q[k]>> \in R) /\ \A i \in 1..(n + 1) : i \in After => k <= i
  <2>1. After \subseteq Nat /\ n + 1 \in After
    OBVIOUS
  <2>2. k \in After /\ \A i \in After : k <= i
    BY <2>1, MinIsLeast
  <2> QED
    BY <2>2
<1> HIDE DEF k
<1>3. ASSUME NEW i \in 1..n, i < k
      PROVE  <<q[i], x>> \in R
  <2>1. ~(<<x, q[i]>> \in R)
    BY <1>2, <1>3
  <2> QED
    BY <2>1, <1>1
<1>4. ASSUME NEW i \in 1..n, i >= k
      PROVE  <<x, q[i]>> \in R
  <2>1. <<x, q[k]>> \in R /\ k \in 1..n
    BY <1>2, <1>4
  <2>2. CASE i = k
    BY <2>1, <2>2
  <2>3. CASE i # k
    <3>1. <<q[k], q[i]>> \in R /\ q[k] \in S /\ q[i] \in S
      BY <1>1, <1>4, <2>1, <2>3
    <3> QED
      BY <2>1, <3>1
  <2> QED
    BY <2>2, <2>3
<1>5. \A i \in 1..(n + 1) :
        /\ i < k => i \in 1..n /\ r[i] = q[i]
        /\ i = k => r[i] = x
        /\ i > k => i - 1 \in 1..n /\ i - 1 >= k /\ r[i] = q[i - 1]
  BY <1>2
<1>6. DOMAIN r = 1..(n + 1)
  OBVIOUS
<1>7. r = [i \in 1..(n + 1) |-> r[i]]
  OBVIOUS
<1> HIDE DEF r
<1>8. r \in [1..(n + 1) -> S \cup {x}]
  <2>1. \A i \in 1..(n + 1) : r[i] \in S \cup {x}
    BY <1>1, <1>2, <1>5
  <2> QED
    BY <2>1, <1>7
<1>9. \A i, j \in 1..(n + 1) : r[i] = r[j] => i = j
  <2> SUFFICES ASSUME NEW i \in 1..(n + 1), NEW j \in 1..(n + 1), i < j
               PROVE  r[i] # r[j]
    BY <1>2
  <2>1. CASE j < k
    BY <2>1, <1>1, <1>2, <1>5
  <2>2. CASE j = k
    BY <2>2, <1>1, <1>2, <1>5
  <2>3. CASE j > k /\ i < k
    BY <2>3, <1>1, <1>2, <1>5
  <2>4. CASE j > k /\ i = k
    BY <2>4, <1>1, <1>2, <1>5
  <2>5. CASE j > k /\ i > k
    <3>1. i - 1 \in 1..n /\ j - 1 \in 1..n /\ i - 1 # j - 1 /\ r[i] = q[i - 1] /\ r[j] = q[j - 1]
      BY <2>5, <1>5
    <3> QED
      BY <3>1, <1>1
  <2> QED
    BY <1>2, <2>1, <2>2, <2>3, <2>4, <2>5
<1>10. \A y \in S \cup {x} : \E i \in 1..(n + 1) : r[i] = y
  <2> SUFFICES ASSUME NEW y \in S PROVE \E i \in 1..(n + 1) : r[i] = y
    BY <1>2, <1>5
  <2>1. PICK i \in 1..n : q[i] = y
    BY <1>1
  <2>2. CASE i < k
    BY <2>1, <2>2, <1>5
  <2>3. CASE i >= k
    <3>1. i + 1 \in 1..(n + 1) /\ i + 1 > k /\ (i + 1) - 1 = i
      BY <2>3, <1>2
    <3> QED
      BY <3>1, <2>1, <1>5
  <2> QED
    BY <2>2, <2>3, <1>2
<1>11. ASSUME NEW i \in 1..(n + 1), NEW j \in 1..(n + 1), i < j
       PROVE  <<r[i], r[j]>> \in R
  <2>1. CASE j < k
    BY <2>1, <1>1, <1>2, <1>5, <1>11
  <2>2. CASE j = k
    BY <2>2, <1>2, <1>3, <1>5, <1>11
  <2>3. CASE j > k /\ i < k
    <3>1. i \in 1..n /\ j - 1 \in 1..n /\ i < j - 1 /\ r[i] = q[i] /\ r[j] = q[j - 1]
      BY <2>3, <1>2, <1>5
    <3> QED
      BY <3>1, <1>1
  <2>4. CASE j > k /\ i = k
    BY <2>4, <1>4, <1>5
  <2>5. CASE j > k /\ i > k
    <3>1. i - 1 \in 1..n /\ j - 1 \in 1..n /\ i - 1 < j - 1 /\ r[i] = q[i - 1] /\ r[j] = q[j - 1]
      BY <2>5, <1>5, <1>11
    <3> QED
      BY <3>1, <1>1
  <2> QED
    BY <1>2, <2>1, <2>2, <2>3, <2>4, <2>5
<1>12. Lists(r, n + 1, S \cup {x}, R)
  BY <1>8, <1>9, <1>10, <1>11 DEF Lists, Bijection, Injection, Surjection, IsInjective
<1> QED
  BY <1>12

\* A finite set has a list in every order that is total and transitive.
LEMMA ListExists ==
  ASSUME NEW S, IsFiniteSet(S), NEW R,
         \A x, y \in S : x # y => <<x, y>> \in R \/ <<y, x>> \in R,
         \A x, y, z \in S : <<x, y>> \in R /\ <<y, z>> \in R => <<x, z>> \in R
  PROVE  \E q : Lists(q, Cardinality(S), S, R)
<1> DEFINE N == {n \in Nat : \A U \in SUBSET S : Cardinality(U) = n => \E q : Lists(q, n, U, R)}
<1>1. 0 \in N
  <2> SUFFICES ASSUME NEW U \in SUBSET S, Cardinality(U) = 0
               PROVE  Lists(<<>>, 0, U, R)
    OBVIOUS
  <2>1. U = {}
    BY FS_Subset, FS_EmptySet
  <2> QED
    BY <2>1 DEF Lists, Bijection, Injection, Surjection, IsInjective
<1>2. ASSUME NEW n \in Nat, n \in N
      PROVE  n + 1 \in N
  <2> SUFFICES ASSUME NEW U \in SUBSET S, Cardinality(U) = n + 1
               PROVE  \E q : Lists(q, n + 1, U, R)
    OBVIOUS
  <2>1. IsFiniteSet(U) /\ U # {}
    BY FS_Subset, FS_EmptySet
  <2>2. PICK x : x \in U
    BY <2>1
  <2>3. U \ {x} \in SUBSET S /\ Cardinality(U \ {x}) = n
    <3>1. Cardinality(U \ {x}) = Cardinality(U) - 1
      BY <2>1, <2>2, FS_RemoveElement
    <3> QED
      BY <3>1
  <2>4. PICK q : Lists(q, n, U \ {x}, R)
    BY <2>3, <1>2
  <2>5. \E r : Lists(r, n + 1, (U \ {x}) \cup {x}, R)
    <3>1. x \notin U \ {x}
      OBVIOUS
    <3>2. \A y \in U \ {x} : <<x, y>> \in R \/ <<y, x>> \in R
      BY <2>2
    <3>3. \A y, z \in U \ {x} : <<x, y>> \in R /\ <<y, z>> \in R => <<x, z>> \in R
      BY <2>2
    <3> QED
      BY <3>1, <3>2, <3>3, <2>4, ListInsert
  <2>6. (U \ {x}) \cup {x} = U
    BY <2>2
  <2> QED
    BY <2>5, <2>6
<1> HIDE DEF N
<1>3. Nat \subseteq N
  BY <1>1, <1>2, SetInduction
<1>4. Cardinality(S) \in Nat
  BY FS_CardinalityType
<1> QED
  BY <1>3, <1>4 DEF N

-----------------------------------------------------------------------------
(* Finalizers: the loop of RemoveFinalizer *)

\* What a loop that has not panicked leaves in len places of the array is a list
\* of the same finalizers.
LoopStates(f) ==
  [array : [1..Len(f) -> Finalizer], len : 0..Len(f), panic : BOOLEAN]

\* The states the loop goes through: the one it starts with, and what each turn
\* makes of the one before it.
LoopOf(f, x, n, g) ==
  g = [i \in 0..n |-> IF i = 0 THEN [array |-> f, len |-> Len(f), panic |-> FALSE]
                      ELSE RemoveTurn(f, x, g[i - 1], i)]

\* There is such a function for every number of turns.
LEMMA LoopExists ==
  ASSUME NEW f, NEW x, NEW n \in Nat
  PROVE  \E g : LoopOf(f, x, n, g)
<1> DEFINE S == {k \in Nat : \E g : LoopOf(f, x, k, g)}
<1>1. 0 \in S
  <2> DEFINE g == [i \in 0..0 |-> [array |-> f, len |-> Len(f), panic |-> FALSE]]
  <2>1. LoopOf(f, x, 0, g)
    BY DEF LoopOf
  <2> QED
    BY <2>1
<1>2. ASSUME NEW k \in Nat, k \in S
      PROVE  k + 1 \in S
  <2>1. PICK g : LoopOf(f, x, k, g)
    BY <1>2
  <2> DEFINE h == [i \in 0..(k + 1) |-> IF i = k + 1 THEN RemoveTurn(f, x, g[k], k + 1) ELSE g[i]]
  <2>2. LoopOf(f, x, k + 1, h)
    <3> SUFFICES h = [i \in 0..(k + 1) |->
                        IF i = 0 THEN [array |-> f, len |-> Len(f), panic |-> FALSE]
                        ELSE RemoveTurn(f, x, h[i - 1], i)]
      BY DEF LoopOf
    <3>1. ASSUME NEW i \in 0..(k + 1)
          PROVE  h[i] = IF i = 0 THEN [array |-> f, len |-> Len(f), panic |-> FALSE]
                        ELSE RemoveTurn(f, x, h[i - 1], i)
      <4>1. CASE i = k + 1
        <5>1. h[i] = RemoveTurn(f, x, g[k], i) /\ i # 0 /\ i - 1 = k /\ i - 1 \in 0..(k + 1)
          BY <4>1
        <5>2. h[i - 1] = g[k]
          BY <5>1
        <5> QED
          BY <5>1, <5>2
      <4>2. CASE i # k + 1
        <5>1. i \in 0..k /\ h[i] = g[i]
          BY <4>2
        <5>2. CASE i = 0
          BY <5>1, <5>2, <2>1 DEF LoopOf
        <5>3. CASE i # 0
          <6>1. i - 1 \in 0..(k + 1) /\ i - 1 # k + 1
            BY <5>1, <5>3
          <6>2. h[i - 1] = g[i - 1]
            BY <6>1
          <6>3. g[i] = RemoveTurn(f, x, g[i - 1], i)
            BY <5>1, <5>3, <2>1 DEF LoopOf
          <6> QED
            BY <5>1, <5>3, <6>2, <6>3
        <5> QED
          BY <5>2, <5>3
      <4> QED
        BY <4>1, <4>2
    <3> HIDE DEF h
    <3>2. h = [i \in 0..(k + 1) |-> h[i]]
      BY DEF h
    <3> QED
      BY <3>1, <3>2
  <2>3. k + 1 \in Nat
    OBVIOUS
  <2> HIDE DEF h
  <2> QED
    BY <2>2, <2>3
<1> HIDE DEF S
<1>3. Nat \subseteq S
  BY <1>1, <1>2, SetInduction
<1> QED
  BY <1>3 DEF S

\* RemoveFinalizer cuts what it returns from the last state of its loop.
LEMMA RemoveIsLoop ==
  ASSUME NEW Elem, NEW f \in Seq(Elem), NEW x
  PROVE  \E g : /\ LoopOf(f, x, Len(f), g)
                /\ RemoveFinalizer(f, x) =
                     IF g[Len(f)].panic THEN <<Panic>>
                     ELSE SubSeq(g[Len(f)].array, 1, g[Len(f)].len)
<1> DEFINE g == CHOOSE g : LoopOf(f, x, Len(f), g)
<1>1. LoopOf(f, x, Len(f), g)
  BY LoopExists
<1>2. RemoveFinalizer(f, x) =
        IF g[Len(f)].panic THEN <<Panic>>
        ELSE SubSeq(g[Len(f)].array, 1, g[Len(f)].len)
  BY DEF RemoveFinalizer, LoopOf
<1> QED
  BY <1>1, <1>2

\* The loop stays within its array.
LEMMA LoopTypes ==
  ASSUME NEW f \in Seq(Finalizer), NEW x, NEW g, LoopOf(f, x, Len(f), g)
  PROVE  \A i \in 0..Len(f) : g[i] \in LoopStates(f)
<1> DEFINE n == Len(f)
           S == {k \in Nat : k <= n => g[k] \in LoopStates(f)}
<1>1. n \in Nat /\ f \in [1..n -> Finalizer] /\ DOMAIN f = 1..n
  OBVIOUS
<1> HIDE DEF n
<1>2. g = [i \in 0..n |-> IF i = 0 THEN [array |-> f, len |-> n, panic |-> FALSE]
                          ELSE RemoveTurn(f, x, g[i - 1], i)]
  BY DEF LoopOf, n
<1>3. 0 \in S
  <2>1. g[0] = [array |-> f, len |-> n, panic |-> FALSE]
    BY <1>1, <1>2
  <2> SUFFICES [array |-> f, len |-> n, panic |-> FALSE]
                 \in [array : [1..n -> Finalizer], len : 0..n, panic : BOOLEAN]
    BY <2>1 DEF LoopStates, n
  <2> QED
    BY <1>1
<1>4. ASSUME NEW k \in Nat, k \in S
      PROVE  k + 1 \in S
  <2> SUFFICES ASSUME k + 1 <= n PROVE g[k + 1] \in LoopStates(f)
    OBVIOUS
  <2> DEFINE s == g[k]
  <2>1. s \in LoopStates(f)
    BY <1>1, <1>4
  <2>2. k + 1 \in 0..n /\ k + 1 # 0 /\ (k + 1) - 1 = k
    BY <1>1
  <2>3. g[k + 1] = RemoveTurn(f, x, s, k + 1)
    BY <1>2, <2>2
  <2> HIDE DEF s
  <2>4. s.array \in [1..n -> Finalizer] /\ s.len \in 0..n /\ s.panic \in BOOLEAN
    BY <2>1 DEF LoopStates, n
  <2>5. CASE s.array[k + 1] # x \/ s.panic
    BY <2>1, <2>3, <2>5 DEF RemoveTurn
  <2>6. CASE ~(s.array[k + 1] # x \/ s.panic) /\ k + 1 > s.len
    <3>1. RemoveTurn(f, x, s, k + 1) = [s EXCEPT !.panic = TRUE]
      BY <2>6 DEF RemoveTurn
    <3> QED
      BY <2>1, <2>3, <3>1 DEF LoopStates
  <2>7. CASE ~(s.array[k + 1] # x \/ s.panic) /\ ~(k + 1 > s.len)
    <3> DEFINE a == [j \in 1..n |-> IF j \in (k + 1)..(s.len - 1) THEN s.array[j + 1] ELSE s.array[j]]
    <3>1. RemoveTurn(f, x, s, k + 1) = [array |-> a, len |-> s.len - 1, panic |-> FALSE]
      BY <1>1, <2>7 DEF RemoveTurn
    <3>2. a \in [1..n -> Finalizer]
      <4>1. ASSUME NEW j \in 1..n, j \in (k + 1)..(s.len - 1)
            PROVE  j + 1 \in 1..n
        BY <1>1, <2>4, <4>1
      <4> QED
        BY <4>1, <2>4
    <3>3. s.len - 1 \in 0..n
      BY <1>1, <2>4, <2>7
    <3> HIDE DEF a
    <3>4. [array |-> a, len |-> s.len - 1, panic |-> FALSE] \in
            [array : [1..n -> Finalizer], len : 0..n, panic : BOOLEAN]
      BY <3>2, <3>3
    <3> QED
      BY <2>3, <3>1, <3>4 DEF LoopStates, n
  <2> QED
    BY <2>5, <2>6, <2>7
<1> HIDE DEF S
<1>5. Nat \subseteq S
  BY <1>3, <1>4, SetInduction
<1>6. \A k \in Nat : k <= n => g[k] \in LoopStates(f)
  BY <1>5 DEF S
<1> QED
  BY <1>1, <1>6 DEF n

\* The state of the loop after turn i when the finalizer is at the one place p: up
\* to p it has changed nothing, and from there on the elements behind p are one
\* place further in front.  A place behind the list stands for none.
Shifted(f, p, i) ==
  IF i < p THEN [array |-> f, len |-> Len(f), panic |-> FALSE]
  ELSE [array |-> [j \in 1..Len(f) |-> IF j \in p..(Len(f) - 1) THEN f[j + 1] ELSE f[j]],
        len |-> Len(f) - 1, panic |-> FALSE]

\* The loop goes through those states.
LEMMA LoopShifts ==
  ASSUME NEW Elem, NEW f \in Seq(Elem), NEW x, NEW p \in 1..(Len(f) + 1),
         \A i \in 1..Len(f) : f[i] = x <=> i = p,
         NEW g, LoopOf(f, x, Len(f), g)
  PROVE  \A i \in 0..Len(f) : g[i] = Shifted(f, p, i)
<1> DEFINE n == Len(f)
           start == [array |-> f, len |-> n, panic |-> FALSE]
           moved == [j \in 1..n |-> IF j \in p..(n - 1) THEN f[j + 1] ELSE f[j]]
           end == [array |-> moved, len |-> n - 1, panic |-> FALSE]
           S == {k \in Nat : k <= n => g[k] = IF k < p THEN start ELSE end}
<1>1. n \in Nat /\ f \in [1..n -> Elem] /\ DOMAIN f = 1..n /\ p \in 1..(n + 1)
  OBVIOUS
<1>2. \A i \in 1..n : f[i] = x <=> i = p
  OBVIOUS
<1> HIDE DEF n
<1>3. g = [i \in 0..n |-> IF i = 0 THEN start ELSE RemoveTurn(f, x, g[i - 1], i)]
  BY DEF LoopOf, n
<1>4. 0 \in S
  BY <1>1, <1>3
<1>5. ASSUME NEW k \in Nat, k \in S
      PROVE  k + 1 \in S
  <2> SUFFICES ASSUME k + 1 <= n
               PROVE  g[k + 1] = IF k + 1 < p THEN start ELSE end
    OBVIOUS
  <2>1. k + 1 \in 1..n /\ k + 1 \in 0..n /\ k + 1 # 0 /\ (k + 1) - 1 = k
    BY <1>1
  <2>2. g[k + 1] = RemoveTurn(f, x, g[k], k + 1)
    BY <1>3, <2>1
  <2>3. g[k] = IF k < p THEN start ELSE end
    BY <1>1, <1>5
  <2>4. CASE k + 1 < p
    <3>1. g[k] = start /\ f[k + 1] # x
      BY <1>1, <1>2, <2>1, <2>3, <2>4
    <3>2. RemoveTurn(f, x, start, k + 1) = start
      BY <3>1 DEF RemoveTurn
    <3> QED
      BY <2>2, <2>4, <3>1, <3>2
  <2>5. CASE k + 1 = p
    <3>1. g[k] = start /\ f[k + 1] = x /\ ~(k + 1 < p)
      BY <1>1, <1>2, <2>1, <2>3, <2>5
    <3>2. ~(start.array[k + 1] # x \/ start.panic) /\ ~(k + 1 > start.len)
      BY <1>1, <2>1, <3>1
    <3>3. RemoveTurn(f, x, start, k + 1) =
            [array |-> [j \in DOMAIN f |->
                          IF j \in (k + 1)..(start.len - 1) THEN start.array[j + 1] ELSE start.array[j]],
             len |-> start.len - 1, panic |-> FALSE]
      <4> HIDE DEF start
      <4> QED
        BY <3>2 DEF RemoveTurn
    <3>4. @ = end
      BY <1>1, <2>5
    <3> QED
      BY <2>2, <3>1, <3>3, <3>4
  <2>6. CASE k + 1 > p
    <3>1. g[k] = end /\ ~(k + 1 < p)
      BY <1>1, <2>1, <2>3, <2>6
    <3>2. end.array[k + 1] # x
      <4>1. end.array[k + 1] = IF k + 1 \in p..(n - 1) THEN f[(k + 1) + 1] ELSE f[k + 1]
        BY <2>1
      <4>2. f[k + 1] # x
        BY <1>1, <1>2, <2>1, <2>6
      <4>3. k + 1 \in p..(n - 1) => f[(k + 1) + 1] # x
        <5> SUFFICES ASSUME k + 1 \in p..(n - 1) PROVE f[(k + 1) + 1] # x
          OBVIOUS
        <5>1. (k + 1) + 1 \in 1..n /\ (k + 1) + 1 # p
          BY <1>1, <2>6
        <5> QED
          BY <1>2, <5>1
      <4> QED
        BY <4>1, <4>2, <4>3
    <3>3. RemoveTurn(f, x, end, k + 1) = end
      <4> HIDE DEF end
      <4> QED
        BY <3>2 DEF RemoveTurn
    <3> QED
      BY <2>2, <3>1, <3>3
  <2> QED
    BY <1>1, <2>1, <2>4, <2>5, <2>6
<1> HIDE DEF S
<1>6. Nat \subseteq S
  BY <1>4, <1>5, SetInduction
<1>7. \A k \in Nat : k <= n => g[k] = IF k < p THEN start ELSE end
  BY <1>6 DEF S
<1>8. \A i \in 0..n : g[i] = IF i < p THEN start ELSE end
  <2> HIDE DEF start, end
  <2>1. \A i \in 0..n : i \in Nat /\ i <= n
    BY <1>1
  <2> QED
    BY <1>7, <2>1
<1> QED
  BY <1>8 DEF n, Shifted

-----------------------------------------------------------------------------
(* Finalizers: the calls *)

\* A call leaves a list of finalizers or ends the process.
LEMMA RemoveTypes ==
  ASSUME NEW f \in Seq(Finalizer), NEW x
  PROVE  RemoveFinalizer(f, x) \in Seq(Finalizer) \cup {<<Panic>>}
<1>1. PICK g : /\ LoopOf(f, x, Len(f), g)
               /\ RemoveFinalizer(f, x) =
                    IF g[Len(f)].panic THEN <<Panic>>
                    ELSE SubSeq(g[Len(f)].array, 1, g[Len(f)].len)
  BY RemoveIsLoop
<1> DEFINE s == g[Len(f)]
<1>2. s \in LoopStates(f)
  BY <1>1, LoopTypes
<1> HIDE DEF s
<1>3. s.array \in [1..Len(f) -> Finalizer] /\ s.len \in 0..Len(f)
  BY <1>2 DEF LoopStates
<1>4. SubSeq(s.array, 1, s.len) \in Seq(Finalizer)
  <2>1. s.array \in Seq(Finalizer) /\ Len(s.array) = Len(f)
    BY <1>3
  <2> QED
    BY <1>3, <2>1
<1> QED
  BY <1>1, <1>4 DEF s

\* A finalizer that is not there changes nothing.
LEMMA RemoveAbsent ==
  ASSUME NEW Elem, NEW f \in Seq(Elem), NEW x, \A i \in 1..Len(f) : f[i] # x
  PROVE  RemoveFinalizer(f, x) = f
<1>1. PICK g : /\ LoopOf(f, x, Len(f), g)
               /\ RemoveFinalizer(f, x) =
                    IF g[Len(f)].panic THEN <<Panic>>
                    ELSE SubSeq(g[Len(f)].array, 1, g[Len(f)].len)
  BY RemoveIsLoop
<1> DEFINE p == Len(f) + 1
<1>2. p \in 1..(Len(f) + 1) /\ \A i \in 1..Len(f) : f[i] = x <=> i = p
  OBVIOUS
<1>3. Len(f) \in 0..Len(f) /\ Len(f) < p
  OBVIOUS
<1> HIDE DEF p
<1>4. g[Len(f)] = [array |-> f, len |-> Len(f), panic |-> FALSE]
  <2>1. g[Len(f)] = Shifted(f, p, Len(f))
    BY <1>1, <1>2, <1>3, LoopShifts
  <2> QED
    BY <1>3, <2>1 DEF Shifted
<1>5. SubSeq(f, 1, Len(f)) = f
  OBVIOUS
<1> QED
  BY <1>1, <1>4, <1>5

\* One that is there once is taken out of its place.
LEMMA RemoveOnce ==
  ASSUME NEW Elem, NEW f \in Seq(Elem), NEW x, NEW p \in 1..Len(f),
         \A i \in 1..Len(f) : f[i] = x <=> i = p
  PROVE  /\ RemoveFinalizer(f, x) =
              [j \in 1..(Len(f) - 1) |-> IF j < p THEN f[j] ELSE f[j + 1]]
         /\ RemoveFinalizer(f, x) = RemoveAt(f, p)
<1>1. PICK g : /\ LoopOf(f, x, Len(f), g)
               /\ RemoveFinalizer(f, x) =
                    IF g[Len(f)].panic THEN <<Panic>>
                    ELSE SubSeq(g[Len(f)].array, 1, g[Len(f)].len)
  BY RemoveIsLoop
<1> DEFINE n == Len(f)
           moved == [j \in 1..n |-> IF j \in p..(n - 1) THEN f[j + 1] ELSE f[j]]
           cut == [j \in 1..(n - 1) |-> IF j < p THEN f[j] ELSE f[j + 1]]
<1>2. n \in 0..n /\ ~(n < p) /\ p \in 1..(n + 1) /\ n \in Nat \ {0}
  OBVIOUS
<1>3. g[n] = [array |-> moved, len |-> n - 1, panic |-> FALSE]
  <2>1. p \in 1..(Len(f) + 1)
    OBVIOUS
  <2>2. g[n] = Shifted(f, p, n)
    BY <1>1, <1>2, <2>1, LoopShifts
  <2> QED
    BY <1>2, <2>2 DEF Shifted
<1>4. moved \in Seq(Elem) /\ Len(moved) = n
  <2>1. moved \in [1..n -> Elem]
    OBVIOUS
  <2> HIDE DEF moved
  <2> QED
    BY <1>2, <2>1
<1>5. RemoveFinalizer(f, x) = SubSeq(moved, 1, n - 1)
  <2> HIDE DEF moved, n
  <2>1. RemoveFinalizer(f, x) = IF g[n].panic THEN <<Panic>> ELSE SubSeq(g[n].array, 1, g[n].len)
    BY <1>1 DEF n
  <2>2. ~g[n].panic /\ g[n].array = moved /\ g[n].len = n - 1
    BY <1>3
  <2> QED
    BY <2>1, <2>2
<1>6. SubSeq(moved, 1, n - 1) = [j \in 1..(n - 1) |-> moved[j]]
  <2> HIDE DEF moved
  <2> QED
    BY <1>2, <1>4
<1>7. \A j \in 1..(n - 1) : moved[j] = cut[j]
  BY <1>2
<1>8. RemoveFinalizer(f, x) = cut
  <2>1. [j \in 1..(n - 1) |-> moved[j]] = [j \in 1..(n - 1) |-> cut[j]]
    <3> HIDE DEF moved, cut
    <3> QED
      BY <1>7
  <2>2. cut = [j \in 1..(n - 1) |-> cut[j]]
    OBVIOUS
  <2> HIDE DEF moved, cut
  <2> QED
    BY <1>5, <1>6, <2>1, <2>2
<1>9. RemoveAt(f, p) = cut
  <2>1. /\ SubSeq(f, 1, p - 1) \in Seq(Elem)
        /\ Len(SubSeq(f, 1, p - 1)) = p - 1
        /\ \A j \in 1..(p - 1) : SubSeq(f, 1, p - 1)[j] = f[j]
    OBVIOUS
  <2>2. /\ SubSeq(f, p + 1, n) \in Seq(Elem)
        /\ Len(SubSeq(f, p + 1, n)) = n - p
        /\ \A j \in 1..(n - p) : SubSeq(f, p + 1, n)[j] = f[p + j]
    OBVIOUS
  <2> DEFINE a == SubSeq(f, 1, p - 1)
             b == SubSeq(f, p + 1, n)
  <2>3. RemoveAt(f, p) = a \o b
    BY DEF RemoveAt
  <2> HIDE DEF a, b
  <2>4. /\ a \o b \in Seq(Elem)
        /\ Len(a \o b) = n - 1
        /\ \A j \in 1..(n - 1) : (a \o b)[j] = IF j <= p - 1 THEN a[j] ELSE b[j - (p - 1)]
    <3>1. a \in Seq(Elem) /\ b \in Seq(Elem) /\ Len(a) = p - 1 /\ Len(b) = n - p
      BY <2>1, <2>2 DEF a, b
    <3>2. /\ a \o b \in Seq(Elem)
          /\ Len(a \o b) = Len(a) + Len(b)
          /\ \A j \in 1..(Len(a) + Len(b)) :
               (a \o b)[j] = IF j <= Len(a) THEN a[j] ELSE b[j - Len(a)]
      BY <3>1, ConcatProperties
    <3>3. Len(a) + Len(b) = n - 1
      BY <1>2, <3>1
    <3> QED
      BY <3>1, <3>2, <3>3
  <2>5. \A j \in 1..(n - 1) : (a \o b)[j] = cut[j]
    <3> TAKE j \in 1..(n - 1)
    <3>1. CASE j <= p - 1
      BY <2>1, <2>4, <3>1 DEF a
    <3>2. CASE ~(j <= p - 1)
      <4>1. j - (p - 1) \in 1..(n - p) /\ p + (j - (p - 1)) = j + 1 /\ ~(j < p)
        BY <3>2
      <4>2. b[j - (p - 1)] = f[j + 1]
        BY <2>2, <4>1 DEF b
      <4> QED
        BY <2>4, <3>2, <4>1, <4>2
    <3> QED
      BY <3>1, <3>2
  <2>6. a \o b = [j \in 1..(n - 1) |-> (a \o b)[j]]
    <3> DEFINE c == a \o b
    <3>1. c \in Seq(Elem) /\ Len(c) = n - 1
      BY <2>4
    <3> HIDE DEF c, n
    <3>2. c = [j \in 1..(n - 1) |-> c[j]]
      BY <3>1
    <3> QED
      BY <3>2 DEF c
  <2>7. cut = [j \in 1..(n - 1) |-> cut[j]]
    OBVIOUS
  <2> HIDE DEF cut
  <2>8. [j \in 1..(n - 1) |-> (a \o b)[j]] = [j \in 1..(n - 1) |-> cut[j]]
    BY <2>5
  <2> QED
    BY <2>3, <2>6, <2>7, <2>8
<1> QED
  BY <1>8, <1>9

\* A user may give an object any list; what a call leaves is a list, too, until a
\* panic ends the process (AddFinalizer, RemoveFinalizer).
FinalizersTypeOK == finalizers \in Seq(Finalizer) \cup {<<Panic>>}

\* What a call does to a list that has no finalizer twice.
LEMMA CallsKeepDistinct ==
  ASSUME NEW f \in Seq(Finalizer), NEW x \in Finalizer, Distinct(f)
  PROVE  /\ AddFinalizer(f, x) \in Seq(Finalizer)
         /\ Distinct(AddFinalizer(f, x))
         /\ RemoveFinalizer(f, x) \in Seq(Finalizer)
         /\ Distinct(RemoveFinalizer(f, x))
<1>1. DOMAIN f = 1..Len(f) /\ \A i, j \in 1..Len(f) : i # j => f[i] # f[j]
  BY DEF Distinct
<1>2. AddFinalizer(f, x) \in Seq(Finalizer) /\ Distinct(AddFinalizer(f, x))
  <2>1. CASE x \in ToSet(f)
    BY <2>1 DEF AddFinalizer
  <2>2. CASE x \notin ToSet(f)
    <3> DEFINE h == Append(f, x)
    <3>1. AddFinalizer(f, x) = h
      BY <2>2 DEF AddFinalizer
    <3>2. /\ h \in Seq(Finalizer) /\ DOMAIN h = 1..(Len(f) + 1)
          /\ \A i \in 1..Len(f) : h[i] = f[i]
          /\ h[Len(f) + 1] = x
      OBVIOUS
    <3>3. \A i \in 1..Len(f) : f[i] # x
      BY <1>1, <2>2 DEF ToSet
    <3>4. \A i, j \in 1..(Len(f) + 1) : i # j => h[i] # h[j]
      <4> HIDE DEF h
      <4> TAKE i, j \in 1..(Len(f) + 1)
      <4> HAVE i # j
      <4>1. CASE i \in 1..Len(f) /\ j \in 1..Len(f)
        BY <1>1, <3>2, <4>1
      <4>2. CASE i = Len(f) + 1 \/ j = Len(f) + 1
        BY <3>2, <3>3, <4>2
      <4> QED
        BY <4>1, <4>2
    <3> HIDE DEF h
    <3> QED
      BY <3>1, <3>2, <3>4 DEF Distinct
  <2> QED
    BY <2>1, <2>2
<1>3. RemoveFinalizer(f, x) \in Seq(Finalizer) /\ Distinct(RemoveFinalizer(f, x))
  <2>1. CASE \A i \in 1..Len(f) : f[i] # x
    <3>1. RemoveFinalizer(f, x) = f
      BY <2>1, RemoveAbsent
    <3> QED
      BY <3>1
  <2>2. CASE \E i \in 1..Len(f) : f[i] = x
    <3>1. PICK p \in 1..Len(f) : f[p] = x
      BY <2>2
    <3>2. \A i \in 1..Len(f) : f[i] = x <=> i = p
      BY <1>1, <3>1
    <3> DEFINE h == [j \in 1..(Len(f) - 1) |-> IF j < p THEN f[j] ELSE f[j + 1]]
    <3>3. RemoveFinalizer(f, x) = h
      BY <3>2, RemoveOnce
    <3>4. h \in [1..(Len(f) - 1) -> Finalizer]
      OBVIOUS
    <3>5. \A i, j \in DOMAIN h : i # j => h[i] # h[j]
      <4> TAKE i, j \in DOMAIN h
      <4> HAVE i # j
      <4>1. i \in 1..Len(f) /\ j \in 1..Len(f) /\ i + 1 \in 1..Len(f) /\ j + 1 \in 1..Len(f)
        OBVIOUS
      <4>2. h[i] = (IF i < p THEN f[i] ELSE f[i + 1]) /\ h[j] = (IF j < p THEN f[j] ELSE f[j + 1])
        OBVIOUS
      <4> HIDE DEF h
      <4>3. CASE i < p /\ j < p
        BY <1>1, <4>1, <4>2, <4>3
      <4>4. CASE i < p /\ ~(j < p)
        BY <1>1, <4>1, <4>2, <4>4
      <4>5. CASE ~(i < p) /\ j < p
        BY <1>1, <4>1, <4>2, <4>5
      <4>6. CASE ~(i < p) /\ ~(j < p)
        <5>1. i + 1 # j + 1
          BY <4>1
        <5> QED
          BY <1>1, <4>1, <4>2, <4>6, <5>1
      <4> QED
        BY <4>3, <4>4, <4>5, <4>6
    <3>6. Len(f) - 1 \in Nat
      BY <3>1
    <3> HIDE DEF h
    <3>7. h \in Seq(Finalizer)
      BY <3>4, <3>6
    <3> QED
      BY <3>3, <3>5, <3>7 DEF Distinct
  <2> QED
    BY <2>1, <2>2
<1> QED
  BY <1>2, <1>3

\* The lists an object starts with.
LEMMA FinalizersStart ==
  FinalizersInit => FinalizersTypeOK
<1> SUFFICES ASSUME FinalizersInit PROVE FinalizersTypeOK
  OBVIOUS
<1>1. PICK n \in 0..MaxFinalizers : finalizers \in [1..n -> Finalizer]
  BY DEF FinalizersInit
<1>2. n \in Nat
  BY FinalizersAssumption
<1> QED
  BY <1>1, <1>2 DEF FinalizersTypeOK

\* Every call keeps the type.
LEMMA FinalizersStep ==
  FinalizersTypeOK /\ [Finalize]_finalizers => FinalizersTypeOK'
<1> SUFFICES ASSUME FinalizersTypeOK, Finalize PROVE FinalizersTypeOK'
  BY DEF FinalizersTypeOK
<1>1. finalizers \in Seq(Finalizer)
  BY DEF FinalizersTypeOK, Finalize
<1>2. PICK x \in Finalizer :
        finalizers' \in {AddFinalizer(finalizers, x), RemoveFinalizer(finalizers, x)}
  BY DEF Finalize
<1>3. AddFinalizer(finalizers, x) \in Seq(Finalizer)
  BY <1>1 DEF AddFinalizer
<1>4. RemoveFinalizer(finalizers, x) \in Seq(Finalizer) \cup {<<Panic>>}
  BY <1>1, RemoveTypes
<1> QED
  BY <1>2, <1>3, <1>4 DEF FinalizersTypeOK

\* Whatever lists users give and controllers make of them, removing a finalizer
\* that is there once takes it out of its place and nothing else, and removing one
\* that is not there does nothing (RemoveFinalizer).
THEOREM RemovalsAreExact == FinalizersSpec => []RemovalIsExact
<1>1. FinalizersTypeOK => RemovalIsExact
  <2> SUFFICES ASSUME FinalizersTypeOK, NEW x \in Finalizer
               PROVE  LET at == {i \in DOMAIN finalizers : finalizers[i] = x} IN
                      /\ at = {} => RemoveFinalizer(finalizers, x) = finalizers
                      /\ \A i \in at :
                           at = {i} => RemoveFinalizer(finalizers, x) = RemoveAt(finalizers, i)
    BY DEF RemovalIsExact
  <2> DEFINE at == {i \in DOMAIN finalizers : finalizers[i] = x}
  <2>1. CASE finalizers \in Seq(Finalizer)
    <3>1. DOMAIN finalizers = 1..Len(finalizers)
      BY <2>1
    <3>2. at = {} => RemoveFinalizer(finalizers, x) = finalizers
      <4> SUFFICES ASSUME at = {} PROVE RemoveFinalizer(finalizers, x) = finalizers
        OBVIOUS
      <4>1. \A i \in 1..Len(finalizers) : finalizers[i] # x
        BY <3>1
      <4> QED
        BY <2>1, <4>1, RemoveAbsent
    <3>3. ASSUME NEW i \in at, at = {i}
          PROVE  RemoveFinalizer(finalizers, x) = RemoveAt(finalizers, i)
      <4>1. i \in 1..Len(finalizers)
        BY <3>1
      <4>2. \A j \in 1..Len(finalizers) : finalizers[j] = x <=> j = i
        BY <3>1, <3>3
      <4> QED
        BY <2>1, <4>1, <4>2, RemoveOnce
    <3> QED
      BY <3>2, <3>3
  <2>2. CASE finalizers = <<Panic>>
    <3>1. /\ finalizers \in Seq({Panic}) /\ DOMAIN finalizers = 1..Len(finalizers)
          /\ \A i \in 1..Len(finalizers) : finalizers[i] # x
      BY <2>2, FinalizersAssumption
    <3>2. at = {} /\ RemoveFinalizer(finalizers, x) = finalizers
      BY <3>1, RemoveAbsent
    <3> QED
      BY <3>2
  <2> QED
    BY <2>1, <2>2 DEF FinalizersTypeOK
<1> QED
  BY <1>1, FinalizersStart, FinalizersStep, PTL DEF FinalizersSpec

\* Starting from a list without a finalizer twice, no number of calls makes one
\* that has one, and none of them panics (AddFinalizer, RemoveFinalizer).
THEOREM DistinctStays == FinalizersSpec => DistinctStaysDistinct
<1>1. FinalizersTypeOK /\ [Finalize]_finalizers =>
        [Distinct(finalizers) => Distinct(finalizers') /\ finalizers' # <<Panic>>]_finalizers
  <2> SUFFICES ASSUME FinalizersTypeOK, Finalize, Distinct(finalizers)
               PROVE  Distinct(finalizers') /\ finalizers' # <<Panic>>
    OBVIOUS
  <2>1. finalizers \in Seq(Finalizer)
    BY DEF FinalizersTypeOK, Finalize
  <2>2. PICK x \in Finalizer :
          finalizers' \in {AddFinalizer(finalizers, x), RemoveFinalizer(finalizers, x)}
    BY DEF Finalize
  <2>3. finalizers' \in Seq(Finalizer) /\ Distinct(finalizers')
    BY <2>1, <2>2, CallsKeepDistinct
  <2>4. <<Panic>> \notin Seq(Finalizer)
    <3> SUFFICES ASSUME <<Panic>> \in Seq(Finalizer) PROVE FALSE
      OBVIOUS
    <3>1. <<Panic>>[1] \in Finalizer
      BY ElementOfSeq
    <3> QED
      BY <3>1, FinalizersAssumption
  <2> QED
    BY <2>3, <2>4
<1> QED
  BY <1>1, FinalizersStart, FinalizersStep, PTL DEF FinalizersSpec, DistinctStaysDistinct

-----------------------------------------------------------------------------
(* Conditions: one turn of the loop of SetConditions *)

\* The conditions a status may have: each gives a reason, by which it differs
\* from what GetCondition answers for a type the status does not have.
Types    == {"EPReady", "Ready", "Synced", "Wired"}
Reasons  == {"Ready", "Unknown", "Action", "NotReady", "Failed",
             "ReconcileSuccess", "ReconcileFailure", "Success", "Failure", "Wiring"}
Messages == {"", "m"}
Made     == [type : Types, status : BOOLEAN, reason : Reasons, message : Messages, time : Nat]

DistinctTypes(r) == \A i, j \in DOMAIN r : i # j => r[i].type # r[j].type

\* GetCondition finds the one condition of a type.
LEMMA GetFinds ==
  ASSUME NEW r \in Seq(Made), DistinctTypes(r), NEW i \in 1..Len(r)
  PROVE  GetCondition(r, r[i].type) = r[i]
<1> DEFINE at == {j \in DOMAIN r : r[j].type = r[i].type}
<1>1. at = {i}
  BY DEF DistinctTypes
<1>2. Min(at) = i
  BY <1>1 DEF Min
<1>3. GetCondition(r, r[i].type) = r[Min(at)]
  BY <1>1 DEF GetCondition
<1> QED
  BY <1>2, <1>3

\* For a type that is not there it answers with one that has no reason.
LEMMA GetFindsNone ==
  ASSUME NEW r \in Seq(Made), NEW t, \A i \in 1..Len(r) : r[i].type # t
  PROVE  GetCondition(r, t) = Condition(t, FALSE, "", "", 0)
<1>1. {j \in DOMAIN r : r[j].type = t} = {}
  OBVIOUS
<1> QED
  BY <1>1 DEF GetCondition

\* A turn with a condition of a type that is there.
LEMMA TurnReplaces ==
  ASSUME NEW r \in Seq(Made), DistinctTypes(r), NEW c \in Made,
         NEW p \in 1..Len(r), r[p].type = c.type
  PROVE  LET q == SetCondition(r, c) IN
         /\ q \in Seq(Made) /\ Len(q) = Len(r)
         /\ \A i \in 1..Len(r) : q[i].type = r[i].type
         /\ \A i \in 1..Len(r) : i # p => q[i] = r[i]
         /\ q[p] = IF Equal(r[p], c) THEN r[p] ELSE c
<1> DEFINE q == [i \in DOMAIN r |-> IF r[i].type = c.type /\ ~Equal(r[i], c) THEN c ELSE r[i]]
<1>1. SetCondition(r, c) = q
  BY DEF SetCondition
<1>2. DOMAIN r = 1..Len(r) /\ Len(r) \in Nat
  OBVIOUS
<1>3. \A i \in 1..Len(r) : q[i] = IF r[i].type = c.type /\ ~Equal(r[i], c) THEN c ELSE r[i]
  BY <1>2
<1>4. \A i \in 1..Len(r) : q[i] \in Made
  BY <1>3
<1>5. q \in [1..Len(r) -> Made]
  <2>1. q = [i \in 1..Len(r) |-> q[i]]
    BY <1>2
  <2> HIDE DEF q
  <2> QED
    BY <1>4, <2>1
<1>6. \A i \in 1..Len(r) : i # p => r[i].type # c.type
  BY <1>2 DEF DistinctTypes
<1> HIDE DEF q
<1>7. q \in Seq(Made) /\ Len(q) = Len(r)
  BY <1>2, <1>5
<1> QED
  BY <1>1, <1>3, <1>6, <1>7

\* A turn with a condition of a type that is not there.
LEMMA TurnAppends ==
  ASSUME NEW r \in Seq(Made), NEW c \in Made, \A i \in 1..Len(r) : r[i].type # c.type
  PROVE  LET q == SetCondition(r, c) IN
         /\ q \in Seq(Made) /\ Len(q) = Len(r) + 1
         /\ \A i \in 1..Len(r) : q[i] = r[i]
         /\ q[Len(r) + 1] = c
<1>1. SetCondition(r, c) = Append(r, c)
  BY DEF SetCondition
<1> QED
  BY <1>1

\* A turn keeps one condition of each type.
LEMMA TurnKeepsDistinct ==
  ASSUME NEW r \in Seq(Made), DistinctTypes(r), NEW c \in Made
  PROVE  SetCondition(r, c) \in Seq(Made) /\ DistinctTypes(SetCondition(r, c))
<1> DEFINE q == SetCondition(r, c)
<1>1. DOMAIN r = 1..Len(r) /\ Len(r) \in Nat
      /\ \A i, j \in 1..Len(r) : i # j => r[i].type # r[j].type
  BY DEF DistinctTypes
<1>2. CASE \E p \in 1..Len(r) : r[p].type = c.type
  <2>1. PICK p \in 1..Len(r) : r[p].type = c.type
    BY <1>2
  <2>2. /\ q \in Seq(Made) /\ Len(q) = Len(r)
        /\ \A i \in 1..Len(r) : q[i].type = r[i].type
    BY <2>1, TurnReplaces
  <2> HIDE DEF q
  <2>3. DOMAIN q = 1..Len(r)
    BY <2>2
  <2>4. DistinctTypes(q)
    BY <1>1, <2>2, <2>3 DEF DistinctTypes
  <2> QED
    BY <2>2, <2>4 DEF q
<1>3. CASE \A i \in 1..Len(r) : r[i].type # c.type
  <2>1. /\ q \in Seq(Made) /\ Len(q) = Len(r) + 1
        /\ \A i \in 1..Len(r) : q[i] = r[i]
        /\ q[Len(r) + 1] = c
    BY <1>3, TurnAppends
  <2> HIDE DEF q
  <2>2. DOMAIN q = 1..(Len(r) + 1)
    BY <2>1
  <2>3. ASSUME NEW i \in 1..(Len(r) + 1), NEW j \in 1..(Len(r) + 1), i # j
        PROVE  q[i].type # q[j].type
    <3>1. CASE i \in 1..Len(r) /\ j \in 1..Len(r)
      BY <1>1, <2>1, <2>3, <3>1
    <3>2. CASE i = Len(r) + 1
      <4>1. j \in 1..Len(r)
        BY <1>1, <2>3, <3>2
      <4> QED
        BY <1>3, <2>1, <3>2, <4>1
    <3>3. CASE j = Len(r) + 1
      <4>1. i \in 1..Len(r)
        BY <1>1, <2>3, <3>3
      <4> QED
        BY <1>3, <2>1, <3>3, <4>1
    <3> QED
      BY <1>1, <3>1, <3>2, <3>3
  <2>4. DistinctTypes(q)
    BY <2>2, <2>3 DEF DistinctTypes
  <2> QED
    BY <2>1, <2>4 DEF q
<1> QED
  BY <1>2, <1>3

\* What a reader of the status finds of each type after a turn.
LEMMA TurnGets ==
  ASSUME NEW r \in Seq(Made), DistinctTypes(r), NEW c \in Made
  PROVE  /\ \A t : t # c.type => GetCondition(SetCondition(r, c), t) = GetCondition(r, t)
         /\ GetCondition(SetCondition(r, c), c.type) =
              IF Equal(GetCondition(r, c.type), c) THEN GetCondition(r, c.type) ELSE c
<1> DEFINE q == SetCondition(r, c)
<1>1. q \in Seq(Made) /\ DistinctTypes(q)
  BY TurnKeepsDistinct
<1>2. CASE \E p \in 1..Len(r) : r[p].type = c.type
  <2>1. PICK p \in 1..Len(r) : r[p].type = c.type
    BY <1>2
  <2>2. /\ Len(q) = Len(r)
        /\ \A i \in 1..Len(r) : q[i].type = r[i].type
        /\ \A i \in 1..Len(r) : i # p => q[i] = r[i]
        /\ q[p] = IF Equal(r[p], c) THEN r[p] ELSE c
    BY <2>1, TurnReplaces
  <2> HIDE DEF q
  <2>3. GetCondition(r, c.type) = r[p] /\ GetCondition(q, c.type) = q[p]
    BY <1>1, <2>1, <2>2, GetFinds
  <2>4. ASSUME NEW t, t # c.type
        PROVE  GetCondition(q, t) = GetCondition(r, t)
    <3>1. CASE \E i \in 1..Len(r) : r[i].type = t
      <4>1. PICK i \in 1..Len(r) : r[i].type = t
        BY <3>1
      <4>2. i # p /\ q[i] = r[i] /\ q[i].type = t /\ i \in 1..Len(q)
        BY <2>1, <2>2, <2>4, <4>1
      <4>3. GetCondition(r, t) = r[i]
        BY <4>1, GetFinds
      <4>4. GetCondition(q, t) = q[i]
        BY <1>1, <4>2, GetFinds
      <4> QED
        BY <4>2, <4>3, <4>4
    <3>2. CASE \A i \in 1..Len(r) : r[i].type # t
      <4>1. \A i \in 1..Len(q) : q[i].type # t
        BY <2>2, <3>2
      <4>2. GetCondition(r, t) = Condition(t, FALSE, "", "", 0)
        BY <3>2, GetFindsNone
      <4>3. GetCondition(q, t) = Condition(t, FALSE, "", "", 0)
        BY <1>1, <4>1, GetFindsNone
      <4> QED
        BY <4>2, <4>3
    <3> QED
      BY <3>1, <3>2
  <2> QED
    BY <2>2, <2>3, <2>4 DEF q
<1>3. CASE \A i \in 1..Len(r) : r[i].type # c.type
  <2>1. /\ Len(q) = Len(r) + 1
        /\ \A i \in 1..Len(r) : q[i] = r[i]
        /\ q[Len(r) + 1] = c
    BY <1>3, TurnAppends
  <2> HIDE DEF q
  <2>2. GetCondition(r, c.type) = Condition(c.type, FALSE, "", "", 0)
    BY <1>3, GetFindsNone
  <2>3. ~Equal(GetCondition(r, c.type), c)
    <3>1. GetCondition(r, c.type).reason = ""
      <4>1. \A t : Condition(t, FALSE, "", "", 0).reason = ""
        BY DEF Condition
      <4> QED
        BY <2>2, <4>1
    <3>2. c.reason # ""
      BY DEF Made, Reasons
    <3> QED
      BY <3>1, <3>2 DEF Equal
  <2>4. GetCondition(q, c.type) = c
    <3>1. Len(r) + 1 \in 1..Len(q)
      BY <2>1
    <3> QED
      BY <1>1, <2>1, <3>1, GetFinds
  <2>5. ASSUME NEW t, t # c.type
        PROVE  GetCondition(q, t) = GetCondition(r, t)
    <3>1. CASE \E i \in 1..Len(r) : r[i].type = t
      <4>1. PICK i \in 1..Len(r) : r[i].type = t
        BY <3>1
      <4>2. q[i] = r[i] /\ q[i].type = t /\ i \in 1..Len(q)
        BY <2>1, <4>1
      <4>3. GetCondition(r, t) = r[i]
        BY <4>1, GetFinds
      <4>4. GetCondition(q, t) = q[i]
        BY <1>1, <4>2, GetFinds
      <4> QED
        BY <4>2, <4>3, <4>4
    <3>2. CASE \A i \in 1..Len(r) : r[i].type # t
      <4>1. \A i \in 1..Len(q) : q[i].type # t
        <5> TAKE i \in 1..Len(q)
        <5>1. i \in 1..Len(r) \/ i = Len(r) + 1
          BY <2>1
        <5> QED
          BY <2>1, <2>5, <3>2, <5>1
      <4>2. GetCondition(r, t) = Condition(t, FALSE, "", "", 0)
        BY <3>2, GetFindsNone
      <4>3. GetCondition(q, t) = Condition(t, FALSE, "", "", 0)
        BY <1>1, <4>1, GetFindsNone
      <4> QED
        BY <4>2, <4>3
    <3> QED
      BY <3>1, <3>2
  <2> QED
    BY <2>3, <2>4, <2>5 DEF q
<1> QED
  BY <1>2, <1>3

-----------------------------------------------------------------------------
(* Conditions: the loop of SetConditions *)

\* What the loop makes of a status, turn by turn.
SetOf(r, cs, n, g) ==
  g = [i \in 0..n |-> IF i = 0 THEN r ELSE SetCondition(g[i - 1], cs[i])]

\* There is such a function for every number of turns.
LEMMA SetExists ==
  ASSUME NEW r, NEW cs, NEW n \in Nat
  PROVE  \E g : SetOf(r, cs, n, g)
<1> DEFINE S == {k \in Nat : \E g : SetOf(r, cs, k, g)}
<1>1. 0 \in S
  <2> DEFINE g == [i \in 0..0 |-> r]
  <2>1. SetOf(r, cs, 0, g)
    BY DEF SetOf
  <2> QED
    BY <2>1
<1>2. ASSUME NEW k \in Nat, k \in S
      PROVE  k + 1 \in S
  <2>1. PICK g : SetOf(r, cs, k, g)
    BY <1>2
  <2> DEFINE h == [i \in 0..(k + 1) |-> IF i = k + 1 THEN SetCondition(g[k], cs[k + 1]) ELSE g[i]]
  <2>2. SetOf(r, cs, k + 1, h)
    <3> SUFFICES h = [i \in 0..(k + 1) |-> IF i = 0 THEN r ELSE SetCondition(h[i - 1], cs[i])]
      BY DEF SetOf
    <3>1. ASSUME NEW i \in 0..(k + 1)
          PROVE  h[i] = IF i = 0 THEN r ELSE SetCondition(h[i - 1], cs[i])
      <4>1. CASE i = k + 1
        <5>1. h[i] = SetCondition(g[k], cs[i]) /\ i # 0 /\ i - 1 = k /\ i - 1 \in 0..(k + 1)
          BY <4>1
        <5>2. h[i - 1] = g[k]
          BY <5>1
        <5> QED
          BY <5>1, <5>2
      <4>2. CASE i # k + 1
        <5>1. i \in 0..k /\ h[i] = g[i]
          BY <4>2
        <5>2. CASE i = 0
          BY <5>1, <5>2, <2>1 DEF SetOf
        <5>3. CASE i # 0
          <6>1. i - 1 \in 0..(k + 1) /\ i - 1 # k + 1
            BY <5>1, <5>3
          <6>2. h[i - 1] = g[i - 1]
            BY <6>1
          <6>3. g[i] = SetCondition(g[i - 1], cs[i])
            BY <5>1, <5>3, <2>1 DEF SetOf
          <6> QED
            BY <5>1, <5>3, <6>2, <6>3
        <5> QED
          BY <5>2, <5>3
      <4> QED
        BY <4>1, <4>2
    <3> HIDE DEF h
    <3>2. h = [i \in 0..(k + 1) |-> h[i]]
      BY DEF h
    <3> QED
      BY <3>1, <3>2
  <2>3. k + 1 \in Nat
    OBVIOUS
  <2> HIDE DEF h
  <2> QED
    BY <2>2, <2>3
<1> HIDE DEF S
<1>3. Nat \subseteq S
  BY <1>1, <1>2, SetInduction
<1> QED
  BY <1>3 DEF S

\* What the status s that i turns have made of r is: one condition of each type;
\* of a type not given yet it has what r has; of any other it has the last one
\* given, and if that is the only one and r has it, the one of r.
SetSoFar(r, cs, s, i) ==
  /\ s \in Seq(Made)
  /\ DistinctTypes(s)
  /\ \A t :
       /\ (\A j \in 1..i : cs[j].type # t) => GetCondition(s, t) = GetCondition(r, t)
       /\ \A k \in 1..i :
            /\ cs[k].type = t /\ (\A j \in 1..i : cs[j].type = t => j <= k) =>
                 Equal(GetCondition(s, t), cs[k])
            /\ (\A j \in 1..i : cs[j].type = t <=> j = k) /\ Equal(GetCondition(r, t), cs[k]) =>
                 GetCondition(s, t) = GetCondition(r, t)

\* A turn takes it one condition further.
LEMMA SetTurn ==
  ASSUME NEW r, NEW n \in Nat, NEW cs \in [1..n -> Made], NEW i \in Nat, i + 1 <= n,
         NEW s, SetSoFar(r, cs, s, i)
  PROVE  SetSoFar(r, cs, SetCondition(s, cs[i + 1]), i + 1)
<1> DEFINE c == cs[i + 1]
           q == SetCondition(s, c)
<1>1. c \in Made /\ s \in Seq(Made) /\ DistinctTypes(s)
  BY DEF SetSoFar
<1>2. /\ \A t : t # c.type => GetCondition(q, t) = GetCondition(s, t)
      /\ GetCondition(q, c.type) =
           IF Equal(GetCondition(s, c.type), c) THEN GetCondition(s, c.type) ELSE c
  BY <1>1, TurnGets
<1>3. q \in Seq(Made) /\ DistinctTypes(q)
  BY <1>1, TurnKeepsDistinct
<1>4. 1..(i + 1) = 1..i \cup {i + 1} /\ \A j \in 1..i : j < i + 1
  OBVIOUS
<1> HIDE DEF q, c
<1>5. ASSUME NEW t
      PROVE  /\ (\A j \in 1..(i + 1) : cs[j].type # t) => GetCondition(q, t) = GetCondition(r, t)
             /\ \A k \in 1..(i + 1) :
                  /\ cs[k].type = t /\ (\A j \in 1..(i + 1) : cs[j].type = t => j <= k) =>
                       Equal(GetCondition(q, t), cs[k])
                  /\ (\A j \in 1..(i + 1) : cs[j].type = t <=> j = k)
                       /\ Equal(GetCondition(r, t), cs[k]) =>
                       GetCondition(q, t) = GetCondition(r, t)
  <2>1. /\ (\A j \in 1..i : cs[j].type # t) => GetCondition(s, t) = GetCondition(r, t)
        /\ \A k \in 1..i :
             /\ cs[k].type = t /\ (\A j \in 1..i : cs[j].type = t => j <= k) =>
                  Equal(GetCondition(s, t), cs[k])
             /\ (\A j \in 1..i : cs[j].type = t <=> j = k) /\ Equal(GetCondition(r, t), cs[k]) =>
                  GetCondition(s, t) = GetCondition(r, t)
    BY DEF SetSoFar
  <2>2. CASE t # c.type
    <3>1. GetCondition(q, t) = GetCondition(s, t)
      BY <1>2, <2>2
    <3>2. (\A j \in 1..(i + 1) : cs[j].type # t) => GetCondition(q, t) = GetCondition(r, t)
      BY <1>4, <2>1, <3>1
    <3>3. ASSUME NEW k \in 1..(i + 1), cs[k].type = t,
                 \A j \in 1..(i + 1) : cs[j].type = t => j <= k
          PROVE  Equal(GetCondition(q, t), cs[k])
      <4>1. k \in 1..i
        BY <1>4, <2>2, <3>3 DEF c
      <4> QED
        BY <1>4, <2>1, <3>1, <3>3, <4>1
    <3>4. ASSUME NEW k \in 1..(i + 1),
                 \A j \in 1..(i + 1) : cs[j].type = t <=> j = k,
                 Equal(GetCondition(r, t), cs[k])
          PROVE  GetCondition(q, t) = GetCondition(r, t)
      <4>1. k \in 1..i
        BY <1>4, <2>2, <3>4 DEF c
      <4> QED
        BY <1>4, <2>1, <3>1, <3>4, <4>1
    <3> QED
      BY <3>2, <3>3, <3>4
  <2>3. CASE t = c.type
    <3>1. i + 1 \in 1..(i + 1) /\ cs[i + 1].type = t
      BY <2>3 DEF c
    <3>2. Equal(GetCondition(q, t), c)
      <4>1. Equal(c, c)
        BY DEF Equal
      <4> QED
        BY <1>2, <2>3, <4>1
    <3>3. ASSUME NEW k \in 1..(i + 1), cs[k].type = t,
                 \A j \in 1..(i + 1) : cs[j].type = t => j <= k
          PROVE  Equal(GetCondition(q, t), cs[k])
      <4>1. k = i + 1
        BY <1>4, <3>1, <3>3
      <4> QED
        BY <3>2, <4>1 DEF c
    <3>4. ASSUME NEW k \in 1..(i + 1),
                 \A j \in 1..(i + 1) : cs[j].type = t <=> j = k,
                 Equal(GetCondition(r, t), cs[k])
          PROVE  GetCondition(q, t) = GetCondition(r, t)
      <4>1. k = i + 1
        BY <3>1, <3>4
      <4>2. \A j \in 1..i : cs[j].type # t
        BY <1>4, <3>4, <4>1
      <4>3. GetCondition(s, t) = GetCondition(r, t)
        BY <2>1, <4>2
      <4>4. Equal(GetCondition(s, t), c)
        BY <3>4, <4>1, <4>3 DEF c
      <4> QED
        BY <1>2, <2>3, <4>3, <4>4
    <3> QED
      BY <3>1, <3>3, <3>4
  <2> QED
    BY <2>2, <2>3
<1> QED
  BY <1>3, <1>5 DEF SetSoFar, q, c

\* So all of it takes all the conditions given.
LEMMA SetAll ==
  ASSUME NEW r \in Seq(Made), DistinctTypes(r), NEW cs \in Seq(Made)
  PROVE  SetSoFar(r, cs, SetConditions(r, cs), Len(cs))
<1> DEFINE n == Len(cs)
           g == CHOOSE g : SetOf(r, cs, n, g)
           S == {k \in Nat : k <= n => SetSoFar(r, cs, g[k], k)}
<1>1. n \in Nat /\ cs \in [1..n -> Made]
  OBVIOUS
<1>2. SetOf(r, cs, n, g)
  BY <1>1, SetExists
<1>3. SetConditions(r, cs) = g[n]
  BY DEF SetConditions, SetOf
<1> HIDE DEF n, g
<1>4. 0 \in S
  <2>1. g[0] = r
    BY <1>1, <1>2 DEF SetOf
  <2>2. 1..0 = {}
    OBVIOUS
  <2>3. SetSoFar(r, cs, r, 0)
    BY <2>2 DEF SetSoFar
  <2> QED
    BY <2>1, <2>3
<1>5. ASSUME NEW k \in Nat, k \in S
      PROVE  k + 1 \in S
  <2> SUFFICES ASSUME k + 1 <= n PROVE SetSoFar(r, cs, g[k + 1], k + 1)
    OBVIOUS
  <2>1. SetSoFar(r, cs, g[k], k)
    BY <1>1, <1>5
  <2>2. k + 1 \in 0..n /\ k + 1 # 0 /\ (k + 1) - 1 = k
    BY <1>1
  <2>3. g[k + 1] = SetCondition(g[k], cs[k + 1])
    BY <1>2, <2>2 DEF SetOf
  <2> QED
    BY <1>1, <2>1, <2>3, SetTurn
<1> HIDE DEF S
<1>6. Nat \subseteq S
  BY <1>4, <1>5, SetInduction
<1>7. n \in S
  BY <1>1, <1>6
<1>8. SetSoFar(r, cs, g[n], n)
  BY <1>1, <1>7 DEF S
<1> QED
  BY <1>3, <1>8 DEF n

-----------------------------------------------------------------------------
(* Conditions: the comparison of two statuses *)

\* The order of types by their names has no ties.
LEMMA RankOrders ==
  ASSUME NEW c \in Made
  PROVE  Rank(c) \in 1..4 /\ ConditionTypes[Rank(c)] = c.type
<1>1. DOMAIN ConditionTypes = 1..4
  BY DEF ConditionTypes
<1>2. \E i \in 1..4 : ConditionTypes[i] = c.type
  BY DEF ConditionTypes, Made, Types
<1> QED
  BY <1>1, <1>2 DEF Rank

\* A list that is sorted: the same conditions, with ascending types.
LEMMA SortedIs ==
  ASSUME NEW r \in Seq(Made), DistinctTypes(r)
  PROVE  /\ Sorted(r) \in Seq(Made) /\ Len(Sorted(r)) = Len(r)
         /\ \A i \in 1..Len(r) : \E j \in 1..Len(r) : Sorted(r)[i] = r[j]
         /\ \A j \in 1..Len(r) : \E i \in 1..Len(r) : Sorted(r)[i] = r[j]
         /\ \A i, j \in 1..Len(r) : i < j => Rank(Sorted(r)[i]) < Rank(Sorted(r)[j])
<1> DEFINE n == Len(r)
           R == {x \in (1..n) \X (1..n) : Rank(r[x[1]]) < Rank(r[x[2]])}
           Orders(p) == p \in Bijection(1..n, 1..n)
                        /\ \A i, j \in 1..n : i < j => Rank(r[p[i]]) <= Rank(r[p[j]])
           order == CHOOSE p \in Bijection(1..n, 1..n) :
                      \A i, j \in 1..n : i < j => Rank(r[p[i]]) <= Rank(r[p[j]])
<1>1. n \in Nat /\ DOMAIN r = 1..n /\ \A i \in 1..n : r[i] \in Made
  OBVIOUS
<1>2. \A i, j \in 1..n : Rank(r[i]) \in Nat /\ (Rank(r[i]) = Rank(r[j]) => i = j)
  <2>1. \A i \in 1..n : Rank(r[i]) \in 1..4 /\ ConditionTypes[Rank(r[i])] = r[i].type
    BY <1>1, RankOrders
  <2>2. \A i, j \in 1..n : i # j => r[i].type # r[j].type
    BY <1>1 DEF DistinctTypes
  <2> QED
    BY <2>1, <2>2
<1>3. \E p : Orders(p)
  <2>1. IsFiniteSet(1..n) /\ Cardinality(1..n) = n
    <3> HIDE DEF n
    <3>1. IsFiniteSet(1..n) /\ Cardinality(1..n) = IF 1 > n THEN 0 ELSE n - 1 + 1
      BY <1>1, FS_Interval
    <3> QED
      BY <1>1, <3>1
  <2>2. \A x, y \in 1..n : x # y => <<x, y>> \in R \/ <<y, x>> \in R
    BY <1>2
  <2>3. \A x, y, z \in 1..n : <<x, y>> \in R /\ <<y, z>> \in R => <<x, z>> \in R
    BY <1>2
  <2>4. PICK p : Lists(p, n, 1..n, R)
    <3> HIDE DEF R, n
    <3> QED
      BY <2>1, <2>2, <2>3, ListExists
  <2>5. p \in Bijection(1..n, 1..n)
    BY <2>4 DEF Lists
  <2>6. ASSUME NEW i \in 1..n, NEW j \in 1..n, i < j
        PROVE  Rank(r[p[i]]) <= Rank(r[p[j]])
    <3>1. <<p[i], p[j]>> \in R
      BY <2>4, <2>6 DEF Lists
    <3>2. p[i] \in 1..n /\ p[j] \in 1..n /\ Rank(r[p[i]]) < Rank(r[p[j]])
      BY <3>1
    <3> QED
      BY <3>2, <1>2
  <2> QED
    BY <2>5, <2>6
<1>4. Orders(order)
  BY <1>3
<1>5. /\ order \in [1..n -> 1..n] /\ \A j \in 1..n : \E i \in 1..n : order[i] = j
      /\ \A i, j \in 1..n : order[i] = order[j] => i = j
      /\ \A i, j \in 1..n : i < j => Rank(r[order[i]]) <= Rank(r[order[j]])
  BY <1>4 DEF Bijection, Injection, Surjection, IsInjective
<1>6. Sorted(r) = [i \in 1..n |-> r[order[i]]]
  BY <1>1 DEF Sorted
<1> HIDE DEF order
<1>7. Sorted(r) \in [1..n -> Made] /\ \A i \in 1..n : Sorted(r)[i] = r[order[i]]
  BY <1>1, <1>5, <1>6
<1>8. Sorted(r) \in Seq(Made) /\ Len(Sorted(r)) = n
  BY <1>1, <1>7
<1>9. \A i \in 1..n : order[i] \in 1..n /\ Sorted(r)[i] = r[order[i]]
  BY <1>5, <1>7
<1>10. ASSUME NEW i \in 1..n, NEW j \in 1..n, i < j
       PROVE  Rank(Sorted(r)[i]) < Rank(Sorted(r)[j])
  <2>1. order[i] # order[j] /\ Rank(r[order[i]]) <= Rank(r[order[j]])
    BY <1>5, <1>10
  <2>2. Rank(r[order[i]]) # Rank(r[order[j]])
    BY <2>1, <1>2, <1>9
  <2>3. Rank(r[order[i]]) \in Nat /\ Rank(r[order[j]]) \in Nat
    BY <1>2, <1>9
  <2> QED
    BY <2>1, <2>2, <2>3, <1>9
<1>11. \A j \in 1..n : \E i \in 1..n : Sorted(r)[i] = r[j]
  <2> SUFFICES ASSUME NEW j \in 1..n PROVE \E i \in 1..n : Sorted(r)[i] = r[j]
    OBVIOUS
  <2>1. PICK i \in 1..n : order[i] = j
    BY <1>5
  <2> QED
    BY <2>1, <1>9
<1>12. \A i \in 1..n : \E j \in 1..n : Sorted(r)[i] = r[j]
  BY <1>9
<1> HIDE DEF n
<1> QED
  BY <1>8, <1>10, <1>11, <1>12 DEF n

\* Two ascending lists of the same numbers are the same.
LEMMA AscendingAgree ==
  ASSUME NEW a \in Seq(Nat), NEW b \in Seq(Nat),
         \A i, j \in 1..Len(a) : i < j => a[i] < a[j],
         \A i, j \in 1..Len(b) : i < j => b[i] < b[j],
         \A i \in 1..Len(a) : \E j \in 1..Len(b) : a[i] = b[j],
         \A i \in 1..Len(b) : \E j \in 1..Len(a) : b[i] = a[j]
  PROVE  Len(a) = Len(b) /\ \A i \in 1..Len(a) : a[i] = b[i]
<1> DEFINE m == Len(a)
           n == Len(b)
<1>1. m \in Nat /\ n \in Nat
  OBVIOUS
<1>2. (\A i \in 1..m : a[i] \in Nat) /\ (\A i \in 1..n : b[i] \in Nat)
  BY ElementOfSeq
<1>3. \A i, j \in 1..m : i < j => a[i] < a[j]
  OBVIOUS
<1>4. \A i, j \in 1..n : i < j => b[i] < b[j]
  OBVIOUS
<1>5. \A i \in 1..m : \E j \in 1..n : a[i] = b[j]
  OBVIOUS
<1>6. \A i \in 1..n : \E j \in 1..m : b[i] = a[j]
  OBVIOUS
<1> HIDE DEF m, n
<1> DEFINE S == {k \in Nat : \A i \in 1..k : (i <= m <=> i <= n) /\ (i <= m => a[i] = b[i])}
<1>7. 0 \in S
  OBVIOUS
<1>8. ASSUME NEW k \in Nat, k \in S
      PROVE  k + 1 \in S
  <2> DEFINE i == k + 1
  <2>1. \A j \in 1..k : (j <= m <=> j <= n) /\ (j <= m => a[j] = b[j])
    BY <1>8
  <2>2. ASSUME i <= m
        PROVE  \E j \in i..n : a[i] = b[j]
    <3>1. PICK j \in 1..n : a[i] = b[j]
      BY <2>2, <1>1, <1>5
    <3>2. j >= i
      <4> SUFFICES ASSUME j < i PROVE FALSE
        OBVIOUS
      <4>1. j \in 1..k /\ j \in 1..m /\ i \in 1..m
        BY <2>1, <2>2, <1>1
      <4>2. a[j] = b[j] /\ a[j] < a[i] /\ a[i] \in Nat /\ a[j] \in Nat
        BY <4>1, <2>1, <1>2, <1>3
      <4> QED
        BY <4>2, <3>1
    <3> QED
      BY <3>1, <3>2, <1>1
  <2>3. ASSUME i <= n
        PROVE  \E j \in i..m : b[i] = a[j]
    <3>1. PICK j \in 1..m : b[i] = a[j]
      BY <2>3, <1>1, <1>6
    <3>2. j >= i
      <4> SUFFICES ASSUME j < i PROVE FALSE
        OBVIOUS
      <4>1. j \in 1..k /\ j \in 1..n /\ i \in 1..n
        BY <2>1, <2>3, <1>1
      <4>2. a[j] = b[j] /\ b[j] < b[i] /\ b[i] \in Nat /\ b[j] \in Nat
        BY <4>1, <2>1, <1>2, <1>4
      <4> QED
        BY <4>2, <3>1
    <3> QED
      BY <3>1, <3>2, <1>1
  <2>4. i <= m <=> i <= n
    BY <2>2, <2>3, <1>1
  <2>5. ASSUME i <= m
        PROVE  a[i] = b[i]
    <3>1. PICK j \in i..n : a[i] = b[j]
      BY <2>2, <2>5
    <3>2. PICK l \in i..m : b[i] = a[l]
      BY <2>3, <2>4, <2>5
    <3>3. i \in 1..m /\ i \in 1..n
      BY <2>4, <2>5, <1>1
    <3>4. i = j \/ b[i] < b[j]
      BY <3>1, <3>3, <1>1, <1>4
    <3>5. i = l \/ a[i] < a[l]
      BY <3>2, <3>3, <1>1, <1>3
    <3>6. a[i] \in Nat /\ b[i] \in Nat
      BY <3>3, <1>2
    <3> QED
      BY <3>1, <3>2, <3>4, <3>5, <3>6
  <2>6. \A l \in 1..i : l \in 1..k \/ l = i
    OBVIOUS
  <2> QED
    BY <2>1, <2>4, <2>5, <2>6
<1> HIDE DEF S
<1>9. Nat \subseteq S
  BY <1>7, <1>8, SetInduction
<1>10. \A k \in Nat : \A i \in 1..k : (i <= m <=> i <= n) /\ (i <= m => a[i] = b[i])
  BY <1>9 DEF S
<1>11. \A i \in 1..(m + n) : (i <= m <=> i <= n) /\ (i <= m => a[i] = b[i])
  <2>1. m + n \in Nat
    BY <1>1
  <2> QED
    BY <1>10, <2>1
<1>12. m = n
  <2>1. n > 0 => n \in 1..(m + n)
    BY <1>1
  <2>2. m > 0 => m \in 1..(m + n)
    BY <1>1
  <2> QED
    BY <2>1, <2>2, <1>1, <1>11
<1> QED
  BY <1>1, <1>11, <1>12 DEF m, n

\* Of the conditions without their times, one can be told from the other as in Equal.
LEMMA TimelessIs ==
  ASSUME NEW r \in Seq(Made)
  PROVE  \A c \in Made : [c EXCEPT !.time = 0] \in Timeless(r) <=> \E i \in 1..Len(r) : Equal(r[i], c)
<1>1. \A c, d \in Made : [c EXCEPT !.time = 0] = [d EXCEPT !.time = 0] <=> Equal(c, d)
  <2> SUFFICES ASSUME NEW c \in Made, NEW d \in Made
               PROVE  [c EXCEPT !.time = 0] = [d EXCEPT !.time = 0] <=> Equal(c, d)
    OBVIOUS
  <2>1. \A e \in Made : [e EXCEPT !.time = 0] =
          [type |-> e.type, status |-> e.status, reason |-> e.reason, message |-> e.message, time |-> 0]
    BY DEF Made
  <2> QED
    BY <2>1 DEF Equal
<1>2. DOMAIN r = 1..Len(r) /\ \A i \in 1..Len(r) : r[i] \in Made
  OBVIOUS
<1>3. Timeless(r) = {[r[i] EXCEPT !.time = 0] : i \in 1..Len(r)}
  BY <1>2 DEF Timeless, ToSet
<1> QED
  BY <1>1, <1>2, <1>3

\* The comparison of two lists with one condition of each type
LEMMA StatusEqualIs ==
  ASSUME NEW r \in Seq(Made), DistinctTypes(r), NEW s \in Seq(Made), DistinctTypes(s)
  PROVE  StatusEqual(r, s) <=> Timeless(r) = Timeless(s)
<1> DEFINE a == Sorted(r)
           b == Sorted(s)
           m == Len(r)
           n == Len(s)
<1>1. /\ a \in Seq(Made) /\ Len(a) = m
      /\ \A i \in 1..m : \E j \in 1..m : a[i] = r[j]
      /\ \A j \in 1..m : \E i \in 1..m : a[i] = r[j]
      /\ \A i, j \in 1..m : i < j => Rank(a[i]) < Rank(a[j])
  BY SortedIs
<1>2. /\ b \in Seq(Made) /\ Len(b) = n
      /\ \A i \in 1..n : \E j \in 1..n : b[i] = s[j]
      /\ \A j \in 1..n : \E i \in 1..n : b[i] = s[j]
      /\ \A i, j \in 1..n : i < j => Rank(b[i]) < Rank(b[j])
  BY SortedIs
<1>3. StatusEqual(r, s) <=> m = n /\ \A i \in 1..m : Equal(a[i], b[i])
  BY DEF StatusEqual
<1>4. m \in Nat /\ n \in Nat /\ (\A i \in 1..m : r[i] \in Made) /\ (\A i \in 1..n : s[i] \in Made)
  OBVIOUS
<1> HIDE DEF a, b, m, n
<1>5. (\A i \in 1..m : a[i] \in Made) /\ (\A i \in 1..n : b[i] \in Made)
  BY <1>1, <1>2
<1>6. \A c, d \in Made : Equal(c, d) => Equal(d, c) /\ Rank(c) = Rank(d)
  BY DEF Equal, Rank
<1>7. \A c, d, e \in Made : Equal(c, d) /\ Equal(d, e) => Equal(c, e)
  BY DEF Equal
<1>8. Timeless(r) = Timeless(s) <=>
        /\ \A i \in 1..m : \E j \in 1..n : Equal(a[i], b[j])
        /\ \A j \in 1..n : \E i \in 1..m : Equal(a[i], b[j])
  <2>1. Timeless(r) = {[r[i] EXCEPT !.time = 0] : i \in 1..m}
    BY DEF Timeless, ToSet, m
  <2>2. Timeless(s) = {[s[i] EXCEPT !.time = 0] : i \in 1..n}
    BY DEF Timeless, ToSet, n
  <2>3. \A c \in Made : [c EXCEPT !.time = 0] \in Timeless(r) <=> \E i \in 1..m : Equal(r[i], c)
    BY TimelessIs DEF m
  <2>4. \A c \in Made : [c EXCEPT !.time = 0] \in Timeless(s) <=> \E i \in 1..n : Equal(s[i], c)
    BY TimelessIs DEF n
  <2>5. Timeless(r) \subseteq Timeless(s) <=> \A i \in 1..m : \E j \in 1..n : Equal(s[j], r[i])
    BY <2>1, <2>4, <1>4
  <2>6. Timeless(s) \subseteq Timeless(r) <=> \A i \in 1..n : \E j \in 1..m : Equal(r[j], s[i])
    BY <2>2, <2>3, <1>4
  <2>7. (\A i \in 1..m : \E j \in 1..n : Equal(s[j], r[i])) <=>
        (\A i \in 1..m : \E j \in 1..n : Equal(a[i], b[j]))
    <3>1. ASSUME NEW i \in 1..m, \A k \in 1..m : \E j \in 1..n : Equal(s[j], r[k])
          PROVE  \E j \in 1..n : Equal(a[i], b[j])
      <4>1. PICK k \in 1..m : a[i] = r[k]
        BY <1>1
      <4>2. PICK j \in 1..n : Equal(s[j], r[k])
        BY <3>1
      <4>3. PICK l \in 1..n : b[l] = s[j]
        BY <1>2
      <4> QED
        BY <4>1, <4>2, <4>3, <1>4, <1>6
    <3>2. ASSUME NEW i \in 1..m, \A k \in 1..m : \E j \in 1..n : Equal(a[k], b[j])
          PROVE  \E j \in 1..n : Equal(s[j], r[i])
      <4>1. PICK k \in 1..m : a[k] = r[i]
        BY <1>1
      <4>2. PICK j \in 1..n : Equal(a[k], b[j])
        BY <3>2
      <4>3. PICK l \in 1..n : b[j] = s[l]
        BY <1>2
      <4> QED
        BY <4>1, <4>2, <4>3, <1>4, <1>6
    <3> QED
      BY <3>1, <3>2
  <2>8. (\A i \in 1..n : \E j \in 1..m : Equal(r[j], s[i])) <=>
        (\A j \in 1..n : \E i \in 1..m : Equal(a[i], b[j]))
    <3>1. ASSUME NEW i \in 1..n, \A k \in 1..n : \E j \in 1..m : Equal(r[j], s[k])
          PROVE  \E j \in 1..m : Equal(a[j], b[i])
      <4>1. PICK k \in 1..n : b[i] = s[k]
        BY <1>2
      <4>2. PICK j \in 1..m : Equal(r[j], s[k])
        BY <3>1
      <4>3. PICK l \in 1..m : a[l] = r[j]
        BY <1>1
      <4> QED
        BY <4>1, <4>2, <4>3
    <3>2. ASSUME NEW i \in 1..n, \A k \in 1..n : \E j \in 1..m : Equal(a[j], b[k])
          PROVE  \E j \in 1..m : Equal(r[j], s[i])
      <4>1. PICK k \in 1..n : b[k] = s[i]
        BY <1>2
      <4>2. PICK j \in 1..m : Equal(a[j], b[k])
        BY <3>2
      <4>3. PICK l \in 1..m : a[j] = r[l]
        BY <1>1
      <4> QED
        BY <4>1, <4>2, <4>3
    <3> QED
      BY <3>1, <3>2
  <2> QED
    BY <2>5, <2>6, <2>7, <2>8
<1>9. ASSUME Timeless(r) = Timeless(s)
      PROVE  m = n /\ \A i \in 1..m : Equal(a[i], b[i])
  <2> DEFINE ra == [i \in 1..m |-> Rank(a[i])]
             rb == [i \in 1..n |-> Rank(b[i])]
  <2>1. /\ ra \in Seq(Nat) /\ Len(ra) = m /\ \A i \in 1..m : ra[i] = Rank(a[i])
        /\ rb \in Seq(Nat) /\ Len(rb) = n /\ \A i \in 1..n : rb[i] = Rank(b[i])
    <3>1. (\A i \in 1..m : Rank(a[i]) \in Nat) /\ (\A i \in 1..n : Rank(b[i]) \in Nat)
      BY <1>5, RankOrders
    <3> QED
      BY <1>4, <3>1
  <2> HIDE DEF ra, rb
  <2>2. \A i, j \in 1..m : i < j => ra[i] < ra[j]
    <3> SUFFICES ASSUME NEW i \in 1..m, NEW j \in 1..m, i < j PROVE ra[i] < ra[j]
      OBVIOUS
    <3>1. Rank(a[i]) < Rank(a[j])
      BY <1>1
    <3> QED
      BY <2>1, <3>1
  <2>6. \A i, j \in 1..n : i < j => rb[i] < rb[j]
    <3> SUFFICES ASSUME NEW i \in 1..n, NEW j \in 1..n, i < j PROVE rb[i] < rb[j]
      OBVIOUS
    <3>1. Rank(b[i]) < Rank(b[j])
      BY <1>2
    <3> QED
      BY <2>1, <3>1
  <2>3. \A i \in 1..m : \E j \in 1..n : ra[i] = rb[j]
    <3> SUFFICES ASSUME NEW i \in 1..m PROVE \E j \in 1..n : ra[i] = rb[j]
      OBVIOUS
    <3>1. PICK j \in 1..n : Equal(a[i], b[j])
      BY <1>8, <1>9
    <3>2. Rank(a[i]) = Rank(b[j])
      BY <3>1, <1>5, <1>6
    <3> QED
      BY <2>1, <3>2
  <2>7. \A j \in 1..n : \E i \in 1..m : rb[j] = ra[i]
    <3> SUFFICES ASSUME NEW j \in 1..n PROVE \E i \in 1..m : rb[j] = ra[i]
      OBVIOUS
    <3>1. PICK i \in 1..m : Equal(a[i], b[j])
      BY <1>8, <1>9
    <3>2. Rank(a[i]) = Rank(b[j])
      BY <3>1, <1>5, <1>6
    <3> QED
      BY <2>1, <3>2
  <2>4. m = n /\ \A i \in 1..m : ra[i] = rb[i]
    BY <2>1, <2>2, <2>3, <2>6, <2>7, AscendingAgree
  <2>5. ASSUME NEW i \in 1..m
        PROVE  Equal(a[i], b[i])
    <3>1. PICK j \in 1..n : Equal(a[i], b[j])
      BY <1>8, <1>9
    <3>2. rb[j] = rb[i]
      BY <3>1, <2>1, <2>4, <1>5, <1>6
    <3>3. i \in 1..n /\ rb[i] \in Nat
      BY <2>1, <2>4
    <3>4. ~(i < j) /\ ~(j < i)
      BY <3>2, <3>3, <2>6
    <3>5. i = j
      BY <3>3, <3>4
    <3> QED
      BY <3>1, <3>5
  <2> QED
    BY <2>4, <2>5
<1> QED
  BY <1>3, <1>8, <1>9

-----------------------------------------------------------------------------
(* Conditions: the calls *)

\* A status is a list of conditions, one of each type, and so is the other.
ConditionsTypeOK ==
  /\ given.n \in Nat
  /\ status \in Seq(Made) /\ DistinctTypes(status)
  /\ other \in Seq(Made) /\ DistinctTypes(other)

\* A call is given a list of conditions with reasons.
LEMMA GivenType ==
  ASSUME NEW now \in Nat
  PROVE  Given(now) \subseteq Seq(Made)
<1>0. \A t \in Types, ok \in BOOLEAN, reason \in Reasons, m \in Messages :
        Condition(t, ok, reason, m, now) \in Made
  BY DEF Condition, Made
<1>1. ReadyConditions(now) \subseteq Made
  <2> SUFFICES ASSUME NEW c \in ReadyConditions(now) PROVE c \in Made
    OBVIOUS
  <2>1. CASE c \in {Condition("Ready", TRUE, "Ready", "", now),
                  Condition("Ready", FALSE, "Unknown", "", now)}
    BY <1>0, <2>1 DEF Types, Reasons, Messages
  <2>2. CASE \E reason \in {"Action", "NotReady", "Failed"}, m \in Message :
               c = Condition("Ready", FALSE, reason, m, now)
    BY <1>0, <2>2 DEF Types, Reasons, Messages, Message
  <2> QED
    BY <2>1, <2>2 DEF ReadyConditions
<1>2. ConfigConditions(now) \subseteq Made
  BY <1>1 DEF ConfigConditions
<1>3. SyncedConditions(now) \subseteq Made
  <2> SUFFICES ASSUME NEW c \in SyncedConditions(now) PROVE c \in Made
    OBVIOUS
  <2>1. CASE c \in {Condition("Synced", TRUE, "ReconcileSuccess", "", now)}
    BY <1>0, <2>1 DEF Types, Reasons, Messages
  <2>2. CASE \E reason \in {"ReconcileFailure"}, m \in Message :
               c = Condition("Synced", FALSE, reason, m, now)
    BY <1>0, <2>2 DEF Types, Reasons, Messages, Message
  <2> QED
    BY <2>1, <2>2 DEF SyncedConditions
<1>4. WiredConditions(now) \subseteq Made
  <2> SUFFICES ASSUME NEW c \in WiredConditions(now) PROVE c \in Made
    OBVIOUS
  <2>1. CASE c \in {Condition("Wired", TRUE, "Success", "", now),
                  Condition("Wired", FALSE, "Unknown", "", now)}
    BY <1>0, <2>1 DEF Types, Reasons, Messages
  <2>2. CASE \E reason \in {"Failure", "Wiring"}, m \in Message :
               c = Condition("Wired", FALSE, reason, m, now)
    BY <1>0, <2>2 DEF Types, Reasons, Messages, Message
  <2> QED
    BY <2>1, <2>2 DEF WiredConditions
<1>5. EPReadyConditions(now) \subseteq Made
  BY <1>1 DEF EPReadyConditions, Made, Types
<1>6. \A c \in Made : WithMessage(c, "m") \in Made
  BY DEF WithMessage, Made, Messages
<1>7. /\ \A c \in Made : <<c>> \in Seq(Made)
      /\ \A c, d \in Made : <<c, d>> \in Seq(Made)
  OBVIOUS
<1> DEFINE made == ReadyConditions(now) \cup SyncedConditions(now) \cup WiredConditions(now)
                   \cup EPReadyConditions(now)
           some == ConfigConditions(now) \cup SyncedConditions(now)
<1>8. made \subseteq Made /\ some \subseteq Made
  BY <1>1, <1>2, <1>3, <1>4, <1>5
<1> HIDE DEF made, some
<1>9. ASSUME NEW cs \in Given(now)
      PROVE  \/ \E c \in made : cs = <<c>> \/ cs = <<WithMessage(c, "m")>>
             \/ \E c, d \in some : cs = <<c, d>>
  <2>1. cs \in {<<c>> : c \in made} \cup {<<WithMessage(c, "m")>> : c \in made} \cup (some \X some)
    BY DEF Given, made, some
  <2>2. CASE cs \in {<<c>> : c \in made} \/ cs \in {<<WithMessage(c, "m")>> : c \in made}
    BY <2>2, Zenon
  <2>3. CASE cs \in some \X some
    BY <2>3
  <2> QED
    BY <2>1, <2>2, <2>3
<1> QED
  BY <1>6, <1>7, <1>8, <1>9

\* Two empty statuses.
LEMMA ConditionsStart ==
  ConditionsInit => ConditionsTypeOK
BY DEF ConditionsInit, ConditionsTypeOK, DistinctTypes

\* A call is for one of the two and leaves one condition of each type.
LEMMA ConditionsStep ==
  ConditionsTypeOK /\ [Set]_cvars => ConditionsTypeOK'
<1> SUFFICES ASSUME ConditionsTypeOK, [Set]_cvars PROVE ConditionsTypeOK'
  OBVIOUS
<1>1. CASE Set
  <2>1. PICK cs \in Given(given.n + 1), to \in {"status", "other"} :
          /\ given' = [to |-> to, cs |-> cs, n |-> given.n + 1]
          /\ status' = IF to = "status" THEN SetConditions(status, cs) ELSE status
          /\ other' = IF to = "other" THEN SetConditions(other, cs) ELSE other
    BY <1>1 DEF Set
  <2>2. cs \in Seq(Made) /\ given'.n \in Nat
    BY <2>1, GivenType DEF ConditionsTypeOK
  <2>3. \A r \in Seq(Made) :
          DistinctTypes(r) =>
            SetConditions(r, cs) \in Seq(Made) /\ DistinctTypes(SetConditions(r, cs))
    BY <2>2, SetAll DEF SetSoFar
  <2>4. status' \in Seq(Made) /\ DistinctTypes(status')
    BY <2>1, <2>3 DEF ConditionsTypeOK
  <2>5. other' \in Seq(Made) /\ DistinctTypes(other')
    BY <2>1, <2>3 DEF ConditionsTypeOK
  <2> QED
    BY <2>2, <2>4, <2>5 DEF ConditionsTypeOK
<1>2. CASE UNCHANGED cvars
  BY <1>2 DEF cvars, ConditionsTypeOK
<1> QED
  BY <1>1, <1>2

\* Whatever the calls of SetConditions are given, a status has one condition of
\* each type (ConditionedStatus).
THEOREM OneOfEachType == ConditionsSpec => []OnePerType
<1>1. ConditionsTypeOK => OnePerType
  BY DEF ConditionsTypeOK, OnePerType, DistinctTypes
<1> QED
  BY <1>1, ConditionsStart, ConditionsStep, PTL DEF ConditionsSpec

\* Two statuses compare as equal exactly when they have the same conditions,
\* however they are ordered and whenever they changed (ConditionedStatus.Equal).
THEOREM EqualityIsSameSet == ConditionsSpec => []EqualIsSameSet
<1>1. ConditionsTypeOK => EqualIsSameSet
  BY StatusEqualIs DEF ConditionsTypeOK, EqualIsSameSet
<1> QED
  BY <1>1, ConditionsStart, ConditionsStep, PTL DEF ConditionsSpec

\* However many conditions a call gives and a status has, the last one given of a
\* type is there afterwards, the others stay, and one that has not changed keeps
\* the time of its transition (SetConditions).
THEOREM TransitionsStay == ConditionsSpec => TransitionsKept
<1>1. ConditionsTypeOK /\ [Set]_cvars =>
        [given'.to = "status" =>
           \A t \in ToSet(ConditionTypes) :
             LET cs  == given'.cs
                 at  == {i \in DOMAIN cs : cs[i].type = t}
                 old == GetCondition(status, t)
                 new == GetCondition(status', t)
             IN /\ at = {} => new = old
                /\ \A i \in at :
                     /\ (\A j \in at : j <= i) => Equal(new, cs[i])
                     /\ at = {i} /\ Equal(old, cs[i]) => new = old]_cvars
  <2> SUFFICES ASSUME ConditionsTypeOK, Set, given'.to = "status",
                      NEW t \in ToSet(ConditionTypes)
               PROVE  LET cs  == given'.cs
                          at  == {i \in DOMAIN cs : cs[i].type = t}
                          old == GetCondition(status, t)
                          new == GetCondition(status', t)
                      IN /\ at = {} => new = old
                         /\ \A i \in at :
                              /\ (\A j \in at : j <= i) => Equal(new, cs[i])
                              /\ at = {i} /\ Equal(old, cs[i]) => new = old
    OBVIOUS
  <2>1. PICK cs \in Given(given.n + 1), to \in {"status", "other"} :
          /\ given' = [to |-> to, cs |-> cs, n |-> given.n + 1]
          /\ status' = IF to = "status" THEN SetConditions(status, cs) ELSE status
    BY DEF Set
  <2>2. cs \in Seq(Made)
    BY <2>1, GivenType DEF ConditionsTypeOK
  <2>3. SetSoFar(status, cs, status', Len(cs)) /\ given'.cs = cs
    BY <2>1, <2>2, SetAll DEF ConditionsTypeOK
  <2>4. DOMAIN cs = 1..Len(cs)
    BY <2>2
  <2> DEFINE at  == {i \in DOMAIN cs : cs[i].type = t}
             old == GetCondition(status, t)
             new == GetCondition(status', t)
  <2>5. /\ (\A j \in 1..Len(cs) : cs[j].type # t) => new = old
        /\ \A k \in 1..Len(cs) :
             /\ cs[k].type = t /\ (\A j \in 1..Len(cs) : cs[j].type = t => j <= k) =>
                  Equal(new, cs[k])
             /\ (\A j \in 1..Len(cs) : cs[j].type = t <=> j = k) /\ Equal(old, cs[k]) =>
                  new = old
    BY <2>3 DEF SetSoFar
  <2> HIDE DEF old, new
  <2>6. at = {} => new = old
    BY <2>4, <2>5
  <2>7. ASSUME NEW i \in at
        PROVE  /\ (\A j \in at : j <= i) => Equal(new, cs[i])
               /\ at = {i} /\ Equal(old, cs[i]) => new = old
    <3>1. i \in 1..Len(cs) /\ cs[i].type = t
      BY <2>4
    <3>2. (\A j \in at : j <= i) => \A j \in 1..Len(cs) : cs[j].type = t => j <= i
      BY <2>4
    <3>3. at = {i} => \A j \in 1..Len(cs) : cs[j].type = t <=> j = i
      BY <2>4, <3>1
    <3> HIDE DEF at
    <3> QED
      BY <2>5, <3>1, <3>2, <3>3
  <2> HIDE DEF at
  <2> QED
    BY <2>3, <2>6, <2>7 DEF at, old, new
<1> QED
  BY <1>1, ConditionsStart, ConditionsStep, PTL DEF ConditionsSpec, TransitionsKept
=============================================================================
