----------------------------- MODULE PathsProofs -----------------------------
(***************************************************************************)
(* Proofs about the paths of configuration, for strings of every length    *)
(* and every set of origins and elements.  A scanner is a function of the  *)
(* number of characters read.  That of toPathElems is shown to cut a       *)
(* string where its elements end, and that of parseXPathKeys to find each  *)
(* key with its value, by induction on that number.                        *)
(***************************************************************************)
EXTENDS Paths, ValuesProofs

-----------------------------------------------------------------------------
(* Loops *)

\* A function that makes a state of a place and the state before it
IsTurn(turn, m, n, St) == turn \in [((m + 1)..n) \X St -> St]

\* f is a recursive definition over m..n, whose turns stay in a set of states.
IsLoop(f, m, n, a, turn, St) ==
  f \in [m..n -> St] /\ \A i \in m..n : f[i] = IF i = m THEN a ELSE turn[<<i, f[i - 1]>>]

\* Every such definition has its function.
LEMMA LoopDefined ==
  ASSUME NEW St, NEW m \in Nat, NEW n \in Nat, NEW a \in St, NEW turn, IsTurn(turn, m, n, St)
  PROVE  \E f : IsLoop(f, m, n, a, turn, St)
<1> DEFINE K == {d \in Nat : m + d <= n => \E f : IsLoop(f, m, m + d, a, turn, St)}
<1>1. 0 \in K
  <2> DEFINE f == [i \in m..(m + 0) |-> a]
  <2>1. IsLoop(f, m, m + 0, a, turn, St)
    BY DEF IsLoop
  <2> QED
    BY <2>1
<1>2. ASSUME NEW d \in Nat, d \in K
      PROVE  d + 1 \in K
  <2> SUFFICES ASSUME m + (d + 1) <= n
               PROVE  \E f : IsLoop(f, m, m + (d + 1), a, turn, St)
    OBVIOUS
  <2>1. PICK f : IsLoop(f, m, m + d, a, turn, St)
    BY <1>2
  <2>2. f \in [m..(m + d) -> St] /\ \A i \in m..(m + d) : f[i] = IF i = m THEN a ELSE turn[<<i, f[i - 1]>>]
    BY <2>1 DEF IsLoop
  <2> DEFINE k == m + (d + 1)
             h == [i \in m..k |-> IF i = k THEN turn[<<k, f[k - 1]>>] ELSE f[i]]
  <2>3. k \in (m + 1)..n /\ k - 1 \in m..(m + d) /\ k # m
    OBVIOUS
  <2>4. turn[<<k, f[k - 1]>>] \in St
    BY <2>2, <2>3 DEF IsTurn
  <2>5. \A i \in m..k : i # k => i \in m..(m + d)
    OBVIOUS
  <2>6. h \in [m..k -> St]
    BY <2>2, <2>4, <2>5
  <2>7. ASSUME NEW i \in m..k
        PROVE  h[i] = IF i = m THEN a ELSE turn[<<i, h[i - 1]>>]
    <3>1. CASE i = k
      <4>1. h[i - 1] = f[k - 1] /\ i # m
        BY <3>1, <2>3
      <4> QED
        BY <3>1, <4>1
    <3>2. CASE i # k
      <4>1. i \in m..(m + d) /\ h[i] = f[i]
        BY <3>2, <2>5
      <4>2. f[i] = IF i = m THEN a ELSE turn[<<i, f[i - 1]>>]
        BY <4>1, <2>2
      <4>3. i # m => i - 1 \in m..k /\ i - 1 # k /\ h[i - 1] = f[i - 1]
        BY <4>1
      <4> QED
        BY <4>1, <4>2, <4>3
    <3> QED
      BY <3>1, <3>2
  <2> HIDE DEF h, k
  <2>8. IsLoop(h, m, k, a, turn, St)
    BY <2>6, <2>7 DEF IsLoop
  <2> QED
    BY <2>8 DEF k
<1>3. CASE m <= n
  <2> DEFINE d == n - m
  <2>1. d \in Nat /\ m + d = n
    BY <1>3
  <2> HIDE DEF d, K
  <2>2. d \in K
    BY <1>1, <1>2, <2>1, SetInduction
  <2>3. m + d <= n
    BY <2>1
  <2>4. \E f : IsLoop(f, m, m + d, a, turn, St)
    BY <2>2, <2>3 DEF K
  <2> QED
    BY <2>1, <2>4
<1>4. CASE n < m
  <2> DEFINE f == [i \in m..n |-> a]
  <2>1. \A i : i \notin m..n
    BY <1>4
  <2>2. IsLoop(f, m, n, a, turn, St)
    BY <2>1 DEF IsLoop
  <2> QED
    BY <2>2
<1> QED
  BY <1>3, <1>4

-----------------------------------------------------------------------------
(* Sequences put together *)

\* c says where in s the parts are that it was put together from.
Cuts(c, s, parts) ==
  /\ c \in [0..Len(parts) -> Nat] /\ c[0] = 0 /\ c[Len(parts)] = Len(s)
  /\ \A i \in 1..Len(parts) :
       /\ c[i] = c[i - 1] + Len(parts[i]) /\ c[i] <= Len(s)
       /\ \A j \in 1..Len(parts[i]) : s[c[i - 1] + j] = parts[i][j]

\* w is s and then t.
IsJoin(w, s, t) ==
  /\ Len(w) = Len(s) + Len(t)
  /\ \A j \in 1..Len(s) : w[j] = s[j]
  /\ \A j \in 1..Len(t) : w[Len(s) + j] = t[j]

\* What is at each place of two sequences in a row
LEMMA ConcatAt ==
  ASSUME NEW S, NEW s \in Seq(S), NEW t \in Seq(S)
  PROVE  /\ s \o t \in Seq(S) /\ Len(s \o t) = Len(s) + Len(t)
         /\ \A j \in 1..Len(s) : (s \o t)[j] = s[j]
         /\ \A j \in 1..Len(t) : (s \o t)[Len(s) + j] = t[j]
<1>1. \A j \in 1..Len(t) : /\ Len(s) + j \in 1..(Len(s) + Len(t)) /\ ~(Len(s) + j <= Len(s))
                            /\ (Len(s) + j) - Len(s) = j
  OBVIOUS
<1>2. \A j \in 1..Len(t) : (s \o t)[Len(s) + j] = t[j]
  BY <1>1
<1> QED
  BY <1>2

\* The two in a row are that.
LEMMA JoinIs ==
  ASSUME NEW S, NEW s \in Seq(S), NEW t \in Seq(S)
  PROVE  s \o t \in Seq(S) /\ IsJoin(s \o t, s, t)
BY ConcatAt DEF IsJoin

\* The function by which FlattenSeq is defined
LEMMA FlattenLoop ==
  ASSUME NEW S, NEW parts \in Seq(Seq(S)), parts # <<>>
  PROVE  \E f \in [1..Len(parts) -> Seq(S)] :
           /\ FlattenSeq(parts) = f[Len(parts)] /\ f[1] = parts[1]
           /\ \A i \in 2..Len(parts) : f[i] = f[i - 1] \o parts[i]
<1> DEFINE n == Len(parts)
           turn == [x \in (2..n) \X Seq(S) |-> x[2] \o parts[x[1]]]
           Is(f) == f = [i \in 1..n |-> IF i = 1 THEN parts[i] ELSE f[i - 1] \o parts[i]]
           flatten == CHOOSE f : Is(f)
<1>1. n \in Nat /\ n > 0 /\ \A i \in 1..n : parts[i] \in Seq(S)
  OBVIOUS
<1>2. turn \in [(2..n) \X Seq(S) -> Seq(S)]
  BY <1>1
<1> HIDE DEF n
<1>3. PICK f \in [1..n -> Seq(S)] :
        \A i \in 1..n : f[i] = IF i = 1 THEN parts[1] ELSE turn[<<i, f[i - 1]>>]
  <2> DEFINE a == parts[1]
  <2>1. a \in Seq(S) /\ IsTurn(turn, 1, n, Seq(S))
    BY <1>1, <1>2 DEF IsTurn
  <2> HIDE DEF turn, a
  <2>2. \E f : IsLoop(f, 1, n, a, turn, Seq(S))
    BY <1>1, <2>1, LoopDefined
  <2> QED
    BY <2>2 DEF IsLoop, a
<1>4. Is(f)
  <2>1. \A i \in 1..n : i # 1 => <<i, f[i - 1]>> \in (2..n) \X Seq(S)
    BY <1>1
  <2>2. \A i \in 1..n : f[i] = IF i = 1 THEN parts[i] ELSE f[i - 1] \o parts[i]
    BY <1>3, <2>1
  <2> QED
    BY <1>3, <2>2
<1>5. Is(flatten)
  BY <1>4
<1>6. FlattenSeq(parts) = flatten[n]
  BY <1>1 DEF FlattenSeq, n
<1> HIDE DEF flatten
<1>7. flatten[1] = parts[1] /\ \A i \in 2..n : flatten[i] = flatten[i - 1] \o parts[i]
  <2>1. \A i \in 1..n : flatten[i] = IF i = 1 THEN parts[i] ELSE flatten[i - 1] \o parts[i]
    BY <1>5
  <2>2. 1 \in 1..n /\ \A i \in 2..n : i \in 1..n /\ i # 1
    BY <1>1
  <2> QED
    BY <2>1, <2>2
<1>8. flatten \in [1..n -> Seq(S)]
  <2> DEFINE K == {k \in Nat : k \in 1..n => flatten[k] \in Seq(S)}
  <2>1. 0 \in K
    OBVIOUS
  <2>2. ASSUME NEW k \in Nat, k \in K
        PROVE  k + 1 \in K
    <3>1. CASE k = 0
      <4>1. k + 1 = 1
        BY <3>1
      <4> QED
        BY <4>1, <1>1, <1>7
    <3>2. CASE k + 1 \in 2..n
      <4>1. k \in 1..n /\ k + 1 \in 1..n /\ (k + 1) - 1 = k
        BY <3>2, <1>1
      <4>2. flatten[k] \in Seq(S) /\ parts[k + 1] \in Seq(S)
        BY <2>2, <4>1, <1>1
      <4>3. flatten[k + 1] = flatten[(k + 1) - 1] \o parts[k + 1]
        BY <3>2, <1>7
      <4>4. flatten[k + 1] \in Seq(S)
        BY <4>1, <4>2, <4>3
      <4> QED
        BY <4>4
    <3>3. CASE k # 0 /\ k + 1 \notin 1..n
      BY <3>3
    <3>4. k = 0 \/ k + 1 \in 2..n \/ k + 1 \notin 1..n
      BY <1>1
    <3> QED
      BY <3>1, <3>2, <3>3, <3>4
  <2> HIDE DEF K
  <2>3. Nat \subseteq K
    BY <2>1, <2>2, SetInduction
  <2>4. \A k \in 1..n : flatten[k] \in Seq(S)
    BY <2>3 DEF K
  <2> QED
    BY <1>5, <2>4
<1> QED
  BY <1>6, <1>7, <1>8 DEF n

\* Where the parts are in a flattened sequence
LEMMA FlattenCuts ==
  ASSUME NEW S, NEW parts \in Seq(Seq(S))
  PROVE  FlattenSeq(parts) \in Seq(S) /\ \E c : Cuts(c, FlattenSeq(parts), parts)
<1>1. CASE parts = <<>>
  <2>1. FlattenSeq(parts) = <<>>
    BY <1>1 DEF FlattenSeq
  <2>2. Cuts([i \in 0..0 |-> 0], <<>>, <<>>)
    BY DEF Cuts
  <2> QED
    BY <1>1, <2>1, <2>2
<1>2. CASE parts # <<>>
  <2> DEFINE n == Len(parts)
  <2>1. n \in Nat /\ n > 0 /\ \A i \in 1..n : parts[i] \in Seq(S)
    BY <1>2
  <2> HIDE DEF n
  <2>2. PICK f \in [1..n -> Seq(S)] :
          /\ FlattenSeq(parts) = f[n] /\ f[1] = parts[1]
          /\ \A i \in 2..n : f[i] = f[i - 1] \o parts[i]
    BY <1>2, FlattenLoop DEF n
  <2> DEFINE c == [i \in 0..n |-> IF i = 0 THEN 0 ELSE Len(f[i])]
  <2>3. /\ c \in [0..n -> Nat] /\ c[0] = 0 /\ \A i \in 1..n : c[i] = Len(f[i])
    BY <2>1, <2>2
  <2> HIDE DEF c
  <2>4. \A i \in 1..n :
          /\ c[i] = c[i - 1] + Len(parts[i])
          /\ \A j \in 1..c[i - 1] : f[i][j] = f[i - 1][j]
          /\ \A j \in 1..Len(parts[i]) : f[i][c[i - 1] + j] = parts[i][j]
    <3> SUFFICES ASSUME NEW i \in 1..n
                 PROVE  /\ c[i] = c[i - 1] + Len(parts[i])
                        /\ \A j \in 1..c[i - 1] : f[i][j] = f[i - 1][j]
                        /\ \A j \in 1..Len(parts[i]) : f[i][c[i - 1] + j] = parts[i][j]
      OBVIOUS
    <3>1. CASE i = 1
      <4>1. f[1] = parts[1] /\ c[1] = Len(parts[1]) /\ c[0] = 0 /\ parts[1] \in Seq(S)
        BY <2>1, <2>2, <2>3
      <4> QED
        BY <3>1, <4>1
    <3>2. CASE i # 1
      <4>1. i \in 2..n /\ i - 1 \in 1..n
        BY <3>2, <2>1
      <4>2. /\ f[i] = f[i - 1] \o parts[i] /\ f[i - 1] \in Seq(S) /\ parts[i] \in Seq(S)
            /\ c[i - 1] = Len(f[i - 1]) /\ c[i] = Len(f[i])
        BY <4>1, <2>1, <2>2, <2>3
      <4>3. Len(f[i]) = Len(f[i - 1]) + Len(parts[i])
        BY <4>2
      <4>4. /\ \A j \in 1..Len(f[i - 1]) : f[i][j] = f[i - 1][j]
            /\ \A j \in 1..Len(parts[i]) : f[i][Len(f[i - 1]) + j] = parts[i][j]
        <5> DEFINE u == f[i - 1]
                   v == parts[i]
        <5>1. u \in Seq(S) /\ v \in Seq(S) /\ f[i] = u \o v
          BY <4>2
        <5> HIDE DEF u, v
        <5>2. /\ \A j \in 1..Len(u) : f[i][j] = u[j]
              /\ \A j \in 1..Len(v) : f[i][Len(u) + j] = v[j]
          BY <5>1, ConcatAt
        <5> QED
          BY <5>2 DEF u, v
      <4> QED
        BY <4>2, <4>3, <4>4
    <3> QED
      BY <3>1, <3>2
  <2> DEFINE K == {k \in Nat : k <= n =>
                     \A i \in 1..k : /\ c[i] <= c[k]
                                     /\ \A j \in 1..Len(parts[i]) : f[k][c[i - 1] + j] = parts[i][j]}
  <2>5. 0 \in K
    OBVIOUS
  <2>6. ASSUME NEW k \in Nat, k \in K
        PROVE  k + 1 \in K
    <3> SUFFICES ASSUME k + 1 <= n, NEW i \in 1..(k + 1)
                 PROVE  /\ c[i] <= c[k + 1]
                        /\ \A j \in 1..Len(parts[i]) : f[k + 1][c[i - 1] + j] = parts[i][j]
      OBVIOUS
    <3>1. k + 1 \in 1..n /\ (k + 1) - 1 = k /\ c[k + 1] \in Nat /\ c[k] \in Nat
          /\ Len(parts[k + 1]) \in Nat
      BY <2>1, <2>3
    <3>2. CASE i = k + 1
      BY <3>1, <3>2, <2>4
    <3>3. CASE i # k + 1
      <4>1. i \in 1..k /\ i \in 1..n /\ k <= n
        BY <2>1, <3>1, <3>3
      <4>2. c[i] <= c[k] /\ \A j \in 1..Len(parts[i]) : f[k][c[i - 1] + j] = parts[i][j]
        BY <4>1, <2>6
      <4>3. c[i] = c[i - 1] + Len(parts[i]) /\ c[i] \in Nat /\ c[i - 1] \in Nat /\ Len(parts[i]) \in Nat
        <5>1. i \in 0..n /\ i - 1 \in 0..n
          BY <4>1, <2>1
        <5>2. c[i] \in Nat /\ c[i - 1] \in Nat
          BY <5>1, <2>3
        <5> QED
          BY <4>1, <5>2, <2>1, <2>4
      <4>4. c[k + 1] = c[k] + Len(parts[k + 1]) /\ \A j \in 1..c[k] : f[k + 1][j] = f[k][j]
        BY <3>1, <2>4
      <4>5. \A j \in 1..Len(parts[i]) : c[i - 1] + j \in 1..c[k]
        <5> SUFFICES ASSUME NEW j \in 1..Len(parts[i])
                     PROVE  c[i - 1] + j \in 1..c[k]
          OBVIOUS
        <5> DEFINE l == Len(parts[i])
                   x == c[i - 1]
                   y == c[i]
                   z == c[k]
        <5>1. l \in Nat /\ x \in Nat /\ y \in Nat /\ z \in Nat /\ y = x + l /\ y <= z /\ j \in 1..l
          BY <4>2, <4>3, <3>1
        <5> HIDE DEF l, x, y, z
        <5>2. x + j \in 1..z
          BY <5>1
        <5> QED
          BY <5>2 DEF x, z
      <4>6. c[i] <= c[k + 1]
        BY <3>1, <4>2, <4>3, <4>4
      <4>7. \A j \in 1..Len(parts[i]) : f[k + 1][c[i - 1] + j] = f[k][c[i - 1] + j]
        BY <4>4, <4>5
      <4> QED
        BY <4>2, <4>6, <4>7
    <3> QED
      BY <3>2, <3>3
  <2> HIDE DEF K
  <2>7. n \in K
    BY <2>1, <2>5, <2>6, SetInduction
  <2>8. c[n] = Len(f[n]) /\ n <= n /\ n \in 1..n
    BY <2>1, <2>3
  <2>9. Cuts(c, f[n], parts)
    BY <2>1, <2>3, <2>4, <2>7, <2>8 DEF Cuts, K, n
  <2> QED
    BY <2>1, <2>2, <2>9
<1> QED
  BY <1>1, <1>2

\* What is put together from two lists of parts
LEMMA FlattenConcat ==
  ASSUME NEW S, NEW a \in Seq(Seq(S)), NEW b \in Seq(Seq(S))
  PROVE  FlattenSeq(a \o b) = FlattenSeq(a) \o FlattenSeq(b)
<1> DEFINE A == FlattenSeq(a)
           B == FlattenSeq(b)
<1>1. A \in Seq(S) /\ B \in Seq(S)
  BY FlattenCuts
<1>2. FlattenSeq(<<>>) = <<>>
  BY DEF FlattenSeq
<1>3. CASE a = <<>>
  <2>1. a \o b = b /\ A = <<>>
    BY <1>2, <1>3
  <2> HIDE DEF A, B
  <2>2. A \o B = B
    BY <1>1, <2>1
  <2> QED
    BY <2>1, <2>2 DEF A, B
<1>4. CASE b = <<>>
  <2>1. a \o b = a /\ B = <<>>
    BY <1>2, <1>4
  <2> HIDE DEF A, B
  <2>2. A \o B = A
    BY <1>1, <2>1
  <2> QED
    BY <2>1, <2>2 DEF A, B
<1>5. CASE a # <<>> /\ b # <<>>
  <2> DEFINE ab == a \o b
             m == Len(a)
             n == Len(b)
  <2>1. /\ ab \in Seq(Seq(S)) /\ Len(ab) = m + n /\ m \in Nat /\ n \in Nat /\ m > 0 /\ n > 0
        /\ \A i \in 1..m : ab[i] = a[i]
        /\ \A i \in 1..n : ab[m + i] = b[i]
    BY <1>5, ConcatAt
  <2>2. ab # <<>>
    BY <2>1
  <2>3. \A i \in 1..n : b[i] \in Seq(S)
    OBVIOUS
  <2> HIDE DEF ab, m, n
  <2>4. PICK f \in [1..(m + n) -> Seq(S)] :
          /\ FlattenSeq(ab) = f[m + n] /\ f[1] = ab[1]
          /\ \A i \in 2..(m + n) : f[i] = f[i - 1] \o ab[i]
    <3>1. \E f \in [1..Len(ab) -> Seq(S)] :
            /\ FlattenSeq(ab) = f[Len(ab)] /\ f[1] = ab[1]
            /\ \A i \in 2..Len(ab) : f[i] = f[i - 1] \o ab[i]
      <4>1. ab \in Seq(Seq(S)) /\ ab # <<>>
        BY <2>1, <2>2
      <4> QED
        BY <4>1, FlattenLoop
    <3> QED
      BY <2>1, <3>1
  <2>5. PICK g \in [1..m -> Seq(S)] :
          /\ A = g[m] /\ g[1] = a[1] /\ \A i \in 2..m : g[i] = g[i - 1] \o a[i]
    BY <1>5, FlattenLoop DEF m
  <2>6. PICK h \in [1..n -> Seq(S)] :
          /\ B = h[n] /\ h[1] = b[1] /\ \A i \in 2..n : h[i] = h[i - 1] \o b[i]
    BY <1>5, FlattenLoop DEF n
  <2> HIDE DEF A, B
  <2>7. f[m] = A
    <3> DEFINE K == {k \in Nat : k \in 1..m => f[k] = g[k]}
    <3>1. 0 \in K
      OBVIOUS
    <3>2. ASSUME NEW k \in Nat, k \in K
          PROVE  k + 1 \in K
      <4> SUFFICES ASSUME k + 1 \in 1..m
                   PROVE  f[k + 1] = g[k + 1]
        OBVIOUS
      <4>1. CASE k = 0
        <5>1. f[1] = ab[1] /\ g[1] = a[1] /\ 1 \in 1..m
          BY <2>1, <2>4, <2>5
        <5>2. k + 1 = 1
          BY <4>1
        <5> QED
          BY <5>1, <5>2, <2>1
      <4>2. CASE k # 0
        <5>1. k \in 1..m /\ k + 1 \in 2..m /\ k + 1 \in 2..(m + n) /\ (k + 1) - 1 = k
          BY <4>2, <2>1
        <5>2. f[k + 1] = f[k] \o ab[k + 1]
          BY <5>1, <2>4
        <5>3. g[k + 1] = g[k] \o a[k + 1]
          BY <5>1, <2>5
        <5>4. f[k] = g[k] /\ ab[k + 1] = a[k + 1]
          BY <5>1, <3>2, <2>1
        <5> QED
          BY <5>2, <5>3, <5>4
      <4> QED
        BY <4>1, <4>2
    <3> HIDE DEF K
    <3>3. m \in K
      BY <2>1, <3>1, <3>2, SetInduction
    <3> QED
      BY <2>1, <2>5, <3>3 DEF K
  <2>8. f[m + n] = A \o B
    <3> DEFINE K == {k \in Nat : k \in 1..n => f[m + k] = A \o h[k]}
    <3>1. 0 \in K
      OBVIOUS
    <3>2. ASSUME NEW k \in Nat, k \in K
          PROVE  k + 1 \in K
      <4> SUFFICES ASSUME k + 1 \in 1..n
                   PROVE  f[m + (k + 1)] = A \o h[k + 1]
        OBVIOUS
      <4>1. /\ m + (k + 1) \in 2..(m + n) /\ (m + (k + 1)) - 1 = m + k
        BY <2>1
      <4>2. f[m + (k + 1)] = f[m + k] \o ab[m + (k + 1)]
        BY <4>1, <2>4
      <4>3. ab[m + (k + 1)] = b[k + 1] /\ b[k + 1] \in Seq(S)
        BY <2>1, <2>3
      <4>4. CASE k = 0
        <5>1. k + 1 = 1 /\ m + k = m
          BY <4>4, <2>1
        <5> QED
          BY <5>1, <4>2, <4>3, <2>6, <2>7
      <4>5. CASE k # 0
        <5>1. k \in 1..n /\ k + 1 \in 2..n /\ (k + 1) - 1 = k
          BY <4>5, <2>1
        <5>2. h[k + 1] = h[k] \o b[k + 1] /\ h[k] \in Seq(S)
          BY <5>1, <2>6
        <5>3. f[m + k] = A \o h[k]
          BY <5>1, <3>2
        <5> DEFINE u == h[k]
                   v == b[k + 1]
        <5>4. u \in Seq(S) /\ v \in Seq(S) /\ A \in Seq(S)
          BY <5>2, <4>3, <1>1
        <5> HIDE DEF u, v
        <5>5. (A \o u) \o v = A \o (u \o v)
          BY <5>4
        <5>6. f[m + (k + 1)] = (A \o u) \o v /\ h[k + 1] = u \o v
          BY <4>2, <4>3, <5>2, <5>3 DEF u, v
        <5> QED
          BY <5>5, <5>6
      <4> QED
        BY <4>4, <4>5
    <3> HIDE DEF K
    <3>3. n \in K
      BY <2>1, <3>1, <3>2, SetInduction
    <3>4. n \in 1..n
      BY <2>1
    <3>5. f[m + n] = A \o h[n]
      BY <3>3, <3>4 DEF K
    <3> QED
      BY <2>6, <3>5
  <2> QED
    BY <2>4, <2>8 DEF A, B, ab
<1> QED
  BY <1>3, <1>4, <1>5

-----------------------------------------------------------------------------
(* The order of strings *)

\* Every character has its code.
LEMMA CodeIs ==
  \A c \in Char : Code(c) \in 1..8 /\ Alphabet[Code(c)] = c
<1>1. DOMAIN Alphabet = 1..8
  BY DEF Alphabet
<1>2. \A c \in Char : \E i \in DOMAIN Alphabet : Alphabet[i] = c
  BY DEF Char, ToSet
<1> QED
  BY <1>1, <1>2 DEF Code

\* Two strings that differ are one before the other.
LEMMA LessTotal ==
  ASSUME NEW s \in Seq(Char), NEW t \in Seq(Char), s # t
  PROVE  Less(s, t) \/ Less(t, s)
<1> DEFINE D == {i \in Nat : i \in 1..Len(s) /\ i \in 1..Len(t) /\ s[i] # t[i]}
<1>1. Len(s) \in Nat /\ Len(t) \in Nat
  OBVIOUS
<1>2. CASE D = {}
  <2>1. \A i \in 1..Len(s) : i <= Len(t) => s[i] = t[i]
    BY <1>1, <1>2
  <2>2. Len(s) # Len(t)
    <3> SUFFICES ASSUME Len(s) = Len(t)
                 PROVE  FALSE
      OBVIOUS
    <3>1. \A i \in 1..Len(s) : s[i] = t[i]
      BY <1>1, <2>1
    <3>2. s = t
      BY <3>1
    <3> QED
      BY <3>2
  <2>3. CASE Len(s) < Len(t)
    <3>1. Len(s) \in 0..Len(s) /\ Len(s) <= Len(t) /\ \A j \in 1..Len(s) : s[j] = t[j]
      BY <1>1, <2>1, <2>3
    <3> QED
      BY <1>1, <2>3, <3>1 DEF Less
  <2>4. CASE Len(t) < Len(s)
    <3>1. Len(t) \in 0..Len(t) /\ Len(t) <= Len(s) /\ \A j \in 1..Len(t) : t[j] = s[j]
      BY <1>1, <2>1, <2>4
    <3> QED
      BY <1>1, <2>4, <3>1 DEF Less
  <2> QED
    BY <1>1, <2>2, <2>3, <2>4
<1>3. CASE D # {}
  <2> DEFINE m == Min(D)
             i == m - 1
  <2>1. m \in D /\ m \in Nat /\ \A x \in D : m <= x
    BY <1>3, MinIsLeast
  <2>2. i \in Nat /\ i + 1 = m /\ i < Len(s) /\ i < Len(t) /\ i \in 0..Len(s) /\ i \in 0..Len(t)
    BY <1>1, <2>1
  <2>3. \A j \in 1..i : s[j] = t[j]
    <3> HIDE DEF m
    <3>1. \A j \in 1..i : j \in Nat /\ j \in 1..Len(s) /\ j \in 1..Len(t) /\ ~(m <= j)
      BY <1>1, <2>1, <2>2
    <3>2. \A j \in 1..i : j \notin D
      BY <2>1, <3>1
    <3> QED
      BY <3>1, <3>2
  <2>4. s[m] # t[m] /\ s[m] \in Char /\ t[m] \in Char
    BY <2>1
  <2> HIDE DEF D, m, i
  <2>5. Code(s[m]) # Code(t[m]) /\ Code(s[m]) \in 1..8 /\ Code(t[m]) \in 1..8
    BY <2>4, CodeIs
  <2>6. CASE Code(s[m]) < Code(t[m])
    BY <1>1, <2>2, <2>3, <2>6 DEF Less
  <2>7. CASE Code(t[m]) < Code(s[m])
    BY <1>1, <2>2, <2>3, <2>7 DEF Less
  <2> QED
    BY <2>5, <2>6, <2>7
<1> QED
  BY <1>2, <1>3

\* sort.Strings orders: what is less than something less is less.
LEMMA LessTransitive ==
  ASSUME NEW s \in Seq(Char), NEW t \in Seq(Char), NEW u \in Seq(Char), Less(s, t), Less(t, u)
  PROVE  Less(s, u)
<1>1. Len(s) \in Nat /\ Len(t) \in Nat /\ Len(u) \in Nat
  OBVIOUS
<1>2. PICK i \in 0..Len(s) :
        /\ i <= Len(t) /\ \A j \in 1..i : s[j] = t[j]
        /\ i < Len(t) /\ (i < Len(s) => Code(s[i + 1]) < Code(t[i + 1]))
  BY DEF Less
<1>3. PICK k \in 0..Len(t) :
        /\ k <= Len(u) /\ \A j \in 1..k : t[j] = u[j]
        /\ k < Len(u) /\ (k < Len(t) => Code(t[k + 1]) < Code(u[k + 1]))
  BY DEF Less
<1>4. \A j \in Nat : (j < Len(s) => Code(s[j + 1]) \in 1..8) /\ (j < Len(t) => Code(t[j + 1]) \in 1..8)
                     /\ (j < Len(u) => Code(u[j + 1]) \in 1..8)
  BY CodeIs
<1>5. CASE i < k
  <2>1. \A j \in 1..i : s[j] = u[j]
    BY <1>1, <1>2, <1>3, <1>5
  <2>2. t[i + 1] = u[i + 1] /\ i < Len(u)
    BY <1>1, <1>2, <1>3, <1>5
  <2> QED
    BY <1>1, <1>2, <2>1, <2>2 DEF Less
<1>6. CASE k < i
  <2>1. \A j \in 1..k : s[j] = u[j]
    BY <1>1, <1>2, <1>3, <1>6
  <2>2. s[k + 1] = t[k + 1] /\ k < Len(t) /\ k \in 0..Len(s)
    BY <1>1, <1>2, <1>3, <1>6
  <2> QED
    BY <1>1, <1>3, <2>1, <2>2 DEF Less
<1>7. CASE i = k
  <2>1. \A j \in 1..i : s[j] = u[j]
    BY <1>1, <1>2, <1>3, <1>7
  <2>2. i < Len(s) => Code(s[i + 1]) < Code(u[i + 1])
    <3> SUFFICES ASSUME i < Len(s)
                 PROVE  Code(s[i + 1]) < Code(u[i + 1])
      OBVIOUS
    <3>1. Code(s[i + 1]) < Code(t[i + 1]) /\ Code(t[i + 1]) < Code(u[i + 1])
      BY <1>2, <1>3, <1>7
    <3>2. Code(s[i + 1]) \in Nat /\ Code(t[i + 1]) \in Nat /\ Code(u[i + 1]) \in Nat
      <4>1. i + 1 \in 1..Len(s) /\ i + 1 \in 1..Len(t) /\ i + 1 \in 1..Len(u)
        BY <1>1, <1>2, <1>3, <1>7
      <4>2. s[i + 1] \in Char /\ t[i + 1] \in Char /\ u[i + 1] \in Char
        BY <4>1
      <4>3. \A c \in Char : Code(c) \in Nat
        BY CodeIs
      <4> QED
        BY <4>2, <4>3
    <3> QED
      BY <3>1, <3>2
  <2> QED
    BY <1>1, <1>2, <1>3, <1>7, <2>1, <2>2 DEF Less
<1> QED
  BY <1>1, <1>2, <1>3, <1>5, <1>6, <1>7

\* The values of the keys of an element are strings again.
LEMMA SortedValsType ==
  ASSUME NEW key, IsFiniteSet(DOMAIN key),
         \A k \in DOMAIN key : k \in Seq(Char) /\ key[k] \in Seq(Char)
  PROVE  SortedVals(key) \in Seq(Seq(Char))
<1> DEFINE D == DOMAIN key
           n == Cardinality(D)
           R == {p \in Seq(Char) \X Seq(Char) : Less(p[1], p[2])}
           Sort(ks) == \A i, j \in DOMAIN ks : i < j => Less(ks[i], ks[j])
           ks == CHOOSE ks \in SetToSeqs(D) : Sort(ks)
<1>1. n \in Nat
  BY FS_CardinalityType
<1>2. \A x, y \in D : x # y => <<x, y>> \in R \/ <<y, x>> \in R
  BY LessTotal
<1>3. \A x, y, z \in D : <<x, y>> \in R /\ <<y, z>> \in R => <<x, z>> \in R
  BY LessTransitive
<1>4. \A x, y : <<x, y>> \in R => Less(x, y)
  OBVIOUS
<1> HIDE DEF n, R
<1>5. \E q : Lists(q, n, D, R)
  BY <1>2, <1>3, ListExists DEF n
<1>6. PICK q : Lists(q, n, D, R)
  BY <1>5
<1>7. q \in [1..n -> D] /\ (\A i, j \in 1..n : i # j => q[i] # q[j]) /\ Sort(q)
  <2>1. q \in [1..n -> D] /\ (\A i, j \in 1..n : i # j => q[i] # q[j])
    BY <1>6 DEF Lists, Bijection, Injection, IsInjective
  <2>2. \A i, j \in 1..n : i < j => <<q[i], q[j]>> \in R
    BY <1>6 DEF Lists
  <2>3. DOMAIN q = 1..n
    BY <2>1
  <2> QED
    BY <1>4, <2>1, <2>2, <2>3
<1>8. q \in SetToSeqs(D)
  BY <1>7 DEF SetToSeqs, n
<1>9. ks \in SetToSeqs(D)
  BY <1>7, <1>8
<1>10. ks \in [1..n -> D]
  BY <1>9 DEF SetToSeqs, n
<1>11. SortedVals(key) = [i \in DOMAIN ks |-> key[ks[i]]]
  BY DEF SortedVals
<1> HIDE DEF ks
<1>12. SortedVals(key) \in [1..n -> Seq(Char)]
  BY <1>10, <1>11
<1> QED
  BY <1>1, <1>12

-----------------------------------------------------------------------------
(* The paths that are chosen *)

\* What Choose chooses
IsPath(q) ==
  /\ q = Path(q.origin, q.elem) /\ IsOrigin(q.origin)
  /\ q.elem \in Seq(Elem \cup PrefixElem)

\* The inductive invariant: a string of the alphabet and two paths of that form
PathsInv == input \in Seq(Char) /\ IsPath(prefix) /\ IsPath(path)

\* So is the path there is before.
LEMMA NoPathIs == IsPath(NoPath)
<1>1. \A i \in DOMAIN <<>> : FALSE
  OBVIOUS
<1> QED
  BY <1>1 DEF IsPath, NoPath, Path, IsOrigin, Positions

\* Every path that can be chosen is one.
LEMMA PathsUpToAre ==
  ASSUME NEW n \in Nat, NEW elems \in SUBSET (Elem \cup PrefixElem), NEW q \in PathsUpTo(n, elems)
  PROVE  IsPath(q)
<1>1. PICK x \in Origin \X UNION {[1..i -> elems] : i \in 0..n} : q = Path(x[1], x[2])
  BY DEF PathsUpTo
<1>2. PICK i \in 0..n : x[2] \in [1..i -> elems]
  BY <1>1
<1>3. x[2] \in Seq(Elem \cup PrefixElem)
  BY <1>2
<1>4. IsOrigin(x[1])
  BY <1>1, PathsAssumption
<1> QED
  BY <1>1, <1>3, <1>4 DEF IsPath, Path

\* The strings and paths of every reachable state are those the proofs speak of.
LEMMA PathsAlways == PathsSpec => []PathsInv
<1>1. PathsInit => PathsInv
  BY PathsAssumption, NoPathIs DEF PathsInit, PathsInv
<1>2. PathsInv /\ [Type \/ Choose]_pvars => PathsInv'
  <2> SUFFICES ASSUME PathsInv, [Type \/ Choose]_pvars
               PROVE  PathsInv'
    OBVIOUS
  <2>1. CASE Type
    <3>1. PICK c \in Char : input' = Append(input, c)
      BY <2>1 DEF Type
    <3>2. input' \in Seq(Char)
      BY <3>1 DEF PathsInv
    <3> QED
      BY <2>1, <3>2 DEF PathsInv, Type, IsPath
  <2>2. CASE Choose
    <3>1. prefix' \in PathsUpTo(1, PrefixElem) /\ path' \in PathsUpTo(MaxElems, Elem)
      BY <2>2 DEF Choose
    <3>2. PrefixElem \in SUBSET (Elem \cup PrefixElem) /\ Elem \in SUBSET (Elem \cup PrefixElem)
      OBVIOUS
    <3> DEFINE one == 1
    <3>3. one \in Nat /\ MaxElems \in Nat
      BY PathsAssumption
    <3> HIDE DEF one
    <3>4. IsPath(prefix')
      BY <3>1, <3>2, <3>3, PathsUpToAre DEF one
    <3>5. IsPath(path')
      BY <3>1, <3>2, <3>3, PathsUpToAre
    <3> QED
      BY <2>2, <3>4, <3>5 DEF PathsInv, Choose, IsPath
  <2>3. CASE UNCHANGED pvars
    BY <2>3 DEF PathsInv, pvars, IsPath
  <2> QED
    BY <2>1, <2>2, <2>3
<1> QED
  BY <1>1, <1>2, PTL DEF PathsSpec

-----------------------------------------------------------------------------
(* Completing *)

\* The strings of an element
ElemParts(e) == <<e.name>> \o SortedVals(e.key)

\* The strings of each element
PartsOf(elem) == [i \in DOMAIN elem |-> ElemParts(elem[i])]

\* The strings an element gives
LEMMA ElemPartsType ==
  ASSUME NEW e, IsElem(e)
  PROVE  ElemParts(e) \in Seq(Seq(Char)) /\ Len(ElemParts(e)) >= 1
<1>1. SortedVals(e.key) \in Seq(Seq(Char))
  BY SortedValsType DEF IsElem
<1>2. <<e.name>> \in Seq(Seq(Char)) /\ Len(<<e.name>>) = 1
  BY DEF IsElem
<1> DEFINE u == <<e.name>>
           v == SortedVals(e.key)
<1> HIDE DEF u, v
<1>3. u \o v \in Seq(Seq(Char)) /\ Len(u \o v) >= 1
  BY <1>1, <1>2 DEF u, v
<1> QED
  BY <1>3 DEF ElemParts, u, v

\* They are sequences of strings, with the name at least.
LEMMA PartsOfType ==
  ASSUME NEW elem \in Seq(Elem \cup PrefixElem)
  PROVE  /\ PartsOf(elem) \in Seq(Seq(Seq(Char))) /\ Len(PartsOf(elem)) = Len(elem)
         /\ \A i \in 1..Len(elem) : PartsOf(elem)[i] = ElemParts(elem[i]) /\ Len(PartsOf(elem)[i]) >= 1
<1>1. \A i \in 1..Len(elem) : ElemParts(elem[i]) \in Seq(Seq(Char)) /\ Len(ElemParts(elem[i])) >= 1
  <2> SUFFICES ASSUME NEW i \in 1..Len(elem)
               PROVE  ElemParts(elem[i]) \in Seq(Seq(Char)) /\ Len(ElemParts(elem[i])) >= 1
    OBVIOUS
  <2>1. IsElem(elem[i])
    BY PathsAssumption
  <2> QED
    BY <2>1, ElemPartsType
<1>2. DOMAIN elem = 1..Len(elem) /\ Len(elem) \in Nat
  OBVIOUS
<1> QED
  BY <1>1, <1>2 DEF PartsOf

\* The strings of two lists of elements in a row
LEMMA PartsOfConcat ==
  ASSUME NEW a \in Seq(Elem \cup PrefixElem), NEW b \in Seq(Elem \cup PrefixElem)
  PROVE  PartsOf(a \o b) = PartsOf(a) \o PartsOf(b)
<1> DEFINE E == Elem \cup PrefixElem
           ab == a \o b
           m == Len(a)
           n == Len(b)
           A == PartsOf(a)
           B == PartsOf(b)
<1>1. /\ ab \in Seq(E) /\ Len(ab) = m + n /\ m \in Nat /\ n \in Nat
      /\ (\A j \in 1..m : ab[j] = a[j]) /\ \A j \in 1..n : ab[m + j] = b[j]
  BY ConcatAt
<1>2. /\ A \in Seq(Seq(Seq(Char))) /\ Len(A) = m /\ B \in Seq(Seq(Seq(Char))) /\ Len(B) = n
      /\ \A j \in 1..m : A[j] = ElemParts(a[j])
      /\ \A j \in 1..n : B[j] = ElemParts(b[j])
  BY PartsOfType
<1>3. PartsOf(ab) \in Seq(Seq(Seq(Char))) /\ Len(PartsOf(ab)) = m + n
      /\ \A j \in 1..(m + n) : PartsOf(ab)[j] = ElemParts(ab[j])
  BY <1>1, PartsOfType
<1> HIDE DEF ab, m, n, A, B
<1>4. /\ A \o B \in Seq(Seq(Seq(Char))) /\ Len(A \o B) = m + n
      /\ (\A j \in 1..m : (A \o B)[j] = A[j]) /\ \A j \in 1..n : (A \o B)[m + j] = B[j]
  <2>1. /\ A \o B \in Seq(Seq(Seq(Char))) /\ Len(A \o B) = Len(A) + Len(B)
        /\ (\A j \in 1..Len(A) : (A \o B)[j] = A[j]) /\ \A j \in 1..Len(B) : (A \o B)[Len(A) + j] = B[j]
    <3>1. A \in Seq(Seq(Seq(Char))) /\ B \in Seq(Seq(Seq(Char)))
      BY <1>2
    <3> QED
      BY <3>1, ConcatAt
  <2> QED
    BY <1>2, <2>1
<1>5. ASSUME NEW j \in 1..(m + n)
      PROVE  PartsOf(ab)[j] = (A \o B)[j]
  <2>1. CASE j <= m
    <3>1. j \in 1..m
      BY <1>1, <2>1
    <3>2. ab[j] = a[j] /\ (A \o B)[j] = A[j] /\ A[j] = ElemParts(a[j])
      BY <3>1, <1>1, <1>2, <1>4
    <3>3. PartsOf(ab)[j] = ElemParts(ab[j])
      BY <1>3
    <3> QED
      BY <3>2, <3>3
  <2>2. CASE ~(j <= m)
    <3> DEFINE i == j - m
    <3>1. i \in 1..n /\ m + i = j
      BY <1>1, <2>2
    <3> HIDE DEF i
    <3>2. ab[m + i] = b[i] /\ (A \o B)[m + i] = B[i] /\ B[i] = ElemParts(b[i])
      BY <3>1, <1>1, <1>2, <1>4
    <3>3. PartsOf(ab)[j] = ElemParts(ab[j])
      BY <1>3
    <3> QED
      BY <3>1, <3>2, <3>3
  <2> QED
    BY <2>1, <2>2
<1> DEFINE x == PartsOf(ab)
           y == A \o B
<1>6. x \in Seq(Seq(Seq(Char))) /\ y \in Seq(Seq(Seq(Char))) /\ Len(x) = Len(y)
      /\ \A j \in 1..Len(x) : x[j] = y[j]
  BY <1>3, <1>4, <1>5
<1> HIDE DEF x, y
<1>7. x = y
  BY <1>6, SeqEqual
<1> QED
  BY <1>7 DEF x, y, ab, A, B

\* The strings of the elements of a path
LEMMA ToStringsIs ==
  ASSUME NEW q, IsPath(q)
  PROVE  /\ FlattenSeq(PartsOf(q.elem)) \in Seq(Seq(Char))
         /\ ToStrings(q, FALSE, FALSE) = FlattenSeq(PartsOf(q.elem))
         /\ FlattenSeq(PartsOf(q.elem)) = <<>> <=> q.elem = <<>>
<1> DEFINE elem == q.elem
           F == FlattenSeq(PartsOf(elem))
           P == PartsOf(elem)
<1>1. elem \in Seq(Elem \cup PrefixElem)
  BY DEF IsPath
<1>2. P \in Seq(Seq(Seq(Char))) /\ Len(P) = Len(elem)
  BY <1>1, PartsOfType
<1>3. F \in Seq(Seq(Char)) /\ \E c : Cuts(c, F, P)
  BY <1>2, FlattenCuts
<1>4. ToStrings(q, FALSE, FALSE) = <<>> \o F
  BY DEF ToStrings, PartsOf, ElemParts
<1>5. CASE elem = <<>>
  <2>1. P = <<>>
    BY <1>2, <1>5
  <2>2. F = <<>>
    BY <2>1 DEF FlattenSeq
  <2> HIDE DEF P, F, elem
  <2>3. <<>> \o F = F
    BY <1>3
  <2> QED
    BY <1>5, <1>3, <1>4, <2>2, <2>3 DEF P, F, elem
<1>6. CASE elem # <<>>
  <2>1. PICK c : Cuts(c, F, P)
    BY <1>3
  <2>2. Len(elem) \in Nat /\ 1 \in 1..Len(elem)
    BY <1>1, <1>6
  <2>3. Len(P[1]) >= 1
    BY <1>1, <2>2, PartsOfType
  <2> HIDE DEF P, F
  <2>4. c[1] = c[1 - 1] + Len(P[1]) /\ c[1] <= Len(F) /\ c[0] = 0
    BY <1>2, <2>1, <2>2 DEF Cuts
  <2>5. Len(P[1]) \in Nat /\ c[1] \in Nat /\ Len(F) \in Nat /\ 1 - 1 = 0
    BY <1>2, <1>3, <2>1, <2>2 DEF Cuts
  <2>6. F # <<>>
    <3> DEFINE l == Len(P[1])
               d == c[1]
               k == Len(F)
    <3> HIDE DEF l, d, k
    <3>1. d = 0 + l /\ d <= k /\ l >= 1 /\ l \in Nat /\ d \in Nat /\ k \in Nat
      BY <2>3, <2>4, <2>5 DEF l, d, k
    <3>2. k # 0
      BY <3>1
    <3> QED
      BY <3>2 DEF k
  <2>7. <<>> \o F = F
    BY <1>3
  <2> QED
    BY <1>3, <1>4, <1>6, <2>6, <2>7 DEF F, P
<1> QED
  BY <1>5, <1>6

\* For any two paths, of any length and with any keys, CompletePath gives the strings of the
\* joined path, or refuses when that would be ambiguous (CompletePath, toStrings).
THEOREM CompletionJoins == PathsSpec => []CompletesToJoin
<1>1. PathsInv => CompletesToJoin
  <2> SUFFICES ASSUME PathsInv
               PROVE  CompletesToJoin
    OBVIOUS
  <2> DEFINE done    == CompletePath(prefix, path)
             origin  == IF prefix.origin # <<>> THEN prefix.origin ELSE path.origin
             refused == path.origin # <<>> /\ (prefix.origin # <<>> \/ prefix.elem # <<>>)
             both == prefix.elem \o path.elem
             X == FlattenSeq(PartsOf(prefix.elem))
             Y == FlattenSeq(PartsOf(path.elem))
  <2>1. prefix.elem \in Seq(Elem \cup PrefixElem) /\ path.elem \in Seq(Elem \cup PrefixElem)
    BY DEF PathsInv, IsPath
  <2>2. /\ ToStrings(prefix, FALSE, FALSE) = X /\ X \in Seq(Seq(Char))
        /\ X = <<>> <=> prefix.elem = <<>>
    BY ToStringsIs DEF PathsInv
  <2>3. ToStrings(path, FALSE, FALSE) = Y /\ Y \in Seq(Seq(Char))
    BY ToStringsIs DEF PathsInv
  <2>4. FlattenSeq(PartsOf(both)) = X \o Y
    <3>1. PartsOf(both) = PartsOf(prefix.elem) \o PartsOf(path.elem)
      BY <2>1, PartsOfConcat
    <3>2. PartsOf(prefix.elem) \in Seq(Seq(Seq(Char))) /\ PartsOf(path.elem) \in Seq(Seq(Seq(Char)))
      BY <2>1, PartsOfType
    <3> QED
      BY <3>1, <3>2, FlattenConcat
  <2>5. ToStrings(Path(origin, both), TRUE, FALSE)
          = (IF origin # <<>> THEN <<origin>> ELSE <<>>) \o FlattenSeq(PartsOf(both))
    BY DEF ToStrings, Path, PartsOf, ElemParts
  <2> HIDE DEF X, Y
  <2>6. <<>> \o (X \o Y) = X \o Y /\ <<>> \o Y = Y
    BY <2>2, <2>3
  <2>7. ASSUME NEW o
        PROVE  (<<o>> \o X) \o Y = <<o>> \o (X \o Y) /\ (X = <<>> => X \o Y = Y)
    BY <2>2, <2>3
  <2>8. CompletesToJoin <=>
           /\ done.ok <=> ~refused
           /\ done.ok => done.strings = ToStrings(Path(origin, both), TRUE, FALSE)
    BY DEF CompletesToJoin
  <2>9. CASE prefix.origin # <<>> /\ path.origin # <<>>
    BY <2>9 DEF CompletesToJoin, CompletePath, Malformed
  <2>10. CASE prefix.origin # <<>> /\ path.origin = <<>>
    <3>1. done = [ok |-> TRUE, strings |-> (<<prefix.origin>> \o X) \o Y]
      BY <2>2, <2>3, <2>10 DEF CompletePath
    <3>2. done.ok /\ ~refused /\ done.strings = (<<prefix.origin>> \o X) \o Y
      BY <2>10, <3>1
    <3> HIDE DEF done
    <3> QED
      BY <2>4, <2>5, <2>7, <2>10, <2>8, <3>2
  <2>11. CASE prefix.origin = <<>> /\ path.origin # <<>>
    <3>1. CASE X # <<>>
      BY <2>2, <2>11, <3>1 DEF CompletesToJoin, CompletePath, Malformed
    <3>2. CASE X = <<>>
      <4>1. done = [ok |-> TRUE, strings |-> <<path.origin>> \o Y]
        BY <2>2, <2>3, <2>11, <3>2 DEF CompletePath
      <4>2. done.ok /\ ~refused /\ done.strings = <<path.origin>> \o Y
        BY <2>2, <2>11, <3>2, <4>1
      <4> HIDE DEF done
      <4> QED
        BY <2>4, <2>5, <2>7, <2>11, <2>8, <3>2, <4>2
    <3> QED
      BY <3>1, <3>2
  <2>12. CASE prefix.origin = <<>> /\ path.origin = <<>>
    <3>1. done = [ok |-> TRUE, strings |-> X \o Y]
      BY <2>2, <2>3, <2>12 DEF CompletePath
    <3>2. done.ok /\ ~refused /\ done.strings = X \o Y
      BY <2>12, <3>1
    <3> HIDE DEF done
    <3> QED
      BY <2>4, <2>5, <2>6, <2>12, <2>8, <3>2
  <2> QED
    BY <2>9, <2>10, <2>11, <2>12
<1> QED
  BY <1>1, PathsAlways, PTL

-----------------------------------------------------------------------------
(* Cuts *)

\* Cuts are in order.
LEMMA CutsAscend ==
  ASSUME NEW S, NEW s \in Seq(S), NEW parts \in Seq(Seq(S)), NEW c, Cuts(c, s, parts),
         NEW i \in 0..Len(parts), NEW j \in 0..Len(parts), i <= j
  PROVE  c[i] <= c[j]
<1> DEFINE n == Len(parts)
           K == {d \in Nat : i + d <= n => c[i] <= c[i + d]}
<1>1. n \in Nat /\ c \in [0..n -> Nat] /\ \A k \in 1..n : parts[k] \in Seq(S) /\ c[k] = c[k - 1] + Len(parts[k])
  BY DEF Cuts
<1> HIDE DEF n
<1>0. i \in 0..n /\ j \in 0..n
  BY DEF n
<1>2. 0 \in K
  BY <1>0, <1>1
<1>3. ASSUME NEW d \in Nat, d \in K
      PROVE  d + 1 \in K
  <2> SUFFICES ASSUME i + (d + 1) <= n
               PROVE  c[i] <= c[i + (d + 1)]
    OBVIOUS
  <2> DEFINE k == i + (d + 1)
             l == Len(parts[k])
  <2>1. k \in 1..n /\ k - 1 = i + d /\ i + d \in 0..n
    BY <1>0, <1>1
  <2>2. l \in Nat /\ c[k] = c[k - 1] + l
    BY <1>1, <2>1
  <2> HIDE DEF k, l
  <2>3. c[i] \in Nat /\ c[i + d] \in Nat /\ c[i] <= c[i + d]
    BY <1>0, <1>1, <1>3, <2>1
  <2>4. c[k] = c[i + d] + l
    BY <2>1, <2>2
  <2>5. c[i] <= c[k]
    BY <2>2, <2>3, <2>4
  <2> QED
    BY <2>5 DEF k
<1> HIDE DEF K
<1> DEFINE d == j - i
<1>4. d \in Nat /\ i + d = j
  BY <1>0
<1> HIDE DEF d
<1>5. d \in K
  BY <1>2, <1>3, <1>4, SetInduction
<1>6. i + d <= n
  BY <1>0, <1>1, <1>4
<1>7. c[i] <= c[i + d]
  BY <1>5, <1>6 DEF K
<1> QED
  BY <1>4, <1>7

\* Every place of what was put together is in one of the parts.
LEMMA CutsCover ==
  ASSUME NEW S, NEW s \in Seq(S), NEW parts \in Seq(Seq(S)), NEW c, Cuts(c, s, parts),
         NEW q \in 1..Len(s)
  PROVE  \E j \in 1..Len(parts) :
           /\ c[j - 1] < q /\ q <= c[j]
           /\ q - c[j - 1] \in 1..Len(parts[j]) /\ s[q] = parts[j][q - c[j - 1]]
<1> DEFINE n == Len(parts)
           D == {j \in Nat : j \in 0..n /\ q <= c[j]}
           m == Min(D)
<1>1. /\ n \in Nat /\ c \in [0..n -> Nat] /\ c[0] = 0 /\ c[n] = Len(s)
      /\ \A k \in 1..n : /\ parts[k] \in Seq(S) /\ c[k] = c[k - 1] + Len(parts[k])
                         /\ \A j \in 1..Len(parts[k]) : s[c[k - 1] + j] = parts[k][j]
  BY DEF Cuts
<1>2. n \in D
  BY <1>1
<1>3. m \in D /\ m \in Nat /\ \A x \in D : m <= x
  BY <1>2, MinIsLeast
<1> HIDE DEF m, n
<1>4. m # 0
  BY <1>1, <1>3
<1>5. m \in 1..n /\ m - 1 \in 0..n /\ m - 1 \in Nat /\ ~(m <= m - 1)
  BY <1>1, <1>3, <1>4
<1>6. c[m - 1] < q /\ q <= c[m]
  <2>1. m - 1 \notin D
    BY <1>3, <1>5
  <2>2. c[m - 1] \in Nat /\ q \in Nat
    BY <1>1, <1>5
  <2> QED
    BY <1>3, <1>5, <2>1, <2>2
<1> DEFINE a == c[m - 1]
           b == c[m]
           l == Len(parts[m])
           r == q - a
<1>7. a \in Nat /\ b \in Nat /\ l \in Nat /\ b = a + l /\ a < q /\ q <= b /\ q \in Nat
      /\ \A j \in 1..l : s[a + j] = parts[m][j]
  <2>1. a \in Nat /\ b \in Nat /\ parts[m] \in Seq(S)
    BY <1>1, <1>5
  <2>2. l \in Nat /\ q \in Nat
    BY <2>1
  <2>3. b = a + l /\ \A j \in 1..l : s[a + j] = parts[m][j]
    BY <1>1, <1>5
  <2> QED
    BY <1>6, <2>1, <2>2, <2>3
<1> HIDE DEF a, b, l
<1>8. r \in 1..l /\ a + r = q
  BY <1>7
<1>9. s[q] = parts[m][r]
  BY <1>7, <1>8
<1> HIDE DEF r
<1>10. /\ c[m - 1] < q /\ q <= c[m]
       /\ q - c[m - 1] \in 1..Len(parts[m]) /\ s[q] = parts[m][q - c[m - 1]]
  BY <1>6, <1>8, <1>9 DEF a, l, r
<1> QED
  BY <1>5, <1>10 DEF n

-----------------------------------------------------------------------------
(* Escapes *)

\* The states of the replacer
LEMMA UnescapeLoop ==
  ASSUME NEW s \in Seq(Char)
  PROVE  \E f \in [0..Len(s) -> Seq(Char)] :
           /\ Unescape(s) = f[Len(s)] /\ f[0] = <<>>
           /\ \A i \in 1..Len(s) :
                f[i] = IF s[i] = "\\" /\ i < Len(s) /\ s[i + 1] \in {"[", "]"} THEN f[i - 1]
                       ELSE Append(f[i - 1], s[i])
<1> DEFINE n == Len(s)
           Next(i, t) == IF s[i] = "\\" /\ i < n /\ s[i + 1] \in {"[", "]"} THEN t ELSE Append(t, s[i])
           turn == [x \in (1..n) \X Seq(Char) |-> Next(x[1], x[2])]
           Is(f) == f = [i \in 0..n |-> IF i = 0 THEN <<>>
                           ELSE IF s[i] = "\\" /\ i < n /\ s[i + 1] \in {"[", "]"} THEN f[i - 1]
                           ELSE Append(f[i - 1], s[i])]
           kept == CHOOSE f : Is(f)
<1>1. n \in Nat /\ \A i \in 1..n : s[i] \in Char
  OBVIOUS
<1> HIDE DEF n
<1>2. IsTurn(turn, 0, n, Seq(Char))
  <2>1. \A x \in (1..n) \X Seq(Char) : Next(x[1], x[2]) \in Seq(Char)
    BY <1>1
  <2> QED
    BY <2>1 DEF IsTurn
<1>3. PICK f : IsLoop(f, 0, n, <<>>, turn, Seq(Char))
  <2> DEFINE a == <<>>
  <2>1. a \in Seq(Char)
    OBVIOUS
  <2> HIDE DEF a, turn
  <2>2. \E f : IsLoop(f, 0, n, a, turn, Seq(Char))
    BY <1>1, <1>2, <2>1, LoopDefined
  <2> QED
    BY <2>2 DEF a
<1>4. f \in [0..n -> Seq(Char)] /\ f[0] = <<>> /\ \A i \in 1..n : f[i] = Next(i, f[i - 1])
  <2>1. f \in [0..n -> Seq(Char)] /\ \A i \in 0..n : f[i] = IF i = 0 THEN <<>> ELSE turn[<<i, f[i - 1]>>]
    BY <1>3 DEF IsLoop
  <2>2. \A i \in 1..n : <<i, f[i - 1]>> \in (1..n) \X Seq(Char) /\ i \in 0..n /\ i # 0
    BY <1>1, <2>1
  <2>3. 0 \in 0..n
    BY <1>1
  <2> QED
    BY <2>1, <2>2, <2>3
<1>5. Is(f)
  <2>1. \A i \in 0..n : i # 0 => i \in 1..n
    BY <1>1
  <2> QED
    BY <1>4, <2>1
<1>6. Is(kept)
  BY <1>5
<1>7. Unescape(s) = kept[n]
  BY DEF Unescape, n
<1> HIDE DEF kept
<1>8. kept[0] = <<>> /\ \A i \in 1..n : kept[i] = Next(i, kept[i - 1])
  <2>1. 0 \in 0..n /\ \A i \in 1..n : i \in 0..n /\ i # 0
    BY <1>1
  <2> QED
    BY <1>6, <2>1
<1>9. kept \in [0..n -> Seq(Char)]
  <2> DEFINE K == {k \in Nat : k <= n => kept[k] \in Seq(Char)}
  <2>1. 0 \in K
    <3>1. <<>> \in Seq(Char)
      OBVIOUS
    <3> QED
      BY <1>8, <3>1
  <2>2. ASSUME NEW k \in Nat, k \in K
        PROVE  k + 1 \in K
    <3> SUFFICES ASSUME k + 1 <= n
                 PROVE  kept[k + 1] \in Seq(Char)
      OBVIOUS
    <3>1. k + 1 \in 1..n /\ (k + 1) - 1 = k /\ k <= n
      BY <1>1
    <3>2. kept[k] \in Seq(Char) /\ s[k + 1] \in Char /\ kept[k + 1] = Next(k + 1, kept[k])
      BY <1>1, <1>8, <2>2, <3>1
    <3> QED
      BY <3>2
  <2> HIDE DEF K
  <2>3. Nat \subseteq K
    BY <2>1, <2>2, SetInduction
  <2>4. \A k \in 0..n : kept[k] \in Seq(Char)
    BY <1>1, <2>3 DEF K
  <2> QED
    BY <1>6, <2>4
<1> QED
  BY <1>7, <1>8, <1>9 DEF n

\* What comes out was in, and the last character stays.
LEMMA UnescapeIs ==
  ASSUME NEW s \in Seq(Char)
  PROVE  /\ Unescape(s) \in Seq(Char)
         /\ \A c \in Char : (\A i \in 1..Len(s) : s[i] # c) =>
                              \A i \in 1..Len(Unescape(s)) : Unescape(s)[i] # c
         /\ s # <<>> => Unescape(s) # <<>> /\ Last(Unescape(s)) = Last(s)
<1>1. PICK f \in [0..Len(s) -> Seq(Char)] :
        /\ Unescape(s) = f[Len(s)] /\ f[0] = <<>>
        /\ \A i \in 1..Len(s) :
             f[i] = IF s[i] = "\\" /\ i < Len(s) /\ s[i + 1] \in {"[", "]"} THEN f[i - 1]
                    ELSE Append(f[i - 1], s[i])
  BY UnescapeLoop
<1> DEFINE n == Len(s)
<1>2. n \in Nat /\ \A i \in 1..n : s[i] \in Char
  OBVIOUS
<1>3. n \in 0..n /\ f[n] \in Seq(Char)
  BY <1>1, <1>2
<1>4. ASSUME NEW c \in Char, \A i \in 1..n : s[i] # c
      PROVE  \A i \in 1..Len(f[n]) : f[n][i] # c
  <2> DEFINE K == {k \in Nat : k <= n => \A i \in 1..Len(f[k]) : f[k][i] # c}
  <2>1. 0 \in K
    BY <1>1
  <2>2. ASSUME NEW k \in Nat, k \in K
        PROVE  k + 1 \in K
    <3> SUFFICES ASSUME k + 1 <= n
                 PROVE  \A i \in 1..Len(f[k + 1]) : f[k + 1][i] # c
      OBVIOUS
    <3>1. k + 1 \in 1..n /\ (k + 1) - 1 = k /\ k \in 0..n
      BY <1>2
    <3> DEFINE t == f[k]
               x == s[k + 1]
    <3>2. t \in Seq(Char) /\ x # c /\ \A i \in 1..Len(t) : t[i] # c
      BY <1>1, <1>4, <2>2, <3>1
    <3>3. f[k + 1] = t \/ f[k + 1] = Append(t, x)
      BY <1>1, <3>1
    <3> HIDE DEF t, x
    <3>4. \A i \in 1..Len(Append(t, x)) : Append(t, x)[i] # c
      BY <3>2
    <3> QED
      BY <3>2, <3>3, <3>4
  <2> HIDE DEF K
  <2>3. n \in K
    BY <1>2, <2>1, <2>2, SetInduction
  <2> QED
    BY <1>2, <2>3 DEF K
<1>5. ASSUME s # <<>>
      PROVE  f[n] # <<>> /\ Last(f[n]) = Last(s)
  <2>1. n \in 1..n /\ n - 1 \in 0..n
    BY <1>2, <1>5
  <2> DEFINE t == f[n - 1]
             x == s[n]
  <2>2. t \in Seq(Char) /\ f[n] = Append(t, x)
    <3>1. ~(n < n)
      BY <1>2
    <3> QED
      BY <1>1, <2>1, <3>1
  <2> HIDE DEF t, x
  <2>3. Append(t, x) # <<>> /\ Len(Append(t, x)) = Len(t) + 1 /\ Append(t, x)[Len(t) + 1] = x
    BY <2>2
  <2> QED
    BY <2>2, <2>3 DEF Last, x
<1> QED
  BY <1>1, <1>3, <1>4, <1>5

\* Without brackets nothing changes.
LEMMA UnescapePlain ==
  ASSUME NEW s \in Seq(Char), \A i \in 1..Len(s) : s[i] \notin {"[", "]"}
  PROVE  Unescape(s) = s
<1>1. PICK f \in [0..Len(s) -> Seq(Char)] :
        /\ Unescape(s) = f[Len(s)] /\ f[0] = <<>>
        /\ \A i \in 1..Len(s) :
             f[i] = IF s[i] = "\\" /\ i < Len(s) /\ s[i + 1] \in {"[", "]"} THEN f[i - 1]
                    ELSE Append(f[i - 1], s[i])
  BY UnescapeLoop
<1> DEFINE n == Len(s)
           K == {k \in Nat : k <= n => Len(f[k]) = k /\ \A i \in 1..k : f[k][i] = s[i]}
<1>2. n \in Nat /\ \A i \in 1..n : s[i] \in Char
  OBVIOUS
<1>3. 0 \in K
  BY <1>1
<1>4. ASSUME NEW k \in Nat, k \in K
      PROVE  k + 1 \in K
  <2> SUFFICES ASSUME k + 1 <= n
               PROVE  Len(f[k + 1]) = k + 1 /\ \A i \in 1..(k + 1) : f[k + 1][i] = s[i]
    OBVIOUS
  <2>1. k + 1 \in 1..n /\ (k + 1) - 1 = k /\ k \in 0..n
    BY <1>2
  <2>2. ~(k + 1 < n /\ s[(k + 1) + 1] \in {"[", "]"})
    BY <1>2
  <2> DEFINE t == f[k]
             x == s[k + 1]
  <2>3. t \in Seq(Char) /\ x \in Char /\ Len(t) = k /\ \A i \in 1..k : t[i] = s[i]
    BY <1>1, <1>2, <1>4, <2>1
  <2>4. f[k + 1] = Append(t, x)
    BY <1>1, <2>1, <2>2
  <2> HIDE DEF t
  <2>5. Len(Append(t, x)) = k + 1 /\ \A i \in 1..(k + 1) : Append(t, x)[i] = IF i = k + 1 THEN x ELSE t[i]
    BY <2>3
  <2> QED
    BY <2>3, <2>4, <2>5
<1> HIDE DEF K
<1>5. n \in K
  BY <1>2, <1>3, <1>4, SetInduction
<1>6. Len(f[n]) = n /\ (\A i \in 1..n : f[n][i] = s[i]) /\ f[n] \in Seq(Char)
  BY <1>1, <1>2, <1>5 DEF K
<1>7. f[n] = s
  BY <1>6, SeqEqual
<1> QED
  BY <1>1, <1>7

-----------------------------------------------------------------------------
(* Escaping *)

\* A character with what Escape puts before it
Escaped(c) == IF c \in {"[", "]"} THEN <<"\\", c>> ELSE <<c>>

\* The characters of a string so
EscapedAll(s) == [i \in DOMAIN s |-> Escaped(s[i])]

\* Every bracket is behind a backslash.
Guarded(s) == \A i \in 1..Len(s) : s[i] \in {"[", "]"} => i > 1 /\ s[i - 1] = "\\"

\* One or two characters, the last of which is the character itself
LEMMA EscapedIs ==
  ASSUME NEW c \in Char
  PROVE  /\ Escaped(c) \in Seq(Char) /\ Len(Escaped(c)) \in 1..2 /\ Escaped(c)[Len(Escaped(c))] = c
         /\ c \in {"[", "]"} => Escaped(c)[1] = "\\" /\ Len(Escaped(c)) = 2
         /\ c \notin {"[", "]"} => Len(Escaped(c)) = 1 /\ Escaped(c)[1] = c
         /\ Escaped(c)[1] \notin {"[", "]"}
<1>1. "\\" \in Char
  <2>1. Alphabet[5] = "\\" /\ 5 \in DOMAIN Alphabet
    BY DEF Alphabet
  <2> QED
    BY <2>1 DEF Char, ToSet
<1>2. CASE c \in {"[", "]"}
  <2>1. Escaped(c) = <<"\\", c>>
    BY <1>2 DEF Escaped
  <2> QED
    BY <1>1, <1>2, <2>1
<1>3. CASE c \notin {"[", "]"}
  <2>1. Escaped(c) = <<c>>
    BY <1>3 DEF Escaped
  <2> QED
    BY <1>3, <2>1
<1> QED
  BY <1>2, <1>3

\* Escape is these in a row.
LEMMA EscapedAllIs ==
  ASSUME NEW s \in Seq(Char)
  PROVE  /\ EscapedAll(s) \in Seq(Seq(Char)) /\ Len(EscapedAll(s)) = Len(s)
         /\ \A i \in 1..Len(s) : EscapedAll(s)[i] = Escaped(s[i]) /\ s[i] \in Char
         /\ Escape(s) = FlattenSeq(EscapedAll(s)) /\ Escape(s) \in Seq(Char)
         /\ \E c : Cuts(c, Escape(s), EscapedAll(s))
<1>1. DOMAIN s = 1..Len(s) /\ Len(s) \in Nat /\ \A i \in 1..Len(s) : s[i] \in Char
  OBVIOUS
<1>2. EscapedAll(s) \in [1..Len(s) -> Seq(Char)]
  BY <1>1, EscapedIs DEF EscapedAll
<1>3. /\ EscapedAll(s) \in Seq(Seq(Char)) /\ Len(EscapedAll(s)) = Len(s)
      /\ \A i \in 1..Len(s) : EscapedAll(s)[i] = Escaped(s[i]) /\ s[i] \in Char
  BY <1>1, <1>2 DEF EscapedAll
<1>4. Escape(s) = FlattenSeq(EscapedAll(s))
  BY DEF Escape, EscapedAll, Escaped
<1> QED
  BY <1>3, <1>4, FlattenCuts

\* Escaping is undone by Unescape, leaves no bracket unescaped, and the last character in place.
LEMMA EscapeIs ==
  ASSUME NEW s \in Seq(Char)
  PROVE  /\ Escape(s) \in Seq(Char) /\ Guarded(Escape(s))
         /\ s # <<>> => Escape(s) # <<>> /\ Last(Escape(s)) = Last(s)
         /\ \A c \in Char : c # "\\" /\ (\A i \in 1..Len(s) : s[i] # c) =>
                              \A i \in 1..Len(Escape(s)) : Escape(s)[i] # c
         /\ Unescape(Escape(s)) = s
<1> DEFINE n == Len(s)
           t == Escape(s)
           parts == EscapedAll(s)
<1>1. PICK c : Cuts(c, t, parts)
  BY EscapedAllIs
<1>2. t \in Seq(Char) /\ parts \in Seq(Seq(Char)) /\ Len(parts) = n /\ n \in Nat /\ Len(t) \in Nat
  BY EscapedAllIs
<1>3. \A j \in 1..n :
        /\ s[j] \in Char /\ Len(parts[j]) \in 1..2 /\ parts[j][Len(parts[j])] = s[j]
        /\ s[j] \in {"[", "]"} => parts[j][1] = "\\" /\ Len(parts[j]) = 2
        /\ s[j] \notin {"[", "]"} => Len(parts[j]) = 1 /\ parts[j][1] = s[j]
        /\ parts[j][1] \notin {"[", "]"}
  <2> SUFFICES ASSUME NEW j \in 1..n
               PROVE  /\ s[j] \in Char /\ Len(parts[j]) \in 1..2 /\ parts[j][Len(parts[j])] = s[j]
                      /\ s[j] \in {"[", "]"} => parts[j][1] = "\\" /\ Len(parts[j]) = 2
                      /\ s[j] \notin {"[", "]"} => Len(parts[j]) = 1 /\ parts[j][1] = s[j]
                      /\ parts[j][1] \notin {"[", "]"}
    OBVIOUS
  <2>1. parts[j] = Escaped(s[j]) /\ s[j] \in Char
    BY EscapedAllIs
  <2> HIDE DEF parts
  <2> QED
    BY <2>1, EscapedIs
<1> HIDE DEF n, t, parts
<1>4. /\ c \in [0..n -> Nat] /\ c[0] = 0 /\ c[n] = Len(t)
      /\ \A j \in 1..n :
           /\ c[j] = c[j - 1] + Len(parts[j]) /\ c[j] <= Len(t)
           /\ \A q \in 1..Len(parts[j]) : t[c[j - 1] + q] = parts[j][q]
  BY <1>1, <1>2 DEF Cuts
\* The characters for each one of s
<1>5. ASSUME NEW j \in 1..n
      PROVE  /\ c[j - 1] \in Nat /\ c[j] \in Nat /\ c[j] <= Len(t) /\ j - 1 \in 0..n
             /\ t[c[j]] = s[j]
             /\ t[c[j - 1] + 1] \notin {"[", "]"}
             /\ s[j] \in {"[", "]"} => c[j] = c[j - 1] + 2 /\ t[c[j - 1] + 1] = "\\"
             /\ s[j] \notin {"[", "]"} => c[j] = c[j - 1] + 1
  <2> DEFINE a == c[j - 1]
             b == c[j]
             p == parts[j]
  <2>1. a \in Nat /\ b \in Nat /\ b = a + Len(p) /\ b <= Len(t) /\ j - 1 \in 0..n
        /\ \A q \in 1..Len(p) : t[a + q] = p[q]
    <3>1. j \in 0..n /\ j - 1 \in 0..n
      BY <1>2
    <3> QED
      BY <1>4, <3>1
  <2>2. /\ Len(p) \in 1..2 /\ p[Len(p)] = s[j]
        /\ s[j] \in {"[", "]"} => p[1] = "\\" /\ Len(p) = 2
        /\ s[j] \notin {"[", "]"} => Len(p) = 1 /\ p[1] = s[j]
        /\ p[1] \notin {"[", "]"}
    BY <1>3
  <2> HIDE DEF a, b, p
  <2>3. t[a + 1] = p[1] /\ t[b] = p[Len(p)]
    BY <2>1, <2>2
  <2>4. /\ a \in Nat /\ b \in Nat /\ b <= Len(t) /\ j - 1 \in 0..n
        /\ t[b] = s[j]
        /\ t[a + 1] \notin {"[", "]"}
        /\ s[j] \in {"[", "]"} => b = a + 2 /\ t[a + 1] = "\\"
        /\ s[j] \notin {"[", "]"} => b = a + 1
    BY <2>1, <2>2, <2>3
  <2> QED
    BY <2>4 DEF a, b
\* Each character is one of s or a backslash before a bracket.
<1>6. ASSUME NEW q \in 1..Len(t)
      PROVE  \E j \in 1..n : \/ q = c[j] /\ t[q] = s[j]
                             \/ q = c[j - 1] + 1 /\ c[j] = c[j - 1] + 2 /\ t[q] = "\\"
  <2>1. PICK j \in 1..n : c[j - 1] < q /\ q <= c[j]
    BY <1>1, <1>2, CutsCover
  <2> DEFINE a == c[j - 1]
             b == c[j]
  <2>2. /\ a \in Nat /\ b \in Nat /\ q \in Nat /\ t[b] = s[j] /\ a < q /\ q <= b
        /\ s[j] \in {"[", "]"} => b = a + 2 /\ t[a + 1] = "\\"
        /\ s[j] \notin {"[", "]"} => b = a + 1
    BY <1>2, <1>5, <2>1
  <2> HIDE DEF a, b
  <2>3. \/ q = b /\ t[q] = s[j]
        \/ q = a + 1 /\ b = a + 2 /\ t[q] = "\\"
    BY <2>2
  <2> QED
    BY <2>3 DEF a, b
<1>7. Guarded(t)
  <2> SUFFICES ASSUME NEW q \in 1..Len(t), t[q] \in {"[", "]"}
               PROVE  q > 1 /\ t[q - 1] = "\\"
    BY DEF Guarded
  <2>1. PICK j \in 1..n : \/ q = c[j] /\ t[q] = s[j]
                          \/ q = c[j - 1] + 1 /\ c[j] = c[j - 1] + 2 /\ t[q] = "\\"
    BY <1>6
  <2>2. q = c[j] /\ s[j] \in {"[", "]"}
    BY <2>1
  <2>3. q = c[j - 1] + 2 /\ t[c[j - 1] + 1] = "\\" /\ c[j - 1] \in Nat
    BY <1>5, <2>2
  <2> QED
    BY <2>3
<1>8. ASSUME s # <<>>
      PROVE  t # <<>> /\ Last(t) = Last(s)
  <2>1. n \in 1..n
    BY <1>2, <1>8 DEF n
  <2>2. t[Len(t)] = s[n]
    BY <1>4, <1>5, <2>1
  <2>3. Len(t) # 0
    <3>1. c[n] = c[n - 1] + 1 \/ c[n] = c[n - 1] + 2
      BY <1>5, <2>1
    <3>2. c[n - 1] \in Nat
      BY <1>5, <2>1
    <3> QED
      BY <1>4, <3>1, <3>2
  <2> QED
    BY <2>2, <2>3 DEF Last, n
<1>9. ASSUME NEW x \in Char, x # "\\", \A i \in 1..n : s[i] # x
      PROVE  \A q \in 1..Len(t) : t[q] # x
  <2> SUFFICES ASSUME NEW q \in 1..Len(t)
               PROVE  t[q] # x
    OBVIOUS
  <2>1. PICK j \in 1..n : \/ q = c[j] /\ t[q] = s[j]
                          \/ q = c[j - 1] + 1 /\ c[j] = c[j - 1] + 2 /\ t[q] = "\\"
    BY <1>6
  <2> QED
    BY <1>9, <2>1
<1>10. Unescape(t) = s
  <2> DEFINE m == Len(t)
  <2>1. PICK f \in [0..m -> Seq(Char)] :
          /\ Unescape(t) = f[m] /\ f[0] = <<>>
          /\ \A i \in 1..m :
               f[i] = IF t[i] = "\\" /\ i < m /\ t[i + 1] \in {"[", "]"} THEN f[i - 1]
                      ELSE Append(f[i - 1], t[i])
    BY <1>2, UnescapeLoop
  <2> DEFINE K == {k \in Nat : k <= n => Len(f[c[k]]) = k /\ \A i \in 1..k : f[c[k]][i] = s[i]}
  <2>2. 0 \in K
    BY <1>4, <2>1
  <2>3. ASSUME NEW k \in Nat, k \in K
        PROVE  k + 1 \in K
    <3> SUFFICES ASSUME k + 1 <= n
                 PROVE  Len(f[c[k + 1]]) = k + 1 /\ \A i \in 1..(k + 1) : f[c[k + 1]][i] = s[i]
      OBVIOUS
    <3> DEFINE a == c[k]
               b == c[k + 1]
               y == s[k + 1]
               u == f[a]
    <3>1. k + 1 \in 1..n /\ (k + 1) - 1 = k /\ k \in 0..n
      BY <1>2
    <3>2. /\ a \in Nat /\ b \in Nat /\ b <= m /\ t[b] = y
          /\ t[a + 1] \notin {"[", "]"}
          /\ y \in {"[", "]"} => b = a + 2 /\ t[a + 1] = "\\"
          /\ y \notin {"[", "]"} => b = a + 1
      BY <1>5, <3>1
    <3>3. m \in Nat
      BY <1>2
    <3>4. Len(u) = k /\ \A i \in 1..k : u[i] = s[i]
      BY <2>3, <3>1
    <3>5. \* what follows is not a bracket
          b < m => t[b + 1] \notin {"[", "]"}
      <4> SUFFICES ASSUME b < m
                   PROVE  t[b + 1] \notin {"[", "]"}
        OBVIOUS
      <4>1. k + 1 < n
        <5>1. k + 1 # n
          BY <1>4, <3>2, <3>3
        <5> QED
          BY <1>2, <3>1, <5>1
      <4>2. (k + 1) + 1 \in 1..n /\ ((k + 1) + 1) - 1 = k + 1
        BY <1>2, <4>1
      <4>3. t[c[((k + 1) + 1) - 1] + 1] \notin {"[", "]"}
        BY <1>5, <4>2
      <4> QED
        BY <4>2, <4>3
    <3> HIDE DEF a, b, y, m
    <3>6. u \in Seq(Char) /\ y \in Char
      <4>1. a \in 0..m
        BY <3>2, <3>3
      <4> QED
        BY <1>3, <2>1, <3>1, <4>1 DEF y
    <3>7. f[b] = Append(u, y)
      <4>1. CASE y \in {"[", "]"}
        <5>1. b = a + 2 /\ t[a + 1] = "\\" /\ a + 1 \in 1..m /\ (a + 1) - 1 = a /\ a + 1 < m
              /\ t[(a + 1) + 1] \in {"[", "]"} /\ b \in 1..m /\ b - 1 = a + 1 /\ t[b] # "\\"
          BY <3>2, <3>3, <4>1
        <5>2. f[a + 1] = u
          BY <2>1, <5>1
        <5>3. f[b] = Append(f[b - 1], t[b])
          BY <2>1, <5>1
        <5> QED
          BY <3>2, <5>1, <5>2, <5>3
      <4>2. CASE y \notin {"[", "]"}
        <5>1. b = a + 1 /\ b \in 1..m /\ b - 1 = a
          BY <3>2, <3>3, <4>2
        <5>2. f[b] = Append(f[b - 1], t[b])
          BY <2>1, <3>5, <5>1
        <5> QED
          BY <3>2, <5>1, <5>2
      <4> QED
        BY <4>1, <4>2
    <3> HIDE DEF u
    <3>8. Len(Append(u, y)) = k + 1 /\ \A i \in 1..(k + 1) : Append(u, y)[i] = IF i = k + 1 THEN y ELSE u[i]
      BY <3>4, <3>6
    <3>9. Len(f[b]) = k + 1 /\ \A i \in 1..(k + 1) : f[b][i] = s[i]
      BY <3>4, <3>7, <3>8 DEF y
    <3> QED
      BY <3>9 DEF b
  <2> HIDE DEF K
  <2>4. n \in K
    BY <1>2, <2>2, <2>3, SetInduction
  <2>5. m \in 0..m
    BY <1>2
  <2>6. Len(f[m]) = n /\ (\A i \in 1..n : f[m][i] = s[i]) /\ f[m] \in Seq(Char)
    <3>1. n <= n /\ c[n] = m
      BY <1>2, <1>4
    <3> HIDE DEF m
    <3>2. Len(f[c[n]]) = n /\ \A i \in 1..n : f[c[n]][i] = s[i]
      BY <2>4, <3>1 DEF K
    <3>3. f[m] \in Seq(Char)
      BY <2>1, <2>5
    <3> QED
      BY <3>1, <3>2, <3>3
  <2>7. f[m] = s
    BY <2>6, SeqEqual DEF n
  <2> QED
    BY <2>1, <2>7
<1> QED
  BY <1>2, <1>7, <1>8, <1>9, <1>10 DEF n, t

-----------------------------------------------------------------------------
(* The text of a key *)

\* What SubSeq takes
LEMMA SubSeqIs ==
  ASSUME NEW S, NEW s \in Seq(S), NEW a \in Nat \ {0}, NEW b \in Nat, b <= Len(s)
  PROVE  /\ SubSeq(s, a, b) \in Seq(S)
         /\ a <= b + 1 => /\ Len(SubSeq(s, a, b)) = b + 1 - a
                          /\ \A i \in 1..(b + 1 - a) : SubSeq(s, a, b)[i] = s[a + i - 1]
         /\ b < a => SubSeq(s, a, b) = <<>>
<1> DEFINE n == Len(s)
<1>1. n \in Nat /\ b <= n /\ s \in [1..n -> S]
  OBVIOUS
<1>2. SubSeq(s, a, b) = [i \in 1..(b - a + 1) |-> s[i + a - 1]]
  OBVIOUS
<1> HIDE DEF n
<1>3. CASE a <= b + 1
  <2> DEFINE l == b + 1 - a
             t == [i \in 1..l |-> s[a + i - 1]]
  <2>1. l \in Nat /\ b - a + 1 = l
    BY <1>3
  <2>2. \A i \in 1..l : a + i - 1 \in 1..n /\ i + a - 1 = a + i - 1
    BY <1>1, <1>3
  <2>3. SubSeq(s, a, b) = t
    BY <1>2, <2>1, <2>2
  <2>4. t \in [1..l -> S]
    BY <1>1, <2>2
  <2> HIDE DEF l
  <2>5. t \in Seq(S) /\ Len(t) = l /\ \A i \in 1..l : t[i] = s[a + i - 1]
    BY <2>1, <2>4
  <2>6. b < a => l = 0
    BY <1>3 DEF l
  <2> HIDE DEF t
  <2>7. b < a => t = <<>>
    BY <2>5, <2>6
  <2> QED
    BY <2>3, <2>5, <2>7 DEF l
<1>4. CASE ~(a <= b + 1)
  <2> DEFINE t == SubSeq(s, a, b)
  <2>1. t = [i \in 1..(b - a + 1) |-> s[i + a - 1]] /\ 1..(b - a + 1) = 1..0
    BY <1>2, <1>4
  <2> HIDE DEF t
  <2>2. t \in [1..0 -> S]
    BY <2>1
  <2>3. t \in Seq(S) /\ Len(t) = 0
    BY <2>2
  <2>4. t = <<>>
    BY <2>3
  <2>5. SubSeq(s, a, b) = <<>>
    BY <2>4 DEF t
  <2> QED
    BY <1>4, <2>5
<1> QED
  BY <1>3, <1>4

\* What x "=" y holds is a key and its value, and its brackets are escaped.
KeyAndValue(x, y) ==
  /\ x \in Seq(Char) /\ x # <<>> /\ Guarded(x) /\ \A i \in 1..Len(x) : x[i] # "="
  /\ y \in Seq(Char) /\ y # <<>> /\ Guarded(y) /\ Last(y) # "\\"

\* What is between the brackets of a key, ...
Text(x, y) == x \o <<"=">> \o y

\* ... and with them
InBrackets(x, y) == <<"[">> \o x \o <<"=">> \o y \o <<"]">>

\* The characters that mean something are characters.
LEMMA Chars == \A c \in {"/", ":", "=", "[", "\\", "]", "a", "b"} : c \in Char
<1>1. /\ DOMAIN Alphabet = 1..8 /\ Alphabet[1] = "/" /\ Alphabet[2] = ":" /\ Alphabet[3] = "="
      /\ Alphabet[4] = "[" /\ Alphabet[5] = "\\" /\ Alphabet[6] = "]" /\ Alphabet[7] = "a" /\ Alphabet[8] = "b"
  BY DEF Alphabet
<1> QED
  BY <1>1 DEF Char, ToSet

\* What is at each place of the text of a key
LEMMA TextAt ==
  ASSUME NEW x \in Seq(Char), NEW y \in Seq(Char)
  PROVE  /\ Text(x, y) \in Seq(Char) /\ Len(Text(x, y)) = Len(x) + 1 + Len(y)
         /\ \A i \in 1..Len(x) : Text(x, y)[i] = x[i]
         /\ Text(x, y)[Len(x) + 1] = "="
         /\ \A i \in 1..Len(y) : Text(x, y)[Len(x) + 1 + i] = y[i]
<1> DEFINE e == <<"=">>
           u == x \o e
<1>1. e \in Seq(Char) /\ Len(e) = 1 /\ e[1] = "="
  BY Chars
<1> HIDE DEF e
<1>2. /\ u \in Seq(Char) /\ Len(u) = Len(x) + 1
      /\ (\A i \in 1..Len(x) : u[i] = x[i]) /\ u[Len(x) + 1] = "="
  <2>1. /\ u \in Seq(Char) /\ Len(u) = Len(x) + Len(e)
        /\ (\A i \in 1..Len(x) : u[i] = x[i]) /\ \A i \in 1..Len(e) : u[Len(x) + i] = e[i]
    <3>1. x \in Seq(Char) /\ e \in Seq(Char)
      BY <1>1
    <3> HIDE DEF u
    <3>2. u \in Seq(Char) /\ IsJoin(u, x, e)
      BY <3>1, JoinIs DEF u
    <3> QED
      BY <3>2 DEF IsJoin
  <2>2. 1 \in 1..Len(e)
    BY <1>1
  <2> QED
    BY <1>1, <2>1, <2>2
<1> HIDE DEF u
<1>3. /\ u \o y \in Seq(Char) /\ Len(u \o y) = Len(u) + Len(y)
      /\ (\A i \in 1..Len(u) : (u \o y)[i] = u[i]) /\ \A i \in 1..Len(y) : (u \o y)[Len(u) + i] = y[i]
  <2>1. u \o y \in Seq(Char) /\ IsJoin(u \o y, u, y)
    BY <1>2, JoinIs
  <2> QED
    BY <2>1 DEF IsJoin
<1>4. Text(x, y) = u \o y
  BY DEF Text, u, e
<1> DEFINE t == u \o y
           m == Len(x)
           n == Len(y)
<1>5. m \in Nat /\ n \in Nat
  OBVIOUS
<1> HIDE DEF t, m, n
<1>6. /\ t \in Seq(Char) /\ Len(t) = m + 1 + n
      /\ (\A i \in 1..m : t[i] = x[i]) /\ t[m + 1] = "="
      /\ \A i \in 1..n : t[m + 1 + i] = y[i]
  <2>1. Len(u) = m + 1 /\ (\A i \in 1..m : u[i] = x[i]) /\ u[m + 1] = "="
    BY <1>2 DEF m
  <2>2. t \in Seq(Char) /\ Len(t) = Len(u) + n /\ (\A i \in 1..Len(u) : t[i] = u[i])
        /\ \A i \in 1..n : t[Len(u) + i] = y[i]
    BY <1>3 DEF t, n
  <2>3. m + 1 \in 1..Len(u) /\ \A i \in 1..m : i \in 1..Len(u)
    BY <1>5, <2>1
  <2> QED
    BY <2>1, <2>2, <2>3
<1> QED
  BY <1>4, <1>6 DEF t, m, n

\* KeyOf takes key and value from a text that is made of them.
LEMMA TextIs ==
  ASSUME NEW x, NEW y, KeyAndValue(x, y)
  PROVE  /\ Text(x, y) \in Seq(Char) /\ Text(x, y) # <<>> /\ Guarded(Text(x, y))
         /\ Last(Text(x, y)) # "\\"
         /\ KeyOf(Text(x, y)) = [ok |-> TRUE, key |-> Unescape(x), value |-> Unescape(y)]
<1> DEFINE t == Text(x, y)
           m == Len(x)
           n == Len(y)
<1>1. /\ x \in Seq(Char) /\ m \in Nat /\ m > 0 /\ (\A i \in 1..m : x[i] # "=")
      /\ (\A i \in 1..m : x[i] \in {"[", "]"} => i > 1 /\ x[i - 1] = "\\")
      /\ y \in Seq(Char) /\ n \in Nat /\ n > 0 /\ y[n] # "\\"
      /\ (\A i \in 1..n : y[i] \in {"[", "]"} => i > 1 /\ y[i - 1] = "\\")
  BY DEF KeyAndValue, Guarded, Last
<1>2. /\ t \in Seq(Char) /\ Len(t) = m + 1 + n
      /\ (\A i \in 1..m : t[i] = x[i]) /\ t[m + 1] = "="
      /\ \A i \in 1..n : t[m + 1 + i] = y[i]
  BY <1>1, TextAt
<1> HIDE DEF t, m, n
<1>3. Guarded(t)
  <2> SUFFICES ASSUME NEW q \in 1..Len(t), t[q] \in {"[", "]"}
               PROVE  q > 1 /\ t[q - 1] = "\\"
    BY DEF Guarded
  <2>1. CASE q <= m
    <3>1. q \in 1..m
      BY <1>1, <1>2, <2>1
    <3>2. q > 1 /\ x[q - 1] = "\\"
      BY <1>1, <1>2, <3>1
    <3>3. q - 1 \in 1..m
      BY <1>1, <3>1, <3>2
    <3> QED
      BY <1>2, <3>2, <3>3
  <2>2. CASE q = m + 1
    BY <1>2, <2>2
  <2>3. CASE q > m + 1
    <3> DEFINE r == q - (m + 1)
    <3>1. r \in 1..n /\ m + 1 + r = q /\ (r > 1 => r - 1 \in 1..n /\ m + 1 + (r - 1) = q - 1) /\ q > 1
      BY <1>1, <1>2, <2>3
    <3> HIDE DEF r
    <3>2. y[r] \in {"[", "]"}
      BY <1>2, <3>1
    <3>3. r > 1 /\ y[r - 1] = "\\"
      BY <1>1, <3>1, <3>2
    <3>4. t[m + 1 + (r - 1)] = y[r - 1]
      BY <1>2, <3>1, <3>3
    <3> QED
      BY <3>1, <3>3, <3>4
  <2> QED
    BY <1>1, <1>2, <2>1, <2>2, <2>3
<1>4. t # <<>> /\ Last(t) # "\\"
  <2>1. t[m + 1 + n] = y[n] /\ Len(t) # 0
    BY <1>1, <1>2
  <2> QED
    BY <1>1, <1>2, <2>1 DEF Last
<1>5. KeyOf(t) = [ok |-> TRUE, key |-> Unescape(x), value |-> Unescape(y)]
  <2> DEFINE eq == Positions(t, "=")
  <2>1. DOMAIN t = 1..Len(t)
    BY <1>2
  <2>2. eq = {i \in 1..Len(t) : t[i] = "="}
    BY <2>1 DEF Positions
  <2>3. m + 1 \in 1..Len(t)
    BY <1>1, <1>2
  <2>4. eq \subseteq Nat /\ m + 1 \in eq
    <3>1. \A i \in eq : i \in Nat
      BY <2>2
    <3> QED
      BY <1>2, <2>2, <2>3, <3>1
  <2>5. \A i \in eq : m + 1 <= i
    <3> SUFFICES ASSUME NEW i \in 1..Len(t), t[i] = "=", ~(m + 1 <= i)
                 PROVE  FALSE
      BY <2>2
    <3>1. i \in 1..m
      BY <1>1, <1>2
    <3> QED
      BY <1>1, <1>2, <3>1
  <2> HIDE DEF eq
  <2>6. Min(eq) \in eq /\ Min(eq) \in Nat /\ \A i \in eq : Min(eq) <= i
    BY <2>4, MinIsLeast
  <2>7. Min(eq) = m + 1
    BY <1>1, <2>4, <2>5, <2>6
  <2>8. ~(eq = {} \/ Min(eq) \in {1, Len(t)})
    BY <1>1, <1>2, <2>4, <2>7
  <2>9. SubSeq(t, 1, m) = x
    <3>1. SubSeq(t, 1, m) \in Seq(Char) /\ Len(SubSeq(t, 1, m)) = m
          /\ \A i \in 1..m : SubSeq(t, 1, m)[i] = t[i]
      BY <1>1, <1>2
    <3> QED
      BY <1>1, <1>2, <3>1, SeqEqual DEF m
  <2>10. SubSeq(t, m + 2, Len(t)) = y
    <3> DEFINE z == SubSeq(t, m + 2, Len(t))
    <3>1. \A i \in 1..n : (m + 2) + i - 1 = m + 1 + i
      BY <1>1
    <3>2. z \in Seq(Char) /\ Len(z) = n /\ \A i \in 1..n : z[i] = t[(m + 2) + i - 1]
      BY <1>1, <1>2
    <3> HIDE DEF z
    <3>3. \A i \in 1..n : z[i] = y[i]
      BY <1>2, <3>1, <3>2
    <3>4. z = y
      BY <1>1, <3>2, <3>3, SeqEqual DEF n
    <3> QED
      BY <3>4 DEF z
  <2>11. (m + 1) - 1 = m /\ (m + 1) + 1 = m + 2
    BY <1>1
  <2>12. KeyOf(t) = [ok |-> TRUE, key |-> Unescape(SubSeq(t, 1, Min(eq) - 1)),
                     value |-> Unescape(SubSeq(t, Min(eq) + 1, Len(t)))]
    BY <2>8 DEF KeyOf, eq
  <2>13. Min(eq) - 1 = m /\ Min(eq) + 1 = m + 2
    BY <1>1, <2>7
  <2> QED
    BY <2>9, <2>10, <2>12, <2>13
<1> QED
  BY <1>2, <1>3, <1>4, <1>5 DEF t

\* s is t in brackets.
Encloses(s, t) ==
  /\ s \in Seq(Char) /\ Len(s) = Len(t) + 2 /\ s[1] = "[" /\ s[Len(s)] = "]"
  /\ \A i \in 1..Len(t) : s[1 + i] = t[i]

\* The key in its brackets encloses its text.
LEMMA InBracketsIs ==
  ASSUME NEW x \in Seq(Char), NEW y \in Seq(Char)
  PROVE  Encloses(InBrackets(x, y), Text(x, y))
<1> DEFINE t == Text(x, y)
           o == <<"[">>
           c == <<"]">>
           e == <<"=">>
           n == Len(t)
           s == (o \o t) \o c
<1>1. t \in Seq(Char) /\ n \in Nat
  BY TextAt
<1>2. o \in Seq(Char) /\ c \in Seq(Char) /\ e \in Seq(Char)
      /\ Len(o) = 1 /\ Len(c) = 1 /\ o[1] = "[" /\ c[1] = "]"
  BY Chars
<1>3. t = (x \o e) \o y
  BY DEF Text
<1>4. InBrackets(x, y) = (((o \o x) \o e) \o y) \o c
  BY DEF InBrackets
<1> HIDE DEF t, o, c, e
<1>5. ((o \o x) \o e) \o y = o \o ((x \o e) \o y)
  BY <1>2
<1>6. InBrackets(x, y) = s
  BY <1>3, <1>4, <1>5
<1>7. o \o t \in Seq(Char) /\ Len(o \o t) = 1 + n /\ (o \o t)[1] = "[" /\ \A i \in 1..n : (o \o t)[1 + i] = t[i]
  <2>1. /\ o \o t \in Seq(Char) /\ Len(o \o t) = Len(o) + Len(t)
        /\ (\A i \in 1..Len(o) : (o \o t)[i] = o[i]) /\ \A i \in 1..Len(t) : (o \o t)[Len(o) + i] = t[i]
    <3>1. o \in Seq(Char) /\ t \in Seq(Char)
      BY <1>1, <1>2
    <3> QED
      BY <3>1, JoinIs DEF IsJoin
  <2> QED
    BY <1>1, <1>2, <2>1
<1> DEFINE u == o \o t
<1> HIDE DEF u, n
<1>8. /\ u \o c \in Seq(Char) /\ Len(u \o c) = Len(u) + Len(c)
      /\ (\A i \in 1..Len(u) : (u \o c)[i] = u[i]) /\ \A i \in 1..Len(c) : (u \o c)[Len(u) + i] = c[i]
  <2>1. u \in Seq(Char) /\ c \in Seq(Char)
    BY <1>2, <1>7 DEF u
  <2> QED
    BY <2>1, JoinIs DEF IsJoin
<1> DEFINE w == u \o c
<1>9. Len(u) = 1 + n /\ u[1] = "[" /\ \A i \in 1..n : u[1 + i] = t[i]
  BY <1>7 DEF u
<1> HIDE DEF w
<1>10. /\ w \in Seq(Char) /\ Len(w) = n + 2 /\ w[1] = "[" /\ w[n + 2] = "]" /\ \A i \in 1..n : w[1 + i] = t[i]
  <2>1. /\ w \in Seq(Char) /\ Len(w) = Len(u) + Len(c)
        /\ (\A i \in 1..Len(u) : w[i] = u[i]) /\ \A i \in 1..Len(c) : w[Len(u) + i] = c[i]
    BY <1>8 DEF w
  <2>2. 1 \in 1..Len(u) /\ 1 \in 1..Len(c) /\ Len(u) + 1 = n + 2 /\ \A i \in 1..n : 1 + i \in 1..Len(u)
    BY <1>1, <1>2, <1>9
  <2> QED
    BY <1>1, <1>2, <1>9, <2>1, <2>2
<1>11. InBrackets(x, y) = w
  BY <1>6 DEF w, u
<1> QED
  BY <1>10, <1>11 DEF Encloses, n, t

\* What is taken from a text that has the form of one
LEMMA KeyOfIs ==
  ASSUME NEW t \in Seq(Char), KeyOf(t).ok
  PROVE  /\ KeyOf(t).key \in Seq(Char) /\ KeyOf(t).key # <<>> /\ Positions(KeyOf(t).key, "=") = {}
         /\ KeyOf(t).value \in Seq(Char) /\ KeyOf(t).value # <<>> /\ Last(KeyOf(t).value) = Last(t)
         /\ t # <<>>
<1> DEFINE eq == Positions(t, "=")
           m == Min(eq)
           n == Len(t)
           x == SubSeq(t, 1, m - 1)
           y == SubSeq(t, m + 1, n)
<1>1. n \in Nat /\ DOMAIN t = 1..n /\ eq = {i \in 1..n : t[i] = "="}
  BY DEF Positions
<1>2. eq # {} /\ m \notin {1, n} /\ KeyOf(t) = [ok |-> TRUE, key |-> Unescape(x), value |-> Unescape(y)]
  <2>1. ~(eq = {} \/ m \in {1, n})
    BY DEF KeyOf, Malformed
  <2> QED
    BY <2>1 DEF KeyOf
<1>3. m \in eq /\ m \in Nat /\ \A i \in eq : m <= i
  <2>1. eq \subseteq Nat
    <3>1. \A i \in eq : i \in Nat
      BY <1>1
    <3> QED
      BY <3>1
  <2> HIDE DEF eq
  <2> QED
    BY <1>2, <2>1, MinIsLeast
<1> HIDE DEF m, n, eq
<1>4. m > 1 /\ m < n /\ t[m] = "="
  BY <1>1, <1>2, <1>3
<1>5. /\ x \in Seq(Char) /\ Len(x) = m - 1 /\ \A i \in 1..(m - 1) : x[i] = t[i]
      /\ y \in Seq(Char) /\ Len(y) = n - m /\ y[n - m] = t[n]
  <2>1. \A i \in 1..(n - m) : (m + 1) + i - 1 = m + i
    BY <1>1, <1>3
  <2>2. /\ y \in Seq(Char) /\ Len(y) = n - m /\ \A i \in 1..(n - m) : y[i] = t[(m + 1) + i - 1]
    <3>1. m + 1 \in Nat \ {0} /\ m + 1 <= n + 1 /\ n + 1 - (m + 1) = n - m
      BY <1>1, <1>3, <1>4
    <3> QED
      BY <1>1, <3>1, SubSeqIs DEF n
  <2>3. /\ x \in Seq(Char) /\ Len(x) = m - 1 /\ \A i \in 1..(m - 1) : x[i] = t[i]
    BY <1>1, <1>3, <1>4 DEF n
  <2>4. n - m \in 1..(n - m) /\ (m + 1) + (n - m) - 1 = n
    BY <1>1, <1>3, <1>4
  <2> HIDE DEF x, y
  <2> QED
    BY <2>2, <2>3, <2>4
<1> HIDE DEF x, y
<1>6. x # <<>> /\ y # <<>> /\ t # <<>> /\ Last(y) = Last(t)
  <2>1. Len(x) # 0 /\ Len(y) # 0 /\ n # 0
    BY <1>1, <1>3, <1>4, <1>5
  <2>2. Last(y) = t[n]
    BY <1>5 DEF Last
  <2> QED
    BY <2>1, <2>2 DEF Last, n
<1>7. \A i \in 1..Len(x) : x[i] # "="
  <2> SUFFICES ASSUME NEW i \in 1..(m - 1), x[i] = "="
               PROVE  FALSE
    BY <1>5
  <2>1. i \in 1..n /\ t[i] = "=" /\ ~(m <= i)
    BY <1>1, <1>3, <1>4, <1>5
  <2> QED
    BY <1>1, <1>3, <2>1
<1>8. /\ Unescape(x) \in Seq(Char) /\ Unescape(x) # <<>>
      /\ \A i \in 1..Len(Unescape(x)) : Unescape(x)[i] # "="
  <2>1. "=" \in Char
    BY Chars
  <2> QED
    BY <1>5, <1>6, <1>7, <2>1, UnescapeIs
<1>9. Unescape(y) \in Seq(Char) /\ Unescape(y) # <<>> /\ Last(Unescape(y)) = Last(y)
  BY <1>5, <1>6, UnescapeIs
<1>10. Positions(Unescape(x), "=") = {}
  BY <1>8 DEF Positions
<1> QED
  BY <1>2, <1>6, <1>8, <1>9, <1>10

-----------------------------------------------------------------------------
(* The keys of an element *)

\* What IsElem says of keys and values
KeyMaps ==
  {f \in UNION {[D -> Seq(Char)] : D \in SUBSET Seq(Char)} :
     /\ IsFiniteSet(DOMAIN f)
     /\ \A k \in DOMAIN f : k # <<>> /\ Positions(k, "=") = {} /\ f[k] # <<>> /\ Last(f[k]) # "\\"}

\* The states of the scan of parseXPathKeys
KeysStates == [ok : BOOLEAN, inKey : BOOLEAN, start : Nat \ {0}, kvs : KeyMaps]

\* Adding a key to a map of keys gives a map of keys.
LEMMA WithIs ==
  ASSUME NEW f \in KeyMaps, NEW k \in Seq(Char), NEW v \in Seq(Char),
         k # <<>>, Positions(k, "=") = {}, v # <<>>, Last(v) # "\\"
  PROVE  With(f, k, v) \in KeyMaps
<1> DEFINE g == With(f, k, v)
<1>1. PICK D \in SUBSET Seq(Char) : f \in [D -> Seq(Char)]
  BY DEF KeyMaps
<1>2. /\ DOMAIN f = D /\ IsFiniteSet(D)
      /\ \A i \in D : i # <<>> /\ Positions(i, "=") = {} /\ f[i] # <<>> /\ Last(f[i]) # "\\"
  BY <1>1 DEF KeyMaps
<1>3. DOMAIN g = D \cup {k} /\ \A i \in D \cup {k} : g[i] = IF i = k THEN v ELSE f[i]
  BY <1>2 DEF With
<1>4. g \in [(D \cup {k}) -> Seq(Char)]
  <2>1. g = [i \in D \cup {k} |-> IF i = k THEN v ELSE f[i]]
    BY <1>2 DEF With
  <2> QED
    BY <1>1, <2>1
<1>5. IsFiniteSet(D \cup {k})
  BY <1>2, FS_AddElement
<1> HIDE DEF g
<1>6. \A i \in D \cup {k} : i # <<>> /\ Positions(i, "=") = {} /\ g[i] # <<>> /\ Last(g[i]) # "\\"
  BY <1>2, <1>3
<1>7. D \cup {k} \in SUBSET Seq(Char)
  OBVIOUS
<1>8. g \in KeyMaps
  BY <1>3, <1>4, <1>5, <1>6, <1>7 DEF KeyMaps
<1> QED
  BY <1>8 DEF g

\* The map without keys is one.
LEMMA NoKeysIs == NoKeys \in KeyMaps /\ DOMAIN NoKeys = {}
<1>1. NoKeys \in [{} -> Seq(Char)] /\ DOMAIN NoKeys = {}
  BY DEF NoKeys
<1>2. {} \in SUBSET Seq(Char) /\ IsFiniteSet({})
  BY FS_EmptySet
<1> QED
  BY <1>1, <1>2 DEF KeyMaps

\* A turn of the scan stays within its states.
LEMMA KeysTurnStays ==
  ASSUME NEW s \in Seq(Char), NEW a \in KeysStates, NEW i \in 1..Len(s)
  PROVE  KeysTurn(s, a, i) \in KeysStates
<1>0. a.ok \in BOOLEAN /\ a.inKey \in BOOLEAN /\ a.start \in Nat \ {0} /\ a.kvs \in KeyMaps
      /\ a = [ok |-> a.ok, inKey |-> a.inKey, start |-> a.start, kvs |-> a.kvs]
  BY DEF KeysStates
<1>1. CASE ~a.ok \/ ~Bracket(s, i)
  BY <1>1 DEF KeysTurn
<1>2. CASE a.ok /\ Bracket(s, i) /\ s[i] = "["
  <2>1. KeysTurn(s, a, i) = IF a.inKey THEN [a EXCEPT !.ok = FALSE]
                            ELSE [a EXCEPT !.inKey = TRUE, !.start = i + 1]
    BY <1>2 DEF KeysTurn
  <2>2. i + 1 \in Nat \ {0}
    OBVIOUS
  <2> QED
    BY <1>0, <2>1, <2>2 DEF KeysStates
<1>3. CASE a.ok /\ Bracket(s, i) /\ s[i] # "["
  <2> DEFINE t == SubSeq(s, a.start, i - 1)
             kv == KeyOf(t)
  <2>1. KeysTurn(s, a, i) = IF ~a.inKey \/ ~kv.ok THEN [a EXCEPT !.ok = FALSE]
                            ELSE [a EXCEPT !.inKey = FALSE, !.kvs = With(@, kv.key, kv.value)]
    BY <1>3 DEF KeysTurn
  <2>2. CASE ~a.inKey \/ ~kv.ok
    BY <1>0, <2>1, <2>2 DEF KeysStates
  <2>3. CASE a.inKey /\ kv.ok
    <3> DEFINE n == Len(s)
               b == a.start
    <3>1. n \in Nat /\ b \in Nat \ {0} /\ i \in 1..n /\ i - 1 <= n
      BY <1>0
    <3> HIDE DEF n, b
    <3>2. t \in Seq(Char)
      BY <3>1 DEF n, b
    <3>3. t # <<>> => Last(t) = s[i - 1] /\ i > 1
      <4> SUFFICES ASSUME t # <<>>
                   PROVE  Last(t) = s[i - 1] /\ i > 1
        OBVIOUS
      <4> DEFINE e == i - 1
      <4>0. e \in Nat /\ e <= Len(s) /\ b \in Nat \ {0}
        BY <3>1 DEF n
      <4>1. t = SubSeq(s, b, e)
        BY DEF b
      <4> HIDE DEF e, t
      <4>2. b <= e
        <5>1. e < b => SubSeq(s, b, e) = <<>>
          BY <4>0, SubSeqIs
        <5> QED
          BY <4>0, <4>1, <5>1
      <4>3. Len(t) = (i - 1) - b + 1 /\ \A j \in 1..((i - 1) - b + 1) : t[j] = s[b + j - 1]
        <5>1. e + 1 - b = (i - 1) - b + 1 /\ b <= e + 1
          BY <4>0, <4>2 DEF e
        <5>2. Len(t) = e + 1 - b /\ \A j \in 1..(e + 1 - b) : t[j] = s[b + j - 1]
          BY <4>0, <4>1, <5>1, SubSeqIs
        <5> QED
          BY <5>1, <5>2
      <4>4. (i - 1) - b + 1 \in 1..((i - 1) - b + 1) /\ b + ((i - 1) - b + 1) - 1 = i - 1 /\ b <= i - 1
        BY <3>1, <4>2 DEF e
      <4>5. t[(i - 1) - b + 1] = s[i - 1]
        BY <4>3, <4>4
      <4> QED
        BY <3>1, <4>3, <4>4, <4>5 DEF Last
    <3>4. s[i - 1] # "\\" \/ ~(i > 1)
      BY <1>3 DEF Bracket
    <3> HIDE DEF t
    <3>5. /\ kv.key \in Seq(Char) /\ kv.key # <<>> /\ Positions(kv.key, "=") = {}
          /\ kv.value \in Seq(Char) /\ kv.value # <<>> /\ Last(kv.value) = Last(t) /\ t # <<>>
      BY <2>3, <3>2, KeyOfIs
    <3>6. Last(kv.value) # "\\"
      BY <3>3, <3>4, <3>5
    <3> HIDE DEF kv
    <3>7. With(a.kvs, kv.key, kv.value) \in KeyMaps
      BY <1>0, <3>5, <3>6, WithIs
    <3>8. KeysTurn(s, a, i) = [a EXCEPT !.inKey = FALSE, !.kvs = With(a.kvs, kv.key, kv.value)]
      BY <1>0, <2>1, <2>3
    <3> QED
      BY <1>0, <3>7, <3>8 DEF KeysStates
  <2> QED
    BY <1>0, <2>2, <2>3
<1> QED
  BY <1>1, <1>2, <1>3

\* The states of the scan
LEMMA KeysLoop ==
  ASSUME NEW s \in Seq(Char)
  PROVE  \E f \in [0..Len(s) -> KeysStates] :
           /\ ScanKeys(s) = f[Len(s)]
           /\ f[0] = [ok |-> TRUE, inKey |-> FALSE, start |-> 1, kvs |-> NoKeys]
           /\ \A i \in 1..Len(s) : f[i] = KeysTurn(s, f[i - 1], i)
<1> DEFINE n == Len(s)
           a == [ok |-> TRUE, inKey |-> FALSE, start |-> 1, kvs |-> NoKeys]
           turn == [x \in (1..n) \X KeysStates |-> KeysTurn(s, x[2], x[1])]
           Is(f) == f = [i \in 0..n |-> IF i = 0 THEN a ELSE KeysTurn(s, f[i - 1], i)]
           scan == CHOOSE f : Is(f)
<1>1. n \in Nat /\ a \in KeysStates
  BY NoKeysIs DEF KeysStates
<1>2. \A x \in KeysStates : \A i \in 1..n : KeysTurn(s, x, i) \in KeysStates
  BY KeysTurnStays
<1>3. ScanKeys(s) = scan[n]
  BY DEF ScanKeys
<1> HIDE DEF n, a
<1>4. IsTurn(turn, 0, n, KeysStates)
  <2>1. \A x \in (1..n) \X KeysStates : KeysTurn(s, x[2], x[1]) \in KeysStates
    BY <1>2
  <2>2. turn \in [(1..n) \X KeysStates -> KeysStates]
    BY <2>1
  <2> QED
    BY <2>2 DEF IsTurn
<1>5. \E f : IsLoop(f, 0, n, a, turn, KeysStates)
  <2> HIDE DEF turn
  <2> QED
    BY <1>1, <1>4, LoopDefined
<1>6. PICK f : IsLoop(f, 0, n, a, turn, KeysStates)
  BY <1>5
<1>7. f \in [0..n -> KeysStates] /\ \A i \in 0..n : f[i] = IF i = 0 THEN a ELSE turn[<<i, f[i - 1]>>]
  BY <1>6 DEF IsLoop
<1>8. \A i \in 0..n : f[i] = IF i = 0 THEN a ELSE KeysTurn(s, f[i - 1], i)
  <2>1. \A i \in 0..n : i # 0 => <<i, f[i - 1]>> \in (1..n) \X KeysStates
    BY <1>1, <1>7
  <2> QED
    BY <1>7, <2>1
<1>9. Is(f)
  BY <1>7, <1>8
<1>10. Is(scan)
  BY <1>9
<1> HIDE DEF scan
<1>11. scan[0] = a /\ \A i \in 1..n : scan[i] = KeysTurn(s, scan[i - 1], i)
  <2>1. 0 \in 0..n /\ \A i \in 1..n : i \in 0..n /\ i # 0
    BY <1>1
  <2> QED
    BY <1>10, <2>1
<1>12. scan \in [0..n -> KeysStates]
  <2> DEFINE K == {k \in Nat : k <= n => scan[k] \in KeysStates}
  <2>1. 0 \in K
    BY <1>1, <1>11
  <2>2. ASSUME NEW k \in Nat, k \in K
        PROVE  k + 1 \in K
    <3> SUFFICES ASSUME k + 1 <= n
                 PROVE  scan[k + 1] \in KeysStates
      OBVIOUS
    <3>1. k + 1 \in 1..n /\ (k + 1) - 1 = k /\ k <= n
      BY <1>1
    <3> QED
      BY <1>2, <1>11, <2>2, <3>1
  <2> HIDE DEF K
  <2>3. Nat \subseteq K
    BY <2>1, <2>2, SetInduction
  <2>4. \A k \in 0..n : scan[k] \in KeysStates
    BY <1>1, <2>3 DEF K
  <2> QED
    BY <1>10, <2>4
<1> QED
  BY <1>3, <1>11, <1>12 DEF n, a

\* h says of each place of s whether it is inside a key.
Flips(s, h) ==
  /\ h \in [0..Len(s) -> BOOLEAN] /\ h[0] = FALSE
  /\ \A i \in 1..Len(s) :
       /\ Bracket(s, i) => h[i - 1] = (s[i] = "]") /\ h[i] = ~h[i - 1]
       /\ ~Bracket(s, i) => h[i] = h[i - 1]
       /\ s[i] = "/" => h[i]

\* A string that is one element: no slash is outside of its keys.
Scannable(s) == \E h : Flips(s, h) /\ ~h[Len(s)]

\* The parts are the keys of an element, in the order of texts.
Keyed(parts, texts, key) ==
  /\ parts \in Seq(Seq(Char)) /\ texts \in Seq(Seq(Char)) /\ Len(texts) = Len(parts)
  /\ key = [k \in DOMAIN key |-> key[k]]
  /\ DOMAIN key = {KeyOf(texts[j]).key : j \in 1..Len(parts)}
  /\ \A j \in 1..Len(parts) :
       /\ Encloses(parts[j], texts[j])
       /\ texts[j] # <<>> /\ Guarded(texts[j]) /\ Last(texts[j]) # "\\"
       /\ KeyOf(texts[j]).ok /\ KeyOf(texts[j]).value = key[KeyOf(texts[j]).key]

\* The text of a key
IsText(t) == t \in Seq(Char) /\ t # <<>> /\ Guarded(t) /\ Last(t) # "\\" /\ KeyOf(t).ok

\* f is the run of the scan over s.
KeysRun(s, f) ==
  f \in [0..Len(s) -> KeysStates] /\ \A i \in 1..Len(s) : f[i] = KeysTurn(s, f[i - 1], i)

\* t is in s in brackets that open after place a and close at place b.
KeyIn(s, a, b, t) ==
  /\ b = a + Len(t) + 2 /\ b <= Len(s) /\ (a > 0 => s[a] # "\\")
  /\ s[a + 1] = "[" /\ s[b] = "]" /\ \A i \in 1..Len(t) : s[a + 1 + i] = t[i]

\* From place a to place b the scan has read the key with text t, and no more.
KeyRead(f, a, b, t) ==
  /\ f[b].ok /\ ~f[b].inKey /\ f[b].kvs = With(f[a].kvs, KeyOf(t).key, KeyOf(t).value)
  /\ \A i \in (a + 1)..b : f[i].ok /\ (i # b => f[i].inKey)

\* One key is scanned.
LEMMA KeyScanned ==
  ASSUME NEW s \in Seq(Char), NEW f, KeysRun(s, f), NEW t, IsText(t),
         NEW a \in Nat, NEW b \in Nat, KeyIn(s, a, b, t), f[a].ok, ~f[a].inKey
  PROVE  KeyRead(f, a, b, t)
<1>0. /\ f \in [0..Len(s) -> KeysStates] /\ \A i \in 1..Len(s) : f[i] = KeysTurn(s, f[i - 1], i)
      /\ t \in Seq(Char) /\ t # <<>> /\ Guarded(t) /\ Last(t) # "\\" /\ KeyOf(t).ok
      /\ b = a + Len(t) + 2 /\ b <= Len(s) /\ (a > 0 => s[a] # "\\")
      /\ s[a + 1] = "[" /\ s[b] = "]" /\ \A i \in 1..Len(t) : s[a + 1 + i] = t[i]
  BY DEF KeysRun, IsText, KeyIn
<1> DEFINE n == Len(s)
           l == Len(t)
<1>1. n \in Nat /\ l \in Nat /\ l > 0 /\ a + 1 \in 1..n /\ (a + 1) - 1 = a /\ a \in 0..n /\ b \in 1..n
      /\ b - 1 = a + 1 + l /\ t[l] # "\\" /\ b = a + l + 2
  BY <1>0 DEF Last
<1>2. \A i \in 1..l : t[i] \in {"[", "]"} => i > 1 /\ t[i - 1] = "\\"
  BY <1>0 DEF Guarded
<1>3. /\ \A i \in 0..n : f[i] \in KeysStates
      /\ \A i \in 1..n : f[i] = KeysTurn(s, f[i - 1], i)
  BY <1>0
<1> DEFINE g == f[a]
           open == [ok |-> TRUE, inKey |-> TRUE, start |-> a + 2, kvs |-> g.kvs]
<1>4. g \in KeysStates /\ g.ok /\ ~g.inKey
  BY <1>0, <1>1, <1>3
<1>5. f[a + 1] = open
  <2>1. Bracket(s, a + 1)
    BY <1>0, <1>1 DEF Bracket
  <2>2. f[a + 1] = KeysTurn(s, g, a + 1) /\ (a + 1) + 1 = a + 2
    BY <1>1, <1>3
  <2> HIDE DEF g
  <2>3. KeysTurn(s, g, a + 1) = [g EXCEPT !.inKey = TRUE, !.start = (a + 1) + 1]
    BY <1>0, <1>4, <2>1 DEF KeysTurn
  <2> DEFINE e == (a + 1) + 1
  <2>4. e = a + 2
    BY <2>2
  <2> HIDE DEF e
  <2>5. f[a + 1] = [g EXCEPT !.inKey = TRUE, !.start = e]
    BY <2>2, <2>3 DEF e
  <2>6. f[a + 1] = [ok |-> TRUE, inKey |-> TRUE, start |-> e, kvs |-> g.kvs]
    BY <1>4, <2>5 DEF KeysStates
  <2> QED
    BY <2>4, <2>6
<1>6. /\ open \in KeysStates /\ open.ok /\ open.inKey /\ open.start = a + 2 /\ open.kvs = g.kvs
  <2> HIDE DEF g
  <2> QED
    BY <1>4 DEF KeysStates
<1> HIDE DEF n, l, g, open
<1>7. \A i \in 0..l : f[a + 1 + i] = open
  <2> DEFINE K == {i \in Nat : i <= l => f[a + 1 + i] = open}
  <2>1. 0 \in K
    BY <1>5
  <2>2. ASSUME NEW i \in Nat, i \in K
        PROVE  i + 1 \in K
    <3> SUFFICES ASSUME i + 1 <= l
                 PROVE  f[a + 1 + (i + 1)] = open
      OBVIOUS
    <3> DEFINE q == a + 1 + (i + 1)
    <3>1. q \in 1..n /\ q - 1 = a + 1 + i /\ q > 1 /\ i + 1 \in 1..l /\ i <= l
      BY <1>1
    <3>2. s[q] = t[i + 1]
      BY <1>0, <3>1 DEF l
    <3>3. ~Bracket(s, q)
      <4> SUFFICES ASSUME t[i + 1] \in {"[", "]"}
                   PROVE  s[q - 1] = "\\"
        BY <3>1, <3>2 DEF Bracket
      <4>1. i + 1 > 1 /\ t[(i + 1) - 1] = "\\"
        BY <1>2, <3>1
      <4>2. i \in 1..l /\ (i + 1) - 1 = i
        BY <1>1, <3>1, <4>1
      <4>3. s[a + 1 + i] = t[i]
        BY <1>0, <4>2 DEF l
      <4> QED
        BY <3>1, <4>1, <4>2, <4>3
    <3>4. f[q] = KeysTurn(s, f[q - 1], q) /\ f[q - 1] = open
      BY <1>3, <2>2, <3>1
    <3> HIDE DEF q
    <3>5. f[q] = open
      BY <3>3, <3>4 DEF KeysTurn
    <3> QED
      BY <3>5 DEF q
  <2> HIDE DEF K
  <2>3. Nat \subseteq K
    BY <2>1, <2>2, SetInduction
  <2>4. \A i \in 0..l : i \in K /\ i <= l
    BY <1>1, <2>3
  <2> QED
    BY <2>4 DEF K
<1>8. f[b - 1] = open
  <2>1. l \in 0..l
    BY <1>1
  <2>2. f[a + 1 + l] = open
    BY <1>7, <2>1
  <2> QED
    BY <1>1, <2>2
<1>9. Bracket(s, b) /\ s[b] # "["
  <2>1. s[a + 1 + l] = t[l]
    <3>1. l \in 1..l
      BY <1>1
    <3> QED
      BY <1>0, <3>1 DEF l
  <2> QED
    BY <1>0, <1>1, <2>1 DEF Bracket
<1>10. SubSeq(s, a + 2, b - 1) = t
  <2> DEFINE u == SubSeq(s, a + 2, b - 1)
             e == b - 1
             d == a + 2
  <2>1. e \in Nat /\ e <= Len(s) /\ d \in Nat \ {0} /\ d <= e + 1 /\ e + 1 - d = l
    <3>1. e \in Nat /\ e <= n /\ d \in Nat \ {0} /\ d <= e + 1 /\ e + 1 - d = l
      BY <1>1
    <3> QED
      BY <3>1 DEF n
  <2> HIDE DEF e, d
  <2>2. u = SubSeq(s, d, e)
    BY DEF d, e
  <2> HIDE DEF u
  <2>3. u \in Seq(Char) /\ Len(u) = l /\ \A i \in 1..l : u[i] = s[d + i - 1]
    <3>1. u \in Seq(Char) /\ Len(u) = e + 1 - d /\ \A i \in 1..(e + 1 - d) : u[i] = s[d + i - 1]
      BY <2>1, <2>2, SubSeqIs
    <3> QED
      BY <2>1, <3>1
  <2>4. \A i \in 1..l : d + i - 1 = a + 1 + i
    BY <1>1 DEF d
  <2>5. \A i \in 1..l : u[i] = t[i]
    BY <1>0, <2>3, <2>4 DEF l
  <2>6. u = t
    <3>1. t \in Seq(Char) /\ Len(t) = l
      BY <1>0 DEF l
    <3> QED
      BY <2>3, <2>5, <3>1, SeqEqual
  <2> QED
    BY <2>6 DEF u
<1>11. f[b] = [open EXCEPT !.inKey = FALSE, !.kvs = With(open.kvs, KeyOf(t).key, KeyOf(t).value)]
  <2>1. f[b] = KeysTurn(s, open, b)
    BY <1>1, <1>3, <1>8
  <2> DEFINE kv == KeyOf(SubSeq(s, open.start, b - 1))
  <2>2. kv = KeyOf(t)
    BY <1>6, <1>10
  <2>3. KeysTurn(s, open, b) = IF ~open.inKey \/ ~kv.ok THEN [open EXCEPT !.ok = FALSE]
                               ELSE [open EXCEPT !.inKey = FALSE, !.kvs = With(@, kv.key, kv.value)]
    BY <1>6, <1>9 DEF KeysTurn
  <2> HIDE DEF kv
  <2> QED
    BY <1>0, <1>6, <2>1, <2>2, <2>3
<1>12. f[b].ok /\ ~f[b].inKey /\ f[b].kvs = With(g.kvs, KeyOf(t).key, KeyOf(t).value)
  BY <1>6, <1>11 DEF KeysStates
<1>13. ASSUME NEW i \in (a + 1)..b
       PROVE  f[i].ok /\ (i # b => f[i].inKey)
  <2>1. CASE i = b
    BY <1>12, <2>1
  <2>2. CASE i # b
    <3> DEFINE d == i - (a + 1)
    <3>1. d \in 0..l /\ a + 1 + d = i
      BY <1>1, <2>2
    <3> HIDE DEF d
    <3>2. f[i] = open
      BY <1>7, <3>1
    <3> QED
      BY <1>6, <3>2
  <2> QED
    BY <2>1, <2>2
<1> QED
  BY <1>12, <1>13 DEF g, KeyRead

\* The keys of an element come out of what they were put together to.
LEMMA KeysScanned ==
  ASSUME NEW parts, NEW texts, NEW key, Keyed(parts, texts, key)
  PROVE  /\ ParseXPathKeys(FlattenSeq(parts)) = [ok |-> TRUE, kvs |-> key]
         /\ FlattenSeq(parts) \in Seq(Char) /\ Scannable(FlattenSeq(parts))
<1> DEFINE s == FlattenSeq(parts)
           m == Len(parts)
           KeyAt(j) == KeyOf(texts[j]).key
<1>1. /\ parts \in Seq(Seq(Char)) /\ m \in Nat
      /\ key = [k \in DOMAIN key |-> key[k]]
      /\ DOMAIN key = {KeyAt(j) : j \in 1..m}
      /\ \A j \in 1..m :
           /\ Encloses(parts[j], texts[j]) /\ texts[j] \in Seq(Char)
           /\ texts[j] # <<>> /\ Guarded(texts[j]) /\ Last(texts[j]) # "\\"
           /\ KeyOf(texts[j]).ok /\ KeyOf(texts[j]).value = key[KeyAt(j)]
  BY DEF Keyed
<1>2. s \in Seq(Char) /\ Len(s) \in Nat
  BY <1>1, FlattenCuts
<1>3. PICK c : Cuts(c, s, parts)
  BY <1>1, FlattenCuts
<1> HIDE DEF s, m
<1>4. /\ c \in [0..m -> Nat] /\ c[0] = 0 /\ c[m] = Len(s)
      /\ \A j \in 1..m :
           /\ c[j] = c[j - 1] + Len(parts[j]) /\ c[j] <= Len(s)
           /\ \A i \in 1..Len(parts[j]) : s[c[j - 1] + i] = parts[j][i]
  BY <1>3 DEF Cuts, m
<1>5. PICK f \in [0..Len(s) -> KeysStates] :
        /\ ScanKeys(s) = f[Len(s)]
        /\ f[0] = [ok |-> TRUE, inKey |-> FALSE, start |-> 1, kvs |-> NoKeys]
        /\ \A i \in 1..Len(s) : f[i] = KeysTurn(s, f[i - 1], i)
  BY <1>2, KeysLoop
\* Where a key is
<1>6. ASSUME NEW j \in 1..m
      PROVE  LET a == c[j - 1]
                 b == c[j]
                 t == texts[j]
             IN /\ a \in Nat /\ b \in Nat /\ b = a + Len(t) + 2 /\ b <= Len(s)
                /\ s[a + 1] = "[" /\ s[b] = "]" /\ \A i \in 1..Len(t) : s[a + 1 + i] = t[i]
  <2> DEFINE a == c[j - 1]
             b == c[j]
             t == texts[j]
             p == parts[j]
  <2>1. a \in Nat /\ b \in Nat
    <3>1. j \in 0..m /\ j - 1 \in 0..m
      BY <1>1
    <3> QED
      BY <1>4, <3>1
  <2>2. /\ b = a + Len(p) /\ b <= Len(s) /\ \A i \in 1..Len(p) : s[a + i] = p[i]
    BY <1>4
  <2>3. t \in Seq(Char) /\ Len(p) = Len(t) + 2 /\ p[1] = "[" /\ p[Len(p)] = "]"
        /\ \A i \in 1..Len(t) : p[1 + i] = t[i]
    BY <1>1 DEF Encloses
  <2> DEFINE l == Len(t)
  <2>4. l \in Nat
    BY <2>3
  <2> HIDE DEF a, b, t, p
  <2>5. 1 \in 1..Len(p) /\ Len(p) \in 1..Len(p) /\ \A i \in 1..l : 1 + i \in 1..Len(p) /\ a + (1 + i) = a + 1 + i
    BY <2>1, <2>3, <2>4
  <2>6. /\ b = a + l + 2 /\ s[a + 1] = "[" /\ s[b] = "]" /\ \A i \in 1..l : s[a + 1 + i] = t[i]
    BY <2>1, <2>2, <2>3, <2>4, <2>5
  <2> QED
    BY <2>1, <2>2, <2>6 DEF a, b, t
<1> DEFINE Found(k) == [x \in {KeyAt(j) : j \in 1..k} |-> key[x]]
           K == {k \in Nat : k <= m =>
                   /\ f[c[k]].ok /\ ~f[c[k]].inKey /\ f[c[k]].kvs = Found(k)
                   /\ \A i \in 1..c[k] : f[i].ok /\ (s[i] = "/" => f[i].inKey)}
<1>7. 0 \in K
  <2>1. Found(0) = NoKeys
    BY DEF NoKeys
  <2> QED
    BY <1>4, <1>5, <2>1
<1>8. ASSUME NEW k \in Nat, k \in K
      PROVE  k + 1 \in K
  <2> SUFFICES ASSUME k + 1 <= m
               PROVE  /\ f[c[k + 1]].ok /\ ~f[c[k + 1]].inKey /\ f[c[k + 1]].kvs = Found(k + 1)
                      /\ \A i \in 1..c[k + 1] : f[i].ok /\ (s[i] = "/" => f[i].inKey)
    OBVIOUS
  <2> DEFINE a == c[k]
             b == c[k + 1]
             t == texts[k + 1]
  <2>1. k + 1 \in 1..m /\ (k + 1) - 1 = k /\ k <= m
    BY <1>1
  <2>2. /\ a \in Nat /\ b \in Nat /\ b = a + Len(t) + 2 /\ b <= Len(s)
        /\ s[a + 1] = "[" /\ s[b] = "]" /\ \A i \in 1..Len(t) : s[a + 1 + i] = t[i]
    BY <1>6, <2>1
  <2>3. /\ f[a].ok /\ ~f[a].inKey /\ f[a].kvs = Found(k)
        /\ \A i \in 1..a : f[i].ok /\ (s[i] = "/" => f[i].inKey)
    BY <1>8, <2>1
  <2>4. a > 0 => s[a] # "\\"
    <3> SUFFICES ASSUME a > 0
                 PROVE  s[a] = "]"
      OBVIOUS
    <3>1. k \in 1..m
      BY <1>1, <1>4, <2>1
    <3> QED
      BY <1>6, <3>1
  <2>5. t \in Seq(Char) /\ t # <<>> /\ Guarded(t) /\ Last(t) # "\\" /\ KeyOf(t).ok
        /\ KeyOf(t).value = key[KeyAt(k + 1)] /\ KeyOf(t).key = KeyAt(k + 1)
    BY <1>1, <2>1
  <2> HIDE DEF a, b, t, Found, KeyAt
  <2>6. /\ f[b].ok /\ ~f[b].inKey /\ f[b].kvs = With(f[a].kvs, KeyOf(t).key, KeyOf(t).value)
        /\ \A i \in (a + 1)..b : f[i].ok /\ (i # b => f[i].inKey)
    <3>1. IsText(t) /\ KeysRun(s, f) /\ KeyIn(s, a, b, t)
      BY <1>5, <2>2, <2>4, <2>5 DEF IsText, KeysRun, KeyIn
    <3>2. KeyRead(f, a, b, t)
      BY <1>2, <2>2, <2>3, <3>1, KeyScanned
    <3> QED
      BY <3>2 DEF KeyRead
  <2>7. With(Found(k), KeyAt(k + 1), key[KeyAt(k + 1)]) = Found(k + 1)
    <3>1. {KeyAt(j) : j \in 1..(k + 1)} = {KeyAt(j) : j \in 1..k} \cup {KeyAt(k + 1)}
      <4>1. \A j : j \in 1..(k + 1) <=> j \in 1..k \/ j = k + 1
        OBVIOUS
      <4> QED
        BY <4>1
    <3> QED
      BY <3>1 DEF With, Found
  <2>8. \A i \in 1..b : f[i].ok /\ (s[i] = "/" => f[i].inKey)
    <3> SUFFICES ASSUME NEW i \in 1..b
                 PROVE  f[i].ok /\ (s[i] = "/" => f[i].inKey)
      OBVIOUS
    <3>1. CASE i <= a
      BY <2>2, <2>3, <3>1
    <3>2. CASE i = b
      BY <2>2, <2>6, <3>2
    <3>3. CASE ~(i <= a) /\ i # b
      BY <2>2, <2>6, <3>3
    <3> QED
      BY <3>1, <3>2, <3>3
  <2>9. /\ f[b].ok /\ ~f[b].inKey /\ f[b].kvs = Found(k + 1)
        /\ \A i \in 1..b : f[i].ok /\ (s[i] = "/" => f[i].inKey)
    BY <2>3, <2>5, <2>6, <2>7, <2>8
  <2> QED
    BY <2>9 DEF b
<1> HIDE DEF K
<1>9. m \in K
  BY <1>1, <1>7, <1>8, SetInduction
<1>10. /\ f[Len(s)].ok /\ ~f[Len(s)].inKey /\ f[Len(s)].kvs = Found(m)
       /\ \A i \in 1..Len(s) : f[i].ok /\ (s[i] = "/" => f[i].inKey)
  <2>1. m <= m /\ c[m] = Len(s)
    BY <1>1, <1>4
  <2> HIDE DEF Found
  <2> QED
    BY <1>9, <2>1 DEF K
<1>11. Found(m) = key
  BY <1>1
<1> HIDE DEF Found
<1>12. ParseXPathKeys(s) = [ok |-> TRUE, kvs |-> key]
  BY <1>5, <1>10, <1>11 DEF ParseXPathKeys
<1>13. Scannable(s)
  <2> DEFINE h == [i \in 0..Len(s) |-> f[i].inKey]
  <2>1. h \in [0..Len(s) -> BOOLEAN]
    BY <1>5 DEF KeysStates
  <2>2. h[0] = FALSE /\ ~h[Len(s)]
    BY <1>2, <1>5, <1>10
  <2>3. ASSUME NEW i \in 1..Len(s)
        PROVE  /\ Bracket(s, i) => h[i - 1] = (s[i] = "]") /\ h[i] = ~h[i - 1]
               /\ ~Bracket(s, i) => h[i] = h[i - 1]
               /\ s[i] = "/" => h[i]
    <3> DEFINE x == f[i - 1]
               y == f[i]
    <3>1. i \in 0..Len(s) /\ i - 1 \in 0..Len(s)
      BY <1>2
    <3>2. h[i] = y.inKey /\ h[i - 1] = x.inKey
      BY <3>1
    <3>3. x \in KeysStates /\ y \in KeysStates /\ y = KeysTurn(s, x, i) /\ y.ok /\ (s[i] = "/" => y.inKey)
      BY <1>5, <1>10, <3>1
    <3> HIDE DEF h, x, y
    <3>4. x.ok /\ x.inKey \in BOOLEAN /\ y.inKey \in BOOLEAN
      BY <3>3 DEF KeysStates, KeysTurn
    <3>5. CASE ~Bracket(s, i)
      <4>1. y = x
        BY <3>3, <3>5 DEF KeysTurn
      <4> QED
        BY <3>2, <3>3, <3>5, <4>1
    <3>6. CASE Bracket(s, i) /\ s[i] = "["
      <4>1. y = IF x.inKey THEN [x EXCEPT !.ok = FALSE] ELSE [x EXCEPT !.inKey = TRUE, !.start = i + 1]
        BY <3>3, <3>4, <3>6 DEF KeysTurn
      <4>2. ~x.inKey
        BY <3>3, <4>1 DEF KeysStates
      <4>3. y.inKey
        BY <3>3, <4>1, <4>2 DEF KeysStates
      <4> QED
        BY <3>2, <3>3, <3>4, <3>6, <4>2, <4>3
    <3>7. CASE Bracket(s, i) /\ s[i] # "["
      <4> DEFINE kv == KeyOf(SubSeq(s, x.start, i - 1))
      <4>1. y = IF ~x.inKey \/ ~kv.ok THEN [x EXCEPT !.ok = FALSE]
                ELSE [x EXCEPT !.inKey = FALSE, !.kvs = With(@, kv.key, kv.value)]
        BY <3>3, <3>4, <3>7 DEF KeysTurn
      <4> HIDE DEF kv
      <4>2. x.inKey /\ kv.ok
        BY <3>3, <4>1 DEF KeysStates
      <4>3. ~y.inKey
        BY <3>3, <4>1, <4>2 DEF KeysStates
      <4>4. s[i] = "]"
        BY <3>7 DEF Bracket
      <4> QED
        BY <3>2, <3>3, <3>4, <3>7, <4>2, <4>3, <4>4
    <3> QED
      BY <3>5, <3>6, <3>7
  <2> HIDE DEF h
  <2>4. Flips(s, h)
    BY <2>1, <2>2, <2>3 DEF Flips
  <2> QED
    BY <2>2, <2>4 DEF Scannable
<1> QED
  BY <1>2, <1>12, <1>13 DEF s

-----------------------------------------------------------------------------
(* Elements *)

\* A name without slash and bracket
IsName(s) ==
  s \in Seq(Char) /\ s # <<>> /\ \A i \in 1..Len(s) : s[i] # "/" /\ ~Bracket(s, i)

\* e is one element for the scan of a path, and read as elem.
Reads(e, elem) ==
  /\ e \in Seq(Char) /\ e # <<>> /\ Scannable(e)
  /\ ToPathElem(e) = [ok |-> TRUE, elem |-> elem]

\* An element that is a name alone is read as it is.
LEMMA NameReads ==
  ASSUME NEW s, IsName(s)
  PROVE  Reads(s, [name |-> s, key |-> NoKeys])
<1> DEFINE h == [i \in 0..Len(s) |-> FALSE]
<1>1. s \in Seq(Char) /\ s # <<>> /\ DOMAIN s = 1..Len(s) /\ Len(s) \in Nat
  BY DEF IsName
<1>2. Flips(s, h)
  <2>1. h \in [0..Len(s) -> BOOLEAN] /\ h[0] = FALSE /\ \A i \in 1..Len(s) : h[i] = FALSE /\ h[i - 1] = FALSE
    BY <1>1
  <2> HIDE DEF h
  <2> QED
    BY <2>1 DEF Flips, IsName
<1>3. ~h[Len(s)]
  BY <1>1
<1> HIDE DEF h
<1>4. Scannable(s)
  BY <1>2, <1>3 DEF Scannable
<1>5. {i \in Positions(s, "[") : Bracket(s, i)} = {}
  BY <1>1 DEF IsName, Positions
<1>6. ToPathElem(s) = [ok |-> TRUE, elem |-> [name |-> s, key |-> NoKeys]]
  BY <1>5 DEF ToPathElem
<1> QED
  BY <1>1, <1>4, <1>6 DEF Reads

\* A name with keys behind it
LEMMA KeysRead ==
  ASSUME NEW s, IsName(s), Last(s) # "\\",
         NEW t \in Seq(Char), t # <<>>, t[1] = "[", Scannable(t),
         NEW key, ParseXPathKeys(t) = [ok |-> TRUE, kvs |-> key]
  PROVE  Reads(s \o t, [name |-> s, key |-> key])
<1> DEFINE e == s \o t
           m == Len(s)
           n == Len(t)
<1>1. /\ s \in Seq(Char) /\ m \in Nat /\ m > 0 /\ n \in Nat /\ n > 0 /\ s[m] # "\\"
      /\ \A i \in 1..m : s[i] # "/" /\ ~Bracket(s, i)
  BY DEF IsName, Last
<1>2. /\ e \in Seq(Char) /\ Len(e) = m + n
      /\ (\A i \in 1..m : e[i] = s[i]) /\ \A i \in 1..n : e[m + i] = t[i]
  <2>1. e \in Seq(Char) /\ IsJoin(e, s, t)
    BY <1>1, JoinIs
  <2> QED
    BY <2>1 DEF IsJoin
<1> HIDE DEF e, m, n
<1>3. \A i \in 1..m : ~Bracket(e, i) /\ e[i] # "/"
  <2> SUFFICES ASSUME NEW i \in 1..m
               PROVE  ~Bracket(e, i) /\ e[i] # "/"
    OBVIOUS
  <2>1. e[i] = s[i] /\ (i > 1 => e[i - 1] = s[i - 1])
    BY <1>1, <1>2
  <2> QED
    BY <1>1, <2>1 DEF Bracket
<1>4. \A i \in 1..n : Bracket(e, m + i) <=> Bracket(t, i)
  <2> SUFFICES ASSUME NEW i \in 1..n
               PROVE  Bracket(e, m + i) <=> Bracket(t, i)
    OBVIOUS
  <2>1. e[m + i] = t[i] /\ m + i > 1
    BY <1>1, <1>2
  <2>2. CASE i = 1
    <3>1. (m + i) - 1 = m /\ e[m] = s[m]
      BY <1>1, <1>2, <2>2
    <3> QED
      BY <1>1, <2>1, <2>2, <3>1 DEF Bracket
  <2>3. CASE i # 1
    <3>1. (m + i) - 1 = m + (i - 1) /\ i - 1 \in 1..n /\ i > 1
      BY <1>1, <2>3
    <3>2. e[m + (i - 1)] = t[i - 1]
      BY <1>2, <3>1
    <3> QED
      BY <2>1, <3>1, <3>2 DEF Bracket
  <2> QED
    BY <2>2, <2>3
<1>5. PICK g : Flips(t, g) /\ ~g[Len(t)]
  BY DEF Scannable
<1>6. /\ g \in [0..n -> BOOLEAN] /\ g[0] = FALSE /\ ~g[n]
      /\ \A i \in 1..n :
           /\ Bracket(t, i) => g[i - 1] = (t[i] = "]") /\ g[i] = ~g[i - 1]
           /\ ~Bracket(t, i) => g[i] = g[i - 1]
           /\ t[i] = "/" => g[i]
  BY <1>5 DEF Flips, n
<1> DEFINE h == [i \in 0..(m + n) |-> IF i <= m THEN FALSE ELSE g[i - m]]
<1>7. /\ h \in [0..(m + n) -> BOOLEAN] /\ (\A i \in 0..m : h[i] = FALSE)
      /\ \A i \in 0..n : h[m + i] = g[i]
  <2>1. \A i \in 0..(m + n) : ~(i <= m) => i - m \in 0..n
    BY <1>1
  <2>2. h \in [0..(m + n) -> BOOLEAN]
    BY <1>6, <2>1
  <2>3. \A i \in 0..m : h[i] = FALSE
    BY <1>1
  <2>4. \A i \in 0..n : h[m + i] = g[i]
    <3> SUFFICES ASSUME NEW i \in 0..n
                 PROVE  h[m + i] = g[i]
      OBVIOUS
    <3>1. m + i \in 0..(m + n) /\ (m + i) - m = i /\ (m + i <= m <=> i = 0)
      BY <1>1
    <3> QED
      BY <1>6, <3>1
  <2> QED
    BY <2>2, <2>3, <2>4
<1> HIDE DEF h
<1>8. Flips(e, h)
  <2>1. ASSUME NEW i \in 1..(m + n)
        PROVE  /\ Bracket(e, i) => h[i - 1] = (e[i] = "]") /\ h[i] = ~h[i - 1]
               /\ ~Bracket(e, i) => h[i] = h[i - 1]
               /\ e[i] = "/" => h[i]
    <3>1. CASE i <= m
      <4>1. i \in 1..m /\ i \in 0..m /\ i - 1 \in 0..m
        BY <1>1, <3>1
      <4> QED
        BY <1>3, <1>7, <4>1
    <3>2. CASE ~(i <= m)
      <4> DEFINE j == i - m
      <4>1. j \in 1..n /\ m + j = i /\ m + (j - 1) = i - 1 /\ j \in 0..n /\ j - 1 \in 0..n
        BY <1>1, <3>2
      <4> HIDE DEF j
      <4>2. h[i] = g[j] /\ h[i - 1] = g[j - 1]
        BY <1>7, <4>1
      <4>3. e[i] = t[j] /\ (Bracket(e, i) <=> Bracket(t, j))
        BY <1>2, <1>4, <4>1
      <4> QED
        BY <1>6, <4>1, <4>2, <4>3
    <3> QED
      BY <3>1, <3>2
  <2>2. h[0] = FALSE
    BY <1>1, <1>7
  <2> QED
    BY <1>2, <1>7, <2>1, <2>2 DEF Flips
<1>9. Scannable(e)
  <2>1. n \in 0..n
    BY <1>1
  <2>2. ~h[Len(e)]
    BY <1>2, <1>6, <1>7, <2>1
  <2> QED
    BY <1>8, <2>2 DEF Scannable
<1> DEFINE open == {i \in Positions(e, "[") : Bracket(e, i)}
<1>10. DOMAIN e = 1..(m + n) /\ m + n \in Nat
  BY <1>1, <1>2
<1>11. m + 1 \in open
  <2>1. 1 \in 1..n /\ m + 1 \in 1..(m + n)
    BY <1>1
  <2>2. Bracket(t, 1)
    BY DEF Bracket
  <2>3. e[m + 1] = "[" /\ Bracket(e, m + 1)
    BY <1>2, <1>4, <2>1, <2>2
  <2> QED
    BY <1>10, <2>1, <2>3 DEF Positions
<1>12. open \subseteq Nat /\ \A i \in open : ~(i \in 1..m) /\ i \in 1..(m + n)
  BY <1>3, <1>10 DEF Positions
<1> HIDE DEF open
<1>13. Min(open) = m + 1 /\ 1 \notin open
  <2>1. Min(open) \in open /\ Min(open) \in Nat /\ \A i \in open : Min(open) <= i
    BY <1>11, <1>12, MinIsLeast
  <2> QED
    BY <1>1, <1>11, <1>12, <2>1
<1>14. SubSeq(e, m + 1, Len(e)) = t /\ SubSeq(e, 1, m) = s
  <2> DEFINE a == m + 1
             b == m + n
             u == SubSeq(e, a, b)
             o == 1
             v == SubSeq(e, o, m)
  <2>1. a \in Nat \ {0} /\ b \in Nat /\ b <= Len(e) /\ a <= b + 1 /\ b + 1 - a = n
    BY <1>1, <1>2
  <2>2. o \in Nat \ {0} /\ m <= Len(e) /\ o <= m + 1 /\ m + 1 - o = m
    BY <1>1, <1>2
  <2>3. \A i \in 1..n : a + i - 1 = m + i
    BY <1>1
  <2>4. \A i \in 1..m : o + i - 1 = i
    BY <1>1
  <2> HIDE DEF a, b, o
  <2>0. u = SubSeq(e, a, b) /\ v = SubSeq(e, o, m) /\ e \in Seq(Char) /\ m \in Nat
    BY <1>1, <1>2
  <2> HIDE DEF u, v
  <2>5. u \in Seq(Char) /\ Len(u) = b + 1 - a /\ \A i \in 1..(b + 1 - a) : u[i] = e[a + i - 1]
    BY <2>0, <2>1, SubSeqIs
  <2>6. v \in Seq(Char) /\ Len(v) = m + 1 - o /\ \A i \in 1..(m + 1 - o) : v[i] = e[o + i - 1]
    BY <2>0, <2>2, SubSeqIs
  <2>7. \A i \in 1..n : u[i] = t[i]
    BY <1>2, <2>1, <2>3, <2>5
  <2>8. \A i \in 1..m : v[i] = s[i]
    BY <1>2, <2>2, <2>4, <2>6
  <2>9. u = t
    BY <2>1, <2>5, <2>7, SeqEqual DEF n
  <2>10. v = s
    BY <1>1, <2>2, <2>6, <2>8, SeqEqual DEF m
  <2> QED
    BY <1>2, <2>9, <2>10 DEF u, v, a, b, o
<1>15. ToPathElem(e) = [ok |-> TRUE, elem |-> [name |-> s, key |-> key]]
  <2>1. open # {} /\ (m + 1) - 1 = m
    BY <1>1, <1>11
  <2> DEFINE d == Min(open)
             pk == ParseXPathKeys(SubSeq(e, d, Len(e)))
             nm == SubSeq(e, 1, d - 1)
  <2>2. ToPathElem(e) = IF ~pk.ok THEN Malformed
                        ELSE [ok |-> TRUE, elem |-> [name |-> nm, key |-> pk.kvs]]
    BY <1>13, <2>1 DEF ToPathElem, open
  <2> HIDE DEF d
  <2>3. d = m + 1 /\ d - 1 = m
    BY <1>1, <1>13 DEF d
  <2>4. SubSeq(e, d, Len(e)) = t /\ nm = s
    BY <1>14, <2>3
  <2>5. pk = [ok |-> TRUE, kvs |-> key]
    BY <2>4
  <2> HIDE DEF pk, nm
  <2> QED
    BY <2>2, <2>4, <2>5
<1>16. e # <<>>
  BY <1>1, <1>2
<1> QED
  BY <1>2, <1>9, <1>15, <1>16 DEF Reads, e

\* An element is read from its name and its keys, in whatever form and order.
LEMMA ElemReads ==
  ASSUME NEW e, IsElem(e), NEW parts, NEW texts, Keyed(parts, texts, e.key)
  PROVE  Reads(e.name \o FlattenSeq(parts), e)
<1>1. IsName(e.name) /\ (DOMAIN e.key # {} => Last(e.name) # "\\")
  <2>1. e.name \in Seq(Char) /\ DOMAIN e.name = 1..Len(e.name)
    BY DEF IsElem
  <2> QED
    BY <2>1 DEF IsElem, IsName, Positions
<1>2. e = [name |-> e.name, key |-> e.key]
  BY DEF IsElem
<1>3. parts \in Seq(Seq(Char)) /\ DOMAIN e.key = {KeyOf(texts[j]).key : j \in 1..Len(parts)}
  BY DEF Keyed
<1>4. CASE parts = <<>>
  <2>1. FlattenSeq(parts) = <<>>
    BY <1>4 DEF FlattenSeq
  <2>2. e.name \o <<>> = e.name
    BY <1>1 DEF IsName
  <2>3. DOMAIN e.key = {}
    BY <1>3, <1>4
  <2>4. e.key = NoKeys
    BY <2>3 DEF IsElem, Keyed, NoKeys
  <2>5. Reads(e.name, [name |-> e.name, key |-> NoKeys])
    BY <1>1, NameReads
  <2> QED
    BY <1>2, <2>1, <2>2, <2>4, <2>5
<1>5. CASE parts # <<>>
  <2> DEFINE t == FlattenSeq(parts)
  <2>1. Len(parts) \in Nat /\ 1 \in 1..Len(parts)
    BY <1>3, <1>5
  <2>2. PICK c : Cuts(c, t, parts)
    BY <1>3, FlattenCuts
  <2>3. ParseXPathKeys(t) = [ok |-> TRUE, kvs |-> e.key] /\ t \in Seq(Char) /\ Scannable(t)
    BY KeysScanned
  <2> HIDE DEF t
  <2>4. t # <<>> /\ t[1] = "["
    <3> DEFINE p == parts[1]
    <3>1. p \in Seq(Char) /\ Len(p) = Len(texts[1]) + 2 /\ p[1] = "[" /\ Len(texts[1]) \in Nat
      BY <1>3, <2>1 DEF Keyed, Encloses
    <3>2. c[1] = c[1 - 1] + Len(p) /\ c[1] <= Len(t) /\ c[0] = 0
          /\ \A i \in 1..Len(p) : t[c[1 - 1] + i] = p[i]
      BY <2>1, <2>2 DEF Cuts
    <3> DEFINE l == Len(texts[1])
    <3> HIDE DEF p, l
    <3>3. 1 - 1 = 0 /\ 0 + 1 = 1 /\ 1 \in 1..Len(p) /\ 0 + Len(p) = Len(p) /\ Len(p) > 0
      BY <3>1
    <3>4. t[1] = "["
      BY <3>1, <3>2, <3>3
    <3>5. Len(t) # 0
      BY <2>3, <3>1, <3>2, <3>3
    <3> QED
      BY <3>4, <3>5
  <2>5. DOMAIN e.key # {}
    BY <1>3, <2>1
  <2>6. Reads(e.name \o t, [name |-> e.name, key |-> e.key])
    BY <1>1, <2>3, <2>4, <2>5, KeysRead
  <2> QED
    BY <1>2, <2>6 DEF t
<1> QED
  BY <1>4, <1>5

-----------------------------------------------------------------------------
(* The elements of a path *)

\* The states of the scan of toPathElems
ElemsStates == [ok : BOOLEAN, inKey : BOOLEAN, start : Nat \ {0}, elems : Seq(Seq(Char))]

\* A turn of the scan stays within its states.
LEMMA ElemsTurnStays ==
  ASSUME NEW p \in Seq(Char), NEW a \in ElemsStates, NEW i \in 1..Len(p)
  PROVE  ElemsTurn(p, a, i) \in ElemsStates
<1>0. a.ok \in BOOLEAN /\ a.inKey \in BOOLEAN /\ a.start \in Nat \ {0} /\ a.elems \in Seq(Seq(Char))
      /\ a = [ok |-> a.ok, inKey |-> a.inKey, start |-> a.start, elems |-> a.elems]
  BY DEF ElemsStates
<1>1. CASE ~a.ok
  BY <1>1 DEF ElemsTurn
<1>2. CASE a.ok /\ Bracket(p, i)
  <2>0. p[i] # "/"
    BY <1>2 DEF Bracket
  <2>1. ElemsTurn(p, a, i) = IF a.inKey = (p[i] = "[") THEN [a EXCEPT !.ok = FALSE]
                             ELSE [a EXCEPT !.inKey = ~a.inKey]
    BY <1>2, <2>0 DEF ElemsTurn
  <2> QED
    BY <1>0, <2>1 DEF ElemsStates
<1>3. CASE a.ok /\ ~Bracket(p, i) /\ p[i] = "/" /\ ~a.inKey
  <2> DEFINE b == a.start
             e == i - 1
             u == SubSeq(p, b, e)
             s == IF b = i THEN a.elems ELSE Append(a.elems, u)
  <2>1. ElemsTurn(p, a, i) = [a EXCEPT !.start = i + 1, !.elems = s]
    BY <1>3 DEF ElemsTurn
  <2>2. b \in Nat \ {0} /\ e \in Nat /\ e <= Len(p) /\ i + 1 \in Nat \ {0}
    BY <1>0
  <2> HIDE DEF b, e
  <2>3. u \in Seq(Char)
    BY <2>2, SubSeqIs
  <2> HIDE DEF u
  <2>4. s \in Seq(Seq(Char))
    BY <1>0, <2>3
  <2> HIDE DEF s
  <2> QED
    BY <1>0, <2>1, <2>2, <2>4 DEF ElemsStates
<1>4. CASE a.ok /\ ~Bracket(p, i) /\ ~(p[i] = "/" /\ ~a.inKey)
  BY <1>4 DEF ElemsTurn
<1> QED
  BY <1>1, <1>2, <1>3, <1>4

\* f is the run of the scan over p.
ElemsRun(p, f) ==
  /\ f \in [0..Len(p) -> ElemsStates] /\ ScanElems(p) = f[Len(p)]
  /\ f[0] = [ok |-> TRUE, inKey |-> FALSE, start |-> 1, elems |-> <<>>]
  /\ \A i \in 1..Len(p) : f[i] = ElemsTurn(p, f[i - 1], i)

\* The states of the scan
LEMMA ElemsLoop ==
  ASSUME NEW p \in Seq(Char)
  PROVE  \E f : ElemsRun(p, f)
<1> DEFINE n == Len(p)
           a == [ok |-> TRUE, inKey |-> FALSE, start |-> 1, elems |-> <<>>]
           turn == [x \in (1..n) \X ElemsStates |-> ElemsTurn(p, x[2], x[1])]
           Is(f) == f = [i \in 0..n |-> IF i = 0 THEN a ELSE ElemsTurn(p, f[i - 1], i)]
           scan == CHOOSE f : Is(f)
<1>1. n \in Nat /\ a \in ElemsStates
  BY DEF ElemsStates
<1>2. \A x \in ElemsStates : \A i \in 1..n : ElemsTurn(p, x, i) \in ElemsStates
  BY ElemsTurnStays
<1>3. ScanElems(p) = scan[n]
  BY DEF ScanElems
<1> HIDE DEF n, a
<1>4. IsTurn(turn, 0, n, ElemsStates)
  <2>1. \A x \in (1..n) \X ElemsStates : ElemsTurn(p, x[2], x[1]) \in ElemsStates
    BY <1>2
  <2>2. turn \in [(1..n) \X ElemsStates -> ElemsStates]
    BY <2>1
  <2> QED
    BY <2>2 DEF IsTurn
<1>5. \E f : IsLoop(f, 0, n, a, turn, ElemsStates)
  <2> HIDE DEF turn
  <2> QED
    BY <1>1, <1>4, LoopDefined
<1>6. PICK f : IsLoop(f, 0, n, a, turn, ElemsStates)
  BY <1>5
<1>7. f \in [0..n -> ElemsStates] /\ \A i \in 0..n : f[i] = IF i = 0 THEN a ELSE turn[<<i, f[i - 1]>>]
  BY <1>6 DEF IsLoop
<1>8. \A i \in 0..n : f[i] = IF i = 0 THEN a ELSE ElemsTurn(p, f[i - 1], i)
  <2>1. \A i \in 0..n : i # 0 => <<i, f[i - 1]>> \in (1..n) \X ElemsStates
    BY <1>1, <1>7
  <2> QED
    BY <1>7, <2>1
<1>9. Is(f)
  BY <1>7, <1>8
<1>10. Is(scan)
  BY <1>9
<1> HIDE DEF scan
<1>11. scan[0] = a /\ \A i \in 1..n : scan[i] = ElemsTurn(p, scan[i - 1], i)
  <2>1. 0 \in 0..n /\ \A i \in 1..n : i \in 0..n /\ i # 0
    BY <1>1
  <2> QED
    BY <1>10, <2>1
<1>12. scan \in [0..n -> ElemsStates]
  <2> DEFINE K == {k \in Nat : k <= n => scan[k] \in ElemsStates}
  <2>1. 0 \in K
    BY <1>1, <1>11
  <2>2. ASSUME NEW k \in Nat, k \in K
        PROVE  k + 1 \in K
    <3> SUFFICES ASSUME k + 1 <= n
                 PROVE  scan[k + 1] \in ElemsStates
      OBVIOUS
    <3>1. k + 1 \in 1..n /\ (k + 1) - 1 = k /\ k <= n
      BY <1>1
    <3> QED
      BY <1>2, <1>11, <2>2, <3>1
  <2> HIDE DEF K
  <2>3. Nat \subseteq K
    BY <2>1, <2>2, SetInduction
  <2>4. \A k \in 0..n : scan[k] \in ElemsStates
    BY <1>1, <2>3 DEF K
  <2> QED
    BY <1>10, <2>4
<1>13. ElemsRun(p, scan)
  BY <1>3, <1>11, <1>12 DEF ElemsRun, n, a
<1> QED
  BY <1>13

\* e is in p between the slashes at places a and b.
ElemIn(p, a, b, e) ==
  /\ b = a + Len(e) + 1 /\ b <= Len(p) /\ p[a] = "/" /\ p[b] = "/"
  /\ \A i \in 1..Len(e) : p[a + i] = e[i]

\* The state after the slash at place a
Between(a, elems) == [ok |-> TRUE, inKey |-> FALSE, start |-> a + 1, elems |-> elems]

\* One element is scanned.
LEMMA ElemScanned ==
  ASSUME NEW p \in Seq(Char), NEW f, ElemsRun(p, f),
         NEW e \in Seq(Char), e # <<>>, Scannable(e), NEW es \in Seq(Seq(Char)),
         NEW a \in Nat \ {0}, NEW b \in Nat, ElemIn(p, a, b, e), f[a] = Between(a, es)
  PROVE  f[b] = Between(b, Append(es, e))
<1> DEFINE n == Len(p)
           l == Len(e)
<1>1. /\ n \in Nat /\ l \in Nat /\ l > 0 /\ b = a + l + 1 /\ b <= n /\ p[a] = "/" /\ p[b] = "/"
      /\ \A i \in 1..l : p[a + i] = e[i]
  BY DEF ElemIn
<1>2. PICK g : Flips(e, g) /\ ~g[l]
  BY DEF Scannable
<1>3. /\ g \in [0..l -> BOOLEAN] /\ g[0] = FALSE /\ g[l] = FALSE
      /\ \A i \in 1..l :
           /\ Bracket(e, i) => g[i - 1] = (e[i] = "]") /\ g[i] = ~g[i - 1]
           /\ ~Bracket(e, i) => g[i] = g[i - 1]
           /\ e[i] = "/" => g[i]
  <2>1. l \in 0..l
    BY <1>1
  <2> QED
    BY <1>2, <2>1 DEF Flips
<1>4. \A i \in 1..n : f[i] = ElemsTurn(p, f[i - 1], i)
  BY DEF ElemsRun
<1> HIDE DEF n, l
<1> DEFINE At(i) == [ok |-> TRUE, inKey |-> g[i], start |-> a + 1, elems |-> es]
           K == {i \in Nat : i <= l => f[a + i] = At(i)}
<1>5. 0 \in K
  <2>1. a + 0 = a
    OBVIOUS
  <2> QED
    BY <1>3, <2>1 DEF Between
<1>6. ASSUME NEW i \in Nat, i \in K
      PROVE  i + 1 \in K
  <2> SUFFICES ASSUME i + 1 <= l
               PROVE  f[a + (i + 1)] = At(i + 1)
    OBVIOUS
  <2> DEFINE q == a + (i + 1)
             j == i + 1
  <2>1. q \in 1..n /\ q - 1 = a + i /\ q > 1 /\ j \in 1..l /\ i <= l /\ i \in 0..l /\ j - 1 = i /\ j \in 0..l
    BY <1>1
  <2>2. p[q] = e[j]
    BY <1>1, <2>1
  <2>3. Bracket(p, q) <=> Bracket(e, j)
    <3>1. CASE i = 0
      <4>1. p[q - 1] = "/" /\ ~(j > 1)
        BY <1>1, <2>1, <3>1
      <4> QED
        BY <2>1, <2>2, <4>1 DEF Bracket
    <3>2. CASE i # 0
      <4>1. i \in 1..l /\ j > 1
        BY <2>1, <3>2
      <4>2. p[q - 1] = e[j - 1]
        BY <1>1, <2>1, <4>1
      <4> QED
        BY <2>1, <2>2, <4>1, <4>2 DEF Bracket
    <3> QED
      BY <3>1, <3>2
  <2>4. f[q] = ElemsTurn(p, At(i), q)
    <3>1. f[a + i] = At(i)
      BY <1>6, <2>1
    <3> QED
      BY <1>4, <2>1, <3>1
  <2>5. g[i] \in BOOLEAN /\ g[j] \in BOOLEAN
        /\ (Bracket(e, j) => g[i] = (e[j] = "]") /\ g[j] = ~g[i])
        /\ (~Bracket(e, j) => g[j] = g[i])
        /\ (e[j] = "/" => g[j])
    BY <1>3, <2>1
  <2> DEFINE x == At(i)
             d == a + 1
             y == g[i]
             z == g[j]
  <2>6. x = [ok |-> TRUE, inKey |-> y, start |-> d, elems |-> es]
    OBVIOUS
  <2>7. /\ y \in BOOLEAN /\ z \in BOOLEAN /\ f[q] = ElemsTurn(p, x, q)
        /\ (Bracket(p, q) => y = (p[q] = "]") /\ z = ~y)
        /\ (~Bracket(p, q) => z = y)
        /\ (p[q] = "/" => z)
    BY <2>2, <2>3, <2>4, <2>5
  <2> HIDE DEF x, d, y, z, q
  <2>8. f[q] = [ok |-> TRUE, inKey |-> z, start |-> d, elems |-> es]
    <3>1. CASE Bracket(p, q)
      <4>2. x.inKey = y /\ x.ok /\ p[q] \in {"[", "]"}
        BY <2>6, <3>1 DEF Bracket
      <4>1. ElemsTurn(p, x, q) = IF x.inKey = (p[q] = "[") THEN [x EXCEPT !.ok = FALSE]
                                 ELSE [x EXCEPT !.inKey = ~x.inKey]
        BY <3>1, <4>2 DEF ElemsTurn
      <4>3. ~(y = (p[q] = "["))
        BY <2>7, <3>1, <4>2
      <4> QED
        BY <2>6, <2>7, <3>1, <4>1, <4>2, <4>3
    <3>2. CASE ~Bracket(p, q)
      <4>1. x.inKey = y /\ x.ok
        BY <2>6
      <4>2. ~(p[q] = "/" /\ ~x.inKey)
        BY <2>7, <3>2, <4>1
      <4>3. ElemsTurn(p, x, q) = x
        BY <3>2, <4>1, <4>2 DEF ElemsTurn
      <4> QED
        BY <2>6, <2>7, <3>2, <4>3
    <3> QED
      BY <3>1, <3>2
  <2> QED
    BY <2>8 DEF q, z, d
<1> HIDE DEF K
<1>7. f[b - 1] = Between(a, es)
  <2>1. l \in K
    BY <1>1, <1>5, <1>6, SetInduction
  <2>2. l <= l /\ b - 1 = a + l
    BY <1>1
  <2> QED
    BY <1>3, <2>1, <2>2 DEF K, Between
<1>8. SubSeq(p, a + 1, b - 1) = e
  <2> DEFINE d == a + 1
             c == b - 1
             u == SubSeq(p, d, c)
  <2>1. d \in Nat \ {0} /\ c \in Nat /\ c <= Len(p) /\ d <= c + 1 /\ c + 1 - d = l
    BY <1>1 DEF n
  <2>2. \A i \in 1..l : d + i - 1 = a + i
    BY <1>1
  <2> HIDE DEF d, c
  <2>3. u = SubSeq(p, d, c)
    OBVIOUS
  <2> HIDE DEF u
  <2>4. u \in Seq(Char) /\ Len(u) = c + 1 - d /\ \A i \in 1..(c + 1 - d) : u[i] = p[d + i - 1]
    BY <2>1, <2>3, SubSeqIs
  <2>5. \A i \in 1..l : u[i] = e[i]
    BY <1>1, <2>1, <2>2, <2>4
  <2>6. u = e
    BY <2>1, <2>4, <2>5, SeqEqual DEF l
  <2> QED
    BY <2>6 DEF u, d, c
<1> DEFINE x == Between(a, es)
           w == SubSeq(p, a + 1, b - 1)
<1>9. f[b] = ElemsTurn(p, x, b) /\ x.ok /\ ~x.inKey /\ x.start = a + 1 /\ x.elems = es /\ b # a + 1
      /\ x = [ok |-> TRUE, inKey |-> FALSE, start |-> a + 1, elems |-> es] /\ ~Bracket(p, b)
  <2>1. b \in 1..n /\ b # a + 1
    BY <1>1
  <2>2. ~Bracket(p, b)
    BY <1>1 DEF Bracket
  <2>3. x = [ok |-> TRUE, inKey |-> FALSE, start |-> a + 1, elems |-> es]
    BY DEF Between
  <2> QED
    BY <1>4, <1>7, <2>1, <2>2, <2>3
<1> HIDE DEF x
<1>10. ElemsTurn(p, x, b) = [x EXCEPT !.start = b + 1,
                                      !.elems = IF x.start = b THEN x.elems
                                                ELSE Append(x.elems, SubSeq(p, x.start, b - 1))]
  BY <1>1, <1>9 DEF ElemsTurn
<1>11. (IF x.start = b THEN x.elems ELSE Append(x.elems, SubSeq(p, x.start, b - 1))) = Append(es, e)
  BY <1>8, <1>9
<1>12. f[b] = [x EXCEPT !.start = b + 1, !.elems = Append(es, e)]
  BY <1>9, <1>10, <1>11
<1> DEFINE d == a + 1
           c == b + 1
           y == Append(es, e)
<1>13. x = [ok |-> TRUE, inKey |-> FALSE, start |-> d, elems |-> es] /\ f[b] = [x EXCEPT !.start = c, !.elems = y]
  BY <1>9, <1>12
<1> HIDE DEF d, c, y
<1>14. f[b] = [ok |-> TRUE, inKey |-> FALSE, start |-> c, elems |-> y]
  BY <1>13
<1> QED
  BY <1>14 DEF Between, c, y

\* Elements with a slash before each
WithSlashes(es) == [i \in DOMAIN es |-> <<"/">> \o es[i]]

\* A list of strings, each of which is one element for the scan
IsElems(es) == es \in Seq(Seq(Char)) /\ \A i \in 1..Len(es) : es[i] # <<>> /\ Scannable(es[i])

\* What is at each place of them
LEMMA WithSlashesIs ==
  ASSUME NEW es \in Seq(Seq(Char))
  PROVE  /\ WithSlashes(es) \in Seq(Seq(Char)) /\ Len(WithSlashes(es)) = Len(es)
         /\ \A i \in 1..Len(es) :
              /\ Len(WithSlashes(es)[i]) = Len(es[i]) + 1 /\ WithSlashes(es)[i][1] = "/"
              /\ \A j \in 1..Len(es[i]) : WithSlashes(es)[i][1 + j] = es[i][j]
<1> DEFINE n == Len(es)
           S == Seq(Char)
<1>1. n \in Nat /\ DOMAIN es = 1..n /\ \A i \in 1..n : es[i] \in S
  OBVIOUS
<1>2. ASSUME NEW i \in 1..n
      PROVE  /\ <<"/">> \o es[i] \in S /\ Len(<<"/">> \o es[i]) = Len(es[i]) + 1
             /\ (<<"/">> \o es[i])[1] = "/"
             /\ \A j \in 1..Len(es[i]) : (<<"/">> \o es[i])[1 + j] = es[i][j]
  <2> DEFINE o == <<"/">>
             e == es[i]
             w == o \o e
  <2>1. o \in Seq(Char) /\ e \in Seq(Char) /\ Len(o) = 1 /\ o[1] = "/"
    BY <1>1, Chars
  <2> HIDE DEF o, e
  <2>2. w \in S /\ IsJoin(w, o, e)
    BY <2>1, JoinIs
  <2>3. 1 \in 1..Len(o) /\ Len(e) \in Nat
    BY <2>1
  <2> HIDE DEF w
  <2>4. w \in S /\ Len(w) = Len(e) + 1 /\ w[1] = "/" /\ \A j \in 1..Len(e) : w[1 + j] = e[j]
    BY <2>1, <2>2, <2>3 DEF IsJoin
  <2> QED
    BY <2>4 DEF w, o, e
<1>3. WithSlashes(es) = [i \in 1..n |-> <<"/">> \o es[i]]
  BY <1>1 DEF WithSlashes
<1> HIDE DEF n, S
<1>4. WithSlashes(es) \in [1..n -> S]
  BY <1>2, <1>3
<1>5. WithSlashes(es) \in Seq(S) /\ Len(WithSlashes(es)) = n
  BY <1>1, <1>4
<1>6. \A i \in 1..n : WithSlashes(es)[i] = <<"/">> \o es[i]
  BY <1>3
<1> QED
  BY <1>2, <1>5, <1>6 DEF n, S

\* The scan of elements that were put together with slashes finds them.
LEMMA ElemsScanned ==
  ASSUME NEW es, IsElems(es)
  PROVE  LET q == FlattenSeq(WithSlashes(es)) IN
         /\ q \in Seq(Char)
         /\ ScanElems(Slashed(q)).ok /\ ~ScanElems(Slashed(q)).inKey /\ ScanElems(Slashed(q)).elems = es
<1> DEFINE parts == WithSlashes(es)
           q == FlattenSeq(parts)
           n == Len(es)
           p == Append(q, "/")
<1>1. es \in Seq(Seq(Char)) /\ n \in Nat /\ \A i \in 1..n : es[i] # <<>> /\ Scannable(es[i]) /\ es[i] \in Seq(Char)
  BY DEF IsElems
<1>2. /\ parts \in Seq(Seq(Char)) /\ Len(parts) = n
      /\ \A i \in 1..n :
           /\ Len(parts[i]) = Len(es[i]) + 1 /\ parts[i][1] = "/"
           /\ \A j \in 1..Len(es[i]) : parts[i][1 + j] = es[i][j]
  BY <1>1, WithSlashesIs
<1> HIDE DEF parts, n
<1>3. q \in Seq(Char) /\ \E c : Cuts(c, q, parts)
  BY <1>2, FlattenCuts
<1>4. PICK c : Cuts(c, q, parts)
  BY <1>3
<1> HIDE DEF q
<1>5. /\ c \in [0..n -> Nat] /\ c[0] = 0 /\ c[n] = Len(q)
      /\ \A i \in 1..n :
           /\ c[i] = c[i - 1] + Len(parts[i]) /\ c[i] <= Len(q)
           /\ \A j \in 1..Len(parts[i]) : q[c[i - 1] + j] = parts[i][j]
  BY <1>2, <1>4 DEF Cuts
<1>6. /\ p \in Seq(Char) /\ Len(p) = Len(q) + 1 /\ p[Len(q) + 1] = "/" /\ Len(q) \in Nat
      /\ \A i \in 1..Len(q) : p[i] = q[i]
  <2>1. "/" \in Char
    BY Chars
  <2> QED
    BY <1>3, <2>1
<1> HIDE DEF p
\* Where an element is
<1>7. ASSUME NEW i \in 1..n
      PROVE  /\ c[i - 1] \in Nat /\ c[i] \in Nat /\ c[i] = c[i - 1] + Len(es[i]) + 1 /\ c[i] <= Len(q)
             /\ p[c[i - 1] + 1] = "/" /\ \A j \in 1..Len(es[i]) : p[(c[i - 1] + 1) + j] = es[i][j]
  <2> DEFINE a == c[i - 1]
             b == c[i]
             e == es[i]
             w == parts[i]
  <2>1. a \in Nat /\ b \in Nat /\ e \in Seq(Char) /\ Len(e) \in Nat
    <3>1. i \in 0..n /\ i - 1 \in 0..n
      BY <1>1
    <3> QED
      BY <1>1, <1>5, <3>1
  <2>2. b = a + Len(w) /\ b <= Len(q) /\ \A j \in 1..Len(w) : q[a + j] = w[j]
    BY <1>5
  <2>3. Len(w) = Len(e) + 1 /\ w[1] = "/" /\ \A j \in 1..Len(e) : w[1 + j] = e[j]
    BY <1>2
  <2> HIDE DEF a, b, e, w
  <2>4. b = a + Len(e) + 1 /\ \A j \in 1..(Len(e) + 1) : p[a + j] = w[j]
    <3>1. \A j \in 1..(Len(e) + 1) : a + j \in 1..Len(q)
      BY <1>6, <2>1, <2>2, <2>3
    <3> QED
      BY <1>6, <2>1, <2>2, <2>3, <3>1
  <2>5. p[a + 1] = "/"
    BY <2>1, <2>3, <2>4
  <2>6. \A j \in 1..Len(e) : 1 + j \in 1..(Len(e) + 1) /\ a + (1 + j) = (a + 1) + j
    BY <2>1
  <2>7. \A j \in 1..Len(e) : p[(a + 1) + j] = e[j]
    BY <2>3, <2>4, <2>6
  <2> QED
    BY <2>1, <2>2, <2>4, <2>5, <2>7 DEF a, b, e
<1>8. \A i \in 0..n : p[c[i] + 1] = "/"
  <2> SUFFICES ASSUME NEW i \in 0..n
               PROVE  p[c[i] + 1] = "/"
    OBVIOUS
  <2>1. CASE i = n
    BY <1>5, <1>6, <2>1
  <2>2. CASE i # n
    <3>1. i + 1 \in 1..n /\ (i + 1) - 1 = i
      BY <1>1, <2>2
    <3> QED
      BY <1>7, <3>1
  <2> QED
    BY <2>1, <2>2
<1>9. PICK f : ElemsRun(p, f)
  BY <1>6, ElemsLoop
<1>10. /\ f[0] = [ok |-> TRUE, inKey |-> FALSE, start |-> 1, elems |-> <<>>]
       /\ \A i \in 1..Len(p) : f[i] = ElemsTurn(p, f[i - 1], i)
       /\ ScanElems(p) = f[Len(p)]
  BY <1>9 DEF ElemsRun
<1> DEFINE First(k) == [i \in 1..k |-> es[i]]
           K == {k \in Nat : k <= n => f[c[k] + 1] = Between(c[k] + 1, First(k))}
<1>11. 0 \in K
  <2>1. 1 \in 1..Len(p) /\ 1 - 1 = 0 /\ p[1] = "/"
    <3>1. 0 \in 0..n /\ c[0] + 1 = 1
      BY <1>1, <1>5
    <3> QED
      BY <1>6, <1>8, <3>1
  <2> DEFINE x == [ok |-> TRUE, inKey |-> FALSE, start |-> 1, elems |-> <<>>]
             d == 1 + 1
             u == SubSeq(p, x.start, 1 - 1)
             o == 1
  <2>2. f[1] = ElemsTurn(p, x, 1) /\ x.ok /\ ~x.inKey /\ x.start = 1 /\ x.elems = <<>> /\ ~Bracket(p, 1)
    BY <1>10, <2>1 DEF Bracket
  <2> HIDE DEF x
  <2>3. f[1] = [x EXCEPT !.start = 1 + 1, !.elems = <<>>]
    BY <2>1, <2>2 DEF ElemsTurn
  <2> DEFINE y == 1 + 1
  <2> HIDE DEF y
  <2>4. f[1] = [x EXCEPT !.start = y, !.elems = <<>>]
    BY <2>3 DEF y
  <2>5. f[1] = [ok |-> TRUE, inKey |-> FALSE, start |-> y, elems |-> <<>>]
    BY <2>4 DEF x
  <2>6. First(0) = <<>>
    OBVIOUS
  <2>7. c[0] + 1 = 1
    BY <1>5
  <2> QED
    BY <2>5, <2>6, <2>7 DEF Between, y
<1>12. ASSUME NEW k \in Nat, k \in K
       PROVE  k + 1 \in K
  <2> SUFFICES ASSUME k + 1 <= n
               PROVE  f[c[k + 1] + 1] = Between(c[k + 1] + 1, First(k + 1))
    OBVIOUS
  <2> DEFINE e == es[k + 1]
             a == c[k] + 1
             b == c[k + 1] + 1
             u == First(k)
  <2>1. k + 1 \in 1..n /\ (k + 1) - 1 = k /\ k <= n /\ k \in 0..n /\ k + 1 \in 0..n
    BY <1>1
  <2>2. e \in Seq(Char) /\ e # <<>> /\ Scannable(e) /\ Len(e) \in Nat
    BY <1>1, <2>1
  <2>3. /\ c[k] \in Nat /\ c[k + 1] \in Nat /\ c[k + 1] = c[k] + Len(e) + 1 /\ c[k + 1] <= Len(q)
        /\ \A j \in 1..Len(e) : p[a + j] = e[j]
    BY <1>7, <2>1
  <2>4. p[a] = "/" /\ p[b] = "/"
    BY <1>8, <2>1
  <2>5. f[a] = Between(a, u)
    BY <1>12, <2>1
  <2>6. u \in Seq(Seq(Char))
    <3>1. \A i \in 1..k : es[i] \in Seq(Char)
      BY <1>1, <2>1
    <3>2. u \in [1..k -> Seq(Char)]
      BY <3>1
    <3> HIDE DEF u
    <3> QED
      BY <3>2
  <2>7. a \in Nat \ {0} /\ b \in Nat /\ b = a + Len(e) + 1 /\ b <= Len(p)
    <3> DEFINE l == Len(e)
               x == c[k]
               y == c[k + 1]
               z == Len(q)
    <3>1. x \in Nat /\ y \in Nat /\ y = x + l + 1 /\ y <= z /\ l \in Nat /\ z \in Nat /\ Len(p) = z + 1
      BY <1>6, <2>2, <2>3
    <3> HIDE DEF l, x, y, z
    <3>2. x + 1 \in Nat \ {0} /\ y + 1 \in Nat /\ y + 1 = (x + 1) + l + 1 /\ y + 1 <= Len(p)
      BY <3>1
    <3> QED
      BY <3>2 DEF l, x, y
  <2>8. Append(u, e) = First(k + 1)
    <3> DEFINE v == First(k + 1)
    <3>1. \A i \in 1..(k + 1) : es[i] \in Seq(Char)
      BY <1>1, <2>1
    <3>2. v \in [1..(k + 1) -> Seq(Char)] /\ v[k + 1] = e
      BY <3>1, <2>1
    <3>3. v \in Seq(Seq(Char)) /\ Len(v) = k + 1
      <4> HIDE DEF v
      <4> QED
        BY <3>2
    <3>4. u \in [1..k -> Seq(Char)] /\ Len(u) = k /\ \A i \in 1..k : u[i] = v[i]
      <4>1. u = [i \in 1..k |-> es[i]] /\ \A i \in 1..k : i \in 1..(k + 1) /\ es[i] \in Seq(Char)
        BY <3>1
      <4>2. u \in [1..k -> Seq(Char)] /\ \A i \in 1..k : u[i] = v[i]
        BY <4>1
      <4> HIDE DEF u, v
      <4> QED
        BY <4>2
    <3> HIDE DEF u, v, e
    <3>5. Append(u, e) \in Seq(Seq(Char)) /\ Len(Append(u, e)) = k + 1
          /\ \A i \in 1..(k + 1) : Append(u, e)[i] = v[i]
      BY <2>2, <2>6, <3>2, <3>4
    <3>6. Append(u, e) = v
      BY <3>3, <3>5, SeqEqual
    <3> QED
      BY <3>6 DEF v
  <2> HIDE DEF e, a, b, First
  <2>9. ElemIn(p, a, b, e)
    BY <2>3, <2>4, <2>7 DEF ElemIn
  <2>10. f[b] = Between(b, Append(u, e))
    <3> HIDE DEF u
    <3> QED
      BY <1>6, <1>9, <2>2, <2>5, <2>6, <2>7, <2>9, ElemScanned
  <2> QED
    BY <2>8, <2>10 DEF b
<1> HIDE DEF K, First
<1>13. f[Len(p)] = Between(Len(p), First(n))
  <2>1. n \in K
    BY <1>1, <1>11, <1>12, SetInduction
  <2>2. n <= n /\ c[n] + 1 = Len(p)
    BY <1>1, <1>5, <1>6
  <2> QED
    BY <2>1, <2>2 DEF K
<1>14. First(n) = es
  BY <1>1 DEF First, n
<1>15. Slashed(q) = p
  <2>1. CASE n = 0
    <3>1. q = <<>>
      BY <1>3, <1>5, <2>1
    <3> QED
      BY <3>1 DEF Slashed, p
  <2>2. CASE n # 0
    <3> DEFINE e == es[n]
               l == Len(e)
    <3>1. n \in 1..n /\ e \in Seq(Char) /\ e # <<>> /\ l \in Nat /\ l > 0 /\ l \in 1..l
      BY <1>1, <2>2
    <3>2. c[n] = Len(q) /\ c[n] = c[n - 1] + l + 1 /\ c[n - 1] \in Nat
          /\ \A j \in 1..l : p[(c[n - 1] + 1) + j] = e[j]
      BY <1>5, <1>7, <3>1
    <3>3. (c[n - 1] + 1) + l = Len(q)
      BY <3>1, <3>2
    <3>4. p[Len(q)] = e[l] /\ Len(q) \in 1..Len(q)
      <4>1. p[(c[n - 1] + 1) + l] = e[l]
        BY <3>1, <3>2
      <4> HIDE DEF e, l
      <4>2. Len(q) # 0
        BY <3>1, <3>2, <3>3
      <4> QED
        BY <1>6, <3>3, <4>1, <4>2
    <3>5. PICK g : Flips(e, g) /\ ~g[l]
      BY <1>1, <3>1 DEF Scannable
    <3>6. e[l] # "/"
      BY <3>1, <3>5 DEF Flips
    <3>7. Last(q) # "/"
      BY <1>6, <3>4, <3>6 DEF Last
    <3> QED
      BY <3>7 DEF Slashed, p
  <2> QED
    BY <2>1, <2>2
<1>16. ScanElems(p).ok /\ ~ScanElems(p).inKey /\ ScanElems(p).elems = es
  BY <1>10, <1>13, <1>14 DEF Between
<1> QED
  BY <1>3, <1>15, <1>16 DEF q, parts

\* Elements that read as they should are the elements of the path.
LEMMA ElemsRead ==
  ASSUME NEW E, NEW elem \in Seq(E), NEW es \in Seq(Seq(Char)), Len(es) = Len(elem),
         \A i \in 1..Len(elem) : Reads(es[i], elem[i])
  PROVE  /\ FlattenSeq(WithSlashes(es)) \in Seq(Char)
         /\ ToPathElems(FlattenSeq(WithSlashes(es))) = Path(<<>>, elem)
<1> DEFINE q == FlattenSeq(WithSlashes(es))
           n == Len(elem)
           end == ScanElems(Slashed(q))
           parsed == [i \in DOMAIN end.elems |-> ToPathElem(end.elems[i])]
<1>1. IsElems(es)
  BY DEF IsElems, Reads
<1>2. q \in Seq(Char) /\ end.ok /\ ~end.inKey /\ end.elems = es
  BY <1>1, ElemsScanned
<1>3. n \in Nat /\ DOMAIN es = 1..n /\ DOMAIN elem = 1..n /\ elem = [i \in 1..n |-> elem[i]]
  OBVIOUS
<1>4. ToPathElems(q) = IF ~end.ok \/ end.inKey \/ \E i \in DOMAIN parsed : ~parsed[i].ok THEN Malformed
                       ELSE Path(<<>>, [i \in DOMAIN parsed |-> parsed[i].elem])
  BY DEF ToPathElems
<1> HIDE DEF end
<1>5. parsed = [i \in 1..n |-> ToPathElem(es[i])]
  BY <1>2, <1>3
<1>6. \A i \in 1..n : ToPathElem(es[i]) = [ok |-> TRUE, elem |-> elem[i]]
  <2>1. \A i \in 1..n : Reads(es[i], elem[i])
    OBVIOUS
  <2> QED
    BY <2>1 DEF Reads
<1> HIDE DEF parsed, n
<1>7. DOMAIN parsed = 1..n /\ \A i \in 1..n : parsed[i].ok /\ parsed[i].elem = elem[i]
  <2>1. DOMAIN parsed = 1..n /\ \A i \in 1..n : parsed[i] = ToPathElem(es[i])
    BY <1>5
  <2>2. \A i \in 1..n : parsed[i] = [ok |-> TRUE, elem |-> elem[i]]
    BY <1>6, <2>1
  <2> QED
    BY <2>1, <2>2
<1>8. [i \in DOMAIN parsed |-> parsed[i].elem] = elem
  BY <1>3, <1>7
<1> HIDE DEF q
<1>9. ToPathElems(q) = Path(<<>>, elem)
  BY <1>2, <1>4, <1>7, <1>8
<1> QED
  BY <1>2, <1>9 DEF q

-----------------------------------------------------------------------------
(* Writing a path *)

\* order has all of D.
Enumerates(order, D) == order \in Seq(D) /\ \A x \in D : \E j \in 1..Len(order) : order[j] = x

\* Every order of a finite set has all of it.
LEMMA AllOrders ==
  ASSUME NEW D, IsFiniteSet(D)
  PROVE  Enumerates(SetToSeq(D), D) /\ \A order \in SetToSeqs(D) : Enumerates(order, D)
<1> DEFINE n == Cardinality(D)
           N == 1..n
<1>1. n \in Nat
  BY FS_CardinalityType
<1>2. IsFiniteSet(N) /\ Cardinality(N) = n
  <2> DEFINE o == 1
  <2>1. o \in Int /\ n \in Int /\ N = o..n /\ (o <= n => n - o + 1 = n) /\ (o > n => n = 0)
    BY <1>1
  <2> HIDE DEF o, n, N
  <2> QED
    BY <2>1, FS_Interval
<1> HIDE DEF n
<1>3. ASSUME NEW f \in [N -> D], \A i, j \in N : i # j => f[i] # f[j]
      PROVE  Enumerates(f, D)
  <2>1. f \in Injection(N, D)
    BY <1>3 DEF Injection, IsInjective
  <2> HIDE DEF N
  <2>2. f \in Surjection(N, D)
    <3>1. Cardinality(N) = Cardinality(D) <=> f \in Surjection(N, D)
      BY <2>1, FS_Injection
    <3> QED
      BY <1>2, <3>1 DEF n
  <2>3. \A x \in D : \E j \in N : f[j] = x
    BY <2>2 DEF Surjection
  <2>4. f \in Seq(D) /\ Len(f) = n
    BY <1>1 DEF N
  <2> QED
    BY <2>3, <2>4 DEF Enumerates, N
<1>4. \E f \in [N -> D] : IsInjective(f)
  <2> HIDE DEF N
  <2>1. ExistsBijection(N, D)
    BY <1>2, FS_SameCardinalityBij DEF n
  <2> QED
    BY <2>1 DEF ExistsBijection, Bijection, Injection
<1>5. Enumerates(SetToSeq(D), D)
  <2> DEFINE f == SetToSeq(D)
  <2>1. f = CHOOSE g \in [N -> D] : IsInjective(g)
    BY DEF SetToSeq, n
  <2>2. f \in [N -> D] /\ IsInjective(f)
    <3> HIDE DEF N
    <3> QED
      BY <1>4, <2>1
  <2> HIDE DEF f
  <2>3. \A i, j \in N : i # j => f[i] # f[j]
    BY <2>2 DEF IsInjective
  <2>4. Enumerates(f, D)
    BY <1>3, <2>2, <2>3
  <2> QED
    BY <2>4 DEF f
<1>6. ASSUME NEW order \in SetToSeqs(D)
      PROVE  Enumerates(order, D)
  <2>1. order \in [N -> D] /\ \A i, j \in N : i # j => order[i] # order[j]
    BY DEF SetToSeqs, n
  <2> QED
    BY <1>3, <2>1
<1> QED
  BY <1>5, <1>6

\* What IsElem says of an element with keys
IsKeys(key) ==
  /\ key = [k \in DOMAIN key |-> key[k]] /\ IsFiniteSet(DOMAIN key)
  /\ \A k \in DOMAIN key :
       /\ k \in Seq(Char) /\ k # <<>> /\ Positions(k, "=") = {}
       /\ key[k] \in Seq(Char) /\ key[k] # <<>> /\ Last(key[k]) # "\\"

\* How the keys and the values of an element are written
Writes(xs, ys, key) ==
  \A k \in DOMAIN key :
    KeyAndValue(xs[k], ys[k]) /\ Unescape(xs[k]) = k /\ Unescape(ys[k]) = key[k]

\* However the keys of an element are written and in whatever order, they are its keys.
LEMMA WrittenKeyed ==
  ASSUME NEW key, IsKeys(key), NEW order, Enumerates(order, DOMAIN key), NEW xs, NEW ys, Writes(xs, ys, key)
  PROVE  \E texts : Keyed([j \in DOMAIN order |-> InBrackets(xs[order[j]], ys[order[j]])], texts, key)
<1> DEFINE n == Len(order)
           D == DOMAIN key
           texts == [j \in 1..n |-> Text(xs[order[j]], ys[order[j]])]
           parts == [j \in 1..n |-> InBrackets(xs[order[j]], ys[order[j]])]
<1>1. /\ n \in Nat /\ DOMAIN order = 1..n /\ (\A j \in 1..n : order[j] \in D)
      /\ \A k \in D : \E j \in 1..n : order[j] = k
  BY DEF Enumerates
<1>2. ASSUME NEW j \in 1..n
      PROVE  LET t == Text(xs[order[j]], ys[order[j]])
                 p == InBrackets(xs[order[j]], ys[order[j]])
             IN /\ t \in Seq(Char) /\ t # <<>> /\ Guarded(t) /\ Last(t) # "\\"
                /\ KeyOf(t) = [ok |-> TRUE, key |-> order[j], value |-> key[order[j]]]
                /\ p \in Seq(Char) /\ Encloses(p, t)
  <2> DEFINE k == order[j]
             x == xs[k]
             y == ys[k]
  <2>1. k \in D
    BY <1>1
  <2> HIDE DEF k
  <2>2. KeyAndValue(x, y) /\ Unescape(x) = k /\ Unescape(y) = key[k]
    BY <2>1 DEF Writes
  <2> HIDE DEF x, y
  <2>3. x \in Seq(Char) /\ y \in Seq(Char)
    BY <2>2 DEF KeyAndValue
  <2>4. /\ Text(x, y) \in Seq(Char) /\ Text(x, y) # <<>> /\ Guarded(Text(x, y)) /\ Last(Text(x, y)) # "\\"
        /\ KeyOf(Text(x, y)) = [ok |-> TRUE, key |-> k, value |-> key[k]]
    BY <2>2, TextIs
  <2>5. Encloses(InBrackets(x, y), Text(x, y)) /\ InBrackets(x, y) \in Seq(Char)
    BY <2>3, InBracketsIs DEF Encloses
  <2> QED
    BY <2>4, <2>5 DEF x, y, k
<1>3. texts \in [1..n -> Seq(Char)] /\ parts \in [1..n -> Seq(Char)]
      /\ \A j \in 1..n : texts[j] = Text(xs[order[j]], ys[order[j]]) /\ parts[j] = InBrackets(xs[order[j]], ys[order[j]])
  BY <1>2
<1> HIDE DEF n, texts, parts
<1>4. texts \in Seq(Seq(Char)) /\ Len(texts) = n /\ parts \in Seq(Seq(Char)) /\ Len(parts) = n
  BY <1>1, <1>3
<1>5. \A j \in 1..n :
        /\ Encloses(parts[j], texts[j])
        /\ texts[j] # <<>> /\ Guarded(texts[j]) /\ Last(texts[j]) # "\\"
        /\ KeyOf(texts[j]) = [ok |-> TRUE, key |-> order[j], value |-> key[order[j]]]
  BY <1>2, <1>3
<1>6. \A j \in 1..n : KeyOf(texts[j]).ok /\ KeyOf(texts[j]).key = order[j] /\ KeyOf(texts[j]).value = key[order[j]]
  <2> SUFFICES ASSUME NEW j \in 1..n
               PROVE  KeyOf(texts[j]).ok /\ KeyOf(texts[j]).key = order[j] /\ KeyOf(texts[j]).value = key[order[j]]
    OBVIOUS
  <2> DEFINE kv == KeyOf(texts[j])
             k == order[j]
             v == key[order[j]]
  <2>1. kv = [ok |-> TRUE, key |-> k, value |-> v]
    BY <1>5
  <2> HIDE DEF kv, k, v
  <2>2. kv.ok /\ kv.key = k /\ kv.value = v
    BY <2>1
  <2> QED
    BY <2>2 DEF kv, k, v
<1>7. D = {KeyOf(texts[j]).key : j \in 1..n}
  <2> DEFINE N == 1..n
  <2>1. (\A j \in N : KeyOf(texts[j]).key = order[j] /\ order[j] \in D) /\ \A k \in D : \E j \in N : order[j] = k
    BY <1>1, <1>6
  <2> HIDE DEF N, D
  <2>2. D = {KeyOf(texts[j]).key : j \in N}
    BY <2>1
  <2> QED
    BY <2>2 DEF N
<1>8. Keyed(parts, texts, key)
  BY <1>4, <1>5, <1>6, <1>7 DEF Keyed, IsKeys
<1>9. parts = [j \in DOMAIN order |-> InBrackets(xs[order[j]], ys[order[j]])]
  BY <1>1 DEF parts, n
<1> QED
  BY <1>8, <1>9

\* An element as Render writes it
EscapedKeys(key) ==
  LET ks == SetToSeq(DOMAIN key) IN
  FlattenSeq([j \in DOMAIN ks |->
    <<"[">> \o Escape(ks[j]) \o <<"=">> \o Escape(key[ks[j]]) \o <<"]">>])

\* The string that is written for an element is read as that element.
LEMMA RenderedReads ==
  ASSUME NEW e, IsElem(e)
  PROVE  EscapedKeys(e.key) \in Seq(Char) /\ Reads(e.name \o EscapedKeys(e.key), e)
<1> DEFINE key == e.key
           D == DOMAIN key
           xs == [k \in D |-> Escape(k)]
           ys == [k \in D |-> Escape(key[k])]
           ks == SetToSeq(D)
<1>1. e = [name |-> e.name, key |-> e.key]
  BY DEF IsElem
<1>2. IsKeys(key)
  <2>1. key = [k \in DOMAIN e.key |-> e.key[k]]
    BY DEF IsElem
  <2> QED
    BY <2>1 DEF IsElem, IsKeys
<1>3. Enumerates(ks, D)
  BY <1>2, AllOrders DEF IsKeys
<1>4. Writes(xs, ys, key)
  <2> SUFFICES ASSUME NEW k \in D
               PROVE  KeyAndValue(Escape(k), Escape(key[k])) /\ Unescape(Escape(k)) = k /\ Unescape(Escape(key[k])) = key[k]
    BY DEF Writes
  <2> DEFINE v == key[k]
  <2>1. k \in Seq(Char) /\ k # <<>> /\ Positions(k, "=") = {} /\ v \in Seq(Char) /\ v # <<>> /\ Last(v) # "\\"
    BY <1>2 DEF IsKeys
  <2> HIDE DEF v
  <2>2. \A i \in 1..Len(k) : k[i] # "="
    BY <2>1 DEF Positions
  <2>3. "=" \in Char
    BY Chars
  <2>4. /\ Escape(k) \in Seq(Char) /\ Guarded(Escape(k)) /\ Escape(k) # <<>> /\ Unescape(Escape(k)) = k
        /\ \A i \in 1..Len(Escape(k)) : Escape(k)[i] # "="
    BY <2>1, <2>2, <2>3, EscapeIs
  <2>5. /\ Escape(v) \in Seq(Char) /\ Guarded(Escape(v)) /\ Escape(v) # <<>> /\ Unescape(Escape(v)) = v
        /\ Last(Escape(v)) # "\\"
    BY <2>1, EscapeIs
  <2>6. KeyAndValue(Escape(k), Escape(v))
    BY <2>4, <2>5 DEF KeyAndValue
  <2> QED
    BY <2>4, <2>5, <2>6 DEF v
<1> DEFINE parts == [j \in DOMAIN ks |-> InBrackets(xs[ks[j]], ys[ks[j]])]
<1>5. PICK texts : Keyed(parts, texts, key)
  <2> HIDE DEF xs, ys, ks, key
  <2> QED
    BY <1>2, <1>3, <1>4, WrittenKeyed
<1>6. parts = [j \in DOMAIN ks |-> <<"[">> \o Escape(ks[j]) \o <<"=">> \o Escape(key[ks[j]]) \o <<"]">>]
  <2>1. \A j \in DOMAIN ks : ks[j] \in D
    BY <1>3 DEF Enumerates
  <2>2. \A j \in DOMAIN ks : xs[ks[j]] = Escape(ks[j]) /\ ys[ks[j]] = Escape(key[ks[j]])
    BY <2>1
  <2> HIDE DEF ks, xs, ys, key
  <2> QED
    BY <2>2 DEF InBrackets
<1>7. EscapedKeys(e.key) = FlattenSeq(parts)
  BY <1>6 DEF EscapedKeys
<1>8. Reads(e.name \o FlattenSeq(parts), e) /\ FlattenSeq(parts) \in Seq(Char)
  <2> HIDE DEF parts
  <2> QED
    BY <1>5, ElemReads, KeysScanned
<1> QED
  BY <1>7, <1>8

\* A path that is written starts with a slash, ...
LEMMA StartsWithSlash ==
  ASSUME NEW es \in Seq(Seq(Char)), FlattenSeq(WithSlashes(es)) # <<>>
  PROVE  FlattenSeq(WithSlashes(es))[1] = "/"
<1> DEFINE parts == WithSlashes(es)
           q == FlattenSeq(parts)
           n == Len(es)
<1>1. /\ n \in Nat /\ parts \in Seq(Seq(Char)) /\ Len(parts) = n
      /\ \A i \in 1..n : Len(parts[i]) = Len(es[i]) + 1 /\ parts[i][1] = "/" /\ Len(es[i]) \in Nat
  BY WithSlashesIs
<1> HIDE DEF parts, n
<1>2. PICK c : Cuts(c, q, parts)
  BY <1>1, FlattenCuts
<1>3. n # 0
  <2>1. n = 0 => parts = <<>>
    BY <1>1
  <2>2. q = <<>> <=> n = 0
    <3>1. n = 0 => q = <<>>
      BY <2>1 DEF FlattenSeq
    <3> QED
      BY <3>1 DEF parts
  <2> QED
    BY <2>2 DEF parts
<1>4. 1 \in 1..n /\ 1 - 1 = 0
  BY <1>1, <1>3
<1>5. c[0] = 0 /\ \A j \in 1..Len(parts[1]) : q[c[1 - 1] + j] = parts[1][j]
  BY <1>1, <1>2, <1>4 DEF Cuts
<1> HIDE DEF q
<1>6. 1 \in 1..Len(parts[1]) /\ 0 + 1 = 1
  <2> DEFINE l == Len(es[1])
             k == Len(parts[1])
  <2>1. k = l + 1 /\ l \in Nat
    BY <1>1, <1>4
  <2> HIDE DEF k, l
  <2>2. 1 \in 1..k /\ 0 + 1 = 1
    BY <2>1
  <2> QED
    BY <2>2 DEF k
<1>7. q[1] = "/"
  BY <1>1, <1>4, <1>5, <1>6
<1> QED
  BY <1>7 DEF q, parts

\* A string that starts with a slash has no origin.
LEMMA NoOrigin ==
  ASSUME NEW q \in Seq(Char), q # <<>> => q[1] = "/"
  PROVE  ParsePath(q) = ToPathElems(q)
BY DEF ParsePath, HasOrigin

\* The origin is split off.
LEMMA OriginSplit ==
  ASSUME NEW o, IsOrigin(o), o # <<>>, NEW q \in Seq(Char), q # <<>> => q[1] = "/"
  PROVE  LET p == Append(o, ":") \o q IN
         ParsePath(p) = IF ToPathElems(q).ok THEN [ToPathElems(q) EXCEPT !.origin = o] ELSE Malformed
<1> DEFINE m == Len(o)
           n == Len(q)
           t == Append(o, ":")
           p == t \o q
           colon == Positions(p, ":")
<1>1. o \in Seq(Char) /\ m \in Nat /\ m > 0 /\ n \in Nat /\ \A i \in 1..m : o[i] # ":" /\ o[i] # "/"
  BY DEF IsOrigin, Positions
<1>2. t \in Seq(Char) /\ Len(t) = m + 1 /\ t[m + 1] = ":" /\ \A i \in 1..m : t[i] = o[i]
  <2>1. ":" \in Char
    BY Chars
  <2> QED
    BY <1>1, <2>1
<1> HIDE DEF t
<1>3. /\ p \in Seq(Char) /\ Len(p) = (m + 1) + n /\ (\A i \in 1..(m + 1) : p[i] = t[i])
      /\ \A i \in 1..n : p[(m + 1) + i] = q[i]
  <2>1. p \in Seq(Char) /\ IsJoin(p, t, q)
    BY <1>2, JoinIs
  <2> HIDE DEF p, m, n
  <2> QED
    BY <1>2, <2>1 DEF IsJoin, n
<1> HIDE DEF p, m, n
<1>4. /\ p[m + 1] = ":" /\ \A i \in 1..m : p[i] = o[i]
  BY <1>1, <1>2, <1>3
<1>5. colon \subseteq Nat /\ m + 1 \in colon /\ \A i \in colon : m + 1 <= i
  <2>1. DOMAIN p = 1..((m + 1) + n) /\ m + 1 \in 1..((m + 1) + n)
    BY <1>1, <1>3
  <2>2. colon \subseteq Nat /\ m + 1 \in colon
    BY <1>4, <2>1 DEF Positions
  <2>3. ASSUME NEW i \in colon, ~(m + 1 <= i)
        PROVE  FALSE
    <3>1. i \in 1..m /\ p[i] = ":"
      BY <1>1, <2>1, <2>3 DEF Positions
    <3> QED
      BY <1>1, <1>4, <3>1
  <2> QED
    BY <2>2, <2>3
<1> HIDE DEF colon
<1>6. Min(colon) = m + 1
  <2>1. Min(colon) \in colon /\ Min(colon) \in Nat /\ \A i \in colon : Min(colon) <= i
    BY <1>5, MinIsLeast
  <2> QED
    BY <1>1, <1>5, <2>1
<1>7. HasOrigin(p) /\ p # <<>>
  <2>1. p # <<>> /\ p[1] # "/"
    BY <1>1, <1>3, <1>4
  <2>2. (m + 1) - 1 = m /\ \A i \in 1..m : p[i] # "/"
    BY <1>1, <1>4
  <2>3. m + 1 < Len(p) => p[(m + 1) + 1] = "/"
    <3> SUFFICES ASSUME m + 1 < Len(p)
                 PROVE  p[(m + 1) + 1] = "/"
      OBVIOUS
    <3>1. n # 0 /\ 1 \in 1..n
      BY <1>1, <1>3
    <3>2. q # <<>>
      BY <3>1 DEF n
    <3> QED
      BY <1>3, <3>1, <3>2
  <2>4. /\ colon # {} /\ p[1] # "/" /\ (\A i \in 1..(Min(colon) - 1) : p[i] # "/")
        /\ Min(colon) < Len(p) => p[Min(colon) + 1] = "/"
    BY <1>5, <1>6, <2>1, <2>2, <2>3
  <2> QED
    BY <2>1, <2>4 DEF HasOrigin, colon
<1>8. SubSeq(p, (m + 1) + 1, Len(p)) = q /\ SubSeq(p, 1, m) = o
  <2> DEFINE a == (m + 1) + 1
             b == Len(p)
             u == SubSeq(p, a, b)
             k == 1
             v == SubSeq(p, k, m)
  <2>1. a \in Nat \ {0} /\ b \in Nat /\ b <= Len(p) /\ a <= b + 1 /\ b + 1 - a = n
    BY <1>1, <1>3
  <2>2. k \in Nat \ {0} /\ m \in Nat /\ m <= Len(p) /\ k <= m + 1 /\ m + 1 - k = m
    BY <1>1, <1>3
  <2>3. \A i \in 1..n : a + i - 1 = (m + 1) + i
    BY <1>1
  <2>4. \A i \in 1..m : k + i - 1 = i
    BY <1>1
  <2> HIDE DEF a, b, k
  <2>5. u = SubSeq(p, a, b) /\ v = SubSeq(p, k, m)
    OBVIOUS
  <2> HIDE DEF u, v
  <2>6. u \in Seq(Char) /\ Len(u) = b + 1 - a /\ \A i \in 1..(b + 1 - a) : u[i] = p[a + i - 1]
    BY <1>3, <2>1, <2>5, SubSeqIs
  <2>7. v \in Seq(Char) /\ Len(v) = m + 1 - k /\ \A i \in 1..(m + 1 - k) : v[i] = p[k + i - 1]
    BY <1>3, <2>2, <2>5, SubSeqIs
  <2>8. \A i \in 1..n : u[i] = q[i]
    BY <1>3, <2>1, <2>3, <2>6
  <2>9. \A i \in 1..m : v[i] = o[i]
    BY <1>4, <2>2, <2>4, <2>7
  <2>10. u = q
    BY <2>1, <2>6, <2>8, SeqEqual DEF n
  <2>11. v = o
    BY <1>1, <2>2, <2>7, <2>9, SeqEqual DEF m
  <2> QED
    BY <2>10, <2>11 DEF u, v, a, b, k
<1> DEFINE d == Min(colon)
           x == ToPathElems(SubSeq(p, d + 1, Len(p)))
           y == SubSeq(p, 1, d - 1)
<1>9. ParsePath(p) = IF x.ok THEN [x EXCEPT !.origin = y] ELSE Malformed
  BY <1>7 DEF ParsePath, colon
<1>10. d = m + 1 /\ d - 1 = m
  BY <1>1, <1>6
<1> HIDE DEF d
<1>11. x = ToPathElems(q) /\ y = o
  BY <1>8, <1>10
<1> HIDE DEF x, y
<1>12. ParsePath(p) = IF ToPathElems(q).ok THEN [ToPathElems(q) EXCEPT !.origin = o] ELSE Malformed
  BY <1>9, <1>11
<1> QED
  BY <1>12 DEF p, t

\* Setting the origin of a path leaves its elements.
LEMMA OriginSet ==
  ASSUME NEW n, NEW e, NEW o
  PROVE  [Path(n, e) EXCEPT !.origin = o] = Path(o, e)
<1>1. PICK b : b = TRUE
  OBVIOUS
<1>2. Path(n, e) = [ok |-> b, origin |-> n, elem |-> e] /\ Path(o, e) = [ok |-> b, origin |-> o, elem |-> e]
  BY <1>1 DEF Path
<1> DEFINE x == Path(n, e)
<1>3. x = [ok |-> b, origin |-> n, elem |-> e]
  BY <1>2
<1> HIDE DEF x
<1>4. [x EXCEPT !.origin = o] = [ok |-> b, origin |-> o, elem |-> e]
  BY <1>3
<1> QED
  BY <1>2, <1>4 DEF x

\* Every path comes back from its string.
LEMMA RendersBack ==
  ASSUME NEW q, IsPath(q)
  PROVE  ParsePath(Render(q)) = q
<1> DEFINE elem == q.elem
           o == q.origin
           n == Len(elem)
           es == [i \in 1..n |-> elem[i].name \o EscapedKeys(elem[i].key)]
           body == [i \in DOMAIN elem |-> <<"/">> \o elem[i].name \o EscapedKeys(elem[i].key)]
           s == FlattenSeq(WithSlashes(es))
           E == Elem \cup PrefixElem
<1>1. q = Path(o, elem) /\ IsOrigin(o) /\ elem \in Seq(E) /\ o \in Seq(Char)
  BY DEF IsPath, IsOrigin
<1>2. n \in Nat /\ DOMAIN elem = 1..n /\ \A i \in 1..n : IsElem(elem[i])
  <2>1. \A i \in 1..n : elem[i] \in E
    BY <1>1
  <2> QED
    BY <1>1, <2>1, PathsAssumption
<1>3. Render(q) = (IF o = <<>> THEN <<>> ELSE Append(o, ":")) \o FlattenSeq(body)
  BY DEF Render, EscapedKeys
<1> HIDE DEF elem, o, n, E
<1>4. \A i \in 1..n : Reads(elem[i].name \o EscapedKeys(elem[i].key), elem[i])
  BY <1>2, RenderedReads
<1>5. es \in Seq(Seq(Char)) /\ Len(es) = n /\ \A i \in 1..n : Reads(es[i], elem[i])
  <2>1. \A i \in 1..n : elem[i].name \o EscapedKeys(elem[i].key) \in Seq(Char)
    BY <1>4 DEF Reads
  <2>2. es \in [1..n -> Seq(Char)] /\ \A i \in 1..n : es[i] = elem[i].name \o EscapedKeys(elem[i].key)
    BY <2>1
  <2> HIDE DEF es
  <2>3. es \in Seq(Seq(Char)) /\ Len(es) = n
    BY <1>2, <2>2
  <2>4. ASSUME NEW i \in 1..n
        PROVE  Reads(es[i], elem[i])
    <3>1. es[i] = elem[i].name \o EscapedKeys(elem[i].key)
      BY <2>2
    <3> QED
      BY <1>4, <3>1
  <2> QED
    BY <2>3, <2>4
<1>6. body = WithSlashes(es)
  <2>1. ASSUME NEW i \in 1..n
        PROVE  (<<"/">> \o elem[i].name) \o EscapedKeys(elem[i].key) = <<"/">> \o es[i]
    <3> DEFINE a == <<"/">>
               b == elem[i].name
               c == EscapedKeys(elem[i].key)
    <3>1. a \in Seq(Char) /\ b \in Seq(Char)
      BY <1>2, Chars DEF IsElem
    <3>2. c \in Seq(Char)
      BY <1>2, RenderedReads
    <3>3. es[i] = b \o c
      OBVIOUS
    <3> HIDE DEF a, b, c, es
    <3>4. (a \o b) \o c = a \o (b \o c)
      BY <3>1, <3>2
    <3> QED
      BY <3>3, <3>4 DEF a, b, c
  <2>2. DOMAIN es = 1..n
    BY <1>2
  <2>3. body = [i \in 1..n |-> (<<"/">> \o elem[i].name) \o EscapedKeys(elem[i].key)]
    BY <1>2
  <2> HIDE DEF body, es
  <2>4. WithSlashes(es) = [i \in 1..n |-> <<"/">> \o es[i]]
    BY <2>2 DEF WithSlashes
  <2> DEFINE N == 1..n
             F(i) == (<<"/">> \o elem[i].name) \o EscapedKeys(elem[i].key)
             G(i) == <<"/">> \o es[i]
  <2>5. \A i \in N : F(i) = G(i)
    BY <2>1
  <2>6. body = [i \in N |-> F(i)] /\ WithSlashes(es) = [i \in N |-> G(i)]
    BY <2>3, <2>4
  <2> HIDE DEF F, G, N
  <2> QED
    BY <2>5, <2>6
<1> HIDE DEF es, body
<1>7. s \in Seq(Char) /\ ToPathElems(s) = Path(<<>>, elem)
  <2>1. elem \in Seq(E) /\ Len(es) = Len(elem) /\ \A i \in 1..Len(elem) : Reads(es[i], elem[i])
    BY <1>1, <1>5 DEF n
  <2> QED
    BY <1>5, <2>1, ElemsRead
<1>8. s # <<>> => s[1] = "/"
  BY <1>5, StartsWithSlash
<1> HIDE DEF s
<1>9. Render(q) = (IF o = <<>> THEN <<>> ELSE Append(o, ":")) \o s
  BY <1>3, <1>6 DEF s
<1>10. CASE o = <<>>
  <2>1. Render(q) = s
    BY <1>7, <1>9, <1>10
  <2> QED
    BY <1>1, <1>7, <1>8, <1>10, <2>1, NoOrigin
<1>11. CASE o # <<>>
  <2>1. Render(q) = Append(o, ":") \o s
    BY <1>9, <1>11
  <2>2. ParsePath(Render(q)) = IF ToPathElems(s).ok THEN [ToPathElems(s) EXCEPT !.origin = o] ELSE Malformed
    BY <1>1, <1>7, <1>8, <1>11, <2>1, OriginSplit
  <2>3. ToPathElems(s).ok /\ [ToPathElems(s) EXCEPT !.origin = o] = Path(o, elem)
    <3> DEFINE none == <<>>
    <3>1. ToPathElems(s) = Path(none, elem)
      BY <1>7
    <3> HIDE DEF none
    <3>2. [Path(none, elem) EXCEPT !.origin = o] = Path(o, elem)
      BY OriginSet
    <3>3. Path(none, elem).ok
      BY DEF Path
    <3> QED
      BY <3>1, <3>2, <3>3
  <2> QED
    BY <1>1, <2>2, <2>3
<1> QED
  BY <1>10, <1>11

\* For every set of origins and elements that can be written at all, and paths of any
\* length, ParsePath returns the path from the string that is written for it: the two
\* scanners, of elements and of keys, find again what Render put together (ParsePath,
\* toPathElems, parseXPathKeys).
THEOREM WrittenComesBack == PathsSpec => []RoundTrip
<1>1. PathsInv => RoundTrip
  BY RendersBack DEF PathsInv, RoundTrip
<1> QED
  BY <1>1, PathsAlways, PTL

-----------------------------------------------------------------------------
(* What has been parsed *)

\* What parseXPathKeys returns is a map of keys.
LEMMA ParsedKeys ==
  ASSUME NEW t \in Seq(Char), ParseXPathKeys(t).ok
  PROVE  \E key : IsKeys(key) /\ ParseXPathKeys(t) = [ok |-> TRUE, kvs |-> key]
<1> DEFINE n == Len(t)
<1>1. PICK f \in [0..n -> KeysStates] : ScanKeys(t) = f[n]
  BY KeysLoop
<1>2. f[n] \in KeysStates
  <2>1. n \in Nat /\ n \in 0..n
    OBVIOUS
  <2> HIDE DEF n
  <2> QED
    BY <2>1
<1> DEFINE end == ScanKeys(t)
           key == end.kvs
<1>3. end.kvs \in KeyMaps
  BY <1>1, <1>2 DEF KeysStates
<1>4. ParseXPathKeys(t) = IF end.ok /\ ~end.inKey THEN [ok |-> TRUE, kvs |-> key] ELSE Malformed
  BY DEF ParseXPathKeys
<1> HIDE DEF end
<1>5. ParseXPathKeys(t) = [ok |-> TRUE, kvs |-> key]
  BY <1>4 DEF Malformed
<1>6. IsKeys(key)
  <2> HIDE DEF key
  <2>1. PICK D \in SUBSET Seq(Char) : key \in [D -> Seq(Char)]
    BY <1>3 DEF KeyMaps, key
  <2>2. /\ IsFiniteSet(DOMAIN key)
        /\ \A k \in DOMAIN key : k # <<>> /\ Positions(k, "=") = {} /\ key[k] # <<>> /\ Last(key[k]) # "\\"
    BY <1>3 DEF KeyMaps, key
  <2> QED
    BY <2>1, <2>2 DEF IsKeys
<1> QED
  BY <1>5, <1>6

\* An element that reads as it is printed when it has no keys
IsBare(el) == el.key = NoKeys /\ Reads(el.name, el)

\* Each element of a path was written by itself, or as a name and keys.
LEMMA ParsedElem ==
  ASSUME NEW s \in Seq(Char), s # <<>>, Scannable(s), ToPathElem(s).ok
  PROVE  \E el : ToPathElem(s) = [ok |-> TRUE, elem |-> el] /\ (IsElem(el) \/ IsBare(el))
<1> DEFINE n == Len(s)
           open == {i \in Positions(s, "[") : Bracket(s, i)}
           idx == Min(open)
<1>1. n \in Nat /\ DOMAIN s = 1..n /\ n > 0
  OBVIOUS
<1>2. CASE open = {} \/ 1 \in open
  <2> DEFINE el == [name |-> s, key |-> NoKeys]
  <2>1. ToPathElem(s) = [ok |-> TRUE, elem |-> el]
    BY <1>2 DEF ToPathElem
  <2>2. el.name = s /\ el.key = NoKeys
    OBVIOUS
  <2> HIDE DEF el
  <2>3. IsBare(el)
    BY <2>1, <2>2 DEF IsBare, Reads
  <2> QED
    BY <2>1, <2>3
<1>3. CASE open # {} /\ 1 \notin open
  <2>1. open \subseteq Nat /\ \A i \in 1..n : s[i] = "[" /\ Bracket(s, i) <=> i \in open
    BY <1>1 DEF Positions
  <2>2. \A i \in open : i \in 1..n /\ s[i] = "[" /\ Bracket(s, i)
    BY <1>1 DEF Positions
  <2> DEFINE t == SubSeq(s, idx, n)
             pk == ParseXPathKeys(t)
             nm == SubSeq(s, 1, idx - 1)
  <2>3. ToPathElem(s) = IF ~pk.ok THEN Malformed ELSE [ok |-> TRUE, elem |-> [name |-> nm, key |-> pk.kvs]]
    BY <1>3 DEF ToPathElem
  <2> HIDE DEF open
  <2>4. idx \in open /\ idx \in Nat /\ \A i \in open : idx <= i
    BY <1>3, <2>1, MinIsLeast
  <2> DEFINE m == idx - 1
  <2> HIDE DEF idx, pk, n
  <2>5. m \in Nat /\ m > 0 /\ m + 1 = idx /\ idx \in 1..n /\ s[idx] = "[" /\ Bracket(s, idx) /\ m \in 1..n
    BY <1>1, <1>3, <2>2, <2>4
  <2>6. s[m] # "\\"
    BY <1>1, <2>5 DEF Bracket
  <2>7. t \in Seq(Char)
    <3>1. idx \in Nat \ {0} /\ n <= Len(s) /\ n \in Nat
      BY <1>1, <2>5 DEF n
    <3> QED
      BY <3>1, SubSeqIs
  <2>8. nm \in Seq(Char) /\ Len(nm) = m /\ \A i \in 1..m : nm[i] = s[i]
    <3> DEFINE o == 1
               v == SubSeq(s, o, m)
    <3>1. o \in Nat \ {0} /\ m \in Nat /\ m <= Len(s) /\ o <= m + 1 /\ m + 1 - o = m /\ \A i \in 1..m : o + i - 1 = i
      BY <1>1, <2>5 DEF n
    <3> HIDE DEF o, m
    <3>2. v = SubSeq(s, o, m)
      OBVIOUS
    <3> HIDE DEF v
    <3>3. v \in Seq(Char) /\ Len(v) = m + 1 - o /\ \A i \in 1..(m + 1 - o) : v[i] = s[o + i - 1]
      BY <3>1, <3>2, SubSeqIs
    <3>4. v \in Seq(Char) /\ Len(v) = m /\ \A i \in 1..m : v[i] = s[i]
      BY <3>1, <3>3
    <3> QED
      BY <3>4 DEF v, o, m
  <2> HIDE DEF m, t, nm
  <2>9. PICK g : Flips(s, g) /\ ~g[Len(s)]
    BY DEF Scannable
  <2>10. /\ g \in [0..n -> BOOLEAN] /\ g[0] = FALSE
         /\ \A i \in 1..n :
              /\ Bracket(s, i) => g[i - 1] = (s[i] = "]") /\ g[i] = ~g[i - 1]
              /\ ~Bracket(s, i) => g[i] = g[i - 1]
              /\ s[i] = "/" => g[i]
    BY <2>9 DEF Flips, n
  <2>11. \A i \in 1..m : i \in 1..n /\ ~(s[i] = "[" /\ Bracket(s, i))
    <3> SUFFICES ASSUME NEW i \in 1..m
                 PROVE  i \in 1..n /\ i \notin open
      BY <2>1
    <3> QED
      BY <1>1, <2>4, <2>5
  <2> DEFINE K == {i \in Nat : i <= m => ~g[i] /\ (i > 0 => ~Bracket(s, i) /\ s[i] # "/")}
  <2>12. 0 \in K
    BY <2>10
  <2>13. ASSUME NEW i \in Nat, i \in K
         PROVE  i + 1 \in K
    <3> SUFFICES ASSUME i + 1 <= m
                 PROVE  ~g[i + 1] /\ ~Bracket(s, i + 1) /\ s[i + 1] # "/"
      OBVIOUS
    <3>1. i + 1 \in 1..m /\ i <= m /\ (i + 1) - 1 = i
      BY <2>5
    <3>2. ~g[i]
      BY <2>13, <3>1
    <3> DEFINE j == i + 1
    <3>3. j \in 1..n /\ ~(s[j] = "[" /\ Bracket(s, j)) /\ j - 1 = i
      BY <2>11, <3>1
    <3> HIDE DEF j, K
    <3>4. ~Bracket(s, j)
      <4> SUFFICES ASSUME Bracket(s, j)
                   PROVE  FALSE
        OBVIOUS
      <4>1. s[j] = "]"
        BY <3>3 DEF Bracket
      <4>2. g[i] = (s[j] = "]")
        BY <2>10, <3>3
      <4> QED
        BY <3>2, <4>1, <4>2
    <3>5. g[j] = g[i] /\ (s[j] = "/" => g[j])
      BY <2>10, <3>3, <3>4
    <3> QED
      BY <3>2, <3>4, <3>5 DEF j
  <2> HIDE DEF K
  <2>14. \A i \in 1..m : ~Bracket(s, i) /\ s[i] # "/"
    <3>1. Nat \subseteq K
      BY <2>12, <2>13, SetInduction
    <3>2. \A i \in 1..m : i \in K /\ i <= m /\ i > 0
      BY <2>5, <3>1
    <3> QED
      BY <3>2 DEF K
  <2>15. \A i \in 1..m : nm[i] # "/" /\ ~Bracket(nm, i)
    <3> SUFFICES ASSUME NEW i \in 1..m
                 PROVE  nm[i] # "/" /\ ~Bracket(nm, i)
      OBVIOUS
    <3>1. nm[i] = s[i] /\ ~Bracket(s, i) /\ s[i] # "/" /\ (i > 1 => nm[i - 1] = s[i - 1])
      BY <2>5, <2>8, <2>14
    <3> QED
      BY <3>1 DEF Bracket
  <2>16. pk.ok
    BY <2>3 DEF Malformed
  <2>17. PICK key : IsKeys(key) /\ pk = [ok |-> TRUE, kvs |-> key]
    BY <2>7, <2>16, ParsedKeys DEF pk
  <2> DEFINE el == [name |-> nm, key |-> key]
  <2>18. ToPathElem(s) = [ok |-> TRUE, elem |-> el]
    BY <2>3, <2>16, <2>17
  <2>19. el.name = nm /\ el.key = key /\ el = [name |-> el.name, key |-> el.key]
    OBVIOUS
  <2> HIDE DEF el
  <2>20. IsElem(el)
    <3>1. nm # <<>> /\ Last(nm) # "\\"
      BY <2>5, <2>6, <2>8 DEF Last
    <3>2. DOMAIN nm = 1..m
      BY <2>5, <2>8
    <3>3. Positions(nm, "/") = {} /\ \A i \in DOMAIN nm : ~Bracket(nm, i)
      BY <2>15, <3>2 DEF Positions
    <3>4. el = [name |-> el.name, key |-> [k \in DOMAIN el.key |-> el.key[k]]]
      BY <2>17, <2>19 DEF IsKeys
    <3>5. /\ IsFiniteSet(DOMAIN el.key)
          /\ \A k \in DOMAIN el.key :
               /\ k \in Seq(Char) /\ k # <<>> /\ Positions(k, "=") = {}
               /\ el.key[k] \in Seq(Char) /\ el.key[k] # <<>> /\ Last(el.key[k]) # "\\"
      BY <2>17, <2>19 DEF IsKeys
    <3> QED
      BY <2>8, <2>19, <3>1, <3>3, <3>4, <3>5 DEF IsElem
  <2> QED
    BY <2>18, <2>20
<1> QED
  BY <1>2, <1>3

\* What a turn does to the place the scan is at
LEMMA ElemsTurnIs ==
  ASSUME NEW p \in Seq(Char), NEW a \in ElemsStates, NEW i \in 1..Len(p), ElemsTurn(p, a, i).ok
  PROVE  LET b == ElemsTurn(p, a, i)
             u == SubSeq(p, a.start, i - 1) IN
         /\ a.ok
         /\ Bracket(p, i) => a.inKey = (p[i] = "]") /\ b.inKey = ~a.inKey
         /\ ~Bracket(p, i) => b.inKey = a.inKey
         /\ p[i] = "/" /\ ~a.inKey => /\ b.start = i + 1
                                      /\ b.elems = IF a.start = i THEN a.elems ELSE Append(a.elems, u)
         /\ p[i] # "/" \/ a.inKey => b.start = a.start /\ b.elems = a.elems
<1> DEFINE b == ElemsTurn(p, a, i)
           u == SubSeq(p, a.start, i - 1)
<1>0. a.ok \in BOOLEAN /\ a.inKey \in BOOLEAN /\ a = [ok |-> a.ok, inKey |-> a.inKey, start |-> a.start, elems |-> a.elems]
  BY DEF ElemsStates
<1>1. CASE ~a.ok
  <2>1. b = a
    BY <1>1 DEF ElemsTurn
  <2> QED
    BY <1>1, <2>1
<1>2. CASE a.ok /\ Bracket(p, i)
  <2>1. p[i] # "/" /\ p[i] \in {"[", "]"}
    BY <1>2 DEF Bracket
  <2>2. b = IF a.inKey = (p[i] = "[") THEN [a EXCEPT !.ok = FALSE] ELSE [a EXCEPT !.inKey = ~a.inKey]
    BY <1>2, <2>1 DEF ElemsTurn
  <2>3. ~(a.inKey = (p[i] = "["))
    <3> HIDE DEF b
    <3>1. b.ok
      BY DEF b
    <3> QED
      BY <2>2, <3>1 DEF ElemsStates
  <2>4. b.inKey = ~a.inKey /\ b.start = a.start /\ b.elems = a.elems
    <3> HIDE DEF b
    <3> QED
      BY <2>2, <2>3 DEF ElemsStates
  <2> HIDE DEF b, u
  <2>5. a.inKey = (p[i] = "]")
    BY <1>0, <2>1, <2>3
  <2> QED
    BY <1>2, <2>1, <2>4, <2>5 DEF b
<1>3. CASE a.ok /\ ~Bracket(p, i) /\ p[i] = "/" /\ ~a.inKey
  <2> DEFINE s == IF a.start = i THEN a.elems ELSE Append(a.elems, u)
             d == i + 1
  <2>1. b = [a EXCEPT !.start = d, !.elems = s]
    BY <1>3 DEF ElemsTurn
  <2> HIDE DEF b, s, u, d
  <2>2. b.inKey = a.inKey /\ b.start = d /\ b.elems = s
    BY <2>1 DEF ElemsStates
  <2> QED
    BY <1>3, <2>2 DEF b, s, u, d
<1>4. CASE a.ok /\ ~Bracket(p, i) /\ ~(p[i] = "/" /\ ~a.inKey)
  <2>1. b = a
    BY <1>4 DEF ElemsTurn
  <2> HIDE DEF b, u
  <2> QED
    BY <1>4, <2>1 DEF b
<1> QED
  BY <1>1, <1>2, <1>3, <1>4

\* The scan was outside of keys before place a and is outside behind place i, and
\* at no slash between them.
IsPiece(p, f, a, i) ==
  /\ a <= i /\ (a > 1 => p[a - 1] = "/") /\ ~f[a - 1].inKey /\ ~f[i].inKey
  /\ \A j \in 0..i : f[j].ok
  /\ \A j \in a..i : p[j] = "/" => f[j].inKey

\* A piece the scan cuts off is one element for the scan.
LEMMA PieceScannable ==
  ASSUME NEW p \in Seq(Char), NEW f, ElemsRun(p, f), NEW a \in Nat \ {0}, NEW i \in 1..Len(p), IsPiece(p, f, a, i)
  PROVE  LET u == SubSeq(p, a, i) IN u \in Seq(Char) /\ u # <<>> /\ Scannable(u)
<1> DEFINE n == Len(p)
           l == i + 1 - a
           u == SubSeq(p, a, i)
           h == [k \in 0..l |-> f[(a - 1) + k].inKey]
<1>1. /\ a <= i /\ (a > 1 => p[a - 1] = "/") /\ ~f[a - 1].inKey /\ ~f[i].inKey
      /\ \A j \in 0..i : f[j].ok
      /\ \A j \in a..i : p[j] = "/" => f[j].inKey
  BY DEF IsPiece
<1>2. n \in Nat /\ i \in 1..n /\ l \in Nat /\ l > 0 /\ (a - 1) + l = i
  BY <1>1
<1>3. u \in Seq(Char) /\ Len(u) = l /\ \A k \in 1..l : u[k] = p[a + k - 1]
  <2>1. i \in Nat /\ i <= Len(p) /\ a <= i + 1
    BY <1>1
  <2> HIDE DEF u
  <2>2. u = SubSeq(p, a, i)
    BY DEF u
  <2>3. u \in Seq(Char) /\ Len(u) = i + 1 - a /\ \A k \in 1..(i + 1 - a) : u[k] = p[a + k - 1]
    BY <2>1, <2>2, SubSeqIs
  <2> QED
    BY <2>3
<1>4. /\ f \in [0..n -> ElemsStates] /\ \A j \in 1..n : f[j] = ElemsTurn(p, f[j - 1], j)
  BY DEF ElemsRun
<1> HIDE DEF u, n, l
<1>5. \A k \in 0..l : (a - 1) + k \in 0..n /\ (a - 1) + k \in 0..i
  BY <1>1, <1>2
<1>6. h \in [0..l -> BOOLEAN] /\ \A k \in 0..l : h[k] = f[(a - 1) + k].inKey
  BY <1>4, <1>5 DEF ElemsStates
<1> HIDE DEF h
<1>7. ASSUME NEW k \in 1..l
      PROVE  /\ Bracket(u, k) => h[k - 1] = (u[k] = "]") /\ h[k] = ~h[k - 1]
             /\ ~Bracket(u, k) => h[k] = h[k - 1]
             /\ u[k] = "/" => h[k]
  <2> DEFINE j == a + k - 1
  <2>1. j \in 1..n /\ j \in a..i /\ j \in 0..i /\ j = (a - 1) + k /\ j - 1 = (a - 1) + (k - 1) /\ k - 1 \in 0..l /\ k \in 0..l
        /\ j - 1 \in 0..n
    BY <1>1, <1>2
  <2> HIDE DEF j
  <2>2. h[k] = f[j].inKey /\ h[k - 1] = f[j - 1].inKey
    BY <1>6, <2>1
  <2>3. u[k] = p[j]
    BY <1>3 DEF j
  <2>4. Bracket(u, k) <=> Bracket(p, j)
    <3>1. CASE k = 1
      <4>1. j = a
        BY <3>1 DEF j
      <4>2. p[j] \in {"[", "]"} => (j > 1 => p[j - 1] # "\\")
        BY <1>1, <4>1
      <4> QED
        BY <2>3, <3>1, <4>2 DEF Bracket
    <3>2. CASE k # 1
      <4>1. k - 1 \in 1..l /\ k > 1 /\ j > 1 /\ a + (k - 1) - 1 = j - 1
        BY <2>1, <3>2 DEF j
      <4>2. u[k - 1] = p[j - 1]
        BY <1>3, <4>1
      <4> QED
        BY <2>3, <4>1, <4>2 DEF Bracket
    <3> QED
      BY <3>1, <3>2
  <2>5. /\ Bracket(p, j) => f[j - 1].inKey = (p[j] = "]") /\ f[j].inKey = ~f[j - 1].inKey
        /\ ~Bracket(p, j) => f[j].inKey = f[j - 1].inKey
    <3> DEFINE x == f[j - 1]
               y == f[j]
    <3>1. x \in ElemsStates /\ y = ElemsTurn(p, x, j) /\ y.ok /\ j \in 1..Len(p)
      BY <1>1, <1>4, <2>1 DEF n
    <3> HIDE DEF x, y
    <3>2. /\ Bracket(p, j) => x.inKey = (p[j] = "]") /\ y.inKey = ~x.inKey
          /\ ~Bracket(p, j) => y.inKey = x.inKey
      BY <3>1, ElemsTurnIs
    <3> QED
      BY <3>2 DEF x, y
  <2>6. p[j] = "/" => f[j].inKey
    BY <1>1, <2>1
  <2> QED
    BY <2>2, <2>3, <2>4, <2>5, <2>6
<1>8. h[0] = FALSE /\ ~h[l]
  <2>1. 0 \in 0..l /\ l \in 0..l /\ (a - 1) + 0 = a - 1 /\ (a - 1) + l = i
    BY <1>2
  <2>2. h[0] = f[a - 1].inKey /\ h[l] = f[i].inKey /\ h[0] \in BOOLEAN
    BY <1>6, <2>1
  <2> QED
    BY <1>1, <2>2
<1>9. Flips(u, h)
  BY <1>3, <1>6, <1>7, <1>8 DEF Flips
<1>10. Scannable(u)
  BY <1>3, <1>8, <1>9 DEF Scannable
<1>11. u # <<>>
  BY <1>2, <1>3
<1> QED
  BY <1>3, <1>10, <1>11 DEF u

\* What holds of the scan at place i if it has not failed
ElemsSoFar(p, f, i) ==
  f[i].ok =>
    /\ \A j \in 0..i : f[j].ok
    /\ f[i].start <= i + 1 /\ ~f[f[i].start - 1].inKey
    /\ f[i].start > 1 => p[f[i].start - 1] = "/"
    /\ \A j \in f[i].start..i : p[j] = "/" => f[j].inKey
    /\ IsElems(f[i].elems)

\* One turn keeps what the scan has cut off together with what it has read.
LEMMA ElemsStep ==
  ASSUME NEW p \in Seq(Char), NEW f, ElemsRun(p, f), NEW i \in 1..Len(p), ElemsSoFar(p, f, i - 1)
  PROVE  ElemsSoFar(p, f, i)
<1> SUFFICES ASSUME f[i].ok
             PROVE  /\ \A j \in 0..i : f[j].ok
                    /\ f[i].start <= i + 1 /\ ~f[f[i].start - 1].inKey
                    /\ f[i].start > 1 => p[f[i].start - 1] = "/"
                    /\ \A j \in f[i].start..i : p[j] = "/" => f[j].inKey
                    /\ IsElems(f[i].elems)
  BY DEF ElemsSoFar
<1> DEFINE n == Len(p)
           x == f[i - 1]
           y == f[i]
           a == x.start
           u == SubSeq(p, a, i - 1)
<1>1. x \in ElemsStates /\ y \in ElemsStates /\ y = ElemsTurn(p, x, i) /\ n \in Nat /\ i \in 1..n
  <2>1. i - 1 \in 0..n /\ i \in 0..n /\ i \in 1..n
    OBVIOUS
  <2> QED
    BY <2>1 DEF ElemsRun
<1> HIDE DEF x, y
<1>2. /\ x.ok /\ y.ok
      /\ Bracket(p, i) => x.inKey = (p[i] = "]") /\ y.inKey = ~x.inKey
      /\ ~Bracket(p, i) => y.inKey = x.inKey
      /\ p[i] = "/" /\ ~x.inKey => /\ y.start = i + 1
                                   /\ y.elems = IF a = i THEN x.elems ELSE Append(x.elems, u)
      /\ p[i] # "/" \/ x.inKey => y.start = x.start /\ y.elems = x.elems
  <2>1. y.ok
    BY DEF y
  <2>2. ElemsTurn(p, x, i).ok
    BY <1>1, <2>1
  <2> QED
    BY <1>1, <2>1, <2>2, ElemsTurnIs
<1>3. /\ \A j \in 0..(i - 1) : f[j].ok
      /\ a <= (i - 1) + 1 /\ ~f[a - 1].inKey
      /\ a > 1 => p[a - 1] = "/"
      /\ \A j \in a..(i - 1) : p[j] = "/" => f[j].inKey
      /\ IsElems(x.elems)
  BY <1>2 DEF ElemsSoFar, x
<1>4. a \in Nat \ {0}
  BY <1>1 DEF ElemsStates
<1> HIDE DEF a, n
<1>5. \A j \in 0..i : f[j].ok
  <2> SUFFICES ASSUME NEW j \in 0..i
               PROVE  f[j].ok
    OBVIOUS
  <2>1. CASE j = i
    BY <2>1
  <2>2. CASE j # i
    BY <1>3, <2>2
  <2> QED
    BY <2>1, <2>2
<1>6. CASE p[i] = "/" /\ ~x.inKey
  <2> DEFINE d == i + 1
  <2>1. y.start = d /\ d - 1 = i /\ d <= i + 1 /\ \A j \in d..i : FALSE
    BY <1>1, <1>2, <1>6
  <2>2. ~y.inKey
    <3>1. ~Bracket(p, i)
      BY <1>6 DEF Bracket
    <3> QED
      BY <1>2, <1>6, <3>1
  <2>3. IsElems(y.elems)
    <3>1. CASE a = i
      BY <1>2, <1>3, <1>6, <3>1
    <3>2. CASE a # i
      <4> DEFINE e == i - 1
      <4>1. e \in 1..Len(p) /\ a <= e
        BY <1>1, <1>3, <1>4, <3>2 DEF n
      <4>2. ~f[e].inKey
        BY <1>6 DEF x
      <4> HIDE DEF e
      <4>3. IsPiece(p, f, a, e)
        BY <1>3, <4>1, <4>2 DEF IsPiece, e
      <4> DEFINE v == SubSeq(p, a, e)
      <4>4. v \in Seq(Char) /\ v # <<>> /\ Scannable(v)
        BY <1>4, <4>1, <4>3, PieceScannable
      <4> HIDE DEF v
      <4>5. y.elems = Append(x.elems, v)
        BY <1>2, <1>6, <3>2 DEF v, e
      <4> DEFINE w == x.elems
      <4>6. w \in Seq(Seq(Char)) /\ \A k \in 1..Len(w) : w[k] # <<>> /\ Scannable(w[k])
        BY <1>3 DEF IsElems
      <4> HIDE DEF w
      <4>7. IsElems(Append(w, v))
        <5> DEFINE z == Append(w, v)
        <5>1. z \in Seq(Seq(Char)) /\ Len(z) = Len(w) + 1 /\ z[Len(w) + 1] = v /\ \A k \in 1..Len(w) : z[k] = w[k]
          BY <4>4, <4>6
        <5> HIDE DEF z
        <5>2. \A k \in 1..Len(z) : z[k] # <<>> /\ Scannable(z[k])
          <6> SUFFICES ASSUME NEW k \in 1..Len(z)
                       PROVE  z[k] # <<>> /\ Scannable(z[k])
            OBVIOUS
          <6>1. CASE k = Len(w) + 1
            BY <4>4, <5>1, <6>1
          <6>2. CASE k # Len(w) + 1
            <7>1. k \in 1..Len(w)
              BY <4>6, <5>1, <6>2
            <7> QED
              BY <4>6, <5>1, <7>1
          <6> QED
            BY <6>1, <6>2
        <5> QED
          BY <5>1, <5>2 DEF IsElems, z
      <4> QED
        BY <4>5, <4>7 DEF w
    <3> QED
      BY <3>1, <3>2
  <2> HIDE DEF d
  <2>4. ~f[d - 1].inKey /\ p[d - 1] = "/"
    BY <1>6, <2>1, <2>2 DEF y
  <2> QED
    BY <1>5, <2>1, <2>3, <2>4 DEF y
<1>7. CASE p[i] # "/" \/ x.inKey
  <2>1. y.start = a /\ y.elems = x.elems
    BY <1>2, <1>7 DEF a
  <2>2. p[i] = "/" => y.inKey
    <3> SUFFICES ASSUME p[i] = "/"
                 PROVE  y.inKey
      OBVIOUS
    <3>1. ~Bracket(p, i)
      BY DEF Bracket
    <3> QED
      BY <1>2, <1>7, <3>1
  <2>3. \A j \in a..i : p[j] = "/" => f[j].inKey
    <3> SUFFICES ASSUME NEW j \in a..i, p[j] = "/"
                 PROVE  f[j].inKey
      OBVIOUS
    <3>1. CASE j = i
      BY <2>2, <3>1 DEF y
    <3>2. CASE j # i
      <4>1. j \in a..(i - 1)
        BY <1>4, <3>2
      <4> QED
        BY <1>3, <4>1
    <3> QED
      BY <3>1, <3>2
  <2>4. a <= i + 1
    BY <1>1, <1>3, <1>4
  <2> QED
    BY <1>3, <1>5, <2>1, <2>3, <2>4 DEF y
<1> QED
  BY <1>6, <1>7

\* So it is at every place.
LEMMA ElemsAlways ==
  ASSUME NEW p \in Seq(Char), NEW f, ElemsRun(p, f)
  PROVE  \A i \in 0..Len(p) : ElemsSoFar(p, f, i)
<1> DEFINE n == Len(p)
<1>1. ElemsRun(p, f)
  OBVIOUS
<1>2. /\ ScanElems(p) = f[n] /\ f[0] = [ok |-> TRUE, inKey |-> FALSE, start |-> 1, elems |-> <<>>]
      /\ n \in Nat
  BY <1>1 DEF ElemsRun
<1> DEFINE K == {i \in Nat : i <= n => ElemsSoFar(p, f, i)}
<1>3. 0 \in K
  <2>1. f[0].ok /\ ~f[0].inKey /\ f[0].start = 1 /\ f[0].elems = <<>>
    BY <1>2
  <2>2. IsElems(<<>>)
    BY DEF IsElems
  <2>3. \A j \in 0..0 : j = 0
    OBVIOUS
  <2>4. \A j \in 1..0 : FALSE
    OBVIOUS
  <2>5. 1 <= 0 + 1 /\ 1 - 1 = 0 /\ ~(1 > 1)
    OBVIOUS
  <2>6. ElemsSoFar(p, f, 0)
    BY <2>1, <2>2, <2>3, <2>4, <2>5 DEF ElemsSoFar
  <2> QED
    BY <2>6
<1>4. ASSUME NEW i \in Nat, i \in K
      PROVE  i + 1 \in K
  <2> SUFFICES ASSUME i + 1 <= n
               PROVE  ElemsSoFar(p, f, i + 1)
    OBVIOUS
  <2> DEFINE j == i + 1
  <2>1. j \in 1..Len(p) /\ j - 1 = i /\ i <= n
    BY <1>2
  <2>2. ElemsSoFar(p, f, j - 1)
    BY <1>4, <2>1
  <2> HIDE DEF j, K
  <2>3. ElemsSoFar(p, f, j)
    BY <1>1, <2>1, <2>2, ElemsStep
  <2> QED
    BY <2>3 DEF j
<1> HIDE DEF K
<1>5. \A i \in Nat : i \in K
  BY <1>3, <1>4, SetInduction
<1> QED
  BY <1>2, <1>5 DEF K

\* The elements that a scan returns can be scanned.
LEMMA ElemsFound ==
  ASSUME NEW p \in Seq(Char), ScanElems(p).ok
  PROVE  IsElems(ScanElems(p).elems)
<1> DEFINE n == Len(p)
<1>1. PICK f : ElemsRun(p, f)
  BY ElemsLoop
<1>2. ScanElems(p) = f[n] /\ n \in 0..Len(p)
  BY <1>1 DEF ElemsRun
<1>3. ElemsSoFar(p, f, n)
  BY <1>1, <1>2, ElemsAlways
<1> HIDE DEF n
<1> QED
  BY <1>2, <1>3 DEF ElemsSoFar

\* The elements of a path that was parsed
IsParsed(elem) ==
  (\E E : elem \in Seq(E)) /\ \A i \in 1..Len(elem) : IsElem(elem[i]) \/ IsBare(elem[i])

\* What toPathElems returns is a list of elements it can return.
LEMMA ElemsParsed ==
  ASSUME NEW r \in Seq(Char), ToPathElems(r).ok
  PROVE  \E elem : ToPathElems(r) = Path(<<>>, elem) /\ IsParsed(elem)
<1> DEFINE p == Slashed(r)
           end == ScanElems(p)
           es == end.elems
           n == Len(es)
           parsed == [i \in DOMAIN es |-> ToPathElem(es[i])]
           elem == [i \in DOMAIN parsed |-> parsed[i].elem]
<1>1. p \in Seq(Char)
  <2>1. "/" \in Char
    BY Chars
  <2> QED
    BY <2>1 DEF Slashed
<1>2. ToPathElems(r) = IF ~end.ok \/ end.inKey \/ \E i \in DOMAIN parsed : ~parsed[i].ok THEN Malformed
                       ELSE Path(<<>>, elem)
  BY DEF ToPathElems
<1> HIDE DEF p, elem, parsed
<1>3. end.ok /\ ToPathElems(r) = Path(<<>>, elem) /\ \A i \in DOMAIN parsed : parsed[i].ok
  BY <1>2 DEF Malformed
<1>4. IsElems(es)
  BY <1>1, <1>3, ElemsFound
<1>5. es \in Seq(Seq(Char)) /\ n \in Nat /\ DOMAIN es = 1..n /\ \A i \in 1..n : es[i] \in Seq(Char) /\ es[i] # <<>> /\ Scannable(es[i])
  BY <1>4 DEF IsElems
<1> HIDE DEF es, n
<1>6. DOMAIN parsed = 1..n /\ \A i \in 1..n : parsed[i] = ToPathElem(es[i])
  BY <1>5 DEF parsed
<1>7. DOMAIN elem = 1..n /\ \A i \in 1..n : elem[i] = parsed[i].elem
  BY <1>6 DEF elem
<1>8. \A i \in 1..n : IsElem(elem[i]) \/ IsBare(elem[i])
  <2> SUFFICES ASSUME NEW i \in 1..n
               PROVE  IsElem(elem[i]) \/ IsBare(elem[i])
    OBVIOUS
  <2> DEFINE s == es[i]
  <2>1. s \in Seq(Char) /\ s # <<>> /\ Scannable(s) /\ ToPathElem(s).ok
    BY <1>3, <1>5, <1>6
  <2>2. elem[i] = ToPathElem(s).elem
    BY <1>6, <1>7
  <2> HIDE DEF s
  <2>3. PICK el : ToPathElem(s) = [ok |-> TRUE, elem |-> el] /\ (IsElem(el) \/ IsBare(el))
    BY <2>1, ParsedElem
  <2>4. ToPathElem(s).elem = el
    BY <2>3
  <2> QED
    BY <2>2, <2>3, <2>4
<1> DEFINE E == {elem[i] : i \in 1..n}
<1>9. elem \in [1..n -> E]
  BY <1>7 DEF elem
<1> HIDE DEF E
<1>10. elem \in Seq(E) /\ Len(elem) = n
  BY <1>5, <1>9
<1> QED
  BY <1>3, <1>8, <1>10 DEF IsParsed

\* No key or value of the element has a bracket.
IsPlain(el) ==
  \A k \in DOMAIN el.key : \A c \in {"[", "]"} : Positions(k, c) \cup Positions(el.key[k], c) = {}

\* Every form ToXPath prints of an element is read as that element.
LEMMA PrintedReads ==
  ASSUME NEW el, IsElem(el) \/ IsBare(el), IsPlain(el), NEW e \in ElemStrings(el, FALSE)
  PROVE  Reads(e, el)
<1> DEFINE key == el.key
           D == DOMAIN key
<1>1. PICK order \in SetToSeqs(D) :
        e = el.name \o FlattenSeq([i \in DOMAIN order |-> <<"[">> \o order[i] \o <<"=">> \o key[order[i]] \o <<"]">>])
  BY DEF ElemStrings, KeyStrings
<1>2. CASE IsBare(el)
  <2>1. D = {} /\ Reads(el.name, el)
    BY <1>2, NoKeysIs DEF IsBare
  <2>2. Cardinality(D) = 0
    BY <2>1, FS_EmptySet
  <2>3. order \in [1..0 -> D]
    BY <1>1, <2>2 DEF SetToSeqs
  <2>4. DOMAIN order = {}
    BY <2>3
  <2>5. [i \in DOMAIN order |-> <<"[">> \o order[i] \o <<"=">> \o key[order[i]] \o <<"]">>] = <<>>
    BY <2>4
  <2>6. FlattenSeq(<<>>) = <<>>
    BY DEF FlattenSeq
  <2>7. e = el.name \o <<>>
    BY <1>1, <2>5, <2>6
  <2>8. el.name \o <<>> = el.name
    BY <2>1 DEF Reads
  <2> QED
    BY <2>1, <2>7, <2>8
<1>3. CASE IsElem(el)
  <2> DEFINE xs == [k \in D |-> k]
             ys == [k \in D |-> key[k]]
             parts == [j \in DOMAIN order |-> InBrackets(xs[order[j]], ys[order[j]])]
  <2>1. IsKeys(key)
    <3>1. el = [name |-> el.name, key |-> [k \in DOMAIN el.key |-> el.key[k]]]
      BY <1>3 DEF IsElem
    <3>2. key = [k \in DOMAIN el.key |-> el.key[k]]
      BY <3>1
    <3> QED
      BY <1>3, <3>2 DEF IsElem, IsKeys
  <2>2. Enumerates(order, D)
    BY <1>1, <2>1, AllOrders DEF IsKeys
  <2>3. Writes(xs, ys, key)
    <3> SUFFICES ASSUME NEW k \in D
                 PROVE  KeyAndValue(k, key[k]) /\ Unescape(k) = k /\ Unescape(key[k]) = key[k]
      BY DEF Writes
    <3> DEFINE v == key[k]
    <3>1. k \in Seq(Char) /\ k # <<>> /\ Positions(k, "=") = {} /\ v \in Seq(Char) /\ v # <<>> /\ Last(v) # "\\"
      BY <2>1 DEF IsKeys
    <3>2. \A c \in {"[", "]"} : Positions(k, c) = {} /\ Positions(v, c) = {}
      BY DEF IsPlain
    <3> HIDE DEF v
    <3>3. /\ \A i \in 1..Len(k) : k[i] # "=" /\ k[i] \notin {"[", "]"}
          /\ \A i \in 1..Len(v) : v[i] \notin {"[", "]"}
      BY <3>1, <3>2 DEF Positions
    <3>4. Guarded(k) /\ Guarded(v)
      BY <3>3 DEF Guarded
    <3>5. Unescape(k) = k /\ Unescape(v) = v
      BY <3>1, <3>3, UnescapePlain
    <3>6. KeyAndValue(k, v)
      BY <3>1, <3>3, <3>4 DEF KeyAndValue
    <3> QED
      BY <3>5, <3>6 DEF v
  <2>4. PICK texts : Keyed(parts, texts, key)
    <3> HIDE DEF xs, ys, key
    <3> QED
      BY <2>1, <2>2, <2>3, WrittenKeyed
  <2>5. parts = [i \in DOMAIN order |-> <<"[">> \o order[i] \o <<"=">> \o key[order[i]] \o <<"]">>]
    <3>1. \A j \in DOMAIN order : order[j] \in D
      BY <2>2 DEF Enumerates
    <3>2. \A j \in DOMAIN order : xs[order[j]] = order[j] /\ ys[order[j]] = key[order[j]]
      BY <3>1
    <3> HIDE DEF xs, ys, key
    <3> QED
      BY <3>2 DEF InBrackets
  <2>6. Reads(el.name \o FlattenSeq(parts), el)
    <3> HIDE DEF parts
    <3> QED
      BY <1>3, <2>4, ElemReads
  <2> QED
    BY <1>1, <2>5, <2>6
<1> QED
  BY <1>2, <1>3

\* What printing has when i elements are printed
Printing(elem, i, strings) ==
  UNION {{s \o e \o (IF i # Len(elem) THEN <<"/">> ELSE <<>>) : e \in ElemStrings(elem[i], FALSE)} : s \in strings}

\* The loop of ToXPath, as a function
LEMMA PrintedLoop ==
  ASSUME NEW E, NEW elem \in Seq(E),
         \A i \in 1..Len(elem) : \A e \in ElemStrings(elem[i], FALSE) : e \in Seq(Char)
  PROVE  \E f \in [0..Len(elem) -> SUBSET Seq(Char)] :
           /\ ToXPath(Path(<<>>, elem), FALSE) = f[Len(elem)] /\ f[0] = {<<>>}
           /\ \A i \in 1..Len(elem) : f[i] = Printing(elem, i, f[i - 1])
<1> DEFINE n == Len(elem)
           S == SUBSET Seq(Char)
           a == {<<>>}
           turn == [x \in (1..n) \X S |-> Printing(elem, x[1], x[2])]
           Is(f) == f = [i \in 0..n |-> IF i = 0 THEN a ELSE Printing(elem, i, f[i - 1])]
           printed == CHOOSE f : Is(f)
<1>1. n \in Nat /\ a \in S
  OBVIOUS
<1>2. \A i \in 1..n : \A x \in S : Printing(elem, i, x) \in S
  <2> SUFFICES ASSUME NEW i \in 1..n, NEW x \in S, NEW w \in Printing(elem, i, x)
               PROVE  w \in Seq(Char)
    OBVIOUS
  <2> DEFINE sep == IF i # Len(elem) THEN <<"/">> ELSE <<>>
  <2>1. PICK s \in x : \E e \in ElemStrings(elem[i], FALSE) : w = s \o e \o sep
    BY DEF Printing
  <2>2. PICK e \in ElemStrings(elem[i], FALSE) : w = s \o e \o sep
    BY <2>1
  <2>3. e \in Seq(Char) /\ s \in Seq(Char)
    OBVIOUS
  <2>4. sep \in Seq(Char)
    BY Chars
  <2> HIDE DEF sep
  <2> QED
    BY <2>2, <2>3, <2>4
<1>3. ToXPath(Path(<<>>, elem), FALSE) = printed[n]
  <2>1. Path(<<>>, elem).origin = <<>> /\ Path(<<>>, elem).elem = elem
    BY DEF Path
  <2> DEFINE q == Path(<<>>, elem)
  <2> HIDE DEF q
  <2>2. q.origin = <<>> /\ q.elem = elem
    BY <2>1 DEF q
  <2>3. ToXPath(q, FALSE) = printed[n]
    BY <2>2 DEF ToXPath, Printing
  <2> QED
    BY <2>3 DEF q
<1> HIDE DEF n, a, S
<1>4. IsTurn(turn, 0, n, S)
  <2>1. \A x \in (1..n) \X S : Printing(elem, x[1], x[2]) \in S
    BY <1>2
  <2>2. turn \in [(1..n) \X S -> S]
    BY <2>1
  <2> QED
    BY <2>2 DEF IsTurn
<1>5. \E f : IsLoop(f, 0, n, a, turn, S)
  <2> HIDE DEF turn
  <2> QED
    BY <1>1, <1>4, LoopDefined
<1>6. PICK f : IsLoop(f, 0, n, a, turn, S)
  BY <1>5
<1>7. f \in [0..n -> S] /\ \A i \in 0..n : f[i] = IF i = 0 THEN a ELSE turn[<<i, f[i - 1]>>]
  BY <1>6 DEF IsLoop
<1>8. \A i \in 0..n : f[i] = IF i = 0 THEN a ELSE Printing(elem, i, f[i - 1])
  <2>1. \A i \in 0..n : i # 0 => <<i, f[i - 1]>> \in (1..n) \X S
    BY <1>1, <1>7
  <2> QED
    BY <1>7, <2>1
<1>9. Is(f)
  BY <1>7, <1>8
<1>10. Is(printed)
  BY <1>9
<1> HIDE DEF printed
<1>11. printed[0] = a /\ \A i \in 1..n : printed[i] = Printing(elem, i, printed[i - 1])
  <2>1. 0 \in 0..n /\ \A i \in 1..n : i \in 0..n /\ i # 0
    BY <1>1
  <2> QED
    BY <1>10, <2>1
<1>12. printed \in [0..n -> S]
  <2> DEFINE K == {k \in Nat : k <= n => printed[k] \in S}
  <2>1. 0 \in K
    BY <1>1, <1>11
  <2>2. ASSUME NEW k \in Nat, k \in K
        PROVE  k + 1 \in K
    <3> SUFFICES ASSUME k + 1 <= n
                 PROVE  printed[k + 1] \in S
      OBVIOUS
    <3>1. k + 1 \in 1..n /\ (k + 1) - 1 = k /\ k <= n
      BY <1>1
    <3>2. printed[k] \in S
      BY <2>2, <3>1
    <3> DEFINE j == k + 1
    <3>3. j \in 1..n /\ j - 1 = k
      BY <3>1
    <3> HIDE DEF j, K
    <3>4. printed[j] = Printing(elem, j, printed[k])
      BY <1>11, <3>3
    <3> QED
      BY <1>2, <3>2, <3>3, <3>4 DEF j
  <2> HIDE DEF K
  <2>3. Nat \subseteq K
    BY <2>1, <2>2, SetInduction
  <2>4. \A k \in 0..n : k \in K /\ k <= n
    BY <1>1, <2>3
  <2>5. \A k \in 0..n : printed[k] \in S
    BY <2>4 DEF K
  <2> QED
    BY <1>10, <2>5
<1> QED
  BY <1>3, <1>11, <1>12 DEF n, a, S

\* Where the parts are put together first makes no difference.
Associates(a, b, c) == a \o (b \o c) = (a \o b) \o c

\* So for strings.
LEMMA JoinAssociates ==
  ASSUME NEW a \in Seq(Char), NEW b \in Seq(Char), NEW c \in Seq(Char)
  PROVE  a \o b \in Seq(Char) /\ Associates(a, b, c)
BY DEF Associates

\* A list of one
LEMMA FlattenOne ==
  ASSUME NEW S, NEW s \in Seq(S)
  PROVE  FlattenSeq(<<s>>) = s
<1> DEFINE parts == <<s>>
<1>1. parts \in Seq(Seq(S)) /\ parts # <<>> /\ Len(parts) = 1 /\ parts[1] = s
  OBVIOUS
<1> HIDE DEF parts
<1>2. \E f \in [1..Len(parts) -> Seq(S)] : FlattenSeq(parts) = f[Len(parts)] /\ f[1] = parts[1]
  BY <1>1, FlattenLoop
<1>3. FlattenSeq(parts) = s
  BY <1>1, <1>2
<1> QED
  BY <1>3 DEF parts

\* One more element, with its slash
LEMMA AppendSlashed ==
  ASSUME NEW es \in Seq(Seq(Char)), NEW e \in Seq(Char)
  PROVE  FlattenSeq(WithSlashes(Append(es, e))) = FlattenSeq(WithSlashes(es)) \o (<<"/">> \o e)
<1> DEFINE n == Len(es)
           v == <<"/">> \o e
           one == <<v>>
           fs == Append(es, e)
           W == WithSlashes(es)
           U == WithSlashes(fs)
<1>1. n \in Nat /\ fs \in Seq(Seq(Char)) /\ Len(fs) = n + 1 /\ fs[n + 1] = e /\ \A i \in 1..n : fs[i] = es[i]
  OBVIOUS
<1>2. v \in Seq(Char)
  <2> DEFINE o == <<"/">>
  <2>1. o \in Seq(Char)
    BY Chars
  <2> HIDE DEF o
  <2>2. o \o e \in Seq(Char)
    BY <2>1
  <2> QED
    BY <2>2 DEF o
<1>3. DOMAIN es = 1..n /\ DOMAIN fs = 1..(n + 1)
  BY <1>1
<1> HIDE DEF fs
<1>4. /\ \A i \in 1..n : W[i] = <<"/">> \o es[i]
      /\ \A i \in 1..(n + 1) : U[i] = <<"/">> \o fs[i]
  BY <1>3 DEF WithSlashes
<1>5. W \in Seq(Seq(Char)) /\ Len(W) = n
  BY WithSlashesIs
<1>6. U \in Seq(Seq(Char)) /\ Len(U) = n + 1
  BY <1>1, WithSlashesIs
<1> HIDE DEF W, U, n, v
<1>7. one \in Seq(Seq(Char)) /\ Len(one) = 1 /\ one[1] = v
  BY <1>2
<1> HIDE DEF one
<1>8. /\ W \o one \in Seq(Seq(Char)) /\ Len(W \o one) = n + 1
      /\ (\A i \in 1..n : (W \o one)[i] = W[i]) /\ (W \o one)[n + 1] = v
  <2> DEFINE S == Seq(Char)
             w == W \o one
  <2>1. W \in Seq(S) /\ one \in Seq(S)
    BY <1>5, <1>7
  <2> HIDE DEF S, w
  <2>2. w \in Seq(S) /\ IsJoin(w, W, one)
    BY <2>1, JoinIs DEF w
  <2>3. 1 \in 1..Len(one)
    BY <1>7
  <2>4. w \in Seq(S) /\ Len(w) = n + 1 /\ (\A i \in 1..n : w[i] = W[i]) /\ w[n + 1] = v
    BY <1>1, <1>5, <1>7, <2>2, <2>3 DEF IsJoin
  <2> QED
    BY <2>4 DEF w, S
<1>9. \A i \in 1..(n + 1) : U[i] = (W \o one)[i]
  <2> SUFFICES ASSUME NEW i \in 1..(n + 1)
               PROVE  U[i] = (W \o one)[i]
    OBVIOUS
  <2>1. CASE i = n + 1
    BY <1>1, <1>4, <1>8, <2>1 DEF v
  <2>2. CASE i # n + 1
    <3>1. i \in 1..n
      BY <1>1, <2>2
    <3> QED
      BY <1>1, <1>4, <1>8, <3>1
  <2> QED
    BY <2>1, <2>2
<1>10. U = W \o one
  <2> DEFINE S == Seq(Char)
             w == W \o one
  <2>1. U \in Seq(S) /\ w \in Seq(S) /\ Len(U) = Len(w) /\ \A i \in 1..Len(U) : U[i] = w[i]
    BY <1>6, <1>8, <1>9
  <2> HIDE DEF S, w
  <2>2. U = w
    BY <2>1, SeqEqual
  <2> QED
    BY <2>2 DEF w
<1>11. FlattenSeq(W \o one) = FlattenSeq(W) \o FlattenSeq(one)
  BY <1>5, <1>7, FlattenConcat
<1>12. FlattenSeq(one) = v
  BY <1>2, FlattenOne DEF one
<1> QED
  BY <1>10, <1>11, <1>12 DEF U, W, v, fs

\* The strings that are printed are elements with slashes, less the first.
LEMMA PrintedAre ==
  ASSUME NEW E, NEW elem \in Seq(E), elem # <<>>,
         \A i \in 1..Len(elem) : \A e \in ElemStrings(elem[i], FALSE) : Reads(e, elem[i]),
         NEW x \in ToXPath(Path(<<>>, elem), FALSE)
  PROVE  \E es \in Seq(Seq(Char)) :
           /\ Len(es) = Len(elem) /\ \A i \in 1..Len(elem) : Reads(es[i], elem[i])
           /\ <<"/">> \o x = FlattenSeq(WithSlashes(es))
<1> DEFINE n == Len(elem)
           slash == <<"/">>
           Sep(i) == IF i # n THEN slash ELSE <<>>
           All(i, es) == /\ es \in Seq(Seq(Char)) /\ Len(es) = i /\ \A j \in 1..i : Reads(es[j], elem[j])
           Flat(es) == FlattenSeq(WithSlashes(es))
<1>1. n \in Nat /\ n > 0
  OBVIOUS
<1>2. \A i \in 1..n : \A e \in ElemStrings(elem[i], FALSE) : e \in Seq(Char)
  BY DEF Reads
<1>3. PICK f \in [0..n -> SUBSET Seq(Char)] :
        /\ ToXPath(Path(<<>>, elem), FALSE) = f[n] /\ f[0] = {<<>>}
        /\ \A i \in 1..n : f[i] = Printing(elem, i, f[i - 1])
  BY <1>2, PrintedLoop
<1>4. slash \in Seq(Char)
  BY Chars
<1> HIDE DEF n, slash
<1> DEFINE Form(i) == \A w \in f[i] : w \in Seq(Char) /\ \E es : All(i, es) /\ slash \o w = Flat(es) \o Sep(i)
           K == {i \in Nat : i <= n => Form(i)}
<1>5. 0 \in K
  <2> SUFFICES Form(0)
    OBVIOUS
  <2> DEFINE none == <<>>
  <2>1. All(0, none)
    OBVIOUS
  <2>2. Flat(none) = <<>>
    BY DEF WithSlashes, FlattenSeq
  <2>3. Sep(0) = slash
    BY <1>1
  <2>4. slash \o <<>> = <<>> \o slash
    BY <1>4
  <2>5. slash \o <<>> = Flat(none) \o Sep(0)
    BY <2>2, <2>3, <2>4
  <2> HIDE DEF All, Flat, Sep, none
  <2> QED
    BY <1>3, <2>1, <2>5
<1>6. ASSUME NEW i \in Nat, i \in K
      PROVE  i + 1 \in K
  <2> HIDE DEF Form
  <2> SUFFICES ASSUME i + 1 <= n
               PROVE  Form(i + 1)
    OBVIOUS
  <2> DEFINE j == i + 1
  <2>1. j \in 1..n /\ j - 1 = i /\ i <= n /\ i # n
    BY <1>1
  <2>2. Form(i)
    BY <1>6, <2>1
  <2> HIDE DEF j, K
  <2> USE DEF Form
  <2> SUFFICES ASSUME NEW w \in f[j]
               PROVE  w \in Seq(Char) /\ \E es : All(j, es) /\ slash \o w = Flat(es) \o Sep(j)
    BY DEF j
  <2>3. w \in Printing(elem, j, f[i])
    BY <1>3, <2>1
  <2>4. PICK s \in f[i] : w \in {s \o e \o Sep(j) : e \in ElemStrings(elem[j], FALSE)}
    BY <2>3 DEF Printing, n, slash
  <2>5. PICK e \in ElemStrings(elem[j], FALSE) : w = (s \o e) \o Sep(j)
    BY <2>4
  <2>6. s \in Seq(Char) /\ \E es : All(i, es) /\ slash \o s = Flat(es) \o Sep(i)
    BY <2>2
  <2>7. PICK es : All(i, es) /\ slash \o s = Flat(es) \o Sep(i)
    BY <2>6
  <2>8. Reads(e, elem[j])
    BY <2>1 DEF n
  <2>9. e \in Seq(Char) /\ es \in Seq(Seq(Char)) /\ Len(es) = i
    BY <2>7, <2>8 DEF Reads
  <2> DEFINE fs == Append(es, e)
  <2>10. All(j, fs)
    <3>1. fs \in Seq(Seq(Char)) /\ Len(fs) = j /\ fs[j] = e /\ \A k \in 1..i : fs[k] = es[k]
      BY <2>9 DEF j
    <3> HIDE DEF fs
    <3>2. \A k \in 1..j : Reads(fs[k], elem[k])
      <4> SUFFICES ASSUME NEW k \in 1..j
                   PROVE  Reads(fs[k], elem[k])
        OBVIOUS
      <4>1. CASE k = j
        BY <2>8, <3>1, <4>1
      <4>2. CASE k # j
        <5>1. k \in 1..i
          BY <4>2 DEF j
        <5> QED
          BY <2>7, <3>1, <5>1
      <4> QED
        BY <4>1, <4>2
    <3> QED
      BY <3>1, <3>2
  <2>11. Flat(fs) = Flat(es) \o (slash \o e)
    BY <2>9, AppendSlashed DEF slash
  <2> DEFINE q == Flat(es)
             sep == Sep(j)
  <2>12. q \in Seq(Char)
    <3>1. WithSlashes(es) \in Seq(Seq(Char))
      BY <2>9, WithSlashesIs
    <3> DEFINE parts == WithSlashes(es)
    <3> HIDE DEF parts
    <3>2. FlattenSeq(parts) \in Seq(Char)
      BY <3>1, FlattenCuts DEF parts
    <3> QED
      BY <3>2 DEF parts
  <2>13. sep \in Seq(Char)
    BY <1>4
  <2>14. Sep(i) = slash
    BY <2>1
  <2> DEFINE r == Flat(fs)
  <2>15. r = q \o (slash \o e) /\ slash \o s = q \o slash /\ w = (s \o e) \o sep
    BY <2>5, <2>7, <2>11, <2>14
  <2> HIDE DEF q, sep, r, All, fs
  <2>16. w \in Seq(Char)
    BY <2>6, <2>9, <2>13, <2>15
  <2>17. slash \o w = r \o sep
    <3>1. s \in Seq(Char) /\ e \in Seq(Char) /\ slash \in Seq(Char) /\ sep \in Seq(Char) /\ q \in Seq(Char)
      BY <1>4, <2>6, <2>9, <2>12, <2>13
    <3> DEFINE u == s \o e
    <3>2. u \in Seq(Char) /\ Associates(slash, s, e) /\ Associates(q, slash, e)
      BY <3>1, JoinAssociates
    <3> HIDE DEF u
    <3>3. Associates(slash, u, sep)
      BY <3>1, <3>2, JoinAssociates
    <3>4. slash \o w = (slash \o u) \o sep
      BY <2>15, <3>3 DEF Associates, u
    <3>5. slash \o u = (q \o slash) \o e
      BY <2>15, <3>2 DEF Associates, u
    <3>6. r = (q \o slash) \o e
      BY <2>15, <3>2 DEF Associates
    <3> QED
      BY <3>4, <3>5, <3>6
  <2>18. All(j, fs) /\ slash \o w = Flat(fs) \o Sep(j)
    BY <2>10, <2>17 DEF r, sep
  <2> HIDE DEF Flat, Sep
  <2> QED
    BY <2>16, <2>18
<1> HIDE DEF K
<1>7. n \in K
  BY <1>1, <1>5, <1>6, SetInduction
<1>8. Form(n)
  <2>1. n <= n
    BY <1>1
  <2> QED
    BY <1>7, <2>1 DEF K
<1>9. x \in f[n]
  BY <1>3
<1>10. PICK es : All(n, es) /\ slash \o x = Flat(es) \o Sep(n)
  BY <1>8, <1>9
<1>11. Flat(es) \o <<>> = Flat(es)
  <2>1. WithSlashes(es) \in Seq(Seq(Char))
    BY <1>10, WithSlashesIs
  <2> DEFINE parts == WithSlashes(es)
  <2> HIDE DEF parts
  <2>2. FlattenSeq(parts) \in Seq(Char)
    BY <2>1, FlattenCuts DEF parts
  <2>3. FlattenSeq(parts) \o <<>> = FlattenSeq(parts)
    BY <2>2
  <2> QED
    BY <2>3 DEF parts
<1>12. slash \o x = Flat(es)
  BY <1>10, <1>11
<1> QED
  BY <1>10, <1>12 DEF n, slash

\* What was parsed without an origin is printed back.
LEMMA ParsedPrintsBack ==
  ASSUME NEW elem, IsParsed(elem), \A i \in 1..Len(elem) : IsPlain(elem[i]),
         NEW x \in ToXPath(Path(<<>>, elem), FALSE)
  PROVE  ParsePath(<<"/">> \o x) = Path(<<>>, elem)
<1>1. PICK E : elem \in Seq(E)
  BY DEF IsParsed
<1>2. \A i \in 1..Len(elem) : \A e \in ElemStrings(elem[i], FALSE) : Reads(e, elem[i])
  BY PrintedReads DEF IsParsed
<1>3. CASE elem = <<>>
  <2> DEFINE none == <<>>
             slash == <<"/">>
  <2>1. Len(elem) = 0 /\ none \in Seq(Seq(Char)) /\ Len(none) = 0
    BY <1>3
  <2>2. x = <<>>
    <3>1. \A i \in 1..Len(elem) : \A e \in ElemStrings(elem[i], FALSE) : e \in Seq(Char)
      BY <2>1
    <3>2. PICK f \in [0..Len(elem) -> SUBSET Seq(Char)] :
            ToXPath(Path(<<>>, elem), FALSE) = f[Len(elem)] /\ f[0] = {<<>>}
      BY <1>1, <3>1, PrintedLoop
    <3> QED
      BY <2>1, <3>2
  <2>3. FlattenSeq(WithSlashes(none)) = <<>>
    BY DEF WithSlashes, FlattenSeq
  <2>4. ToPathElems(<<>>) = Path(<<>>, elem)
    <3>1. \A i \in 1..Len(elem) : Reads(none[i], elem[i])
      BY <2>1
    <3> HIDE DEF none
    <3>2. ToPathElems(FlattenSeq(WithSlashes(none))) = Path(<<>>, elem)
      BY <1>1, <2>1, <3>1, ElemsRead
    <3> QED
      BY <2>3, <3>2
  <2>5. Slashed(slash) = slash /\ Slashed(<<>>) = slash
    <3>1. slash # <<>> /\ Last(slash) = "/"
      BY DEF Last
    <3> QED
      BY <3>1 DEF Slashed
  <2>6. ToPathElems(slash) = ToPathElems(<<>>)
    <3> HIDE DEF slash
    <3> QED
      BY <2>5 DEF ToPathElems
  <2>7. slash \in Seq(Char) /\ slash[1] = "/" /\ slash \o <<>> = slash
    BY Chars
  <2>8. ParsePath(slash) = ToPathElems(slash)
    <3> HIDE DEF slash
    <3> QED
      BY <2>7, NoOrigin
  <2> QED
    BY <2>2, <2>4, <2>6, <2>7, <2>8
<1>4. CASE elem # <<>>
  <2>1. PICK es \in Seq(Seq(Char)) :
          /\ Len(es) = Len(elem) /\ \A i \in 1..Len(elem) : Reads(es[i], elem[i])
          /\ <<"/">> \o x = FlattenSeq(WithSlashes(es))
    BY <1>1, <1>2, <1>4, PrintedAre
  <2> DEFINE q == FlattenSeq(WithSlashes(es))
  <2>2. q \in Seq(Char) /\ ToPathElems(q) = Path(<<>>, elem)
    BY <1>1, <2>1, ElemsRead
  <2>3. q # <<>> => q[1] = "/"
    BY StartsWithSlash
  <2> HIDE DEF q
  <2>4. ParsePath(q) = ToPathElems(q)
    BY <2>2, <2>3, NoOrigin
  <2> QED
    BY <2>1, <2>2, <2>4 DEF q
<1> QED
  BY <1>3, <1>4

\* What ParsePath returns has the elements of what it parsed.
LEMMA ParsedPath ==
  ASSUME NEW p \in Seq(Char), ParsePath(p).ok, ParsePath(p).origin = <<>>
  PROVE  \E elem : ParsePath(p) = Path(<<>>, elem) /\ IsParsed(elem)
<1>1. CASE p # <<>> /\ HasOrigin(p)
  <2> DEFINE idx == Min(Positions(p, ":"))
             r == SubSeq(p, idx + 1, Len(p))
             y == SubSeq(p, 1, idx - 1)
             x == ToPathElems(r)
  <2>1. ParsePath(p) = IF x.ok THEN [x EXCEPT !.origin = y] ELSE Malformed
    BY <1>1 DEF ParsePath
  <2>2. idx \in Nat
    <3> DEFINE colon == Positions(p, ":")
    <3>1. colon # {} /\ colon \subseteq Nat
      <4>1. DOMAIN p = 1..Len(p)
        OBVIOUS
      <4> QED
        BY <1>1, <4>1 DEF HasOrigin, Positions
    <3> HIDE DEF colon
    <3>2. Min(colon) \in Nat
      BY <3>1, MinIsLeast
    <3> QED
      BY <3>2 DEF colon
  <2>3. r \in Seq(Char)
    <3> DEFINE a == idx + 1
               b == Len(p)
    <3>1. a \in Nat \ {0} /\ b \in Nat /\ b <= Len(p)
      BY <2>2
    <3> HIDE DEF a, b
    <3>2. SubSeq(p, a, b) \in Seq(Char)
      BY <3>1, SubSeqIs
    <3> QED
      BY <3>2 DEF a, b
  <2> HIDE DEF r, y
  <2>4. x.ok
    BY <2>1 DEF Malformed
  <2>5. PICK elem : x = Path(<<>>, elem) /\ IsParsed(elem)
    BY <2>3, <2>4, ElemsParsed
  <2> DEFINE none == <<>>
  <2> HIDE DEF none
  <2>6. ParsePath(p) = [Path(none, elem) EXCEPT !.origin = y]
    BY <2>1, <2>4, <2>5 DEF none
  <2>7. ParsePath(p) = Path(y, elem)
    BY <2>6, OriginSet
  <2>8. y = <<>>
    BY <2>7 DEF Path
  <2> QED
    BY <2>5, <2>7, <2>8
<1>2. CASE ~(p # <<>> /\ HasOrigin(p))
  <2>1. ParsePath(p) = ToPathElems(p)
    BY <1>2 DEF ParsePath
  <2> QED
    BY <2>1, ElemsParsed
<1> QED
  BY <1>1, <1>2

\* Whatever string is typed, of any length, what ParsePath has made of it is what it makes
\* of every form ToXPath prints of it, but for the keys with brackets and the origins
\* PrintsBack exempts (ParsePath, ToXPath).
THEOREM ParsedComesBack == PathsSpec => []PrintsBack
<1>1. PathsInv => PrintsBack
  <2> SUFFICES ASSUME PathsInv, ParsePath(input).ok, ParsePath(input).origin = <<>>, Printable(ParsePath(input)),
                      NEW x \in ToXPath(ParsePath(input), FALSE)
               PROVE  ParsePath(<<"/">> \o x) = ParsePath(input)
    BY DEF PrintsBack
  <2>1. PICK elem : ParsePath(input) = Path(<<>>, elem) /\ IsParsed(elem)
    BY ParsedPath DEF PathsInv
  <2>2. \A i \in 1..Len(elem) : IsPlain(elem[i])
    <3> DEFINE q == Path(<<>>, elem)
    <3>1. q.elem = elem
      BY DEF Path
    <3> HIDE DEF q
    <3>2. DOMAIN elem = 1..Len(elem)
      BY <2>1 DEF IsParsed
    <3>3. Printable(q)
      BY <2>1 DEF q
    <3> QED
      BY <3>1, <3>2, <3>3 DEF Printable, IsPlain
  <2>3. x \in ToXPath(Path(<<>>, elem), FALSE)
    BY <2>1
  <2>4. ParsePath(<<"/">> \o x) = Path(<<>>, elem)
    BY <2>1, <2>2, <2>3, ParsedPrintsBack
  <2> QED
    BY <2>1, <2>4
<1> QED
  BY <1>1, PathsAlways, PTL

-----------------------------------------------------------------------------
(* Brackets that alternate *)

\* The places of brackets that are not escaped
Brackets(s) == {i \in DOMAIN s : Bracket(s, i)}

\* How many there are up to a place
UpTo(s, i) == Cardinality({j \in Brackets(s) : j <= i})

\* A key is open at place i.
Odd(s, i) == UpTo(s, i) % 2 = 1

\* An opening bracket is followed by a closing one and no other.
Alternates(s, b) == \A i \in 1..b : Bracket(s, i) => (s[i] = "[" <=> Odd(s, i))

\* Each bracket changes it.
LEMMA UpToIs ==
  ASSUME NEW s \in Seq(Char)
  PROVE  /\ \A i \in 0..Len(s) : UpTo(s, i) \in Nat
         /\ ~Odd(s, 0) /\ UpTo(s, Len(s)) = Cardinality(Brackets(s))
         /\ \A i \in 1..Len(s) : /\ Bracket(s, i) => (Odd(s, i) <=> ~Odd(s, i - 1))
                                 /\ ~Bracket(s, i) => (Odd(s, i) <=> Odd(s, i - 1))
<1> DEFINE n == Len(s)
           B == Brackets(s)
           Seen(i) == {j \in B : j <= i}
<1>1. n \in Nat /\ B = {i \in 1..n : Bracket(s, i)}
  BY DEF Brackets
<1> HIDE DEF n, B
<1>2. ASSUME NEW i \in 0..n
      PROVE  IsFiniteSet(Seen(i)) /\ Cardinality(Seen(i)) \in Nat
  <2> DEFINE o == 1
  <2>1. o \in Int /\ n \in Int
    BY <1>1
  <2> HIDE DEF o
  <2>2. IsFiniteSet(o..n)
    BY <2>1, FS_Interval
  <2>3. Seen(i) \subseteq o..n
    BY <1>1 DEF o
  <2> HIDE DEF Seen
  <2>4. IsFiniteSet(Seen(i))
    BY <2>2, <2>3, FS_Subset
  <2> QED
    BY <2>4, FS_CardinalityType
<1>3. \A i \in 0..n : UpTo(s, i) = Cardinality(Seen(i))
  BY DEF UpTo, B
<1>4. Seen(0) = {} /\ Seen(n) = B
  BY <1>1
<1>5. UpTo(s, 0) = 0 /\ UpTo(s, n) = Cardinality(B)
  <2>1. 0 \in 0..n /\ n \in 0..n
    BY <1>1
  <2> HIDE DEF Seen
  <2> QED
    BY <1>3, <1>4, <2>1, FS_EmptySet
<1>6. ASSUME NEW i \in 1..n
      PROVE  UpTo(s, i) = UpTo(s, i - 1) + IF Bracket(s, i) THEN 1 ELSE 0
  <2>1. i \in 0..n /\ i - 1 \in 0..n
    BY <1>1
  <2>2. CASE Bracket(s, i)
    <3>1. i \in B /\ i \notin Seen(i - 1)
      BY <1>1, <2>2
    <3>2. Seen(i) = Seen(i - 1) \cup {i}
      <4>1. \A j \in B : j <= i <=> j <= i - 1 \/ j = i
        BY <1>1
      <4> QED
        BY <3>1, <4>1
    <3>3. IsFiniteSet(Seen(i - 1))
      BY <1>2, <2>1
    <3> DEFINE T == Seen(i - 1)
    <3> HIDE DEF T
    <3>4. Cardinality(T \cup {i}) = Cardinality(T) + 1
      BY <3>1, <3>3, FS_AddElement DEF T
    <3> HIDE DEF Seen
    <3>5. UpTo(s, i) = UpTo(s, i - 1) + 1
      BY <1>3, <2>1, <3>2, <3>4 DEF T
    <3> QED
      BY <2>2, <3>5
  <2>3. CASE ~Bracket(s, i)
    <3>1. Seen(i) = Seen(i - 1)
      <4>1. \A j \in B : j # i /\ (j <= i <=> j <= i - 1)
        BY <1>1, <2>3
      <4> QED
        BY <4>1
    <3> HIDE DEF Seen
    <3>2. UpTo(s, i) = UpTo(s, i - 1) /\ UpTo(s, i - 1) \in Nat
      BY <1>2, <1>3, <2>1, <3>1
    <3> QED
      BY <2>3, <3>2
  <2> QED
    BY <2>2, <2>3
<1>7. \A i \in 0..n : UpTo(s, i) \in Nat
  <2> HIDE DEF Seen
  <2> QED
    BY <1>2, <1>3
<1>8. ASSUME NEW i \in 1..n
      PROVE  /\ Bracket(s, i) => (Odd(s, i) <=> ~Odd(s, i - 1))
             /\ ~Bracket(s, i) => (Odd(s, i) <=> Odd(s, i - 1))
  <2> DEFINE u == UpTo(s, i - 1)
             v == UpTo(s, i)
  <2>1. u \in Nat /\ v = u + IF Bracket(s, i) THEN 1 ELSE 0
    <3>1. i - 1 \in 0..n
      BY <1>1
    <3> QED
      BY <1>6, <1>7, <3>1
  <2> HIDE DEF u, v
  <2>2. (u + 1) % 2 = 1 <=> ~(u % 2 = 1)
    BY <2>1
  <2>3. Bracket(s, i) => v = u + 1
    BY <2>1
  <2>4. ~Bracket(s, i) => v = u
    BY <2>1
  <2> QED
    BY <2>2, <2>3, <2>4 DEF Odd, u, v
<1>9. ~Odd(s, 0)
  BY <1>5 DEF Odd
<1> QED
  BY <1>5, <1>7, <1>8, <1>9 DEF n, B

\* Between brackets nothing changes.
LEMMA OddStays ==
  ASSUME NEW s \in Seq(Char), NEW a \in 0..Len(s), NEW b \in 0..Len(s), a <= b,
         \A j \in (a + 1)..b : ~Bracket(s, j)
  PROVE  Odd(s, a) <=> Odd(s, b)
<1> DEFINE n == Len(s)
           K == {d \in Nat : a + d <= b => (Odd(s, a) <=> Odd(s, a + d))}
<1>1. n \in Nat /\ a \in 0..n /\ b \in 0..n
  OBVIOUS
<1>2. 0 \in K
  <2>1. a + 0 = a
    OBVIOUS
  <2> QED
    BY <2>1
<1>3. ASSUME NEW d \in Nat, d \in K
      PROVE  d + 1 \in K
  <2> SUFFICES ASSUME a + (d + 1) <= b
               PROVE  Odd(s, a) <=> Odd(s, a + (d + 1))
    OBVIOUS
  <2> DEFINE j == a + (d + 1)
  <2>1. j \in 1..n /\ j - 1 = a + d /\ j \in (a + 1)..b /\ a + d <= b
    BY <1>1
  <2>2. Odd(s, a) <=> Odd(s, a + d)
    BY <1>3, <2>1
  <2>3. ~Bracket(s, j)
    BY <2>1
  <2> HIDE DEF j
  <2>4. Odd(s, j) <=> Odd(s, j - 1)
    BY <2>1, <2>3, UpToIs DEF n
  <2> QED
    BY <2>1, <2>2, <2>4 DEF j
<1> DEFINE e == b - a
<1>4. e \in Nat /\ a + e = b
  BY <1>1
<1> HIDE DEF e, K
<1>5. e \in K
  BY <1>2, <1>3, <1>4, SetInduction
<1>6. a + e <= b
  BY <1>1, <1>4
<1>7. Odd(s, a) <=> Odd(s, a + e)
  BY <1>5, <1>6 DEF K
<1> QED
  BY <1>4, <1>7

\* Two brackets with none between them
Adjacent(s, i, k) ==
  i < k /\ Bracket(s, i) /\ Bracket(s, k) /\ \A j \in (i + 1)..(k - 1) : ~Bracket(s, j)

\* What is between two brackets is a key and a value.
GoodKey(s, i, k) == KeyOf(SubSeq(s, i + 1, k - 1)).ok

\* Every key from place a to place b holds a key and a value.
GoodKeys(s, a, b) == \A i, k \in a..b : Adjacent(s, i, k) /\ s[i] = "[" => GoodKey(s, i, k)

\* KeyOf takes a text with an equal sign that has something before it and after it.
LEMMA KeyOfOk ==
  ASSUME NEW t \in Seq(Char)
  PROVE  KeyOf(t).ok <=> \E e \in 2..(Len(t) - 1) : t[e] = "=" /\ \A d \in 1..(e - 1) : t[d] # "="
<1> DEFINE eq == Positions(t, "=")
           n == Len(t)
           m == Min(eq)
           kv == [ok |-> TRUE, key |-> Unescape(SubSeq(t, 1, m - 1)), value |-> Unescape(SubSeq(t, m + 1, n))]
<1>1. n \in Nat /\ eq = {i \in 1..n : t[i] = "="}
  BY DEF Positions
<1>2. KeyOf(t) = IF eq = {} \/ m \in {1, n} THEN Malformed ELSE kv
  BY DEF KeyOf
<1>3. kv.ok /\ ~Malformed.ok
  BY DEF Malformed
<1> HIDE DEF kv
<1>4. KeyOf(t).ok <=> ~(eq = {} \/ m \in {1, n})
  BY <1>2, <1>3
<1> HIDE DEF eq
<1>5. eq # {} => m \in eq /\ m \in Nat /\ \A i \in eq : m <= i
  <2>1. eq \subseteq Nat
    BY <1>1
  <2> QED
    BY <2>1, MinIsLeast
<1> HIDE DEF m, n
<1>6. ASSUME eq # {}, m \notin {1, n}
      PROVE  \E e \in 2..(n - 1) : t[e] = "=" /\ \A d \in 1..(e - 1) : t[d] # "="
  <2>1. m \in 2..(n - 1) /\ t[m] = "="
    BY <1>1, <1>5, <1>6
  <2>2. \A d \in 1..(m - 1) : t[d] # "="
    <3> SUFFICES ASSUME NEW d \in 1..(m - 1), t[d] = "="
                 PROVE  FALSE
      OBVIOUS
    <3>1. d \in 1..n /\ ~(m <= d)
      BY <1>1, <2>1
    <3> QED
      BY <1>1, <1>5, <1>6, <3>1
  <2> QED
    BY <2>1, <2>2
<1>7. ASSUME NEW e \in 2..(n - 1), t[e] = "=", \A d \in 1..(e - 1) : t[d] # "="
      PROVE  eq # {} /\ m \notin {1, n}
  <2>1. e \in eq
    BY <1>1, <1>7
  <2>2. m \in eq /\ m \in Nat /\ m <= e /\ m \in 1..n /\ t[m] = "="
    BY <1>1, <1>5, <2>1
  <2>3. m = e
    <3> SUFFICES ASSUME m # e
                 PROVE  FALSE
      OBVIOUS
    <3>1. m \in 1..(e - 1)
      BY <1>1, <2>2
    <3> QED
      BY <1>7, <2>2, <3>1
  <2> QED
    BY <1>1, <2>1, <2>3
<1> QED
  BY <1>4, <1>6, <1>7 DEF n

\* What a turn does with a key
LEMMA KeysTurnIs ==
  ASSUME NEW s \in Seq(Char), NEW a \in KeysStates, NEW i \in 1..Len(s)
  PROVE  LET b == KeysTurn(s, a, i) IN
         /\ ~a.ok \/ ~Bracket(s, i) => b = a
         /\ a.ok /\ Bracket(s, i) /\ s[i] = "[" /\ ~a.inKey => b.ok /\ b.inKey /\ b.start = i + 1
         /\ a.ok /\ Bracket(s, i) /\ s[i] # "[" /\ a.inKey =>
              /\ b.ok <=> KeyOf(SubSeq(s, a.start, i - 1)).ok
              /\ b.ok => ~b.inKey
<1> DEFINE b == KeysTurn(s, a, i)
           kv == KeyOf(SubSeq(s, a.start, i - 1))
<1>1. CASE ~a.ok \/ ~Bracket(s, i)
  <2>1. b = a
    BY <1>1 DEF KeysTurn
  <2> QED
    BY <1>1, <2>1
<1>2. CASE a.ok /\ Bracket(s, i) /\ s[i] = "["
  <2>1. b = IF a.inKey THEN [a EXCEPT !.ok = FALSE] ELSE [a EXCEPT !.inKey = TRUE, !.start = i + 1]
    BY <1>2 DEF KeysTurn
  <2> DEFINE d == i + 1
  <2> HIDE DEF b, d
  <2>2. ~a.inKey => b.ok /\ b.inKey /\ b.start = d
    BY <1>2, <2>1 DEF KeysStates, d
  <2> QED
    BY <1>2, <2>2 DEF b, d
<1>3. CASE a.ok /\ Bracket(s, i) /\ s[i] # "["
  <2>1. b = IF ~a.inKey \/ ~kv.ok THEN [a EXCEPT !.ok = FALSE]
            ELSE [a EXCEPT !.inKey = FALSE, !.kvs = With(a.kvs, kv.key, kv.value)]
    BY <1>3 DEF KeysTurn
  <2> HIDE DEF b, kv
  <2>2. CASE ~a.inKey
    BY <1>3, <2>2 DEF b
  <2>3. CASE a.inKey /\ ~kv.ok
    <3>1. ~b.ok
      BY <2>1, <2>3 DEF KeysStates
    <3> QED
      BY <1>3, <2>3, <3>1 DEF b, kv
  <2>4. CASE a.inKey /\ kv.ok
    <3>1. b.ok /\ ~b.inKey
      BY <1>3, <2>1, <2>4 DEF KeysStates
    <3> QED
      BY <1>3, <2>4, <3>1 DEF b, kv
  <2> QED
    BY <2>2, <2>3, <2>4
<1> QED
  BY <1>1, <1>2, <1>3

\* Between brackets nothing opens or closes.
LEMMA FlipsStay ==
  ASSUME NEW s \in Seq(Char), NEW h, Flips(s, h), NEW a \in 0..Len(s), NEW b \in 0..Len(s), a <= b,
         \A j \in (a + 1)..b : ~Bracket(s, j)
  PROVE  h[a] = h[b]
<1> DEFINE n == Len(s)
           K == {d \in Nat : a + d <= b => h[a] = h[a + d]}
<1>1. n \in Nat /\ a \in 0..n /\ b \in 0..n
  OBVIOUS
<1>2. 0 \in K
  <2>1. a + 0 = a
    OBVIOUS
  <2> QED
    BY <2>1
<1>3. ASSUME NEW d \in Nat, d \in K
      PROVE  d + 1 \in K
  <2> SUFFICES ASSUME a + (d + 1) <= b
               PROVE  h[a] = h[a + (d + 1)]
    OBVIOUS
  <2> DEFINE j == a + (d + 1)
  <2>1. j \in 1..n /\ j - 1 = a + d /\ j \in (a + 1)..b /\ a + d <= b
    BY <1>1
  <2>2. h[a] = h[a + d]
    BY <1>3, <2>1
  <2>3. ~Bracket(s, j)
    BY <2>1
  <2> HIDE DEF j
  <2>4. h[j] = h[j - 1]
    BY <2>1, <2>3 DEF Flips
  <2> QED
    BY <2>1, <2>2, <2>4 DEF j
<1> DEFINE e == b - a
<1>4. e \in Nat /\ a + e = b
  BY <1>1
<1> HIDE DEF e, K
<1>5. e \in K
  BY <1>2, <1>3, <1>4, SetInduction
<1>6. a + e <= b
  BY <1>1, <1>4
<1>7. h[a] = h[a + e]
  BY <1>5, <1>6 DEF K
<1> QED
  BY <1>4, <1>7

\* From where an opening bracket is, no bracket but a closing one is next.
LEMMA OpenersClose ==
  ASSUME NEW s \in Seq(Char), NEW h, Flips(s, h), NEW i \in 1..Len(s), NEW k \in 1..Len(s),
         Adjacent(s, i, k), s[i] = "["
  PROVE  s[k] = "]"
<1>1. /\ i < k /\ Bracket(s, i) /\ Bracket(s, k) /\ \A j \in (i + 1)..(k - 1) : ~Bracket(s, j)
      /\ h \in [0..Len(s) -> BOOLEAN] /\ "[" # "]"
  BY DEF Adjacent, Flips
<1>2. h[i - 1] = (s[i] = "]") /\ h[i] = ~h[i - 1] /\ h[k - 1] = (s[k] = "]")
  BY <1>1 DEF Flips
<1>3. i - 1 \in 0..Len(s) /\ i \in 0..Len(s) /\ k - 1 \in 0..Len(s) /\ i <= k - 1
  BY <1>1
<1>4. h[i] = TRUE
  BY <1>1, <1>2
<1>5. h[i] = h[k - 1]
  BY <1>1, <1>3, FlipsStay
<1> QED
  BY <1>2, <1>4, <1>5

\* The scan of keys has an open one after place i, from the bracket before its start.
KeyOpen(s, c, i) ==
  /\ c.start \in 2..(i + 1) /\ Bracket(s, c.start - 1) /\ s[c.start - 1] = "["
  /\ \A j \in c.start..i : ~Bracket(s, j)

\* What the scan of keys has found after place i
KeysSoFar(s, h, c, i) ==
  /\ c.ok <=> GoodKeys(s, 1, i)
  /\ c.ok => c.inKey = h[i]
  /\ c.ok /\ h[i] => KeyOpen(s, c, i)

\* A place without bracket changes nothing.
LEMMA KeysPass ==
  ASSUME NEW s \in Seq(Char), NEW h, Flips(s, h), NEW i \in 1..Len(s), NEW c \in KeysStates,
         KeysSoFar(s, h, c, i - 1), ~Bracket(s, i)
  PROVE  KeysSoFar(s, h, c, i)
<1>1. h[i] = h[i - 1]
  BY DEF Flips
<1>2. GoodKeys(s, 1, i) <=> GoodKeys(s, 1, i - 1)
  <2>1. ASSUME GoodKeys(s, 1, i)
        PROVE  GoodKeys(s, 1, i - 1)
    <3>1. \A x \in 1..(i - 1) : x \in 1..i
      OBVIOUS
    <3> QED
      BY <2>1, <3>1 DEF GoodKeys
  <2>2. ASSUME GoodKeys(s, 1, i - 1)
        PROVE  GoodKeys(s, 1, i)
    <3>1. \A x \in 1..i : x # i => x \in 1..(i - 1)
      OBVIOUS
    <3>2. \A x, k \in 1..i : Adjacent(s, x, k) => x # i /\ k # i
      BY DEF Adjacent
    <3> QED
      BY <2>2, <3>1, <3>2 DEF GoodKeys
  <2> QED
    BY <2>1, <2>2
<1>3. ASSUME KeyOpen(s, c, i - 1)
      PROVE  KeyOpen(s, c, i)
  <2>1. c.start \in 2..(i - 1 + 1) /\ c.start \in Nat
    BY <1>3 DEF KeyOpen
  <2>2. c.start \in 2..(i + 1) /\ \A j \in c.start..i : j # i => j \in c.start..(i - 1)
    BY <2>1
  <2> QED
    BY <1>3, <2>2 DEF KeyOpen
<1> QED
  BY <1>1, <1>2, <1>3 DEF KeysSoFar

\* Nothing that was wrong comes right.
LEMMA GoodKeysGrow ==
  ASSUME NEW s \in Seq(Char), NEW i \in 1..Len(s), GoodKeys(s, 1, i)
  PROVE  GoodKeys(s, 1, i - 1)
<1>1. \A x \in 1..(i - 1) : x \in 1..i
  OBVIOUS
<1> QED
  BY <1>1 DEF GoodKeys

\* An opening bracket makes no key.
LEMMA KeysOpen ==
  ASSUME NEW s \in Seq(Char), NEW h, Flips(s, h), NEW i \in 1..Len(s), NEW c \in KeysStates,
         KeysSoFar(s, h, c, i - 1), c.ok, Bracket(s, i), s[i] = "["
  PROVE  KeysSoFar(s, h, KeysTurn(s, c, i), i)
<1> DEFINE b == KeysTurn(s, c, i)
<1>1. h[i - 1] = FALSE /\ h[i] = TRUE
  <2>1. h[i - 1] = (s[i] = "]") /\ h[i] = ~h[i - 1] /\ "[" # "]"
    BY DEF Flips
  <2> QED
    BY <2>1
<1>2. c.inKey = FALSE /\ GoodKeys(s, 1, i - 1)
  BY <1>1 DEF KeysSoFar
<1>3. b.ok /\ b.inKey /\ b.start = i + 1
  BY <1>2, KeysTurnIs
<1>4. b.inKey = TRUE
  <2>1. b \in KeysStates
    BY KeysTurnStays
  <2> HIDE DEF b
  <2> QED
    BY <1>3, <2>1 DEF KeysStates
<1> HIDE DEF b
<1>5. GoodKeys(s, 1, i)
  <2>1. ASSUME NEW x \in 1..i, NEW k \in 1..i, Adjacent(s, x, k), s[x] = "["
        PROVE  GoodKey(s, x, k)
    <3>1. x \in 1..Len(s) /\ k \in 1..Len(s) /\ x < k
      BY <2>1 DEF Adjacent
    <3>2. s[k] = "]"
      BY <2>1, <3>1, OpenersClose
    <3>3. k # i
      BY <3>2
    <3>4. k \in 1..(i - 1) /\ x \in 1..(i - 1)
      BY <3>1, <3>3
    <3> QED
      BY <1>2, <2>1, <3>4 DEF GoodKeys
  <2> QED
    BY <2>1 DEF GoodKeys
<1>6. KeyOpen(s, b, i)
  <2>1. (i + 1) - 1 = i /\ i + 1 \in 2..(i + 1) /\ (i + 1)..i = {}
    OBVIOUS
  <2> QED
    BY <1>3, <2>1 DEF KeyOpen
<1> QED
  BY <1>1, <1>3, <1>4, <1>5, <1>6 DEF KeysSoFar, b

\* A closing bracket makes one, with the bracket that was open.
LEMMA KeysClose ==
  ASSUME NEW s \in Seq(Char), NEW h, Flips(s, h), NEW i \in 1..Len(s), NEW c \in KeysStates,
         KeysSoFar(s, h, c, i - 1), c.ok, Bracket(s, i), s[i] # "["
  PROVE  KeysSoFar(s, h, KeysTurn(s, c, i), i)
<1> DEFINE b == KeysTurn(s, c, i)
           x == c.start - 1
<1>1. h[i - 1] = TRUE /\ h[i] = FALSE
  <2>1. h[i - 1] = (s[i] = "]") /\ h[i] = ~h[i - 1]
    BY DEF Flips
  <2>2. s[i] = "]"
    BY DEF Bracket
  <2> QED
    BY <2>1, <2>2
<1>2. c.inKey = TRUE /\ GoodKeys(s, 1, i - 1) /\ KeyOpen(s, c, i - 1)
  BY <1>1 DEF KeysSoFar
<1>3. c.start \in 2..(i - 1 + 1) /\ Bracket(s, x) /\ s[x] = "[" /\ \A j \in c.start..(i - 1) : ~Bracket(s, j)
  BY <1>2 DEF KeyOpen
<1>4. x \in 1..(i - 1) /\ x + 1 = c.start /\ x \in 1..i
  BY <1>3
<1>5. (b.ok <=> KeyOf(SubSeq(s, c.start, i - 1)).ok) /\ (b.ok => ~b.inKey)
  BY <1>2, KeysTurnIs
<1>6. b.ok => b.inKey = FALSE
  <2>1. b \in KeysStates
    BY KeysTurnStays
  <2> HIDE DEF b
  <2> QED
    BY <1>5, <2>1 DEF KeysStates
<1> HIDE DEF b, x
<1>7. b.ok <=> GoodKey(s, x, i)
  BY <1>4, <1>5 DEF GoodKey
<1>8. Adjacent(s, x, i)
  BY <1>3, <1>4 DEF Adjacent
<1>9. ASSUME GoodKeys(s, 1, i)
      PROVE  GoodKey(s, x, i)
  <2>1. i \in 1..i
    OBVIOUS
  <2> QED
    BY <1>3, <1>4, <1>8, <1>9, <2>1 DEF GoodKeys
<1>10. ASSUME GoodKey(s, x, i)
       PROVE  GoodKeys(s, 1, i)
  <2>1. ASSUME NEW y \in 1..i, NEW k \in 1..i, Adjacent(s, y, k), s[y] = "["
        PROVE  GoodKey(s, y, k)
    <3>1. y < k /\ Bracket(s, y) /\ \A j \in (y + 1)..(k - 1) : ~Bracket(s, j)
      BY <2>1 DEF Adjacent
    <3>2. CASE k = i
      <4>1. ~(y < x)
        <5>1. y < x => x \in (y + 1)..(i - 1)
          BY <1>4
        <5> QED
          BY <1>3, <3>1, <3>2, <5>1
      <4>2. ~(x < y)
        <5>1. x < y => y \in c.start..(i - 1)
          BY <1>4, <3>1, <3>2
        <5> QED
          BY <1>3, <3>1, <5>1
      <4>3. y = x
        BY <1>4, <4>1, <4>2
      <4> QED
        BY <1>10, <3>2, <4>3
    <3>3. CASE k # i
      <4>1. k \in 1..(i - 1) /\ y \in 1..(i - 1)
        BY <3>1, <3>3
      <4> QED
        BY <1>2, <2>1, <4>1 DEF GoodKeys
    <3> QED
      BY <3>2, <3>3
  <2> QED
    BY <2>1 DEF GoodKeys
<1> QED
  BY <1>1, <1>6, <1>7, <1>9, <1>10 DEF KeysSoFar, b

\* One turn
LEMMA KeysStep ==
  ASSUME NEW s \in Seq(Char), NEW h, Flips(s, h), NEW i \in 1..Len(s), NEW c \in KeysStates,
         KeysSoFar(s, h, c, i - 1)
  PROVE  KeysSoFar(s, h, KeysTurn(s, c, i), i)
<1> DEFINE b == KeysTurn(s, c, i)
<1>1. CASE ~Bracket(s, i)
  <2>1. b = c
    BY <1>1, KeysTurnIs
  <2>2. KeysSoFar(s, h, c, i)
    BY <1>1, KeysPass
  <2> QED
    BY <2>1, <2>2
<1>2. CASE ~c.ok
  <2>1. b = c
    BY <1>2, KeysTurnIs
  <2>2. ~GoodKeys(s, 1, i)
    BY <1>2, GoodKeysGrow DEF KeysSoFar
  <2>3. KeysSoFar(s, h, c, i)
    BY <1>2, <2>2 DEF KeysSoFar
  <2> QED
    BY <2>1, <2>3
<1>3. CASE c.ok /\ Bracket(s, i) /\ s[i] = "["
  BY <1>3, KeysOpen
<1>4. CASE c.ok /\ Bracket(s, i) /\ s[i] # "["
  BY <1>4, KeysClose
<1> QED
  BY <1>1, <1>2, <1>3, <1>4

\* A string whose brackets open and close in turn is taken for keys exactly when
\* every key in it holds a key and a value.
LEMMA KeysTaken ==
  ASSUME NEW s \in Seq(Char), NEW h, Flips(s, h), ~h[Len(s)]
  PROVE  ParseXPathKeys(s).ok <=> GoodKeys(s, 1, Len(s))
<1> DEFINE n == Len(s)
<1>1. PICK f \in [0..n -> KeysStates] :
        /\ ScanKeys(s) = f[n]
        /\ f[0] = [ok |-> TRUE, inKey |-> FALSE, start |-> 1, kvs |-> NoKeys]
        /\ \A i \in 1..n : f[i] = KeysTurn(s, f[i - 1], i)
  BY KeysLoop
<1>2. n \in Nat
  OBVIOUS
<1>3. h \in [0..n -> BOOLEAN] /\ h[0] = FALSE
  BY DEF Flips
<1> DEFINE K == {i \in Nat : i <= n => KeysSoFar(s, h, f[i], i)}
<1>4. 0 \in K
  <2>1. GoodKeys(s, 1, 0)
    BY DEF GoodKeys
  <2>2. f[0].ok /\ f[0].inKey = FALSE
    BY <1>1
  <2> QED
    BY <1>3, <2>1, <2>2 DEF KeysSoFar
<1>5. ASSUME NEW i \in Nat, i \in K
      PROVE  i + 1 \in K
  <2> SUFFICES ASSUME i + 1 <= n
               PROVE  KeysSoFar(s, h, f[i + 1], i + 1)
    OBVIOUS
  <2> DEFINE k == i + 1
  <2>1. k \in 1..n /\ k - 1 = i /\ i \in 0..n /\ i <= n
    BY <1>2
  <2>2. KeysSoFar(s, h, f[i], i) /\ f[i] \in KeysStates /\ f[k] = KeysTurn(s, f[i], k)
    BY <1>1, <1>5, <2>1
  <2> DEFINE c == f[i]
  <2> HIDE DEF k, c
  <2>3. KeysSoFar(s, h, c, k - 1) /\ c \in KeysStates
    BY <2>1, <2>2 DEF c
  <2>4. k \in 1..Len(s)
    BY <2>1
  <2>5. KeysSoFar(s, h, KeysTurn(s, c, k), k)
    BY <2>3, <2>4, KeysStep
  <2> QED
    BY <2>2, <2>5 DEF k, c
<1> HIDE DEF K
<1>6. n \in K
  BY <1>2, <1>4, <1>5, SetInduction
<1> DEFINE e == f[n]
<1>7. KeysSoFar(s, h, e, n)
  BY <1>2, <1>6 DEF K
<1>8. ParseXPathKeys(s) = IF e.ok /\ ~e.inKey THEN [ok |-> TRUE, kvs |-> e.kvs] ELSE Malformed
  BY <1>1 DEF ParseXPathKeys
<1> HIDE DEF e, n
<1>9. e.ok => ~e.inKey
  BY <1>7 DEF KeysSoFar, n
<1>10. ParseXPathKeys(s).ok <=> e.ok
  <2>1. CASE e.ok
    <3>1. ParseXPathKeys(s) = [ok |-> TRUE, kvs |-> e.kvs]
      BY <1>8, <1>9, <2>1
    <3> QED
      BY <2>1, <3>1
  <2>2. CASE ~e.ok
    <3>1. ParseXPathKeys(s) = Malformed
      BY <1>8, <2>2
    <3> QED
      BY <2>2, <3>1 DEF Malformed
  <2> QED
    BY <2>1, <2>2
<1> QED
  BY <1>7, <1>10 DEF KeysSoFar, n

\* A part of a string from where no backslash escapes
IsCut(t, s, a, b) ==
  /\ a \in 1..Len(s) /\ b \in a..Len(s) /\ (a > 1 => s[a - 1] # "\\")
  /\ t = SubSeq(s, a, b)

\* The brackets and keys of the part are those of the string.
LEMMA CutIs ==
  ASSUME NEW s \in Seq(Char), NEW t, NEW a, NEW b, IsCut(t, s, a, b)
  PROVE  /\ t \in Seq(Char) /\ t # <<>> /\ Len(t) = b + 1 - a
         /\ \A j \in 1..Len(t) : t[j] = s[a - 1 + j] /\ (Bracket(t, j) <=> Bracket(s, a - 1 + j))
         /\ GoodKeys(t, 1, Len(t)) <=> GoodKeys(s, a, b)
<1> DEFINE n == Len(s)
           l == b + 1 - a
           z == a - 1
<1>1. a \in 1..n /\ b \in a..n /\ (a > 1 => s[z] # "\\") /\ t = SubSeq(s, a, b) /\ n \in Nat
  BY DEF IsCut
<1>2. l \in Nat /\ l > 0 /\ z \in Nat /\ z + 1 = a /\ z + l = b /\ a \in Nat \ {0} /\ b \in Nat /\ b <= Len(s) /\ a <= b + 1
  BY <1>1
<1>3. /\ t \in Seq(Char) /\ Len(t) = b + 1 - a
      /\ \A j \in 1..(b + 1 - a) : t[j] = s[a + j - 1]
  BY <1>1, <1>2, SubSeqIs
<1>4. t # <<>>
  BY <1>2, <1>3
<1>5. \A j \in 1..l : t[j] = s[z + j]
  <2>1. \A j \in 1..l : a + j - 1 = z + j
    BY <1>2
  <2> QED
    BY <1>3, <2>1
<1>6. Len(t) = l
  BY <1>3
<1> HIDE DEF l, z, n
<1>7. \A j \in 1..l : Bracket(t, j) <=> Bracket(s, z + j)
  <2> SUFFICES ASSUME NEW j \in 1..l
               PROVE  Bracket(t, j) <=> Bracket(s, z + j)
    OBVIOUS
  <2>1. t[j] = s[z + j]
    BY <1>5
  <2>2. CASE j = 1
    <3>1. z + j = a /\ (a > 1 => s[a - 1] # "\\") /\ a - 1 = z
      BY <1>1, <1>2, <2>2
    <3> QED
      BY <2>1, <2>2, <3>1 DEF Bracket
  <2>3. CASE j # 1
    <3>1. j - 1 \in 1..l /\ z + (j - 1) = (z + j) - 1 /\ j > 1 /\ z + j > 1
      BY <1>2, <2>3
    <3>2. t[j - 1] = s[(z + j) - 1]
      BY <1>5, <3>1
    <3> QED
      BY <2>1, <3>1, <3>2 DEF Bracket
  <2> QED
    BY <2>2, <2>3
<1>8. \A i, k \in 1..l : Adjacent(t, i, k) <=> Adjacent(s, z + i, z + k)
  <2> SUFFICES ASSUME NEW i \in 1..l, NEW k \in 1..l
               PROVE  Adjacent(t, i, k) <=> Adjacent(s, z + i, z + k)
    OBVIOUS
  <2> DEFINE x == z + i
             y == z + k
             None(r, p, q) == \A j \in (p + 1)..(q - 1) : ~Bracket(r, j)
  <2>1. i < k <=> x < y
    BY <1>2
  <2>2. (Bracket(t, i) <=> Bracket(s, z + i)) /\ (Bracket(t, k) <=> Bracket(s, z + k))
    BY <1>7
  <2>3. ASSUME \A j \in (i + 1)..(k - 1) : ~Bracket(t, j)
        PROVE  \A j \in (x + 1)..(y - 1) : ~Bracket(s, j)
    <3> SUFFICES ASSUME NEW j \in (x + 1)..(y - 1)
                 PROVE  ~Bracket(s, j)
      OBVIOUS
    <3>1. j - z \in (i + 1)..(k - 1) /\ j - z \in 1..l /\ z + (j - z) = j
      BY <1>2
    <3> QED
      BY <1>7, <2>3, <3>1
  <2>4. ASSUME \A j \in (x + 1)..(y - 1) : ~Bracket(s, j)
        PROVE  \A j \in (i + 1)..(k - 1) : ~Bracket(t, j)
    <3> SUFFICES ASSUME NEW j \in (i + 1)..(k - 1)
                 PROVE  ~Bracket(t, j)
      OBVIOUS
    <3>1. z + j \in (x + 1)..(y - 1) /\ j \in 1..l
      BY <1>2
    <3> QED
      BY <1>7, <2>4, <3>1
  <2>5. None(t, i, k) <=> None(s, x, y)
    BY <1>2, <2>3, <2>4
  <2>6. /\ Adjacent(t, i, k) <=> i < k /\ Bracket(t, i) /\ Bracket(t, k) /\ None(t, i, k)
        /\ Adjacent(s, x, y) <=> x < y /\ Bracket(s, x) /\ Bracket(s, y) /\ None(s, x, y)
    <3> HIDE DEF x, y
    <3> QED
      BY DEF Adjacent
  <2> HIDE DEF None
  <2> QED
    BY <2>1, <2>2, <2>5, <2>6
<1>9. ASSUME NEW i \in 1..l, NEW k \in 1..l, i < k
      PROVE  GoodKey(t, i, k) <=> GoodKey(s, z + i, z + k)
  <2> DEFINE x == z + i
             y == z + k
             u == SubSeq(t, i + 1, k - 1)
             v == SubSeq(s, x + 1, y - 1)
             m == k - 1 - i
  <2>1. /\ i + 1 \in Nat \ {0} /\ k - 1 \in Nat /\ k - 1 <= Len(t) /\ i + 1 <= k - 1 + 1
        /\ m \in Nat /\ (k - 1) + 1 - (i + 1) = m
    BY <1>2, <1>6, <1>9
  <2>2. /\ x + 1 \in Nat \ {0} /\ y - 1 \in Nat /\ y - 1 <= Len(s) /\ x + 1 <= y - 1 + 1
        /\ (y - 1) + 1 - (x + 1) = m
    BY <1>2, <1>9
  <2>3. u \in Seq(Char) /\ Len(u) = (k - 1) + 1 - (i + 1)
        /\ \A j \in 1..((k - 1) + 1 - (i + 1)) : u[j] = t[(i + 1) + j - 1]
    BY <1>3, <2>1, SubSeqIs
  <2>4. v \in Seq(Char) /\ Len(v) = (y - 1) + 1 - (x + 1)
        /\ \A j \in 1..((y - 1) + 1 - (x + 1)) : v[j] = s[(x + 1) + j - 1]
    BY <2>2, SubSeqIs
  <2> HIDE DEF u, v
  <2>5. \A j \in 1..m : u[j] = v[j]
    <3> SUFFICES ASSUME NEW j \in 1..m
                 PROVE  u[j] = v[j]
      OBVIOUS
    <3>1. i + j \in 1..l /\ (i + 1) + j - 1 = i + j /\ (x + 1) + j - 1 = z + (i + j)
      BY <1>2
    <3>2. u[j] = t[i + j] /\ v[j] = s[z + (i + j)]
      BY <2>1, <2>2, <2>3, <2>4, <3>1
    <3> QED
      BY <1>5, <3>1, <3>2
  <2>6. Len(u) = Len(v) /\ Len(u) = m
    BY <2>1, <2>2, <2>3, <2>4
  <2>7. u = v
    BY <2>3, <2>4, <2>5, <2>6, SeqEqual
  <2>8. GoodKey(t, i, k) <=> KeyOf(u).ok
    BY DEF GoodKey, u
  <2> HIDE DEF x, y
  <2>9. GoodKey(s, x, y) <=> KeyOf(v).ok
    BY DEF GoodKey, v
  <2> QED
    BY <2>7, <2>8, <2>9 DEF x, y
<1>10. ASSUME GoodKeys(t, 1, l)
       PROVE  GoodKeys(s, a, b)
  <2>1. ASSUME NEW i \in a..b, NEW k \in a..b, Adjacent(s, i, k), s[i] = "["
        PROVE  GoodKey(s, i, k)
    <3> DEFINE x == i - z
               y == k - z
    <3>1. x \in 1..l /\ y \in 1..l /\ z + x = i /\ z + y = k
      BY <1>2
    <3>2. x < y
      <4>1. i < k
        BY <2>1 DEF Adjacent
      <4> QED
        BY <1>2, <4>1
    <3> HIDE DEF x, y
    <3>3. Adjacent(t, x, y) /\ t[x] = "["
      BY <1>5, <1>8, <2>1, <3>1
    <3>4. GoodKey(t, x, y)
      BY <1>10, <3>1, <3>3 DEF GoodKeys
    <3> QED
      BY <1>9, <3>1, <3>2, <3>4
  <2> QED
    BY <2>1 DEF GoodKeys
<1>11. ASSUME GoodKeys(s, a, b)
       PROVE  GoodKeys(t, 1, l)
  <2>1. ASSUME NEW x \in 1..l, NEW y \in 1..l, Adjacent(t, x, y), t[x] = "["
        PROVE  GoodKey(t, x, y)
    <3>1. z + x \in a..b /\ z + y \in a..b
      BY <1>2
    <3>2. x < y
      BY <2>1 DEF Adjacent
    <3>3. Adjacent(s, z + x, z + y) /\ s[z + x] = "["
      BY <1>5, <1>8, <2>1
    <3>4. GoodKey(s, z + x, z + y)
      BY <1>11, <3>1, <3>3 DEF GoodKeys
    <3> QED
      BY <1>9, <3>2, <3>4
  <2> QED
    BY <2>1 DEF GoodKeys
<1> QED
  BY <1>3, <1>4, <1>5, <1>6, <1>7, <1>10, <1>11 DEF z

\* Where no key is open, the rest of a string opens and closes its own.
LEMMA FlipsCut ==
  ASSUME NEW s \in Seq(Char), NEW h, Flips(s, h), NEW t, NEW a, IsCut(t, s, a, Len(s)), h[a - 1] = FALSE
  PROVE  Flips(t, [j \in 0..Len(t) |-> h[a - 1 + j]])
<1> DEFINE n == Len(s)
           l == Len(t)
           z == a - 1
           g == [j \in 0..l |-> h[z + j]]
<1>1. a \in 1..n /\ n \in Nat
  BY DEF IsCut
<1>2. /\ t \in Seq(Char) /\ l = n + 1 - a
      /\ \A j \in 1..l : t[j] = s[z + j] /\ (Bracket(t, j) <=> Bracket(s, z + j))
  <2>1. IsCut(t, s, a, n)
    OBVIOUS
  <2> HIDE DEF n
  <2> QED
    BY <2>1, CutIs
<1>3. /\ h \in [0..n -> BOOLEAN]
      /\ \A i \in 1..n : /\ Bracket(s, i) => h[i - 1] = (s[i] = "]") /\ h[i] = ~h[i - 1]
                         /\ ~Bracket(s, i) => h[i] = h[i - 1]
                         /\ s[i] = "/" => h[i]
  BY DEF Flips
<1>4. l \in Nat /\ z \in Nat /\ z + l = n /\ z + 0 = z
  BY <1>1, <1>2
<1> HIDE DEF n, l, z
<1>5. g \in [0..l -> BOOLEAN]
  <2>1. \A j \in 0..l : z + j \in 0..n
    BY <1>4
  <2> QED
    BY <1>3, <2>1
<1>6. g[0] = FALSE
  <2>1. 0 \in 0..l /\ h[z] = FALSE
    BY <1>4 DEF z
  <2> QED
    BY <1>4, <2>1
<1>7. ASSUME NEW i \in 1..l
      PROVE  /\ Bracket(t, i) => g[i - 1] = (t[i] = "]") /\ g[i] = ~g[i - 1]
             /\ ~Bracket(t, i) => g[i] = g[i - 1]
             /\ t[i] = "/" => g[i]
  <2> DEFINE k == z + i
  <2>1. k \in 1..n /\ k - 1 = z + (i - 1) /\ i - 1 \in 0..l /\ i \in 0..l
    BY <1>4
  <2>2. g[i] = h[k] /\ g[i - 1] = h[k - 1]
    BY <2>1
  <2>3. t[i] = s[k] /\ (Bracket(t, i) <=> Bracket(s, k))
    BY <1>2
  <2> HIDE DEF k, g
  <2> QED
    BY <1>3, <2>1, <2>2, <2>3
<1> HIDE DEF g
<1>8. Flips(t, g)
  BY <1>5, <1>6, <1>7 DEF Flips, l
<1> QED
  BY <1>8 DEF g, l, z

\* An element is taken if it starts with a bracket, or if its keys are.
LEMMA ElemTaken ==
  ASSUME NEW s \in Seq(Char), s # <<>>, NEW h, Flips(s, h), ~h[Len(s)]
  PROVE  ToPathElem(s).ok <=> Bracket(s, 1) \/ GoodKeys(s, 1, Len(s))
<1> DEFINE n == Len(s)
           open == {i \in Positions(s, "[") : Bracket(s, i)}
           idx == Min(open)
           t == SubSeq(s, idx, n)
           keys == ParseXPathKeys(t)
           whole == [ok |-> TRUE, elem |-> [name |-> s, key |-> NoKeys]]
           named == [ok |-> TRUE, elem |-> [name |-> SubSeq(s, 1, idx - 1), key |-> keys.kvs]]
<1>1. n \in Nat /\ n > 0 /\ open = {i \in 1..n : s[i] = "[" /\ Bracket(s, i)}
  BY DEF Positions
<1>2. ToPathElem(s) = IF open = {} \/ 1 \in open THEN whole ELSE IF ~keys.ok THEN Malformed ELSE named
  BY DEF ToPathElem
<1>3. whole.ok /\ named.ok /\ ~Malformed.ok
  BY DEF Malformed
<1> HIDE DEF whole, named, keys, t, open
<1>4. h[0] = FALSE /\ \A i \in 1..n : Bracket(s, i) => h[i - 1] = (s[i] = "]")
  BY DEF Flips
<1>5. CASE open = {}
  <2>1. ToPathElem(s).ok
    BY <1>2, <1>3, <1>5
  <2>2. GoodKeys(s, 1, n)
    BY <1>1, <1>5 DEF GoodKeys, Adjacent
  <2> QED
    BY <2>1, <2>2
<1>6. CASE 1 \in open
  <2>1. ToPathElem(s).ok
    BY <1>2, <1>3, <1>6
  <2>2. Bracket(s, 1)
    BY <1>1, <1>6
  <2> QED
    BY <2>1, <2>2
<1>7. CASE open # {} /\ 1 \notin open
  <2>1. idx \in open /\ idx \in Nat /\ \A i \in open : idx <= i
    <3>1. open \subseteq Nat
      BY <1>1
    <3> QED
      BY <1>7, <3>1, MinIsLeast
  <2> HIDE DEF idx
  <2>2. idx \in 1..n /\ s[idx] = "[" /\ Bracket(s, idx) /\ idx > 1
    BY <1>1, <1>7, <2>1
  <2>3. h[idx - 1] = FALSE
    BY <1>4, <2>2
  <2>4. ~Bracket(s, 1)
    <3> SUFFICES ASSUME Bracket(s, 1)
                 PROVE  FALSE
      OBVIOUS
    <3>1. 1 \in 1..n /\ 1 - 1 = 0
      BY <1>1
    <3>2. h[0] = (s[1] = "]")
      BY <1>4, <3>1
    <3>3. s[1] = "["
      BY <1>4, <3>2 DEF Bracket
    <3> QED
      BY <1>1, <1>7, <3>1, <3>3
  <2>5. IsCut(t, s, idx, n)
    BY <2>2 DEF IsCut, Bracket, t
  <2>6. /\ t \in Seq(Char) /\ t # <<>> /\ Len(t) = n + 1 - idx
        /\ GoodKeys(t, 1, Len(t)) <=> GoodKeys(s, idx, n)
    BY <2>5, CutIs
  <2> DEFINE g == [j \in 0..Len(t) |-> h[idx - 1 + j]]
  <2>7. Flips(t, g)
    BY <2>3, <2>5, FlipsCut
  <2>8. ~g[Len(t)]
    <3>1. Len(t) \in 0..Len(t) /\ idx - 1 + Len(t) = n
      BY <1>1, <2>2, <2>6
    <3> QED
      BY <3>1
  <2> HIDE DEF g
  <2>9. keys.ok <=> GoodKeys(s, idx, n)
    <3>1. ParseXPathKeys(t).ok <=> GoodKeys(t, 1, Len(t))
      BY <2>6, <2>7, <2>8, KeysTaken
    <3> QED
      BY <2>6, <3>1 DEF keys
  <2>10. ToPathElem(s).ok <=> keys.ok
    BY <1>2, <1>3, <1>7
  <2>11. ASSUME GoodKeys(s, idx, n)
         PROVE  GoodKeys(s, 1, n)
    <3>1. ASSUME NEW i \in 1..n, NEW k \in 1..n, Adjacent(s, i, k), s[i] = "["
          PROVE  GoodKey(s, i, k)
      <4>1. i < k /\ Bracket(s, i)
        BY <3>1 DEF Adjacent
      <4>2. i \in idx..n /\ k \in idx..n
        <5>1. i \in open
          BY <1>1, <3>1, <4>1
        <5> QED
          BY <2>1, <4>1, <5>1
      <4> QED
        BY <2>11, <3>1, <4>2 DEF GoodKeys
    <3> QED
      BY <3>1 DEF GoodKeys
  <2>12. ASSUME GoodKeys(s, 1, n)
         PROVE  GoodKeys(s, idx, n)
    <3>1. \A i \in idx..n : i \in 1..n
      BY <2>2
    <3> QED
      BY <2>12, <3>1 DEF GoodKeys
  <2> QED
    BY <2>4, <2>9, <2>10, <2>11, <2>12
<1> QED
  BY <1>5, <1>6, <1>7

\* What a turn of the scan of elements takes
LEMMA ElemsTurnTakes ==
  ASSUME NEW p \in Seq(Char), NEW a \in ElemsStates, NEW i \in 1..Len(p), a.ok,
         Bracket(p, i) => a.inKey = (p[i] = "]")
  PROVE  ElemsTurn(p, a, i).ok
<1> DEFINE b == ElemsTurn(p, a, i)
           u == SubSeq(p, a.start, i - 1)
           es == IF a.start = i THEN a.elems ELSE Append(a.elems, u)
           k == i + 1
<1>1. CASE Bracket(p, i)
  <2>1. a.inKey = (p[i] = "]") /\ p[i] \in {"[", "]"} /\ a.inKey \in BOOLEAN /\ "[" # "]"
    BY <1>1 DEF Bracket, ElemsStates
  <2>2. ~(a.inKey = (p[i] = "["))
    BY <2>1
  <2>3. b = IF a.inKey = (p[i] = "[") THEN [a EXCEPT !.ok = FALSE] ELSE [a EXCEPT !.inKey = ~@]
    BY <1>1, <2>1 DEF ElemsTurn
  <2> HIDE DEF b
  <2>4. b = [a EXCEPT !.inKey = ~@]
    BY <2>2, <2>3
  <2>5. b.ok
    BY <2>4 DEF ElemsStates
  <2> QED
    BY <2>5 DEF b
<1>2. CASE ~Bracket(p, i) /\ p[i] = "/" /\ ~a.inKey
  <2>1. b = [a EXCEPT !.start = k, !.elems = es]
    BY <1>2 DEF ElemsTurn
  <2> HIDE DEF b, es, k
  <2>2. b.ok
    BY <2>1 DEF ElemsStates
  <2> QED
    BY <2>2 DEF b
<1>3. CASE ~Bracket(p, i) /\ ~(p[i] = "/" /\ ~a.inKey)
  <2>1. b = a
    BY <1>3 DEF ElemsTurn
  <2> QED
    BY <2>1
<1> QED
  BY <1>1, <1>2, <1>3

\* The scan of elements goes on as long as brackets open and close in turn.
BracketsSoFar(p, c, i) ==
  /\ c.ok <=> Alternates(p, i)
  /\ c.ok => (c.inKey <=> Odd(p, i))

\* One turn keeps this.
LEMMA BracketsStep ==
  ASSUME NEW p \in Seq(Char), NEW i \in 1..Len(p), NEW a \in ElemsStates, BracketsSoFar(p, a, i - 1)
  PROVE  BracketsSoFar(p, ElemsTurn(p, a, i), i)
<1> DEFINE b == ElemsTurn(p, a, i)
<1>1. /\ Bracket(p, i) => (Odd(p, i) <=> ~Odd(p, i - 1))
      /\ ~Bracket(p, i) => (Odd(p, i) <=> Odd(p, i - 1))
  BY UpToIs
<1>2. Alternates(p, i) <=> Alternates(p, i - 1) /\ (Bracket(p, i) => (p[i] = "[" <=> Odd(p, i)))
  <2>1. \A j \in 1..i : j \in 1..(i - 1) \/ j = i
    OBVIOUS
  <2>2. i \in 1..i /\ \A j \in 1..(i - 1) : j \in 1..i
    OBVIOUS
  <2>3. ASSUME Alternates(p, i)
        PROVE  Alternates(p, i - 1) /\ (Bracket(p, i) => (p[i] = "[" <=> Odd(p, i)))
    BY <2>2, <2>3 DEF Alternates
  <2>4. ASSUME Alternates(p, i - 1), Bracket(p, i) => (p[i] = "[" <=> Odd(p, i))
        PROVE  Alternates(p, i)
    BY <2>1, <2>4 DEF Alternates
  <2> QED
    BY <2>3, <2>4
<1>3. a.inKey \in BOOLEAN
  BY DEF ElemsStates
<1>4. Bracket(p, i) => p[i] \in {"[", "]"} /\ "[" # "]"
  BY DEF Bracket
<1>5. CASE b.ok
  <2>1. /\ a.ok /\ (Bracket(p, i) => a.inKey = (p[i] = "]") /\ b.inKey = ~a.inKey)
        /\ ~Bracket(p, i) => b.inKey = a.inKey
    BY <1>5, ElemsTurnIs
  <2> HIDE DEF b
  <2>2. Alternates(p, i - 1) /\ (a.inKey <=> Odd(p, i - 1))
    BY <2>1 DEF BracketsSoFar
  <2>3. CASE Bracket(p, i)
    <3>1. p[i] = "[" <=> ~a.inKey
      BY <1>4, <2>1, <2>3
    <3>2. p[i] = "[" <=> Odd(p, i)
      BY <1>1, <2>2, <2>3, <3>1
    <3>3. b.inKey <=> Odd(p, i)
      BY <1>1, <1>3, <2>1, <2>2, <2>3
    <3> QED
      BY <1>2, <1>5, <2>2, <3>2, <3>3 DEF BracketsSoFar, b
  <2>4. CASE ~Bracket(p, i)
    <3>1. b.inKey <=> Odd(p, i)
      BY <1>1, <2>1, <2>2, <2>4
    <3> QED
      BY <1>2, <1>5, <2>2, <2>4, <3>1 DEF BracketsSoFar, b
  <2> QED
    BY <2>3, <2>4
<1>6. CASE ~b.ok
  <2>1. ~Alternates(p, i)
    <3> SUFFICES ASSUME Alternates(p, i)
                 PROVE  b.ok
      BY <1>6
    <3>1. Alternates(p, i - 1) /\ (Bracket(p, i) => (p[i] = "[" <=> Odd(p, i)))
      BY <1>2
    <3>2. a.ok /\ (a.inKey <=> Odd(p, i - 1))
      BY <3>1 DEF BracketsSoFar
    <3>3. Bracket(p, i) => a.inKey = (p[i] = "]")
      BY <1>1, <1>3, <1>4, <3>1, <3>2
    <3> QED
      BY <3>2, <3>3, ElemsTurnTakes
  <2> HIDE DEF b
  <2>2. BracketsSoFar(p, b, i)
    BY <1>6, <2>1 DEF BracketsSoFar
  <2> QED
    BY <2>2 DEF b
<1> QED
  BY <1>5, <1>6

\* So it is at every place.
LEMMA BracketsScanned ==
  ASSUME NEW p \in Seq(Char), NEW f, ElemsRun(p, f)
  PROVE  \A i \in 0..Len(p) : BracketsSoFar(p, f[i], i)
<1> DEFINE n == Len(p)
           K == {i \in Nat : i <= n => BracketsSoFar(p, f[i], i)}
<1>1. /\ f \in [0..n -> ElemsStates] /\ n \in Nat
      /\ f[0] = [ok |-> TRUE, inKey |-> FALSE, start |-> 1, elems |-> <<>>]
      /\ \A i \in 1..n : f[i] = ElemsTurn(p, f[i - 1], i)
  BY DEF ElemsRun
<1>2. 0 \in K
  <2>1. Alternates(p, 0)
    BY DEF Alternates
  <2>2. f[0].ok /\ ~f[0].inKey
    BY <1>1
  <2>3. ~Odd(p, 0)
    BY UpToIs
  <2> QED
    BY <2>1, <2>2, <2>3 DEF BracketsSoFar
<1>3. ASSUME NEW i \in Nat, i \in K
      PROVE  i + 1 \in K
  <2> SUFFICES ASSUME i + 1 <= n
               PROVE  BracketsSoFar(p, f[i + 1], i + 1)
    OBVIOUS
  <2> DEFINE k == i + 1
             c == f[i]
  <2>1. k \in 1..n /\ k - 1 = i /\ i \in 0..n /\ i <= n
    BY <1>1
  <2>2. BracketsSoFar(p, f[i], i) /\ f[i] \in ElemsStates /\ f[k] = ElemsTurn(p, f[i], k)
    BY <1>1, <1>3, <2>1
  <2> HIDE DEF k, c
  <2>3. BracketsSoFar(p, c, k - 1) /\ c \in ElemsStates
    BY <2>1, <2>2 DEF c
  <2>4. k \in 1..Len(p)
    BY <2>1
  <2>5. BracketsSoFar(p, ElemsTurn(p, c, k), k)
    BY <2>3, <2>4, BracketsStep
  <2> QED
    BY <2>2, <2>5 DEF k, c
<1> HIDE DEF K
<1>4. \A i \in Nat : i \in K
  BY <1>2, <1>3, SetInduction
<1> QED
  BY <1>1, <1>4 DEF K

\* Where the element starts that place i is in
StartOf(s, i) == 1 + Max({0} \cup {j \in 1..(i - 1) : s[j] = "/" /\ UpTo(s, j) % 2 = 0})

\* Every key up to place b is in order, or in an element that starts with a bracket.
GoodElems(s, b) ==
  \A i, k \in 1..b : Adjacent(s, i, k) /\ s[i] = "[" => Bracket(s, StartOf(s, i)) \/ GoodKey(s, i, k)

\* The piece from place a to place e is an element: it begins behind a slash outside
\* of keys, and holds no other.
IsRun(s, a, e) ==
  /\ a \in 1..Len(s) /\ e \in a..Len(s)
  /\ (a > 1 => s[a - 1] = "/") /\ ~Odd(s, a - 1)
  /\ \A j \in a..e : s[j] = "/" => Odd(s, j)

\* Such a piece is where its places find their element to start.
LEMMA StartIs ==
  ASSUME NEW s \in Seq(Char), NEW a, NEW e, IsRun(s, a, e), NEW i \in a..e
  PROVE  StartOf(s, i) = a
<1> DEFINE T == {0} \cup {j \in 1..(i - 1) : s[j] = "/" /\ UpTo(s, j) % 2 = 0}
           z == a - 1
<1>1. /\ a \in 1..Len(s) /\ e \in a..Len(s) /\ (a > 1 => s[z] = "/") /\ ~Odd(s, z)
      /\ \A j \in a..e : s[j] = "/" => Odd(s, j)
  BY DEF IsRun
<1>2. z \in Nat /\ z + 1 = a /\ z \in 0..Len(s) /\ a \in Nat /\ e \in Nat /\ i \in Nat /\ a <= i
  BY <1>1
<1>3. T \subseteq Nat
  OBVIOUS
<1>4. z \in T
  <2>1. CASE a = 1
    BY <1>2, <2>1
  <2>2. CASE a # 1
    <3>1. a > 1 /\ z \in 1..(i - 1) /\ s[z] = "/"
      BY <1>1, <1>2, <2>2
    <3> DEFINE u == UpTo(s, z)
    <3>2. u \in Nat
      BY <1>2, UpToIs
    <3>3. ~(u % 2 = 1)
      BY <1>1 DEF Odd
    <3> HIDE DEF u
    <3>4. u % 2 = 0
      BY <3>2, <3>3
    <3> QED
      BY <3>1, <3>4 DEF u
  <2> QED
    BY <2>1, <2>2
<1>5. ASSUME NEW j \in T
      PROVE  j <= z
  <2> SUFFICES ASSUME j > z
               PROVE  FALSE
    BY <1>2, <1>3
  <2>1. j # 0
    BY <1>2
  <2>2. j \in 1..(i - 1) /\ s[j] = "/" /\ UpTo(s, j) % 2 = 0
    BY <2>1
  <2>3. j \in a..e
    BY <1>2, <2>2
  <2>4. Odd(s, j)
    BY <1>1, <2>2, <2>3
  <2> QED
    BY <2>2, <2>4 DEF Odd
<1> HIDE DEF T, z
<1>6. Max(T) = z
  <2>1. \E x \in T : \A y \in T : x >= y
    <3>1. \A y \in T : z >= y
      BY <1>2, <1>3, <1>5
    <3> QED
      BY <1>4, <3>1
  <2> DEFINE m == Max(T)
  <2>2. m \in T /\ \A y \in T : m >= y
    BY <2>1 DEF Max
  <2> HIDE DEF m
  <2>3. m <= z /\ m >= z /\ m \in Nat
    BY <1>3, <1>4, <1>5, <2>2
  <2>4. m = z
    BY <1>2, <2>3
  <2> QED
    BY <2>4 DEF m
<1>7. StartOf(s, i) = 1 + Max(T)
  BY DEF StartOf, T
<1> QED
  BY <1>2, <1>6, <1>7

\* A key that is closed in the piece is opened in it.
LEMMA OpensWithin ==
  ASSUME NEW s \in Seq(Char), NEW a, NEW e, IsRun(s, a, e), Alternates(s, e),
         NEW i \in 1..e, NEW k \in a..e, Adjacent(s, i, k), s[i] = "["
  PROVE  i \in a..e
<1> SUFFICES ASSUME i < a
             PROVE  FALSE
  BY DEF IsRun
<1> DEFINE z == a - 1
<1>1. a \in 1..Len(s) /\ e \in a..Len(s) /\ ~Odd(s, z)
  BY DEF IsRun
<1>2. z \in 0..Len(s) /\ i \in 0..Len(s) /\ i <= z /\ z < k
  BY <1>1
<1>3. Bracket(s, i) /\ \A j \in (i + 1)..(k - 1) : ~Bracket(s, j)
  BY DEF Adjacent
<1>4. Odd(s, i)
  BY <1>3 DEF Alternates
<1>5. \A j \in (i + 1)..z : j \in (i + 1)..(k - 1)
  BY <1>1, <1>2
<1> HIDE DEF z
<1>6. \A j \in (i + 1)..z : ~Bracket(s, j)
  BY <1>3, <1>5
<1>7. Odd(s, i) <=> Odd(s, z)
  BY <1>2, <1>6, OddStays
<1> QED
  BY <1>1, <1>4, <1>7

\* One more element
LEMMA GoodElemsGrow ==
  ASSUME NEW s \in Seq(Char), NEW a, NEW e, IsRun(s, a, e), Alternates(s, e)
  PROVE  GoodElems(s, e) <=> GoodElems(s, a - 1) /\ (Bracket(s, a) \/ GoodKeys(s, a, e))
<1>1. a \in 1..Len(s) /\ e \in a..Len(s)
  BY DEF IsRun
<1>2. \A i \in 1..(a - 1) : i \in 1..e
  BY <1>1
<1>3. \A i \in a..e : i \in 1..e /\ StartOf(s, i) = a
  <2>1. \A i \in a..e : i \in 1..e
    BY <1>1
  <2>2. \A i \in a..e : StartOf(s, i) = a
    BY StartIs
  <2> QED
    BY <2>1, <2>2
<1>4. ASSUME GoodElems(s, e)
      PROVE  GoodElems(s, a - 1)
  BY <1>2, <1>4 DEF GoodElems
<1>5. ASSUME GoodElems(s, e), ~Bracket(s, a)
      PROVE  GoodKeys(s, a, e)
  <2>1. ASSUME NEW i \in a..e, NEW k \in a..e, Adjacent(s, i, k), s[i] = "["
        PROVE  GoodKey(s, i, k)
    <3>1. i \in 1..e /\ k \in 1..e /\ StartOf(s, i) = a
      BY <1>3
    <3>2. Bracket(s, StartOf(s, i)) \/ GoodKey(s, i, k)
      BY <1>5, <2>1, <3>1 DEF GoodElems
    <3> QED
      BY <1>5, <3>1, <3>2
  <2> QED
    BY <2>1 DEF GoodKeys
<1>6. ASSUME GoodElems(s, a - 1), Bracket(s, a) \/ GoodKeys(s, a, e)
      PROVE  GoodElems(s, e)
  <2>1. ASSUME NEW i \in 1..e, NEW k \in 1..e, Adjacent(s, i, k), s[i] = "["
        PROVE  Bracket(s, StartOf(s, i)) \/ GoodKey(s, i, k)
    <3>1. i < k
      BY <2>1 DEF Adjacent
    <3>2. CASE k < a
      <4>1. i \in 1..(a - 1) /\ k \in 1..(a - 1)
        BY <1>1, <3>1, <3>2
      <4> QED
        BY <1>6, <2>1, <4>1 DEF GoodElems
    <3>3. CASE ~(k < a)
      <4>1. k \in a..e
        BY <1>1, <3>3
      <4>2. i \in a..e
        BY <2>1, <4>1, OpensWithin
      <4>3. StartOf(s, i) = a
        BY <1>3, <4>2
      <4>4. CASE Bracket(s, a)
        BY <4>3, <4>4
      <4>5. CASE GoodKeys(s, a, e)
        BY <2>1, <4>1, <4>2, <4>5 DEF GoodKeys
      <4> QED
        BY <1>6, <4>4, <4>5
    <3> QED
      BY <3>2, <3>3
  <2> QED
    BY <2>1 DEF GoodElems
<1> QED
  BY <1>4, <1>5, <1>6

\* A place without bracket makes no key.
LEMMA GoodElemsPass ==
  ASSUME NEW s \in Seq(Char), NEW i \in 1..Len(s), ~Bracket(s, i)
  PROVE  GoodElems(s, i) <=> GoodElems(s, i - 1)
<1>1. \A x \in 1..(i - 1) : x \in 1..i
  OBVIOUS
<1>2. \A x \in 1..i : x # i => x \in 1..(i - 1)
  OBVIOUS
<1>3. \A x, k \in 1..i : Adjacent(s, x, k) => x # i /\ k # i
  BY DEF Adjacent
<1>4. ASSUME GoodElems(s, i)
      PROVE  GoodElems(s, i - 1)
  BY <1>1, <1>4 DEF GoodElems
<1>5. ASSUME GoodElems(s, i - 1)
      PROVE  GoodElems(s, i)
  BY <1>2, <1>3, <1>5 DEF GoodElems
<1> QED
  BY <1>4, <1>5

\* The elements the scan has cut off are taken exactly when their keys are in order.
TakenSoFar(p, c) ==
  (\A j \in 1..Len(c.elems) : ToPathElem(c.elems[j]).ok) <=> GoodElems(p, c.start - 1)

\* A piece of the scan is taken like that.
LEMMA PieceTaken ==
  ASSUME NEW p \in Seq(Char), NEW f, ElemsRun(p, f), NEW a \in Nat \ {0}, NEW e \in 1..Len(p), IsPiece(p, f, a, e)
  PROVE  LET u == SubSeq(p, a, e) IN
         /\ u \in Seq(Char)
         /\ ToPathElem(u).ok /\ GoodElems(p, a - 1) <=> GoodElems(p, e)
<1> DEFINE u == SubSeq(p, a, e)
           n == Len(p)
<1>1. /\ a <= e /\ (a > 1 => p[a - 1] = "/") /\ ~f[a - 1].inKey /\ ~f[e].inKey
      /\ \A j \in 0..e : f[j].ok
      /\ \A j \in a..e : p[j] = "/" => f[j].inKey
  BY DEF IsPiece
<1>2. \A i \in 0..n : BracketsSoFar(p, f[i], i)
  BY BracketsScanned
<1>3. /\ a \in 1..n /\ e \in a..n /\ a - 1 \in 0..e /\ n \in Nat
      /\ \A j \in 0..e : j \in 0..n
      /\ \A j \in a..e : j \in 0..e
  BY <1>1
<1>4. \A j \in 0..e : f[j].inKey <=> Odd(p, j)
  BY <1>1, <1>2, <1>3 DEF BracketsSoFar
<1>5. Alternates(p, e)
  <2>1. e \in 0..e
    BY <1>3
  <2> QED
    BY <1>1, <1>2, <1>3, <2>1 DEF BracketsSoFar
<1>6. IsRun(p, a, e)
  BY <1>1, <1>3, <1>4 DEF IsRun
<1>7. IsCut(u, p, a, e)
  <2>1. "/" # "\\"
    OBVIOUS
  <2> QED
    BY <1>1, <1>3, <2>1 DEF IsCut
<1>8. u \in Seq(Char) /\ u # <<>> /\ Scannable(u)
  BY PieceScannable
<1> HIDE DEF u
<1>9. PICK h : Flips(u, h) /\ ~h[Len(u)]
  BY <1>8 DEF Scannable
<1>10. ToPathElem(u).ok <=> Bracket(u, 1) \/ GoodKeys(u, 1, Len(u))
  BY <1>8, <1>9, ElemTaken
<1>11. /\ Len(u) = e + 1 - a
       /\ \A j \in 1..Len(u) : Bracket(u, j) <=> Bracket(p, a - 1 + j)
       /\ GoodKeys(u, 1, Len(u)) <=> GoodKeys(p, a, e)
  BY <1>7, CutIs
<1>12. Bracket(u, 1) <=> Bracket(p, a)
  <2>1. 1 \in 1..Len(u) /\ a - 1 + 1 = a
    BY <1>3, <1>11
  <2> QED
    BY <1>11, <2>1
<1>13. GoodElems(p, e) <=> GoodElems(p, a - 1) /\ (Bracket(p, a) \/ GoodKeys(p, a, e))
  BY <1>5, <1>6, GoodElemsGrow
<1>14. ToPathElem(u).ok /\ GoodElems(p, a - 1) <=> GoodElems(p, e)
  BY <1>10, <1>11, <1>12, <1>13
<1> QED
  BY <1>8, <1>14 DEF u

\* One turn
LEMMA TakenStep ==
  ASSUME NEW p \in Seq(Char), NEW f, ElemsRun(p, f), NEW i \in 1..Len(p), f[i].ok,
         TakenSoFar(p, f[i - 1])
  PROVE  TakenSoFar(p, f[i])
<1> DEFINE n == Len(p)
           x == f[i - 1]
           y == f[i]
           a == x.start
           u == SubSeq(p, a, i - 1)
<1>1. x \in ElemsStates /\ y \in ElemsStates /\ y = ElemsTurn(p, x, i) /\ n \in Nat /\ i \in 1..n
  <2>1. i - 1 \in 0..n /\ i \in 0..n /\ i \in 1..n
    OBVIOUS
  <2> QED
    BY <2>1 DEF ElemsRun
<1> HIDE DEF x, y
<1>2. /\ x.ok /\ y.ok
      /\ p[i] = "/" /\ ~x.inKey => /\ y.start = i + 1
                                   /\ y.elems = IF a = i THEN x.elems ELSE Append(x.elems, u)
      /\ p[i] # "/" \/ x.inKey => y.start = x.start /\ y.elems = x.elems
  <2>1. y.ok
    BY DEF y
  <2>2. ElemsTurn(p, x, i).ok
    BY <1>1, <2>1
  <2> QED
    BY <1>1, <2>1, <2>2, ElemsTurnIs
<1>3. /\ \A j \in 0..(i - 1) : f[j].ok
      /\ a <= (i - 1) + 1 /\ ~f[a - 1].inKey
      /\ a > 1 => p[a - 1] = "/"
      /\ \A j \in a..(i - 1) : p[j] = "/" => f[j].inKey
      /\ IsElems(x.elems)
  <2>1. i - 1 \in 0..Len(p)
    BY <1>1
  <2>2. ElemsSoFar(p, f, i - 1)
    BY <2>1, ElemsAlways
  <2> QED
    BY <1>2, <2>2 DEF ElemsSoFar, x
<1>4. a \in Nat \ {0}
  BY <1>1 DEF ElemsStates
<1>5. TakenSoFar(p, x)
  BY DEF x
<1> HIDE DEF a, n
<1>6. CASE p[i] = "/" /\ ~x.inKey
  <2> DEFINE d == i + 1
  <2>1. y.start = d /\ d - 1 = i
    BY <1>1, <1>2, <1>6
  <2> HIDE DEF d
  <2>2. GoodElems(p, i) <=> GoodElems(p, i - 1)
    <3>1. ~Bracket(p, i)
      BY <1>6 DEF Bracket
    <3> QED
      BY <3>1, GoodElemsPass
  <2>3. CASE a = i
    <3>1. y.elems = x.elems
      BY <1>2, <1>6, <2>3
    <3>2. TakenSoFar(p, y)
      BY <1>5, <2>1, <2>2, <2>3, <3>1 DEF TakenSoFar, a
    <3> QED
      BY <3>2 DEF y
  <2>4. CASE a # i
    <3> DEFINE e == i - 1
    <3>1. e \in 1..Len(p) /\ a <= e
      BY <1>1, <1>3, <1>4, <2>4 DEF n
    <3>2. ~f[e].inKey
      BY <1>6 DEF x
    <3> HIDE DEF e
    <3>3. IsPiece(p, f, a, e)
      BY <1>3, <3>1, <3>2 DEF IsPiece, e
    <3> DEFINE v == SubSeq(p, a, e)
    <3>4. v \in Seq(Char) /\ (ToPathElem(v).ok /\ GoodElems(p, a - 1) <=> GoodElems(p, e))
      BY <1>4, <3>1, <3>3, PieceTaken
    <3> HIDE DEF v
    <3>5. y.elems = Append(x.elems, v)
      BY <1>2, <1>6, <2>4 DEF v, e
    <3> DEFINE w == x.elems
               z == Append(w, v)
    <3>6. w \in Seq(Seq(Char))
      BY <1>3 DEF IsElems
    <3> HIDE DEF w
    <3>7. Len(w) \in Nat /\ Len(z) = Len(w) + 1 /\ z[Len(w) + 1] = v /\ \A k \in 1..Len(w) : z[k] = w[k]
      BY <3>4, <3>6
    <3> HIDE DEF z
    <3>8. (\A k \in 1..Len(z) : ToPathElem(z[k]).ok) <=> (\A k \in 1..Len(w) : ToPathElem(w[k]).ok) /\ ToPathElem(v).ok
      <4> DEFINE Ok(q) == ToPathElem(q).ok
      <4>1. \A k \in 1..Len(z) : k \in 1..Len(w) \/ k = Len(w) + 1
        BY <3>7
      <4>2. Len(w) + 1 \in 1..Len(z) /\ \A k \in 1..Len(w) : k \in 1..Len(z)
        BY <3>7
      <4> HIDE DEF Ok
      <4>3. (\A k \in 1..Len(z) : Ok(z[k])) <=> (\A k \in 1..Len(w) : Ok(w[k])) /\ Ok(v)
        BY <3>7, <4>1, <4>2
      <4> QED
        BY <4>3 DEF Ok
    <3>9. (\A k \in 1..Len(w) : ToPathElem(w[k]).ok) <=> GoodElems(p, a - 1)
      BY <1>5 DEF TakenSoFar, w, a
    <3>10. y.elems = z /\ y.start - 1 = i
      BY <2>1, <3>5 DEF z, w
    <3>11. TakenSoFar(p, y)
      BY <2>2, <3>4, <3>8, <3>9, <3>10 DEF TakenSoFar, e
    <3> QED
      BY <3>11 DEF y
  <2> QED
    BY <2>3, <2>4
<1>7. CASE p[i] # "/" \/ x.inKey
  <2>1. TakenSoFar(p, y)
    BY <1>2, <1>5, <1>7 DEF TakenSoFar
  <2> QED
    BY <2>1 DEF y
<1> QED
  BY <1>6, <1>7

\* So it is at every place.
LEMMA TakenAlways ==
  ASSUME NEW p \in Seq(Char), NEW f, ElemsRun(p, f)
  PROVE  \A i \in 0..Len(p) : f[i].ok => TakenSoFar(p, f[i])
<1> DEFINE n == Len(p)
           K == {i \in Nat : i <= n => (f[i].ok => TakenSoFar(p, f[i]))}
<1>1. f[0] = [ok |-> TRUE, inKey |-> FALSE, start |-> 1, elems |-> <<>>] /\ n \in Nat
  BY DEF ElemsRun
<1>2. 0 \in K
  <2>1. f[0].start = 1 /\ f[0].elems = <<>>
    BY <1>1
  <2>2. 1 - 1 = 0 /\ Len(<<>>) = 0 /\ \A j \in 1..0 : FALSE
    OBVIOUS
  <2>3. GoodElems(p, 0)
    BY <2>2 DEF GoodElems
  <2>4. \A j \in 1..Len(f[0].elems) : ToPathElem(f[0].elems[j]).ok
    BY <2>1, <2>2
  <2>5. TakenSoFar(p, f[0])
    BY <2>1, <2>2, <2>3, <2>4 DEF TakenSoFar
  <2> QED
    BY <2>5
<1>3. ASSUME NEW i \in Nat, i \in K
      PROVE  i + 1 \in K
  <2> SUFFICES ASSUME i + 1 <= n, f[i + 1].ok
               PROVE  TakenSoFar(p, f[i + 1])
    OBVIOUS
  <2> DEFINE k == i + 1
  <2>1. k \in 1..Len(p) /\ k - 1 = i /\ i \in 0..k /\ k \in 0..Len(p) /\ i <= n /\ f[k].ok
    BY <1>1
  <2> HIDE DEF k
  <2>2. f[i].ok
    <3>1. ElemsSoFar(p, f, k)
      BY <2>1, ElemsAlways
    <3> QED
      BY <2>1, <3>1 DEF ElemsSoFar
  <2>3. TakenSoFar(p, f[k - 1])
    BY <1>3, <2>1, <2>2
  <2>4. TakenSoFar(p, f[k])
    BY <2>1, <2>3, TakenStep
  <2> QED
    BY <2>4 DEF k
<1> HIDE DEF K
<1>4. \A i \in Nat : i \in K
  BY <1>2, <1>3, SetInduction
<1> QED
  BY <1>1, <1>4 DEF K

\* The brackets of a string open and close in turn, and its keys are in order.
Orderly(s) == Alternates(s, Len(s)) /\ ~Odd(s, Len(s)) /\ GoodElems(s, Len(s))

\* toPathElems takes a string that is orderly with its last slash, and no other.
LEMMA ElemsTaken ==
  ASSUME NEW r \in Seq(Char)
  PROVE  /\ Slashed(r) \in Seq(Char)
         /\ ToPathElems(r).ok <=> Orderly(Slashed(r))
<1> DEFINE p == Slashed(r)
           n == Len(p)
<1>1. p \in Seq(Char) /\ n > 0 /\ n \in Nat /\ p[n] = "/"
  <2>1. CASE r # <<>> /\ Last(r) = "/"
    <3>1. p = r
      BY <2>1 DEF Slashed
    <3> QED
      BY <2>1, <3>1 DEF Last
  <2>2. CASE ~(r # <<>> /\ Last(r) = "/")
    <3>1. p = Append(r, "/")
      BY <2>2 DEF Slashed
    <3>2. "/" \in Char
      BY Chars
    <3> HIDE DEF p
    <3>3. p \in Seq(Char) /\ n = Len(r) + 1 /\ p[Len(r) + 1] = "/" /\ Len(r) \in Nat
      BY <3>1, <3>2
    <3> QED
      BY <3>3
  <2> QED
    BY <2>1, <2>2
<1> HIDE DEF p
<1>2. PICK f : ElemsRun(p, f)
  BY <1>1, ElemsLoop
<1> DEFINE end == f[n]
           es == end.elems
           parsed == [i \in DOMAIN es |-> ToPathElem(es[i])]
           made == Path(<<>>, [i \in DOMAIN parsed |-> parsed[i].elem])
<1>3. ScanElems(p) = end /\ end \in ElemsStates
  <2>1. n \in 0..n
    BY <1>1
  <2> QED
    BY <1>2, <2>1 DEF ElemsRun
<1>4. ToPathElems(r) = IF ~end.ok \/ end.inKey \/ \E i \in DOMAIN parsed : ~parsed[i].ok THEN Malformed ELSE made
  BY <1>3 DEF ToPathElems, p
<1>5. made.ok /\ ~Malformed.ok
  BY DEF Path, Malformed
<1>6. es \in Seq(Seq(Char))
  BY <1>3 DEF ElemsStates
<1> HIDE DEF made, end
<1>7. (\E i \in DOMAIN parsed : ~parsed[i].ok) <=> ~\A j \in 1..Len(es) : ToPathElem(es[j]).ok
  <2>1. DOMAIN es = 1..Len(es)
    BY <1>6
  <2> HIDE DEF es
  <2> QED
    BY <2>1
<1> DEFINE all == \A j \in 1..Len(es) : ToPathElem(es[j]).ok
<1>8. ToPathElems(r).ok <=> end.ok /\ ~end.inKey /\ all
  <2> HIDE DEF parsed, es
  <2> QED
    BY <1>4, <1>5, <1>7
<1> HIDE DEF parsed
<1>9. BracketsSoFar(p, end, n)
  <2>1. n \in 0..Len(p)
    BY <1>1
  <2> QED
    BY <1>1, <1>2, <2>1, BracketsScanned DEF end
<1>10. ASSUME end.ok, ~end.inKey
       PROVE  all <=> GoodElems(p, n)
  <2>1. n \in 0..Len(p) /\ n \in 1..Len(p) /\ n - 1 \in 0..n
    BY <1>1
  <2>2. TakenSoFar(p, end)
    BY <1>1, <1>2, <1>10, <2>1, TakenAlways DEF end
  <2> DEFINE x == f[n - 1]
  <2>3. x \in ElemsStates /\ end = ElemsTurn(p, x, n)
    BY <1>2, <2>1 DEF ElemsRun, end
  <2> HIDE DEF x
  <2>4. /\ ~Bracket(p, n) => end.inKey = x.inKey
        /\ p[n] = "/" /\ ~x.inKey => end.start = n + 1
    <3>1. ElemsTurn(p, x, n).ok
      BY <1>10, <2>3
    <3> HIDE DEF n
    <3> QED
      BY <1>1, <2>1, <2>3, <3>1, ElemsTurnIs
  <2>5. ~Bracket(p, n)
    BY <1>1 DEF Bracket
  <2>6. end.start = n + 1
    BY <1>1, <1>10, <2>4, <2>5
  <2>7. end.start - 1 = n
    BY <1>1, <2>6
  <2> QED
    BY <2>2, <2>7 DEF TakenSoFar
<1> HIDE DEF all, n
<1>11. ToPathElems(r).ok <=> Alternates(p, n) /\ ~Odd(p, n) /\ GoodElems(p, n)
  BY <1>8, <1>9, <1>10 DEF BracketsSoFar
<1> QED
  BY <1>1, <1>11 DEF Orderly, n, p

\* An element starts at a place of the string.
LEMMA StartRange ==
  ASSUME NEW s \in Seq(Char), NEW i \in 1..Len(s)
  PROVE  StartOf(s, i) \in 1..i
<1> DEFINE T == {0} \cup {j \in 1..(i - 1) : s[j] = "/" /\ UpTo(s, j) % 2 = 0}
           D == {d \in Nat : i - 1 - d \in T}
<1>1. T \subseteq 0..(i - 1) /\ 0 \in T /\ i \in Nat
  OBVIOUS
<1> HIDE DEF T
<1>2. PICK x \in T : \A y \in T : x >= y
  <2>1. i - 1 \in D /\ D \subseteq Nat
    BY <1>1
  <2> DEFINE m == Min(D)
  <2> HIDE DEF D
  <2>2. D # {}
    BY <2>1
  <2>3. m \in D /\ \A d \in D : m <= d
    BY <2>1, <2>2, MinIsLeast
  <2> HIDE DEF m
  <2>4. m \in Nat /\ i - 1 - m \in T
    BY <2>3 DEF D
  <2>5. ASSUME NEW y \in T
        PROVE  i - 1 - m >= y
    <3>1. y \in 0..(i - 1) /\ i - 1 - (i - 1 - y) = y
      BY <1>1
    <3>2. i - 1 - y \in D
      BY <1>1, <3>1 DEF D
    <3>3. m <= i - 1 - y
      BY <2>3, <3>2
    <3> QED
      BY <1>1, <2>4, <3>1, <3>3
  <2> QED
    BY <2>4, <2>5
<1> DEFINE m == Max(T)
<1>3. m \in T
  BY <1>2 DEF Max
<1>4. StartOf(s, i) = 1 + m
  BY DEF StartOf, T
<1> HIDE DEF m
<1>5. m \in 0..(i - 1)
  BY <1>1, <1>3
<1> QED
  BY <1>1, <1>4, <1>5

\* The bracket that is next
CloseOf(s, i) == Min({j \in Brackets(s) : j > i})
\* What is between them
TextOf(s, i) == SubSeq(s, i + 1, CloseOf(s, i) - 1)

\* WellFormed, of what follows the origin
BodyWellFormed(s) ==
  /\ Cardinality(Brackets(s)) % 2 = 0
  /\ \A i \in Brackets(s) : (s[i] = "[") <=> (UpTo(s, i) % 2 = 1)
  /\ \A i \in Brackets(s) :
       s[i] = "[" /\ StartOf(s, i) \notin Brackets(s) =>
         \E e \in 2..(Len(TextOf(s, i)) - 1) :
           TextOf(s, i)[e] = "=" /\ \A d \in 1..(e - 1) : TextOf(s, i)[d] # "="

\* WellFormed says this of it.
LEMMA WellFormedIs ==
  ASSUME NEW p
  PROVE  WellFormed(p) <=>
           BodyWellFormed(IF p # <<>> /\ HasOrigin(p) THEN SubSeq(p, Min(Positions(p, ":")) + 1, Len(p)) ELSE p)
BY DEF WellFormed, BodyWellFormed, TextOf, CloseOf, StartOf, UpTo, Brackets

\* An open key is closed by the next bracket.
LEMMA CloseIs ==
  ASSUME NEW s \in Seq(Char), ~Odd(s, Len(s)), NEW i \in 1..Len(s), Bracket(s, i), Odd(s, i)
  PROVE  /\ CloseOf(s, i) \in 1..Len(s) /\ Adjacent(s, i, CloseOf(s, i))
         /\ \A k \in 1..Len(s) : Adjacent(s, i, k) => k = CloseOf(s, i)
<1> DEFINE n == Len(s)
           B == {j \in Brackets(s) : j > i}
           m == CloseOf(s, i)
<1>1. n \in Nat /\ B = {j \in 1..n : Bracket(s, j) /\ j > i} /\ m = Min(B)
  BY DEF Brackets, CloseOf
<1> HIDE DEF B, m
<1>2. B # {}
  <2> SUFFICES ASSUME B = {}
               PROVE  FALSE
    OBVIOUS
  <2>1. \A j \in (i + 1)..n : j \in 1..n /\ j > i
    OBVIOUS
  <2>2. \A j \in (i + 1)..n : ~Bracket(s, j)
    BY <1>1, <2>1
  <2>3. i \in 0..Len(s) /\ n \in 0..Len(s) /\ i <= n
    OBVIOUS
  <2>4. Odd(s, i) <=> Odd(s, n)
    BY <2>2, <2>3, OddStays
  <2> QED
    BY <2>4
<1>3. m \in B /\ \A j \in B : m <= j
  <2>1. B \subseteq Nat
    BY <1>1
  <2> QED
    BY <1>1, <1>2, <2>1, MinIsLeast
<1>4. m \in 1..n /\ Bracket(s, m) /\ m > i
  BY <1>1, <1>3
<1>5. \A j \in (i + 1)..(m - 1) : ~Bracket(s, j)
  <2> SUFFICES ASSUME NEW j \in (i + 1)..(m - 1), Bracket(s, j)
               PROVE  FALSE
    OBVIOUS
  <2>1. j \in 1..n /\ j > i /\ ~(m <= j)
    BY <1>4
  <2> QED
    BY <1>1, <1>3, <2>1
<1>6. Adjacent(s, i, m)
  BY <1>4, <1>5 DEF Adjacent
<1>7. ASSUME NEW k \in 1..n, Adjacent(s, i, k)
      PROVE  k = m
  <2>1. i < k /\ Bracket(s, k) /\ \A j \in (i + 1)..(k - 1) : ~Bracket(s, j)
    BY <1>7 DEF Adjacent
  <2>2. m <= k
    BY <1>1, <1>3, <2>1
  <2>3. ~(m < k)
    <3>1. m < k => m \in (i + 1)..(k - 1)
      BY <1>4
    <3> QED
      BY <1>4, <2>1, <3>1
  <2> QED
    BY <1>4, <2>2, <2>3
<1> QED
  BY <1>4, <1>6, <1>7 DEF m

\* It says what Orderly says.
LEMMA BodyIs ==
  ASSUME NEW s \in Seq(Char)
  PROVE  BodyWellFormed(s) <=> Orderly(s)
<1> DEFINE n == Len(s)
           Even == Cardinality(Brackets(s)) % 2 = 0
           Turns == \A i \in Brackets(s) : (s[i] = "[") <=> (UpTo(s, i) % 2 = 1)
           Holds(t) == \E e \in 2..(Len(t) - 1) : t[e] = "=" /\ \A d \in 1..(e - 1) : t[d] # "="
           Keys == \A i \in Brackets(s) : s[i] = "[" /\ StartOf(s, i) \notin Brackets(s) => Holds(TextOf(s, i))
<1>1. BodyWellFormed(s) <=> Even /\ Turns /\ Keys
  BY DEF BodyWellFormed
<1>2. n \in Nat /\ Brackets(s) = {i \in 1..n : Bracket(s, i)}
  BY DEF Brackets
<1>3. Even <=> ~Odd(s, n)
  <2> DEFINE u == UpTo(s, n)
  <2>1. u \in Nat /\ u = Cardinality(Brackets(s))
    <3>1. n \in 0..Len(s)
      BY <1>2
    <3> QED
      BY <3>1, UpToIs
  <2> HIDE DEF u
  <2>2. u % 2 = 0 <=> ~(u % 2 = 1)
    BY <2>1
  <2> QED
    BY <2>1, <2>2 DEF Odd, u
<1>4. Turns <=> Alternates(s, n)
  BY <1>2 DEF Alternates, Odd
<1> HIDE DEF Even, Turns, Holds
<1>5. ASSUME NEW i \in 1..n
      PROVE  StartOf(s, i) \notin Brackets(s) <=> ~Bracket(s, StartOf(s, i))
  <2>1. StartOf(s, i) \in 1..i
    BY StartRange
  <2>2. StartOf(s, i) \in 1..n
    BY <1>2, <2>1
  <2> QED
    BY <1>2, <2>2
<1>6. ASSUME ~Odd(s, n), Alternates(s, n), NEW i \in 1..n, Bracket(s, i), s[i] = "["
      PROVE  /\ CloseOf(s, i) \in 1..n /\ Adjacent(s, i, CloseOf(s, i))
             /\ \A k \in 1..n : Adjacent(s, i, k) => k = CloseOf(s, i)
             /\ Holds(TextOf(s, i)) <=> GoodKey(s, i, CloseOf(s, i))
  <2>1. Odd(s, i)
    BY <1>6 DEF Alternates
  <2> DEFINE m == CloseOf(s, i)
             t == TextOf(s, i)
  <2>2. /\ m \in 1..n /\ Adjacent(s, i, m) /\ \A k \in 1..n : Adjacent(s, i, k) => k = m
    BY <1>6, <2>1, CloseIs
  <2> HIDE DEF m
  <2>3. t = SubSeq(s, i + 1, m - 1)
    BY DEF TextOf, m
  <2>4. i < m
    BY <2>2 DEF Adjacent
  <2>5. i + 1 \in Nat \ {0} /\ m - 1 \in Nat /\ m - 1 <= Len(s)
    BY <1>2, <2>2, <2>4
  <2>6. t \in Seq(Char)
    BY <2>3, <2>5, SubSeqIs
  <2>7. GoodKey(s, i, m) <=> KeyOf(t).ok
    BY <2>3 DEF GoodKey
  <2> HIDE DEF t
  <2>8. KeyOf(t).ok <=> Holds(t)
    BY <2>6, KeyOfOk DEF Holds
  <2> QED
    BY <2>2, <2>7, <2>8 DEF m, t
<1>7. ASSUME ~Odd(s, n), Alternates(s, n)
      PROVE  Keys <=> GoodElems(s, n)
  <2>1. ASSUME Keys
        PROVE  GoodElems(s, n)
    <3>1. ASSUME NEW i \in 1..n, NEW k \in 1..n, Adjacent(s, i, k), s[i] = "[", ~Bracket(s, StartOf(s, i))
          PROVE  GoodKey(s, i, k)
      <4>1. Bracket(s, i)
        BY <3>1 DEF Adjacent
      <4>2. k = CloseOf(s, i) /\ (Holds(TextOf(s, i)) <=> GoodKey(s, i, CloseOf(s, i)))
        BY <1>6, <1>7, <3>1, <4>1
      <4>3. i \in Brackets(s) /\ StartOf(s, i) \notin Brackets(s)
        BY <1>2, <1>5, <3>1, <4>1
      <4> QED
        BY <2>1, <3>1, <4>2, <4>3
    <3> QED
      BY <3>1 DEF GoodElems
  <2>2. ASSUME GoodElems(s, n)
        PROVE  Keys
    <3> SUFFICES ASSUME NEW i \in Brackets(s), s[i] = "[", StartOf(s, i) \notin Brackets(s)
                 PROVE  Holds(TextOf(s, i))
      OBVIOUS
    <3>1. i \in 1..n /\ Bracket(s, i)
      BY <1>2
    <3>2. CloseOf(s, i) \in 1..n /\ Adjacent(s, i, CloseOf(s, i)) /\ (Holds(TextOf(s, i)) <=> GoodKey(s, i, CloseOf(s, i)))
      BY <1>6, <1>7, <3>1
    <3>3. ~Bracket(s, StartOf(s, i))
      BY <1>5, <3>1
    <3> DEFINE m == CloseOf(s, i)
    <3> HIDE DEF m
    <3>4. m \in 1..n /\ Adjacent(s, i, m)
      BY <3>2 DEF m
    <3>5. GoodKey(s, i, m)
      BY <2>2, <3>1, <3>3, <3>4 DEF GoodElems
    <3> QED
      BY <3>2, <3>5 DEF m
  <2> QED
    BY <2>1, <2>2
<1> HIDE DEF Keys, n
<1> QED
  BY <1>1, <1>3, <1>4, <1>7 DEF Orderly, n

\* A slash at the end changes none of it.
LEMMA SlashAdded ==
  ASSUME NEW s \in Seq(Char)
  PROVE  Orderly(Append(s, "/")) <=> Orderly(s)
<1> DEFINE n == Len(s)
           m == n + 1
           t == Append(s, "/")
<1>1. n \in Nat /\ m \in Nat /\ "/" \in Char
  BY Chars
<1>2. t \in Seq(Char) /\ Len(t) = m /\ t[m] = "/" /\ \A i \in 1..n : t[i] = s[i]
  BY <1>1
<1> HIDE DEF n, t
<1>3. m \in 1..m /\ m - 1 = n /\ \A i \in 1..n : i \in 1..m
  BY <1>1
<1>4. \A i \in 1..n : Bracket(t, i) <=> Bracket(s, i)
  <2> SUFFICES ASSUME NEW i \in 1..n
               PROVE  Bracket(t, i) <=> Bracket(s, i)
    OBVIOUS
  <2>1. i > 1 => i - 1 \in 1..n
    BY <1>1
  <2> QED
    BY <1>2, <2>1 DEF Bracket
<1>5. ~Bracket(t, m)
  BY <1>2 DEF Bracket
<1>6. Brackets(t) = Brackets(s)
  <2>1. DOMAIN t = 1..m /\ DOMAIN s = 1..n
    BY <1>2 DEF n
  <2>2. \A i \in 1..m : i # m => i \in 1..n
    BY <1>1
  <2>3. \A i \in 1..m : Bracket(t, i) <=> i \in 1..n /\ Bracket(s, i)
    BY <1>4, <1>5, <2>2
  <2>4. \A i \in 1..n : i \in 1..m
    BY <1>3
  <2> HIDE DEF m
  <2> QED
    BY <2>1, <2>3, <2>4 DEF Brackets
<1>7. \A i : UpTo(t, i) = UpTo(s, i)
  BY <1>6 DEF UpTo
<1>8. \A i : Odd(t, i) <=> Odd(s, i)
  BY <1>7 DEF Odd
<1>9. Odd(t, m) <=> Odd(s, n)
  <2>1. m \in 1..Len(t)
    BY <1>2, <1>3
  <2>2. Odd(t, m) <=> Odd(t, m - 1)
    BY <1>2, <1>5, <2>1, UpToIs
  <2> QED
    BY <1>3, <1>8, <2>2
<1>10. Alternates(t, m) <=> Alternates(s, n)
  <2>1. ASSUME Alternates(t, m)
        PROVE  Alternates(s, n)
    BY <1>2, <1>3, <1>4, <1>8, <2>1 DEF Alternates
  <2>2. ASSUME Alternates(s, n)
        PROVE  Alternates(t, m)
    <3> SUFFICES ASSUME NEW i \in 1..m, Bracket(t, i)
                 PROVE  t[i] = "[" <=> Odd(t, i)
      BY DEF Alternates
    <3>1. i \in 1..n
      BY <1>1, <1>5
    <3> QED
      BY <1>2, <1>4, <1>8, <2>2, <3>1 DEF Alternates
  <2> QED
    BY <2>1, <2>2
<1>11. ASSUME NEW i \in 1..n
       PROVE  Bracket(t, StartOf(t, i)) <=> Bracket(s, StartOf(s, i))
  <2> DEFINE T == {j \in 1..(i - 1) : t[j] = "/" /\ UpTo(t, j) % 2 = 0}
             S == {j \in 1..(i - 1) : s[j] = "/" /\ UpTo(s, j) % 2 = 0}
  <2>1. T = S
    <3>1. \A j \in 1..(i - 1) : j \in 1..n
      BY <1>1
    <3> QED
      BY <1>2, <1>7, <3>1
  <2>2. StartOf(t, i) = 1 + Max({0} \cup T) /\ StartOf(s, i) = 1 + Max({0} \cup S)
    BY DEF StartOf
  <2> HIDE DEF T, S
  <2>3. StartOf(t, i) = StartOf(s, i)
    BY <2>1, <2>2
  <2>4. StartOf(s, i) \in 1..i
    BY StartRange DEF n
  <2>5. StartOf(s, i) \in 1..n
    BY <1>1, <2>4
  <2> QED
    BY <1>4, <2>3, <2>5
<1>12. ASSUME NEW i \in 1..n, NEW k \in 1..n
       PROVE  Adjacent(t, i, k) <=> Adjacent(s, i, k)
  <2>1. \A j \in (i + 1)..(k - 1) : j \in 1..n
    BY <1>1
  <2>2. \A j \in (i + 1)..(k - 1) : Bracket(t, j) <=> Bracket(s, j)
    BY <1>4, <2>1
  <2> QED
    BY <1>4, <2>2 DEF Adjacent
<1>13. ASSUME NEW i \in 1..n, NEW k \in 1..n, i < k
       PROVE  GoodKey(t, i, k) <=> GoodKey(s, i, k)
  <2> DEFINE a == i + 1
             b == k - 1
             x == SubSeq(t, a, b)
             y == SubSeq(s, a, b)
  <2>1. /\ a \in Nat \ {0} /\ b \in Nat /\ b <= Len(t) /\ b <= Len(s) /\ a <= b + 1 /\ b <= n
    BY <1>1, <1>2, <1>13 DEF n
  <2> HIDE DEF a, b
  <2>2. x \in Seq(Char) /\ Len(x) = b + 1 - a /\ \A j \in 1..(b + 1 - a) : x[j] = t[a + j - 1]
    BY <1>2, <2>1, SubSeqIs
  <2>3. y \in Seq(Char) /\ Len(y) = b + 1 - a /\ \A j \in 1..(b + 1 - a) : y[j] = s[a + j - 1]
    BY <2>1, SubSeqIs
  <2>4. \A j \in 1..(b + 1 - a) : a + j - 1 \in 1..n
    BY <1>1, <2>1
  <2> HIDE DEF x, y
  <2>5. \A j \in 1..(b + 1 - a) : x[j] = y[j]
    BY <1>2, <2>2, <2>3, <2>4
  <2>6. x = y
    BY <2>2, <2>3, <2>5, SeqEqual
  <2>7. (GoodKey(t, i, k) <=> KeyOf(x).ok) /\ (GoodKey(s, i, k) <=> KeyOf(y).ok)
    BY DEF GoodKey, x, y, a, b
  <2> QED
    BY <2>6, <2>7
<1>14. GoodElems(t, n) <=> GoodElems(s, n)
  <2>1. ASSUME NEW i \in 1..n, NEW k \in 1..n
        PROVE  /\ Adjacent(t, i, k) <=> Adjacent(s, i, k)
               /\ t[i] = s[i] /\ (Bracket(t, StartOf(t, i)) <=> Bracket(s, StartOf(s, i)))
               /\ Adjacent(s, i, k) => (GoodKey(t, i, k) <=> GoodKey(s, i, k))
    <3>1. Adjacent(s, i, k) => i < k
      BY DEF Adjacent
    <3> QED
      BY <1>2, <1>11, <1>12, <1>13, <3>1
  <2> QED
    BY <2>1 DEF GoodElems
<1>15. GoodElems(t, m) <=> GoodElems(s, n)
  <2>1. m \in 1..Len(t)
    BY <1>2, <1>3
  <2>2. GoodElems(t, m) <=> GoodElems(t, m - 1)
    BY <1>2, <1>5, <2>1, GoodElemsPass
  <2> QED
    BY <1>3, <1>14, <2>2
<1>16. Orderly(t) <=> Orderly(s)
  BY <1>2, <1>9, <1>10, <1>15 DEF Orderly, n
<1> QED
  BY <1>16 DEF t

\* What is behind the origin is taken exactly when it is well formed.
LEMMA BodyTaken ==
  ASSUME NEW r \in Seq(Char)
  PROVE  ToPathElems(r).ok <=> BodyWellFormed(r)
<1>1. ToPathElems(r).ok <=> Orderly(Slashed(r))
  BY ElemsTaken
<1>2. Orderly(Slashed(r)) <=> Orderly(r)
  <2>1. CASE r # <<>> /\ Last(r) = "/"
    BY <2>1 DEF Slashed
  <2>2. CASE ~(r # <<>> /\ Last(r) = "/")
    <3>1. Slashed(r) = Append(r, "/")
      BY <2>2 DEF Slashed
    <3> QED
      BY <3>1, SlashAdded
  <2> QED
    BY <2>1, <2>2
<1>3. BodyWellFormed(r) <=> Orderly(r)
  BY BodyIs
<1> QED
  BY <1>1, <1>2, <1>3

\* ParsePath takes a string of any length exactly when it is one for a path: its
\* scanner of elements, and of each element its scanner of keys, find the brackets
\* where a grammar that does not scan has them (ParsePath, toPathElems, toPathElem,
\* parseXPathKeys).
THEOREM TakenAreWellFormed == PathsSpec => []AcceptsWellFormed
<1>1. PathsInv => AcceptsWellFormed
  <2> SUFFICES ASSUME PathsInv
               PROVE  ParsePath(input).ok <=> WellFormed(input)
    BY DEF AcceptsWellFormed
  <2> DEFINE p == input
             idx == Min(Positions(p, ":"))
             r == SubSeq(p, idx + 1, Len(p))
             q == ToPathElems(r)
             o == SubSeq(p, 1, idx - 1)
  <2>1. p \in Seq(Char)
    BY DEF PathsInv
  <2>2. WellFormed(p) <=> BodyWellFormed(IF p # <<>> /\ HasOrigin(p) THEN r ELSE p)
    BY WellFormedIs
  <2>3. CASE ~(p # <<>> /\ HasOrigin(p))
    <3>1. ParsePath(p) = ToPathElems(p)
      BY <2>3 DEF ParsePath
    <3>2. ToPathElems(p).ok <=> BodyWellFormed(p)
      BY <2>1, BodyTaken
    <3> QED
      BY <2>2, <2>3, <3>1, <3>2
  <2>4. CASE p # <<>> /\ HasOrigin(p)
    <3>1. r \in Seq(Char)
      <4>1. Positions(p, ":") # {} /\ Positions(p, ":") \subseteq Nat
        BY <2>1, <2>4 DEF HasOrigin, Positions
      <4>2. idx \in Nat
        BY <4>1, MinIsLeast
      <4> HIDE DEF idx
      <4>3. idx + 1 \in Nat \ {0} /\ Len(p) \in Nat /\ Len(p) <= Len(p)
        BY <2>1, <4>2
      <4> DEFINE a == idx + 1
                 b == Len(p)
      <4> HIDE DEF p, a, b
      <4>4. SubSeq(p, a, b) \in Seq(Char)
        BY <2>1, <4>3, SubSeqIs DEF a, b
      <4> QED
        BY <4>4 DEF a, b
    <3>2. ParsePath(p) = IF q.ok THEN [q EXCEPT !.origin = o] ELSE Malformed
      BY <2>4 DEF ParsePath
    <3> HIDE DEF r
    <3>3. q.ok <=> BodyWellFormed(r)
      BY <3>1, BodyTaken
    <3>4. q.ok => ParsePath(p).ok
      <4> SUFFICES ASSUME q.ok
                   PROVE  ParsePath(p).ok
        OBVIOUS
      <4>1. PICK elem : q = Path(<<>>, elem)
        BY <3>1, ElemsParsed
      <4> HIDE DEF q, o, p
      <4>2. ParsePath(p) = [Path(<<>>, elem) EXCEPT !.origin = o]
        BY <3>2, <4>1
      <4>3. ParsePath(p) = Path(o, elem)
        BY <4>2, OriginSet
      <4> QED
        BY <4>3 DEF Path
    <3>5. ~q.ok => ~ParsePath(p).ok
      <4> HIDE DEF q
      <4> QED
        BY <3>2 DEF Malformed
    <3> HIDE DEF q
    <3> QED
      BY <2>2, <2>4, <3>3, <3>4, <3>5
  <2> QED
    BY <2>3, <2>4
<1> QED
  BY <1>1, PathsAlways, PTL
==============================================================================
