-------------------------- MODULE LiveSessionProofs --------------------------
(***************************************************************************)
(* The live commands, whatever the servers answer and wherever TCP cuts    *)
(* the stream, and the capture a sniffer takes of it: no bound on segments *)
(* or troubles.  The lemmas come first: induction, FlattenSeq, the order   *)
(* of the packets, where a cell is in what they reassemble to, and what    *)
(* parse_listings finds there; then what keeps StreamInv, the session, and *)
(* the theorems.                                                           *)
(***************************************************************************)
EXTENDS LiveSession, SequenceTheorems, FiniteSetTheorems, TLAPS

-----------------------------------------------------------------------------
(* Induction, with a set in place of the predicate *)

LEMMA LeastOf ==
    ASSUME NEW S, S \subseteq Nat, S # {}
    PROVE  \E x \in S : \A y \in S : x <= y
<1> DEFINE Less == OpToRel(<, Nat)
<1>1. PICK x \in S : \A y \in S : ~ (<<y, x>> \in Less)
  <2> HIDE DEF Less
  <2>1. IsWellFoundedOn(Less, Nat)
    BY NatLessThanWellFounded DEF Less
  <2> QED  BY <2>1, WFMin
<1>2. \A y \in S : ~ (y < x)
  BY <1>1 DEF OpToRel
<1> HIDE DEF Less
<1>3. \A y \in S : x <= y
  BY <1>2
<1> QED  BY <1>3

LEMMA UpTo ==
    ASSUME NEW a \in Nat, NEW n \in Nat, NEW T, a <= n => a \in T,
           \A k \in a .. n - 1 : k \in T => k + 1 \in T
    PROVE  \A k \in a .. n : k \in T
<1> DEFINE bad == {k \in a .. n : k \notin T}
<1> SUFFICES ASSUME bad # {}
             PROVE  FALSE
  OBVIOUS
<1>1. bad \subseteq Nat
  OBVIOUS
<1>2. PICK k \in bad : \A j \in bad : k <= j
  <2> HIDE DEF bad
  <2> QED  BY <1>1, LeastOf
<1>3. k \in a .. n /\ k \notin T /\ k # a
  BY <1>2
<1>4. k - 1 \in a .. n - 1
  BY <1>3
<1>5. k - 1 \in T
  BY <1>2, <1>4
<1> QED  BY <1>3, <1>4, <1>5

-----------------------------------------------------------------------------
(* FlattenSeq *)

\* Its recursive function is one.
LEMMA FlattenUnfolds ==
    ASSUME NEW s, Len(s) \in Nat, Len(s) # 0
    PROVE  \E f : /\ f = [i \in 1 .. Len(s) |-> IF i = 1 THEN s[i] ELSE f[i - 1] \o s[i]]
                  /\ FlattenSeq(s) = f[Len(s)]
<1> DEFINE n == Len(s)
           step(k, g) == [i \in 1 .. k |-> IF i = 1 THEN s[i] ELSE g[i - 1] \o s[i]]
           T == {k \in 1 .. n : \E g : g = step(k, g)}
<1>1. 1 \in T
  <2> DEFINE g == [i \in 1 .. 1 |-> s[i]]
  <2>1. g = step(1, g)
    OBVIOUS
  <2> HIDE DEF g, step
  <2> QED  BY <2>1
<1>2. ASSUME NEW k \in 1 .. n - 1, k \in T
      PROVE  k + 1 \in T
  <2>1. PICK g : g = step(k, g)
    BY <1>2
  <2> DEFINE h == [i \in 1 .. k + 1 |-> IF i = k + 1 THEN g[k] \o s[i] ELSE g[i]]
  <2>2. ASSUME NEW i \in 1 .. k + 1
        PROVE  h[i] = IF i = 1 THEN s[i] ELSE h[i - 1] \o s[i]
    <3>1. CASE i = k + 1
      <4>1. i - 1 = k /\ i # 1 /\ i - 1 \in 1 .. k + 1 /\ i - 1 # k + 1
        BY <3>1
      <4> QED  BY <3>1, <4>1
    <3>2. CASE i # k + 1
      <4>0. i \in 1 .. k
        BY <3>2
      <4>1. i \in 1 .. k /\ g[i] = IF i = 1 THEN s[i] ELSE g[i - 1] \o s[i]
        <5>1. step(k, g)[i] = IF i = 1 THEN s[i] ELSE g[i - 1] \o s[i]
          BY <4>0
        <5> HIDE DEF step
        <5> QED  BY <2>1, <4>0, <5>1
      <4>2. h[i] = g[i] /\ (i # 1 => h[i - 1] = g[i - 1])
        BY <3>2, <4>1
      <4> QED  BY <4>1, <4>2
    <3> QED  BY <3>1, <3>2
  <2>3. h = step(k + 1, h)
    <3>1. h = [i \in 1 .. k + 1 |-> h[i]]
      OBVIOUS
    <3> HIDE DEF h
    <3> QED  BY <2>2, <3>1
  <2> HIDE DEF h, step
  <2> QED  BY <2>3
<1>3. n \in T
  <2> HIDE DEF T
  <2>1. n \in Nat /\ n \in 1 .. n
    OBVIOUS
  <2> HIDE DEF n
  <2> QED  BY <1>1, <1>2, <2>1, UpTo
<1>4. PICK g : g = step(n, g)
  BY <1>3
<1> DEFINE f == CHOOSE g1 : g1 = step(n, g1)
<1>5. f = step(n, f)
  <2> HIDE DEF step
  <2> QED  BY <1>4
<1>6. FlattenSeq(s) = f[n]
  BY Zenon DEF FlattenSeq
<1> HIDE DEF f
<1> QED  BY <1>5, <1>6

\* Every part is in the whole, one after the other.
Bases(s) == [1 .. Len(s) + 1 -> Nat]
Laid(s, all, base) ==
    /\ base[1] = 0 /\ base[Len(s) + 1] = Len(all)
    /\ \A k \in 1 .. Len(s) :
        /\ base[k + 1] = base[k] + Len(s[k])
        /\ \A x \in 1 .. Len(s[k]) :
            base[k] + x \in 1 .. Len(all) /\ all[base[k] + x] = s[k][x]

LEMMA FlattenLays ==
    ASSUME NEW C, NEW s \in Seq(Seq(C))
    PROVE  /\ FlattenSeq(s) \in Seq(C)
           /\ \E base \in Bases(s) : Laid(s, FlattenSeq(s), base)
<1> DEFINE n == Len(s)
<1>1. n \in Nat /\ \A k \in 1 .. n : s[k] \in Seq(C)
  BY LenProperties, ElementOfSeq
<1>2. CASE n = 0
  <2> DEFINE base == [k \in 1 .. Len(s) + 1 |-> 0]
  <2>1. s = <<>>
    BY <1>2, EmptySeq
  <2>2. FlattenSeq(s) = s
    BY <1>2 DEF FlattenSeq
  <2>3. base \in Bases(s) /\ base[1] = 0 /\ base[Len(s) + 1] = 0
    BY <1>2 DEF Bases
  <2> HIDE DEF base
  <2>4. Laid(s, s, base)
    BY <1>2, <2>3 DEF Laid
  <2> QED  BY <2>1, <2>2, <2>3, <2>4, EmptySeq
<1>3. CASE n # 0
  <2>1. PICK f : /\ f = [i \in 1 .. n |-> IF i = 1 THEN s[i] ELSE f[i - 1] \o s[i]]
                 /\ FlattenSeq(s) = f[n]
    BY <1>1, <1>3, FlattenUnfolds
  <2> DEFINE next(i) == IF i = 1 THEN s[i] ELSE f[i - 1] \o s[i]
  <2>2. \A i \in 1 .. n : f[i] = next(i)
    <3>1. \A i \in 1 .. n : [j \in 1 .. n |-> next(j)][i] = next(i)
      OBVIOUS
    <3>2. f = [j \in 1 .. n |-> next(j)]
      BY <2>1
    <3> HIDE DEF next
    <3> QED  BY <3>1, <3>2
  <2>3. f[1] = s[1] /\ \A i \in 1 .. n - 1 : f[i + 1] = f[i] \o s[i + 1]
    <3>1. f[1] = s[1]
      BY <1>1, <1>3, <2>2
    <3>2. ASSUME NEW i \in 1 .. n - 1
          PROVE  f[i + 1] = f[i] \o s[i + 1]
      <4> DEFINE j == i + 1
      <4>1. j \in 1 .. n /\ j # 1 /\ j - 1 = i
        BY <1>1
      <4> HIDE DEF j
      <4>2. f[j] = f[j - 1] \o s[j]
        BY <2>2, <4>1
      <4>3. f[j] = f[i] \o s[j]
        BY <4>1, <4>2
      <4> QED  BY <4>3 DEF j
    <3> QED  BY <3>1, <3>2
  <2> HIDE DEF n
  <2>4. \A i \in 1 .. n : f[i] \in Seq(C)
    <3> DEFINE T == {i \in 1 .. n : f[i] \in Seq(C)}
    <3>1. 1 \in T
      BY <1>1, <1>3, <2>3
    <3>2. ASSUME NEW i \in 1 .. n - 1, i \in T
          PROVE  i + 1 \in T
      <4>1. i + 1 \in 1 .. n /\ f[i] \in Seq(C) /\ s[i + 1] \in Seq(C)
        BY <1>1, <3>2
      <4>2. f[i] \o s[i + 1] \in Seq(C)
        BY <4>1, ConcatProperties
      <4>3. f[i + 1] = f[i] \o s[i + 1]
        BY <2>3
      <4> QED  BY <4>1, <4>2, <4>3
    <3> HIDE DEF T
    <3>3. \A i \in 1 .. n : i \in T
      BY <1>1, <3>1, <3>2, UpTo
    <3> QED  BY <3>3 DEF T
  <2>5. \A i \in 1 .. n : Len(f[i]) \in Nat /\ Len(s[i]) \in Nat
    BY <1>1, <2>4, LenProperties
  <2>6. ASSUME NEW i \in 1 .. n - 1
        PROVE  /\ Len(f[i + 1]) = Len(f[i]) + Len(s[i + 1])
               /\ \A x \in 1 .. Len(f[i]) : f[i + 1][x] = f[i][x]
               /\ \A x \in 1 .. Len(s[i + 1]) : f[i + 1][Len(f[i]) + x] = s[i + 1][x]
    <3>1. i \in 1 .. n /\ i + 1 \in 1 .. n
      BY <1>1
    <3>2. f[i + 1] = f[i] \o s[i + 1] /\ f[i] \in Seq(C) /\ s[i + 1] \in Seq(C)
      BY <1>1, <2>3, <2>4, <3>1
    <3>3. Len(f[i]) \in Nat /\ Len(s[i + 1]) \in Nat
      BY <2>5, <3>1
    <3> DEFINE u == f[i]
               v == s[i + 1]
    <3>4. /\ Len(u \o v) = Len(u) + Len(v)
          /\ \A x \in 1 .. Len(u) + Len(v) :
                (u \o v)[x] = IF x <= Len(u) THEN u[x] ELSE v[x - Len(u)]
      <4> HIDE DEF u, v
      <4>1. u \in Seq(C) /\ v \in Seq(C)
        BY <3>2 DEF u, v
      <4> QED  BY <4>1, ConcatProperties
    <3> DEFINE a == Len(u)
               b == Len(v)
    <3>5. /\ \A x \in 1 .. a : x \in 1 .. a + b /\ x <= a
          /\ \A x \in 1 .. b : a + x \in 1 .. a + b /\ ~ (a + x <= a) /\ (a + x) - a = x
      <4>1. a \in Nat /\ b \in Nat
        BY <3>3
      <4> HIDE DEF a, b
      <4> QED  BY <4>1
    <3> DEFINE w == u \o v
    <3>6. /\ Len(w) = a + b
          /\ \A x \in 1 .. a + b : w[x] = IF x <= a THEN u[x] ELSE v[x - a]
      BY <3>4
    <3>7. w = f[i + 1]
      BY <3>2
    <3> HIDE DEF a, b, u, v, w
    <3>8. /\ Len(w) = a + b
          /\ \A x \in 1 .. a : w[x] = u[x]
          /\ \A x \in 1 .. b : w[a + x] = v[x]
      BY <3>5, <3>6
    <3> QED  BY <3>7, <3>8 DEF a, b, u, v
  <2>7. ASSUME NEW k \in 1 .. n
        PROVE  \A m \in k .. n : /\ Len(f[k]) <= Len(f[m])
                                 /\ \A x \in 1 .. Len(f[k]) : f[m][x] = f[k][x]
    <3> DEFINE T == {m \in k .. n : /\ Len(f[k]) <= Len(f[m])
                                    /\ \A x \in 1 .. Len(f[k]) : f[m][x] = f[k][x]}
    <3>1. k \in T
      BY <1>1, <2>5
    <3>2. ASSUME NEW m \in k .. n - 1, m \in T
          PROVE  m + 1 \in T
      <4>1. m \in 1 .. n - 1 /\ m \in 1 .. n /\ m + 1 \in k .. n /\ m + 1 \in 1 .. n
        BY <1>1
      <4>2. Len(f[m]) \in Nat /\ Len(s[m + 1]) \in Nat /\ Len(f[k]) \in Nat
        BY <2>5, <4>1
      <4>3. Len(f[m + 1]) = Len(f[m]) + Len(s[m + 1])
        BY <2>6, <4>1
      <4>4. \A x \in 1 .. Len(f[k]) : x \in 1 .. Len(f[m]) /\ f[m][x] = f[k][x]
        BY <3>2, <4>2
      <4>5. \A x \in 1 .. Len(f[k]) : f[m + 1][x] = f[k][x]
        BY <2>6, <4>1, <4>4
      <4>6. Len(f[k]) <= Len(f[m + 1])
        <5> DEFINE a == Len(f[k])
                   b == Len(f[m])
                   c == Len(s[m + 1])
        <5>1. a \in Nat /\ b \in Nat /\ c \in Nat /\ a <= b /\ Len(f[m + 1]) = b + c
          BY <3>2, <4>2, <4>3
        <5> HIDE DEF a, b, c
        <5>2. a <= Len(f[m + 1])
          BY <5>1
        <5> QED  BY <5>2 DEF a
      <4> QED  BY <4>1, <4>5, <4>6
    <3>3. \A m \in k .. n : m \in T
      <4> HIDE DEF T
      <4>1. k \in Nat
        BY <1>1
      <4> QED  BY <1>1, <3>1, <3>2, <4>1, UpTo
    <3> QED  BY <3>3
  <2> DEFINE base == [k \in 1 .. n + 1 |-> IF k = 1 THEN 0 ELSE Len(f[k - 1])]
  <2>8. base[1] = 0 /\ \A k \in 1 .. n : base[k + 1] = Len(f[k])
    <3>1. \A k \in 1 .. n : k + 1 \in 1 .. n + 1 /\ k + 1 # 1 /\ (k + 1) - 1 = k
      BY <1>1
    <3> QED  BY <1>1, <3>1
  <2>9. base \in Bases(s)
    <3>1. \A k \in 1 .. n + 1 : k # 1 => k - 1 \in 1 .. n
      BY <1>1
    <3> QED  BY <2>5, <3>1 DEF Bases, n
  <2> HIDE DEF base
  <2>10. ASSUME NEW k \in 1 .. n
         PROVE  /\ base[k + 1] = base[k] + Len(s[k])
                /\ \A x \in 1 .. Len(s[k]) :
                    base[k] + x \in 1 .. Len(f[k]) /\ f[k][base[k] + x] = s[k][x]
    <3>1. CASE k = 1
      <4>1. base[k] = 0 /\ base[k + 1] = Len(s[k]) /\ f[k] = s[k]
        BY <2>3, <2>8, <3>1
      <4> QED  BY <2>5, <4>1
    <3>2. CASE k # 1
      <4> DEFINE i == k - 1
      <4>1. i \in 1 .. n - 1 /\ i \in 1 .. n /\ k = i + 1
        BY <1>1, <3>2
      <4>2. base[k] = Len(f[i]) /\ base[k + 1] = Len(f[k])
        BY <2>8, <4>1
      <4>3. /\ Len(f[k]) = Len(f[i]) + Len(s[k])
            /\ \A x \in 1 .. Len(s[k]) : f[k][Len(f[i]) + x] = s[k][x]
        BY <2>6, <4>1
      <4>4. Len(f[i]) \in Nat /\ Len(s[k]) \in Nat
        BY <2>5, <4>1
      <4> DEFINE a == Len(f[i])
                 b == Len(s[k])
      <4>5. /\ a \in Nat /\ b \in Nat /\ base[k] = a /\ Len(f[k]) = a + b
            /\ base[k + 1] = a + b /\ \A x \in 1 .. b : f[k][a + x] = s[k][x]
        BY <4>2, <4>3, <4>4
      <4> HIDE DEF a, b
      <4>6. \A x \in 1 .. b : base[k] + x \in 1 .. Len(f[k]) /\ f[k][base[k] + x] = s[k][x]
        BY <4>5
      <4> QED  BY <4>5, <4>6 DEF b
    <3> QED  BY <3>1, <3>2
  <2>11. ASSUME NEW k \in 1 .. n, NEW x \in 1 .. Len(s[k])
         PROVE  base[k] + x \in 1 .. Len(f[n]) /\ f[n][base[k] + x] = s[k][x]
    <3>1. base[k] + x \in 1 .. Len(f[k]) /\ f[k][base[k] + x] = s[k][x]
      BY <2>10
    <3>2. n \in k .. n
      BY <1>1
    <3>3. Len(f[k]) <= Len(f[n]) /\ \A y \in 1 .. Len(f[k]) : f[n][y] = f[k][y]
      BY <2>7, <3>2
    <3>4. Len(f[k]) \in Nat /\ Len(f[n]) \in Nat
      BY <1>1, <1>3, <2>5
    <3> QED  BY <3>1, <3>3, <3>4
  <2>12. Laid(s, f[n], base)
    BY <1>1, <1>3, <2>8, <2>10, <2>11 DEF Laid, n
  <2> DEFINE all == FlattenSeq(s)
  <2>13. n \in 1 .. n
    BY <1>1, <1>3
  <2>14. all = f[n]
    BY <2>1
  <2>15. all \in Seq(C) /\ Laid(s, all, base)
    BY <2>4, <2>12, <2>13, <2>14
  <2> HIDE DEF all
  <2>16. \E b \in Bases(s) : Laid(s, all, b)
    BY <2>9, <2>15
  <2> QED  BY <2>15, <2>16 DEF all
<1> QED  BY <1>2, <1>3

-----------------------------------------------------------------------------
(* The k-th of a finite set of numbers *)

UpToIn(S, n) == {m \in S : m <= n}

LEMMA RankIsNumber ==
    ASSUME NEW S, IsFiniteSet(S), NEW n
    PROVE  IsFiniteSet(UpToIn(S, n)) /\ Cardinality(UpToIn(S, n)) \in Nat
<1>1. UpToIn(S, n) \in SUBSET S
  BY DEF UpToIn
<1>2. IsFiniteSet(UpToIn(S, n))
  BY <1>1, FS_Subset
<1> QED  BY <1>2, FS_CardinalityType

LEMMA RankGrows ==
    ASSUME NEW S, S \subseteq Nat, IsFiniteSet(S), NEW n \in Nat, NEW m \in S, n < m
    PROVE  Cardinality(UpToIn(S, n)) < Cardinality(UpToIn(S, m))
<1> DEFINE U == UpToIn(S, n)
           V == UpToIn(S, m)
<1>1. U \in SUBSET V /\ m \in V /\ m \notin U
  <2>1. \A x \in U : x \in V
    BY DEF UpToIn
  <2>2. m \in Nat /\ m \in V /\ m \notin U
    BY DEF UpToIn
  <2> QED  BY <2>1, <2>2
<1>2. IsFiniteSet(V) /\ Cardinality(U) \in Nat /\ Cardinality(V) \in Nat
  BY RankIsNumber
<1> HIDE DEF U, V
<1>3. Cardinality(U) <= Cardinality(V)
  BY <1>1, <1>2, FS_Subset
<1>5. Cardinality(V) = Cardinality(U) => V = U
  BY <1>1, <1>2, FS_Subset
<1>4. Cardinality(U) < Cardinality(V)
  BY <1>1, <1>2, <1>3, <1>5
<1> QED  BY <1>4 DEF U, V

LEMMA RankIsTaken ==
    ASSUME NEW S, S \subseteq Nat, IsFiniteSet(S), NEW b \in Nat, \A x \in S : x <= b,
           NEW k \in 1 .. Cardinality(S)
    PROVE  \E n \in S : Cardinality(UpToIn(S, n)) = k
<1> DEFINE Enough == {v \in Nat : Cardinality(UpToIn(S, v)) >= k}
<1>1. Cardinality(S) \in Nat /\ S # {}
  BY FS_CardinalityType, FS_EmptySet
<1>2. Enough # {}
  <2>1. UpToIn(S, b) = S
    BY DEF UpToIn
  <2> QED  BY <1>1, <2>1
<1>3. PICK v \in Enough : \A w \in Enough : v <= w
  <2>1. Enough \subseteq Nat
    OBVIOUS
  <2> HIDE DEF Enough
  <2> QED  BY <1>2, <2>1, LeastOf
<1>4. v \in Nat /\ Cardinality(UpToIn(S, v)) >= k
  BY <1>3
<1> DEFINE Below == {m \in S : m < v}
<1>5. IsFiniteSet(Below) /\ Cardinality(Below) \in Nat /\ Cardinality(Below) < k
  <2>1. CASE v = 0
    <3>1. Below = {}
      <4>1. \A m \in S : ~ (m < v)
        BY <2>1
      <4> QED  BY <4>1
    <3> HIDE DEF Below
    <3>2. IsFiniteSet(Below) /\ Cardinality(Below) = 0
      BY <3>1, FS_EmptySet
    <3>3. 0 < k
      BY <1>1
    <3> QED  BY <3>2, <3>3
  <2>2. CASE v # 0
    <3>1. v - 1 \in Nat /\ v - 1 \notin Enough
      BY <1>3, <1>4, <2>2
    <3>2. Below = UpToIn(S, v - 1)
      <4>1. \A m \in S : m < v <=> m <= v - 1
        BY <1>4, <3>1
      <4> QED  BY <4>1 DEF UpToIn
    <3>3. IsFiniteSet(UpToIn(S, v - 1)) /\ Cardinality(UpToIn(S, v - 1)) \in Nat
      BY RankIsNumber
    <3>4. ~ (Cardinality(UpToIn(S, v - 1)) >= k)
      BY <3>1
    <3> HIDE DEF Below, Enough
    <3> QED  BY <3>2, <3>3, <3>4
  <2> QED  BY <2>1, <2>2
<1>6. CASE v \in S
  <2>1. UpToIn(S, v) = Below \cup {v} /\ v \notin Below
    <3>1. \A m \in S : m <= v <=> (m < v \/ m = v)
      BY <1>4
    <3>2. v \notin Below
      BY <1>4
    <3> QED  BY <1>6, <3>1, <3>2 DEF UpToIn
  <2>2. Cardinality(UpToIn(S, v)) = Cardinality(Below) + 1
    <3> HIDE DEF Below
    <3> QED  BY <1>5, <2>1, FS_AddElement
  <2> HIDE DEF Below
  <2> QED  BY <1>4, <1>5, <1>6, <2>2
<1>7. CASE v \notin S
  <2>1. UpToIn(S, v) = Below
    <3>1. \A m \in S : m <= v <=> m < v
      BY <1>4, <1>7
    <3> QED  BY <3>1 DEF UpToIn
  <2> HIDE DEF Below
  <2> QED  BY <1>4, <1>5, <2>1
<1> QED  BY <1>6, <1>7

-----------------------------------------------------------------------------
(* The packets of a capture in order *)

Packets == [off : Nat, len : Nat \ {0}]
Cells == [message : Nat, part : Nat \ {0}, parts : Nat \ {0}]

Carried == {capture[i] : i \in DOMAIN capture}
Before(p, q) == p.off + p.len <= q.off

\* What a sniffer has seen of a stream: parts of what was sent, and of two
\* parts either the same cells or different ones.
Captured ==
    /\ stream \in Seq(Cells) /\ capture \in Seq(Packets)
    /\ Sent \in Nat /\ Sent <= Len(stream)
    /\ \A p \in Carried : p.off + p.len <= Sent
    /\ \A p, q \in Carried : p = q \/ Before(p, q) \/ Before(q, p)

LEMMA CarriedAre ==
    ASSUME Captured
    PROVE  \A p \in Carried : /\ p \in Packets
                              /\ p.off \in Nat /\ p.len \in Nat /\ p.len > 0
                              /\ p.off + p.len <= Sent
<1>1. \A p \in Carried : p \in Packets
  BY LenProperties, ElementOfSeq DEF Captured, Carried
<1>2. \A p \in Packets : p.off \in Nat /\ p.len \in Nat /\ p.len > 0
  BY DEF Packets
<1> QED  BY <1>1, <1>2 DEF Captured

\* While the numbers do not wrap, a packet's number tells it from every other.
LEMMA NumbersTell ==
    ASSUME Captured, Orderly
    PROVE  /\ \A p \in Carried : Number(p) = Isn + p.off /\ Number(p) \in 0 .. SeqWrap
           /\ \A p, q \in Carried : Number(p) = Number(q) => p = q
<1>1. \A p \in Carried : Number(p) = Isn + p.off /\ Number(p) \in 0 .. SeqWrap
  <2> SUFFICES ASSUME NEW p \in Carried
               PROVE  Number(p) = Isn + p.off /\ Number(p) \in 0 .. SeqWrap
    OBVIOUS
  <2> DEFINE a == p.off
             b == p.len
  <2>1. a \in Nat /\ b \in Nat /\ b > 0 /\ a + b <= Sent
    BY CarriedAre
  <2>2. Number(p) = (Isn + a) % SeqWrap
    BY DEF Number
  <2> HIDE DEF a, b
  <2>3. Isn \in Nat /\ SeqWrap \in Nat /\ Sent \in Nat /\ Isn + Sent <= SeqWrap
    BY StreamAssumption DEF Orderly, Captured
  <2>4. Isn + a \in 0 .. SeqWrap - 1
    BY <2>1, <2>3
  <2>5. (Isn + a) % SeqWrap = Isn + a
    BY <2>3, <2>4
  <2>6. Number(p) = Isn + a /\ Number(p) \in 0 .. SeqWrap
    BY <2>2, <2>3, <2>4, <2>5
  <2> QED  BY <2>6 DEF a
<1>2. ASSUME NEW p \in Carried, NEW q \in Carried, Number(p) = Number(q)
      PROVE  p = q
  <2>1. p.off = q.off
    BY <1>1, <1>2, CarriedAre, StreamAssumption
  <2>2. ~ Before(p, q) /\ ~ Before(q, p)
    BY <2>1, CarriedAre DEF Before
  <2> QED  BY <2>2 DEF Captured
<1> QED  BY <1>1, <1>2

\* The n packets q come one after the other and leave none out.
Sorted(n, q) ==
    /\ \A k, l \in 1 .. n : k < l => Before(q[k], q[l])
    /\ \A p \in Carried : \E k \in 1 .. n : q[k] = p

\* Without the numbers and the choices by them: _reassemble puts one payload
\* after the other in the order of the packets' offsets.
LEMMA ReassembledInOrder ==
    ASSUME Captured, Orderly
    PROVE  \E n \in Nat : \E q \in [1 .. n -> Carried] :
             /\ Sorted(n, q)
             /\ Reassembled = FlattenSeq([k \in 1 .. n |-> Payload(q[k])])
<1> DEFINE numbers == {Number(p) : p \in Carried}
           nth(k) == CHOOSE x \in numbers : Cardinality({m \in numbers : m <= x}) = k
           kept(x) == CHOOSE p \in Carried :
               Number(p) = x /\ \A q \in Carried : Number(q) = x => p.len <= q.len
           n == Cardinality(numbers)
           q == [k \in 1 .. n |-> kept(nth(k))]
           rank(x) == Cardinality(UpToIn(numbers, x))
<1>1. /\ \A x \in numbers : x \in Nat /\ x <= SeqWrap
      /\ \A x \in numbers : \E p \in Carried : Number(p) = x
      /\ \A p \in Carried : Number(p) \in numbers
  BY NumbersTell, StreamAssumption
<1>2. Reassembled = FlattenSeq([k \in 1 .. n |-> Payload(kept(nth(k)))])
  BY Zenon DEF Reassembled, Carried
<1>3. \A x : kept(x) = CHOOSE p \in Carried :
               Number(p) = x /\ \A r \in Carried : Number(r) = x => p.len <= r.len
  BY Zenon
<1>4. \A k : nth(k) = CHOOSE x \in numbers : rank(x) = k
  BY Zenon DEF UpToIn
<1> HIDE DEF numbers, nth, kept
<1>5. numbers \subseteq Nat /\ IsFiniteSet(numbers)
  <2>1. numbers \in SUBSET Nat
    BY <1>1
  <2>2. \A x \in numbers : x <= SeqWrap
    BY <1>1
  <2>3. SeqWrap \in Nat
    BY StreamAssumption
  <2> QED  BY <2>1, <2>2, <2>3, FS_BoundedSetOfNaturals
<1>6. n \in Nat
  BY <1>5, FS_CardinalityType
<1>7. \A x, y \in numbers : rank(x) = rank(y) => x = y
  <2>1. \A x, y \in numbers : x < y => rank(x) < rank(y)
    BY <1>1, <1>5, RankGrows
  <2>2. \A x \in numbers : rank(x) \in Nat
    BY <1>5, RankIsNumber
  <2>3. \A x, y \in numbers : x = y \/ x < y \/ y < x
    BY <1>1
  <2> HIDE DEF rank
  <2> QED  BY <2>1, <2>2, <2>3
<1>8. \A k \in 1 .. n : nth(k) \in numbers /\ rank(nth(k)) = k
  <2>1. \A k \in 1 .. n : \E x \in numbers : rank(x) = k
    BY <1>1, <1>5, RankIsTaken, StreamAssumption
  <2> HIDE DEF rank, n
  <2> QED  BY <1>4, <2>1
<1>9. \A x \in numbers : kept(x) \in Carried /\ Number(kept(x)) = x
  <2> SUFFICES ASSUME NEW x \in numbers
               PROVE  kept(x) \in Carried /\ Number(kept(x)) = x
    OBVIOUS
  <2>1. PICK p \in Carried : Number(p) = x
    BY <1>1
  <2>2. \A r \in Carried : Number(r) = x => p.len <= r.len
    BY <2>1, NumbersTell, CarriedAre
  <2>3. \E p1 \in Carried : Number(p1) = x /\ \A r \in Carried : Number(r) = x => p1.len <= r.len
    BY <2>1, <2>2
  <2> QED  BY Zenon, <1>3, <2>3
<1>10. \A p \in Carried : kept(Number(p)) = p
  BY <1>1, <1>9, NumbersTell
<1>11. q \in [1 .. n -> Carried] /\ \A k \in 1 .. n : q[k] = kept(nth(k))
  BY <1>8, <1>9
<1> HIDE DEF q
<1>12. ASSUME NEW k \in 1 .. n, NEW l \in 1 .. n, k < l
       PROVE  Before(q[k], q[l])
  <2>1. /\ nth(k) \in numbers /\ nth(l) \in numbers
        /\ rank(nth(k)) = k /\ rank(nth(l)) = l
    BY <1>8
  <2>2. nth(k) < nth(l)
    <3>1. nth(l) < nth(k) => rank(nth(l)) < rank(nth(k))
      BY <1>1, <1>5, <2>1, RankGrows
    <3>2. nth(k) # nth(l)
      BY <1>6, <1>12, <2>1
    <3>3. nth(k) \in Nat /\ nth(l) \in Nat
      BY <1>1, <2>1
    <3> HIDE DEF rank, n
    <3> QED  BY <1>6, <1>12, <2>1, <3>1, <3>2, <3>3
  <2>3. /\ q[k] \in Carried /\ q[l] \in Carried
        /\ Number(q[k]) = nth(k) /\ Number(q[l]) = nth(l)
    BY <1>9, <1>11, <2>1
  <2>4. Isn + q[k].off < Isn + q[l].off
    BY <2>2, <2>3, NumbersTell
  <2>5. q[k] # q[l] /\ ~ Before(q[l], q[k])
    BY <2>3, <2>4, CarriedAre, StreamAssumption DEF Before
  <2> QED  BY <2>3, <2>5 DEF Captured
<1>13. ASSUME NEW p \in Carried
       PROVE  \E k \in 1 .. n : q[k] = p
  <2> DEFINE x == Number(p)
             k == rank(x)
  <2>1. x \in numbers
    BY <1>1
  <2>2. k \in 1 .. n
    <3>1. UpToIn(numbers, x) \in SUBSET numbers /\ UpToIn(numbers, x) # {}
      <4>1. x <= x
        BY <1>1, <2>1
      <4> HIDE DEF x
      <4> QED  BY <2>1, <4>1 DEF UpToIn
    <3>2. IsFiniteSet(UpToIn(numbers, x)) /\ k \in Nat
      BY <1>5, RankIsNumber
    <3>3. k <= n /\ k # 0
      BY <1>5, <3>1, <3>2, FS_Subset, FS_EmptySet
    <3> HIDE DEF k, n
    <3> QED  BY <1>6, <3>2, <3>3
  <2>3. nth(k) = x
    <3>1. nth(k) \in numbers /\ rank(nth(k)) = rank(x)
      BY <1>8, <2>2
    <3> HIDE DEF rank
    <3> QED  BY <1>7, <2>1, <3>1
  <2>4. q[k] = p
    BY <1>10, <1>11, <2>2, <2>3
  <2> QED  BY <2>2, <2>4
<1>14. Sorted(n, q)
  <2> HIDE DEF n
  <2> QED  BY <1>12, <1>13 DEF Sorted
<1>15. Reassembled = FlattenSeq([k \in 1 .. n |-> Payload(q[k])])
  <2>1. [k \in 1 .. n |-> Payload(q[k])] = [k \in 1 .. n |-> Payload(kept(nth(k)))]
    BY <1>11
  <2> QED  BY <1>2, <2>1
<1> HIDE DEF n
<1> QED  BY <1>6, <1>11, <1>14, <1>15

-----------------------------------------------------------------------------
(* Where a cell of the stream is in the reassembled capture *)

\* pos[j] is the place of the j-th cell, neighbours are neighbours, and the
\* first and the last cell of the stream come first and last.
Places(pos) ==
    /\ \A j \in Seen : pos[j] \in 1 .. Len(Reassembled) /\ Reassembled[pos[j]] = stream[j]
    /\ \A j \in Seen : j + 1 \in Seen => pos[j + 1] = pos[j] + 1
    /\ 1 \in Seen => pos[1] = 1
    /\ Sent \in Seen => pos[Sent] = Len(Reassembled)

LEMMA SeenAre ==
    ASSUME Captured
    PROVE  \A j : j \in Seen <=>
             \E p \in Carried : j \in p.off + 1 .. p.off + p.len
<1>1. Seen = UNION {p.off + 1 .. p.off + p.len : p \in Carried}
  BY DEF Seen, Carried
<1> QED  BY <1>1

\* The payloads of packets are parts of the stream.
LEMMA PayloadIs ==
    ASSUME Captured, NEW p \in Carried
    PROVE  /\ Payload(p) \in Seq(Cells) /\ Len(Payload(p)) = p.len
           /\ \A x \in 1 .. p.len : Payload(p)[x] = stream[p.off + x]
<1> DEFINE a == p.off
           b == p.len
<1>1. a \in Nat /\ b \in Nat /\ b > 0 /\ a + b <= Sent
  BY CarriedAre
<1>2. Payload(p) = SubSeq(stream, a + 1, a + b)
  BY DEF Payload
<1>3. stream \in Seq(Cells) /\ Len(stream) \in Nat /\ Sent \in Nat /\ Sent <= Len(stream)
  BY LenProperties DEF Captured
<1> HIDE DEF a, b
<1> DEFINE m == a + 1
           n == a + b
<1>4. \A i \in m .. n : stream[i] \in Cells
  <2>1. \A i \in m .. n : i \in 1 .. Len(stream)
    BY <1>1, <1>3
  <2> QED  BY <1>3, <2>1, ElementOfSeq
<1>5. m \in Int /\ n \in Int /\ m <= n /\ n - m + 1 = b /\ \A x \in 1 .. b : m + x - 1 = a + x
  BY <1>1
<1> HIDE DEF m, n
<1>6. /\ SubSeq(stream, m, n) \in Seq(Cells)
      /\ Len(SubSeq(stream, m, n)) = b
      /\ \A x \in 1 .. b : SubSeq(stream, m, n)[x] = stream[m + x - 1]
  BY <1>4, <1>5, SubSeqProperties
<1>7. Payload(p) = SubSeq(stream, m, n)
  BY <1>2 DEF m, n
<1>8. /\ Payload(p) \in Seq(Cells) /\ Len(Payload(p)) = b
      /\ \A x \in 1 .. b : Payload(p)[x] = stream[a + x]
  BY <1>5, <1>6, <1>7
<1> QED  BY <1>8 DEF a, b

\* Every cell that was seen has its place.
LEMMA SeenIsPlaced ==
    ASSUME Captured, Orderly
    PROVE  /\ Reassembled \in Seq(Cells)
           /\ \E pos : Places(pos)
           /\ Seen = {} => Len(Reassembled) = 0
<1> PICK n \in Nat : \E q \in [1 .. n -> Carried] :
        /\ Sorted(n, q)
        /\ Reassembled = FlattenSeq([k \in 1 .. n |-> Payload(q[k])])
  BY ReassembledInOrder
<1>1. PICK q \in [1 .. n -> Carried] :
        /\ Sorted(n, q)
        /\ Reassembled = FlattenSeq([k \in 1 .. n |-> Payload(q[k])])
  OBVIOUS
<1> DEFINE s == [k \in 1 .. n |-> Payload(q[k])]
           R == Reassembled
           L == Len(Reassembled)
<1>2. s \in Seq(Seq(Cells)) /\ Len(s) = n /\ \A k \in 1 .. n : s[k] = Payload(q[k])
  <2>1. \A k \in 1 .. n : Payload(q[k]) \in Seq(Cells)
    BY <1>1, PayloadIs
  <2> QED  BY <1>1, <2>1, IsASeq
<1>3. R = FlattenSeq(s)
  BY <1>1
<1> HIDE DEF s, R
<1>4. R \in Seq(Cells) /\ \E b \in Bases(s) : Laid(s, R, b)
  BY <1>2, <1>3, FlattenLays
<1> PICK base \in Bases(s) : Laid(s, R, base)
  BY <1>4
<1> DEFINE o == [k \in 1 .. n |-> q[k].off]
           w == [k \in 1 .. n |-> q[k].len]
<1>5. L = Len(R) /\ L \in Nat /\ R = Reassembled
  BY <1>4, LenProperties DEF R
<1> HIDE DEF L
<1>6. /\ base[1] = 0 /\ base[n + 1] = L
      /\ \A k \in 1 .. n + 1 : base[k] \in Nat
  BY <1>2, <1>5 DEF Laid, Bases
<1>7. \A k \in 1 .. n : /\ o[k] \in Nat /\ w[k] \in Nat /\ w[k] > 0
                        /\ o[k] + w[k] <= Sent /\ w[k] = Len(s[k])
  BY <1>1, <1>2, CarriedAre, PayloadIs
<1>8. \A k \in 1 .. n : base[k + 1] = base[k] + w[k]
  BY <1>2, <1>7 DEF Laid
<1>9. \A k, l \in 1 .. n : k < l => o[k] + w[k] <= o[l]
  BY <1>1 DEF Sorted, Before
<1>10. \A k \in 1 .. n : \A x \in 1 .. w[k] :
         base[k] + x \in 1 .. L /\ R[base[k] + x] = stream[o[k] + x]
  <2>1. \A k \in 1 .. n : \A x \in 1 .. w[k] : s[k][x] = stream[o[k] + x]
    BY <1>1, <1>2, PayloadIs
  <2>2. \A k \in 1 .. n : \A x \in 1 .. w[k] :
          base[k] + x \in 1 .. L /\ R[base[k] + x] = s[k][x]
    <3>1. \A k \in 1 .. n : \A x \in 1 .. Len(s[k]) :
            base[k] + x \in 1 .. Len(R) /\ R[base[k] + x] = s[k][x]
      BY <1>2 DEF Laid
    <3> HIDE DEF w
    <3> QED  BY <1>5, <1>7, <3>1
  <2> HIDE DEF w, o
  <2> QED  BY <2>1, <2>2
<1> DEFINE In(k, j) == o[k] < j /\ j <= o[k] + w[k]
           home == [j \in Seen |-> CHOOSE k \in 1 .. n : In(k, j)]
           pos == [j \in Seen |-> base[home[j]] + (j - o[home[j]])]
<1>11. \A j : j \in Seen <=> j \in Nat /\ \E k \in 1 .. n : In(k, j)
  <2> SUFFICES ASSUME NEW j
               PROVE  j \in Seen <=> j \in Nat /\ \E k \in 1 .. n : In(k, j)
    OBVIOUS
  <2>1. ASSUME j \in Seen
        PROVE  j \in Nat /\ \E k \in 1 .. n : In(k, j)
    <3>1. PICK p \in Carried : j \in p.off + 1 .. p.off + p.len
      BY <2>1, SeenAre
    <3>2. PICK k \in 1 .. n : q[k] = p
      BY <1>1 DEF Sorted
    <3>3. o[k] = p.off /\ w[k] = p.len
      BY <3>2
    <3> HIDE DEF o, w
    <3> QED  BY <1>7, <3>1, <3>3
  <2>2. ASSUME NEW k \in 1 .. n, j \in Nat, In(k, j)
        PROVE  j \in Seen
    <3>1. q[k] \in Carried /\ o[k] = q[k].off /\ w[k] = q[k].len
      BY <1>1
    <3> HIDE DEF o, w
    <3>2. j \in o[k] + 1 .. o[k] + w[k]
      BY <1>7, <2>2
    <3> QED  BY <3>1, <3>2, SeenAre
  <2> HIDE DEF In
  <2> QED  BY <2>1, <2>2
<1> HIDE DEF o, w
<1>12. \A j \in Seen : /\ j \in Nat /\ home[j] \in 1 .. n /\ In(home[j], j)
                       /\ pos[j] = base[home[j]] + (j - o[home[j]])
  <2>1. \A j \in Seen : home[j] \in 1 .. n /\ In(home[j], j)
    <3> HIDE DEF In
    <3> QED  BY <1>11
  <2> HIDE DEF home, In
  <2> QED  BY <1>11, <2>1
<1> HIDE DEF home, pos
<1>13. \A j \in Seen : \A k \in 1 .. n : In(k, j) => home[j] = k
  <2> SUFFICES ASSUME NEW j \in Seen, NEW k \in 1 .. n, In(k, j), home[j] # k
               PROVE  FALSE
    OBVIOUS
  <2> DEFINE l == home[j]
  <2>1. l \in 1 .. n /\ In(l, j) /\ j \in Nat /\ l # k
    BY <1>12
  <2> HIDE DEF l
  <2>2. k < l \/ l < k
    BY <2>1
  <2> QED  BY <1>7, <1>9, <2>1, <2>2
<1>14. ASSUME NEW j \in Seen
       PROVE  pos[j] \in 1 .. L /\ R[pos[j]] = stream[j]
  <2> DEFINE k == home[j]
             x == j - o[k]
  <2>1. k \in 1 .. n /\ x \in 1 .. w[k] /\ pos[j] = base[k] + x /\ o[k] + x = j
    BY <1>7, <1>12
  <2> HIDE DEF k, x
  <2> QED  BY <1>10, <2>1
<1>15. ASSUME NEW j \in Seen, j + 1 \in Seen
       PROVE  pos[j + 1] = pos[j] + 1
  <2> DEFINE k == home[j]
             i == j + 1
             l == home[i]
  <2>1. j \in Nat /\ i = j + 1 /\ k \in 1 .. n /\ l \in 1 .. n /\ In(k, j) /\ In(l, i)
    BY <1>12, <1>15
  <2>2. pos[j] = base[k] + (j - o[k]) /\ pos[i] = base[l] + (i - o[l])
    BY <1>12, <1>15
  <2> DEFINE a == o[k]
             b == w[k]
             c == o[l]
             d == w[l]
             u == base[k]
             v == base[l]
             y == pos[j]
             z == pos[i]
  <2>4. /\ a \in Nat /\ b \in Nat /\ b > 0 /\ c \in Nat /\ d \in Nat /\ d > 0
        /\ u \in Nat /\ v \in Nat /\ y = u + (j - a) /\ z = v + (i - c)
        /\ a < j /\ j <= a + b /\ c < i /\ i <= c + d
        /\ (k = l => a = c /\ u = v)
    <3>1. o[k] \in Nat /\ w[k] \in Nat /\ w[k] > 0 /\ o[l] \in Nat /\ w[l] \in Nat /\ w[l] > 0
      <4> HIDE DEF k, l
      <4> QED  BY <1>7, <2>1
    <3>2. base[k] \in Nat /\ base[l] \in Nat
      <4> HIDE DEF k, l
      <4>1. k \in 1 .. n + 1 /\ l \in 1 .. n + 1
        BY <2>1
      <4> QED  BY <1>6, <4>1
    <3>3. y = u + (j - a) /\ z = v + (i - c)
      BY <2>2
    <3>4. a < j /\ j <= a + b /\ c < i /\ i <= c + d
      BY <2>1
    <3>5. k = l => a = c /\ u = v
      OBVIOUS
    <3> QED  BY <3>1, <3>2, <3>3, <3>4, <3>5
  <2>5. (k < l => a + b <= c) /\ (l < k => c + d <= a)
    BY <1>9, <2>1
  <2>6. \A m \in 1 .. n : k < m /\ m < l =>
          /\ o[m] \in Nat /\ w[m] \in Nat /\ w[m] > 0
          /\ a + b <= o[m] /\ o[m] + w[m] <= c
    <3> SUFFICES ASSUME NEW m \in 1 .. n, k < m, m < l
                 PROVE  /\ o[m] \in Nat /\ w[m] \in Nat /\ w[m] > 0
                        /\ o[k] + w[k] <= o[m] /\ o[m] + w[m] <= o[l]
      OBVIOUS
    <3>1. o[k] + w[k] <= o[m] /\ o[m] + w[m] <= o[l]
      <4> HIDE DEF k, l
      <4> QED  BY <1>9, <2>1
    <3> QED  BY <1>7, <3>1
  <2>7. l = k + 1 => v = u + b
    BY <1>8, <2>1
  <2>8. z = y + 1
    <3> HIDE DEF a, b, c, d, u, v, y, z, k, l, i
    <3>1. CASE k = l
      BY <2>1, <2>4, <3>1
    <3>2. CASE k # l
      <4>1. ~ (l < k)
        BY <2>1, <2>4, <2>5
      <4>2. k < l
        BY <2>1, <3>2, <4>1
      <4>3. a + b = j /\ c = j
        BY <2>1, <2>4, <2>5, <4>2
      <4>4. l = k + 1
        <5> DEFINE m == k + 1
        <5>1. m \in 1 .. n /\ k < m /\ (l # m => m < l)
          BY <2>1, <4>2
        <5> HIDE DEF m
        <5>2. ~ (m < l)
          <6> DEFINE e == o[m]
                     f == w[m]
          <6>1. m < l => e \in Nat /\ f \in Nat /\ f > 0 /\ a + b <= e /\ e + f <= c
            BY <2>6, <5>1
          <6> HIDE DEF e, f
          <6> QED  BY <2>1, <2>4, <4>3, <6>1
        <5> QED  BY <5>1, <5>2 DEF m
      <4> QED  BY <2>1, <2>4, <2>7, <4>3, <4>4
    <3> QED  BY <3>1, <3>2
  <2> QED  BY <2>8 DEF i
<1>16. ASSUME 1 \in Seen
       PROVE  pos[1] = 1
  <2> DEFINE k == home[1]
  <2>1. k \in 1 .. n /\ In(k, 1) /\ pos[1] = base[k] + (1 - o[k])
    BY <1>12, <1>16
  <2> HIDE DEF k
  <2>2. o[k] = 0
    BY <1>7, <2>1
  <2>3. k = 1
    <3>1. ~ (1 < k)
      <4>1. 1 \in 1 .. n
        BY <2>1
      <4> QED  BY <1>7, <1>9, <2>1, <2>2, <4>1
    <3> QED  BY <2>1, <3>1
  <2> QED  BY <1>6, <2>1, <2>2, <2>3
<1>17. ASSUME Sent \in Seen
       PROVE  pos[Sent] = L
  <2> DEFINE k == home[Sent]
  <2>1. k \in 1 .. n /\ In(k, Sent) /\ pos[Sent] = base[k] + (Sent - o[k]) /\ Sent \in Nat
    BY <1>12, <1>17
  <2> HIDE DEF k
  <2>2. o[k] + w[k] = Sent
    <3>1. o[k] \in Nat /\ w[k] \in Nat /\ o[k] + w[k] <= Sent /\ Sent <= o[k] + w[k]
      BY <1>7, <2>1
    <3> QED  BY <2>1, <3>1
  <2>3. k = n
    <3>1. ~ (k < n)
      <4>1. n \in 1 .. n
        BY <2>1
      <4> QED  BY <1>7, <1>9, <2>1, <2>2, <4>1
    <3> QED  BY <2>1, <3>1
  <2>4. base[n + 1] = base[k] + w[k] /\ base[k] \in Nat
    BY <1>6, <1>8, <2>1, <2>3
  <2> QED  BY <1>6, <1>7, <2>1, <2>2, <2>4
<1>18. Seen = {} => L = 0
  <2>1. ASSUME n # 0
        PROVE  Seen # {}
    <3>1. 1 \in 1 .. n
      BY <2>1
    <3>2. o[1] + 1 \in Nat /\ In(1, o[1] + 1)
      BY <1>7, <3>1
    <3> QED  BY <1>11, <3>1, <3>2
  <2>2. n = 0 => L = 0
    BY <1>6
  <2> QED  BY <2>1, <2>2
<1>19. Places(pos)
  BY <1>5, <1>14, <1>15, <1>16, <1>17 DEF Places
<1> QED  BY <1>4, <1>5, <1>18, <1>19

-----------------------------------------------------------------------------
(* CaptureIsTheStream *)

LEMMA PrefixIs ==
    ASSUME NEW C, NEW s \in Seq(C), NEW n \in 0 .. Len(s)
    PROVE  /\ SubSeq(s, 1, n) \in Seq(C) /\ Len(SubSeq(s, 1, n)) = n
           /\ DOMAIN SubSeq(s, 1, n) = 1 .. n
           /\ \A x \in 1 .. n : SubSeq(s, 1, n)[x] = s[x]
<1>1. Len(s) \in Nat /\ n \in Nat
  BY LenProperties
<1>2. \A i \in 1 .. n : s[i] \in C
  BY <1>1, ElementOfSeq
<1> DEFINE p == SubSeq(s, 1, n)
<1>3. /\ p \in Seq(C) /\ Len(p) = (IF 1 <= n THEN n - 1 + 1 ELSE 0)
      /\ \A x \in 1 .. n - 1 + 1 : p[x] = s[1 + x - 1]
  BY <1>1, <1>2, SubSeqProperties
<1>4. p \in Seq(C) /\ Len(p) = n /\ \A x \in 1 .. n : p[x] = s[x]
  <2> HIDE DEF p
  <2>1. n - 1 + 1 = n /\ \A x \in 1 .. n : 1 + x - 1 = x
    BY <1>1
  <2> QED  BY <1>1, <1>3, <2>1
<1> HIDE DEF p
<1>5. DOMAIN p = 1 .. n
  BY <1>4, LenProperties
<1> QED  BY <1>4, <1>5 DEF p

LEMMA CapturedStream ==
    ASSUME Captured
    PROVE  CaptureIsTheStream
<1> SUFFICES ASSUME Orderly, Seen = 1 .. Sent
             PROVE  Reassembled = SubSeq(stream, 1, Sent)
  BY DEF CaptureIsTheStream
<1> DEFINE R == Reassembled
           n == Sent
           P == SubSeq(stream, 1, n)
<1>1. PICK pos : Places(pos)
  BY SeenIsPlaced
<1>2. R \in Seq(Cells) /\ (Seen = {} => Len(R) = 0)
  BY SeenIsPlaced
<1>3. stream \in Seq(Cells) /\ n \in Nat /\ n \in 0 .. Len(stream)
  BY LenProperties DEF Captured
<1>4. Seen = 1 .. n
  OBVIOUS
<1>5. /\ \A j \in 1 .. n : R[pos[j]] = stream[j]
      /\ \A j \in 1 .. n : j + 1 \in 1 .. n => pos[j + 1] = pos[j] + 1
      /\ 1 \in 1 .. n => pos[1] = 1
      /\ n \in 1 .. n => pos[n] = Len(R)
  BY <1>1, <1>4 DEF Places
<1> HIDE DEF R, n
<1>6. P \in Seq(Cells) /\ Len(P) = n /\ \A x \in 1 .. n : P[x] = stream[x]
  BY <1>3, PrefixIs
<1> HIDE DEF P
<1>7. Len(R) = n /\ \A j \in 1 .. n : R[j] = stream[j]
  <2>1. CASE n = 0
    BY <1>2, <1>4, <2>1
  <2>2. CASE n # 0
    <3> DEFINE T == {j \in 1 .. n : pos[j] = j}
    <3>1. 1 \in T
      BY <1>3, <1>5, <2>2
    <3>2. ASSUME NEW j \in 1 .. n - 1, j \in T
          PROVE  j + 1 \in T
      <4>1. j \in 1 .. n /\ j + 1 \in 1 .. n /\ pos[j] = j
        BY <1>3, <3>2
      <4>2. pos[j + 1] = pos[j] + 1
        BY <1>5, <4>1
      <4> QED  BY <4>1, <4>2
    <3>3. \A j \in 1 .. n : j \in T
      <4> HIDE DEF T
      <4> QED  BY <1>3, <3>1, <3>2, UpTo
    <3>4. n \in 1 .. n
      BY <1>3, <2>2
    <3> QED  BY <1>5, <3>3, <3>4
  <2> QED  BY <2>1, <2>2
<1>8. R = P
  BY <1>2, <1>6, <1>7, SeqEqual
<1> QED  BY <1>8 DEF R, P, n

-----------------------------------------------------------------------------
(* What parse_listings finds *)

LEMMA ListingsAre ==
    ASSUME NEW data, NEW x
    PROVE  x \in Listings(data) <=>
             \E i \in DOMAIN data :
               /\ Inflates(data, i)
               /\ \E k \in 1 .. data[i].parts - 1 : Continues(data, i, k) /\ x = data[i + k]
<1> DEFINE found(i) == {data[i + k] : k \in {k \in 1 .. data[i].parts - 1 : Continues(data, i, k)}}
           D == {i \in DOMAIN data : Inflates(data, i)}
<1>1. Listings(data) = UNION {found(i) : i \in D}
  BY Zenon DEF Listings
<1>2. \A i : x \in found(i) <=>
              \E k \in 1 .. data[i].parts - 1 : Continues(data, i, k) /\ x = data[i + k]
  OBVIOUS
<1>3. \A i : i \in D <=> i \in DOMAIN data /\ Inflates(data, i)
  OBVIOUS
<1> HIDE DEF found, D
<1>4. x \in Listings(data) <=> \E i \in D : x \in found(i)
  BY <1>1
<1> QED  BY <1>2, <1>3, <1>4

\* A member as far as it is there: all of it, or up to the end of the data.
LEMMA FoundInRun ==
    ASSUME NEW data \in Seq(Cells), NEW c \in Cells, c.message > 0,
           NEW i \in Nat, NEW k \in 0 .. c.parts - 1,
           \A d \in 0 .. k : i + d \in 1 .. Len(data) /\ data[i + d] = [c EXCEPT !.part = 1 + d],
           k = c.parts - 1 \/ i + k = Len(data),
           NEW m \in 1 .. k
    PROVE  [c EXCEPT !.part = 1 + m] \in Listings(data)
<1>1. c.parts \in Nat /\ k \in Nat /\ DOMAIN data = 1 .. Len(data)
  BY LenProperties DEF Cells
<1>2. i \in DOMAIN data /\ data[i] = [c EXCEPT !.part = 1]
  <2>1. 0 \in 0 .. k /\ i + 0 = i /\ 1 + 0 = 1
    BY <1>1
  <2> QED  BY <1>1, <2>1
<1>3. /\ data[i].message = c.message /\ data[i].part = 1 /\ data[i].parts = c.parts
      /\ \A d \in Nat : [data[i] EXCEPT !.part = 1 + d] = [c EXCEPT !.part = 1 + d]
  BY <1>2 DEF Cells
<1>4. \A y \in 0 .. k : Continues(data, i, y)
  <2> SUFFICES ASSUME NEW y \in 0 .. k
               PROVE  Continues(data, i, y)
    OBVIOUS
  <2>1. \A d \in 0 .. y : d \in 0 .. k /\ d \in Nat
    BY <1>1
  <2>2. \A d \in 0 .. y : data[i + d] = [data[i] EXCEPT !.part = 1 + d]
    BY <1>3, <2>1
  <2>3. i + y \in DOMAIN data
    BY <1>1
  <2> QED  BY <2>2, <2>3 DEF Continues
<1>5. Inflates(data, i)
  <2>1. k \in 0 .. data[i].parts - 1 /\ k \in 0 .. k
    BY <1>1, <1>3
  <2>2. k = data[i].parts - 1 \/ i + k = Len(data)
    BY <1>3
  <2> QED  BY <1>3, <1>4, <2>1, <2>2 DEF Inflates
<1>6. /\ m \in 1 .. data[i].parts - 1 /\ Continues(data, i, m)
      /\ [c EXCEPT !.part = 1 + m] = data[i + m]
  BY <1>1, <1>3, <1>4
<1> QED  BY <1>2, <1>5, <1>6, ListingsAre

\* Every member of the stream is there from its head to its last listing.
MemberAround(s, i, cell) ==
    /\ cell.part <= cell.parts /\ cell.part <= i /\ i - cell.part + cell.parts <= Len(s)
    /\ \A d \in 0 .. cell.parts - 1 :
        s[(i - cell.part) + 1 + d] = [cell EXCEPT !.part = 1 + d]
Whole(s) == \A i \in 1 .. Len(s) : s[i].message > 0 => MemberAround(s, i, s[i])

LEMMA PartIsItself ==
    ASSUME NEW c \in Cells, c.part > 1
    PROVE  c.part - 1 \in Nat /\ [c EXCEPT !.part = 1 + (c.part - 1)] = c
<1>1. c.part \in Nat /\ 1 + (c.part - 1) = c.part
  BY DEF Cells
<1> QED  BY <1>1 DEF Cells

\* What a listing's member is, cell by cell.
LEMMA MemberOf ==
    ASSUME NEW s \in Seq(Cells), Whole(s), NEW i \in 1 .. Len(s), IsListing(s[i])
    PROVE  \E h \in Nat :
             /\ s[i] \in Cells /\ s[i].message > 0
             /\ s[i].part \in Nat /\ s[i].part > 1 /\ s[i].parts \in Nat
             /\ s[i].part <= s[i].parts
             /\ h + s[i].parts <= Len(s) /\ i = h + s[i].part
             /\ \A d \in 0 .. s[i].parts - 1 :
                  (h + 1) + d \in 1 .. Len(s) /\ s[(h + 1) + d] = [s[i] EXCEPT !.part = 1 + d]
<1> DEFINE c == s[i]
           h == i - c.part
<1>1. c \in Cells /\ c.message > 0 /\ c.part > 1
  BY ElementOfSeq DEF IsListing
<1>2. c.part \in Nat /\ c.parts \in Nat /\ i \in Nat /\ Len(s) \in Nat
  BY <1>1, LenProperties DEF Cells
<1>3. /\ c.part <= c.parts /\ c.part <= i /\ h + c.parts <= Len(s)
      /\ \A d \in 0 .. c.parts - 1 : s[h + 1 + d] = [c EXCEPT !.part = 1 + d]
  <2>1. MemberAround(s, i, c)
    BY <1>1 DEF Whole
  <2> HIDE DEF c
  <2> QED  BY <2>1 DEF MemberAround
<1> HIDE DEF c
<1>4. h \in Nat /\ i = h + c.part
  BY <1>2, <1>3
<1> HIDE DEF h
<1>5. \A d \in 0 .. c.parts - 1 : (h + 1) + d \in 1 .. Len(s)
  BY <1>2, <1>3, <1>4
<1> QED  BY <1>1, <1>2, <1>3, <1>4, <1>5 DEF c

LEMMA LocalLoss ==
    ASSUME Captured, Whole(stream)
    PROVE  LossIsLocal
<1> SUFFICES ASSUME Orderly, NEW i \in DOMAIN stream, IsListing(stream[i]),
                    {j \in DOMAIN stream : stream[j].message = stream[i].message} \subseteq Seen
             PROVE  stream[i] \in Listings(Reassembled)
  BY DEF LossIsLocal
<1> DEFINE c == stream[i]
           R == Reassembled
<1>1. stream \in Seq(Cells) /\ i \in 1 .. Len(stream) /\ DOMAIN stream = 1 .. Len(stream)
  BY LenProperties DEF Captured
<1> PICK h \in Nat :
      /\ c \in Cells /\ c.message > 0 /\ c.part \in Nat /\ c.part > 1 /\ c.parts \in Nat
      /\ c.part <= c.parts
      /\ h + c.parts <= Len(stream) /\ i = h + c.part
      /\ \A d \in 0 .. c.parts - 1 :
           (h + 1) + d \in 1 .. Len(stream) /\ stream[(h + 1) + d] = [c EXCEPT !.part = 1 + d]
  BY <1>1, MemberOf
<1>2. \A d \in 0 .. c.parts - 1 : (h + 1) + d \in Seen
  <2>1. \A d \in 0 .. c.parts - 1 : stream[(h + 1) + d].message = c.message
    <3>1. \A d : [c EXCEPT !.part = d].message = c.message
      BY DEF Cells
    <3> QED  BY <3>1
  <2>2. \A j \in 1 .. Len(stream) : stream[j].message = c.message => j \in Seen
    BY <1>1
  <2> HIDE DEF c
  <2> QED  BY <2>1, <2>2
<1> HIDE DEF c
<1>3. PICK pos : Places(pos)
  BY SeenIsPlaced
<1>4. R \in Seq(Cells) /\ Len(R) \in Nat
  BY SeenIsPlaced, LenProperties
<1>5. \A j \in Seen : /\ pos[j] \in 1 .. Len(R) /\ R[pos[j]] = stream[j]
                      /\ j + 1 \in Seen => pos[j + 1] = pos[j] + 1
  BY <1>3 DEF Places
<1> HIDE DEF R
<1> DEFINE I == pos[h + 1]
           n == c.parts - 1
<1>6. n \in Nat /\ 0 \in 0 .. n
  OBVIOUS
<1>7. I \in Nat
  <2>1. (h + 1) + 0 = h + 1
    OBVIOUS
  <2>2. (h + 1) \in Seen
    BY <1>2, <1>6, <2>1
  <2> QED  BY <1>4, <1>5, <2>2
<1>8. \A d \in 0 .. n : pos[(h + 1) + d] = I + d
  <2> DEFINE T == {d \in 0 .. n : pos[(h + 1) + d] = I + d}
  <2>1. 0 \in T
    <3>1. (h + 1) + 0 = h + 1 /\ I + 0 = I
      BY <1>7
    <3> QED  BY <1>6, <3>1
  <2>2. ASSUME NEW d \in 0 .. n - 1, d \in T
        PROVE  d + 1 \in T
    <3>1. d \in 0 .. n /\ d + 1 \in 0 .. n /\ ((h + 1) + d) + 1 = (h + 1) + (d + 1)
          /\ (I + d) + 1 = I + (d + 1)
      <4> HIDE DEF I, n
      <4>1. d \in Nat /\ d \in 0 .. n /\ d + 1 \in 0 .. n
        BY <1>6
      <4>2. ((h + 1) + d) + 1 = (h + 1) + (d + 1)
        BY <4>1
      <4>3. (I + d) + 1 = I + (d + 1)
        BY <1>7, <4>1
      <4> QED  BY <4>1, <4>2, <4>3
    <3> DEFINE j == (h + 1) + d
    <3>2. j \in Seen /\ j + 1 \in Seen
      BY <1>2, <3>1
    <3>3. pos[j + 1] = pos[j] + 1 /\ pos[j] = I + d
      BY <1>5, <2>2, <3>2
    <3> QED  BY <3>1, <3>3
  <2> HIDE DEF T, n
  <2>3. \A d \in 0 .. n : d \in T
    <3>1. 0 <= n => 0 \in T
      BY <2>1
    <3> QED  BY <1>6, <2>2, <3>1, UpTo
  <2> QED  BY <2>3 DEF T
<1>9. \A d \in 0 .. n : I + d \in 1 .. Len(R) /\ R[I + d] = [c EXCEPT !.part = 1 + d]
  <2> HIDE DEF I
  <2> QED  BY <1>2, <1>5, <1>8
<1> DEFINE m == c.part - 1
<1>10. m \in 1 .. n
  OBVIOUS
<1>11. [c EXCEPT !.part = 1 + m] = c
  BY PartIsItself
<1> HIDE DEF I, m
<1>12. n \in 0 .. c.parts - 1 /\ n = c.parts - 1
  BY <1>6
<1> HIDE DEF n
<1>13. [c EXCEPT !.part = 1 + m] \in Listings(R)
  BY <1>4, <1>7, <1>9, <1>10, <1>12, FoundInRun
<1>14. c \in Listings(R)
  BY <1>11, <1>13
<1> QED  BY <1>14 DEF c, R

\* The listings found in the beginning of a stream are those that are there.
LEMMA PrefixListings ==
    ASSUME NEW s \in Seq(Cells), Whole(s), NEW n \in 0 .. Len(s)
    PROVE  LET p == SubSeq(s, 1, n)
           IN  Listings(p) = {p[i] : i \in {i \in DOMAIN p : IsListing(p[i])}}
<1> DEFINE p == SubSeq(s, 1, n)
           there == {p[i] : i \in {i \in DOMAIN p : IsListing(p[i])}}
<1>1. /\ p \in Seq(Cells) /\ Len(p) = n /\ DOMAIN p = 1 .. n
      /\ \A x \in 1 .. n : p[x] = s[x]
  BY PrefixIs
<1>2. Len(s) \in Nat /\ n \in Nat /\ n <= Len(s)
  BY LenProperties
<1> HIDE DEF p
<1>3. ASSUME NEW x \in Listings(p)
      PROVE  x \in there
  <2>1. PICK i \in DOMAIN p : /\ Inflates(p, i)
                              /\ \E k \in 1 .. p[i].parts - 1 : Continues(p, i, k) /\ x = p[i + k]
    BY <1>3, ListingsAre
  <2>2. PICK k \in 1 .. p[i].parts - 1 : Continues(p, i, k) /\ x = p[i + k]
    BY <2>1
  <2>3. p[i] \in Cells /\ p[i].message > 0
    BY <1>1, <2>1, ElementOfSeq DEF Inflates
  <2>4. p[i].parts \in Nat /\ k \in Nat /\ k >= 1 /\ k \in 0 .. k
    BY <2>2, <2>3 DEF Cells
  <2>5. x = [p[i] EXCEPT !.part = 1 + k] /\ i + k \in DOMAIN p
    BY <2>2, <2>4 DEF Continues
  <2>6. x.message = p[i].message /\ x.part = 1 + k
    BY <2>3, <2>5 DEF Cells
  <2>7. IsListing(x)
    BY <2>3, <2>4, <2>6 DEF IsListing
  <2> QED  BY <2>2, <2>5, <2>7
<1>4. ASSUME NEW i \in DOMAIN p, IsListing(p[i])
      PROVE  p[i] \in Listings(p)
  <2> DEFINE c == s[i]
  <2>1. i \in 1 .. n /\ i \in 1 .. Len(s) /\ p[i] = c /\ IsListing(s[i])
    BY <1>1, <1>2, <1>4
  <2>2. PICK h \in Nat :
      /\ c \in Cells /\ c.message > 0 /\ c.part \in Nat /\ c.part > 1 /\ c.parts \in Nat
      /\ c.part <= c.parts
      /\ h + c.parts <= Len(s) /\ i = h + c.part
      /\ \A d \in 0 .. c.parts - 1 :
           (h + 1) + d \in 1 .. Len(s) /\ s[(h + 1) + d] = [c EXCEPT !.part = 1 + d]
    BY <2>1, MemberOf
  <2> HIDE DEF c
  <2> DEFINE k == IF h + c.parts <= n THEN c.parts - 1 ELSE n - (h + 1)
             m == c.part - 1
  <2>3. /\ k \in 0 .. c.parts - 1 /\ m \in 1 .. k
        /\ k = c.parts - 1 \/ (h + 1) + k = Len(p)
        /\ \A d \in 0 .. k : d \in 0 .. c.parts - 1 /\ (h + 1) + d \in 1 .. n
    <3>1. CASE h + c.parts <= n
      <4> DEFINE a == c.part
                 b == c.parts
      <4>1. a \in Nat /\ a > 1 /\ b \in Nat /\ a <= b /\ h + b <= n
        BY <2>2, <3>1
      <4>2. k = b - 1 /\ m = a - 1
        BY <3>1
      <4> HIDE DEF a, b, k, m
      <4>3. k \in 0 .. b - 1 /\ m \in 1 .. k
        BY <1>2, <4>1, <4>2
      <4>4. \A d \in 0 .. k : d \in 0 .. b - 1 /\ (h + 1) + d \in 1 .. n
        BY <1>2, <4>1, <4>2
      <4> QED  BY <4>2, <4>3, <4>4 DEF b
    <3>2. CASE ~ (h + c.parts <= n)
      <4> DEFINE a == c.part
                 b == c.parts
      <4>1. a \in Nat /\ a > 1 /\ b \in Nat /\ a <= b /\ i = h + a /\ i <= n /\ ~ (h + b <= n)
        BY <2>1, <2>2, <3>2
      <4>2. k = n - (h + 1) /\ m = a - 1
        BY <3>2
      <4> HIDE DEF a, b, k, m
      <4>3. k \in 0 .. b - 1 /\ m \in 1 .. k
        BY <1>2, <4>1, <4>2
      <4>4. (h + 1) + k = Len(p)
        BY <1>1, <1>2, <4>2
      <4>5. \A d \in 0 .. k : d \in 0 .. b - 1 /\ (h + 1) + d \in 1 .. n
        BY <1>2, <4>1, <4>2
      <4> QED  BY <4>3, <4>4, <4>5 DEF b
    <3> QED  BY <3>1, <3>2
  <2> HIDE DEF k
  <2>4. [c EXCEPT !.part = 1 + m] = c
    BY <2>2, PartIsItself
  <2> HIDE DEF m
  <2>5. \A d \in 0 .. k : (h + 1) + d \in 1 .. Len(p) /\ p[(h + 1) + d] = [c EXCEPT !.part = 1 + d]
    BY <1>1, <2>2, <2>3
  <2> DEFINE I == h + 1
  <2>6. I \in Nat
    BY <2>2
  <2>7. /\ \A d \in 0 .. k : I + d \in 1 .. Len(p) /\ p[I + d] = [c EXCEPT !.part = 1 + d]
        /\ k = c.parts - 1 \/ I + k = Len(p)
    BY <2>3, <2>5
  <2> HIDE DEF I
  <2>8. [c EXCEPT !.part = 1 + m] \in Listings(p)
    BY <1>1, <2>2, <2>3, <2>6, <2>7, FoundInRun
  <2> QED  BY <2>1, <2>4, <2>8
<1>5. \A x \in there : x \in Listings(p)
  BY <1>4
<1>6. Listings(p) = there
  <2> HIDE DEF there
  <2> QED  BY <1>3, <1>5
<1> QED  BY <1>6 DEF p

-----------------------------------------------------------------------------
(* What the servers write *)

LEMMA WholeAppends ==
    ASSUME NEW s \in Seq(Cells), NEW t \in Seq(Cells), Whole(s), Whole(t)
    PROVE  Whole(s \o t)
<1> DEFINE w == s \o t
           a == Len(s)
           b == Len(t)
<1>1. a \in Nat /\ b \in Nat
  BY LenProperties
<1>2. /\ Len(w) = a + b
      /\ \A i \in 1 .. a : w[i] = s[i]
      /\ \A i \in 1 .. b : w[a + i] = t[i]
  <2>1. /\ Len(w) = a + b
        /\ \A i \in 1 .. a + b : w[i] = IF i <= a THEN s[i] ELSE t[i - a]
    BY ConcatProperties
  <2> HIDE DEF w, a, b
  <2>2. \A i \in 1 .. a : i \in 1 .. a + b /\ i <= a
    BY <1>1
  <2>3. \A i \in 1 .. b : a + i \in 1 .. a + b /\ ~ (a + i <= a) /\ (a + i) - a = i
    BY <1>1
  <2> QED  BY <2>1, <2>2, <2>3
<1>3. /\ \A i \in 1 .. a : s[i] \in Cells
      /\ \A i \in 1 .. b : t[i] \in Cells
  BY ElementOfSeq
<1>4. \A c \in Cells : c.part \in Nat /\ c.part > 0 /\ c.parts \in Nat
  BY DEF Cells
<1> HIDE DEF w, a, b
<1>5. SUFFICES ASSUME NEW i \in 1 .. Len(w), w[i].message > 0
               PROVE  MemberAround(w, i, w[i])
  BY DEF Whole, w
<1> DEFINE p == w[i].part
           n == w[i].parts
<1>6. CASE i \in 1 .. a
  <2>1. w[i] = s[i] /\ p \in Nat /\ p > 0 /\ n \in Nat
    BY <1>2, <1>3, <1>4, <1>6
  <2>6. s[i].message > 0 /\ i \in 1 .. Len(s)
    BY <1>5, <1>6, <2>1 DEF a
  <2>7. MemberAround(s, i, w[i])
    BY <2>1, <2>6 DEF Whole
  <2>2. /\ p <= n /\ p <= i /\ i - p + n <= a
        /\ \A d \in 0 .. n - 1 : s[(i - p) + 1 + d] = [w[i] EXCEPT !.part = 1 + d]
    BY <2>7 DEF MemberAround, a
  <2> HIDE DEF p, n
  <2>3. \A d \in 0 .. n - 1 : (i - p) + 1 + d \in 1 .. a
    <3>1. p <= i /\ i - p + n <= a /\ i \in Nat /\ p \in Nat /\ n \in Nat
      BY <1>1, <1>6, <2>1, <2>2
    <3> QED  BY <1>1, <3>1
  <2>4. \A d \in 0 .. n - 1 : w[(i - p) + 1 + d] = [w[i] EXCEPT !.part = 1 + d]
    BY <1>2, <2>2, <2>3
  <2>5. p <= n /\ p <= i /\ i - p + n <= Len(w)
    BY <1>1, <1>2, <1>6, <2>1, <2>2
  <2> QED  BY <2>4, <2>5 DEF p, n, MemberAround
<1>7. CASE i \notin 1 .. a
  <2> DEFINE j == i - a
  <2>1. j \in 1 .. b /\ i = a + j /\ i \in Nat
    BY <1>1, <1>2, <1>7
  <2> HIDE DEF j
  <2>2. w[i] = t[j] /\ p \in Nat /\ p > 0 /\ n \in Nat
    BY <1>2, <1>3, <1>4, <2>1
  <2>7. t[j].message > 0 /\ j \in 1 .. Len(t)
    BY <1>5, <2>1, <2>2 DEF b
  <2>8. MemberAround(t, j, w[i])
    BY <2>2, <2>7 DEF Whole
  <2>3. /\ p <= n /\ p <= j /\ j - p + n <= b
        /\ \A d \in 0 .. n - 1 : t[(j - p) + 1 + d] = [w[i] EXCEPT !.part = 1 + d]
    BY <2>8 DEF MemberAround, b
  <2> HIDE DEF p, n
  <2>4. \A d \in 0 .. n - 1 : /\ (j - p) + 1 + d \in 1 .. b
                              /\ (i - p) + 1 + d = a + ((j - p) + 1 + d)
    <3>1. p <= j /\ j - p + n <= b /\ j \in Nat /\ p \in Nat /\ n \in Nat
      BY <1>1, <2>1, <2>2, <2>3
    <3> QED  BY <1>1, <2>1, <3>1
  <2>5. \A d \in 0 .. n - 1 : w[(i - p) + 1 + d] = [w[i] EXCEPT !.part = 1 + d]
    BY <1>2, <2>3, <2>4
  <2>6. p <= n /\ p <= i /\ i - p + n <= Len(w)
    BY <1>1, <1>2, <2>1, <2>2, <2>3
  <2> QED  BY <2>5, <2>6 DEF p, n, MemberAround
<1> QED  BY <1>6, <1>7

LEMMA MemberIsWhole ==
    ASSUME NEW m \in Nat, NEW c \in Nat
    PROVE  Member(m, c) \in Seq(Cells) /\ Whole(Member(m, c))
<1> DEFINE s == Member(m, c)
           n == c + 1
<1>1. n \in Nat /\ \A i \in 1 .. n : Cell(m, i, n) \in Cells
  BY DEF Cell, Cells
<1>2. s = [i \in 1 .. n |-> Cell(m, i, n)]
  BY DEF Member
<1> HIDE DEF s, n
<1>3. s \in Seq(Cells) /\ Len(s) = n /\ \A i \in 1 .. n : s[i] = Cell(m, i, n)
  BY <1>1, <1>2, IsASeq
<1>4. Whole(s)
  <2> SUFFICES ASSUME NEW i \in 1 .. n
               PROVE  MemberAround(s, i, s[i])
    BY <1>3 DEF Whole
  <2>1. s[i].part = i /\ s[i].parts = n
    BY <1>3 DEF Cell
  <2>2. ASSUME NEW d \in 0 .. n - 1
        PROVE  s[(i - i) + 1 + d] = [s[i] EXCEPT !.part = 1 + d]
    <3>1. (i - i) + 1 + d = 1 + d /\ 1 + d \in 1 .. n
      BY <1>1
    <3>2. s[1 + d] = Cell(m, 1 + d, n) /\ s[i] = Cell(m, i, n)
      BY <1>3, <3>1
    <3>3. [Cell(m, i, n) EXCEPT !.part = 1 + d] = Cell(m, 1 + d, n)
      BY DEF Cell
    <3> QED  BY <3>1, <3>2, <3>3
  <2>3. i <= n /\ i <= i /\ i - i + n <= n
    BY <1>1
  <2> QED  BY <1>3, <2>1, <2>2, <2>3 DEF MemberAround
<1> QED  BY <1>3, <1>4 DEF s

LEMMA ReplyIsWhole ==
    <<Header, Status>> \in Seq(Cells) /\ Whole(<<Header, Status>>)
<1> DEFINE s == <<Header, Status>>
<1>1. s \in Seq(Cells) /\ Len(s) = 2 /\ s[1].message = 0 /\ s[2].message = 0
  BY DEF Header, Status, Cell, Cells
<1> HIDE DEF s
<1>2. \A i \in 1 .. Len(s) : s[i].message = 0
  BY <1>1
<1>3. Whole(s)
  BY <1>2 DEF Whole
<1> QED  BY <1>1, <1>3 DEF s

-----------------------------------------------------------------------------
(* The inductive invariant of a stream and its capture *)

StreamInv ==
    /\ stream \in Seq(Cells) /\ Whole(stream)
    /\ segments \in Seq(Packets) /\ capture \in Seq(Packets)
    /\ Sent <= Len(stream)
    /\ \A i \in 1 .. Len(segments) : segments[i].off + segments[i].len <= Sent
    /\ \A i, j \in 1 .. Len(segments) : i < j => Before(segments[i], segments[j])
    /\ \A i \in 1 .. Len(capture) : \E j \in 1 .. Len(segments) : capture[i] = segments[j]

LEMMA SentIsNat ==
    ASSUME segments \in Seq(Packets)
    PROVE  Sent \in Nat
<1>1. CASE segments = <<>>
  BY <1>1 DEF Sent
<1>2. CASE segments # <<>>
  <2>1. Len(segments) \in Nat /\ Len(segments) # 0
    BY <1>2, LenProperties, EmptySeq
  <2>2. Len(segments) \in 1 .. Len(segments)
    BY <2>1
  <2>3. Last(segments) \in Packets
    BY <2>2, ElementOfSeq DEF Last
  <2> QED  BY <1>2, <2>3 DEF Sent, Packets
<1> QED  BY <1>1, <1>2

LEMMA StreamIsCaptured == StreamInv => Captured
<1> SUFFICES ASSUME StreamInv  PROVE Captured
  OBVIOUS
<1>1. /\ stream \in Seq(Cells) /\ capture \in Seq(Packets)
      /\ Sent \in Nat /\ Sent <= Len(stream)
      /\ DOMAIN capture = 1 .. Len(capture) /\ Len(segments) \in Nat
  BY SentIsNat, LenProperties DEF StreamInv
<1>2. \A p \in Carried : \E j \in 1 .. Len(segments) : p = segments[j]
  BY <1>1 DEF StreamInv, Carried
<1>3. \A p \in Carried : p.off + p.len <= Sent
  BY <1>2 DEF StreamInv
<1>4. \A p, q \in Carried : p = q \/ Before(p, q) \/ Before(q, p)
  <2> SUFFICES ASSUME NEW p \in Carried, NEW q \in Carried
               PROVE  p = q \/ Before(p, q) \/ Before(q, p)
    OBVIOUS
  <2>1. PICK i \in 1 .. Len(segments) : p = segments[i]
    BY <1>2
  <2>2. PICK j \in 1 .. Len(segments) : q = segments[j]
    BY <1>2
  <2>3. i = j \/ i < j \/ j < i
    OBVIOUS
  <2> QED  BY <2>1, <2>2, <2>3 DEF StreamInv
<1> QED  BY <1>1, <1>3, <1>4 DEF Captured

LEMMA StreamStarts == StreamInit => StreamInv
<1> SUFFICES ASSUME StreamInit  PROVE StreamInv
  OBVIOUS
<1>1. stream = <<>> /\ segments = <<>> /\ capture = <<>> /\ Sent = 0
  BY DEF StreamInit, Sent
<1>2. Len(stream) = 0 /\ Len(segments) = 0 /\ Len(capture) = 0
  BY <1>1
<1>3. stream \in Seq(Cells) /\ segments \in Seq(Packets) /\ capture \in Seq(Packets)
  BY <1>1, EmptySeq
<1> QED  BY <1>1, <1>2, <1>3 DEF StreamInv, Whole

LEMMA StreamWrites ==
    ASSUME StreamInv, NEW cells \in Seq(Cells), Whole(cells), Write(cells)
    PROVE  StreamInv' /\ Sent' = Sent
<1>1. stream' = stream \o cells /\ segments' = segments /\ capture' = capture /\ Sent' = Sent
  BY DEF Write, Sent
<1>2. stream' \in Seq(Cells) /\ Len(stream') = Len(stream) + Len(cells) /\ Whole(stream')
  BY <1>1, ConcatProperties, WholeAppends DEF StreamInv
<1>3. Sent \in Nat /\ Len(stream) \in Nat /\ Len(cells) \in Nat /\ Sent <= Len(stream)
  BY SentIsNat, LenProperties DEF StreamInv
<1>4. Sent' <= Len(stream')
  BY <1>1, <1>2, <1>3
<1>5. Whole(stream)'
  BY <1>2 DEF Whole, MemberAround
<1> QED  BY <1>1, <1>2, <1>4, <1>5 DEF StreamInv

LEMMA StreamMoves ==
    ASSUME StreamInv, Transmit
    PROVE  StreamInv' /\ Sent' \in Nat /\ Sent <= Sent'
<1>1. Sent \in Nat /\ Len(segments) \in Nat /\ Len(capture) \in Nat /\ Len(stream) \in Nat
  BY SentIsNat, LenProperties DEF StreamInv
<1> PICK len \in 1 .. MaxLength :
      LET packet == [off |-> Sent, len |-> len]
      IN  /\ Sent + len <= Len(stream)
          /\ segments' = Append(segments, packet)
          /\ \/ capture' = Append(capture, packet) /\ UNCHANGED troubles
             \/ /\ Trouble /\ capture # <<>>
                /\ capture' = Front(capture) \o <<packet, Last(capture)>>
             \/ Trouble /\ UNCHANGED capture
  BY DEF Transmit
<1>2. len \in Nat /\ len > 0
  BY StreamAssumption
<1> DEFINE packet == [off |-> Sent, len |-> len]
           n == Len(segments)
<1>3. packet \in Packets /\ packet.off = Sent /\ packet.len = len
  BY <1>1, <1>2 DEF Packets
<1> HIDE DEF packet
<1>4. /\ Sent + len <= Len(stream) /\ segments' = Append(segments, packet) /\ stream' = stream
      /\ \/ capture' = Append(capture, packet)
         \/ capture # <<>> /\ capture' = Front(capture) \o <<packet, Last(capture)>>
         \/ capture' = capture
  BY DEF packet, Transmit
<1>5. /\ segments' \in Seq(Packets) /\ Len(segments') = n + 1 /\ segments' # <<>>
      /\ \A i \in 1 .. n : segments'[i] = segments[i]
      /\ segments'[n + 1] = packet
  BY <1>3, <1>4, AppendProperties DEF StreamInv
<1>6. Sent' = Sent + len
  BY <1>3, <1>5 DEF Sent, Last
<1> HIDE DEF n
<1>7. \A i \in 1 .. n + 1 : i \in 1 .. n \/ i = n + 1
  BY <1>1 DEF n
<1>8. \A i \in 1 .. n : segments[i].off + segments[i].len <= Sent /\ segments[i] \in Packets
  BY ElementOfSeq DEF StreamInv, n
<1>9. \A i \in 1 .. n + 1 : segments'[i].off + segments'[i].len <= Sent'
  <2>1. \A p \in Packets : p.off \in Nat /\ p.len \in Nat
    BY DEF Packets
  <2>2. \A i \in 1 .. n : segments[i].off + segments[i].len <= Sent + len
    <3> SUFFICES ASSUME NEW i \in 1 .. n
                 PROVE  segments[i].off + segments[i].len <= Sent + len
      OBVIOUS
    <3> DEFINE t == segments[i].off + segments[i].len
    <3>1. t \in Nat /\ t <= Sent
      BY <1>8, <2>1
    <3> HIDE DEF t
    <3>2. t <= Sent + len
      BY <1>1, <1>2, <3>1
    <3> QED  BY <3>2 DEF t
  <2>3. packet.off + packet.len <= Sent + len
    BY <1>1, <1>2, <1>3
  <2> QED  BY <1>5, <1>6, <1>7, <2>2, <2>3
<1>10. ASSUME NEW i \in 1 .. n + 1, NEW j \in 1 .. n + 1, i < j
       PROVE  Before(segments'[i], segments'[j])
  <2>1. i \in 1 .. n /\ segments'[i] = segments[i]
    BY <1>1, <1>5, <1>10 DEF n
  <2>2. CASE j \in 1 .. n
    BY <1>5, <1>10, <2>1, <2>2 DEF StreamInv, n
  <2>3. CASE j = n + 1
    BY <1>3, <1>5, <1>8, <2>1, <2>3 DEF Before
  <2> QED  BY <1>7, <2>2, <2>3
<1>11. /\ capture' \in Seq(Packets)
       /\ \A i \in 1 .. Len(capture') :
            capture'[i] = packet \/ \E k \in 1 .. Len(capture) : capture'[i] = capture[k]
  <2> DEFINE m == Len(capture)
  <2>0. capture \in Seq(Packets) /\ m \in Nat
    BY <1>1 DEF StreamInv
  <2>1. CASE capture' = Append(capture, packet)
    <3>1. /\ capture' \in Seq(Packets) /\ Len(capture') = m + 1
          /\ \A i \in 1 .. m : capture'[i] = capture[i]
          /\ capture'[m + 1] = packet
      BY <1>3, <2>0, <2>1, AppendProperties
    <3>2. \A i \in 1 .. m + 1 : i \in 1 .. m \/ i = m + 1
      BY <2>0
    <3> QED  BY <3>1, <3>2
  <2>2. CASE capture # <<>> /\ capture' = Front(capture) \o <<packet, Last(capture)>>
    <3> DEFINE u == Front(capture)
               v == <<packet, Last(capture)>>
               k == m - 1
    <3>1. m # 0 /\ k \in Nat /\ k \in 0 .. m /\ m \in 1 .. m
      BY <2>0, <2>2, EmptySeq
    <3>2. u = SubSeq(capture, 1, k)
      BY DEF Front
    <3>3. u \in Seq(Packets) /\ Len(u) = k /\ \A i \in 1 .. k : u[i] = capture[i]
      <4> HIDE DEF u, k
      <4> QED  BY <2>0, <3>1, <3>2, PrefixIs
    <3>4. Last(capture) = capture[m] /\ capture[m] \in Packets
      <4>1. Last(capture) = capture[m]
        BY DEF Last
      <4> QED  BY <2>0, <3>1, <4>1, ElementOfSeq
    <3>5. v \in Seq(Packets) /\ Len(v) = 2 /\ v[1] = packet /\ v[2] = capture[m]
      BY <1>3, <3>4
    <3> HIDE DEF u, v, k
    <3>6. capture' = u \o v
      BY <2>2 DEF u, v
    <3>7. /\ capture' \in Seq(Packets) /\ Len(capture') = k + 2
          /\ \A i \in 1 .. k + 2 : capture'[i] = IF i <= k THEN u[i] ELSE v[i - k]
      <4>1. /\ u \o v \in Seq(Packets) /\ Len(u \o v) = Len(u) + Len(v)
            /\ \A i \in 1 .. Len(u) + Len(v) :
                 (u \o v)[i] = IF i <= Len(u) THEN u[i] ELSE v[i - Len(u)]
        <5>1. u \in Seq(Packets) /\ v \in Seq(Packets)
          BY <3>3, <3>5
        <5> QED  BY <5>1, ConcatProperties
      <4>2. Len(u) = k /\ Len(v) = 2
        BY <3>3, <3>5
      <4> DEFINE w == u \o v
                 a == Len(u)
                 b == Len(v)
      <4>3. /\ w \in Seq(Packets) /\ Len(w) = a + b
            /\ \A i \in 1 .. a + b : w[i] = IF i <= a THEN u[i] ELSE v[i - a]
        BY <4>1
      <4>4. a = k /\ b = 2 /\ capture' = w
        BY <3>6, <4>2
      <4> HIDE DEF w, a, b
      <4> QED  BY <4>3, <4>4
    <3>8. \A i \in 1 .. k + 2 : \/ i \in 1 .. k /\ i <= k /\ i \in 1 .. m
                                \/ ~ (i <= k) /\ (i - k = 1 \/ i - k = 2)
      BY <3>1 DEF k
    <3>9. \A i \in 1 .. k + 2 :
            capture'[i] = packet \/ \E l \in 1 .. m : capture'[i] = capture[l]
      <4> HIDE DEF m
      <4> SUFFICES ASSUME NEW i \in 1 .. k + 2
                   PROVE  capture'[i] = packet \/ \E l \in 1 .. m : capture'[i] = capture[l]
        OBVIOUS
      <4>1. CASE i \in 1 .. k /\ i <= k /\ i \in 1 .. m
        BY <3>3, <3>7, <4>1
      <4>2. CASE ~ (i <= k) /\ (i - k = 1 \/ i - k = 2)
        BY <3>1, <3>5, <3>7, <4>2
      <4> QED  BY <3>8, <4>1, <4>2
    <3> QED  BY <3>7, <3>9
  <2>3. CASE capture' = capture
    BY <2>0, <2>3
  <2> QED  BY <1>4, <2>1, <2>2, <2>3
<1>12. \A i \in 1 .. Len(capture') : \E j \in 1 .. n + 1 : capture'[i] = segments'[j]
  <2>1. n + 1 \in 1 .. n + 1 /\ \A j \in 1 .. n : j \in 1 .. n + 1
    BY <1>1 DEF n
  <2>2. \A k \in 1 .. Len(capture) : \E j \in 1 .. n : capture[k] = segments[j]
    BY DEF StreamInv, n
  <2> SUFFICES ASSUME NEW i \in 1 .. Len(capture')
               PROVE  \E j \in 1 .. n + 1 : capture'[i] = segments'[j]
    OBVIOUS
  <2>3. CASE capture'[i] = packet
    BY <1>5, <2>1, <2>3
  <2>4. CASE \E k \in 1 .. Len(capture) : capture'[i] = capture[k]
    BY <1>5, <2>1, <2>2, <2>4
  <2> QED  BY <1>11, <2>3, <2>4
<1>13. /\ Sent' \in Nat /\ Sent <= Sent' /\ Sent' <= Len(stream')
       /\ stream' \in Seq(Cells) /\ Whole(stream')
  BY <1>1, <1>2, <1>4, <1>6 DEF StreamInv
<1>14. Whole(stream)'
  BY <1>13 DEF Whole, MemberAround
<1> QED  BY <1>5, <1>9, <1>10, <1>11, <1>12, <1>13, <1>14 DEF StreamInv

LEMMA StreamRepeats ==
    ASSUME StreamInv, Retransmit
    PROVE  StreamInv' /\ Sent' = Sent
<1>1. PICK i \in DOMAIN segments : capture' = Append(capture, segments[i])
  BY DEF Retransmit
<1>2. stream' = stream /\ segments' = segments /\ Sent' = Sent
  BY DEF Retransmit, Sent
<1> DEFINE n == Len(capture)
           packet == segments[i]
<1>3. /\ segments \in Seq(Packets) /\ capture \in Seq(Packets) /\ n \in Nat
      /\ i \in 1 .. Len(segments) /\ packet \in Packets
  BY LenProperties, ElementOfSeq DEF StreamInv
<1>4. /\ capture' \in Seq(Packets) /\ Len(capture') = n + 1
      /\ \A k \in 1 .. n : capture'[k] = capture[k]
      /\ capture'[n + 1] = packet
  <2> HIDE DEF packet
  <2> QED  BY <1>1, <1>3, AppendProperties DEF packet
<1>5. \A k \in 1 .. n + 1 : k \in 1 .. n \/ k = n + 1
  BY <1>3
<1>6. \A k \in 1 .. Len(capture') : \E j \in 1 .. Len(segments) : capture'[k] = segments[j]
  BY <1>3, <1>4, <1>5 DEF StreamInv
<1>7. Whole(stream)'
  BY <1>2 DEF StreamInv, Whole, MemberAround
<1> QED  BY <1>2, <1>4, <1>6, <1>7 DEF StreamInv

-----------------------------------------------------------------------------
(* The session *)

\* What has happened by the time the program is at a place.
Path ==
    /\ at \notin {"identity", "login", "response", "end"} => verdict = "session"
    /\ at \in {"identity", "login", "response", "register"} => sentBy = {}
    /\ at \in {"manifest", "connect", "handshake", "request", "drain", "store"}
        => "register" \in sentBy
    /\ at \in {"handshake", "request", "drain", "store"} => "bundle" \in sentBy
    /\ at \in {"drain", "store"} => "query" \in sentBy

\* Which connection is open where.
Connections ==
    /\ at \in {"identity", "login", "connect", "end"} => sockets = {}
    /\ at \in {"response", "register", "manifest"} => sockets = {"login"}
    /\ at \in {"handshake", "request", "drain", "store"} => sockets = {"game"}

\* Which command gets where, and that nothing is decided before the end.
Course ==
    /\ at \in {"connect", "handshake"} => cmd # "probe"
    /\ at \in {"request", "drain", "store"} => cmd = "fetch"
    /\ at # "end" => stored = "unasked" /\ interrupted = FALSE

\* The game service writes nothing before it has answered the bundle.
Answered == admitted = "none" => stream = <<>>

SessionInv ==
    /\ TypeOK /\ StreamInv
    /\ Path /\ Connections /\ Course /\ Answered
    /\ OnlyIssuedSessionsAreUsed /\ ExitStatusIsEarned

-----------------------------------------------------------------------------
LEMMA StreamStays ==
    ASSUME StreamInv, UNCHANGED streamVars
    PROVE  StreamInv' /\ Sent' = Sent
<1>1. stream' = stream /\ segments' = segments /\ capture' = capture /\ Sent' = Sent
  BY DEF streamVars, Sent
<1>2. Whole(stream)'
  BY <1>1 DEF StreamInv, Whole, MemberAround
<1> QED  BY <1>1, <1>2 DEF StreamInv

\* What the game service writes, it writes whole.
LEMMA ServerWrites ==
    ASSUME StreamInv, Server
    PROVE  StreamInv' /\ Sent' = Sent
<1>1. Member(1, 1) \in Seq(Cells) /\ Whole(Member(1, 1))
  BY MemberIsWhole
<1>2. Member(2, 2) \in Seq(Cells) /\ Whole(Member(2, 2))
  BY MemberIsWhole
<1>3. \E cells \in Seq(Cells) : Whole(cells) /\ Write(cells)
  <2>1. CASE Admit
    <3> DEFINE reply == <<Header, Status>>
    <3>1. Write(reply \o Member(1, 1)) \/ Write(reply)
      BY <2>1 DEF Admit
    <3>2. reply \in Seq(Cells) /\ Whole(reply)
      BY ReplyIsWhole
    <3> HIDE DEF reply
    <3>3. reply \o Member(1, 1) \in Seq(Cells) /\ Whole(reply \o Member(1, 1))
      BY <1>1, <3>2, ConcatProperties, WholeAppends
    <3> QED  BY <3>1, <3>2, <3>3
  <2>2. CASE AnswerSweep
    BY <1>2, <2>2 DEF AnswerSweep
  <2> QED  BY <2>1, <2>2 DEF Server
<1> QED  BY <1>3, StreamWrites

LEMMA SessionInitInv == Init => SessionInv
<1> SUFFICES ASSUME Init  PROVE SessionInv
  OBVIOUS
<1>1. Sent = 0 /\ StreamInv
  BY StreamStarts DEF Init, StreamInit, Sent
<1>2. rx = 0 /\ interrupted = FALSE
  BY Zenon DEF Init
<1>3. rx \in 0 .. Sent
  BY <1>1, <1>2
<1>4. TypeOK /\ Path /\ Connections /\ Course
  BY <1>2, <1>3 DEF Init, TypeOK, Path, Connections, Course
<1>5. OnlyIssuedSessionsAreUsed /\ ExitStatusIsEarned /\ Answered
  BY DEF Init, StreamInit, OnlyIssuedSessionsAreUsed, ExitStatusIsEarned, Answered
<1> QED  BY <1>1, <1>4, <1>5 DEF SessionInv

\* The client's steps that do not touch the stream: all but Receive.
LEMMA ClientStep ==
    ASSUME SessionInv, Client, ~Receive
    PROVE  SessionInv'
<1>0. UNCHANGED streamVars
  BY DEF Client, LoginIdentity, RequestLogin, ReceiveLogin, RegisterSession, ReceiveManifest,
         SendBundle, EndHandshake, RequestMarket, EndDrain, Store, Reset
<1>1. /\ StreamInv' /\ Sent' = Sent /\ stream' = stream
      /\ UNCHANGED <<rx, cmd, interrupted, admitted>>
  BY <1>0, StreamStays
     DEF SessionInv, Client, LoginIdentity, RequestLogin, ReceiveLogin, RegisterSession,
         ReceiveManifest, SendBundle, EndHandshake, RequestMarket, EndDrain, Store, Reset, Goto, Exit, Break,
         streamVars, serverVars, Sent
<1>2. Status0xF2' = Status0xF2
  BY <1>1 DEF Status0xF2, Read
<1>3. StreamInv' /\ Answered' /\ rx' \in 0 .. Sent' /\ interrupted' \in BOOLEAN
  BY <1>1 DEF SessionInv, Answered, TypeOK
<1> USE DEF SessionInv, Path, Connections, Course, Goto, Exit, Break, serverVars
<1>4. CASE LoginIdentity
  <2>1. TypeOK' /\ Path' /\ Connections' /\ Course'
    BY <1>1, <1>3, <1>4 DEF LoginIdentity, TypeOK
  <2>2. OnlyIssuedSessionsAreUsed' /\ ExitStatusIsEarned'
    BY <1>1, <1>2, <1>4 DEF LoginIdentity, TypeOK, OnlyIssuedSessionsAreUsed, ExitStatusIsEarned
  <2> QED  BY <1>3, <2>1, <2>2
<1>5. CASE RequestLogin
  <2>1. TypeOK' /\ Path' /\ Connections' /\ Course'
    BY <1>1, <1>3, <1>5 DEF RequestLogin, TypeOK
  <2>2. OnlyIssuedSessionsAreUsed' /\ ExitStatusIsEarned'
    BY <1>1, <1>2, <1>5 DEF RequestLogin, TypeOK, OnlyIssuedSessionsAreUsed, ExitStatusIsEarned
  <2> QED  BY <1>3, <2>1, <2>2
<1>6. CASE ReceiveLogin
  <2>1. TypeOK' /\ Path' /\ Connections' /\ Course'
    BY <1>1, <1>3, <1>6 DEF ReceiveLogin, TypeOK
  <2>2. OnlyIssuedSessionsAreUsed' /\ ExitStatusIsEarned'
    BY <1>1, <1>2, <1>6 DEF ReceiveLogin, TypeOK, OnlyIssuedSessionsAreUsed, ExitStatusIsEarned
  <2> QED  BY <1>3, <2>1, <2>2
<1>7. CASE RegisterSession
  <2>1. TypeOK' /\ Path' /\ Connections' /\ Course'
    BY <1>1, <1>3, <1>7 DEF RegisterSession, TypeOK
  <2>2. OnlyIssuedSessionsAreUsed' /\ ExitStatusIsEarned'
    BY <1>1, <1>2, <1>7 DEF RegisterSession, TypeOK, OnlyIssuedSessionsAreUsed, ExitStatusIsEarned
  <2> QED  BY <1>3, <2>1, <2>2
<1>8. CASE ReceiveManifest
  <2>1. TypeOK' /\ Path' /\ Connections' /\ Course'
    BY <1>1, <1>3, <1>8 DEF ReceiveManifest, TypeOK
  <2>2. OnlyIssuedSessionsAreUsed' /\ ExitStatusIsEarned'
    BY <1>1, <1>2, <1>8 DEF ReceiveManifest, TypeOK, OnlyIssuedSessionsAreUsed, ExitStatusIsEarned
  <2> QED  BY <1>3, <2>1, <2>2
<1>9. CASE SendBundle
  <2>1. TypeOK' /\ Path' /\ Connections' /\ Course'
    BY <1>1, <1>3, <1>9 DEF SendBundle, TypeOK
  <2>2. OnlyIssuedSessionsAreUsed' /\ ExitStatusIsEarned'
    BY <1>1, <1>2, <1>9 DEF SendBundle, TypeOK, OnlyIssuedSessionsAreUsed, ExitStatusIsEarned
  <2> QED  BY <1>3, <2>1, <2>2
<1>10. CASE EndHandshake
  <2>1. TypeOK' /\ Path' /\ Connections' /\ Course'
    BY <1>1, <1>3, <1>10, CommandsAssumption DEF EndHandshake, TypeOK
  <2>2. OnlyIssuedSessionsAreUsed' /\ ExitStatusIsEarned'
    BY <1>1, <1>2, <1>10 DEF EndHandshake, TypeOK, OnlyIssuedSessionsAreUsed, ExitStatusIsEarned
  <2> QED  BY <1>3, <2>1, <2>2
<1>11. CASE RequestMarket
  <2>1. TypeOK' /\ Path' /\ Connections' /\ Course'
    BY <1>1, <1>3, <1>11 DEF RequestMarket, TypeOK
  <2>2. OnlyIssuedSessionsAreUsed' /\ ExitStatusIsEarned'
    BY <1>1, <1>2, <1>11 DEF RequestMarket, TypeOK, OnlyIssuedSessionsAreUsed, ExitStatusIsEarned
  <2> QED  BY <1>3, <2>1, <2>2
<1>12. CASE EndDrain
  <2>1. TypeOK' /\ Path' /\ Connections' /\ Course'
    BY <1>1, <1>3, <1>12 DEF EndDrain, TypeOK
  <2>2. OnlyIssuedSessionsAreUsed' /\ ExitStatusIsEarned'
    BY <1>1, <1>2, <1>12 DEF EndDrain, TypeOK, OnlyIssuedSessionsAreUsed, ExitStatusIsEarned
  <2> QED  BY <1>3, <2>1, <2>2
<1>13. CASE Store
  <2>1. TypeOK' /\ Path' /\ Connections' /\ Course'
    BY <1>1, <1>3, <1>13 DEF Store, TypeOK
  <2>2. OnlyIssuedSessionsAreUsed' /\ ExitStatusIsEarned'
    BY <1>1, <1>2, <1>13 DEF Store, TypeOK, OnlyIssuedSessionsAreUsed, ExitStatusIsEarned
  <2> QED  BY <1>3, <2>1, <2>2
<1>14. CASE Reset
  <2>1. TypeOK' /\ Path' /\ Connections' /\ Course'
    BY <1>1, <1>3, <1>14 DEF Reset, TypeOK
  <2>2. OnlyIssuedSessionsAreUsed' /\ ExitStatusIsEarned'
    BY <1>1, <1>2, <1>14 DEF Reset, TypeOK, OnlyIssuedSessionsAreUsed, ExitStatusIsEarned
  <2> QED  BY <1>3, <2>1, <2>2
<1> QED
  BY <1>4, <1>5, <1>6, <1>7, <1>8, <1>9, <1>10, <1>11, <1>12, <1>13, <1>14 DEF Client

\* An answer is heard only by reading it: what the game service writes later
\* does not change the status that was read.
LEMMA Unheard ==
    ASSUME SessionInv, Server \/ Network
    PROVE  Status0xF2' \in {Status0xF2, "none"}
<1> USE DEF SessionInv
<1>1. /\ rx' = rx /\ rx \in Nat /\ rx <= Len(stream)
      /\ stream \in Seq(Cells) /\ Len(stream) \in Nat
  <2>1. rx' = rx
    BY DEF Server, Admit, AnswerSweep, Network, clientVars
  <2>2. Sent \in Nat /\ Sent <= Len(stream) /\ rx \in 0 .. Sent
    BY SentIsNat DEF StreamInv, TypeOK
  <2>3. stream \in Seq(Cells) /\ Len(stream) \in Nat
    BY LenProperties DEF StreamInv
  <2> QED  BY <2>1, <2>2, <2>3
<1>2. CASE stream = <<>>
  <2>1. rx = 0
    BY <1>1, <1>2
  <2>2. Read' = <<>>
    BY <1>1, <2>1 DEF Read
  <2> QED  BY <2>2 DEF Status0xF2
<1>3. CASE admitted # "none"
  <2>1. admitted' = admitted /\ (stream' = stream \/ stream' = stream \o Member(2, 2))
    BY <1>3 DEF Server, Admit, AnswerSweep, Write, Network, Transmit, Retransmit, serverVars
  <2>2. Read' = Read
    <3>1. CASE stream' = stream
      BY <1>1, <3>1 DEF Read
    <3>2. CASE stream' = stream \o Member(2, 2)
      <4> DEFINE more == Member(2, 2)
      <4>1. more \in Seq(Cells)
        BY MemberIsWhole
      <4>2. stream' = stream \o more
        BY <3>2
      <4> HIDE DEF more
      <4>3. SubSeq(stream \o more, 1, rx) = SubSeq(stream, 1, rx)
        BY <1>1, <4>1
      <4> QED  BY <1>1, <4>2, <4>3 DEF Read
    <3> QED  BY <2>1, <3>1, <3>2
  <2> QED  BY <2>1, <2>2 DEF Status0xF2
<1> QED  BY <1>2, <1>3 DEF Answered

\* Reading a chunk, the servers and the network decide nothing by themselves.
LEMMA OtherStep ==
    ASSUME SessionInv, Receive \/ Server \/ Network
    PROVE  SessionInv'
<1> USE DEF SessionInv
<1>1. /\ UNCHANGED <<cmd, at, sockets, sentBy, stored, exit, interrupted, verdict>>
      /\ at # "end" /\ exit = "running" /\ Sent \in Nat
  BY SentIsNat
     DEF StreamInv, Receive, Server, Admit, AnswerSweep, Network, Goto, clientVars, serverVars, TypeOK
<1>2. Path' /\ Connections' /\ Course' /\ OnlyIssuedSessionsAreUsed'
  BY <1>1 DEF Path, Connections, Course, OnlyIssuedSessionsAreUsed
<1>3. admitted' \in {"none", "accepted", "refused"}
  BY DEF Receive, Server, Admit, AnswerSweep, Network, serverVars, TypeOK
<1>4. StreamInv' /\ rx' \in 0 .. Sent'
  <2>1. CASE Receive
    BY <1>1, <2>1, StreamStays DEF Receive
  <2>2. CASE Server
    <3>1. rx' = rx
      BY <2>2 DEF Server, Admit, AnswerSweep, clientVars
    <3> QED  BY <2>2, <3>1, ServerWrites DEF TypeOK
  <2>3. CASE Network /\ Transmit
    <3>1. StreamInv' /\ Sent' \in Nat /\ Sent <= Sent' /\ rx' = rx
      BY <2>3, StreamMoves DEF Network, clientVars
    <3> QED  BY <1>1, <3>1 DEF TypeOK
  <2>4. CASE Network /\ Retransmit
    <3>1. rx' = rx
      BY <2>4 DEF Network, clientVars
    <3> QED  BY <2>4, <3>1, StreamRepeats DEF TypeOK
  <2> QED  BY <2>1, <2>2, <2>3, <2>4 DEF Network
<1>5. TypeOK'
  BY <1>1, <1>3, <1>4 DEF TypeOK
<1>6. at = "request" => Status0xF2' # "refused"
  <2> SUFFICES ASSUME at = "request"  PROVE Status0xF2' # "refused"
    OBVIOUS
  <2>1. Status0xF2 # "refused" /\ ~Receive
    BY DEF Receive, ExitStatusIsEarned
  <2> QED  BY <2>1, Unheard
<1>7. ExitStatusIsEarned'
  BY <1>1, <1>6 DEF ExitStatusIsEarned
<1>8. Answered'
  BY DEF Receive, Server, Admit, AnswerSweep, Network, Transmit, Retransmit, Answered,
         streamVars, serverVars
<1> QED  BY <1>2, <1>4, <1>5, <1>7, <1>8

LEMMA InterruptStep ==
    ASSUME SessionInv, Interrupt
    PROVE  SessionInv'
<1>1. /\ StreamInv' /\ Sent' = Sent
      /\ UNCHANGED <<cmd, sentBy, rx, stored, verdict, admitted, stream>>
      /\ at' = "end" /\ interrupted' = TRUE /\ sockets' = {} /\ exit' \in {"0", "raised"}
  BY StreamStays DEF SessionInv, Interrupt, serverVars, streamVars
<1> QED
  BY <1>1 DEF SessionInv, TypeOK, Path, Connections, Course, Answered,
              OnlyIssuedSessionsAreUsed, ExitStatusIsEarned

LEMMA SessionInvariance == Spec => []SessionInv
<1>1. SessionInv /\ [Next]_vars => SessionInv'
  <2> SUFFICES ASSUME SessionInv, [Next]_vars
               PROVE  SessionInv'
    OBVIOUS
  <2>1. CASE UNCHANGED vars
    BY <2>1, StreamStays
       DEF vars, streamVars, clientVars, serverVars, SessionInv, TypeOK, Sent, Path, Connections,
           Course, Answered, OnlyIssuedSessionsAreUsed, ExitStatusIsEarned, Status0xF2, Read
  <2> QED
    BY <2>1, ClientStep, OtherStep, InterruptStep DEF Next
<1> QED  BY SessionInitInv, <1>1, PTL DEF Spec

-----------------------------------------------------------------------------
\* The types; at most one connection at a time, none after the end (the
\* finally blocks of cli.py, live_probe.py and client.py).
THEOREM SessionTypes == Spec => []TypeOK
  BY SessionInvariance, PTL DEF SessionInv

\* Nothing is sent on the strength of a session that was never issued
\* (auth.py, CelesteNetworkClient.login).
THEOREM IssuedSessions == Spec => []OnlyIssuedSessionsAreUsed
  BY SessionInvariance, PTL DEF SessionInv

\* Status 0 is given for a session, a handshake that read no refusal, a sweep
\* asked for and a snapshot stored, status 1 for a refusal (cli.py, _fetch;
\* live_probe.py, probe; client.py, login).
THEOREM EarnedExits == Spec => []ExitStatusIsEarned
  BY SessionInvariance, PTL DEF SessionInv

LEMMA LiveListings ==
    ASSUME StreamInv, rx \in 0 .. Sent
    PROVE  LiveAgreesWithOffline
<1> DEFINE P == SubSeq(stream, 1, Sent)
           there(p) == {p[i] : i \in {i \in DOMAIN p : IsListing(p[i])}}
<1>1. /\ stream \in Seq(Cells) /\ Whole(stream) /\ Len(stream) \in Nat
      /\ Sent \in Nat /\ Sent \in 0 .. Len(stream) /\ rx \in 0 .. Len(stream)
      /\ \A i \in 1 .. rx : i \in 1 .. Sent
  <2>1. stream \in Seq(Cells) /\ Whole(stream) /\ Len(stream) \in Nat
    BY LenProperties DEF StreamInv
  <2>2. Sent \in Nat /\ Sent <= Len(stream)
    BY SentIsNat DEF StreamInv
  <2> QED  BY <2>1, <2>2
<1>2. /\ DOMAIN Read = 1 .. rx /\ \A i \in 1 .. rx : Read[i] = stream[i]
      /\ DOMAIN P = 1 .. Sent /\ \A i \in 1 .. Sent : P[i] = stream[i]
  BY <1>1, PrefixIs DEF Read
<1>3. Listings(Read) = there(Read) /\ Listings(P) = there(P)
  BY <1>1, PrefixListings DEF Read
<1>4. there(Read) \subseteq there(P)
  <2> HIDE DEF P
  <2> SUFFICES ASSUME NEW i \in DOMAIN Read, IsListing(Read[i])
               PROVE  \E j \in DOMAIN P : IsListing(P[j]) /\ Read[i] = P[j]
    OBVIOUS
  <2>1. i \in 1 .. rx /\ i \in 1 .. Sent
    BY <1>1, <1>2
  <2>2. i \in DOMAIN P /\ Read[i] = P[i]
    BY <1>2, <2>1
  <2> QED  BY <2>2
<1>5. Orderly /\ Seen = 1 .. Sent => Reassembled = P
  BY StreamIsCaptured, CapturedStream DEF CaptureIsTheStream
<1> HIDE DEF P
<1>6. Orderly /\ Seen = 1 .. Sent => Listings(Read) \subseteq Listings(Reassembled)
  <2> HIDE DEF there
  <2> QED  BY <1>3, <1>4, <1>5
<1> QED  BY <1>3, <1>6 DEF LiveAgreesWithOffline

\* An orderly capture that saw every segment reassembles to the stream,
\* however its packets were swapped and repeated (pcap_source.py, _reassemble).
THEOREM CaptureReassembles == Spec => []CaptureIsTheStream
<1>1. SessionInv => CaptureIsTheStream
  BY StreamIsCaptured, CapturedStream DEF SessionInv
<1> QED  BY <1>1, SessionInvariance, PTL

\* A missed segment costs no listing but those of the messages it carried
\* (pcap_source.py, _reassemble; protocol.py, iter_zlib_members).
THEOREM LossStaysLocal == Spec => []LossIsLocal
<1>1. SessionInv => LossIsLocal
  BY StreamIsCaptured, LocalLoss DEF SessionInv, StreamInv
<1> QED  BY <1>1, SessionInvariance, PTL

\* What was read live is what a capture of the connection holds, wherever the
\* reading stopped (client.py, _drain_listings; pcap_source.py,
\* listings_from_pcap).
THEOREM LiveIsOffline == Spec => []LiveAgreesWithOffline
<1>1. SessionInv => LiveAgreesWithOffline
  BY LiveListings DEF SessionInv, TypeOK
<1> QED  BY <1>1, SessionInvariance, PTL
=============================================================================
