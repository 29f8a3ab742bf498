----------------------------- MODULE PersistProofs -----------------------------
(***************************************************************************)
(* Proofs that the engine can always be started again, and that the        *)
(* operation log and the slices keep balance updates as DurableStore says. *)
(***************************************************************************)
EXTENDS PersistProps, SumLemmas, SequenceTheorems

(* Numbers, and functions that are defined by recursion over them.          *)

\* Among natural numbers, if there are any, there is a smallest one.
LEMMA SmallestNumber ==
  ASSUME NEW T \in SUBSET Nat, T # {}
  PROVE  \E k \in T : \A j \in T : k <= j
<1> DEFINE Less == OpToRel(<, Nat)
<1>1. IsWellFoundedOn(Less, Nat)
  BY NatLessThanWellFounded
<1>2. ASSUME NEW x \in Nat, NEW y \in Nat, x < y PROVE <<x, y>> \in Less
  BY <1>2 DEF OpToRel
<1> HIDE DEF Less
<1>3. PICK k \in T : \A j \in T : ~(<<j, k>> \in Less)
  BY <1>1, WFMin
<1>4. ASSUME NEW j \in T PROVE k <= j
  <2>1. j \in Nat /\ k \in Nat
    OBVIOUS
  <2>2. ~(<<j, k>> \in Less)
    BY <1>3
  <2>3. ~(j < k)
    BY <1>2, <2>1, <2>2, Zenon
  <2> QED BY <2>1, <2>3
<1> QED BY <1>4

\* The values of D that n steps make of b, one after the other.
IsIteration(F, n, D, b, step) ==
  F \in [0..n -> D] /\ F[0] = b /\ \A i \in 1..n : F[i] = step[i][F[i - 1]]

LEMMA IterationExists ==
  ASSUME NEW n \in Nat, NEW D, NEW b \in D, NEW step \in [1..n -> [D -> D]]
  PROVE  \E F : IsIteration(F, n, D, b, step)
<1> DEFINE Has(k) == \E F : IsIteration(F, k, D, b, step)
           bad    == {k \in 0..n : ~Has(k)}
<1>1. Has(0)
  <2> DEFINE F == [i \in 0..0 |-> b]
  <2>1. F \in [0..0 -> D] /\ F[0] = b
    OBVIOUS
  <2>2. \A i \in 1..0 : F[i] = step[i][F[i - 1]]
    OBVIOUS
  <2> HIDE DEF F
  <2>3. IsIteration(F, 0, D, b, step)
    BY <2>1, <2>2 DEF IsIteration
  <2> QED BY <2>3
<1>2. ASSUME NEW k \in 1..n, Has(k - 1) PROVE Has(k)
  <2>0. PICK F : IsIteration(F, k - 1, D, b, step)
    BY <1>2
  <2>1. /\ F \in [0..(k - 1) -> D]
        /\ F[0] = b /\ \A i \in 1..(k - 1) : F[i] = step[i][F[i - 1]]
    BY <2>0 DEF IsIteration
  <2> DEFINE G == [i \in 0..k |-> IF i = k THEN step[k][F[k - 1]] ELSE F[i]]
  <2>2. step[k][F[k - 1]] \in D
    BY <2>1
  <2>3. G \in [0..k -> D] /\ G[0] = b
    BY <2>1, <2>2
  <2>4. ASSUME NEW i \in 1..k PROVE G[i] = step[i][G[i - 1]]
    <3>1. CASE i = k
      <4>1. i # k - 1 /\ k - 1 \in 0..k /\ G[k - 1] = F[k - 1]
        BY <3>1
      <4>2. G[k] = step[k][F[k - 1]]
        OBVIOUS
      <4> HIDE DEF G
      <4> QED BY <3>1, <4>1, <4>2
    <3>2. CASE i # k
      <4>1. i \in 1..(k - 1) /\ i - 1 \in 0..k /\ i - 1 # k /\ i \in 0..k
        BY <3>2
      <4>2. G[i] = F[i] /\ G[i - 1] = F[i - 1]
        BY <4>1, <3>2
      <4> HIDE DEF G
      <4> QED BY <4>1, <4>2, <2>1
    <3> QED BY <3>1, <3>2
  <2> HIDE DEF G
  <2>5. IsIteration(G, k, D, b, step)
    BY <2>3, <2>4 DEF IsIteration
  <2> QED BY <2>5
<1>3. bad = {}
  <2> SUFFICES ASSUME bad # {} PROVE FALSE
    OBVIOUS
  <2>1. PICK k \in bad : \A j \in bad : k <= j
    <3>1. bad \in SUBSET Nat
      OBVIOUS
    <3> HIDE DEF bad
    <3> QED BY <3>1, SmallestNumber
  <2> HIDE DEF Has
  <2>2. k \in 1..n /\ k - 1 \in 0..n /\ k - 1 \notin bad
    BY <2>1, <1>1
  <2> QED BY <2>1, <2>2, <1>2
<1>4. n \in 0..n
  OBVIOUS
<1>5. Has(n)
  <2> HIDE DEF Has
  <2> QED BY <1>3, <1>4
<1> QED BY <1>5

(* FlattenSeq.                                                              *)

\* What FlattenSeq is the last value of.
IsFlat(g, s) == g = [i \in 1..Len(s) |-> IF i = 1 THEN s[i] ELSE g[i - 1] \o s[i]]

LEMMA FlattenDefinition ==
  ASSUME NEW s, Len(s) # 0
  PROVE  FlattenSeq(s) = (CHOOSE g : IsFlat(g, s))[Len(s)]
  BY DEF FlattenSeq, IsFlat

LEMMA FlatExists ==
  ASSUME NEW R, NEW s \in Seq(Seq(R))
  PROVE  \E g : IsFlat(g, s)
<1> DEFINE n == Len(s)
           D == Seq(R)
           b == <<>>
           step == [i \in 1..n |-> [x \in D |-> x \o s[i]]]
<1>1. n \in Nat /\ \A i \in 1..n : s[i] \in D
  OBVIOUS
<1>2. \A x \in D, y \in D : x \o y \in D
  BY ConcatProperties
<1>3. b \in D /\ \A x \in D : b \o x = x
  BY EmptySeq, ConcatEmptySeq
<1> HIDE DEF n, D, b
<1>4. step \in [1..n -> [D -> D]] /\ \A i \in 1..n, x \in D : step[i][x] = x \o s[i]
  BY <1>1, <1>2
<1> HIDE DEF step
<1>10. PICK F : IsIteration(F, n, D, b, step)
  <2>1. n \in Nat /\ b \in D /\ step \in [1..n -> [D -> D]]
    BY <1>1, <1>3, <1>4
  <2> QED BY ONLY <2>1, IterationExists
<1>5. F \in [0..n -> D] /\ F[0] = b /\ \A i \in 1..n : F[i] = step[i][F[i - 1]]
  BY <1>10 DEF IsIteration
<1>6. ASSUME NEW i \in 1..n PROVE F[i] = IF i = 1 THEN s[i] ELSE F[i - 1] \o s[i]
  <2>1. i - 1 \in 0..n /\ F[i - 1] \in D /\ s[i] \in D
    BY <1>1, <1>5
  <2>2. F[i] = F[i - 1] \o s[i]
    BY <2>1, <1>4, <1>5
  <2>3. CASE i = 1
    BY <2>1, <2>2, <2>3, <1>3, <1>5
  <2> QED BY <2>2, <2>3
<1> DEFINE g == [i \in 1..n |-> F[i]]
           e(i) == IF i = 1 THEN s[i] ELSE g[i - 1] \o s[i]
<1>7. ASSUME NEW i \in 1..n PROVE F[i] = e(i)
  <2>1. i # 1 => g[i - 1] = F[i - 1]
    BY <1>1
  <2> HIDE DEF g
  <2> QED BY <2>1, <1>6
<1>8. g = [i \in 1..n |-> e(i)]
  <2> HIDE DEF e
  <2> QED BY <1>7
<1>9. IsFlat(g, s)
  BY <1>8 DEF IsFlat, n
<1> QED BY <1>9

\* What is said of g at the place i.
FlatAt(g, s, i) == (i = 1 => g[i] = s[i]) /\ (i # 1 => g[i] = g[i - 1] \o s[i])

LEMMA FlatValue ==
  ASSUME NEW g, NEW s, IsFlat(g, s)
  PROVE  \A i \in 1..Len(s) : FlatAt(g, s, i)
<1> SUFFICES ASSUME NEW i \in 1..Len(s) PROVE FlatAt(g, s, i)
  OBVIOUS
<1> DEFINE e(j) == IF j = 1 THEN s[j] ELSE g[j - 1] \o s[j]
<1>1. g = [j \in 1..Len(s) |-> e(j)]
  BY DEF IsFlat
<1> HIDE DEF e
<1>2. g[i] = e(i)
  BY <1>1
<1> QED BY <1>2 DEF e, FlatAt

LEMMA FlatType ==
  ASSUME NEW R, NEW s \in Seq(Seq(R)), NEW g, IsFlat(g, s)
  PROVE  \A i \in 1..Len(s) : g[i] \in Seq(R)
<1> DEFINE bad == {i \in 1..Len(s) : g[i] \notin Seq(R)}
<1>1. \A i \in 1..Len(s) :
        s[i] \in Seq(R) /\ (i = 1 => g[i] = s[i]) /\ (i # 1 => g[i] = g[i - 1] \o s[i])
  <2>1. \A i \in 1..Len(s) : FlatAt(g, s, i)
    BY FlatValue
  <2>2. \A i \in 1..Len(s) : s[i] \in Seq(R)
    BY ElementOfSeq
  <2> QED BY <2>1, <2>2 DEF FlatAt
<1> SUFFICES ASSUME bad # {} PROVE FALSE
  OBVIOUS
<1>2. PICK k \in bad : \A j \in bad : k <= j
  <2>1. bad \in SUBSET Nat
    OBVIOUS
  <2> HIDE DEF bad
  <2> QED BY <2>1, SmallestNumber
<1>3. CASE k = 1
  BY <1>1, <1>2, <1>3
<1>4. CASE k # 1
  <2>1. k \in 1..Len(s) /\ k - 1 \in 1..Len(s) /\ k - 1 \notin bad
    BY <1>2, <1>4
  <2>2. g[k - 1] \in Seq(R) /\ s[k] \in Seq(R) /\ g[k] = g[k - 1] \o s[k]
    BY <2>1, <1>1, <1>4
  <2>3. g[k] \in Seq(R)
    BY ONLY <2>2, ConcatProperties
  <2> QED BY <2>3
<1> QED BY <1>3, <1>4

\* There is but one such function, up to any place.
Agree(g, h, n) == \A i \in 1..n : g[i] = h[i]

LEMMA FlatUnique ==
  ASSUME NEW R, NEW s \in Seq(Seq(R)), NEW t \in Seq(Seq(R)), NEW g, NEW h,
         IsFlat(g, s), IsFlat(h, t), NEW n \in Nat, n <= Len(s), n <= Len(t),
         Agree(s, t, n)
  PROVE  Agree(g, h, n)
<1> USE DEF Agree
<1> DEFINE bad == {i \in 1..n : g[i] # h[i]}
<1>1. \A i \in 1..n : /\ (i = 1 => g[i] = s[i]) /\ (i # 1 => g[i] = g[i - 1] \o s[i])
                      /\ (i = 1 => h[i] = s[i]) /\ (i # 1 => h[i] = h[i - 1] \o s[i])
  <2> SUFFICES ASSUME NEW i \in 1..n
               PROVE  /\ (i = 1 => g[i] = s[i]) /\ (i # 1 => g[i] = g[i - 1] \o s[i])
                      /\ (i = 1 => h[i] = s[i]) /\ (i # 1 => h[i] = h[i - 1] \o s[i])
    OBVIOUS
  <2>1. i \in 1..Len(s) /\ i \in 1..Len(t) /\ s[i] = t[i]
    BY LenProperties
  <2>2. \A j \in 1..Len(s) : FlatAt(g, s, j)
    BY FlatValue
  <2>3. \A j \in 1..Len(t) : FlatAt(h, t, j)
    BY FlatValue
  <2> QED BY <2>1, <2>2, <2>3 DEF FlatAt
<1> SUFFICES ASSUME bad # {} PROVE FALSE
  OBVIOUS
<1>2. PICK k \in bad : \A j \in bad : k <= j
  <2>1. bad \in SUBSET Nat
    OBVIOUS
  <2> HIDE DEF bad
  <2> QED BY <2>1, SmallestNumber
<1>3. k # 1 => k - 1 \in 1..n /\ k - 1 \notin bad
  BY <1>2
<1> QED BY <1>1, <1>2, <1>3

LEMMA FlattenIs ==
  ASSUME NEW R, NEW s \in Seq(Seq(R)), Len(s) # 0, NEW g, IsFlat(g, s)
  PROVE  FlattenSeq(s) = g[Len(s)] /\ FlattenSeq(s) \in Seq(R)
<1> DEFINE h == CHOOSE f : IsFlat(f, s)
<1>1. IsFlat(h, s)
  OBVIOUS
<1>2. FlattenSeq(s) = h[Len(s)]
  BY FlattenDefinition
<1> HIDE DEF h
<1>3. Len(s) \in 1..Len(s)
  OBVIOUS
<1>4. g[Len(s)] = h[Len(s)]
  <2> DEFINE n == Len(s)
  <2>1. n \in Nat /\ n <= Len(s) /\ Agree(s, s, n) /\ n \in 1..n
    BY <1>3 DEF Agree
  <2> HIDE DEF n
  <2>2. Agree(g, h, n)
    BY <2>1, <1>1, FlatUnique
  <2>3. g[n] = h[n]
    BY <2>1, <2>2 DEF Agree
  <2> QED BY <2>3 DEF n
<1> QED BY <1>2, <1>3, <1>4, FlatType

LEMMA FlattenEmpty == FlattenSeq(<<>>) = <<>>
  BY DEF FlattenSeq

LEMMA FlattenAppend ==
  ASSUME NEW R, NEW s \in Seq(Seq(R)), NEW x \in Seq(R)
  PROVE  FlattenSeq(Append(s, x)) = FlattenSeq(s) \o x /\ FlattenSeq(s) \in Seq(R)
<1> DEFINE t == Append(s, x)
<1>1. t \in Seq(Seq(R)) /\ Len(t) = Len(s) + 1 /\ t[Len(t)] = x
      /\ \A i \in 1..Len(s) : t[i] = s[i]
  BY AppendProperties
<1>2. Len(s) \in Nat /\ Len(t) # 0 /\ Len(t) \in 1..Len(t)
  BY <1>1, LenProperties
<1>3. FlattenSeq(Append(s, x)) = FlattenSeq(t)
  OBVIOUS
<1> HIDE DEF t
<1>4. PICK h : IsFlat(h, t)
  BY <1>1, FlatExists
<1>5. FlattenSeq(t) = h[Len(t)]
  BY <1>1, <1>2, <1>4, FlattenIs
<1>6. h[Len(t)] = IF Len(t) = 1 THEN x ELSE h[Len(s)] \o x
  <2>0. \A i \in 1..Len(t) : FlatAt(h, t, i)
    BY <1>4, FlatValue
  <2>1. /\ Len(t) = 1 => h[Len(t)] = t[Len(t)]
        /\ Len(t) # 1 => h[Len(t)] = h[Len(t) - 1] \o t[Len(t)]
    BY <1>2, <2>0 DEF FlatAt
  <2>2. Len(t) - 1 = Len(s)
    BY <1>1, <1>2
  <2> QED BY <2>1, <2>2, <1>1
<1>7. CASE Len(s) = 0
  <2>1. s = <<>> /\ FlattenSeq(s) = <<>>
    BY <1>7, EmptySeq, FlattenEmpty
  <2>2. <<>> \o x = x /\ <<>> \in Seq(R)
    BY EmptySeq, ConcatEmptySeq
  <2>3. FlattenSeq(t) = x
    BY <1>1, <1>5, <1>6, <1>7
  <2> QED BY <2>1, <2>2, <2>3, <1>3
<1>8. CASE Len(s) # 0
  <2>1. PICK g : IsFlat(g, s)
    BY FlatExists
  <2>2. FlattenSeq(s) = g[Len(s)] /\ FlattenSeq(s) \in Seq(R)
    BY <2>1, <1>8, FlattenIs
  <2>3. Len(s) \in 0..Len(s) /\ Len(s) <= Len(t) /\ Len(s) \in 1..Len(s)
    BY <1>1, <1>2, <1>8
  <2>4. \A i \in 1..Len(s) : g[i] = h[i]
    <3>1. \A i \in 1..Len(s) : s[i] = t[i]
      BY <1>1
    <3> DEFINE n == Len(s)
    <3>2. /\ s \in Seq(Seq(R)) /\ t \in Seq(Seq(R)) /\ IsFlat(g, s) /\ IsFlat(h, t)
          /\ n \in Nat /\ n <= Len(s) /\ n <= Len(t) /\ Agree(s, t, n)
      BY <1>1, <1>2, <1>4, <2>1, <2>3, <3>1 DEF Agree
    <3> HIDE DEF n
    <3>3. Agree(g, h, n)
      BY ONLY <3>2, FlatUnique
    <3> QED BY <3>3 DEF n, Agree
  <2>5. Len(t) # 1
    BY <1>1, <1>2, <1>8
  <2>6. FlattenSeq(t) = g[Len(s)] \o x
    BY <2>3, <2>4, <2>5, <1>5, <1>6
  <2> QED BY <2>2, <2>6, <1>3
<1> QED BY <1>7, <1>8

Associates(a, b, c) == (a \o b) \o c = a \o (b \o c)

LEMMA ConcatInAnyOrder ==
  ASSUME NEW R, NEW a \in Seq(R), NEW b \in Seq(R), NEW c \in Seq(R)
  PROVE  Associates(a, b, c)
<1> DEFINE v == (a \o b) \o c  w == a \o (b \o c)
<1>1. v \in Seq(R) /\ w \in Seq(R) /\ Len(v) = Len(w)
  OBVIOUS
<1>2. ASSUME NEW i \in 1..Len(v) PROVE v[i] = w[i]
  OBVIOUS
<1> HIDE DEF v, w
<1>3. v = w
  BY <1>1, <1>2, SeqEqual
<1> QED BY <1>3 DEF Associates, v, w

LEMMA FlattenTail ==
  ASSUME NEW R, NEW s \in Seq(Seq(R)), s # <<>>
  PROVE  FlattenSeq(s) = Head(s) \o FlattenSeq(Tail(s)) /\ FlattenSeq(Tail(s)) \in Seq(R)
<1> DEFINE t == Tail(s)  x == Head(s)  n == Len(t)
<1>1. /\ t \in Seq(Seq(R)) /\ Len(t) = Len(s) - 1 /\ \A i \in 1..Len(t) : t[i] = s[i + 1]
      /\ x = s[1] /\ x \in Seq(R) /\ Len(s) \in Nat \ {0}
  BY HeadTailProperties, EmptySeq
<1>2. n \in Nat /\ Len(s) = n + 1
  BY <1>1, LenProperties
<1> HIDE DEF t, x
<1>3. PICK g : IsFlat(g, s)
  BY FlatExists
<1>4. FlattenSeq(s) = g[n + 1]
  BY <1>2, <1>3, FlattenIs
<1>5. g[1] = x /\ \A i \in 1..n : g[i + 1] = g[i] \o t[i]
  <2>0. \A i \in 1..Len(s) : FlatAt(g, s, i)
    BY <1>3, FlatValue
  <2>1. g[1] = x
    <3>1. 1 \in 1..Len(s)
      BY <1>2
    <3> QED BY <3>1, <1>1, <2>0 DEF FlatAt
  <2>2. ASSUME NEW i \in 1..n PROVE g[i + 1] = g[i] \o t[i]
    <3>1. i + 1 \in 1..Len(s) /\ i + 1 # 1 /\ (i + 1) - 1 = i
      BY <1>2
    <3>2. g[i + 1] = g[i] \o s[i + 1]
      BY <3>1, <2>0 DEF FlatAt
    <3> QED BY <3>2, <1>1
  <2> QED BY <2>1, <2>2
<1>6. PICK h : IsFlat(h, t)
  BY <1>1, FlatExists
<1>7. /\ \A i \in 1..n : (i = 1 => h[i] = t[i]) /\ (i # 1 => h[i] = h[i - 1] \o t[i])
      /\ \A i \in 1..n : h[i] \in Seq(R) /\ t[i] \in Seq(R)
  <2>1. \A i \in 1..n : (i = 1 => h[i] = t[i]) /\ (i # 1 => h[i] = h[i - 1] \o t[i])
    <3>1. \A i \in 1..Len(t) : FlatAt(h, t, i)
      BY <1>6, FlatValue
    <3> QED BY <3>1 DEF FlatAt, n
  <2>2. \A i \in 1..n : h[i] \in Seq(R)
    BY <1>1, <1>6, FlatType
  <2>3. \A i \in 1..n : t[i] \in Seq(R)
    BY <1>1, ElementOfSeq
  <2> QED BY <2>1, <2>2, <2>3
<1> HIDE DEF n
<1>8. \A i \in 1..n : g[i + 1] = x \o h[i]
  <2> DEFINE bad == {i \in 1..n : g[i + 1] # x \o h[i]}
  <2> SUFFICES ASSUME bad # {} PROVE FALSE
    OBVIOUS
  <2>1. PICK k \in bad : \A j \in bad : k <= j
    <3>1. bad \in SUBSET Nat
      BY <1>2
    <3> HIDE DEF bad
    <3> QED BY <3>1, SmallestNumber
  <2>2. k \in 1..n /\ g[k + 1] = g[k] \o t[k]
    BY <2>1, <1>5
  <2>3. CASE k = 1
    BY <2>1, <2>2, <2>3, <1>5, <1>7
  <2>4. CASE k # 1
    <3>1. k - 1 \in 1..n /\ k - 1 \notin bad /\ (k - 1) + 1 = k
      <4>1. k \in Nat /\ k - 1 < k /\ k - 1 \in 1..n /\ (k - 1) + 1 = k
        BY <2>2, <2>4, <1>2
      <4>2. k - 1 \notin bad
        <5> HIDE DEF bad
        <5> QED BY <2>1, <4>1
      <4> QED BY <4>1, <4>2
    <3>2. g[k] = x \o h[k - 1]
      BY <3>1
    <3>3. h[k] = h[k - 1] \o t[k] /\ h[k - 1] \in Seq(R) /\ t[k] \in Seq(R)
      BY <2>2, <2>4, <3>1, <1>7
    <3>4. (x \o h[k - 1]) \o t[k] = x \o (h[k - 1] \o t[k])
      <4> DEFINE p == h[k - 1]  q == t[k]
      <4>1. x \in Seq(R) /\ p \in Seq(R) /\ q \in Seq(R)
        BY <3>3, <1>1
      <4> HIDE DEF x, p, q
      <4>2. Associates(x, p, q)
        BY ONLY <4>1, ConcatInAnyOrder
      <4> QED BY <4>2 DEF Associates, p, q
    <3> QED BY <2>1, <2>2, <3>2, <3>3, <3>4
  <2> QED BY <2>3, <2>4
<1>9. CASE n = 0
  <2>1. t = <<>>
    BY <1>1, <1>9, EmptySeq DEF n
  <2>2. FlattenSeq(t) = <<>> /\ <<>> \in Seq(R) /\ x \o <<>> = x
    BY <2>1, <1>1, EmptySeq, FlattenEmpty, ConcatEmptySeq
  <2>3. FlattenSeq(s) = x
    BY <1>4, <1>5, <1>9
  <2>4. FlattenSeq(s) = x \o FlattenSeq(t) /\ FlattenSeq(t) \in Seq(R)
    BY <2>2, <2>3
  <2> QED BY <2>4 DEF t, x
<1>10. CASE n # 0
  <2>1. FlattenSeq(t) = h[n] /\ FlattenSeq(t) \in Seq(R)
    BY <1>1, <1>6, <1>10, FlattenIs DEF n
  <2>2. n \in 1..n
    BY <1>2, <1>10
  <2> QED BY <2>1, <2>2, <1>4, <1>8 DEF t, x
<1> QED BY <1>9, <1>10
------------------------------------------------------------------------------
(* The inductive invariant.                                                 *)

Operation == [id : Nat, request : Nat]

Requests ==
  [kind : {"update"}, arg : Business] \cup [kind : {"open", "cancel"}, arg : Nat]

\* What the row of a slice says, and its table of accounts.
Row == [time : 1..clock, end : 0..Len(requests)]

Accounts == [applied : SUBSET (DOMAIN requests), frozen : SUBSET (DOMAIN requests)]

\* The memory of a process that has executed requests of the set s.
MemoryOf(s) ==
  [applied : SUBSET s, orders : SUBSET s, frozen : SUBSET s, seen : SUBSET Business]

TypeOK ==
  /\ pc \in {"up", "stopping", "suicide", "down"}
  /\ requests \in Seq(Requests) /\ Len(requests) <= MaxRequests
  /\ mem \in MemoryOf(DOMAIN requests)
  /\ operlog_id_start \in 0..Len(requests)
  /\ list \in Seq(Operation) /\ job \in Seq(Seq(Operation)) /\ busy \in Seq(Operation)
  /\ DOMAIN log \subseteq 1..Len(requests)
  /\ \A id \in DOMAIN log : log[id] \in DOMAIN requests
  /\ clock \in Nat
  /\ DOMAIN accounts \subseteq 1..clock /\ DOMAIN orders_of \subseteq 1..clock
  /\ \A t \in DOMAIN accounts : accounts[t] \in Accounts

\* The process is gone, and all that was only in its memory.
Gone ==
  pc = "down" =>
    /\ mem = Empty /\ operlog_id_start = 0
    /\ list = <<>> /\ job = <<>> /\ busy = <<>> /\ children = {}

\* The last operation that is in the log or is being written to it: base is the one
\* before those that are pending.
Base == operlog_id_start - Len(Pending)

IsWritten == busy # <<>> /\ Base + 1 \in DOMAIN log

LogEnd == IF IsWritten THEN Base + Len(busy) ELSE Base

\* Pending operations have the ids that come next, and the statement a thread is
\* executing was executed as a whole or not at all.
Numbered ==
  /\ Len(Pending) <= operlog_id_start
  /\ \A i \in DOMAIN Pending :
       Pending[i].id = Base + i /\ Pending[i].request \in DOMAIN requests
  /\ pc # "down" =>
       /\ \A id \in DOMAIN log : id <= LogEnd
       /\ \A id \in (StartId + 1)..LogEnd : id \in DOMAIN log
  /\ IsWritten => \A i \in DOMAIN busy :
                    Base + i \in DOMAIN log /\ log[Base + i] = busy[i].request

\* The requests of the operations after the last slice, from the log or from what
\* is on its way there.
ops ==
  [id \in (StartId + 1)..operlog_id_start |->
     IF id \in DOMAIN log THEN log[id] ELSE Pending[id - Base].request]

\* The last slice's accounts.
Sliced == IF HasSlice THEN accounts[LastSlice.time].applied ELSE {}

\* Of the requests q, the operations i+1..j of f follow accounts that show the
\* requests s: they are later ones, one after the other, and no update is repeated.
Follows(q, f, s, i, j) ==
  /\ \A k \in (i + 1)..j : f[k] \in DOMAIN q /\ \A t \in s : t < f[k]
  /\ \A k, m \in (i + 1)..j : k < m => f[k] < f[m]
  /\ \A k, m \in (i + 1)..j :
       k # m /\ q[f[k]].kind = "update" /\ q[f[m]].kind = "update"
         => q[f[k]].arg # q[f[m]].arg

UpdatesOf(q, s) == {t \in s : q[t].kind = "update"}

Between(f, i, j) == {f[k] : k \in (i + 1)..j}

\* The accounts a show the updates of s and those of the operations i+1..j.
Shows(q, f, a, s, i, j) == UpdatesOf(q, a) = UpdatesOf(q, s) \cup UpdatesOf(q, Between(f, i, j))

\* Updates among the operations i+1..j are remembered.
Remembers(q, f, b, i, j) ==
  \A k \in (i + 1)..j : q[f[k]].kind = "update" => q[f[k]].arg \in b

\* The process holds what the last slice and the operations after it make.
Held ==
  pc # "down" =>
    /\ StartId <= operlog_id_start
    /\ Follows(requests, ops, Sliced, StartId, operlog_id_start)
    /\ Shows(requests, ops, mem.applied, Sliced, StartId, operlog_id_start)
    /\ Remembers(requests, ops, mem.seen, StartId, operlog_id_start)

\* The log goes on after the last slice without a gap, up to n.
LogHas(n) ==
  /\ n \in StartId..Len(requests)
  /\ \A id \in DOMAIN log : id <= n
  /\ \A id \in (StartId + 1)..n : id \in DOMAIN log
  /\ Follows(requests, log, Sliced, StartId, n)

\* So it does when the process is gone.
HeldByLog == pc = "down" => \E n \in 0..Len(requests) : LogHas(n)

\* The last slice is the latest, and its tables are there.
SlicesOK ==
  /\ \A id \in DOMAIN history : id \in Nat \ {0} /\ history[id] \in Row
  /\ HasSlice =>
       /\ LastId \in DOMAIN history
       /\ \A id \in DOMAIN history : id <= LastId /\ history[id].time <= LastSlice.time
       /\ LastSlice.time \in DOMAIN accounts /\ LastSlice.time \in DOMAIN orders_of

\* A slice process has a copy of the memory that is newer than every slice ...
IsCurrent(c) ==
  /\ c.mem \in MemoryOf(DOMAIN requests)
  /\ c.end \in StartId..operlog_id_start
  /\ \A id \in DOMAIN history : history[id].time < c.time
  /\ Shows(requests, ops, c.mem.applied, Sliced, StartId, c.end)
  /\ \A k \in (c.end + 1)..operlog_id_start, t \in c.mem.applied : t < ops[k]

IsStored(c) ==
  /\ c.time \in DOMAIN accounts /\ c.time \in DOMAIN orders_of
  /\ accounts[c.time] = Written(c)

\* ... or deletes slices that are older than the last.
IsDeleting(c) ==
  /\ HasSlice /\ DOMAIN c.todo # {} /\ DOMAIN c.todo \subseteq Nat
  /\ \A id \in DOMAIN c.todo : id # LastId /\ c.todo[id].time # LastSlice.time

ChildOK(c) ==
  /\ DOMAIN c = {"time", "mem", "end", "step", "todo"}
  /\ c.time \in 1..clock
  /\ c.step \in {"dump", "history", "clear", "drop_orders", "drop_accounts", "delete_row"}
  /\ c.step \in {"dump", "history"} => IsCurrent(c)
  /\ c.step = "history" => IsStored(c)
  /\ c.step \in {"drop_orders", "drop_accounts", "delete_row"} => IsDeleting(c)

ChildrenOK ==
  /\ \A c \in children, d \in children : c = d
  /\ \A c \in children : ChildOK(c)

IInv == TypeOK /\ Gone /\ Numbered /\ Held /\ HeldByLog /\ SlicesOK /\ ChildrenOK

\* Slice processes one at a time, which end with the engine's process and notice
\* when a statement fails.
OneByOne == MaxChildren <= 1 /\ OrphanSlices = FALSE /\ InsertFails = FALSE
------------------------------------------------------------------------------
(* Operations that follow a slice.                                          *)

\* The requests r begin with the requests q.
Extends(q, r) == \A t \in DOMAIN q : t \in DOMAIN r /\ r[t] = q[t]

LEMMA FollowsPart ==
  ASSUME NEW q, NEW r, Extends(q, r), NEW f, NEW g, NEW s, NEW u,
         NEW i \in Nat, NEW j \in Nat, NEW k \in Nat, NEW l \in Nat, i <= k, l <= j,
         \A m \in (k + 1)..l : g[m] = f[m] /\ \A t \in u : t < f[m],
         Follows(q, f, s, i, j)
  PROVE  Follows(r, g, u, k, l)
<1>1. \A m \in (k + 1)..l : m \in (i + 1)..j
  OBVIOUS
<1>2. \A m \in (k + 1)..l : /\ f[m] \in DOMAIN q /\ f[m] \in DOMAIN r /\ r[f[m]] = q[f[m]]
                            /\ g[m] = f[m]
  BY <1>1 DEF Follows, Extends
<1>3. \A m \in (k + 1)..l : g[m] \in DOMAIN r /\ \A t \in u : t < g[m]
  BY <1>2
<1>4. \A m, n \in (k + 1)..l : m < n => g[m] < g[n]
  BY <1>1, <1>2 DEF Follows
<1>5. \A m, n \in (k + 1)..l :
        m # n /\ r[g[m]].kind = "update" /\ r[g[n]].kind = "update"
          => r[g[m]].arg # r[g[n]].arg
  <2> SUFFICES ASSUME NEW m \in (k + 1)..l, NEW n \in (k + 1)..l, m # n,
                      r[g[m]].kind = "update", r[g[n]].kind = "update"
               PROVE  r[g[m]].arg # r[g[n]].arg
    OBVIOUS
  <2>1. m \in (i + 1)..j /\ n \in (i + 1)..j
    BY <1>1
  <2>2. r[g[m]] = q[f[m]] /\ r[g[n]] = q[f[n]]
    BY <1>2
  <2> QED BY <2>1, <2>2 DEF Follows
<1> QED BY <1>3, <1>4, <1>5 DEF Follows

\* One more operation, the request of which is the last one.
LEMMA FollowsNext ==
  ASSUME NEW q, NEW r, Extends(q, r), DOMAIN q \subseteq Nat, NEW f, NEW g, NEW s, s \subseteq DOMAIN q,
         NEW i \in Nat, NEW j \in Nat, i <= j,
         \A m \in (i + 1)..j : g[m] = f[m],
         NEW t \in DOMAIN r, g[j + 1] = t, \A v \in DOMAIN q : v < t,
         r[t].kind = "update" =>
           \A m \in (i + 1)..j : q[f[m]].kind = "update" => q[f[m]].arg # r[t].arg,
         Follows(q, f, s, i, j)
  PROVE  Follows(r, g, s, i, j + 1)
<1>1. \A m \in (i + 1)..(j + 1) : m \in (i + 1)..j \/ m = j + 1
  OBVIOUS
<1>2. \A m \in (i + 1)..j : /\ f[m] \in DOMAIN q /\ f[m] \in DOMAIN r /\ r[f[m]] = q[f[m]]
                            /\ g[m] = f[m] /\ m # j + 1
  BY DEF Follows, Extends
<1>3. \A m \in (i + 1)..(j + 1) : g[m] \in DOMAIN r /\ \A v \in s : v < g[m]
  <2> SUFFICES ASSUME NEW m \in (i + 1)..(j + 1)
               PROVE  g[m] \in DOMAIN r /\ \A v \in s : v < g[m]
    OBVIOUS
  <2>1. CASE m = j + 1
    BY <2>1
  <2>2. CASE m \in (i + 1)..j
    BY <2>2, <1>2 DEF Follows
  <2> QED BY <2>1, <2>2, <1>1
<1>4. \A m, n \in (i + 1)..(j + 1) : m < n => g[m] < g[n]
  <2> SUFFICES ASSUME NEW m \in (i + 1)..(j + 1), NEW n \in (i + 1)..(j + 1), m < n
               PROVE  g[m] < g[n]
    OBVIOUS
  <2>1. m \in (i + 1)..j
    OBVIOUS
  <2>2. CASE n = j + 1
    BY <2>1, <2>2, <1>2
  <2>3. CASE n \in (i + 1)..j
    BY <2>1, <2>3, <1>2 DEF Follows
  <2> QED BY <2>2, <2>3, <1>1
<1>5. \A m, n \in (i + 1)..(j + 1) :
        m # n /\ r[g[m]].kind = "update" /\ r[g[n]].kind = "update"
          => r[g[m]].arg # r[g[n]].arg
  <2> SUFFICES ASSUME NEW m \in (i + 1)..(j + 1), NEW n \in (i + 1)..(j + 1), m # n,
                      r[g[m]].kind = "update", r[g[n]].kind = "update"
               PROVE  r[g[m]].arg # r[g[n]].arg
    OBVIOUS
  <2>1. CASE m \in (i + 1)..j /\ n \in (i + 1)..j
    <3>1. r[g[m]] = q[f[m]] /\ r[g[n]] = q[f[n]]
      BY <2>1, <1>2
    <3> QED BY <2>1, <3>1 DEF Follows
  <2>2. CASE m = j + 1 /\ n \in (i + 1)..j
    <3>1. r[g[m]] = r[t] /\ r[g[n]] = q[f[n]]
      BY <2>2, <1>2
    <3> QED BY <2>2, <3>1
  <2>3. CASE m \in (i + 1)..j /\ n = j + 1
    <3>1. r[g[n]] = r[t] /\ r[g[m]] = q[f[m]]
      BY <2>3, <1>2
    <3> QED BY <2>3, <3>1
  <2> QED BY <2>1, <2>2, <2>3, <1>1
<1> QED BY <1>3, <1>4, <1>5 DEF Follows

LEMMA UpdatesExtend ==
  ASSUME NEW q, NEW r, Extends(q, r), NEW s, s \subseteq DOMAIN q
  PROVE  UpdatesOf(r, s) = UpdatesOf(q, s)
  BY DEF UpdatesOf, Extends

LEMMA BetweenSplit ==
  ASSUME NEW f, NEW i \in Nat, NEW j \in Nat, NEW k \in Nat, i <= k, k <= j
  PROVE  Between(f, i, j) = Between(f, i, k) \cup Between(f, k, j)
<1>1. \A m : m \in (i + 1)..j <=> m \in (i + 1)..k \/ m \in (k + 1)..j
  OBVIOUS
<1> QED BY <1>1, Zenon DEF Between

LEMMA BetweenNext ==
  ASSUME NEW f, NEW i \in Nat, NEW j \in Nat, i <= j
  PROVE  Between(f, i, j + 1) = Between(f, i, j) \cup {f[j + 1]}
<1>1. \A m : m \in (i + 1)..(j + 1) <=> m \in (i + 1)..j \/ m = j + 1
  OBVIOUS
<1> DEFINE n == j + 1
<1> HIDE DEF n
<1>2. \A m : m \in (i + 1)..n <=> m \in (i + 1)..j \/ m = n
  BY <1>1 DEF n
<1>3. Between(f, i, n) = Between(f, i, j) \cup {f[n]}
  BY <1>2 DEF Between
<1> QED BY <1>3 DEF n

LEMMA UpdatesUnion ==
  ASSUME NEW q, NEW s, NEW u
  PROVE  UpdatesOf(q, s \cup u) = UpdatesOf(q, s) \cup UpdatesOf(q, u)
  BY DEF UpdatesOf

LEMMA ShowsSame ==
  ASSUME NEW q, NEW r, Extends(q, r), NEW f, NEW g, NEW a, NEW s,
         a \subseteq DOMAIN q, s \subseteq DOMAIN q,
         NEW i \in Nat, NEW j \in Nat, \A m \in (i + 1)..j : g[m] = f[m] /\ f[m] \in DOMAIN q,
         Shows(q, f, a, s, i, j)
  PROVE  Shows(r, g, a, s, i, j)
<1>1. Between(g, i, j) = Between(f, i, j)
  BY DEF Between
<1>2. Between(f, i, j) \subseteq DOMAIN q
  BY DEF Between
<1> QED BY <1>1, <1>2, UpdatesExtend DEF Shows

LEMMA ShowsNext ==
  ASSUME NEW q, NEW r, Extends(q, r), NEW f, NEW g, NEW a, NEW b, NEW s,
         a \subseteq DOMAIN q, s \subseteq DOMAIN q,
         NEW i \in Nat, NEW j \in Nat, i <= j,
         \A m \in (i + 1)..j : g[m] = f[m] /\ f[m] \in DOMAIN q,
         UpdatesOf(r, b) = UpdatesOf(r, a) \cup UpdatesOf(r, {g[j + 1]}),
         Shows(q, f, a, s, i, j)
  PROVE  Shows(r, g, b, s, i, j + 1)
<1>1. Shows(r, g, a, s, i, j)
  BY ShowsSame
<1>2. Between(g, i, j + 1) = Between(g, i, j) \cup {g[j + 1]}
  BY BetweenNext
<1> DEFINE x == {g[j + 1]}  v == Between(g, i, j)  w == Between(g, i, j + 1)
<1>3. w = v \cup x /\ UpdatesOf(r, b) = UpdatesOf(r, a) \cup UpdatesOf(r, x)
  BY <1>2
<1>4. UpdatesOf(r, a) = UpdatesOf(r, s) \cup UpdatesOf(r, v)
  BY <1>1 DEF Shows
<1> HIDE DEF x, v, w
<1>5. UpdatesOf(r, w) = UpdatesOf(r, v) \cup UpdatesOf(r, x)
  BY <1>3, UpdatesUnion
<1>6. UpdatesOf(r, b) = UpdatesOf(r, s) \cup UpdatesOf(r, w)
  BY <1>3, <1>4, <1>5
<1> QED BY <1>6 DEF Shows, w

\* What a newer slice leaves to be repeated.
LEMMA ShowsRest ==
  ASSUME NEW q, NEW f, NEW g, NEW a, NEW s, NEW c,
         NEW i \in Nat, NEW j \in Nat, NEW k \in Nat, i <= k, k <= j,
         \A m \in (k + 1)..j : g[m] = f[m],
         Shows(q, f, a, s, i, j), Shows(q, f, c, s, i, k)
  PROVE  Shows(q, g, a, c, k, j)
<1>1. Between(g, k, j) = Between(f, k, j)
  BY DEF Between
<1>2. Between(f, i, j) = Between(f, i, k) \cup Between(f, k, j)
  <2>1. i \in Nat /\ j \in Nat /\ k \in Nat /\ i <= k /\ k <= j
    OBVIOUS
  <2> QED BY ONLY <2>1, BetweenSplit
<1> DEFINE u == Between(f, i, k)  v == Between(f, k, j)  w == Between(f, i, j)
<1>3. w = u \cup v
  BY <1>2
<1>4. /\ UpdatesOf(q, a) = UpdatesOf(q, s) \cup UpdatesOf(q, w)
      /\ UpdatesOf(q, c) = UpdatesOf(q, s) \cup UpdatesOf(q, u)
  BY DEF Shows
<1> HIDE DEF u, v, w
<1>5. UpdatesOf(q, w) = UpdatesOf(q, u) \cup UpdatesOf(q, v)
  BY <1>3, UpdatesUnion
<1>6. UpdatesOf(q, a) = UpdatesOf(q, c) \cup UpdatesOf(q, v)
  BY <1>4, <1>5
<1> QED BY <1>1, <1>6 DEF Shows, v

\* What executing a request makes of the memory.
Applied(q, s, t, m, n) ==
  /\ n \in MemoryOf(s \cup {t})
  /\ UpdatesOf(q, n.applied) = UpdatesOf(q, m.applied) \cup UpdatesOf(q, {t})
  /\ n.seen = IF q[t].kind = "update" THEN m.seen \cup {q[t].arg} ELSE m.seen

LEMMA ApplyIs ==
  ASSUME NEW q, NEW s, NEW t, NEW m, m \in MemoryOf(s), q[t] \in Requests
  PROVE  Applied(q, s, t, m, Apply(m, t, q[t]))
<1> USE DEF Applied
<1> DEFINE r == q[t]  n == Apply(m, t, r)
<1>1. /\ r.kind \in {"update", "open", "cancel"} /\ (r.kind = "update" => r.arg \in Business)
  BY DEF Requests
<1>2. /\ m = [applied |-> m.applied, orders |-> m.orders, frozen |-> m.frozen, seen |-> m.seen]
      /\ m.applied \subseteq s /\ m.orders \subseteq s /\ m.frozen \subseteq s
      /\ m.seen \subseteq Business
  BY DEF MemoryOf
<1> DEFINE nothing == r.kind = "cancel" /\ r.arg \notin m.orders
<1>3. CASE nothing
  <2>1. n = m
    BY <1>3 DEF Apply
  <2>2. UpdatesOf(q, {t}) = {} /\ r.kind # "update"
    BY <1>3 DEF UpdatesOf
  <2> QED BY <2>1, <2>2, <1>2 DEF MemoryOf
<1>4. CASE ~nothing
  <2>1. /\ n.applied = m.applied \cup {t}
        /\ n.orders \subseteq s \cup {t} /\ n.frozen \subseteq s \cup {t}
        /\ n.seen = IF r.kind = "update" THEN m.seen \cup {r.arg} ELSE m.seen
        /\ n = [applied |-> n.applied, orders |-> n.orders, frozen |-> n.frozen, seen |-> n.seen]
    BY <1>2, <1>4 DEF Apply
  <2>2. UpdatesOf(q, n.applied) = UpdatesOf(q, m.applied) \cup UpdatesOf(q, {t})
    BY <2>1, UpdatesUnion
  <2>3. n \in MemoryOf(s \cup {t})
    <3> HIDE DEF n, r
    <3> QED BY <2>1, <1>1, <1>2 DEF MemoryOf
  <2> QED BY <2>1, <2>2, <2>3
<1> QED BY <1>3, <1>4
------------------------------------------------------------------------------
(* The parts of the state.                                                  *)

LEMMA GreatestIs ==
  ASSUME NEW S \in SUBSET Nat, NEW m \in S, \A x \in S : x <= m
  PROVE  Max(S) = m
<1>1. \A x \in S : m >= x
  OBVIOUS
<1>2. ASSUME NEW y \in S, \A x \in S : y >= x PROVE y = m
  BY <1>2
<1> QED BY <1>1, <1>2, Zenon DEF Max

LEMMA LeastIs ==
  ASSUME NEW S \in SUBSET Nat, S # {}
  PROVE  Min(S) \in S
<1>1. PICK k \in S : \A j \in S : k <= j
  BY SmallestNumber
<1>2. \E m \in S : \A j \in S : m =< j
  BY <1>1
<1> QED BY <1>2, Zenon DEF Min

LEMMA LastIdIs ==
  ASSUME DOMAIN history \subseteq Nat, NEW m \in DOMAIN history, \A id \in DOMAIN history : id <= m
  PROVE  LastId = m
<1> DEFINE S == DOMAIN history \cup {0}
<1>1. S \in SUBSET Nat /\ m \in S /\ \A x \in S : x <= m
  OBVIOUS
<1> HIDE DEF S
<1>2. Max(S) = m
  BY <1>1, GreatestIs
<1> QED BY <1>2 DEF LastId, S

LEMMA RequestsFacts ==
  ASSUME TypeOK
  PROVE  /\ Len(requests) \in Nat /\ DOMAIN requests = 1..Len(requests)
         /\ operlog_id_start \in Nat /\ operlog_id_start <= Len(requests)
         /\ \A t \in DOMAIN requests : t \in Nat \ {0} /\ requests[t] \in Requests
  BY DEF TypeOK

LEMMA SliceFacts ==
  ASSUME TypeOK, SlicesOK
  PROVE  /\ LastId \in Nat /\ DOMAIN history \subseteq Nat
         /\ HasSlice => /\ LastSlice \in Row /\ LastSlice.time \in Nat
                        /\ accounts[LastSlice.time] \in Accounts
         /\ StartId \in 0..Len(requests) /\ StartId \in Nat
         /\ Sliced \subseteq DOMAIN requests
<1>1. DOMAIN history \subseteq Nat
  BY DEF SlicesOK
<1>2. CASE ~HasSlice
  <2> DEFINE S == DOMAIN history \cup {0}
  <2>1. S \in SUBSET Nat /\ 0 \in S /\ \A x \in S : x <= 0
    BY <1>2 DEF HasSlice
  <2> HIDE DEF S
  <2>2. Max(S) = 0
    BY <2>1, GreatestIs
  <2>3. LastId = 0
    BY <2>2 DEF LastId, S
  <2>4. StartId = 0 /\ Sliced = {}
    BY <1>2 DEF StartId, Sliced
  <2> QED BY <1>1, <1>2, <2>3, <2>4, RequestsFacts
<1>3. CASE HasSlice
  <2>1. LastId \in DOMAIN history /\ LastSlice \in Row /\ LastSlice.time \in DOMAIN accounts
    BY <1>3 DEF SlicesOK, LastSlice
  <2>2. LastSlice.time \in Nat /\ LastSlice.end \in 0..Len(requests)
    BY <2>1 DEF Row, TypeOK
  <2>3. accounts[LastSlice.time] \in Accounts
    BY <2>1 DEF TypeOK
  <2>4. accounts[LastSlice.time].applied \subseteq DOMAIN requests
    BY <2>3 DEF Accounts
  <2>5. StartId = LastSlice.end /\ Sliced = accounts[LastSlice.time].applied
    BY <1>3 DEF StartId, Sliced
  <2> QED BY <1>1, <1>3, <2>1, <2>2, <2>3, <2>4, <2>5, RequestsFacts
<1> QED BY <1>2, <1>3

LEMMA SliceKept ==
  ASSUME history' = history, HasSlice => accounts'[LastSlice.time] = accounts[LastSlice.time]
  PROVE  /\ LastId' = LastId /\ HasSlice' = HasSlice /\ LastSlice' = LastSlice
         /\ StartId' = StartId /\ Sliced' = Sliced
<1>1. LastId' = LastId /\ HasSlice' = HasSlice
  BY DEF LastId, HasSlice
<1>2. LastSlice' = LastSlice
  BY <1>1 DEF LastSlice
<1>3. StartId' = StartId
  BY <1>1, <1>2 DEF StartId
<1>4. Sliced' = Sliced
  BY <1>1, <1>2 DEF Sliced
<1> QED BY <1>1, <1>2, <1>3, <1>4

LEMMA PendingFacts ==
  ASSUME TypeOK, Numbered
  PROVE  /\ Pending \in Seq(Operation) /\ FlattenSeq(job) \in Seq(Operation)
         /\ Len(Pending) \in Nat /\ DOMAIN Pending = 1..Len(Pending)
         /\ Len(busy) \in Nat /\ DOMAIN busy = 1..Len(busy)
         /\ Base \in Nat /\ Base + Len(Pending) = operlog_id_start
         /\ Len(busy) <= Len(Pending) /\ \A i \in DOMAIN busy : Pending[i] = busy[i]
         /\ LogEnd \in Nat /\ Base <= LogEnd /\ LogEnd <= operlog_id_start
<1> DEFINE f == FlattenSeq(job)  p == busy \o f
<1>1. busy \in Seq(Operation) /\ list \in Seq(Operation) /\ job \in Seq(Seq(Operation))
  BY DEF TypeOK
<1>2. f \in Seq(Operation)
  <2>1. <<>> \in Seq(Operation)
    OBVIOUS
  <2> QED BY <1>1, <2>1, FlattenAppend
<1>3. Pending = p \o list
  BY DEF Pending
<1> HIDE DEF f
<1>4. /\ p \in Seq(Operation) /\ Len(p) = Len(busy) + Len(f) /\ Len(busy) \in Nat /\ Len(f) \in Nat
      /\ \A i \in 1..Len(busy) : p[i] = busy[i]
  BY <1>1, <1>2, ConcatProperties
<1> HIDE DEF p
<1>5. /\ Pending \in Seq(Operation) /\ Len(Pending) = Len(p) + Len(list) /\ Len(list) \in Nat
      /\ \A i \in 1..Len(p) : Pending[i] = p[i]
  <2>1. p \in Seq(Operation) /\ list \in Seq(Operation) /\ Len(p) \in Nat /\ Len(list) \in Nat
    BY <1>1, <1>4
  <2>2. /\ p \o list \in Seq(Operation) /\ Len(p \o list) = Len(p) + Len(list)
        /\ \A i \in 1..(Len(p) + Len(list)) :
             (p \o list)[i] = IF i <= Len(p) THEN p[i] ELSE list[i - Len(p)]
    BY <2>1, ConcatProperties
  <2>3. \A i \in 1..Len(p) : i \in 1..(Len(p) + Len(list)) /\ i <= Len(p)
    BY <2>1
  <2> QED BY <2>1, <2>2, <2>3, <1>3
<1>6. /\ Len(Pending) \in Nat /\ DOMAIN Pending = 1..Len(Pending) /\ DOMAIN busy = 1..Len(busy)
      /\ Len(busy) <= Len(Pending) /\ \A i \in DOMAIN busy : Pending[i] = busy[i]
  <2>1. DOMAIN Pending = 1..Len(Pending) /\ DOMAIN busy = 1..Len(busy)
    BY <1>1, <1>5
  <2>2. \A i \in 1..Len(busy) : i \in 1..Len(p)
    BY <1>4
  <2> QED BY <2>1, <2>2, <1>4, <1>5
<1>7. /\ Len(Pending) <= operlog_id_start /\ operlog_id_start \in Nat
  BY RequestsFacts DEF Numbered
<1>8. Base \in Nat /\ Base + Len(Pending) = operlog_id_start
  BY <1>6, <1>7 DEF Base
<1>9. LogEnd \in Nat /\ Base <= LogEnd /\ LogEnd <= operlog_id_start
  BY <1>4, <1>6, <1>8 DEF LogEnd
<1> QED BY <1>2, <1>4, <1>5, <1>6, <1>8, <1>9 DEF f

\* An operation after the last slice is in the log or pending.
LEMMA OpsFacts ==
  ASSUME TypeOK, SlicesOK, Numbered, pc # "down", NEW id \in (StartId + 1)..operlog_id_start
  PROVE  /\ id \in DOMAIN log => ops[id] = log[id]
         /\ id \notin DOMAIN log =>
              /\ id > LogEnd /\ id - Base \in 1..Len(Pending)
              /\ ops[id] = Pending[id - Base].request
         /\ ops[id] \in DOMAIN requests
<1>1. ops[id] = IF id \in DOMAIN log THEN log[id] ELSE Pending[id - Base].request
  BY DEF ops
<1>2. StartId \in Nat /\ operlog_id_start \in Nat /\ id \in Nat
  BY SliceFacts, RequestsFacts
<1>3. ASSUME id \notin DOMAIN log PROVE id > LogEnd /\ id - Base \in 1..Len(Pending)
  <2>1. ~(id \in (StartId + 1)..LogEnd)
    BY <1>3 DEF Numbered
  <2>2. id > LogEnd
    BY <2>1, <1>2, PendingFacts
  <2> QED BY <2>2, <1>2, PendingFacts
<1>4. CASE id \in DOMAIN log
  BY <1>1, <1>4 DEF TypeOK
<1>5. CASE id \notin DOMAIN log
  <2>1. Pending[id - Base].request \in DOMAIN requests
    BY <1>3, <1>5, PendingFacts DEF Numbered
  <2> QED BY <1>1, <1>3, <1>5, <2>1
<1> QED BY <1>4, <1>5
------------------------------------------------------------------------------
(* Requests.                                                                *)

LEMMA ExecutedIs ==
  ASSUME IInv, NEW r \in Requests, Executed(r), append_operlog(Len(requests) + 1), UNCHANGED slices
  PROVE  LET n == Len(requests)
         IN  /\ Len(requests') = n + 1 /\ DOMAIN requests' = 1..(n + 1) /\ requests'[n + 1] = r
             /\ requests' \in Seq(Requests)
             /\ \A t \in DOMAIN requests : t \in DOMAIN requests' /\ requests'[t] = requests[t]
             /\ Extends(requests, requests') /\ DOMAIN requests' = DOMAIN requests \cup {n + 1}
             /\ mem' \in MemoryOf(DOMAIN requests')
             /\ UpdatesOf(requests', mem'.applied)
                  = UpdatesOf(requests', mem.applied) \cup UpdatesOf(requests', {n + 1})
             /\ mem'.seen = IF r.kind = "update" THEN mem.seen \cup {r.arg} ELSE mem.seen
<1> DEFINE n == Len(requests)  N == operlog_id_start
           op == [id |-> N + 1, request |-> n + 1]
<1> USE DEF IInv
<1>1. /\ n \in Nat /\ N \in Nat /\ N <= n /\ DOMAIN requests = 1..n
      /\ requests \in Seq(Requests)
  BY RequestsFacts DEF TypeOK
<1>2. /\ requests' \in Seq(Requests) /\ Len(requests') = n + 1
      /\ DOMAIN requests' = 1..(n + 1) /\ requests'[n + 1] = r
      /\ \A t \in DOMAIN requests : t \in DOMAIN requests' /\ requests'[t] = requests[t]
  <2>1. requests' = Append(requests, r)
    BY DEF Executed
  <2> HIDE DEF IInv
  <2> QED BY <2>1, <1>1
<1>3. Extends(requests, requests') /\ DOMAIN requests' = DOMAIN requests \cup {n + 1}
  BY <1>1, <1>2 DEF Extends
<1>4. /\ n < MaxRequests /\ pc = "up" /\ pc' = "up" /\ N' = N + 1 /\ busy' = busy
      /\ job' = job /\ log' = log /\ list' = Append(list, op)
      /\ mem' = Apply(mem, n + 1, r)
      /\ clock' = clock /\ children' = children /\ accounts' = accounts
      /\ orders_of' = orders_of /\ history' = history
  BY DEF Executed, append_operlog, slices
<1>5. /\ mem' \in MemoryOf(DOMAIN requests')
      /\ UpdatesOf(requests', mem'.applied)
           = UpdatesOf(requests', mem.applied) \cup UpdatesOf(requests', {n + 1})
      /\ mem'.seen = IF r.kind = "update" THEN mem.seen \cup {r.arg} ELSE mem.seen
  <2>1. mem \in MemoryOf(DOMAIN requests) /\ requests'[n + 1] \in Requests
    BY <1>2 DEF TypeOK
  <2>2. mem' = Apply(mem, n + 1, requests'[n + 1])
    BY <1>2, <1>4
  <2> DEFINE q == requests'  t == n + 1  s == DOMAIN requests  m == mem
  <2>3. m \in MemoryOf(s) /\ q[t] \in Requests
    BY <2>1
  <2> HIDE DEF IInv, q, t, s, m
  <2>4. Applied(q, s, t, m, Apply(m, t, q[t]))
    BY ONLY <2>3, ApplyIs
  <2>5. mem' = Apply(m, t, q[t]) /\ s \cup {t} = DOMAIN requests' /\ q[t] = r
    BY <2>2, <1>2, <1>3 DEF q, t, s, m
  <2> QED BY <2>4, <2>5 DEF Applied, q, t, m
<1> HIDE DEF n, op, IInv
<1> QED BY <1>2, <1>3, <1>5 DEF n

LEMMA RequestStep ==
  ASSUME IInv, NEW r \in Requests, Executed(r), append_operlog(Len(requests) + 1),
         r.kind = "update" => r.arg \notin mem.seen, UNCHANGED slices
  PROVE  IInv'
<1> DEFINE n == Len(requests)  N == operlog_id_start
           op == [id |-> N + 1, request |-> n + 1]
<1> USE DEF IInv
<1>1. /\ n \in Nat /\ N \in Nat /\ N <= n /\ DOMAIN requests = 1..n
      /\ requests \in Seq(Requests)
  BY RequestsFacts DEF TypeOK
<1>2. /\ requests' \in Seq(Requests) /\ Len(requests') = n + 1
      /\ DOMAIN requests' = 1..(n + 1) /\ requests'[n + 1] = r
      /\ \A t \in DOMAIN requests : t \in DOMAIN requests' /\ requests'[t] = requests[t]
  BY ExecutedIs
<1>3. Extends(requests, requests') /\ DOMAIN requests' = DOMAIN requests \cup {n + 1}
  BY ExecutedIs
<1>4. /\ n < MaxRequests /\ pc = "up" /\ pc' = "up" /\ N' = N + 1 /\ busy' = busy
      /\ job' = job /\ log' = log /\ list' = Append(list, op)
      /\ mem' = Apply(mem, n + 1, r)
      /\ clock' = clock /\ children' = children /\ accounts' = accounts
      /\ orders_of' = orders_of /\ history' = history
  BY DEF Executed, append_operlog, slices
<1>5. /\ mem' \in MemoryOf(DOMAIN requests')
      /\ UpdatesOf(requests', mem'.applied)
           = UpdatesOf(requests', mem.applied) \cup UpdatesOf(requests', {n + 1})
      /\ mem'.seen = IF r.kind = "update" THEN mem.seen \cup {r.arg} ELSE mem.seen
  BY ExecutedIs
<1>6. /\ LastId' = LastId /\ HasSlice' = HasSlice /\ LastSlice' = LastSlice
      /\ StartId' = StartId /\ Sliced' = Sliced
  BY <1>4, SliceKept
<1>7. /\ LastId \in Nat /\ StartId \in Nat /\ Sliced \subseteq DOMAIN requests
      /\ StartId \in 0..n
  BY SliceFacts
<1>8. /\ Pending \in Seq(Operation) /\ Len(Pending) \in Nat /\ DOMAIN Pending = 1..Len(Pending)
      /\ Base \in Nat /\ Base + Len(Pending) = N /\ LogEnd \in Nat /\ LogEnd <= N
      /\ Base <= LogEnd
  BY PendingFacts
<1>9. op \in Operation /\ list' \in Seq(Operation)
  <2>1. op \in Operation
    BY <1>1 DEF Operation
  <2>2. list \in Seq(Operation)
    BY DEF TypeOK
  <2> QED BY <2>1, <2>2, <1>4
<1>10. TypeOK'
  <2>1. /\ n + 1 <= MaxRequests /\ N' \in 0..Len(requests')
        /\ DOMAIN log \subseteq 1..Len(requests')
        /\ \A id \in DOMAIN log : log[id] \in DOMAIN requests'
    <3>1. MaxRequests \in Nat
      BY OperlogAssumption
    <3> QED BY <3>1, <1>1, <1>2, <1>3, <1>4 DEF TypeOK
  <2>2. \A t \in DOMAIN accounts : accounts[t] \in Accounts'
    <3>1. \A t \in DOMAIN accounts : accounts[t] \in Accounts
      BY DEF TypeOK
    <3> HIDE DEF IInv
    <3> QED BY <3>1, <1>3 DEF Accounts
  <2> QED BY <2>1, <2>2, <1>2, <1>4, <1>5, <1>9 DEF TypeOK
<1>11. /\ Len(Pending') = Len(Pending) + 1 /\ DOMAIN Pending' = 1..(Len(Pending) + 1)
       /\ Pending'[Len(Pending) + 1] = op
       /\ \A i \in 1..Len(Pending) : Pending'[i] = Pending[i]
  <2> DEFINE b == busy \o FlattenSeq(job)
  <2>1. Pending = b \o list /\ Pending' = b \o Append(list, op)
    BY <1>4 DEF Pending
  <2>2. b \in Seq(Operation) /\ list \in Seq(Operation)
    BY PendingFacts DEF TypeOK
  <2> HIDE DEF b, op, IInv
  <2>3. Pending' = Append(Pending, op)
    BY <2>1, <2>2, <1>9
  <2> QED BY <2>3, <1>8, <1>9
<1>12. Base' = Base /\ IsWritten' = IsWritten /\ LogEnd' = LogEnd
  <2>1. Base' = Base
    BY <1>4, <1>8, <1>11, <1>1 DEF Base
  <2>2. IsWritten' = IsWritten
    BY <2>1, <1>4 DEF IsWritten
  <2> QED BY <2>1, <2>2, <1>4 DEF LogEnd
<1>13. Numbered'
  <2>1. ASSUME NEW i \in DOMAIN Pending'
        PROVE  Pending'[i].id = Base + i /\ Pending'[i].request \in DOMAIN requests'
    <3>1. CASE i = Len(Pending) + 1
      <4>1. Pending'[i].id = N + 1 /\ Pending'[i].request = n + 1
        BY <3>1, <1>11
      <4>2. Base + i = N + 1 /\ n + 1 \in DOMAIN requests'
        <5> HIDE DEF IInv, n, N
        <5> QED BY <3>1, <1>1, <1>2, <1>8
      <4> QED BY <4>1, <4>2
    <3>2. CASE i # Len(Pending) + 1
      <4>1. i \in DOMAIN Pending /\ Pending'[i] = Pending[i]
        BY <3>2, <1>11, <1>8
      <4> QED BY <4>1, <1>3 DEF Numbered
    <3> QED BY <3>1, <3>2
  <2>2. Len(Pending') <= N'
    BY <1>4, <1>8, <1>11, <1>1
  <2>3. /\ \A id \in DOMAIN log : id <= LogEnd
        /\ \A id \in (StartId + 1)..LogEnd : id \in DOMAIN log
        /\ IsWritten => \A i \in DOMAIN busy :
                    Base + i \in DOMAIN log /\ log[Base + i] = busy[i].request
    BY <1>4 DEF Numbered
  <2> HIDE DEF IInv
  <2> QED BY <2>1, <2>2, <2>3, <1>4, <1>6, <1>12 DEF Numbered
<1>14. /\ \A id \in (StartId + 1)..N : ops'[id] = ops[id] /\ ops[id] \in DOMAIN requests
       /\ StartId <= N => ops'[N + 1] = n + 1
  <2>1. ASSUME NEW id \in (StartId + 1)..(N + 1)
        PROVE  ops'[id] = IF id \in DOMAIN log THEN log[id] ELSE Pending'[id - Base].request
    BY <2>1, <1>4, <1>6, <1>12 DEF ops
  <2>2. ASSUME NEW id \in (StartId + 1)..N
        PROVE  ops'[id] = ops[id] /\ ops[id] \in DOMAIN requests
    <3>1. id \in (StartId + 1)..(N + 1)
      BY <1>1, <1>7
    <3>2. /\ id \in DOMAIN log => ops[id] = log[id]
          /\ id \notin DOMAIN log => /\ id - Base \in 1..Len(Pending)
                                     /\ ops[id] = Pending[id - Base].request
          /\ ops[id] \in DOMAIN requests
      BY <1>4, OpsFacts
    <3> QED BY <2>1, <3>1, <3>2, <1>11
  <2>3. ASSUME StartId <= N PROVE ops'[N + 1] = n + 1
    <3>1. N + 1 \in (StartId + 1)..(N + 1)
      BY <2>3, <1>1, <1>7
    <3>2. N + 1 \notin DOMAIN log
      <4>1. \A id \in DOMAIN log : id <= LogEnd
        BY <1>4 DEF Numbered
      <4> QED BY <4>1, <1>8, <1>1
    <3>3. (N + 1) - Base = Len(Pending) + 1
      BY <1>8, <1>1
    <3> QED BY <2>1, <3>1, <3>2, <3>3, <1>11
  <2> QED BY <2>2, <2>3
<1>15. Held'
  <2>1. /\ StartId <= N
        /\ Follows(requests, ops, Sliced, StartId, N)
        /\ Shows(requests, ops, mem.applied, Sliced, StartId, N)
        /\ Remembers(requests, ops, mem.seen, StartId, N)
    BY <1>4 DEF Held
  <2>2. /\ ops'[N + 1] = n + 1
        /\ \A m \in (StartId + 1)..N : ops'[m] = ops[m] /\ ops[m] \in DOMAIN requests
    BY <2>1, <1>14
  <2>3. /\ n + 1 \in DOMAIN requests' /\ DOMAIN requests \subseteq Nat
        /\ \A v \in DOMAIN requests : v < n + 1
    BY <1>1, <1>2
  <2>4. mem.applied \subseteq DOMAIN requests
    BY DEF TypeOK, MemoryOf
  <2> HIDE DEF IInv, n, N
  <2>5. Follows(requests', ops', Sliced, StartId, N + 1)
    <3>1. requests'[n + 1].kind = "update" =>
            \A m \in (StartId + 1)..N :
              requests[ops[m]].kind = "update" => requests[ops[m]].arg # requests'[n + 1].arg
      BY <2>1, <1>2 DEF Remembers
    <3> QED BY <2>1, <2>2, <2>3, <3>1, <1>1, <1>3, <1>7, FollowsNext
  <2>6. Shows(requests', ops', mem'.applied, Sliced, StartId, N + 1)
    <3>1. UpdatesOf(requests', mem'.applied)
            = UpdatesOf(requests', mem.applied) \cup UpdatesOf(requests', {ops'[N + 1]})
      BY <2>2, <1>5
    <3> QED BY <2>1, <2>2, <2>4, <3>1, <1>1, <1>3, <1>7, ShowsNext
  <2>7. Remembers(requests', ops', mem'.seen, StartId, N + 1)
    <3> SUFFICES ASSUME NEW k \in (StartId + 1)..(N + 1),
                        requests'[ops'[k]].kind = "update"
                 PROVE  requests'[ops'[k]].arg \in mem'.seen
      BY DEF Remembers
    <3>1. CASE k = N + 1
      BY <3>1, <2>2, <1>2, <1>5
    <3>2. CASE k # N + 1
      <4>1. k \in (StartId + 1)..N
        BY <3>2, <1>1, <1>7
      <4>2. requests'[ops'[k]] = requests[ops[k]]
        BY <4>1, <2>2, <1>2
      <4> QED BY <4>1, <4>2, <2>1, <1>5 DEF Remembers
    <3> QED BY <3>1, <3>2
  <2>8. StartId <= N + 1
    BY <2>1, <1>1, <1>7
  <2>9. N' = N + 1 /\ operlog_id_start' = N'
    BY <1>4 DEF N
  <2> QED BY <2>5, <2>6, <2>7, <2>8, <2>9, <1>6 DEF Held
<1>16. SlicesOK'
  <2>1. \A id \in DOMAIN history : id \in Nat \ {0} /\ history[id] \in Row'
    <3>1. \A id \in DOMAIN history : id \in Nat \ {0} /\ history[id] \in Row
      BY DEF SlicesOK
    <3> HIDE DEF IInv
    <3> QED BY <3>1, <1>1, <1>2, <1>4 DEF Row
  <2>2. HasSlice =>
       /\ LastId \in DOMAIN history
       /\ \A id \in DOMAIN history : id <= LastId /\ history[id].time <= LastSlice.time
       /\ LastSlice.time \in DOMAIN accounts /\ LastSlice.time \in DOMAIN orders_of
    BY DEF SlicesOK
  <2> QED BY <2>1, <2>2, <1>4, <1>6 DEF SlicesOK
<1>17. ChildrenOK'
  <2>1. ASSUME NEW c \in children PROVE ChildOK(c)'
    <3>1. ChildOK(c)
      BY DEF ChildrenOK
    <3>2. IsDeleting(c) => IsDeleting(c)'
      BY <1>4, <1>6 DEF IsDeleting
    <3>3. IsStored(c) => IsStored(c)'
      BY <1>4 DEF IsStored, Written
    <3>4. ASSUME IsCurrent(c) PROVE IsCurrent(c)'
      <4>1. /\ c.mem \in MemoryOf(DOMAIN requests) /\ c.end \in StartId..N
            /\ \A id \in DOMAIN history : history[id].time < c.time
            /\ Shows(requests, ops, c.mem.applied, Sliced, StartId, c.end)
            /\ \A k \in (c.end + 1)..N, t \in c.mem.applied : t < ops[k]
        BY <3>4 DEF IsCurrent
      <4>2. c.mem \in MemoryOf(DOMAIN requests') /\ c.mem.applied \subseteq DOMAIN requests
        BY <4>1, <1>3 DEF MemoryOf
      <4>3. /\ ops'[N + 1] = n + 1
            /\ \A m \in (StartId + 1)..N : ops'[m] = ops[m] /\ ops[m] \in DOMAIN requests
        BY <4>1, <1>1, <1>7, <1>14
      <4>4. c.end \in Nat /\ c.end <= N /\ StartId <= c.end
        BY <4>1, <1>1, <1>7
      <4>5. \A m \in (StartId + 1)..c.end : ops'[m] = ops[m] /\ ops[m] \in DOMAIN requests
        BY <4>3, <4>4, <1>1, <1>7
      <4>6. Shows(requests', ops', c.mem.applied, Sliced, StartId, c.end)
        <5> HIDE DEF IInv
        <5> QED BY <4>1, <4>2, <4>4, <4>5, <1>3, <1>7, ShowsSame
      <4>7. \A k \in (c.end + 1)..(N + 1), t \in c.mem.applied : t < ops'[k]
        <5> SUFFICES ASSUME NEW k \in (c.end + 1)..(N + 1), NEW t \in c.mem.applied
                     PROVE  t < ops'[k]
          OBVIOUS
        <5>1. CASE k = N + 1
          BY <5>1, <4>2, <4>3, <1>1
        <5>2. CASE k # N + 1
          <6>1. k \in (c.end + 1)..N /\ k \in (StartId + 1)..N
            BY <5>2, <4>4, <1>1, <1>7
          <6> QED BY <6>1, <4>1, <4>3
        <5> QED BY <5>1, <5>2
      <4>8. c.end \in StartId..(N + 1)
        BY <4>4, <1>1, <1>7
      <4> HIDE DEF IInv
      <4> QED BY <4>1, <4>2, <4>6, <4>7, <4>8, <1>4, <1>6 DEF IsCurrent
    <3> QED BY <3>1, <3>2, <3>3, <3>4, <1>4 DEF ChildOK
  <2>2. \A c \in children, d \in children : c = d
    BY DEF ChildrenOK
  <2> QED BY <2>1, <2>2, <1>4 DEF ChildrenOK
<1>18. Gone' /\ HeldByLog'
  BY <1>4 DEF Gone, HeldByLog
<1> QED BY <1>10, <1>13, <1>15, <1>16, <1>17, <1>18
------------------------------------------------------------------------------
(* Steps that leave requests and operations as they are.                    *)

\* The last slice and what came after it stay what they were.
SameOps ==
  /\ requests' = requests /\ operlog_id_start' = operlog_id_start
  /\ StartId' = StartId /\ Sliced' = Sliced
  /\ \A id \in (StartId + 1)..operlog_id_start : ops'[id] = ops[id]

LEMMA HeldKept ==
  ASSUME IInv, pc # "down", SameOps, mem'.applied = mem.applied,
         Remembers(requests, ops, mem'.seen, StartId, operlog_id_start)
  PROVE  Held'
<1> DEFINE N == operlog_id_start
<1>1. /\ StartId <= N
      /\ Follows(requests, ops, Sliced, StartId, N)
      /\ Shows(requests, ops, mem.applied, Sliced, StartId, N)
  BY DEF IInv, Held
<1>2. /\ StartId \in Nat /\ N \in Nat /\ Sliced \subseteq DOMAIN requests
      /\ mem.applied \subseteq DOMAIN requests
  BY SliceFacts, RequestsFacts DEF IInv, TypeOK, MemoryOf
<1>3. /\ \A m \in (StartId + 1)..N : ops'[m] = ops[m] /\ ops[m] \in DOMAIN requests
      /\ \A m \in (StartId + 1)..N, t \in Sliced : t < ops[m]
  BY <1>1 DEF SameOps, Follows
<1>4. Extends(requests, requests)
  BY DEF Extends
<1>5. N <= N
  BY <1>2
<1> HIDE DEF N
<1>6. Follows(requests, ops', Sliced, StartId, N)
  BY <1>1, <1>2, <1>3, <1>4, <1>5, FollowsPart
<1>7. Shows(requests, ops', mem.applied, Sliced, StartId, N)
  BY <1>1, <1>2, <1>3, <1>4, ShowsSame
<1>8. Remembers(requests, ops', mem'.seen, StartId, N)
  BY <1>3 DEF Remembers, N
<1> QED BY <1>1, <1>6, <1>7, <1>8 DEF Held, SameOps, N

LEMMA CurrentKept ==
  ASSUME IInv, pc # "down", SameOps, history' = history, NEW c, IsCurrent(c)
  PROVE  IsCurrent(c)'
<1> DEFINE N == operlog_id_start
<1>1. /\ c.mem \in MemoryOf(DOMAIN requests) /\ c.end \in StartId..N
      /\ \A id \in DOMAIN history : history[id].time < c.time
      /\ Shows(requests, ops, c.mem.applied, Sliced, StartId, c.end)
      /\ \A k \in (c.end + 1)..N, t \in c.mem.applied : t < ops[k]
  BY DEF IsCurrent
<1>2. /\ StartId \in Nat /\ N \in Nat /\ Sliced \subseteq DOMAIN requests
      /\ c.mem.applied \subseteq DOMAIN requests
  BY <1>1, SliceFacts, RequestsFacts DEF IInv, MemoryOf
<1>3. c.end \in Nat /\ StartId <= c.end /\ c.end <= N
  BY <1>1, <1>2
<1>4. \A m \in (StartId + 1)..c.end : m \in (StartId + 1)..N
  BY <1>2, <1>3
<1>5. \A m \in (StartId + 1)..c.end : ops'[m] = ops[m] /\ ops[m] \in DOMAIN requests
  BY <1>4 DEF SameOps, IInv, Held, Follows
<1>6. \A m \in (c.end + 1)..N : m \in (StartId + 1)..N
  BY <1>2, <1>3
<1>7. \A k \in (c.end + 1)..N, t \in c.mem.applied : t < ops'[k]
  BY <1>1, <1>6 DEF SameOps
<1>8. Extends(requests, requests)
  BY DEF Extends
<1> HIDE DEF N
<1>9. Shows(requests, ops', c.mem.applied, Sliced, StartId, c.end)
  BY <1>1, <1>2, <1>3, <1>5, <1>8, ShowsSame
<1> QED BY <1>1, <1>7, <1>9 DEF IsCurrent, SameOps, N

LEMMA OpsKept ==
  ASSUME UNCHANGED <<requests, operlog_id_start, history, log>>,
         HasSlice => accounts'[LastSlice.time] = accounts[LastSlice.time],
         Pending' = Pending
  PROVE  SameOps /\ Base' = Base
<1>1. StartId' = StartId /\ Sliced' = Sliced
  BY SliceKept
<1>2. Base' = Base
  BY DEF Base
<1>3. ops' = ops
  BY <1>1, <1>2 DEF ops
<1> QED BY <1>1, <1>2, <1>3 DEF SameOps

LEMMA SlicesKept ==
  ASSUME IInv, UNCHANGED <<requests, slices>>
  PROVE  /\ SlicesOK'
         /\ \A c : IsDeleting(c) => IsDeleting(c)'
         /\ \A c : IsStored(c) => IsStored(c)'
<1>1. /\ history' = history /\ accounts' = accounts /\ orders_of' = orders_of
      /\ clock' = clock /\ requests' = requests
  BY DEF slices
<1>2. LastId' = LastId /\ HasSlice' = HasSlice /\ LastSlice' = LastSlice
  BY <1>1, SliceKept
<1>3. SlicesOK'
  BY <1>1, <1>2 DEF IInv, SlicesOK, Row
<1>4. \A c : IsDeleting(c) => IsDeleting(c)'
  BY <1>1, <1>2 DEF IsDeleting
<1>5. \A c : IsStored(c) => IsStored(c)'
  BY <1>1 DEF IsStored, Written
<1> QED BY <1>3, <1>4, <1>5

\* All but the slices: what is left to show of such a step.
LEMMA InvariantKept ==
  ASSUME IInv, pc # "down", pc' \in {"up", "stopping", "suicide"},
         SameOps, UNCHANGED slices,
         mem' \in MemoryOf(DOMAIN requests), mem'.applied = mem.applied,
         Remembers(requests, ops, mem'.seen, StartId, operlog_id_start),
         list' \in Seq(Operation), job' \in Seq(Seq(Operation)), busy' \in Seq(Operation),
         DOMAIN log' \subseteq 1..Len(requests), \A id \in DOMAIN log' : log'[id] \in DOMAIN requests,
         Numbered'
  PROVE  IInv'
<1>1. /\ requests' = requests /\ operlog_id_start' = operlog_id_start
      /\ clock' = clock /\ children' = children /\ accounts' = accounts
      /\ orders_of' = orders_of /\ history' = history
  BY DEF SameOps, slices
<1>2. TypeOK'
  <2>1. Accounts' = Accounts
    BY <1>1 DEF Accounts
  <2> QED BY <1>1, <2>1 DEF IInv, TypeOK
<1>3. Held'
  BY HeldKept
<1>4. SlicesOK'
  BY <1>1, SlicesKept
<1>5. ChildrenOK'
  <2>1. ASSUME NEW c \in children PROVE ChildOK(c)'
    <3>1. ChildOK(c)
      BY DEF IInv, ChildrenOK
    <3>2. IsCurrent(c) => IsCurrent(c)'
      BY <1>1, CurrentKept
    <3>3. (IsDeleting(c) => IsDeleting(c)') /\ (IsStored(c) => IsStored(c)')
      BY <1>1, SlicesKept
    <3> QED BY <1>1, <3>1, <3>2, <3>3 DEF ChildOK
  <2>2. \A c \in children, d \in children : c = d
    BY DEF IInv, ChildrenOK
  <2> QED BY <1>1, <2>1, <2>2 DEF ChildrenOK
<1>6. Gone' /\ HeldByLog'
  BY DEF Gone, HeldByLog
<1> QED BY <1>2, <1>3, <1>4, <1>5, <1>6 DEF IInv

LEMMA FlushedPending ==
  ASSUME TypeOK, flush_log, busy' = busy
  PROVE  Pending' = Pending /\ list' \in Seq(Operation) /\ job' \in Seq(Seq(Operation))
<1>1. job \in Seq(Seq(Operation)) /\ list \in Seq(Operation) /\ busy \in Seq(Operation)
  BY DEF TypeOK
<1>2. job' = Append(job, list) /\ list' = <<>>
  BY DEF flush_log
<1> DEFINE f == FlattenSeq(job)  g == FlattenSeq(job')
<1>3. g = f \o list /\ f \in Seq(Operation)
  BY <1>1, <1>2, FlattenAppend
<1>4. g \in Seq(Operation)
  BY <1>1, <1>3, ConcatProperties
<1>5. Pending = busy \o f \o list /\ Pending' = busy \o g \o <<>>
  BY <1>2 DEF Pending
<1> HIDE DEF f, g
<1>6. Associates(busy, f, list)
  BY <1>1, <1>3, ConcatInAnyOrder
<1>7. busy \o g \in Seq(Operation)
  BY <1>1, <1>4, ConcatProperties
<1>8. (busy \o g) \o <<>> = busy \o g
  BY <1>7, ConcatEmptySeq
<1>9. Pending' = Pending
  BY <1>3, <1>5, <1>6, <1>8 DEF Associates
<1>10. list' \in Seq(Operation) /\ job' \in Seq(Seq(Operation))
  BY <1>1, <1>2, AppendProperties, EmptySeq
<1> QED BY <1>9, <1>10

\* The timer, SIGQUIT and SUICIDE: what is pending goes another step of its way.
LEMMA QueueStep ==
  ASSUME IInv, pc # "down", pc' \in {"up", "stopping", "suicide"},
         flush_log \/ UNCHANGED <<list, job>>,
         UNCHANGED <<requests, mem, operlog_id_start, busy, log, slices>>
  PROVE  IInv'
<1>1. Pending' = Pending /\ list' \in Seq(Operation) /\ job' \in Seq(Seq(Operation))
  <2>1. CASE flush_log
    BY <2>1, FlushedPending DEF IInv
  <2>2. CASE UNCHANGED <<list, job>>
    BY <2>2 DEF Pending, IInv, TypeOK
  <2> QED BY <2>1, <2>2
<1>2. /\ history' = history /\ accounts' = accounts /\ requests' = requests /\ log' = log
      /\ operlog_id_start' = operlog_id_start /\ busy' = busy /\ mem' = mem
  BY DEF slices
<1>3. SameOps /\ Base' = Base
  BY <1>1, <1>2, OpsKept
<1>4. Numbered'
  <2>1. IsWritten' = IsWritten /\ LogEnd' = LogEnd
    BY <1>2, <1>3 DEF IsWritten, LogEnd
  <2>2. StartId' = StartId
    BY <1>3 DEF SameOps
  <2> QED BY <1>1, <1>2, <1>3, <2>1, <2>2 DEF IInv, Numbered
<1>5. /\ mem' \in MemoryOf(DOMAIN requests) /\ mem'.applied = mem.applied
      /\ Remembers(requests, ops, mem'.seen, StartId, operlog_id_start)
      /\ busy' \in Seq(Operation) /\ DOMAIN log' \subseteq 1..Len(requests)
      /\ \A id \in DOMAIN log' : log'[id] \in DOMAIN requests
  BY <1>2 DEF IInv, TypeOK, Held
<1> QED BY <1>1, <1>3, <1>4, <1>5, InvariantKept

LEMMA TakeJobStep ==
  ASSUME IInv, TakeJob, UNCHANGED slices
  PROVE  IInv'
<1>1. /\ history' = history /\ accounts' = accounts /\ requests' = requests /\ log' = log
      /\ operlog_id_start' = operlog_id_start /\ mem' = mem /\ pc' = pc /\ pc # "down"
      /\ list' = list /\ busy = <<>> /\ job # <<>> /\ busy' = Head(job) /\ job' = Tail(job)
  BY DEF TakeJob, slices
<1>2. job \in Seq(Seq(Operation)) /\ list \in Seq(Operation) /\ pc \in {"up", "stopping", "suicide"}
  BY <1>1 DEF IInv, TypeOK
<1>3. Pending' = Pending /\ busy' \in Seq(Operation) /\ job' \in Seq(Seq(Operation))
  <2>1. busy' \in Seq(Operation) /\ job' \in Seq(Seq(Operation))
    BY <1>1, <1>2, HeadTailProperties
  <2> DEFINE f == FlattenSeq(job)  g == FlattenSeq(job')
  <2>2. f = busy' \o g /\ g \in Seq(Operation)
    BY <1>1, <1>2, FlattenTail
  <2>3. Pending = <<>> \o f \o list /\ Pending' = busy' \o g \o list
    BY <1>1 DEF Pending
  <2> HIDE DEF f, g
  <2>4. f \in Seq(Operation)
    BY <2>1, <2>2, ConcatProperties
  <2>5. <<>> \o f = f
    BY <2>4, ConcatEmptySeq
  <2> QED BY <2>1, <2>2, <2>3, <2>5
<1>4. SameOps /\ Base' = Base
  BY <1>1, <1>3, OpsKept
<1>5. Numbered'
  <2>1. LogEnd = Base /\ ~IsWritten
    BY <1>1 DEF LogEnd, IsWritten
  <2>2. ~(Base + 1 \in DOMAIN log)
    <3>1. \A id \in DOMAIN log : id <= Base
      BY <1>1, <2>1 DEF IInv, Numbered
    <3>2. Base \in Nat
      BY PendingFacts DEF IInv
    <3> QED BY <3>1, <3>2
  <2>3. ~IsWritten' /\ LogEnd' = LogEnd
    BY <1>1, <1>4, <2>1, <2>2 DEF IsWritten, LogEnd
  <2>4. StartId' = StartId
    BY <1>4 DEF SameOps
  <2> QED BY <1>1, <1>3, <1>4, <2>3, <2>4 DEF IInv, Numbered
<1>6. /\ mem' \in MemoryOf(DOMAIN requests) /\ mem'.applied = mem.applied
      /\ Remembers(requests, ops, mem'.seen, StartId, operlog_id_start)
      /\ list' \in Seq(Operation) /\ DOMAIN log' \subseteq 1..Len(requests)
      /\ \A id \in DOMAIN log' : log'[id] \in DOMAIN requests
  BY <1>1 DEF IInv, TypeOK, Held
<1> QED BY <1>1, <1>2, <1>3, <1>4, <1>5, <1>6, InvariantKept
------------------------------------------------------------------------------
\* An update that is forgotten is one the last slice has.
LEMMA ForgetStep ==
  ASSUME IInv, NEW b \in Business, ForgetUpdate(b)
  PROVE  IInv'
<1> DEFINE N == operlog_id_start
<1>1. /\ pc = "up" /\ pc' = pc /\ HasSlice /\ mem' = [mem EXCEPT !.seen = @ \ {b}]
      /\ requests' = requests /\ list' = list /\ job' = job /\ busy' = busy /\ log' = log
      /\ operlog_id_start' = operlog_id_start /\ UNCHANGED slices
      /\ history' = history /\ accounts' = accounts
      /\ \A t \in mem.applied : requests[t] = Update(b) => t \in Sliced
  BY DEF ForgetUpdate, operlog, slices, Loaded, Sliced
<1>2. mem \in MemoryOf(DOMAIN requests)
  BY DEF IInv, TypeOK
<1>3. /\ mem' \in MemoryOf(DOMAIN requests) /\ mem'.applied = mem.applied
      /\ mem'.seen = mem.seen \ {b}
  BY <1>1, <1>2 DEF MemoryOf
<1>4. Remembers(requests, ops, mem'.seen, StartId, N)
  <2> SUFFICES ASSUME NEW k \in (StartId + 1)..N, requests[ops[k]].kind = "update"
               PROVE  requests[ops[k]].arg \in mem.seen \ {b}
    BY <1>3 DEF Remembers
  <2>1. /\ requests[ops[k]].arg \in mem.seen /\ ops[k] \in DOMAIN requests
        /\ \A t \in Sliced : t < ops[k]
        /\ Shows(requests, ops, mem.applied, Sliced, StartId, N)
    BY <1>1 DEF IInv, Held, Remembers, Follows
  <2>2. requests[ops[k]] \in Requests /\ ops[k] \in Nat
    BY <2>1, RequestsFacts DEF IInv
  <2>3. requests[ops[k]].arg = b => requests[ops[k]] = Update(b)
    BY <2>2 DEF Requests, Update
  <2>4. ops[k] \in mem.applied
    <3>1. ops[k] \in Between(ops, StartId, N)
      BY DEF Between
    <3>2. ops[k] \in UpdatesOf(requests, Between(ops, StartId, N))
      BY <3>1 DEF UpdatesOf
    <3>3. ops[k] \in UpdatesOf(requests, mem.applied)
      BY <2>1, <3>2 DEF Shows
    <3> QED BY <3>3 DEF UpdatesOf
  <2>5. ASSUME requests[ops[k]].arg = b PROVE FALSE
    <3>1. ops[k] \in Sliced
      BY <1>1, <2>3, <2>4, <2>5
    <3>2. ops[k] < ops[k]
      BY <2>1, <3>1
    <3> QED BY <2>2, <3>2
  <2> QED BY <2>1, <2>5
<1>5. Pending' = Pending
  BY <1>1 DEF Pending
<1>6. SameOps /\ Base' = Base
  BY <1>1, <1>5, OpsKept
<1>7. Numbered'
  <2>1. IsWritten' = IsWritten /\ LogEnd' = LogEnd
    BY <1>1, <1>6 DEF IsWritten, LogEnd
  <2>2. StartId' = StartId
    BY <1>6 DEF SameOps
  <2> QED BY <1>1, <1>5, <1>6, <2>1, <2>2 DEF IInv, Numbered
<1>8. /\ list' \in Seq(Operation) /\ job' \in Seq(Seq(Operation)) /\ busy' \in Seq(Operation)
      /\ DOMAIN log' \subseteq 1..Len(requests)
      /\ \A id \in DOMAIN log' : log'[id] \in DOMAIN requests
  BY <1>1 DEF IInv, TypeOK
<1> QED BY <1>1, <1>3, <1>4, <1>6, <1>7, <1>8, InvariantKept

\* What the table is after the statement, whether or not it was executed before.
LEMMA InsertedIs ==
  ASSUME TypeOK, SlicesOK, Numbered, pc # "down", busy # <<>>, log' = Inserted(busy)
  PROVE  /\ DOMAIN log' = DOMAIN log \cup (Base + 1)..(Base + Len(busy))
         /\ \A id \in DOMAIN log : log'[id] = log[id]
         /\ \A i \in DOMAIN busy : log'[Base + i] = busy[i].request
<1> DEFINE B == Base  n == Len(busy)
<1>1. /\ B \in Nat /\ n \in Nat /\ DOMAIN busy = 1..n /\ n # 0
      /\ \A i \in DOMAIN busy : i \in DOMAIN Pending /\ Pending[i] = busy[i]
  <2>1. /\ B \in Nat /\ n \in Nat /\ DOMAIN busy = 1..n /\ DOMAIN Pending = 1..Len(Pending)
        /\ n <= Len(Pending) /\ Len(Pending) \in Nat
        /\ \A i \in DOMAIN busy : Pending[i] = busy[i]
    BY PendingFacts
  <2>2. n # 0
    BY EmptySeq DEF TypeOK
  <2> HIDE DEF n
  <2> QED BY <2>1, <2>2
<1>2. \A i \in 1..n : busy[i].id = B + i
  BY <1>1 DEF Numbered
<1> HIDE DEF B, n
<1>3. Ids(busy) = (B + 1)..(B + n)
  <2>1. ASSUME NEW x \in Ids(busy) PROVE x \in (B + 1)..(B + n)
    <3>1. PICK i \in 1..n : x = busy[i].id
      BY <1>1 DEF Ids
    <3> QED BY <3>1, <1>1, <1>2
  <2>2. ASSUME NEW x \in (B + 1)..(B + n) PROVE x \in Ids(busy)
    <3> DEFINE i == x - B
    <3>1. i \in 1..n /\ B + i = x
      BY <1>1
    <3> HIDE DEF i
    <3>2. busy[i].id = x
      BY <3>1, <1>2
    <3> QED BY <3>1, <3>2, <1>1 DEF Ids
  <2> QED BY <2>1, <2>2
<1>4. CASE IsWritten
  <2>1. \A i \in 1..n : B + i \in DOMAIN log /\ log[B + i] = busy[i].request
    BY <1>1, <1>4 DEF Numbered, B
  <2>2. B + 1 \in Ids(busy) \cap DOMAIN log
    BY <1>1, <1>3, <2>1
  <2>3. log' = log
    BY <2>2 DEF Inserted
  <2>4. (B + 1)..(B + n) \subseteq DOMAIN log
    <3> SUFFICES ASSUME NEW x \in (B + 1)..(B + n) PROVE x \in DOMAIN log
      OBVIOUS
    <3>1. x - B \in 1..n /\ B + (x - B) = x
      BY <1>1
    <3> QED BY <3>1, <2>1
  <2> QED BY <1>1, <2>1, <2>3, <2>4 DEF B, n
<1>5. CASE ~IsWritten
  <2>1. \A id \in DOMAIN log : id <= B /\ id \in Nat
    BY <1>5 DEF Numbered, LogEnd, B, TypeOK
  <2>2. Ids(busy) \cap DOMAIN log = {}
    BY <1>1, <1>3, <2>1
  <2> DEFINE row(id) == IF id \in DOMAIN log THEN log[id]
                        ELSE (CHOOSE r \in ToSet(busy) : r.id = id).request
  <2>3. log' = [id \in DOMAIN log \cup Ids(busy) |-> row(id)]
    BY <2>2 DEF Inserted
  <2>4. ASSUME NEW i \in 1..n PROVE row(B + i) = busy[i].request
    <3>1. B + i \notin DOMAIN log
      BY <1>1, <2>1
    <3>2. ToSet(busy) = {busy[j] : j \in 1..n}
      BY <1>1 DEF ToSet
    <3>3. busy[i] \in ToSet(busy) /\ busy[i].id = B + i
      BY <3>2, <1>2
    <3>4. ASSUME NEW r \in ToSet(busy), r.id = B + i PROVE r = busy[i]
      <4>1. PICK j \in 1..n : r = busy[j]
        BY <3>2
      <4>2. B + j = B + i
        BY <3>4, <4>1, <1>2
      <4>3. j = i
        BY <4>2, <1>1
      <4> QED BY <4>1, <4>3
    <3> DEFINE x == B + i
    <3> HIDE DEF x
    <3>5. (CHOOSE r \in ToSet(busy) : r.id = x) = busy[i]
      BY <3>3, <3>4, Zenon DEF x
    <3> QED BY <3>1, <3>5 DEF x
  <2>5. \A id \in DOMAIN log : row(id) = log[id]
    OBVIOUS
  <2> HIDE DEF row
  <2>6. \A i \in 1..n : B + i \in Ids(busy)
    BY <1>1, <1>3
  <2> QED BY <1>1, <1>3, <2>3, <2>4, <2>5, <2>6 DEF B, n
<1> QED BY <1>4, <1>5

\* The statement is executed, and the thread learns of it or not.
LEMMA ExecuteStep ==
  ASSUME IInv, pc # "down", busy # <<>>, log' = Inserted(busy), busy' = <<>> \/ busy' = busy,
         UNCHANGED <<requests, mem, operlog_id_start, list, job, pc, slices>>
  PROVE  IInv'
<1> DEFINE N == operlog_id_start  B == Base  n == Len(busy)
<1>1. /\ requests' = requests /\ mem' = mem /\ N' = N /\ list' = list /\ job' = job /\ pc' = pc
      /\ history' = history /\ accounts' = accounts
  BY DEF slices
<1>2. /\ DOMAIN log' = DOMAIN log \cup (B + 1)..(B + n)
      /\ \A id \in DOMAIN log : log'[id] = log[id]
      /\ \A i \in DOMAIN busy : log'[B + i] = busy[i].request
  BY InsertedIs DEF IInv
<1>3. /\ Len(Pending) \in Nat /\ DOMAIN Pending = 1..Len(Pending) /\ n \in Nat /\ DOMAIN busy = 1..n
      /\ B \in Nat /\ B + Len(Pending) = N /\ n <= Len(Pending)
      /\ \A i \in DOMAIN busy : Pending[i] = busy[i]
      /\ Pending \in Seq(Operation)
      /\ LogEnd \in Nat /\ B <= LogEnd /\ LogEnd <= N
  BY PendingFacts DEF IInv
<1>4. /\ N \in Nat /\ N <= Len(requests) /\ Len(requests) \in Nat /\ StartId \in Nat
      /\ DOMAIN requests = 1..Len(requests)
  BY RequestsFacts, SliceFacts DEF IInv
<1>5. n # 0 /\ busy \in Seq(Operation) /\ list \in Seq(Operation)
  BY EmptySeq DEF IInv, TypeOK
<1>6. StartId' = StartId /\ Sliced' = Sliced
  BY <1>1, SliceKept
<1>7. \A i \in 1..Len(Pending) : Pending[i].id = B + i /\ Pending[i].request \in DOMAIN requests
  BY <1>3 DEF IInv, Numbered
<1>8. /\ DOMAIN log' \subseteq 1..Len(requests)
      /\ \A id \in DOMAIN log' : log'[id] \in DOMAIN requests
  <2>1. DOMAIN log \subseteq 1..Len(requests) /\ \A id \in DOMAIN log : log[id] \in DOMAIN requests
    BY DEF IInv, TypeOK
  <2>2. ASSUME NEW id \in (B + 1)..(B + n)
        PROVE  id \in 1..Len(requests) /\ log'[id] \in DOMAIN requests
    <3> DEFINE i == id - B
    <3>1. i \in 1..n /\ B + i = id /\ i \in 1..Len(Pending)
      BY <1>3
    <3>2. id \in 1..Len(requests)
      BY <1>3, <1>4
    <3> HIDE DEF i, n, B
    <3>3. log'[B + i] = busy[i].request /\ Pending[i] = busy[i]
      BY <3>1, <1>2, <1>3
    <3> QED BY <3>1, <3>2, <3>3, <1>7
  <2> QED BY <2>1, <2>2, <1>2
<1> HIDE DEF B, n, N
<1>9. CASE busy' = busy
  <2>1. Pending' = Pending /\ Base' = B
    BY <1>1, <1>9 DEF Pending, Base, N, B
  <2>2. ASSUME NEW id \in (StartId + 1)..N PROVE ops'[id] = ops[id]
    <3>1. ops'[id] = IF id \in DOMAIN log' THEN log'[id] ELSE Pending[id - B].request
      BY <1>1, <1>6, <2>1 DEF ops, N
    <3>2. /\ id \in DOMAIN log => ops[id] = log[id]
          /\ id \notin DOMAIN log => ops[id] = Pending[id - B].request
      BY OpsFacts DEF IInv, N, B
    <3>3. CASE id \in DOMAIN log
      BY <3>1, <3>2, <3>3, <1>2
    <3>4. CASE id \notin DOMAIN log /\ id \in (B + 1)..(B + n)
      <4> DEFINE i == id - B
      <4>1. i \in 1..n /\ B + i = id
        BY <3>4, <1>3
      <4>2. log'[id] = busy[i].request /\ Pending[i] = busy[i]
        BY <4>1, <1>2, <1>3
      <4> QED BY <3>1, <3>2, <3>4, <4>2, <1>2
    <3>5. CASE id \notin DOMAIN log /\ ~(id \in (B + 1)..(B + n))
      BY <3>1, <3>2, <3>5, <1>2
    <3> QED BY <3>3, <3>4, <3>5
  <2>3. SameOps
    BY <1>1, <1>6, <2>2 DEF SameOps, N
  <2>4. IsWritten' /\ LogEnd' = B + n
    <3>1. B + 1 \in (B + 1)..(B + n)
      BY <1>3, <1>5
    <3>2. busy' # <<>> /\ Base' + 1 \in DOMAIN log'
      BY <1>2, <1>9, <2>1, <3>1
    <3> QED BY <1>9, <2>1, <3>2 DEF IsWritten, LogEnd, n
  <2>5. Numbered'
    <3>1. \A id \in DOMAIN log' : id <= B + n
      <4>1. \A id \in DOMAIN log : id <= LogEnd
        BY DEF IInv, Numbered
      <4>2. LogEnd <= B + n
        BY <1>3 DEF LogEnd, B, n
      <4>3. \A id \in DOMAIN log : id \in Nat
        BY DEF IInv, TypeOK
      <4> QED BY <4>1, <4>2, <4>3, <1>2, <1>3
    <3>2. \A id \in (StartId + 1)..(B + n) : id \in DOMAIN log'
      <4> SUFFICES ASSUME NEW id \in (StartId + 1)..(B + n), ~(id \in (B + 1)..(B + n))
                   PROVE  id \in DOMAIN log
        BY <1>2
      <4>1. id <= B /\ id \in Nat /\ id \in (StartId + 1)..LogEnd
        BY <1>3, <1>4
      <4> QED BY <4>1 DEF IInv, Numbered
    <3>3. \A i \in DOMAIN busy : B + i \in DOMAIN log' /\ log'[B + i] = busy[i].request
      <4>1. \A i \in 1..n : B + i \in (B + 1)..(B + n)
        BY <1>3
      <4> QED BY <4>1, <1>2, <1>3
    <3>4. Len(Pending) <= N
      BY <1>3
    <3> QED BY <1>1, <1>3, <1>6, <1>7, <1>9, <2>1, <2>4, <3>1, <3>2, <3>3, <3>4 DEF Numbered, N
  <2>6. /\ mem' \in MemoryOf(DOMAIN requests) /\ mem'.applied = mem.applied
        /\ Remembers(requests, ops, mem'.seen, StartId, operlog_id_start)
        /\ list' \in Seq(Operation) /\ job' \in Seq(Seq(Operation)) /\ busy' \in Seq(Operation)
        /\ pc' \in {"up", "stopping", "suicide"}
    BY <1>1, <1>5, <1>9 DEF IInv, TypeOK, Held
  <2> QED BY <1>8, <2>3, <2>5, <2>6, InvariantKept
<1>10. CASE busy' = <<>>
  <2> DEFINE P == Pending'
  <2>1. /\ Len(P) \in Nat /\ DOMAIN P = 1..Len(P) /\ n + Len(P) = Len(Pending)
        /\ \A i \in 1..Len(P) : P[i] = Pending[n + i]
    <3> DEFINE f == FlattenSeq(job)
    <3>1. f \in Seq(Operation)
      BY PendingFacts DEF IInv
    <3>2. Pending = (busy \o f) \o list /\ P = (<<>> \o f) \o list
      BY <1>1, <1>10 DEF Pending
    <3> HIDE DEF f, P
    <3>3. Pending = busy \o (f \o list)
      <4>1. busy \in Seq(Operation) /\ list \in Seq(Operation)
        BY DEF IInv, TypeOK
      <4>2. Associates(busy, f, list)
        BY <3>1, <4>1, ConcatInAnyOrder
      <4> QED BY <3>2, <4>2 DEF Associates
    <3>4. P = f \o list
      BY <3>1, <3>2, ConcatEmptySeq
    <3>5. P \in Seq(Operation)
      BY <3>1, <3>4, <1>5, ConcatProperties
    <3>6. Pending = busy \o P
      BY <3>3, <3>4
    <3> DEFINE l == Len(P)
    <3>7. l \in Nat /\ DOMAIN P = 1..l
      BY <3>5
    <3>8. /\ Len(Pending) = n + l
          /\ \A i \in 1..(n + l) : Pending[i] = IF i <= n THEN busy[i] ELSE P[i - n]
      BY <3>5, <3>6, <1>5, ConcatProperties DEF n
    <3> HIDE DEF l
    <3>9. ASSUME NEW i \in 1..l PROVE P[i] = Pending[n + i]
      <4>1. n + i \in 1..(n + l) /\ ~(n + i <= n) /\ (n + i) - n = i
        BY <3>7, <1>3
      <4> QED BY <4>1, <3>8
    <3> QED BY <3>7, <3>8, <3>9 DEF l
  <2> HIDE DEF P
  <2>2. Base' = B + n
    <3>1. Base' = N - Len(P)
      BY <1>1 DEF Base, N, P
    <3> DEFINE l == Len(P)  m == Len(Pending)
    <3>2. l \in Nat /\ m \in Nat /\ n + l = m /\ B + m = N /\ B \in Nat /\ n \in Nat
      BY <2>1, <1>3
    <3>3. Base' = N - l
      BY <3>1
    <3> HIDE DEF l, m
    <3> QED BY <3>2, <3>3
  <2>3. ~IsWritten' /\ LogEnd' = B + n
    BY <1>10, <2>2 DEF IsWritten, LogEnd
  <2>4. ASSUME NEW id \in (StartId + 1)..N PROVE ops'[id] = ops[id]
    <3>1. ops'[id] = IF id \in DOMAIN log' THEN log'[id] ELSE P[id - (B + n)].request
      BY <1>1, <1>6, <2>2 DEF ops, N, P
    <3>2. /\ id \in DOMAIN log => ops[id] = log[id]
          /\ id \notin DOMAIN log => /\ id > LogEnd /\ id - B \in 1..Len(Pending)
                                     /\ ops[id] = Pending[id - B].request
      BY OpsFacts DEF IInv, N, B
    <3>3. CASE id \in DOMAIN log
      BY <3>1, <3>2, <3>3, <1>2
    <3>4. CASE id \notin DOMAIN log /\ id \in (B + 1)..(B + n)
      <4> DEFINE i == id - B
      <4>1. i \in 1..n /\ B + i = id
        BY <3>4, <1>3
      <4>2. log'[id] = busy[i].request /\ Pending[i] = busy[i]
        BY <4>1, <1>2, <1>3
      <4> QED BY <3>1, <3>2, <3>4, <4>2, <1>2
    <3>5. CASE id \notin DOMAIN log /\ ~(id \in (B + 1)..(B + n))
      <4> DEFINE i == id - (B + n)
      <4>1. i \in 1..Len(P) /\ n + i = id - B
        BY <3>2, <3>5, <1>3, <1>4, <2>1
      <4> HIDE DEF i
      <4>2. P[i] = Pending[id - B]
        BY <4>1, <2>1
      <4> QED BY <3>1, <3>2, <3>5, <4>2, <1>2 DEF i
    <3> QED BY <3>3, <3>4, <3>5
  <2>5. SameOps
    BY <1>1, <1>6, <2>4 DEF SameOps, N
  <2>6. Numbered'
    <3>1. \A id \in DOMAIN log' : id <= B + n
      <4>1. \A id \in DOMAIN log : id <= LogEnd
        BY DEF IInv, Numbered
      <4>2. LogEnd <= B + n
        BY <1>3 DEF LogEnd, B, n
      <4>3. \A id \in DOMAIN log : id \in Nat
        BY DEF IInv, TypeOK
      <4> QED BY <4>1, <4>2, <4>3, <1>2, <1>3
    <3>2. \A id \in (StartId + 1)..(B + n) : id \in DOMAIN log'
      <4> SUFFICES ASSUME NEW id \in (StartId + 1)..(B + n), ~(id \in (B + 1)..(B + n))
                   PROVE  id \in DOMAIN log
        BY <1>2
      <4>1. id <= B /\ id \in Nat /\ id \in (StartId + 1)..LogEnd
        BY <1>3, <1>4
      <4> QED BY <4>1 DEF IInv, Numbered
    <3>3. ASSUME NEW i \in 1..Len(P)
          PROVE  P[i].id = (B + n) + i /\ P[i].request \in DOMAIN requests
      <4>1. n + i \in 1..Len(Pending) /\ B + (n + i) = (B + n) + i
        BY <2>1, <1>3
      <4> QED BY <4>1, <2>1, <1>7
    <3>4. Len(P) <= N
      BY <1>3, <2>1
    <3> QED BY <1>1, <1>6, <2>1, <2>2, <2>3, <3>1, <3>2, <3>3, <3>4 DEF Numbered, N, P
  <2>7. /\ mem' \in MemoryOf(DOMAIN requests) /\ mem'.applied = mem.applied
        /\ Remembers(requests, ops, mem'.seen, StartId, operlog_id_start)
        /\ list' \in Seq(Operation) /\ job' \in Seq(Seq(Operation)) /\ busy' \in Seq(Operation)
        /\ pc' \in {"up", "stopping", "suicide"}
    BY <1>1, <1>5, <1>10, EmptySeq DEF IInv, TypeOK, Held
  <2> QED BY <1>8, <2>5, <2>6, <2>7, InvariantKept
<1> QED BY <1>9, <1>10
------------------------------------------------------------------------------
(* The end of a process and the start of the next one.                      *)

\* Whatever the state, the log goes on after the last slice.
LEMMA LogIsStored ==
  ASSUME IInv
  PROVE  \E n \in 0..Len(requests) : LogHas(n)
<1>1. CASE pc = "down"
  BY <1>1 DEF IInv, HeldByLog
<1>2. CASE pc # "down"
  <2> DEFINE N == operlog_id_start  e == LogEnd  S == StartId
  <2>1. /\ N \in Nat /\ N <= Len(requests) /\ Len(requests) \in Nat
        /\ S \in Nat /\ S <= Len(requests) /\ e \in Nat /\ e <= N
    BY RequestsFacts, SliceFacts, PendingFacts DEF IInv
  <2>2. /\ \A id \in DOMAIN log : id <= e /\ id \in Nat
        /\ \A id \in (S + 1)..e : id \in DOMAIN log
        /\ S <= N /\ Follows(requests, ops, Sliced, S, N)
    BY <1>2 DEF IInv, Numbered, Held, TypeOK
  <2>3. CASE e <= S
    <3>1. \A id \in (S + 1)..S : FALSE
      BY <2>1
    <3>2. Follows(requests, log, Sliced, S, S)
      BY <3>1 DEF Follows
    <3> HIDE DEF e
    <3>3. LogHas(S)
      BY <2>1, <2>2, <2>3, <3>1, <3>2 DEF LogHas
    <3> QED BY <2>1, <3>3
  <2>4. CASE S <= e
    <3>1. \A id \in (S + 1)..e : log[id] = ops[id] /\ \A t \in Sliced : t < ops[id]
      <4> SUFFICES ASSUME NEW id \in (S + 1)..e
                   PROVE  log[id] = ops[id] /\ \A t \in Sliced : t < ops[id]
        OBVIOUS
      <4>1. id \in (S + 1)..N /\ id \in DOMAIN log
        BY <2>1, <2>2
      <4>2. ops[id] = log[id]
        BY <1>2, <4>1, OpsFacts DEF IInv
      <4> QED BY <4>1, <4>2, <2>2 DEF Follows
    <3>2. Extends(requests, requests)
      BY DEF Extends
    <3> HIDE DEF e, S, N
    <3>3. S <= S
      BY <2>1
    <3>4. Follows(requests, log, Sliced, S, e)
      BY <2>1, <2>2, <3>1, <3>2, <3>3, FollowsPart
    <3>5. LogHas(e)
      <4>1. e \in S..Len(requests)
        BY <2>1, <2>4
      <4> QED BY <2>2, <3>4, <4>1 DEF LogHas, S
    <3> QED BY <2>1, <3>5
  <2> QED BY <2>1, <2>3, <2>4
<1> QED BY <1>1, <1>2

LEMMA NothingPending ==
  ASSUME busy = <<>>, job = <<>>, list = <<>>
  PROVE  Pending = <<>>
<1>1. Pending = (<<>> \o FlattenSeq(<<>>)) \o <<>>
  BY DEF Pending
<1> QED BY <1>1, FlattenEmpty, EmptySeq, ConcatEmptySeq

LEMMA EndStep ==
  ASSUME OneByOne, IInv, ProcessEnds
  PROVE  IInv'
<1>1. /\ requests' = requests /\ mem' = Empty /\ operlog_id_start' = 0 /\ pc' = "down"
      /\ list' = <<>> /\ job' = <<>> /\ busy' = <<>> /\ log' = log /\ children' = {}
      /\ clock' = clock /\ accounts' = accounts /\ orders_of' = orders_of /\ history' = history
  BY DEF ProcessEnds, OneByOne
<1>2. Pending' = <<>>
  <2>1. (busy = <<>> /\ job = <<>> /\ list = <<>> => Pending = <<>>)'
    BY <1>1, NothingPending, PTL
  <2> QED BY <1>1, <2>1
<1>3. TypeOK'
  <2>1. Empty \in MemoryOf(DOMAIN requests) /\ 0 \in 0..Len(requests)
    BY RequestsFacts DEF Empty, MemoryOf, IInv
  <2>2. Accounts' = Accounts
    BY <1>1 DEF Accounts
  <2>3. <<>> \in Seq(Operation) /\ <<>> \in Seq(Seq(Operation))
    BY EmptySeq
  <2> QED BY <1>1, <2>1, <2>2, <2>3 DEF IInv, TypeOK
<1>4. Numbered'
  <2>1. Len(Pending') = 0 /\ DOMAIN Pending' = {}
    BY <1>2
  <2> QED BY <1>1, <2>1 DEF Numbered, IsWritten
<1>5. /\ LastId' = LastId /\ HasSlice' = HasSlice /\ LastSlice' = LastSlice
      /\ StartId' = StartId /\ Sliced' = Sliced
  BY <1>1, SliceKept
<1>6. HeldByLog'
  <2>1. PICK n \in 0..Len(requests) : LogHas(n)
    BY LogIsStored
  <2>2. LogHas(n)'
    BY <1>1, <1>5, <2>1 DEF LogHas
  <2> QED BY <1>1, <2>2 DEF HeldByLog
<1>7. SlicesOK'
  BY <1>1, <1>5 DEF IInv, SlicesOK, Row
<1>8. Gone' /\ Held' /\ ChildrenOK'
  BY <1>1 DEF Gone, Held, ChildrenOK
<1> QED BY <1>3, <1>4, <1>6, <1>7, <1>8 DEF IInv

(* What init_from_db loads.                                                 *)

LEMMA ToReplayIs ==
  ASSUME TypeOK, SlicesOK, NEW n \in 0..Len(requests), LogHas(n)
  PROVE  /\ n - StartId \in Nat /\ Len(ToReplay) = n - StartId
         /\ DOMAIN ToReplay = 1..(n - StartId)
         /\ \A i \in 1..(n - StartId) : ToReplay[i] = StartId + i /\ StartId + i \in DOMAIN log
         /\ {id \in DOMAIN log : id > StartId} = (StartId + 1)..n
<1> DEFINE ids == {i \in DOMAIN log : i > StartId}  S == StartId  l == n - S
<1>1. S \in Nat /\ n \in Nat /\ S <= n /\ l \in Nat
  BY SliceFacts DEF LogHas
<1>2. /\ \A id \in DOMAIN log : id <= n /\ id \in Nat
      /\ \A id \in (S + 1)..n : id \in DOMAIN log
  BY DEF LogHas, TypeOK
<1>3. ids = (S + 1)..n
  <2> HIDE DEF S
  <2>1. ids = {i \in DOMAIN log : i > S}
    BY DEF S
  <2> HIDE DEF ids
  <2>2. ASSUME NEW i \in ids PROVE i \in (S + 1)..n
    <3>1. i \in Nat /\ i > S /\ i <= n
      BY <2>1, <1>2
    <3> QED BY <3>1, <1>1
  <2>3. ASSUME NEW i \in (S + 1)..n PROVE i \in ids
    <3>1. i \in DOMAIN log /\ i > S
      BY <1>1, <1>2
    <3> QED BY <2>1, <3>1
  <2> QED BY <2>2, <2>3
<1>4. Cardinality(ids) = l
  <2> HIDE DEF S, ids
  <2>1. S + 1 \in Int /\ n \in Int
    BY <1>1
  <2>2. Cardinality((S + 1)..n) = IF S + 1 > n THEN 0 ELSE n - (S + 1) + 1
    BY <2>1, FS_Interval
  <2> QED BY <2>2, <1>1, <1>3
<1>5. ToReplay = [i \in 1..Cardinality(ids) |-> S + i]
  BY DEF ToReplay
<1> HIDE DEF ids, S, l
<1>6. /\ Len(ToReplay) = l /\ DOMAIN ToReplay = 1..l
      /\ \A i \in 1..l : ToReplay[i] = S + i
  BY <1>1, <1>4, <1>5
<1>7. \A i \in 1..l : S + i \in DOMAIN log
  <2>1. \A i \in 1..l : S + i \in (S + 1)..n
    BY <1>1 DEF l
  <2> QED BY <2>1, <1>2
<1> QED BY <1>1, <1>3, <1>6, <1>7 DEF l, S, ids

First == [ok |-> TRUE, mem |-> IF HasSlice THEN Loaded(LastSlice.time) ELSE Empty]

\* What init_from_db is the last value of.
IsLoad(f) ==
  f = [i \in 0..Len(ToReplay) |-> IF i = 0 THEN First ELSE load_oper(f[i - 1], ToReplay[i])]

LEMMA LoadDefinition == init_from_db = (CHOOSE f : IsLoad(f))[Len(ToReplay)]
  BY DEF init_from_db, IsLoad, First

Loads(s) == [ok : BOOLEAN, mem : MemoryOf(s)]

LEMMA LoadType ==
  ASSUME TypeOK, SlicesOK
  PROVE  /\ First \in Loads(DOMAIN requests)
         /\ \A x \in Loads(DOMAIN requests), id \in DOMAIN log :
              load_oper(x, id) \in Loads(DOMAIN requests)
<1>1. First \in Loads(DOMAIN requests)
  <2>1. CASE HasSlice
    <3>1. accounts[LastSlice.time] \in Accounts
      BY <2>1, SliceFacts
    <3>2. Loaded(LastSlice.time) \in MemoryOf(DOMAIN requests)
      BY <3>1 DEF Loaded, load_orders, MemoryOf, Accounts
    <3> QED BY <2>1, <3>2 DEF First, Loads
  <2>2. CASE ~HasSlice
    BY <2>2 DEF First, Loads, Empty, MemoryOf
  <2> QED BY <2>1, <2>2
<1>2. ASSUME NEW x \in Loads(DOMAIN requests), NEW id \in DOMAIN log
      PROVE  load_oper(x, id) \in Loads(DOMAIN requests)
  <2> DEFINE s == DOMAIN requests  t == log[id]  m == x.mem
  <2>1. t \in s /\ m \in MemoryOf(s) /\ requests[t] \in Requests
    BY RequestsFacts DEF TypeOK, Loads
  <2> HIDE DEF s, m, t
  <2>2. Applied(requests, s, t, m, Apply(m, t, requests[t]))
    BY <2>1, ApplyIs
  <2>3. s \cup {t} = s
    BY <2>1
  <2>4. Apply(m, t, requests[t]) \in MemoryOf(s)
    BY <2>2, <2>3 DEF Applied
  <2>5. (x.ok /\ ~Repeats(x.mem, t)) \in BOOLEAN
    OBVIOUS
  <2> QED BY <2>4, <2>5 DEF load_oper, Loads, m, t, s
<1> QED BY <1>1, <1>2

LEMMA LoadExists ==
  ASSUME TypeOK, SlicesOK, NEW n \in 0..Len(requests), LogHas(n)
  PROVE  \E f : IsLoad(f)
<1> DEFINE l == Len(ToReplay)
           D == Loads(DOMAIN requests)
           b == First
           step == [i \in 1..l |-> [x \in D |-> load_oper(x, ToReplay[i])]]
<1>1. l \in Nat /\ \A i \in 1..l : ToReplay[i] \in DOMAIN log
  BY ToReplayIs
<1>2. b \in D /\ \A x \in D, id \in DOMAIN log : load_oper(x, id) \in D
  BY LoadType
<1> HIDE DEF l, D, b
<1>3. step \in [1..l -> [D -> D]] /\ \A i \in 1..l, x \in D : step[i][x] = load_oper(x, ToReplay[i])
  BY <1>1, <1>2
<1> HIDE DEF step
<1>4. PICK F : IsIteration(F, l, D, b, step)
  BY ONLY <1>1, <1>2, <1>3, IterationExists
<1>5. F \in [0..l -> D] /\ F[0] = b /\ \A i \in 1..l : F[i] = step[i][F[i - 1]]
  BY <1>4 DEF IsIteration
<1>6. \A i \in 1..l : i - 1 \in 0..l /\ F[i - 1] \in D
  BY <1>1, <1>5
<1> DEFINE e(i) == IF i = 0 THEN b ELSE load_oper(F[i - 1], ToReplay[i])
<1>7. ASSUME NEW i \in 0..l PROVE F[i] = e(i)
  <2>1. i # 0 => i \in 1..l
    BY <1>1
  <2> QED BY <2>1, <1>3, <1>5, <1>6
<1>8. F = [i \in 0..l |-> e(i)]
  <2> HIDE DEF e
  <2> QED BY <1>5, <1>7
<1>9. IsLoad(F)
  BY <1>8 DEF IsLoad, l, b
<1> QED BY <1>9

LEMMA LoadValue ==
  ASSUME NEW f, IsLoad(f), Len(ToReplay) \in Nat
  PROVE  /\ f[0] = First
         /\ \A i \in 1..Len(ToReplay) : f[i] = load_oper(f[i - 1], ToReplay[i])
<1> DEFINE e(i) == IF i = 0 THEN First ELSE load_oper(f[i - 1], ToReplay[i])  l == Len(ToReplay)
<1>1. f = [i \in 0..l |-> e(i)]
  BY DEF IsLoad
<1> HIDE DEF e, l
<1>2. l \in Nat
  BY DEF l
<1>3. \A i \in 0..l : f[i] = e(i)
  BY <1>1
<1>4. 0 \in 0..l /\ \A i \in 1..l : i \in 0..l /\ i # 0
  BY <1>2
<1> QED BY <1>3, <1>4 DEF e, l

\* The load is a memory that holds the last slice and the log after it.
IsLoaded(x, n) ==
  /\ x.ok = TRUE /\ x.mem \in MemoryOf(DOMAIN requests)
  /\ Shows(requests, log, x.mem.applied, Sliced, StartId, n)
  /\ Remembers(requests, log, x.mem.seen, StartId, n)
  /\ \A b \in x.mem.seen : \E k \in (StartId + 1)..n :
       requests[log[k]].kind = "update" /\ requests[log[k]].arg = b

LEMMA LoadedFirst ==
  ASSUME TypeOK, SlicesOK
  PROVE  IsLoaded(First, StartId)
<1>1. First.ok = TRUE /\ First.mem \in MemoryOf(DOMAIN requests)
  BY LoadType DEF Loads, First
<1>2. First.mem.applied = Sliced /\ First.mem.seen = {}
  BY DEF First, Loaded, Sliced, Empty
<1>3. StartId \in Nat /\ \A k \in (StartId + 1)..StartId : FALSE
  BY SliceFacts
<1>4. Between(log, StartId, StartId) = {}
  BY <1>3 DEF Between
<1>5. UpdatesOf(requests, {}) = {}
  BY DEF UpdatesOf
<1>6. Shows(requests, log, First.mem.applied, Sliced, StartId, StartId)
  BY <1>2, <1>4, <1>5 DEF Shows
<1> QED BY <1>1, <1>2, <1>3, <1>6 DEF IsLoaded, Remembers

LEMMA LoadedNext ==
  ASSUME TypeOK, SlicesOK, NEW n \in 0..Len(requests), LogHas(n),
         NEW j \in Nat, StartId <= j, j < n, NEW x, IsLoaded(x, j)
  PROVE  IsLoaded(load_oper(x, j + 1), j + 1)
<1> DEFINE S == StartId  q == requests  t == log[j + 1]  m == x.mem
           y == load_oper(x, j + 1)  s == DOMAIN requests
<1>1. S \in Nat /\ n \in Nat /\ j + 1 \in (S + 1)..n
  BY SliceFacts
<1>2. j + 1 \in DOMAIN log /\ Follows(q, log, Sliced, S, n)
  BY <1>1 DEF LogHas
<1>3. t \in s /\ m \in MemoryOf(s) /\ q[t] \in Requests /\ x.ok = TRUE
  BY <1>2, RequestsFacts DEF TypeOK, IsLoaded
<1>4. y.ok = (x.ok /\ ~Repeats(m, t)) /\ y.mem = Apply(m, t, q[t])
  BY DEF load_oper
<1>5. /\ Shows(q, log, m.applied, Sliced, S, j) /\ Remembers(q, log, m.seen, S, j)
      /\ \A b \in m.seen : \E k \in (S + 1)..j : q[log[k]].kind = "update" /\ q[log[k]].arg = b
  BY DEF IsLoaded
<1>6. Sliced \subseteq s /\ m.applied \subseteq s
  BY <1>3, SliceFacts DEF MemoryOf
<1>7. \A k \in (S + 1)..j : k \in (S + 1)..n /\ k # j + 1
  BY <1>1
<1> HIDE DEF S, q, t, m, y, s
<1>8. Applied(q, s, t, m, y.mem)
  BY <1>3, <1>4, ApplyIs
<1>9. s \cup {t} = s
  BY <1>3
<1>10. ~Repeats(m, t)
  <2> SUFFICES ASSUME q[t].kind = "update", q[t].arg \in m.seen PROVE FALSE
    BY DEF Repeats, q
  <2>1. PICK k \in (S + 1)..j : q[log[k]].kind = "update" /\ q[log[k]].arg = q[t].arg
    BY <1>5
  <2> QED BY <2>1, <1>1, <1>2, <1>7 DEF Follows, t
<1>11. Shows(q, log, y.mem.applied, Sliced, S, j + 1)
  <2>1. \A k \in (S + 1)..j : log[k] = log[k] /\ log[k] \in DOMAIN q
    BY <1>2, <1>7 DEF Follows
  <2>2. Extends(q, q)
    BY DEF Extends
  <2>3. UpdatesOf(q, y.mem.applied) = UpdatesOf(q, m.applied) \cup UpdatesOf(q, {log[j + 1]})
    BY <1>8 DEF Applied, t
  <2>4. S <= j /\ Sliced \subseteq DOMAIN q /\ m.applied \subseteq DOMAIN q
    BY <1>6 DEF S, s, q
  <2> QED BY <2>1, <2>2, <2>3, <2>4, <1>1, <1>5, ShowsNext
<1>12. y.mem.seen = IF q[t].kind = "update" THEN m.seen \cup {q[t].arg} ELSE m.seen
  BY <1>8 DEF Applied
<1>13. \A k \in (S + 1)..(j + 1) : k \in (S + 1)..j \/ k = j + 1
  BY <1>1
<1>14. \A k \in (S + 1)..j : k \in (S + 1)..(j + 1)
  BY <1>1
<1>15. j + 1 \in (S + 1)..(j + 1)
  BY <1>1
<1>16. Remembers(q, log, y.mem.seen, S, j + 1)
  <2> SUFFICES ASSUME NEW k \in (S + 1)..(j + 1), q[log[k]].kind = "update"
               PROVE  q[log[k]].arg \in y.mem.seen
    BY DEF Remembers
  <2>1. CASE k = j + 1
    BY <2>1, <1>12 DEF t
  <2>2. CASE k \in (S + 1)..j
    BY <2>2, <1>5, <1>12 DEF Remembers
  <2> QED BY <2>1, <2>2, <1>13
<1>17. ASSUME NEW b \in y.mem.seen
       PROVE  \E k \in (S + 1)..(j + 1) : q[log[k]].kind = "update" /\ q[log[k]].arg = b
  <2>1. CASE b \in m.seen
    BY <2>1, <1>5, <1>14
  <2>2. CASE b \notin m.seen
    <3>1. q[t].kind = "update" /\ q[t].arg = b
      BY <2>2, <1>12
    <3> QED BY <3>1, <1>15 DEF t
  <2> QED BY <2>1, <2>2
<1>18. y.ok = TRUE /\ y.mem \in MemoryOf(s)
  BY <1>3, <1>4, <1>8, <1>9, <1>10 DEF Applied
<1> QED BY <1>11, <1>16, <1>17, <1>18 DEF IsLoaded, S, q, y, s

LEMMA LoadIs ==
  ASSUME TypeOK, SlicesOK, NEW n \in 0..Len(requests), LogHas(n)
  PROVE  IsLoaded(init_from_db, n)
<1> DEFINE f == CHOOSE h : IsLoad(h)  l == Len(ToReplay)  S == StartId
<1>1. IsLoad(f)
  BY LoadExists
<1>2. init_from_db = f[l]
  BY LoadDefinition
<1> HIDE DEF f
<1>3. /\ l \in Nat /\ S \in Nat /\ n \in Nat /\ S + l = n
      /\ \A i \in 1..l : ToReplay[i] = S + i
  BY ToReplayIs, SliceFacts
<1>4. f[0] = First /\ \A i \in 1..l : f[i] = load_oper(f[i - 1], S + i)
  BY <1>1, <1>3, LoadValue
<1> HIDE DEF l
<1> DEFINE bad == {i \in 0..l : ~IsLoaded(f[i], S + i)}
<1>5. bad = {}
  <2> SUFFICES ASSUME bad # {} PROVE FALSE
    OBVIOUS
  <2>1. PICK k \in bad : \A j \in bad : k <= j
    <3>1. bad \in SUBSET Nat
      BY <1>3
    <3> HIDE DEF bad
    <3> QED BY <3>1, SmallestNumber
  <2>2. k \in 0..l /\ ~IsLoaded(f[k], S + k)
    OBVIOUS
  <2>3. CASE k = 0
    <3>1. S + k = StartId /\ f[k] = First
      BY <2>3, <1>3, <1>4
    <3> QED BY <2>2, <3>1, LoadedFirst
  <2>4. CASE k # 0
    <3> DEFINE i == k - 1  j == S + i
    <3>1. i \in 0..l /\ k \in 1..l /\ i < k /\ k = i + 1 /\ k \in Nat
      BY <2>2, <2>4, <1>3
    <3>2. i \notin bad
      <4> HIDE DEF bad, i
      <4>1. i \in bad => k <= i
        BY <2>1
      <4> QED BY <4>1, <3>1
    <3>3. IsLoaded(f[i], j)
      BY <3>1, <3>2
    <3>4. j \in Nat /\ StartId <= j /\ j < n /\ j + 1 = S + k
      BY <3>1, <1>3
    <3>5. f[k] = load_oper(f[i], S + k)
      BY <3>1, <1>4
    <3> HIDE DEF i, j, S
    <3>6. IsLoaded(load_oper(f[i], j + 1), j + 1)
      BY <3>3, <3>4, LoadedNext
    <3> QED BY <2>2, <3>4, <3>5, <3>6
  <2> QED BY <2>3, <2>4
<1>6. l \in 0..l
  BY <1>3
<1>7. IsLoaded(f[l], S + l)
  BY <1>5, <1>6
<1> QED BY <1>2, <1>3, <1>7
------------------------------------------------------------------------------
LEMMA StartStep ==
  ASSUME IInv, Start
  PROVE  IInv'
<1> DEFINE S == StartId
<1>1. /\ pc = "down" /\ pc' = "up" /\ mem' = init_from_db.mem
      /\ operlog_id_start' = StartId + Len(ToReplay)
      /\ requests' = requests /\ list' = list /\ job' = job /\ busy' = busy /\ log' = log
      /\ clock' = clock /\ children' = children /\ accounts' = accounts
      /\ orders_of' = orders_of /\ history' = history
  BY DEF Start, slices
<1>2. list = <<>> /\ job = <<>> /\ busy = <<>> /\ children = {}
  BY <1>1 DEF IInv, Gone
<1>3. PICK n \in 0..Len(requests) : LogHas(n)
  BY <1>1 DEF IInv, HeldByLog
<1>4. /\ n \in Nat /\ S \in Nat /\ S <= n /\ Len(ToReplay) = n - S
      /\ Sliced \subseteq DOMAIN requests /\ Len(requests) \in Nat
  BY <1>3, ToReplayIs, SliceFacts, RequestsFacts DEF IInv, LogHas
<1>5. IsLoaded(init_from_db, n)
  BY <1>3, LoadIs DEF IInv
<1>6. operlog_id_start' = n
  BY <1>1, <1>4
<1>7. /\ LastId' = LastId /\ HasSlice' = HasSlice /\ LastSlice' = LastSlice
      /\ StartId' = StartId /\ Sliced' = Sliced
  BY <1>1, SliceKept
<1>8. Pending' = <<>>
  <2>1. Pending' = Pending
    BY <1>1 DEF Pending
  <2> QED BY <1>2, <2>1, NothingPending
<1>9. Base' = n /\ ~IsWritten' /\ LogEnd' = n
  <2>1. Len(Pending') = 0
    BY <1>8
  <2>2. Base' = n
    BY <2>1, <1>4, <1>6 DEF Base
  <2> QED BY <2>2, <1>1, <1>2 DEF IsWritten, LogEnd
<1>10. mem' \in MemoryOf(DOMAIN requests)
  BY <1>1, <1>5 DEF IsLoaded
<1>11. TypeOK'
  <2>1. Accounts' = Accounts
    BY <1>1 DEF Accounts
  <2> QED BY <1>1, <1>3, <1>6, <1>10, <2>1 DEF IInv, TypeOK
<1>12. /\ \A id \in DOMAIN log : id <= n
       /\ \A id \in (S + 1)..n : id \in DOMAIN log
       /\ Follows(requests, log, Sliced, S, n)
  BY <1>3 DEF LogHas
<1>13. Numbered'
  <2>1. Len(Pending') = 0 /\ DOMAIN Pending' = {}
    BY <1>8
  <2>2. Len(Pending') <= operlog_id_start'
    BY <2>1, <1>4, <1>6
  <2> QED BY <2>1, <2>2, <1>1, <1>7, <1>9, <1>12 DEF Numbered
<1>14. \A id \in (S + 1)..n : ops'[id] = log[id]
  BY <1>1, <1>6, <1>7, <1>12 DEF ops
<1>15. Held'
  <2>1. /\ Shows(requests, log, mem'.applied, Sliced, S, n)
        /\ Remembers(requests, log, mem'.seen, S, n)
    BY <1>1, <1>5 DEF IsLoaded
  <2>2. Extends(requests, requests)
    BY DEF Extends
  <2>3. \A id \in (S + 1)..n : /\ ops'[id] = log[id] /\ log[id] \in DOMAIN requests
                               /\ \A t \in Sliced : t < log[id]
    BY <1>12, <1>14 DEF Follows
  <2>4. S <= S /\ n <= n
    BY <1>4
  <2>5. mem'.applied \subseteq DOMAIN requests
    BY <1>10 DEF MemoryOf
  <2> DEFINE a == mem'.applied  b == mem'.seen
  <2> HIDE DEF S, a, b
  <2>6. Follows(requests, ops', Sliced, S, n)
    BY <2>2, <2>3, <2>4, <1>4, <1>12, FollowsPart
  <2>7. Shows(requests, ops', a, Sliced, S, n)
    <3>1. Shows(requests, log, a, Sliced, S, n) /\ a \subseteq DOMAIN requests
      BY <2>1, <2>5 DEF a
    <3> QED BY <3>1, <2>2, <2>3, <1>4, ShowsSame
  <2>8. Remembers(requests, ops', b, S, n)
    BY <2>1, <2>3 DEF Remembers, b
  <2> QED BY <2>6, <2>7, <2>8, <1>1, <1>4, <1>6, <1>7 DEF Held, S, a, b
<1>16. SlicesOK'
  BY <1>1, <1>7 DEF IInv, SlicesOK, Row
<1>17. Gone' /\ HeldByLog' /\ ChildrenOK'
  BY <1>1, <1>2 DEF Gone, HeldByLog, ChildrenOK
<1> QED BY <1>11, <1>13, <1>15, <1>16, <1>17 DEF IInv

(* Slice processes.                                                         *)

LEMMA OnlyChild ==
  ASSUME NEW d, children' \subseteq {d}, ChildOK(d)'
  PROVE  ChildrenOK'
<1>1. \A c \in children' : c = d
  OBVIOUS
<1>2. \A c \in children' : ChildOK(c)'
  BY <1>1
<1>3. \A c \in children', e \in children' : c = e
  BY <1>1
<1> QED BY <1>2, <1>3 DEF ChildrenOK

LEMMA NoChild ==
  ASSUME children' = {}
  PROVE  ChildrenOK'
  BY DEF ChildrenOK

\* The fields of what a child becomes.
IsMoved(d, c, step, todo) ==
  /\ DOMAIN d = {"time", "mem", "end", "step", "todo"}
  /\ d.time = c.time /\ d.mem = c.mem /\ d.end = c.end /\ d.step = step /\ d.todo = todo

LEMMA ChildMoves ==
  ASSUME ChildrenOK, NEW c \in children
  PROVE  /\ Exit(c) => children' = {}
         /\ \A step : Continue(c, step) =>
              \E d : children' = {d} /\ IsMoved(d, c, step, c.todo)
         /\ \A rows : Drop(c, rows) =>
              \E d : children' = {d} /\ IsMoved(d, c, "drop_orders", rows)
<1>1. children \ {c} = {}
  BY DEF ChildrenOK
<1>2. DOMAIN c = {"time", "mem", "end", "step", "todo"}
  BY DEF ChildrenOK, ChildOK
<1>3. Exit(c) => children' = {}
  BY <1>1 DEF Exit
<1>4. ASSUME NEW step, Continue(c, step)
      PROVE  \E d : children' = {d} /\ IsMoved(d, c, step, c.todo)
  <2> DEFINE d == [c EXCEPT !.step = step]
  <2>1. children' = {d}
    BY <1>1, <1>4 DEF Continue
  <2>2. IsMoved(d, c, step, c.todo)
    BY <1>2 DEF IsMoved
  <2> QED BY <2>1, <2>2
<1>5. ASSUME NEW rows, Drop(c, rows)
      PROVE  \E d : children' = {d} /\ IsMoved(d, c, "drop_orders", rows)
  <2> DEFINE d == [c EXCEPT !.step = "drop_orders", !.todo = rows]
  <2>1. children' = {d}
    BY <1>1, <1>5 DEF Drop
  <2>2. IsMoved(d, c, "drop_orders", rows)
    BY <1>2 DEF IsMoved
  <2> QED BY <2>1, <2>2
<1> QED BY <1>3, <1>4, <1>5

\* Rows other than the last one are deleted, if any.
LEMMA LastKept ==
  ASSUME TypeOK, SlicesOK, DOMAIN history' \subseteq DOMAIN history,
         \A id \in DOMAIN history' : history'[id] = history[id],
         HasSlice => LastId \in DOMAIN history' /\ accounts'[LastSlice.time] = accounts[LastSlice.time]
  PROVE  /\ HasSlice' = HasSlice /\ StartId' = StartId /\ Sliced' = Sliced
         /\ HasSlice => LastId' = LastId /\ LastSlice' = LastSlice
<1>1. CASE ~HasSlice
  <2>1. ~HasSlice'
    BY <1>1 DEF HasSlice
  <2>2. HasSlice' = HasSlice
    BY <1>1, <2>1 DEF HasSlice
  <2> QED BY <1>1, <2>1, <2>2 DEF StartId, Sliced
<1>2. CASE HasSlice
  <2>1. HasSlice'
    BY <1>2 DEF HasSlice
  <2>2. LastId' = LastId
    <3> DEFINE T == DOMAIN history' \cup {0}  m == LastId
    <3>1. T \in SUBSET Nat /\ m \in T /\ \A x \in T : x <= m
      <4>1. DOMAIN history \subseteq Nat /\ LastId \in Nat
        BY SliceFacts
      <4>2. \A id \in DOMAIN history : id <= LastId
        BY <1>2 DEF SlicesOK
      <4> QED BY <1>2, <4>1, <4>2
    <3> HIDE DEF T, m
    <3>2. Max(T) = m
      BY <3>1, GreatestIs
    <3> QED BY <3>2 DEF LastId, T, m
  <2>3. LastSlice' = LastSlice
    BY <1>2, <2>2 DEF LastSlice
  <2> QED BY <1>2, <2>1, <2>2, <2>3 DEF StartId, Sliced
<1> QED BY <1>1, <1>2

LEMMA SliceKeeps ==
  ASSUME IInv, pc # "down", UNCHANGED <<requests, mem, operlog, pc>>,
         clock' \in Nat, clock <= clock',
         DOMAIN history' \subseteq DOMAIN history,
         \A id \in DOMAIN history' : history'[id] = history[id],
         HasSlice => /\ LastId \in DOMAIN history'
                     /\ accounts'[LastSlice.time] = accounts[LastSlice.time]
                     /\ LastSlice.time \in DOMAIN accounts' /\ LastSlice.time \in DOMAIN orders_of',
         DOMAIN accounts' \subseteq 1..clock', DOMAIN orders_of' \subseteq 1..clock',
         \A t \in DOMAIN accounts' : accounts'[t] \in Accounts
  PROVE  /\ ChildrenOK' => IInv'
         /\ SameOps
<1>1. /\ requests' = requests /\ mem' = mem /\ pc' = pc /\ operlog_id_start' = operlog_id_start
      /\ list' = list /\ job' = job /\ busy' = busy /\ log' = log
  BY DEF operlog
<1>2. /\ HasSlice' = HasSlice /\ StartId' = StartId /\ Sliced' = Sliced
      /\ HasSlice => LastId' = LastId /\ LastSlice' = LastSlice
  BY LastKept DEF IInv
<1>3. Pending' = Pending /\ Base' = Base
  BY <1>1 DEF Pending, Base
<1>4. ops' = ops
  BY <1>1, <1>2, <1>3 DEF ops
<1>5. SameOps
  BY <1>1, <1>2, <1>4 DEF SameOps
<1>6. IsWritten' = IsWritten /\ LogEnd' = LogEnd
  BY <1>1, <1>3 DEF IsWritten, LogEnd
<1>7. Numbered'
  BY <1>1, <1>2, <1>3, <1>6 DEF IInv, Numbered
<1>8. Held'
  <2>1. Remembers(requests, ops, mem'.seen, StartId, operlog_id_start)
    BY <1>1 DEF IInv, Held
  <2> QED BY <1>1, <1>5, <2>1, HeldKept
<1>9. TypeOK'
  <2>1. Accounts' = Accounts
    BY <1>1 DEF Accounts
  <2> QED BY <1>1, <2>1 DEF IInv, TypeOK
<1>10. SlicesOK'
  <2>1. Row \subseteq Row'
    BY <1>1 DEF Row, IInv, TypeOK
  <2>2. \A id \in DOMAIN history' : id \in Nat \ {0} /\ history'[id] \in Row'
    BY <2>1 DEF IInv, SlicesOK
  <2>3. HasSlice =>
          /\ LastId \in DOMAIN history'
          /\ \A id \in DOMAIN history' : id <= LastId /\ history'[id].time <= LastSlice.time
          /\ LastSlice.time \in DOMAIN accounts' /\ LastSlice.time \in DOMAIN orders_of'
    BY DEF IInv, SlicesOK
  <2> QED BY <1>2, <2>2, <2>3 DEF SlicesOK
<1>11. Gone' /\ HeldByLog'
  BY <1>1 DEF Gone, HeldByLog
<1> QED BY <1>5, <1>7, <1>8, <1>9, <1>10, <1>11 DEF IInv
------------------------------------------------------------------------------
LEMMA WithIs ==
  ASSUME NEW f, NEW x, NEW v
  PROVE  /\ DOMAIN With(f, x, v) = DOMAIN f \cup {x} /\ With(f, x, v)[x] = v
         /\ \A y \in DOMAIN f : y # x => With(f, x, v)[y] = f[y]
  BY DEF With

LEMMA MakeSliceStep ==
  ASSUME OneByOne, IInv, MakeSlice
  PROVE  IInv' /\ SameOps
<1>1. /\ pc = "up" /\ UNCHANGED <<requests, mem, operlog, pc>> /\ clock' = clock + 1
      /\ accounts' = accounts /\ orders_of' = orders_of /\ history' = history
      /\ operlog_id_start' = operlog_id_start
      /\ Cardinality(children) < MaxChildren
  BY DEF MakeSlice, operlog
<1>2. children = {}
  <2> SUFFICES ASSUME NEW c \in children PROVE FALSE
    OBVIOUS
  <2>1. children = {c}
    BY DEF IInv, ChildrenOK
  <2>2. Cardinality(children) = 1
    BY <2>1, FS_Singleton
  <2> QED BY <2>2, <1>1, SlicesAssumption DEF OneByOne
<1>3. PICK d : d = [time |-> clock + 1, mem |-> mem, end |-> operlog_id_start,
                    step |-> "dump", todo |-> [id \in {} |-> 0]]
  OBVIOUS
<1>4. /\ DOMAIN d = {"time", "mem", "end", "step", "todo"}
      /\ d.time = clock + 1 /\ d.mem = mem /\ d.end = operlog_id_start /\ d.step = "dump"
  BY <1>3
<1>11. children' = {d}
  BY <1>2, <1>3 DEF MakeSlice
<1>5. /\ clock \in Nat /\ mem \in MemoryOf(DOMAIN requests) /\ mem.applied \subseteq DOMAIN requests
      /\ DOMAIN accounts \subseteq 1..clock /\ DOMAIN orders_of \subseteq 1..clock
      /\ \A t \in DOMAIN accounts : accounts[t] \in Accounts
  BY DEF IInv, TypeOK, MemoryOf
<1>6. /\ clock' \in Nat /\ clock <= clock'
      /\ DOMAIN accounts' \subseteq 1..clock' /\ DOMAIN orders_of' \subseteq 1..clock'
      /\ \A t \in DOMAIN accounts' : accounts'[t] \in Accounts
  BY <1>1, <1>5
<1>7. HasSlice => /\ LastId \in DOMAIN history'
                  /\ accounts'[LastSlice.time] = accounts[LastSlice.time]
                  /\ LastSlice.time \in DOMAIN accounts' /\ LastSlice.time \in DOMAIN orders_of'
  BY <1>1 DEF IInv, SlicesOK
<1>8. SameOps /\ (ChildrenOK' => IInv')
  BY <1>1, <1>6, <1>7, SliceKeeps
<1>9. IsCurrent(d)'
  <2> DEFINE N == operlog_id_start
  <2>1. /\ StartId \in Nat /\ N \in Nat /\ StartId <= N
        /\ Shows(requests, ops, mem.applied, Sliced, StartId, N)
    BY <1>1, SliceFacts, RequestsFacts DEF IInv, Held
  <2>2. IsCurrent(d)
    <3>1. \A id \in DOMAIN history : history[id].time < clock + 1
      BY <1>5 DEF IInv, SlicesOK, Row
    <3>2. N \in StartId..N /\ \A k \in (N + 1)..N : FALSE
      BY <2>1
    <3> QED BY <1>4, <1>5, <2>1, <3>1, <3>2 DEF IsCurrent
  <2> QED BY <1>1, <1>8, <2>2, CurrentKept
<1>10. ChildOK(d)'
  BY <1>1, <1>4, <1>5, <1>9 DEF ChildOK
<1> QED BY <1>8, <1>10, <1>11, OnlyChild

\* The tables of a new slice.
LEMMA DumpTablesStep ==
  ASSUME OneByOne, IInv, pc # "down", NEW c \in children, DumpTables(c)
  PROVE  IInv' /\ SameOps
<1>1. /\ c.step = "dump" /\ UNCHANGED <<requests, mem, operlog, pc>> /\ clock' = clock
      /\ accounts' = With(accounts, c.time, Written(c))
      /\ orders_of' = With(orders_of, c.time, c.mem.orders) /\ history' = history
      /\ Continue(c, "history") /\ requests' = requests
  BY DEF DumpTables, InSlice, OneByOne
<1>2. PICK d : children' = {d} /\ IsMoved(d, c, "history", c.todo)
  BY <1>1, ChildMoves DEF IInv
<1>3. ChildOK(c) /\ IsCurrent(c) /\ c.time \in 1..clock /\ clock \in Nat
  BY <1>1 DEF IInv, ChildrenOK, ChildOK, TypeOK
<1>4. /\ \A t \in DOMAIN accounts : accounts[t] \in Accounts
      /\ DOMAIN accounts \subseteq 1..clock /\ DOMAIN orders_of \subseteq 1..clock
  BY DEF IInv, TypeOK
<1>5. Written(c) \in Accounts
  BY <1>3 DEF IsCurrent, MemoryOf, Accounts, Written
<1> DEFINE v == Written(c)  w == c.mem.orders  t == c.time
<1> HIDE DEF v, w, t
<1>6. /\ DOMAIN accounts' = DOMAIN accounts \cup {t} /\ accounts'[t] = v
      /\ \A y \in DOMAIN accounts : y # t => accounts'[y] = accounts[y]
      /\ DOMAIN orders_of' = DOMAIN orders_of \cup {t}
  <2>1. accounts' = With(accounts, t, v) /\ orders_of' = With(orders_of, t, w)
    BY <1>1 DEF v, w, t
  <2>2. /\ DOMAIN With(accounts, t, v) = DOMAIN accounts \cup {t} /\ With(accounts, t, v)[t] = v
        /\ \A y \in DOMAIN accounts : y # t => With(accounts, t, v)[y] = accounts[y]
    BY DEF With
  <2>3. DOMAIN With(orders_of, t, w) = DOMAIN orders_of \cup {t}
    BY WithIs
  <2> QED BY <2>1, <2>2, <2>3
<1>7. HasSlice => /\ LastId \in DOMAIN history'
                  /\ accounts'[LastSlice.time] = accounts[LastSlice.time]
                  /\ LastSlice.time \in DOMAIN accounts' /\ LastSlice.time \in DOMAIN orders_of'
  <2> SUFFICES ASSUME HasSlice
               PROVE  /\ LastId \in DOMAIN history'
                      /\ accounts'[LastSlice.time] = accounts[LastSlice.time]
                      /\ LastSlice.time \in DOMAIN accounts' /\ LastSlice.time \in DOMAIN orders_of'
    OBVIOUS
  <2>1. /\ LastId \in DOMAIN history /\ LastSlice.time \in Nat
        /\ LastSlice.time \in DOMAIN accounts /\ LastSlice.time \in DOMAIN orders_of
    BY SliceFacts DEF IInv, SlicesOK
  <2>2. LastSlice.time < t
    BY <1>3, <2>1 DEF IsCurrent, LastSlice, t
  <2>3. LastSlice.time # t
    BY <2>1, <2>2
  <2> QED BY <1>1, <1>6, <2>1, <2>3
<1>8. /\ DOMAIN accounts' \subseteq 1..clock' /\ DOMAIN orders_of' \subseteq 1..clock'
      /\ \A y \in DOMAIN accounts' : accounts'[y] \in Accounts
  <2>1. t \in 1..clock' /\ v \in Accounts
    BY <1>1, <1>3, <1>5 DEF t, v
  <2> QED BY <1>1, <1>4, <1>6, <2>1
<1>9. clock' \in Nat /\ clock <= clock'
  BY <1>1, <1>3
<1>10. SameOps /\ (ChildrenOK' => IInv')
  BY <1>1, <1>7, <1>8, <1>9, SliceKeeps
<1>11. IsCurrent(c)'
  BY <1>1, <1>3, <1>10, CurrentKept
<1>12. IsCurrent(d)'
  BY <1>2, <1>11 DEF IsCurrent, IsMoved
<1>13. IsStored(d)'
  BY <1>2, <1>6 DEF IsStored, IsMoved, Written, v, t
<1>14. ChildOK(d)'
  BY <1>1, <1>2, <1>3, <1>12, <1>13 DEF ChildOK, IsMoved
<1> QED BY <1>2, <1>10, <1>14, OnlyChild

\* Steps that write nothing.
LEMMA QuietSliceStep ==
  ASSUME IInv, pc # "down", NEW c \in children, InSlice,
         UNCHANGED <<accounts, orders_of, history>>, ChildrenOK'
  PROVE  IInv' /\ SameOps
<1>1. /\ UNCHANGED <<requests, mem, operlog, pc>> /\ clock' = clock /\ accounts' = accounts
      /\ orders_of' = orders_of /\ history' = history
  BY DEF InSlice
<1>2. /\ clock' \in Nat /\ clock <= clock'
      /\ DOMAIN accounts' \subseteq 1..clock' /\ DOMAIN orders_of' \subseteq 1..clock'
      /\ \A y \in DOMAIN accounts' : accounts'[y] \in Accounts
  BY <1>1 DEF IInv, TypeOK
<1>3. HasSlice => /\ LastId \in DOMAIN history'
                  /\ accounts'[LastSlice.time] = accounts[LastSlice.time]
                  /\ LastSlice.time \in DOMAIN accounts' /\ LastSlice.time \in DOMAIN orders_of'
  BY <1>1 DEF IInv, SlicesOK
<1> QED BY <1>1, <1>2, <1>3, SliceKeeps

LEMMA DumpFailsStep ==
  ASSUME IInv, pc # "down", NEW c \in children, DumpFails(c) \/ SliceDies(c)
  PROVE  IInv' /\ SameOps
<1>1. InSlice /\ UNCHANGED <<accounts, orders_of, history>> /\ clock' = clock
  BY DEF DumpFails, SliceDies, InSlice
<1>2. ChildrenOK'
  <2>1. CASE SliceDies(c)
    <3>1. children' = {}
      BY <2>1, ChildMoves DEF IInv, SliceDies
    <3> QED BY <3>1, NoChild
  <2>2. CASE DumpFails(c)
    <3>1. PICK d : children' = {d} /\ IsMoved(d, c, "clear", c.todo)
      BY <2>2, ChildMoves DEF IInv, DumpFails
    <3>2. c.time \in 1..clock
      BY DEF IInv, ChildrenOK, ChildOK
    <3>3. ChildOK(d)'
      BY <1>1, <3>1, <3>2 DEF ChildOK, IsMoved
    <3> QED BY <3>1, <3>3, OnlyChild
  <2> QED BY <2>1, <2>2
<1> QED BY <1>1, <1>2, QuietSliceStep

\* Only slices that are older than a recent one, and so than the last, are deleted.
LEMMA ClearSliceStep ==
  ASSUME IInv, pc # "down", NEW c \in children, ClearSlice(c)
  PROVE  IInv' /\ SameOps
<1> DEFINE old == {id \in DOMAIN history : IsOld(c, history[id])}
           rows == [id \in old |-> history[id]]
<1>1. InSlice /\ UNCHANGED <<accounts, orders_of, history>> /\ clock' = clock
      /\ history' = history /\ accounts' = accounts
  BY DEF ClearSlice, InSlice
<1>2. c.time \in 1..clock /\ clock \in Nat
  BY DEF IInv, ChildrenOK, ChildOK, TypeOK
<1>3. CASE HasRecent(c) /\ old # {}
  <2>1. Drop(c, rows)
    BY <1>3 DEF ClearSlice
  <2>2. PICK d : children' = {d} /\ IsMoved(d, c, "drop_orders", rows)
    BY <2>1, ChildMoves DEF IInv
  <2>3. PICK r \in DOMAIN history : IsRecent(c, history[r])
    BY <1>3 DEF HasRecent
  <2>4. HasSlice
    BY <2>3 DEF HasSlice
  <2>5. /\ LastId \in DOMAIN history /\ LastSlice.time \in Nat /\ LastSlice = history[LastId]
        /\ \A id \in DOMAIN history : history[id].time \in Nat /\ history[id].time <= LastSlice.time
    BY <2>4, SliceFacts DEF IInv, SlicesOK, Row, LastSlice
  <2>6. c.time \in Nat /\ KeepTime \in Nat
    BY <1>2, SlicesAssumption
  <2>7. ASSUME NEW id \in old PROVE id # LastId /\ history[id].time # LastSlice.time
    <3>1. ~(history[id].time + KeepTime >= c.time)
      BY DEF IsOld, IsRecent
    <3>2. history[r].time + KeepTime >= c.time /\ history[r].time <= LastSlice.time
      BY <2>3, <2>5 DEF IsRecent
    <3>3. history[id].time \in Nat /\ history[r].time \in Nat
      BY <2>3, <2>5
    <3>4. history[id].time < LastSlice.time
      BY <2>5, <2>6, <3>1, <3>2, <3>3
    <3> QED BY <2>5, <3>3, <3>4
  <2>8. DOMAIN rows = old /\ old \subseteq Nat /\ \A id \in old : rows[id] = history[id]
    BY SliceFacts DEF IInv
  <2>9. HasSlice' /\ LastId' = LastId /\ LastSlice' = LastSlice
    BY <1>1, <2>4, SliceKept
  <2> HIDE DEF rows, old
  <2>10. IsDeleting(d)'
    BY <1>3, <2>2, <2>7, <2>8, <2>9 DEF IsDeleting, IsMoved
  <2>11. ChildOK(d)'
    BY <1>1, <1>2, <2>2, <2>10 DEF ChildOK, IsMoved
  <2>12. ChildrenOK'
    BY <2>2, <2>11, OnlyChild
  <2> QED BY <1>1, <2>12, QuietSliceStep
<1>4. CASE ~(HasRecent(c) /\ old # {})
  <2>1. Exit(c)
    BY <1>4 DEF ClearSlice
  <2>2. ChildrenOK'
    BY <2>1, ChildMoves, NoChild DEF IInv
  <2> QED BY <1>1, <2>2, QuietSliceStep
<1> QED BY <1>3, <1>4

\* The slice that is being deleted is not the last one.
LEMMA OldestIs ==
  ASSUME IInv, NEW c \in children, c.step \in {"drop_orders", "drop_accounts", "delete_row"}
  PROVE  /\ IsDeleting(c) /\ Oldest(c) \in DOMAIN c.todo /\ DOMAIN c.todo \subseteq Nat
         /\ Oldest(c) # LastId /\ c.todo[Oldest(c)].time # LastSlice.time
         /\ c.time \in 1..clock /\ clock \in Nat /\ HasSlice
<1>1. ChildOK(c) /\ clock \in Nat
  BY DEF IInv, ChildrenOK, TypeOK
<1>2. IsDeleting(c) /\ c.time \in 1..clock
  BY <1>1 DEF ChildOK
<1>3. DOMAIN c.todo \in SUBSET Nat /\ DOMAIN c.todo # {}
  BY <1>2 DEF IsDeleting
<1>4. Oldest(c) \in DOMAIN c.todo
  BY <1>3, LeastIs DEF Oldest
<1> QED BY <1>1, <1>2, <1>3, <1>4 DEF IsDeleting

LEMMA DropOrdersStep ==
  ASSUME IInv, pc # "down", NEW c \in children, DropOrders(c)
  PROVE  IInv' /\ SameOps
<1> DEFINE t == c.todo[Oldest(c)].time
<1>1. /\ c.step = "drop_orders" /\ InSlice /\ clock' = clock /\ accounts' = accounts
      /\ history' = history /\ UNCHANGED <<requests, mem, operlog, pc>>
  BY DEF DropOrders, InSlice
<1>2. /\ IsDeleting(c) /\ t # LastSlice.time /\ c.time \in 1..clock /\ clock \in Nat
  BY <1>1, OldestIs
<1>3. HasSlice' = HasSlice /\ LastId' = LastId /\ LastSlice' = LastSlice
  BY <1>1, SliceKept
<1>4. CASE t \in DOMAIN orders_of
  <2>1. orders_of' = Without(orders_of, t) /\ Continue(c, "drop_accounts")
    BY <1>4 DEF DropOrders
  <2>2. PICK d : children' = {d} /\ IsMoved(d, c, "drop_accounts", c.todo)
    BY <2>1, ChildMoves DEF IInv
  <2> HIDE DEF t
  <2>3. DOMAIN orders_of' = DOMAIN orders_of \ {t}
    BY <2>1 DEF Without
  <2>4. IsDeleting(d)'
    BY <1>2, <1>3, <2>2 DEF IsDeleting, IsMoved
  <2>5. ChildOK(d)'
    BY <1>1, <1>2, <2>2, <2>4 DEF ChildOK, IsMoved
  <2>6. ChildrenOK'
    BY <2>2, <2>5, OnlyChild
  <2>7. HasSlice => /\ LastId \in DOMAIN history'
                    /\ accounts'[LastSlice.time] = accounts[LastSlice.time]
                    /\ LastSlice.time \in DOMAIN accounts' /\ LastSlice.time \in DOMAIN orders_of'
    BY <1>1, <1>2, <2>3 DEF IInv, SlicesOK
  <2>8. /\ clock' \in Nat /\ clock <= clock'
        /\ DOMAIN accounts' \subseteq 1..clock' /\ DOMAIN orders_of' \subseteq 1..clock'
        /\ \A y \in DOMAIN accounts' : accounts'[y] \in Accounts
    BY <1>1, <1>2, <2>3 DEF IInv, TypeOK
  <2> QED BY <1>1, <2>6, <2>7, <2>8, SliceKeeps
<1>5. CASE t \notin DOMAIN orders_of
  <2>1. Exit(c) /\ orders_of' = orders_of
    BY <1>5 DEF DropOrders
  <2>2. ChildrenOK'
    BY <2>1, ChildMoves, NoChild DEF IInv
  <2> QED BY <1>1, <2>1, <2>2, QuietSliceStep
<1> QED BY <1>4, <1>5

LEMMA DropAccountsStep ==
  ASSUME IInv, pc # "down", NEW c \in children, DropAccounts(c)
  PROVE  IInv' /\ SameOps
<1> DEFINE t == c.todo[Oldest(c)].time
<1>1. /\ c.step = "drop_accounts" /\ InSlice /\ clock' = clock /\ orders_of' = orders_of
      /\ history' = history /\ UNCHANGED <<requests, mem, operlog, pc>>
  BY DEF DropAccounts, InSlice
<1>2. /\ IsDeleting(c) /\ t # LastSlice.time /\ c.time \in 1..clock /\ clock \in Nat
  BY <1>1, OldestIs
<1>4. CASE t \in DOMAIN accounts
  <2>1. accounts' = Without(accounts, t) /\ Continue(c, "delete_row")
    BY <1>4 DEF DropAccounts
  <2>2. PICK d : children' = {d} /\ IsMoved(d, c, "delete_row", c.todo)
    BY <2>1, ChildMoves DEF IInv
  <2> HIDE DEF t
  <2>3. DOMAIN accounts' = DOMAIN accounts \ {t} /\ \A y \in DOMAIN accounts' : accounts'[y] = accounts[y]
    BY <2>1 DEF Without
  <2>4. HasSlice => /\ LastId \in DOMAIN history'
                    /\ accounts'[LastSlice.time] = accounts[LastSlice.time]
                    /\ LastSlice.time \in DOMAIN accounts' /\ LastSlice.time \in DOMAIN orders_of'
    BY <1>1, <1>2, <2>3 DEF IInv, SlicesOK
  <2>5. HasSlice' = HasSlice /\ LastId' = LastId /\ LastSlice' = LastSlice
    BY <1>1, <2>4, SliceKept
  <2>6. IsDeleting(d)'
    BY <1>2, <2>2, <2>5 DEF IsDeleting, IsMoved
  <2>7. ChildOK(d)'
    BY <1>1, <1>2, <2>2, <2>6 DEF ChildOK, IsMoved
  <2>8. ChildrenOK'
    BY <2>2, <2>7, OnlyChild
  <2>9. /\ clock' \in Nat /\ clock <= clock'
        /\ DOMAIN accounts' \subseteq 1..clock' /\ DOMAIN orders_of' \subseteq 1..clock'
        /\ \A y \in DOMAIN accounts' : accounts'[y] \in Accounts
    BY <1>1, <1>2, <2>3 DEF IInv, TypeOK
  <2> QED BY <1>1, <2>4, <2>8, <2>9, SliceKeeps
<1>5. CASE t \notin DOMAIN accounts
  <2>1. Exit(c) /\ accounts' = accounts
    BY <1>5 DEF DropAccounts
  <2>2. ChildrenOK'
    BY <2>1, ChildMoves, NoChild DEF IInv
  <2> QED BY <1>1, <2>1, <2>2, QuietSliceStep
<1> QED BY <1>4, <1>5

LEMMA DeleteRowStep ==
  ASSUME IInv, pc # "down", NEW c \in children, DeleteRow(c)
  PROVE  IInv' /\ SameOps
<1> DEFINE x == Oldest(c)  rows == Without(c.todo, x)
<1>1. /\ c.step = "delete_row" /\ InSlice /\ clock' = clock /\ orders_of' = orders_of
      /\ accounts' = accounts /\ history' = Without(history, x)
      /\ UNCHANGED <<requests, mem, operlog, pc>>
      /\ IF DOMAIN rows = {} THEN Exit(c) ELSE Drop(c, rows)
  BY DEF DeleteRow, InSlice
<1>2. /\ IsDeleting(c) /\ c.time \in 1..clock /\ clock \in Nat /\ x # LastId /\ HasSlice
  BY <1>1, OldestIs
<1> HIDE DEF x
<1>3. /\ DOMAIN history' = DOMAIN history \ {x}
      /\ \A id \in DOMAIN history' : history'[id] = history[id]
  <2>1. /\ DOMAIN Without(history, x) = DOMAIN history \ {x}
        /\ \A id \in DOMAIN history : id # x => Without(history, x)[id] = history[id]
    BY DEF Without
  <2>2. history' = Without(history, x)
    BY <1>1
  <2> QED BY <2>1, <2>2
<1>4. HasSlice => /\ LastId \in DOMAIN history'
                  /\ accounts'[LastSlice.time] = accounts[LastSlice.time]
                  /\ LastSlice.time \in DOMAIN accounts' /\ LastSlice.time \in DOMAIN orders_of'
  BY <1>1, <1>2, <1>3 DEF IInv, SlicesOK
<1>5. /\ HasSlice' = HasSlice /\ LastId' = LastId /\ LastSlice' = LastSlice
  BY <1>2, <1>3, <1>4, LastKept DEF IInv
<1>6. ChildrenOK'
  <2>1. CASE DOMAIN rows = {}
    BY <1>1, <2>1, ChildMoves, NoChild DEF IInv
  <2>2. CASE DOMAIN rows # {}
    <3>1. Drop(c, rows)
      BY <1>1, <2>2
    <3>2. DOMAIN rows = DOMAIN c.todo \ {x} /\ \A y \in DOMAIN rows : rows[y] = c.todo[y]
      BY DEF Without
    <3> HIDE DEF rows
    <3>3. PICK d : children' = {d} /\ IsMoved(d, c, "drop_orders", rows)
      BY <3>1, ChildMoves DEF IInv
    <3>4. IsDeleting(d)'
      BY <1>2, <1>5, <2>2, <3>2, <3>3 DEF IsDeleting, IsMoved
    <3>5. ChildOK(d)'
      BY <1>1, <1>2, <3>3, <3>4 DEF ChildOK, IsMoved
    <3> QED BY <3>3, <3>5, OnlyChild
  <2> QED BY <2>1, <2>2
<1>7. /\ clock' \in Nat /\ clock <= clock'
      /\ DOMAIN accounts' \subseteq 1..clock' /\ DOMAIN orders_of' \subseteq 1..clock'
      /\ \A y \in DOMAIN accounts' : accounts'[y] \in Accounts
  BY <1>1, <1>2 DEF IInv, TypeOK
<1>8. DOMAIN history' \subseteq DOMAIN history
  BY <1>3
<1> QED BY <1>1, <1>3, <1>4, <1>6, <1>7, <1>8, SliceKeeps
------------------------------------------------------------------------------
\* The row of a new slice: it becomes the last one.
NewSlice(c) ==
  /\ HasSlice' /\ LastId' = LastId + 1 /\ LastSlice' = [time |-> c.time, end |-> c.end]
  /\ StartId' = c.end /\ Sliced' = c.mem.applied
  /\ DOMAIN history' = DOMAIN history \cup {LastId + 1}
  /\ \A id \in DOMAIN history : id <= LastId /\ history'[id] = history[id]

LEMMA NewSliceIs ==
  ASSUME IInv, NEW c \in children, DumpHistory(c)
  PROVE  NewSlice(c) /\ IsCurrent(c) /\ IsStored(c) /\ c.time \in 1..clock
<1> DEFINE m == LastId + 1  row == [time |-> c.time, end |-> c.end]
<1>1. /\ c.step = "history" /\ accounts' = accounts /\ history' = With(history, m, row)
  BY DEF DumpHistory, update_slice_history
<1>2. IsCurrent(c) /\ IsStored(c) /\ c.time \in 1..clock
  BY <1>1 DEF IInv, ChildrenOK, ChildOK
<1>3. LastId \in Nat /\ DOMAIN history \subseteq Nat /\ \A id \in DOMAIN history : id <= LastId
  <2>1. CASE HasSlice
    BY <2>1, SliceFacts DEF IInv, SlicesOK
  <2>2. CASE ~HasSlice
    BY <2>2, SliceFacts DEF IInv, HasSlice
  <2> QED BY <2>1, <2>2
<1>4. m \notin DOMAIN history /\ m \in Nat
  BY <1>3
<1> HIDE DEF row
<1>5. /\ DOMAIN history' = DOMAIN history \cup {m} /\ history'[m] = row
      /\ \A id \in DOMAIN history : history'[id] = history[id]
  BY <1>1, <1>4 DEF With
<1>6. LastId' = m
  <2> DEFINE T == DOMAIN history' \cup {0}
  <2>1. T \in SUBSET Nat /\ m \in T /\ \A x \in T : x <= m
    BY <1>3, <1>5
  <2> HIDE DEF T, m
  <2>2. Max(T) = m
    BY <2>1, GreatestIs
  <2> QED BY <2>2 DEF LastId, T
<1>7. HasSlice' /\ LastSlice' = row
  BY <1>5, <1>6 DEF HasSlice, LastSlice
<1>8. StartId' = c.end
  BY <1>7 DEF StartId, row
<1>9. Sliced' = c.mem.applied
  <2>1. accounts'[c.time].applied = c.mem.applied
    BY <1>1, <1>2 DEF IsStored, Written
  <2> QED BY <1>7, <2>1 DEF Sliced, row
<1> QED BY <1>2, <1>3, <1>5, <1>6, <1>7, <1>8, <1>9 DEF NewSlice, row

LEMMA DumpHistoryStep ==
  ASSUME IInv, pc # "down", NEW c \in children, DumpHistory(c)
  PROVE  IInv'
<1> DEFINE N == operlog_id_start  S == StartId  e == c.end  u == c.mem.applied
<1>1. /\ requests' = requests /\ mem' = mem /\ pc' = pc /\ operlog_id_start' = N
      /\ list' = list /\ job' = job /\ busy' = busy /\ log' = log /\ clock' = clock
      /\ accounts' = accounts /\ orders_of' = orders_of /\ Continue(c, "clear")
  BY DEF DumpHistory, InSlice, operlog
<1>2. NewSlice(c) /\ IsCurrent(c) /\ IsStored(c) /\ c.time \in 1..clock
  BY NewSliceIs
<1>3. /\ S \in Nat /\ N \in Nat /\ e \in Nat /\ S <= e /\ e <= N /\ N <= Len(requests)
      /\ Len(requests) \in Nat /\ LastId \in Nat
      /\ e \in 0..Len(requests)
  BY <1>2, SliceFacts, RequestsFacts DEF IInv, IsCurrent
<1>4. Pending' = Pending /\ Base' = Base /\ IsWritten' = IsWritten /\ LogEnd' = LogEnd
  BY <1>1 DEF Pending, Base, IsWritten, LogEnd
<1>5. StartId' = e /\ Sliced' = u
  BY <1>2 DEF NewSlice
<1>6. \A id \in (e + 1)..N : id \in (S + 1)..N /\ ops'[id] = ops[id]
  <2> SUFFICES ASSUME NEW id \in (e + 1)..N PROVE id \in (S + 1)..N /\ ops'[id] = ops[id]
    OBVIOUS
  <2>1. id \in (S + 1)..N
    BY <1>3
  <2>2. ops[id] = IF id \in DOMAIN log THEN log[id] ELSE Pending[id - Base].request
    BY <2>1 DEF ops
  <2>3. ops'[id] = IF id \in DOMAIN log THEN log[id] ELSE Pending[id - Base].request
    BY <1>1, <1>4, <1>5 DEF ops
  <2> QED BY <2>1, <2>2, <2>3
<1>7. TypeOK'
  <2>1. Accounts' = Accounts
    BY <1>1 DEF Accounts
  <2> QED BY <1>1, <2>1 DEF IInv, TypeOK
<1>8. Numbered'
  <2>1. \A id \in (e + 1)..LogEnd : id \in (S + 1)..LogEnd
    BY <1>3, PendingFacts DEF IInv
  <2>2. \A id \in (e + 1)..LogEnd : id \in DOMAIN log
    BY <2>1 DEF IInv, Numbered
  <2> HIDE DEF e, S
  <2> QED BY <1>1, <1>4, <1>5, <2>2 DEF IInv, Numbered
<1>9. Held'
  <2>1. /\ Follows(requests, ops, Sliced, S, N)
        /\ Shows(requests, ops, mem.applied, Sliced, S, N)
        /\ Remembers(requests, ops, mem.seen, S, N)
    BY DEF IInv, Held
  <2>2. /\ Shows(requests, ops, u, Sliced, S, e)
        /\ \A k \in (e + 1)..N, t \in u : t < ops[k]
    BY <1>2 DEF IsCurrent
  <2>3. Extends(requests, requests) /\ N <= N
    BY <1>3 DEF Extends
  <2>4. \A k \in (e + 1)..N : ops'[k] = ops[k] /\ \A t \in u : t < ops[k]
    BY <1>6, <2>2
  <2> HIDE DEF N, S, e, u
  <2>5. Follows(requests, ops', u, e, N)
    BY <1>3, <2>1, <2>3, <2>4, FollowsPart
  <2>6. Shows(requests, ops', mem.applied, u, e, N)
    BY <1>3, <2>1, <2>2, <2>4, ShowsRest
  <2>7. Remembers(requests, ops', mem.seen, e, N)
    BY <1>6, <2>1 DEF Remembers
  <2> QED BY <1>1, <1>3, <1>5, <2>5, <2>6, <2>7 DEF Held
<1>10. SlicesOK'
  <2> DEFINE m == LastId + 1
  <2>1. /\ HasSlice' /\ LastId' = m /\ LastSlice' = [time |-> c.time, end |-> e]
        /\ DOMAIN history' = DOMAIN history \cup {m}
        /\ \A id \in DOMAIN history : id <= LastId /\ history'[id] = history[id]
    BY <1>2 DEF NewSlice
  <2>2. LastSlice'.time = c.time /\ history'[m] = LastSlice' /\ m \in DOMAIN history'
    BY <2>1 DEF LastSlice
  <2>3. LastSlice' \in Row'
    BY <2>1, <1>1, <1>2, <1>3 DEF Row
  <2>4. \A id \in DOMAIN history : id \in Nat \ {0} /\ history[id] \in Row /\ history[id].time < c.time
                                   /\ history[id].time \in Nat
    BY <1>2 DEF IInv, SlicesOK, IsCurrent, Row
  <2>5. Row' = Row
    BY <1>1 DEF Row
  <2>6. clock \in Nat /\ c.time \in Nat
    BY <1>2 DEF IInv, TypeOK
  <2>7. \A id \in DOMAIN history' : id \in Nat \ {0} /\ history'[id] \in Row'
    BY <1>3, <2>1, <2>2, <2>3, <2>4, <2>5
  <2>8. \A id \in DOMAIN history' : id <= m /\ history'[id].time <= LastSlice'.time
    BY <1>3, <2>1, <2>2, <2>4, <2>6
  <2>9. c.time \in DOMAIN accounts' /\ c.time \in DOMAIN orders_of'
    BY <1>1, <1>2 DEF IsStored
  <2> HIDE DEF m
  <2> QED BY <2>1, <2>2, <2>7, <2>8, <2>9 DEF SlicesOK
<1>11. ChildrenOK'
  <2>1. PICK d : children' = {d} /\ IsMoved(d, c, "clear", c.todo)
    BY <1>1, ChildMoves DEF IInv
  <2>2. ChildOK(d)'
    BY <1>1, <1>2, <2>1 DEF ChildOK, IsMoved
  <2> QED BY <2>1, <2>2, OnlyChild
<1>12. Gone' /\ HeldByLog'
  BY <1>1 DEF Gone, HeldByLog
<1> QED BY <1>7, <1>8, <1>9, <1>10, <1>11, <1>12 DEF IInv

(* The invariant.                                                           *)

LEMMA InitInvariant ==
  ASSUME Init
  PROVE  IInv
<1>1. /\ requests = <<>> /\ mem = Empty /\ operlog_id_start = 0
      /\ list = <<>> /\ job = <<>> /\ busy = <<>> /\ log = [i \in {} |-> 0] /\ pc = "up"
      /\ clock = 0 /\ children = {} /\ accounts = [t \in {} |-> 0]
      /\ orders_of = [t \in {} |-> {}] /\ history = [id \in {} |-> 0]
  BY DEF Init
<1>2. Len(requests) = 0 /\ DOMAIN requests = {} /\ requests \in Seq(Requests)
  BY <1>1
<1>3. DOMAIN log = {} /\ DOMAIN accounts = {} /\ DOMAIN orders_of = {} /\ DOMAIN history = {}
  BY <1>1
<1>4. TypeOK
  <2>1. <<>> \in Seq(Operation) /\ <<>> \in Seq(Seq(Operation)) /\ MaxRequests \in Nat
    BY EmptySeq, OperlogAssumption
  <2>2. Empty \in MemoryOf(DOMAIN requests)
    BY DEF Empty, MemoryOf
  <2> QED BY <1>1, <1>2, <1>3, <2>1, <2>2 DEF TypeOK
<1>5. Pending = <<>>
  BY <1>1, NothingPending
<1>6. Len(Pending) = 0 /\ DOMAIN Pending = {}
  BY <1>5
<1>7. ~HasSlice /\ StartId = 0 /\ Sliced = {}
  BY <1>3 DEF HasSlice, StartId, Sliced
<1>8. Base = 0 /\ ~IsWritten /\ LogEnd = 0
  BY <1>1, <1>3, <1>6 DEF Base, IsWritten, LogEnd
<1>9. \A k \in 1..0 : FALSE
  OBVIOUS
<1>10. Numbered
  BY <1>1, <1>3, <1>6, <1>7, <1>8, <1>9 DEF Numbered
<1>11. Held
  <2>1. Follows(requests, ops, {}, 0, 0)
    BY <1>9 DEF Follows
  <2>2. Between(ops, 0, 0) = {}
    BY <1>9 DEF Between
  <2>3. mem.applied = {}
    BY <1>1 DEF Empty
  <2>4. UpdatesOf(requests, {}) = {}
    BY DEF UpdatesOf
  <2>5. Shows(requests, ops, mem.applied, {}, 0, 0)
    BY <2>2, <2>3, <2>4 DEF Shows
  <2>6. Remembers(requests, ops, mem.seen, 0, 0)
    BY <1>9 DEF Remembers
  <2> QED BY <1>1, <1>7, <2>1, <2>5, <2>6 DEF Held
<1>12. SlicesOK /\ ChildrenOK /\ Gone /\ HeldByLog
  BY <1>1, <1>3, <1>7 DEF SlicesOK, ChildrenOK, Gone, HeldByLog
<1> QED BY <1>4, <1>10, <1>11, <1>12 DEF IInv

LEMMA NextInvariant ==
  ASSUME OneByOne, IInv, Next
  PROVE  IInv'
<1>1. CASE Request
  <2>1. UNCHANGED slices
    BY <1>1 DEF Request
  <2>2. ASSUME NEW b \in Business, BalanceUpdate(b) PROVE IInv'
    <3>1. /\ Update(b) \in Requests /\ Update(b).kind = "update" /\ Update(b).arg \notin mem.seen
      BY <2>2 DEF BalanceUpdate, Requests, Update
    <3>2. Executed(Update(b)) /\ append_operlog(Len(requests) + 1)
      BY <2>2 DEF BalanceUpdate
    <3> QED BY <2>1, <3>1, <3>2, RequestStep
  <2>3. CASE OrderOpen
    <3>1. Open \in Requests /\ Open.kind # "update"
      BY DEF Requests, Open
    <3>2. Executed(Open) /\ append_operlog(Len(requests) + 1)
      BY <2>3 DEF OrderOpen
    <3> QED BY <2>1, <3>1, <3>2, RequestStep
  <2>4. ASSUME NEW o \in mem.orders, OrderCancel(o) PROVE IInv'
    <3>1. o \in Nat
      BY RequestsFacts DEF IInv, TypeOK, MemoryOf
    <3>2. Cancel(o) \in Requests /\ Cancel(o).kind # "update"
      BY <3>1 DEF Requests, Cancel
    <3>3. Executed(Cancel(o)) /\ append_operlog(Len(requests) + 1)
      BY <2>4 DEF OrderCancel
    <3> QED BY <2>1, <3>2, <3>3, RequestStep
  <2> QED BY <1>1, <2>2, <2>3, <2>4 DEF Request
<1>2. CASE Log
  <2>1. UNCHANGED slices
    BY <1>2 DEF Log
  <2>2. CASE FlushTimer
    <3>1. /\ pc # "down" /\ pc' \in {"up", "stopping", "suicide"} /\ flush_log
          /\ UNCHANGED <<requests, mem, operlog_id_start, busy, log, slices>>
      BY <2>1, <2>2 DEF FlushTimer
    <3> QED BY <3>1, QueueStep
  <2>3. CASE TakeJob
    BY <2>1, <2>3, TakeJobStep
  <2>4. CASE ExecuteJob
    <3>1. /\ busy # <<>> /\ log' = Inserted(busy) /\ busy' = <<>>
          /\ UNCHANGED <<requests, mem, operlog_id_start, list, job, pc, slices>>
      BY <2>1, <2>4 DEF ExecuteJob
    <3>2. pc # "down"
      BY <3>1 DEF IInv, Gone
    <3> QED BY <3>1, <3>2, ExecuteStep
  <2> QED BY <1>2, <2>2, <2>3, <2>4 DEF Log
<1>3. CASE LoseAnswer /\ UNCHANGED <<slices, restarts>>
  <2>1. /\ busy # <<>> /\ log' = Inserted(busy) /\ busy' = busy
        /\ UNCHANGED <<requests, mem, operlog_id_start, list, job, pc, slices>>
    BY <1>3 DEF LoseAnswer
  <2>2. pc # "down"
    BY <2>1 DEF IInv, Gone
  <2> QED BY <2>1, <2>2, ExecuteStep
<1>4. CASE MakeSlice
  BY <1>4, MakeSliceStep
<1>5. CASE SliceStep
  <2>1. PICK c \in children : \/ DumpTables(c) \/ DumpHistory(c) \/ DumpFails(c)
                              \/ ClearSlice(c) \/ DropOrders(c) \/ DropAccounts(c) \/ DeleteRow(c)
                              \/ SliceDies(c)
    BY <1>5 DEF SliceStep
  <2>2. pc # "down"
    BY DEF IInv, Gone
  <2> QED BY <2>1, <2>2, DumpTablesStep, DumpHistoryStep, DumpFailsStep, ClearSliceStep,
             DropOrdersStep, DropAccountsStep, DeleteRowStep
<1>6. ASSUME NEW b \in Business, ForgetUpdate(b) PROVE IInv'
  BY <1>6, ForgetStep
<1>7. CASE Stop \/ Suicide
  <2>1. /\ pc # "down" /\ pc' \in {"up", "stopping", "suicide"} /\ (flush_log \/ UNCHANGED <<list, job>>)
        /\ UNCHANGED <<requests, mem, operlog_id_start, busy, log, slices>>
    BY <1>7 DEF Stop, Suicide, operlog
  <2> QED BY <2>1, QueueStep
<1>8. CASE Stopped \/ Dead \/ Crash
  <2>1. ProcessEnds
    BY <1>8 DEF Stopped, Dead, Crash
  <2> QED BY <2>1, EndStep
<1>9. CASE Start
  BY <1>9, StartStep
<1> QED BY <1>1, <1>2, <1>3, <1>4, <1>5, <1>6, <1>7, <1>8, <1>9 DEF Next

LEMMA StutterInvariant ==
  ASSUME IInv, UNCHANGED vars
  PROVE  IInv'
<1>1. /\ requests' = requests /\ mem' = mem /\ operlog_id_start' = operlog_id_start
      /\ list' = list /\ job' = job /\ busy' = busy /\ log' = log /\ pc' = pc
      /\ clock' = clock /\ children' = children /\ accounts' = accounts
      /\ orders_of' = orders_of /\ history' = history
  BY DEF vars, operlog, slices
<1>2. /\ LastId' = LastId /\ HasSlice' = HasSlice /\ LastSlice' = LastSlice
      /\ StartId' = StartId /\ Sliced' = Sliced
  BY <1>1, SliceKept
<1>3. Pending' = Pending /\ Base' = Base /\ IsWritten' = IsWritten /\ LogEnd' = LogEnd
  BY <1>1 DEF Pending, Base, IsWritten, LogEnd
<1>4. ops' = ops
  BY <1>1, <1>2, <1>3 DEF ops
<1>5. TypeOK' /\ Gone'
  <2>1. Accounts' = Accounts
    BY <1>1 DEF Accounts
  <2> QED BY <1>1, <2>1 DEF IInv, TypeOK, Gone
<1>6. Numbered' /\ Held'
  BY <1>1, <1>2, <1>3, <1>4 DEF IInv, Numbered, Held
<1>7. HeldByLog'
  BY <1>1, <1>2 DEF IInv, HeldByLog, LogHas
<1>8. SlicesOK'
  BY <1>1, <1>2 DEF IInv, SlicesOK, Row
<1>9. ChildrenOK'
  BY <1>1, <1>2, <1>4 DEF IInv, ChildrenOK, ChildOK, IsCurrent, IsStored, IsDeleting, Written
<1> QED BY <1>5, <1>6, <1>7, <1>8, <1>9 DEF IInv

LEMMA AlwaysIInv == ASSUME OneByOne PROVE Spec => []IInv
<1>1. Init => IInv
  BY InitInvariant
<1>2. IInv /\ [Next]_vars => IInv'
  BY NextInvariant, StutterInvariant
<1> QED BY <1>1, <1>2, PTL DEF Spec

\* init_from_db is what a process that is started holds.
LEMMA LoadsDurable ==
  ASSUME IInv
  PROVE  LoadSucceeds
<1>1. PICK n \in 0..Len(requests) : LogHas(n)
  BY LogIsStored
<1>2. IsLoaded(init_from_db, n)
  BY <1>1, LoadIs DEF IInv
<1>3. /\ Len(ToReplay) \in Nat /\ DOMAIN ToReplay = 1..Len(ToReplay)
      /\ \A i \in 1..Len(ToReplay) : ToReplay[i] \in DOMAIN log
      /\ {id \in DOMAIN log : id > StartId} = (StartId + 1)..n
  BY <1>1, ToReplayIs DEF IInv
<1>4. Readable
  BY <1>3 DEF Readable, IInv, SlicesOK
<1>5. Updates(init_from_db.mem.applied) = Durable
  <2>1. Durable = UpdatesOf(requests, Between(log, StartId, n) \cup Sliced)
    BY <1>3 DEF Durable, Updates, UpdatesOf, Between, Sliced
  <2>2. Updates(init_from_db.mem.applied) = UpdatesOf(requests, init_from_db.mem.applied)
    BY DEF Updates, UpdatesOf
  <2> QED BY <1>2, <2>1, <2>2, UpdatesUnion DEF IsLoaded, Shows
<1> QED BY <1>2, <1>4, <1>5 DEF LoadSucceeds, IsLoaded

\* Nothing that a crash, a stop or a slice leaves in the database keeps the engine
\* from starting, and the start brings back the durable balance updates and no other.
THEOREM AlwaysLoads == ASSUME OneByOne PROVE Spec => []PersistInv
<1>1. IInv => PersistInv
  <2> SUFFICES ASSUME IInv PROVE PersistInv
    OBVIOUS
  <2>1. PersistTypeOK
    <3>1. /\ pc \in {"up", "stopping", "suicide", "down"}
          /\ mem.applied \subseteq DOMAIN requests /\ mem.seen \subseteq Business
          /\ DOMAIN log \subseteq 1..MaxRequests /\ \A id \in DOMAIN log : log[id] \in DOMAIN requests
          /\ DOMAIN accounts \cup DOMAIN orders_of \subseteq 1..clock
      <4>1. 1..Len(requests) \subseteq 1..MaxRequests
        BY RequestsFacts, OperlogAssumption DEF IInv, TypeOK
      <4> QED BY <4>1 DEF IInv, TypeOK, MemoryOf
    <3>2. \A i \in DOMAIN Pending : Pending[i].id = operlog_id_start - Len(Pending) + i
      BY DEF IInv, Numbered, Base
    <3> QED BY <3>1, <3>2 DEF PersistTypeOK
  <2>2. LoadSucceeds
    BY LoadsDurable
  <2> QED BY <2>1, <2>2 DEF PersistInv
<1> QED BY <1>1, AlwaysIInv, PTL
------------------------------------------------------------------------------
(* The refinement of DurableStore.                                          *)

Live == IF pc = "down" THEN Durable ELSE Updates(mem.applied)

UpdateNumbers == {i \in 1..Len(requests) : requests[i].kind = "update"}

LastUpdate == IF UpdateNumbers # {} THEN Max(UpdateNumbers) ELSE 0

LEMMA LastDefinition == SelectLastInSeq(requests, LAMBDA r : r.kind = "update") = LastUpdate
  BY DEF SelectLastInSeq, LastUpdate, UpdateNumbers

\* The greatest of some numbers is one of them.
LEMMA GreatestExists ==
  ASSUME NEW n \in Nat, NEW S \in SUBSET (0..n), S # {}
  PROVE  Max(S) \in S
<1> DEFINE T == {m \in 0..n : \A x \in S : x <= m}
<1>1. T \in SUBSET Nat /\ n \in T
  OBVIOUS
<1>2. PICK k \in T : \A j \in T : k <= j
  <2> HIDE DEF T
  <2> QED BY <1>1, SmallestNumber
<1>3. k \in 0..n /\ \A x \in S : x <= k
  OBVIOUS
<1>4. k \in S
  <2> SUFFICES ASSUME k \notin S PROVE FALSE
    OBVIOUS
  <2>1. PICK x \in S : TRUE
    OBVIOUS
  <2>2. k # 0 /\ k - 1 \in 0..n
    BY <2>1, <1>3
  <2>3. \A y \in S : y <= k - 1
    BY <1>3
  <2>4. k - 1 \in T
    BY <2>2, <2>3
  <2>5. k <= k - 1
    <3> HIDE DEF T
    <3> QED BY <1>2, <2>4
  <2> QED BY <2>5, <1>3
<1>5. S \in SUBSET Nat
  OBVIOUS
<1>6. Max(S) = k
  BY <1>3, <1>4, <1>5, GreatestIs
<1> QED BY <1>4, <1>6

LEMMA LastType ==
  ASSUME TypeOK
  PROVE  LastUpdate \in 0..Len(requests) /\ LastUpdate \in Nat
<1> DEFINE n == Len(requests)  S == UpdateNumbers
<1>1. n \in Nat /\ S \in SUBSET (0..n)
  BY RequestsFacts DEF UpdateNumbers
<1> HIDE DEF n, S
<1>2. CASE S # {}
  <2> DEFINE m == Max(S)
  <2>1. m \in S
    BY <1>1, <1>2, GreatestExists
  <2> HIDE DEF m
  <2>2. m \in 0..n /\ m \in Nat
    BY <1>1, <2>1
  <2>3. LastUpdate = m
    BY <1>2 DEF LastUpdate, S, m
  <2> QED BY <2>2, <2>3 DEF n
<1>3. CASE S = {}
  <2>1. LastUpdate = 0 /\ 0 \in 0..n
    BY <1>1, <1>3 DEF LastUpdate, S
  <2> QED BY <2>1 DEF n
<1> QED BY <1>2, <1>3

LEMMA LastSame ==
  ASSUME requests' = requests
  PROVE  LastUpdate' = LastUpdate
<1>1. UpdateNumbers' = UpdateNumbers
  BY DEF UpdateNumbers
<1> QED BY <1>1 DEF LastUpdate

LEMMA LastNext ==
  ASSUME TypeOK, NEW r, Len(requests') = Len(requests) + 1, requests'[Len(requests) + 1] = r,
         \A t \in DOMAIN requests : requests'[t] = requests[t]
  PROVE  LastUpdate' = IF r.kind = "update" THEN Len(requests) + 1 ELSE LastUpdate
<1> DEFINE n == Len(requests)
<1>1. n \in Nat /\ DOMAIN requests = 1..n
  BY RequestsFacts
<1>2. \A i : i \in 1..(n + 1) <=> i \in 1..n \/ i = n + 1
  BY <1>1
<1>3. UpdateNumbers' = {i \in 1..(n + 1) : requests'[i].kind = "update"}
  BY DEF UpdateNumbers
<1>4. UpdateNumbers = {i \in 1..n : requests[i].kind = "update"}
  BY DEF UpdateNumbers
<1>5. n + 1 \notin 1..n
  BY <1>1
<1> HIDE DEF n
<1>6. CASE r.kind = "update"
  <2>1. UpdateNumbers' = UpdateNumbers \cup {n + 1}
    BY <1>1, <1>2, <1>3, <1>4, <1>5, <1>6 DEF n
  <2> DEFINE S == UpdateNumbers'  m == n + 1
  <2>2. S \in SUBSET Nat /\ m \in S /\ \A x \in S : x <= m
    BY <1>1, <1>3, <2>1
  <2> HIDE DEF S, m
  <2>3. Max(S) = m /\ S # {}
    BY <2>2, GreatestIs
  <2>4. LastUpdate' = m
    BY <2>3 DEF LastUpdate, S
  <2> QED BY <1>6, <2>4 DEF n, m
<1>7. CASE r.kind # "update"
  <2>1. UpdateNumbers' = UpdateNumbers
    BY <1>1, <1>2, <1>3, <1>4, <1>5, <1>7 DEF n
  <2> QED BY <1>7, <2>1 DEF LastUpdate
<1> QED BY <1>6, <1>7

\* What is durable, in terms of the last slice and the log.
LEMMA DurableIs ==
  /\ Durable = UpdatesOf(requests, {log[id] : id \in {i \in DOMAIN log : i > StartId}})
               \cup UpdatesOf(requests, Sliced)
  /\ Updates(mem.applied) = UpdatesOf(requests, mem.applied)
<1>1. Durable = UpdatesOf(requests, {log[id] : id \in {i \in DOMAIN log : i > StartId}} \cup Sliced)
  BY DEF Durable, Updates, UpdatesOf, Sliced
<1>2. Updates(mem.applied) = UpdatesOf(requests, mem.applied)
  BY DEF Updates, UpdatesOf
<1> QED BY <1>1, <1>2, UpdatesUnion

\* Whatever is durable is live, and so is nothing that was accepted before it and
\* is not durable.
InOrder(d, l) == d \subseteq l /\ \A s \in l \ d, t \in d : t < s

LEMMA DurableInOrder ==
  ASSUME IInv, pc # "down"
  PROVE  InOrder(Durable, Updates(mem.applied))
<1> DEFINE N == operlog_id_start  S == StartId  D == Durable  L == Updates(mem.applied)
           logged == {log[id] : id \in {i \in DOMAIN log : i > S}}
<1>1. /\ S \in Nat /\ N \in Nat /\ LogEnd \in Nat /\ LogEnd <= N
      /\ \A id \in DOMAIN log : id \in Nat /\ id <= LogEnd
      /\ \A id \in (S + 1)..LogEnd : id \in DOMAIN log
  BY SliceFacts, RequestsFacts, PendingFacts DEF IInv, Numbered, TypeOK
<1>2. /\ Follows(requests, ops, Sliced, S, N)
      /\ Shows(requests, ops, mem.applied, Sliced, S, N)
  BY DEF IInv, Held
<1>3. \A id \in DOMAIN log : id > S => id \in (S + 1)..N /\ log[id] = ops[id]
  <2> SUFFICES ASSUME NEW id \in DOMAIN log, id > S
               PROVE  id \in (S + 1)..N /\ log[id] = ops[id]
    OBVIOUS
  <2>1. id \in (S + 1)..N
    BY <1>1
  <2> QED BY <2>1, OpsFacts DEF IInv
<1>4. /\ D = UpdatesOf(requests, logged) \cup UpdatesOf(requests, Sliced)
      /\ L = UpdatesOf(requests, Sliced) \cup UpdatesOf(requests, Between(ops, S, N))
  BY <1>2, DurableIs DEF Shows
<1>5. logged \subseteq Between(ops, S, N)
  BY <1>3 DEF Between
<1> HIDE DEF D, L, S, N
<1>6. D \subseteq L
  BY <1>4, <1>5 DEF UpdatesOf
<1>7. ASSUME NEW s \in L, s \notin D, NEW t \in D PROVE t < s
  <2>1. s \in Between(ops, S, N) /\ requests[s].kind = "update" /\ s \notin logged
    BY <1>4, <1>7 DEF UpdatesOf
  <2>2. PICK k \in (S + 1)..N : s = ops[k]
    BY <2>1 DEF Between
  <2>3. k \notin DOMAIN log
    <3> SUFFICES ASSUME k \in DOMAIN log PROVE FALSE
      OBVIOUS
    <3>1. k > S
      BY <1>1
    <3>2. s = log[k]
      BY <1>3, <2>2, <3>1
    <3> QED BY <2>1, <3>1, <3>2
  <2>4. \A id \in DOMAIN log : id < k
    BY <1>1, <2>3
  <2>5. t \in logged \/ t \in Sliced
    BY <1>4, <1>7 DEF UpdatesOf
  <2>6. CASE t \in logged
    <3>1. PICK id \in DOMAIN log : id > S /\ t = log[id]
      BY <2>6
    <3>2. id \in (S + 1)..N /\ t = ops[id] /\ id < k
      BY <1>3, <2>4, <3>1
    <3> QED BY <1>2, <2>2, <3>2 DEF Follows
  <2>7. CASE t \in Sliced
    BY <1>2, <2>2, <2>7 DEF Follows
  <2> QED BY <2>5, <2>6, <2>7
<1> QED BY <1>6, <1>7 DEF InOrder, D, L

LEMMA DurableType ==
  ASSUME IInv
  PROVE  Durable \subseteq DOMAIN requests
<1>1. Sliced \subseteq DOMAIN requests
  BY SliceFacts DEF IInv
<1>2. \A id \in DOMAIN log : log[id] \in DOMAIN requests
  BY DEF IInv, TypeOK
<1> QED BY <1>1, <1>2, DurableIs DEF UpdatesOf

LEMMA DurableSame ==
  ASSUME requests' = requests, log' = log, StartId' = StartId, Sliced' = Sliced
  PROVE  Durable' = Durable /\ LastUpdate' = LastUpdate
<1> DEFINE D(s, u) == Updates({log[id] : id \in {i \in DOMAIN log : i > s}} \cup u)
<1>1. Durable = D(StartId, Sliced)
  BY DEF Durable, Sliced
<1>2. Durable' = D(StartId, Sliced)'
  BY DEF Durable, Sliced
<1>3. D(StartId, Sliced)' = D(StartId, Sliced)
  BY DEF Updates
<1> QED BY <1>1, <1>2, <1>3, LastSame
------------------------------------------------------------------------------
(* Every step is one of DurableStore or changes nothing of it.              *)

\* The instance's variables by their names here.
LEMMA StoreVariables ==
  /\ Store!svars = <<Live, Durable, LastUpdate>>
  /\ Live' = Live /\ Durable' = Durable /\ LastUpdate' = LastUpdate => UNCHANGED Store!svars
  /\ /\ Live' = Live /\ LastUpdate' = LastUpdate /\ Durable \subseteq Durable'
     /\ InOrder(Durable', Live)
     => Store!Persist
  /\ /\ LastUpdate' \in Nat /\ LastUpdate' > LastUpdate /\ Live' = Live \cup {LastUpdate'}
     /\ Durable' = Durable
     => Store!Accept
  /\ Live' = Durable /\ Durable' = Durable /\ LastUpdate' = LastUpdate => Store!Restart
<1> DEFINE last == SelectLastInSeq(requests, LAMBDA r : r.kind = "update")
           live == IF pc = "down" THEN Durable ELSE Updates(mem.applied)
<1>1. last = LastUpdate /\ live = Live
  BY LastDefinition DEF Live
<1>2. last' = LastUpdate' /\ live' = Live'
  <2>1. last' = LastUpdate'
    BY DEF SelectLastInSeq, LastUpdate, UpdateNumbers
  <2>2. live' = Live'
    BY DEF Live
  <2> QED BY <2>1, <2>2
<1>3. Store!svars = <<live, Durable, last>>
  BY DEF Store!svars
<1>4. Store!Persist <=> /\ live' = live /\ last' = last /\ Durable \subseteq Durable'
                        /\ InOrder(Durable', live)
  BY DEF Store!Persist, Store!Initial, InOrder
<1>5. Store!Accept <=> /\ last' \in Nat /\ last' > last /\ live' = live \cup {last'}
                       /\ Durable' = Durable
  BY DEF Store!Accept
<1>6. Store!Restart <=> live' = Durable /\ Durable' = Durable /\ last' = last
  BY DEF Store!Restart
<1>7. UNCHANGED Store!svars <=> live' = live /\ Durable' = Durable /\ last' = last
  BY DEF Store!svars
<1> HIDE DEF last, live
<1> QED BY <1>1, <1>2, <1>3, <1>4, <1>5, <1>6, <1>7

StoreStep == Store!Persist \/ Store!Accept \/ Store!Restart \/ UNCHANGED Store!svars

\* The engine's process goes on, and what it shows is the same.
LEMMA QuietStore ==
  ASSUME pc # "down", pc' # "down", requests' = requests, log' = log,
         mem'.applied = mem.applied, StartId' = StartId, Sliced' = Sliced
  PROVE  StoreStep
<1>1. Durable' = Durable /\ LastUpdate' = LastUpdate
  BY DurableSame
<1>2. Live' = UpdatesOf(requests', mem'.applied) /\ Live = UpdatesOf(requests, mem.applied)
  BY DEF Live, Updates, UpdatesOf
<1>3. Live' = Live
  BY <1>2
<1> QED BY <1>1, <1>3, StoreVariables DEF StoreStep

LEMMA RequestStore ==
  ASSUME IInv, NEW r \in Requests, Executed(r), append_operlog(Len(requests) + 1), UNCHANGED slices
  PROVE  StoreStep
<1> DEFINE n == Len(requests)
<1>1. /\ Len(requests') = n + 1 /\ DOMAIN requests' = 1..(n + 1) /\ requests'[n + 1] = r
      /\ \A t \in DOMAIN requests : requests'[t] = requests[t]
      /\ Extends(requests, requests') /\ n \in Nat
      /\ UpdatesOf(requests', mem'.applied)
           = UpdatesOf(requests', mem.applied) \cup UpdatesOf(requests', {n + 1})
  BY ExecutedIs, RequestsFacts DEF IInv
<1>2. /\ pc # "down" /\ pc' # "down" /\ log' = log
      /\ history' = history /\ accounts' = accounts
  BY DEF Executed, slices
<1>3. StartId' = StartId /\ Sliced' = Sliced
  BY <1>2, SliceKept
<1>4. Durable' = Durable
  <2> DEFINE s == {log[id] : id \in {i \in DOMAIN log : i > StartId}} \cup Sliced
  <2>1. Durable = UpdatesOf(requests, s)
    BY DEF Durable, Updates, UpdatesOf, Sliced
  <2>2. Durable' = UpdatesOf(requests', s)
    BY <1>2, <1>3 DEF Durable, Updates, UpdatesOf, Sliced
  <2>3. s \subseteq DOMAIN requests
    BY SliceFacts DEF IInv, TypeOK
  <2> HIDE DEF s
  <2> QED BY <1>1, <2>1, <2>2, <2>3, UpdatesExtend
<1>5. Live = UpdatesOf(requests', mem.applied)
  <2>1. Live = UpdatesOf(requests, mem.applied)
    BY <1>2 DEF Live, Updates, UpdatesOf
  <2>2. mem.applied \subseteq DOMAIN requests
    BY DEF IInv, TypeOK, MemoryOf
  <2> QED BY <1>1, <2>1, <2>2, UpdatesExtend
<1>6. Live' = Live \cup UpdatesOf(requests', {n + 1})
  <2>1. Live' = UpdatesOf(requests', mem'.applied)
    BY <1>2 DEF Live, Updates, UpdatesOf
  <2> QED BY <1>1, <1>5, <2>1
<1>7. LastUpdate' = IF r.kind = "update" THEN n + 1 ELSE LastUpdate
  BY <1>1, LastNext DEF IInv
<1>8. LastUpdate \in 0..n /\ LastUpdate \in Nat
  BY LastType DEF IInv
<1> HIDE DEF n
<1>9. CASE r.kind = "update"
  <2>1. UpdatesOf(requests', {n + 1}) = {n + 1}
    BY <1>1, <1>9 DEF UpdatesOf
  <2>2. LastUpdate' = n + 1 /\ LastUpdate' \in Nat /\ LastUpdate' > LastUpdate
    BY <1>1, <1>7, <1>8, <1>9
  <2>3. Live' = Live \cup {LastUpdate'}
    BY <1>6, <2>1, <2>2
  <2> QED BY <1>4, <2>2, <2>3, StoreVariables DEF StoreStep
<1>10. CASE r.kind # "update"
  <2>1. UpdatesOf(requests', {n + 1}) = {}
    BY <1>1, <1>10 DEF UpdatesOf
  <2> QED BY <1>4, <1>6, <1>7, <1>10, <2>1, StoreVariables DEF StoreStep
<1> QED BY <1>9, <1>10

\* What becomes durable keeps the order, because the next state has the invariant.
LEMMA PersistStore ==
  ASSUME IInv', pc # "down", pc' # "down", requests' = requests, mem' = mem,
         Durable \subseteq Durable'
  PROVE  StoreStep
<1>1. (IInv /\ pc # "down" => InOrder(Durable, Updates(mem.applied)))'
  BY DurableInOrder, PTL
<1>2. InOrder(Durable', Updates(mem.applied)')
  BY <1>1 DEF InOrder
<1>3. Live' = Live /\ Updates(mem.applied)' = Live
  BY DEF Live, Updates
<1>4. InOrder(Durable', Live)
  BY <1>2, <1>3
<1>5. LastUpdate' = LastUpdate
  BY LastSame
<1> QED BY <1>3, <1>4, <1>5, StoreVariables DEF StoreStep

LEMMA InsertedStore ==
  ASSUME IInv, IInv', busy # <<>>, log' = Inserted(busy), requests' = requests, mem' = mem,
         pc' = pc, UNCHANGED slices
  PROVE  StoreStep
<1>1. pc # "down" /\ history' = history /\ accounts' = accounts
  BY DEF IInv, Gone, slices
<1>2. \A id \in DOMAIN log : id \in DOMAIN log' /\ log'[id] = log[id]
  BY <1>1, InsertedIs DEF IInv
<1>3. StartId' = StartId /\ Sliced' = Sliced
  BY <1>1, SliceKept
<1>4. Durable \subseteq Durable'
  <2>1. Durable = UpdatesOf(requests, {log[id] : id \in {i \in DOMAIN log : i > StartId}} \cup Sliced)
    BY DEF Durable, Updates, UpdatesOf, Sliced
  <2>2. Durable' = UpdatesOf(requests, {log'[id] : id \in {i \in DOMAIN log' : i > StartId}} \cup Sliced)
    BY <1>3 DEF Durable, Updates, UpdatesOf, Sliced
  <2>3. {log[id] : id \in {i \in DOMAIN log : i > StartId}}
          \subseteq {log'[id] : id \in {i \in DOMAIN log' : i > StartId}}
    BY <1>2
  <2> QED BY <2>1, <2>2, <2>3 DEF UpdatesOf
<1> QED BY <1>1, <1>4, PersistStore

\* The new slice shows what the last one and the operations up to its end made.
LEMMA NewSliceStore ==
  ASSUME IInv, IInv', pc # "down", NEW c \in children, DumpHistory(c)
  PROVE  StoreStep
<1> DEFINE N == operlog_id_start  S == StartId  e == c.end  u == c.mem.applied
<1>1. NewSlice(c) /\ IsCurrent(c)
  BY NewSliceIs
<1>2. requests' = requests /\ mem' = mem /\ log' = log /\ pc' = pc
  BY DEF DumpHistory, InSlice, operlog
<1>3. StartId' = e /\ Sliced' = u
  BY <1>1 DEF NewSlice
<1>4. /\ UpdatesOf(requests, u) = UpdatesOf(requests, Sliced) \cup UpdatesOf(requests, Between(ops, S, e))
      /\ e \in S..N
  BY <1>1 DEF IsCurrent, Shows
<1>5. /\ S \in Nat /\ N \in Nat /\ LogEnd \in Nat /\ LogEnd <= N
      /\ \A id \in DOMAIN log : id \in Nat /\ id <= LogEnd
  BY SliceFacts, RequestsFacts, PendingFacts DEF IInv, Numbered, TypeOK
<1>6. /\ Durable = UpdatesOf(requests, {log[id] : id \in {i \in DOMAIN log : i > S}})
                   \cup UpdatesOf(requests, Sliced)
  BY DurableIs
<1>7. Durable' = UpdatesOf(requests, {log[id] : id \in {i \in DOMAIN log : i > e}})
                 \cup UpdatesOf(requests, u)
  <2>1. Durable' = UpdatesOf(requests, {log[id] : id \in {i \in DOMAIN log : i > e}} \cup u)
    BY <1>2, <1>3 DEF Durable, Updates, UpdatesOf, Sliced
  <2> HIDE DEF e, u
  <2> QED BY <2>1, UpdatesUnion
<1>8. ASSUME NEW id \in DOMAIN log, id > S, ~(id > e)
      PROVE  log[id] \in Between(ops, S, e)
  <2>1. id \in (S + 1)..e /\ id \in (S + 1)..N
    BY <1>4, <1>5, <1>8
  <2>2. log[id] = ops[id]
    BY <2>1, OpsFacts DEF IInv
  <2> QED BY <2>1, <2>2 DEF Between
<1>9. Durable \subseteq Durable'
  <2> HIDE DEF S, e, u
  <2> SUFFICES ASSUME NEW t \in Durable PROVE t \in Durable'
    OBVIOUS
  <2>1. CASE t \in UpdatesOf(requests, Sliced)
    BY <2>1, <1>4, <1>7
  <2>2. CASE t \in UpdatesOf(requests, {log[id] : id \in {i \in DOMAIN log : i > S}})
    <3>1. PICK id \in DOMAIN log : id > S /\ t = log[id] /\ requests[t].kind = "update"
      BY <2>2 DEF UpdatesOf
    <3>2. CASE id > e
      BY <3>1, <3>2, <1>7 DEF UpdatesOf
    <3>3. CASE ~(id > e)
      <4>1. t \in UpdatesOf(requests, Between(ops, S, e))
        BY <3>1, <3>3, <1>8 DEF UpdatesOf
      <4> QED BY <4>1, <1>4, <1>7
    <3> QED BY <3>2, <3>3
  <2> QED BY <2>1, <2>2, <1>6
<1> QED BY <1>2, <1>9, PersistStore

\* What a slice process does besides concerns nothing of this.
LEMMA SliceStore ==
  ASSUME SameOps, pc # "down", UNCHANGED <<requests, mem, operlog, pc>>
  PROVE  StoreStep
<1>1. pc' = pc /\ requests' = requests /\ log' = log /\ mem' = mem
  BY DEF operlog
<1>2. StartId' = StartId /\ Sliced' = Sliced
  BY DEF SameOps
<1> QED BY <1>1, <1>2, QuietStore

LEMMA EndStore ==
  ASSUME ProcessEnds
  PROVE  StoreStep
<1>1. /\ pc' = "down" /\ requests' = requests /\ log' = log /\ history' = history
      /\ accounts' = accounts
  BY DEF ProcessEnds
<1>2. StartId' = StartId /\ Sliced' = Sliced
  BY <1>1, SliceKept
<1>3. Durable' = Durable /\ LastUpdate' = LastUpdate
  BY <1>1, <1>2, DurableSame
<1>4. Live' = Durable
  BY <1>1, <1>3 DEF Live
<1> QED BY <1>3, <1>4, StoreVariables DEF StoreStep

LEMMA StartStore ==
  ASSUME IInv, Start
  PROVE  StoreStep
<1>1. /\ pc = "down" /\ pc' = "up" /\ requests' = requests /\ log' = log /\ history' = history
      /\ accounts' = accounts /\ mem' = init_from_db.mem
  BY DEF Start, slices
<1>2. StartId' = StartId /\ Sliced' = Sliced
  BY <1>1, SliceKept
<1>3. Durable' = Durable /\ LastUpdate' = LastUpdate
  BY <1>1, <1>2, DurableSame
<1>4. Updates(init_from_db.mem.applied) = Durable
  BY LoadsDurable DEF LoadSucceeds
<1>5. Live = Durable
  BY <1>1 DEF Live
<1>6. Live' = Durable
  <2>1. Live' = UpdatesOf(requests', mem'.applied)
    BY <1>1 DEF Live, Updates, UpdatesOf
  <2>2. UpdatesOf(requests, init_from_db.mem.applied) = Durable
    BY <1>4 DEF Updates, UpdatesOf
  <2> QED BY <1>1, <2>1, <2>2
<1> QED BY <1>3, <1>5, <1>6, StoreVariables DEF StoreStep

LEMMA NextStore ==
  ASSUME OneByOne, IInv, IInv', Next
  PROVE  StoreStep
<1>1. CASE Request
  <2>1. UNCHANGED slices
    BY <1>1 DEF Request
  <2>2. \E r \in Requests : Executed(r) /\ append_operlog(Len(requests) + 1)
    <3>1. ASSUME NEW b \in Business, BalanceUpdate(b)
          PROVE  Update(b) \in Requests /\ Executed(Update(b)) /\ append_operlog(Len(requests) + 1)
      BY <3>1 DEF BalanceUpdate, Requests, Update
    <3>2. ASSUME OrderOpen
          PROVE  Open \in Requests /\ Executed(Open) /\ append_operlog(Len(requests) + 1)
      BY <3>2 DEF OrderOpen, Requests, Open
    <3>3. ASSUME NEW o \in mem.orders, OrderCancel(o)
          PROVE  Cancel(o) \in Requests /\ Executed(Cancel(o)) /\ append_operlog(Len(requests) + 1)
      <4>1. o \in Nat
        BY RequestsFacts DEF IInv, TypeOK, MemoryOf
      <4>2. Cancel(o) \in Requests
        BY <4>1 DEF Requests, Cancel
      <4> QED BY <4>2, <3>3 DEF OrderCancel
    <3> QED BY <1>1, <3>1, <3>2, <3>3 DEF Request
  <2> QED BY <2>1, <2>2, RequestStore
<1>2. CASE Log
  <2>1. UNCHANGED slices
    BY <1>2 DEF Log
  <2>2. CASE FlushTimer
    <3>1. /\ pc # "down" /\ pc' # "down" /\ requests' = requests /\ mem' = mem /\ log' = log
          /\ history' = history /\ accounts' = accounts
      BY <2>1, <2>2 DEF FlushTimer, slices
    <3>2. StartId' = StartId /\ Sliced' = Sliced
      BY <3>1, SliceKept
    <3> QED BY <3>1, <3>2, QuietStore
  <2>3. CASE TakeJob
    <3>1. /\ pc # "down" /\ pc' # "down" /\ requests' = requests /\ mem' = mem /\ log' = log
          /\ history' = history /\ accounts' = accounts
      BY <2>1, <2>3 DEF TakeJob, slices
    <3>2. StartId' = StartId /\ Sliced' = Sliced
      BY <3>1, SliceKept
    <3> QED BY <3>1, <3>2, QuietStore
  <2>4. CASE ExecuteJob
    BY <2>1, <2>4, InsertedStore DEF ExecuteJob
  <2> QED BY <1>2, <2>2, <2>3, <2>4 DEF Log
<1>3. CASE LoseAnswer /\ UNCHANGED <<slices, restarts>>
  BY <1>3, InsertedStore DEF LoseAnswer
<1>4. CASE MakeSlice
  <2>1. pc # "down" /\ UNCHANGED <<requests, mem, operlog, pc>>
    BY <1>4 DEF MakeSlice
  <2> QED BY <1>4, <2>1, MakeSliceStep, SliceStore
<1>5. CASE SliceStep
  <2>1. PICK c \in children : \/ DumpTables(c) \/ DumpHistory(c) \/ DumpFails(c)
                              \/ ClearSlice(c) \/ DropOrders(c) \/ DropAccounts(c) \/ DeleteRow(c)
                              \/ SliceDies(c)
    BY <1>5 DEF SliceStep
  <2>2. pc # "down"
    BY DEF IInv, Gone
  <2>3. CASE DumpHistory(c)
    BY <2>2, <2>3, NewSliceStore
  <2>4. CASE ~DumpHistory(c)
    <3>1. UNCHANGED <<requests, mem, operlog, pc>>
      BY <2>1, <2>4 DEF DumpTables, DumpFails, ClearSlice, DropOrders, DropAccounts, DeleteRow,
                        SliceDies, InSlice
    <3>2. SameOps
      BY <2>1, <2>2, <2>4, DumpTablesStep, DumpFailsStep, ClearSliceStep,
         DropOrdersStep, DropAccountsStep, DeleteRowStep
    <3> QED BY <2>2, <3>1, <3>2, SliceStore
  <2> QED BY <2>3, <2>4
<1>6. ASSUME NEW b \in Business, ForgetUpdate(b) PROVE StoreStep
  <2>1. /\ pc # "down" /\ pc' # "down" /\ requests' = requests /\ log' = log
        /\ mem' = [mem EXCEPT !.seen = @ \ {b}] /\ history' = history /\ accounts' = accounts
    BY <1>6 DEF ForgetUpdate, operlog, slices
  <2>2. mem'.applied = mem.applied
    BY <2>1 DEF IInv, TypeOK, MemoryOf
  <2>3. StartId' = StartId /\ Sliced' = Sliced
    BY <2>1, SliceKept
  <2> QED BY <2>1, <2>2, <2>3, QuietStore
<1>7. CASE Stop \/ Suicide
  <2>1. /\ pc # "down" /\ pc' # "down" /\ requests' = requests /\ mem' = mem /\ log' = log
        /\ history' = history /\ accounts' = accounts
    BY <1>7 DEF Stop, Suicide, operlog, slices
  <2>2. StartId' = StartId /\ Sliced' = Sliced
    BY <2>1, SliceKept
  <2> QED BY <2>1, <2>2, QuietStore
<1>8. CASE Stopped \/ Dead \/ Crash
  <2>1. ProcessEnds
    BY <1>8 DEF Stopped, Dead, Crash
  <2> QED BY <2>1, EndStore
<1>9. CASE Start
  BY <1>9, StartStore
<1> QED BY <1>1, <1>2, <1>3, <1>4, <1>5, <1>6, <1>7, <1>8, <1>9 DEF Next

LEMMA StutterStore ==
  ASSUME UNCHANGED vars
  PROVE  StoreStep
<1>1. /\ pc' = pc /\ requests' = requests /\ mem' = mem /\ log' = log
      /\ history' = history /\ accounts' = accounts
  BY DEF vars, operlog, slices
<1>2. StartId' = StartId /\ Sliced' = Sliced
  BY <1>1, SliceKept
<1>3. Durable' = Durable /\ LastUpdate' = LastUpdate
  BY <1>1, <1>2, DurableSame
<1>4. Live' = Live
  <2>1. Updates(mem.applied)' = Updates(mem.applied)
    BY <1>1 DEF Updates
  <2> QED BY <1>1, <1>3, <2>1 DEF Live
<1> QED BY <1>3, <1>4, StoreVariables DEF StoreStep

LEMMA InitStore ==
  ASSUME Init
  PROVE  Store!SInit
<1>1. requests = <<>> /\ mem = Empty /\ pc = "up" /\ DOMAIN history = {} /\ DOMAIN log = {}
  BY DEF Init
<1>2. UpdateNumbers = {}
  BY <1>1 DEF UpdateNumbers
<1>3. LastUpdate = 0
  BY <1>2 DEF LastUpdate
<1>4. Durable = {}
  BY <1>1 DEF Durable, Updates, HasSlice
<1>5. Live = {}
  BY <1>1 DEF Live, Updates, Empty
<1> QED BY <1>3, <1>4, <1>5, LastDefinition DEF Store!SInit, Live

\* With one slice process at a time, which ends with the engine and notices failed
\* statements, the log and the slices implement DurableStore: an update becomes
\* durable after all that were accepted before it, nothing ceases to be durable,
\* and a restart brings back exactly what is.
THEOREM LogIsDurableStore == ASSUME OneByOne PROVE Spec => IsDurableStore
<1>1. Init => Store!SInit
  BY InitStore
<1>2. IInv /\ IInv' /\ [Next]_vars => [Store!Persist \/ Store!Accept \/ Store!Restart]_(Store!svars)
  BY NextStore, StutterStore DEF StoreStep
<1>3. Spec => []IInv
  BY AlwaysIInv
<1> QED BY <1>1, <1>2, <1>3, PTL DEF Spec, IsDurableStore, Store!SSpec
==============================================================================
