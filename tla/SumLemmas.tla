------------------------------ MODULE SumLemmas -------------------------------
(***************************************************************************)
(* Lemmas about SumFunctionOnSet of the community modules, by which        *)
(* properties add up money and contracts.  It is a recursive function over *)
(* the subsets of a set, which picks an element after the other; that the  *)
(* order does not matter, and how a sum changes with its set and its       *)
(* terms, is proved here, by looking at a smallest subset for which it     *)
(* would not hold.                                                         *)
(*                                                                         *)
(* FoldRuns does the like for FoldLeft over a list, of which a handler's   *)
(* loop is made.                                                           *)
(***************************************************************************)
EXTENDS Integers, Sequences, Functions, FiniteSetsExt, FiniteSetTheorems, TLAPS

\* A function of the subsets of S that adds up f as a sum does.
Additive(g, f, S) ==
  /\ g \in [SUBSET S -> Int]
  /\ g[{}] = 0
  /\ \A T \in SUBSET S : \A x \in T : g[T] = g[T \ {x}] + f[x]

Pick(T) == CHOOSE x \in T : TRUE

\* What SumFunctionOnSet is the value of.
Recurs(g, f, S) ==
  g = [T \in SUBSET S |-> IF T = {} THEN 0 ELSE f[Pick(T)] + g[T \ {Pick(T)}]]

LEMMA SumDefinition ==
  ASSUME NEW f, NEW S
  PROVE  SumFunctionOnSet(f, S) = (CHOOSE g : Recurs(g, f, S))[S]
  BY DEF SumFunctionOnSet, FoldFunctionOnSet, MapThenFoldSet, Recurs, Pick

\* Among the subsets with a property, if there are any, there is a smallest one.
LEMMA SmallestSubset ==
  ASSUME NEW S, IsFiniteSet(S), NEW bad \in SUBSET (SUBSET S), bad # {}
  PROVE  \E T \in bad : \A x \in T : T \ {x} \notin bad
<1>1. IsWellFoundedOn(StrictSubsetOrdering(S), SUBSET S)
  BY FS_StrictSubsetOrderingWellFounded, FS_FiniteSubsetsOfFinite
<1>2. PICK T \in bad : \A U \in bad : ~(<<U, T>> \in StrictSubsetOrdering(S))
  BY <1>1, WFMin
<1>3. ASSUME NEW x \in T PROVE <<T \ {x}, T>> \in StrictSubsetOrdering(S)
  BY <1>3 DEF StrictSubsetOrdering
<1> QED BY <1>2, <1>3

LEMMA AdditiveExists ==
  ASSUME NEW S, IsFiniteSet(S), NEW f, \A x \in S : f[x] \in Int
  PROVE  \E g : Additive(g, f, S)
<1> DEFINE bad == {T \in SUBSET S : ~\E g : Additive(g, f, T)}
<1> SUFFICES ASSUME bad # {} PROVE FALSE
  OBVIOUS
<1>1. PICK T \in bad : \A x \in T : T \ {x} \notin bad
  BY SmallestSubset
<1>2. CASE T = {}
  <2>1. Additive([U \in SUBSET T |-> 0], f, T)
    BY <1>2 DEF Additive
  <2> QED BY <2>1, <1>1
<1>3. CASE T # {}
  <2>1. PICK x \in T : TRUE
    BY <1>3
  <2>2. PICK g : Additive(g, f, T \ {x})
    BY <2>1, <1>1
  <2> DEFINE h == [U \in SUBSET T |-> IF x \in U THEN g[U \ {x}] + f[x] ELSE g[U]]
  <2>3. \A U \in SUBSET T : U \ {x} \in SUBSET (T \ {x}) /\ (x \notin U => U \in SUBSET (T \ {x}))
    OBVIOUS
  <2>4. f[x] \in Int /\ \A U \in SUBSET (T \ {x}) : g[U] \in Int
    BY <2>2, <1>1 DEF Additive
  <2>5. h \in [SUBSET T -> Int]
    BY <2>3, <2>4
  <2>6. h[{}] = 0
    BY <2>2 DEF Additive
  <2>7. ASSUME NEW U \in SUBSET T, NEW y \in U PROVE h[U] = h[U \ {y}] + f[y]
    <3>1. CASE y = x
      BY <3>1, <2>3
    <3>2. CASE y # x /\ x \in U
      <4>1. (U \ {x}) \ {y} = (U \ {y}) \ {x} /\ y \in U \ {x}
        BY <3>2
      <4>2. g[U \ {x}] = g[(U \ {y}) \ {x}] + f[y]
        BY <4>1, <2>2, <2>3 DEF Additive
      <4>3. /\ f[y] \in Int /\ g[(U \ {y}) \ {x}] \in Int
            /\ h[U] = g[U \ {x}] + f[x]
            /\ h[U \ {y}] = g[(U \ {y}) \ {x}] + f[x]
        BY <3>2, <2>3, <2>4, <1>1
      <4> HIDE DEF h
      <4> QED BY <4>2, <4>3, <2>4
    <3>3. CASE y # x /\ x \notin U
      BY <3>3, <2>2, <2>3 DEF Additive
    <3> QED BY <3>1, <3>2, <3>3
  <2> HIDE DEF h
  <2>8. Additive(h, f, T)
    BY <2>5, <2>6, <2>7 DEF Additive
  <2> QED BY <2>8, <1>1
<1> QED BY <1>2, <1>3

LEMMA PickIsIn == ASSUME NEW T, T # {} PROVE Pick(T) \in T
  BY DEF Pick

LEMMA AdditiveRecurs ==
  ASSUME NEW S, NEW f, \A x \in S : f[x] \in Int, NEW g, Additive(g, f, S)
  PROVE  Recurs(g, f, S)
<1>1. ASSUME NEW T \in SUBSET S, T # {} PROVE g[T] = f[Pick(T)] + g[T \ {Pick(T)}]
  <2>1. Pick(T) \in T /\ T \ {Pick(T)} \in SUBSET S
    BY <1>1, PickIsIn
  <2>2. g[T] = g[T \ {Pick(T)}] + f[Pick(T)]
    BY <2>1 DEF Additive
  <2>3. f[Pick(T)] \in Int /\ g[T \ {Pick(T)}] \in Int
    BY <2>1 DEF Additive
  <2> QED BY <2>2, <2>3
<1> QED BY <1>1 DEF Recurs, Additive

LEMMA RecursType ==
  ASSUME NEW S, IsFiniteSet(S), NEW f, \A x \in S : f[x] \in Int, NEW r, Recurs(r, f, S)
  PROVE  r[S] \in Int
<1> DEFINE bad == {T \in SUBSET S : r[T] \notin Int}
<1>1. bad = {}
  <2> SUFFICES ASSUME bad # {} PROVE FALSE
    OBVIOUS
  <2>1. PICK T \in bad : \A x \in T : T \ {x} \notin bad
    BY SmallestSubset
  <2>2. CASE T = {}
    BY <2>1, <2>2 DEF Recurs
  <2>3. CASE T # {}
    <3>1. Pick(T) \in T /\ T \in SUBSET S /\ T \ {Pick(T)} \in SUBSET S
      BY <2>1, <2>3, PickIsIn
    <3>2. r[T] = f[Pick(T)] + r[T \ {Pick(T)}]
      BY <3>1, <2>3 DEF Recurs
    <3>3. f[Pick(T)] \in Int /\ r[T \ {Pick(T)}] \in Int
      BY <3>1, <2>1
    <3> QED BY <3>2, <3>3, <2>1
  <2> QED BY <2>2, <2>3
<1> QED BY <1>1

\* Any such function gives the sum, whatever the order elements are picked in.
LEMMA SumIs ==
  ASSUME NEW S, IsFiniteSet(S), NEW f, \A x \in S : f[x] \in Int,
         NEW g, Additive(g, f, S)
  PROVE  SumFunctionOnSet(f, S) = g[S]
<1> DEFINE r == CHOOSE h : Recurs(h, f, S)
<1>2. Recurs(g, f, S)
  BY AdditiveRecurs
<1>3. Recurs(r, f, S)
  BY <1>2
<1> HIDE DEF r
<1> DEFINE bad == {T \in SUBSET S : r[T] # g[T]}
<1>4. bad = {}
  <2> SUFFICES ASSUME bad # {} PROVE FALSE
    OBVIOUS
  <2>1. PICK T \in bad : \A x \in T : T \ {x} \notin bad
    BY SmallestSubset
  <2>2. CASE T = {}
    BY <2>1, <2>2, <1>3 DEF Recurs, Additive
  <2>3. CASE T # {}
    <3>1. Pick(T) \in T /\ T \in SUBSET S /\ T \ {Pick(T)} \in SUBSET S
      BY <2>1, <2>3, PickIsIn
    <3>2. r[T] = f[Pick(T)] + r[T \ {Pick(T)}] /\ g[T] = f[Pick(T)] + g[T \ {Pick(T)}]
      BY <3>1, <2>3, <1>2, <1>3 DEF Recurs
    <3> QED BY <3>1, <3>2, <2>1
  <2> QED BY <2>2, <2>3
<1>5. SumFunctionOnSet(f, S) = r[S]
  BY SumDefinition DEF r
<1> QED BY <1>4, <1>5
------------------------------------------------------------------------------
(* How sums change                                                          *)

\* A sum over nothing is 0, and one of integers an integer.
LEMMA SumOfNone == ASSUME NEW f PROVE SumFunctionOnSet(f, {}) = 0
<1>1. IsFiniteSet({}) /\ Additive([U \in SUBSET {} |-> 0], f, {})
  BY FS_EmptySet DEF Additive
<1> QED BY <1>1, SumIs

LEMMA SumType ==
  ASSUME NEW S, IsFiniteSet(S), NEW f, \A x \in S : f[x] \in Int
  PROVE  SumFunctionOnSet(f, S) \in Int
<1>1. PICK g : Additive(g, f, S)
  BY AdditiveExists
<1>2. g[S] \in Int
  BY <1>1 DEF Additive
<1> QED BY <1>1, <1>2, SumIs

\* An element that goes takes its term away.
LEMMA SumWithout ==
  ASSUME NEW S, IsFiniteSet(S), NEW f, \A x \in S : f[x] \in Int, NEW x \in S
  PROVE  SumFunctionOnSet(f, S) = SumFunctionOnSet(f, S \ {x}) + f[x]
<1>1. PICK g : Additive(g, f, S)
  BY AdditiveExists
<1> DEFINE h == [T \in SUBSET (S \ {x}) |-> g[T]]
<1>2. Additive(h, f, S \ {x}) /\ h[S \ {x}] = g[S \ {x}]
  BY <1>1 DEF Additive
<1>3. IsFiniteSet(S \ {x})
  BY FS_RemoveElement
<1>4. g[S] = g[S \ {x}] + f[x]
  BY <1>1 DEF Additive
<1> HIDE DEF h
<1>5. \A y \in S \ {x} : f[y] \in Int
  OBVIOUS
<1> QED BY <1>1, <1>2, <1>3, <1>4, <1>5, SumIs

\* One that comes adds its term.
LEMMA SumWith ==
  ASSUME NEW S, IsFiniteSet(S), NEW f, \A x \in S : f[x] \in Int, NEW x, x \notin S,
         f[x] \in Int
  PROVE  SumFunctionOnSet(f, S \cup {x}) = SumFunctionOnSet(f, S) + f[x]
<1>1. IsFiniteSet(S \cup {x})
  BY FS_AddElement
<1>2. (S \cup {x}) \ {x} = S /\ \A y \in S \cup {x} : f[y] \in Int
  OBVIOUS
<1> QED BY <1>1, <1>2, SumWithout

\* Only the terms of the set count.
LEMMA SumSame ==
  ASSUME NEW S, IsFiniteSet(S), NEW f, NEW g, \A x \in S : f[x] \in Int /\ g[x] = f[x]
  PROVE  SumFunctionOnSet(g, S) = SumFunctionOnSet(f, S)
<1>1. PICK h : Additive(h, f, S)
  BY AdditiveExists
<1>2. Additive(h, g, S) /\ \A x \in S : g[x] \in Int
  BY <1>1 DEF Additive
<1> QED BY <1>1, <1>2, SumIs

\* A term that changes changes the sum by as much.
LEMMA SumChange ==
  ASSUME NEW S, IsFiniteSet(S), NEW f, NEW g, NEW x \in S,
         \A y \in S : f[y] \in Int /\ g[y] \in Int,
         \A y \in S \ {x} : g[y] = f[y]
  PROVE  SumFunctionOnSet(g, S) = SumFunctionOnSet(f, S) - f[x] + g[x]
<1>1. IsFiniteSet(S \ {x})
  BY FS_RemoveElement
<1>2. SumFunctionOnSet(g, S \ {x}) = SumFunctionOnSet(f, S \ {x})
  BY <1>1, SumSame
<1>3. /\ SumFunctionOnSet(f, S) = SumFunctionOnSet(f, S \ {x}) + f[x]
      /\ SumFunctionOnSet(g, S) = SumFunctionOnSet(g, S \ {x}) + g[x]
      /\ SumFunctionOnSet(f, S \ {x}) \in Int
  BY <1>1, SumWithout, SumType
<1> QED BY <1>2, <1>3

\* A sum of natural numbers is one, and no smaller than any of its terms.
LEMMA SumOfNat ==
  ASSUME NEW S, IsFiniteSet(S), NEW f, \A x \in S : f[x] \in Nat
  PROVE  /\ SumFunctionOnSet(f, S) \in Nat
         /\ \A x \in S : f[x] <= SumFunctionOnSet(f, S)
<1>1. ASSUME NEW U, IsFiniteSet(U), \A x \in U : f[x] \in Nat
      PROVE  SumFunctionOnSet(f, U) \in Nat
  <2>1. PICK g : Additive(g, f, U)
    BY <1>1, AdditiveExists
  <2> DEFINE bad == {T \in SUBSET U : g[T] < 0}
  <2>2. bad = {}
    <3> SUFFICES ASSUME bad # {} PROVE FALSE
      OBVIOUS
    <3>1. PICK T \in bad : \A x \in T : T \ {x} \notin bad
      BY <1>1, SmallestSubset
    <3>2. CASE T = {}
      BY <3>1, <3>2, <2>1 DEF Additive
    <3>3. CASE T # {}
      <4>1. PICK x \in T : TRUE
        BY <3>3
      <4>2. /\ g[T] = g[T \ {x}] + f[x] /\ g[T] \in Int /\ g[T \ {x}] \in Int
            /\ f[x] \in Nat /\ ~(g[T \ {x}] < 0) /\ g[T] < 0
        BY <4>1, <3>1, <2>1, <1>1 DEF Additive
      <4> QED BY <4>2
    <3> QED BY <3>2, <3>3
  <2>3. g[U] \in Int /\ ~(g[U] < 0)
    BY <2>1, <2>2 DEF Additive
  <2> QED BY <2>1, <2>3, <1>1, SumIs
<1>2. ASSUME NEW x \in S PROVE f[x] <= SumFunctionOnSet(f, S)
  <2>1. IsFiniteSet(S \ {x}) /\ \A y \in S : f[y] \in Int
    BY FS_RemoveElement
  <2>2. SumFunctionOnSet(f, S \ {x}) \in Nat
    BY <2>1, <1>1
  <2>3. SumFunctionOnSet(f, S) = SumFunctionOnSet(f, S \ {x}) + f[x]
    BY <2>1, SumWithout
  <2> QED BY <2>2, <2>3
<1> QED BY <1>1, <1>2

\* A sum of zeros is zero.
LEMMA SumOfZeros ==
  ASSUME NEW S, IsFiniteSet(S), NEW f, \A x \in S : f[x] = 0
  PROVE  SumFunctionOnSet(f, S) = 0
<1>1. Additive([T \in SUBSET S |-> 0], f, S) /\ \A x \in S : f[x] \in Int
  BY DEF Additive
<1> QED BY <1>1, SumIs

\* Two sums that differ in what they say of one element.
LEMMA SumUpdate ==
  ASSUME NEW S, NEW T, IsFiniteSet(S), IsFiniteSet(T), NEW f, NEW g, NEW x,
         S \ {x} = T \ {x}, \A y \in S : f[y] \in Int, \A y \in T : g[y] \in Int,
         \A y \in S \ {x} : g[y] = f[y]
  PROVE  SumFunctionOnSet(g, T) = SumFunctionOnSet(f, S)
           - (IF x \in S THEN f[x] ELSE 0) + (IF x \in T THEN g[x] ELSE 0)
<1> DEFINE R == S \ {x}
<1>1. IsFiniteSet(R) /\ R = T \ {x}
  BY FS_RemoveElement
<1>2. SumFunctionOnSet(g, R) = SumFunctionOnSet(f, R) /\ SumFunctionOnSet(f, R) \in Int
  BY <1>1, SumSame, SumType
<1>3. SumFunctionOnSet(f, S) = SumFunctionOnSet(f, R) + (IF x \in S THEN f[x] ELSE 0)
  <2>1. CASE x \in S
    BY <2>1, SumWithout
  <2>2. CASE x \notin S
    <3>1. R = S
      BY <2>2
    <3> HIDE DEF R
    <3> QED BY <3>1, <2>2, <1>2
  <2> QED BY <2>1, <2>2
<1>4. SumFunctionOnSet(g, T) = SumFunctionOnSet(g, R) + (IF x \in T THEN g[x] ELSE 0)
  <2>1. CASE x \in T
    BY <2>1, <1>1, SumWithout
  <2>2. CASE x \notin T
    <3>1. R = T
      BY <2>2, <1>1
    <3> HIDE DEF R
    <3> QED BY <3>1, <2>2, <1>2
  <2> QED BY <2>1, <2>2
<1>5. (IF x \in S THEN f[x] ELSE 0) \in Int /\ (IF x \in T THEN g[x] ELSE 0) \in Int
  OBVIOUS
<1> HIDE DEF R
<1> QED BY <1>2, <1>3, <1>4, <1>5

------------------------------------------------------------------------------
(* Folds over sequences.                                                    *)

\* The greatest number of a finite set is in it: what MapThenFoldSet takes next.
LEMMA MaxIsIn ==
  ASSUME NEW T, IsFiniteSet(T), T \subseteq Int, T # {}
  PROVE  Max(T) \in T /\ \A x \in T : x <= Max(T)
<1> DEFINE bad == {U \in SUBSET T : U # {} /\ ~\E x \in U : \A y \in U : x >= y}
<1>1. bad = {}
  <2> SUFFICES ASSUME bad # {} PROVE FALSE
    OBVIOUS
  <2>1. PICK U \in bad : \A x \in U : U \ {x} \notin bad
    BY SmallestSubset
  <2>2. PICK x \in U : TRUE
    BY <2>1
  <2>3. CASE U \ {x} = {}
    BY <2>1, <2>2, <2>3
  <2>4. CASE U \ {x} # {}
    <3>1. PICK y \in U \ {x} : \A z \in U \ {x} : y >= z
      BY <2>1, <2>4
    <3>2. x \in Int /\ y \in Int /\ \A z \in U : z \in Int
      BY <2>1
    <3>3. CASE x >= y
      <4>1. \A z \in U : x >= z
        BY <3>1, <3>2, <3>3
      <4> QED BY <4>1, <2>1, <2>2
    <3>4. CASE y >= x
      <4>1. \A z \in U : y >= z
        BY <3>1, <3>2, <3>4
      <4> QED BY <4>1, <2>1, <3>1
    <3> QED BY <3>2, <3>3, <3>4
  <2> QED BY <2>3, <2>4
<1>2. \E x \in T : \A y \in T : x >= y
  BY <1>1
<1>3. Max(T) \in T /\ \A y \in T : Max(T) >= y
  BY <1>2 DEF Max
<1> QED BY <1>3

\* A function of the subsets of the places of s that follows s from the left.
FoldsUp(g, step, base, s, D) ==
  \A T \in SUBSET D : g[T] = IF T = {} THEN base ELSE step[<<g[T \ {Max(T)}], s[Max(T)]>>]

\* There is a function that follows s from the left: the CHOOSE of a fold finds one.
LEMMA FoldExists ==
  ASSUME NEW M, NEW E, NEW step \in [M \X E -> M], NEW base \in M, NEW s \in Seq(E)
  PROVE  \E g \in [SUBSET DOMAIN s -> M] : FoldsUp(g, step, base, s, DOMAIN s)
<1> DEFINE bad == {D \in SUBSET DOMAIN s :
                     ~\E g \in [SUBSET D -> M] : FoldsUp(g, step, base, s, D)}
<1>0. IsFiniteSet(DOMAIN s) /\ DOMAIN s \subseteq Int /\ \A i \in DOMAIN s : s[i] \in E
  BY FS_Interval
<1>1. bad = {}
  <2> SUFFICES ASSUME bad # {} PROVE FALSE
    OBVIOUS
  <2>1. PICK D \in bad : \A x \in D : D \ {x} \notin bad
    BY <1>0, SmallestSubset
  <2>2. IsFiniteSet(D) /\ D \subseteq Int /\ D \subseteq DOMAIN s
    BY <2>1, <1>0, FS_Subset
  <2>3. CASE D = {}
    <3> DEFINE h == [T \in SUBSET D |-> base]
    <3>1. h \in [SUBSET D -> M] /\ FoldsUp(h, step, base, s, D)
      BY <2>3 DEF FoldsUp
    <3> QED BY <3>1, <2>1
  <2>4. CASE D # {}
    <3> DEFINE x == Max(D)
    <3>1. x \in D /\ \A y \in D : y <= x
      BY <2>2, <2>4, MaxIsIn
    <3>2. PICK g \in [SUBSET (D \ {x}) -> M] : FoldsUp(g, step, base, s, D \ {x})
      BY <2>1, <3>1
    <3> HIDE DEF x
    <3> DEFINE h == [T \in SUBSET D |-> IF x \in T THEN step[<<g[T \ {x}], s[x]>>] ELSE g[T]]
    <3>3. \A T \in SUBSET D : T \ {x} \in SUBSET (D \ {x}) /\ (x \notin T => T \in SUBSET (D \ {x}))
      OBVIOUS
    <3>4. h \in [SUBSET D -> M]
      <4>1. s[x] \in E
        BY <1>0, <2>2, <3>1
      <4> QED BY <4>1, <3>2, <3>3
    <3>5. ASSUME NEW T \in SUBSET D
          PROVE  h[T] = IF T = {} THEN base ELSE step[<<h[T \ {Max(T)}], s[Max(T)]>>]
      <4>0. T # {} => Max(T) \in T /\ \A y \in T : y <= Max(T)
        BY <2>2, FS_Subset, MaxIsIn
      <4>1. CASE T = {}
        BY <4>1, <3>2 DEF FoldsUp
      <4>2. CASE x \in T
        <5>1. Max(T) = x
          <6>1. Max(T) \in T /\ x <= Max(T)
            BY <4>0, <4>2
          <6>2. Max(T) \in D
            BY <6>1
          <6>3. Max(T) <= x
            BY <6>2, <3>1
          <6>4. Max(T) \in Int /\ x \in Int
            BY <6>2, <3>1, <2>2
          <6> QED BY <6>1, <6>3, <6>4
        <5>2. h[T] = step[<<g[T \ {x}], s[x]>>] /\ h[T \ {x}] = g[T \ {x}]
          BY <4>2
        <5> QED BY <5>1, <5>2, <4>2
      <4>3. CASE T # {} /\ x \notin T
        <5>1. T \in SUBSET (D \ {x})
          BY <4>3
        <5>2. h[T] = g[T] /\ h[T \ {Max(T)}] = g[T \ {Max(T)}]
          BY <4>3
        <5>3. g[T] = step[<<g[T \ {Max(T)}], s[Max(T)]>>]
          BY <5>1, <4>3, <3>2 DEF FoldsUp
        <5> QED BY <5>2, <5>3, <4>3
      <4> QED BY <4>1, <4>2, <4>3
    <3> HIDE DEF h
    <3>6. FoldsUp(h, step, base, s, D)
      BY <3>5 DEF FoldsUp
    <3> QED BY <3>4, <3>6, <2>1
  <2> QED BY <2>3, <2>4
<1> QED BY <1>1

\* What holds of the first n, and with n of n + 1, ...
LEMMA CountUp ==
  ASSUME NEW n \in Nat, NEW S, 0 \in S, \A i \in 0..(n - 1) : i \in S => i + 1 \in S
  PROVE  \A i \in 0..n : i \in S
<1> SUFFICES ASSUME NEW k \in 0..n, k \notin S PROVE FALSE
  OBVIOUS
<1> DEFINE bad == {T \in SUBSET (1..n) : \E i \in 0..n : T = 1..i /\ i \notin S}
<1>1. IsFiniteSet(1..n)
  BY FS_Interval
<1>2. 1..k \in bad
  OBVIOUS
<1>3. PICK T \in bad : \A x \in T : T \ {x} \notin bad
  <2>1. bad # {} /\ bad \in SUBSET (SUBSET (1..n))
    BY <1>2
  <2> HIDE DEF bad
  <2> QED BY <1>1, <2>1, SmallestSubset
<1>4. PICK i \in 0..n : T = 1..i /\ i \notin S
  BY <1>3
<1>5. i \in 1..n /\ i - 1 \in 0..(n - 1) /\ i - 1 \in 0..n /\ i = (i - 1) + 1
  BY <1>4
<1>6. T \ {i} = 1..(i - 1) /\ i \in T
  BY <1>4, <1>5
<1>7. i - 1 \in S
  BY <1>3, <1>5, <1>6
<1> QED BY <1>4, <1>5, <1>7

\* A function of which that is known only while its values are in M.
FoldsUpIn(c, M, step, base, s) ==
  /\ c[{}] = base
  /\ \A T \in SUBSET DOMAIN s : T # {} /\ c[T \ {Max(T)}] \in M
       => c[T] = step[<<c[T \ {Max(T)}], s[Max(T)]>>]

\* The values on the way to v.
Traced(v, M, step, base, s) ==
  \E h \in [0..Len(s) -> M] :
    /\ h[0] = base
    /\ \A i \in 1..Len(s) : h[i] = step[<<h[i - 1], s[i]>>]
    /\ v = h[Len(s)]

\* A fold whose steps stay in M goes through values of M, one for each place of s.
LEMMA FoldRuns ==
  ASSUME NEW M, NEW E, NEW step \in [M \X E -> M], NEW base \in M, NEW s \in Seq(E),
         NEW c, FoldsUpIn(c, M, step, base, s)
  PROVE  Traced(c[DOMAIN s], M, step, base, s)
<1>10. /\ c[{}] = base
      /\ \A T \in SUBSET DOMAIN s : T # {} /\ c[T \ {Max(T)}] \in M
           => c[T] = step[<<c[T \ {Max(T)}], s[Max(T)]>>]
  BY DEF FoldsUpIn
<1> DEFINE n == Len(s)
<1>0. n \in Nat /\ DOMAIN s = 1..n /\ \A i \in 1..n : s[i] \in E
  OBVIOUS
<1> HIDE DEF n
<1> DEFINE h == [i \in 0..n |-> c[1..i]]
<1>1. h[0] = base
  <2>1. 1..0 = {}
    OBVIOUS
  <2> QED BY <2>1, <1>0, <1>10
<1>2. ASSUME NEW i \in 1..n, h[i - 1] \in M PROVE h[i] = step[<<h[i - 1], s[i]>>] /\ h[i] \in M
  <2>1. IsFiniteSet(1..i) /\ 1..i \subseteq Int /\ 1..i # {} /\ i \in 1..i
    <3>1. i \in Int /\ 1 \in Int /\ i \in 1..i
      BY <1>0
    <3>2. IsFiniteSet(1..i)
      BY <3>1, FS_Interval
    <3>3. 1..i \subseteq Int
      OBVIOUS
    <3>4. 1..i # {} /\ i \in 1..i
      BY <3>1
    <3> QED BY <3>2, <3>3, <3>4, Zenon
  <2>2. Max(1..i) = i
    <3> DEFINE U == 1..i
    <3>1. IsFiniteSet(U) /\ U \subseteq Int /\ U # {} /\ i \in U
      BY <2>1
    <3>2. \A k \in U : k <= i /\ k \in Int
      BY <1>0
    <3> HIDE DEF U
    <3>3. Max(U) \in U /\ i <= Max(U)
      BY <3>1, MaxIsIn
    <3>4. Max(U) <= i /\ Max(U) \in Int /\ i \in Int
      BY <3>2, <3>1, <3>3
    <3>5. Max(U) = i
      BY <3>3, <3>4
    <3> QED BY <3>5 DEF U
  <2>3. (1..i) \ {i} = 1..(i - 1) /\ 1..i \in SUBSET DOMAIN s
    BY <1>0
  <2>4. h[i] = c[1..i] /\ h[i - 1] = c[1..(i - 1)]
    BY <1>0
  <2>5. c[1..i] = step[<<c[1..(i - 1)], s[i]>>]
    BY <2>1, <2>2, <2>3, <2>4, <1>2, <1>10
  <2> QED BY <2>4, <2>5, <1>2, <1>0
<1>3. \A i \in 0..n : h[i] \in M
  <2> DEFINE S == {i \in 0..n : h[i] \in M}
  <2>1. 0 \in S
    BY <1>0, <1>1
  <2>2. \A i \in 0..(n - 1) : i \in S => i + 1 \in S
    <3> SUFFICES ASSUME NEW i \in 0..(n - 1), i \in S PROVE i + 1 \in S
      OBVIOUS
    <3> DEFINE j == i + 1
    <3>1. j \in 1..n /\ j - 1 = i /\ j \in 0..n
      BY <1>0
    <3>2. h[j - 1] \in M
      BY <3>1
    <3> HIDE DEF h, j
    <3>3. h[j] \in M
      BY <3>1, <3>2, <1>2
    <3> QED BY <3>1, <3>3 DEF j
  <2> HIDE DEF S
  <2>3. \A i \in 0..n : i \in S
    BY <2>1, <2>2, <1>0, CountUp
  <2> QED BY <2>3 DEF S
<1>4. h \in [0..n -> M]
  BY <1>3
<1>5. \A i \in 1..n : h[i] = step[<<h[i - 1], s[i]>>]
  <2> SUFFICES ASSUME NEW i \in 1..n PROVE h[i] = step[<<h[i - 1], s[i]>>]
    OBVIOUS
  <2>1. i - 1 \in 0..n
    BY <1>0
  <2> HIDE DEF h
  <2> QED BY <2>1, <1>2, <1>3
<1>6. c[DOMAIN s] = h[n]
  <2>1. DOMAIN s = 1..n /\ n \in 0..n
    BY <1>0
  <2> QED BY <2>1
<1> HIDE DEF h
<1> QED BY <1>1, <1>4, <1>5, <1>6 DEF n, Traced

\* The last of some places of a sequence.
LEMMA MaxOfPlaces ==
  ASSUME NEW E, NEW s \in Seq(E), NEW T \in SUBSET DOMAIN s, T # {}
  PROVE  Max(T) \in T /\ s[Max(T)] \in E /\ T \ {Max(T)} \in SUBSET DOMAIN s
<1>1. Len(s) \in Nat /\ DOMAIN s = 1..Len(s) /\ \A i \in DOMAIN s : s[i] \in E
  OBVIOUS
<1>2. IsFiniteSet(1..Len(s))
  BY <1>1, FS_Interval
<1>3. IsFiniteSet(T) /\ T \subseteq Int
  BY <1>1, <1>2, FS_Subset
<1>4. Max(T) \in T
  BY <1>3, MaxIsIn
<1> QED BY <1>1, <1>4
==============================================================================
