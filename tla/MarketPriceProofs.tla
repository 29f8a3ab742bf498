-------------------------- MODULE MarketPriceProofs ---------------------------
(***************************************************************************)
(* Proofs about marketprice: the deals are handled in order, none lost     *)
(* between the consumer's thread and the loop (Inv); and what is kept in   *)
(* memory and in Redis is what the deals handled, and those up to the      *)
(* stored offset, make of it (KeptInv).                                    *)
(***************************************************************************)
EXTENDS MarketPriceProps, SumLemmas, SequenceTheorems, TLAPS

\* The list of the consumer, as a sequence.
LEMMA BetweenIsSeq ==
  ASSUME NEW a \in Nat, NEW b \in Nat, a < b
  PROVE  /\ Between(a, b) \in Seq(Nat)
         /\ Len(Between(a, b)) = b - 1 - a
         /\ Between(a, b) = <<>> <=> b = a + 1
<1>1. b - 1 - a \in Nat
  OBVIOUS
<1>2. Between(a, b) \in Seq(Nat) /\ Len(Between(a, b)) = b - 1 - a
  BY <1>1 DEF Between
<1> QED BY <1>1, <1>2

\* Appending the next offset.
LEMMA BetweenAppend ==
  ASSUME NEW a \in Nat, NEW b \in Nat, a < b
  PROVE  Append(Between(a, b), b) = Between(a, b + 1)
<1>1. /\ Append(Between(a, b), b) \in Seq(Nat)
      /\ Len(Append(Between(a, b), b)) = b - a
      /\ \A i \in 1..(b - a) : Append(Between(a, b), b)[i] = a + i
  BY BetweenIsSeq DEF Between
<1>2. /\ Between(a, b + 1) \in Seq(Nat)
      /\ Len(Between(a, b + 1)) = b - a
      /\ \A i \in 1..(b - a) : Between(a, b + 1)[i] = a + i
  BY BetweenIsSeq DEF Between
<1> QED BY <1>1, <1>2, SeqEqual

\* Taking the oldest one away.
LEMMA BetweenTail ==
  ASSUME NEW a \in Nat, NEW b \in Nat, a < b, Between(a, b) # <<>>
  PROVE  /\ a + 1 < b
         /\ Head(Between(a, b)) = a + 1
         /\ Tail(Between(a, b)) = Between(a + 1, b)
<1>1. a + 1 < b
  BY BetweenIsSeq
<1>2. /\ Tail(Between(a, b)) \in Seq(Nat)
      /\ Len(Tail(Between(a, b))) = b - 2 - a
      /\ \A i \in 1..(b - 2 - a) : Tail(Between(a, b))[i] = a + 1 + i
  BY <1>1, BetweenIsSeq DEF Between
<1>3. /\ Between(a + 1, b) \in Seq(Nat)
      /\ Len(Between(a + 1, b)) = b - 2 - a
      /\ \A i \in 1..(b - 2 - a) : Between(a + 1, b)[i] = a + 1 + i
  BY <1>1, BetweenIsSeq DEF Between
<1>4. Head(Between(a, b)) = a + 1
  BY <1>1, BetweenIsSeq DEF Between
<1>5. Tail(Between(a, b)) = Between(a + 1, b)
  BY <1>2, <1>3, SeqEqual
<1> QED BY <1>1, <1>4, <1>5
------------------------------------------------------------------------------
(* The k-line of some deals                                                 *)

\* The type of a k-line of deals.
Candle == [open : Nat \ {0}, close : Nat \ {0}, high : Nat \ {0}, low : Nat \ {0}, volume : Nat, deal : Nat]

Deals == [time : Clock, price : Prices, amount : Amounts]

\* The greatest and the smallest number of a finite set are in it.
LEMMA MaxIs ==
  ASSUME NEW S \in SUBSET Nat, IsFiniteSet(S), S # {}
  PROVE  /\ Max(S) \in S /\ \A y \in S : Max(S) >= y
         /\ Min(S) \in S /\ \A y \in S : Min(S) <= y
<1> DEFINE ends(T) == \E x, z \in T : \A y \in T : x >= y /\ z <= y
<1>1. ends(S)
  <2> DEFINE bad == {T \in SUBSET S : T # {} /\ ~ends(T)}
  <2> SUFFICES ASSUME bad # {} PROVE FALSE
    OBVIOUS
  <2>1. PICK T \in bad : \A x \in T : T \ {x} \notin bad
    BY SmallestSubset
  <2>2. PICK e \in T : TRUE
    OBVIOUS
  <2>3. T \ {e} = {} \/ ends(T \ {e})
    BY <2>1, <2>2
  <2>4. CASE T \ {e} = {}
    <3>1. T = {e} /\ e \in Nat
      BY <2>4, <2>1, <2>2
    <3> QED BY <2>1, <3>1
  <2>5. CASE ends(T \ {e})
    <3>1. PICK x \in T \ {e}, z \in T \ {e} : \A y \in T \ {e} : x >= y /\ z <= y
      BY <2>5
    <3>2. e \in Nat /\ x \in Nat /\ z \in Nat /\ T \subseteq Nat
      BY <2>1, <2>2
    <3> DEFINE a == IF x >= e THEN x ELSE e  b == IF z <= e THEN z ELSE e
    <3>3. a \in T /\ b \in T /\ \A y \in T : a >= y /\ b <= y
      <4>1. a \in {x, e} /\ b \in {z, e} /\ a \in Nat /\ b \in Nat /\ a >= x /\ a >= e /\ b <= z /\ b <= e
        <5> HIDE DEF ends, bad
        <5> QED BY <3>2
      <4>2. ASSUME NEW y \in T PROVE a >= y /\ b <= y
        <5>1. CASE y = e
          BY <4>1, <5>1
        <5>2. CASE y # e
          <6>1. x >= y /\ z <= y /\ y \in Nat
            BY <3>1, <3>2, <5>2
          <6> HIDE DEF a, b, ends, bad
          <6>2. a >= y
            BY <3>2, <4>1, <6>1
          <6>3. b <= y
            BY <3>2, <4>1, <6>1
          <6> QED BY <6>2, <6>3
        <5> QED BY <5>1, <5>2
      <4>3. a \in T /\ b \in T
        BY <2>2, <3>1, <4>1
      <4> QED BY <4>2, <4>3
    <3> QED BY <2>1, <3>3
  <2> QED BY <2>3, <2>4, <2>5
<1> QED BY <1>1 DEF Max, Min

\* Numbers up to n are finitely many.
LEMMA FiniteUpTo == ASSUME NEW n \in Nat, NEW D, D \subseteq 1..n PROVE IsFiniteSet(D)
<1>1. IsFiniteSet(1..n)
  BY FS_Interval
<1> QED BY <1>1, FS_Subset

\* The k-line of the deals at some places of a sequence of deals.
KlineIn(d, ids) ==
  IF ids = {} THEN NoKline
  ELSE [open   |-> d[Min(ids)].price,
        close  |-> d[Max(ids)].price,
        high   |-> Max({d[i].price : i \in ids}),
        low    |-> Min({d[i].price : i \in ids}),
        volume |-> SumFunction([i \in ids |-> d[i].amount]),
        deal   |-> SumFunction([i \in ids |-> d[i].price * d[i].amount])]

\* The k-line of the properties is that of the deals of the topic.
LEMMA KlineOfIs == ASSUME NEW ids PROVE KlineOf(ids) = KlineIn(topic, ids)
  BY DEF KlineOf, KlineIn

\* The numbers of a deal.
LEMMA DealFields ==
  ASSUME NEW d \in Deals
  PROVE  d.price \in Nat \ {0} /\ d.amount \in Nat \ {0} /\ d.time \in Nat /\ d.price * d.amount \in Nat
<1>1. d.price \in Prices /\ d.amount \in Amounts /\ d.time \in Clock
  BY DEF Deals
<1>2. d.price \in Nat \ {0} /\ d.amount \in Nat \ {0} /\ d.time \in Nat
  BY <1>1, ConsumerAssumption
<1> QED BY <1>2

\* What sets of deals have in common.
LEMMA IdsAre ==
  ASSUME NEW n \in Nat, NEW ids \in SUBSET (1..n), NEW d, \A i \in ids : d[i] \in Deals
  PROVE  /\ IsFiniteSet(ids) /\ ids \subseteq Nat
         /\ IsFiniteSet({d[i].price : i \in ids}) /\ {d[i].price : i \in ids} \subseteq Nat \ {0}
         /\ \A i \in ids : d[i].amount \in Nat /\ d[i].price \in Nat \ {0} /\ d[i].price * d[i].amount \in Nat
<1>1. IsFiniteSet(ids) /\ ids \subseteq Nat
  <2>1. ids \subseteq 1..n
    OBVIOUS
  <2>2. 1..n \subseteq Nat
    OBVIOUS
  <2> QED BY <2>1, <2>2, FiniteUpTo, Zenon
<1>2. \A i \in ids : d[i].amount \in Nat /\ d[i].price \in Nat \ {0} /\ d[i].price * d[i].amount \in Nat
  BY DealFields
<1>3. IsFiniteSet({d[i].price : i \in ids})
  <2> DEFINE f == [i \in ids |-> d[i].price]
  <2>1. f \in Surjection(ids, {d[i].price : i \in ids})
    BY DEF Surjection
  <2> QED BY <2>1, <1>1, FS_Surjection
<1> QED BY <1>1, <1>2, <1>3

\* The k-line of no deal, and of the same deals.
LEMMA KlineSame ==
  ASSUME NEW n \in Nat, NEW ids \in SUBSET (1..n), NEW d, NEW e, \A i \in ids : d[i] \in Deals /\ e[i] = d[i]
  PROVE  KlineIn(e, ids) = KlineIn(d, ids)
<1>1. CASE ids = {}
  BY <1>1 DEF KlineIn
<1>2. CASE ids # {}
  <2>1. {e[i].price : i \in ids} = {d[i].price : i \in ids}
    OBVIOUS
  <2>2. [i \in ids |-> e[i].amount] = [i \in ids |-> d[i].amount]
    OBVIOUS
  <2>3. [i \in ids |-> e[i].price * e[i].amount] = [i \in ids |-> d[i].price * d[i].amount]
    OBVIOUS
  <2>4. Min(ids) \in ids /\ Max(ids) \in ids
    BY <1>2, IdsAre, MaxIs
  <2> QED BY <1>2, <2>1, <2>2, <2>3, <2>4 DEF KlineIn
<1> QED BY <1>1, <1>2

\* A k-line has its type, and NoKline is that of no deals.
LEMMA KlineType ==
  ASSUME NEW n \in Nat, NEW ids \in SUBSET (1..n), NEW d, \A i \in ids : d[i] \in Deals
  PROVE  /\ ids = {} => KlineIn(d, ids) = NoKline
         /\ ids # {} => KlineIn(d, ids) \in Candle
<1>1. ids = {} => KlineIn(d, ids) = NoKline
  BY DEF KlineIn
<1>2. ASSUME ids # {} PROVE KlineIn(d, ids) \in Candle
  <2>0. /\ IsFiniteSet(ids) /\ ids \subseteq Nat
        /\ IsFiniteSet({d[i].price : i \in ids}) /\ {d[i].price : i \in ids} \subseteq Nat \ {0}
        /\ \A i \in ids : d[i].amount \in Nat /\ d[i].price \in Nat \ {0} /\ d[i].price * d[i].amount \in Nat
    BY IdsAre
  <2> DEFINE P == {d[i].price : i \in ids}  f == [i \in ids |-> d[i].amount]
             g == [i \in ids |-> d[i].price * d[i].amount]
  <2>1. /\ IsFiniteSet(ids) /\ ids \subseteq Nat /\ IsFiniteSet(P) /\ P \in SUBSET (Nat \ {0})
        /\ \A i \in ids : f[i] \in Nat /\ g[i] \in Nat /\ d[i].price \in Nat \ {0}
    <3>1. /\ IsFiniteSet(ids) /\ ids \subseteq Nat /\ IsFiniteSet(P) /\ P \subseteq Nat \ {0}
          /\ \A i \in ids : d[i].amount \in Nat /\ d[i].price \in Nat \ {0} /\ d[i].price * d[i].amount \in Nat
      BY <2>0
    <3>2. \A i \in ids : f[i] = d[i].amount /\ g[i] = d[i].price * d[i].amount
      OBVIOUS
    <3> HIDE DEF P, f, g
    <3> QED BY <3>1, <3>2
  <2>2. Min(ids) \in ids /\ Max(ids) \in ids
    BY <1>2, <2>1, MaxIs
  <2>3. P # {}
    BY <1>2
  <2>4. Min(P) \in P /\ Max(P) \in P
    <3> HIDE DEF P
    <3>1. P \in SUBSET Nat
      BY <2>1
    <3> QED BY <2>1, <2>3, <3>1, MaxIs
  <2>5. DOMAIN f = ids /\ DOMAIN g = ids
    OBVIOUS
  <2>6. SumFunction(f) \in Nat /\ SumFunction(g) \in Nat
    <3> HIDE DEF f, g
    <3> QED BY <2>1, <2>5, SumOfNat DEF SumFunction
  <2>7. KlineIn(d, ids) = [open |-> d[Min(ids)].price, close |-> d[Max(ids)].price, high |-> Max(P), low |-> Min(P),
                           volume |-> SumFunction(f), deal |-> SumFunction(g)]
    BY <1>2 DEF KlineIn
  <2>8. d[Min(ids)].price \in Nat \ {0} /\ d[Max(ids)].price \in Nat \ {0}
    BY <2>1, <2>2
  <2>9. Max(P) \in Nat \ {0} /\ Min(P) \in Nat \ {0}
    BY <2>1, <2>4
  <2> HIDE DEF P, f, g
  <2> QED BY <2>6, <2>7, <2>8, <2>9 DEF Candle
<1> QED BY <1>1, <1>2

\* What a deal makes of a k-line, or of none (market_update).
Traded(k, price, amount) == kline_info_update(IF k = NoKline THEN kline_info_new(price) ELSE k, price, amount)

\* The fields of a k-line after a deal.
LEMMA TradedIs ==
  ASSUME NEW k \in Candle \cup {NoKline}, NEW p \in Nat \ {0}, NEW a \in Nat, p * a \in Nat
  PROVE  Traded(k, p, a) =
           IF k = NoKline
           THEN [open |-> p, close |-> p, high |-> p, low |-> p, volume |-> a, deal |-> p * a]
           ELSE [open |-> k.open, close |-> p, high |-> Higher(p, k.high), low |-> Lower(p, k.low),
                 volume |-> k.volume + a, deal |-> k.deal + p * a]
<1> DEFINE w == p * a
<1>0. w \in Nat
  OBVIOUS
<1>1. CASE k = NoKline
  <2> DEFINE new == [open |-> p, close |-> p, high |-> p, low |-> p, volume |-> 0, deal |-> 0]
  <2>1. Traded(k, p, a) = [new EXCEPT !.close = p, !.high = Higher(p, @), !.low = Lower(p, @),
                                      !.volume = @ + a, !.deal = @ + w]
    BY <1>1 DEF Traded, kline_info_update, kline_info_new
  <2> HIDE DEF w
  <2>2. Higher(p, p) = p /\ Lower(p, p) = p /\ 0 + a = a /\ 0 + w = w
    BY <1>0 DEF Higher, Lower
  <2>3. Traded(k, p, a) = [open |-> p, close |-> p, high |-> Higher(p, p), low |-> Lower(p, p), volume |-> 0 + a, deal |-> 0 + w]
    BY <2>1
  <2> QED BY <1>1, <2>2, <2>3 DEF w
<1>2. CASE k # NoKline
  <2>1. k \in Candle
    BY <1>2
  <2>2. k = [open |-> k.open, close |-> k.close, high |-> k.high, low |-> k.low, volume |-> k.volume, deal |-> k.deal]
    BY <2>1 DEF Candle
  <2>3. Traded(k, p, a) = [k EXCEPT !.close = p, !.high = Higher(p, @), !.low = Lower(p, @),
                                    !.volume = @ + a, !.deal = @ + w]
    BY <1>2 DEF Traded, kline_info_update
  <2> HIDE DEF w
  <2>4. Traded(k, p, a) = [open |-> k.open, close |-> p, high |-> Higher(p, k.high), low |-> Lower(p, k.low),
                           volume |-> k.volume + a, deal |-> k.deal + w]
    BY <2>2, <2>3
  <2> QED BY <1>2, <2>4 DEF w
<1> QED BY <1>1, <1>2

\* A k-line of deals and one deal more.
LEMMA KlineWith ==
  ASSUME NEW n \in Nat, NEW ids \in SUBSET (1..n), NEW d, \A i \in ids \cup {n + 1} : d[i] \in Deals
  PROVE  KlineIn(d, ids \cup {n + 1}) = Traded(KlineIn(d, ids), d[n + 1].price, d[n + 1].amount)
<1>2. /\ IsFiniteSet(ids) /\ ids \subseteq Nat
      /\ IsFiniteSet({d[i].price : i \in ids}) /\ {d[i].price : i \in ids} \subseteq Nat \ {0}
      /\ \A i \in ids : d[i].amount \in Nat /\ d[i].price \in Nat \ {0} /\ d[i].price * d[i].amount \in Nat
  BY IdsAre
<1>3. /\ IsFiniteSet(ids \cup {n + 1}) /\ ids \cup {n + 1} \subseteq Nat
      /\ IsFiniteSet({d[i].price : i \in ids \cup {n + 1}}) /\ {d[i].price : i \in ids \cup {n + 1}} \subseteq Nat \ {0}
      /\ \A i \in ids \cup {n + 1} : d[i].amount \in Nat /\ d[i].price \in Nat \ {0} /\ d[i].price * d[i].amount \in Nat
  <2>1. n + 1 \in Nat /\ ids \cup {n + 1} \in SUBSET (1..(n + 1))
    OBVIOUS
  <2> QED BY <2>1, IdsAre
<1> DEFINE x == n + 1  p == d[x].price  a == d[x].amount  new == ids \cup {x}  k == KlineIn(d, ids)
           P == {d[i].price : i \in ids}  Q == {d[i].price : i \in new}
           f == [i \in ids |-> d[i].amount]          g == [i \in ids |-> d[i].price * d[i].amount]
           F == [i \in new |-> d[i].amount]          G == [i \in new |-> d[i].price * d[i].amount]
<1>20. /\ IsFiniteSet(P) /\ P \in SUBSET (Nat \ {0}) /\ P \in SUBSET Nat
       /\ IsFiniteSet(Q) /\ Q \in SUBSET (Nat \ {0}) /\ Q \in SUBSET Nat
  BY <1>2, <1>3
<1>1. x \in Nat /\ x \notin ids /\ new \in SUBSET (1..x) /\ new # {} /\ ids \in SUBSET (1..x)
  OBVIOUS
<1>4. p \in Nat \ {0} /\ a \in Nat /\ p * a \in Nat /\ Q = P \cup {p}
  BY <1>3
<1>5. k \in Candle \cup {NoKline} /\ (k = NoKline <=> ids = {})
  <2>1. \A c \in Candle : c # NoKline
    BY DEF Candle, NoKline, kline_info_new
  <2> QED BY <2>1, KlineType
<1>6. KlineIn(d, new) = [open |-> d[Min(new)].price, close |-> d[Max(new)].price, high |-> Max(Q), low |-> Min(Q),
                         volume |-> SumFunction(F), deal |-> SumFunction(G)]
  BY <1>1 DEF KlineIn
<1>7. Max(new) = x
  <2>1. Max(new) \in new /\ \A y \in new : Max(new) >= y
    BY <1>1, <1>3, MaxIs
  <2>2. Max(new) >= x /\ Max(new) \in 1..x
    BY <1>1, <2>1
  <2> QED BY <1>1, <2>2
<1>8. SumFunction(F) = SumFunctionOnSet(f, ids) + a /\ SumFunction(G) = SumFunctionOnSet(g, ids) + p * a
  <2>1. /\ DOMAIN F = new /\ DOMAIN G = new /\ F[x] = a /\ G[x] = p * a
        /\ \A i \in ids : F[i] = f[i] /\ G[i] = g[i] /\ f[i] \in Int /\ g[i] \in Int
    BY <1>2
  <2>2. SumFunction(F) = SumFunctionOnSet(F, new) /\ SumFunction(G) = SumFunctionOnSet(G, new)
    BY <2>1 DEF SumFunction
  <2> DEFINE w == p * a
  <2>3. w \in Int /\ G[x] = w
    BY <1>4, <2>1
  <2> HIDE DEF F, G, f, g, w, p, a, x
  <2>4. SumFunctionOnSet(F, ids) = SumFunctionOnSet(f, ids) /\ SumFunctionOnSet(G, ids) = SumFunctionOnSet(g, ids)
    BY <1>2, <2>1, SumSame
  <2>5. SumFunctionOnSet(F, new) = SumFunctionOnSet(F, ids) + F[x]
    <3>1. F[x] \in Int /\ \A i \in ids : F[i] \in Int
      BY <1>4, <2>1
    <3> QED BY <1>1, <1>2, <3>1, SumWith
  <2>6. SumFunctionOnSet(G, new) = SumFunctionOnSet(G, ids) + G[x]
    <3>1. G[x] \in Int /\ \A i \in ids : G[i] \in Int
      BY <2>1, <2>3
    <3> QED BY <1>1, <1>2, <3>1, SumWith
  <2> QED BY <2>1, <2>2, <2>3, <2>4, <2>5, <2>6 DEF w
<1>9. CASE ids = {}
  <2>1. new = {x} /\ Q = {p}
    BY <1>4, <1>9
  <2>2. Min(new) = x /\ Max(Q) = p /\ Min(Q) = p
    <3>1. Min(new) \in new
      BY <1>1, <1>3, MaxIs
    <3> HIDE DEF Q
    <3>2. Q # {} /\ Q \in SUBSET Nat /\ IsFiniteSet(Q)
      BY <1>3, <2>1
    <3>3. Max(Q) \in Q /\ Min(Q) \in Q
      BY <3>2, MaxIs
    <3> QED BY <2>1, <3>1, <3>3
  <2>3. SumFunctionOnSet(f, ids) = 0 /\ SumFunctionOnSet(g, ids) = 0
    BY <1>9, SumOfNone
  <2> DEFINE w == p * a
  <2>4. SumFunction(F) = a /\ SumFunction(G) = w
    <3>1. w \in Nat /\ SumFunction(G) = SumFunctionOnSet(g, ids) + w
      BY <1>4, <1>8
    <3> HIDE DEF F, G, w, p, a
    <3> QED BY <1>4, <1>8, <2>3, <3>1
  <2>5. Traded(k, p, a) = [open |-> p, close |-> p, high |-> p, low |-> p, volume |-> a, deal |-> w]
    <3> HIDE DEF k, p, a
    <3> QED BY <1>4, <1>5, <1>9, TradedIs
  <2>6. KlineIn(d, new) = [open |-> p, close |-> p, high |-> p, low |-> p, volume |-> a, deal |-> w]
    <3> HIDE DEF F, G, w, Q, new, x
    <3> QED BY <1>6, <1>7, <2>2, <2>4 DEF p
  <2> QED BY <2>5, <2>6
<1>10. CASE ids # {}
  <2>1. k = [open |-> d[Min(ids)].price, close |-> d[Max(ids)].price, high |-> Max(P), low |-> Min(P),
             volume |-> SumFunction(f), deal |-> SumFunction(g)]
    BY <1>10 DEF KlineIn
  <2>2. SumFunction(f) = SumFunctionOnSet(f, ids) /\ SumFunction(g) = SumFunctionOnSet(g, ids)
    BY DEF SumFunction
  <2>3. Min(new) = Min(ids)
    <3>1. Min(ids) \in ids /\ \A y \in ids : Min(ids) <= y
      BY <1>2, <1>10, MaxIs
    <3>2. Min(new) \in new /\ \A y \in new : Min(new) <= y
      BY <1>1, <1>3, MaxIs
    <3>3. Min(ids) \in 1..n
      BY <3>1
    <3>4. Min(new) <= Min(ids) /\ Min(new) # x
      BY <1>1, <3>1, <3>2, <3>3
    <3>5. Min(new) \in ids
      BY <3>2, <3>4
    <3> QED BY <3>1, <3>3, <3>4, <3>5, <1>2
  <2>4. Max(Q) = Higher(p, Max(P)) /\ Min(Q) = Lower(p, Min(P))
    <3>1. P # {} /\ Q # {}
      BY <1>10
    <3> HIDE DEF P, Q
    <3>2. P \in SUBSET Nat /\ Q \in SUBSET Nat
      BY <1>20
    <3>3. /\ Max(P) \in P /\ Min(P) \in P /\ \A y \in P : Max(P) >= y /\ Min(P) <= y
      BY <1>20, <3>1, <3>2, MaxIs
    <3>4. /\ Max(Q) \in Q /\ Min(Q) \in Q /\ \A y \in Q : Max(Q) >= y /\ Min(Q) <= y
      BY <1>20, <3>1, <3>2, MaxIs
    <3>5. Max(Q) >= p /\ Min(Q) <= p /\ Max(Q) >= Max(P) /\ Min(Q) <= Min(P) /\ p \in Nat
          /\ Max(P) \in Nat /\ Min(P) \in Nat /\ Max(Q) \in Nat /\ Min(Q) \in Nat
      BY <1>4, <3>2, <3>3, <3>4
    <3>6. /\ Max(Q) = p \/ Max(Q) <= Max(P)
          /\ Min(Q) = p \/ Min(Q) >= Min(P)
      BY <1>4, <3>2, <3>3, <3>4
    <3> HIDE DEF p
    <3> QED BY <3>5, <3>6 DEF Higher, Lower
  <2> DEFINE w == p * a
  <2>5. Traded(k, p, a) = [open |-> k.open, close |-> p, high |-> Higher(p, k.high), low |-> Lower(p, k.low),
                           volume |-> k.volume + a, deal |-> k.deal + w]
    <3> HIDE DEF k, p, a
    <3> QED BY <1>4, <1>5, <1>10, TradedIs
  <2>6. /\ k.open = d[Min(ids)].price /\ k.high = Max(P) /\ k.low = Min(P) /\ k.volume = SumFunction(f) /\ k.deal = SumFunction(g)
    <3> HIDE DEF k, P, f, g
    <3> QED BY <2>1
  <2>7. SumFunction(G) = SumFunction(g) + w /\ SumFunction(F) = SumFunction(f) + a
    BY <1>8, <2>2
  <2>8. KlineIn(d, new) = [open |-> k.open, close |-> p, high |-> Higher(p, k.high), low |-> Lower(p, k.low),
                           volume |-> k.volume + a, deal |-> k.deal + w]
    <3> HIDE DEF F, G, f, g, w, P, Q, new, x, k, a
    <3> QED BY <1>6, <1>7, <2>3, <2>4, <2>6, <2>7 DEF p
  <2> QED BY <2>5, <2>8
<1> QED BY <1>9, <1>10, Zenon
------------------------------------------------------------------------------
(* Buckets                                                                  *)

\* Every table has buckets of some width.
LEMMA WidthIs == \A type \in Types : Width[type] \in Nat \ {0}
  BY KlineAssumption DEF Types, Width

\* A time is in its bucket, and in no other.
LEMMA FloorIs ==
  ASSUME NEW w \in Nat \ {0}, NEW t \in Nat
  PROVE  Floor(t, w) \in Nat /\ Floor(t, w) <= t /\ t < Floor(t, w) + w /\ \E q \in Nat : Floor(t, w) = q * w
<1>1. PICK q \in Int : q = t \div w
  OBVIOUS
<1>2. PICK r \in Int : r = t % w
  OBVIOUS
<1>3. t = w * q + r /\ 0 <= r /\ r < w
  BY <1>1, <1>2
<1>4. q \in Nat
  BY <1>1
<1>5. PICK x \in Nat : x = q * w
  BY <1>4
<1>6. w * q = x
  BY <1>4, <1>5
<1>7. Floor(t, w) = x
  BY <1>1, <1>5 DEF Floor
<1> QED BY <1>3, <1>4, <1>5, <1>6, <1>7

\* A time has one bucket of a width only.
LEMMA FloorOnly ==
  ASSUME NEW w \in Nat \ {0}, NEW t \in Nat, NEW q \in Nat, q * w <= t, t < q * w + w
  PROVE  Floor(t, w) = q * w
<1>1. PICK p \in Nat : Floor(t, w) = p * w /\ p * w <= t /\ t < p * w + w
  BY FloorIs
<1>2. p * w < (q + 1) * w /\ q * w < (p + 1) * w
  BY <1>1
<1>3. p < q + 1
  BY <1>2
<1>4. q < p + 1
  BY <1>2
<1>5. p = q
  BY <1>3, <1>4
<1> QED BY <1>1, <1>5

\* Starts of buckets, and the key of a deal's bucket in a table.
IsKey(key) == /\ \E type \in Types, t \in Nat : key = <<type, t>>
              /\ Bucket(key[1], key[2]) = key[2]

InBucket(key, t) == key[2] <= t /\ t < key[2] + Width[key[1]]

\* The parts of a key.
LEMMA KeyFields ==
  ASSUME NEW key, IsKey(key)
  PROVE  key[1] \in Types /\ key[2] \in Nat /\ key = <<key[1], key[2]>> /\ Width[key[1]] \in Nat \ {0}
  BY WidthIs DEF IsKey

\* The bucket of a time is a key, ...
LEMMA BucketIsKey ==
  ASSUME NEW type \in Types, NEW t \in Nat
  PROVE  IsKey(<<type, Bucket(type, t)>>) /\ Bucket(type, t) \in Nat
<1>1. Width[type] \in Nat \ {0}
  BY WidthIs
<1>2. PICK w \in Nat \ {0} : w = Width[type]
  BY <1>1
<1>3. PICK q \in Nat : Floor(t, w) = q * w /\ Floor(t, w) \in Nat
  BY FloorIs
<1>4. PICK x \in Nat : x = q * w
  OBVIOUS
<1>5. q * w <= x /\ x < q * w + w
  BY <1>4
<1>6. Floor(x, w) = q * w
  BY <1>5, FloorOnly
<1>7. Bucket(type, t) = x /\ Bucket(type, x) = x
  BY <1>2, <1>3, <1>4, <1>6 DEF Bucket
<1> QED BY <1>7 DEF IsKey

\* ... and the only one the time is in.
LEMMA InBucketIs ==
  ASSUME NEW key, IsKey(key), NEW t \in Nat
  PROVE  InBucket(key, t) <=> key[2] = Bucket(key[1], t)
<1>1. PICK w \in Nat \ {0} : w = Width[key[1]]
  BY KeyFields
<1>2. PICK s \in Nat : s = key[2]
  BY KeyFields
<1>3. Floor(s, w) = s
  BY <1>1, <1>2 DEF IsKey, Bucket
<1>4. PICK q \in Nat : s = q * w
  BY <1>3, FloorIs
<1>5. Floor(t, w) <= t /\ t < Floor(t, w) + w
  BY FloorIs
<1>6. InBucket(key, t) <=> s <= t /\ t < s + w
  BY <1>1, <1>2 DEF InBucket
<1>7. Bucket(key[1], t) = Floor(t, w)
  BY <1>1 DEF Bucket
<1>8. s <= t /\ t < s + w => Floor(t, w) = s
  BY <1>4, FloorOnly
<1> QED BY <1>2, <1>5, <1>6, <1>7, <1>8

\* What is expired stays so.
LEMMA ExpiredStays ==
  ASSUME NEW type \in Types, NEW t \in Nat, NEW a \in Nat, NEW b \in Nat, a <= b, t < Limit(type, a)
  PROVE  t < Limit(type, b)
<1>1. type # "day"
  BY DEF Limit
<1>2. PICK w \in Nat \ {0} : w = Width[type]
  BY WidthIs
<1>3. Kept[type] \in Nat
  BY <1>1, KlineAssumption DEF Types, Kept
<1>4. PICK p \in Nat : Floor(a, w) = p * w /\ p * w <= a
  BY FloorIs
<1>5. PICK q \in Nat : Floor(b, w) = q * w /\ b < q * w + w
  BY FloorIs
<1>6. Floor(a, w) <= Floor(b, w)
  <2>1. p * w < (q + 1) * w
    BY <1>4, <1>5
  <2>2. p < q + 1
    BY <2>1
  <2>3. p <= q
    BY <2>2
  <2>4. p * w <= q * w
    BY <2>3
  <2> QED BY <1>4, <1>5, <2>4
<1>7. PICK k \in Nat : k = Kept[type] * w
  BY <1>3
<1>8. Limit(type, a) = Floor(a, w) - k /\ Limit(type, b) = Floor(b, w) - k
  BY <1>1, <1>2, <1>7 DEF Limit, Bucket
<1>9. Floor(a, w) \in Nat /\ Floor(b, w) \in Nat
  BY FloorIs
<1> QED BY <1>6, <1>8, <1>9

\* The limit of a table is a number, before the first day a negative one.
LEMMA LimitType == ASSUME NEW type \in Types, NEW a \in Nat PROVE Limit(type, a) \in Int
<1>1. CASE type = "day"
  BY <1>1 DEF Limit
<1>2. CASE type # "day"
  <2>1. PICK w \in Nat \ {0} : w = Width[type]
    BY WidthIs
  <2>2. Kept[type] \in Nat
    BY <1>2, KlineAssumption DEF Types, Kept
  <2>3. PICK k \in Nat : k = Kept[type] * w
    BY <2>2
  <2>4. Limit(type, a) = Floor(a, w) - k
    BY <1>2, <2>1, <2>3 DEF Limit, Bucket
  <2> QED BY <2>4, FloorIs
<1> QED BY <1>1, <1>2
------------------------------------------------------------------------------
(* What a table has to show                                                 *)

\* The first n deals of d that belong to a key, and their k-line.
Belong(d, n, key) == {i \in 1..n : InBucket(key, d[i].time)}
DueIn(d, n, key)  == KlineIn(d, Belong(d, n, key))

\* Due is that of the topic.
LEMMA DueIs == ASSUME NEW n, NEW key PROVE Due(n, key) = DueIn(topic, n, key)
<1>1. DealsIn(n, key[2], key[2] + Width[key[1]]) = Belong(topic, n, key)
  BY DEF DealsIn, Belong, InBucket
<1> QED BY <1>1, KlineOfIs DEF Due, DueIn

\* No k-line is the one that stands for none.
LEMMA NoCandle == NoKline \notin Candle
  BY DEF Candle, NoKline, kline_info_new

\* It is a k-line, or there is none.
LEMMA DueType ==
  ASSUME NEW d \in Seq(Deals), NEW n \in 0..Len(d), NEW key
  PROVE  DueIn(d, n, key) \in Candle \cup {NoKline}
<1>1. n \in Nat /\ Belong(d, n, key) \in SUBSET (1..n) /\ \A i \in Belong(d, n, key) : d[i] \in Deals
  BY DEF Belong
<1> QED BY <1>1, KlineType DEF DueIn

\* Nothing is due of no deals.
LEMMA DueNone == ASSUME NEW d, NEW key PROVE DueIn(d, 0, key) = NoKline
<1>1. Belong(d, 0, key) = {}
  BY DEF Belong
<1> QED BY <1>1 DEF DueIn, KlineIn

\* Deals that come later do not change it.
LEMMA DueAppend ==
  ASSUME NEW d \in Seq(Deals), NEW x \in Deals, NEW n \in 0..Len(d), NEW key
  PROVE  DueIn(Append(d, x), n, key) = DueIn(d, n, key)
<1>1. \A i \in 1..n : Append(d, x)[i] = d[i] /\ d[i] \in Deals
  OBVIOUS
<1>2. Belong(Append(d, x), n, key) = Belong(d, n, key) /\ Belong(d, n, key) \in SUBSET (1..n)
  BY <1>1 DEF Belong
<1>3. n \in Nat /\ \A i \in Belong(d, n, key) : d[i] \in Deals /\ Append(d, x)[i] = d[i]
  BY <1>1, <1>2
<1> HIDE DEF Belong
<1> QED BY <1>2, <1>3, KlineSame DEF DueIn

\* The next deal changes it if it belongs to the key.
LEMMA DueNext ==
  ASSUME NEW d \in Seq(Deals), NEW n \in Nat, n + 1 <= Len(d), NEW key, IsKey(key)
  PROVE  DueIn(d, n + 1, key) =
           IF key[2] = Bucket(key[1], d[n + 1].time)
           THEN Traded(DueIn(d, n, key), d[n + 1].price, d[n + 1].amount)
           ELSE DueIn(d, n, key)
<1> DEFINE old == Belong(d, n, key)  new == Belong(d, n + 1, key)
<1>1. \A i \in 1..(n + 1) : d[i] \in Deals
  OBVIOUS
<1>2. d[n + 1] \in Deals /\ d[n + 1].time \in Nat
  BY <1>1, DealFields
<1>3. InBucket(key, d[n + 1].time) <=> key[2] = Bucket(key[1], d[n + 1].time)
  BY <1>2, InBucketIs
<1>4. old \in SUBSET (1..n) /\ \A i \in old \cup {n + 1} : d[i] \in Deals
  BY <1>1 DEF Belong
<1>5. CASE InBucket(key, d[n + 1].time)
  <2>1. new = old \cup {n + 1}
    BY <1>5 DEF Belong
  <2> HIDE DEF old, new
  <2>2. KlineIn(d, old \cup {n + 1}) = Traded(KlineIn(d, old), d[n + 1].price, d[n + 1].amount)
    BY <1>4, KlineWith
  <2> QED BY <1>3, <1>5, <2>1, <2>2 DEF DueIn, old, new
<1>6. CASE ~InBucket(key, d[n + 1].time)
  <2>1. new = old
    BY <1>6 DEF Belong
  <2> QED BY <1>3, <1>6, <2>1 DEF DueIn
<1> QED BY <1>5, <1>6
------------------------------------------------------------------------------
(* Right k-lines                                                            *)

\* A k-line shows the deals of another one, some perhaps more than once.
Covers(k, due) == due # NoKline => k.volume >= due.volume /\ k.high >= due.high /\ k.low <= due.low

\* What is shown is exactly what is due, or covers it.
Right(how, k, due) == IF how = "exact" THEN k = due ELSE Covers(k, due)

\* The numbers of a k-line.
LEMMA CandleFields ==
  ASSUME NEW k \in Candle
  PROVE  /\ k.open \in Nat \ {0} /\ k.close \in Nat \ {0} /\ k.high \in Nat \ {0} /\ k.low \in Nat \ {0}
         /\ k.volume \in Nat /\ k.deal \in Nat /\ k # NoKline
<1>1. k # NoKline
  BY NoCandle
<1> QED BY <1>1 DEF Candle

\* What shows nothing covers nothing.
LEMMA NothingCovers ==
  ASSUME NEW due \in Candle \cup {NoKline}, NEW how, Right(how, NoKline, due)
  PROVE  due = NoKline
<1> SUFFICES ASSUME due # NoKline PROVE FALSE
  OBVIOUS
<1>1. due.high \in Nat \ {0}
  BY CandleFields
<1>2. NoKline.high = 0
  BY DEF NoKline, kline_info_new
<1> QED BY <1>1, <1>2 DEF Right, Covers

\* What covers something that covers a k-line covers it too.
LEMMA CoversTwice ==
  ASSUME NEW k \in Candle \cup {NoKline}, NEW x \in Candle \cup {NoKline}, NEW y \in Candle \cup {NoKline},
         Covers(k, x), Covers(x, y)
  PROVE  Covers(k, y)
<1> SUFFICES ASSUME y # NoKline PROVE k.volume >= y.volume /\ k.high >= y.high /\ k.low <= y.low
  BY DEF Covers
<1>1. x # NoKline
  BY NothingCovers DEF Right
<1>2. k # NoKline
  <2>1. k = NoKline => Right("cover", NoKline, x)
    BY DEF Right
  <2> QED BY <1>1, <2>1, NothingCovers
<1>3. k \in Candle /\ x \in Candle /\ y \in Candle
  BY <1>1, <1>2
<1>4. /\ k.volume \in Nat /\ k.high \in Nat /\ k.low \in Nat /\ x.volume \in Nat /\ x.high \in Nat /\ x.low \in Nat
      /\ y.volume \in Nat /\ y.high \in Nat /\ y.low \in Nat
  BY <1>3, CandleFields
<1> QED BY <1>1, <1>4 DEF Covers

\* A deal makes a k-line of a k-line.
LEMMA TradedType ==
  ASSUME NEW k \in Candle \cup {NoKline}, NEW p \in Nat \ {0}, NEW a \in Nat, p * a \in Nat
  PROVE  Traded(k, p, a) \in Candle
<1> DEFINE w == p * a
<1>1. CASE k = NoKline
  <2>1. Traded(k, p, a) = [open |-> p, close |-> p, high |-> p, low |-> p, volume |-> a, deal |-> w]
    BY <1>1, TradedIs
  <2>2. w \in Nat
    OBVIOUS
  <2> HIDE DEF w
  <2> QED BY <2>1, <2>2 DEF Candle
<1>2. CASE k # NoKline
  <2>1. Traded(k, p, a) = [open |-> k.open, close |-> p, high |-> Higher(p, k.high), low |-> Lower(p, k.low),
                           volume |-> k.volume + a, deal |-> k.deal + w]
    BY <1>2, TradedIs
  <2>2. w \in Nat
    OBVIOUS
  <2>3. k \in Candle
    BY <1>2
  <2> HIDE DEF w
  <2>4. Higher(p, k.high) \in Nat \ {0} /\ Lower(p, k.low) \in Nat \ {0} /\ k.volume + a \in Nat /\ k.deal + w \in Nat
        /\ k.open \in Nat \ {0}
    BY <2>2, <2>3, CandleFields DEF Higher, Lower
  <2> QED BY <2>1, <2>4 DEF Candle
<1> QED BY <1>1, <1>2

\* What is right stays right if both get the deal.
LEMMA TradedRight ==
  ASSUME NEW k \in Candle \cup {NoKline}, NEW due \in Candle \cup {NoKline}, NEW how, Right(how, k, due),
         NEW p \in Nat \ {0}, NEW a \in Nat, p * a \in Nat
  PROVE  Right(how, Traded(k, p, a), Traded(due, p, a))
<1>1. CASE how = "exact"
  BY <1>1 DEF Right
<1>2. CASE how # "exact"
  <2> DEFINE w == p * a  x == Traded(k, p, a)  y == Traded(due, p, a)
  <2>1. Covers(k, due)
    BY <1>2 DEF Right
  <2>2. k = NoKline => due = NoKline
    BY NothingCovers
  <2>3. CASE k = NoKline
    <3>1. x = y
      BY <2>2, <2>3
    <3>2. y \in Candle
      BY TradedType
    <3>3. y.volume \in Nat /\ y.high \in Nat /\ y.low \in Nat
      BY <3>2, CandleFields
    <3> HIDE DEF x, y
    <3>4. Right(how, x, y)
      BY <1>2, <3>1, <3>3 DEF Right, Covers
    <3> QED BY <3>4 DEF x, y
  <2>4. CASE k # NoKline
    <3>1. k \in Candle
      BY <2>4
    <3>2. x = [open |-> k.open, close |-> p, high |-> Higher(p, k.high), low |-> Lower(p, k.low),
               volume |-> k.volume + a, deal |-> k.deal + w]
      BY <2>4, TradedIs
    <3>3. x.volume = k.volume + a /\ x.high = Higher(p, k.high) /\ x.low = Lower(p, k.low)
      <4> HIDE DEF x, w
      <4> QED BY <3>2
    <3>4. k.volume \in Nat /\ k.high \in Nat /\ k.low \in Nat
      BY <3>1, CandleFields
    <3>5. CASE due = NoKline
      <4>1. y = [open |-> p, close |-> p, high |-> p, low |-> p, volume |-> a, deal |-> w]
        BY <3>5, TradedIs
      <4>2. y.volume = a /\ y.high = p /\ y.low = p
        <5> HIDE DEF y, w
        <5> QED BY <4>1
      <4> HIDE DEF x, y, w
      <4>3. Right(how, x, y)
        BY <1>2, <3>3, <3>4, <4>2 DEF Right, Covers, Higher, Lower
      <4> QED BY <4>3 DEF x, y
    <3>6. CASE due # NoKline
      <4>1. y = [open |-> due.open, close |-> p, high |-> Higher(p, due.high), low |-> Lower(p, due.low),
                 volume |-> due.volume + a, deal |-> due.deal + w]
        BY <3>6, TradedIs
      <4>2. y.volume = due.volume + a /\ y.high = Higher(p, due.high) /\ y.low = Lower(p, due.low)
        <5> HIDE DEF y, w
        <5> QED BY <4>1
      <4>3. due.volume \in Nat /\ due.high \in Nat /\ due.low \in Nat
        BY <3>6, CandleFields
      <4>4. k.volume >= due.volume /\ k.high >= due.high /\ k.low <= due.low
        BY <2>1, <3>6 DEF Covers
      <4> HIDE DEF x, y, w
      <4>5. Right(how, x, y)
        BY <1>2, <3>3, <3>4, <4>2, <4>3, <4>4 DEF Right, Covers, Higher, Lower
      <4> QED BY <4>5 DEF x, y
    <3> QED BY <3>5, <3>6
  <2> QED BY <2>3, <2>4
<1> QED BY <1>1, <1>2

\* A sum over more is no less.
LEMMA SumMore ==
  ASSUME NEW S, IsFiniteSet(S), NEW T \in SUBSET S, NEW f, \A x \in S : f[x] \in Nat
  PROVE  SumFunctionOnSet(f, T) <= SumFunctionOnSet(f, S)
<1> DEFINE R == S \ T  bad == {U \in SUBSET R : ~(SumFunctionOnSet(f, T) <= SumFunctionOnSet(f, T \cup U))}
<1>1. IsFiniteSet(R) /\ IsFiniteSet(T)
  BY FS_Subset
<1>2. bad = {}
  <2> SUFFICES ASSUME bad # {} PROVE FALSE
    OBVIOUS
  <2>1. PICK U \in bad : \A x \in U : U \ {x} \notin bad
    BY <1>1, SmallestSubset
  <2>2. SumFunctionOnSet(f, T) \in Int
    BY <1>1, SumType
  <2>3. U # {}
    <3>1. T \cup {} = T
      OBVIOUS
    <3> QED BY <2>1, <2>2, <3>1
  <2>4. PICK x \in U : TRUE
    BY <2>3
  <2> DEFINE V == T \cup (U \ {x})
  <2> DEFINE all == T \cup U
  <2>5. x \notin V /\ V \cup {x} = all /\ V \in SUBSET S /\ f[x] \in Nat /\ U \ {x} \in SUBSET R
    BY <2>1, <2>4
  <2>6. SumFunctionOnSet(f, T) <= SumFunctionOnSet(f, V)
    BY <2>1, <2>4, <2>5
  <2> HIDE DEF V, all
  <2>7. IsFiniteSet(V) /\ \A y \in V : f[y] \in Int
    BY <2>5, FS_Subset
  <2>8. SumFunctionOnSet(f, V \cup {x}) = SumFunctionOnSet(f, V) + f[x] /\ SumFunctionOnSet(f, V) \in Int
    <3>1. f[x] \in Int
      BY <2>5
    <3> QED BY <2>5, <2>7, <3>1, SumWith, SumType
  <2>10. SumFunctionOnSet(f, all) = SumFunctionOnSet(f, V) + f[x]
    BY <2>5, <2>8
  <2>9. SumFunctionOnSet(f, T) <= SumFunctionOnSet(f, all)
    <3> DEFINE y == f[x]  b == SumFunctionOnSet(f, T)  c == SumFunctionOnSet(f, V)
    <3>1. y \in Nat /\ b \in Int /\ c \in Int /\ b <= c /\ SumFunctionOnSet(f, all) = c + y
      BY <2>2, <2>5, <2>6, <2>8, <2>10
    <3> HIDE DEF y, b, c
    <3>2. b <= SumFunctionOnSet(f, all)
      BY <3>1
    <3> QED BY <3>2 DEF b
  <2> QED BY <2>1, <2>9 DEF all
<1>3. R \in SUBSET R /\ T \cup R = S
  OBVIOUS
<1> QED BY <1>2, <1>3

\* More deals cover fewer.
LEMMA DueCovers ==
  ASSUME NEW d \in Seq(Deals), NEW m \in 0..Len(d), NEW n \in 0..m, NEW key
  PROVE  Covers(DueIn(d, m, key), DueIn(d, n, key))
<1> DEFINE S == Belong(d, m, key)  T == Belong(d, n, key)
<1>1. m \in Nat /\ n \in Nat /\ S \in SUBSET (1..m) /\ T \in SUBSET S /\ \A i \in S : d[i] \in Deals
  BY DEF Belong
<1> SUFFICES ASSUME KlineIn(d, T) # NoKline
             PROVE  /\ KlineIn(d, S).volume >= KlineIn(d, T).volume
                    /\ KlineIn(d, S).high >= KlineIn(d, T).high
                    /\ KlineIn(d, S).low <= KlineIn(d, T).low
  BY DEF Covers, DueIn
<1> HIDE DEF S, T
<1>2. T # {} /\ S # {}
  BY <1>1 DEF KlineIn
<1>3. /\ IsFiniteSet(S) /\ IsFiniteSet({d[i].price : i \in S}) /\ {d[i].price : i \in S} \subseteq Nat \ {0}
      /\ \A i \in S : d[i].amount \in Nat /\ d[i].price \in Nat \ {0} /\ d[i].price * d[i].amount \in Nat
  <2>1. PICK k \in Nat : k = m
    BY <1>1
  <2>2. S \in SUBSET (1..k) /\ \A i \in S : d[i] \in Deals
    BY <1>1, <2>1
  <2> QED BY <2>2, IdsAre
<1> DEFINE P == {d[i].price : i \in S}  Q == {d[i].price : i \in T}
           f == [i \in S |-> d[i].amount]  g == [i \in T |-> d[i].amount]
           u == SumFunction([i \in S |-> d[i].price * d[i].amount])
           v == SumFunction([i \in T |-> d[i].price * d[i].amount])
<1>4. /\ IsFiniteSet(P) /\ P \in SUBSET Nat /\ Q \in SUBSET P /\ Q # {} /\ P # {}
  BY <1>1, <1>2, <1>3
<1>5. IsFiniteSet(Q)
  BY <1>4, FS_Subset
<1>6. SumFunction(f) >= SumFunction(g)
  <2>1. \A i \in S : f[i] \in Nat
    BY <1>3
  <2>2. DOMAIN f = S /\ DOMAIN g = T /\ \A i \in T : g[i] = f[i] /\ f[i] \in Int
    BY <1>1, <2>1
  <2> HIDE DEF f, g
  <2>3. IsFiniteSet(T)
    BY <1>1, <1>3, FS_Subset
  <2>4. SumFunctionOnSet(g, T) = SumFunctionOnSet(f, T)
    BY <2>2, <2>3, SumSame
  <2>5. SumFunctionOnSet(f, T) <= SumFunctionOnSet(f, S)
    BY <1>1, <1>3, <2>1, SumMore
  <2>6. SumFunctionOnSet(f, T) \in Int /\ SumFunctionOnSet(f, S) \in Int
    BY <1>3, <2>1, <2>2, <2>3, SumType
  <2> QED BY <2>2, <2>4, <2>5, <2>6 DEF SumFunction
<1>7. KlineIn(d, S) = [open |-> d[Min(S)].price, close |-> d[Max(S)].price, high |-> Max(P), low |-> Min(P),
                       volume |-> SumFunction(f), deal |-> u]
  BY <1>2 DEF KlineIn
<1>8. KlineIn(d, T) = [open |-> d[Min(T)].price, close |-> d[Max(T)].price, high |-> Max(Q), low |-> Min(Q),
                       volume |-> SumFunction(g), deal |-> v]
  BY <1>2 DEF KlineIn
<1> HIDE DEF P, Q, f, g, u, v
<1>9. /\ Max(Q) \in P /\ Min(Q) \in P /\ Max(P) >= Max(Q) /\ Min(P) <= Min(Q)
  <2>1. /\ Max(P) \in P /\ Min(P) \in P /\ \A y \in P : Max(P) >= y /\ Min(P) <= y
    BY <1>4, MaxIs
  <2>2. Q \in SUBSET Nat
    BY <1>4
  <2>3. Max(Q) \in Q /\ Min(Q) \in Q
    BY <1>4, <1>5, <2>2, MaxIs
  <2> QED BY <1>4, <2>1, <2>3
<1> QED BY <1>6, <1>7, <1>8, <1>9
------------------------------------------------------------------------------
(* Tables                                                                   *)

\* Keys of buckets, those that are kept, and all keys; tables.
Keys   == {key \in Types \X Nat : IsKey(key)}
Live   == {key \in Keys : ~Expired(key[1], key[2])}
Names  == (Types \cup {"deals", "last"}) \X Nat
Table  == UNION {[D -> Candle] : D \in SUBSET Nat}
Tables == [Types -> Table]

\* A table has k-lines for some times.
LEMMA TableIs ==
  ASSUME NEW tab
  PROVE  tab \in Table <=> /\ tab = [t \in DOMAIN tab |-> tab[t]]
                           /\ DOMAIN tab \subseteq Nat /\ \A t \in DOMAIN tab : tab[t] \in Candle
<1>1. ASSUME tab \in Table
      PROVE  /\ tab = [t \in DOMAIN tab |-> tab[t]]
             /\ DOMAIN tab \subseteq Nat /\ \A t \in DOMAIN tab : tab[t] \in Candle
  <2>1. PICK D \in SUBSET Nat : tab \in [D -> Candle]
    BY <1>1 DEF Table
  <2> HIDE DEF Candle
  <2> QED BY <2>1
<1>2. ASSUME tab = [t \in DOMAIN tab |-> tab[t]], DOMAIN tab \subseteq Nat, \A t \in DOMAIN tab : tab[t] \in Candle
      PROVE  tab \in Table
  <2>1. PICK D : D = DOMAIN tab
    OBVIOUS
  <2>2. tab \in [D -> Candle] /\ D \in SUBSET Nat
    BY <1>2, <2>1
  <2> QED BY <2>2 DEF Table
<1> QED BY <1>1, <1>2

\* Setting a k-line, joining two tables, and leaving old ones out makes tables.
LEMMA PutIs ==
  ASSUME NEW tab \in Table, NEW t \in Nat, NEW k \in Candle
  PROVE  /\ Put(tab, t, k) \in Table /\ DOMAIN Put(tab, t, k) = DOMAIN tab \cup {t}
         /\ Put(tab, t, k)[t] = k /\ \A u \in DOMAIN tab \ {t} : Put(tab, t, k)[u] = tab[u]
<1>1. DOMAIN tab \subseteq Nat /\ \A u \in DOMAIN tab : tab[u] \in Candle
  BY TableIs
<1>2. PICK new : new = Put(tab, t, k)
  OBVIOUS
<1>3. /\ DOMAIN new = DOMAIN tab \cup {t} /\ new = [u \in DOMAIN new |-> new[u]]
      /\ new[t] = k /\ \A u \in DOMAIN tab \ {t} : new[u] = tab[u]
  BY <1>2 DEF Put
<1>4. DOMAIN new \subseteq Nat /\ \A u \in DOMAIN new : new[u] \in Candle
  BY <1>1, <1>3
<1>5. new \in Table
  BY <1>3, <1>4, TableIs
<1> QED BY <1>2, <1>3, <1>5

\* A table with what another one has besides.
LEMMA JoinedIs ==
  ASSUME NEW tab \in Table, NEW rest \in Table
  PROVE  /\ Joined(tab, rest) \in Table /\ DOMAIN Joined(tab, rest) = DOMAIN tab \cup DOMAIN rest
         /\ \A u \in DOMAIN tab : Joined(tab, rest)[u] = tab[u]
         /\ \A u \in DOMAIN rest \ DOMAIN tab : Joined(tab, rest)[u] = rest[u]
<1>1. /\ DOMAIN tab \subseteq Nat /\ \A u \in DOMAIN tab : tab[u] \in Candle
      /\ DOMAIN rest \subseteq Nat /\ \A u \in DOMAIN rest : rest[u] \in Candle
  BY TableIs
<1>2. PICK new : new = Joined(tab, rest)
  OBVIOUS
<1>3. /\ DOMAIN new = DOMAIN tab \cup DOMAIN rest /\ new = [u \in DOMAIN new |-> new[u]]
      /\ \A u \in DOMAIN tab : new[u] = tab[u]
      /\ \A u \in DOMAIN rest \ DOMAIN tab : new[u] = rest[u]
  BY <1>2 DEF Joined
<1>4. DOMAIN new \subseteq Nat /\ \A u \in DOMAIN new : new[u] \in Candle
  BY <1>1, <1>3
<1>5. new \in Table
  BY <1>3, <1>4, TableIs
<1> QED BY <1>2, <1>3, <1>5

\* A table without what is before a time.
LEMMA SinceIs ==
  ASSUME NEW tab \in Table, NEW start
  PROVE  /\ Since(tab, start) \in Table /\ DOMAIN Since(tab, start) = {t \in DOMAIN tab : t >= start}
         /\ \A u \in DOMAIN Since(tab, start) : Since(tab, start)[u] = tab[u]
<1>1. DOMAIN tab \subseteq Nat /\ \A u \in DOMAIN tab : tab[u] \in Candle
  BY TableIs
<1>2. PICK new : new = Since(tab, start)
  OBVIOUS
<1>3. /\ DOMAIN new = {t \in DOMAIN tab : t >= start} /\ new = [u \in DOMAIN new |-> new[u]]
      /\ \A u \in DOMAIN new : new[u] = tab[u]
  BY <1>2 DEF Since, Restrict
<1>4. DOMAIN new \subseteq Nat /\ \A u \in DOMAIN new : new[u] \in Candle
  BY <1>1, <1>3
<1>5. new \in Table
  BY <1>3, <1>4, TableIs
<1> QED BY <1>2, <1>3, <1>5

\* No table has anything in the beginning.
LEMMA NoTablesIs == NoTables \in Tables /\ \A key \in Keys : At(NoTables, key) = NoKline
<1>1. \A type \in Types : NoTables[type] = <<>>
  BY DEF NoTables
<1>2. <<>> \in Table
  <2>1. <<>> \in [{} -> Candle] /\ {} \in SUBSET Nat
    OBVIOUS
  <2> QED BY <2>1 DEF Table
<1>3. NoTables \in Tables
  BY <1>2 DEF NoTables, Tables
<1>4. \A key \in Keys : key[1] \in Types
  BY DEF Keys
<1> QED BY <1>1, <1>3, <1>4 DEF At

\* What a table shows of a key is a k-line or nothing.
LEMMA AtType ==
  ASSUME NEW klines \in Tables, NEW key \in Keys
  PROVE  At(klines, key) \in Candle \cup {NoKline}
<1>1. klines[key[1]] \in Table
  BY DEF Keys, Tables
<1> QED BY <1>1, TableIs DEF At

\* Keys have a table and a time.
LEMMA KeysAre ==
  ASSUME NEW key \in Keys
  PROVE  /\ key[1] \in Types /\ key[2] \in Nat /\ key = <<key[1], key[2]>> /\ IsKey(key)
         /\ key # DealsKey /\ key # LastKey /\ key \in Names
<1>1. key[1] \in Types /\ key[2] \in Nat /\ key = <<key[1], key[2]>> /\ IsKey(key)
  BY DEF Keys
<1>2. "deals" \notin Types /\ "last" \notin Types
  BY DEF Types
<1> QED BY <1>1, <1>2 DEF DealsKey, LastKey, Names

\* Tables with a k-line set.
PutIn(klines, type, t, k) == [klines EXCEPT ![type] = Put(klines[type], t, k)]

\* What a key shows when another one is set.
LEMMA AtPut ==
  ASSUME NEW klines \in Tables, NEW type \in Types, NEW t \in Nat, NEW k \in Candle
  PROVE  /\ PutIn(klines, type, t, k) \in Tables
         /\ \A key \in Keys :
              At(PutIn(klines, type, t, k), key) = IF key = <<type, t>> THEN k ELSE At(klines, key)
<1> DEFINE new == [klines EXCEPT ![type] = Put(klines[type], t, k)]
<1>1. klines[type] \in Table /\ DOMAIN klines = Types
  BY DEF Tables
<1>0. PICK old \in Table : old = klines[type]
  BY <1>1
<1>2. PICK tab : tab = Put(old, t, k)
  OBVIOUS
<1>3. /\ tab \in Table /\ DOMAIN tab = DOMAIN old \cup {t}
      /\ tab[t] = k /\ \A u \in DOMAIN old \ {t} : tab[u] = old[u]
  <2>1. /\ Put(old, t, k) \in Table /\ DOMAIN Put(old, t, k) = DOMAIN old \cup {t}
        /\ Put(old, t, k)[t] = k /\ \A u \in DOMAIN old \ {t} : Put(old, t, k)[u] = old[u]
    BY PutIs
  <2> QED BY <1>2, <2>1
<1>4. new[type] = tab /\ \A other \in Types \ {type} : new[other] = klines[other]
  BY <1>0, <1>1, <1>2
<1>5. new \in Tables
  BY <1>0, <1>2, <1>3 DEF Tables
<1>6. ASSUME NEW key \in Keys
      PROVE  At(new, key) = IF key = <<type, t>> THEN k ELSE At(klines, key)
  <2>1. key[1] \in Types /\ key[2] \in Nat /\ key = <<key[1], key[2]>>
    BY KeysAre
  <2>2. CASE key[1] = type
    BY <1>0, <1>3, <1>4, <2>1, <2>2 DEF At
  <2>3. CASE key[1] # type
    BY <1>4, <2>1, <2>3 DEF At
  <2> QED BY <2>2, <2>3
<1> HIDE DEF new
<1>7. new = PutIn(klines, type, t, k)
  BY DEF PutIn, new
<1> QED BY <1>5, <1>6, <1>7

\* What is kept is not cleared.
LEMMA AtCleared ==
  ASSUME NEW klines \in Tables, now \in Nat, NEW new, new = Cleared(klines)
  PROVE  new \in Tables /\ \A key \in Live : At(new, key) = At(klines, key)
<1>1. \A type \in Types : klines[type] \in Table
  BY DEF Tables
<1>2. \A type \in Types : new[type] = Since(klines[type], Limit(type, now))
  BY DEF Cleared
<1>3. new \in Tables
  BY <1>1, SinceIs DEF Tables, Cleared
<1>4. ASSUME NEW key \in Live PROVE At(new, key) = At(klines, key)
  <2>1. key[1] \in Types /\ key[2] \in Nat /\ ~(key[2] < Limit(key[1], now))
    BY KeysAre DEF Live, Expired
  <2>2. Limit(key[1], now) \in Int
    BY <2>1, LimitType
  <2>3. key[2] >= Limit(key[1], now)
    BY <2>1, <2>2
  <2>4. PICK tab \in Table : tab = klines[key[1]]
    BY <1>1, <2>1
  <2>5. PICK start : start = Limit(key[1], now)
    OBVIOUS
  <2>6. /\ DOMAIN Since(tab, start) = {t \in DOMAIN tab : t >= start}
        /\ \A u \in DOMAIN Since(tab, start) : Since(tab, start)[u] = tab[u]
    BY SinceIs
  <2>7. new[key[1]] = Since(tab, start)
    BY <1>2, <2>1, <2>4, <2>5
  <2> QED BY <2>3, <2>4, <2>5, <2>6, <2>7 DEF At
<1> QED BY <1>3, <1>4

\* What is loaded from Redis where nothing is.
LEMMA AtLoaded ==
  ASSUME NEW own \in Tables, redis.klines \in Tables, now \in Nat, NEW new, new = LoadedKlines(own)
  PROVE  /\ new \in Tables
         /\ \A key \in Live : At(new, key) = IF At(own, key) # NoKline THEN At(own, key) ELSE At(redis.klines, key)
<1>1. \A type \in Types : own[type] \in Table /\ redis.klines[type] \in Table
  BY DEF Tables
<1>2. \A type \in Types : new[type] = Joined(own[type], Since(redis.klines[type], Limit(type, now)))
  BY DEF LoadedKlines
<1>3. ASSUME NEW type \in Types PROVE new[type] \in Table
  <2>1. Since(redis.klines[type], Limit(type, now)) \in Table
    BY <1>1, SinceIs
  <2> QED BY <1>1, <1>2, <2>1, JoinedIs
<1>4. new \in Tables
  BY <1>3 DEF Tables, LoadedKlines
<1>5. ASSUME NEW key \in Live
      PROVE  At(new, key) = IF At(own, key) # NoKline THEN At(own, key) ELSE At(redis.klines, key)
  <2>1. key[1] \in Types /\ key[2] \in Nat /\ ~(key[2] < Limit(key[1], now))
    BY KeysAre DEF Live, Expired
  <2>2. Limit(key[1], now) \in Int
    BY <2>1, LimitType
  <2>3. key[2] >= Limit(key[1], now)
    BY <2>1, <2>2
  <2>4. PICK tab \in Table : tab = own[key[1]]
    BY <1>1, <2>1
  <2>5. PICK stored \in Table : stored = redis.klines[key[1]]
    BY <1>1, <2>1
  <2>6. PICK rest \in Table : rest = Since(stored, Limit(key[1], now))
    BY SinceIs
  <2>7. /\ DOMAIN rest = {t \in DOMAIN stored : t >= Limit(key[1], now)}
        /\ \A u \in DOMAIN rest : rest[u] = stored[u]
    BY <2>6, SinceIs
  <2>8. /\ DOMAIN Joined(tab, rest) = DOMAIN tab \cup DOMAIN rest
        /\ \A u \in DOMAIN tab : Joined(tab, rest)[u] = tab[u]
        /\ \A u \in DOMAIN rest \ DOMAIN tab : Joined(tab, rest)[u] = rest[u]
    BY JoinedIs
  <2>9. new[key[1]] = Joined(tab, rest)
    BY <1>2, <2>1, <2>4, <2>5, <2>6
  <2>10. CASE key[2] \in DOMAIN tab
    <3>1. At(own, key) = tab[key[2]] /\ At(new, key) = tab[key[2]]
      BY <2>4, <2>8, <2>9, <2>10 DEF At
    <3>2. tab[key[2]] # NoKline
      BY <2>10, TableIs, NoCandle
    <3> QED BY <3>1, <3>2
  <2>11. CASE key[2] \notin DOMAIN tab
    <3>1. At(own, key) = NoKline
      BY <2>4, <2>11 DEF At
    <3>2. At(new, key) = At(redis.klines, key)
      BY <2>3, <2>5, <2>7, <2>8, <2>9, <2>11 DEF At
    <3> QED BY <3>1, <3>2
  <2> QED BY <2>10, <2>11
<1> QED BY <1>4, <1>5

\* What is left of tables of which old k-lines are left out.
LEMMA AtSince ==
  ASSUME NEW klines \in Tables, NEW start, NEW new, new = [type \in Types |-> Since(klines[type], start)]
  PROVE  new \in Tables /\ \A key \in Keys : At(new, key) \in {At(klines, key), NoKline}
<1>1. \A type \in Types : klines[type] \in Table
  BY DEF Tables
<1>2. \A type \in Types : new[type] = Since(klines[type], start)
  OBVIOUS
<1>3. new \in Tables
  BY <1>1, SinceIs DEF Tables
<1>4. ASSUME NEW key \in Keys PROVE At(new, key) \in {At(klines, key), NoKline}
  <2>1. key[1] \in Types
    BY KeysAre
  <2>2. PICK tab \in Table : tab = klines[key[1]]
    BY <1>1, <2>1
  <2>3. /\ DOMAIN Since(tab, start) = {t \in DOMAIN tab : t >= start}
        /\ \A u \in DOMAIN Since(tab, start) : Since(tab, start)[u] = tab[u]
    BY SinceIs
  <2>4. new[key[1]] = Since(tab, start)
    BY <1>2, <2>1, <2>2
  <2> QED BY <2>2, <2>3, <2>4 DEF At
<1> QED BY <1>3, <1>4

\* Tables with a deal counted.
Counted(klines, deal, last) ==
  [type \in Types |-> Aggregated(klines[type], Bucket(type, deal.time), deal, last)]

\* A deal is counted in the k-lines it belongs to (market_update).
LEMMA AtAggregated ==
  ASSUME NEW klines \in Tables, NEW deal \in Deals, NEW last
  PROVE  /\ Counted(klines, deal, last) \in Tables
         /\ \A key \in Keys :
              At(Counted(klines, deal, last), key) =
                IF key \in KeysOf(deal) THEN Traded(At(klines, key), deal.price, deal.amount) ELSE At(klines, key)
<1> DEFINE new == [type \in Types |-> Aggregated(klines[type], Bucket(type, deal.time), deal, last)]
<1>0. deal.price \in Nat \ {0} /\ deal.amount \in Nat /\ deal.time \in Nat /\ deal.price * deal.amount \in Nat
  BY DealFields
<1>1. PICK p \in Nat \ {0}, a \in Nat, time \in Nat : p = deal.price /\ a = deal.amount /\ time = deal.time
  BY <1>0
<1>2. p * a \in Nat
  BY <1>0, <1>1
<1>3. ASSUME NEW type \in Types
      PROVE  /\ new[type] \in Table /\ Bucket(type, time) \in Nat
             /\ DOMAIN new[type] = DOMAIN klines[type] \cup {Bucket(type, time)}
             /\ \A u \in DOMAIN klines[type] \ {Bucket(type, time)} : new[type][u] = klines[type][u]
             /\ new[type][Bucket(type, time)] =
                  Traded(IF Bucket(type, time) \in DOMAIN klines[type] THEN klines[type][Bucket(type, time)] ELSE NoKline, p, a)
  <2>1. PICK t \in Nat : t = Bucket(type, time)
    BY BucketIsKey
  <2>2. PICK tab \in Table : tab = klines[type]
    BY DEF Tables
  <2>3. PICK old \in Candle \cup {NoKline} : old = IF t \in DOMAIN tab THEN tab[t] ELSE NoKline
    BY TableIs
  <2>4. PICK k \in Candle : k = Traded(old, p, a)
    BY <1>2, TradedType
  <2>5. t \in DOMAIN tab => tab[t] # NoKline
    BY TableIs, NoCandle
  <2>6. k = kline_info_update(IF t \in DOMAIN tab THEN tab[t] ELSE kline_info_new(p), p, a)
    BY <2>3, <2>4, <2>5 DEF Traded
  <2>7. new[type] = Put(tab, t, k)
    BY <1>1, <2>1, <2>2, <2>6 DEF Aggregated
  <2>8. /\ Put(tab, t, k) \in Table /\ DOMAIN Put(tab, t, k) = DOMAIN tab \cup {t}
        /\ Put(tab, t, k)[t] = k /\ \A u \in DOMAIN tab \ {t} : Put(tab, t, k)[u] = tab[u]
    <3>1. \A x \in Table, y \in Nat, z \in Candle :
            /\ Put(x, y, z) \in Table /\ DOMAIN Put(x, y, z) = DOMAIN x \cup {y}
            /\ Put(x, y, z)[y] = z /\ \A u \in DOMAIN x \ {y} : Put(x, y, z)[u] = x[u]
      BY PutIs, Zenon
    <3>2. t \in Nat /\ tab \in Table /\ k \in Candle
      OBVIOUS
    <3> QED BY <3>1, <3>2, ZenonT(30)
  <2> QED BY <2>1, <2>2, <2>3, <2>4, <2>7, <2>8
<1>4. new \in Tables
  BY <1>3 DEF Tables
<1>5. ASSUME NEW key \in Keys
      PROVE  At(new, key) = IF key \in KeysOf(deal) THEN Traded(At(klines, key), deal.price, deal.amount)
                            ELSE At(klines, key)
  <2>1. key[1] \in Types /\ key[2] \in Nat /\ key = <<key[1], key[2]>>
    BY KeysAre
  <2>2. key \in KeysOf(deal) <=> key[2] = Bucket(key[1], time)
    BY <1>1, <2>1 DEF KeysOf
  <2>3. CASE key \in KeysOf(deal)
    <3>1. PICK t : t = key[2] /\ t = Bucket(key[1], time)
      BY <2>2, <2>3
    <3>2. PICK old : old = IF t \in DOMAIN klines[key[1]] THEN klines[key[1]][t] ELSE NoKline
      OBVIOUS
    <3>3. t \in DOMAIN new[key[1]] /\ new[key[1]][t] = Traded(old, p, a)
      BY <1>3, <2>1, <3>1, <3>2
    <3>4. At(new, key) = Traded(old, p, a)
      BY <3>1, <3>3 DEF At
    <3>5. At(klines, key) = old
      BY <3>1, <3>2 DEF At
    <3>6. At(new, key) = Traded(At(klines, key), p, a)
      BY <3>4, <3>5
    <3>7. At(new, key) = Traded(At(klines, key), deal.price, deal.amount)
      BY <1>1, <3>6
    <3> QED BY <2>3, <3>7
  <2>4. CASE key \notin KeysOf(deal)
    <3>1. PICK t : t = Bucket(key[1], time)
      OBVIOUS
    <3>2. PICK tab : tab = klines[key[1]]
      OBVIOUS
    <3>3. /\ DOMAIN new[key[1]] = DOMAIN tab \cup {t} /\ key[2] # t
          /\ \A u \in DOMAIN tab \ {t} : new[key[1]][u] = tab[u]
      BY <1>3, <2>1, <2>2, <2>4, <3>1, <3>2
    <3>4. At(new, key) = IF key[2] \in DOMAIN tab THEN tab[key[2]] ELSE NoKline
      BY <3>3 DEF At
    <3>5. At(new, key) = At(klines, key)
      BY <3>2, <3>4 DEF At
    <3> QED BY <2>4, <3>5
  <2> QED BY <2>3, <2>4
<1>6. Counted(klines, deal, last) = new
  BY DEF Counted
<1> HIDE DEF new
<1> QED BY <1>4, <1>5, <1>6
------------------------------------------------------------------------------
(* The inductive invariant: InOrder and the types it is about.              *)

Inv == MarketPriceTypeOK /\ InOrder

USE MarketPriceAssumption, ConsumerAssumption

\* What a statement does to the count of faults and to the connection.
LEMMA NotedType ==
  ASSUME MarketPriceTypeOK, NEW outcome \in Outcomes, Noted(outcome)
  PROVE  faults' \in 0..MaxFaults /\ context' \in {"ok", "err"}
  BY DEF MarketPriceTypeOK, Outcomes, Noted

\* A step of the main loop outside on_can_read that leaves the consumer and the
\* offsets alone, whatever it does to k-lines, deals and the connection.
LEMMA LoopStep ==
  ASSUME Inv, pc \in {"loop", "update", "deals", "offset"},
         pc' \in {"loop", "update", "deals", "offset"},
         UNCHANGED <<now, consumer, last_offset>>,
         faults' \in 0..MaxFaults, context' \in {"ok", "err"},
         DOMAIN redis' = DOMAIN redis, redis'.offset = redis.offset
  PROVE  Inv'
<1>1. MarketPriceTypeOK'
  BY DEF Inv, MarketPriceTypeOK, consumer
<1>2. InOrder'
  BY DEF Inv, InOrder, MarketPriceTypeOK, consumer
<1> QED BY <1>1, <1>2 DEF Inv

\* Time goes on, deals are published.
LEMMA OutsideStep ==
  ASSUME Inv, Outside,
         Tick \/ \E price \in Prices, amount \in Amounts : Publish(price, amount)
  PROVE  Inv'
<1>1. CASE Tick
  <2>1. MarketPriceTypeOK'
    BY <1>1 DEF Inv, MarketPriceTypeOK, Tick, Outside, consumer
  <2>2. InOrder'
    BY <1>1 DEF Inv, InOrder, Tick, Outside, consumer
  <2> QED BY <2>1, <2>2 DEF Inv
<1>2. CASE \E price \in Prices, amount \in Amounts : Publish(price, amount)
  <2>1. PICK price \in Prices, amount \in Amounts : Publish(price, amount)
    BY <1>2
  <2>2. Len(topic') = Len(topic) + 1 /\ Len(topic') <= MaxDeals
    BY <2>1 DEF Publish, Inv, MarketPriceTypeOK
  <2>3. topic' \in Seq([time : Clock, price : Prices, amount : Amounts])
    BY <2>1 DEF Publish, Inv, MarketPriceTypeOK
  <2>4. MarketPriceTypeOK'
    BY <2>1, <2>2, <2>3 DEF Inv, MarketPriceTypeOK, Publish, Outside
  <2>5. InOrder'
    BY <2>1, <2>2 DEF Inv, InOrder, MarketPriceTypeOK, Publish, Outside
  <2> QED BY <2>4, <2>5 DEF Inv
<1> QED BY <1>1, <1>2

\* The consumer's thread appends the next message and writes its byte.
LEMMA FetchStep ==
  ASSUME Inv, Fetch, Outside
  PROVE  Inv'
<1>1. MarketPriceTypeOK'
  BY DEF Inv, MarketPriceTypeOK, Fetch, Outside
<1>2. list' = Between(last_offset', offset')
  BY BetweenAppend DEF Inv, InOrder, MarketPriceTypeOK, Fetch, Outside
<1>3. pipe' > 0
  BY DEF Inv, MarketPriceTypeOK, Fetch
<1>4. InOrder'
  BY <1>2, <1>3 DEF Inv, InOrder, MarketPriceTypeOK, Fetch, Outside
<1> QED BY <1>1, <1>4 DEF Inv

\* The loop empties the pipe, and leaves on_can_read when the list is empty.
LEMMA WakeStep ==
  ASSUME Inv, Wake \/ Drained, Outside
  PROVE  Inv'
<1>1. MarketPriceTypeOK'
  BY DEF Inv, MarketPriceTypeOK, Wake, Drained, Outside, consumer
<1>2. InOrder'
  BY DEF Inv, InOrder, Wake, Drained, Outside, consumer
<1> QED BY <1>1, <1>2 DEF Inv

\* on_deals_message takes the oldest message.
LEMMA DealStep ==
  ASSUME Inv, OnDealsMessage
  PROVE  Inv'
<1>1. /\ last_offset + 1 < offset
      /\ Head(list) = last_offset + 1
      /\ Tail(list) = Between(last_offset + 1, offset)
  BY BetweenTail DEF Inv, InOrder, MarketPriceTypeOK, OnDealsMessage, Handle
<1>2. MarketPriceTypeOK'
  BY <1>1 DEF Inv, MarketPriceTypeOK, OnDealsMessage, Handle
<1>3. InOrder'
  BY <1>1 DEF Inv, InOrder, MarketPriceTypeOK, OnDealsMessage, Handle
<1> QED BY <1>2, <1>3 DEF Inv

\* The steps of a flush.  Only the last one stores an offset, the one of the last
\* deal handled.
LEMMA FlushStep ==
  ASSUME Inv, FlushTimer \/ Flush
  PROVE  Inv'
<1> USE DEF Inv
<1>1. CASE FlushTimer
  BY <1>1, LoopStep DEF FlushTimer, MarketPriceTypeOK
<1>2. CASE FlushKline
  <2>1. PICK outcome \in Outcomes : Noted(outcome)
    BY <1>2 DEF FlushKline
  <2>2. DOMAIN redis' = DOMAIN redis /\ redis'.offset = redis.offset
    BY <1>2 DEF FlushKline, MarketPriceTypeOK
  <2> QED BY <1>2, <2>1, <2>2, NotedType, LoopStep DEF FlushKline
<1>3. CASE FlushLast
  <2>1. PICK outcome \in Outcomes :
          /\ Noted(outcome)
          /\ pc' = IF outcome # "ok" THEN "loop"
                   ELSE IF mem.deals = <<>> THEN "offset" ELSE "deals"
          /\ redis' = redis \/ redis' = [redis EXCEPT !.last = mem.last]
    BY <1>3 DEF FlushLast
  <2>2. DOMAIN redis' = DOMAIN redis /\ redis'.offset = redis.offset
    BY <2>1 DEF MarketPriceTypeOK
  <2> QED BY <1>3, <2>1, <2>2, NotedType, LoopStep DEF FlushLast
<1>4. CASE FlushDeals
  <2>1. PICK outcome \in Outcomes :
          /\ Noted(outcome)
          /\ pc' \in {"offset", "loop"}
          /\ redis' = redis \/ redis' = [redis EXCEPT !.deals = Pushed(mem.deals, @)]
    BY <1>4 DEF FlushDeals
  <2>2. DOMAIN redis' = DOMAIN redis /\ redis'.offset = redis.offset
    BY <2>1 DEF MarketPriceTypeOK
  <2> QED BY <1>4, <2>1, <2>2, NotedType, LoopStep DEF FlushDeals
<1>5. CASE FlushOffset
  <2>1. PICK outcome \in Outcomes :
          /\ Noted(outcome)
          /\ redis' = redis \/ redis' = [redis EXCEPT !.offset = last_offset]
    BY <1>5 DEF FlushOffset, OffsetToStore
  <2>2. /\ DOMAIN redis' = DOMAIN redis
        /\ redis'.offset \in {redis.offset, last_offset}
    BY <2>1 DEF MarketPriceTypeOK
  <2>3. last_offset \in 0..Len(topic) /\ redis.offset <= last_offset
    BY <1>5 DEF FlushOffset, InOrder, MarketPriceTypeOK
  <2>4. MarketPriceTypeOK'
    BY <1>5, <2>1, <2>2, <2>3, NotedType DEF FlushOffset, MarketPriceTypeOK, consumer
  <2>5. InOrder'
    BY <1>5, <2>2, <2>3 DEF FlushOffset, InOrder, MarketPriceTypeOK, consumer
  <2> QED BY <2>4, <2>5
<1> QED BY <1>1, <1>2, <1>3, <1>4, <1>5 DEF Flush

\* Clearing, in the process or in Redis, reloading, and setting a k-line.
LEMMA ClearStep ==
  ASSUME Inv, ClearTimer \/ ClearRedis \/ Reload \/ KlineUpdate
  PROVE  Inv'
<1>1. CASE ClearTimer
  BY <1>1, LoopStep DEF Inv, ClearTimer, MarketPriceTypeOK
<1>2. CASE ClearRedis
  <2>1. DOMAIN redis' = DOMAIN redis /\ redis'.offset = redis.offset
    BY <1>2 DEF Inv, ClearRedis, MarketPriceTypeOK
  <2>2. MarketPriceTypeOK'
    BY <1>2, <2>1 DEF Inv, ClearRedis, MarketPriceTypeOK, consumer
  <2>3. InOrder'
    BY <1>2, <2>1 DEF Inv, ClearRedis, InOrder, consumer
  <2> QED BY <2>2, <2>3 DEF Inv
<1>3. CASE Reload
  <2>1. /\ pc = "loop" /\ faults' \in 0..MaxFaults
        /\ UNCHANGED <<now, consumer, pc, last_offset, context, redis>>
    BY <1>3 DEF Reload, Fault, Inv, MarketPriceTypeOK
  <2> QED BY <2>1, LoopStep DEF Inv, MarketPriceTypeOK
<1>4. CASE KlineUpdate
  <2>1. /\ pc = "loop" /\ Fault("update")
        /\ UNCHANGED <<now, consumer, pc, last_offset, context, redis>>
    BY <1>4, Zenon DEF KlineUpdate
  <2>2. faults' \in 0..MaxFaults
    BY <2>1 DEF Fault, Inv, MarketPriceTypeOK
  <2> QED BY <2>1, <2>2, LoopStep DEF Inv, MarketPriceTypeOK
<1> QED BY <1>1, <1>2, <1>3, <1>4

\* A process ends, and the next one begins after the stored offset.
LEMMA RestartStep ==
  ASSUME Inv, Crash \/ Start
  PROVE  Inv'
<1>1. CASE Crash
  <2>1. MarketPriceTypeOK'
    BY <1>1 DEF Inv, MarketPriceTypeOK, Crash, Fault, kafka_consumer_create
  <2>2. InOrder'
    BY <1>1 DEF InOrder, Crash
  <2> QED BY <2>1, <2>2 DEF Inv
<1>2. CASE Start
  <2>1. /\ last_offset' = redis.offset /\ offset' = redis.offset + 1
        /\ redis.offset \in 0..Len(topic)
        /\ UNCHANGED <<now, topic, context, redis, faults>>
        /\ list' = <<>> /\ pipe' = 0 /\ pc' = "loop"
    BY <1>2 DEF Start, StartOffset, kafka_consumer_create, Inv, MarketPriceTypeOK
  <2>2. list' = Between(last_offset', offset')
    BY <2>1, BetweenIsSeq DEF Inv, MarketPriceTypeOK
  <2>3. MarketPriceTypeOK'
    BY <2>1 DEF Inv, MarketPriceTypeOK
  <2>4. InOrder'
    BY <2>1, <2>2 DEF Inv, InOrder, MarketPriceTypeOK
  <2> QED BY <2>3, <2>4 DEF Inv
<1> QED BY <1>1, <1>2

\* The invariant holds at first ...
LEMMA InvInit == Init => Inv
<1> SUFFICES ASSUME Init PROVE Inv
  OBVIOUS
<1>1. list = Between(last_offset, offset)
  <2>1. 0 \in Nat /\ 1 \in Nat /\ 0 < 1 /\ 1 = 0 + 1
    OBVIOUS
  <2>2. Between(0, 1) = <<>>
    BY <2>1, BetweenIsSeq
  <2> QED BY <2>2 DEF Init
<1>2. MarketPriceTypeOK
  BY DEF Init, MarketPriceTypeOK
<1>3. InOrder
  BY <1>1 DEF Init, InOrder
<1> QED BY <1>2, <1>3 DEF Inv

\* ... and every step keeps it.
LEMMA InvNext == Inv /\ [Next]_vars => Inv'
<1> SUFFICES ASSUME Inv, [Next]_vars PROVE Inv'
  OBVIOUS
<1>1. CASE Next
  BY <1>1, OutsideStep, FetchStep, WakeStep, DealStep, FlushStep, ClearStep, RestartStep
     DEF Next
<1>2. CASE UNCHANGED vars
  <2>1. MarketPriceTypeOK'
    BY <1>2 DEF Inv, MarketPriceTypeOK, vars, consumer
  <2>2. InOrder'
    BY <1>2 DEF Inv, InOrder, vars, consumer
  <2> QED BY <2>1, <2>2 DEF Inv
<1> QED BY <1>1, <1>2

\* Types hold in every behaviour of marketprice (mp_message.c, ut_kafka.c).
THEOREM ConsumerTypeCorrect == Spec => []MarketPriceTypeOK
<1>1. Inv => MarketPriceTypeOK
  BY DEF Inv
<1> QED BY <1>1, InvInit, InvNext, PTL DEF Spec

\* Deals are handled in order, none skipped and none lost between Kafka's thread
\* and the loop, through crashes, failing flushes, reloads and restarts, for
\* every number of deals and every length of the list (ut_kafka.c:31, 65;
\* mp_message.c:522, 669, 876).
THEOREM DealsInOrder == Spec => []InOrder
<1>1. Inv => InOrder
  BY DEF Inv
<1> QED BY <1>1, InvInit, InvNext, PTL DEF Spec
------------------------------------------------------------------------------
(* The inductive invariant of what is kept in memory and in Redis           *)

\* Types of what the process and Redis keep.
KeptTypeOK ==
  /\ mem \in [klines : Tables, update : SUBSET Keys, deals : Seq(Nat), deals_json : Seq(Nat),
              last : Nat, fresh : BOOLEAN]
  /\ redis \in [klines : Tables, deals : Seq(Nat), last : Nat, offset : Nat]
  /\ Len(redis.deals) <= DealsMax
  /\ drift \in [ahead : SUBSET Names, missed : SUBSET Names, behind : SUBSET Names,
                over : SUBSET Names, under : SUBSET Names]

\* What is left to flush as a flush goes on, and when there is nothing new; a process
\* begins with nothing but what is right or wrong for good.
FlushOrder ==
  /\ pc \in {"deals", "offset"} \/ ~mem.fresh => mem.update = {}
  /\ pc = "offset" \/ ~mem.fresh => mem.deals = <<>>
  /\ pc # "down" /\ (pc \in {"deals", "offset"} \/ ~mem.fresh) => redis.last = mem.last
  /\ pc = "down" => drift.ahead = {} /\ drift.missed = {} /\ drift.behind = {}

\* Keys whose k-lines are not exactly what is due, or do not cover it, for good; in
\* Redis, those for which this holds of what has been handled; and of what is stored.
Off(how)     == IF how = "exact" THEN Wrong ELSE drift.under
Late(how)    == Off(how) \cup drift.missed \cup drift.behind \cup mem.update
Differs(how) == Off(how) \cup drift.behind \cup (IF how = "exact" THEN drift.ahead ELSE {})

\* All other k-lines are right: in memory, in Redis except for what is still to be
\* written, and in Redis for the deals up to the stored offset.
KeyRight(how, key) ==
  /\ pc # "down" /\ key \notin Off(how) =>
       Right(how, At(mem.klines, key), DueIn(topic, last_offset, key))
  /\ pc # "down" /\ key \notin Late(how) =>
       Right(how, At(redis.klines, key), DueIn(topic, last_offset, key))
  /\ key \notin Differs(how) =>
       Right(how, At(redis.klines, key), DueIn(topic, redis.offset, key))

KlinesRight(how) == \A key \in Live : KeyRight(how, key)

\* So are the recent deals, ...
DealsRight ==
  /\ pc # "down" /\ DealsKey \notin Wrong => mem.deals_json = RecentOf(last_offset)
  /\ pc # "down" /\ DealsKey \notin Wrong \cup drift.missed \cup drift.behind =>
       Pushed(mem.deals, redis.deals) = RecentOf(last_offset)
  /\ DealsKey \notin Wrong \cup drift.ahead \cup drift.behind => redis.deals = RecentOf(redis.offset)

\* ... and the last price.
LastRight ==
  /\ pc # "down" /\ LastKey \notin Wrong /\ last_offset > 0 => mem.last = topic[last_offset].price
  /\ LastKey \notin Wrong \cup drift.ahead /\ redis.offset > 0 => redis.last = topic[redis.offset].price

KeptInv == /\ Inv /\ KeptTypeOK /\ FlushOrder
           /\ KlinesRight("exact") /\ KlinesRight("cover") /\ DealsRight /\ LastRight
------------------------------------------------------------------------------
(* What stays right because little changes                                  *)

\* The parts of what is kept.
LEMMA KeptFields ==
  ASSUME KeptTypeOK
  PROVE  /\ mem.klines \in Tables /\ mem.update \in SUBSET Keys /\ mem.deals \in Seq(Nat)
         /\ mem.deals_json \in Seq(Nat) /\ mem.last \in Nat /\ mem.fresh \in BOOLEAN
         /\ redis.klines \in Tables /\ redis.deals \in Seq(Nat) /\ redis.last \in Nat /\ redis.offset \in Nat
         /\ Len(redis.deals) <= DealsMax
         /\ drift.ahead \in SUBSET Names /\ drift.missed \in SUBSET Names /\ drift.behind \in SUBSET Names
         /\ drift.over \in SUBSET Names /\ drift.under \in SUBSET Names
<1> HIDE DEF Tables, Keys, Names
<1>1. /\ mem \in [klines : Tables, update : SUBSET Keys, deals : Seq(Nat), deals_json : Seq(Nat),
                  last : Nat, fresh : BOOLEAN]
      /\ redis \in [klines : Tables, deals : Seq(Nat), last : Nat, offset : Nat]
      /\ Len(redis.deals) <= DealsMax
      /\ drift \in [ahead : SUBSET Names, missed : SUBSET Names, behind : SUBSET Names,
                    over : SUBSET Names, under : SUBSET Names]
  BY Zenon DEF KeptTypeOK
<1>2. /\ mem.klines \in Tables /\ mem.update \in SUBSET Keys /\ mem.deals \in Seq(Nat)
      /\ mem.deals_json \in Seq(Nat) /\ mem.last \in Nat /\ mem.fresh \in BOOLEAN
  BY <1>1
<1>3. redis.klines \in Tables /\ redis.deals \in Seq(Nat) /\ redis.last \in Nat /\ redis.offset \in Nat
  BY <1>1
<1>4. /\ drift.ahead \in SUBSET Names /\ drift.missed \in SUBSET Names /\ drift.behind \in SUBSET Names
      /\ drift.over \in SUBSET Names /\ drift.under \in SUBSET Names
  BY <1>1
<1> QED BY <1>1, <1>2, <1>3, <1>4

\* The offsets and the time.
LEMMA OffsetsAre ==
  ASSUME Inv
  PROVE  /\ topic \in Seq(Deals) /\ now \in Nat /\ now \in Clock
         /\ redis.offset \in 0..Len(topic)
         /\ pc # "down" => last_offset \in 0..Len(topic) /\ redis.offset <= last_offset
<1>1. /\ topic \in Seq(Deals) /\ now \in Nat /\ now \in Clock
      /\ redis.offset \in 0..Len(topic) /\ last_offset \in Nat /\ offset \in Nat
  <2>1. MarketPriceTypeOK
    BY DEF Inv
  <2>2. topic \in Seq(Deals)
    BY <2>1, Zenon DEF MarketPriceTypeOK, Deals
  <2>3. now \in Clock /\ redis.offset \in 0..Len(topic) /\ last_offset \in Nat /\ offset \in Nat
    BY <2>1, Zenon DEF MarketPriceTypeOK
  <2> QED BY <2>2, <2>3
<1>2. Len(topic) \in Nat
  BY <1>1
<1>3. pc # "down" => redis.offset <= last_offset /\ last_offset < offset /\ offset <= Len(topic) + 1
  BY DEF Inv, InOrder
<1> QED BY <1>1, <1>2, <1>3

\* The k-lines are right after a step that takes no key from those that may be wrong,
\* and changes neither the other k-lines nor what is due of them.
LEMMA KlinesStay ==
  ASSUME NEW how, KlinesRight(how), Live' \subseteq Live, pc' # "down" => pc # "down",
         pc' # "down" => Off(how) \subseteq Off(how)' /\ Late(how) \subseteq Late(how)',
         Differs(how) \subseteq Differs(how)',
         \A key \in Live' \ Off(how)' :
           /\ pc' # "down" => /\ At(mem'.klines, key) = At(mem.klines, key)
                              /\ DueIn(topic', last_offset', key) = DueIn(topic, last_offset, key)
           /\ At(redis'.klines, key) = At(redis.klines, key)
           /\ DueIn(topic', redis'.offset, key) = DueIn(topic, redis.offset, key)
  PROVE  KlinesRight(how)'
<1> SUFFICES ASSUME NEW key \in Live' PROVE KeyRight(how, key)'
  BY DEF KlinesRight
<1>1. key \in Live /\ KeyRight(how, key)
  BY DEF KlinesRight
<1>2. Off(how)' \subseteq Late(how)' /\ Off(how)' \subseteq Differs(how)'
  BY DEF Late, Differs
<1>3. ASSUME pc' # "down", key \notin Off(how)'
      PROVE  Right(how, At(mem'.klines, key), DueIn(topic', last_offset', key))
  <2>1. Right(how, At(mem.klines, key), DueIn(topic, last_offset, key))
    BY <1>1, <1>3 DEF KeyRight
  <2> QED BY <1>3, <2>1
<1>4. ASSUME pc' # "down", key \notin Late(how)'
      PROVE  Right(how, At(redis'.klines, key), DueIn(topic', last_offset', key))
  <2>1. Right(how, At(redis.klines, key), DueIn(topic, last_offset, key))
    BY <1>1, <1>4 DEF KeyRight
  <2> QED BY <1>2, <1>4, <2>1
<1>5. ASSUME key \notin Differs(how)'
      PROVE  Right(how, At(redis'.klines, key), DueIn(topic', redis'.offset, key))
  <2>1. Right(how, At(redis.klines, key), DueIn(topic, redis.offset, key))
    BY <1>1, <1>5 DEF KeyRight
  <2> QED BY <1>2, <1>5, <2>1
<1> QED BY <1>3, <1>4, <1>5 DEF KeyRight

\* So do the recent deals, ...
LEMMA DealsStay ==
  ASSUME DealsRight, pc' # "down" => pc # "down",
         pc' # "down" => /\ mem'.deals_json = mem.deals_json /\ mem'.deals = mem.deals
                         /\ last_offset' = last_offset,
         redis'.deals = redis.deals, redis'.offset = redis.offset,
         pc' # "down" /\ DealsKey \in Wrong => DealsKey \in Wrong',
         pc' # "down" /\ DealsKey \in Wrong \cup drift.missed \cup drift.behind =>
           DealsKey \in Wrong' \cup drift'.missed \cup drift'.behind,
         DealsKey \in Wrong \cup drift.ahead \cup drift.behind =>
           DealsKey \in Wrong' \cup drift'.ahead \cup drift'.behind
  PROVE  DealsRight'
  BY DEF DealsRight, RecentOf

\* ... and the last price.
LEMMA LastStay ==
  ASSUME Inv, LastRight, pc' # "down" => pc # "down",
         pc' # "down" => mem'.last = mem.last /\ last_offset' = last_offset,
         \A i \in 1..Len(topic) : topic'[i] = topic[i],
         redis'.last = redis.last, redis'.offset = redis.offset,
         pc' # "down" /\ LastKey \in Wrong => LastKey \in Wrong',
         LastKey \in Wrong \cup drift.ahead => LastKey \in Wrong' \cup drift'.ahead
  PROVE  LastRight'
<1>1. redis.offset \in 0..Len(topic) /\ (pc # "down" => last_offset \in 0..Len(topic)) /\ topic \in Seq(Deals)
  BY OffsetsAre
<1>2. ASSUME pc' # "down", LastKey \notin Wrong', last_offset' > 0 PROVE mem'.last = topic'[last_offset'].price
  <2>1. mem.last = topic[last_offset].price
    BY <1>2 DEF LastRight
  <2>2. last_offset \in 1..Len(topic)
    BY <1>1, <1>2
  <2> QED BY <1>2, <2>1, <2>2
<1>3. ASSUME LastKey \notin Wrong' \cup drift'.ahead, redis'.offset > 0
      PROVE  redis'.last = topic'[redis'.offset].price
  <2>1. redis.last = topic[redis.offset].price
    BY <1>3 DEF LastRight
  <2>2. redis.offset \in 1..Len(topic)
    BY <1>1, <1>3
  <2> QED BY <2>1, <2>2
<1> QED BY <1>2, <1>3 DEF LastRight
------------------------------------------------------------------------------
(* Steps that change nothing of what is kept                                *)

\* What is kept later is kept now.
LEMMA LiveStays ==
  ASSUME now \in Nat, now' \in Nat, now <= now'
  PROVE  Live' \subseteq Live
<1> SUFFICES ASSUME NEW key \in Live' PROVE key \in Live
  OBVIOUS
<1>1. key \in Keys /\ ~(key[2] < Limit(key[1], now'))
  BY DEF Live, Expired
<1>2. key[1] \in Types /\ key[2] \in Nat
  BY <1>1, KeysAre
<1>3. ~(key[2] < Limit(key[1], now))
  BY <1>1, <1>2, ExpiredStays
<1> QED BY <1>1, <1>3 DEF Live, Expired

\* While the time stays, so do the keys that are kept.
LEMMA LiveSame == ASSUME now' = now PROVE Live' = Live
  BY DEF Live, Expired

\* What is due of the topic does not change when it grows.
LEMMA DueStays ==
  ASSUME topic \in Seq(Deals), topic' = topic \/ (\E x \in Deals : topic' = Append(topic, x)),
         NEW n \in 0..Len(topic), NEW key
  PROVE  DueIn(topic', n, key) = DueIn(topic, n, key)
<1>1. ASSUME NEW x \in Deals PROVE DueIn(Append(topic, x), n, key) = DueIn(topic, n, key)
  BY DueAppend
<1>2. CASE topic' = topic
  BY <1>2, Zenon
<1>3. CASE \E x \in Deals : topic' = Append(topic, x)
  <2>1. PICK x \in Deals : topic' = Append(topic, x)
    BY <1>3
  <2> QED BY <1>1, <2>1, Zenon
<1> QED BY <1>2, <1>3

\* A step that leaves alone what is kept leaves it right.
LEMMA QuietStep ==
  ASSUME KeptInv, UNCHANGED <<mem, last_offset, redis, drift>>, Live' \subseteq Live,
         pc' = "down" <=> pc = "down",
         topic' = topic \/ (\E x \in Deals : topic' = Append(topic, x))
  PROVE  /\ KeptTypeOK' /\ KlinesRight("exact")' /\ KlinesRight("cover")' /\ DealsRight' /\ LastRight'
<1>1. /\ Inv /\ KeptTypeOK /\ KlinesRight("exact") /\ KlinesRight("cover") /\ DealsRight /\ LastRight
  BY Zenon DEF KeptInv
<1>2. /\ topic \in Seq(Deals) /\ redis.offset \in 0..Len(topic)
      /\ pc # "down" => last_offset \in 0..Len(topic)
  BY <1>1, OffsetsAre
<1>3. KeptTypeOK'
  BY <1>1 DEF KeptTypeOK
<1>4. Wrong' = Wrong
  BY DEF Wrong
<1>5. ASSUME NEW how, KlinesRight(how) PROVE KlinesRight(how)'
  <2>1. Off(how)' = Off(how) /\ Late(how)' = Late(how) /\ Differs(how)' = Differs(how)
    BY <1>4 DEF Off, Late, Differs
  <2>2. ASSUME NEW key \in Live' \ Off(how)'
        PROVE  /\ pc' # "down" => /\ At(mem'.klines, key) = At(mem.klines, key)
                                  /\ DueIn(topic', last_offset', key) = DueIn(topic, last_offset, key)
               /\ At(redis'.klines, key) = At(redis.klines, key)
               /\ DueIn(topic', redis'.offset, key) = DueIn(topic, redis.offset, key)
    <3>1. pc' # "down" => DueIn(topic', last_offset, key) = DueIn(topic, last_offset, key)
      BY <1>2, DueStays
    <3>2. DueIn(topic', redis.offset, key) = DueIn(topic, redis.offset, key)
      BY <1>2, DueStays
    <3> QED BY <3>1, <3>2
  <2> QED BY <1>5, <2>1, <2>2, KlinesStay
<1>6. DealsRight'
  BY <1>1, <1>4, DealsStay
<1>7. LastRight'
  <2>1. \A i \in 1..Len(topic) : topic'[i] = topic[i]
    BY <1>2
  <2> QED BY <1>1, <1>4, <2>1, LastStay
<1> QED BY <1>1, <1>3, <1>5, <1>6, <1>7

\* Time, the match engine, the consumer, and the timer that begins a flush.
LEMMA QuietKept ==
  ASSUME KeptInv, Inv',
         \/ /\ Outside
            /\ \/ Tick \/ Fetch \/ Wake \/ Drained
               \/ \E price \in Prices, amount \in Amounts : Publish(price, amount)
         \/ FlushTimer
  PROVE  KeptInv'
<1>1. Inv /\ FlushOrder /\ topic \in Seq(Deals) /\ now \in Nat /\ now \in Clock /\ now' \in Nat
  <2>1. Inv /\ FlushOrder
    BY Zenon DEF KeptInv
  <2>2. now' \in Nat
    BY DEF Inv, MarketPriceTypeOK
  <2> QED BY <2>1, <2>2, OffsetsAre
<1>2. UNCHANGED <<mem, last_offset, redis, drift>>
  BY DEF Outside, FlushTimer
<1>3. Live' \subseteq Live
  <2>2. ASSUME Tick PROVE now <= now'
    <3>1. PICK t \in Clock : t > now /\ now' = t
      BY <2>2 DEF Tick
    <3> QED BY <1>1, <3>1
  <2>3. ASSUME ~Tick PROVE now' = now
    BY <2>3 DEF Fetch, Wake, Drained, Publish, FlushTimer
  <2>1. now' = now \/ now <= now'
    BY <2>2, <2>3
  <2> QED BY <1>1, <2>1, LiveSame, LiveStays
<1>4. topic' = topic \/ (\E x \in Deals : topic' = Append(topic, x))
  <2>1. CASE \E price \in Prices, amount \in Amounts : Publish(price, amount)
    <3>1. PICK price \in Prices, amount \in Amounts : Publish(price, amount)
      BY <2>1
    <3>2. PICK x : x = [time |-> now, price |-> price, amount |-> amount]
      OBVIOUS
    <3>3. x \in Deals
      BY <1>1, <3>2 DEF Deals
    <3> QED BY <3>1, <3>2, <3>3 DEF Publish
  <2>2. CASE ~ \E price \in Prices, amount \in Amounts : Publish(price, amount)
    BY <2>2 DEF Tick, Fetch, Wake, Drained, FlushTimer, consumer
  <2> QED BY <2>1, <2>2
<1>5. pc' = "down" <=> pc = "down"
  BY DEF Tick, Fetch, Wake, Drained, Publish, FlushTimer
<1>6. FlushOrder'
  <2>1. pc' = pc \/ pc' \in {"loop", "read", "update"} \/ (pc' = "offset" /\ ~mem.fresh)
    BY DEF Tick, Fetch, Wake, Drained, Publish, FlushTimer
  <2> QED BY <1>1, <1>2, <1>5, <2>1 DEF FlushOrder
<1> QED BY <1>2, <1>3, <1>4, <1>5, <1>6, QuietStep DEF KeptInv
------------------------------------------------------------------------------
(* Lists of recent deals                                                    *)

\* The first ones of a sequence.
LEMMA FirstOnesAre ==
  ASSUME NEW s \in Seq(Nat)
  PROVE  /\ FirstOnes(s, DealsMax) \in Seq(Nat) /\ Len(FirstOnes(s, DealsMax)) = Lower(DealsMax, Len(s))
         /\ \A i \in 1..Lower(DealsMax, Len(s)) : FirstOnes(s, DealsMax)[i] = s[i]
         /\ Len(FirstOnes(s, DealsMax)) <= DealsMax
         /\ Len(s) <= DealsMax => FirstOnes(s, DealsMax) = s
<1>1. PICK k \in Nat : k = Lower(DealsMax, Len(s)) /\ k <= Len(s) /\ k <= DealsMax /\ (Len(s) <= DealsMax => k = Len(s))
  BY DEF Lower
<1>2. PICK t : t = SubSeq(s, 1, k)
  OBVIOUS
<1>3. t \in Seq(Nat) /\ Len(t) = k /\ \A i \in 1..k : t[i] = s[i]
  BY <1>1, <1>2
<1>4. FirstOnes(s, DealsMax) = t
  BY <1>1, <1>2 DEF FirstOnes
<1>5. Len(s) <= DealsMax => t = s
  BY <1>1, <1>3, SeqEqual
<1> QED BY <1>1, <1>3, <1>4, <1>5

\* The last offsets, newest first.
LEMMA RecentIs ==
  ASSUME NEW n \in Nat
  PROVE  /\ RecentOf(n) \in Seq(Nat) /\ Len(RecentOf(n)) = Lower(n, DealsMax) /\ Len(RecentOf(n)) <= DealsMax
         /\ \A i \in 1..Lower(n, DealsMax) : RecentOf(n)[i] = n - i + 1
<1>1. PICK k \in Nat : k = Lower(n, DealsMax) /\ k <= n /\ k <= DealsMax
  BY DEF Lower
<1>2. PICK r : r = [i \in 1..k |-> n - i + 1]
  OBVIOUS
<1>3. r \in Seq(Nat) /\ Len(r) = k /\ \A i \in 1..k : r[i] = n - i + 1
  <2>1. \A i \in 1..k : n - i + 1 \in Nat
    BY <1>1
  <2> QED BY <1>2, <2>1
<1>4. RecentOf(n) = r
  BY <1>1, <1>2 DEF RecentOf
<1> QED BY <1>1, <1>3, <1>4

\* A sequence with one element before it.
LEMMA ConsIs ==
  ASSUME NEW s \in Seq(Nat), NEW x \in Nat
  PROVE  /\ <<x>> \o s \in Seq(Nat) /\ Len(<<x>> \o s) = Len(s) + 1
         /\ (<<x>> \o s)[1] = x /\ \A i \in 1..Len(s) : (<<x>> \o s)[i + 1] = s[i]
<1>0. <<x>> \in Seq(Nat) /\ Len(<<x>>) = 1 /\ <<x>>[1] = x
  OBVIOUS
<1>1. PICK one \in Seq(Nat) : one = <<x>>
  BY <1>0
<1>2. Len(one) = 1 /\ one[1] = x
  BY <1>0, <1>1
<1>3. /\ one \o s \in Seq(Nat) /\ Len(one \o s) = 1 + Len(s)
      /\ \A i \in 1..(1 + Len(s)) : (one \o s)[i] = IF i <= 1 THEN one[i] ELSE s[i - 1]
  <2>1. /\ one \o s \in Seq(Nat) /\ Len(one \o s) = Len(one) + Len(s)
        /\ \A i \in 1..Len(one) + Len(s) : (one \o s)[i] = IF i <= Len(one) THEN one[i] ELSE s[i - Len(one)]
    BY ConcatProperties, Zenon
  <2> QED BY <1>2, <2>1
<1>4. (one \o s)[1] = x
  BY <1>2, <1>3
<1>5. ASSUME NEW i \in 1..Len(s) PROVE (one \o s)[i + 1] = s[i]
  <2>1. i + 1 \in 1..(1 + Len(s)) /\ ~(i + 1 <= 1) /\ (i + 1) - 1 = i
    OBVIOUS
  <2> QED BY <1>3, <2>1
<1> QED BY <1>1, <1>3, <1>4, <1>5

\* The next one comes first.
LEMMA RecentNext ==
  ASSUME NEW s \in Seq(Nat), NEW n \in Nat, FirstOnes(s, DealsMax) = RecentOf(n)
  PROVE  FirstOnes(<<n + 1>> \o s, DealsMax) = RecentOf(n + 1)
<1>0. PICK x \in Nat : x = n + 1
  OBVIOUS
<1>1. PICK more \in Seq(Nat) : more = <<x>> \o s
  BY ConsIs
<1>2. Len(more) = Len(s) + 1 /\ more[1] = n + 1 /\ \A i \in 1..Len(s) : more[i + 1] = s[i]
  BY <1>0, <1>1, ConsIs
<1>3. PICK f \in Seq(Nat) : f = FirstOnes(more, DealsMax)
  BY FirstOnesAre
<1>4. Len(f) = Lower(DealsMax, Len(more)) /\ \A i \in 1..Lower(DealsMax, Len(more)) : f[i] = more[i]
  BY <1>3, FirstOnesAre
<1>5. PICK r \in Seq(Nat) : r = RecentOf(x)
  BY RecentIs
<1>6. Len(r) = Lower(n + 1, DealsMax) /\ \A i \in 1..Lower(n + 1, DealsMax) : r[i] = n + 1 - i + 1
  <2>1. Len(r) = Lower(x, DealsMax) /\ \A i \in 1..Lower(x, DealsMax) : r[i] = x - i + 1
    BY <1>5, RecentIs
  <2> QED BY <1>0, <2>1
<1>7. /\ Lower(DealsMax, Len(s)) = Lower(n, DealsMax)
      /\ \A i \in 1..Lower(n, DealsMax) : s[i] = n - i + 1
  <2>1. PICK q : q = FirstOnes(s, DealsMax) /\ q = RecentOf(n)
    OBVIOUS
  <2>2. Len(q) = Lower(DealsMax, Len(s)) /\ \A i \in 1..Lower(DealsMax, Len(s)) : q[i] = s[i]
    BY <2>1, FirstOnesAre
  <2>3. Len(q) = Lower(n, DealsMax) /\ \A i \in 1..Lower(n, DealsMax) : q[i] = n - i + 1
    BY <2>1, RecentIs
  <2> QED BY <2>2, <2>3
<1>8. Len(f) = Len(r)
  BY <1>2, <1>4, <1>6, <1>7 DEF Lower
<1>9. ASSUME NEW i \in 1..Len(f) PROVE f[i] = r[i]
  <2>1. f[i] = more[i] /\ r[i] = n + 1 - i + 1
    BY <1>4, <1>6, <1>8
  <2>2. CASE i = 1
    BY <1>2, <2>1, <2>2
  <2>3. CASE i # 1
    <3>1. PICK j \in Nat : i = j + 1 /\ j \in 1..Len(s) /\ j \in 1..Lower(n, DealsMax)
      <4>1. i \in Nat /\ i >= 1 /\ i <= Lower(DealsMax, Len(more)) /\ i <= Lower(n + 1, DealsMax)
        BY <1>4, <1>6, <1>8
      <4>2. i - 1 \in Nat /\ i - 1 \in 1..Len(s) /\ i - 1 \in 1..Lower(n, DealsMax)
        BY <1>2, <2>3, <4>1 DEF Lower
      <4> QED BY <4>2
    <3>2. more[i] = s[j] /\ s[j] = n - j + 1
      BY <1>2, <1>7, <3>1
    <3> QED BY <2>1, <3>1, <3>2
  <2> QED BY <2>2, <2>3
<1>10. f = r
  BY <1>8, <1>9, SeqEqual
<1> QED BY <1>0, <1>1, <1>3, <1>5, <1>10

\* A list pushed one by one comes out reversed.
LEMMA PushedIs ==
  ASSUME NEW d \in Seq(Nat), NEW s \in Seq(Nat)
  PROVE  /\ Reverse(d) \o s \in Seq(Nat)
         /\ Pushed(d, s) = FirstOnes(Reverse(d) \o s, DealsMax)
         /\ Pushed(d, s) \in Seq(Nat) /\ Len(Pushed(d, s)) <= DealsMax
         /\ \A x \in Nat : Reverse(Append(d, x)) \o s = <<x>> \o (Reverse(d) \o s)
         /\ Len(s) <= DealsMax => Pushed(<<>>, s) = s
<1>1. Reverse(d) \in Seq(Nat) /\ Len(Reverse(d)) = Len(d) /\ \A i \in 1..Len(d) : Reverse(d)[i] = d[Len(d) - i + 1]
  BY DEF Reverse
<1>2. Reverse(d) \o s \in Seq(Nat)
  BY <1>1
<1>3. Pushed(d, s) = FirstOnes(Reverse(d) \o s, DealsMax)
  BY DEF Pushed
<1>4. Pushed(d, s) \in Seq(Nat) /\ Len(Pushed(d, s)) <= DealsMax
  <2>1. PICK t \in Seq(Nat) : t = Reverse(d) \o s
    BY <1>2
  <2>2. FirstOnes(t, DealsMax) \in Seq(Nat) /\ Len(FirstOnes(t, DealsMax)) <= DealsMax
    BY FirstOnesAre, Zenon
  <2> QED BY <1>3, <2>1, <2>2
<1>5. ASSUME NEW x \in Nat PROVE Reverse(Append(d, x)) \o s = <<x>> \o (Reverse(d) \o s)
  <2>0. Append(d, x) \in Seq(Nat)
    OBVIOUS
  <2>1. PICK m \in Seq(Nat) : m = Append(d, x)
    BY <2>0
  <2>2. Len(m) = Len(d) + 1 /\ m[Len(d) + 1] = x /\ \A i \in 1..Len(d) : m[i] = d[i]
    BY <2>1
  <2>10. PICK b \in Seq(Nat) : b = Reverse(d)
    BY <1>1
  <2>11. PICK c \in Seq(Nat) : c = <<x>> \o b
    BY ConsIs
  <2>12. \A i \in 1..Len(m) : m[Len(m) - i + 1] \in Nat
    BY <2>2
  <2>14. /\ Reverse(m) \in Seq(Nat) /\ Len(Reverse(m)) = Len(m)
         /\ \A i \in 1..Len(m) : Reverse(m)[i] = m[Len(m) - i + 1]
    BY <2>12 DEF Reverse
  <2>3. PICK a \in Seq(Nat) : a = Reverse(m) /\ Len(a) = Len(m) /\ \A i \in 1..Len(m) : a[i] = m[Len(m) - i + 1]
    BY <2>14, Zenon
  <2>4. Len(c) = Len(b) + 1 /\ c[1] = x /\ \A i \in 1..Len(b) : c[i + 1] = b[i]
    BY <2>11, ConsIs
  <2>13. Len(b) = Len(d) /\ \A i \in 1..Len(d) : b[i] = d[Len(d) - i + 1]
    BY <1>1, <2>10
  <2>5. ASSUME NEW i \in 1..Len(a) PROVE a[i] = c[i]
    <3>1. a[i] = m[Len(d) + 1 - i + 1] /\ i \in 1..(Len(d) + 1)
      BY <2>2, <2>3
    <3>2. CASE i = 1
      BY <2>2, <2>4, <3>1, <3>2
    <3>3. CASE i # 1
      <4>1. PICK j \in 1..Len(d) : i = j + 1
        <5>1. i - 1 \in 1..Len(d) /\ i = (i - 1) + 1
          BY <3>1, <3>3
        <5> QED BY <5>1
      <4>2. c[i] = d[Len(d) - j + 1]
        BY <2>4, <2>13, <4>1
      <4>3. Len(d) + 1 - i + 1 = Len(d) - j + 1 /\ Len(d) - j + 1 \in 1..Len(d)
        BY <4>1
      <4> QED BY <2>2, <3>1, <4>2, <4>3
    <3> QED BY <3>2, <3>3
  <2>6. Len(a) = Len(c)
    BY <2>2, <2>3, <2>4, <2>13
  <2>7. a = c
    BY <2>5, <2>6, SeqEqual
  <2>8. (<<x>> \o b) \o s = <<x>> \o (b \o s)
    BY <2>11
  <2> QED BY <2>1, <2>3, <2>7, <2>8, <2>10, <2>11
<1>6. ASSUME Len(s) <= DealsMax PROVE Pushed(<<>>, s) = s
  <2>1. Reverse(<<>>) = <<>>
    BY DEF Reverse
  <2>2. <<>> \o s = s
    OBVIOUS
  <2> QED BY <1>6, <2>1, <2>2, FirstOnesAre DEF Pushed
<1> QED BY <1>2, <1>3, <1>4, <1>5, <1>6
------------------------------------------------------------------------------
(* on_deals_message                                                         *)

\* The deal handled, and what it does.
LEMMA DealIs ==
  ASSUME KeptInv, OnDealsMessage
  PROVE  \E n \in Nat :
           /\ n = last_offset /\ last_offset' = n + 1 /\ n + 1 <= Len(topic) /\ topic[n + 1] \in Deals
           /\ pc = "read" /\ pc' = "read" /\ now' = now /\ topic' = topic /\ redis' = redis /\ drift' = drift
           /\ mem' = market_update(mem, n + 1)
<1>1. Inv
  BY Zenon DEF KeptInv
<1>2. pc = "read" /\ list # <<>> /\ mem' = market_update(mem, Head(list)) /\ last_offset' = Head(list)
      /\ now' = now /\ topic' = topic /\ redis' = redis /\ drift' = drift /\ pc' = pc
  BY DEF OnDealsMessage, Handle
<1>3. /\ last_offset < offset /\ offset <= Len(topic) + 1 /\ list = Between(last_offset, offset)
      /\ last_offset \in Nat /\ offset \in Nat
  BY <1>1, <1>2 DEF Inv, InOrder, MarketPriceTypeOK
<1>4. last_offset + 1 < offset /\ Head(list) = last_offset + 1
  BY <1>2, <1>3, BetweenTail
<1>5. topic \in Seq(Deals)
  BY <1>1, OffsetsAre
<1>6. last_offset + 1 <= Len(topic) /\ topic[last_offset + 1] \in Deals
  BY <1>3, <1>4, <1>5
<1> QED BY <1>2, <1>3, <1>4, <1>6

\* The k-lines a deal belongs to are keys.
LEMMA KeysOfAre == ASSUME NEW deal \in Deals PROVE KeysOf(deal) \in SUBSET Keys
<1>1. ASSUME NEW type \in Types PROVE <<type, Bucket(type, deal.time)>> \in Keys
  <2>1. deal.time \in Nat
    BY DealFields
  <2>2. PICK t \in Nat : t = Bucket(type, deal.time) /\ IsKey(<<type, t>>)
    BY <2>1, BucketIsKey
  <2> QED BY <2>2 DEF Keys
<1> QED BY <1>1 DEF KeysOf

\* market_update, field by field.
LEMMA UpdateIs ==
  ASSUME KeptTypeOK, NEW i \in Nat, topic[i] \in Deals, mem' = market_update(mem, i)
  PROVE  /\ mem'.klines = Counted(mem.klines, topic[i], mem.last)
         /\ mem'.klines \in Tables
         /\ mem'.update = mem.update \cup KeysOf(topic[i]) /\ mem'.update \in SUBSET Keys
         /\ mem'.deals = Append(mem.deals, i) /\ mem'.deals_json = FirstOnes(<<i>> \o mem.deals_json, DealsMax)
         /\ mem'.last = topic[i].price /\ mem'.fresh = TRUE
         /\ mem' \in [klines : Tables, update : SUBSET Keys, deals : Seq(Nat), deals_json : Seq(Nat),
                      last : Nat, fresh : BOOLEAN]
<1>1. PICK klines : klines = Counted(mem.klines, topic[i], mem.last)
  OBVIOUS
<1>2. mem.klines \in Tables /\ mem.update \in SUBSET Keys /\ mem.deals \in Seq(Nat) /\ mem.deals_json \in Seq(Nat)
  BY KeptFields
<1>3. klines \in Tables
  BY <1>1, <1>2, AtAggregated
<1>4. PICK update \in SUBSET Keys : update = mem.update \cup KeysOf(topic[i])
  BY <1>2, KeysOfAre
<1>5. PICK deals \in Seq(Nat) : deals = Append(mem.deals, i)
  BY <1>2, AppendProperties
<1>6. PICK json \in Seq(Nat) : json = FirstOnes(<<i>> \o mem.deals_json, DealsMax)
  <2>1. PICK s \in Seq(Nat) : s = <<i>> \o mem.deals_json
    BY <1>2, ConsIs
  <2> QED BY <2>1, FirstOnesAre
<1>7. PICK price \in Nat : price = topic[i].price
  BY DealFields
<1>8. mem' = [klines |-> klines, update |-> update, deals |-> deals, deals_json |-> json, last |-> price, fresh |-> TRUE]
  BY <1>1, <1>4, <1>5, <1>6, <1>7 DEF market_update, Counted
<1> HIDE DEF Tables, Keys
<1>9. /\ mem'.klines = klines /\ mem'.update = update /\ mem'.deals = deals /\ mem'.deals_json = json
      /\ mem'.last = price /\ mem'.fresh = TRUE
  BY <1>8
<1>10. mem' \in [klines : Tables, update : SUBSET Keys, deals : Seq(Nat), deals_json : Seq(Nat),
                 last : Nat, fresh : BOOLEAN]
  BY <1>3, <1>8
<1> QED BY <1>1, <1>3, <1>4, <1>5, <1>6, <1>7, <1>9, <1>10

\* The k-lines stay right: those of the deal get it, in memory and in what is due.
LEMMA DealKlines ==
  ASSUME KeptInv, OnDealsMessage, NEW how, KlinesRight(how)
  PROVE  KlinesRight(how)'
<1>1. PICK n \in Nat :
           /\ n = last_offset /\ last_offset' = n + 1 /\ n + 1 <= Len(topic) /\ topic[n + 1] \in Deals
           /\ pc = "read" /\ pc' = "read" /\ now' = now /\ topic' = topic /\ redis' = redis /\ drift' = drift
           /\ mem' = market_update(mem, n + 1)
  BY DealIs
<1>2. PICK d \in Seq(Deals) : d = topic
  <2>1. topic \in Seq(Deals)
    BY OffsetsAre DEF KeptInv
  <2> QED BY <2>1
<1>3. PICK x \in Deals : x = d[n + 1]
  BY <1>1, <1>2
<1>4. KeptTypeOK
  BY DEF KeptInv
<1>5. /\ mem'.klines = Counted(mem.klines, x, mem.last)
      /\ mem'.update = mem.update \cup KeysOf(x)
  <2>1. PICK i \in Nat : i = n + 1
    OBVIOUS
  <2>2. mem' = market_update(mem, i) /\ topic[i] \in Deals /\ topic[i] = x
    BY <1>1, <1>2, <1>3, <2>1
  <2>3. /\ mem'.klines = Counted(mem.klines, topic[i], mem.last)
        /\ mem'.update = mem.update \cup KeysOf(topic[i])
    BY <1>4, <2>2, UpdateIs, Zenon
  <2> QED BY <2>2, <2>3
<1>6. mem.klines \in Tables
  BY <1>4, KeptFields
<1> SUFFICES ASSUME NEW key \in Live' PROVE KeyRight(how, key)'
  BY DEF KlinesRight
<1>7. key \in Live /\ KeyRight(how, key)
  BY <1>1, LiveSame DEF KlinesRight
<1>8. key \in Keys
  BY <1>7 DEF Live
<1>9. /\ key[1] \in Types /\ IsKey(key) /\ (key \in KeysOf(x) <=> key[2] = Bucket(key[1], x.time))
  BY <1>8, KeysAre DEF KeysOf
<1>10. At(mem'.klines, key) = IF key \in KeysOf(x) THEN Traded(At(mem.klines, key), x.price, x.amount) ELSE At(mem.klines, key)
  <2>1. PICK klines \in Tables : klines = mem.klines
    BY <1>6
  <2>2. \A k \in Keys : At(Counted(klines, x, mem.last), k) =
          IF k \in KeysOf(x) THEN Traded(At(klines, k), x.price, x.amount) ELSE At(klines, k)
    BY AtAggregated, Zenon
  <2> QED BY <1>5, <1>8, <2>1, <2>2
<1>11. DueIn(d, n + 1, key) = IF key \in KeysOf(x) THEN Traded(DueIn(d, n, key), x.price, x.amount) ELSE DueIn(d, n, key)
  <2>1. n + 1 <= Len(d)
    BY <1>1, <1>2
  <2>2. DueIn(d, n + 1, key) =
          IF key[2] = Bucket(key[1], d[n + 1].time)
          THEN Traded(DueIn(d, n, key), d[n + 1].price, d[n + 1].amount)
          ELSE DueIn(d, n, key)
    BY <1>9, <2>1, DueNext
  <2> QED BY <1>3, <1>9, <2>2
<1>12. At(mem.klines, key) \in Candle \cup {NoKline} /\ DueIn(d, n, key) \in Candle \cup {NoKline}
  <2>1. n \in 0..Len(d)
    BY <1>1, <1>2
  <2> QED BY <1>6, <1>8, <2>1, AtType, DueType
<1>13. x.price \in Nat \ {0} /\ x.amount \in Nat /\ x.price * x.amount \in Nat
  BY DealFields
<1>14. Off(how)' = Off(how) /\ Differs(how)' = Differs(how)
  BY <1>1 DEF Off, Differs, Wrong
<1>15. ASSUME key \notin Off(how) PROVE Right(how, At(mem'.klines, key), DueIn(d, n + 1, key))
  <2>1. Right(how, At(mem.klines, key), DueIn(d, n, key))
    BY <1>1, <1>2, <1>7, <1>15 DEF KeyRight
  <2>2. Right(how, Traded(At(mem.klines, key), x.price, x.amount), Traded(DueIn(d, n, key), x.price, x.amount))
    <3>1. PICK a \in Candle \cup {NoKline}, b \in Candle \cup {NoKline} : a = At(mem.klines, key) /\ b = DueIn(d, n, key)
      BY <1>12
    <3>2. PICK p \in Nat \ {0}, q \in Nat : p = x.price /\ q = x.amount
      BY <1>13
    <3>3. Right(how, a, b) /\ p * q \in Nat
      BY <1>13, <2>1, <3>1, <3>2
    <3>4. Right(how, Traded(a, p, q), Traded(b, p, q))
      BY <3>3, TradedRight, Zenon
    <3> QED BY <3>1, <3>2, <3>4
  <2> QED BY <1>10, <1>11, <2>1, <2>2
<1>16. ASSUME key \notin Late(how)' PROVE Right(how, At(redis.klines, key), DueIn(d, n + 1, key))
  <2>1. Late(how)' = Late(how) \cup KeysOf(x)
    BY <1>1, <1>5, <1>14 DEF Late
  <2>2. Right(how, At(redis.klines, key), DueIn(d, n, key))
    BY <1>1, <1>2, <1>7, <1>16, <2>1 DEF KeyRight
  <2>3. DueIn(d, n + 1, key) = DueIn(d, n, key)
    BY <1>11, <1>16, <2>1
  <2> QED BY <2>2, <2>3
<1>17. ASSUME key \notin Differs(how) PROVE Right(how, At(redis.klines, key), DueIn(d, redis.offset, key))
  BY <1>2, <1>7, <1>17 DEF KeyRight
<1> QED BY <1>1, <1>2, <1>14, <1>15, <1>16, <1>17 DEF KeyRight

\* on_deals_message keeps the invariant.
LEMMA DealKept == ASSUME KeptInv, Inv', OnDealsMessage PROVE KeptInv'
<1>1. PICK n \in Nat :
           /\ n = last_offset /\ last_offset' = n + 1 /\ n + 1 <= Len(topic) /\ topic[n + 1] \in Deals
           /\ pc = "read" /\ pc' = "read" /\ now' = now /\ topic' = topic /\ redis' = redis /\ drift' = drift
           /\ mem' = market_update(mem, n + 1)
  BY DealIs
<1>2. PICK i \in Nat : i = n + 1
  OBVIOUS
<1>3. /\ KeptTypeOK /\ FlushOrder /\ DealsRight /\ LastRight /\ KlinesRight("exact") /\ KlinesRight("cover")
  BY Zenon DEF KeptInv
<1>4. /\ mem'.deals = Append(mem.deals, i) /\ mem'.deals_json = FirstOnes(<<i>> \o mem.deals_json, DealsMax)
      /\ mem'.last = topic[i].price /\ mem'.fresh = TRUE
      /\ mem' \in [klines : Tables, update : SUBSET Keys, deals : Seq(Nat), deals_json : Seq(Nat),
                   last : Nat, fresh : BOOLEAN]
  BY <1>1, <1>2, <1>3, UpdateIs
<1>5. KeptTypeOK'
  BY <1>1, <1>3, <1>4 DEF KeptTypeOK
<1>6. FlushOrder'
  BY <1>1, <1>3, <1>4 DEF FlushOrder
<1>7. KlinesRight("exact")' /\ KlinesRight("cover")'
  BY <1>3, DealKlines
<1>8. Wrong' = Wrong
  BY <1>1 DEF Wrong
<1>9. mem.deals \in Seq(Nat) /\ mem.deals_json \in Seq(Nat) /\ redis.deals \in Seq(Nat)
  BY <1>3, KeptFields
<1>10. DealsRight'
  <2>1. ASSUME DealsKey \notin Wrong PROVE mem'.deals_json = RecentOf(i)
    <3>1. PICK s \in Seq(Nat) : s = mem.deals_json
      BY <1>9
    <3>2. s = RecentOf(n)
      BY <1>1, <1>3, <2>1, <3>1 DEF DealsRight
    <3>3. FirstOnes(s, DealsMax) = s
      BY <3>2, RecentIs, FirstOnesAre
    <3>4. FirstOnes(<<n + 1>> \o s, DealsMax) = RecentOf(n + 1)
      BY <3>2, <3>3, RecentNext
    <3> QED BY <1>2, <1>4, <3>1, <3>4
  <2>2. ASSUME DealsKey \notin Wrong \cup drift.missed \cup drift.behind
        PROVE  Pushed(mem'.deals, redis.deals) = RecentOf(i)
    <3>1. PICK d \in Seq(Nat), t \in Seq(Nat) : d = mem.deals /\ t = redis.deals
      BY <1>9
    <3>2. Pushed(d, t) = RecentOf(n)
      BY <1>1, <1>3, <2>2, <3>1 DEF DealsRight
    <3>3. PICK s \in Seq(Nat) : s = Reverse(d) \o t
      BY PushedIs
    <3>4. FirstOnes(s, DealsMax) = RecentOf(n)
      BY <3>2, <3>3, PushedIs
    <3>5. FirstOnes(<<n + 1>> \o s, DealsMax) = RecentOf(n + 1)
      BY <3>4, RecentNext
    <3>6. Reverse(Append(d, i)) \o t = <<i>> \o s
      <4>1. \A x \in Nat : Reverse(Append(d, x)) \o t = <<x>> \o (Reverse(d) \o t)
        BY PushedIs, Zenon
      <4> QED BY <3>3, <4>1
    <3>7. Pushed(Append(d, i), t) = RecentOf(i)
      BY <1>2, <3>5, <3>6 DEF Pushed
    <3> QED BY <1>4, <3>1, <3>7
  <2>3. DealsKey \notin Wrong \cup drift.ahead \cup drift.behind => redis.deals = RecentOf(redis.offset)
    BY <1>3 DEF DealsRight
  <2>4. /\ mem'.deals_json = RecentOf(i) \/ DealsKey \in Wrong'
        /\ Pushed(mem'.deals, redis'.deals) = RecentOf(i) \/ DealsKey \in Wrong' \cup drift'.missed \cup drift'.behind
        /\ redis'.deals = RecentOf(redis'.offset) \/ DealsKey \in Wrong' \cup drift'.ahead \cup drift'.behind
        /\ last_offset' = i
    BY <1>1, <1>2, <1>8, <2>1, <2>2, <2>3
  <2> QED BY <2>4 DEF DealsRight, RecentOf
<1>11. LastRight'
  BY <1>1, <1>2, <1>3, <1>4, <1>8 DEF LastRight
<1> QED BY <1>5, <1>6, <1>7, <1>10, <1>11 DEF KeptInv
------------------------------------------------------------------------------
(* Flushing                                                                 *)

\* The sets of types, so that they need not be spelled out.
MemType   == [klines : Tables, update : SUBSET Keys, deals : Seq(Nat), deals_json : Seq(Nat),
              last : Nat, fresh : BOOLEAN]
RedisType == [klines : Tables, deals : Seq(Nat), last : Nat, offset : Nat]
DriftType == [ahead : SUBSET Names, missed : SUBSET Names, behind : SUBSET Names,
              over : SUBSET Names, under : SUBSET Names]

\* The types, by these names.
LEMMA KeptTypeIs ==
  KeptTypeOK <=> mem \in MemType /\ redis \in RedisType /\ Len(redis.deals) <= DealsMax /\ drift \in DriftType
  BY DEF KeptTypeOK, MemType, RedisType, DriftType

\* A k-line of the table is written to Redis, or it is not.
LEMMA FlushKlineIs ==
  ASSUME KeptInv, FlushKline
  PROVE  \E key \in Keys :
           /\ key \in mem.update /\ pc = "update" /\ pc' = "update"
           /\ UNCHANGED <<now, topic, last_offset>>
           /\ mem' = [mem EXCEPT !.update = @ \ {key}]
           /\ \/ /\ At(mem.klines, key) \in Candle
                 /\ redis' = [redis EXCEPT !.klines = [redis.klines EXCEPT ![key[1]] = Put(redis.klines[key[1]], key[2], At(mem.klines, key))]]
                 /\ drift' = [drift EXCEPT !.ahead = @ \cup {key}, !.behind = @ \ {key}, !.missed = @ \ {key}]
              \/ /\ redis' = redis
                 /\ drift' = [drift EXCEPT !.missed = @ \cup {key}]
<1>1. KeptTypeOK
  BY DEF KeptInv
<1>2. mem.update \in SUBSET Keys /\ mem.klines \in Tables
  BY <1>1, KeptFields
<1>3. PICK key : key = (CHOOSE k \in mem.update : TRUE)
  OBVIOUS
<1>4. key \in mem.update /\ key \in Keys
  BY <1>2, <1>3 DEF FlushKline
<1>5. PICK outcome \in Outcomes :
        /\ mem' = [mem EXCEPT !.update = @ \ {key}]
        /\ IF key[2] \in DOMAIN mem.klines[key[1]] /\ Executed(outcome)
           THEN /\ redis' = [redis EXCEPT !.klines[key[1]] = Put(@, key[2], mem.klines[key[1]][key[2]])]
                /\ drift' = [drift EXCEPT !.ahead = @ \cup {key}, !.behind = @ \ {key}, !.missed = @ \ {key}]
           ELSE /\ drift' = [drift EXCEPT !.missed = @ \cup {key}]
                /\ UNCHANGED redis
  BY <1>3 DEF FlushKline
<1>6. ASSUME key[2] \in DOMAIN mem.klines[key[1]]
      PROVE  At(mem.klines, key) = mem.klines[key[1]][key[2]] /\ At(mem.klines, key) \in Candle
  <2>1. mem.klines[key[1]] \in Table
    BY <1>2, <1>4, KeysAre DEF Tables
  <2> QED BY <1>6, <2>1, TableIs DEF At
<1>7. pc = "update" /\ pc' = "update" /\ UNCHANGED <<now, topic, last_offset>>
  BY DEF FlushKline, consumer
<1>8. CASE key[2] \in DOMAIN mem.klines[key[1]] /\ Executed(outcome)
  <2>1. PICK k : k = At(mem.klines, key) /\ k = mem.klines[key[1]][key[2]] /\ k \in Candle
    BY <1>6, <1>8
  <2>2. redis' = [redis EXCEPT !.klines = [redis.klines EXCEPT ![key[1]] = Put(redis.klines[key[1]], key[2], k)]]
    BY <1>5, <1>8, <2>1
  <2>3. drift' = [drift EXCEPT !.ahead = @ \cup {key}, !.behind = @ \ {key}, !.missed = @ \ {key}]
    BY <1>5, <1>8
  <2>4. mem' = [mem EXCEPT !.update = @ \ {key}]
    BY <1>5
  <2>5. At(mem.klines, key) \in Candle
    BY <2>1
  <2>6. redis' = [redis EXCEPT !.klines = [redis.klines EXCEPT ![key[1]] = Put(redis.klines[key[1]], key[2], At(mem.klines, key))]]
    BY <2>1, <2>2
  <2> QED BY <1>4, <1>7, <2>3, <2>4, <2>5, <2>6
<1>9. CASE ~(key[2] \in DOMAIN mem.klines[key[1]] /\ Executed(outcome))
  BY <1>4, <1>5, <1>7, <1>9
<1> QED BY <1>8, <1>9

\* What a flush has still to do shrinks.
LEMMA MemUpdate ==
  ASSUME mem \in MemType, NEW u \in SUBSET Keys, mem' = [mem EXCEPT !.update = u]
  PROVE  /\ mem' \in MemType /\ mem'.klines = mem.klines /\ mem'.update = u /\ mem'.deals = mem.deals
         /\ mem'.deals_json = mem.deals_json /\ mem'.last = mem.last /\ mem'.fresh = mem.fresh
<1> HIDE DEF Tables, Keys
<1> QED BY DEF MemType

\* The fields of Redis and of the history variable as one changes.
LEMMA RedisKlines ==
  ASSUME redis \in RedisType, NEW klines \in Tables, redis' = [redis EXCEPT !.klines = klines]
  PROVE  /\ redis' \in RedisType /\ redis'.klines = klines /\ redis'.deals = redis.deals
         /\ redis'.last = redis.last /\ redis'.offset = redis.offset
<1> HIDE DEF Tables, Keys
<1> QED BY DEF RedisType

\* What becomes of the history when a k-line is written, ...
LEMMA DriftWritten ==
  ASSUME drift \in DriftType, NEW key \in Names,
         drift' = [drift EXCEPT !.ahead = @ \cup {key}, !.behind = @ \ {key}, !.missed = @ \ {key}]
  PROVE  /\ drift' \in DriftType /\ drift'.ahead = drift.ahead \cup {key} /\ drift'.behind = drift.behind \ {key}
         /\ drift'.missed = drift.missed \ {key} /\ drift'.over = drift.over /\ drift'.under = drift.under
<1> HIDE DEF Names
<1> QED BY DEF DriftType

\* ... and when it is not.
LEMMA DriftMissed ==
  ASSUME drift \in DriftType, NEW key \in Names, drift' = [drift EXCEPT !.missed = @ \cup {key}]
  PROVE  /\ drift' \in DriftType /\ drift'.ahead = drift.ahead /\ drift'.behind = drift.behind
         /\ drift'.missed = drift.missed \cup {key} /\ drift'.over = drift.over /\ drift'.under = drift.under
<1> HIDE DEF Names
<1> QED BY DEF DriftType

\* What is in memory covers what is stored as due.
LEMMA DueLater ==
  ASSUME Inv, pc # "down", NEW k \in Candle \cup {NoKline}, NEW key,
         Covers(k, DueIn(topic, last_offset, key))
  PROVE  Covers(k, DueIn(topic, redis.offset, key))
<1>1. /\ topic \in Seq(Deals) /\ redis.offset \in 0..Len(topic) /\ last_offset \in 0..Len(topic)
      /\ redis.offset <= last_offset
  BY OffsetsAre
<1>10. PICK d \in Seq(Deals) : d = topic
  BY <1>1
<1>11. PICK m \in 0..Len(d) : m = last_offset
  BY <1>1, <1>10
<1>12. PICK n \in 0..m : n = redis.offset
  BY <1>1, <1>10, <1>11
<1>2. d = topic /\ m = last_offset /\ n = redis.offset
  BY <1>10, <1>11, <1>12
<1>3. n \in 0..Len(d)
  OBVIOUS
<1>4. DueIn(d, m, key) \in Candle \cup {NoKline} /\ DueIn(d, n, key) \in Candle \cup {NoKline}
  BY <1>3, DueType
<1>5. Covers(DueIn(d, m, key), DueIn(d, n, key))
  BY DueCovers
<1>6. Covers(k, DueIn(d, m, key))
  BY <1>2
<1>7. PICK x \in Candle \cup {NoKline}, y \in Candle \cup {NoKline} : x = DueIn(d, m, key) /\ y = DueIn(d, n, key)
  BY <1>4
<1>8. Covers(k, y)
  BY <1>5, <1>6, <1>7, CoversTwice
<1> QED BY <1>2, <1>7, <1>8

\* What KeptInv is made of.
LEMMA KeptParts ==
  ASSUME KeptInv
  PROVE  /\ Inv /\ KeptTypeOK /\ FlushOrder /\ KlinesRight("exact") /\ KlinesRight("cover") /\ DealsRight /\ LastRight
         /\ mem \in MemType /\ redis \in RedisType /\ Len(redis.deals) <= DealsMax /\ drift \in DriftType
<1>1. /\ Inv /\ KeptTypeOK /\ FlushOrder /\ KlinesRight("exact") /\ KlinesRight("cover") /\ DealsRight /\ LastRight
  BY Zenon DEF KeptInv
<1> QED BY <1>1, KeptTypeIs

\* KeptInv from what it is made of.
LEMMA KeptWhole ==
  ASSUME Inv', mem' \in MemType, redis' \in RedisType, Len(redis'.deals) <= DealsMax, drift' \in DriftType,
         FlushOrder', KlinesRight("exact")', KlinesRight("cover")', DealsRight', LastRight'
  PROVE  KeptInv'
<1>1. KeptTypeOK'
  BY DEF KeptTypeOK, MemType, RedisType, DriftType
<1> QED BY <1>1 DEF KeptInv

\* A k-line that is written shows in Redis what it shows in memory.
LEMMA WrittenKlines ==
  ASSUME Inv, NEW how, KlinesRight(how), NEW key \in Keys, pc = "update", pc' = "update",
         UNCHANGED <<now, topic, last_offset>>, redis'.offset = redis.offset, mem'.klines = mem.klines,
         mem.klines \in Tables, mem'.update = mem.update \ {key},
         \A x \in Keys : At(redis'.klines, x) = IF x = key THEN At(mem.klines, key) ELSE At(redis.klines, x),
         drift'.ahead = drift.ahead \cup {key}, drift'.behind = drift.behind \ {key},
         drift'.missed = drift.missed \ {key}, drift'.over = drift.over, drift'.under = drift.under
  PROVE  KlinesRight(how)'
<1> SUFFICES ASSUME NEW x \in Live' PROVE KeyRight(how, x)'
  BY DEF KlinesRight
<1>1. x \in Live /\ KeyRight(how, x) /\ x \in Keys
  BY LiveSame DEF KlinesRight, Live
<1>2. Off(how)' = Off(how) /\ Off(how) \subseteq Late(how)' /\ Off(how) \subseteq Differs(how)'
  BY DEF Off, Late, Differs, Wrong
<1>3. x \notin Off(how) => Right(how, At(mem.klines, x), DueIn(topic, last_offset, x))
  BY <1>1 DEF KeyRight
<1>4. CASE x = key
  <2>1. At(redis'.klines, x) = At(mem.klines, x)
    BY <1>4
  <2>2. ASSUME x \notin Differs(how)' PROVE Right(how, At(mem.klines, x), DueIn(topic, redis.offset, x))
    <3>1. how # "exact"
      BY <1>4, <2>2 DEF Differs
    <3>2. Covers(At(mem.klines, x), DueIn(topic, last_offset, x))
      BY <1>2, <1>3, <2>2, <3>1 DEF Right
    <3>3. PICK k \in Candle \cup {NoKline} : k = At(mem.klines, x)
      BY <1>1, AtType
    <3>4. Covers(k, DueIn(topic, redis.offset, x))
      BY <3>2, <3>3, DueLater
    <3> QED BY <3>1, <3>3, <3>4 DEF Right
  <2> QED BY <1>2, <1>3, <2>1, <2>2 DEF KeyRight
<1>5. CASE x # key
  <2>1. At(redis'.klines, x) = At(redis.klines, x)
    BY <1>1, <1>5
  <2>2. x \notin Late(how)' => x \notin Late(how)
    BY <1>2, <1>5 DEF Late
  <2>3. x \notin Differs(how)' => x \notin Differs(how)
    BY <1>2, <1>5 DEF Differs
  <2> QED BY <1>1, <1>2, <1>3, <2>1, <2>2, <2>3 DEF KeyRight
<1> QED BY <1>4, <1>5

\* A step that only takes keys for which something is wrong leaves k-lines right.
LEMMA KlinesSame ==
  ASSUME NEW how, KlinesRight(how), pc # "down", UNCHANGED <<now, topic, last_offset>>,
         redis'.offset = redis.offset, mem'.klines = mem.klines, redis'.klines = redis.klines,
         mem.update \subseteq mem'.update \cup drift'.missed,
         drift.ahead \subseteq drift'.ahead, drift.missed \subseteq drift'.missed, drift.behind \subseteq drift'.behind,
         drift.over \subseteq drift'.over, drift.under \subseteq drift'.under
  PROVE  KlinesRight(how)'
<1>1. Live' \subseteq Live
  BY LiveSame
<1>2. Off(how) \subseteq Off(how)'
  BY DEF Off, Wrong
<1>3. Late(how) \subseteq Late(how)'
  BY <1>2 DEF Late
<1>4. Differs(how) \subseteq Differs(how)'
  BY <1>2 DEF Differs
<1> QED BY <1>1, <1>2, <1>3, <1>4, KlinesStay

\* flush_kline keeps the invariant.
LEMMA FlushKlineKept == ASSUME KeptInv, Inv', FlushKline PROVE KeptInv'
<1>1. PICK key \in Keys :
           /\ key \in mem.update /\ pc = "update" /\ pc' = "update"
           /\ UNCHANGED <<now, topic, last_offset>>
           /\ mem' = [mem EXCEPT !.update = @ \ {key}]
           /\ \/ /\ At(mem.klines, key) \in Candle
                 /\ redis' = [redis EXCEPT !.klines = [redis.klines EXCEPT ![key[1]] = Put(redis.klines[key[1]], key[2], At(mem.klines, key))]]
                 /\ drift' = [drift EXCEPT !.ahead = @ \cup {key}, !.behind = @ \ {key}, !.missed = @ \ {key}]
              \/ /\ redis' = redis
                 /\ drift' = [drift EXCEPT !.missed = @ \cup {key}]
  BY FlushKlineIs
<1>2. /\ Inv /\ KeptTypeOK /\ FlushOrder /\ KlinesRight("exact") /\ KlinesRight("cover") /\ DealsRight /\ LastRight
      /\ mem \in MemType /\ redis \in RedisType /\ Len(redis.deals) <= DealsMax /\ drift \in DriftType
  BY KeptParts
<1>3. mem.klines \in Tables /\ redis.klines \in Tables /\ mem.update \in SUBSET Keys
  BY <1>2, KeptFields
<1>4. /\ mem' \in MemType /\ mem'.klines = mem.klines /\ mem'.update = mem.update \ {key} /\ mem'.deals = mem.deals
      /\ mem'.deals_json = mem.deals_json /\ mem'.last = mem.last /\ mem'.fresh = mem.fresh
  <2>1. PICK u \in SUBSET Keys : u = mem.update \ {key}
    BY <1>3
  <2> QED BY <1>1, <1>2, <2>1, MemUpdate
<1>5. key[1] \in Types /\ key[2] \in Nat /\ key = <<key[1], key[2]>> /\ key \in Names /\ key # DealsKey /\ key # LastKey
  BY KeysAre
<1>6. CASE /\ At(mem.klines, key) \in Candle
           /\ redis' = [redis EXCEPT !.klines = [redis.klines EXCEPT ![key[1]] = Put(redis.klines[key[1]], key[2], At(mem.klines, key))]]
           /\ drift' = [drift EXCEPT !.ahead = @ \cup {key}, !.behind = @ \ {key}, !.missed = @ \ {key}]
  <2>1. PICK k \in Candle : k = At(mem.klines, key)
    BY <1>6
  <2>2. PICK type \in Types, t \in Nat : type = key[1] /\ t = key[2]
    BY <1>5
  <2>3. PICK klines : klines = PutIn(redis.klines, type, t, k)
    OBVIOUS
  <2>4. /\ klines \in Tables
        /\ \A x \in Keys : At(klines, x) = IF x = <<type, t>> THEN k ELSE At(redis.klines, x)
    BY <1>3, <2>3, AtPut
  <2>5. redis' = [redis EXCEPT !.klines = klines]
    BY <1>6, <2>1, <2>2, <2>3 DEF PutIn
  <2>6. /\ redis' \in RedisType /\ redis'.klines = klines /\ redis'.deals = redis.deals
        /\ redis'.last = redis.last /\ redis'.offset = redis.offset
    BY <1>2, <2>4, <2>5, RedisKlines
  <2>7. /\ drift' \in DriftType /\ drift'.ahead = drift.ahead \cup {key} /\ drift'.behind = drift.behind \ {key}
        /\ drift'.missed = drift.missed \ {key} /\ drift'.over = drift.over /\ drift'.under = drift.under
    BY <1>2, <1>5, <1>6, DriftWritten
  <2>8. \A x \in Keys : At(redis'.klines, x) = IF x = key THEN At(mem.klines, key) ELSE At(redis.klines, x)
    BY <1>5, <2>1, <2>2, <2>4, <2>6
  <2>9. KlinesRight("exact")' /\ KlinesRight("cover")'
    BY <1>1, <1>2, <1>3, <1>4, <2>6, <2>7, <2>8, WrittenKlines
  <2>10. DealsRight' /\ LastRight'
    <3>1. Wrong' = Wrong
      BY <2>7 DEF Wrong
    <3>2. DealsRight'
      BY <1>1, <1>2, <1>4, <1>5, <2>6, <2>7, <3>1, DealsStay
    <3>3. LastRight'
      BY <1>1, <1>2, <1>4, <1>5, <2>6, <2>7, <3>1, LastStay
    <3> QED BY <3>2, <3>3
  <2>11. FlushOrder'
    BY <1>1, <1>2, <1>4, <2>6 DEF FlushOrder
  <2> QED BY <1>2, <1>4, <2>6, <2>7, <2>9, <2>10, <2>11, KeptWhole
<1>7. CASE redis' = redis /\ drift' = [drift EXCEPT !.missed = @ \cup {key}]
  <2>1. /\ drift' \in DriftType /\ drift'.ahead = drift.ahead /\ drift'.behind = drift.behind
        /\ drift'.missed = drift.missed \cup {key} /\ drift'.over = drift.over /\ drift'.under = drift.under
    BY <1>2, <1>5, <1>7, DriftMissed
  <2>2. /\ redis'.klines = redis.klines /\ redis'.offset = redis.offset /\ redis'.last = redis.last
        /\ redis'.deals = redis.deals
    BY <1>7
  <2>3. KlinesRight("exact")' /\ KlinesRight("cover")'
    <3>1. mem.update \subseteq mem'.update \cup drift'.missed
      BY <1>4, <2>1
    <3> QED BY <1>1, <1>2, <1>4, <2>1, <2>2, <3>1, KlinesSame
  <2>4. Wrong' = Wrong
    BY <2>1 DEF Wrong
  <2>5. DealsRight'
    BY <1>1, <1>2, <1>4, <1>5, <2>1, <2>2, <2>4, DealsStay
  <2>6. LastRight'
    BY <1>1, <1>2, <1>4, <1>5, <2>1, <2>2, <2>4, LastStay
  <2>7. FlushOrder'
    BY <1>1, <1>2, <1>4, <2>2 DEF FlushOrder
  <2> QED BY <1>2, <1>4, <1>7, <2>1, <2>2, <2>3, <2>5, <2>6, <2>7, KeptWhole
<1> QED BY <1>1, <1>6, <1>7

\* The fields of what is kept as one of them changes.
LEMMA MemFields == mem \in MemType =>
  mem.deals \in Seq(Nat) /\ mem.last \in Nat /\ mem.update \in SUBSET Keys /\ mem.klines \in Tables /\ mem.deals_json \in Seq(Nat)
<1> HIDE DEF Tables, Keys
<1> QED BY DEF MemType

\* One field of what is kept changes at a time: the deals still to be flushed, ...
LEMMA MemDeals ==
  ASSUME mem \in MemType, NEW s \in Seq(Nat), mem' = [mem EXCEPT !.deals = s]
  PROVE  /\ mem' \in MemType /\ mem'.klines = mem.klines /\ mem'.update = mem.update /\ mem'.deals = s
         /\ mem'.deals_json = mem.deals_json /\ mem'.last = mem.last /\ mem'.fresh = mem.fresh
<1> HIDE DEF Tables, Keys
<1> QED BY DEF MemType

\* ... whether there is something to flush, ...
LEMMA MemFresh ==
  ASSUME mem \in MemType, NEW b \in BOOLEAN, mem' = [mem EXCEPT !.fresh = b]
  PROVE  /\ mem' \in MemType /\ mem'.klines = mem.klines /\ mem'.update = mem.update /\ mem'.deals = mem.deals
         /\ mem'.deals_json = mem.deals_json /\ mem'.last = mem.last /\ mem'.fresh = b
<1> HIDE DEF Tables, Keys
<1> QED BY DEF MemType

\* ... the recent deals of Redis, ...
LEMMA RedisDeals ==
  ASSUME redis \in RedisType, NEW s \in Seq(Nat), redis' = [redis EXCEPT !.deals = s]
  PROVE  /\ redis' \in RedisType /\ redis'.klines = redis.klines /\ redis'.deals = s
         /\ redis'.last = redis.last /\ redis'.offset = redis.offset
<1> HIDE DEF Tables, Keys
<1> QED BY DEF RedisType

\* ... its last price, ...
LEMMA RedisLast ==
  ASSUME redis \in RedisType, NEW n \in Nat, redis' = [redis EXCEPT !.last = n]
  PROVE  /\ redis' \in RedisType /\ redis'.klines = redis.klines /\ redis'.deals = redis.deals
         /\ redis'.last = n /\ redis'.offset = redis.offset
<1> HIDE DEF Tables, Keys
<1> QED BY DEF RedisType

\* ... its offset, ...
LEMMA RedisOffset ==
  ASSUME redis \in RedisType, NEW n \in Nat, redis' = [redis EXCEPT !.offset = n]
  PROVE  /\ redis' \in RedisType /\ redis'.klines = redis.klines /\ redis'.deals = redis.deals
         /\ redis'.last = redis.last /\ redis'.offset = n
<1> HIDE DEF Tables, Keys
<1> QED BY DEF RedisType

\* ... and of the history the keys that are ahead, ...
LEMMA DriftAhead ==
  ASSUME drift \in DriftType, NEW key \in Names, drift' = [drift EXCEPT !.ahead = @ \cup {key}]
  PROVE  /\ drift' \in DriftType /\ drift'.ahead = drift.ahead \cup {key} /\ drift'.behind = drift.behind
         /\ drift'.missed = drift.missed /\ drift'.over = drift.over /\ drift'.under = drift.under
<1> HIDE DEF Names
<1> QED BY DEF DriftType

\* ... those shown twice, ...
LEMMA DriftOver ==
  ASSUME drift \in DriftType, NEW key \in Names, drift' = [drift EXCEPT !.over = @ \cup {key}]
  PROVE  /\ drift' \in DriftType /\ drift'.ahead = drift.ahead /\ drift'.behind = drift.behind
         /\ drift'.missed = drift.missed /\ drift'.over = drift.over \cup {key} /\ drift'.under = drift.under
<1> HIDE DEF Names
<1> QED BY DEF DriftType

\* ... and what becomes of it when the offset is stored.
LEMMA DriftStored ==
  ASSUME drift \in DriftType,
         drift' = [drift EXCEPT !.ahead = {}, !.missed = {}, !.behind = @ \cup drift.missed]
  PROVE  /\ drift' \in DriftType /\ drift'.ahead = {} /\ drift'.behind = drift.behind \cup drift.missed
         /\ drift'.missed = {} /\ drift'.over = drift.over /\ drift'.under = drift.under
<1> HIDE DEF Names
<1> QED BY DEF DriftType

\* The keys of the recent deals and of the last price.
LEMMA OtherKeys == DealsKey \in Names /\ LastKey \in Names /\ DealsKey # LastKey
  BY DEF DealsKey, LastKey, Names

\* flush_last keeps the invariant.
LEMMA FlushLastKept == ASSUME KeptInv, Inv', FlushLast PROVE KeptInv'
<1>1. /\ Inv /\ KeptTypeOK /\ FlushOrder /\ KlinesRight("exact") /\ KlinesRight("cover") /\ DealsRight /\ LastRight
      /\ mem \in MemType /\ redis \in RedisType /\ Len(redis.deals) <= DealsMax /\ drift \in DriftType
  BY KeptParts
<1>2. /\ pc = "update" /\ mem.update = {} /\ mem' = mem /\ UNCHANGED <<now, topic, last_offset>>
  BY DEF FlushLast, consumer
<1>3. PICK outcome \in Outcomes :
       /\ pc' = IF outcome # "ok" THEN "loop" ELSE IF mem.deals = <<>> THEN "offset" ELSE "deals"
       /\ IF Executed(outcome)
          THEN /\ redis' = [redis EXCEPT !.last = mem.last]
               /\ drift' = [drift EXCEPT !.ahead = @ \cup {LastKey}]
          ELSE UNCHANGED <<redis, drift>>
  BY DEF FlushLast
<1>4. CASE redis' = [redis EXCEPT !.last = mem.last] /\ drift' = [drift EXCEPT !.ahead = @ \cup {LastKey}]
  <2>1. PICK n \in Nat : n = mem.last
    BY <1>1, MemFields
  <2>2. /\ redis' \in RedisType /\ redis'.klines = redis.klines /\ redis'.deals = redis.deals
        /\ redis'.last = n /\ redis'.offset = redis.offset
    BY <1>1, <1>4, <2>1, RedisLast
  <2>3. /\ drift' \in DriftType /\ drift'.ahead = drift.ahead \cup {LastKey} /\ drift'.behind = drift.behind
        /\ drift'.missed = drift.missed /\ drift'.over = drift.over /\ drift'.under = drift.under
    BY <1>1, <1>4, OtherKeys, DriftAhead
  <2>4. KlinesRight("exact")' /\ KlinesRight("cover")'
    BY <1>1, <1>2, <2>2, <2>3, KlinesSame
  <2>5. Wrong' = Wrong
    BY <2>3 DEF Wrong
  <2>6. DealsRight'
    BY <1>1, <1>2, <2>2, <2>3, <2>5, DealsStay
  <2>7. LastRight'
    BY <1>1, <1>2, <2>3, <2>5 DEF LastRight
  <2>8. FlushOrder'
    BY <1>1, <1>2, <1>3, <2>1, <2>2 DEF FlushOrder
  <2> QED BY <1>1, <1>2, <2>2, <2>3, <2>4, <2>6, <2>7, <2>8, KeptWhole
<1>5. CASE redis' = redis /\ drift' = drift /\ outcome # "ok"
  <2>1. KlinesRight("exact")' /\ KlinesRight("cover")'
    BY <1>1, <1>2, <1>5, KlinesSame
  <2>2. Wrong' = Wrong
    BY <1>5 DEF Wrong
  <2>3. DealsRight'
    BY <1>1, <1>2, <1>5, <2>2, DealsStay
  <2>4. LastRight'
    BY <1>1, <1>2, <1>5, <2>2, LastStay
  <2>5. FlushOrder'
    BY <1>1, <1>2, <1>3, <1>5 DEF FlushOrder
  <2> QED BY <1>1, <1>2, <1>5, <2>1, <2>3, <2>4, <2>5, KeptWhole
<1> QED BY <1>3, <1>4, <1>5 DEF Executed

\* flush_deals keeps the invariant.
LEMMA FlushDealsKept == ASSUME KeptInv, Inv', FlushDeals PROVE KeptInv'
<1>1. /\ Inv /\ KeptTypeOK /\ FlushOrder /\ KlinesRight("exact") /\ KlinesRight("cover") /\ DealsRight /\ LastRight
      /\ mem \in MemType /\ redis \in RedisType /\ Len(redis.deals) <= DealsMax /\ drift \in DriftType
  BY KeptParts
<1>2. pc = "deals" /\ UNCHANGED <<now, topic, last_offset>>
  BY DEF FlushDeals, consumer
<1>3. PICK outcome \in Outcomes :
        /\ pc' = IF outcome \in {"ok", "error"} THEN "offset" ELSE "loop"
        /\ mem' = IF outcome \in {"ok", "error"} THEN [mem EXCEPT !.deals = <<>>] ELSE mem
        /\ redis' = IF Executed(outcome) THEN [redis EXCEPT !.deals = Pushed(mem.deals, @)] ELSE redis
        /\ drift' = CASE outcome = "ok"    -> [drift EXCEPT !.ahead  = @ \cup {DealsKey}]
                      [] outcome = "lost"  -> [drift EXCEPT !.over   = @ \cup {DealsKey}]
                      [] outcome = "error" -> [drift EXCEPT !.missed = @ \cup {DealsKey}]
                      [] OTHER             -> drift
  BY DEF FlushDeals
<1>4. mem.update = {} /\ redis.last = mem.last
  BY <1>1, <1>2 DEF FlushOrder
<1>5. PICK pushed \in Seq(Nat) : /\ pushed = Pushed(mem.deals, redis.deals) /\ Len(pushed) <= DealsMax
                                 /\ Pushed(<<>>, pushed) = pushed
  <2>1. PICK d \in Seq(Nat), s \in Seq(Nat) : d = mem.deals /\ s = redis.deals
    BY <1>1, KeptFields
  <2>2. Pushed(d, s) \in Seq(Nat) /\ Len(Pushed(d, s)) <= DealsMax
    BY PushedIs, Zenon
  <2>3. PICK p \in Seq(Nat) : p = Pushed(d, s) /\ Len(p) <= DealsMax
    BY <2>2
  <2>4. Pushed(<<>>, p) = p
    <3>1. <<>> \in Seq(Nat)
      OBVIOUS
    <3>2. Len(p) <= DealsMax => Pushed(<<>>, p) = p
      BY <3>1, PushedIs, Zenon
    <3> QED BY <2>3, <3>2
  <2> QED BY <2>1, <2>3, <2>4
<1>6. \/ outcome \notin {"ok", "error"} /\ mem' = mem
      \/ outcome \in {"ok", "error"} /\ mem' = [mem EXCEPT !.deals = <<>>]
  BY <1>3
<1>7. /\ mem' \in MemType /\ mem'.klines = mem.klines /\ mem'.update = mem.update
      /\ mem'.deals = (IF outcome \in {"ok", "error"} THEN <<>> ELSE mem.deals)
      /\ mem'.deals_json = mem.deals_json /\ mem'.last = mem.last /\ mem'.fresh = mem.fresh
  <2>1. <<>> \in Seq(Nat)
    OBVIOUS
  <2> QED BY <1>1, <1>6, <2>1, MemDeals
<1>8. CASE outcome = "ok"
  <2>1. /\ redis' \in RedisType /\ redis'.klines = redis.klines /\ redis'.deals = pushed
        /\ redis'.last = redis.last /\ redis'.offset = redis.offset
    BY <1>1, <1>3, <1>5, <1>8, RedisDeals DEF Executed
  <2>2. drift' = [drift EXCEPT !.ahead = @ \cup {DealsKey}]
    BY <1>3, <1>8
  <2>3. /\ drift' \in DriftType /\ drift'.ahead = drift.ahead \cup {DealsKey} /\ drift'.behind = drift.behind
        /\ drift'.missed = drift.missed /\ drift'.over = drift.over /\ drift'.under = drift.under
    BY <1>1, <2>2, OtherKeys, DriftAhead
  <2>4. KlinesRight("exact")' /\ KlinesRight("cover")'
    BY <1>1, <1>2, <1>7, <2>1, <2>3, KlinesSame
  <2>5. Wrong' = Wrong
    BY <2>3 DEF Wrong
  <2>6. /\ DealsKey \notin Wrong => mem'.deals_json = RecentOf(last_offset)
        /\ DealsKey \notin Wrong \cup drift.missed \cup drift.behind => Pushed(mem'.deals, pushed) = RecentOf(last_offset)
    BY <1>1, <1>2, <1>5, <1>7, <1>8 DEF DealsRight
  <2>7. DealsRight'
    BY <1>2, <2>1, <2>3, <2>5, <2>6 DEF DealsRight, RecentOf
  <2>8. LastRight'
    BY <1>1, <1>2, <1>7, <2>1, <2>3, <2>5, LastStay
  <2>9. FlushOrder'
    BY <1>1, <1>3, <1>4, <1>7, <1>8, <2>1 DEF FlushOrder
  <2> QED BY <1>1, <1>5, <1>7, <2>1, <2>3, <2>4, <2>7, <2>8, <2>9, KeptWhole
<1>9. CASE outcome = "error"
  <2>1. redis' = redis /\ drift' = [drift EXCEPT !.missed = @ \cup {DealsKey}]
    BY <1>3, <1>9 DEF Executed
  <2>2. /\ redis'.klines = redis.klines /\ redis'.deals = redis.deals
        /\ redis'.last = redis.last /\ redis'.offset = redis.offset
    BY <2>1
  <2>3. /\ drift' \in DriftType /\ drift'.ahead = drift.ahead /\ drift'.behind = drift.behind
        /\ drift'.missed = drift.missed \cup {DealsKey} /\ drift'.over = drift.over /\ drift'.under = drift.under
    BY <1>1, <2>1, OtherKeys, DriftMissed
  <2>4. KlinesRight("exact")' /\ KlinesRight("cover")'
    <3>1. drift.missed \subseteq drift'.missed /\ mem.update \subseteq mem'.update \cup drift'.missed
      BY <1>7, <2>3
    <3> QED BY <1>1, <1>2, <1>7, <2>2, <2>3, <3>1, KlinesSame
  <2>5. Wrong' = Wrong
    BY <2>3 DEF Wrong
  <2>6. DealsKey \notin Wrong => mem'.deals_json = RecentOf(last_offset)
    BY <1>1, <1>2, <1>7 DEF DealsRight
  <2>7. DealsRight'
    <3>1. DealsKey \notin Wrong \cup drift.ahead \cup drift.behind => redis.deals = RecentOf(redis.offset)
      BY <1>1 DEF DealsRight
    <3> QED BY <1>2, <2>1, <2>3, <2>5, <2>6, <3>1 DEF DealsRight, RecentOf
  <2>8. LastRight'
    BY <1>1, <1>2, <1>7, <2>2, <2>3, <2>5, LastStay
  <2>9. FlushOrder'
    BY <1>1, <1>3, <1>4, <1>7, <1>9, <2>2 DEF FlushOrder
  <2> QED BY <1>1, <1>7, <2>1, <2>3, <2>4, <2>7, <2>8, <2>9, KeptWhole
<1>10. CASE outcome = "lost"
  <2>1. /\ redis' \in RedisType /\ redis'.klines = redis.klines /\ redis'.deals = pushed
        /\ redis'.last = redis.last /\ redis'.offset = redis.offset
    BY <1>1, <1>3, <1>5, <1>10, RedisDeals DEF Executed
  <2>2. drift' = [drift EXCEPT !.over = @ \cup {DealsKey}]
    BY <1>3, <1>10
  <2>3. /\ drift' \in DriftType /\ drift'.ahead = drift.ahead /\ drift'.behind = drift.behind
        /\ drift'.missed = drift.missed /\ drift'.over = drift.over \cup {DealsKey} /\ drift'.under = drift.under
    BY <1>1, <2>2, OtherKeys, DriftOver
  <2>4. KlinesRight("exact")' /\ KlinesRight("cover")'
    <3>1. drift.over \subseteq drift'.over
      BY <2>3
    <3> QED BY <1>1, <1>2, <1>7, <2>1, <2>3, <3>1, KlinesSame
  <2>5. Wrong' = Wrong \cup {DealsKey}
    BY <2>3 DEF Wrong
  <2>7. DealsRight'
    BY <2>5 DEF DealsRight
  <2>8. LastRight'
    BY <1>1, <1>2, <1>7, <2>1, <2>3, <2>5, LastStay
  <2>9. FlushOrder'
    BY <1>1, <1>3, <1>4, <1>7, <1>10, <2>1 DEF FlushOrder
  <2> QED BY <1>1, <1>5, <1>7, <2>1, <2>3, <2>4, <2>7, <2>8, <2>9, KeptWhole
<1>11. CASE outcome \notin {"ok", "error", "lost"}
  <2>1. redis' = redis /\ drift' = drift /\ mem' = mem /\ pc' = "loop"
    BY <1>3, <1>11 DEF Executed
  <2>2. KlinesRight("exact")' /\ KlinesRight("cover")'
    BY <1>1, <1>2, <2>1, KlinesSame
  <2>3. Wrong' = Wrong
    BY <2>1 DEF Wrong
  <2>4. DealsRight'
    BY <1>1, <1>2, <2>1, <2>3, DealsStay
  <2>5. LastRight'
    BY <1>1, <1>2, <2>1, <2>3, LastStay
  <2>6. FlushOrder'
    BY <1>1, <1>4, <2>1 DEF FlushOrder
  <2> QED BY <1>1, <2>1, <2>2, <2>4, <2>5, <2>6, KeptWhole
<1> QED BY <1>8, <1>9, <1>10, <1>11

\* As the offset is stored, what was right for what has been handled is right for it.
LEMMA StoredKlines ==
  ASSUME NEW how, KlinesRight(how), pc = "offset", pc' = "loop", UNCHANGED <<now, topic, last_offset>>,
         mem.update = {}, mem'.update = {}, mem'.klines = mem.klines,
         redis'.klines = redis.klines, redis'.offset = last_offset,
         drift'.ahead = {}, drift'.missed = {}, drift'.behind = drift.behind \cup drift.missed,
         drift'.over = drift.over, drift'.under = drift.under
  PROVE  KlinesRight(how)'
<1> SUFFICES ASSUME NEW x \in Live' PROVE KeyRight(how, x)'
  BY DEF KlinesRight
<1>1. KeyRight(how, x)
  BY LiveSame DEF KlinesRight
<1>2. Off(how)' = Off(how)
  BY DEF Off, Wrong
<1>3. Late(how)' = Late(how) /\ Differs(how)' = Late(how)
  BY <1>2 DEF Late, Differs
<1> QED BY <1>1, <1>2, <1>3 DEF KeyRight

\* flush_offset keeps the invariant.
LEMMA FlushOffsetKept == ASSUME KeptInv, Inv', FlushOffset PROVE KeptInv'
<1>1. /\ Inv /\ KeptTypeOK /\ FlushOrder /\ KlinesRight("exact") /\ KlinesRight("cover") /\ DealsRight /\ LastRight
      /\ mem \in MemType /\ redis \in RedisType /\ Len(redis.deals) <= DealsMax /\ drift \in DriftType
  BY KeptParts
<1>2. pc = "offset" /\ pc' = "loop" /\ UNCHANGED <<now, topic, last_offset>>
  BY DEF FlushOffset, consumer
<1>3. PICK outcome \in Outcomes :
        /\ mem' = IF outcome = "ok" THEN [mem EXCEPT !.fresh = FALSE] ELSE mem
        /\ IF Executed(outcome)
           THEN /\ redis' = [redis EXCEPT !.offset = last_offset]
                /\ drift' = [drift EXCEPT !.ahead = {}, !.missed = {}, !.behind = @ \cup drift.missed]
           ELSE UNCHANGED <<redis, drift>>
  BY DEF FlushOffset, OffsetToStore
<1>4. mem.update = {} /\ mem.deals = <<>> /\ redis.last = mem.last
  BY <1>1, <1>2 DEF FlushOrder
<1>5. /\ mem' \in MemType /\ mem'.klines = mem.klines /\ mem'.update = mem.update /\ mem'.deals = mem.deals
      /\ mem'.deals_json = mem.deals_json /\ mem'.last = mem.last
  <2>1. CASE outcome = "ok"
    <3>1. mem' = [mem EXCEPT !.fresh = FALSE] /\ FALSE \in BOOLEAN
      BY <1>3, <2>1
    <3> QED BY <1>1, <3>1, MemFresh
  <2>2. CASE outcome # "ok"
    BY <1>1, <1>3, <2>2
  <2> QED BY <2>1, <2>2
<1>6. CASE Executed(outcome)
  <2>1. PICK n \in Nat : n = last_offset
    BY <1>1 DEF Inv, MarketPriceTypeOK
  <2>2. /\ redis' \in RedisType /\ redis'.klines = redis.klines /\ redis'.deals = redis.deals
        /\ redis'.last = redis.last /\ redis'.offset = n
    BY <1>1, <1>3, <1>6, <2>1, RedisOffset
  <2>3. drift' = [drift EXCEPT !.ahead = {}, !.missed = {}, !.behind = @ \cup drift.missed]
    BY <1>3, <1>6
  <2>4. /\ drift' \in DriftType /\ drift'.ahead = {} /\ drift'.behind = drift.behind \cup drift.missed
        /\ drift'.missed = {} /\ drift'.over = drift.over /\ drift'.under = drift.under
    BY <1>1, <2>3, DriftStored
  <2>5. KlinesRight("exact")' /\ KlinesRight("cover")'
    BY <1>1, <1>2, <1>4, <1>5, <2>1, <2>2, <2>4, StoredKlines
  <2>6. Wrong' = Wrong
    BY <2>4 DEF Wrong
  <2>7. DealsRight'
    <3>1. DealsKey \notin Wrong => mem.deals_json = RecentOf(last_offset)
      BY <1>1, <1>2 DEF DealsRight
    <3>2. DealsKey \notin Wrong \cup drift.missed \cup drift.behind =>
            Pushed(mem.deals, redis.deals) = RecentOf(last_offset)
      BY <1>1, <1>2 DEF DealsRight
    <3>3. Pushed(<<>>, redis.deals) = redis.deals
      <4>1. PICK d \in Seq(Nat), s \in Seq(Nat) : d = mem.deals /\ s = redis.deals
        BY <1>1, KeptFields
      <4>2. Len(s) <= DealsMax => Pushed(<<>>, s) = s
        BY PushedIs, Zenon
      <4> QED BY <1>1, <4>1, <4>2
    <3>4. DealsKey \notin Wrong' \cup drift'.ahead \cup drift'.behind => redis'.deals = RecentOf(redis'.offset)
      BY <1>4, <2>1, <2>2, <2>4, <2>6, <3>2, <3>3
    <3>5. DealsKey \notin Wrong' \cup drift'.missed \cup drift'.behind =>
            Pushed(mem'.deals, redis'.deals) = RecentOf(last_offset)
      BY <1>5, <2>2, <2>4, <2>6, <3>2
    <3> QED BY <1>2, <1>5, <2>6, <3>1, <3>4, <3>5 DEF DealsRight, RecentOf
  <2>8. LastRight'
    <3>1. LastKey \notin Wrong /\ last_offset > 0 => mem.last = topic[last_offset].price
      BY <1>1, <1>2 DEF LastRight
    <3> QED BY <1>2, <1>4, <1>5, <2>1, <2>2, <2>6, <3>1 DEF LastRight
  <2>9. FlushOrder'
    BY <1>2, <1>4, <1>5, <2>2 DEF FlushOrder
  <2> QED BY <1>1, <1>5, <2>2, <2>4, <2>5, <2>7, <2>8, <2>9, KeptWhole
<1>7. CASE ~Executed(outcome)
  <2>1. redis' = redis /\ drift' = drift /\ mem' = mem
    BY <1>3, <1>7 DEF Executed
  <2>2. KlinesRight("exact")' /\ KlinesRight("cover")'
    BY <1>1, <1>2, <2>1, KlinesSame
  <2>3. Wrong' = Wrong
    BY <2>1 DEF Wrong
  <2>4. DealsRight'
    BY <1>1, <1>2, <2>1, <2>3, DealsStay
  <2>5. LastRight'
    BY <1>1, <1>2, <2>1, <2>3, LastStay
  <2>6. FlushOrder'
    BY <1>2, <1>4, <2>1 DEF FlushOrder
  <2> QED BY <1>1, <2>1, <2>2, <2>4, <2>5, <2>6, KeptWhole
<1> QED BY <1>6, <1>7
------------------------------------------------------------------------------
(* Clearing                                                                 *)

\* Other k-lines in memory.
LEMMA MemKlines ==
  ASSUME mem \in MemType, NEW klines \in Tables, mem' = [mem EXCEPT !.klines = klines]
  PROVE  /\ mem' \in MemType /\ mem'.klines = klines /\ mem'.update = mem.update /\ mem'.deals = mem.deals
         /\ mem'.deals_json = mem.deals_json /\ mem'.last = mem.last /\ mem'.fresh = mem.fresh
<1> HIDE DEF Tables, Keys
<1> QED BY DEF MemType

\* k-lines that are kept stay the same.
LEMMA KlinesKept ==
  ASSUME NEW how, KlinesRight(how), UNCHANGED <<now, topic, last_offset, drift>>, pc' = pc,
         redis'.offset = redis.offset, mem'.update = mem.update,
         \A key \in Live : /\ At(mem'.klines, key) = At(mem.klines, key)
                           /\ At(redis'.klines, key) = At(redis.klines, key)
  PROVE  KlinesRight(how)'
<1>1. Live' = Live
  BY LiveSame
<1>2. Off(how)' = Off(how)
  BY DEF Off, Wrong
<1>3. Late(how)' = Late(how) /\ Differs(how)' = Differs(how)
  BY <1>2 DEF Late, Differs
<1> QED BY <1>1, <1>2, <1>3, KlinesStay

\* Clearing, in memory and in Redis, keeps the invariant.
LEMMA ClearKept == ASSUME KeptInv, Inv', ClearTimer \/ ClearRedis PROVE KeptInv'
<1>1. /\ Inv /\ KeptTypeOK /\ FlushOrder /\ KlinesRight("exact") /\ KlinesRight("cover") /\ DealsRight /\ LastRight
      /\ mem \in MemType /\ redis \in RedisType /\ Len(redis.deals) <= DealsMax /\ drift \in DriftType
  BY KeptParts
<1>2. UNCHANGED <<now, topic, last_offset, drift>> /\ pc' = pc
  BY DEF ClearTimer, ClearRedis, consumer
<1>3. mem.klines \in Tables /\ redis.klines \in Tables /\ now \in Nat
  BY <1>1, KeptFields, OffsetsAre
<1>4. Wrong' = Wrong
  BY <1>2 DEF Wrong
<1>5. /\ mem' \in MemType /\ mem'.update = mem.update /\ mem'.deals = mem.deals
      /\ mem'.deals_json = mem.deals_json /\ mem'.last = mem.last /\ mem'.fresh = mem.fresh
      /\ \A key \in Live : At(mem'.klines, key) = At(mem.klines, key)
  <2>1. PICK klines \in Tables : klines = mem.klines
    BY <1>3
  <2>2. PICK new : new = Cleared(klines)
    OBVIOUS
  <2>3. new \in Tables /\ \A key \in Live : At(new, key) = At(klines, key)
    BY <1>3, <2>2, AtCleared
  <2>4. CASE ClearTimer
    <3>1. mem' = [mem EXCEPT !.klines = new]
      BY <2>1, <2>2, <2>4 DEF ClearTimer
    <3> QED BY <1>1, <2>1, <2>3, <3>1, MemKlines
  <2>5. CASE ClearRedis
    BY <1>1, <2>5 DEF ClearRedis
  <2> QED BY <2>4, <2>5
<1>6. /\ redis' \in RedisType /\ redis'.deals = redis.deals
      /\ redis'.last = redis.last /\ redis'.offset = redis.offset
      /\ \A key \in Live : At(redis'.klines, key) = At(redis.klines, key)
  <2>1. PICK klines \in Tables : klines = redis.klines
    BY <1>3
  <2>2. PICK new : new = Cleared(klines)
    OBVIOUS
  <2>3. new \in Tables /\ \A key \in Live : At(new, key) = At(klines, key)
    BY <1>3, <2>2, AtCleared
  <2>4. CASE ClearRedis
    <3>1. redis' = [redis EXCEPT !.klines = new]
      BY <2>1, <2>2, <2>4 DEF ClearRedis
    <3> QED BY <1>1, <2>1, <2>3, <3>1, RedisKlines
  <2>5. CASE ClearTimer
    BY <1>1, <2>5 DEF ClearTimer
  <2> QED BY <2>4, <2>5
<1>7. KlinesRight("exact")' /\ KlinesRight("cover")'
  BY <1>1, <1>2, <1>5, <1>6, KlinesKept
<1>8. DealsRight'
  BY <1>1, <1>2, <1>4, <1>5, <1>6, DealsStay
<1>9. LastRight'
  BY <1>1, <1>2, <1>4, <1>5, <1>6, LastStay
<1>10. FlushOrder'
  BY <1>1, <1>2, <1>5, <1>6 DEF FlushOrder
<1> QED BY <1>1, <1>2, <1>5, <1>6, <1>7, <1>8, <1>9, <1>10, KeptWhole
------------------------------------------------------------------------------
(* Requests to change k-lines, and restarts                                 *)

\* A k-line of a table is set to something else.
LEMMA AtSet ==
  ASSUME NEW klines \in Tables, NEW type \in Types, NEW t, t \in DOMAIN klines[type], NEW k
  PROVE  [klines EXCEPT ![type][t] = k] = PutIn(klines, type, t, k)
<1>1. klines[type] \in Table
  BY DEF Tables
<1>2. PICK tab \in Table : tab = klines[type]
  BY <1>1
<1>3. tab = [u \in DOMAIN tab |-> tab[u]] /\ t \in DOMAIN tab
  BY <1>2, TableIs
<1>4. [tab EXCEPT ![t] = k] = Put(tab, t, k)
  BY <1>3 DEF Put
<1> QED BY <1>2, <1>4 DEF PutIn

\* More keys that may miss deals for good.
LEMMA DriftUnder ==
  ASSUME drift \in DriftType, NEW keys \in SUBSET Names, drift' = [drift EXCEPT !.under = @ \cup keys]
  PROVE  /\ drift' \in DriftType /\ drift'.ahead = drift.ahead /\ drift'.behind = drift.behind
         /\ drift'.missed = drift.missed /\ drift'.over = drift.over /\ drift'.under = drift.under \cup keys
<1> HIDE DEF Names
<1> QED BY DEF DriftType

\* Keys of tables are keys of something.
LEMMA TableNames ==
  ASSUME NEW klines \in Tables, NEW type \in Types, NEW t \in DOMAIN klines[type]
  PROVE  <<type, t>> \in Names
<1>1. klines[type] \in Table
  BY DEF Tables
<1>2. t \in Nat
  BY <1>1, TableIs
<1> QED BY <1>2 DEF Names

\* market_kline_update keeps the invariant.
LEMMA KlineUpdateKept == ASSUME KeptInv, Inv', KlineUpdate PROVE KeptInv'
<1>1. /\ Inv /\ KeptTypeOK /\ FlushOrder /\ KlinesRight("exact") /\ KlinesRight("cover") /\ DealsRight /\ LastRight
      /\ mem \in MemType /\ redis \in RedisType /\ Len(redis.deals) <= DealsMax /\ drift \in DriftType
  BY KeptParts
<1>2. pc = "loop" /\ pc' = pc /\ UNCHANGED <<now, topic, last_offset, redis>>
  BY DEF KlineUpdate, consumer
<1>30. PICK type \in Types, price \in Prices : \E t \in DOMAIN mem.klines[type] :
         /\ mem' = [mem EXCEPT !.klines[type][t] = kline_info_new(price)]
         /\ drift' = [drift EXCEPT !.under = @ \cup {<<type, t>>}]
  BY DEF KlineUpdate
<1>3. PICK t \in DOMAIN mem.klines[type] :
        /\ mem' = [mem EXCEPT !.klines[type][t] = kline_info_new(price)]
        /\ drift' = [drift EXCEPT !.under = @ \cup {<<type, t>>}]
  BY <1>30
<1>4. PICK k \in Candle : k = kline_info_new(price)
  <2>1. price \in Nat \ {0}
    OBVIOUS
  <2> QED BY <2>1 DEF kline_info_new, Candle
<1>5. PICK klines \in Tables : klines = mem.klines
  BY <1>1, KeptFields
<1>6. PICK new : new = PutIn(klines, type, t, k)
  OBVIOUS
<1>7. new \in Tables /\ \A key \in Keys : key # <<type, t>> => At(new, key) = At(klines, key)
  <2>1. klines[type] \in Table /\ t \in DOMAIN klines[type]
    BY <1>5 DEF Tables
  <2>2. t \in Nat
    BY <2>1, TableIs
  <2> QED BY <1>6, <2>2, AtPut
<1>8. mem' = [mem EXCEPT !.klines = new]
  <2>1. [klines EXCEPT ![type][t] = k] = new
    BY <1>5, <1>6, AtSet
  <2> QED BY <1>3, <1>4, <1>5, <2>1
<1>9. /\ mem' \in MemType /\ mem'.klines = new /\ mem'.update = mem.update /\ mem'.deals = mem.deals
      /\ mem'.deals_json = mem.deals_json /\ mem'.last = mem.last /\ mem'.fresh = mem.fresh
  BY <1>1, <1>7, <1>8, MemKlines
<1>10. /\ drift' \in DriftType /\ drift'.ahead = drift.ahead /\ drift'.behind = drift.behind
       /\ drift'.missed = drift.missed /\ drift'.over = drift.over /\ drift'.under = drift.under \cup {<<type, t>>}
  <2>1. PICK keys \in SUBSET Names : keys = {<<type, t>>}
    BY <1>5, TableNames
  <2> QED BY <1>1, <1>3, <2>1, DriftUnder
<1>11. ASSUME NEW how, KlinesRight(how) PROVE KlinesRight(how)'
  <2>1. Off(how) \subseteq Off(how)' /\ <<type, t>> \in Off(how)'
    BY <1>10 DEF Off, Wrong
  <2>2. Late(how) \subseteq Late(how)' /\ Differs(how) \subseteq Differs(how)'
    BY <1>9, <1>10, <2>1 DEF Late, Differs
  <2>3. Live' \subseteq Live
    BY <1>2, LiveSame
  <2>4. ASSUME NEW key \in Live' \ Off(how)' PROVE At(mem'.klines, key) = At(mem.klines, key)
    <3>1. key \in Keys /\ key # <<type, t>>
      BY <2>1, <2>3 DEF Live
    <3> QED BY <1>5, <1>7, <1>9, <3>1
  <2> QED BY <1>2, <1>11, <2>1, <2>2, <2>3, <2>4, KlinesStay
<1>12. Wrong \subseteq Wrong'
  BY <1>10 DEF Wrong
<1>13. DealsRight'
  BY <1>1, <1>2, <1>9, <1>10, <1>12, DealsStay
<1>14. LastRight'
  BY <1>1, <1>2, <1>9, <1>10, <1>12, LastStay
<1>15. FlushOrder'
  BY <1>1, <1>2, <1>9 DEF FlushOrder
<1> QED BY <1>1, <1>2, <1>9, <1>10, <1>11, <1>13, <1>14, <1>15, KeptWhole

\* A market without anything.
LEMMA NoMarketIs ==
  /\ NoMarket \in MemType /\ [NoMarket EXCEPT !.fresh = TRUE] \in MemType
  /\ NoMarket.update = {} /\ NoMarket.deals = <<>>
<1>1. PICK tables \in Tables : tables = NoTables
  BY NoTablesIs
<1>2. PICK keys \in SUBSET Keys : keys = {}
  OBVIOUS
<1>3. PICK none \in Seq(Nat) : none = <<>>
  <2>1. <<>> \in Seq(Nat)
    OBVIOUS
  <2> QED BY <2>1
<1>4. NoMarket = [klines |-> tables, update |-> keys, deals |-> none, deals_json |-> none, last |-> 0, fresh |-> FALSE]
  BY <1>1, <1>2, <1>3 DEF NoMarket
<1> HIDE DEF Tables, Keys, NoMarket
<1>5. NoMarket \in MemType /\ [NoMarket EXCEPT !.fresh = TRUE] \in MemType
  BY <1>4 DEF MemType
<1> QED BY <1>2, <1>3, <1>4, <1>5

\* A crash keeps the invariant: what Redis shows that is not of the stored offset is so
\* for good.
LEMMA CrashKept == ASSUME KeptInv, Inv', Crash PROVE KeptInv'
<1>1. /\ Inv /\ KeptTypeOK /\ FlushOrder /\ KlinesRight("exact") /\ KlinesRight("cover") /\ DealsRight /\ LastRight
      /\ mem \in MemType /\ redis \in RedisType /\ Len(redis.deals) <= DealsMax /\ drift \in DriftType
  BY KeptParts
<1>2. /\ pc' = "down" /\ mem' = NoMarket /\ UNCHANGED <<now, topic, redis>>
      /\ drift' = [ahead |-> {}, missed |-> {}, behind |-> {},
                   over  |-> drift.over \cup drift.ahead, under |-> drift.under \cup drift.behind]
  BY DEF Crash
<1>3. /\ drift.ahead \in SUBSET Names /\ drift.behind \in SUBSET Names
      /\ drift.over \in SUBSET Names /\ drift.under \in SUBSET Names
  BY <1>1, KeptFields
<1>4. drift' \in DriftType
  <2>1. PICK over \in SUBSET Names, under \in SUBSET Names :
          over = drift.over \cup drift.ahead /\ under = drift.under \cup drift.behind
    BY <1>3
  <2>2. drift' = [ahead |-> {}, missed |-> {}, behind |-> {}, over  |-> over, under |-> under]
    BY <1>2, <2>1
  <2> HIDE DEF Names
  <2> QED BY <2>2 DEF DriftType
<1>5. /\ drift'.ahead = {} /\ drift'.missed = {} /\ drift'.behind = {}
      /\ drift'.over = drift.over \cup drift.ahead /\ drift'.under = drift.under \cup drift.behind
  BY <1>2
<1>6. ASSUME NEW how, KlinesRight(how) PROVE KlinesRight(how)'
  <2>1. Differs(how) \subseteq Differs(how)'
    BY <1>5 DEF Off, Differs, Wrong
  <2>2. Live' \subseteq Live
    BY <1>2, LiveSame
  <2> QED BY <1>2, <1>6, <2>1, <2>2, KlinesStay
<1>7. Wrong' = Wrong \cup drift.ahead \cup drift.behind
  BY <1>5 DEF Wrong
<1>8. DealsRight'
  BY <1>1, <1>2, <1>5, <1>7, DealsStay
<1>9. LastRight'
  BY <1>1, <1>2, <1>5, <1>7, LastStay
<1>10. FlushOrder'
  BY <1>2, <1>5, NoMarketIs DEF FlushOrder
<1>11. mem' \in MemType /\ redis' \in RedisType /\ Len(redis'.deals) <= DealsMax
  BY <1>1, <1>2, NoMarketIs
<1> QED BY <1>1, <1>4, <1>6, <1>8, <1>9, <1>10, <1>11, KeptWhole
------------------------------------------------------------------------------
(* Loading what Redis has                                                   *)

\* A market with some parts replaced, and with what Redis has.
Rest(m, kept, left) == [m EXCEPT !.klines = kept, !.update = left, !.deals = <<>>, !.deals_json = <<>>]

\* Its parts are those replaced and the others of before.
LEMMA Replaced ==
  ASSUME NEW m \in MemType, NEW kept \in Tables, NEW left \in SUBSET Keys, NEW new, new = Rest(m, kept, left)
  PROVE  /\ new \in MemType /\ new.klines = kept /\ new.update = left /\ new.deals = <<>>
         /\ new.deals_json = <<>> /\ new.last = m.last /\ new.fresh = m.fresh
<1>1. PICK none \in Seq(Nat) : none = <<>>
  <2>1. <<>> \in Seq(Nat)
    OBVIOUS
  <2> QED BY <2>1
<1>2. new = [m EXCEPT !.klines = kept, !.update = left, !.deals = none, !.deals_json = none]
  BY <1>1 DEF Rest
<1> HIDE DEF Tables, Keys
<1> QED BY <1>1, <1>2 DEF MemType

\* load_market adds what Redis has, and leaves the other parts.
LEMMA LoadMarketIs ==
  ASSUME NEW m \in MemType, LoadedKlines(m.klines) \in Tables, redis \in RedisType, NEW new, new = load_market(m)
  PROVE  /\ new \in MemType /\ new.klines = LoadedKlines(m.klines) /\ new.update = m.update /\ new.deals = m.deals
         /\ new.deals_json = m.deals_json \o redis.deals
         /\ new.last = (IF redis.last = 0 THEN m.last ELSE redis.last) /\ new.fresh = m.fresh
<1>1. PICK klines \in Tables : klines = LoadedKlines(m.klines)
  OBVIOUS
<1> HIDE DEF Tables, Keys
<1>2. m.deals_json \in Seq(Nat) /\ m.last \in Nat /\ redis.deals \in Seq(Nat) /\ redis.last \in Nat
  BY DEF MemType, RedisType
<1>3. PICK json \in Seq(Nat) : json = m.deals_json \o redis.deals
  <2>1. m.deals_json \o redis.deals \in Seq(Nat)
    BY <1>2
  <2> QED BY <2>1
<1>4. PICK price \in Nat : price = IF redis.last = 0 THEN m.last ELSE redis.last
  BY <1>2
<1>5. new = [m EXCEPT !.klines = klines, !.deals_json = json, !.last = price]
  BY <1>1, <1>3, <1>4 DEF load_market
<1>6. /\ new \in MemType /\ new.klines = klines /\ new.update = m.update /\ new.deals = m.deals
      /\ new.deals_json = json /\ new.last = price /\ new.fresh = m.fresh
  BY <1>5 DEF MemType
<1> QED BY <1>1, <1>3, <1>4, <1>6

\* Without recent deals that are not stored, the list stays as it is.
LEMMA PushedNone ==
  ASSUME NEW stored \in Seq(Nat), Len(stored) <= DealsMax
  PROVE  Pushed(<<>>, stored) = stored /\ <<>> \o stored = stored
<1>1. Reverse(<<>>) = <<>> /\ <<>> \o stored = stored
  BY DEF Reverse
<1>2. SubSeq(stored, 1, Len(stored)) = stored
  OBVIOUS
<1>3. Lower(DealsMax, Len(stored)) = Len(stored)
  BY DEF Lower
<1> QED BY <1>1, <1>2, <1>3 DEF Pushed, FirstOnes

\* A reload that reads Redis keeps what has not ended and is there; what may have changed
\* since Redis was written may be missing for good.
Loaded(kept, update, keys) ==
  /\ mem' \in MemType /\ mem'.klines = LoadedKlines(kept) /\ mem'.update = update /\ mem'.deals = <<>>
  /\ mem'.deals_json = redis.deals /\ mem'.fresh = mem.fresh
  /\ mem'.last = IF redis.last = 0 THEN mem.last ELSE redis.last
  /\ mem.update \cup drift.missed \cup drift.behind \subseteq keys
  /\ mem.deals = <<>> \/ DealsKey \in keys
  /\ ~mem.fresh \/ LastKey \in keys

\* If Redis fails, everything else may be missing.
Forgot(kept, update, keys) ==
  /\ mem' \in MemType /\ mem'.klines = kept /\ mem'.update = update /\ mem'.deals = <<>>
  /\ mem'.last = mem.last /\ mem'.fresh = mem.fresh
  /\ DealsKey \in keys
  /\ \A key \in Keys \ keys : At(mem.klines, key) = NoKline /\ At(redis.klines, key) = NoKline

\* The keys of tables.
KeysIn(klines) == UNION {{type} \X DOMAIN klines[type] : type \in Types}

\* They are keys of something, and other keys show nothing.
LEMMA KeysInAre ==
  ASSUME NEW klines \in Tables
  PROVE  KeysIn(klines) \subseteq Names /\ \A key \in Keys \ KeysIn(klines) : At(klines, key) = NoKline
<1>1. KeysIn(klines) \subseteq Names
  BY TableNames DEF KeysIn
<1>2. ASSUME NEW key \in Keys \ KeysIn(klines) PROVE At(klines, key) = NoKline
  <2>1. key[1] \in Types /\ key = <<key[1], key[2]>>
    BY KeysAre
  <2>2. key[2] \notin DOMAIN klines[key[1]]
    BY <2>1 DEF KeysIn
  <2> QED BY <2>2 DEF At
<1> QED BY <1>1, <1>2

\* market_kline_reload does one of the two, with some keys that are wrong for good.
LEMMA ReloadIs ==
  ASSUME KeptInv, Reload
  PROVE  /\ pc = "loop" /\ pc' = "loop" /\ UNCHANGED <<now, topic, last_offset, redis>>
         /\ \E kept \in Tables, update \in SUBSET mem.update, keys \in SUBSET Names :
              /\ \A key \in Keys : At(kept, key) \in {At(mem.klines, key), NoKline}
              /\ drift' = [drift EXCEPT !.under = @ \cup keys]
              /\ Loaded(kept, update, keys) \/ Forgot(kept, update, keys)
<1>1. /\ mem \in MemType /\ redis \in RedisType /\ Len(redis.deals) <= DealsMax /\ drift \in DriftType /\ KeptTypeOK
  BY KeptParts
<1>2. /\ mem.klines \in Tables /\ mem.update \in SUBSET Keys
      /\ redis.klines \in Tables /\ redis.deals \in Seq(Nat)
      /\ drift.missed \in SUBSET Names /\ drift.behind \in SUBSET Names
  BY <1>1, KeptFields
<1>3. pc = "loop" /\ pc' = "loop" /\ UNCHANGED <<now, topic, last_offset, redis>>
  BY DEF Reload, consumer
<1>4. PICK kept : kept = [type \in Types |-> Since(mem.klines[type], now)]
  OBVIOUS
<1>5. kept \in Tables
  BY <1>2, <1>4, AtSince
<1>6. \A key \in Keys : At(kept, key) \in {At(mem.klines, key), NoKline}
  <2>1. PICK klines \in Tables : klines = mem.klines
    BY <1>2
  <2>2. kept = [type \in Types |-> Since(klines[type], now)]
    BY <1>4, <2>1
  <2>3. \A key \in Keys : At(kept, key) \in {At(klines, key), NoKline}
    BY <2>2, AtSince
  <2> QED BY <2>1, <2>3
<1>7. PICK update \in {mem.update, {}}, loaded \in BOOLEAN :
        /\ mem' = IF loaded THEN load_market([mem EXCEPT !.klines = kept, !.update = update,
                                                         !.deals = <<>>, !.deals_json = <<>>])
                  ELSE [mem EXCEPT !.klines = kept, !.update = update, !.deals = <<>>, !.deals_json = <<>>]
        /\ drift' = [drift EXCEPT !.under = @ \cup
             IF loaded
             THEN mem.update \cup drift.missed \cup drift.behind
                    \cup (IF mem.deals = <<>> THEN {} ELSE {DealsKey})
                    \cup (IF mem.fresh THEN {LastKey} ELSE {})
             ELSE KeysIn(mem.klines) \cup KeysIn(redis.klines) \cup {DealsKey}]
  BY <1>4 DEF Reload, KeysIn
<1>8. update \in SUBSET mem.update
  OBVIOUS
<1>9. PICK rest : rest = [mem EXCEPT !.klines = kept, !.update = update, !.deals = <<>>, !.deals_json = <<>>]
  OBVIOUS
<1>10. /\ rest \in MemType /\ rest.klines = kept /\ rest.update = update /\ rest.deals = <<>>
       /\ rest.deals_json = <<>> /\ rest.last = mem.last /\ rest.fresh = mem.fresh
  <2>1. update \in SUBSET Keys
    <3> HIDE DEF Keys
    <3> QED BY <1>2
  <2>2. PICK m \in MemType : m = mem
    BY <1>1
  <2>3. PICK left \in SUBSET Keys : left = update
    BY <2>1
  <2>4. PICK own \in Tables : own = kept
    BY <1>5
  <2>5. rest = Rest(m, own, left)
    BY <1>9, <2>2, <2>3, <2>4 DEF Rest
  <2>6. /\ rest \in MemType /\ rest.klines = own /\ rest.update = left /\ rest.deals = <<>>
        /\ rest.deals_json = <<>> /\ rest.last = m.last /\ rest.fresh = m.fresh
    BY <2>5, Replaced
  <2> QED BY <2>2, <2>3, <2>4, <2>6
<1>11. DealsKey \in Names /\ LastKey \in Names /\ Keys \subseteq Names
  <2>1. DealsKey \in Names /\ LastKey \in Names
    BY DEF DealsKey, LastKey, Names
  <2> QED BY <2>1, KeysAre
<1>12. CASE loaded
  <2>1. mem' = load_market(rest)
    BY <1>7, <1>9, <1>12
  <2>2. LoadedKlines(rest.klines) \in Tables
    BY <1>2, <1>5, <1>10, OffsetsAre, KeptParts, AtLoaded
  <2>3. <<>> \o redis.deals = redis.deals
    BY <1>1, <1>2, PushedNone
  <2>4. PICK keys : keys = mem.update \cup drift.missed \cup drift.behind
                             \cup (IF mem.deals = <<>> THEN {} ELSE {DealsKey})
                             \cup (IF mem.fresh THEN {LastKey} ELSE {})
    OBVIOUS
  <2>5. drift' = [drift EXCEPT !.under = @ \cup keys]
    BY <1>7, <1>12, <2>4
  <2>6. keys \in SUBSET Names
    <3> HIDE DEF Names
    <3> QED BY <1>2, <1>11, <2>4
  <2>7. /\ mem' \in MemType /\ mem'.klines = LoadedKlines(rest.klines) /\ mem'.update = rest.update
        /\ mem'.deals = rest.deals /\ mem'.deals_json = rest.deals_json \o redis.deals
        /\ mem'.last = (IF redis.last = 0 THEN rest.last ELSE redis.last) /\ mem'.fresh = rest.fresh
    BY <1>1, <1>10, <2>1, <2>2, LoadMarketIs
  <2>8. Loaded(kept, update, keys)
    BY <1>10, <2>3, <2>4, <2>7 DEF Loaded
  <2> QED BY <1>3, <1>5, <1>6, <1>8, <2>5, <2>6, <2>8
<1>13. CASE ~loaded
  <2>1. mem' = rest
    BY <1>7, <1>9, <1>13
  <2>2. PICK keys : keys = KeysIn(mem.klines) \cup KeysIn(redis.klines) \cup {DealsKey}
    OBVIOUS
  <2>3. drift' = [drift EXCEPT !.under = @ \cup keys]
    BY <1>7, <1>13, <2>2
  <2>4. KeysIn(mem.klines) \subseteq Names /\ KeysIn(redis.klines) \subseteq Names
    BY <1>2, KeysInAre
  <2>5. keys \in SUBSET Names
    <3> HIDE DEF Names
    <3> QED BY <1>11, <2>2, <2>4
  <2>6. \A key \in Keys \ keys : At(mem.klines, key) = NoKline /\ At(redis.klines, key) = NoKline
    BY <1>2, <2>2, KeysInAre
  <2>7. Forgot(kept, update, keys)
    BY <1>10, <2>1, <2>2, <2>6 DEF Forgot
  <2> QED BY <1>3, <1>5, <1>6, <1>8, <2>3, <2>5, <2>7
<1> QED BY <1>12, <1>13

\* After a reload the k-lines in memory are those that were there, or those of Redis, where
\* neither may be missing.
LEMMA ReloadedKlines ==
  ASSUME KeptInv, NEW kept \in Tables, NEW update, NEW keys \in SUBSET Names,
         \A key \in Keys : At(kept, key) \in {At(mem.klines, key), NoKline},
         Loaded(kept, update, keys) \/ Forgot(kept, update, keys), NEW key \in Live, key \notin keys
  PROVE  At(mem'.klines, key) \in {At(mem.klines, key), At(redis.klines, key)}
<1>1. KeptTypeOK /\ Inv
  BY KeptParts
<1>2. redis.klines \in Tables /\ now \in Nat
  BY <1>1, KeptFields, OffsetsAre
<1>3. key \in Keys
  BY DEF Live
<1>4. CASE Loaded(kept, update, keys)
  <2>1. mem'.klines = LoadedKlines(kept)
    BY <1>4 DEF Loaded
  <2>2. At(mem'.klines, key) = IF At(kept, key) # NoKline THEN At(kept, key) ELSE At(redis.klines, key)
    BY <1>2, <2>1, AtLoaded
  <2> QED BY <1>3, <2>2
<1>5. CASE Forgot(kept, update, keys)
  <2>1. mem'.klines = kept /\ At(mem.klines, key) = NoKline
    BY <1>3, <1>5 DEF Forgot
  <2> QED BY <1>3, <2>1
<1> QED BY <1>4, <1>5

\* market_kline_reload keeps the invariant.
LEMMA ReloadKept == ASSUME KeptInv, Inv', Reload PROVE KeptInv'
<1>1. /\ Inv /\ KeptTypeOK /\ FlushOrder /\ KlinesRight("exact") /\ KlinesRight("cover") /\ DealsRight /\ LastRight
      /\ mem \in MemType /\ redis \in RedisType /\ Len(redis.deals) <= DealsMax /\ drift \in DriftType
  BY KeptParts
<1>2. pc = "loop" /\ pc' = "loop" /\ UNCHANGED <<now, topic, last_offset, redis>>
  BY ReloadIs
<1>3. PICK kept \in Tables, update \in SUBSET mem.update, keys \in SUBSET Names :
        /\ \A key \in Keys : At(kept, key) \in {At(mem.klines, key), NoKline}
        /\ drift' = [drift EXCEPT !.under = @ \cup keys]
        /\ Loaded(kept, update, keys) \/ Forgot(kept, update, keys)
  BY ReloadIs
<1>4. /\ drift' \in DriftType /\ drift'.ahead = drift.ahead /\ drift'.behind = drift.behind
      /\ drift'.missed = drift.missed /\ drift'.over = drift.over /\ drift'.under = drift.under \cup keys
  BY <1>1, <1>3, DriftUnder
<1>5. /\ mem' \in MemType /\ mem'.update = update /\ mem'.deals = <<>> /\ mem'.fresh = mem.fresh
  BY <1>3 DEF Loaded, Forgot
<1>6. Wrong' = Wrong \cup keys
  BY <1>4 DEF Wrong
<1>7. ASSUME NEW how, KlinesRight(how) PROVE KlinesRight(how)'
  <2>1. Off(how)' = Off(how) \cup keys
    BY <1>4, <1>6 DEF Off
  <2>2. Off(how)' \subseteq Late(how)' /\ Off(how)' \subseteq Differs(how)' /\ Differs(how) \subseteq Differs(how)'
    BY <1>4, <2>1 DEF Late, Differs
  <2> SUFFICES ASSUME NEW key \in Live' PROVE KeyRight(how, key)'
    BY DEF KlinesRight
  <2>3. key \in Live /\ key \in Keys /\ KeyRight(how, key)
    BY <1>2, <1>7, LiveSame DEF KlinesRight, Live
  <2>4. ASSUME key \notin Off(how)'
        PROVE  /\ Right(how, At(mem.klines, key), DueIn(topic, last_offset, key))
               /\ Right(how, At(redis.klines, key), DueIn(topic, last_offset, key))
    <3>1. key \notin keys /\ key \notin Off(how)
      BY <2>1, <2>4
    <3>2. Right(how, At(mem.klines, key), DueIn(topic, last_offset, key))
      BY <1>2, <2>3, <3>1 DEF KeyRight
    <3>3. CASE Loaded(kept, update, keys)
      <4>1. key \notin Late(how)
        BY <3>1, <3>3 DEF Late, Loaded
      <4> QED BY <1>2, <2>3, <3>2, <4>1 DEF KeyRight
    <3>4. CASE Forgot(kept, update, keys)
      <4>1. At(mem.klines, key) = At(redis.klines, key)
        BY <2>3, <3>1, <3>4 DEF Forgot
      <4> QED BY <3>2, <4>1
    <3> QED BY <1>3, <3>3, <3>4
  <2>5. ASSUME key \notin Off(how)'
        PROVE  Right(how, At(mem'.klines, key), DueIn(topic, last_offset, key))
    <3>1. At(mem'.klines, key) \in {At(mem.klines, key), At(redis.klines, key)}
      BY <1>3, <2>1, <2>3, <2>5, ReloadedKlines
    <3> QED BY <2>4, <2>5, <3>1
  <2>6. key \notin Differs(how)' => Right(how, At(redis.klines, key), DueIn(topic, redis.offset, key))
    BY <2>2, <2>3 DEF KeyRight
  <2> QED BY <1>2, <2>2, <2>4, <2>5, <2>6 DEF KeyRight
<1>8. Pushed(<<>>, redis.deals) = redis.deals
  BY <1>1, KeptFields, PushedNone
<1>9. DealsRight'
  <2>1. ASSUME DealsKey \notin Wrong' PROVE mem'.deals_json = redis.deals /\ redis.deals = RecentOf(last_offset)
    <3>1. Loaded(kept, update, keys)
      BY <1>3, <1>6, <2>1 DEF Forgot
    <3>2. mem.deals = <<>> /\ DealsKey \notin Wrong \cup drift.missed \cup drift.behind
      BY <1>6, <2>1, <3>1 DEF Loaded
    <3>3. Pushed(mem.deals, redis.deals) = RecentOf(last_offset)
      BY <1>1, <1>2, <3>2 DEF DealsRight
    <3> QED BY <1>8, <3>1, <3>2, <3>3 DEF Loaded
  <2>2. DealsKey \notin Wrong' \cup drift'.ahead \cup drift'.behind => redis.deals = RecentOf(redis.offset)
    BY <1>1, <1>4, <1>6 DEF DealsRight
  <2> QED BY <1>2, <1>5, <1>8, <2>1, <2>2 DEF DealsRight, RecentOf
<1>10. ASSUME LastKey \notin Wrong' \/ ~mem.fresh PROVE mem'.last = mem.last
  <2>1. CASE Loaded(kept, update, keys)
    <3>1. ~mem.fresh
      BY <1>6, <1>10, <2>1 DEF Loaded
    <3>2. redis.last = mem.last
      BY <1>1, <1>2, <3>1 DEF FlushOrder
    <3> QED BY <2>1, <3>2 DEF Loaded
  <2>2. CASE Forgot(kept, update, keys)
    BY <2>2 DEF Forgot
  <2> QED BY <1>3, <2>1, <2>2
<1>11. LastRight'
  <2>1. LastKey \notin Wrong' /\ last_offset > 0 => mem'.last = topic[last_offset].price
    BY <1>1, <1>2, <1>6, <1>10 DEF LastRight
  <2>2. LastKey \notin Wrong' \cup drift'.ahead /\ redis.offset > 0 => redis.last = topic[redis.offset].price
    BY <1>1, <1>4, <1>6 DEF LastRight
  <2> QED BY <1>2, <2>1, <2>2 DEF LastRight
<1>12. FlushOrder'
  BY <1>1, <1>2, <1>5, <1>10 DEF FlushOrder
<1>13. redis' \in RedisType /\ Len(redis'.deals) <= DealsMax
  BY <1>1, <1>2
<1> QED BY <1>1, <1>4, <1>5, <1>7, <1>9, <1>11, <1>12, <1>13, KeptWhole

\* A process that starts keeps the invariant: it shows what Redis shows of the stored
\* offset, from which it goes on.
LEMMA StartKept == ASSUME KeptInv, Inv', Start PROVE KeptInv'
<1>1. /\ Inv /\ KeptTypeOK /\ FlushOrder /\ KlinesRight("exact") /\ KlinesRight("cover") /\ DealsRight /\ LastRight
      /\ mem \in MemType /\ redis \in RedisType /\ Len(redis.deals) <= DealsMax /\ drift \in DriftType
  BY KeptParts
<1>2. /\ pc = "down" /\ pc' = "loop" /\ last_offset' = redis.offset /\ UNCHANGED <<now, topic, redis, drift>>
      /\ mem' = load_market([NoMarket EXCEPT !.fresh = TRUE])
  BY DEF Start
<1>3. drift.ahead = {} /\ drift.missed = {} /\ drift.behind = {}
  BY <1>1, <1>2 DEF FlushOrder
<1>4. PICK m \in MemType : m = [NoMarket EXCEPT !.fresh = TRUE]
  BY NoMarketIs
<1>5. m.klines = NoTables /\ m.update = {} /\ m.deals = <<>> /\ m.deals_json = <<>> /\ m.last = 0 /\ m.fresh = TRUE
  BY <1>4 DEF NoMarket
<1>6. redis.klines \in Tables /\ redis.deals \in Seq(Nat) /\ redis.last \in Nat /\ now \in Nat
  BY <1>1, KeptFields, OffsetsAre
<1>7. PICK own \in Tables : own = NoTables
  BY NoTablesIs
<1>8. PICK klines : klines = LoadedKlines(own)
  OBVIOUS
<1>9. klines \in Tables /\ \A key \in Live : At(klines, key) = At(redis.klines, key)
  <2>1. \A key \in Live : key \in Keys
    BY DEF Live
  <2>2. /\ klines \in Tables
        /\ \A key \in Live : At(klines, key) = IF At(own, key) # NoKline THEN At(own, key) ELSE At(redis.klines, key)
    BY <1>6, <1>8, AtLoaded
  <2> QED BY <1>7, <2>1, <2>2, NoTablesIs
<1>10. /\ mem' \in MemType /\ mem'.klines = klines /\ mem'.update = {} /\ mem'.deals = <<>>
       /\ mem'.deals_json = redis.deals /\ mem'.last = redis.last /\ mem'.fresh = TRUE
  <2>1. LoadedKlines(m.klines) \in Tables /\ mem' = load_market(m)
    BY <1>2, <1>4, <1>5, <1>7, <1>8, <1>9
  <2>2. /\ mem' \in MemType /\ mem'.klines = LoadedKlines(m.klines) /\ mem'.update = m.update /\ mem'.deals = m.deals
        /\ mem'.deals_json = m.deals_json \o redis.deals
        /\ mem'.last = (IF redis.last = 0 THEN m.last ELSE redis.last) /\ mem'.fresh = m.fresh
    BY <1>1, <2>1, LoadMarketIs
  <2>3. <<>> \o redis.deals = redis.deals
    BY <1>1, <1>6, PushedNone
  <2> QED BY <1>5, <1>7, <1>8, <2>2, <2>3
<1>11. ASSUME NEW how, KlinesRight(how) PROVE KlinesRight(how)'
  <2>1. Off(how)' = Off(how) /\ Late(how)' = Off(how) /\ Differs(how)' = Off(how) /\ Differs(how) = Off(how)
    BY <1>2, <1>3, <1>10 DEF Off, Late, Differs, Wrong
  <2> SUFFICES ASSUME NEW key \in Live' PROVE KeyRight(how, key)'
    BY DEF KlinesRight
  <2>2. key \in Live /\ KeyRight(how, key)
    BY <1>2, <1>11, LiveSame DEF KlinesRight
  <2>3. key \notin Off(how) => Right(how, At(redis.klines, key), DueIn(topic, redis.offset, key))
    BY <2>1, <2>2 DEF KeyRight
  <2>4. At(mem'.klines, key) = At(redis.klines, key)
    BY <1>9, <1>10, <2>2
  <2> QED BY <1>2, <2>1, <2>3, <2>4 DEF KeyRight
<1>12. Wrong' = Wrong
  BY <1>2 DEF Wrong
<1>13. DealsRight'
  <2>1. Pushed(<<>>, redis.deals) = redis.deals
    BY <1>1, <1>6, PushedNone
  <2>2. DealsKey \notin Wrong => redis.deals = RecentOf(redis.offset)
    BY <1>1, <1>3 DEF DealsRight
  <2> QED BY <1>2, <1>3, <1>10, <1>12, <2>1, <2>2 DEF DealsRight, RecentOf
<1>14. LastRight'
  BY <1>1, <1>2, <1>3, <1>10, <1>12 DEF LastRight
<1>15. FlushOrder'
  BY <1>2, <1>10 DEF FlushOrder
<1>16. redis' \in RedisType /\ Len(redis'.deals) <= DealsMax /\ drift' \in DriftType
  BY <1>1, <1>2
<1> QED BY <1>1, <1>10, <1>11, <1>13, <1>14, <1>15, <1>16, KeptWhole
------------------------------------------------------------------------------
(* The invariant of what is kept, and what follows from it                  *)

\* The invariant holds at first, when there is nothing ...
LEMMA KeptInit == Init => KeptInv
<1> SUFFICES ASSUME Init PROVE KeptInv
  OBVIOUS
<1>1. Inv
  BY InvInit
<1>2. /\ mem = [NoMarket EXCEPT !.fresh = TRUE] /\ last_offset = 0 /\ pc = "loop"
      /\ redis = [klines |-> NoTables, deals |-> <<>>, last |-> 0, offset |-> 0]
      /\ drift = [ahead |-> {}, missed |-> {}, behind |-> {}, over |-> {}, under |-> {}]
  BY DEF Init
<1>3. /\ mem.klines = NoTables /\ mem.update = {} /\ mem.deals = <<>> /\ mem.deals_json = <<>>
      /\ mem.last = 0 /\ mem.fresh = TRUE
  BY <1>2 DEF NoMarket
<1>4. redis.klines = NoTables /\ redis.deals = <<>> /\ redis.last = 0 /\ redis.offset = 0
  BY <1>2
<1>5. KeptTypeOK
  <2>1. mem \in MemType
    BY <1>2, NoMarketIs
  <2>2. PICK tables \in Tables : tables = NoTables
    BY NoTablesIs
  <2>3. PICK none \in Seq(Nat) : none = <<>>
    <3>1. <<>> \in Seq(Nat)
      OBVIOUS
    <3> QED BY <3>1
  <2>4. redis \in RedisType
    <3>1. redis = [klines |-> tables, deals |-> none, last |-> 0, offset |-> 0]
      BY <1>2, <2>2, <2>3
    <3> HIDE DEF Tables
    <3> QED BY <3>1 DEF RedisType
  <2>5. drift \in DriftType
    <3> HIDE DEF Names
    <3> QED BY <1>2 DEF DriftType
  <2>6. Len(redis.deals) <= DealsMax
    BY <1>4
  <2> QED BY <2>1, <2>4, <2>5, <2>6, KeptTypeIs
<1>6. FlushOrder
  BY <1>2, <1>3 DEF FlushOrder
<1>7. \A how : KlinesRight(how)
  <2> SUFFICES ASSUME NEW how, NEW key \in Live PROVE KeyRight(how, key)
    BY DEF KlinesRight
  <2>1. At(NoTables, key) = NoKline
    BY NoTablesIs DEF Live
  <2>2. DueIn(topic, 0, key) = NoKline
    BY DueNone
  <2>3. Right(how, NoKline, NoKline)
    BY DEF Right, Covers
  <2> QED BY <1>2, <1>3, <1>4, <2>1, <2>2, <2>3 DEF KeyRight
<1>8. DealsRight
  <2>1. RecentOf(0) = <<>>
    <3>1. PICK r \in Seq(Nat) : r = RecentOf(0)
      BY RecentIs
    <3>2. Len(r) = Lower(0, DealsMax)
      BY <3>1, RecentIs
    <3>3. Lower(0, DealsMax) = 0
      BY DEF Lower
    <3> QED BY <3>1, <3>2, <3>3
  <2>2. Pushed(<<>>, <<>>) = <<>>
    <3>1. <<>> \in Seq(Nat) /\ Len(<<>>) <= DealsMax
      OBVIOUS
    <3> QED BY <3>1, PushedNone
  <2> QED BY <1>2, <1>3, <1>4, <2>1, <2>2 DEF DealsRight
<1>9. LastRight
  BY <1>2, <1>4 DEF LastRight
<1> QED BY <1>1, <1>5, <1>6, <1>7, <1>8, <1>9 DEF KeptInv

\* ... and every step keeps it.
LEMMA KeptNext == KeptInv /\ [Next]_vars => KeptInv'
<1> SUFFICES ASSUME KeptInv, [Next]_vars PROVE KeptInv'
  OBVIOUS
<1>1. Inv'
  <2>1. Inv
    BY KeptParts
  <2> QED BY <2>1, InvNext
<1>2. CASE UNCHANGED vars
  <2>1. UNCHANGED <<now, topic, pc, mem, last_offset, redis, drift>>
    BY <1>2 DEF vars, consumer
  <2>2. KeptTypeOK' /\ KlinesRight("exact")' /\ KlinesRight("cover")' /\ DealsRight' /\ LastRight'
    BY <2>1, LiveSame, QuietStep
  <2>3. FlushOrder'
    <3>1. FlushOrder
      BY KeptParts
    <3> QED BY <2>1, <3>1 DEF FlushOrder
  <2> QED BY <1>1, <2>2, <2>3 DEF KeptInv
<1>3. CASE \/ /\ Outside
              /\ \/ Tick \/ Fetch \/ Wake \/ Drained
                 \/ \E price \in Prices, amount \in Amounts : Publish(price, amount)
           \/ FlushTimer
  BY <1>1, <1>3, QuietKept
<1>4. CASE OnDealsMessage
  BY <1>1, <1>4, DealKept
<1>5. CASE FlushKline
  BY <1>1, <1>5, FlushKlineKept
<1>6. CASE FlushLast
  BY <1>1, <1>6, FlushLastKept
<1>7. CASE FlushDeals
  BY <1>1, <1>7, FlushDealsKept
<1>8. CASE FlushOffset
  BY <1>1, <1>8, FlushOffsetKept
<1>9. CASE ClearTimer \/ ClearRedis
  BY <1>1, <1>9, ClearKept
<1>10. CASE Reload
  BY <1>1, <1>10, ReloadKept
<1>11. CASE KlineUpdate
  BY <1>1, <1>11, KlineUpdateKept
<1>12. CASE Crash
  BY <1>1, <1>12, CrashKept
<1>13. CASE Start
  BY <1>1, <1>13, StartKept
<1> QED BY <1>2, <1>3, <1>4, <1>5, <1>6, <1>7, <1>8, <1>9, <1>10, <1>11, <1>12, <1>13, Zenon DEF Next, Flush

\* The keys of deals that are kept are keys of buckets.
LEMMA KeptAreLive == ASSUME Inv PROVE KeptKeys \subseteq Live
<1> SUFFICES ASSUME NEW key \in KeptKeys PROVE key \in Live
  OBVIOUS
<1>1. PICK i \in DOMAIN topic : key \in KeysOf(topic[i])
  BY DEF KeptKeys
<1>2. topic[i] \in Deals
  BY OffsetsAre
<1>3. PICK deal \in Deals : deal = topic[i]
  BY <1>2
<1>4. deal.time \in Nat
  BY DealFields
<1>5. PICK type \in Types : key = <<type, Bucket(type, deal.time)>>
  BY <1>1, <1>3 DEF KeysOf
<1>6. IsKey(key) /\ Bucket(type, deal.time) \in Nat
  BY <1>4, <1>5, BucketIsKey
<1>7. ~Expired(key[1], key[2])
  BY DEF KeptKeys
<1> QED BY <1>5, <1>6, <1>7 DEF Live, Keys

\* What the three properties say follows from it.
LEMMA KeptMeans == KeptInv => MemoryExact /\ StoredExact /\ AtLeastOnce
<1> SUFFICES ASSUME KeptInv PROVE MemoryExact /\ StoredExact /\ AtLeastOnce
  OBVIOUS
<1>1. Inv /\ KlinesRight("exact") /\ KlinesRight("cover") /\ DealsRight /\ LastRight
  BY KeptParts
<1>2. ASSUME NEW key \in KeptKeys
      PROVE  key \in Live /\ KeyRight("exact", key) /\ KeyRight("cover", key)
  BY <1>1, <1>2, KeptAreLive DEF KlinesRight
<1>3. MemoryExact
  <2>1. ASSUME pc # "down", NEW key \in KeptKeys \ Wrong
        PROVE  At(mem.klines, key) = Due(last_offset, key)
    <3>1. Right("exact", At(mem.klines, key), DueIn(topic, last_offset, key))
      BY <1>2, <2>1 DEF KeyRight, Off
    <3> QED BY <3>1, DueIs DEF Right
  <2> QED BY <1>1, <2>1 DEF MemoryExact, DealsRight, LastRight
<1>4. StoredExact
  <2>1. ASSUME NEW key \in KeptKeys \ (Wrong \cup drift.ahead \cup drift.behind)
        PROVE  At(redis.klines, key) = Due(redis.offset, key)
    <3>1. key \notin Differs("exact")
      BY <2>1 DEF Differs, Off
    <3>2. Right("exact", At(redis.klines, key), DueIn(topic, redis.offset, key))
      BY <1>2, <3>1 DEF KeyRight
    <3> QED BY <3>2, DueIs DEF Right
  <2> QED BY <1>1, <2>1 DEF StoredExact, DealsRight
<1>5. AtLeastOnce
  <2>1. ASSUME NEW key \in KeptKeys \ (drift.under \cup drift.behind)
        PROVE  Covers(At(redis.klines, key), Due(redis.offset, key))
    <3>1. key \notin Differs("cover")
      BY <2>1 DEF Differs, Off
    <3>2. Right("cover", At(redis.klines, key), DueIn(topic, redis.offset, key))
      BY <1>2, <3>1 DEF KeyRight
    <3> QED BY <3>2, DueIs DEF Right
  <2> QED BY <2>1 DEF AtLeastOnce, Covers
<1> QED BY <1>3, <1>4, <1>5

\* The k-lines, recent deals and last price in memory are those of the deals handled, each
\* counted once and in its bucket, through flushes cut or refused at any statement, clearing,
\* reloads and restarts, except for the keys known to be wrong for good; for every number of
\* deals, buckets and faults (mp_message.c:427, 522, 713).
THEOREM MemoryAlwaysExact == Spec => []MemoryExact
  BY KeptMeans, KeptInit, KeptNext, PTL DEF Spec

\* What Redis shows is that of the deals up to the stored offset, from which the next process
\* goes on, except for keys that are ahead or behind (mp_message.c:583-757).
THEOREM StoredAlwaysExact == Spec => []StoredExact
  BY KeptMeans, KeptInit, KeptNext, PTL DEF Spec

\* A deal before the stored offset is in its stored k-lines at least once, also after crashes at
\* any point of a flush: the offset is stored last (mp_message.c:713).
THEOREM AtLeastOnceHolds == Spec => []AtLeastOnce
  BY KeptMeans, KeptInit, KeptNext, PTL DEF Spec
==============================================================================
