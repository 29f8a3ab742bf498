------------------------------ MODULE FeedProofs ------------------------------
(***************************************************************************)
(* Proofs about the polled topics of accessws: an entry has exactly the     *)
(* sessions it should, a depth put together from differences is the depth,  *)
(* and deals come in order and once; for any number of sessions, prices and *)
(* polls, and any limit.                                                    *)
(***************************************************************************)
EXTENDS FeedProps, SumLemmas, SequenceTheorems

(* Books and their best levels.                                             *)

Books     == {b \in Depths : IsFiniteSet(DOMAIN b)}
TopDepths == {d \in Books : Cardinality(DOMAIN d) <= Limit}

LEMMA DepthsIs ==
  ASSUME NEW d
  PROVE  d \in Depths <=> DOMAIN d \subseteq Prices /\ d \in [DOMAIN d -> Amounts]
  BY DEF Depths

LEMMA BookType ==
  ASSUME NEW b \in Books
  PROVE  /\ DOMAIN b \subseteq Nat /\ IsFiniteSet(DOMAIN b) /\ b = [p \in DOMAIN b |-> b[p]]
         /\ \A p \in DOMAIN b : b[p] \in Nat \ {0} /\ b[p] # 0
  BY FeedAssumption, DepthsIs DEF Books

\* A finite set of numbers has a greatest one: a smallest subset that has none is
\* none that has one when it lacks an element.
LEMMA GreatestOf ==
  ASSUME NEW S \in SUBSET Nat, IsFiniteSet(S), S # {}
  PROVE  \E m \in S : \A n \in S : n <= m
<1> DEFINE bad == {T \in SUBSET S : T # {} /\ ~\E m \in T : \A n \in T : n <= m}
<1> SUFFICES ASSUME bad # {} PROVE FALSE
  OBVIOUS
<1>1. PICK T \in bad : \A x \in T : T \ {x} \notin bad
  BY SmallestSubset
<1>2. PICK x \in T : TRUE
  BY <1>1
<1>3. T \ {x} # {}
  BY <1>1, <1>2
<1>4. PICK m \in T \ {x} : \A n \in T \ {x} : n <= m
  BY <1>1, <1>2, <1>3
<1>5. x \in Nat /\ m \in Nat /\ \A n \in T : n \in Nat /\ (n = x \/ n <= m)
  BY <1>2, <1>4
<1>6. CASE x <= m
  BY <1>1, <1>4, <1>5, <1>6
<1>7. CASE m < x
  BY <1>1, <1>2, <1>5, <1>7
<1> QED BY <1>5, <1>6, <1>7

\* Prices before which there are less than `limit` others are no more than that.
LEMMA FewBest ==
  ASSUME NEW S \in SUBSET Nat, IsFiniteSet(S), NEW limit \in Nat \ {0},
         \A p \in S : Cardinality({q \in S : q < p}) < limit
  PROVE  Cardinality(S) <= limit
<1>1. CASE S = {}
  BY <1>1, FS_EmptySet
<1>2. CASE S # {}
  <2>1. PICK m \in S : \A n \in S : n <= m
    BY <1>2, GreatestOf
  <2>2. {q \in S : q < m} = S \ {m}
    <3>1. \A q \in S : q < m <=> q # m
      BY <2>1
    <3> QED BY <3>1
  <2>3. /\ Cardinality(S) \in Nat
        /\ Cardinality(S \ {m}) = Cardinality(S) - 1
    BY <2>1, FS_RemoveElement, FS_CardinalityType
  <2>4. Cardinality(S \ {m}) < limit
    BY <2>1, <2>2
  <2> QED BY <2>3, <2>4
<1> QED BY <1>1, <1>2

\* The best levels of a book are no more than the limit.
LEMMA TopType ==
  ASSUME NEW book \in Books
  PROVE  Top(book) \in TopDepths
<1> DEFINE better(p) == {q \in DOMAIN book : q < p}
           best      == {p \in DOMAIN book : Cardinality(better(p)) < Limit}
<1>1. Top(book) = [p \in best |-> book[p]]
  BY DEF Top
<1>2. /\ DOMAIN book \subseteq Nat /\ DOMAIN book \subseteq Prices /\ IsFiniteSet(DOMAIN book)
      /\ \A p \in DOMAIN book : book[p] \in Amounts
  BY BookType, DepthsIs DEF Books
<1>3. best \in SUBSET Nat /\ IsFiniteSet(best)
  BY <1>2, FS_Subset
<1>4. ASSUME NEW p \in best
      PROVE  Cardinality({q \in best : q < p}) < Limit
  <2> DEFINE few == {q \in best : q < p}
  <2>1. few \subseteq better(p) /\ better(p) \subseteq DOMAIN book
    OBVIOUS
  <2>2. IsFiniteSet(better(p))
    BY <1>2, <2>1, FS_Subset
  <2>3. IsFiniteSet(few) /\ Cardinality(few) <= Cardinality(better(p))
    BY <2>1, <2>2, FS_Subset
  <2>4. Cardinality(few) \in Nat /\ Cardinality(better(p)) \in Nat
    BY <2>2, <2>3, FS_CardinalityType
  <2>5. Cardinality(better(p)) < Limit
    OBVIOUS
  <2> HIDE DEF better
  <2> QED BY <2>3, <2>4, <2>5, FeedAssumption
<1>5. Cardinality(best) <= Limit
  <2> HIDE DEF best
  <2> QED BY <1>3, <1>4, FewBest, FeedAssumption
<1>6. DOMAIN Top(book) = best /\ Top(book) \in Depths
  <2>1. best \subseteq Prices /\ \A p \in best : book[p] \in Amounts
    BY <1>2
  <2> HIDE DEF best
  <2> QED BY <1>1, <2>1, DepthsIs
<1> QED BY <1>3, <1>5, <1>6 DEF TopDepths, Books

\* get_list_diff: what a client makes of a depth and the difference is the new depth.
\* Levels that are neither in the new list nor removed are behind its end, and a
\* list that ends there is full.
LEMMA DiffRestores ==
  ASSUME NEW old \in TopDepths, NEW new \in TopDepths
  PROVE  Applied(old, Diff(old, new)) = new
<1> DEFINE changed == {p \in DOMAIN new : p \in DOMAIN old => old[p] # new[p]}
           gone    == Gone(old, new)
           diff    == Diff(old, new)
           left    == {p \in DOMAIN old \cup DOMAIN diff : p \in DOMAIN diff => diff[p] # 0}
           book    == [p \in left |-> IF p \in DOMAIN diff THEN diff[p] ELSE old[p]]
           better(p) == {q \in left : q < p}
<1>1. /\ DOMAIN old \subseteq Nat /\ IsFiniteSet(DOMAIN old)
      /\ DOMAIN new \subseteq Nat /\ IsFiniteSet(DOMAIN new) /\ Cardinality(DOMAIN new) <= Limit
      /\ new = [p \in DOMAIN new |-> new[p]]
      /\ \A p \in DOMAIN new : new[p] # 0
  BY BookType DEF TopDepths
<1>2. Cardinality(DOMAIN new) \in Nat /\ Limit \in Nat
  BY <1>1, FS_CardinalityType, FeedAssumption
<1>3. gone \subseteq DOMAIN old \ DOMAIN new
  BY DEF Gone
<1>4. /\ DOMAIN diff = changed \cup gone
      /\ \A p \in DOMAIN diff : diff[p] = IF p \in changed THEN new[p] ELSE 0
  BY DEF Diff
<1>5. /\ DOMAIN new \subseteq left
      /\ \A p \in left : p \notin DOMAIN new => p \in DOMAIN old \ DOMAIN new /\ p \notin gone
  <2> HIDE DEF gone, diff
  <2> QED BY <1>1, <1>3, <1>4
<1>6. \A p \in DOMAIN new : book[p] = new[p]
  <2> HIDE DEF gone, diff
  <2> QED BY <1>1, <1>3, <1>4, <1>5
<1>7. Applied(old, diff) = Top(book)
  BY DEF Applied
<1>8. DOMAIN book = left /\ left \subseteq Nat
  <2> HIDE DEF gone, diff
  <2> QED BY <1>1, <1>3, <1>4
<1>9. ASSUME NEW p \in left, p \notin DOMAIN new
      PROVE  ~(Cardinality(better(p)) < Limit)
  <2>1. p \in DOMAIN old \ DOMAIN new /\ p \notin gone
    BY <1>5, <1>9
  <2>2. (\A q \in DOMAIN new : ~(q > p)) /\ ~(Cardinality(DOMAIN new) < Limit)
    BY <2>1 DEF Gone
  <2>3. Cardinality(DOMAIN new) = Limit
    BY <2>2, <1>1, <1>2
  <2>4. DOMAIN new \subseteq better(p)
    <3> SUFFICES ASSUME NEW q \in DOMAIN new PROVE q < p
      BY <1>5
    <3>1. q \in Nat /\ p \in Nat /\ q # p /\ ~(q > p)
      BY <2>1, <2>2, <1>1
    <3> QED BY <3>1
  <2>5. IsFiniteSet(left)
    <3>1. left \subseteq DOMAIN old \cup DOMAIN new
      BY <1>5
    <3>2. IsFiniteSet(DOMAIN old \cup DOMAIN new)
      BY <1>1, FS_Union
    <3> QED BY <3>1, <3>2, FS_Subset
  <2>6. IsFiniteSet(better(p)) /\ Cardinality(better(p)) \in Nat
    <3>1. better(p) \subseteq left
      OBVIOUS
    <3> HIDE DEF better, left
    <3> QED BY <3>1, <2>5, FS_Subset, FS_CardinalityType
  <2>7. Cardinality(DOMAIN new) <= Cardinality(better(p))
    <3> HIDE DEF better, left
    <3> QED BY <2>4, <2>6, FS_Subset
  <2> HIDE DEF better
  <2> QED BY <2>3, <2>6, <2>7, <1>2
<1>10. ASSUME NEW p \in DOMAIN new
       PROVE  Cardinality(better(p)) < Limit
  <2>1. better(p) \subseteq DOMAIN new \ {p}
    <3> SUFFICES ASSUME NEW q \in left, q < p, q \notin DOMAIN new PROVE FALSE
      BY <1>8, <1>1
    <3>1. q \in DOMAIN old \ DOMAIN new /\ q \notin gone
      BY <1>5
    <3>2. ~(p > q)
      BY <3>1 DEF Gone
    <3> QED BY <3>1, <3>2, <1>1
  <2>2. /\ IsFiniteSet(DOMAIN new \ {p})
        /\ Cardinality(DOMAIN new \ {p}) = Cardinality(DOMAIN new) - 1
    BY <1>1, FS_RemoveElement
  <2>3. IsFiniteSet(better(p)) /\ Cardinality(better(p)) <= Cardinality(DOMAIN new \ {p})
    <3> HIDE DEF better
    <3> QED BY <2>1, <2>2, FS_Subset
  <2>4. Cardinality(better(p)) \in Nat
    BY <2>3, FS_CardinalityType
  <2> HIDE DEF better
  <2> QED BY <2>2, <2>3, <2>4, <1>1, <1>2
<1>11. {p \in left : Cardinality(better(p)) < Limit} = DOMAIN new
  <2> HIDE DEF better, left
  <2> QED BY <1>5, <1>9, <1>10
<1>12. Top(book) = [p \in DOMAIN new |-> book[p]]
  <2>1. Top(book) = [p \in {p \in DOMAIN book : Cardinality({q \in DOMAIN book : q < p}) < Limit} |-> book[p]]
    BY DEF Top
  <2>2. {p \in DOMAIN book : Cardinality({q \in DOMAIN book : q < p}) < Limit} = DOMAIN new
    <3> HIDE DEF left, book
    <3> QED BY <1>8, <1>11
  <2> HIDE DEF book
  <2> QED BY <2>1, <2>2
<1>13. Top(book) = new
  <2> HIDE DEF book
  <2> QED BY <1>12, <1>6, <1>1
<1> QED BY <1>7, <1>13
------------------------------------------------------------------------------
(* Deals, newest first in lists and answers, oldest first at clients.       *)

\* The numbers count down, or up; by one, unless deals were left out (c).
Descends(q, c) == \A i \in 1..(Len(q) - 1) : q[i] > q[i + 1] /\ (~c => q[i] = q[i + 1] + 1)
Ascends(q, c)  == \A i \in 1..(Len(q) - 1) : q[i] < q[i + 1] /\ (~c => q[i + 1] = q[i] + 1)

LEMMA ReverseIs ==
  ASSUME NEW q \in Seq(Nat), NEW c, Descends(q, c)
  PROVE  /\ Reverse(q) \in Seq(Nat) /\ Len(Reverse(q)) = Len(q)
         /\ \A i \in 1..Len(q) : Reverse(q)[i] = q[(Len(q) - i) + 1]
         /\ Ascends(Reverse(q), c)
<1>1. Reverse(q) = [i \in 1..Len(q) |-> q[(Len(q) - i) + 1]]
  BY DEF Reverse
<1>2. Len(q) \in Nat /\ \A i \in 1..Len(q) : (Len(q) - i) + 1 \in 1..Len(q) /\ q[i] \in Nat
  OBVIOUS
<1>3. /\ Reverse(q) \in Seq(Nat) /\ Len(Reverse(q)) = Len(q)
      /\ \A i \in 1..Len(q) : Reverse(q)[i] = q[(Len(q) - i) + 1]
  BY <1>1, <1>2
<1>4. ASSUME NEW i \in 1..(Len(q) - 1)
      PROVE  /\ Reverse(q)[i] < Reverse(q)[i + 1]
             /\ ~c => Reverse(q)[i + 1] = Reverse(q)[i] + 1
  <2> DEFINE j == Len(q) - i
  <2>1. j \in 1..(Len(q) - 1) /\ j + 1 \in 1..Len(q) /\ j \in 1..Len(q) /\ (Len(q) - (i + 1)) + 1 = j
        /\ (Len(q) - i) + 1 = j + 1 /\ i \in 1..Len(q) /\ i + 1 \in 1..Len(q)
    BY <1>2
  <2>2. Reverse(q)[i] = q[j + 1] /\ Reverse(q)[i + 1] = q[j]
    BY <1>3, <2>1
  <2>3. q[j] > q[j + 1] /\ (~c => q[j] = q[j + 1] + 1) /\ q[j] \in Nat /\ q[j + 1] \in Nat
    BY <2>1, <1>2 DEF Descends
  <2> QED BY <2>2, <2>3
<1> QED BY <1>3, <1>4 DEF Ascends

\* Joining sequences keeps the head of the first.
LEMMA ConcatHead ==
  ASSUME NEW a \in Seq(Nat), NEW b \in Seq(Nat), a # <<>>
  PROVE  a \o b \in Seq(Nat) /\ a \o b # <<>> /\ (a \o b)[1] = a[1]
  OBVIOUS

LEMMA JoinAscends ==
  ASSUME NEW a \in Seq(Nat), NEW b \in Seq(Nat), NEW c, Ascends(a, c), Ascends(b, c),
         a # <<>> /\ b # <<>> => a[Len(a)] < b[1] /\ (~c => b[1] = a[Len(a)] + 1)
  PROVE  a \o b \in Seq(Nat) /\ Ascends(a \o b, c)
<1>1. /\ a \o b \in Seq(Nat) /\ Len(a \o b) = Len(a) + Len(b)
      /\ Len(a) \in Nat /\ Len(b) \in Nat
      /\ \A i \in 1..(Len(a) + Len(b)) : (a \o b)[i] = IF i <= Len(a) THEN a[i] ELSE b[i - Len(a)]
  OBVIOUS
<1>2. ASSUME NEW i \in 1..(Len(a \o b) - 1)
      PROVE  (a \o b)[i] < (a \o b)[i + 1] /\ (~c => (a \o b)[i + 1] = (a \o b)[i] + 1)
  <2>1. CASE i + 1 <= Len(a)
    <3>1. i \in 1..(Len(a) - 1) /\ (a \o b)[i] = a[i] /\ (a \o b)[i + 1] = a[i + 1]
      BY <1>1, <2>1
    <3> QED BY <3>1 DEF Ascends
  <2>2. CASE i = Len(a)
    <3>1. (a \o b)[i] = a[Len(a)] /\ (a \o b)[i + 1] = b[1] /\ a # <<>> /\ b # <<>>
      BY <1>1, <2>2
    <3> QED BY <3>1
  <2>3. CASE i > Len(a)
    <3> DEFINE j == i - Len(a)
    <3>1. j \in 1..(Len(b) - 1) /\ (a \o b)[i] = b[j] /\ (a \o b)[i + 1] = b[j + 1]
      BY <1>1, <2>3
    <3> QED BY <3>1 DEF Ascends
  <2>4. i + 1 <= Len(a) \/ i = Len(a) \/ i > Len(a)
    <3>1. i \in Nat /\ Len(a) \in Nat
      BY <1>1
    <3> QED BY <3>1
  <2> QED BY <2>1, <2>2, <2>3, <2>4, Zenon
<1> QED BY <1>1, <1>2 DEF Ascends

\* The same for lists, which are cut at the end.
LEMMA JoinDescends ==
  ASSUME NEW a \in Seq(Nat), NEW b \in Seq(Nat), NEW c, Descends(a, c), Descends(b, c),
         a # <<>> /\ b # <<>> => a[Len(a)] > b[1] /\ (~c => a[Len(a)] = b[1] + 1)
  PROVE  a \o b \in Seq(Nat) /\ Descends(a \o b, c)
<1>1. /\ a \o b \in Seq(Nat) /\ Len(a \o b) = Len(a) + Len(b)
      /\ Len(a) \in Nat /\ Len(b) \in Nat
      /\ \A i \in 1..(Len(a) + Len(b)) : (a \o b)[i] = IF i <= Len(a) THEN a[i] ELSE b[i - Len(a)]
  OBVIOUS
<1>2. ASSUME NEW i \in 1..(Len(a \o b) - 1)
      PROVE  (a \o b)[i] > (a \o b)[i + 1] /\ (~c => (a \o b)[i] = (a \o b)[i + 1] + 1)
  <2>1. CASE i + 1 <= Len(a)
    <3>1. i \in 1..(Len(a) - 1) /\ (a \o b)[i] = a[i] /\ (a \o b)[i + 1] = a[i + 1]
      BY <1>1, <2>1
    <3> QED BY <3>1 DEF Descends
  <2>2. CASE i = Len(a)
    <3>1. (a \o b)[i] = a[Len(a)] /\ (a \o b)[i + 1] = b[1] /\ a # <<>> /\ b # <<>>
      BY <1>1, <2>2
    <3> QED BY <3>1
  <2>3. CASE i > Len(a)
    <3> DEFINE j == i - Len(a)
    <3>1. j \in 1..(Len(b) - 1) /\ (a \o b)[i] = b[j] /\ (a \o b)[i + 1] = b[j + 1]
      BY <1>1, <2>3
    <3> QED BY <3>1 DEF Descends
  <2>4. i + 1 <= Len(a) \/ i = Len(a) \/ i > Len(a)
    <3>1. i \in Nat /\ Len(a) \in Nat
      BY <1>1
    <3> QED BY <3>1
  <2> QED BY <2>1, <2>2, <2>3, <2>4, Zenon
<1> QED BY <1>1, <1>2 DEF Descends

LEMMA NewestIs ==
  ASSUME NEW q \in Seq(Nat), NEW c, Descends(q, c)
  PROVE  /\ Newest(q) \in Seq(Nat) /\ Descends(Newest(q), c)
         /\ Len(Newest(q)) = (IF Len(q) < Limit THEN Len(q) ELSE Limit)
         /\ \A i \in 1..Len(Newest(q)) : Newest(q)[i] = q[i]
         /\ Newest(q) = <<>> <=> q = <<>>
<1> DEFINE n == IF Len(q) < Limit THEN Len(q) ELSE Limit
<1>1. n \in 0..Len(q) /\ Len(q) \in Nat /\ (n = 0 <=> Len(q) = 0)
  BY FeedAssumption
<1>2. /\ Newest(q) \in Seq(Nat) /\ Len(Newest(q)) = n
      /\ \A i \in 1..n : Newest(q)[i] = q[i]
  <2>1. Newest(q) = SubSeq(q, 1, n)
    BY DEF Newest
  <2> HIDE DEF n
  <2> QED BY <1>1, <2>1
<1>3. Newest(q) = <<>> <=> q = <<>>
  BY <1>1, <1>2
<1>4. Descends(Newest(q), c)
  <2> SUFFICES ASSUME NEW i \in 1..(n - 1)
               PROVE  /\ Newest(q)[i] > Newest(q)[i + 1]
                      /\ ~c => Newest(q)[i] = Newest(q)[i + 1] + 1
    BY <1>2 DEF Descends
  <2>1. i \in 1..(Len(q) - 1) /\ Newest(q)[i] = q[i] /\ Newest(q)[i + 1] = q[i + 1]
    BY <1>1, <1>2
  <2> QED BY <2>1 DEF Descends
<1> QED BY <1>2, <1>3, <1>4
------------------------------------------------------------------------------
(* The invariant.                                                           *)

AnswerOf == IF kind = "depth" THEN TopDepths ELSE IF kind = "deals" THEN Seq(Nat) ELSE Nat
LastOf   == IF kind = "depth" THEN {Null} \cup TopDepths
            ELSE IF kind = "deals" THEN Seq(Nat) ELSE {Null} \cup Nat
EntryRec == [sessions : SUBSET Slots, last : LastOf]
PollRec  == [after : Nat, answer : {Null} \cup AnswerOf]

FeedTypeOK ==
  /\ kind \in {"value", "state", "kline", "depth", "deals"}
  /\ source \in IF kind = "depth" THEN Books ELSE Nat
  /\ entry = Null \/ entry \in EntryRec
  /\ polls \in Seq(PollRec)
  /\ wants \subseteq Slots /\ halfway \subseteq Slots
  /\ halfway # {} => kind \in {"value", "state", "deals"}
  /\ DOMAIN copy = Slots /\ copy = [s \in Slots |-> copy[s]]
  /\ kind = "deals" => copy \in [Slots -> Seq(Nat)]
  /\ overlapped \in BOOLEAN /\ cut \in BOOLEAN

\* While polls do not overlap, the one that is under way asks for what comes after the
\* list; what is in the list, in an answer and at clients is in order; and the
\* last deal of a client that has one is the list's first.
PollOK(p) ==
  /\ entry # Null /\ entry.last # <<>> => p.after = entry.last[1]
  /\ p.answer # Null =>
       /\ Descends(p.answer, cut)
       /\ \A i \in 1..Len(p.answer) : p.answer[i] > p.after
       /\ p.answer # <<>> /\ ~cut => p.answer[Len(p.answer)] = p.after + 1

ClientOK(q) ==
  /\ Ascends(q, cut)
  /\ q # <<>> => entry.last # <<>> /\ q[Len(q)] = entry.last[1]

DealsOK ==
  kind = "deals" /\ ~overlapped =>
    /\ Len(polls) <= 1
    /\ polls # <<>> => PollOK(polls[1])
    /\ entry # Null => Descends(entry.last, cut)
    /\ \A s \in Served : ClientOK(copy[s])

FeedInv == FeedTypeOK /\ SessionsExact /\ CopyIsLast /\ DealsOK

LEMMA NullIsNoEntry == \A r \in EntryRec : r # Null
<1>1. TopDepths \subseteq Depths
  BY DEF TopDepths, Books
<1>2. LastOf \subseteq Lasts
  BY <1>1 DEF LastOf, Lasts
<1> QED BY <1>2, NullAssumption DEF EntryRec

LEMMA InitFeed == Init => FeedInv
<1> SUFFICES ASSUME Init PROVE FeedInv
  OBVIOUS
<1>1. kind \in {"value", "state", "kline", "depth", "deals"}
  BY FeedAssumption DEF Init
<1>2. kind = "depth" => source \in Books
  <2> SUFFICES ASSUME kind = "depth" PROVE <<>> \in Books
    BY DEF Init
  <2>1. DOMAIN <<>> = {} /\ <<>> \in [{} -> Amounts]
    OBVIOUS
  <2>2. IsFiniteSet({})
    BY FS_EmptySet
  <2> QED BY <2>1, <2>2, DepthsIs DEF Books
<1>3. kind # "depth" => source \in Nat
  BY <1>1 DEF Init
<1>4. FeedTypeOK
  <2>1. polls = <<>> /\ wants = {} /\ halfway = {} /\ overlapped = FALSE /\ cut = FALSE
    BY DEF Init
  <2>2. copy = [s \in Slots |-> NoLast] /\ (kind = "deals" => NoLast \in Seq(Nat))
    BY DEF Init, NoLast
  <2>3. DOMAIN copy = Slots /\ copy = [s \in Slots |-> copy[s]]
    BY <2>2
  <2>4. kind = "deals" => copy \in [Slots -> Seq(Nat)]
    BY <2>2
  <2>5. entry = Null
    BY DEF Init
  <2>6. polls \in Seq(PollRec) /\ wants \subseteq Slots /\ halfway \subseteq Slots /\ overlapped \in BOOLEAN /\ cut \in BOOLEAN
    BY <2>1, EmptySeq
  <2> QED BY <1>1, <1>2, <1>3, <2>1, <2>3, <2>4, <2>5, <2>6 DEF FeedTypeOK
<1>5. SessionsExact /\ Served = {} /\ entry = Null /\ polls = <<>>
  BY DEF Init, SessionsExact, Sessions, Served
<1>6. CopyIsLast /\ DealsOK
  BY <1>5 DEF CopyIsLast, DealsOK
<1> QED BY <1>4, <1>5, <1>6 DEF FeedInv
------------------------------------------------------------------------------
(* Steps.                                                                   *)

LEMMA SameKind ==
  ASSUME kind' = kind
  PROVE  LastOf' = LastOf /\ EntryRec' = EntryRec /\ PollRec' = PollRec
  BY DEF LastOf, EntryRec, PollRec, AnswerOf

\* A client's copy stays right while it, the entry's last answer and who is half-way stay.
LEMMA SameCopy ==
  ASSUME NEW s, CopyRight(s), kind' = kind, entry'.last = entry.last, copy'[s] = copy[s],
         s \in halfway <=> s \in halfway'
  PROVE  CopyRight(s)'
<1>1. Latest(s)' = Latest(s) /\ Known' = Known
  BY DEF Latest, Known
<1>2. Untold(s) => Untold(s)'
  BY DEF Untold, NoLast
<1> QED BY <1>1, <1>2 DEF CopyRight

LEMMA ChangeFeed == ASSUME FeedInv, Change PROVE FeedInv'
<1>1. UNCHANGED <<kind, entry, polls, open, wants, halfway, copy, zombies, dropped, overlapped, cut>>
  BY DEF Change, clients
<1>2. source' \in IF kind = "depth" THEN Books ELSE Nat
  <2>1. CASE kind # "depth"
    BY <2>1 DEF Change, FeedInv, FeedTypeOK
  <2>2. CASE kind = "depth"
    <3>1. source \in Books
      BY <2>2 DEF FeedInv, FeedTypeOK
    <3>2. DOMAIN source \subseteq Prices /\ IsFiniteSet(DOMAIN source)
          /\ \A q \in DOMAIN source : source[q] \in Amounts
      BY <3>1, DepthsIs DEF Books
    <3>3. PICK p \in Prices :
            \/ \E a \in Amounts : source' = [q \in DOMAIN source \cup {p} |->
                                               IF q = p THEN a ELSE source[q]]
            \/ p \in DOMAIN source /\ source' = [q \in DOMAIN source \ {p} |-> source[q]]
      BY <2>2 DEF Change
    <3>4. IsFiniteSet(DOMAIN source \cup {p}) /\ IsFiniteSet(DOMAIN source \ {p})
      BY <3>2, FS_AddElement, FS_RemoveElement
    <3>5. CASE \E a \in Amounts : source' = [q \in DOMAIN source \cup {p} |->
                                               IF q = p THEN a ELSE source[q]]
      <4>1. PICK a \in Amounts : source' = [q \in DOMAIN source \cup {p} |->
                                              IF q = p THEN a ELSE source[q]]
        BY <3>5
      <4>2. /\ DOMAIN source' = DOMAIN source \cup {p} /\ DOMAIN source' \subseteq Prices
            /\ source' \in [DOMAIN source' -> Amounts]
        BY <4>1, <3>2
      <4> QED BY <4>2, <3>4, <2>2, DepthsIs DEF Books
    <3>6. CASE source' = [q \in DOMAIN source \ {p} |-> source[q]]
      <4>1. /\ DOMAIN source' = DOMAIN source \ {p} /\ DOMAIN source' \subseteq Prices
            /\ source' \in [DOMAIN source' -> Amounts]
        BY <3>6, <3>2
      <4> QED BY <4>1, <3>4, <2>2, DepthsIs DEF Books
    <3> QED BY <3>3, <3>5, <3>6
  <2> QED BY <2>1, <2>2
<1>3. FeedTypeOK'
  BY <1>1, <1>2, SameKind DEF FeedInv, FeedTypeOK
<1>4. SessionsExact' /\ CopyIsLast'
  BY <1>1, SameCopy DEF FeedInv, SessionsExact, Sessions, CopyIsLast, Served
<1>5. DealsOK'
  BY <1>1 DEF FeedInv, DealsOK, PollOK, ClientOK, Served
<1> QED BY <1>3, <1>4, <1>5 DEF FeedInv

\* Nothing the invariant is about has changed.
LEMMA SameFeed ==
  ASSUME FeedInv, UNCHANGED <<kind, source, entry, polls, wants, halfway, copy, zombies, dropped,
                              overlapped, cut>>
  PROVE  FeedInv'
<1>1. FeedTypeOK'
  BY SameKind DEF FeedInv, FeedTypeOK
<1>2. SessionsExact' /\ CopyIsLast'
  BY SameCopy DEF FeedInv, SessionsExact, Sessions, CopyIsLast, Served
<1>3. DealsOK'
  BY DEF FeedInv, DealsOK, PollOK, ClientOK, Served
<1> QED BY <1>1, <1>2, <1>3 DEF FeedInv

\* A session leaves, or stays in the entry as a zombie.
LEMMA LeaveStep ==
  ASSUME FeedInv, NEW s \in Slots, Left(s), UNCHANGED <<kind, source, polls, overlapped, cut>>,
         \/ entry' = Unsubscribed(s) /\ zombies' = zombies \ {s}
         \/ entry' = entry /\ zombies' = zombies \cup {s} /\ s \in Sessions
  PROVE  FeedInv'
<1>1. /\ Served' = Served \ {s}
      /\ wants' = wants \ {s} /\ halfway' = halfway \ {s}
      /\ copy' = [copy EXCEPT ![s] = NoLast]
  BY DEF Left, Served
<1>2. CASE entry = Null
  <2>1. entry' = Null
    BY <1>2 DEF Unsubscribed
  <2>2. Served = {} /\ zombies = {} /\ Sessions = {}
    BY <1>2 DEF FeedInv, SessionsExact, Served, Sessions
  <2>3. FeedTypeOK'
    <3>1. NoLast \in Seq(Nat) \/ kind # "deals"
      BY DEF NoLast
    <3> QED BY <1>1, <2>1, <3>1, SameKind DEF FeedInv, FeedTypeOK
  <2>4. SessionsExact' /\ Served' = {}
    <3>1. zombies' = {}
      BY <1>2, <2>2, <2>1
    <3>2. (wants \cap halfway = {})' /\ Served' = {}
      BY <1>1, <2>2 DEF FeedInv, SessionsExact
    <3> QED BY <2>1, <3>1, <3>2 DEF SessionsExact, Sessions
  <2>5. CopyIsLast' /\ DealsOK'
    BY <2>1, <2>4 DEF CopyIsLast, DealsOK, FeedInv, PollOK
  <2> QED BY <2>3, <2>4, <2>5 DEF FeedInv
<1>3. CASE entry # Null
  <2>1. entry \in EntryRec
    BY <1>3 DEF FeedInv, FeedTypeOK
  <2>2. /\ entry' \in EntryRec /\ entry' # Null /\ entry'.last = entry.last
        /\ entry'.sessions = IF s \in zombies' THEN entry.sessions ELSE entry.sessions \ {s}
    <3>1. CASE entry' = Unsubscribed(s) /\ zombies' = zombies \ {s}
      <4>1. entry' = [entry EXCEPT !.sessions = @ \ {s}]
        BY <3>1, <1>3 DEF Unsubscribed
      <4> QED BY <4>1, <3>1, <2>1, NullIsNoEntry DEF EntryRec
    <3>2. CASE entry' = entry /\ zombies' = zombies \cup {s}
      BY <3>2, <2>1, <1>3
    <3> QED BY <3>1, <3>2
  <2>3. FeedTypeOK'
    <3>1. NoLast \in Seq(Nat) \/ kind # "deals"
      BY DEF NoLast
    <3> QED BY <1>1, <2>2, <3>1, SameKind DEF FeedInv, FeedTypeOK
  <2>4. Sessions' = entry'.sessions /\ Sessions = entry.sessions
    BY <1>3, <2>2 DEF Sessions
  <2>5. SessionsExact'
    <3>1. entry.sessions = Served \cup zombies
      BY <2>4 DEF FeedInv, SessionsExact, Served
    <3>2. entry'.sessions = (Served \ {s}) \cup zombies'
      BY <3>1, <2>2, <2>4
    <3>3. (wants \cap halfway = {})'
      BY <1>1 DEF FeedInv, SessionsExact
    <3> QED BY <3>2, <3>3, <1>1, <2>4 DEF SessionsExact
  <2>6. \A t \in Served' : t \in Served /\ copy'[t] = copy[t] /\ (t \in halfway <=> t \in halfway')
    BY <1>1 DEF FeedInv, FeedTypeOK
  <2>7. CopyIsLast'
    BY <2>2, <2>6, SameCopy DEF FeedInv, CopyIsLast
  <2>8. DealsOK'
    <3>1. \A p : PollOK(p) => PollOK(p)'
      BY <2>2, <1>3 DEF PollOK
    <3>2. \A q : ClientOK(q) => ClientOK(q)'
      BY <2>2 DEF ClientOK
    <3>3. \A t \in Served' : t \in Served /\ copy'[t] = copy[t]
      BY <2>6
    <3> QED BY <2>2, <3>1, <3>2, <3>3, <1>3 DEF FeedInv, DealsOK
  <2> QED BY <2>3, <2>5, <2>7, <2>8 DEF FeedInv
<1> QED BY <1>2, <1>3

\* A session is put into the entry and sent what there is, or refused and sent nothing.
LEMMA SubscribeFeed ==
  ASSUME FeedInv, NEW s \in Slots, Subscribe(s) \/ SubscribeHalfway(s)
  PROVE  FeedInv'
<1> DEFINE had == IF entry = Null THEN [sessions |-> {}, last |-> NoLast] ELSE entry
<1>1. /\ UNCHANGED <<kind, source, polls, overlapped, cut>>
      /\ entry' = Subscribed(s)
      /\ dropped' = dropped \ {s} /\ zombies' = zombies \ {s}
      /\ \/ /\ wants' = wants \cup {s} /\ halfway' = halfway \ {s}
            /\ copy' = [copy EXCEPT ![s] = SentFirst(entry'.last)]
         \/ /\ wants' = wants \ {s} /\ halfway' = halfway \cup {s}
            /\ kind \in {"value", "state", "deals"}
            /\ copy' = [copy EXCEPT ![s] = NoLast]
  BY DEF Subscribe, SubscribeHalfway
<1>2. /\ had \in EntryRec /\ had.sessions = Sessions
      /\ entry' = [sessions |-> Sessions \cup {s}, last |-> had.last]
  <2>1. NoLast \in LastOf
    <3>1. <<>> \in Seq(Nat)
      OBVIOUS
    <3>2. CASE kind = "deals"
      BY <3>1, <3>2 DEF NoLast, LastOf
    <3>3. CASE kind # "deals"
      BY <3>3 DEF NoLast, LastOf
    <3> QED BY <3>2, <3>3
  <2>2. CASE entry = Null
    BY <1>1, <2>1, <2>2 DEF Subscribed, Sessions, EntryRec
  <2>3. CASE entry # Null
    <3>1. entry \in EntryRec /\ entry' = [entry EXCEPT !.sessions = @ \cup {s}]
      BY <1>1, <2>3 DEF Subscribed, FeedInv, FeedTypeOK
    <3> QED BY <2>3, <3>1 DEF Sessions, EntryRec
  <2> QED BY <2>2, <2>3
<1> HIDE DEF had
<1>3. entry' \in EntryRec /\ entry' # Null /\ entry'.last = had.last /\ entry'.sessions = Sessions \cup {s}
  BY <1>2, NullIsNoEntry DEF EntryRec
<1>4. /\ kind = "deals" /\ ~overlapped => Descends(had.last, cut)
      /\ kind = "deals" => had.last \in Seq(Nat)
      /\ entry # Null => had = entry
  <2>1. kind = "deals" => had.last \in Seq(Nat)
    BY <1>2 DEF EntryRec, LastOf
  <2>2. entry # Null => had = entry
    BY DEF had
  <2>3. entry = Null /\ kind = "deals" => had.last = <<>>
    BY DEF had, NoLast
  <2>4. Descends(<<>>, cut)
    BY DEF Descends
  <2> QED BY <2>1, <2>2, <2>3, <2>4 DEF FeedInv, DealsOK
<1>5. FeedTypeOK'
  <2>1. kind = "deals" => SentFirst(entry'.last) \in Seq(Nat)
    <3> SUFFICES ASSUME kind = "deals" PROVE Reverse(had.last) \in Seq(Nat)
      BY <1>3 DEF SentFirst
    <3> DEFINE q == had.last
    <3>1. q \in Seq(Nat)
      BY <1>4
    <3>2. Reverse(q) = [i \in 1..Len(q) |-> q[(Len(q) - i) + 1]]
      BY DEF Reverse
    <3> HIDE DEF q
    <3>3. \A i \in 1..Len(q) : q[(Len(q) - i) + 1] \in Nat
      BY <3>1
    <3>4. Reverse(q) \in Seq(Nat)
      BY <3>1, <3>2, <3>3
    <3> QED BY <3>4 DEF q
  <2>2. kind = "deals" => NoLast \in Seq(Nat)
    BY DEF NoLast
  <2>3. /\ DOMAIN copy' = Slots /\ copy' = [t \in Slots |-> copy'[t]]
        /\ kind = "deals" => copy' \in [Slots -> Seq(Nat)]
    <3>1. PICK v : copy' = [copy EXCEPT ![s] = v] /\ (kind = "deals" => v \in Seq(Nat))
      <4>1. CASE copy' = [copy EXCEPT ![s] = SentFirst(entry'.last)]
        BY <4>1, <2>1
      <4>2. CASE copy' = [copy EXCEPT ![s] = NoLast]
        BY <4>2, <2>2
      <4> QED BY <4>1, <4>2, <1>1
    <3>2. /\ DOMAIN copy = Slots /\ copy = [t \in Slots |-> copy[t]]
          /\ kind = "deals" => copy \in [Slots -> Seq(Nat)]
      BY DEF FeedInv, FeedTypeOK
    <3>3. DOMAIN copy' = Slots /\ copy' = [t \in Slots |-> copy'[t]]
      BY <3>1, <3>2
    <3>4. kind = "deals" => copy' \in [Slots -> Seq(Nat)]
      BY <3>1, <3>2
    <3> QED BY <3>3, <3>4
  <2>4. /\ wants' \subseteq Slots /\ halfway' \subseteq Slots
        /\ halfway' # {} => kind \in {"value", "state", "deals"}
    BY <1>1 DEF FeedInv, FeedTypeOK
  <2> QED BY <1>1, <1>3, <2>3, <2>4, SameKind DEF FeedInv, FeedTypeOK
<1>6. Sessions' = Sessions \cup {s} /\ Served' = Served \cup {s}
  BY <1>1, <1>3 DEF Sessions, Served
<1>7. SessionsExact'
  <2>1. Sessions = Served \cup zombies
    BY DEF FeedInv, SessionsExact, Served
  <2>2. Sessions' = Served' \cup zombies'
    BY <2>1, <1>1, <1>6
  <2>3. (wants \cap halfway = {})'
    BY <1>1 DEF FeedInv, SessionsExact
  <2> QED BY <2>2, <2>3 DEF SessionsExact
<1>8. \A t \in Served : entry # Null /\ entry'.last = entry.last
  <2>1. Served # {} => entry # Null
    BY DEF FeedInv, SessionsExact, Served, Sessions
  <2> QED BY <2>1, <1>3, <1>4
<1>9. /\ \A t \in Served' : t # s =>
           t \in Served /\ copy'[t] = copy[t] /\ (t \in halfway <=> t \in halfway')
      /\ \/ copy'[s] = SentFirst(entry'.last)
         \/ copy'[s] = NoLast /\ s \in halfway'
  <2>1. DOMAIN copy = Slots /\ Served' \subseteq Slots
    BY <1>5 DEF FeedInv, FeedTypeOK, Served
  <2>2. \A t \in Served' : t # s => t \in Served /\ (t \in halfway <=> t \in halfway')
    BY <1>1, <1>6
  <2>3. CASE copy' = [copy EXCEPT ![s] = SentFirst(entry'.last)]
    <3> DEFINE first == SentFirst(entry'.last)
    <3>1. copy' = [copy EXCEPT ![s] = first]
      BY <2>3
    <3> HIDE DEF first
    <3>2. copy'[s] = first /\ \A t \in Slots : t # s => copy'[t] = copy[t]
      BY <2>1, <3>1
    <3> QED BY <2>1, <2>2, <3>2 DEF first
  <2>4. CASE copy' = [copy EXCEPT ![s] = NoLast] /\ halfway' = halfway \cup {s}
    <3>1. copy'[s] = NoLast /\ \A t \in Slots : t # s => copy'[t] = copy[t]
      BY <2>1, <2>4
    <3> QED BY <2>1, <2>2, <2>4, <3>1
  <2> QED BY <1>1, <2>3, <2>4
\* What a client has of deals that is sent the list.
<1>10. LET q == had.last
       IN  kind = "deals" =>
             /\ Reverse(q) = <<>> <=> q = <<>>
             /\ Reverse(q) # <<>> => Reverse(q)[Len(Reverse(q))] = q[1]
  <2> DEFINE q == had.last
  <2> SUFFICES ASSUME kind = "deals"
               PROVE  /\ Reverse(q) = <<>> <=> q = <<>>
                      /\ Reverse(q) # <<>> => Reverse(q)[Len(Reverse(q))] = q[1]
    OBVIOUS
  <2>1. Reverse(q) = [i \in 1..Len(q) |-> q[(Len(q) - i) + 1]] /\ q \in Seq(Nat)
    BY <1>4 DEF Reverse
  <2> HIDE DEF q
  <2>2. Len(Reverse(q)) = Len(q) /\ Len(q) \in Nat /\ Reverse(q) \in Seq(Nat)
    <3>1. \A i \in 1..Len(q) : q[(Len(q) - i) + 1] \in Nat
      BY <2>1
    <3> QED BY <2>1, <3>1
  <2>3. Reverse(q) = <<>> <=> q = <<>>
    BY <2>1, <2>2
  <2>4. Reverse(q) # <<>> => Reverse(q)[Len(Reverse(q))] = q[1]
    <3> SUFFICES ASSUME Reverse(q) # <<>> PROVE Reverse(q)[Len(q)] = q[1]
      BY <2>2
    <3>1. Len(q) \in 1..Len(q) /\ (Len(q) - Len(q)) + 1 = 1
      BY <2>1, <2>2, <2>3
    <3> QED BY <3>1, <2>1
  <2> QED BY <2>3, <2>4
<1>12. CopyIsLast'
  <2>1. \A t \in Served' : t # s => CopyRight(t)'
    BY <1>1, <1>8, <1>9, SameCopy DEF FeedInv, CopyIsLast
  <2>2. CopyRight(s)'
    <3>1. CASE copy'[s] = NoLast /\ s \in halfway'
      BY <3>1, <1>1 DEF CopyRight, Untold, NoLast
    <3>2. CASE kind = "kline" /\ copy'[s] = SentFirst(entry'.last)
      BY <3>2, <1>1 DEF CopyRight, Untold, NoLast, SentFirst
    <3>3. CASE kind = "deals" /\ copy'[s] = SentFirst(entry'.last)
      <4> DEFINE q == had.last
      <4>1. /\ copy'[s] = Reverse(q) /\ entry'.last = q /\ kind' = "deals"
            /\ Reverse(q) = <<>> <=> q = <<>>
            /\ Reverse(q) # <<>> => Reverse(q)[Len(Reverse(q))] = q[1]
        BY <3>3, <1>1, <1>3, <1>10 DEF SentFirst
      <4> HIDE DEF q
      <4>2. Latest(s)' = (IF Reverse(q) = <<>> THEN Reverse(q) ELSE <<Reverse(q)[Len(Reverse(q))]>>)
        BY <4>1 DEF Latest, Last
      <4>3. Known' = (IF q = <<>> THEN q ELSE <<q[1]>>)
        BY <4>1 DEF Known, Head
      <4> QED BY <4>1, <4>2, <4>3 DEF CopyRight
    <3>4. CASE kind \notin {"kline", "deals"} /\ copy'[s] = SentFirst(entry'.last)
      BY <3>4, <1>1 DEF CopyRight, Latest, Known, SentFirst
    <3> QED BY <1>9, <3>1, <3>2, <3>3, <3>4
  <2> QED BY <2>1, <2>2 DEF CopyIsLast
<1>11. DealsOK'
  <2> SUFFICES ASSUME kind = "deals", ~overlapped
               PROVE  /\ Len(polls) <= 1
                      /\ polls # <<>> => PollOK(polls[1])'
                      /\ Descends(entry'.last, cut)
                      /\ \A t \in Served' : ClientOK(copy[t])'
    BY <1>1 DEF DealsOK
  <2>1. Len(polls) <= 1 /\ Descends(entry'.last, cut)
    BY <1>3, <1>4 DEF FeedInv, DealsOK
  <2>2. polls # <<>> => PollOK(polls[1])'
    <3>1. entry'.last # <<>> => entry # Null /\ entry'.last = entry.last
      <4>1. entry = Null => had.last = <<>>
        BY DEF had, NoLast
      <4> QED BY <4>1, <1>3, <1>4
    <3>2. polls # <<>> => PollOK(polls[1])
      BY DEF FeedInv, DealsOK
    <3> QED BY <3>1, <3>2, <1>1 DEF PollOK
  <2>3. \A t \in Served : t # s => ClientOK(copy[t])'
    <3>1. \A t \in Served : ClientOK(copy[t])
      BY DEF FeedInv, DealsOK
    <3> QED BY <3>1, <1>1, <1>8, <1>6, <1>9 DEF ClientOK
  <2>4. ClientOK(copy[s])'
    <3> DEFINE q == had.last
    <3>1. CASE copy'[s] = NoLast
      BY <3>1, <1>1 DEF NoLast, ClientOK, Ascends
    <3>2. CASE copy'[s] = SentFirst(entry'.last)
      <4>1. /\ q \in Seq(Nat) /\ Descends(q, cut) /\ copy'[s] = Reverse(q) /\ entry'.last = q
            /\ Reverse(q) = <<>> <=> q = <<>>
            /\ Reverse(q) # <<>> => Reverse(q)[Len(Reverse(q))] = q[1]
        BY <3>2, <1>3, <1>4, <1>10 DEF SentFirst
      <4> HIDE DEF q
      <4>2. Ascends(Reverse(q), cut)
        BY <4>1, ReverseIs
      <4> QED BY <4>1, <4>2, <1>1 DEF ClientOK
    <3> QED BY <1>9, <3>1, <3>2
  <2> QED BY <2>1, <2>2, <2>3, <2>4, <1>9
<1> QED BY <1>5, <1>7, <1>12, <1>11 DEF FeedInv

LEMMA TimerFeed == ASSUME FeedInv, on_timer PROVE FeedInv'
<1>1. UNCHANGED <<kind, source, wants, halfway, copy, zombies, dropped, cut>> /\ entry # Null
  BY DEF on_timer, clients
<1>2. entry \in EntryRec
  BY <1>1 DEF FeedInv, FeedTypeOK
<1>3. CASE entry.sessions = {}
  <2>1. entry' = Null /\ polls' = polls /\ overlapped' = overlapped
    BY <1>3 DEF on_timer
  <2>2. FeedTypeOK'
    BY <1>1, <2>1, SameKind DEF FeedInv, FeedTypeOK
  <2>3. Sessions = {} /\ Sessions' = {} /\ Served = {} /\ Served' = {} /\ zombies = {}
    BY <1>1, <1>3, <2>1 DEF FeedInv, SessionsExact, Sessions, Served
  <2>4. SessionsExact' /\ CopyIsLast'
    BY <1>1, <2>3 DEF FeedInv, SessionsExact, CopyIsLast
  <2>5. DealsOK'
    BY <1>1, <2>1, <2>3 DEF FeedInv, DealsOK, PollOK
  <2> QED BY <2>2, <2>4, <2>5 DEF FeedInv
<1>4. CASE entry.sessions # {}
  <2> DEFINE p == [after |-> LastId, answer |-> Null]
  <2>1. /\ entry' = entry /\ polls' = Append(polls, p)
        /\ overlapped' = (overlapped \/ (kind = "deals" /\ polls # <<>>))
    BY <1>4 DEF on_timer
  <2>2. LastId \in Nat
    <3> SUFFICES ASSUME kind = "deals", entry.last # <<>> PROVE entry.last[1] \in Nat
      BY DEF LastId
    <3>1. entry.last \in Seq(Nat)
      BY <1>2 DEF EntryRec, LastOf
    <3> QED BY <3>1
  <2>3. p \in PollRec
    BY <2>2 DEF PollRec
  <2>4. polls \in Seq(PollRec) /\ polls' \in Seq(PollRec)
    <3> HIDE DEF p
    <3> QED BY <2>1, <2>3 DEF FeedInv, FeedTypeOK
  <2>5. FeedTypeOK'
    BY <1>1, <2>1, <2>4, SameKind DEF FeedInv, FeedTypeOK
  <2>6. SessionsExact' /\ CopyIsLast'
    BY <1>1, <2>1, SameCopy DEF FeedInv, SessionsExact, Sessions, CopyIsLast, Served
  <2>7. DealsOK'
    <3> SUFFICES ASSUME kind = "deals", ~overlapped, polls = <<>>
                 PROVE  /\ Len(polls') <= 1
                        /\ PollOK(polls[1])'
                        /\ Descends(entry.last, cut)
                        /\ \A t \in Served : ClientOK(copy[t])'
      BY <1>1, <2>1 DEF DealsOK, Served
    <3>1. polls' = <<p>> /\ Len(polls') = 1 /\ polls'[1] = p
      <4> HIDE DEF p
      <4> QED BY <2>1
    <3>2. PollOK(polls[1])'
      <4>1. p.answer = Null /\ (entry.last # <<>> => p.after = entry.last[1])
        BY DEF LastId
      <4> HIDE DEF p
      <4> QED BY <4>1, <3>1, <2>1 DEF PollOK
    <3>3. Descends(entry.last, cut) /\ \A t \in Served : ClientOK(copy[t])
      BY <1>1 DEF FeedInv, DealsOK
    <3>4. \A t \in Served : ClientOK(copy[t])'
      BY <3>3, <1>1, <2>1 DEF ClientOK
    <3> QED BY <3>1, <3>2, <3>3, <3>4
  <2> QED BY <2>5, <2>6, <2>7 DEF FeedInv
<1> QED BY <1>3, <1>4

\* What the polls are about is no longer awaited, and the entry may go with it.
LEMMA PollGone ==
  ASSUME FeedInv, polls # <<>>, polls' = Tail(polls),
         UNCHANGED <<kind, source, wants, copy, overlapped, cut>>,
         \/ UNCHANGED <<entry, zombies, halfway, dropped>>
         \/ entry' = Null /\ zombies' = {} /\ halfway' = {}
            /\ dropped' = dropped \cup (Sessions \cap wants)
  PROVE  FeedInv'
<1>1. /\ polls \in Seq(PollRec) /\ polls' \in Seq(PollRec)
      /\ Len(polls) <= 1 => polls' = <<>> /\ Len(polls') <= 1
  BY DEF FeedInv, FeedTypeOK
<1>2. FeedTypeOK'
  BY <1>1, SameKind DEF FeedInv, FeedTypeOK
<1>3. CASE UNCHANGED <<entry, zombies, halfway, dropped>>
  <2>1. SessionsExact' /\ CopyIsLast'
    BY <1>3, SameCopy DEF FeedInv, SessionsExact, Sessions, CopyIsLast, Served
  <2>2. DealsOK'
    BY <1>1, <1>3 DEF FeedInv, DealsOK, ClientOK, Served
  <2> QED BY <1>2, <2>1, <2>2 DEF FeedInv
<1>4. CASE entry' = Null /\ zombies' = {} /\ halfway' = {} /\ dropped' = dropped \cup (Sessions \cap wants)
  <2>1. Sessions' = {} /\ Served' = {}
    <3>1. Served \subseteq Sessions
      BY DEF FeedInv, SessionsExact, Served
    <3> QED BY <3>1, <1>4 DEF Sessions, Served
  <2>2. SessionsExact' /\ CopyIsLast'
    BY <2>1, <1>4 DEF SessionsExact, CopyIsLast
  <2>3. DealsOK'
    BY <1>1, <1>4, <2>1 DEF FeedInv, DealsOK
  <2> QED BY <1>2, <2>2, <2>3 DEF FeedInv
<1> QED BY <1>3, <1>4

LEMMA AnswerFeed == ASSUME FeedInv, Answer PROVE FeedInv'
<1>1. UNCHANGED <<kind, source, entry, wants, halfway, copy, zombies, dropped, overlapped>>
  BY DEF Answer, clients
<1>2. polls \in Seq(PollRec) /\ (kind # "depth" => source \in Nat)
  BY DEF FeedInv, FeedTypeOK
<1>3. PICK i \in DOMAIN polls :
        LET after == polls[i].after
            ids   == [k \in 1..(source - after) |-> source + 1 - k]
        IN  /\ polls' = [polls EXCEPT ![i].answer =
                   CASE kind = "depth" -> Top(source)
                     [] kind = "deals" -> Newest(ids)
                     [] OTHER          -> source]
            /\ cut' = (cut \/ (kind = "deals" /\ source - after > Limit))
  BY DEF Answer
<1> DEFINE after  == polls[i].after
           ids    == [k \in 1..(source - after) |-> source + 1 - k]
           answer == CASE kind = "depth" -> Top(source)
                       [] kind = "deals" -> Newest(ids)
                       [] OTHER          -> source
<1>4. polls' = [polls EXCEPT ![i].answer = answer] /\ cut' = (cut \/ (kind = "deals" /\ source - after > Limit))
  BY <1>3
<1>5. after \in Nat /\ polls[i] \in PollRec
  <2>1. polls[i] \in PollRec
    <3> HIDE DEF PollRec
    <3> QED BY <1>2
  <2> QED BY <2>1 DEF PollRec
<1>6. kind = "deals" =>
        /\ ids \in Seq(Nat) /\ Descends(ids, cut')
        /\ Len(ids) = IF source > after THEN source - after ELSE 0
        /\ \A k \in 1..Len(ids) : ids[k] = source + 1 - k /\ ids[k] > after
  <2> SUFFICES ASSUME kind = "deals"
               PROVE  /\ ids \in Seq(Nat) /\ Descends(ids, cut')
                      /\ Len(ids) = IF source > after THEN source - after ELSE 0
                      /\ \A k \in 1..Len(ids) : ids[k] = source + 1 - k /\ ids[k] > after
    OBVIOUS
  <2> HIDE DEF after
  <2> DEFINE n == IF source > after THEN source - after ELSE 0
  <2>1. n \in Nat /\ source \in Nat /\ 1..(source - after) = 1..n
    BY <1>2, <1>5
  <2>2. ids = [k \in 1..n |-> source + 1 - k] /\ \A k \in 1..n : source + 1 - k \in Nat /\ source + 1 - k > after
    BY <2>1, <1>5
  <2> HIDE DEF n, ids
  <2>3. ids \in Seq(Nat) /\ Len(ids) = n /\ \A k \in 1..n : ids[k] = source + 1 - k
    BY <2>1, <2>2
  <2>4. Descends(ids, cut')
    BY <2>1, <2>3 DEF Descends
  <2> QED BY <2>2, <2>3, <2>4 DEF n
<1> HIDE DEF ids, after
<1>7. kind = "deals" =>
        /\ answer \in Seq(Nat) /\ Descends(answer, cut')
        /\ \A k \in 1..Len(answer) : answer[k] > after
        /\ answer # <<>> /\ ~cut' => answer[Len(answer)] = after + 1
  <2> SUFFICES ASSUME kind = "deals"
               PROVE  /\ Newest(ids) \in Seq(Nat) /\ Descends(Newest(ids), cut')
                      /\ \A k \in 1..Len(Newest(ids)) : Newest(ids)[k] > after
                      /\ Newest(ids) # <<>> /\ ~cut' => Newest(ids)[Len(Newest(ids))] = after + 1
    OBVIOUS
  <2>1. /\ Newest(ids) \in Seq(Nat) /\ Descends(Newest(ids), cut')
        /\ Len(Newest(ids)) = (IF Len(ids) < Limit THEN Len(ids) ELSE Limit)
        /\ \A k \in 1..Len(Newest(ids)) : Newest(ids)[k] = ids[k]
        /\ Newest(ids) = <<>> <=> ids = <<>>
    BY <1>6, NewestIs
  <2>2. Len(ids) \in Nat /\ Limit \in Nat \ {0} /\ source \in Nat
    BY <1>2, <1>6, FeedAssumption
  <2>3. \A k \in 1..Len(Newest(ids)) : Newest(ids)[k] > after
    <3>1. \A k \in 1..Len(Newest(ids)) : k \in 1..Len(ids)
      BY <2>1, <2>2
    <3> QED BY <3>1, <2>1, <1>6
  <2>4. ASSUME Newest(ids) # <<>>, ~cut' PROVE Newest(ids)[Len(Newest(ids))] = after + 1
    <3>1. ~(source - after > Limit)
      BY <2>4, <1>4
    <3>2. Len(ids) # 0
      BY <2>1, <2>4, <1>6
    <3>3. Len(ids) = source - after
      BY <3>2, <1>6
    <3>4. Len(Newest(ids)) = Len(ids) /\ Len(ids) \in 1..Len(ids)
      BY <2>1, <2>2, <3>1, <3>2, <3>3
    <3>5. Newest(ids)[Len(ids)] = source + 1 - Len(ids)
      BY <2>1, <3>4, <1>6
    <3> QED BY <3>3, <3>4, <3>5, <2>2, <1>5
  <2> QED BY <2>1, <2>3, <2>4
<1>8. answer \in AnswerOf
  <2>1. CASE kind = "depth"
    <3>1. source \in Books
      BY <2>1 DEF FeedInv, FeedTypeOK
    <3>2. answer = Top(source)
      BY <2>1
    <3> QED BY <2>1, <3>1, <3>2, TopType DEF AnswerOf
  <2>2. CASE kind = "deals"
    <3> HIDE DEF answer
    <3> QED BY <2>2, <1>7 DEF AnswerOf
  <2>3. CASE kind # "depth" /\ kind # "deals"
    BY <2>3, <1>2 DEF AnswerOf
  <2> QED BY <2>1, <2>2, <2>3
<1> HIDE DEF answer
<1>9. /\ polls' \in Seq(PollRec) /\ Len(polls') = Len(polls)
      /\ polls'[i] = [after |-> after, answer |-> answer]
  <2>1. [polls[i] EXCEPT !.answer = answer] = [after |-> after, answer |-> answer]
    BY <1>5 DEF PollRec, after
  <2>2. [after |-> after, answer |-> answer] \in PollRec
    BY <1>5, <1>8 DEF PollRec
  <2>3. polls' = [polls EXCEPT ![i] = [after |-> after, answer |-> answer]]
    BY <1>4, <2>1
  <2> QED BY <1>2, <2>2, <2>3
<1>10. FeedTypeOK'
  <2>1. cut' \in BOOLEAN
    BY <1>4 DEF FeedInv, FeedTypeOK
  <2> QED BY <1>1, <1>9, <2>1, SameKind DEF FeedInv, FeedTypeOK
<1>11. SessionsExact' /\ CopyIsLast'
  BY <1>1, SameCopy DEF FeedInv, SessionsExact, Sessions, CopyIsLast, Served
<1>12. DealsOK'
  <2> SUFFICES ASSUME kind = "deals", ~overlapped
               PROVE  /\ Len(polls') <= 1
                      /\ polls' # <<>> => PollOK(polls[1])'
                      /\ entry # Null => Descends(entry.last, cut')
                      /\ \A t \in Served : ClientOK(copy[t])'
    BY <1>1 DEF DealsOK, Served
  <2>1. cut => cut'
    BY <1>4
  <2>2. i = 1 /\ Len(polls') <= 1 /\ polls # <<>>
    BY <1>2, <1>9 DEF FeedInv, DealsOK
  <2>3. PollOK(polls[1])'
    <3>1. polls'[1] = [after |-> after, answer |-> answer] /\ after = polls[1].after /\ PollOK(polls[1])
      BY <2>2, <1>9 DEF FeedInv, DealsOK, after
    <3> QED BY <3>1, <1>1, <1>7 DEF PollOK
  <2>4. entry # Null => Descends(entry.last, cut')
    BY <2>1 DEF FeedInv, DealsOK, Descends
  <2>5. \A t \in Served : ClientOK(copy[t])'
    BY <2>1, <1>1 DEF FeedInv, DealsOK, ClientOK, Ascends
  <2> QED BY <2>2, <2>3, <2>4, <2>5
<1> QED BY <1>10, <1>11, <1>12 DEF FeedInv

\* Everybody who is served has been told the same, which is the last one now.
LEMMA TellStep ==
  ASSUME FeedInv, kind # "deals", entry # Null, NEW a \in AnswerOf,
         polls # <<>>, polls' = Tail(polls), entry' = [entry EXCEPT !.last = a],
         UNCHANGED <<kind, source, wants, halfway, zombies, dropped, overlapped, cut>>,
         NEW told, copy' = [s \in Slots |-> told[s]],
         \A s \in Served : told[s] = a
  PROVE  FeedInv'
<1>1. entry \in EntryRec /\ a \in LastOf
  BY DEF FeedInv, FeedTypeOK, LastOf, AnswerOf
<1>2. /\ entry' \in EntryRec /\ entry' # Null
      /\ entry'.last = a /\ entry'.sessions = entry.sessions
  <2>1. entry' \in EntryRec
    <3> HIDE DEF LastOf
    <3> QED BY <1>1 DEF EntryRec
  <2>2. entry'.last = a /\ entry'.sessions = entry.sessions
    BY <1>1 DEF EntryRec
  <2> QED BY <2>1, <2>2, NullIsNoEntry
<1>3. polls' \in Seq(PollRec)
  BY DEF FeedInv, FeedTypeOK
<1>4. DOMAIN copy' = Slots /\ copy' = [s \in Slots |-> copy'[s]]
  OBVIOUS
<1>5. FeedTypeOK'
  BY <1>2, <1>3, <1>4, SameKind DEF FeedInv, FeedTypeOK
<1>6. SessionsExact' /\ Served' = Served
  BY <1>2 DEF FeedInv, SessionsExact, Sessions, Served
<1>7. CopyIsLast'
  <2>1. \A s \in Served : s \in Slots /\ copy'[s] = entry'.last
    BY <1>2 DEF FeedInv, FeedTypeOK, Served
  <2>2. \A s \in Served : Latest(s)' = Known'
    BY <2>1 DEF Latest, Known
  <2> QED BY <2>2, <1>6 DEF CopyIsLast, CopyRight
<1>8. DealsOK'
  BY DEF DealsOK
<1> QED BY <1>5, <1>6, <1>7, <1>8 DEF FeedInv

LEMMA ListsType ==
  ASSUME NEW q \in Seq(Nat)
  PROVE  Newest(q) \in Seq(Nat) /\ Reverse(q) \in Seq(Nat)
<1>1. Reverse(q) \in Seq(Nat)
  <2>1. Reverse(q) = [i \in 1..Len(q) |-> q[(Len(q) - i) + 1]]
    BY DEF Reverse
  <2>2. Len(q) \in Nat /\ \A i \in 1..Len(q) : q[(Len(q) - i) + 1] \in Nat
    OBVIOUS
  <2> QED BY <2>1, <2>2
<1>2. Newest(q) \in Seq(Nat)
  <2> DEFINE n == IF Len(q) < Limit THEN Len(q) ELSE Limit
  <2>1. n \in 0..Len(q) /\ Newest(q) = SubSeq(q, 1, n)
    BY FeedAssumption DEF Newest
  <2> HIDE DEF n
  <2> QED BY <2>1
<1> QED BY <1>1, <1>2

\* New deals go to the front of the list and to the end of what clients have.
LEMMA DealsStep ==
  ASSUME FeedInv, kind = "deals", entry # Null, polls # <<>>, polls' = Tail(polls),
         NEW a, a = polls[1].answer, a # Null, a # <<>>,
         entry' = [entry EXCEPT !.last = Newest(a \o @)],
         copy' = Told([s \in Slots |-> copy[s] \o Reverse(a)]),
         UNCHANGED <<kind, source, wants, halfway, zombies, dropped, overlapped, cut>>
  PROVE  FeedInv'
<1>1. /\ entry \in EntryRec /\ entry.last \in Seq(Nat) /\ a \in Seq(Nat) /\ Reverse(a) \in Seq(Nat)
      /\ copy \in [Slots -> Seq(Nat)] /\ polls \in Seq(PollRec)
  <2>1. entry \in EntryRec /\ polls \in Seq(PollRec) /\ copy \in [Slots -> Seq(Nat)]
    BY DEF FeedInv, FeedTypeOK
  <2>2. polls[1] \in PollRec
    <3> HIDE DEF PollRec
    <3> QED BY <2>1
  <2>3. a \in Seq(Nat)
    BY <2>2 DEF PollRec, AnswerOf
  <2>4. entry.last \in Seq(Nat)
    BY <2>1 DEF EntryRec, LastOf
  <2> QED BY <2>1, <2>3, <2>4, ListsType
<1>2. Newest(a \o entry.last) \in Seq(Nat)
  <2>1. a \o entry.last \in Seq(Nat)
    BY <1>1
  <2> QED BY <2>1, ListsType
<1>3. /\ entry' \in EntryRec /\ entry' # Null /\ entry'.sessions = entry.sessions
      /\ entry'.last = Newest(a \o entry.last)
  <2>1. Newest(a \o entry.last) \in LastOf
    BY <1>2 DEF LastOf
  <2>2. entry'.last = Newest(a \o entry.last) /\ entry'.sessions = entry.sessions
    BY <1>1 DEF EntryRec
  <2>3. entry' \in EntryRec
    <3> HIDE DEF LastOf
    <3> QED BY <2>1, <1>1 DEF EntryRec
  <2> QED BY <2>2, <2>3, NullIsNoEntry
<1>4. copy' \in [Slots -> Seq(Nat)]
  <2>1. \A s \in Slots : copy[s] \in Seq(Nat) /\ copy[s] \o Reverse(a) \in Seq(Nat)
    <3> SUFFICES ASSUME NEW s \in Slots PROVE copy[s] \in Seq(Nat) /\ copy[s] \o Reverse(a) \in Seq(Nat)
      OBVIOUS
    <3>1. copy[s] \in Seq(Nat)
      BY <1>1
    <3> QED BY <3>1, <1>1
  <2> QED BY <2>1 DEF Told
<1>5. /\ polls' \in Seq(PollRec)
      /\ Len(polls) <= 1 => polls' = <<>> /\ Len(polls') <= 1
  BY <1>1
<1>6. FeedTypeOK'
  <2>1. DOMAIN copy' = Slots /\ copy' = [s \in Slots |-> copy'[s]]
    BY <1>4
  <2> QED BY <1>3, <1>4, <1>5, <2>1, SameKind DEF FeedInv, FeedTypeOK
<1>7. SessionsExact' /\ Served' = Served
  BY <1>3 DEF FeedInv, SessionsExact, Sessions, Served
<1>8. \A t \in Served : t \in Slots /\ copy'[t] = copy[t] \o Reverse(a)
  <2>1. Served \subseteq Slots /\ Served \subseteq entry.sessions \cap (wants \cup halfway)
    BY DEF FeedInv, FeedTypeOK, SessionsExact, Sessions, Served
  <2> QED BY <2>1 DEF Told
<1>9. ASSUME ~overlapped
      PROVE  /\ Len(polls') <= 1 /\ polls' = <<>>
             /\ Descends(entry'.last, cut)
             /\ \A t \in Served : ClientOK(copy[t])'
  <2> DEFINE last == entry.last
  <2>1. Len(polls) <= 1 /\ PollOK(polls[1]) /\ Descends(last, cut) /\ \A t \in Served : ClientOK(copy[t])
    BY <1>9 DEF FeedInv, DealsOK
  <2>2. /\ Descends(a, cut) /\ Len(a) \in Nat \ {0} /\ a[1] \in Nat /\ a[Len(a)] \in Nat
        /\ last # <<>> => a[Len(a)] > last[1] /\ (~cut => a[Len(a)] = last[1] + 1)
    <3>1. Len(a) \in 1..Len(a) /\ Len(a) \in Nat \ {0} /\ a[1] \in Nat /\ a[Len(a)] \in Nat
      BY <1>1
    <3> QED BY <3>1, <2>1 DEF PollOK
  <2>3. last \in Seq(Nat) /\ entry'.last = Newest(a \o last)
    BY <1>1, <1>3
  <2> HIDE DEF last
  <2>4. a \o last \in Seq(Nat) /\ Descends(a \o last, cut)
    BY <2>1, <2>2, <2>3, <1>1, JoinDescends
  <2>5. a \o last # <<>> /\ (a \o last)[1] = a[1]
    BY <2>2, <2>3, <1>1
  <2>6. Descends(entry'.last, cut) /\ entry'.last # <<>> /\ entry'.last[1] = a[1]
    <3> DEFINE q == a \o last
    <3>1. q \in Seq(Nat) /\ Descends(q, cut) /\ q # <<>> /\ q[1] = a[1]
      BY <2>4, <2>5
    <3> HIDE DEF q
    <3>2. /\ Newest(q) \in Seq(Nat) /\ Descends(Newest(q), cut) /\ Newest(q) # <<>>
          /\ \A i \in 1..Len(Newest(q)) : Newest(q)[i] = q[i]
      BY <3>1, NewestIs
    <3>3. 1 \in 1..Len(Newest(q))
      BY <3>2
    <3>4. Newest(q) = entry'.last
      BY <2>3 DEF q
    <3> QED BY <3>1, <3>2, <3>3, <3>4
  <2>7. /\ Reverse(a) \in Seq(Nat) /\ Len(Reverse(a)) = Len(a) /\ Ascends(Reverse(a), cut)
        /\ Reverse(a)[1] = a[Len(a)] /\ Reverse(a)[Len(a)] = a[1] /\ Reverse(a) # <<>>
    <3>1. /\ Len(Reverse(a)) = Len(a) /\ Ascends(Reverse(a), cut)
          /\ \A i \in 1..Len(a) : Reverse(a)[i] = a[(Len(a) - i) + 1]
      BY <1>1, <2>2, ReverseIs
    <3>2. 1 \in 1..Len(a) /\ Len(a) \in 1..Len(a) /\ (Len(a) - 1) + 1 = Len(a) /\ (Len(a) - Len(a)) + 1 = 1
      BY <2>2
    <3>3. Reverse(a)[1] = a[Len(a)] /\ Reverse(a)[Len(a)] = a[1]
      BY <3>1, <3>2
    <3> QED BY <3>1, <3>3, <1>1, <2>2
  <2>8. ASSUME NEW t \in Served PROVE ClientOK(copy[t])'
    <3> DEFINE c == copy[t]
               r == Reverse(a)
    <3>1. c \in Seq(Nat) /\ ClientOK(c) /\ copy'[t] = c \o r
      BY <1>1, <1>8, <2>1
    <3>2. r \in Seq(Nat) /\ Ascends(r, cut) /\ r # <<>> /\ Len(r) = Len(a) /\ r[1] = a[Len(a)] /\ r[Len(r)] = a[1]
      BY <2>7
    <3> HIDE DEF c, r
    <3>3. Ascends(c, cut) /\ (c # <<>> => last # <<>> /\ c[Len(c)] = last[1])
      BY <3>1 DEF ClientOK, last
    <3>4. c # <<>> => c[Len(c)] < r[1] /\ (~cut => r[1] = c[Len(c)] + 1)
      <4>1. last # <<>> => last[1] \in Nat
        BY <2>3
      <4> QED BY <4>1, <3>2, <3>3, <2>2
    <3>5. c \o r \in Seq(Nat) /\ Ascends(c \o r, cut)
      BY <3>1, <3>2, <3>3, <3>4, JoinAscends
    <3>6. c \o r # <<>> /\ (c \o r)[Len(c \o r)] = r[Len(r)]
      BY <3>1, <3>2
    <3> QED BY <3>1, <3>2, <3>5, <3>6, <2>6 DEF ClientOK
  <2> QED BY <2>1, <2>6, <2>8, <1>5
<1>10. DealsOK'
  BY <1>3, <1>7, <1>9 DEF DealsOK
<1>11. CopyIsLast'
  <2> SUFFICES ASSUME NEW t \in Served PROVE Latest(t)' = Known'
    BY <1>7 DEF CopyIsLast, CopyRight
  <2> DEFINE c == copy[t]
             r == Reverse(a)
             q == a \o entry.last
  <2>1. c \in Seq(Nat) /\ copy'[t] = c \o r
    BY <1>1, <1>8
  <2>2. Len(a) \in Nat \ {0} /\ r \in Seq(Nat) /\ Len(r) = Len(a) /\ r[Len(r)] = a[1]
    <3>1. r = [i \in 1..Len(a) |-> a[(Len(a) - i) + 1]]
      BY DEF Reverse
    <3>2. Len(a) \in Nat \ {0} /\ Len(a) \in 1..Len(a) /\ (Len(a) - Len(a)) + 1 = 1
      BY <1>1
    <3> HIDE DEF r
    <3>3. r \in Seq(Nat)
      BY <1>1 DEF r
    <3>4. Len(r) = Len(a) /\ r[Len(a)] = a[1]
      BY <3>1, <3>2
    <3> QED BY <3>2, <3>3, <3>4
  <2>3. q \in Seq(Nat) /\ q # <<>> /\ q[1] = a[1]
    <3>1. a \in Seq(Nat) /\ entry.last \in Seq(Nat) /\ a # <<>>
      BY <1>1
    <3> QED BY <3>1, ConcatHead
  <2>4. Newest(q) # <<>> /\ Newest(q)[1] = a[1]
    <3> DEFINE n == IF Len(q) < Limit THEN Len(q) ELSE Limit
    <3> HIDE DEF q
    <3>1. n \in 1..Len(q) /\ Newest(q) = SubSeq(q, 1, n)
      BY <2>3, FeedAssumption DEF Newest
    <3> HIDE DEF n
    <3> QED BY <2>3, <3>1
  <2>5. entry'.last = Newest(q)
    BY <1>3
  <2> HIDE DEF c, r, q
  <2>6. c \o r # <<>> /\ (c \o r)[Len(c \o r)] = a[1]
    BY <2>1, <2>2
  <2>7. Latest(t)' = <<a[1]>>
    BY <2>1, <2>6 DEF Latest, Last
  <2>8. Known' = <<a[1]>>
    BY <2>4, <2>5 DEF Known, Head
  <2> QED BY <2>7, <2>8
<1> QED BY <1>6, <1>7, <1>10, <1>11 DEF FeedInv

LEMMA ReplyFeed == ASSUME FeedInv, on_reply PROVE FeedInv'
<1> DEFINE a == polls[1].answer
<1>1. /\ polls # <<>> /\ a # Null /\ polls' = Tail(polls)
      /\ UNCHANGED <<kind, source, wants, halfway, zombies, dropped, overlapped, cut>>
  BY DEF on_reply
<1>2. CASE UNCHANGED <<entry, copy>>
  BY <1>1, <1>2, PollGone
<1>3. CASE entry # Null /\ ~UNCHANGED <<entry, copy>>
  <2>1. a \in AnswerOf /\ entry \in EntryRec /\ Served \subseteq Slots
        /\ Served \subseteq entry.sessions \cap (wants \cup halfway)
    <3>1. polls \in Seq(PollRec) /\ entry \in EntryRec /\ Served \subseteq Slots
      BY <1>3 DEF FeedInv, FeedTypeOK, Served
    <3>2. polls[1] \in PollRec
      <4> HIDE DEF PollRec
      <4> QED BY <3>1, <1>1
    <3>3. Served \subseteq entry.sessions \cap (wants \cup halfway)
      BY <1>3 DEF FeedInv, SessionsExact, Sessions, Served
    <3> QED BY <3>1, <3>2, <3>3, <1>1 DEF PollRec
  <2>2. CASE kind = "deals"
    <3>1. DealsReply(a)
      BY <1>3, <2>2 DEF on_reply
    <3>2. /\ a # <<>>
          /\ entry' = [entry EXCEPT !.last = Newest(a \o @)]
          /\ copy' = Told([s \in Slots |-> copy[s] \o Reverse(a)])
      BY <3>1, <1>3 DEF DealsReply
    <3> HIDE DEF a
    <3> QED BY <1>1, <1>3, <2>2, <3>2, DealsStep DEF a
  <2>3. CASE kind # "depth" /\ kind # "deals"
    <3>1. ValueReply(a)
      BY <1>3, <2>3 DEF on_reply
    <3>2. entry' = [entry EXCEPT !.last = a] /\ copy' = Told([s \in Slots |-> a])
      BY <3>1, <1>3 DEF ValueReply
    <3> DEFINE told == [s \in Slots |-> IF s \in entry.sessions \cap (wants \cup halfway) THEN a ELSE copy[s]]
    <3>3. copy' = [s \in Slots |-> told[s]] /\ \A s \in Served : told[s] = a
      BY <3>2, <2>1 DEF Told
    <3> HIDE DEF a, told
    <3> QED BY <1>1, <1>3, <2>1, <2>3, <3>2, <3>3, TellStep
  <2>4. CASE kind = "depth"
    <3>1. DepthReply(a)
      BY <1>3, <2>4 DEF on_reply
    <3>2. /\ entry' = [entry EXCEPT !.last = a]
          /\ \/ copy' = Told([s \in Slots |-> a])
             \/ /\ entry.last # Null
                /\ copy' = Told([s \in Slots |-> Applied(copy[s], Diff(entry.last, a))])
      BY <3>1, <1>3 DEF DepthReply
    <3>3. CASE copy' = Told([s \in Slots |-> a])
      <4> DEFINE told == [s \in Slots |-> IF s \in entry.sessions \cap (wants \cup halfway) THEN a ELSE copy[s]]
      <4>1. copy' = [s \in Slots |-> told[s]] /\ \A s \in Served : told[s] = a
        BY <3>3, <2>1 DEF Told
      <4> HIDE DEF a, told
      <4> QED BY <1>1, <1>3, <2>1, <2>4, <3>2, <4>1, TellStep
    <3>4. CASE /\ entry.last # Null
               /\ copy' = Told([s \in Slots |-> Applied(copy[s], Diff(entry.last, a))])
      <4> DEFINE told == [s \in Slots |-> IF s \in entry.sessions \cap (wants \cup halfway)
                                          THEN Applied(copy[s], Diff(entry.last, a)) ELSE copy[s]]
      <4>1. entry.last \in TopDepths /\ a \in TopDepths
        BY <3>4, <2>1, <2>4 DEF EntryRec, LastOf, AnswerOf
      <4>2. Applied(entry.last, Diff(entry.last, a)) = a
        BY <4>1, DiffRestores
      <4>3. \A s \in Served : copy[s] = entry.last
        BY <2>4 DEF FeedInv, CopyIsLast, CopyRight, Untold, Latest, Known, FeedTypeOK
      <4>4. copy' = [s \in Slots |-> told[s]] /\ \A s \in Served : told[s] = a
        BY <3>4, <2>1, <4>2, <4>3 DEF Told
      <4> HIDE DEF a, told
      <4> QED BY <1>1, <1>3, <2>1, <2>4, <3>2, <4>4, TellStep
    <3> QED BY <3>2, <3>3, <3>4
  <2> QED BY <2>2, <2>3, <2>4
<1> QED BY <1>2, <1>3 DEF on_reply

LEMMA NextFeed == ASSUME FeedInv, [Next]_vars PROVE FeedInv'
<1>1. ASSUME Change PROVE FeedInv'
  BY <1>1, ChangeFeed
<1>2. ASSUME on_timer PROVE FeedInv'
  BY <1>2, TimerFeed
<1>3. ASSUME Answer PROVE FeedInv'
  BY <1>3, AnswerFeed
<1>4. ASSUME on_reply PROVE FeedInv'
  BY <1>4, ReplyFeed
<1>5. ASSUME on_error_reply PROVE FeedInv'
  BY <1>5, PollGone DEF on_error_reply
<1>6. ASSUME on_timeout PROVE FeedInv'
  BY <1>6, PollGone DEF on_timeout, clients
<1>7. ASSUME NEW s \in Slots, on_upgrade(s) PROVE FeedInv'
  BY <1>7, SameFeed DEF on_upgrade
<1>8. ASSUME NEW s \in Slots, Subscribe(s) \/ SubscribeHalfway(s) PROVE FeedInv'
  BY <1>8, SubscribeFeed
<1>9. ASSUME NEW s \in Slots, Unsubscribe(s) PROVE FeedInv'
  BY <1>9, LeaveStep DEF Unsubscribe
<1>10. ASSUME NEW s \in Slots, on_close(s) PROVE FeedInv'
  BY <1>10, LeaveStep DEF on_close
<1>11. ASSUME UNCHANGED vars PROVE FeedInv'
  BY <1>11, SameFeed DEF vars, clients
<1> QED
  BY <1>1, <1>2, <1>3, <1>4, <1>5, <1>6, <1>7, <1>8, <1>9, <1>10, <1>11 DEF Next, Work

LEMMA FeedAlways == Spec => []FeedInv
  BY InitFeed, NextFeed, PTL DEF Spec

\* A topic tells who is subscribed and nobody else, whatever sessions, polls, errors and
\* timeouts there are: the entry has the sessions that subscribed since, without
\* those an error took out, and with ended ones that could not be taken out
\* (price_subscribe and its like, on_close, on_backend_recv_pkg).
THEOREM SessionsAlwaysExact == Spec => []SessionsExact
<1>1. FeedInv => SessionsExact
  BY DEF FeedInv
<1> QED BY <1>1, FeedAlways, PTL

\* What a subscribed client holds is the last answer: a value, a depth put together from
\* differences (get_list_diff), or deals in order, none twice and none left out
\* while polls do not overlap (on_order_deals_reply).
THEOREM CopiesAlwaysRight == Spec => []CopiesRight
<1>1. FeedInv => CopiesRight
  <2> SUFFICES ASSUME FeedInv PROVE CopyIsLast /\ DealsOnce
    BY DEF CopiesRight
  <2>1. DealsOnce
    BY DEF FeedInv, DealsOK, ClientOK, Ascends, DealsOnce
  <2> QED BY <2>1 DEF FeedInv
<1> QED BY <1>1, FeedAlways, PTL
==============================================================================
