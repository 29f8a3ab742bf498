---------------------------- MODULE AccessWsProofs ----------------------------
(***************************************************************************)
(* Proofs about accessws, for any number of users, connections, topics,     *)
(* requests and faults.  Its subscriptions (AccessWs): the lists of orders  *)
(* and assets are what clients subscribed to, and whoever is subscribed     *)
(* knows the last change or will be told of it, by the inductive invariant  *)
(* AccessInv.  Then its queries (Queries): an answer goes to whoever asked, *)
(* is about what was asked, and is as recent as it should be, by the        *)
(* inductive invariant QueriesInv.                                          *)
(*                                                                         *)
(* The two models are of one process and share no more than the names of    *)
(* its sessions: no theorem is about both.                                  *)
(***************************************************************************)
EXTENDS AccessWsProps, FiniteSets, Functions, SumLemmas, SequenceTheorems

\* What Queries has that AccessWs has not.
CONSTANTS Questions, Null, BadParams, CacheTimeout, ServiceTimeout, BackendTimeout
VARIABLES entries, backend_cache, dict_cache, connected, wire, replies, asked, answers

Q == INSTANCE Queries

------------------------------------------------------------------------------
(* The invariant of subscriptions.                                          *)

Unit(s, t) == [ses |-> s, topic |-> t]
Units(ch)    == [ses : Slots, topic : Topics[ch] \cup {All}]
Messages(ch) == [user : Users, topic : Topics[ch], version : Nat]
Asks(ch)     == [user : Users, topic : Topics[ch], since : Nat]
Logins       == [kind : {"auth", "sign"}, ses : Slots, ses_id : Nat \ {0}]

\* Tables that are as they should be.
TablesOK ==
  /\ ses \in [Slots -> [id : Nat, user : Users \cup {None}]] /\ id_start \in Nat \ {0}
  /\ logins \in Seq(Logins)
  /\ dict_sub = [ch \in Channels |-> dict_sub[ch]] /\ kafka = [ch \in Channels |-> kafka[ch]]
  /\ queries = [ch \in Channels |-> queries[ch]] /\ version = [ch \in Channels |-> version[ch]]
  /\ \A ch \in Channels :
       /\ dict_sub[ch] \in [Users -> Seq(Units(ch))]
       /\ kafka[ch] \in Seq(Messages(ch)) /\ queries[ch] \in Seq(Asks(ch))
       /\ version[ch] \in [Users -> [Topics[ch] -> Nat]]

ClientsOK ==
  /\ wants \in [Slots -> [Channels -> SUBSET UNION {Topics[ch] \cup {All} : ch \in Channels}]]
  /\ copy = [s \in Slots |-> [ch \in Channels |-> copy[s][ch]]]
  /\ \A s \in Slots, ch \in Channels :
       wants[s][ch] \subseteq Topics[ch] \cup {All} /\ copy[s][ch] \in [Topics[ch] -> Nat]

InList(s, t, ch, u) == Unit(s, t) \in ToSet(dict_sub[ch][u])

\* Nobody is logged in where nobody is connected, or has subscribed where nobody is
\* logged in.
Idle(s) ==
  /\ ses[s].id = 0 => ses[s].user = None
  /\ ses[s].user = None => \A ch \in Channels : wants[s][ch] = {}

\* What a client subscribed to is in the list.
Listed(s) ==
  ses[s].user # None =>
    \A ch \in Channels : \A t \in wants[s][ch] : InList(s, t, ch, ses[s].user)

\* No more than that is in the lists of orders and assets.
Members(s) ==
  \A ch \in {"order", "asset"}, u \in Users : \A t \in Topics[ch] \cup {All} :
    InList(s, t, ch, u) => ses[s].user = u /\ t \in wants[s][ch]

\* A client that is logged in, in nobody else's list, and subscribed.
Live(s, ch, t) == ses[s].user # None /\ ~Zombie(s, ch) /\ Subscribed(s, ch, t)

\* It knows no change that never was, and is told of the last one.
InformedAt(s, ch, t) ==
  Live(s, ch, t) =>
    LET u == ses[s].user
    IN  /\ copy[s][ch][t] <= version[ch][u][t]
        /\ copy[s][ch][t] # version[ch][u][t] => Coming(ch, u, t) \/ Key(ch, u, t) \in lost

Informed(s) == \A ch \in Channels : \A t \in Topics[ch] : InformedAt(s, ch, t)

\* No message is about what never was.
Published ==
  \A m \in ToSet(kafka["order"]) : m.version <= version["order"][m.user][m.topic]

SessionOK(s) == Idle(s) /\ Listed(s) /\ Members(s) /\ Informed(s)

AccessInv == TablesOK /\ ClientsOK /\ Published /\ \A s \in Slots : SessionOK(s)

------------------------------------------------------------------------------
(* Folds over lists.                                                        *)

\* What Without does with a unit of a list.
Remain(l, s, n) == IF n.ses = s THEN l ELSE Append(l, n)

\* The function Without takes a value of, and the lists it goes through.
RemainRecurs(g, s, list) ==
  g = [T \in SUBSET DOMAIN list |->
         IF T = {} THEN <<>> ELSE Remain(g[T \ {Max(T)}], s, list[Max(T)])]

RemainRan(v, U, s, list) ==
  \E h \in [0..Len(list) -> Seq(U)] :
    /\ h[0] = <<>>
    /\ \A i \in 1..Len(list) : h[i] = Remain(h[i - 1], s, list[i])
    /\ v = h[Len(list)]

\* Without, as the library defines folds.
LEMMA WithoutDefinition ==
  ASSUME NEW s, NEW list
  PROVE  Without(list, s) = (CHOOSE g : RemainRecurs(g, s, list))[DOMAIN list]
  BY DEF Without, FoldLeft, MapThenFoldSet, RemainRecurs, Remain

\* Without goes through lists of units.
LEMMA WithoutRuns ==
  ASSUME NEW U, NEW s, NEW list \in Seq(U)
  PROVE  RemainRan(Without(list, s), U, s, list)
<1> DEFINE M == Seq(U)
           step == [x \in M \X U |-> Remain(x[1], s, x[2])]
           c == CHOOSE g : RemainRecurs(g, s, list)
<1>0. <<>> \in M /\ \A l \in M, n \in U : Remain(l, s, n) \in M
  BY DEF Remain
<1>1. step \in [M \X U -> M] /\ \A l \in M, n \in U : step[<<l, n>>] = Remain(l, s, n)
  BY <1>0
<1>11. list \in Seq(U)
  OBVIOUS
<1> HIDE DEF step, M
<1>2. PICK g \in [SUBSET DOMAIN list -> M] : FoldsUp(g, step, <<>>, list, DOMAIN list)
  BY <1>0, <1>1, FoldExists
<1>3. RemainRecurs(g, s, list)
  <2>1. ASSUME NEW T \in SUBSET DOMAIN list
        PROVE  g[T] = IF T = {} THEN <<>> ELSE Remain(g[T \ {Max(T)}], s, list[Max(T)])
    <3>1. CASE T = {}
      BY <3>1, <1>2 DEF FoldsUp
    <3>2. CASE T # {}
      <4>1. list[Max(T)] \in U /\ T \ {Max(T)} \in SUBSET DOMAIN list
        BY <3>2, MaxOfPlaces
      <4>2. g[T \ {Max(T)}] \in M
        BY <4>1, <1>2
      <4>3. g[T] = step[<<g[T \ {Max(T)}], list[Max(T)]>>]
        BY <3>2, <1>2 DEF FoldsUp
      <4> QED BY <3>2, <4>1, <4>2, <4>3, <1>1
    <3> QED BY <3>1, <3>2
  <2>2. DOMAIN g = SUBSET DOMAIN list
    BY <1>2
  <2> QED BY <2>1, <2>2, <1>2 DEF RemainRecurs
<1>4. RemainRecurs(c, s, list)
  BY <1>3
<1>5. Without(list, s) = c[DOMAIN list]
  BY WithoutDefinition
<1> HIDE DEF c
<1>6. c[{}] = <<>>
  BY <1>4 DEF RemainRecurs
<1>7. ASSUME NEW T \in SUBSET DOMAIN list, T # {}, c[T \ {Max(T)}] \in M
      PROVE  c[T] = step[<<c[T \ {Max(T)}], list[Max(T)]>>]
  <2>1. list[Max(T)] \in U /\ T \ {Max(T)} \in SUBSET DOMAIN list
    BY <1>7, MaxOfPlaces
  <2>2. c[T] = Remain(c[T \ {Max(T)}], s, list[Max(T)])
    BY <1>4, <1>7 DEF RemainRecurs
  <2> QED BY <2>1, <2>2, <1>1, <1>7
<1>8. PICK h \in [0..Len(list) -> M] :
        /\ h[0] = <<>>
        /\ \A i \in 1..Len(list) : h[i] = step[<<h[i - 1], list[i]>>]
        /\ c[DOMAIN list] = h[Len(list)]
  <2>1. FoldsUpIn(c, M, step, <<>>, list)
    BY <1>6, <1>7 DEF FoldsUpIn
  <2>2. Traced(c[DOMAIN list], M, step, <<>>, list)
    BY <1>0, <1>1, <2>1, FoldRuns, Zenon
  <2> QED BY <2>2 DEF Traced
<1>9. ASSUME NEW i \in 1..Len(list) PROVE h[i] = Remain(h[i - 1], s, list[i])
  <2>1. i - 1 \in 0..Len(list) /\ list[i] \in U
    BY <1>11
  <2> QED BY <2>1, <1>1, <1>8
<1> QED BY <1>5, <1>8, <1>9 DEF RemainRan, M

\* The elements of a list one longer.
LEMMA ElementsAppend ==
  ASSUME NEW U, NEW l \in Seq(U), NEW x
  PROVE  ToSet(Append(l, x)) = ToSet(l) \cup {x}
<1>1. /\ Len(l) \in Nat /\ DOMAIN l = 1..Len(l) /\ DOMAIN Append(l, x) = 1..(Len(l) + 1)
      /\ \A i \in 1..Len(l) : Append(l, x)[i] = l[i]
      /\ Append(l, x)[Len(l) + 1] = x
  OBVIOUS
<1> DEFINE n == Len(l)
           m == Append(l, x)
<1>2. /\ n \in Nat /\ DOMAIN l = 1..n /\ DOMAIN m = 1..(n + 1)
      /\ (\A i \in 1..n : m[i] = l[i]) /\ m[n + 1] = x
  BY <1>1
<1> HIDE DEF n, m
<1>3. \A i \in 1..(n + 1) : i \in 1..n \/ i = n + 1
  BY <1>2
<1>4. n + 1 \in 1..(n + 1) /\ \A i \in 1..n : i \in 1..(n + 1)
  BY <1>2
<1>5. ToSet(m) = ToSet(l) \cup {x}
  BY <1>2, <1>3, <1>4 DEF ToSet
<1> QED BY <1>5 DEF m

\* The first n elements of a list.
Begin(list, n) == {list[i] : i \in 1..n}

\* Without leaves what is not the session's, and nothing else.
LEMMA WithoutIs ==
  ASSUME NEW U, NEW s, NEW list \in Seq(U)
  PROVE  /\ Without(list, s) \in Seq(U)
         /\ ToSet(Without(list, s)) = {n \in ToSet(list) : n.ses # s}
<1> DEFINE k == Len(list)
<1>0. k \in Nat /\ DOMAIN list = 1..k /\ \A i \in 1..k : list[i] \in U
  OBVIOUS
<1>1. PICK h \in [0..k -> Seq(U)] :
        /\ h[0] = <<>>
        /\ \A i \in 1..k : h[i] = Remain(h[i - 1], s, list[i])
        /\ Without(list, s) = h[k]
  <2>1. RemainRan(Without(list, s), U, s, list)
    BY WithoutRuns
  <2> QED BY <2>1 DEF RemainRan
<1> HIDE DEF k
<1> DEFINE Good == {i \in 0..k : ToSet(h[i]) = {n \in Begin(list, i) : n.ses # s}}
<1>2. 0 \in Good
  <2>1. ToSet(h[0]) = {} /\ Begin(list, 0) = {}
    BY <1>1 DEF ToSet, Begin
  <2> QED BY <2>1, <1>0
<1>3. ASSUME NEW i \in 0..(k - 1), i \in Good PROVE i + 1 \in Good
  <2> DEFINE j == i + 1
             x == list[j]
  <2>1. j \in 1..k /\ j - 1 = i /\ j \in 0..k /\ i \in 0..k
    BY <1>0
  <2>2. h[j] = Remain(h[i], s, x) /\ h[i] \in Seq(U)
    BY <1>1, <2>1
  <2>3. Begin(list, j) = Begin(list, i) \cup {x}
    <3>1. \A a \in 1..j : a \in 1..i \/ a = j
      BY <2>1
    <3>2. j \in 1..j /\ \A a \in 1..i : a \in 1..j
      BY <2>1
    <3> HIDE DEF j
    <3> QED BY <3>1, <3>2 DEF Begin
  <2>4. ToSet(h[i]) = {n \in Begin(list, i) : n.ses # s}
    BY <1>3
  <2> HIDE DEF j, x, Good
  <2>5. ToSet(h[j]) = {n \in Begin(list, j) : n.ses # s}
    <3>1. CASE x.ses = s
      BY <3>1, <2>2, <2>3, <2>4 DEF Remain
    <3>2. CASE x.ses # s
      <4>1. ToSet(h[j]) = ToSet(h[i]) \cup {x}
        BY <3>2, <2>2, ElementsAppend DEF Remain
      <4> QED BY <4>1, <3>2, <2>3, <2>4
    <3> QED BY <3>1, <3>2
  <2> QED BY <2>1, <2>5 DEF Good, j
<1>4. k \in Good
  <2> HIDE DEF Good
  <2>1. \A i \in 0..k : i \in Good
    BY <1>0, <1>2, <1>3, CountUp
  <2> QED BY <2>1, <1>0
<1>5. Begin(list, k) = ToSet(list)
  BY <1>0 DEF Begin, ToSet
<1>6. k \in 0..k
  BY <1>0
<1> QED BY <1>1, <1>4, <1>5, <1>6

\* What Added does at a place.
AddStep(l, s, topics, K, i) == IF i \in K THEN Append(l, [ses |-> s, topic |-> topics[i]]) ELSE l

\* The function Added takes a value of, and the lists it goes through.
AddRecurs(g, list, s, topics, K, places) ==
  g = [T \in SUBSET DOMAIN places |->
         IF T = {} THEN list ELSE AddStep(g[T \ {Max(T)}], s, topics, K, places[Max(T)])]

AddRan(v, U, list, s, topics, K, places) ==
  \E h \in [0..Len(places) -> Seq(U)] :
    /\ h[0] = list
    /\ \A i \in 1..Len(places) : h[i] = AddStep(h[i - 1], s, topics, K, places[i])
    /\ v = h[Len(places)]

\* Added, as the library defines folds.
LEMMA AddedDefinition ==
  ASSUME NEW list, NEW s, NEW topics, NEW K, NEW places, places = [i \in DOMAIN topics |-> i]
  PROVE  Added(list, s, topics, K) =
           (CHOOSE g : AddRecurs(g, list, s, topics, K, places))[DOMAIN places]
  BY DEF Added, FoldLeft, MapThenFoldSet, AddRecurs, AddStep

\* Added goes through lists of units.
LEMMA AddedRuns ==
  ASSUME NEW U, NEW list \in Seq(U), NEW s, NEW topics, NEW K, NEW E, NEW places \in Seq(E),
         \A i \in E : [ses |-> s, topic |-> topics[i]] \in U
  PROVE  AddRan((CHOOSE g : AddRecurs(g, list, s, topics, K, places))[DOMAIN places],
                U, list, s, topics, K, places)
<1> DEFINE M == Seq(U)
           step == [x \in M \X E |-> AddStep(x[1], s, topics, K, x[2])]
           c == CHOOSE g : AddRecurs(g, list, s, topics, K, places)
<1>0. list \in M /\ \A l \in M, i \in E : AddStep(l, s, topics, K, i) \in M
  BY DEF AddStep
<1>1. step \in [M \X E -> M] /\ \A l \in M, i \in E : step[<<l, i>>] = AddStep(l, s, topics, K, i)
  BY <1>0
<1> HIDE DEF step, M
<1>2. PICK g \in [SUBSET DOMAIN places -> M] : FoldsUp(g, step, list, places, DOMAIN places)
  BY <1>0, <1>1, FoldExists
<1>3. AddRecurs(g, list, s, topics, K, places)
  <2>1. ASSUME NEW T \in SUBSET DOMAIN places
        PROVE  g[T] = IF T = {} THEN list
                      ELSE AddStep(g[T \ {Max(T)}], s, topics, K, places[Max(T)])
    <3>1. CASE T = {}
      BY <3>1, <1>2 DEF FoldsUp
    <3>2. CASE T # {}
      <4>1. places[Max(T)] \in E /\ T \ {Max(T)} \in SUBSET DOMAIN places
        BY <3>2, MaxOfPlaces
      <4>2. g[T \ {Max(T)}] \in M
        BY <4>1, <1>2
      <4>3. g[T] = step[<<g[T \ {Max(T)}], places[Max(T)]>>]
        BY <3>2, <1>2 DEF FoldsUp
      <4> QED BY <3>2, <4>1, <4>2, <4>3, <1>1
    <3> QED BY <3>1, <3>2
  <2>2. DOMAIN g = SUBSET DOMAIN places
    BY <1>2
  <2> QED BY <2>1, <2>2, <1>2 DEF AddRecurs
<1>4. AddRecurs(c, list, s, topics, K, places)
  BY <1>3
<1> HIDE DEF c
<1>6. c[{}] = list
  BY <1>4 DEF AddRecurs
<1>7. ASSUME NEW T \in SUBSET DOMAIN places, T # {}, c[T \ {Max(T)}] \in M
      PROVE  c[T] = step[<<c[T \ {Max(T)}], places[Max(T)]>>]
  <2>1. places[Max(T)] \in E /\ T \ {Max(T)} \in SUBSET DOMAIN places
    BY <1>7, MaxOfPlaces
  <2>2. c[T] = AddStep(c[T \ {Max(T)}], s, topics, K, places[Max(T)])
    BY <1>4, <1>7 DEF AddRecurs
  <2> QED BY <2>1, <2>2, <1>1, <1>7
<1>8. PICK h \in [0..Len(places) -> M] :
        /\ h[0] = list
        /\ \A i \in 1..Len(places) : h[i] = step[<<h[i - 1], places[i]>>]
        /\ c[DOMAIN places] = h[Len(places)]
  <2>1. FoldsUpIn(c, M, step, list, places)
    BY <1>6, <1>7 DEF FoldsUpIn
  <2>2. Traced(c[DOMAIN places], M, step, list, places)
    BY <1>0, <1>1, <2>1, FoldRuns, Zenon
  <2> QED BY <2>2 DEF Traced
<1>9. ASSUME NEW i \in 1..Len(places) PROVE h[i] = AddStep(h[i - 1], s, topics, K, places[i])
  <2>1. i - 1 \in 0..Len(places) /\ places[i] \in E
    OBVIOUS
  <2> QED BY <2>1, <1>1, <1>8
<1> QED BY <1>8, <1>9 DEF AddRan, M, c

\* Added leaves what there was and puts in the topics at the places K.
LEMMA AddedIs ==
  ASSUME NEW U, NEW list \in Seq(U), NEW s, NEW topics, NEW V, topics \in Seq(V),
         NEW K \in SUBSET DOMAIN topics,
         \A i \in DOMAIN topics : [ses |-> s, topic |-> topics[i]] \in U
  PROVE  /\ Added(list, s, topics, K) \in Seq(U)
         /\ ToSet(Added(list, s, topics, K)) =
              ToSet(list) \cup {[ses |-> s, topic |-> topics[i]] : i \in K}
<1> DEFINE k == Len(topics)
           places == [i \in DOMAIN topics |-> i]
           E == DOMAIN topics
<1>0. k \in Nat /\ DOMAIN topics = 1..k
  OBVIOUS
<1>1. /\ places \in Seq(E) /\ Len(places) = k /\ DOMAIN places = 1..k
      /\ \A i \in 1..k : places[i] = i
  BY <1>0
<1> HIDE DEF k, places
<1>2. AddRan((CHOOSE g : AddRecurs(g, list, s, topics, K, places))[DOMAIN places],
             U, list, s, topics, K, places)
  BY <1>1, AddedRuns
<1>3. Added(list, s, topics, K) = (CHOOSE g : AddRecurs(g, list, s, topics, K, places))[DOMAIN places]
  BY AddedDefinition DEF places
<1>4. PICK h \in [0..k -> Seq(U)] :
        /\ h[0] = list
        /\ \A i \in 1..k : h[i] = AddStep(h[i - 1], s, topics, K, i)
        /\ Added(list, s, topics, K) = h[k]
  BY <1>1, <1>2, <1>3 DEF AddRan
<1> DEFINE new(i) == {[ses |-> s, topic |-> topics[j]] : j \in K \cap (1..i)}
           Good == {i \in 0..k : ToSet(h[i]) = ToSet(list) \cup new(i)}
<1>5. 0 \in Good
  <2>1. new(0) = {}
    OBVIOUS
  <2> HIDE DEF new
  <2> QED BY <2>1, <1>0, <1>4
<1>6. ASSUME NEW i \in 0..(k - 1), i \in Good PROVE i + 1 \in Good
  <2> DEFINE j == i + 1
             x == [ses |-> s, topic |-> topics[j]]
  <2>1. j \in 1..k /\ j - 1 = i /\ j \in 0..k /\ i \in 0..k
    BY <1>0
  <2>2. h[j] = AddStep(h[i], s, topics, K, j) /\ h[i] \in Seq(U)
    BY <1>4, <2>1
  <2>3. new(j) = IF j \in K THEN new(i) \cup {x} ELSE new(i)
    <3>1. \A a : a \in 1..j <=> a \in 1..i \/ a = j
      BY <2>1
    <3> HIDE DEF j
    <3> QED BY <3>1
  <2>4. ToSet(h[i]) = ToSet(list) \cup new(i)
    BY <1>6
  <2>5. j \in K => ToSet(Append(h[i], x)) = ToSet(h[i]) \cup {x}
    BY <2>2, ElementsAppend
  <2>6. AddStep(h[i], s, topics, K, j) = IF j \in K THEN Append(h[i], x) ELSE h[i]
    BY DEF AddStep
  <2> HIDE DEF j, x, Good, new
  <2>7. ToSet(h[j]) = ToSet(list) \cup new(j)
    BY <2>2, <2>3, <2>4, <2>5, <2>6
  <2> QED BY <2>1, <2>7 DEF Good, j
<1>7. k \in Good
  <2> HIDE DEF Good
  <2>1. \A i \in 0..k : i \in Good
    BY <1>0, <1>5, <1>6, CountUp
  <2> QED BY <2>1, <1>0
<1>8. new(k) = {[ses |-> s, topic |-> topics[i]] : i \in K}
  BY <1>0
<1>9. k \in 0..k
  BY <1>0
<1> HIDE DEF new
<1> QED BY <1>4, <1>7, <1>8, <1>9

------------------------------------------------------------------------------
(* Queries.                                                                 *)

QueryTables == {qs \in [Channels -> UNION {Seq(Asks(ch)) : ch \in Channels}] :
                  \A ch \in Channels : qs[ch] \in Seq(Asks(ch))}

Ask(ch, user, topic) == [user |-> user, topic |-> topic, since |-> version[ch][user][topic]]

\* All that is in a table is in the other.
Within(qs, rs) == \A ch \in Channels : ToSet(qs[ch]) \subseteq ToSet(rs[ch])

\* on_update keeps the queries there are and adds one if somebody is subscribed.
LEMMA OnUpdateIs ==
  ASSUME TablesOK, NEW qs \in QueryTables, NEW ch \in Channels, NEW user \in Users,
         NEW topic \in Topics[ch]
  PROVE  /\ on_update(qs, ch, user, topic) \in QueryTables
         /\ Within(qs, on_update(qs, ch, user, topic))
         /\ Hits(dict_sub[ch][user], topic) # {} =>
              Ask(ch, user, topic) \in ToSet(on_update(qs, ch, user, topic)[ch])
<1> DEFINE x == Ask(ch, user, topic)
           rs == [qs EXCEPT ![ch] = Append(@, x)]
<1>1. version[ch][user][topic] \in Nat
  BY DEF TablesOK
<1>2. x \in Asks(ch)
  BY <1>1 DEF Ask, Asks
<1>3. /\ qs \in [Channels -> UNION {Seq(Asks(c)) : c \in Channels}]
      /\ \A c \in Channels : qs[c] \in Seq(Asks(c))
  BY DEF QueryTables
<1>4. on_update(qs, ch, user, topic) = IF Hits(dict_sub[ch][user], topic) = {} THEN qs ELSE rs
  BY DEF on_update, Ask
<1> HIDE DEF x
<1>5. /\ DOMAIN rs = Channels /\ rs = [c \in Channels |-> rs[c]]
      /\ rs[ch] = Append(qs[ch], x) /\ \A c \in Channels \ {ch} : rs[c] = qs[c]
  BY <1>3
<1>6. rs[ch] \in Seq(Asks(ch)) /\ ToSet(rs[ch]) = ToSet(qs[ch]) \cup {x}
  BY <1>2, <1>3, <1>5, ElementsAppend
<1> HIDE DEF rs
<1>7. \A c \in Channels : rs[c] \in Seq(Asks(c))
  BY <1>3, <1>5, <1>6
<1>8. rs \in QueryTables
  <2>1. \A c \in Channels : rs[c] \in UNION {Seq(Asks(d)) : d \in Channels}
    BY <1>7
  <2>2. rs \in [Channels -> UNION {Seq(Asks(d)) : d \in Channels}]
    BY <2>1, <1>5
  <2> QED BY <2>2, <1>7 DEF QueryTables
<1>9. Within(qs, rs) /\ Within(qs, qs)
  <2>1. \A c \in Channels : ToSet(qs[c]) \subseteq ToSet(rs[c])
    <3> SUFFICES ASSUME NEW c \in Channels PROVE ToSet(qs[c]) \subseteq ToSet(rs[c])
      OBVIOUS
    <3>1. CASE c = ch
      BY <3>1, <1>6
    <3>2. CASE c # ch
      BY <3>2, <1>5
    <3> QED BY <3>1, <3>2
  <2> QED BY <2>1 DEF Within
<1> QED BY <1>4, <1>6, <1>8, <1>9 DEF x

\* The function AskedAll takes a value of, and the tables it goes through.
AskRecurs(g, user, assets) ==
  g = [T \in SUBSET DOMAIN assets |->
         IF T = {} THEN queries ELSE on_update(g[T \ {Max(T)}], "asset", user, assets[Max(T)])]

AskRan(v, user, assets) ==
  \E h \in [0..Len(assets) -> QueryTables] :
    /\ h[0] = queries
    /\ \A i \in 1..Len(assets) : h[i] = on_update(h[i - 1], "asset", user, assets[i])
    /\ v = h[Len(assets)]

\* AskedAll, as the library defines folds.
LEMMA AskedDefinition ==
  ASSUME NEW user, NEW assets
  PROVE  AskedAll(user, assets) = (CHOOSE g : AskRecurs(g, user, assets))[DOMAIN assets]
  BY DEF AskedAll, FoldLeft, MapThenFoldSet, AskRecurs

\* AskedAll goes through tables of queries.
LEMMA AskedRuns ==
  ASSUME TablesOK, NEW user \in Users, NEW assets \in Seq(Topics["asset"])
  PROVE  AskRan(AskedAll(user, assets), user, assets)
<1> DEFINE M == QueryTables
           E == Topics["asset"]
           step == [x \in M \X E |-> on_update(x[1], "asset", user, x[2])]
           c == CHOOSE g : AskRecurs(g, user, assets)
<1>0. queries \in M /\ \A qs \in M, a \in E : on_update(qs, "asset", user, a) \in M
  <2>1. "asset" \in Channels
    BY DEF Channels
  <2>2. /\ queries = [ch \in Channels |-> queries[ch]]
        /\ \A ch \in Channels : queries[ch] \in Seq(Asks(ch))
    BY DEF TablesOK
  <2>3. queries \in [Channels -> UNION {Seq(Asks(ch)) : ch \in Channels}]
    BY <2>2
  <2>4. queries \in M
    BY <2>2, <2>3 DEF QueryTables
  <2> QED BY <2>1, <2>4, OnUpdateIs
<1>1. /\ step \in [M \X E -> M]
      /\ \A qs \in M, a \in E : step[<<qs, a>>] = on_update(qs, "asset", user, a)
  BY <1>0
<1>11. assets \in Seq(E)
  OBVIOUS
<1> HIDE DEF step, M, E
<1>2. PICK g \in [SUBSET DOMAIN assets -> M] : FoldsUp(g, step, queries, assets, DOMAIN assets)
  BY <1>0, <1>1, <1>11, FoldExists
<1>3. AskRecurs(g, user, assets)
  <2>1. ASSUME NEW T \in SUBSET DOMAIN assets
        PROVE  g[T] = IF T = {} THEN queries
                      ELSE on_update(g[T \ {Max(T)}], "asset", user, assets[Max(T)])
    <3>1. CASE T = {}
      BY <3>1, <1>2 DEF FoldsUp
    <3>2. CASE T # {}
      <4>1. assets[Max(T)] \in E /\ T \ {Max(T)} \in SUBSET DOMAIN assets
        BY <3>2, <1>11, MaxOfPlaces
      <4>2. g[T \ {Max(T)}] \in M
        BY <4>1, <1>2
      <4>3. g[T] = step[<<g[T \ {Max(T)}], assets[Max(T)]>>]
        BY <3>2, <1>2 DEF FoldsUp
      <4> QED BY <3>2, <4>1, <4>2, <4>3, <1>1
    <3> QED BY <3>1, <3>2
  <2>2. DOMAIN g = SUBSET DOMAIN assets
    BY <1>2
  <2> QED BY <2>1, <2>2, <1>2 DEF AskRecurs
<1>4. AskRecurs(c, user, assets)
  BY <1>3
<1>5. AskedAll(user, assets) = c[DOMAIN assets]
  BY AskedDefinition
<1> HIDE DEF c
<1>6. c[{}] = queries
  BY <1>4 DEF AskRecurs
<1>7. ASSUME NEW T \in SUBSET DOMAIN assets, T # {}, c[T \ {Max(T)}] \in M
      PROVE  c[T] = step[<<c[T \ {Max(T)}], assets[Max(T)]>>]
  <2>1. assets[Max(T)] \in E /\ T \ {Max(T)} \in SUBSET DOMAIN assets
    BY <1>7, <1>11, MaxOfPlaces
  <2>2. c[T] = on_update(c[T \ {Max(T)}], "asset", user, assets[Max(T)])
    BY <1>4, <1>7 DEF AskRecurs
  <2> QED BY <2>1, <2>2, <1>1, <1>7
<1>8. PICK h \in [0..Len(assets) -> M] :
        /\ h[0] = queries
        /\ \A i \in 1..Len(assets) : h[i] = step[<<h[i - 1], assets[i]>>]
        /\ c[DOMAIN assets] = h[Len(assets)]
  <2>1. FoldsUpIn(c, M, step, queries, assets)
    BY <1>6, <1>7 DEF FoldsUpIn
  <2>2. Traced(c[DOMAIN assets], M, step, queries, assets)
    BY <1>0, <1>1, <1>11, <2>1, FoldRuns, Zenon
  <2> QED BY <2>2 DEF Traced
<1>9. ASSUME NEW i \in 1..Len(assets) PROVE h[i] = on_update(h[i - 1], "asset", user, assets[i])
  <2>1. i - 1 \in 0..Len(assets) /\ assets[i] \in E
    BY <1>11
  <2> QED BY <2>1, <1>1, <1>8
<1> QED BY <1>5, <1>8, <1>9 DEF AskRan, M

\* A message about an order keeps the queries there are and adds one for each asset that
\* moved and somebody is subscribed to.
LEMMA AskedIs ==
  ASSUME TablesOK, NEW user \in Users, NEW assets \in Seq(Topics["asset"])
  PROVE  /\ AskedAll(user, assets) \in QueryTables
         /\ Within(queries, AskedAll(user, assets))
         /\ \A a \in ToSet(assets) : Hits(dict_sub["asset"][user], a) # {} =>
              Ask("asset", user, a) \in ToSet(AskedAll(user, assets)["asset"])
<1> DEFINE k == Len(assets)
           sub(a) == Hits(dict_sub["asset"][user], a) # {}
           x(a) == Ask("asset", user, a)
<1>0. k \in Nat /\ DOMAIN assets = 1..k /\ \A i \in 1..k : assets[i] \in Topics["asset"]
  OBVIOUS
<1>1. PICK h \in [0..k -> QueryTables] :
        /\ h[0] = queries
        /\ \A i \in 1..k : h[i] = on_update(h[i - 1], "asset", user, assets[i])
        /\ AskedAll(user, assets) = h[k]
  BY AskedRuns DEF AskRan
<1> HIDE DEF k, sub, x
<1>10. "asset" \in Channels
  BY DEF Channels
<1> DEFINE Good == {i \in 0..k : Within(queries, h[i]) /\
                      \A j \in 1..i : sub(assets[j]) => x(assets[j]) \in ToSet(h[i]["asset"])}
<1>2. 0 \in Good
  <2>1. Within(queries, queries)
    BY DEF Within
  <2>2. \A j \in 1..0 : FALSE
    OBVIOUS
  <2> QED BY <2>1, <2>2, <1>0, <1>1
<1>3. ASSUME NEW i \in 0..(k - 1), i \in Good PROVE i + 1 \in Good
  <2> DEFINE j == i + 1
  <2>1. j \in 1..k /\ j - 1 = i /\ j \in 0..k /\ i \in 0..k
    BY <1>0
  <2>11. \A a \in 1..j : a \in 1..i \/ a = j
    BY <2>1
  <2>2. /\ Within(queries, h[i])
        /\ \A a \in 1..i : sub(assets[a]) => x(assets[a]) \in ToSet(h[i]["asset"])
    BY <1>3
  <2> HIDE DEF j, Good
  <2>3. h[j] = on_update(h[i], "asset", user, assets[j]) /\ h[i] \in QueryTables
    BY <1>1, <2>1
  <2>4. Within(h[i], h[j]) /\ (sub(assets[j]) => x(assets[j]) \in ToSet(h[j]["asset"]))
    BY <2>1, <2>3, <1>0, <1>10, OnUpdateIs DEF sub, x
  <2>5. Within(queries, h[j])
    BY <2>2, <2>4 DEF Within
  <2>6. ToSet(h[i]["asset"]) \subseteq ToSet(h[j]["asset"])
    BY <2>4, <1>10 DEF Within
  <2>7. \A a \in 1..j : sub(assets[a]) => x(assets[a]) \in ToSet(h[j]["asset"])
    BY <2>2, <2>4, <2>6, <2>11
  <2> QED BY <2>1, <2>5, <2>7 DEF Good, j
<1>4. k \in Good
  <2> HIDE DEF Good
  <2>1. \A i \in 0..k : i \in Good
    BY <1>0, <1>2, <1>3, CountUp
  <2> QED BY <2>1, <1>0
<1>5. \A a \in ToSet(assets) : \E j \in 1..k : a = assets[j]
  BY <1>0 DEF ToSet
<1>6. k \in 0..k
  BY <1>0
<1>7. \A a \in ToSet(assets) : sub(a) => x(a) \in ToSet(h[k]["asset"])
  BY <1>4, <1>5
<1> QED BY <1>1, <1>4, <1>6, <1>7 DEF sub, x
------------------------------------------------------------------------------
(* Lists and sessions.                                                      *)

\* There are three channels.
LEMMA ChannelsAre == Channels = {"order", "asset", "position"}
  BY DEF Channels

\* What the head of a list and its tail have.
LEMMA ElementsTail ==
  ASSUME NEW U, NEW l \in Seq(U), l # <<>>
  PROVE  /\ Tail(l) \in Seq(U) /\ Head(l) \in U /\ Head(l) \in ToSet(l)
         /\ ToSet(Tail(l)) \subseteq ToSet(l)
         /\ \A x \in ToSet(l) : x = Head(l) \/ x \in ToSet(Tail(l))
<1> DEFINE n == Len(l)
           m == Tail(l)
<1>1. /\ n \in Nat \ {0} /\ DOMAIN l = 1..n /\ m \in Seq(U) /\ DOMAIN m = 1..(n - 1)
      /\ Head(l) = l[1] /\ l[1] \in U /\ \A i \in 1..(n - 1) : m[i] = l[i + 1]
  OBVIOUS
<1> HIDE DEF n, m
<1>2. 1 \in DOMAIN l /\ \A i \in 1..(n - 1) : i + 1 \in DOMAIN l
  BY <1>1
<1>3. \A i \in DOMAIN l : i = 1 \/ (i - 1 \in 1..(n - 1) /\ l[i] = m[i - 1])
  <2> SUFFICES ASSUME NEW i \in DOMAIN l, i # 1 PROVE i - 1 \in 1..(n - 1) /\ l[i] = m[i - 1]
    OBVIOUS
  <2> DEFINE j == i - 1
  <2>1. j \in 1..(n - 1) /\ j + 1 = i
    BY <1>1
  <2> HIDE DEF j
  <2>2. l[i] = m[j]
    BY <1>1, <2>1
  <2> QED BY <2>1, <2>2 DEF j
<1>4. m \in Seq(U) /\ Head(l) \in U /\ Head(l) \in ToSet(l) /\ ToSet(m) \subseteq ToSet(l)
  BY <1>1, <1>2 DEF ToSet
<1>5. \A x \in ToSet(l) : x = Head(l) \/ x \in ToSet(m)
  <2> SUFFICES ASSUME NEW x \in ToSet(l), x # Head(l) PROVE x \in ToSet(m)
    OBVIOUS
  <2>1. PICK i \in DOMAIN l : x = l[i]
    BY DEF ToSet
  <2>2. i - 1 \in DOMAIN m /\ x = m[i - 1]
    BY <2>1, <1>1, <1>3
  <2> QED BY <2>2 DEF ToSet
<1> QED BY <1>4, <1>5 DEF m

\* The lists are of units of sessions there are.
LEMMA ListsType ==
  ASSUME TablesOK, NEW ch \in Channels, NEW u \in Users
  PROVE  /\ dict_sub[ch][u] \in Seq(Units(ch))
         /\ \A n \in ToSet(dict_sub[ch][u]) :
              n = Unit(n.ses, n.topic) /\ n.ses \in Slots /\ n.topic \in Topics[ch] \cup {All}
<1>1. dict_sub[ch][u] \in Seq(Units(ch))
  BY DEF TablesOK
<1>2. \A n \in Units(ch) : n = Unit(n.ses, n.topic) /\ n.ses \in Slots /\ n.topic \in Topics[ch] \cup {All}
  BY DEF Units, Unit
<1>3. \A n \in ToSet(dict_sub[ch][u]) : n \in Units(ch)
  BY <1>1 DEF ToSet
<1> QED BY <1>1, <1>2, <1>3

\* Who is in the list of another user: by places and by elements.
LEMMA InOthers ==
  ASSUME NEW ch, NEW lists \in [Users -> Seq(Units(ch))], NEW s \in Slots, NEW user
  PROVE  (\E u \in Users \ {user} : \E i \in DOMAIN lists[u] : lists[u][i].ses = s) <=>
         (\E u \in Users \ {user} : \E t \in Topics[ch] \cup {All} : Unit(s, t) \in ToSet(lists[u]))
<1>1. ASSUME NEW u \in Users \ {user}, NEW i \in DOMAIN lists[u], lists[u][i].ses = s
      PROVE  \E t \in Topics[ch] \cup {All} : Unit(s, t) \in ToSet(lists[u])
  <2>1. lists[u] \in Seq(Units(ch))
    OBVIOUS
  <2>2. lists[u][i] \in Units(ch)
    BY <2>1
  <2> DEFINE n == lists[u][i]
  <2>3. n \in ToSet(lists[u]) /\ n \in Units(ch) /\ n.ses = s
    BY <1>1, <2>2 DEF ToSet
  <2> HIDE DEF n
  <2>4. n = Unit(s, n.topic) /\ n.topic \in Topics[ch] \cup {All}
    BY <2>3 DEF Units, Unit
  <2> QED BY <2>3, <2>4
<1>2. ASSUME NEW u \in Users \ {user}, NEW t \in Topics[ch] \cup {All}, Unit(s, t) \in ToSet(lists[u])
      PROVE  \E i \in DOMAIN lists[u] : lists[u][i].ses = s
  <2>1. PICK i \in DOMAIN lists[u] : lists[u][i] = Unit(s, t)
    BY <1>2 DEF ToSet
  <2> QED BY <2>1 DEF Unit
<1> QED BY <1>1, <1>2

\* Zombie, said with the elements of lists, now and in the next state.
LEMMA ZombieIs ==
  ASSUME TablesOK, TablesOK', NEW s \in Slots, NEW ch \in Channels
  PROVE  /\ Zombie(s, ch) <=>
              \E u \in Users \ {ses[s].user} : \E t \in Topics[ch] \cup {All} : InList(s, t, ch, u)
         /\ Zombie(s, ch)' <=>
              \E u \in Users \ {ses'[s].user} : \E t \in Topics[ch] \cup {All} : InList(s, t, ch, u)'
<1>1. dict_sub[ch] \in [Users -> Seq(Units(ch))] /\ dict_sub'[ch] \in [Users -> Seq(Units(ch))]
  BY DEF TablesOK
<1>2. Zombie(s, ch) <=>
        \E u \in Users \ {ses[s].user} : \E t \in Topics[ch] \cup {All} : InList(s, t, ch, u)
  BY <1>1, InOthers DEF Zombie, InList
<1>3. Zombie(s, ch)' <=>
        \E u \in Users \ {ses'[s].user} : \E t \in Topics[ch] \cup {All} : InList(s, t, ch, u)'
  <2> DEFINE lists == dict_sub'[ch]
             user == ses'[s].user
  <2>1. (\E u \in Users \ {user} : \E i \in DOMAIN lists[u] : lists[u][i].ses = s) <=>
        (\E u \in Users \ {user} : \E t \in Topics[ch] \cup {All} : Unit(s, t) \in ToSet(lists[u]))
    <3> HIDE DEF user
    <3> QED BY <1>1, InOthers
  <2> QED BY <2>1 DEF Zombie, InList
<1> QED BY <1>2, <1>3

\* What one is subscribed to has a place in the list of its user.
LEMMA LiveIsHit ==
  ASSUME TablesOK, ClientsOK, NEW s \in Slots, Listed(s), ses[s].user # None, NEW ch \in Channels,
         NEW t \in Topics[ch], Subscribed(s, ch, t)
  PROVE  /\ ses[s].user \in Users
         /\ Hits(dict_sub[ch][ses[s].user], t) # {}
         /\ \E i \in Hits(dict_sub[ch][ses[s].user], t) : dict_sub[ch][ses[s].user][i].ses = s
<1>1. ses[s].user \in Users
  BY DEF TablesOK
<1>2. PICK x \in {t, All} : x \in wants[s][ch]
  BY DEF Subscribed
<1>3. InList(s, x, ch, ses[s].user)
  BY <1>2 DEF Listed
<1>4. PICK i \in DOMAIN dict_sub[ch][ses[s].user] : dict_sub[ch][ses[s].user][i] = Unit(s, x)
  BY <1>3 DEF InList, ToSet
<1>5. i \in Hits(dict_sub[ch][ses[s].user], t) /\ dict_sub[ch][ses[s].user][i].ses = s
  BY <1>2, <1>4 DEF Hits, Unit
<1> QED BY <1>1, <1>5

\* Who has a place in a list is a zombie or logged in as its user.
LEMMA HitIsUser ==
  ASSUME TablesOK, NEW s \in Slots, NEW ch \in Channels, ~Zombie(s, ch), NEW u \in Users,
         NEW i \in DOMAIN dict_sub[ch][u], dict_sub[ch][u][i].ses = s
  PROVE  ses[s].user = u
  BY DEF Zombie

\* The lists hold of the session what they held.
SameUnits(s) ==
  \A ch \in Channels, u \in Users : \A t \in Topics[ch] \cup {All} :
    InList(s, t, ch, u)' <=> InList(s, t, ch, u)

\* Nothing happens to a session.
Bystander(s) ==
  /\ ses'[s].user = ses[s].user /\ (ses'[s].id = 0 => ses'[s].user = None)
  /\ wants'[s] = wants[s]
  /\ SameUnits(s)

\* What it subscribed to and the lists go on saying the same of it.
LEMMA BystanderKeeps ==
  ASSUME TablesOK, TablesOK', ClientsOK, NEW s \in Slots, SessionOK(s), Bystander(s)
  PROVE  /\ Idle(s)' /\ Listed(s)' /\ Members(s)'
         /\ \A ch \in Channels : \A t : Live(s, ch, t)' <=> Live(s, ch, t)
<1>1. /\ ses'[s].user = ses[s].user /\ (ses'[s].id = 0 => ses'[s].user = None) /\ wants'[s] = wants[s]
      /\ SameUnits(s)
  BY DEF Bystander
<1>2. Idle(s)'
  BY <1>1 DEF SessionOK, Idle
<1>3. Listed(s)'
  <2> SUFFICES ASSUME ses'[s].user # None, NEW ch \in Channels, NEW t \in wants'[s][ch]
               PROVE  InList(s, t, ch, ses[s].user)'
    BY <1>1 DEF Listed
  <2>1. ses[s].user \in Users /\ t \in Topics[ch] \cup {All}
    BY <1>1 DEF TablesOK, ClientsOK
  <2>2. InList(s, t, ch, ses[s].user)
    BY <1>1 DEF SessionOK, Listed
  <2> QED BY <1>1, <2>1, <2>2 DEF SameUnits, InList
<1>4. Members(s)'
  <2> SUFFICES ASSUME NEW ch \in {"order", "asset"}, NEW u \in Users, NEW t \in Topics[ch] \cup {All},
                      InList(s, t, ch, u)'
               PROVE  ses'[s].user = u /\ t \in wants'[s][ch]
    BY DEF Members
  <2>1. InList(s, t, ch, u)
    BY <1>1, ChannelsAre DEF SameUnits
  <2> QED BY <1>1, <2>1 DEF SessionOK, Members
<1>5. ASSUME NEW ch \in Channels PROVE Zombie(s, ch)' <=> Zombie(s, ch)
  BY <1>1, ZombieIs DEF SameUnits
<1>6. ASSUME NEW ch, NEW t PROVE Subscribed(s, ch, t)' <=> Subscribed(s, ch, t)
  BY <1>1 DEF Subscribed
<1> QED BY <1>1, <1>2, <1>3, <1>4, <1>5, <1>6 DEF Live

\* If nothing happens to others either, it is as well informed as before.
LEMMA BystanderOK ==
  ASSUME TablesOK, TablesOK', ClientsOK, NEW s \in Slots, SessionOK(s), Bystander(s),
         copy'[s] = copy[s], UNCHANGED <<kafka, queries, version, lost>>
  PROVE  SessionOK(s)'
<1>1. /\ Idle(s)' /\ Listed(s)' /\ Members(s)'
      /\ \A ch \in Channels : \A t : Live(s, ch, t)' <=> Live(s, ch, t)
  BY BystanderKeeps
<1>2. ses'[s].user = ses[s].user
  BY DEF Bystander
<1>3. ASSUME NEW ch \in Channels, NEW t \in Topics[ch] PROVE InformedAt(s, ch, t)'
  <2>1. InformedAt(s, ch, t)
    BY DEF SessionOK, Informed
  <2>2. ASSUME NEW u PROVE Coming(ch, u, t)' <=> Coming(ch, u, t)
    BY DEF Coming
  <2>3. Live(s, ch, t)' <=> Live(s, ch, t)
    BY <1>1
  <2> HIDE DEF Coming, Live
  <2> QED BY <1>2, <2>1, <2>2, <2>3 DEF InformedAt
<1> QED BY <1>1, <1>3 DEF SessionOK, Informed

\* A session with no subscriptions and no place in the lists of orders and assets.
Blank(s) ==
  /\ ses[s].id = 0 => ses[s].user = None
  /\ \A ch \in Channels : wants[s][ch] = {}
 /\ 
 /\ \A ch \in {"order", "asset"}, u \in Users : \A t \in Topics[ch] \cup {All} : ~InList(s, t, ch, u)

\* Such a session is as it should be, whatever is told.
LEMMA BlankOK == ASSUME NEW s \in Slots, Blank(s)' PROVE SessionOK(s)'
<1>1. Idle(s)' /\ Listed(s)' /\ Members(s)'
  BY DEF Blank, Idle, Listed, Members
<1>2. Informed(s)'
  BY DEF Blank, Informed, InformedAt, Live, Subscribed
<1> QED BY <1>1, <1>2 DEF SessionOK

------------------------------------------------------------------------------
(* What clients do.                                                         *)

\* A list that has lost what session s0 has in those of one user.
LEMMA DroppedIs ==
  ASSUME TablesOK, NEW chs, NEW user, NEW s0
  PROVE  /\ Dropped(chs, user, s0) = [ch \in Channels |-> Dropped(chs, user, s0)[ch]]
         /\ \A ch \in Channels : Dropped(chs, user, s0)[ch] \in [Users -> Seq(Units(ch))]
         /\ \A ch \in Channels, u \in Users : \A s, t :
              Unit(s, t) \in ToSet(Dropped(chs, user, s0)[ch][u]) <=>
                InList(s, t, ch, u) /\ ~(ch \in chs /\ u = user /\ s = s0)
<1> DEFINE D == Dropped(chs, user, s0)
<1>1. D = [ch \in Channels |-> [u \in Users |->
            IF ch \in chs /\ u = user THEN Without(dict_sub[ch][u], s0) ELSE dict_sub[ch][u]]]
  BY DEF Dropped
<1> HIDE DEF D
<1>2. ASSUME NEW ch \in Channels, NEW u \in Users
      PROVE  /\ D[ch][u] \in Seq(Units(ch))
             /\ \A s, t : Unit(s, t) \in ToSet(D[ch][u]) <=>
                  InList(s, t, ch, u) /\ ~(ch \in chs /\ u = user /\ s = s0)
  <2>1. dict_sub[ch][u] \in Seq(Units(ch))
    BY ListsType
  <2>2. CASE ch \in chs /\ u = user
    <3>1. D[ch][u] = Without(dict_sub[ch][u], s0)
      BY <1>1, <2>2
    <3>2. /\ D[ch][u] \in Seq(Units(ch))
          /\ ToSet(D[ch][u]) = {n \in ToSet(dict_sub[ch][u]) : n.ses # s0}
      BY <2>1, <3>1, WithoutIs
    <3>3. \A s, t : Unit(s, t).ses = s
      BY DEF Unit
    <3> QED BY <2>2, <3>2, <3>3 DEF InList
  <2>3. CASE ~(ch \in chs /\ u = user)
    <3>1. D[ch][u] = dict_sub[ch][u]
      BY <1>1, <2>3
    <3> QED BY <2>1, <2>3, <3>1 DEF InList
  <2> QED BY <2>2, <2>3
<1>3. \A ch \in Channels : D[ch] = [u \in Users |-> D[ch][u]]
  BY <1>1
<1>4. ASSUME NEW ch \in Channels PROVE D[ch] \in [Users -> Seq(Units(ch))]
  BY <1>2, <1>3
<1>5. D = [ch \in Channels |-> D[ch]]
  BY <1>1
<1> QED BY <1>2, <1>4, <1>5 DEF D

\* The tables are as they should be if the lists are, and sessions and logins.
LEMMA TablesKept ==
  ASSUME TablesOK, ses' \in [Slots -> [id : Nat, user : Users \cup {None}]], id_start' \in Nat \ {0},
         logins' \in Seq(Logins), dict_sub' = [ch \in Channels |-> dict_sub'[ch]],
         \A ch \in Channels : dict_sub'[ch] \in [Users -> Seq(Units(ch))],
         UNCHANGED <<kafka, queries, version>>
  PROVE  TablesOK'
  BY DEF TablesOK, Units, Messages, Asks, Logins

\* No message is about what never was as long as none is published.
LEMMA PublishedKept == ASSUME Published, UNCHANGED <<kafka, version>> PROVE Published'
  BY DEF Published

\* Nobody wants or knows anything on a new connection.
LEMMA ClientsReset ==
  ASSUME ClientsOK, NEW s0 \in Slots, wants' = [wants EXCEPT ![s0] = Nothing],
         copy' = [copy EXCEPT ![s0] = NoCopy]
  PROVE  ClientsOK' /\ (\A ch \in Channels : wants'[s0][ch] = {})
<1> DEFINE W == SUBSET UNION {Topics[ch] \cup {All} : ch \in Channels}
<1>1. Nothing \in [Channels -> W] /\ \A ch \in Channels : Nothing[ch] = {}
  BY DEF Nothing
<1>2. /\ NoCopy = [ch \in Channels |-> NoCopy[ch]]
      /\ \A ch \in Channels : NoCopy[ch] \in [Topics[ch] -> Nat]
  BY DEF NoCopy
<1>3. /\ wants \in [Slots -> [Channels -> W]] /\ copy = [s \in Slots |-> [ch \in Channels |-> copy[s][ch]]]
      /\ \A s \in Slots, ch \in Channels :
           wants[s][ch] \subseteq Topics[ch] \cup {All} /\ copy[s][ch] \in [Topics[ch] -> Nat]
  BY DEF ClientsOK
<1> HIDE DEF W
<1>4. /\ wants' \in [Slots -> [Channels -> W]] /\ wants'[s0] = Nothing
      /\ \A s \in Slots \ {s0} : wants'[s] = wants[s]
  BY <1>1, <1>3
<1>5. /\ DOMAIN copy' = Slots /\ copy'[s0] = NoCopy /\ \A s \in Slots \ {s0} : copy'[s] = copy[s]
      /\ copy' = [s \in Slots |-> copy'[s]]
  BY <1>3
<1>6. \A s \in Slots : copy'[s] = [ch \in Channels |-> copy'[s][ch]]
  BY <1>2, <1>3, <1>5
<1>7. copy' = [s \in Slots |-> [ch \in Channels |-> copy'[s][ch]]]
  BY <1>5, <1>6
<1>8. \A s \in Slots, ch \in Channels :
        wants'[s][ch] \subseteq Topics[ch] \cup {All} /\ copy'[s][ch] \in [Topics[ch] -> Nat]
  BY <1>1, <1>2, <1>3, <1>4, <1>5
<1> QED BY <1>1, <1>4, <1>7, <1>8 DEF ClientsOK, W

\* A new connection: nobody is logged in.
LEMMA UpgradeKeeps == ASSUME AccessInv, NEW s0 \in Slots, on_upgrade(s0) PROVE AccessInv'
<1>1. /\ ses[s0].id = 0 /\ ses' = [ses EXCEPT ![s0] = [id |-> id_start, user |-> None]]
      /\ id_start' = id_start + 1
      /\ UNCHANGED <<logins, dict_sub, kafka, queries, version, wants, copy, lost>>
  BY DEF on_upgrade, clients
<1>2. TablesOK /\ ClientsOK /\ Published /\ \A s \in Slots : SessionOK(s)
  BY DEF AccessInv
<1>3. ses[s0].user = None /\ id_start \in Nat \ {0}
  BY <1>1, <1>2 DEF SessionOK, Idle, TablesOK
<1>4. /\ ses' \in [Slots -> [id : Nat, user : Users \cup {None}]] /\ id_start' \in Nat \ {0}
      /\ \A s \in Slots : ses'[s].user = ses[s].user /\ (ses'[s].id = 0 => ses[s].id = 0)
  <2>1. ses \in [Slots -> [id : Nat, user : Users \cup {None}]]
    BY <1>2 DEF TablesOK
  <2> QED BY <1>1, <1>3, <2>1
<1>5. TablesOK'
  BY <1>1, <1>2, <1>4 DEF TablesOK, Units, Messages, Asks, Logins
<1>6. ClientsOK' /\ Published'
  BY <1>1, <1>2 DEF ClientsOK, Published
<1>7. ASSUME NEW s \in Slots PROVE SessionOK(s)'
  <2>1. Bystander(s)
    BY <1>1, <1>2, <1>4 DEF Bystander, SameUnits, InList, SessionOK, Idle
  <2> QED BY <2>1, <1>1, <1>2, <1>5, BystanderOK
<1> QED BY <1>5, <1>6, <1>7 DEF AccessInv

\* A session is closed: what it had in the lists of orders and assets is gone.
LEMMA ClosedIs ==
  ASSUME TablesOK, ClientsOK, NEW s0 \in Slots, SessionOK(s0), dict_sub' = Closed(s0),
         ses' = [ses EXCEPT ![s0] = Free]
  PROVE  /\ ses' \in [Slots -> [id : Nat, user : Users \cup {None}]]
         /\ dict_sub' = [ch \in Channels |-> dict_sub'[ch]]
         /\ \A ch \in Channels : dict_sub'[ch] \in [Users -> Seq(Units(ch))]
         /\ (\A ch \in Channels : wants'[s0][ch] = {}) => Blank(s0)'
         /\ \A s \in Slots \ {s0} : SessionOK(s) /\ wants'[s] = wants[s] => Bystander(s)
<1>1. Closed(s0) = Dropped({"order", "asset"}, ses[s0].user, s0)
  BY DEF Closed
<1>2. /\ dict_sub' = [ch \in Channels |-> dict_sub'[ch]]
      /\ \A ch \in Channels : dict_sub'[ch] \in [Users -> Seq(Units(ch))]
      /\ \A ch \in Channels, u \in Users : \A s, t :
           InList(s, t, ch, u)' <=>
             InList(s, t, ch, u) /\ ~(ch \in {"order", "asset"} /\ u = ses[s0].user /\ s = s0)
  BY <1>1, DroppedIs DEF InList
<1>3. /\ ses' \in [Slots -> [id : Nat, user : Users \cup {None}]]
      /\ ses'[s0].user = None /\ \A s \in Slots \ {s0} : ses'[s] = ses[s]
  BY DEF TablesOK, Free
<1>4. ASSUME \A ch \in Channels : wants'[s0][ch] = {} PROVE Blank(s0)'
  <2>1. ASSUME NEW ch \in {"order", "asset"}, NEW u \in Users, NEW t \in Topics[ch] \cup {All},
               InList(s0, t, ch, u)'
        PROVE  FALSE
    <3>1. InList(s0, t, ch, u) /\ u # ses[s0].user
      BY <2>1, <1>2, ChannelsAre
    <3> QED BY <3>1 DEF SessionOK, Members
  <2> QED BY <2>1, <1>3, <1>4 DEF Blank
<1>5. ASSUME NEW s \in Slots \ {s0}, SessionOK(s), wants'[s] = wants[s] PROVE Bystander(s)
  BY <1>2, <1>3, <1>5 DEF Bystander, SameUnits, SessionOK, Idle
<1> QED BY <1>2, <1>3, <1>4, <1>5

\* A connection ends, and the next session may get its memory.
LEMMA CloseKeeps == ASSUME AccessInv, NEW s0 \in Slots, on_close(s0) PROVE AccessInv'
<1>1. /\ dict_sub' = Closed(s0) /\ ses' = [ses EXCEPT ![s0] = Free]
      /\ wants' = [wants EXCEPT ![s0] = Nothing] /\ copy' = [copy EXCEPT ![s0] = NoCopy]
      /\ UNCHANGED <<id_start, logins, kafka, queries, version, lost>>
  BY DEF on_close
<1>2. TablesOK /\ ClientsOK /\ Published /\ \A s \in Slots : SessionOK(s)
  BY DEF AccessInv
<1>3. id_start' \in Nat \ {0} /\ logins' \in Seq(Logins)
  BY <1>1, <1>2 DEF TablesOK
<1>4. TablesOK'
  BY <1>1, <1>2, <1>3, ClosedIs, TablesKept
<1>5. ClientsOK' /\ (\A ch \in Channels : wants'[s0][ch] = {}) /\ Published'
  BY <1>1, <1>2, ClientsReset, PublishedKept
<1>6. \A s \in Slots \ {s0} : wants'[s] = wants[s] /\ copy'[s] = copy[s]
  BY <1>1, <1>2 DEF ClientsOK
<1>7. ASSUME NEW s \in Slots PROVE SessionOK(s)'
  <2>1. CASE s = s0
    BY <2>1, <1>1, <1>2, <1>5, ClosedIs, BlankOK
  <2>2. CASE s # s0
    <3>1. Bystander(s)
      BY <2>2, <1>1, <1>2, <1>6, ClosedIs
    <3> QED BY <2>2, <3>1, <1>1, <1>2, <1>4, <1>6, BystanderOK
  <2> QED BY <2>1, <2>2
<1> QED BY <1>4, <1>5, <1>7 DEF AccessInv

\* A login is sent to the threads that check it.
LEMMA RequestKeeps ==
  ASSUME AccessInv, NEW kind \in {"auth", "sign"}, NEW s0 \in Slots, send_request(kind, s0)
  PROVE  AccessInv'
<1>1. /\ ses[s0].id # 0
      /\ logins' = Append(logins, [kind |-> kind, ses |-> s0, ses_id |-> ses[s0].id])
      /\ UNCHANGED <<ses, id_start, dict_sub, kafka, queries, version, wants, copy, lost>>
  BY DEF send_request, Request, clients
<1>2. TablesOK /\ ClientsOK /\ Published /\ \A s \in Slots : SessionOK(s)
  BY DEF AccessInv
<1>3. ses[s0].id \in Nat \ {0}
  BY <1>1, <1>2 DEF TablesOK
<1>4. logins' \in Seq(Logins)
  <2>1. [kind |-> kind, ses |-> s0, ses_id |-> ses[s0].id] \in Logins /\ logins \in Seq(Logins)
    BY <1>2, <1>3 DEF Logins, TablesOK
  <2> QED BY <1>1, <2>1
<1>5. TablesOK'
  BY <1>1, <1>2, <1>4 DEF TablesOK, Units, Messages, Asks, Logins
<1>6. ClientsOK' /\ Published'
  BY <1>1, <1>2 DEF ClientsOK, Published
<1>7. ASSUME NEW s \in Slots PROVE SessionOK(s)'
  <2>1. Bystander(s)
    BY <1>1, <1>2 DEF Bystander, SameUnits, InList, SessionOK, Idle
  <2> QED BY <2>1, <1>1, <1>2, <1>5, BystanderOK
<1> QED BY <1>5, <1>6, <1>7 DEF AccessInv

\* A login is answered: somebody else, who has subscribed to nothing, or nobody new.
LEMMA ResultKeeps ==
  ASSUME AccessInv, NEW i \in DOMAIN logins, NEW user \in Users \cup {None}, on_result(i, user)
  PROVE  AccessInv'
<1> DEFINE login == logins[i]
<1>2. TablesOK /\ ClientsOK /\ Published /\ \A s \in Slots : SessionOK(s)
  BY DEF AccessInv
<1>7. logins \in Seq(Logins) /\ login \in Logins
  <2>1. logins \in Seq(Logins)
    BY <1>2 DEF TablesOK
  <2> QED BY <2>1
<1>8. login.ses \in Slots /\ login.ses_id \in Nat \ {0}
  BY <1>7 DEF Logins
<1>9. PICK s0 \in Slots : s0 = login.ses
  BY <1>8
<1> DEFINE former == ses[s0].user
<1>1. /\ logins' = RemoveAt(logins, i)
      /\ UNCHANGED <<id_start, kafka, queries, version, lost>>
      /\ \/ UNCHANGED <<ses, dict_sub, wants, copy>>
         \/ /\ SameSession(login) /\ user # None /\ ses' = [ses EXCEPT ![s0].user = user]
            /\ \/ former \in {None, user} /\ UNCHANGED <<dict_sub, wants, copy>>
               \/ /\ former \notin {None, user}
                  /\ dict_sub' = Dropped(Forgotten(login.kind), former, s0)
                  /\ wants' = [wants EXCEPT ![s0] = Nothing]
                  /\ copy' = [copy EXCEPT ![s0] = NoCopy]
  BY <1>9 DEF on_result, clients
<1>3. s0 \in Slots
  OBVIOUS
<1>4. logins' \in Seq(Logins)
  <2>1. SubSeq(logins, 1, i - 1) \in Seq(Logins) /\ SubSeq(logins, i + 1, Len(logins)) \in Seq(Logins)
    BY <1>7
  <2> QED BY <1>1, <2>1 DEF RemoveAt
<1> HIDE DEF login, former
<1>5. CASE UNCHANGED <<ses, dict_sub, wants, copy>>
  <2>1. TablesOK'
    BY <1>1, <1>2, <1>4, <1>5 DEF TablesOK, Units, Messages, Asks, Logins
  <2>2. ClientsOK' /\ Published'
    BY <1>1, <1>2, <1>5 DEF ClientsOK, Published
  <2>3. ASSUME NEW s \in Slots PROVE SessionOK(s)'
    <3>1. Bystander(s)
      BY <1>1, <1>2, <1>5 DEF Bystander, SameUnits, InList, SessionOK, Idle
    <3> QED BY <3>1, <1>1, <1>2, <1>5, <2>1, BystanderOK
  <2> QED BY <2>1, <2>2, <2>3 DEF AccessInv
<1>6. CASE /\ SameSession(login) /\ user # None /\ ses' = [ses EXCEPT ![s0].user = user]
           /\ \/ former \in {None, user} /\ UNCHANGED <<dict_sub, wants, copy>>
              \/ /\ former \notin {None, user}
                 /\ dict_sub' = Dropped(Forgotten(login.kind), former, s0)
                 /\ wants' = [wants EXCEPT ![s0] = Nothing]
                 /\ copy' = [copy EXCEPT ![s0] = NoCopy]
  <2>1. /\ ses' \in [Slots -> [id : Nat, user : Users \cup {None}]] /\ ses'[s0].user = user
        /\ ses'[s0].id # 0 /\ \A s \in Slots \ {s0} : ses'[s] = ses[s]
    <3>1. ses \in [Slots -> [id : Nat, user : Users \cup {None}]]
      BY <1>2 DEF TablesOK
    <3>2. ses[s0].id # 0
      BY <1>6, <1>8, <1>9 DEF SameSession
    <3> QED BY <3>1, <3>2, <1>3, <1>6
  <2>2. id_start' \in Nat \ {0}
    BY <1>1, <1>2 DEF TablesOK
  <2>3. CASE former \in {None, user} /\ UNCHANGED <<dict_sub, wants, copy>>
    <3>1. TablesOK'
      BY <1>1, <1>2, <1>4, <2>1, <2>2, <2>3 DEF TablesOK, Units, Messages, Asks, Logins
    <3>2. ClientsOK' /\ Published'
      BY <1>1, <1>2, <2>3 DEF ClientsOK, Published
    <3>3. ASSUME NEW s \in Slots PROVE SessionOK(s)'
      <4>1. CASE s # s0 \/ former = user
        <5>1. Bystander(s)
          BY <4>1, <1>1, <1>2, <2>1, <2>3 DEF Bystander, SameUnits, InList, SessionOK, Idle, former
        <5> QED BY <5>1, <1>1, <1>2, <2>3, <3>1, BystanderOK
      <4>2. CASE s = s0 /\ former = None
        <5>1. \A ch \in Channels : wants'[s0][ch] = {}
          BY <1>2, <1>3, <2>3, <4>2 DEF SessionOK, Idle, former
        <5>2. ASSUME NEW ch \in {"order", "asset"}, NEW u \in Users, NEW t \in Topics[ch] \cup {All},
                     InList(s0, t, ch, u)'
              PROVE  FALSE
          <6>1. InList(s0, t, ch, u)
            BY <5>2, <2>3 DEF InList
          <6> QED BY <6>1, <1>2, <1>3, <5>1, <2>3 DEF SessionOK, Members, Channels
        <5>3. Blank(s0)'
          BY <5>1, <5>2, <2>1 DEF Blank
        <5> QED BY <5>3, <4>2, <1>3, BlankOK
      <4> QED BY <4>1, <4>2, <2>3
    <3> QED BY <3>1, <3>2, <3>3 DEF AccessInv
  <2>4. CASE /\ former \notin {None, user}
             /\ dict_sub' = Dropped(Forgotten(login.kind), former, s0)
             /\ wants' = [wants EXCEPT ![s0] = Nothing] /\ copy' = [copy EXCEPT ![s0] = NoCopy]
    <3>0. {"order", "asset"} \subseteq Forgotten(login.kind)
      BY DEF Forgotten, Channels
    <3>1. /\ dict_sub' = [ch \in Channels |-> dict_sub'[ch]]
          /\ \A ch \in Channels : dict_sub'[ch] \in [Users -> Seq(Units(ch))]
          /\ \A ch \in Channels, u \in Users : \A s, t :
               InList(s, t, ch, u)' <=>
                 InList(s, t, ch, u) /\ ~(ch \in Forgotten(login.kind) /\ u = former /\ s = s0)
      BY <1>2, <2>4, DroppedIs DEF InList
    <3>2. TablesOK'
      BY <1>1, <1>2, <1>4, <2>1, <2>2, <3>1, TablesKept
    <3>3. ClientsOK' /\ (\A ch \in Channels : wants'[s0][ch] = {}) /\ Published'
      BY <1>1, <1>2, <1>3, <2>4, ClientsReset, PublishedKept
    <3>4. \A s \in Slots \ {s0} : wants'[s] = wants[s] /\ copy'[s] = copy[s]
      BY <1>2, <2>4 DEF ClientsOK
    <3>5. ASSUME NEW s \in Slots PROVE SessionOK(s)'
      <4>1. CASE s = s0
        <5>1. ASSUME NEW ch \in {"order", "asset"}, NEW u \in Users, NEW t \in Topics[ch] \cup {All},
                     InList(s0, t, ch, u)'
              PROVE  FALSE
          <6>1. InList(s0, t, ch, u) /\ u # former
            BY <5>1, <3>0, <3>1, ChannelsAre
          <6> QED BY <6>1, <1>2, <1>3 DEF SessionOK, Members, former
        <5>2. Blank(s0)'
          BY <5>1, <2>1, <3>3 DEF Blank
        <5> QED BY <5>2, <4>1, <1>3, BlankOK
      <4>2. CASE s # s0
        <5>1. Bystander(s)
          BY <4>2, <1>2, <2>1, <3>1, <3>4 DEF Bystander, SameUnits, SessionOK, Idle
        <5> QED BY <5>1, <4>2, <1>1, <1>2, <3>2, <3>4, BystanderOK
      <4> QED BY <4>1, <4>2
    <3> QED BY <3>2, <3>3, <3>5 DEF AccessInv
  <2> QED BY <1>6, <2>3, <2>4
<1> QED BY <1>1, <1>5, <1>6

\* The parameters that are accepted are topics.
LEMMA AcceptedIs ==
  ASSUME NEW ch \in Channels, NEW params \in Params[ch]
  PROVE  Accepted(ch, params) \in Seq(Topics[ch] \cup {All})
<1>1. params \in Seq(Topics[ch] \cup {Bad})
  BY AccessWsAssumption
<1>2. CASE ch = "order" /\ params = <<>>
  <2>1. <<All>> \in Seq(Topics[ch] \cup {All})
    OBVIOUS
  <2> QED BY <1>2, <2>1 DEF Accepted
<1>3. CASE ~(ch = "order" /\ params = <<>>)
  <2> DEFINE n == Len(params)
             ok == {i \in 0..n : \A j \in 1..i : params[j] # Bad}
             m == Max(ok)
  <2>1. n \in Nat /\ \A j \in 1..n : params[j] \in Topics[ch] \cup {Bad}
    BY <1>1
  <2>2. 0 \in ok /\ ok \subseteq 0..n
    BY <2>1
  <2>3. IsFiniteSet(ok) /\ ok \subseteq Int /\ ok # {}
    <3>1. IsFiniteSet(0..n) /\ 0..n \subseteq Int
      BY <2>1, FS_Interval
    <3> HIDE DEF ok, n
    <3> QED BY <3>1, <2>2, FS_Subset
  <2>4. m \in ok
    <3> HIDE DEF ok
    <3> QED BY <2>3, MaxIsIn
  <2>5. m \in 0..n /\ \A j \in 1..m : params[j] # Bad
    BY <2>4
  <2>6. Accepted(ch, params) = SubSeq(params, 1, m)
    BY <1>3 DEF Accepted
  <2> HIDE DEF m, ok
  <2>7. \A j \in 1..m : params[j] \in Topics[ch]
    <3>1. \A j \in 1..m : j \in 1..n
      BY <2>1, <2>5
    <3> QED BY <3>1, <2>1, <2>5
  <2>8. SubSeq(params, 1, m) = [j \in 1..m |-> params[j]]
    BY <2>1, <2>5, <1>1
  <2>9. [j \in 1..m |-> params[j]] \in Seq(Topics[ch] \cup {All})
    BY <2>5, <2>7
  <2> QED BY <2>6, <2>8, <2>9
<1> QED BY <1>2, <1>3

\* Every topic has a first place, and gets a unit.
LEMMA KeptIs ==
  ASSUME NEW V, NEW topics \in Seq(V), NEW ch, NEW K \in Kept(ch, topics)
  PROVE  K \subseteq DOMAIN topics /\ {topics[i] : i \in K} = ToSet(topics)
<1> DEFINE n == Len(topics)
           first == {i \in DOMAIN topics : \A j \in 1..(i - 1) : topics[j] # topics[i]}
<1>1. n \in Nat /\ DOMAIN topics = 1..n
  OBVIOUS
<1>2. K \subseteq DOMAIN topics /\ first \subseteq K
  BY DEF Kept
<1> HIDE DEF n
<1>3. ASSUME NEW i \in DOMAIN topics, \A j \in first : topics[j] # topics[i] PROVE FALSE
  <2> DEFINE S == {k \in 0..n : \A j \in 1..k : topics[j] # topics[i]}
  <2>1. 0 \in S
    BY <1>1
  <2>2. ASSUME NEW k \in 0..(n - 1), k \in S PROVE k + 1 \in S
    <3> DEFINE l == k + 1
    <3>1. l \in 1..n /\ l \in 0..n /\ l - 1 = k
      BY <1>1
    <3>2. \A j \in 1..l : j \in 1..k \/ j = l
      BY <3>1
    <3>3. \A j \in 1..k : topics[j] # topics[i]
      BY <2>2
    <3> HIDE DEF l
    <3>4. topics[l] # topics[i]
      <4> SUFFICES ASSUME topics[l] = topics[i] PROVE FALSE
        OBVIOUS
      <4>1. l \in first
        BY <3>1, <3>3, <1>1
      <4> QED BY <4>1, <1>3
    <3>5. l \in S
      BY <3>1, <3>2, <3>3, <3>4
    <3> QED BY <3>5 DEF l
  <2> HIDE DEF S
  <2>3. \A k \in 0..n : k \in S
    BY <1>1, <2>1, <2>2, CountUp
  <2>4. n \in S /\ i \in 1..n
    BY <1>1, <2>3
  <2> QED BY <2>4 DEF S
<1> HIDE DEF first
<1>4. \A i \in DOMAIN topics : \E j \in K : topics[j] = topics[i]
  BY <1>2, <1>3
<1> QED BY <1>2, <1>4 DEF ToSet

\* A new list of one client and channel, in the place of the old one: what it asked
\* for is in the list of its user, and it knows what there is now.
LEMMA ListReplaced ==
  ASSUME AccessInv, NEW s0 \in Slots, NEW ch0 \in Channels, NEW T \in SUBSET (Topics[ch0] \cup {All}),
         ses[s0].user # None,
         dict_sub' = [ch \in Channels |-> dict_sub'[ch]],
         \A ch \in Channels : dict_sub'[ch] \in [Users -> Seq(Units(ch))],
         \A ch \in Channels, u \in Users : \A s, t :
           InList(s, t, ch, u)' <=>
             \/ InList(s, t, ch, u) /\ ~(ch = ch0 /\ u = ses[s0].user /\ s = s0)
             \/ ch = ch0 /\ u = ses[s0].user /\ s = s0 /\ t \in T,
         wants' = [wants EXCEPT ![s0][ch0] = T],
         NEW c \in [Topics[ch0] -> Nat], copy' = [copy EXCEPT ![s0][ch0] = c],
         T = {} \/ c = version[ch0][ses[s0].user],
         UNCHANGED <<ses, id_start, logins, kafka, queries, version, lost>>
  PROVE  AccessInv'
<1>1. TablesOK /\ ClientsOK /\ Published /\ \A s \in Slots : SessionOK(s)
  BY DEF AccessInv
<1>2. TablesOK'
  BY <1>1 DEF TablesOK, Units, Messages, Asks, Logins
<1>3. Published'
  BY <1>1, PublishedKept
<1> DEFINE W == SUBSET UNION {Topics[ch] \cup {All} : ch \in Channels}
<1>4. /\ wants \in [Slots -> [Channels -> W]] /\ copy = [s \in Slots |-> [ch \in Channels |-> copy[s][ch]]]
      /\ \A s \in Slots, ch \in Channels :
           wants[s][ch] \subseteq Topics[ch] \cup {All} /\ copy[s][ch] \in [Topics[ch] -> Nat]
  BY <1>1 DEF ClientsOK
<1>5. T \in W
  OBVIOUS
<1> HIDE DEF W
<1>6. /\ wants' \in [Slots -> [Channels -> W]] /\ wants'[s0][ch0] = T
      /\ \A ch \in Channels \ {ch0} : wants'[s0][ch] = wants[s0][ch]
      /\ \A s \in Slots \ {s0} : wants'[s] = wants[s]
  BY <1>4, <1>5
<1>7. /\ copy'[s0][ch0] = c /\ \A ch \in Channels \ {ch0} : copy'[s0][ch] = copy[s0][ch]
      /\ \A s \in Slots \ {s0} : copy'[s] = copy[s]
      /\ copy' = [s \in Slots |-> [ch \in Channels |-> copy'[s][ch]]]
  <2>1. copy'[s0] = [copy[s0] EXCEPT ![ch0] = c] /\ \A s \in Slots \ {s0} : copy'[s] = copy[s]
    BY <1>4
  <2>2. DOMAIN copy[s0] = Channels
    BY <1>4
  <2>3. copy'[s0] = [ch \in Channels |-> copy'[s0][ch]]
    BY <2>1, <2>2
  <2>4. ASSUME NEW s \in Slots PROVE copy'[s] = [ch \in Channels |-> copy'[s][ch]]
    <3>1. CASE s = s0
      BY <3>1, <2>3
    <3>2. CASE s # s0
      <4>1. copy[s] = [ch \in Channels |-> copy[s][ch]]
        BY <1>4
      <4>2. copy'[s] = copy[s]
        BY <3>2, <2>1
      <4> QED BY <4>1, <4>2
    <3> QED BY <3>1, <3>2
  <2>5. copy' = [s \in Slots |-> copy'[s]]
    BY <1>4
  <2> QED BY <2>1, <2>2, <2>4, <2>5
<1>8. ClientsOK'
  <2>1. \A s \in Slots, ch \in Channels :
          wants'[s][ch] \subseteq Topics[ch] \cup {All} /\ copy'[s][ch] \in [Topics[ch] -> Nat]
    BY <1>4, <1>6, <1>7
  <2> QED BY <1>6, <1>7, <2>1 DEF ClientsOK, W
<1>9. ASSUME NEW s \in Slots \ {s0} PROVE SessionOK(s)'
  <2>1. Bystander(s)
    BY <1>1, <1>6 DEF Bystander, SameUnits, SessionOK, Idle
  <2> QED BY <2>1, <1>1, <1>2, <1>7, BystanderOK
<1>10. SessionOK(s0)'
  <2>1. SessionOK(s0) /\ ses[s0].user \in Users
    BY <1>1 DEF TablesOK
  <2>2. Idle(s0)'
    BY <2>1 DEF SessionOK, Idle
  <2>3. Listed(s0)'
    <3> SUFFICES ASSUME NEW ch \in Channels, NEW t \in wants'[s0][ch]
                 PROVE  InList(s0, t, ch, ses[s0].user)'
      BY DEF Listed
    <3>1. CASE ch = ch0
      BY <3>1, <1>6, <2>1
    <3>2. CASE ch # ch0
      <4>1. InList(s0, t, ch, ses[s0].user)
        BY <3>2, <1>6, <2>1 DEF SessionOK, Listed
      <4> QED BY <3>2, <4>1, <2>1
    <3> QED BY <3>1, <3>2
  <2>4. Members(s0)'
    <3> SUFFICES ASSUME NEW ch \in {"order", "asset"}, NEW u \in Users, NEW t \in Topics[ch] \cup {All},
                        InList(s0, t, ch, u)'
                 PROVE  ses'[s0].user = u /\ t \in wants'[s0][ch]
      BY DEF Members
    <3>0. ch \in Channels
      BY ChannelsAre
    <3>1. CASE InList(s0, t, ch, u) /\ ~(ch = ch0 /\ u = ses[s0].user)
      <4>1. ses[s0].user = u /\ t \in wants[s0][ch]
        BY <3>1, <2>1 DEF SessionOK, Members
      <4> QED BY <3>0, <3>1, <4>1, <1>6
    <3>2. CASE ch = ch0 /\ u = ses[s0].user /\ t \in T
      BY <3>2, <1>6
    <3> QED BY <3>0, <3>1, <3>2
  <2>5. ASSUME NEW ch \in Channels, NEW t \in Topics[ch] PROVE InformedAt(s0, ch, t)'
    <3>1. CASE ch = ch0
      <4>1. CASE T = {}
        BY <3>1, <4>1, <1>6 DEF InformedAt, Live, Subscribed
      <4>2. CASE c = version[ch0][ses[s0].user]
        <5>1. copy'[s0][ch][t] = version'[ch][ses'[s0].user][t] /\ version[ch][ses[s0].user][t] \in Nat
          BY <1>1, <1>7, <2>1, <3>1, <4>2 DEF TablesOK
        <5> QED BY <5>1 DEF InformedAt
      <4> QED BY <4>1, <4>2
    <3>2. CASE ch # ch0
      <4>1. InformedAt(s0, ch, t)
        BY <2>1 DEF SessionOK, Informed
      <4>2. Zombie(s0, ch)' <=> Zombie(s0, ch)
        BY <3>2, <1>1, <1>2, ZombieIs
      <4>3. Subscribed(s0, ch, t)' <=> Subscribed(s0, ch, t)
        BY <3>2, <1>6 DEF Subscribed
      <4>4. Live(s0, ch, t)' <=> Live(s0, ch, t)
        BY <4>2, <4>3 DEF Live
      <4>5. ASSUME NEW u PROVE Coming(ch, u, t)' <=> Coming(ch, u, t)
        BY DEF Coming
      <4>6. copy'[s0][ch] = copy[s0][ch]
        BY <3>2, <1>7
      <4> HIDE DEF Coming, Live
      <4> QED BY <4>1, <4>4, <4>5, <4>6 DEF InformedAt
    <3> QED BY <3>1, <3>2
  <2> QED BY <2>2, <2>3, <2>4, <2>5 DEF SessionOK, Informed
<1> QED BY <1>2, <1>3, <1>8, <1>9, <1>10 DEF AccessInv

\* A client subscribes: its new list takes the place of the old one.
LEMMA SubscribeKeeps ==
  ASSUME AccessInv, NEW ch0 \in Channels, NEW s0 \in Slots, NEW params \in Params[ch0],
         Subscribe(ch0, s0, params)
  PROVE  AccessInv'
<1> DEFINE user == ses[s0].user
           topics == Accepted(ch0, params)
           D == Resubscribed(ch0, s0)
<1>1. TablesOK
  BY DEF AccessInv
<1>2. PICK K \in Kept(ch0, topics) :
        dict_sub' = [D EXCEPT ![ch0][user] = Added(@, s0, topics, K)]
  BY DEF Subscribe
<1>3. /\ user # None /\ wants' = [wants EXCEPT ![s0][ch0] = ToSet(topics)]
      /\ copy' = [copy EXCEPT ![s0][ch0] = version[ch0][user]]
      /\ UNCHANGED <<ses, id_start, logins, kafka, queries, version, lost>>
  BY DEF Subscribe
<1>4. user \in Users /\ version[ch0][user] \in [Topics[ch0] -> Nat]
  BY <1>1, <1>3 DEF TablesOK
<1>5. topics \in Seq(Topics[ch0] \cup {All})
  BY AcceptedIs
<1> HIDE DEF topics
<1>6. K \subseteq DOMAIN topics /\ {topics[i] : i \in K} = ToSet(topics)
  BY <1>5, KeptIs
<1>7. ToSet(topics) \in SUBSET (Topics[ch0] \cup {All})
  BY <1>5 DEF ToSet
<1>8. D = Dropped({ch0}, user, s0)
  BY DEF Resubscribed
<1>9. /\ D = [ch \in Channels |-> D[ch]]
      /\ \A ch \in Channels : D[ch] \in [Users -> Seq(Units(ch))]
      /\ \A ch \in Channels, u \in Users : \A s, t :
           Unit(s, t) \in ToSet(D[ch][u]) <=>
             InList(s, t, ch, u) /\ ~(ch = ch0 /\ u = user /\ s = s0)
  <2> DEFINE chs == {ch0}
  <2>1. \A ch : ch \in chs <=> ch = ch0
    OBVIOUS
  <2>3. D = Dropped(chs, user, s0)
    BY <1>8
  <2> HIDE DEF chs
  <2>2. /\ D = [ch \in Channels |-> D[ch]]
        /\ \A ch \in Channels : D[ch] \in [Users -> Seq(Units(ch))]
        /\ \A ch \in Channels, u \in Users : \A s, t :
             Unit(s, t) \in ToSet(D[ch][u]) <=>
               InList(s, t, ch, u) /\ ~(ch \in chs /\ u = user /\ s = s0)
    <3> HIDE DEF D, user
    <3> QED BY <1>1, <2>3, DroppedIs
  <2> HIDE DEF D, user
  <2> QED BY <2>1, <2>2
<1> DEFINE old == D[ch0][user]
           new == Added(old, s0, topics, K)
<1> HIDE DEF D
<1>10. /\ new \in Seq(Units(ch0))
       /\ ToSet(new) = ToSet(old) \cup {[ses |-> s0, topic |-> topics[i]] : i \in K}
  <2>1. \A i \in DOMAIN topics : [ses |-> s0, topic |-> topics[i]] \in Units(ch0)
    BY <1>5 DEF Units
  <2>2. old \in Seq(Units(ch0))
    BY <1>4, <1>9
  <2> HIDE DEF old
  <2> QED BY <2>1, <2>2, <1>5, <1>6, AddedIs
<1>11. \A s, t : Unit(s, t) \in ToSet(new) <=> Unit(s, t) \in ToSet(old) \/ (s = s0 /\ t \in ToSet(topics))
  <2>1. ASSUME NEW s, NEW t
        PROVE  Unit(s, t) \in {[ses |-> s0, topic |-> topics[i]] : i \in K} <=> s = s0 /\ t \in ToSet(topics)
    BY <1>6 DEF Unit
  <2> QED BY <2>1, <1>10
<1>12. /\ dict_sub'[ch0] = [D[ch0] EXCEPT ![user] = new] /\ DOMAIN dict_sub' = Channels
       /\ dict_sub' = [ch \in Channels |-> dict_sub'[ch]]
       /\ \A ch \in Channels \ {ch0} : dict_sub'[ch] = D[ch]
  BY <1>2, <1>9
<1> HIDE DEF new, old
<1>13. ASSUME NEW ch \in Channels PROVE dict_sub'[ch] \in [Users -> Seq(Units(ch))]
  <2>1. CASE ch = ch0
    BY <2>1, <1>4, <1>9, <1>10, <1>12
  <2>2. CASE ch # ch0
    BY <2>2, <1>9, <1>12
  <2> QED BY <2>1, <2>2
<1>14. ASSUME NEW ch \in Channels, NEW u \in Users, NEW s, NEW t
       PROVE  InList(s, t, ch, u)' <=>
                \/ InList(s, t, ch, u) /\ ~(ch = ch0 /\ u = ses[s0].user /\ s = s0)
                \/ ch = ch0 /\ u = ses[s0].user /\ s = s0 /\ t \in ToSet(topics)
  <2>1. CASE ch = ch0 /\ u = user
    <3>1. dict_sub'[ch][u] = new
      BY <2>1, <1>9, <1>12
    <3>2. InList(s, t, ch, u)' <=> Unit(s, t) \in ToSet(new)
      BY <3>1 DEF InList
    <3>3. Unit(s, t) \in ToSet(old) <=> InList(s, t, ch, u) /\ ~(ch = ch0 /\ u = user /\ s = s0)
      BY <2>1, <1>9 DEF old
    <3> QED BY <2>1, <3>2, <3>3, <1>11
  <2>2. CASE ~(ch = ch0 /\ u = user)
    <3>1. dict_sub'[ch][u] = D[ch][u]
      BY <2>2, <1>4, <1>9, <1>12
    <3> QED BY <2>2, <3>1, <1>9 DEF InList
  <2> QED BY <2>1, <2>2
<1>15. PICK T \in SUBSET (Topics[ch0] \cup {All}) : T = ToSet(topics)
  BY <1>7
<1>16. PICK c \in [Topics[ch0] -> Nat] : c = version[ch0][ses[s0].user]
  BY <1>4
<1> HIDE DEF user
<1>17. /\ \A ch \in Channels, u \in Users : \A s, t :
           InList(s, t, ch, u)' <=>
             \/ InList(s, t, ch, u) /\ ~(ch = ch0 /\ u = ses[s0].user /\ s = s0)
             \/ ch = ch0 /\ u = ses[s0].user /\ s = s0 /\ t \in T
       /\ \A ch \in Channels : dict_sub'[ch] \in [Users -> Seq(Units(ch))]
  BY <1>13, <1>14, <1>15
<1>18. /\ wants' = [wants EXCEPT ![s0][ch0] = T] /\ copy' = [copy EXCEPT ![s0][ch0] = c]
       /\ ses[s0].user # None
  BY <1>3, <1>15, <1>16 DEF user
<1> QED BY <1>3, <1>12, <1>16, <1>17, <1>18, ListReplaced

\* A client unsubscribes: it has no list left.
LEMMA UnsubscribeKeeps ==
  ASSUME AccessInv, NEW ch0 \in Channels, NEW s0 \in Slots, Unsubscribe(ch0, s0)
  PROVE  AccessInv'
<1>1. TablesOK
  BY DEF AccessInv
<1>2. /\ ses[s0].user # None /\ dict_sub' = Dropped({ch0}, ses[s0].user, s0)
      /\ wants' = [wants EXCEPT ![s0][ch0] = {}] /\ copy' = [copy EXCEPT ![s0][ch0] = NoCopy[ch0]]
      /\ UNCHANGED <<ses, id_start, logins, kafka, queries, version, lost>>
  BY DEF Unsubscribe
<1>3. /\ dict_sub' = [ch \in Channels |-> dict_sub'[ch]]
      /\ \A ch \in Channels : dict_sub'[ch] \in [Users -> Seq(Units(ch))]
      /\ \A ch \in Channels, u \in Users : \A s, t :
           InList(s, t, ch, u)' <=>
             \/ InList(s, t, ch, u) /\ ~(ch = ch0 /\ u = ses[s0].user /\ s = s0)
             \/ ch = ch0 /\ u = ses[s0].user /\ s = s0 /\ t \in {}
  <2> DEFINE chs == {ch0}
  <2>1. \A ch : ch \in chs <=> ch = ch0
    OBVIOUS
  <2>3. dict_sub' = Dropped(chs, ses[s0].user, s0)
    BY <1>2
  <2> HIDE DEF chs
  <2>2. /\ dict_sub' = [ch \in Channels |-> dict_sub'[ch]]
        /\ \A ch \in Channels : dict_sub'[ch] \in [Users -> Seq(Units(ch))]
        /\ \A ch \in Channels, u \in Users : \A s, t :
             InList(s, t, ch, u)' <=>
               InList(s, t, ch, u) /\ ~(ch \in chs /\ u = ses[s0].user /\ s = s0)
    BY <1>1, <2>3, DroppedIs DEF InList
  <2> QED BY <2>1, <2>2
<1>4. PICK c \in [Topics[ch0] -> Nat] : c = NoCopy[ch0]
  BY DEF NoCopy
<1>5. PICK T \in SUBSET (Topics[ch0] \cup {All}) : T = {}
  OBVIOUS
<1>6. /\ \A ch \in Channels, u \in Users : \A s, t :
           InList(s, t, ch, u)' <=>
             \/ InList(s, t, ch, u) /\ ~(ch = ch0 /\ u = ses[s0].user /\ s = s0)
             \/ ch = ch0 /\ u = ses[s0].user /\ s = s0 /\ t \in T
      /\ wants' = [wants EXCEPT ![s0][ch0] = T] /\ copy' = [copy EXCEPT ![s0][ch0] = c]
  BY <1>2, <1>3, <1>4, <1>5
<1>7. /\ dict_sub' = [ch \in Channels |-> dict_sub'[ch]]
      /\ \A ch \in Channels : dict_sub'[ch] \in [Users -> Seq(Units(ch))]
      /\ ses[s0].user # None
      /\ UNCHANGED <<ses, id_start, logins, kafka, queries, version, lost>>
  BY <1>2, <1>3
<1>8. T \in SUBSET (Topics[ch0] \cup {All}) /\ (T = {} \/ c = version[ch0][ses[s0].user])
  BY <1>5
<1> QED BY <1>4, <1>6, <1>7, <1>8, ListReplaced

------------------------------------------------------------------------------
(* What the match engine tells.                                             *)

\* A change: clients know less than there is now, and a message about it is under way.
LEMMA UpdateKeeps ==
  ASSUME AccessInv, NEW ch0 \in Channels, NEW u0 \in Users, NEW t0 \in Topics[ch0], Update(ch0, u0, t0)
  PROVE  AccessInv'
<1> DEFINE moved == IF ch0 = "order" THEN ToSet(Legs[t0]) ELSE {}
           plus(c, u, t) == IF u = u0 /\ (<<c, t>> = <<ch0, t0>> \/ (c = "asset" /\ t \in moved))
                            THEN 1 ELSE 0
           msg == [user |-> u0, topic |-> t0, version |-> version'[ch0][u0][t0]]
<1>1. /\ version' = [c \in Channels |-> [u \in Users |-> [t \in Topics[c] |->
            version[c][u][t] + plus(c, u, t)]]]
      /\ kafka' = [kafka EXCEPT ![ch0] = Append(@, msg)]
      /\ UNCHANGED <<ses, id_start, logins, dict_sub, queries, wants, copy, lost>>
  BY DEF Update, clients
<1>2. TablesOK /\ ClientsOK /\ Published /\ \A s \in Slots : SessionOK(s)
  BY DEF AccessInv
<1>3. \A c \in Channels, u \in Users : \A t \in Topics[c] :
         /\ version[c][u][t] \in Nat /\ version'[c][u][t] = version[c][u][t] + plus(c, u, t)
         /\ plus(c, u, t) \in {0, 1}
  BY <1>1, <1>2 DEF TablesOK
<1>31. \A c \in Channels, u \in Users : \A t \in Topics[c] :
         /\ version'[c][u][t] \in Nat /\ version[c][u][t] <= version'[c][u][t]
         /\ plus(c, u, t) = 0 => version'[c][u][t] = version[c][u][t]
  <2> HIDE DEF plus
  <2> SUFFICES ASSUME NEW c \in Channels, NEW u \in Users, NEW t \in Topics[c]
               PROVE  /\ version'[c][u][t] \in Nat /\ version[c][u][t] <= version'[c][u][t]
                      /\ plus(c, u, t) = 0 => version'[c][u][t] = version[c][u][t]
    OBVIOUS
  <2>1. /\ version[c][u][t] \in Nat /\ version'[c][u][t] = version[c][u][t] + plus(c, u, t)
        /\ plus(c, u, t) \in {0, 1}
    BY <1>3
  <2> QED BY <2>1
<1>32. plus(ch0, u0, t0) = 1
  OBVIOUS
<1>33. \A c, u, t : plus(c, u, t) # 0 => u = u0 /\ ((c = ch0 /\ t = t0) \/ (c = "asset" /\ t \in moved))
  OBVIOUS
<1> HIDE DEF plus
<1>4. \A c \in Channels : version'[c] \in [Users -> [Topics[c] -> Nat]]
  <2> SUFFICES ASSUME NEW c \in Channels PROVE version'[c] \in [Users -> [Topics[c] -> Nat]]
    OBVIOUS
  <2>1. version'[c] = [u \in Users |-> [t \in Topics[c] |-> version[c][u][t] + plus(c, u, t)]]
    BY <1>1
  <2>2. \A u \in Users : \A t \in Topics[c] : version[c][u][t] + plus(c, u, t) \in Nat
    BY <1>3, <1>31
  <2> QED BY <2>1, <2>2
<1>5. msg \in Messages(ch0)
  BY <1>31 DEF Messages
<1>6. /\ kafka' = [c \in Channels |-> kafka'[c]]
      /\ \A c \in Channels : kafka'[c] \in Seq(Messages(c))
      /\ \A c \in Channels \ {ch0} : kafka'[c] = kafka[c]
      /\ ToSet(kafka'[ch0]) = ToSet(kafka[ch0]) \cup {msg}
  <2>1. kafka = [c \in Channels |-> kafka[c]] /\ \A c \in Channels : kafka[c] \in Seq(Messages(c))
    BY <1>2 DEF TablesOK
  <2> HIDE DEF msg
  <2>2. kafka'[ch0] = Append(kafka[ch0], msg) /\ \A c \in Channels \ {ch0} : kafka'[c] = kafka[c]
    BY <1>1, <2>1
  <2>3. kafka'[ch0] \in Seq(Messages(ch0)) /\ ToSet(kafka'[ch0]) = ToSet(kafka[ch0]) \cup {msg}
    BY <1>5, <2>1, <2>2, ElementsAppend
  <2>4. \A c \in Channels : kafka'[c] \in Seq(Messages(c))
    BY <2>1, <2>2, <2>3
  <2>5. kafka' = [c \in Channels |-> kafka'[c]]
    BY <1>1, <2>1
  <2> QED BY <2>2, <2>3, <2>4, <2>5
<1>7. TablesOK'
  <2>1. version' = [c \in Channels |-> version'[c]]
    BY <1>1
  <2> QED BY <1>1, <1>2, <1>4, <1>6, <2>1 DEF TablesOK, Units, Messages, Asks, Logins
<1>8. ClientsOK'
  BY <1>1, <1>2 DEF ClientsOK
<1>9. Published'
  <2> SUFFICES ASSUME NEW m \in ToSet(kafka'["order"])
               PROVE  m.version <= version'["order"][m.user][m.topic]
    BY DEF Published
  <2>0. "order" \in Channels
    BY ChannelsAre
  <2>1. CASE m = msg /\ ch0 = "order"
    BY <2>1, <1>31
  <2>2. CASE m \in ToSet(kafka["order"])
    <3>1. m \in Messages("order")
      <4>1. kafka["order"] \in Seq(Messages("order"))
        BY <2>0, <1>2 DEF TablesOK
      <4> QED BY <4>1, <2>2 DEF ToSet
    <3>2. m.user \in Users /\ m.topic \in Topics["order"] /\ m.version \in Nat
      BY <3>1 DEF Messages
    <3>3. m.version <= version["order"][m.user][m.topic]
      BY <2>2, <1>2 DEF Published
    <3>4. /\ version["order"][m.user][m.topic] \in Nat /\ version'["order"][m.user][m.topic] \in Nat
          /\ version["order"][m.user][m.topic] <= version'["order"][m.user][m.topic]
      BY <3>2, <2>0, <1>3, <1>31
    <3> QED BY <3>2, <3>3, <3>4
  <2> HIDE DEF msg
  <2> QED BY <2>0, <2>1, <2>2, <1>6
<1>10. ASSUME NEW s \in Slots PROVE SessionOK(s)'
  <2>1. Bystander(s) /\ SessionOK(s)
    BY <1>1, <1>2 DEF Bystander, SameUnits, InList, SessionOK, Idle
  <2>2. /\ Idle(s)' /\ Listed(s)' /\ Members(s)'
        /\ \A ch \in Channels : \A t : Live(s, ch, t)' <=> Live(s, ch, t)
    BY <2>1, <1>2, <1>7, BystanderKeeps
  <2>3. ASSUME NEW ch \in Channels, NEW t \in Topics[ch] PROVE InformedAt(s, ch, t)'
    <3> SUFFICES ASSUME Live(s, ch, t)
                 PROVE  /\ copy[s][ch][t] <= version'[ch][ses[s].user][t]
                        /\ copy[s][ch][t] # version'[ch][ses[s].user][t] =>
                             Coming(ch, ses[s].user, t)' \/ Key(ch, ses[s].user, t) \in lost
      BY <1>1, <2>2 DEF InformedAt
    <3>1. ses[s].user \in Users
      BY <1>2 DEF Live, TablesOK
    <3>2. PICK u \in Users : u = ses[s].user
      BY <3>1
    <3>3. /\ copy[s][ch][t] <= version[ch][u][t]
          /\ copy[s][ch][t] # version[ch][u][t] => Coming(ch, u, t) \/ Key(ch, u, t) \in lost
      BY <2>1, <3>2 DEF SessionOK, Informed, InformedAt
    <3>4. /\ copy[s][ch][t] \in Nat /\ version[ch][u][t] \in Nat /\ version'[ch][u][t] \in Nat
          /\ version[ch][u][t] <= version'[ch][u][t]
      BY <1>2, <1>3, <1>31 DEF ClientsOK
    <3>5. copy[s][ch][t] <= version'[ch][u][t]
      BY <3>3, <3>4
    <3>6. ASSUME copy[s][ch][t] # version'[ch][u][t]
          PROVE  Coming(ch, u, t)' \/ Key(ch, u, t) \in lost
      <4>1. CASE plus(ch, u, t) = 0
        <5>1. version'[ch][u][t] = version[ch][u][t]
          BY <4>1, <1>31
        <5>2. CASE Coming(ch, u, t)
          <6>1. /\ ToSet(kafka[ch]) \subseteq ToSet(kafka'[ch])
                /\ ToSet(kafka["order"]) \subseteq ToSet(kafka'["order"])
            <7>1. \A c \in Channels : ToSet(kafka[c]) \subseteq ToSet(kafka'[c])
              BY <1>6
            <7> QED BY <7>1, ChannelsAre
          <6>2. queries' = queries
            BY <1>1
          <6> QED BY <5>1, <5>2, <6>1, <6>2 DEF Coming
        <5> QED BY <5>1, <5>2, <3>3, <3>6
      <4>2. CASE plus(ch, u, t) # 0
        <5>1. u = u0 /\ ((ch = ch0 /\ t = t0) \/ (ch = "asset" /\ t \in moved))
          BY <4>2, <1>33
        <5>2. msg \in ToSet(kafka'[ch0]) /\ msg.user = u0 /\ msg.topic = t0
              /\ msg.version = version'[ch0][u0][t0]
          BY <1>6
        <5>3. CASE ch = ch0 /\ t = t0
          BY <5>1, <5>2, <5>3 DEF Coming
        <5>4. CASE ch = "asset" /\ t \in moved
          <6>1. ch0 = "order" /\ t \in ToSet(Legs[t0])
            BY <5>4
          <6>2. msg \in ToSet(kafka'["order"]) /\ msg.user = u /\ t \in ToSet(Legs[msg.topic])
            BY <6>1, <5>1, <5>2
          <6> HIDE DEF msg
          <6> QED BY <6>2, <5>4 DEF Coming
        <5> QED BY <5>1, <5>3, <5>4
      <4> QED BY <4>1, <4>2
    <3> QED BY <1>1, <3>2, <3>5, <3>6
  <2> QED BY <2>2, <2>3 DEF SessionOK, Informed
<1> QED BY <1>7, <1>8, <1>9, <1>10 DEF AccessInv

\* What sessions that are told of a change know of it then.
Heard(s, ch0, u0, t0, v) ==
  \A ch \in Channels : \A t \in Topics[ch] : Live(s, ch, t) =>
    /\ copy[s][ch][t] <= copy'[s][ch][t]
    /\ copy'[s][ch][t] # copy[s][ch][t] =>
         ch = ch0 /\ ses[s].user = u0 /\ t = t0 /\ copy'[s][ch][t] = v
    /\ ch = ch0 /\ ses[s].user = u0 /\ t = t0 => v <= copy'[s][ch][t]

\* Told, for one session: it knows the newer of what it knew and what it is told.
LEMMA ToldIs ==
  ASSUME NEW c, NEW s \in Slots, NEW ch0 \in Channels, NEW t0 \in Topics[ch0], NEW ss, NEW v \in Nat,
         c[s] = [ch \in Channels |-> c[s][ch]], \A ch \in Channels : c[s][ch] \in [Topics[ch] -> Nat],
         NEW new, new = Told(c, ch0, t0, ss, v)[s]
  PROVE  /\ new = [ch \in Channels |-> new[ch]]
         /\ \A ch \in Channels : new[ch] \in [Topics[ch] -> Nat]
         /\ \A ch \in Channels : \A t \in Topics[ch] : c[s][ch][t] <= new[ch][t]
         /\ \A ch \in Channels : \A t \in Topics[ch] :
              new[ch][t] # c[s][ch][t] => ch = ch0 /\ t = t0 /\ s \in ss /\ new[ch][t] = v
         /\ s \in ss /\ Subscribed(s, ch0, t0) => v <= new[ch0][t0]
         /\ s \notin ss => new = c[s]
<1> DEFINE old == c[s][ch0][t0]
           w == Max({old, v})
<1>1. old \in Nat
  OBVIOUS
<1>2. w \in {old, v} /\ old <= w /\ v <= w /\ w \in Nat
  <2> DEFINE S == {old, v}
  <2>1. S \subseteq Int /\ S # {} /\ IsFiniteSet(S)
    <3>1. IsFiniteSet({old}) /\ IsFiniteSet({v})
      BY FS_Singleton
    <3>2. IsFiniteSet({old} \cup {v})
      BY <3>1, FS_Union
    <3>3. S = {old} \cup {v}
      OBVIOUS
    <3>4. S \subseteq Int
      BY <1>1
    <3>5. S # {}
      OBVIOUS
    <3> HIDE DEF S
    <3>6. IsFiniteSet(S)
      BY <3>2, <3>3, Zenon
    <3> QED BY <3>4, <3>5, <3>6
  <2>2. old \in S /\ v \in S /\ \A x \in S : x = old \/ x = v
    OBVIOUS
  <2>3. Max(S) \in S /\ \A x \in S : x <= Max(S)
    <3> HIDE DEF S
    <3> QED BY <2>1, MaxIsIn
  <2> HIDE DEF S
  <2>4. w = Max(S)
    BY DEF S
  <2> QED BY <1>1, <2>2, <2>3, <2>4
<1>3. new = IF s \in ss /\ Subscribed(s, ch0, t0) THEN [c[s] EXCEPT ![ch0][t0] = w] ELSE c[s]
  BY DEF Told
<1> HIDE DEF w
<1>4. CASE s \in ss /\ Subscribed(s, ch0, t0)
  <2>1. new = [c[s] EXCEPT ![ch0] = [c[s][ch0] EXCEPT ![t0] = w]]
    BY <1>3, <1>4
  <2> DEFINE f == [c[s][ch0] EXCEPT ![t0] = w]
  <2>2. f \in [Topics[ch0] -> Nat] /\ f[t0] = w /\ \A t \in Topics[ch0] \ {t0} : f[t] = c[s][ch0][t]
    BY <1>2
  <2> HIDE DEF f
  <2>3. /\ new[ch0] = f /\ (\A ch \in Channels \ {ch0} : new[ch] = c[s][ch])
        /\ new = [ch \in Channels |-> new[ch]]
    BY <2>1 DEF f
  <2>4. \A ch \in Channels : new[ch] \in [Topics[ch] -> Nat]
    BY <2>2, <2>3
  <2>5. ASSUME NEW ch \in Channels, NEW t \in Topics[ch]
        PROVE  c[s][ch][t] <= new[ch][t]
               /\ (new[ch][t] # c[s][ch][t] => ch = ch0 /\ t = t0 /\ s \in ss /\ new[ch][t] = v)
    <3>1. CASE ch = ch0 /\ t = t0
      BY <3>1, <1>2, <1>4, <2>2, <2>3
    <3>2. CASE ~(ch = ch0 /\ t = t0)
      <4>1. new[ch][t] = c[s][ch][t] /\ c[s][ch][t] \in Nat
        BY <3>2, <2>2, <2>3
      <4> QED BY <4>1
    <3> QED BY <3>1, <3>2
  <2> QED BY <1>2, <1>4, <2>2, <2>3, <2>4, <2>5
<1>5. CASE ~(s \in ss /\ Subscribed(s, ch0, t0))
  <2>1. new = c[s]
    BY <1>3, <1>5
  <2>2. \A ch \in Channels : \A t \in Topics[ch] : c[s][ch][t] <= c[s][ch][t]
    <3>1. \A ch \in Channels : \A t \in Topics[ch] : c[s][ch][t] \in Nat
      OBVIOUS
    <3> QED BY <3>1
  <2> QED BY <1>5, <2>1, <2>2
<1> QED BY <1>4, <1>5

\* A telling that comes to the end of the list: who is live and logged in as the user hears
\* of it, and no one else's knowledge changes.
LEMMA NotifyIs ==
  ASSUME AccessInv, NEW ch0 \in Channels, NEW u0 \in Users, NEW t0 \in Topics[ch0], NEW v \in Nat,
         Notify(ch0, u0, t0, v)
  PROVE  /\ UNCHANGED <<ses, dict_sub>> /\ ClientsOK'
         /\ \A s \in Slots : Bystander(s) /\ Heard(s, ch0, u0, t0, v)
<1> DEFINE list == dict_sub[ch0][u0]
           ss == {list[i].ses : i \in Hits(list, t0)}
<1>1. TablesOK /\ ClientsOK /\ \A s \in Slots : SessionOK(s)
  BY DEF AccessInv
<1>2. copy' = Told(copy, ch0, t0, ss, v) /\ UNCHANGED <<ses, dict_sub, wants>>
  BY DEF Notify
<1>3. ASSUME NEW s \in Slots PROVE s \in ss <=> \E i \in Hits(list, t0) : list[i].ses = s
  OBVIOUS
<1> HIDE DEF ss
<1>4. ASSUME NEW s \in Slots
      PROVE  /\ copy'[s] = [ch \in Channels |-> copy'[s][ch]]
             /\ \A ch \in Channels : copy'[s][ch] \in [Topics[ch] -> Nat]
             /\ \A ch \in Channels : \A t \in Topics[ch] : copy[s][ch][t] <= copy'[s][ch][t]
             /\ \A ch \in Channels : \A t \in Topics[ch] :
                  copy'[s][ch][t] # copy[s][ch][t] => ch = ch0 /\ t = t0 /\ s \in ss /\ copy'[s][ch][t] = v
             /\ s \in ss /\ Subscribed(s, ch0, t0) => v <= copy'[s][ch0][t0]
  <2>1. /\ copy[s] = [ch \in Channels |-> copy[s][ch]]
        /\ \A ch \in Channels : copy[s][ch] \in [Topics[ch] -> Nat]
    BY <1>1 DEF ClientsOK
  <2>2. copy'[s] = Told(copy, ch0, t0, ss, v)[s]
    BY <1>2
  <2> QED BY <2>1, <2>2, ToldIs
<1>5. copy' = [s \in Slots |-> copy'[s]]
  BY <1>2 DEF Told
<1>6. copy' = [s \in Slots |-> [ch \in Channels |-> copy'[s][ch]]]
  BY <1>4, <1>5
<1>7. ClientsOK'
  BY <1>1, <1>2, <1>4, <1>6 DEF ClientsOK
<1>8. ASSUME NEW s \in Slots PROVE Bystander(s)
  BY <1>1, <1>2 DEF Bystander, SameUnits, InList, SessionOK, Idle
<1>9. ASSUME NEW s \in Slots, NEW ch \in Channels, NEW t \in Topics[ch], Live(s, ch, t)
      PROVE  /\ copy[s][ch][t] <= copy'[s][ch][t]
             /\ copy'[s][ch][t] # copy[s][ch][t] =>
                  ch = ch0 /\ ses[s].user = u0 /\ t = t0 /\ copy'[s][ch][t] = v
             /\ ch = ch0 /\ ses[s].user = u0 /\ t = t0 => v <= copy'[s][ch][t]
  <2>1. ses[s].user # None /\ ~Zombie(s, ch) /\ Subscribed(s, ch, t)
    BY <1>9 DEF Live
  <2>2. s \in ss /\ ch = ch0 => ses[s].user = u0
    BY <1>1, <1>3, <2>1, HitIsUser DEF Hits
  <2>3. ch = ch0 /\ ses[s].user = u0 /\ t = t0 => s \in ss
    BY <1>1, <1>3, <2>1, LiveIsHit DEF SessionOK
  <2> QED BY <1>4, <2>1, <2>2, <2>3
<1>10. ASSUME NEW s \in Slots PROVE Heard(s, ch0, u0, t0, v)
  <2> HIDE DEF Live
  <2> QED BY <1>9 DEF Heard
<1> QED BY <1>2, <1>7, <1>8, <1>10

\* A telling on which a session is closed: the same, but for that session.
LEMMA BrokenIs ==
  ASSUME AccessInv, NEW ch0 \in Channels, NEW u0 \in Users, NEW t0 \in Topics[ch0], NEW v \in Nat,
         NEW i0 \in Hits(dict_sub[ch0][u0], t0), NotifyBroken(ch0, u0, t0, v, i0)
  PROVE  /\ ses' \in [Slots -> [id : Nat, user : Users \cup {None}]]
         /\ dict_sub' = [ch \in Channels |-> dict_sub'[ch]]
         /\ \A ch \in Channels : dict_sub'[ch] \in [Users -> Seq(Units(ch))]
         /\ ClientsOK'
         /\ \A s \in Slots : Blank(s)' \/ (Bystander(s) /\ Heard(s, ch0, u0, t0, v))
<1> DEFINE list == dict_sub[ch0][u0]
<1>1. TablesOK /\ ClientsOK /\ \A s \in Slots : SessionOK(s)
  BY DEF AccessInv
<1>0. list \in Seq(Units(ch0)) /\ i0 \in DOMAIN list
  BY <1>1, ListsType DEF Hits
<1>01. list[i0] \in Units(ch0)
  BY <1>0
<1>02. PICK s0 \in Slots : s0 = list[i0].ses
  BY <1>01 DEF Units
<1> DEFINE ss == {list[i].ses : i \in Hits(list, t0)} \ {s0}
           c == [copy EXCEPT ![s0] = NoCopy]
<1>2. copy' = Told(c, ch0, t0, ss, v) /\ dict_sub' = Closed(s0) /\ ses' = [ses EXCEPT ![s0] = Free]
      /\ wants' = [wants EXCEPT ![s0] = Nothing]
  BY <1>02 DEF NotifyBroken
<1>3. ASSUME NEW s \in Slots PROVE s \in ss <=> s # s0 /\ \E i \in Hits(list, t0) : list[i].ses = s
  OBVIOUS
<1> HIDE DEF ss
<1>4. /\ c = [s \in Slots |-> [ch \in Channels |-> c[s][ch]]]
      /\ \A s \in Slots : \A ch \in Channels : c[s][ch] \in [Topics[ch] -> Nat]
      /\ \A s \in Slots \ {s0} : c[s] = copy[s]
  <2>1. /\ NoCopy = [ch \in Channels |-> NoCopy[ch]]
        /\ \A ch \in Channels : NoCopy[ch] \in [Topics[ch] -> Nat]
    BY DEF NoCopy
  <2>2. /\ copy = [s \in Slots |-> [ch \in Channels |-> copy[s][ch]]]
        /\ \A s \in Slots, ch \in Channels : copy[s][ch] \in [Topics[ch] -> Nat]
    BY <1>1 DEF ClientsOK
  <2>3. /\ DOMAIN c = Slots /\ c[s0] = NoCopy /\ \A s \in Slots \ {s0} : c[s] = copy[s]
        /\ c = [s \in Slots |-> c[s]]
    BY <2>2
  <2> HIDE DEF c
  <2>4. \A s \in Slots : c[s] = [ch \in Channels |-> c[s][ch]]
    BY <2>1, <2>2, <2>3
  <2>5. c = [s \in Slots |-> [ch \in Channels |-> c[s][ch]]]
    BY <2>3, <2>4
  <2> QED BY <2>1, <2>2, <2>3, <2>5
<1> HIDE DEF c
<1>5. ASSUME NEW s \in Slots
      PROVE  /\ copy'[s] = [ch \in Channels |-> copy'[s][ch]]
             /\ \A ch \in Channels : copy'[s][ch] \in [Topics[ch] -> Nat]
             /\ \A ch \in Channels : \A t \in Topics[ch] : c[s][ch][t] <= copy'[s][ch][t]
             /\ \A ch \in Channels : \A t \in Topics[ch] :
                  copy'[s][ch][t] # c[s][ch][t] => ch = ch0 /\ t = t0 /\ s \in ss /\ copy'[s][ch][t] = v
             /\ s \in ss /\ Subscribed(s, ch0, t0) => v <= copy'[s][ch0][t0]
  <2>1. /\ c[s] = [ch \in Channels |-> c[s][ch]]
        /\ \A ch \in Channels : c[s][ch] \in [Topics[ch] -> Nat]
    BY <1>4
  <2>2. copy'[s] = Told(c, ch0, t0, ss, v)[s]
    BY <1>2
  <2> QED BY <2>1, <2>2, ToldIs
<1>6. copy' = [s \in Slots |-> copy'[s]]
  BY <1>2 DEF Told
<1>7. copy' = [s \in Slots |-> [ch \in Channels |-> copy'[s][ch]]]
  BY <1>5, <1>6
<1>8. ClientsOK' /\ \A ch \in Channels : wants'[s0][ch] = {}
  <2> DEFINE W == SUBSET UNION {Topics[ch] \cup {All} : ch \in Channels}
  <2>1. Nothing \in [Channels -> W] /\ \A ch \in Channels : Nothing[ch] = {}
    BY DEF Nothing
  <2>2. /\ wants \in [Slots -> [Channels -> W]]
        /\ \A s \in Slots, ch \in Channels : wants[s][ch] \subseteq Topics[ch] \cup {All}
    BY <1>1 DEF ClientsOK
  <2> HIDE DEF W
  <2>3. /\ wants' \in [Slots -> [Channels -> W]] /\ wants'[s0] = Nothing
        /\ \A s \in Slots \ {s0} : wants'[s] = wants[s]
    BY <1>2, <2>1, <2>2
  <2>4. \A s \in Slots, ch \in Channels : wants'[s][ch] \subseteq Topics[ch] \cup {All}
    BY <2>1, <2>2, <2>3
  <2> QED BY <1>5, <1>7, <2>1, <2>3, <2>4 DEF ClientsOK, W
<1>9. \A s \in Slots \ {s0} : wants'[s] = wants[s]
  BY <1>1, <1>2 DEF ClientsOK
<1>10. /\ ses' \in [Slots -> [id : Nat, user : Users \cup {None}]]
       /\ dict_sub' = [ch \in Channels |-> dict_sub'[ch]]
       /\ \A ch \in Channels : dict_sub'[ch] \in [Users -> Seq(Units(ch))]
       /\ Blank(s0)' /\ \A s \in Slots \ {s0} : Bystander(s)
  BY <1>1, <1>2, <1>8, <1>9, ClosedIs
<1>11. ASSUME NEW s \in Slots \ {s0}, NEW ch \in Channels, NEW t \in Topics[ch], Live(s, ch, t)
       PROVE  /\ copy[s][ch][t] <= copy'[s][ch][t]
              /\ copy'[s][ch][t] # copy[s][ch][t] =>
                   ch = ch0 /\ ses[s].user = u0 /\ t = t0 /\ copy'[s][ch][t] = v
              /\ ch = ch0 /\ ses[s].user = u0 /\ t = t0 => v <= copy'[s][ch][t]
  <2>1. ses[s].user # None /\ ~Zombie(s, ch) /\ Subscribed(s, ch, t) /\ s \in Slots /\ c[s] = copy[s]
    BY <1>4, <1>11 DEF Live
  <2>2. s \in ss /\ ch = ch0 => ses[s].user = u0
    BY <1>1, <1>3, <2>1, HitIsUser DEF Hits
  <2>3. ch = ch0 /\ ses[s].user = u0 /\ t = t0 => s \in ss
    BY <1>1, <1>3, <1>11, <2>1, LiveIsHit DEF SessionOK
  <2>4. /\ c[s][ch][t] <= copy'[s][ch][t]
        /\ copy'[s][ch][t] # c[s][ch][t] => ch = ch0 /\ t = t0 /\ s \in ss /\ copy'[s][ch][t] = v
        /\ s \in ss /\ Subscribed(s, ch0, t0) => v <= copy'[s][ch0][t0]
    BY <1>5, <2>1
  <2>5. c[s][ch][t] = copy[s][ch][t]
    BY <2>1
  <2> QED BY <2>1, <2>2, <2>3, <2>4, <2>5
<1>12. ASSUME NEW s \in Slots \ {s0} PROVE Heard(s, ch0, u0, t0, v)
  <2> HIDE DEF Live
  <2> QED BY <1>11 DEF Heard
<1> QED BY <1>8, <1>10, <1>12

\* What was under way for a session still is, but for the telling.
StillComing(s, ch0, u0, t0, v) ==
  \A ch \in Channels : \A t \in Topics[ch] :
    Live(s, ch, t) /\ (Coming(ch, ses[s].user, t) \/ Key(ch, ses[s].user, t) \in lost) =>
      \/ Coming(ch, ses[s].user, t)' \/ Key(ch, ses[s].user, t) \in lost'
      \/ ch = ch0 /\ ses[s].user = u0 /\ t = t0 /\ v = version[ch0][u0][t0]

\* Whoever hears of a change that was, and of whom all else that was under way still is, is
\* as well informed as before.
LEMMA HeardOK ==
  ASSUME TablesOK, ClientsOK, TablesOK', ClientsOK', NEW s \in Slots, SessionOK(s), Bystander(s),
         UNCHANGED version, NEW ch0 \in Channels, NEW u0 \in Users, NEW t0 \in Topics[ch0],
         NEW v \in Nat, v <= version[ch0][u0][t0], Heard(s, ch0, u0, t0, v), StillComing(s, ch0, u0, t0, v)
  PROVE  SessionOK(s)'
<1>1. /\ Idle(s)' /\ Listed(s)' /\ Members(s)'
      /\ \A ch \in Channels : \A t : Live(s, ch, t)' <=> Live(s, ch, t)
  BY BystanderKeeps
<1>2. ses'[s].user = ses[s].user
  BY DEF Bystander
<1>3. ASSUME NEW ch \in Channels, NEW t \in Topics[ch] PROVE InformedAt(s, ch, t)'
  <2> SUFFICES ASSUME Live(s, ch, t)
               PROVE  /\ copy'[s][ch][t] <= version[ch][ses[s].user][t]
                      /\ copy'[s][ch][t] # version[ch][ses[s].user][t] =>
                           Coming(ch, ses[s].user, t)' \/ Key(ch, ses[s].user, t) \in lost'
    BY <1>1, <1>2 DEF InformedAt
  <2>1. ses[s].user \in Users
    BY DEF Live, TablesOK
  <2>2. PICK u \in Users : u = ses[s].user
    BY <2>1
  <2> DEFINE old == copy[s][ch][t]
             new == copy'[s][ch][t]
             n == version[ch][u][t]
  <2>3. old \in Nat /\ new \in Nat /\ n \in Nat
    <3>1. copy[s][ch] \in [Topics[ch] -> Nat] /\ copy'[s][ch] \in [Topics[ch] -> Nat]
      BY DEF ClientsOK
    <3>2. version[ch] \in [Users -> [Topics[ch] -> Nat]]
      BY DEF TablesOK
    <3> QED BY <3>1, <3>2
  <2>4. old <= n /\ (old # n => Coming(ch, u, t) \/ Key(ch, u, t) \in lost)
    BY <2>2 DEF SessionOK, Informed, InformedAt
  <2>5. /\ old <= new /\ (new # old => ch = ch0 /\ u = u0 /\ t = t0 /\ new = v)
        /\ ch = ch0 /\ u = u0 /\ t = t0 => v <= new
    <3> HIDE DEF Live
    <3> QED BY <2>2 DEF Heard
  <2>6. new <= n
    BY <2>3, <2>4, <2>5
  <2>7. ASSUME new # n PROVE Coming(ch, u, t)' \/ Key(ch, u, t) \in lost'
    <3>1. old # n
      BY <2>3, <2>5, <2>6, <2>7
    <3>2. ~(ch = ch0 /\ u = u0 /\ t = t0 /\ v = version[ch0][u0][t0])
      <4> SUFFICES ASSUME ch = ch0, u = u0, t = t0, v = version[ch0][u0][t0] PROVE FALSE
        OBVIOUS
      <4>1. v = n /\ v <= new
        BY <2>5
      <4> HIDE DEF n, new
      <4> QED BY <4>1, <2>3, <2>6, <2>7
    <3> HIDE DEF n, new, old, Live, Coming
    <3>3. Coming(ch, u, t) \/ Key(ch, u, t) \in lost
      BY <3>1, <2>4
    <3>4. ses'[s].user = u
      BY <1>2, <2>2
    <3> QED BY <2>2, <3>2, <3>3, <3>4 DEF StillComing
  <2>8. ses'[s].user = u
    BY <1>2, <2>2
  <2> HIDE DEF Live, Coming
  <2> QED BY <2>2, <2>6, <2>7, <2>8
<1> QED BY <1>1, <1>3 DEF SessionOK, Informed

\* A process that knows nothing yet.
Fresh ==
  /\ ses = [s \in Slots |-> Free] /\ id_start \in Nat \ {0}
  /\ logins = <<>> /\ dict_sub = NoSubs /\ kafka = Empty /\ queries = Empty
  /\ version = [ch \in Channels |-> version[ch]]
  /\ \A ch \in Channels : version[ch] \in [Users -> [Topics[ch] -> Nat]]
  /\ wants = [s \in Slots |-> Nothing] /\ copy = [s \in Slots |-> NoCopy]

\* All is as it should be when nothing has happened.
LEMMA FreshOK == Fresh => AccessInv
<1> SUFFICES ASSUME Fresh PROVE AccessInv
  OBVIOUS
<1>1. TablesOK
  <2>1. ses \in [Slots -> [id : Nat, user : Users \cup {None}]]
    BY DEF Fresh, Free
  <2>2. /\ dict_sub = [ch \in Channels |-> dict_sub[ch]]
        /\ \A ch \in Channels : dict_sub[ch] \in [Users -> Seq(Units(ch))]
    <3>1. dict_sub = [ch \in Channels |-> [u \in Users |-> <<>>]]
      BY DEF Fresh, NoSubs
    <3>2. \A ch \in Channels : <<>> \in Seq(Units(ch))
      OBVIOUS
    <3> QED BY <3>1, <3>2
  <2>3. /\ kafka = [ch \in Channels |-> kafka[ch]] /\ queries = [ch \in Channels |-> queries[ch]]
        /\ \A ch \in Channels : kafka[ch] \in Seq(Messages(ch)) /\ queries[ch] \in Seq(Asks(ch))
    <3>1. kafka = [ch \in Channels |-> <<>>] /\ queries = [ch \in Channels |-> <<>>]
      BY DEF Fresh, Empty
    <3>2. \A ch \in Channels : <<>> \in Seq(Messages(ch)) /\ <<>> \in Seq(Asks(ch))
      OBVIOUS
    <3> QED BY <3>1, <3>2
  <2>4. logins \in Seq(Logins)
    BY DEF Fresh
  <2> QED BY <2>1, <2>2, <2>3, <2>4 DEF Fresh, TablesOK
<1>2. ClientsOK
  <2>1. wants = [s \in Slots |-> [ch \in Channels |-> {}]]
    BY DEF Fresh, Nothing
  <2>2. copy = [s \in Slots |-> [ch \in Channels |-> [t \in Topics[ch] |-> 0]]]
    BY DEF Fresh, NoCopy
  <2>3. copy = [s \in Slots |-> [ch \in Channels |-> copy[s][ch]]]
    BY <2>2
  <2>4. \A s \in Slots, ch \in Channels : copy[s][ch] \in [Topics[ch] -> Nat]
    BY <2>2
  <2> QED BY <2>1, <2>3, <2>4 DEF ClientsOK
<1>3. Published
  <2>1. kafka["order"] = <<>>
    BY ChannelsAre DEF Fresh, Empty
  <2> QED BY <2>1 DEF Published, ToSet
<1>4. ASSUME NEW s \in Slots PROVE SessionOK(s)
  <2>1. ses[s].user = None /\ \A ch \in Channels : wants[s][ch] = {}
    BY DEF Fresh, Free, Nothing
  <2>2. \A ch \in Channels, u \in Users : \A t : ~InList(s, t, ch, u)
    <3>1. \A ch \in Channels, u \in Users : dict_sub[ch][u] = <<>>
      BY DEF Fresh, NoSubs
    <3> QED BY <3>1 DEF InList, ToSet
  <2> QED BY <2>1, <2>2, ChannelsAre DEF SessionOK, Idle, Listed, Members, Informed, InformedAt, Live
<1> QED BY <1>1, <1>2, <1>3, <1>4 DEF AccessInv

\* The process crashes and starts again.
LEMMA RestartKeeps == ASSUME AccessInv, Restarted PROVE AccessInv'
<1>1. Fresh'
  BY DEF Restarted, Fresh, AccessInv, TablesOK
<1>2. Fresh' => AccessInv'
  BY FreshOK, PTL
<1> QED BY <1>1, <1>2


\* A table of lists for the channels.
TableOf(table, R) ==
  table = [ch \in Channels |-> table[ch]] /\ \A ch \in Channels : table[ch] \in Seq(R[ch])

\* It has lost the oldest entry of a channel, and nothing else.
OldestTaken(table, rest, R, ch0) ==
  /\ TableOf(rest, R)
  /\ Head(table[ch0]) \in R[ch0] /\ Head(table[ch0]) \in ToSet(table[ch0])
  /\ \A ch \in Channels : ToSet(rest[ch]) \subseteq ToSet(table[ch])
  /\ \A ch \in Channels : \A x \in ToSet(table[ch]) :
       x \in ToSet(rest[ch]) \/ (ch = ch0 /\ x = Head(table[ch0]))

\* That is what taking the head of a list out of a table does.
LEMMA HeadTaken ==
  ASSUME NEW R, NEW table, NEW rest, TableOf(table, R), NEW ch0 \in Channels, table[ch0] # <<>>,
         rest = [table EXCEPT ![ch0] = Tail(@)]
  PROVE  OldestTaken(table, rest, R, ch0)
<1>0. table = [ch \in Channels |-> table[ch]] /\ \A ch \in Channels : table[ch] \in Seq(R[ch])
  BY DEF TableOf
<1>1. /\ rest[ch0] = Tail(table[ch0]) /\ \A ch \in Channels \ {ch0} : rest[ch] = table[ch]
      /\ rest = [ch \in Channels |-> rest[ch]]
  BY <1>0
<1>2. /\ Tail(table[ch0]) \in Seq(R[ch0]) /\ Head(table[ch0]) \in R[ch0]
      /\ Head(table[ch0]) \in ToSet(table[ch0]) /\ ToSet(Tail(table[ch0])) \subseteq ToSet(table[ch0])
      /\ \A x \in ToSet(table[ch0]) : x = Head(table[ch0]) \/ x \in ToSet(Tail(table[ch0]))
  BY <1>0, ElementsTail
<1>3. ASSUME NEW ch \in Channels
      PROVE  /\ rest[ch] \in Seq(R[ch]) /\ ToSet(rest[ch]) \subseteq ToSet(table[ch])
            /\ 
            /\ \A x \in ToSet(table[ch]) : x \in ToSet(rest[ch]) \/ (ch = ch0 /\ x = Head(table[ch0]))
  <2>1. CASE ch = ch0
    BY <2>1, <1>1, <1>2
  <2>2. CASE ch # ch0
    BY <2>2, <1>0, <1>1
  <2> QED BY <2>1, <2>2
<1> QED BY <1>1, <1>2, <1>3 DEF OldestTaken, TableOf

\* A message is read.
LEMMA MessageTaken ==
  ASSUME TablesOK, NEW ch0 \in Channels, kafka[ch0] # <<>>, kafka' = [kafka EXCEPT ![ch0] = Tail(@)]
  PROVE  /\ kafka' = [ch \in Channels |-> kafka'[ch]]
         /\ \A ch \in Channels : kafka'[ch] \in Seq(Messages(ch))
         /\ Head(kafka[ch0]) \in Messages(ch0) /\ Head(kafka[ch0]) \in ToSet(kafka[ch0])
         /\ \A ch \in Channels : ToSet(kafka'[ch]) \subseteq ToSet(kafka[ch])
         /\ \A ch \in Channels : \A x \in ToSet(kafka[ch]) :
              x \in ToSet(kafka'[ch]) \/ (ch = ch0 /\ x = Head(kafka[ch0]))
<1> DEFINE R == [ch \in Channels |-> Messages(ch)]
<1>1. \A ch \in Channels : R[ch] = Messages(ch)
  OBVIOUS
<1> HIDE DEF R
<1>2. TableOf(kafka, R)
  BY <1>1 DEF TablesOK, TableOf
<1>3. OldestTaken(kafka, kafka', R, ch0)
  BY <1>2, HeadTaken
<1> QED BY <1>1, <1>3 DEF OldestTaken, TableOf

\* A query is answered, or given up.
LEMMA QueryTaken ==
  ASSUME TablesOK, NEW ch0 \in Channels, queries[ch0] # <<>>,
         queries' = [queries EXCEPT ![ch0] = Tail(@)]
  PROVE  /\ queries' = [ch \in Channels |-> queries'[ch]]
         /\ \A ch \in Channels : queries'[ch] \in Seq(Asks(ch))
         /\ Head(queries[ch0]) \in Asks(ch0)
         /\ \A ch \in Channels : \A x \in ToSet(queries[ch]) :
              x \in ToSet(queries'[ch]) \/ (ch = ch0 /\ x = Head(queries[ch0]))
<1> DEFINE R == [ch \in Channels |-> Asks(ch)]
<1>1. \A ch \in Channels : R[ch] = Asks(ch)
  OBVIOUS
<1> HIDE DEF R
<1>2. TableOf(queries, R)
  BY <1>1 DEF TablesOK, TableOf
<1>3. OldestTaken(queries, queries', R, ch0)
  BY <1>2, HeadTaken
<1> QED BY <1>1, <1>3 DEF OldestTaken, TableOf

\* The queries a message sets off.
Asked(ch0, msg) ==
  IF ch0 = "order" THEN AskedAll(msg.user, Moved(msg.topic))
  ELSE on_update(queries, ch0, msg.user, msg.topic)

\* They are added to those there are: one for each thing a message is about that has
\* somebody subscribed to it.
LEMMA MessageAsks ==
  ASSUME TablesOK, NEW ch0 \in Channels, NEW msg \in Messages(ch0)
  PROVE  /\ Asked(ch0, msg) = [ch \in Channels |-> Asked(ch0, msg)[ch]]
         /\ \A ch \in Channels : Asked(ch0, msg)[ch] \in Seq(Asks(ch))
         /\ Within(queries, Asked(ch0, msg))
         /\ \A ch \in Channels : \A t \in Topics[ch] :
              /\ \/ ch = ch0 /\ ch # "order" /\ t = msg.topic
                 \/ ch = "asset" /\ ch0 = "order" /\ t \in ToSet(Legs[msg.topic])
              /\ Hits(dict_sub[ch][msg.user], t) # {}
              => Ask(ch, msg.user, t) \in ToSet(Asked(ch0, msg)[ch])
<1>1. msg.user \in Users /\ msg.topic \in Topics[ch0]
  BY DEF Messages
<1>2. queries \in QueryTables
  <2>1. /\ queries = [ch \in Channels |-> queries[ch]]
        /\ \A ch \in Channels : queries[ch] \in Seq(Asks(ch))
    BY DEF TablesOK
  <2>2. queries \in [Channels -> UNION {Seq(Asks(ch)) : ch \in Channels}]
    BY <2>1
  <2> QED BY <2>1, <2>2 DEF QueryTables
<1>3. \A rs \in QueryTables : rs = [ch \in Channels |-> rs[ch]] /\ \A ch \in Channels : rs[ch] \in Seq(Asks(ch))
  BY DEF QueryTables
<1>4. CASE ch0 = "order"
  <2>1. Legs[msg.topic] \in Seq(Topics["asset"])
    BY <1>1, <1>4, AccessWsAssumption
  <2>2. Asked(ch0, msg) = AskedAll(msg.user, Legs[msg.topic])
    BY <1>4 DEF Asked, Moved
  <2>3. /\ Asked(ch0, msg) \in QueryTables /\ Within(queries, Asked(ch0, msg))
        /\ \A a \in ToSet(Legs[msg.topic]) : Hits(dict_sub["asset"][msg.user], a) # {} =>
             Ask("asset", msg.user, a) \in ToSet(Asked(ch0, msg)["asset"])
    BY <1>1, <2>1, <2>2, AskedIs
  <2> QED BY <1>3, <1>4, <2>3
<1>5. CASE ch0 # "order"
  <2>1. Asked(ch0, msg) = on_update(queries, ch0, msg.user, msg.topic)
    BY <1>5 DEF Asked
  <2>2. /\ Asked(ch0, msg) \in QueryTables /\ Within(queries, Asked(ch0, msg))
        /\ Hits(dict_sub[ch0][msg.user], msg.topic) # {} =>
             Ask(ch0, msg.user, msg.topic) \in ToSet(Asked(ch0, msg)[ch0])
    BY <1>1, <1>2, <2>1, OnUpdateIs
  <2> QED BY <1>3, <1>5, <2>2
<1> QED BY <1>4, <1>5

\* What is under way for who is live still is when a message is taken in, or set off by it:
\* unless it was the message, which tells of it.
LEMMA MessageComing ==
  ASSUME TablesOK, ClientsOK, NEW ch0 \in Channels, kafka[ch0] # <<>>,
         kafka' = [kafka EXCEPT ![ch0] = Tail(@)], queries' = Asked(ch0, Head(kafka[ch0])),
         UNCHANGED version, NEW s \in Slots, SessionOK(s), ses'[s].user = ses[s].user,
         NEW ch \in Channels, NEW t \in Topics[ch], Live(s, ch, t), Coming(ch, ses[s].user, t)
  PROVE  \/ Coming(ch, ses[s].user, t)'
         \/ /\ ch = "order" /\ ch0 = "order" /\ Head(kafka[ch0]).user = ses[s].user
            /\ Head(kafka[ch0]).topic = t /\ Head(kafka[ch0]).version = version[ch][ses[s].user][t]
<1>1. PICK msg : msg = Head(kafka[ch0])
  OBVIOUS
<1>2. /\ ses[s].user # None /\ Subscribed(s, ch, t) /\ Listed(s)
  BY DEF Live, SessionOK
<1>3. PICK u \in Users : u = ses[s].user /\ u = ses'[s].user
  BY <1>2 DEF TablesOK
<1>4. Hits(dict_sub[ch][u], t) # {}
  BY <1>2, <1>3, LiveIsHit
<1>5. /\ msg \in Messages(ch0)
     /\ 
     /\ \A c \in Channels : \A x \in ToSet(kafka[c]) : x \in ToSet(kafka'[c]) \/ (c = ch0 /\ x = msg)
  BY <1>1, MessageTaken
<1>6. /\ Within(queries, queries')
      /\ \/ ch = ch0 /\ ch # "order" /\ t = msg.topic
         \/ ch = "asset" /\ ch0 = "order" /\ t \in ToSet(Legs[msg.topic])
         => (u = msg.user => Ask(ch, u, t) \in ToSet(queries'[ch]))
  BY <1>1, <1>4, <1>5, MessageAsks
<1>7. /\ Ask(ch, u, t).user = u /\ Ask(ch, u, t).topic = t /\ Ask(ch, u, t).since = version'[ch][u][t]
  BY DEF Ask
<1>8. CASE \E m \in ToSet(kafka[ch]) :
             m.user = u /\ m.topic = t /\ (ch = "order" => m.version = version[ch][u][t])
  <2>1. PICK m \in ToSet(kafka[ch]) :
               m.user = u /\ m.topic = t /\ (ch = "order" => m.version = version[ch][u][t])
    BY <1>8
  <2>2. CASE m \in ToSet(kafka'[ch])
    BY <1>3, <2>1, <2>2 DEF Coming
  <2>3. CASE ch = ch0 /\ m = msg /\ ch = "order"
    BY <1>1, <1>3, <2>1, <2>3
  <2>4. CASE ch = ch0 /\ m = msg /\ ch # "order"
    <3>1. Ask(ch, u, t) \in ToSet(queries'[ch])
      BY <1>6, <2>1, <2>4
    <3> HIDE DEF Ask
    <3> QED BY <1>3, <1>7, <3>1 DEF Coming
  <2> QED BY <1>5, <2>2, <2>3, <2>4
<1>9. CASE \E q \in ToSet(queries[ch]) : q.user = u /\ q.topic = t /\ q.since = version[ch][u][t]
  <2>1. ToSet(queries[ch]) \subseteq ToSet(queries'[ch])
    BY <1>6 DEF Within
  <2> QED BY <1>3, <1>9, <2>1 DEF Coming
<1>10. CASE ch = "asset" /\ \E m \in ToSet(kafka["order"]) : m.user = u /\ t \in ToSet(Legs[m.topic])
  <2>1. PICK m \in ToSet(kafka["order"]) : m.user = u /\ t \in ToSet(Legs[m.topic])
    BY <1>10
  <2>0. "order" \in Channels
    BY ChannelsAre
  <2>2. CASE m \in ToSet(kafka'["order"])
    BY <1>3, <1>10, <2>1, <2>2 DEF Coming
  <2>3. CASE ch0 = "order" /\ m = msg
    <3>1. Ask(ch, u, t) \in ToSet(queries'[ch])
      BY <1>6, <1>10, <2>1, <2>3
    <3> HIDE DEF Ask
    <3> QED BY <1>3, <1>7, <3>1 DEF Coming
  <2> QED BY <1>5, <2>0, <2>2, <2>3
<1> QED BY <1>3, <1>8, <1>9, <1>10 DEF Coming

\* A message is taken in, and sessions were told or were not in the list.
LEMMA MessageHeard ==
  ASSUME AccessInv, NEW ch0 \in Channels, kafka[ch0] # <<>>, NEW msg, msg = Head(kafka[ch0]),
         kafka' = [kafka EXCEPT ![ch0] = Tail(@)], queries' = Asked(ch0, msg),
         UNCHANGED <<id_start, logins, lost, version>>,
         ses' \in [Slots -> [id : Nat, user : Users \cup {None}]],
         dict_sub' = [ch \in Channels |-> dict_sub'[ch]],
         \A ch \in Channels : dict_sub'[ch] \in [Users -> Seq(Units(ch))],
         ClientsOK', NEW v \in Nat, v <= version[ch0][msg.user][msg.topic],
         ch0 = "order" => v = msg.version,
         \A s \in Slots : Blank(s)' \/ (Bystander(s) /\ Heard(s, ch0, msg.user, msg.topic, v))
  PROVE  AccessInv'
<1>1. TablesOK /\ ClientsOK /\ Published /\ \A s \in Slots : SessionOK(s)
  BY DEF AccessInv
<1>2. /\ msg \in Messages(ch0)
      /\ kafka' = [ch \in Channels |-> kafka'[ch]]
      /\ \A ch \in Channels : kafka'[ch] \in Seq(Messages(ch))
      /\ \A ch \in Channels : ToSet(kafka'[ch]) \subseteq ToSet(kafka[ch])
  BY <1>1, MessageTaken
<1>3. msg.user \in Users /\ msg.topic \in Topics[ch0]
  BY <1>2 DEF Messages
<1>4. /\ queries' = [ch \in Channels |-> queries'[ch]]
      /\ \A ch \in Channels : queries'[ch] \in Seq(Asks(ch))
  BY <1>1, <1>2, MessageAsks
<1>5. TablesOK'
  BY <1>1, <1>2, <1>4 DEF TablesOK, Units, Messages, Asks, Logins
<1>6. Published'
  <2>1. ToSet(kafka'["order"]) \subseteq ToSet(kafka["order"])
    BY <1>2, ChannelsAre
  <2> QED BY <1>1, <2>1 DEF Published
<1>7. ASSUME NEW s \in Slots PROVE SessionOK(s)'
  <2>1. CASE Blank(s)'
    BY <2>1, BlankOK
  <2>2. CASE Bystander(s) /\ Heard(s, ch0, msg.user, msg.topic, v)
    <3>1. ASSUME NEW ch \in Channels, NEW t \in Topics[ch], Live(s, ch, t),
                 Coming(ch, ses[s].user, t) \/ Key(ch, ses[s].user, t) \in lost
          PROVE  \/ Coming(ch, ses[s].user, t)' \/ Key(ch, ses[s].user, t) \in lost'
                 \/ /\ ch = ch0 /\ ses[s].user = msg.user /\ t = msg.topic
                    /\ v = version[ch0][msg.user][msg.topic]
      <4>1. CASE Coming(ch, ses[s].user, t)
        <5>1. ses'[s].user = ses[s].user
          BY <2>2 DEF Bystander
        <5>2. \/ Coming(ch, ses[s].user, t)'
              \/ /\ ch = "order" /\ ch0 = "order" /\ msg.user = ses[s].user
                 /\ msg.topic = t /\ msg.version = version[ch][ses[s].user][t]
          BY <1>1, <3>1, <4>1, <5>1, MessageComing
        <5> QED BY <5>2
      <4>2. CASE Key(ch, ses[s].user, t) \in lost
        <5>1. Key(ch, ses[s].user, t) \in lost'
          BY <4>2
        <5>2. ses'[s].user = ses[s].user
          BY <2>2 DEF Bystander
        <5> QED BY <5>1, <5>2
      <4> QED BY <3>1, <4>1, <4>2
    <3>2. StillComing(s, ch0, msg.user, msg.topic, v)
      BY <3>1 DEF StillComing
    <3> QED BY <1>1, <1>3, <1>5, <2>2, <3>2, HeardOK
  <2> QED BY <2>1, <2>2
<1> QED BY <1>5, <1>6, <1>7 DEF AccessInv

\* A message is read, whatever happens to those who are told of it.
LEMMA MessageKeeps == ASSUME AccessInv, NEW ch0 \in Channels, on_message(ch0) PROVE AccessInv'
<1>1. PICK msg : msg = Head(kafka[ch0])
  OBVIOUS
<1>2. kafka[ch0] # <<>> /\ UNCHANGED version
  BY DEF on_message
<1>3. TablesOK /\ ClientsOK /\ Published /\ \A s \in Slots : SessionOK(s)
  BY DEF AccessInv
<1>31. kafka[ch0] \in Seq(Messages(ch0))
  BY <1>3 DEF TablesOK
<1>4. msg \in Messages(ch0) /\ msg \in ToSet(kafka[ch0])
  BY <1>1, <1>2, <1>31, ElementsTail
<1>5. msg.user \in Users /\ msg.topic \in Topics[ch0] /\ msg.version \in Nat
  BY <1>4 DEF Messages
<1>6. ch0 = "order" => msg.version <= version[ch0][msg.user][msg.topic]
  BY <1>3, <1>4 DEF Published
<1>7. /\ ses \in [Slots -> [id : Nat, user : Users \cup {None}]]
      /\ dict_sub = [ch \in Channels |-> dict_sub[ch]]
      /\ \A ch \in Channels : dict_sub[ch] \in [Users -> Seq(Units(ch))]
  BY <1>3 DEF TablesOK
<1>8. \/ Restarted
      \/ /\ kafka' = [kafka EXCEPT ![ch0] = Tail(@)] /\ queries' = Asked(ch0, msg)
         /\ UNCHANGED <<id_start, logins, lost>>
         /\ \/ ch0 = "order" /\ Notify(ch0, msg.user, msg.topic, msg.version)
            \/ ch0 # "order" /\ UNCHANGED <<ses, dict_sub, wants, copy>>
            \/ /\ ch0 = "order"
               /\ \E i \in Hits(dict_sub[ch0][msg.user], msg.topic) :
                    NotifyBroken(ch0, msg.user, msg.topic, msg.version, i)
  BY <1>1 DEF on_message, Asked, clients
<1>9. CASE Restarted
  BY <1>9, RestartKeeps
<1>10. CASE /\ kafka' = [kafka EXCEPT ![ch0] = Tail(@)] /\ queries' = Asked(ch0, msg)
            /\ UNCHANGED <<id_start, logins, lost>>
            /\ ch0 = "order" /\ Notify(ch0, msg.user, msg.topic, msg.version)
  <2>1. /\ UNCHANGED <<ses, dict_sub>> /\ ClientsOK'
        /\ \A s \in Slots : Bystander(s) /\ Heard(s, ch0, msg.user, msg.topic, msg.version)
    BY <1>5, <1>10, NotifyIs
  <2> HIDE DEF Bystander, Heard, AccessInv, ClientsOK
  <2>2. /\ ses' \in [Slots -> [id : Nat, user : Users \cup {None}]]
        /\ dict_sub' = [ch \in Channels |-> dict_sub'[ch]]
        /\ \A ch \in Channels : dict_sub'[ch] \in [Users -> Seq(Units(ch))]
    BY <1>7, <2>1
  <2> QED BY <1>1, <1>2, <1>5, <1>6, <1>10, <2>1, <2>2, MessageHeard
<1>11. CASE /\ kafka' = [kafka EXCEPT ![ch0] = Tail(@)] /\ queries' = Asked(ch0, msg)
            /\ UNCHANGED <<id_start, logins, lost>>
            /\ ch0 # "order" /\ UNCHANGED <<ses, dict_sub, wants, copy>>
  <2>1. ClientsOK'
    BY <1>3, <1>11 DEF ClientsOK
  <2>2. ASSUME NEW s \in Slots PROVE Bystander(s) /\ Heard(s, ch0, msg.user, msg.topic, 0)
    <3>1. Bystander(s)
      BY <1>3, <1>11 DEF Bystander, SameUnits, InList, SessionOK, Idle
    <3>2. \A ch \in Channels : \A t \in Topics[ch] : copy[s][ch][t] \in Nat /\ copy'[s][ch][t] = copy[s][ch][t]
      BY <1>3, <1>11 DEF ClientsOK
    <3>3. Heard(s, ch0, msg.user, msg.topic, 0)
      BY <3>2 DEF Heard
    <3> QED BY <3>1, <3>3
  <2>3. 0 <= version[ch0][msg.user][msg.topic]
    <3>1. version[ch0][msg.user][msg.topic] \in Nat
      BY <1>3, <1>5 DEF TablesOK
    <3> QED BY <3>1
  <2>4. /\ ses' \in [Slots -> [id : Nat, user : Users \cup {None}]]
        /\ dict_sub' = [ch \in Channels |-> dict_sub'[ch]]
        /\ \A ch \in Channels : dict_sub'[ch] \in [Users -> Seq(Units(ch))]
    BY <1>7, <1>11
  <2>5. \A s \in Slots : Blank(s)' \/ (Bystander(s) /\ Heard(s, ch0, msg.user, msg.topic, 0))
    BY <2>2
  <2>6. PICK v \in Nat : v = 0
    OBVIOUS
  <2> QED BY <1>1, <1>2, <1>11, <2>1, <2>3, <2>4, <2>5, <2>6, MessageHeard
<1>12. CASE /\ kafka' = [kafka EXCEPT ![ch0] = Tail(@)] /\ queries' = Asked(ch0, msg)
            /\ UNCHANGED <<id_start, logins, lost>> /\ ch0 = "order"
            /\ \E i \in Hits(dict_sub[ch0][msg.user], msg.topic) :
                 NotifyBroken(ch0, msg.user, msg.topic, msg.version, i)
  <2>0. PICK i \in Hits(dict_sub[ch0][msg.user], msg.topic) :
               NotifyBroken(ch0, msg.user, msg.topic, msg.version, i)
    BY <1>12
  <2>1. /\ ses' \in [Slots -> [id : Nat, user : Users \cup {None}]]
        /\ dict_sub' = [ch \in Channels |-> dict_sub'[ch]]
        /\ \A ch \in Channels : dict_sub'[ch] \in [Users -> Seq(Units(ch))]
        /\ ClientsOK'
       /\ 
       /\ \A s \in Slots : Blank(s)' \/ (Bystander(s) /\ Heard(s, ch0, msg.user, msg.topic, msg.version))
    BY <1>5, <2>0, BrokenIs
  <2> QED BY <1>1, <1>2, <1>5, <1>6, <1>12, <2>1, MessageHeard
<1> QED BY <1>8, <1>9, <1>10, <1>11, <1>12

\* An answer is taken in, and sessions were told.
LEMMA ReplyHeard ==
  ASSUME AccessInv, NEW ch0 \in Channels, queries[ch0] # <<>>, NEW q, q = Head(queries[ch0]),
         NEW v \in q.since..version[ch0][q.user][q.topic], Replied(ch0, q, v), UNCHANGED version,
         ses' \in [Slots -> [id : Nat, user : Users \cup {None}]],
         dict_sub' = [ch \in Channels |-> dict_sub'[ch]],
         \A ch \in Channels : dict_sub'[ch] \in [Users -> Seq(Units(ch))],
         ClientsOK', \A s \in Slots : Blank(s)' \/ (Bystander(s) /\ Heard(s, ch0, q.user, q.topic, v))
  PROVE  AccessInv'
<1>1. TablesOK /\ ClientsOK /\ Published /\ \A s \in Slots : SessionOK(s)
  BY DEF AccessInv
<1>2. /\ queries' = [queries EXCEPT ![ch0] = Tail(@)] /\ UNCHANGED <<id_start, logins, kafka>>
      /\ \A ch, u, t : Key(ch, u, t) \in lost =>
           \/ Key(ch, u, t) \in lost'
           \/ ch = ch0 /\ u = q.user /\ t = q.topic /\ v = version[ch0][q.user][q.topic]
  BY DEF Replied, Key
<1>3. /\ q \in Asks(ch0)
      /\ queries' = [ch \in Channels |-> queries'[ch]]
      /\ \A ch \in Channels : queries'[ch] \in Seq(Asks(ch))
     /\ 
     /\ \A ch \in Channels : \A x \in ToSet(queries[ch]) : x \in ToSet(queries'[ch]) \/ (ch = ch0 /\ x = q)
  BY <1>1, <1>2, QueryTaken
<1>4. q.user \in Users /\ q.topic \in Topics[ch0] /\ q.since \in Nat
  BY <1>3 DEF Asks
<1>5. /\ version[ch0][q.user][q.topic] \in Nat /\ v \in Nat /\ v <= version[ch0][q.user][q.topic]
      /\ q.since = version[ch0][q.user][q.topic] => v = version[ch0][q.user][q.topic]
  <2>1. version[ch0][q.user][q.topic] \in Nat
    BY <1>1, <1>4 DEF TablesOK
  <2> QED BY <1>4, <2>1
<1>6. TablesOK'
  BY <1>1, <1>2, <1>3 DEF TablesOK, Units, Messages, Asks, Logins
<1>7. Published'
  BY <1>1, <1>2, PublishedKept
<1>8. ASSUME NEW s \in Slots PROVE SessionOK(s)'
  <2>1. CASE Blank(s)'
    BY <2>1, BlankOK
  <2>2. CASE Bystander(s) /\ Heard(s, ch0, q.user, q.topic, v)
    <3>0. PICK u : u = ses[s].user
      OBVIOUS
    <3>1. ASSUME NEW ch \in Channels, NEW t \in Topics[ch], Coming(ch, u, t) \/ Key(ch, u, t) \in lost
          PROVE  \/ Coming(ch, u, t)' \/ Key(ch, u, t) \in lost'
                 \/ ch = ch0 /\ u = q.user /\ t = q.topic /\ v = version[ch0][q.user][q.topic]
      <4>1. CASE Coming(ch, u, t)
        <5>1. CASE \E x \in ToSet(queries[ch]) : x.user = u /\ x.topic = t /\ x.since = version[ch][u][t]
          BY <5>1, <1>3, <1>5 DEF Coming
        <5>2. CASE ~\E x \in ToSet(queries[ch]) : x.user = u /\ x.topic = t /\ x.since = version[ch][u][t]
          BY <5>2, <4>1, <1>2 DEF Coming
        <5> QED BY <5>1, <5>2
      <4>2. CASE Key(ch, u, t) \in lost
        BY <4>2, <1>2
      <4> QED BY <3>1, <4>1, <4>2
    <3>2. ses'[s].user = u
      BY <3>0, <2>2 DEF Bystander
    <3>3. StillComing(s, ch0, q.user, q.topic, v)
      BY <3>0, <3>1, <3>2 DEF StillComing
    <3> QED BY <1>1, <1>4, <1>5, <1>6, <2>2, <3>3, HeardOK
  <2> QED BY <2>1, <2>2
<1> QED BY <1>6, <1>7, <1>8 DEF AccessInv

\* An answer is received, whatever happens to those who are told of it.
LEMMA ReplyKeeps == ASSUME AccessInv, NEW ch0 \in Channels, on_reply(ch0) PROVE AccessInv'
<1>1. PICK q : q = Head(queries[ch0])
  OBVIOUS
<1>2. queries[ch0] # <<>> /\ UNCHANGED version
  BY DEF on_reply
<1>3. TablesOK
  BY DEF AccessInv
<1>31. queries[ch0] \in Seq(Asks(ch0))
  BY <1>3 DEF TablesOK
<1>4. q \in Asks(ch0)
  BY <1>1, <1>2, <1>31, ElementsTail
<1>5. q.user \in Users /\ q.topic \in Topics[ch0] /\ q.since \in Nat
  BY <1>4 DEF Asks
<1>6. /\ ses \in [Slots -> [id : Nat, user : Users \cup {None}]]
      /\ dict_sub = [ch \in Channels |-> dict_sub[ch]]
      /\ \A ch \in Channels : dict_sub[ch] \in [Users -> Seq(Units(ch))]
      /\ version[ch0][q.user][q.topic] \in Nat
  BY <1>3, <1>5 DEF TablesOK
<1>7. PICK v \in q.since..version[ch0][q.user][q.topic] :
        \/ Restarted
        \/ Notify(ch0, q.user, q.topic, v) /\ Replied(ch0, q, v)
        \/ \E i \in Hits(dict_sub[ch0][q.user], q.topic) :
             NotifyBroken(ch0, q.user, q.topic, v, i) /\ Replied(ch0, q, v)
  BY <1>1 DEF on_reply
<1>8. v \in Nat
  BY <1>5, <1>6
<1>9. CASE Restarted
  BY <1>9, RestartKeeps
<1>10. CASE Notify(ch0, q.user, q.topic, v) /\ Replied(ch0, q, v)
  <2>1. /\ UNCHANGED <<ses, dict_sub>> /\ ClientsOK'
        /\ \A s \in Slots : Bystander(s) /\ Heard(s, ch0, q.user, q.topic, v)
    BY <1>5, <1>8, <1>10, NotifyIs
  <2>2. /\ ses' \in [Slots -> [id : Nat, user : Users \cup {None}]]
        /\ dict_sub' = [ch \in Channels |-> dict_sub'[ch]]
        /\ \A ch \in Channels : dict_sub'[ch] \in [Users -> Seq(Units(ch))]
    BY <1>6, <2>1
  <2> QED BY <1>1, <1>2, <1>10, <2>1, <2>2, ReplyHeard
<1>11. CASE \E i \in Hits(dict_sub[ch0][q.user], q.topic) :
              NotifyBroken(ch0, q.user, q.topic, v, i) /\ Replied(ch0, q, v)
  <2>0. PICK i \in Hits(dict_sub[ch0][q.user], q.topic) :
               NotifyBroken(ch0, q.user, q.topic, v, i) /\ Replied(ch0, q, v)
    BY <1>11
  <2>1. /\ ses' \in [Slots -> [id : Nat, user : Users \cup {None}]]
        /\ dict_sub' = [ch \in Channels |-> dict_sub'[ch]]
        /\ \A ch \in Channels : dict_sub'[ch] \in [Users -> Seq(Units(ch))]
        /\ ClientsOK'
        /\ \A s \in Slots : Blank(s)' \/ (Bystander(s) /\ Heard(s, ch0, q.user, q.topic, v))
    BY <1>5, <1>8, <2>0, BrokenIs
  <2> QED BY <1>1, <1>2, <2>0, <2>1, ReplyHeard
<1> QED BY <1>7, <1>9, <1>10, <1>11

\* No answer comes: what it would have told is lost.
LEMMA TimeoutKeeps == ASSUME AccessInv, NEW ch0 \in Channels, on_timeout(ch0) PROVE AccessInv'
<1>1. PICK q : q = Head(queries[ch0])
  OBVIOUS
<1>2. /\ queries[ch0] # <<>> /\ queries' = [queries EXCEPT ![ch0] = Tail(@)]
      /\ lost' = lost \cup {Key(ch0, q.user, q.topic)}
      /\ UNCHANGED <<ses, id_start, logins, dict_sub, kafka, version, wants, copy>>
  BY <1>1 DEF on_timeout, clients
<1>3. TablesOK /\ ClientsOK /\ Published /\ \A s \in Slots : SessionOK(s)
  BY DEF AccessInv
<1>4. /\ queries' = [ch \in Channels |-> queries'[ch]]
      /\ \A ch \in Channels : queries'[ch] \in Seq(Asks(ch))
     /\ 
     /\ \A ch \in Channels : \A x \in ToSet(queries[ch]) : x \in ToSet(queries'[ch]) \/ (ch = ch0 /\ x = q)
  BY <1>1, <1>2, <1>3, QueryTaken
<1>5. TablesOK'
  BY <1>2, <1>3, <1>4 DEF TablesOK, Units, Messages, Asks, Logins
<1>6. ClientsOK' /\ Published'
  BY <1>2, <1>3, PublishedKept DEF ClientsOK
<1>7. ASSUME NEW s \in Slots PROVE SessionOK(s)'
  <2>1. Bystander(s)
    BY <1>2, <1>3 DEF Bystander, SameUnits, InList, SessionOK, Idle
  <2>2. /\ Idle(s)' /\ Listed(s)' /\ Members(s)'
        /\ \A ch \in Channels : \A t : Live(s, ch, t)' <=> Live(s, ch, t)
    BY <2>1, <1>3, <1>5, BystanderKeeps
  <2>3. ASSUME NEW ch \in Channels, NEW t \in Topics[ch] PROVE InformedAt(s, ch, t)'
    <3>1. InformedAt(s, ch, t)
      BY <1>3 DEF SessionOK, Informed
    <3>2. ASSUME NEW u, Coming(ch, u, t) \/ Key(ch, u, t) \in lost
          PROVE  Coming(ch, u, t)' \/ Key(ch, u, t) \in lost'
      <4>1. CASE \E x \in ToSet(queries[ch]) : x.user = u /\ x.topic = t /\ x.since = version[ch][u][t]
        <5>1. PICK x \in ToSet(queries[ch]) : x.user = u /\ x.topic = t /\ x.since = version[ch][u][t]
          BY <4>1
        <5>2. CASE x \in ToSet(queries'[ch])
          BY <5>1, <5>2, <1>2 DEF Coming
        <5>3. CASE ch = ch0 /\ x = q
          BY <5>1, <5>3, <1>2
        <5> QED BY <1>4, <5>2, <5>3
      <4>2. CASE ~\E x \in ToSet(queries[ch]) : x.user = u /\ x.topic = t /\ x.since = version[ch][u][t]
        BY <3>2, <4>2, <1>2 DEF Coming
      <4> QED BY <4>1, <4>2
    <3>3. Live(s, ch, t)' <=> Live(s, ch, t)
      BY <2>2
    <3> HIDE DEF Coming, Live
    <3> QED BY <1>2, <3>1, <3>2, <3>3 DEF InformedAt
  <2> QED BY <2>2, <2>3 DEF SessionOK, Informed
<1> QED BY <1>5, <1>6, <1>7 DEF AccessInv

------------------------------------------------------------------------------
(* The results.                                                             *)

\* The invariant holds at first.
LEMMA AccessStart == Init => AccessInv
<1>1. Init => Fresh
  BY DEF Init, Fresh
<1> QED BY <1>1, FreshOK

\* Every step keeps it.
LEMMA AccessStep == ASSUME AccessInv, [Next]_vars PROVE AccessInv'
<1>1. CASE UNCHANGED vars
  <2>1. TablesOK /\ ClientsOK /\ Published /\ \A s \in Slots : SessionOK(s)
    BY DEF AccessInv
  <2>2. UNCHANGED <<ses, id_start, logins, dict_sub, kafka, queries, version, wants, copy, lost>>
    BY <1>1 DEF vars, clients
  <2>3. TablesOK'
    BY <2>1, <2>2 DEF TablesOK, Units, Messages, Asks, Logins
  <2>4. ClientsOK' /\ Published'
    BY <2>1, <2>2 DEF ClientsOK, Published
  <2>5. ASSUME NEW s \in Slots PROVE SessionOK(s)'
    <3>1. Bystander(s)
      BY <2>1, <2>2 DEF Bystander, SameUnits, InList, SessionOK, Idle
    <3> QED BY <3>1, <2>1, <2>2, <2>3, BystanderOK
  <2> QED BY <2>3, <2>4, <2>5 DEF AccessInv
<1>2. CASE Next
  BY <1>2, UpgradeKeeps, CloseKeeps, RequestKeeps, SubscribeKeeps, UnsubscribeKeeps, ResultKeeps,
     UpdateKeeps, TimeoutKeeps, MessageKeeps, ReplyKeeps DEF Next
<1> QED BY <1>1, <1>2

\* A list holds what clients logged in as its user subscribed to.
LEMMA ListsAreExact == AccessInv => SubscriptionsExact
<1> SUFFICES ASSUME AccessInv, NEW ch \in {"order", "asset"}, NEW u \in Users
             PROVE  ToSet(dict_sub[ch][u]) =
                      {[ses |-> s, topic |-> t] :
                         s \in {s \in Slots : ses[s].user = u}, t \in Topics[ch] \cup {All}}
                        \cap UNION {{[ses |-> s, topic |-> t] : t \in wants[s][ch]} : s \in Slots}
  BY DEF SubscriptionsExact
<1> DEFINE Mine  == {[ses |-> s, topic |-> t] :
                       s \in {s \in Slots : ses[s].user = u}, t \in Topics[ch] \cup {All}}
           Wanted == UNION {{[ses |-> s, topic |-> t] : t \in wants[s][ch]} : s \in Slots}
<1>1. TablesOK /\ ClientsOK /\ (\A s \in Slots : SessionOK(s)) /\ ch \in Channels /\ u # None
  BY ChannelsAre, AccessWsAssumption DEF AccessInv
<1>2. ASSUME NEW n \in ToSet(dict_sub[ch][u]) PROVE n \in Mine /\ n \in Wanted
  <2>1. PICK s \in Slots, t \in Topics[ch] \cup {All} : n = Unit(s, t)
    BY <1>1, ListsType
  <2>2. InList(s, t, ch, u)
    BY <2>1 DEF InList
  <2>3. ses[s].user = u /\ t \in wants[s][ch]
    BY <1>1, <2>2 DEF SessionOK, Members
  <2> QED BY <2>1, <2>3 DEF Unit
<1>3. ASSUME NEW n \in Mine, n \in Wanted PROVE n \in ToSet(dict_sub[ch][u])
  <2>1. PICK s \in Slots, t \in Topics[ch] \cup {All} : n = Unit(s, t) /\ ses[s].user = u
    BY DEF Unit
  <2>2. PICK r \in Slots : \E x \in wants[r][ch] : n = Unit(r, x)
    BY <1>3 DEF Unit
  <2>3. r = s /\ t \in wants[r][ch]
    BY <2>1, <2>2 DEF Unit
  <2>4. InList(s, t, ch, u)
    BY <1>1, <2>1, <2>2, <2>3 DEF SessionOK, Listed
  <2> QED BY <2>1, <2>4 DEF InList
<1> QED BY <1>2, <1>3

\* Whoever is not informed will be.
LEMMA NoneIsMissed == AccessInv => NothingMissed
<1> SUFFICES ASSUME AccessInv, NEW s \in Slots, NEW ch \in Channels, ses[s].user # None, ~Zombie(s, ch),
                    NEW t \in Topics[ch], Subscribed(s, ch, t),
                    copy[s][ch][t] # version[ch][ses[s].user][t]
             PROVE  Coming(ch, ses[s].user, t) \/ Key(ch, ses[s].user, t) \in lost
  BY DEF NothingMissed
<1>1. InformedAt(s, ch, t)
  BY DEF AccessInv, SessionOK, Informed
<1> QED BY <1>1 DEF InformedAt, Live

\* The inductive invariant.
LEMMA AccessInvHolds == Spec => []AccessInv
  BY AccessStart, AccessStep, PTL DEF Spec

\* Through logins answered late and in any order, clients that log in as somebody else,
\* refused subscriptions and slots used again, the lists of orders and assets of a user
\* are what those logged in as that user subscribed to (aw_order.c, aw_asset.c).
THEOREM SubscriptionsAlwaysExact == Spec => []SubscriptionsExact
  BY AccessInvHolds, ListsAreExact, PTL

\* Whoever subscribed and does not know the last change will be told of it by what is under
\* way, or the query that would have told was lost (aw_message.c, aw_asset.c, aw_position.c).
THEOREM NothingIsMissed == Spec => []NothingMissed
  BY AccessInvHolds, NoneIsMissed, PTL

------------------------------------------------------------------------------
(* Queries: what they are about.                                            *)

Keys     == {<<Q!method_map[q[1]].command, r[2]>> : q \in Questions, r \in Questions}
Name     == Users \cup {Null}
AskRec   == [ses_id : Nat, of : Keys, user : Name, age : Nat]

\* Settings are natural numbers, questions are for methods there are, and no question is
\* no value.
QueriesAssumption ==
  /\ CacheTimeout \in Nat /\ ServiceTimeout \in Nat /\ BackendTimeout \in Nat
  /\ \A q \in Questions : q[1] \in DOMAIN Q!method_map
  /\ Null \notin AskRec

------------------------------------------------------------------------------
(* The invariant.                                                           *)

EntryRec == [slot : Slots, ses_id : Nat, request_id : Nat, left : 0..BackendTimeout,
             cache_key : Keys \cup {Null}]
Package  == [sequence : Nat, of : Keys, user : Name]
Reply    == [sequence : Nat, of : Keys \cup {Q!Error}, user : Name, age : Nat]

\* The time a service may keep an answer.
Most(key) == IF key[1] \in Q!KeptByService THEN ServiceTimeout ELSE 0

\* What is on its way with the number of a request is about that request.
About(p) ==
  /\ p.sequence <= requests
  /\ p.of # Q!Error =>
       /\ p.user # Null => p.of[1] \notin Q!KeptByService
       /\ p.sequence \in DOMAIN asked =>
            p.of = asked[p.sequence].of /\ p.user = asked[p.sequence].user
       /\ p.sequence \in DOMAIN entries /\ entries[p.sequence].cache_key # Null =>
            p.of = entries[p.sequence].cache_key /\ p.user = Null

\* While somebody waits for a reply, the time since the data was looked up is time he
\* waited, but for the time the service kept it.
InTime(p) ==
  p.of # Q!Error =>
    /\ p.sequence \in DOMAIN entries =>
         p.age <= Most(p.of) + (BackendTimeout - entries[p.sequence].left)
    /\ p.sequence \in DOMAIN asked /\ p.user # Null => p.age <= asked[p.sequence].age

Packages == {p \in Package : About(p)}
Replies  == {p \in Reply : About(p) /\ InTime(p)}

\* Numbers of sessions are not used again.
SessionsOK ==
  /\ ses \in [Slots -> [id : Nat, user : Name]] /\ id_start \in Nat
  /\ \A s \in Slots : ses[s].id < id_start
  /\ \A s, t \in Slots : ses[s].id = ses[t].id /\ ses[s].id # 0 => s = t

\* An entry whose session is still there is about a question that waits.
EntriesOK ==
  \A id \in DOMAIN entries :
    /\ id \in Nat /\ id <= requests
    /\ entries[id] \in EntryRec /\ entries[id].request_id = id
    /\ entries[id].ses_id # 0 /\ entries[id].ses_id < id_start
    /\ Q!SameSession(entries[id]) => /\ id \in DOMAIN asked
                                   /\ asked[id].ses_id = entries[id].ses_id

AskedOK == \A r \in DOMAIN asked : r \in Nat /\ r <= requests /\ asked[r] \in AskRec

WayOK == wire \in [Q!Backends -> Seq(Packages)] /\ replies \in [Q!Backends -> Seq(Replies)]

\* What accessws keeps is about nobody and was not too old when it came.
CacheOK ==
  \A k \in DOMAIN backend_cache :
    LET kept == backend_cache[k]
    IN  /\ kept \in [age : Nat, val : [of : Keys, user : {Null}, age : Nat]]
        /\ kept.age <= CacheTimeout => kept.val.age <= Most(k) + BackendTimeout + kept.age

ServicesOK ==
  /\ DOMAIN dict_cache = Q!Backends
  /\ \A b \in Q!Backends : \A k \in DOMAIN dict_cache[b] : dict_cache[b][k] \in Nat

QueriesInv ==
  /\ requests \in Nat
  /\ SessionsOK /\ EntriesOK /\ AskedOK /\ WayOK /\ CacheOK /\ ServicesOK
  /\ Q!AnswersRight
------------------------------------------------------------------------------
(* Handlers, ages and tables.                                               *)

\* Who asks with a private method asks for what services do not keep.
LEMMA HandlerIs ==
  ASSUME NEW m \in DOMAIN Q!method_map
  PROVE  /\ Q!method_map[m].backend \in Q!Backends /\ Q!method_map[m].kept \in BOOLEAN
         /\ Q!method_map[m].command # "error"
         /\ ~Q!method_map[m].kept => Q!method_map[m].command \notin Q!KeptByService
<1>1. Q!KeptByService \subseteq {"MARKET_STATUS", "MARKET_KLINE", "MARKET_DEALS", "MARKET_LAST",
                               "MARKET_STATUS_TODAY", "ORDER_BOOK_DEPTH"}
  BY DEF Q!KeptByService, Q!Handler, Q!on_cmd_market_status, Q!on_cmd_market_kline, Q!on_cmd_market_deals,
         Q!on_cmd_market_last, Q!on_cmd_market_status_today, Q!on_cmd_order_book_depth
<1>2. Q!method_map[m] \in
        {Q!on_method_kline_query, Q!on_method_depth_query, Q!on_method_price_query,
         Q!on_method_state_query, Q!on_method_today_query, Q!on_method_deals_query,
         Q!on_method_order_query, Q!on_method_order_query_all, Q!on_method_order_history,
         Q!on_method_order_history_all, Q!on_method_asset_query, Q!on_method_asset_history,
         Q!on_method_position_query, Q!on_method_position_history}
  BY DEF Q!method_map
<1> DEFINE OK(h) == /\ h.backend \in Q!Backends /\ h.kept \in BOOLEAN /\ h.command # "error"
                    /\ ~h.kept => h.command \notin Q!KeptByService
<1>3. ASSUME NEW backend \in Q!Backends, NEW command, command # "error" PROVE OK(Q!Public(backend, command))
  BY <1>3 DEF Q!Public
<1>4. ASSUME NEW backend \in Q!Backends, NEW command, command # "error", command \notin Q!KeptByService,
             NEW checks
      PROVE  OK(Q!Private(backend, command, checks))
  BY <1>4 DEF Q!Private
<1>5. /\ OK(Q!on_method_kline_query) /\ OK(Q!on_method_depth_query) /\ OK(Q!on_method_price_query)
      /\ OK(Q!on_method_state_query) /\ OK(Q!on_method_today_query) /\ OK(Q!on_method_deals_query)
  <2> HIDE DEF OK
  <2> QED BY <1>3 DEF Q!Backends, Q!on_method_kline_query, Q!on_method_depth_query, Q!on_method_price_query,
        Q!on_method_state_query, Q!on_method_today_query, Q!on_method_deals_query
<1>6. /\ OK(Q!on_method_order_query) /\ OK(Q!on_method_order_query_all)
      /\ OK(Q!on_method_order_history) /\ OK(Q!on_method_order_history_all)
      /\ OK(Q!on_method_asset_query) /\ OK(Q!on_method_asset_history)
      /\ OK(Q!on_method_position_query) /\ OK(Q!on_method_position_history)
  <2>1. \A c \in {"ORDER_QUERY", "ORDER_QUERY_ALL", "ORDER_HISTORY", "ORDER_HISTORY_ALL",
                  "BALANCE_QUERY", "BALANCE_HISTORY", "POSITION_QUERY", "POSITION_HISTORY"} :
          c # "error" /\ c \notin Q!KeptByService
    BY <1>1
  <2> HIDE DEF OK
  <2> QED BY <2>1, <1>4 DEF Q!Backends, Q!on_method_order_query, Q!on_method_order_query_all,
        Q!on_method_order_history, Q!on_method_order_history_all, Q!on_method_asset_query,
        Q!on_method_asset_history, Q!on_method_position_query, Q!on_method_position_history
<1>7. OK(Q!method_map[m])
  <2> HIDE DEF OK
  <2> QED BY <1>2, <1>5, <1>6
<1> QED BY <1>7

\* A key is a pair, and no error.
LEMMA KeyIs ==
  ASSUME QueriesAssumption, NEW k \in Keys
  PROVE  k # Q!Error /\ k = <<k[1], k[2]>>
<1>1. PICK q \in Questions, r \in Questions : k = <<Q!method_map[q[1]].command, r[2]>>
  BY DEF Keys
<1>2. Q!method_map[q[1]].command # "error"
  BY HandlerIs DEF QueriesAssumption
<1> HIDE DEF Q!method_map
<1> QED BY <1>1, <1>2 DEF Q!Error

\* No service keeps an answer longer than its timeout.
LEMMA MostIs == ASSUME QueriesAssumption, NEW k PROVE Most(k) \in Nat /\ Most(k) <= ServiceTimeout
  BY DEF Most, QueriesAssumption

\* Ages grow by one at most, up to a limit, and keep their order.
LEMMA OlderIs ==
  ASSUME NEW a \in Nat, NEW limit \in Nat
  PROVE  /\ Q!Older(a, limit) \in Nat /\ Q!Older(a, limit) <= a + 1
         /\ \A b \in Nat : a <= b => Q!Older(a, limit) <= Q!Older(b, limit)
         /\ Q!Older(a, limit) < limit => Q!Older(a, limit) = a + 1
  BY DEF Q!Older

\* The age an answer may have is a number.
LEMMA OldIs == ASSUME QueriesAssumption PROVE Q!Old \in Nat
  BY DEF Q!Old, QueriesAssumption

\* What a table with one more entry has.
LEMMA KeysWithIs ==
  ASSUME NEW f, NEW key, NEW val
  PROVE  /\ DOMAIN Q!With(f, key, val) = DOMAIN f \cup {key}
         /\ \A k \in DOMAIN f \cup {key} : Q!With(f, key, val)[k] = IF k = key THEN val ELSE f[k]
  BY DEF Q!With

\* What a table without some of its entries has.
LEMMA KeysWithoutIs ==
  ASSUME NEW f, NEW keys
  PROVE  /\ DOMAIN Q!Without(f, keys) = DOMAIN f \ keys
         /\ \A k \in DOMAIN f \ keys : Q!Without(f, keys)[k] = f[k]
  BY DEF Q!Without, Q!Restrict

\* A list without one of its entries is a list of the same things.
LEMMA RemoveAtType ==
  ASSUME NEW S, NEW q \in Seq(S), NEW i \in DOMAIN q
  PROVE  Q!RemoveAt(q, i) \in Seq(S)
<1>1. i \in 1..Len(q) /\ Len(q) \in Nat
  OBVIOUS
<1>2. SubSeq(q, 1, i - 1) \in Seq(S) /\ SubSeq(q, i + 1, Len(q)) \in Seq(S)
  BY <1>1, SubSeqProperties
<1> QED BY <1>2, ConcatProperties DEF Q!RemoveAt

------------------------------------------------------------------------------
(* Steps.                                                                   *)

\* What is on its way stays about its request, if entries and questions only go, or come
\* with a new number.
LEMMA WayStays ==
  ASSUME WayOK, requests \in Nat, requests' \in Nat, requests <= requests',
         \A id \in DOMAIN entries' :
           id \in Nat /\ id <= requests => id \in DOMAIN entries /\ entries'[id] = entries[id],
         \A id \in DOMAIN asked' :
           id \in Nat /\ id <= requests => id \in DOMAIN asked /\ asked'[id] = asked[id]
  PROVE  /\ Packages \subseteq Packages' /\ Replies \subseteq Replies'
         /\ wire \in [Q!Backends -> Seq(Packages')] /\ replies \in [Q!Backends -> Seq(Replies')]
<1>1. ASSUME NEW p, p.sequence \in Nat, About(p) PROVE About(p)'
  BY <1>1 DEF About
<1>2. ASSUME NEW p, p.sequence \in Nat, About(p), InTime(p) PROVE InTime(p)'
  BY <1>2 DEF About, InTime
<1>3. Packages \subseteq Packages'
  BY <1>1 DEF Packages, Package
<1>4. Replies \subseteq Replies'
  BY <1>1, <1>2 DEF Replies, Reply
<1>5. wire \in [Q!Backends -> Seq(Packages')]
  <2>1. Seq(Packages) \subseteq Seq(Packages')
    BY <1>3, SeqMonotonic
  <2> HIDE DEF Packages
  <2> QED BY <2>1 DEF WayOK
<1>6. replies \in [Q!Backends -> Seq(Replies')]
  <2>1. Seq(Replies) \subseteq Seq(Replies')
    BY <1>4, SeqMonotonic
  <2> HIDE DEF Replies
  <2> QED BY <2>1 DEF WayOK
<1> QED BY <1>3, <1>4, <1>5, <1>6

\* A step that answers nobody answers rightly.
LEMMA QuietRight == ASSUME answers' = {} PROVE Q!AnswersRight'
  BY DEF Q!AnswersRight, Q!Owned, Q!Fresh, Q!Known

\* The invariant of queries holds at first.
LEMMA InitQueries == ASSUME QueriesAssumption, Q!Init PROVE QueriesInv
<1>1. SessionsOK
  BY DEF Q!Init, SessionsOK, Q!Free, Name
<1>2. EntriesOK /\ AskedOK /\ CacheOK
  BY DEF Q!Init, EntriesOK, AskedOK, CacheOK
<1>3. WayOK
  <2>1. <<>> \in Seq(Packages) /\ <<>> \in Seq(Replies)
    BY EmptySeq
  <2> HIDE DEF Packages, Replies
  <2> QED BY <2>1 DEF Q!Init, WayOK
<1>4. ServicesOK
  BY DEF Q!Init, ServicesOK
<1>5. Q!AnswersRight /\ requests \in Nat
  BY DEF Q!Init, Q!AnswersRight, Q!Owned, Q!Fresh, Q!Known
<1> QED BY <1>1, <1>2, <1>3, <1>4, <1>5 DEF QueriesInv

\* A new connection gets a number nobody had.
LEMMA UpgradeQueries ==
  ASSUME QueriesAssumption, QueriesInv, NEW s \in Slots, Q!on_upgrade(s) PROVE QueriesInv'
<1>1. /\ UNCHANGED <<entries, backend_cache, dict_cache, wire, replies, asked, requests>>
      /\ ses' = [ses EXCEPT ![s] = [id |-> id_start, user |-> Null]]
      /\ id_start' = id_start + 1 /\ answers' = {}
  BY DEF Q!on_upgrade, Q!services, Q!Quiet
<1>2. SessionsOK /\ EntriesOK /\ AskedOK /\ WayOK /\ CacheOK /\ ServicesOK /\ requests \in Nat
  BY DEF QueriesInv
<1>3. /\ ses'[s] = [id |-> id_start, user |-> Null]
      /\ \A t \in Slots : t # s => ses'[t] = ses[t]
      /\ ses' \in [Slots -> [id : Nat, user : Name]]
  BY <1>1, <1>2 DEF SessionsOK, Name
<1>4. SessionsOK'
  BY <1>1, <1>2, <1>3 DEF SessionsOK
<1>5. EntriesOK'
  <2> SUFFICES ASSUME NEW id \in DOMAIN entries
               PROVE  /\ entries[id].ses_id < id_start'
                      /\ Q!SameSession(entries[id])' => Q!SameSession(entries[id])
    BY <1>1, <1>2 DEF EntriesOK, EntryRec
  <2>1. entries[id].slot \in Slots /\ entries[id].ses_id \in Nat /\ entries[id].ses_id < id_start
    BY <1>2 DEF EntriesOK, EntryRec
  <2> QED BY <2>1, <1>1, <1>2, <1>3 DEF Q!SameSession, SessionsOK
<1>6. WayOK'
  BY <1>1, <1>2, WayStays DEF WayOK
<1>7. AskedOK' /\ CacheOK' /\ ServicesOK'
  BY <1>1, <1>2 DEF AskedOK, CacheOK, ServicesOK
<1> QED BY <1>1, <1>2, <1>4, <1>5, <1>6, <1>7, QuietRight DEF QueriesInv

\* A user logs in: questions asked before were of nobody.
LEMMA LoginQueries ==
  ASSUME QueriesAssumption, QueriesInv, NEW s \in Slots, NEW user \in Users, Q!login(s, user)
  PROVE  QueriesInv'
<1>1. /\ UNCHANGED <<id_start, entries, backend_cache, dict_cache, wire, replies, asked, requests>>
      /\ ses' = [ses EXCEPT ![s].user = user] /\ answers' = {}
  BY DEF Q!login, Q!services, Q!Quiet
<1>2. SessionsOK /\ EntriesOK /\ AskedOK /\ WayOK /\ CacheOK /\ ServicesOK /\ requests \in Nat
  BY DEF QueriesInv
<1>3. /\ ses' \in [Slots -> [id : Nat, user : Name]]
      /\ \A t \in Slots : ses'[t].id = ses[t].id
  BY <1>1, <1>2 DEF SessionsOK, Name
<1>4. SessionsOK'
  BY <1>1, <1>2, <1>3 DEF SessionsOK
<1>5. EntriesOK'
  BY <1>1, <1>2, <1>3 DEF EntriesOK, EntryRec, Q!SameSession
<1>6. WayOK'
  BY <1>1, <1>2, WayStays DEF WayOK
<1>7. AskedOK' /\ CacheOK' /\ ServicesOK'
  BY <1>1, <1>2 DEF AskedOK, CacheOK, ServicesOK
<1> QED BY <1>1, <1>2, <1>4, <1>5, <1>6, <1>7, QuietRight DEF QueriesInv

\* A connection ends: entries of its requests stay, and find another number.
LEMMA CloseQueries ==
  ASSUME QueriesAssumption, QueriesInv, NEW s \in Slots, Q!on_close(s) PROVE QueriesInv'
<1> DEFINE gone == {r \in DOMAIN asked : asked[r].ses_id = ses[s].id}
<1>1. /\ UNCHANGED <<id_start, entries, backend_cache, dict_cache, wire, replies, requests>>
      /\ ses[s].id # 0
      /\ ses' = [ses EXCEPT ![s] = Q!Free] /\ asked' = Q!Without(asked, gone) /\ answers' = {}
  BY DEF Q!on_close, Q!services, Q!Quiet
<1>2. SessionsOK /\ EntriesOK /\ AskedOK /\ WayOK /\ CacheOK /\ ServicesOK /\ requests \in Nat
  BY DEF QueriesInv
<1>3. /\ ses'[s].id = 0 /\ \A t \in Slots : t # s => ses'[t] = ses[t]
      /\ ses' \in [Slots -> [id : Nat, user : Name]]
  BY <1>1, <1>2 DEF SessionsOK, Name, Q!Free
<1>4. SessionsOK'
  BY <1>1, <1>2, <1>3 DEF SessionsOK
<1>5. DOMAIN asked' = DOMAIN asked \ gone /\ \A r \in DOMAIN asked' : asked'[r] = asked[r]
  <2> HIDE DEF gone
  <2>1. asked' = Q!Without(asked, gone)
    BY <1>1
  <2> QED BY <2>1 DEF Q!Without, Q!Restrict
<1>6. EntriesOK'
  <2> SUFFICES ASSUME NEW id \in DOMAIN entries, Q!SameSession(entries[id])'
               PROVE  id \in DOMAIN asked' /\ asked'[id].ses_id = entries[id].ses_id
    BY <1>1, <1>2 DEF EntriesOK, EntryRec
  <2>1. /\ entries[id].slot \in Slots /\ entries[id].ses_id # 0
        /\ ses'[entries[id].slot].id = entries[id].ses_id
    BY <1>1, <1>2 DEF EntriesOK, EntryRec, Q!SameSession
  <2>2. entries[id].slot # s /\ ses[entries[id].slot].id = entries[id].ses_id
    BY <2>1, <1>3
  <2>3. id \in DOMAIN asked /\ asked[id].ses_id = entries[id].ses_id
    BY <2>2, <1>2 DEF EntriesOK, Q!SameSession
  <2>4. ses[s].id # entries[id].ses_id
    BY <2>1, <2>2, <1>2 DEF SessionsOK
  <2> QED BY <2>3, <2>4, <1>5
<1>7. WayOK'
  <2>1. \A r \in DOMAIN asked' : r \in DOMAIN asked /\ asked'[r] = asked[r]
    BY <1>5
  <2>2. requests \in Nat /\ requests' = requests /\ entries' = entries
    BY <1>1, <1>2
  <2> HIDE DEF gone
  <2>3. wire \in [Q!Backends -> Seq(Packages')] /\ replies \in [Q!Backends -> Seq(Replies')]
    BY <1>2, <2>1, <2>2, WayStays
  <2> QED BY <1>1, <2>3 DEF WayOK
<1>8. AskedOK' /\ CacheOK' /\ ServicesOK'
  BY <1>1, <1>2, <1>5 DEF AskedOK, CacheOK, ServicesOK
<1> QED BY <1>1, <1>2, <1>4, <1>6, <1>7, <1>8, QuietRight DEF QueriesInv

\* Sessions, entries and questions are as before.
LEMMA SameTables ==
  ASSUME QueriesInv, requests' \in Nat, requests <= requests',
         UNCHANGED <<ses, id_start, entries, asked>>
  PROVE  /\ SessionsOK' /\ EntriesOK' /\ AskedOK'
         /\ UNCHANGED <<wire, replies>> => WayOK'
<1>1. SessionsOK /\ EntriesOK /\ AskedOK /\ WayOK /\ requests \in Nat
  BY DEF QueriesInv
<1>2. SessionsOK'
  BY <1>1 DEF SessionsOK
<1>3. EntriesOK'
  BY <1>1 DEF EntriesOK, Q!SameSession, EntryRec
<1>4. AskedOK'
  BY <1>1 DEF AskedOK
<1>5. wire \in [Q!Backends -> Seq(Packages')] /\ replies \in [Q!Backends -> Seq(Replies')]
  BY <1>1, WayStays
<1> QED BY <1>2, <1>3, <1>4, <1>5 DEF WayOK

\* What a client asks.
LEMMA QueryAskedIs ==
  ASSUME QueriesAssumption, QueriesInv, NEW s \in Slots, NEW q \in Questions,
         NEW h, h = Q!method_map[q[1]]
  PROVE  /\ Q!Asked(s, h, q[2]) \in AskRec /\ Q!Asked(s, h, q[2]) # Null
         /\ Q!Asked(s, h, q[2]).ses_id = ses[s].id /\ Q!Asked(s, h, q[2]).of = <<h.command, q[2]>>
         /\ Q!Asked(s, h, q[2]).user = Q!UserOf(h, s)
         /\ <<h.command, q[2]>> \in Keys /\ h.backend \in Q!Backends /\ h.kept \in BOOLEAN
         /\ Q!UserOf(h, s) \in Name /\ (h.kept => Q!UserOf(h, s) = Null)
         /\ Q!UserOf(h, s) # Null => h.command \notin Q!KeptByService
         /\ ses[s].id \in Nat
<1>1. /\ h.backend \in Q!Backends /\ h.kept \in BOOLEAN
      /\ ~h.kept => h.command \notin Q!KeptByService
  BY HandlerIs DEF QueriesAssumption
<1>2. <<h.command, q[2]>> \in Keys
  BY DEF Keys
<1>3. ses[s].id \in Nat /\ ses[s].user \in Name
  BY DEF QueriesInv, SessionsOK
<1>4. /\ Q!UserOf(h, s) \in Name /\ (h.kept => Q!UserOf(h, s) = Null)
      /\ Q!UserOf(h, s) # Null => ~h.kept
  BY <1>3 DEF Q!UserOf, Name
<1>5. Q!Asked(s, h, q[2]) = [ses_id |-> ses[s].id, of |-> <<h.command, q[2]>>,
                           user |-> Q!UserOf(h, s), age |-> 0]
  BY DEF Q!Asked
<1>6. Q!Asked(s, h, q[2]) \in AskRec
  BY <1>2, <1>3, <1>4, <1>5 DEF AskRec
<1>7. /\ Q!Asked(s, h, q[2]).ses_id = ses[s].id /\ Q!Asked(s, h, q[2]).of = <<h.command, q[2]>>
      /\ Q!Asked(s, h, q[2]).user = Q!UserOf(h, s)
  BY <1>5
<1>8. Q!Asked(s, h, q[2]) # Null
  BY <1>6 DEF QueriesAssumption
<1> QED BY <1>1, <1>2, <1>3, <1>4, <1>6, <1>7, <1>8

\* A request is refused at once.
LEMMA RefusedQueries ==
  ASSUME QueriesAssumption, QueriesInv, NEW s \in Slots, NEW q \in Questions,
         Q!refused(s, Q!method_map[q[1]], q[2])
  PROVE  QueriesInv'
<1> DEFINE h == Q!method_map[q[1]]
<1>1. /\ requests' = requests + 1
      /\ UNCHANGED <<ses, id_start, entries, asked, backend_cache, dict_cache, wire, replies>>
      /\ answers' = {[ses_id |-> ses[s].id, asked |-> Q!Asked(s, h, q[2]),
                      of |-> Q!Error, user |-> Null, age |-> 0]}
  BY DEF Q!refused, Q!Asks, Q!server
<1>2. CacheOK /\ ServicesOK /\ requests \in Nat
  BY DEF QueriesInv
<1>3. SessionsOK' /\ EntriesOK' /\ AskedOK' /\ WayOK'
  BY <1>1, <1>2, SameTables
<1>4. CacheOK' /\ ServicesOK'
  BY <1>1, <1>2 DEF CacheOK, ServicesOK
<1>5. h = Q!method_map[q[1]]
  OBVIOUS
<1> HIDE DEF h
<1>7. Q!Asked(s, h, q[2]) # Null /\ Q!Asked(s, h, q[2]).ses_id = ses[s].id
  BY <1>5, QueryAskedIs
<1>6. Q!AnswersRight'
  BY <1>1, <1>7 DEF Q!AnswersRight, Q!Owned, Q!Fresh, Q!Known
<1> QED BY <1>1, <1>2, <1>3, <1>4, <1>6 DEF QueriesInv

\* An answer of the cache of accessws.
LEMMA FromCacheQueries ==
  ASSUME QueriesAssumption, QueriesInv, NEW s \in Slots, NEW q \in Questions,
         Q!from_cache(s, Q!method_map[q[1]], q[2])
  PROVE  QueriesInv'
<1> DEFINE h   == Q!method_map[q[1]]
           key == <<h.command, q[2]>>
           val == backend_cache[key].val
<1>1. /\ requests' = requests + 1
      /\ UNCHANGED <<ses, id_start, entries, asked, backend_cache, dict_cache, wire, replies>>
      /\ h.kept /\ key \in DOMAIN backend_cache
      /\ ~(backend_cache[key].age > CacheTimeout)
      /\ answers' = {[ses_id |-> ses[s].id, asked |-> Q!Asked(s, h, q[2]), of |-> key,
                      user |-> val.user, age |-> val.age]}
  BY DEF Q!from_cache, Q!Asks, Q!server, Q!Expired
<1>2. CacheOK /\ ServicesOK /\ requests \in Nat
  BY DEF QueriesInv
<1>3. SessionsOK' /\ EntriesOK' /\ AskedOK' /\ WayOK'
  BY <1>1, <1>2, SameTables
<1>4. CacheOK' /\ ServicesOK'
  BY <1>1, <1>2 DEF CacheOK, ServicesOK
<1>0. h = Q!method_map[q[1]]
  OBVIOUS
<1> HIDE DEF h
<1>5. /\ Q!Asked(s, h, q[2]) # Null /\ Q!Asked(s, h, q[2]).ses_id = ses[s].id
      /\ Q!Asked(s, h, q[2]).of = key /\ Q!Asked(s, h, q[2]).user = Null
  BY <1>0, <1>1, QueryAskedIs
<1>6. val.user = Null /\ val.age \in Nat /\ val.age <= Most(key) + BackendTimeout + CacheTimeout
  <2>1. /\ backend_cache[key] \in [age : Nat, val : [of : Keys, user : {Null}, age : Nat]]
        /\ backend_cache[key].age <= CacheTimeout
             => val.age <= Most(key) + BackendTimeout + backend_cache[key].age
    BY <1>1, <1>2 DEF CacheOK
  <2>2. backend_cache[key].age \in Nat /\ val.user = Null /\ val.age \in Nat
    BY <2>1
  <2> HIDE DEF val, key
  <2> QED BY <1>1, <2>1, <2>2, MostIs DEF QueriesAssumption
<1>7. Most(key) <= ServiceTimeout /\ (key[1] \notin Q!KeptByService => Most(key) = 0) /\ Most(key) \in Nat
  BY MostIs DEF Most
<1> HIDE DEF key, val
<1>8. Q!AnswersRight'
  <2>1. Q!Owned'
    BY <1>1, <1>5, <1>6 DEF Q!Owned, Q!Known
  <2>2. Q!Fresh'
    BY <1>1, <1>6, <1>7 DEF Q!Fresh, Q!Known, QueriesAssumption
  <2> QED BY <2>1, <2>2 DEF Q!AnswersRight
<1> QED BY <1>1, <1>2, <1>3, <1>4, <1>8 DEF QueriesInv

\* A new entry and a package with its number.
LEMMA ForwardedQueries ==
  ASSUME QueriesAssumption, QueriesInv, NEW s \in Slots, NEW q \in Questions, ses[s].id # 0,
         Q!forwarded(s, Q!method_map[q[1]], q[2])
  PROVE  QueriesInv'
<1> DEFINE h     == Q!method_map[q[1]]
           key   == <<h.command, q[2]>>
           id    == requests + 1
           entry == [slot |-> s, ses_id |-> ses[s].id, request_id |-> id, left |-> BackendTimeout,
                     cache_key |-> IF h.kept THEN key ELSE Null]
           pkg   == [sequence |-> id, of |-> key, user |-> Q!UserOf(h, s)]
           ask   == Q!Asked(s, h, q[2])
<1>1. /\ requests' = id
      /\ UNCHANGED <<ses, id_start, dict_cache, replies>>
      /\ backend_cache' = (IF h.kept THEN Q!Without(backend_cache, {key}) ELSE backend_cache)
      /\ entries' = Q!With(entries, id, entry)
      /\ wire' = [wire EXCEPT ![h.backend] = Append(@, pkg)]
      /\ asked' = Q!With(asked, id, ask)
      /\ answers' = {}
  BY DEF Q!forwarded, Q!Asks, Q!server, Q!Quiet
<1>2. /\ SessionsOK /\ EntriesOK /\ AskedOK /\ WayOK /\ CacheOK /\ ServicesOK /\ requests \in Nat
      /\ id \in Nat /\ id > requests
  BY DEF QueriesInv
<1>0. h = Q!method_map[q[1]]
  OBVIOUS
<1> HIDE DEF h
<1>3. /\ ask \in AskRec /\ ask.ses_id = ses[s].id /\ ask.of = key /\ ask.user = Q!UserOf(h, s)
      /\ key \in Keys /\ h.backend \in Q!Backends /\ h.kept \in BOOLEAN /\ Q!UserOf(h, s) \in Name
      /\ h.kept => Q!UserOf(h, s) = Null
      /\ Q!UserOf(h, s) # Null => h.command \notin Q!KeptByService
      /\ ses[s].id \in Nat /\ ses[s].id < id_start
  BY <1>0, <1>2, QueryAskedIs DEF SessionsOK
<1>4. /\ entry \in EntryRec /\ entry.request_id = id /\ entry.ses_id = ses[s].id
      /\ entry.slot = s /\ entry.cache_key = IF h.kept THEN key ELSE Null
  BY <1>2, <1>3 DEF EntryRec, QueriesAssumption
<1>5. /\ pkg \in Package /\ pkg.sequence = id /\ pkg.of = key /\ pkg.user = Q!UserOf(h, s)
      /\ key[1] = h.command
  BY <1>2, <1>3 DEF Package
<1> HIDE DEF key, id, entry, pkg, ask
<1>6. /\ DOMAIN entries' = DOMAIN entries \cup {id} /\ entries'[id] = entry
      /\ \A i \in DOMAIN entries' : i # id => entries'[i] = entries[i]
  BY <1>1 DEF Q!With
<1>7. /\ DOMAIN asked' = DOMAIN asked \cup {id} /\ asked'[id] = ask
      /\ \A r \in DOMAIN asked' : r # id => asked'[r] = asked[r]
  BY <1>1 DEF Q!With
<1>8. SessionsOK'
  BY <1>1, <1>2 DEF SessionsOK
<1>9. EntriesOK'
  <2> SUFFICES ASSUME NEW i \in DOMAIN entries'
               PROVE  /\ i \in Nat /\ i <= id
                      /\ entries'[i] \in EntryRec /\ entries'[i].request_id = i
                      /\ entries'[i].ses_id # 0 /\ entries'[i].ses_id < id_start
                      /\ ses[entries'[i].slot].id = entries'[i].ses_id =>
                           i \in DOMAIN asked' /\ asked'[i].ses_id = entries'[i].ses_id
    BY <1>1 DEF EntriesOK, EntryRec, Q!SameSession
  <2>1. CASE i = id
    BY <2>1, <1>2, <1>3, <1>4, <1>6, <1>7
  <2>2. CASE i # id
    <3>1. i \in DOMAIN entries /\ entries'[i] = entries[i]
      BY <2>2, <1>6
    <3> QED BY <3>1, <2>2, <1>1, <1>2, <1>7 DEF EntriesOK, Q!SameSession
  <2> QED BY <2>1, <2>2
<1>10. AskedOK'
  BY <1>1, <1>2, <1>3, <1>7 DEF AskedOK
<1>11. WayOK'
  <2>1. /\ wire \in [Q!Backends -> Seq(Packages')] /\ replies \in [Q!Backends -> Seq(Replies')]
    BY <1>1, <1>2, <1>6, <1>7, WayStays
  <2>2. pkg \in Packages'
    <3> SUFFICES ASSUME NEW p, p = pkg PROVE p \in Packages'
      OBVIOUS
    <3>1. About(p)'
      BY <1>1, <1>2, <1>3, <1>4, <1>5, <1>6, <1>7 DEF About
    <3> QED BY <3>1, <1>5 DEF Packages, Package
  <2> DEFINE P == Packages'
  <2>3. pkg \in P /\ wire \in [Q!Backends -> Seq(P)]
    BY <2>1, <2>2
  <2> HIDE DEF P
  <2>4. wire' \in [Q!Backends -> Seq(P)]
    BY <2>3, <1>1, <1>3
  <2> QED BY <2>1, <2>4, <1>1 DEF WayOK, P
<1>12. CacheOK'
  <2>1. /\ DOMAIN backend_cache' \subseteq DOMAIN backend_cache
        /\ \A k \in DOMAIN backend_cache' : backend_cache'[k] = backend_cache[k]
    BY <1>1 DEF Q!Without, Q!Restrict
  <2> QED BY <2>1, <1>2 DEF CacheOK
<1>13. ServicesOK'
  BY <1>1, <1>2 DEF ServicesOK
<1> QED BY <1>1, <1>2, <1>8, <1>9, <1>10, <1>11, <1>12, <1>13, QuietRight DEF QueriesInv

\* What a service looks up is as old as the timeout allows.
LEMMA LookedIs ==
  ASSUME QueriesAssumption, QueriesInv, NEW b \in Q!Backends, NEW key
  PROVE  Q!Looked(b, key) \in Nat /\ Q!Looked(b, key) <= ServiceTimeout
<1>1. ServicesOK
  BY DEF QueriesInv
<1> QED BY <1>1 DEF Q!Looked, Q!Expired, ServicesOK, QueriesAssumption

\* An answer is as old as what the service kept, and what it kept is about nobody.
LEMMA ServiceQueries ==
  ASSUME QueriesAssumption, QueriesInv, NEW b \in Q!Backends, NEW i \in DOMAIN wire[b],
         Q!svr_on_recv_pkg(b, i)
  PROVE  QueriesInv'
<1> DEFINE pkg  == wire[b][i]
           bad  == pkg.of[2] = BadParams
           kept == ~bad /\ pkg.of[1] \in Q!KeptByService
           age  == IF kept THEN Q!Looked(b, pkg.of) ELSE 0
           made == [sequence |-> pkg.sequence, of |-> IF bad THEN Q!Error ELSE pkg.of,
                    user |-> pkg.user, age |-> age]
<1>1. /\ UNCHANGED <<ses, id_start, entries, backend_cache, asked, requests>>
      /\ wire' = [wire EXCEPT ![b] = Q!RemoveAt(@, i)]
      /\ dict_cache' = (IF kept THEN [dict_cache EXCEPT ![b] = Q!With(@, pkg.of, age)] ELSE dict_cache)
      /\ replies' = replies \/ replies' = [replies EXCEPT ![b] = Append(@, made)]
      /\ answers' = {}
  BY DEF Q!svr_on_recv_pkg, Q!server, Q!Quiet
<1>2. /\ EntriesOK /\ AskedOK /\ WayOK /\ CacheOK /\ ServicesOK /\ requests \in Nat
  BY DEF QueriesInv
<1>3. SessionsOK' /\ EntriesOK' /\ AskedOK'
  BY <1>1, <1>2, SameTables
<1>4. /\ wire \in [Q!Backends -> Seq(Packages')] /\ replies \in [Q!Backends -> Seq(Replies')]
  BY <1>1, <1>2, WayStays
<1>5. pkg \in Packages /\ wire[b] \in Seq(Packages)
  <2> DEFINE P == Packages
  <2>1. wire \in [Q!Backends -> Seq(P)]
    BY <1>2 DEF WayOK
  <2> HIDE DEF P
  <2>2. wire[b] \in Seq(P) /\ wire[b][i] \in P
    BY <2>1
  <2> QED BY <2>2 DEF P
<1>6. /\ pkg.sequence \in Nat /\ pkg.of \in Keys /\ pkg.user \in Name /\ About(pkg)
  BY <1>5 DEF Packages, Package
<1>7. /\ age \in Nat /\ age <= Most(pkg.of)
      /\ pkg.of[1] \notin Q!KeptByService => age = 0
  <2> HIDE DEF pkg
  <2>1. Q!Looked(b, pkg.of) \in Nat /\ Q!Looked(b, pkg.of) <= ServiceTimeout
    BY LookedIs
  <2> QED BY <2>1 DEF Most, QueriesAssumption
<1>8. made \in Replies'
  <2> SUFFICES ASSUME NEW r, r = made PROVE r \in Replies'
    OBVIOUS
  <2>1. /\ r.sequence = pkg.sequence /\ r.user = pkg.user /\ r.age = age
        /\ r.of = Q!Error \/ r.of = pkg.of
    OBVIOUS
  <2>2. r \in Reply
    <3> HIDE DEF pkg, bad, age
    <3> QED BY <1>6, <1>7 DEF Reply
  <2> HIDE DEF made, age, pkg
  <2>3. About(r)'
    BY <2>1, <1>1, <1>6 DEF About
  <2>4. InTime(r)'
    <3> SUFFICES ASSUME r.of # Q!Error
                 PROVE  /\ r.sequence \in DOMAIN entries =>
                             r.age <= Most(r.of) + (BackendTimeout - entries[r.sequence].left)
                        /\ r.sequence \in DOMAIN asked /\ r.user # Null =>
                             r.age <= asked[r.sequence].age
      BY <1>1 DEF InTime
    <3>1. r.sequence \in DOMAIN entries => entries[r.sequence].left \in 0..BackendTimeout
      BY <1>2 DEF EntriesOK, EntryRec
    <3>2. r.sequence \in DOMAIN asked => asked[r.sequence].age \in Nat
      BY <1>2 DEF AskedOK, AskRec
    <3>3. r.user # Null => r.age = 0
      BY <2>1, <1>6, <1>7, KeyIs DEF About
    <3>4. Most(r.of) \in Nat /\ r.age \in Nat /\ r.age <= Most(r.of)
      BY <2>1, <1>7, MostIs
    <3> QED BY <3>1, <3>2, <3>3, <3>4 DEF QueriesAssumption
  <2> QED BY <2>2, <2>3, <2>4 DEF Replies, Reply
<1> HIDE DEF made, kept, age
<1>9. WayOK'
  <2> DEFINE P == Packages'
             R == Replies'
  <2>1. Packages \subseteq P
    BY <1>1, <1>2, WayStays
  <2>2. wire[b] \in Seq(P) /\ wire \in [Q!Backends -> Seq(P)] /\ replies \in [Q!Backends -> Seq(R)] /\ made \in R
    BY <1>4, <1>8
  <2> HIDE DEF P, R
  <2>3. Q!RemoveAt(wire[b], i) \in Seq(P)
    BY <2>2, RemoveAtType
  <2>4. wire' \in [Q!Backends -> Seq(P)]
    BY <2>2, <2>3, <1>1
  <2>5. replies' \in [Q!Backends -> Seq(R)]
    <3>1. Append(replies[b], made) \in Seq(R)
      BY <2>2
    <3>2. replies' = replies \/ replies' = [replies EXCEPT ![b] = Append(replies[b], made)]
      BY <1>1
    <3> QED BY <2>2, <3>1, <3>2
  <2> QED BY <2>4, <2>5 DEF WayOK, P, R
<1>10. ServicesOK'
  <2>1. CASE ~kept
    BY <2>1, <1>1, <1>2 DEF ServicesOK
  <2>2. CASE kept
    <3> HIDE DEF pkg
    <3>1. dict_cache' = [dict_cache EXCEPT ![b] = Q!With(@, pkg.of, age)]
      BY <2>2, <1>1
    <3>2. \A k \in DOMAIN Q!With(dict_cache[b], pkg.of, age) : Q!With(dict_cache[b], pkg.of, age)[k] \in Nat
      BY <1>2, <1>7 DEF Q!With, ServicesOK
    <3> QED BY <3>1, <3>2, <1>2 DEF ServicesOK
  <2> QED BY <2>1, <2>2
<1>11. CacheOK'
  BY <1>1, <1>2 DEF CacheOK
<1> QED BY <1>1, <1>2, <1>3, <1>9, <1>10, <1>11, QuietRight DEF QueriesInv

\* Only what services keep, or what accessws keeps, or who is connected changes.
LEMMA KeptQueries ==
  ASSUME QueriesAssumption, QueriesInv,
         UNCHANGED <<ses, id_start, entries, wire, replies, asked, requests>>, answers' = {},
         backend_cache' = backend_cache \/ backend_cache' = <<>>, ServicesOK'
  PROVE  QueriesInv'
<1>1. requests \in Nat /\ CacheOK
  BY DEF QueriesInv
<1>2. SessionsOK' /\ EntriesOK' /\ AskedOK' /\ WayOK'
  BY <1>1, SameTables
<1>3. CacheOK'
  BY <1>1 DEF CacheOK
<1> QED BY <1>1, <1>2, <1>3, QuietRight DEF QueriesInv

\* Other clients of a service have it keep answers.
LEMMA OthersQueries ==
  ASSUME QueriesAssumption, QueriesInv, NEW b, NEW key, Q!asked_by_others(b, key) PROVE QueriesInv'
<1>1. /\ UNCHANGED <<ses, id_start, entries, wire, replies, asked, requests, backend_cache>>
      /\ answers' = {} /\ dict_cache' = [dict_cache EXCEPT ![b] = Q!With(@, key, 0)]
  BY DEF Q!asked_by_others, Q!server, Q!Quiet
<1>2. ServicesOK
  BY DEF QueriesInv
<1>3. ServicesOK'
  BY <1>1, <1>2 DEF ServicesOK, Q!With
<1> QED BY <1>1, <1>3, KeptQueries

\* Caches are cleared.
LEMMA TimerQueries ==
  ASSUME QueriesAssumption, QueriesInv, Q!on_cache_timer PROVE QueriesInv'
<1>1. /\ UNCHANGED <<ses, id_start, entries, wire, replies, asked, requests>> /\ answers' = {}
      /\ backend_cache' = backend_cache \/ backend_cache' = <<>>
      /\ dict_cache' = dict_cache \/ \E b \in Q!Backends : dict_cache' = [dict_cache EXCEPT ![b] = <<>>]
  BY DEF Q!on_cache_timer, Q!server, Q!Quiet
<1>2. ServicesOK
  BY DEF QueriesInv
<1>3. ServicesOK'
  BY <1>1, <1>2 DEF ServicesOK
<1> QED BY <1>1, <1>3, KeptQueries

\* A lost connection to a service is made again.
LEMMA ConnectQueries ==
  ASSUME QueriesAssumption, QueriesInv, NEW b \in Q!Backends, Q!on_backend_connect(b) PROVE QueriesInv'
<1>1. /\ UNCHANGED <<ses, id_start, entries, wire, replies, asked, requests, backend_cache, dict_cache>>
      /\ answers' = {}
  BY DEF Q!on_backend_connect, Q!server, Q!services, Q!Quiet
<1>2. ServicesOK'
  BY <1>1 DEF QueriesInv, ServicesOK
<1> QED BY <1>1, <1>2, KeptQueries

\* A connection to a service is lost, with what was on it.
LEMMA DisconnectQueries ==
  ASSUME QueriesAssumption, QueriesInv, NEW b \in Q!Backends, Q!disconnect(b) PROVE QueriesInv'
<1>1. /\ UNCHANGED <<ses, id_start, entries, asked, requests, backend_cache, dict_cache>>
      /\ wire' = [wire EXCEPT ![b] = <<>>] /\ replies' = [replies EXCEPT ![b] = <<>>]
      /\ answers' = {}
  BY DEF Q!disconnect, Q!server, Q!Quiet
<1>2. requests \in Nat /\ CacheOK /\ ServicesOK /\ WayOK
  BY DEF QueriesInv
<1>3. SessionsOK' /\ EntriesOK' /\ AskedOK'
  BY <1>1, <1>2, SameTables
<1>4. WayOK'
  <2> DEFINE P == Packages'
             R == Replies'
  <2>1. /\ wire \in [Q!Backends -> Seq(P)] /\ replies \in [Q!Backends -> Seq(R)]
        /\ <<>> \in Seq(P) /\ <<>> \in Seq(R)
    BY <1>1, <1>2, WayStays, EmptySeq
  <2> HIDE DEF P, R
  <2>2. wire' \in [Q!Backends -> Seq(P)] /\ replies' \in [Q!Backends -> Seq(R)]
    BY <2>1, <1>1
  <2> QED BY <2>2 DEF WayOK, P, R
<1>5. CacheOK' /\ ServicesOK'
  BY <1>1, <1>2 DEF CacheOK, ServicesOK
<1> QED BY <1>1, <1>2, <1>3, <1>4, <1>5, QuietRight DEF QueriesInv

\* An entry goes, with the question if its session is still there.
LEMMA EntryGone ==
  ASSUME QueriesInv, NEW id \in DOMAIN entries, entries' = Q!Without(entries, {id}),
         UNCHANGED <<ses, id_start, requests>>,
         IF Q!SameSession(entries[id]) THEN asked' = Q!Without(asked, {id}) ELSE asked' = asked
  PROVE  /\ SessionsOK' /\ EntriesOK' /\ AskedOK'
         /\ wire \in [Q!Backends -> Seq(Packages')] /\ replies \in [Q!Backends -> Seq(Replies')]
<1>1. SessionsOK /\ EntriesOK /\ AskedOK /\ WayOK /\ requests \in Nat
  BY DEF QueriesInv
<1>2. DOMAIN entries' = DOMAIN entries \ {id} /\ \A i \in DOMAIN entries' : entries'[i] = entries[i]
  BY DEF Q!Without, Q!Restrict
<1>3. /\ \A r \in DOMAIN asked' : r \in DOMAIN asked /\ asked'[r] = asked[r]
      /\ \A r \in DOMAIN asked : r # id => r \in DOMAIN asked'
  <2>1. CASE asked' = asked
    BY <2>1
  <2>2. CASE asked' = Q!Without(asked, {id})
    BY <2>2 DEF Q!Without, Q!Restrict
  <2> QED BY <2>1, <2>2
<1>4. SessionsOK' /\ AskedOK'
  BY <1>1, <1>3 DEF SessionsOK, AskedOK
<1>5. EntriesOK'
  <2> SUFFICES ASSUME NEW i \in DOMAIN entries'
               PROVE  /\ i \in Nat /\ i <= requests
                      /\ entries'[i] \in EntryRec /\ entries'[i].request_id = i
                      /\ entries'[i].ses_id # 0 /\ entries'[i].ses_id < id_start
                      /\ ses[entries'[i].slot].id = entries'[i].ses_id =>
                           i \in DOMAIN asked' /\ asked'[i].ses_id = entries'[i].ses_id
    BY DEF EntriesOK, EntryRec, Q!SameSession
  <2>1. i \in DOMAIN entries /\ i # id /\ entries'[i] = entries[i]
    BY <1>2
  <2> QED BY <2>1, <1>1, <1>3 DEF EntriesOK, Q!SameSession
<1>6. wire \in [Q!Backends -> Seq(Packages')] /\ replies \in [Q!Backends -> Seq(Replies')]
  <2>1. \A i \in DOMAIN entries' : i \in DOMAIN entries /\ entries'[i] = entries[i]
    BY <1>2
  <2>2. \A r \in DOMAIN asked' : r \in DOMAIN asked /\ asked'[r] = asked[r]
    BY <1>3
  <2>3. requests \in Nat /\ requests' \in Nat /\ requests <= requests' /\ WayOK
    BY <1>1
  <2> QED BY ONLY <2>1, <2>2, <2>3, WayStays
<1> QED BY <1>4, <1>5, <1>6

\* A reply of a service goes to the request with its number, if one waits.
LEMMA ReplyQueries ==
  ASSUME QueriesAssumption, QueriesInv, NEW b \in Q!Backends, Q!on_backend_recv_pkg(b)
  PROVE  QueriesInv'
<1> DEFINE reply == Head(replies[b])
           id    == reply.sequence
           e     == entries[id]
<1>1. /\ UNCHANGED <<ses, id_start, dict_cache, wire, requests>>
      /\ replies[b] # <<>> /\ replies' = [replies EXCEPT ![b] = Tail(@)]
  BY DEF Q!on_backend_recv_pkg, Q!server
<1>2. /\ SessionsOK /\ EntriesOK /\ AskedOK /\ WayOK /\ CacheOK /\ ServicesOK /\ requests \in Nat
  BY DEF QueriesInv
<1>3. reply \in Replies
  <2> DEFINE R == Replies
  <2>1. replies \in [Q!Backends -> Seq(R)]
    BY <1>2 DEF WayOK
  <2> HIDE DEF R
  <2>2. replies[b] \in Seq(R) /\ Head(replies[b]) \in R
    BY <2>1, <1>1
  <2> QED BY <2>2 DEF R
<1>4. reply \in Reply /\ About(reply) /\ InTime(reply)
  BY <1>3 DEF Replies
<1> HIDE DEF reply
<1>5. ServicesOK'
  BY <1>1, <1>2 DEF ServicesOK
<1>6. ASSUME wire \in [Q!Backends -> Seq(Packages')], replies \in [Q!Backends -> Seq(Replies')]
      PROVE  WayOK'
  <2> DEFINE P == Packages'
             R == Replies'
  <2>1. wire \in [Q!Backends -> Seq(P)] /\ replies \in [Q!Backends -> Seq(R)]
    BY <1>6
  <2> HIDE DEF P, R
  <2>2. wire' \in [Q!Backends -> Seq(P)] /\ replies' \in [Q!Backends -> Seq(R)]
    BY <2>1, <1>1
  <2> QED BY <2>2 DEF WayOK, P, R
<1>7. CASE id \notin DOMAIN entries
  <2>1. UNCHANGED <<entries, backend_cache, asked>> /\ answers' = {}
    BY <1>7 DEF Q!on_backend_recv_pkg, Q!Quiet, reply
  <2>2. SessionsOK' /\ EntriesOK' /\ AskedOK'
    BY <2>1, <1>1, <1>2, SameTables
  <2>3. WayOK'
    BY <2>1, <1>1, <1>2, <1>6, WayStays
  <2>4. CacheOK'
    BY <2>1, <1>2 DEF CacheOK
  <2> QED BY <2>1, <2>2, <2>3, <2>4, <1>1, <1>2, <1>5, QuietRight DEF QueriesInv
<1>8. CASE id \in DOMAIN entries
  <2>1. /\ entries' = Q!Without(entries, {id}) /\ backend_cache' = Q!Kept(e, reply)
        /\ IF Q!SameSession(e)
           THEN /\ Q!Sent(e.slot, e.request_id, reply.of, reply.user, reply.age)
                /\ asked' = Q!Without(asked, {e.request_id})
           ELSE answers' = {} /\ asked' = asked
    BY <1>8 DEF Q!on_backend_recv_pkg, Q!Quiet, reply
  <2>2. /\ e \in EntryRec /\ e.request_id = id
        /\ Q!SameSession(e) => id \in DOMAIN asked /\ asked[id].ses_id = e.ses_id
        /\ \A r \in DOMAIN asked : asked[r] \in AskRec
    BY <1>2, <1>8 DEF EntriesOK, AskedOK
  <2>3. e.left \in 0..BackendTimeout
    BY <2>2 DEF EntryRec
  <2>4. /\ reply.age \in Nat /\ reply.of \in Keys \cup {Q!Error} /\ reply.user \in Name
        /\ reply.of # Q!Error =>
             /\ reply.age <= Most(reply.of) + BackendTimeout
             /\ reply.user # Null => reply.of[1] \notin Q!KeptByService
             /\ id \in DOMAIN asked => reply.of = asked[id].of /\ reply.user = asked[id].user
             /\ id \in DOMAIN asked /\ reply.user # Null => reply.age <= asked[id].age
             /\ e.cache_key # Null => reply.of = e.cache_key /\ reply.user = Null
    <3>1. reply.age \in Nat /\ reply.of \in Keys \cup {Q!Error} /\ reply.user \in Name
      BY <1>4 DEF Reply
    <3>2. reply.of # Q!Error => reply.age <= Most(reply.of) + (BackendTimeout - e.left)
      BY <1>4, <1>8 DEF InTime
    <3>3. Most(reply.of) \in Nat
      BY MostIs
    <3>4. reply.of # Q!Error => reply.age <= Most(reply.of) + BackendTimeout
      BY <3>1, <3>2, <3>3, <2>3 DEF QueriesAssumption
    <3> QED BY <3>1, <3>4, <1>4, <1>8 DEF About, InTime
  <2>5. /\ SessionsOK' /\ EntriesOK' /\ AskedOK'
        /\ wire \in [Q!Backends -> Seq(Packages')] /\ replies \in [Q!Backends -> Seq(Replies')]
    BY <2>1, <2>2, <1>1, <1>8, EntryGone
  <2>6. CacheOK'
    <3>1. CASE e.cache_key = Null \/ reply.of = Q!Error
      BY <3>1, <2>1, <1>2 DEF Q!Kept, CacheOK
    <3>2. CASE e.cache_key # Null /\ reply.of # Q!Error
      <4> DEFINE new == [age |-> 0, val |-> [of |-> reply.of, user |-> reply.user, age |-> reply.age]]
      <4>1. backend_cache' = Q!With(backend_cache, e.cache_key, new)
        BY <3>2, <2>1 DEF Q!Kept
      <4>2. /\ reply.of = e.cache_key /\ reply.user = Null /\ reply.of \in Keys /\ reply.age \in Nat
            /\ reply.age <= Most(reply.of) + BackendTimeout
        BY <3>2, <2>4
      <4>3. Most(reply.of) \in Nat
        BY MostIs
      <4>4. /\ new \in [age : Nat, val : [of : Keys, user : {Null}, age : Nat]]
            /\ new.age <= CacheTimeout => new.val.age <= Most(e.cache_key) + BackendTimeout + new.age
        BY <4>2, <4>3 DEF QueriesAssumption
      <4> HIDE DEF new, e
      <4> QED BY <4>1, <4>4, <1>2 DEF CacheOK, Q!With
    <3> QED BY <3>1, <3>2
  <2>7. Q!AnswersRight'
    <3>1. CASE ~Q!SameSession(e)
      BY <3>1, <2>1, QuietRight
    <3>2. CASE Q!SameSession(e)
      <4>1. answers' = {[ses_id |-> ses[e.slot].id, asked |-> asked[id],
                         of |-> reply.of, user |-> reply.user, age |-> reply.age]}
        BY <3>2, <2>1, <2>2 DEF Q!Sent
      <4>2. /\ asked[id] # Null /\ asked[id].ses_id = ses[e.slot].id /\ id \in DOMAIN asked
        BY <3>2, <2>2 DEF Q!SameSession, QueriesAssumption
      <4> HIDE DEF e, id
      <4>3. Q!Owned'
        BY <4>1, <4>2, <2>4 DEF Q!Owned, Q!Known
      <4>4. /\ Most(reply.of) \in Nat /\ Most(reply.of) <= ServiceTimeout
            /\ reply.of[1] \notin Q!KeptByService => Most(reply.of) = 0
        BY MostIs DEF Most
      <4>5. reply.of # Q!Error =>
              /\ reply.age <= CacheTimeout + ServiceTimeout + BackendTimeout
              /\ reply.of[1] \notin Q!KeptByService => reply.age <= CacheTimeout + BackendTimeout
              /\ reply.user # Null => reply.age <= asked[id].age
        BY <4>2, <4>4, <2>4 DEF QueriesAssumption
      <4>6. Q!Fresh'
        BY <4>1, <4>5 DEF Q!Fresh, Q!Known
      <4> QED BY <4>3, <4>6 DEF Q!AnswersRight
    <3> QED BY <3>1, <3>2
  <2> QED BY <2>5, <2>6, <2>7, <1>1, <1>2, <1>5, <1>6 DEF QueriesInv
<1> QED BY <1>7, <1>8

\* A request has waited too long.
LEMMA TimeoutQueries ==
  ASSUME QueriesAssumption, QueriesInv, NEW id \in DOMAIN entries, Q!on_timeout(id) PROVE QueriesInv'
<1> DEFINE e == entries[id]
<1>1. /\ UNCHANGED <<ses, id_start, backend_cache, dict_cache, wire, replies, requests>>
      /\ entries' = Q!Without(entries, {id})
      /\ IF Q!SameSession(e)
         THEN Q!Sent(e.slot, e.request_id, Q!Error, Null, 0) /\ asked' = Q!Without(asked, {e.request_id})
         ELSE answers' = {} /\ asked' = asked
  BY DEF Q!on_timeout, Q!server, Q!services, Q!Quiet
<1>2. /\ EntriesOK /\ AskedOK /\ CacheOK /\ ServicesOK /\ requests \in Nat
  BY DEF QueriesInv
<1>3. /\ e.request_id = id
      /\ Q!SameSession(e) => id \in DOMAIN asked /\ asked[id].ses_id = e.ses_id
      /\ \A r \in DOMAIN asked : asked[r] \in AskRec
  BY <1>2 DEF EntriesOK, AskedOK
<1>4. SessionsOK' /\ EntriesOK' /\ AskedOK' /\ WayOK'
  BY <1>1, <1>3, EntryGone DEF WayOK
<1>5. CacheOK' /\ ServicesOK'
  BY <1>1, <1>2 DEF CacheOK, ServicesOK
<1>6. Q!AnswersRight'
  <2>1. CASE ~Q!SameSession(e)
    BY <2>1, <1>1, QuietRight
  <2>2. CASE Q!SameSession(e)
    <3>1. answers' = {[ses_id |-> ses[e.slot].id, asked |-> asked[id],
                       of |-> Q!Error, user |-> Null, age |-> 0]}
      BY <2>2, <1>1, <1>3 DEF Q!Sent
    <3>2. asked[id] # Null /\ asked[id].ses_id = ses[e.slot].id
      BY <2>2, <1>3 DEF Q!SameSession, QueriesAssumption
    <3> HIDE DEF e
    <3> QED BY <3>1, <3>2 DEF Q!AnswersRight, Q!Owned, Q!Fresh, Q!Known
  <2> QED BY <2>1, <2>2
<1> QED BY <1>1, <1>2, <1>4, <1>5, <1>6 DEF QueriesInv

\* Whoever waits has waited longer by what the data got older.
LEMMA TickQueries == ASSUME QueriesAssumption, QueriesInv, Q!tick PROVE QueriesInv'
<1>1. /\ UNCHANGED <<ses, id_start, wire, requests>> /\ answers' = {}
      /\ \A id \in DOMAIN entries : entries[id].left > 0
      /\ entries' = [id \in DOMAIN entries |-> [entries[id] EXCEPT !.left = @ - 1]]
      /\ backend_cache' = [k \in DOMAIN backend_cache |->
           [age |-> Q!Older(backend_cache[k].age, CacheTimeout + 1),
            val |-> [backend_cache[k].val EXCEPT !.age = Q!Older(@, Q!Old)]]]
      /\ dict_cache' = [b \in Q!Backends |-> [k \in DOMAIN dict_cache[b] |->
           Q!Older(dict_cache[b][k], ServiceTimeout + 1)]]
      /\ replies' = [b \in Q!Backends |-> Q!OlderAll(replies[b])]
      /\ asked' = Q!OlderAll(asked)
  BY DEF Q!tick, Q!server, Q!Quiet
<1>2. /\ SessionsOK /\ EntriesOK /\ AskedOK /\ WayOK /\ CacheOK /\ ServicesOK /\ requests \in Nat
  BY DEF QueriesInv
<1>3. /\ DOMAIN entries' = DOMAIN entries
      /\ \A id \in DOMAIN entries :
           /\ entries'[id] \in EntryRec /\ entries'[id].left = entries[id].left - 1
           /\ entries'[id].slot = entries[id].slot /\ entries'[id].ses_id = entries[id].ses_id
           /\ entries'[id].request_id = entries[id].request_id
           /\ entries'[id].cache_key = entries[id].cache_key
  <2> SUFFICES ASSUME NEW id \in DOMAIN entries
               PROVE  /\ entries'[id] \in EntryRec /\ entries'[id].left = entries[id].left - 1
                      /\ entries'[id].slot = entries[id].slot
                      /\ entries'[id].ses_id = entries[id].ses_id
                      /\ entries'[id].request_id = entries[id].request_id
                      /\ entries'[id].cache_key = entries[id].cache_key
    BY <1>1
  <2>1. entries[id] \in EntryRec /\ entries[id].left > 0
    BY <1>1, <1>2 DEF EntriesOK
  <2>2. entries'[id] = [entries[id] EXCEPT !.left = @ - 1]
    BY <1>1
  <2>3. entries[id].left - 1 \in 0..BackendTimeout
    BY <2>1 DEF EntryRec, QueriesAssumption
  <2> QED BY <2>1, <2>2, <2>3 DEF EntryRec
<1>4. /\ DOMAIN asked' = DOMAIN asked
      /\ \A r \in DOMAIN asked :
           /\ asked'[r] \in AskRec /\ asked'[r].age = Q!Older(asked[r].age, Q!Old)
           /\ asked'[r].ses_id = asked[r].ses_id /\ asked'[r].of = asked[r].of
           /\ asked'[r].user = asked[r].user
  <2> SUFFICES ASSUME NEW r \in DOMAIN asked
               PROVE  /\ asked'[r] \in AskRec /\ asked'[r].age = Q!Older(asked[r].age, Q!Old)
                      /\ asked'[r].ses_id = asked[r].ses_id /\ asked'[r].of = asked[r].of
                      /\ asked'[r].user = asked[r].user
    BY <1>1 DEF Q!OlderAll
  <2>1. asked[r] \in AskRec /\ asked[r].age \in Nat
    BY <1>2 DEF AskedOK, AskRec
  <2>2. asked'[r] = [asked[r] EXCEPT !.age = Q!Older(@, Q!Old)]
    BY <1>1 DEF Q!OlderAll
  <2>3. Q!Older(asked[r].age, Q!Old) \in Nat
    BY <2>1, OldIs, OlderIs
  <2> QED BY <2>1, <2>2, <2>3 DEF AskRec
<1>5. SessionsOK'
  BY <1>1, <1>2 DEF SessionsOK
<1>6. EntriesOK'
  <2> SUFFICES ASSUME NEW id \in DOMAIN entries
               PROVE  /\ id \in Nat /\ id <= requests
                      /\ entries'[id] \in EntryRec /\ entries'[id].request_id = id
                      /\ entries'[id].ses_id # 0 /\ entries'[id].ses_id < id_start
                      /\ ses[entries'[id].slot].id = entries'[id].ses_id =>
                           id \in DOMAIN asked' /\ asked'[id].ses_id = entries'[id].ses_id
    BY <1>1, <1>3 DEF EntriesOK, EntryRec, Q!SameSession
  <2> QED BY <1>2, <1>3, <1>4 DEF EntriesOK, Q!SameSession
<1>7. AskedOK'
  BY <1>1, <1>2, <1>4 DEF AskedOK
<1>8. ASSUME NEW p, About(p) PROVE About(p)'
  BY <1>8, <1>1, <1>3, <1>4 DEF About
<1>9. ASSUME NEW r \in Replies PROVE [r EXCEPT !.age = Q!Older(@, Q!Old)] \in Replies'
  <2> DEFINE n == [r EXCEPT !.age = Q!Older(@, Q!Old)]
  <2>1. r \in Reply /\ About(r) /\ InTime(r) /\ r.age \in Nat
    BY DEF Replies, Reply
  <2>2. Q!Older(r.age, Q!Old) \in Nat /\ Q!Older(r.age, Q!Old) <= r.age + 1
    BY <2>1, OldIs, OlderIs
  <2>3. /\ n \in Reply /\ n.sequence = r.sequence /\ n.of = r.of /\ n.user = r.user
        /\ n.age = Q!Older(r.age, Q!Old)
    BY <2>1, <2>2 DEF Reply
  <2> SUFFICES ASSUME NEW x, x = n PROVE x \in Replies'
    OBVIOUS
  <2> HIDE DEF n
  <2>4. About(x)'
    <3>1. About(r)'
      BY <2>1, <1>8
    <3> QED BY <3>1, <2>3 DEF About
  <2>5. InTime(x)'
    <3> SUFFICES ASSUME x.of # Q!Error
                 PROVE  /\ x.sequence \in DOMAIN entries =>
                             x.age <= Most(x.of) + (BackendTimeout - entries'[x.sequence].left)
                        /\ x.sequence \in DOMAIN asked /\ x.user # Null =>
                             x.age <= asked'[x.sequence].age
      BY <1>3, <1>4 DEF InTime
    <3>1. ASSUME x.sequence \in DOMAIN entries
          PROVE  x.age <= Most(x.of) + (BackendTimeout - entries'[x.sequence].left)
      <4>1. entries[x.sequence].left \in 0..BackendTimeout
        BY <3>1, <1>2 DEF EntriesOK, EntryRec
      <4>2. r.age <= Most(x.of) + (BackendTimeout - entries[x.sequence].left)
        BY <3>1, <2>1, <2>3 DEF InTime
      <4>3. entries'[x.sequence].left = entries[x.sequence].left - 1
        BY <3>1, <1>3
      <4>4. Most(x.of) \in Nat
        BY MostIs
      <4> QED BY <4>1, <4>2, <4>3, <4>4, <2>1, <2>2, <2>3 DEF QueriesAssumption
    <3>2. ASSUME x.sequence \in DOMAIN asked, x.user # Null PROVE x.age <= asked'[x.sequence].age
      <4>1. asked[x.sequence].age \in Nat /\ r.age <= asked[x.sequence].age
        BY <3>2, <1>2, <2>1, <2>3 DEF AskedOK, AskRec, InTime
      <4>2. asked'[x.sequence].age = Q!Older(asked[x.sequence].age, Q!Old)
        BY <3>2, <1>4
      <4> DEFINE a == asked[x.sequence].age
      <4>3. a \in Nat /\ r.age \in Nat /\ r.age <= a /\ Q!Old \in Nat
        BY <4>1, <2>1, OldIs
      <4> HIDE DEF a
      <4>4. Q!Older(r.age, Q!Old) <= Q!Older(a, Q!Old)
        BY <4>3, OlderIs
      <4> QED BY <4>2, <4>4, <2>3 DEF a
    <3> QED BY <3>1, <3>2
  <2> QED BY <2>3, <2>4, <2>5 DEF Replies, Reply
<1>10. WayOK'
  <2> DEFINE P == Packages'
             R == Replies'
             QQ == Replies
  <2>1. Packages \subseteq P
    BY <1>8 DEF Packages, Package
  <2>2. wire \in [Q!Backends -> Seq(Packages)] /\ replies \in [Q!Backends -> Seq(QQ)]
    BY <1>2 DEF WayOK
  <2>3. wire \in [Q!Backends -> Seq(P)]
    <3>1. Seq(Packages) \subseteq Seq(P)
      BY <2>1, SeqMonotonic
    <3> HIDE DEF P
    <3> QED BY <2>2, <3>1
  <2>4. ASSUME NEW b \in Q!Backends PROVE Q!OlderAll(replies[b]) \in Seq(R)
    <3>1. \A r \in QQ : [r EXCEPT !.age = Q!Older(@, Q!Old)] \in R
      BY <1>9
    <3> HIDE DEF QQ, R
    <3>2. replies[b] \in Seq(QQ)
      BY <2>2
    <3>3. /\ DOMAIN replies[b] = 1..Len(replies[b]) /\ Len(replies[b]) \in Nat
          /\ \A k \in DOMAIN replies[b] : replies[b][k] \in QQ
      BY <3>2
    <3>4. Q!OlderAll(replies[b]) = [k \in 1..Len(replies[b]) |-> [replies[b][k] EXCEPT !.age = Q!Older(@, Q!Old)]]
      BY <3>3 DEF Q!OlderAll
    <3>5. \A k \in 1..Len(replies[b]) : [replies[b][k] EXCEPT !.age = Q!Older(@, Q!Old)] \in R
      BY <3>1, <3>3
    <3> QED BY <3>3, <3>4, <3>5
  <2>5. replies' \in [Q!Backends -> Seq(R)]
    <3> HIDE DEF R
    <3> QED BY <2>4, <1>1
  <2> QED BY <2>3, <2>5, <1>1 DEF WayOK
<1>11. CacheOK'
  <2> SUFFICES ASSUME NEW k \in DOMAIN backend_cache
               PROVE  LET kept == backend_cache'[k]
                      IN  /\ kept \in [age : Nat, val : [of : Keys, user : {Null}, age : Nat]]
                          /\ kept.age <= CacheTimeout =>
                               kept.val.age <= Most(k) + BackendTimeout + kept.age
    BY <1>1 DEF CacheOK, Most
  <2> DEFINE old == backend_cache[k]
  <2>1. /\ old \in [age : Nat, val : [of : Keys, user : {Null}, age : Nat]]
        /\ old.age <= CacheTimeout => old.val.age <= Most(k) + BackendTimeout + old.age
    BY <1>2 DEF CacheOK
  <2>2. backend_cache'[k] = [age |-> Q!Older(old.age, CacheTimeout + 1),
                             val |-> [old.val EXCEPT !.age = Q!Older(@, Q!Old)]]
    BY <1>1
  <2> HIDE DEF old
  <2>3. /\ old.age \in Nat /\ old.val \in [of : Keys, user : {Null}, age : Nat] /\ old.val.age \in Nat
        /\ CacheTimeout + 1 \in Nat
    BY <2>1 DEF QueriesAssumption
  <2>4. /\ Q!Older(old.age, CacheTimeout + 1) \in Nat /\ Q!Older(old.val.age, Q!Old) \in Nat
        /\ Q!Older(old.val.age, Q!Old) <= old.val.age + 1
        /\ Q!Older(old.age, CacheTimeout + 1) < CacheTimeout + 1 =>
             Q!Older(old.age, CacheTimeout + 1) = old.age + 1
    BY <2>3, OldIs, OlderIs
  <2>5. /\ backend_cache'[k] \in [age : Nat, val : [of : Keys, user : {Null}, age : Nat]]
        /\ backend_cache'[k].age = Q!Older(old.age, CacheTimeout + 1)
        /\ backend_cache'[k].val.age = Q!Older(old.val.age, Q!Old)
    BY <2>2, <2>3, <2>4
  <2>6. ASSUME backend_cache'[k].age <= CacheTimeout
        PROVE  backend_cache'[k].val.age <= Most(k) + BackendTimeout + backend_cache'[k].age
    <3>1. backend_cache'[k].age = old.age + 1 /\ old.age <= CacheTimeout
      BY <2>3, <2>4, <2>5, <2>6 DEF QueriesAssumption
    <3>2. Most(k) \in Nat
      BY MostIs
    <3> QED BY <3>1, <3>2, <2>1, <2>3, <2>4, <2>5 DEF QueriesAssumption
  <2> QED BY <2>5, <2>6
<1>12. ServicesOK'
  <2>1. \A b \in Q!Backends : \A k \in DOMAIN dict_cache[b] :
          Q!Older(dict_cache[b][k], ServiceTimeout + 1) \in Nat
    <3> SUFFICES ASSUME NEW b \in Q!Backends, NEW k \in DOMAIN dict_cache[b]
                 PROVE  Q!Older(dict_cache[b][k], ServiceTimeout + 1) \in Nat
      OBVIOUS
    <3>1. dict_cache[b][k] \in Nat /\ ServiceTimeout + 1 \in Nat
      BY <1>2 DEF ServicesOK, QueriesAssumption
    <3> QED BY <3>1, OlderIs
  <2> QED BY <2>1, <1>1 DEF ServicesOK
<1> QED BY <1>1, <1>2, <1>5, <1>6, <1>7, <1>10, <1>11, <1>12, QuietRight DEF QueriesInv

\* Every step keeps the invariant of queries.
LEMMA NextQueries == ASSUME QueriesAssumption, QueriesInv, [Q!Next]_(Q!qvars) PROVE QueriesInv'
<1>1. ASSUME NEW s \in Slots, NEW q \in Questions, Q!on_message(s, q[1], q[2]) PROVE QueriesInv'
  <2>1. CASE Q!refused(s, Q!method_map[q[1]], q[2])
    BY <2>1, RefusedQueries
  <2>2. CASE Q!from_cache(s, Q!method_map[q[1]], q[2])
    BY <2>2, FromCacheQueries
  <2>3. CASE Q!forwarded(s, Q!method_map[q[1]], q[2])
    <3>1. ses[s].id # 0
      BY <2>3 DEF Q!forwarded, Q!Asks
    <3> QED BY <2>3, <3>1, ForwardedQueries
  <2> QED BY <1>1, <2>1, <2>2, <2>3 DEF Q!on_message
<1>2. ASSUME Q!Timers PROVE QueriesInv'
  BY <1>2, TickQueries, TimeoutQueries DEF Q!Timers
<1>3. ASSUME NEW s \in Slots, Q!on_upgrade(s) \/ Q!on_close(s) \/ \E user \in Users : Q!login(s, user)
      PROVE  QueriesInv'
  BY <1>3, UpgradeQueries, CloseQueries, LoginQueries
<1>4. ASSUME NEW b \in Q!Backends,
             \/ \E i \in DOMAIN wire[b] : Q!svr_on_recv_pkg(b, i)
             \/ Q!on_backend_recv_pkg(b) \/ Q!disconnect(b) \/ Q!on_backend_connect(b)
      PROVE  QueriesInv'
  BY <1>4, ServiceQueries, ReplyQueries, DisconnectQueries, ConnectQueries
<1>5. ASSUME NEW b, NEW key, Q!asked_by_others(b, key) PROVE QueriesInv'
  BY <1>5, OthersQueries
<1>6. CASE UNCHANGED Q!qvars
  <2>1. UNCHANGED <<ses, id_start, entries, wire, replies, asked, requests, backend_cache, dict_cache,
                    answers>>
    BY <1>6 DEF Q!qvars, Q!server, Q!services
  <2>2. requests \in Nat /\ CacheOK /\ ServicesOK /\ Q!AnswersRight
    BY DEF QueriesInv
  <2>3. SessionsOK' /\ EntriesOK' /\ AskedOK' /\ WayOK'
    BY <2>1, <2>2, SameTables
  <2>4. CacheOK' /\ ServicesOK' /\ Q!AnswersRight'
    BY <2>1, <2>2 DEF CacheOK, ServicesOK, Q!AnswersRight, Q!Owned, Q!Fresh, Q!Known
  <2> QED BY <2>1, <2>2, <2>3, <2>4 DEF QueriesInv
<1> QED BY <1>1, <1>2, <1>3, <1>4, <1>5, <1>6, TimerQueries DEF Q!Next

\* An answer goes to the connection that asked, once, and is about what it asked and the user
\* it asked for, though memory of sessions is used again and accessws and the
\* services keep answers; and it is not older than what they keep and the time a
\* request may take (on_message, process_cache, on_backend_recv_pkg).
THEOREM AnswersAlwaysRight == ASSUME QueriesAssumption PROVE Q!Spec => []Q!AnswersRight
<1>1. Q!Init => QueriesInv
  BY InitQueries
<1>2. QueriesInv /\ [Q!Next]_(Q!qvars) => QueriesInv'
  BY NextQueries
<1>3. QueriesInv => Q!AnswersRight
  BY DEF QueriesInv
<1> QED BY <1>1, <1>2, <1>3, PTL DEF Q!Spec
==============================================================================
