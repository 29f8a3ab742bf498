---------------------------- MODULE EngineProofs ------------------------------
(***************************************************************************)
(* Proofs about the match engine: what its variables hold, what a handler   *)
(* will return to, the index of orders, the refinement of OrderBook, and    *)
(* what accounts hold: the contracts of the positions, the orders that      *)
(* promise to sell them, and the money of the orders.                       *)
(***************************************************************************)
EXTENDS EngineProps, SumLemmas

------------------------------------------------------------------------------
(* The account operations                                                   *)

\* A stored balance is a natural number.
LEMMA RescaleType == ASSUME NEW a \in Nat PROVE Rescale(a) \in Nat
  BY QuantumAssumption, SMT DEF Rescale

\* balance_set, balance_add and balance_sub leave an account behind.
LEMMA AccountOps ==
  ASSUME NEW acc \in Account, NEW type \in {"available", "freeze"}, NEW amount \in Int
  PROVE  /\ balance_set(acc, type, amount) \in Account
         /\ balance_add(acc, type, amount) \in Account
         /\ balance_sub(acc, type, amount) \in Account
<1>1. CASE type = "available"
  BY <1>1, RescaleType DEF balance_set, balance_add, balance_sub, CanSub, Account
<1>2. CASE type = "freeze"
  BY <1>2, RescaleType DEF balance_set, balance_add, balance_sub, CanSub, Account
<1> QED BY <1>1, <1>2

\* So do the two transfers.
LEMMA TransferOps ==
  ASSUME NEW acc \in Account, NEW amount \in Int
  PROVE  /\ balance_freeze(acc, amount) \in Account
         /\ balance_unfreeze(acc, amount) \in Account
  BY RescaleType DEF balance_freeze, balance_unfreeze, CanSub, Account
------------------------------------------------------------------------------
(* The positions                                                            *)

PositionsType(ps) == /\ DOMAIN ps \subseteq Keys
                     /\ \A k \in DOMAIN ps : ps[k] \in PositionRec

\* Quotients and margins are integers.
LEMMA QuotType == ASSUME NEW a \in Int, NEW b \in Int PROVE Quot(a, b) \in Int
  BY SMT DEF Quot

LEMMA MarginType ==
  ASSUME NEW a \in Int, NEW lv \in Int PROVE Margin(a, lv) \in Int
<1>1. a * Unit \in Int
  BY UnitAssumption, SMT
<1> QED BY <1>1, QuotType DEF Margin

LEMMA SidesType == Sides \subseteq Nat /\ OPEN \in Nat /\ CLOSE \in Nat
  BY DEF Sides, BEAR, BULL, OPEN, CLOSE

\* What a deal does to one position gives a position.
LEMMA NewPositionType ==
  ASSUME NEW pattern \in {ISOLATED, CROSS}, NEW leverage \in Nat \ {0},
         NEW amount \in Int, NEW price \in Int, NEW fee \in Int
  PROVE  NewPosition(pattern, leverage, amount, price, fee) \in PositionRec
<1>1. Margin(amount, leverage) - fee \in Int
  BY MarginType, SMT
<1> QED BY <1>1 DEF NewPosition, PositionRec

LEMMA OpenIntoType ==
  ASSUME NEW p \in PositionRec, NEW amount \in Int, NEW price \in Int,
         NEW pri \in Int, NEW fee \in Int
  PROVE  OpenInto(p, amount, price, pri, fee) \in PositionRec
<1>1. /\ p.principal \in Int /\ p.price \in Int /\ p.position \in Int /\ p.frozen \in Int
  BY DEF PositionRec
<1>2. Total(p) \in Int /\ Total(p) + amount \in Int
  BY <1>1 DEF Total
<1>3. amount * price + p.price * Total(p) \in Int
  BY <1>1, <1>2, SMT
<1>4. Quot(amount * price + p.price * Total(p), Total(p) + amount) \in Int
  BY <1>2, <1>3, QuotType
<1>5. p.principal + pri - fee \in Int /\ p.position + amount \in Int
  BY <1>1
<1> QED BY <1>4, <1>5 DEF OpenInto, PositionRec

LEMMA CloseFromType ==
  ASSUME NEW p \in PositionRec, NEW amount \in Int
  PROVE  CloseFrom(p, amount) \in PositionRec
<1>1. /\ p.principal \in Int /\ p.position \in Int /\ p.frozen \in Int
  BY DEF PositionRec
<1>2. Total(p) \in Int /\ amount * p.principal \in Int
  BY <1>1, SMT DEF Total
<1> DEFINE released == Quot(amount * p.principal, Total(p))
<1>3. released \in Int
  BY <1>2, QuotType
<1> HIDE DEF released
<1>4. p.principal - released \in Int /\ p.frozen - amount \in Int
  BY <1>1, <1>3
<1> DEFINE closed == [p EXCEPT !.principal = @ - released]
<1>5. closed \in PositionRec
  BY <1>4 DEF PositionRec
<1>6. CloseFrom(p, amount) = IF Total(p) = amount
                             THEN [closed EXCEPT !.position = 0, !.frozen = 0]
                             ELSE [closed EXCEPT !.frozen = @ - amount]
  BY DEF CloseFrom, released
<1> HIDE DEF closed
<1>7. closed.frozen - amount \in Int
  BY <1>5 DEF PositionRec
<1>8. [closed EXCEPT !.frozen = @ - amount] \in PositionRec
  BY <1>5, <1>7 DEF PositionRec
<1>9. [closed EXCEPT !.position = 0, !.frozen = 0] \in PositionRec
  <2>1. ASSUME NEW z \in Int
        PROVE  [closed EXCEPT !.position = z, !.frozen = z] \in PositionRec
    BY <1>5 DEF PositionRec
  <2>2. 0 \in Int
    OBVIOUS
  <2> QED BY <2>1, <2>2, Zenon
<1> QED BY <1>6, <1>8, <1>9

LEMMA FreezePositionType ==
  ASSUME NEW p \in PositionRec, NEW amount \in Int
  PROVE  FreezePosition(p, amount) \in PositionRec
<1>1. p.frozen + amount \in Int /\ p.position - amount \in Int
  BY DEF PositionRec
<1> QED BY <1>1 DEF FreezePosition, PositionRec

LEMMA StorePositionType ==
  ASSUME NEW ps, PositionsType(ps), NEW k \in Keys, NEW p \in PositionRec
  PROVE  PositionsType(StorePosition(ps, k, p))
  BY DEF PositionsType, StorePosition, WithEntry, WithoutEntry

LEMMA adjustPositionType ==
  ASSUME NEW ps, PositionsType(ps), NEW k \in Keys, NEW o \in OrderRec,
         NEW amount \in Int, NEW price \in Int, NEW fee \in Int
  PROVE  PositionsType(adjustPosition(ps, k, o, amount, price, fee))
<1>1. o.pattern \in {ISOLATED, CROSS} /\ o.leverage \in Nat \ {0} /\ o.leverage \in Int
  BY DEF OrderRec
<1>2. NewPosition(o.pattern, o.leverage, amount, price, fee) \in PositionRec
  BY <1>1, NewPositionType
<1>3. Margin(amount, o.leverage) \in Int
  BY <1>1, MarginType
<1>4. ASSUME k \in DOMAIN ps
      PROVE  /\ OpenInto(ps[k], amount, price, Margin(amount, o.leverage), fee) \in PositionRec
             /\ CloseFrom(ps[k], amount) \in PositionRec
  <2>1. ps[k] \in PositionRec
    BY <1>4 DEF PositionsType
  <2> QED BY <2>1, <1>3, OpenIntoType, CloseFromType
<1> QED BY <1>2, <1>4, StorePositionType DEF adjustPosition

\* The equity of a position is an integer.
LEMMA getPNLType ==
  ASSUME NEW p \in PositionRec, NEW side, NEW price \in Int
  PROVE  getPNL(p, side, price) \in Int
<1>1. /\ p.principal \in Int /\ p.position \in Int /\ p.frozen \in Int /\ p.price \in Int
  BY DEF PositionRec
<1>2. Total(p) \in Int
  BY <1>1 DEF Total
<1> DEFINE delta == IF side = BULL THEN price - p.price ELSE p.price - price
<1>3. delta \in Int /\ -delta \in Int
  BY <1>1
<1> HIDE DEF delta
<1>4. delta * Total(p) * Unit \in Int /\ (-delta) * Total(p) * Unit \in Int
  BY <1>2, <1>3, UnitAssumption, SMT
<1>5. /\ Quot(delta * Total(p) * Unit, p.price) \in Int
      /\ Quot((-delta) * Total(p) * Unit, p.price) \in Int
  BY <1>1, <1>4, QuotType
<1>6. getPNL(p, side, price) = IF delta >= 0
        THEN p.principal + Quot(delta * Total(p) * Unit, p.price)
        ELSE p.principal - Quot((-delta) * Total(p) * Unit, p.price)
  BY DEF getPNL, delta
<1> QED BY <1>1, <1>5, <1>6

LEMMA ClosePNLType ==
  ASSUME NEW p \in PositionRec, NEW side, NEW amount \in Int, NEW price \in Int
  PROVE  ClosePNL(p, side, amount, price) \in Int
<1>1. getPNL(p, side, price) \in Int /\ Total(p) \in Int
  BY getPNLType DEF PositionRec, Total
<1>2. getPNL(p, side, price) * amount \in Int
  BY <1>1, SMT
<1> QED BY <1>1, <1>2, QuotType DEF ClosePNL
------------------------------------------------------------------------------
(* The orders and their index                                               *)

OrdersType == \A i \in DOMAIN orders : i \in 1..order_id_start /\ orders[i] \in OrderRec

IndexOK == /\ OrdersType
           /\ book \in [Markets -> [Lists -> SUBSET Nat]]
           /\ order_id_start \in Nat
           /\ ListsOK

\* Only limit orders are filed in the trading lists, and they are looked for
\* there when they are finished.
LEMMA ListOfKind ==
  ASSUME NEW o \in OrderRec
  PROVE  /\ PutList(o) \in Lists /\ FinishList(o) \in Lists
         /\ PutList(o) \in {"asks", "bids"} <=> o.type = LIMIT
         /\ o.type = LIMIT => FinishList(o) = PutList(o)
         /\ o.type = LIMIT => PutList(o) = IF IsAsk(o) THEN "asks" ELSE "bids"
  BY DEF PutList, FinishList, Lists, LIMIT, PLAN

\* Filing an order keeps the index in order.
LEMMA PutKeepsIndex ==
  ASSUME IndexOK, NEW m \in Markets, NEW o \in OrderRec, o.market = m,
         order_put_future(m, o)
  PROVE  /\ IndexOK'
         /\ order_id_start' = order_id_start + 1
         /\ DOMAIN orders' = DOMAIN orders \cup {order_id_start'}
         /\ \A i \in DOMAIN orders : orders'[i] = orders[i]
<1> DEFINE id == order_id_start + 1
<1>1. /\ order_id_start' = id /\ id \in Nat
      /\ orders' = WithEntry(orders, id, o)
      /\ book' = [book EXCEPT ![m][PutList(o)] = @ \cup {id}]
  BY DEF order_put_future, IndexOK
<1>2. /\ DOMAIN orders' = DOMAIN orders \cup {id}
      /\ id \notin DOMAIN orders
      /\ orders'[id] = o
      /\ \A i \in DOMAIN orders : orders'[i] = orders[i]
  BY <1>1 DEF WithEntry, IndexOK, OrdersType
<1>3. OrdersType'
  BY <1>1, <1>2 DEF IndexOK, OrdersType
<1>4. book' \in [Markets -> [Lists -> SUBSET Nat]]
  BY <1>1, ListOfKind DEF IndexOK
<1>5. ListsOK'
  <2> SUFFICES ASSUME NEW n \in Markets, NEW l \in Lists, NEW i \in book'[n][l]
               PROVE  /\ i \in 1..order_id_start'
                      /\ l \in {"asks", "bids"} => i \in DOMAIN orders'
                      /\ i \in DOMAIN orders' =>
                           orders'[i].market = n /\ PutList(orders'[i]) = l
    BY DEF ListsOK, PutList, IsAsk
  <2>1. i \in book[n][l] \/ (i = id /\ n = m /\ l = PutList(o))
    BY <1>1, ListOfKind DEF IndexOK, Lists
  <2>2. CASE i \in book[n][l]
    <3>1. /\ i \in 1..order_id_start
          /\ l \in {"asks", "bids"} => i \in DOMAIN orders
          /\ i \in DOMAIN orders => orders[i].market = n /\ PutList(orders[i]) = l
      BY <2>2 DEF IndexOK, ListsOK
    <3>2. order_id_start \in Nat /\ i # id /\ i \in 1..id
      BY <3>1 DEF IndexOK
    <3> QED BY <3>1, <3>2, <1>1, <1>2
  <2>3. CASE i = id /\ n = m /\ l = PutList(o)
    <3>1. order_id_start \in Nat /\ id \in 1..id
      BY DEF IndexOK
    <3> QED BY <3>1, <2>3, <1>1, <1>2
  <2> QED BY <2>1, <2>2, <2>3
<1> QED BY <1>1, <1>2, <1>3, <1>4, <1>5 DEF IndexOK

\* The trading lists hold live orders of one type.
LEMMA TradingListSorted ==
  ASSUME IndexOK, NEW m \in Markets, NEW l \in {"asks", "bids"} PROVE Sorted(m, l)
<1> SUFFICES ASSUME NEW i \in book[m][l]
             PROVE  i \in DOMAIN orders /\ orders[i].type = LIMIT
  BY DEF Sorted
<1>1. l \in Lists
  BY DEF Lists
<1>2. i \in DOMAIN orders /\ PutList(orders[i]) = l
  BY <1>1 DEF IndexOK, ListsOK
<1> QED BY <1>2, ListOfKind DEF IndexOK, OrdersType

\* So does finishing one, whatever its kind.
LEMMA FinishKeepsIndex ==
  ASSUME IndexOK, NEW i \in DOMAIN orders, order_finish_future(i)
  PROVE  /\ IndexOK'
         /\ order_id_start' = order_id_start
         /\ DOMAIN orders' = DOMAIN orders \ {i}
         /\ \A j \in DOMAIN orders' : orders'[j] = orders[j]
<1> DEFINE m == orders[i].market  l == FinishList(orders[i])
<1>1. orders[i] \in OrderRec /\ m \in Markets /\ l \in Lists
  BY ListOfKind DEF IndexOK, OrdersType, OrderRec
<1>2. /\ order_id_start' = order_id_start
      /\ orders' = WithoutEntry(orders, i)
      /\ book' = [book EXCEPT ![m][l] = @ \ {i}] \/ (~Sorted(m, l) /\ book' = book)
  BY DEF order_finish_future
<1>3. /\ DOMAIN orders' = DOMAIN orders \ {i}
      /\ \A j \in DOMAIN orders' : orders'[j] = orders[j]
  BY <1>2 DEF WithoutEntry
<1>4. OrdersType'
  BY <1>2, <1>3 DEF IndexOK, OrdersType
<1>5. book' \in [Markets -> [Lists -> SUBSET Nat]]
  <2>1. book \in [Markets -> [Lists -> SUBSET Nat]] /\ book[m][l] \ {i} \in SUBSET Nat
    BY <1>1 DEF IndexOK
  <2>2. [book EXCEPT ![m][l] = @ \ {i}] \in [Markets -> [Lists -> SUBSET Nat]]
    BY ONLY <1>1, <2>1
  <2> QED BY ONLY <1>2, <2>1, <2>2
<1>6. ListsOK'
  <2> SUFFICES ASSUME NEW n \in Markets, NEW k \in Lists, NEW j \in book'[n][k]
               PROVE  /\ j \in 1..order_id_start'
                      /\ k \in {"asks", "bids"} => j \in DOMAIN orders'
                      /\ j \in DOMAIN orders' =>
                           orders'[j].market = n /\ PutList(orders'[j]) = k
    BY DEF ListsOK, PutList, IsAsk
  <2>1. j \in book[n][k]
    BY <1>1, <1>2 DEF IndexOK, Lists
  <2>2. /\ j \in 1..order_id_start
        /\ k \in {"asks", "bids"} => j \in DOMAIN orders
        /\ j \in DOMAIN orders => orders[j].market = n /\ PutList(orders[j]) = k
    BY <2>1 DEF IndexOK, ListsOK
  <2>3. ASSUME k \in {"asks", "bids"} PROVE j # i
    <3>1. CASE n = m /\ k = l
      <4>1. Sorted(m, l)
        BY <2>3, <3>1, <1>1, TradingListSorted
      <4> QED BY <4>1, <3>1, <1>1, <1>2 DEF IndexOK
    <3>2. CASE ~(n = m /\ k = l)
      BY <2>2, <2>3, <3>2, <1>1, ListOfKind
    <3> QED BY <3>1, <3>2
  <2> QED BY <2>2, <2>3, <1>2, <1>3
<1> QED BY <1>2, <1>3, <1>4, <1>5, <1>6 DEF IndexOK
------------------------------------------------------------------------------
(* Deals                                                                    *)

ModesType == \A k \in DOMAIN position_mode :
               /\ k \in Users \X Markets
               /\ position_mode[k] \in [pattern : {ISOLATED, CROSS}, leverage : Nat \ {0}]

AccountsOK == balance \in [Users -> Account] /\ PositionsType(positions) /\ ModesType

PricesOK == latestPrice \in [Markets -> Nat]

LEMMA adjustOrderType ==
  ASSUME NEW o \in OrderRec, NEW amount \in Int
  PROVE  /\ adjustOrder(o, amount) \in OrderRec
         /\ \A f \in {"user", "market", "type", "side", "oper_type", "price"} :
              adjustOrder(o, amount)[f] = o[f]
<1>1. o.left - amount \in Int /\ o.freeze \in Int /\ o.leverage \in Int
  BY DEF OrderRec
<1>2. Margin(amount, o.leverage) \in Int
  BY <1>1, MarginType
<1> DEFINE freeze == IF o.oper_type = OPEN THEN o.freeze - Margin(amount, o.leverage)
                                           ELSE o.freeze
<1>3. freeze \in Int
  BY <1>1, <1>2
<1>4. adjustOrder(o, amount) = [o EXCEPT !.left = o.left - amount, !.freeze = freeze]
  BY DEF adjustOrder
<1> HIDE DEF freeze
<1> QED BY <1>1, <1>3, <1>4 DEF OrderRec

LEMMA adjustBalanceType ==
  ASSUME NEW acc \in Account, NEW o \in OrderRec, NEW amount \in Int,
         NEW fee \in Int, NEW pnl \in Int
  PROVE  adjustBalance(acc, o, amount, fee, pnl) \in Account
<1>1. o.leverage \in Int
  BY DEF OrderRec
<1>2. Margin(amount, o.leverage) \in Int
  BY <1>1, MarginType
<1>3. balance_unfreeze(acc, Margin(amount, o.leverage)) \in Account
  BY <1>2, TransferOps
<1>4. balance_add(acc, "available", pnl) \in Account
  BY AccountOps
<1> QED BY <1>2, <1>3, <1>4, AccountOps DEF adjustBalance

LEMMA KeyOfType == ASSUME NEW o \in OrderRec PROVE KeyOf(o) \in Keys
  BY DEF OrderRec, KeyOf, Keys

LEMMA DealPNLType ==
  ASSUME NEW ps, PositionsType(ps), NEW o \in OrderRec, NEW amount \in Int, NEW price \in Int
  PROVE  DealPNL(ps, o, amount, price) \in Int
  BY ClosePNLType DEF DealPNL, PositionsType

\* A deal of a typed taker with an order of the opposite list leaves typed
\* accounts, prices, orders and taker.
LEMMA DealType ==
  ASSUME AccountsOK, IndexOK, PricesOK, taker \in OrderRec, call.market \in Markets,
         NEW i \in DOMAIN orders, Deal(i)
  PROVE  /\ AccountsOK' /\ PricesOK' /\ IndexOK'
         /\ taker' \in OrderRec
         /\ taker'.type = taker.type /\ taker'.market = taker.market
         /\ order_id_start' = order_id_start
         /\ DOMAIN orders \ {i} \subseteq DOMAIN orders' /\ DOMAIN orders' \subseteq DOMAIN orders
         /\ \A j \in DOMAIN orders' : orders'[j].type = orders[j].type
         /\ \A j \in DOMAIN orders \ {i} : orders'[j] = orders[j]
         /\ pc' \in {"match", "return", "crash"}
         /\ UNCHANGED <<call, scan, victim>>
<1> DEFINE maker  == orders[i]
           amount == IF taker.left < maker.left THEN taker.left ELSE maker.left
           price  == maker.price
           taken  == adjustPosition(positions, KeyOf(taker), taker, amount, price,
                                    amount * TakerFee)
           paid   == [balance EXCEPT ![taker.user] =
                        adjustBalance(@, taker, amount, amount * TakerFee,
                                      DealPNL(positions, taker, amount, price))]
           maker2 == adjustOrder(maker, amount)
<1>1. maker \in OrderRec /\ taker \in OrderRec
  BY DEF IndexOK, OrdersType
<1>2. /\ taker.left \in Int /\ maker.left \in Int /\ price \in Nat /\ price \in Int
      /\ taker.user \in Users /\ maker.user \in Users /\ maker.market \in Markets
  BY <1>1 DEF OrderRec
<1>3. amount \in Int
  BY <1>2
<1>4. amount * TakerFee \in Int /\ amount * MakerFee \in Int
  BY <1>3, MarketAssumption, SMT
<1>5. /\ latestPrice' = [latestPrice EXCEPT ![call.market] = price]
      /\ positions' = adjustPosition(taken, KeyOf(maker), maker, amount, price,
                                     amount * MakerFee)
      /\ balance' = [paid EXCEPT ![maker.user] =
                       adjustBalance(@, maker, amount, amount * MakerFee,
                                     DealPNL(taken, maker, amount, price))]
      /\ taker' = adjustOrder(taker, amount)
      /\ IF maker2.left = 0
         THEN order_finish_future(i)
         ELSE orders' = [orders EXCEPT ![i] = maker2] /\ UNCHANGED <<book, order_id_start>>
      /\ pc' \in {"match", "return", "crash"}
      /\ UNCHANGED <<position_mode, call, scan, victim>>
  BY DEF Deal
<1> HIDE DEF amount, price
<1>6. PositionsType(taken)
  BY <1>1, <1>2, <1>3, <1>4, KeyOfType, adjustPositionType DEF AccountsOK
<1>7. DealPNL(positions, taker, amount, price) \in Int
  BY <1>1, <1>2, <1>3, DealPNLType DEF AccountsOK
<1>8. adjustBalance(balance[taker.user], taker, amount, amount * TakerFee,
                    DealPNL(positions, taker, amount, price)) \in Account
  BY <1>1, <1>2, <1>3, <1>4, <1>7, adjustBalanceType DEF AccountsOK
<1>9. paid \in [Users -> Account]
  BY <1>2, <1>8 DEF AccountsOK
<1> HIDE DEF taken, paid
<1>10. PositionsType(positions')
  BY <1>1, <1>2, <1>3, <1>4, <1>5, <1>6, KeyOfType, adjustPositionType
<1>11. DealPNL(taken, maker, amount, price) \in Int
  BY <1>1, <1>2, <1>3, <1>6, DealPNLType
<1>12. adjustBalance(paid[maker.user], maker, amount, amount * MakerFee,
                     DealPNL(taken, maker, amount, price)) \in Account
  BY <1>1, <1>2, <1>3, <1>4, <1>9, <1>11, adjustBalanceType
<1>13. balance' \in [Users -> Account]
  BY <1>2, <1>5, <1>9, <1>12
<1>14. AccountsOK'
  BY <1>5, <1>10, <1>13 DEF AccountsOK, ModesType
<1>15. PricesOK'
  BY <1>2, <1>5 DEF PricesOK
<1>16. /\ taker' \in OrderRec /\ taker'.type = taker.type /\ taker'.market = taker.market
       /\ maker2 \in OrderRec /\ maker2.type = maker.type /\ maker2.market = maker.market
       /\ maker2.side = maker.side /\ maker2.oper_type = maker.oper_type
  BY <1>1, <1>3, <1>5, adjustOrderType
<1> HIDE DEF maker2
<1>17. /\ IndexOK'
       /\ order_id_start' = order_id_start
       /\ DOMAIN orders \ {i} \subseteq DOMAIN orders' /\ DOMAIN orders' \subseteq DOMAIN orders
       /\ \A j \in DOMAIN orders' : orders'[j].type = orders[j].type
       /\ \A j \in DOMAIN orders \ {i} : orders'[j] = orders[j]
  <2>1. CASE maker2.left = 0
    <3>1. order_finish_future(i)
      BY <2>1, <1>5
    <3>2. /\ IndexOK' /\ DOMAIN orders' = DOMAIN orders \ {i}
          /\ order_id_start' = order_id_start
          /\ \A j \in DOMAIN orders' : orders'[j] = orders[j]
      BY <3>1, FinishKeepsIndex
    <3> QED BY <3>2
  <2>2. CASE maker2.left # 0
    <3>1. /\ orders' = [orders EXCEPT ![i] = maker2]
          /\ book' = book /\ order_id_start' = order_id_start
      BY <2>2, <1>5
    <3>2. PutList(maker2) = PutList(maker)
      BY <1>16 DEF PutList, IsAsk
    <3>3. ListsOK'
      <4> SUFFICES ASSUME NEW n \in Markets, NEW l \in Lists, NEW j \in book[n][l]
                   PROVE  /\ j \in 1..order_id_start
                          /\ l \in {"asks", "bids"} => j \in DOMAIN orders'
                          /\ j \in DOMAIN orders' =>
                               orders'[j].market = n /\ PutList(orders'[j]) = l
        BY <3>1 DEF ListsOK, PutList, IsAsk
      <4>1. /\ j \in 1..order_id_start
            /\ l \in {"asks", "bids"} => j \in DOMAIN orders
            /\ j \in DOMAIN orders => orders[j].market = n /\ PutList(orders[j]) = l
        BY DEF IndexOK, ListsOK
      <4>2. CASE j = i
        BY <4>1, <4>2, <3>1, <3>2, <1>16
      <4>3. CASE j # i
        BY <4>1, <4>3, <3>1
      <4> QED BY <4>2, <4>3
    <3>4. OrdersType'
      BY <3>1, <1>16 DEF OrdersType, IndexOK
    <3> QED BY <3>1, <3>3, <3>4, <1>16 DEF IndexOK
  <2> QED BY <2>1, <2>2
<1> QED BY <1>5, <1>14, <1>15, <1>16, <1>17
------------------------------------------------------------------------------
(* The invariant, step by step                                              *)

ControlOK == /\ pc \in Phases
             /\ pc \in {"match", "return"} => taker \in OrderRec
             /\ call \in CallRec
             /\ HandlerOK

IterOK == scan \in ScanRec /\ victim \in VictimRec

StateOK == AccountsOK /\ IndexOK /\ PricesOK /\ ControlOK

LEMMA InvParts == EngineInv <=> StateOK /\ IterOK
  BY DEF EngineInv, StateOK, TypeOK, AccountsOK, IndexOK, PricesOK, ControlOK, IterOK,
         PositionsType, ModesType, OrdersType

\* What a step leaves alone stays typed.
LEMMA IndexFrame == ASSUME IndexOK, UNCHANGED index PROVE IndexOK'
<1>1. orders' = orders /\ book' = book /\ order_id_start' = order_id_start
  BY DEF index
<1>2. OrdersType'
  BY <1>1 DEF IndexOK, OrdersType
<1>3. ListsOK'
  BY <1>1 DEF IndexOK, ListsOK, PutList, IsAsk
<1> QED BY <1>1, <1>2, <1>3 DEF IndexOK

LEMMA AccountsFrame == ASSUME AccountsOK, UNCHANGED accounts PROVE AccountsOK'
  BY DEF AccountsOK, PositionsType, ModesType, accounts

LEMMA StutterInv == ASSUME StateOK, UNCHANGED vars PROVE StateOK'
<1>1. UNCHANGED <<accounts, index, latestPrice, pc, taker, call, scan, victim>>
  BY DEF vars, accounts, index
<1>2. AccountsOK' /\ IndexOK' /\ PricesOK'
  BY <1>1, AccountsFrame, IndexFrame DEF StateOK, PricesOK
<1>3. ControlOK'
  BY <1>1 DEF StateOK, ControlOK, HandlerOK, InPlanner, accounts, index
<1> QED BY <1>2, <1>3 DEF StateOK

\* Starting execute_order for a typed order.
LEMMA ExecuteControl ==
  ASSUME StateOK, NEW o \in OrderRec, NEW m \in Markets, NEW old \in Nat,
         NEW by \in {"client", "planner", "liquidation", "cross"},
         o.type \in {MARKET, LIMIT}, o.type = LIMIT => o.market = m,
         by = "planner" =>
           /\ old \in DOMAIN orders' /\ orders'[old].type # LIMIT
           /\ scan'.market \in Markets
           /\ scan'.todo \subseteq 1..order_id_start'
           /\ \A j \in scan'.todo : j \in DOMAIN orders' => orders'[j].type # LIMIT,
         Execute(o, m, by, old)
  PROVE  ControlOK'
<1>1. /\ pc' = "match" /\ taker' = o
      /\ call' = [by |-> by, market |-> m, price |-> latestPrice[m], old |-> old]
  BY DEF Execute
<1>2. m \in Nat /\ latestPrice[m] \in Nat
  BY MarketAssumption DEF Markets, StateOK, PricesOK
<1>3. call' \in CallRec
  BY <1>1, <1>2 DEF CallRec
<1>4. call'.by = by /\ call'.market = m /\ call'.old = old
  BY <1>1
<1>5. HandlerOK'
  BY <1>1, <1>4 DEF HandlerOK, InPlanner
<1> QED BY <1>1, <1>3, <1>5 DEF ControlOK, Phases

LEMMA MatchStepInv == ASSUME StateOK, MatchStep PROVE StateOK'
<1>1. /\ pc = "match" /\ taker \in OrderRec /\ call.market \in Markets
  BY DEF MatchStep, StateOK, ControlOK, HandlerOK, InPlanner
<1>2. PICK i \in book[call.market][Opposite(taker)] : Deal(i)
  BY DEF MatchStep
<1>3. i \in DOMAIN orders /\ orders[i].type = LIMIT
  <2>1. Opposite(taker) \in {"asks", "bids"} /\ Opposite(taker) \in Lists
    BY DEF Opposite, Lists
  <2>2. i \in DOMAIN orders /\ PutList(orders[i]) = Opposite(taker)
    BY <1>1, <2>1 DEF StateOK, IndexOK, ListsOK
  <2>3. orders[i] \in OrderRec
    BY <2>2 DEF StateOK, IndexOK, OrdersType
  <2> QED BY <2>1, <2>2, <2>3, ListOfKind
<1>4. /\ AccountsOK' /\ PricesOK' /\ IndexOK'
      /\ taker' \in OrderRec
      /\ taker'.type = taker.type /\ taker'.market = taker.market
      /\ order_id_start' = order_id_start
      /\ DOMAIN orders \ {i} \subseteq DOMAIN orders' /\ DOMAIN orders' \subseteq DOMAIN orders
      /\ \A j \in DOMAIN orders' : orders'[j].type = orders[j].type
      /\ \A j \in DOMAIN orders \ {i} : orders'[j] = orders[j]
      /\ pc' \in {"match", "return", "crash"}
      /\ UNCHANGED <<call, scan, victim>>
  BY <1>1, <1>2, <1>3, DealType DEF StateOK
<1>5. call.by = "planner" => call.old \in DOMAIN orders \ {i} /\ orders[call.old].type # LIMIT
  BY <1>1, <1>3 DEF StateOK, ControlOK, HandlerOK, InPlanner
<1>6. ControlOK'
  BY <1>1, <1>4, <1>5 DEF StateOK, ControlOK, HandlerOK, InPlanner, Phases
<1> QED BY <1>4, <1>6 DEF StateOK

LEMMA RestTakerInv == ASSUME StateOK, RestTaker PROVE StateOK'
<1>1. /\ pc = "match" /\ taker \in OrderRec /\ call.market \in Markets
      /\ taker.market = call.market
  BY DEF RestTaker, NothingToMatch, StateOK, ControlOK, HandlerOK, InPlanner
<1>2. order_put_future(call.market, taker) /\ pc' = "return"
      /\ UNCHANGED <<accounts, latestPrice, taker, call, scan, victim>>
  BY DEF RestTaker
<1>3. /\ IndexOK'
      /\ order_id_start' = order_id_start + 1
      /\ DOMAIN orders' = DOMAIN orders \cup {order_id_start'}
      /\ \A i \in DOMAIN orders : orders'[i] = orders[i]
  BY <1>1, <1>2, PutKeepsIndex DEF StateOK
<1>4. AccountsOK' /\ PricesOK'
  BY <1>2 DEF StateOK, AccountsOK, ModesType, PricesOK, accounts
<1>5. /\ order_id_start \in Nat
      /\ 1..order_id_start \subseteq 1..order_id_start'
      /\ order_id_start' \notin 1..order_id_start
  <2>1. order_id_start \in Nat
    BY DEF StateOK, IndexOK
  <2> QED BY <2>1, <1>3
<1>6. call.by = "planner" =>
        /\ scan.market \in Markets
        /\ scan.todo \subseteq 1..order_id_start'
        /\ \A j \in scan.todo : j \in DOMAIN orders' => orders'[j].type # LIMIT
        /\ call.old \in DOMAIN orders' /\ orders'[call.old].type # LIMIT
  <2> SUFFICES ASSUME call.by = "planner"
               PROVE  /\ scan.market \in Markets
                      /\ scan.todo \subseteq 1..order_id_start'
                      /\ \A j \in scan.todo : j \in DOMAIN orders' => orders'[j].type # LIMIT
                      /\ call.old \in DOMAIN orders' /\ orders'[call.old].type # LIMIT
    OBVIOUS
  <2>1. /\ scan.market \in Markets /\ scan.todo \subseteq 1..order_id_start
        /\ \A j \in scan.todo : j \in DOMAIN orders => orders[j].type # LIMIT
        /\ call.old \in DOMAIN orders /\ orders[call.old].type # LIMIT
    BY <1>1 DEF RestTaker, NothingToMatch, StateOK, ControlOK, HandlerOK, InPlanner
  <2> QED BY <2>1, <1>3, <1>5
<1>7. ControlOK'
  BY <1>1, <1>2, <1>6 DEF StateOK, ControlOK, HandlerOK, InPlanner, Phases
<1> QED BY <1>3, <1>4, <1>7 DEF StateOK

\* Moving contracts between the two parts of a position.
LEMMA FreezeKeepsPositions ==
  ASSUME PositionsType(positions), NEW k, NEW amount \in Int
  PROVE  /\ PositionsType([positions EXCEPT ![k] = FreezePosition(@, amount)])
         /\ DOMAIN [positions EXCEPT ![k] = FreezePosition(@, amount)] = DOMAIN positions
  BY FreezePositionType DEF PositionsType

LEMMA DropTakerInv == ASSUME StateOK, DropTaker PROVE StateOK'
<1>1. pc = "match" /\ taker \in OrderRec /\ call.market \in Markets
  BY DEF DropTaker, NothingToMatch, StateOK, ControlOK, HandlerOK, InPlanner
<1> DEFINE back == -taker.left
<1>2. back \in Int
  BY <1>1 DEF OrderRec
<1>3. /\ UNCHANGED <<balance, position_mode, index, latestPrice, taker, call, scan, victim>>
      /\ pc' \in {"return", "crash"}
      /\ \/ positions' = positions
         \/ positions' = [positions EXCEPT ![KeyOf(taker)] = FreezePosition(@, back)]
  BY DEF DropTaker
<1> HIDE DEF back
<1>4. PositionsType(positions')
  <2>1. PositionsType(positions)
    BY DEF StateOK, AccountsOK
  <2>2. PositionsType([positions EXCEPT ![KeyOf(taker)] = FreezePosition(@, back)])
    BY <2>1, <1>2, FreezeKeepsPositions
  <2> QED BY <2>1, <2>2, <1>3
<1>5. IndexOK'
  BY <1>3, IndexFrame DEF StateOK
<1>6. AccountsOK' /\ PricesOK'
  BY <1>3, <1>4 DEF StateOK, AccountsOK, ModesType, PricesOK
<1>7. ControlOK'
  BY <1>1, <1>3 DEF StateOK, ControlOK, HandlerOK, InPlanner, Phases, index
<1> QED BY <1>5, <1>6, <1>7 DEF StateOK

\* A plan list holds no limit order.
LEMMA PlanListScan ==
  ASSUME StateOK, NEW m \in Markets, NEW l \in {"plan_asks", "plan_bids"}
  PROVE  /\ book[m][l] \subseteq 1..order_id_start
         /\ \A j \in book[m][l] : j \in DOMAIN orders => orders[j].type # LIMIT
<1>1. l \in Lists
  BY DEF Lists
<1> SUFFICES ASSUME NEW j \in book[m][l]
             PROVE  /\ j \in 1..order_id_start
                    /\ j \in DOMAIN orders => orders[j].type # LIMIT
  OBVIOUS
<1>2. /\ j \in 1..order_id_start
      /\ j \in DOMAIN orders => PutList(orders[j]) = l
  BY <1>1 DEF StateOK, IndexOK, ListsOK
<1>3. j \in DOMAIN orders => orders[j] \in OrderRec
  BY DEF StateOK, IndexOK, OrdersType
<1> QED BY <1>2, <1>3, ListOfKind

LEMMA ReturnToClientInv == ASSUME StateOK, ReturnToClient PROVE StateOK'
<1>1. /\ UNCHANGED <<accounts, index, latestPrice, victim>>
      /\ call' = NoCall
      /\ \/ /\ pc' = "plan"
            /\ scan' = [market |-> 1, list |-> "plan_asks", todo |-> book[1]["plan_asks"]]
         \/ pc' = "idle"
  BY DEF ReturnToClient
<1>2. AccountsOK' /\ IndexOK' /\ PricesOK'
  BY <1>1, AccountsFrame, IndexFrame DEF StateOK, PricesOK
<1>3. 1 \in Markets /\ call' \in CallRec /\ call'.by = "none"
  BY <1>1, MarketAssumption DEF Markets, NoCall, CallRec
<1>4. orders' = orders /\ order_id_start' = order_id_start
  BY <1>1 DEF index
<1>5. pc' = "plan" =>
        /\ scan'.market = 1
        /\ scan'.todo \subseteq 1..order_id_start'
        /\ \A j \in scan'.todo : j \in DOMAIN orders' => orders'[j].type # LIMIT
  BY <1>1, <1>3, <1>4, PlanListScan
<1>6. ControlOK'
  BY <1>1, <1>3, <1>5 DEF ControlOK, HandlerOK, InPlanner, Phases
<1> QED BY <1>2, <1>6 DEF StateOK

\* The arguments of a request.
ArgsType(a) ==
  /\ a.user \in Users /\ a.market \in Markets /\ a.direction \in Sides
  /\ a.type \in {MARKET, LIMIT, PLAN, TPSL} /\ a.pattern \in {ISOLATED, CROSS}
  /\ a.volume \in Nat /\ a.entrustPrice \in Nat /\ a.triggerPrice \in Nat
  /\ a.tpPrice \in Nat /\ a.tpAmount \in Nat /\ a.slPrice \in Nat /\ a.slAmount \in Nat

LEMMA initOrderType ==
  ASSUME PricesOK, NEW a, ArgsType(a), NEW oper_type \in {OPEN, CLOSE},
         NEW leverage \in Nat \ {0}, NEW freeze \in Int
  PROVE  /\ initOrder(a, oper_type, leverage, freeze) \in OrderRec
         /\ initOrder(a, oper_type, leverage, freeze).type = a.type
         /\ initOrder(a, oper_type, leverage, freeze).market = a.market
<1>1. a.volume \in Int /\ latestPrice[a.market] \in Nat
  BY DEF ArgsType, PricesOK
<1> QED BY <1>1 DEF ArgsType, initOrder, OrderRec

LEMMA ModeAfterType ==
  ASSUME ModesType, NEW a, ArgsType(a), a.leverage \in Nat \ {0}
  PROVE  /\ \A k \in DOMAIN ModeAfter(a) :
              /\ k \in Users \X Markets
              /\ ModeAfter(a)[k] \in [pattern : {ISOLATED, CROSS}, leverage : Nat \ {0}]
         /\ ~HasPosition(a.user, a.market) =>
              ModeAfter(a)[<<a.user, a.market>>].leverage \in Nat \ {0}
<1> DEFINE k == <<a.user, a.market>>  v == [pattern |-> a.pattern, leverage |-> a.leverage]
<1>1. k \in Users \X Markets /\ v \in [pattern : {ISOLATED, CROSS}, leverage : Nat \ {0}]
  BY DEF ArgsType
<1>2. /\ ModeAfter(a) = position_mode \/ ModeAfter(a) = WithEntry(position_mode, k, v)
      /\ ~HasPosition(a.user, a.market) /\ k \notin DOMAIN position_mode =>
           ModeAfter(a) = WithEntry(position_mode, k, v)
  BY DEF ModeAfter
<1> HIDE DEF v
<1>3. \A x \in DOMAIN ModeAfter(a) :
        /\ x \in Users \X Markets
        /\ ModeAfter(a)[x] \in [pattern : {ISOLATED, CROSS}, leverage : Nat \ {0}]
  BY <1>1, <1>2 DEF WithEntry, ModesType
<1>4. ~HasPosition(a.user, a.market) => k \in DOMAIN ModeAfter(a)
  BY <1>2 DEF WithEntry
<1> QED BY <1>3, <1>4

LEMMA OpenInv ==
  ASSUME StateOK, NEW a, ArgsType(a), a.leverage \in Nat \ {0}, a.type # TPSL,
         market_put_order_open(a)
  PROVE  StateOK'
<1> DEFINE mode     == ModeAfter(a)[<<a.user, a.market>>]
           held     == HasPosition(a.user, a.market)
           leverage == IF held THEN LeadPosition(a.user, a.market).leverage ELSE a.leverage
           pri      == Margin(a.volume, IF held THEN leverage ELSE mode.leverage)
           planned  == initOrder(a, OPEN, leverage, 0)
           placed   == initOrder(a, OPEN, leverage, IF a.type = LIMIT THEN pri ELSE 0)
<1>1. /\ pc = "idle"
      /\ position_mode' = ModeAfter(a)
      /\ UNCHANGED <<positions, latestPrice, scan, victim>>
      /\ \/ UNCHANGED <<balance, index, pc, taker, call>>
         \/ /\ a.type = PLAN
            /\ order_put_future(a.market, planned)
            /\ pc' \in {"idle", "crash"}
            /\ UNCHANGED <<balance, taker, call>>
         \/ /\ a.type # PLAN
            /\ \/ balance' = balance
               \/ balance' = [balance EXCEPT ![a.user] = balance_freeze(@, pri)]
            /\ Execute(placed, a.market, "client", 0)
            /\ UNCHANGED index
  BY DEF market_put_order_open, Compares
<1>2. leverage \in Nat \ {0}
  <2>1. CASE held
    <3>1. /\ LeadPosition(a.user, a.market) \in PositionRec
      BY <2>1 DEF HasPosition, LeadPosition, Sides, StateOK, AccountsOK, PositionsType
    <3> QED BY <2>1, <3>1 DEF PositionRec
  <2>2. CASE ~held
    BY <2>2
  <2> QED BY <2>1, <2>2
<1>3. pri \in Int
  <2>1. (IF held THEN leverage ELSE mode.leverage) \in Int
    BY <1>2, ModeAfterType DEF StateOK, AccountsOK
  <2>2. a.volume \in Int
    BY DEF ArgsType
  <2> QED BY <2>1, <2>2, MarginType
<1> HIDE DEF leverage, pri
<1>4. planned \in OrderRec /\ planned.market = a.market
  <2>1. PricesOK /\ OPEN \in {OPEN, CLOSE} /\ 0 \in Int
    BY DEF StateOK
  <2> QED BY <2>1, <1>2, initOrderType
<1>5. placed \in OrderRec /\ placed.type = a.type /\ placed.market = a.market
  <2>1. PricesOK /\ OPEN \in {OPEN, CLOSE} /\ (IF a.type = LIMIT THEN pri ELSE 0) \in Int
    BY <1>3 DEF StateOK
  <2> QED BY <2>1, <1>2, initOrderType
<1> HIDE DEF planned, placed
<1>6. a.market \in Markets /\ a.user \in Users /\ a.type \in {MARKET, LIMIT, PLAN}
  BY DEF ArgsType
<1>7. AccountsOK'
  <2>1. ModesType'
    BY <1>1, ModeAfterType DEF StateOK, AccountsOK, ModesType
  <2>2. balance_freeze(balance[a.user], pri) \in Account
    BY <1>3, <1>6, TransferOps DEF StateOK, AccountsOK
  <2>3. balance' \in [Users -> Account]
    BY <1>1, <1>6, <2>2 DEF StateOK, AccountsOK, index
  <2> QED BY <2>1, <2>3, <1>1 DEF StateOK, AccountsOK
<1>8. IndexOK'
  BY <1>1, <1>4, <1>6, IndexFrame, PutKeepsIndex DEF StateOK
<1>9. PricesOK'
  BY <1>1 DEF StateOK, PricesOK
<1>10. ControlOK'
  <2>1. CASE pc' \in {"idle", "crash"} /\ UNCHANGED <<taker, call>>
    BY <2>1, <1>1 DEF StateOK, ControlOK, HandlerOK, InPlanner, Phases
  <2>2. CASE Execute(placed, a.market, "client", 0) /\ a.type # PLAN
    BY <2>2, <1>5, <1>6, ExecuteControl
  <2> QED BY <2>1, <2>2, <1>1
<1> QED BY <1>7, <1>8, <1>9, <1>10 DEF StateOK

LEMMA CloseInv ==
  ASSUME StateOK, NEW a, ArgsType(a), market_put_order_close(a)
  PROVE  StateOK'
<1> DEFINE k == <<a.user, a.market, a.direction>>
           o == initOrder(a, CLOSE, positions[k].leverage, 0)
           amount == a.volume
<1>1. /\ pc = "idle"
      /\ k \in DOMAIN positions
      /\ UNCHANGED <<balance, position_mode, latestPrice, scan, victim>>
      /\ \/ /\ a.type \in {MARKET, LIMIT}
            /\ positions' = [positions EXCEPT ![k] = FreezePosition(@, amount)]
            /\ Execute(o, a.market, "client", 0)
            /\ UNCHANGED index
         \/ /\ order_put_future(a.market, o)
            /\ pc' \in {"idle", "crash"}
            /\ UNCHANGED <<positions, taker, call>>
  BY DEF market_put_order_close, Compares
<1>2. positions[k].leverage \in Nat \ {0}
  BY <1>1 DEF StateOK, AccountsOK, PositionsType, PositionRec
<1>3. o \in OrderRec /\ o.type = a.type /\ o.market = a.market
  <2>1. PricesOK /\ CLOSE \in {OPEN, CLOSE} /\ 0 \in Int
    BY DEF StateOK
  <2> QED BY <2>1, <1>2, initOrderType
<1> HIDE DEF o
<1>4. a.market \in Markets /\ amount \in Int
  BY DEF ArgsType
<1> HIDE DEF amount
<1>5. AccountsOK'
  <2>1. PositionsType(positions)
    BY DEF StateOK, AccountsOK
  <2>2. PositionsType([positions EXCEPT ![k] = FreezePosition(@, amount)])
    BY <2>1, <1>4, FreezeKeepsPositions
  <2>3. PositionsType(positions')
    BY <2>1, <2>2, <1>1
  <2> QED BY <2>3, <1>1 DEF StateOK, AccountsOK, ModesType
<1>6. IndexOK'
  BY <1>1, <1>3, <1>4, IndexFrame, PutKeepsIndex DEF StateOK
<1>7. PricesOK'
  BY <1>1 DEF StateOK, PricesOK
<1>8. ControlOK'
  <2>1. CASE pc' \in {"idle", "crash"} /\ UNCHANGED <<taker, call>>
    BY <2>1, <1>1 DEF StateOK, ControlOK, HandlerOK, InPlanner, Phases
  <2>2. CASE Execute(o, a.market, "client", 0) /\ a.type \in {MARKET, LIMIT}
    BY <2>2, <1>3, <1>4, ExecuteControl
  <2> QED BY <2>1, <2>2, <1>1
<1> QED BY <1>5, <1>6, <1>7, <1>8 DEF StateOK

\* Cancelling an order takes nobody's position away.
LEMMA CancelKeeps ==
  ASSUME StateOK, NEW i \in DOMAIN orders, NEW next, market_cancel_order(i, next),
         UNCHANGED <<position_mode, latestPrice>>
  PROVE  /\ AccountsOK' /\ IndexOK' /\ PricesOK'
         /\ DOMAIN positions' = DOMAIN positions
         /\ pc' \in {next, "crash"}
<1> DEFINE o == orders[i]  k == KeyOf(o)  back == -o.left
<1>1. o \in OrderRec /\ o.user \in Users /\ o.freeze \in Int /\ back \in Int
  BY DEF StateOK, IndexOK, OrdersType, OrderRec
<1>2. /\ pc' \in {next, "crash"}
      /\ order_finish_future(i) \/ UNCHANGED index
      /\ \/ balance' = balance
         \/ balance' = [balance EXCEPT ![o.user] = balance_unfreeze(@, o.freeze)]
      /\ \/ positions' = positions
         \/ positions' = [positions EXCEPT ![k] = FreezePosition(@, back)]
  BY DEF market_cancel_order, Compares
<1> HIDE DEF back, k
<1>3. IndexOK'
  BY <1>2, IndexFrame, FinishKeepsIndex DEF StateOK
<1>4. balance' \in [Users -> Account]
  <2>1. balance_unfreeze(balance[o.user], o.freeze) \in Account
    BY <1>1, TransferOps DEF StateOK, AccountsOK
  <2> QED BY <1>1, <1>2, <2>1 DEF StateOK, AccountsOK
<1>5. PositionsType(positions') /\ DOMAIN positions' = DOMAIN positions
  <2>1. PositionsType(positions)
    BY DEF StateOK, AccountsOK
  <2>2. /\ PositionsType([positions EXCEPT ![k] = FreezePosition(@, back)])
        /\ DOMAIN [positions EXCEPT ![k] = FreezePosition(@, back)] = DOMAIN positions
    BY <2>1, <1>1, FreezeKeepsPositions
  <2> QED BY <2>1, <2>2, <1>2
<1>6. AccountsOK' /\ PricesOK'
  BY <1>4, <1>5 DEF StateOK, AccountsOK, ModesType, PricesOK
<1> QED BY <1>2, <1>3, <1>5, <1>6

LEMMA OrderCancelInv ==
  ASSUME StateOK, NEW i \in DOMAIN orders, OrderCancel(i) PROVE StateOK'
<1>1. /\ market_cancel_order(i, "idle")
      /\ UNCHANGED <<position_mode, latestPrice, taker, call, scan, victim>>
  BY DEF OrderCancel
<1>2. AccountsOK' /\ IndexOK' /\ PricesOK' /\ pc' \in {"idle", "crash"}
  BY <1>1, CancelKeeps
<1>3. ControlOK'
  BY <1>1, <1>2 DEF StateOK, ControlOK, HandlerOK, InPlanner, Phases
<1> QED BY <1>2, <1>3 DEF StateOK
------------------------------------------------------------------------------
(* The planner                                                              *)

\* What the planner knows of the order its iterator is at.
LEMMA ScanFacts ==
  ASSUME StateOK, pc = "plan", NEW i \in scan.todo
  PROVE  /\ scan.market \in Markets
         /\ scan.todo \subseteq 1..order_id_start
         /\ i \in Nat
         /\ \A j \in scan.todo : j \in DOMAIN orders => orders[j].type # LIMIT
<1>1. /\ scan.market \in Markets /\ scan.todo \subseteq 1..order_id_start
      /\ \A j \in scan.todo : j \in DOMAIN orders => orders[j].type # LIMIT
  BY DEF StateOK, ControlOK, HandlerOK, InPlanner
<1> QED BY <1>1

\* Moving the iterator on.
LEMMA SkipControl ==
  ASSUME StateOK, IterOK, pc = "plan", NEW i \in scan.todo, pc' \in {"plan", "crash"},
         scan' = [scan EXCEPT !.todo = @ \ {i}] \/ pc' = "crash",
         UNCHANGED <<index, taker, call, victim>>
  PROVE  ControlOK'
<1>1. orders' = orders /\ order_id_start' = order_id_start
  BY DEF index
<1>2. /\ scan.market \in Markets
      /\ scan.todo \subseteq 1..order_id_start
      /\ \A j \in scan.todo : j \in DOMAIN orders => orders[j].type # LIMIT
  BY ScanFacts
<1>3. pc' = "plan" =>
        /\ scan'.market \in Markets
        /\ scan'.todo \subseteq 1..order_id_start'
        /\ \A j \in scan'.todo : j \in DOMAIN orders' => orders'[j].type # LIMIT
  <2>1. scan \in ScanRec
    BY DEF IterOK
  <2>2. scan' = [scan EXCEPT !.todo = @ \ {i}] =>
          scan'.market = scan.market /\ scan'.todo \subseteq scan.todo
    BY <2>1 DEF ScanRec
  <2> QED BY <2>2, <1>1, <1>2
<1> QED BY <1>3 DEF StateOK, ControlOK, HandlerOK, InPlanner, Phases

\* The copy the planner releases is an order of the same market.
LEMMA copyOrderType ==
  ASSUME NEW o \in OrderRec
  PROVE  /\ copyOrder(o) \in OrderRec
         /\ copyOrder(o).type \in {MARKET, LIMIT}
         /\ copyOrder(o).market = o.market
<1> DEFINE type == IF o.price = 0 THEN MARKET ELSE LIMIT
           left == IF o.type = PLAN THEN o.left ELSE TpslAmount(o)
<1>1. left \in Int
  BY DEF OrderRec, TpslAmount
<1>2. type \in {MARKET, LIMIT}
  OBVIOUS
<1>3. copyOrder(o) = [o EXCEPT !.type = type, !.left = left]
  BY DEF copyOrder
<1> HIDE DEF type, left
<1> QED BY <1>1, <1>2, <1>3 DEF OrderRec

\* A released copy starts execute_order for an order the planner still has.
LEMMA ReleaseControl ==
  ASSUME StateOK, IterOK, pc = "plan", NEW i \in scan.todo, i \in DOMAIN orders,
         NEW c \in OrderRec, c.type \in {MARKET, LIMIT},
         Execute(c, c.market, "planner", i),
         scan' = [scan EXCEPT !.todo = @ \ {i}],
         UNCHANGED index
  PROVE  ControlOK'
<1>1. orders' = orders /\ order_id_start' = order_id_start
  BY DEF index
<1>2. /\ scan.market \in Markets
      /\ scan.todo \subseteq 1..order_id_start
      /\ i \in Nat
      /\ \A j \in scan.todo : j \in DOMAIN orders => orders[j].type # LIMIT
  BY ScanFacts
<1>3. scan'.market = scan.market /\ scan'.todo \subseteq scan.todo
  BY DEF IterOK, ScanRec
<1>4. /\ i \in DOMAIN orders' /\ orders'[i].type # LIMIT
      /\ scan'.market \in Markets
      /\ scan'.todo \subseteq 1..order_id_start'
      /\ \A j \in scan'.todo : j \in DOMAIN orders' => orders'[j].type # LIMIT
  BY <1>1, <1>2, <1>3
<1>5. c.market \in Markets
  BY DEF OrderRec
<1> QED BY <1>2, <1>4, <1>5, ExecuteControl

LEMMA PlanOpenInv ==
  ASSUME StateOK, IterOK, pc = "plan", NEW i \in scan.todo, PlanOpen(i) PROVE StateOK'
<1> DEFINE c == copyOrder(orders[i])
           pri == Margin(c.left, c.leverage)
           frozen == [c EXCEPT !.freeze = pri]
<1>1. i \in DOMAIN orders /\ orders[i] \in OrderRec
  BY DEF PlanOpen, StateOK, IndexOK, OrdersType
<1>2. c \in OrderRec /\ c.type \in {MARKET, LIMIT}
  BY <1>1, copyOrderType
<1>3. /\ UNCHANGED <<positions, position_mode, index, latestPrice, victim>>
      /\ scan' = [scan EXCEPT !.todo = @ \ {i}]
      /\ \/ /\ balance' = [balance EXCEPT ![c.user] = balance_freeze(@, pri)]
            /\ Execute(frozen, c.market, "planner", i)
         \/ Execute(c, c.market, "planner", i) /\ balance' = balance
  BY DEF PlanOpen
<1> HIDE DEF c
<1>4. c.left \in Int /\ c.leverage \in Int /\ c.user \in Users
  BY <1>2 DEF OrderRec
<1>5. pri \in Int
  BY <1>4, MarginType
<1> HIDE DEF pri
<1>6. frozen \in OrderRec /\ frozen.type = c.type /\ frozen.market = c.market
  BY <1>2, <1>5 DEF OrderRec
<1> HIDE DEF frozen
<1>7. balance' \in [Users -> Account]
  <2>1. balance_freeze(balance[c.user], pri) \in Account
    BY <1>4, <1>5, TransferOps DEF StateOK, AccountsOK
  <2> QED BY <1>3, <1>4, <2>1 DEF StateOK, AccountsOK
<1>8. AccountsOK' /\ PricesOK'
  BY <1>3, <1>7 DEF StateOK, AccountsOK, PositionsType, ModesType, PricesOK
<1>9. IndexOK'
  BY <1>3, IndexFrame DEF StateOK
<1>10. ControlOK'
  <2>1. CASE Execute(frozen, frozen.market, "planner", i)
    BY <2>1, <1>1, <1>2, <1>3, <1>6, ReleaseControl
  <2>2. CASE Execute(c, c.market, "planner", i)
    BY <2>2, <1>1, <1>2, <1>3, ReleaseControl
  <2> QED BY <1>3, <1>6, <2>1, <2>2
<1> QED BY <1>8, <1>9, <1>10 DEF StateOK

LEMMA PlanCloseInv ==
  ASSUME StateOK, IterOK, pc = "plan", NEW i \in scan.todo, PlanClose(i) PROVE StateOK'
<1> DEFINE c == copyOrder(orders[i])
           k == KeyOf(orders[i])
           amount == c.left
<1>1. i \in DOMAIN orders /\ orders[i] \in OrderRec
  BY DEF PlanClose, StateOK, IndexOK, OrdersType
<1>2. c \in OrderRec /\ c.type \in {MARKET, LIMIT}
  BY <1>1, copyOrderType
<1>3. /\ UNCHANGED <<balance, position_mode, index, latestPrice, victim>>
      /\ scan' = [scan EXCEPT !.todo = @ \ {i}]
      /\ positions' = [positions EXCEPT ![k] = FreezePosition(@, amount)]
      /\ Execute(c, c.market, "planner", i)
  BY DEF PlanClose
<1> HIDE DEF c, k
<1>4. amount \in Int
  BY <1>2 DEF OrderRec
<1> HIDE DEF amount
<1>5. PositionsType(positions')
  <2>1. PositionsType(positions)
    BY DEF StateOK, AccountsOK
  <2> QED BY <2>1, <1>3, <1>4, FreezeKeepsPositions
<1>6. AccountsOK' /\ PricesOK'
  BY <1>3, <1>5 DEF StateOK, AccountsOK, ModesType, PricesOK
<1>7. IndexOK'
  BY <1>3, IndexFrame DEF StateOK
<1>8. ControlOK'
  BY <1>1, <1>2, <1>3, ReleaseControl
<1> QED BY <1>6, <1>7, <1>8 DEF StateOK

LEMMA PlanStepInv == ASSUME StateOK, IterOK, PlanStep PROVE StateOK'
<1>1. pc = "plan"
  BY DEF PlanStep
<1>2. PICK i \in scan.todo : PlanSkip(i) \/ PlanOpen(i) \/ PlanClose(i) \/ PlanDangling(i)
  BY DEF PlanStep, NextInScan
<1>3. CASE PlanSkip(i) \/ PlanDangling(i)
  <2>1. /\ UNCHANGED <<accounts, index, latestPrice, taker, call, victim>>
        /\ pc' \in {"plan", "crash"}
        /\ scan' = [scan EXCEPT !.todo = @ \ {i}] \/ pc' = "crash"
    BY <1>3 DEF PlanSkip, PlanDangling, Skip
  <2>2. AccountsOK' /\ IndexOK' /\ PricesOK'
    BY <2>1, AccountsFrame, IndexFrame DEF StateOK, PricesOK
  <2>3. ControlOK'
    BY <1>1, <2>1, SkipControl
  <2> QED BY <2>2, <2>3 DEF StateOK
<1> QED BY <1>1, <1>2, <1>3, PlanOpenInv, PlanCloseInv

LEMMA ReturnToPlannerInv == ASSUME StateOK, ReturnToPlanner PROVE StateOK'
<1>1. /\ pc = "return" /\ call.by = "planner"
      /\ order_finish_future(call.old)
      /\ pc' \in {"plan", "crash"} /\ call' = NoCall
      /\ UNCHANGED <<accounts, latestPrice, scan, victim>>
  BY DEF ReturnToPlanner, Compares
<1>2. /\ call.old \in DOMAIN orders
      /\ scan.market \in Markets
      /\ scan.todo \subseteq 1..order_id_start
      /\ \A j \in scan.todo : j \in DOMAIN orders => orders[j].type # LIMIT
  BY <1>1 DEF StateOK, ControlOK, HandlerOK, InPlanner
<1>3. /\ IndexOK'
      /\ order_id_start' = order_id_start
      /\ DOMAIN orders' \subseteq DOMAIN orders
      /\ \A j \in DOMAIN orders' : orders'[j] = orders[j]
  BY <1>1, <1>2, FinishKeepsIndex DEF StateOK
<1>4. AccountsOK' /\ PricesOK'
  BY <1>1, AccountsFrame DEF StateOK, PricesOK
<1>5. call' \in CallRec /\ call'.by = "none"
  BY <1>1 DEF NoCall, CallRec
<1>6. ControlOK'
  BY <1>1, <1>2, <1>3, <1>5 DEF ControlOK, HandlerOK, InPlanner, Phases
<1> QED BY <1>3, <1>4, <1>6 DEF StateOK

LEMMA PlanAdvanceInv == ASSUME StateOK, IterOK, PlanAdvance PROVE StateOK'
<1>1. /\ pc = "plan"
      /\ UNCHANGED <<accounts, index, latestPrice, taker, call, victim>>
  BY DEF PlanAdvance
<1>2. AccountsOK' /\ IndexOK' /\ PricesOK'
  BY <1>1, AccountsFrame, IndexFrame DEF StateOK, PricesOK
<1>3. scan.market \in Markets /\ scan.market \in Nat /\ MarketNum \in Nat
  BY <1>1, MarketAssumption DEF StateOK, ControlOK, HandlerOK, InPlanner, Markets
<1>4. orders' = orders /\ order_id_start' = order_id_start
  BY <1>1 DEF index
<1>5. \/ pc' = "liquidate"
      \/ /\ pc' = "plan"
         /\ scan'.market \in Markets
         /\ scan'.todo \subseteq 1..order_id_start'
         /\ \A j \in scan'.todo : j \in DOMAIN orders' => orders'[j].type # LIMIT
  <2>1. CASE scan.list = "plan_asks"
    <3>1. /\ pc' = "plan"
          /\ scan' = [scan EXCEPT !.list = "plan_bids",
                                  !.todo = book[scan.market]["plan_bids"]]
      BY <2>1, <1>1 DEF PlanAdvance
    <3>2. /\ book[scan.market]["plan_bids"] \subseteq 1..order_id_start
          /\ \A j \in book[scan.market]["plan_bids"] :
               j \in DOMAIN orders => orders[j].type # LIMIT
      BY <1>3, PlanListScan
    <3>3. /\ scan'.market = scan.market
          /\ scan'.todo = book[scan.market]["plan_bids"]
      BY <3>1 DEF IterOK, ScanRec
    <3> QED BY <3>1, <3>2, <3>3, <1>3, <1>4
  <2>2. CASE scan.list # "plan_asks" /\ scan.market < MarketNum
    <3> DEFINE m == scan.market + 1
    <3>1. m \in Markets
      BY <2>2, <1>3 DEF Markets
    <3>2. /\ pc' = "plan"
          /\ scan' = [market |-> m, list |-> "plan_asks", todo |-> book[m]["plan_asks"]]
      BY <2>2, <1>1 DEF PlanAdvance
    <3> HIDE DEF m
    <3> QED BY <3>1, <3>2, <1>4, PlanListScan
  <2>3. CASE scan.list # "plan_asks" /\ ~(scan.market < MarketNum)
    BY <2>3 DEF PlanAdvance
  <2> QED BY <2>1, <2>2, <2>3
<1>6. ControlOK'
  BY <1>1, <1>5 DEF StateOK, ControlOK, HandlerOK, InPlanner, Phases
<1> QED BY <1>2, <1>6 DEF StateOK
------------------------------------------------------------------------------
(* The liquidations                                                         *)

LEMMA LiquidationPassInv == ASSUME StateOK, LiquidationPass PROVE StateOK'
<1>1. /\ pc = "liquidate"
      /\ UNCHANGED <<accounts, index, latestPrice, taker, call, scan>>
      /\ \/ pc' = "idle"
         \/ pc' = "cancel" /\ \E k \in DOMAIN positions : victim' = [key |-> k, todo |-> {}]
  BY DEF LiquidationPass
<1>2. AccountsOK' /\ IndexOK' /\ PricesOK'
  BY <1>1, AccountsFrame, IndexFrame DEF StateOK, PricesOK
<1>3. pc' = "cancel" => victim'.key \in DOMAIN positions'
  BY <1>1 DEF accounts
<1>4. ControlOK'
  BY <1>1, <1>3 DEF StateOK, ControlOK, HandlerOK, InPlanner, Phases
<1> QED BY <1>2, <1>4 DEF StateOK

LEMMA LiquidationCancelInv == ASSUME StateOK, LiquidationCancel PROVE StateOK'
<1>1. /\ pc = "cancel"
      /\ UNCHANGED <<position_mode, latestPrice, taker, call, scan, victim>>
  BY DEF LiquidationCancel
<1>2. PICK i \in DOMAIN orders : market_cancel_order(i, "cancel")
  BY DEF LiquidationCancel, DoomedOrders, OrdersOf
<1>3. /\ AccountsOK' /\ IndexOK' /\ PricesOK'
      /\ DOMAIN positions' = DOMAIN positions
      /\ pc' \in {"cancel", "crash"}
  BY <1>1, <1>2, CancelKeeps
<1>4. ControlOK'
  BY <1>1, <1>3 DEF StateOK, ControlOK, HandlerOK, InPlanner, Phases
<1> QED BY <1>3, <1>4 DEF StateOK

\* A forced close is a market order of the position's holder.
LEMMA BlastOrderType ==
  ASSUME StateOK, NEW k \in DOMAIN positions
  PROVE  /\ BlastOrder(k) \in OrderRec
         /\ BlastOrder(k).type = MARKET
         /\ PositionsType(BlastPosition(k)) /\ DOMAIN BlastPosition(k) = DOMAIN positions
<1>1. /\ k[1] \in Users /\ k[2] \in Markets /\ k[3] \in Sides
      /\ positions[k] \in PositionRec
  BY DEF StateOK, AccountsOK, PositionsType, Keys
<1>2. /\ positions[k].pattern \in {ISOLATED, CROSS} /\ positions[k].leverage \in Nat \ {0}
      /\ Total(positions[k]) \in Int /\ positions[k].position \in Int
  BY <1>1 DEF PositionRec, Total
<1>3. BlastOrder(k) \in OrderRec /\ BlastOrder(k).type = MARKET
  BY <1>1, <1>2 DEF BlastOrder, OrderRec
<1>4. PositionsType(positions)
  BY DEF StateOK, AccountsOK
<1> DEFINE amount == positions[k].position
<1>5. BlastPosition(k) = [positions EXCEPT ![k] = FreezePosition(@, amount)]
  BY DEF BlastPosition
<1>6. amount \in Int
  BY <1>2
<1> HIDE DEF amount
<1>7. PositionsType(BlastPosition(k)) /\ DOMAIN BlastPosition(k) = DOMAIN positions
  <2>1. /\ PositionsType([positions EXCEPT ![k] = FreezePosition(@, amount)])
        /\ DOMAIN [positions EXCEPT ![k] = FreezePosition(@, amount)] = DOMAIN positions
    BY ONLY <1>4, <1>6, FreezeKeepsPositions
  <2> QED BY <1>5, <2>1, Zenon
<1> QED BY <1>3, <1>7

LEMMA IsolatedBlastInv == ASSUME StateOK, IsolatedBlast PROVE StateOK'
<1> DEFINE k == victim.key
           m == k[2]
           o == BlastOrder(k)
<1>1. /\ pc = "cancel"
      /\ positions' = BlastPosition(k)
      /\ Execute(o, m, "liquidation", 0)
      /\ UNCHANGED <<balance, position_mode, index, latestPrice, scan>>
  BY DEF IsolatedBlast
<1>2. k \in DOMAIN positions /\ m \in Markets
  BY <1>1 DEF StateOK, ControlOK, HandlerOK, AccountsOK, PositionsType, Keys
<1>3. o \in OrderRec /\ o.type = MARKET /\ PositionsType(positions')
  BY <1>1, <1>2, BlastOrderType
<1> HIDE DEF o, k, m
<1>4. AccountsOK' /\ PricesOK'
  BY <1>1, <1>3 DEF StateOK, AccountsOK, ModesType, PricesOK
<1>5. IndexOK'
  BY <1>1, IndexFrame DEF StateOK
<1>6. ControlOK'
  <2>1. o.type \in {MARKET, LIMIT} /\ (o.type = LIMIT => o.market = m) /\ 0 \in Nat
    BY <1>3 DEF MARKET, LIMIT
  <2> QED BY <2>1, <1>1, <1>2, <1>3, ExecuteControl
<1> QED BY <1>4, <1>5, <1>6 DEF StateOK

LEMMA CrossForfeitInv == ASSUME StateOK, CrossForfeit PROVE StateOK'
<1>1. /\ pc = "cancel" /\ pc' = "cross"
      /\ balance' = [balance EXCEPT ![victim.key[1]] =
                       balance_set(balance_set(@, "available", 0), "freeze", 0)]
      /\ victim' = [victim EXCEPT !.todo = Markets \X Sides]
      /\ UNCHANGED <<positions, position_mode, index, latestPrice, taker, call, scan>>
  BY DEF CrossForfeit
<1>2. ASSUME NEW acc \in Account
      PROVE  balance_set(balance_set(acc, "available", 0), "freeze", 0) \in Account
  BY AccountOps
<1>3. balance' \in [Users -> Account]
  BY <1>1, <1>2 DEF StateOK, AccountsOK
<1>4. AccountsOK' /\ PricesOK'
  BY <1>1, <1>3 DEF StateOK, AccountsOK, PositionsType, ModesType, PricesOK
<1>5. IndexOK'
  BY <1>1, IndexFrame DEF StateOK
<1>6. ControlOK'
  BY <1>1 DEF StateOK, ControlOK, HandlerOK, InPlanner, Phases
<1> QED BY <1>4, <1>5, <1>6 DEF StateOK

LEMMA CrossBlastInv == ASSUME StateOK, IterOK, CrossBlast PROVE StateOK'
<1>1. /\ pc = "cross"
      /\ UNCHANGED <<balance, position_mode, index, latestPrice, scan>>
  BY DEF CrossBlast
<1>2. PICK e \in victim.todo :
        /\ victim' = [victim EXCEPT !.todo = @ \ {e}]
        /\ \/ /\ victim.key \in DOMAIN positions
              /\ positions' = BlastPosition(victim.key)
              /\ Execute(BlastOrder(victim.key), e[1], "cross", 0)
           \/ UNCHANGED <<positions, pc, taker, call>>
  BY DEF CrossBlast
<1>3. e[1] \in Markets
  BY <1>2 DEF IterOK, VictimRec
<1>5. PositionsType(positions')
  BY <1>2, BlastOrderType DEF StateOK, AccountsOK
<1>6. AccountsOK' /\ PricesOK'
  BY <1>1, <1>5 DEF StateOK, AccountsOK, ModesType, PricesOK
<1>7. IndexOK'
  BY <1>1, IndexFrame DEF StateOK
<1>8. ControlOK'
  <2>1. CASE UNCHANGED <<positions, pc, taker, call>>
    BY <2>1, <1>1 DEF StateOK, ControlOK, HandlerOK, InPlanner
  <2>2. CASE victim.key \in DOMAIN positions
             /\ Execute(BlastOrder(victim.key), e[1], "cross", 0)
    <3> DEFINE o == BlastOrder(victim.key)
    <3>1. o \in OrderRec /\ o.type = MARKET
      BY <2>2, BlastOrderType
    <3>2. Execute(o, e[1], "cross", 0)
      BY <2>2
    <3> HIDE DEF o
    <3>3. o.type \in {MARKET, LIMIT} /\ (o.type = LIMIT => o.market = e[1]) /\ 0 \in Nat
      BY <3>1 DEF MARKET, LIMIT
    <3> QED BY <3>1, <3>2, <3>3, <1>3, ExecuteControl
  <2> QED BY <1>2, <2>1, <2>2
<1> QED BY <1>6, <1>7, <1>8 DEF StateOK

LEMMA CrossDoneInv == ASSUME StateOK, CrossDone PROVE StateOK'
<1>1. /\ pc' = "liquidate"
      /\ UNCHANGED <<accounts, index, latestPrice, taker, call, scan>>
  BY DEF CrossDone
<1>2. AccountsOK' /\ IndexOK' /\ PricesOK'
  BY <1>1, AccountsFrame, IndexFrame DEF StateOK, PricesOK
<1>3. ControlOK'
  BY <1>1 DEF StateOK, ControlOK, HandlerOK, InPlanner, Phases
<1> QED BY <1>2, <1>3 DEF StateOK

LEMMA ReturnToLiquidationInv == ASSUME StateOK, ReturnToLiquidation PROVE StateOK'
<1>1. /\ pc = "return"
      /\ pc' = IF call.by = "cross" THEN "cross" ELSE "liquidate"
      /\ call' = NoCall
      /\ UNCHANGED <<accounts, index, latestPrice, scan, victim>>
  BY DEF ReturnToLiquidation
<1>2. AccountsOK' /\ IndexOK' /\ PricesOK'
  BY <1>1, AccountsFrame, IndexFrame DEF StateOK, PricesOK
<1>3. call' \in CallRec /\ call'.by = "none"
  BY <1>1 DEF NoCall, CallRec
<1>4. ControlOK'
  BY <1>1, <1>3 DEF ControlOK, HandlerOK, InPlanner, Phases
<1> QED BY <1>2, <1>4 DEF StateOK
\* The requests about modes and principals touch the accounts alone.
LEMMA PositionRequestInv ==
  ASSUME StateOK, AccountsOK', pc = "idle", pc' \in {"idle", "crash"},
         UNCHANGED <<index, latestPrice, taker, call, scan, victim>>
  PROVE  StateOK'
<1>1. IndexOK' /\ PricesOK'
  BY IndexFrame DEF StateOK, PricesOK
<1>2. ControlOK'
  BY DEF StateOK, ControlOK, HandlerOK, InPlanner, Phases
<1> QED BY <1>1, <1>2 DEF StateOK

\* A mode that is found, or made when there is none, is a mode.
LEMMA add_position_modeType ==
  ASSUME ModesType, NEW u \in Users, NEW m \in Markets,
         NEW pattern \in {ISOLATED, CROSS}, NEW leverage \in Nat \ {0}
  PROVE  LET found == add_position_mode(u, m, pattern, leverage)
         IN  /\ <<u, m>> \in DOMAIN found
             /\ \A k \in DOMAIN found :
                  /\ k \in Users \X Markets
                  /\ found[k] \in [pattern : {ISOLATED, CROSS}, leverage : Nat \ {0}]
<1> DEFINE mode == [pattern |-> pattern, leverage |-> leverage]
<1>1. mode \in [pattern : {ISOLATED, CROSS}, leverage : Nat \ {0}]
  OBVIOUS
<1>2. add_position_mode(u, m, pattern, leverage) =
        IF <<u, m>> \in DOMAIN position_mode THEN position_mode
        ELSE WithEntry(position_mode, <<u, m>>, mode)
  BY DEF add_position_mode
<1> HIDE DEF mode
<1> QED BY <1>1, <1>2 DEF ModesType, WithEntry

LEMMA ModeRequestInv == ASSUME StateOK, ModeRequest PROVE StateOK'
<1>1. PICK u \in Users :
        \/ on_cmd_position_query_all(u)
        \/ \E m \in Markets : on_cmd_position_mode_query(u, m)
        \/ \E m \in Markets, pattern \in Patterns, leverage \in Leverages :
             on_cmd_position_mode_adjust(u, m, pattern, leverage)
  BY DEF ModeRequest
<1>2. CASE on_cmd_position_query_all(u)
  <2>1. AccountsOK'
    BY <1>2, AccountsFrame DEF on_cmd_position_query_all, StateOK
  <2> QED BY <2>1, <1>2, PositionRequestInv DEF on_cmd_position_query_all
<1>3. ASSUME NEW m \in Markets, on_cmd_position_mode_query(u, m) PROVE StateOK'
  <2>1. 1 \in Nat \ {0} /\ ModesType
    BY DEF StateOK, AccountsOK
  <2>2. position_mode' = add_position_mode(u, m, ISOLATED, 1)
    BY <1>3 DEF on_cmd_position_mode_query
  <2>3. ModesType'
    BY <2>1, <2>2, add_position_modeType DEF ModesType
  <2>4. AccountsOK'
    BY <2>3, <1>3 DEF on_cmd_position_mode_query, StateOK, AccountsOK, PositionsType
  <2> QED BY <2>4, <1>3, PositionRequestInv DEF on_cmd_position_mode_query
<1>4. ASSUME NEW m \in Markets, NEW pattern \in Patterns, NEW leverage \in Leverages,
             on_cmd_position_mode_adjust(u, m, pattern, leverage)
      PROVE  StateOK'
  <2> DEFINE found == add_position_mode(u, m, ISOLATED, leverage)
             mode  == [pattern |-> pattern, leverage |-> leverage]
  <2>1. /\ \/ position_mode' = found
           \/ position_mode' = [found EXCEPT ![<<u, m>>] = mode]
        /\ pc = "idle" /\ pc' \in {"idle", "crash"}
        /\ UNCHANGED <<balance, positions, index, latestPrice, taker, call, scan, victim>>
    BY <1>4 DEF on_cmd_position_mode_adjust
  <2>2. leverage \in Nat \ {0} /\ mode \in [pattern : {ISOLATED, CROSS}, leverage : Nat \ {0}]
    BY MarketAssumption
  <2>3. /\ <<u, m>> \in DOMAIN found
        /\ \A k \in DOMAIN found :
             /\ k \in Users \X Markets
             /\ found[k] \in [pattern : {ISOLATED, CROSS}, leverage : Nat \ {0}]
    BY <2>2, add_position_modeType DEF StateOK, AccountsOK
  <2> HIDE DEF found, mode
  <2>4. ModesType'
    BY <2>1, <2>2, <2>3 DEF ModesType
  <2>5. AccountsOK'
    BY <2>1, <2>4 DEF StateOK, AccountsOK, PositionsType
  <2> QED BY <2>1, <2>5, PositionRequestInv
<1> QED BY <1>1, <1>2, <1>3, <1>4

LEMMA PrincipalRequestInv == ASSUME StateOK, PrincipalRequest PROVE StateOK'
<1>1. PICK k \in Keys, change \in Int : on_cmd_position_adjust_principal(k, change)
  <2>1. PICK k \in Keys, c \in Changes : \/ on_cmd_position_adjust_principal(k, c)
                                         \/ on_cmd_position_adjust_principal(k, -c)
    BY DEF PrincipalRequest
  <2>2. c \in Int /\ -c \in Int
    BY PositionRequestsAssumption
  <2> QED BY <2>1, <2>2
<1>2. /\ pc = "idle" /\ pc' = pc
      /\ balance' = [balance EXCEPT ![k[1]] =
                       IF change > 0 THEN balance_sub(@, "available", change)
                                     ELSE balance_add(@, "available", -change)]
      /\ k \in DOMAIN positions
      /\ positions' = [positions EXCEPT ![k].principal = @ + change]
      /\ UNCHANGED <<position_mode, index, latestPrice, taker, call, scan, victim>>
  BY <1>1 DEF on_cmd_position_adjust_principal
<1>3. ASSUME NEW acc \in Account
      PROVE  /\ balance_sub(acc, "available", change) \in Account
             /\ balance_add(acc, "available", -change) \in Account
  <2>1. -change \in Int
    OBVIOUS
  <2> QED BY <2>1, AccountOps
<1>4. balance' \in [Users -> Account]
  BY <1>2, <1>3 DEF StateOK, AccountsOK
<1>5. PositionsType(positions')
  <2> DEFINE moved == [positions[k] EXCEPT !.principal = @ + change]
  <2>1. positions[k] \in PositionRec
    BY <1>2 DEF StateOK, AccountsOK, PositionsType
  <2>2. moved \in PositionRec
    BY <2>1 DEF PositionRec
  <2>3. positions' = [positions EXCEPT ![k] = moved]
    BY <1>2
  <2> HIDE DEF moved
  <2> QED BY <2>2, <2>3 DEF StateOK, AccountsOK, PositionsType
<1>6. AccountsOK'
  BY <1>2, <1>4, <1>5 DEF StateOK, AccountsOK, ModesType
<1> QED BY <1>2, <1>6, PositionRequestInv

------------------------------------------------------------------------------
(* The theorems                                                             *)

LEMMA RequestsInv == ASSUME StateOK, Requests PROVE StateOK'
<1>1. CASE OpenRequest
  <2>1. PICK u \in Users, m \in Markets, s \in Sides, t \in OpenTypes, pt \in Patterns,
             lv \in Leverages, v \in Volumes :
          \E ep \in EntrustPrices(t), tr \in TriggerPrices(t) :
            market_put_order_open(
              [user |-> u, market |-> m, direction |-> s, type |-> t, pattern |-> pt,
               leverage |-> lv, volume |-> v, entrustPrice |-> ep, triggerPrice |-> tr,
               tpPrice |-> 0, tpAmount |-> 0, slPrice |-> 0, slAmount |-> 0])
    BY <1>1 DEF OpenRequest
  <2>2. PICK ep \in EntrustPrices(t), tr \in TriggerPrices(t) :
            market_put_order_open(
              [user |-> u, market |-> m, direction |-> s, type |-> t, pattern |-> pt,
               leverage |-> lv, volume |-> v, entrustPrice |-> ep, triggerPrice |-> tr,
               tpPrice |-> 0, tpAmount |-> 0, slPrice |-> 0, slAmount |-> 0])
    BY <2>1
  <2> DEFINE a == [user |-> u, market |-> m, direction |-> s, type |-> t, pattern |-> pt,
                   leverage |-> lv, volume |-> v, entrustPrice |-> ep, triggerPrice |-> tr,
                   tpPrice |-> 0, tpAmount |-> 0, slPrice |-> 0, slAmount |-> 0]
  <2>3. ep \in Nat /\ tr \in Nat
    BY MarketAssumption DEF EntrustPrices, TriggerPrices
  <2>4. ArgsType(a) /\ a.leverage \in Nat \ {0} /\ a.type # TPSL
    BY <2>3, MarketAssumption DEF ArgsType, MARKET, LIMIT, PLAN, TPSL
  <2>5. market_put_order_open(a)
    BY <2>2
  <2> HIDE DEF a
  <2> QED BY <2>4, <2>5, OpenInv
<1>2. CASE CloseRequest
  <2>1. PICK u \in Users, m \in Markets, s \in Sides, t \in CloseTypes, pt \in Patterns,
             v \in Volumes :
          \E ep \in EntrustPrices(t), tr \in TriggerPrices(t),
             tp \in TpslPrices(t), sl \in TpslPrices(t) :
            \E ta \in TpslAmounts(t, tp, v), sa \in TpslAmounts(t, sl, v) :
              market_put_order_close(
                [user |-> u, market |-> m, direction |-> s, type |-> t, pattern |-> pt,
                 volume |-> IF t = TPSL THEN 0 ELSE v,
                 entrustPrice |-> ep, triggerPrice |-> tr,
                 tpPrice |-> tp, tpAmount |-> ta, slPrice |-> sl, slAmount |-> sa])
    BY <1>2 DEF CloseRequest
  <2>2. PICK ep \in EntrustPrices(t), tr \in TriggerPrices(t),
             tp \in TpslPrices(t), sl \in TpslPrices(t) :
          \E ta \in TpslAmounts(t, tp, v), sa \in TpslAmounts(t, sl, v) :
            market_put_order_close(
              [user |-> u, market |-> m, direction |-> s, type |-> t, pattern |-> pt,
               volume |-> IF t = TPSL THEN 0 ELSE v,
               entrustPrice |-> ep, triggerPrice |-> tr,
               tpPrice |-> tp, tpAmount |-> ta, slPrice |-> sl, slAmount |-> sa])
    BY <2>1
  <2>3. PICK ta \in TpslAmounts(t, tp, v), sa \in TpslAmounts(t, sl, v) :
          market_put_order_close(
            [user |-> u, market |-> m, direction |-> s, type |-> t, pattern |-> pt,
             volume |-> IF t = TPSL THEN 0 ELSE v,
             entrustPrice |-> ep, triggerPrice |-> tr,
             tpPrice |-> tp, tpAmount |-> ta, slPrice |-> sl, slAmount |-> sa])
    BY <2>2
  <2> DEFINE a == [user |-> u, market |-> m, direction |-> s, type |-> t, pattern |-> pt,
                   volume |-> IF t = TPSL THEN 0 ELSE v,
                   entrustPrice |-> ep, triggerPrice |-> tr,
                   tpPrice |-> tp, tpAmount |-> ta, slPrice |-> sl, slAmount |-> sa]
  <2>4. /\ ep \in Nat /\ tr \in Nat /\ tp \in Nat /\ sl \in Nat /\ ta \in Nat /\ sa \in Nat
    BY MarketAssumption DEF EntrustPrices, TriggerPrices, TpslPrices, TpslAmounts
  <2>5. ArgsType(a)
    BY <2>4, MarketAssumption DEF ArgsType
  <2>6. market_put_order_close(a)
    BY <2>3
  <2> HIDE DEF a
  <2> QED BY <2>5, <2>6, CloseInv
<1>3. CASE CancelRequest
  BY <1>3, OrderCancelInv DEF CancelRequest
<1>4. CASE Rejected
  <2>1. UNCHANGED vars
    BY <1>4 DEF Rejected
  <2> QED BY <2>1, StutterInv
<1> QED BY <1>1, <1>2, <1>3, <1>4, ModeRequestInv, PrincipalRequestInv DEF Requests

\* The iterators of the planner and of the liquidation.
LEMMA IteratorsInv ==
  ASSUME StateOK, IterOK, Requests \/ Matching \/ Planning \/ Liquidating
  PROVE  IterOK'
<1>1. CASE UNCHANGED <<scan, victim>>
  BY <1>1 DEF IterOK
<1>2. CASE ReturnToClient
  <2>1. 1 \in Markets /\ "plan_asks" \in Lists
    BY MarketAssumption DEF Markets, Lists
  <2>2. book[1]["plan_asks"] \in SUBSET Nat
    BY <2>1 DEF StateOK, IndexOK
  <2> QED BY <1>2, <2>2 DEF ReturnToClient, IterOK, ScanRec
<1>3. CASE PlanStep
  <2>1. victim' = victim /\ (scan' = scan \/ \E i : scan' = [scan EXCEPT !.todo = @ \ {i}])
    BY <1>3 DEF PlanStep, PlanSkip, PlanOpen, PlanClose, PlanDangling, Skip
  <2> QED BY <2>1 DEF IterOK, ScanRec
<1>4. CASE PlanAdvance
  <2>1. scan.market \in Markets /\ scan.market \in Nat /\ MarketNum \in Nat
    BY <1>4, MarketAssumption
       DEF PlanAdvance, StateOK, ControlOK, HandlerOK, InPlanner, Markets
  <2>2. CASE scan.list = "plan_asks"
    <3>1. scan' = [scan EXCEPT !.list = "plan_bids", !.todo = book[scan.market]["plan_bids"]]
      BY <2>2, <1>4 DEF PlanAdvance
    <3>2. book[scan.market]["plan_bids"] \in SUBSET Nat
      BY <2>1 DEF StateOK, IndexOK, Lists
    <3> QED BY <3>1, <3>2, <1>4 DEF PlanAdvance, IterOK, ScanRec
  <2>3. CASE scan.list # "plan_asks" /\ scan.market < MarketNum
    <3> DEFINE m == scan.market + 1
    <3>1. m \in Markets /\ m \in Nat
      BY <2>1, <2>3 DEF Markets
    <3>2. scan' = [market |-> m, list |-> "plan_asks", todo |-> book[m]["plan_asks"]]
      BY <2>3, <1>4 DEF PlanAdvance
    <3> HIDE DEF m
    <3>3. book[m]["plan_asks"] \in SUBSET Nat
      BY <3>1 DEF StateOK, IndexOK, Lists
    <3> QED BY <3>1, <3>2, <3>3, <1>4 DEF PlanAdvance, IterOK, ScanRec
  <2>4. CASE scan.list # "plan_asks" /\ ~(scan.market < MarketNum)
    BY <2>4, <1>4 DEF PlanAdvance, IterOK, ScanRec, NoScan
  <2> QED BY <2>2, <2>3, <2>4
<1>5. CASE LiquidationPass
  <2>1. scan' = scan
    BY <1>5 DEF LiquidationPass
  <2>2. victim' = victim \/ \E k \in DOMAIN positions : victim' = [key |-> k, todo |-> {}]
    BY <1>5 DEF LiquidationPass
  <2>3. DOMAIN positions \subseteq Keys
    BY DEF StateOK, AccountsOK, PositionsType
  <2> QED BY <2>1, <2>2, <2>3 DEF IterOK, VictimRec
<1>6. CASE CrossForfeit
  <2>1. scan' = scan /\ victim' = [victim EXCEPT !.todo = Markets \X Sides]
    BY <1>6 DEF CrossForfeit
  <2> QED BY <2>1 DEF IterOK, VictimRec
<1>7. CASE CrossBlast
  <2>1. scan' = scan /\ \E e : victim' = [victim EXCEPT !.todo = @ \ {e}]
    BY <1>7 DEF CrossBlast
  <2> QED BY <2>1 DEF IterOK, VictimRec
<1>8. CASE IsolatedBlast \/ CrossDone
  BY <1>8 DEF IsolatedBlast, CrossDone, IterOK, VictimRec, NoVictim
<1>9. CASE MatchStep \/ RestTaker \/ DropTaker \/ ReturnToPlanner \/ LiquidationCancel
           \/ ReturnToLiquidation
  BY <1>1, <1>9 DEF MatchStep, Deal, RestTaker, DropTaker, ReturnToPlanner,
     LiquidationCancel, ReturnToLiquidation
<1>10. CASE Requests
  <2>1. ASSUME NEW a, market_put_order_open(a) PROVE UNCHANGED <<scan, victim>>
    BY <2>1 DEF market_put_order_open
  <2>2. ASSUME NEW a, market_put_order_close(a) PROVE UNCHANGED <<scan, victim>>
    BY <2>2 DEF market_put_order_close
  <2>3. OpenRequest => UNCHANGED <<scan, victim>>
    BY <2>1, Zenon DEF OpenRequest
  <2>4. CloseRequest => UNCHANGED <<scan, victim>>
    BY <2>2, SMT DEF CloseRequest
  <2>5. CancelRequest \/ Rejected => UNCHANGED <<scan, victim>>
    <3>1. CancelRequest => UNCHANGED <<scan, victim>>
      BY Zenon DEF CancelRequest, OrderCancel
    <3>2. Rejected => UNCHANGED <<scan, victim>>
      BY Zenon DEF Rejected, vars
    <3> QED BY <3>1, <3>2
  <2>6. ModeRequest => UNCHANGED <<scan, victim>>
    BY Zenon DEF ModeRequest, on_cmd_position_query_all, on_cmd_position_mode_query,
       on_cmd_position_mode_adjust
  <2>7. PrincipalRequest => UNCHANGED <<scan, victim>>
    BY Zenon DEF PrincipalRequest, on_cmd_position_adjust_principal
  <2> QED BY <1>1, <1>10, <2>3, <2>4, <2>5, <2>6, <2>7 DEF Requests
<1> QED BY <1>2, <1>3, <1>4, <1>5, <1>6, <1>7, <1>8, <1>9, <1>10
     DEF Matching, Planning, Liquidating

LEMMA InitInv == Init => StateOK /\ IterOK
<1> SUFFICES ASSUME Init PROVE StateOK /\ IterOK
  OBVIOUS
<1>1. AccountsOK
  <2>1. Rescale(InitBalance) \in Nat
    BY RescaleType, MarketAssumption
  <2> QED BY <2>1 DEF Init, AccountsOK, Account, PositionsType, ModesType
<1>2. IndexOK
  BY DEF Init, IndexOK, OrdersType, ListsOK
<1>3. PricesOK
  BY DEF Init, PricesOK
<1>4. ControlOK
  BY DEF Init, ControlOK, HandlerOK, InPlanner, Phases, NoCall, CallRec
<1>5. IterOK
  BY DEF Init, IterOK, NoScan, NoVictim, ScanRec, VictimRec
<1> QED BY <1>1, <1>2, <1>3, <1>4, <1>5 DEF StateOK

\* Every step keeps the invariant.
LEMMA NextInv ==
  ASSUME StateOK, IterOK, [Next]_vars PROVE StateOK' /\ IterOK'
<1>1. CASE Requests
  BY <1>1, RequestsInv, IteratorsInv
<1>2. CASE Matching
  BY <1>2, IteratorsInv, MatchStepInv, RestTakerInv, DropTakerInv, ReturnToClientInv
     DEF Matching
<1>3. CASE Planning
  BY <1>3, IteratorsInv, PlanStepInv, ReturnToPlannerInv, PlanAdvanceInv DEF Planning
<1>4. CASE Liquidating
  BY <1>4, IteratorsInv, LiquidationPassInv, LiquidationCancelInv, IsolatedBlastInv,
     CrossForfeitInv, CrossBlastInv, CrossDoneInv, ReturnToLiquidationInv DEF Liquidating
<1>5. CASE UNCHANGED vars
  BY <1>5, StutterInv DEF IterOK, vars
<1> QED BY <1>1, <1>2, <1>3, <1>4, <1>5 DEF Next

\* Every handler, of every request, keeps the types of all the state it
\* touches, the lists typed by market and kind, and what it will return to
\* valid until it returns: whatever the users, the markets, the prices, the
\* sizes, the leverages and the fees.
THEOREM EngineInvariant == Spec => []EngineInv
<1>1. Init => StateOK /\ IterOK
  BY InitInv
<1>2. StateOK /\ IterOK /\ [Next]_vars => (StateOK /\ IterOK)'
  BY NextInv
<1> QED BY <1>1, <1>2, InvParts, PTL DEF Spec

\* In particular no variable ever holds what its C type does not allow.
THEOREM TypeCorrect == Spec => []TypeOK
<1>1. EngineInv => TypeOK
  BY DEF EngineInv
<1> QED BY <1>1, EngineInvariant, PTL
------------------------------------------------------------------------------
(***************************************************************************)
(* The books: as long as nobody sends a take-profit / stop-loss order,     *)
(* lists and index agree and the books are the auction of OrderBook.  A    *)
(* take-profit / stop-loss order is filed in one list and looked for in    *)
(* another one, and may be released for an amount of zero: with such       *)
(* orders neither holds.                                                   *)
(***************************************************************************)

\* The orders of the index can be found, and have something left.
BooksOK ==
  /\ IndexConsistent
  /\ \A i \in DOMAIN orders : orders[i].type \in {LIMIT, PLAN} /\ orders[i].left # 0

\* An order is only at hand from the moment execute_order starts until it has
\* returned, and a limit order only as long as something of it is left.
TakerOK ==
  /\ pc \notin {"match", "return", "crash"} => taker = NoOrder
  /\ pc = "match" /\ taker.type = LIMIT => taker.left # 0

BooksInv == BooksOK /\ TakerOK

Between(p) == p \notin {"match", "return", "crash"}
------------------------------------------------------------------------------
(* The index                                                                *)

LEMMA PutBooks ==
  ASSUME IndexOK, BooksOK, NEW m \in Markets, NEW o \in OrderRec, o.market = m,
         o.type \in {LIMIT, PLAN}, o.left # 0, order_put_future(m, o)
  PROVE  BooksOK'
<1> DEFINE id == order_id_start + 1
<1>1. /\ orders' = WithEntry(orders, id, o)
      /\ book' = [book EXCEPT ![m][PutList(o)] = @ \cup {id}]
      /\ book \in [Markets -> [Lists -> SUBSET Nat]]
      /\ id \notin DOMAIN orders
  BY DEF order_put_future, IndexOK, OrdersType
<1>2. PutList(o) \in Lists
  BY ListOfKind
<1>3. /\ DOMAIN orders' = DOMAIN orders \cup {id} /\ orders'[id] = o
      /\ \A i \in DOMAIN orders : orders'[i] = orders[i]
  BY <1>1 DEF WithEntry
<1> HIDE DEF id
<1>4. ASSUME NEW n \in Markets, NEW l \in Lists, NEW i \in book'[n][l]
      PROVE  i \in DOMAIN orders' /\ orders'[i].market = n /\ PutList(orders'[i]) = l
  <2>1. i \in book[n][l] \/ (i = id /\ n = m /\ l = PutList(o))
    BY <1>1, <1>2
  <2>2. i \in book[n][l] => i \in DOMAIN orders /\ orders[i].market = n /\ PutList(orders[i]) = l
    BY DEF BooksOK, IndexConsistent
  <2> QED BY <2>1, <2>2, <1>3
<1>5. ASSUME NEW i \in DOMAIN orders'
      PROVE  i \in book'[orders'[i].market][PutList(orders'[i])]
  <2>1. CASE i = id
    BY <2>1, <1>1, <1>2, <1>3
  <2>2. CASE i \in DOMAIN orders
    <3>1. i \in book[orders[i].market][PutList(orders[i])] /\ orders[i] \in OrderRec
      BY <2>2 DEF BooksOK, IndexConsistent, IndexOK, OrdersType
    <3>2. orders[i].market \in Markets /\ PutList(orders[i]) \in Lists
      BY <3>1, ListOfKind DEF OrderRec
    <3> QED BY <3>1, <3>2, <2>2, <1>1, <1>3
  <2> QED BY <2>1, <2>2, <1>3
<1>6. IndexConsistent'
  BY <1>4, <1>5 DEF IndexConsistent, PutList, IsAsk
<1> QED BY <1>3, <1>6 DEF BooksOK

\* Limit and plan orders are finished in the list they were filed in.
LEMMA SameList ==
  ASSUME NEW o \in OrderRec, o.type \in {LIMIT, PLAN} PROVE FinishList(o) = PutList(o)
  BY DEF FinishList, PutList, LIMIT, PLAN

\* A list of an index in order can be searched, whatever its kind.
LEMMA ListSorted ==
  ASSUME IndexOK, BooksOK, NEW m \in Markets, NEW l \in Lists
  PROVE  Sorted(m, l) /\ book[m][l] \subseteq DOMAIN orders
<1> SUFFICES ASSUME NEW i \in book[m][l]
             PROVE  i \in DOMAIN orders
                    /\ orders[i].type = IF l \in {"asks", "bids"} THEN LIMIT ELSE PLAN
  BY DEF Sorted
<1>1. i \in DOMAIN orders /\ PutList(orders[i]) = l /\ orders[i].type \in {LIMIT, PLAN}
  BY DEF BooksOK, IndexConsistent
<1>2. orders[i] \in OrderRec
  BY <1>1 DEF IndexOK, OrdersType
<1> QED BY <1>1, <1>2, ListOfKind DEF LIMIT, PLAN

LEMMA FinishBooks ==
  ASSUME IndexOK, BooksOK, NEW i \in DOMAIN orders, order_finish_future(i)
  PROVE  BooksOK'
<1> DEFINE m == orders[i].market  l == FinishList(orders[i])
<1>1. orders[i] \in OrderRec /\ orders[i].type \in {LIMIT, PLAN}
  BY DEF BooksOK, IndexOK, OrdersType
<1>2. m \in Markets /\ l \in Lists /\ l = PutList(orders[i])
  BY <1>1, ListOfKind, SameList DEF OrderRec
<1>3. /\ orders' = WithoutEntry(orders, i)
      /\ book' = [book EXCEPT ![m][l] = @ \ {i}]
      /\ book \in [Markets -> [Lists -> SUBSET Nat]]
  BY <1>2, ListSorted DEF order_finish_future, IndexOK
<1>4. /\ DOMAIN orders' = DOMAIN orders \ {i}
      /\ \A j \in DOMAIN orders' : orders'[j] = orders[j]
  BY <1>3 DEF WithoutEntry
<1>5. ASSUME NEW n \in Markets, NEW k \in Lists, NEW j \in book'[n][k]
      PROVE  j \in DOMAIN orders' /\ orders'[j].market = n /\ PutList(orders'[j]) = k
  <2>1. j \in book[n][k]
    BY <1>2, <1>3
  <2>2. j \in DOMAIN orders /\ orders[j].market = n /\ PutList(orders[j]) = k
    BY <2>1 DEF BooksOK, IndexConsistent
  <2>3. j # i
    BY <1>2, <1>3, <2>2
  <2> QED BY <2>2, <2>3, <1>4
<1>6. ASSUME NEW j \in DOMAIN orders'
      PROVE  j \in book'[orders'[j].market][PutList(orders'[j])]
  <2>1. j # i /\ j \in DOMAIN orders /\ orders'[j] = orders[j]
    BY <1>4
  <2>2. j \in book[orders[j].market][PutList(orders[j])] /\ orders[j] \in OrderRec
    BY <2>1 DEF BooksOK, IndexConsistent, IndexOK, OrdersType
  <2>3. orders[j].market \in Markets /\ PutList(orders[j]) \in Lists
    BY <2>2, ListOfKind DEF OrderRec
  <2> QED BY <2>1, <2>2, <2>3, <1>2, <1>3
<1>7. IndexConsistent'
  BY <1>5, <1>6 DEF IndexConsistent, PutList, IsAsk
<1> QED BY <1>4, <1>7 DEF BooksOK

\* An order of the index that shrinks stays where it is.
LEMMA ShrinkBooks ==
  ASSUME IndexOK, BooksOK, NEW i \in DOMAIN orders, NEW o \in OrderRec,
         orders' = [orders EXCEPT ![i] = o], book' = book, o.left # 0,
         o.market = orders[i].market, o.type = orders[i].type, o.side = orders[i].side,
         o.oper_type = orders[i].oper_type
  PROVE  BooksOK'
<1>1. PutList(o) = PutList(orders[i])
  BY DEF PutList, IsAsk
<1>2. \A j \in DOMAIN orders : /\ orders'[j].market = orders[j].market
                               /\ PutList(orders'[j]) = PutList(orders[j])
                               /\ orders'[j].type = orders[j].type
                               /\ orders'[j].left # 0
  BY <1>1 DEF BooksOK
<1>3. DOMAIN orders' = DOMAIN orders
  OBVIOUS
<1>4. IndexConsistent'
  <2>1. /\ \A m \in Markets, l \in Lists : \A j \in book[m][l] :
             j \in DOMAIN orders' /\ orders'[j].market = m /\ PutList(orders'[j]) = l
        /\ \A j \in DOMAIN orders' : j \in book[orders'[j].market][PutList(orders'[j])]
    BY <1>2, <1>3 DEF BooksOK, IndexConsistent
  <2> QED BY <2>1 DEF IndexConsistent, PutList, IsAsk
<1> QED BY <1>2, <1>3, <1>4 DEF BooksOK

LEMMA BooksFrame == ASSUME BooksOK, UNCHANGED index PROVE BooksOK'
<1>1. orders' = orders /\ book' = book
  BY DEF index
<1> QED BY <1>1 DEF BooksOK, IndexConsistent, PutList, IsAsk
------------------------------------------------------------------------------
(* The kinds of steps, as the books see them                                *)

\* execute_order starts.
Starts ==
  /\ Between(pc) /\ pc' = "match"
  /\ taker' \in OrderRec /\ (taker'.type = LIMIT => taker'.left # 0)
  /\ UNCHANGED <<index, latestPrice>>

\* A plan order is filed, an order leaves the index, or none of both.
Files ==
  /\ Between(pc) /\ pc' \notin {"match", "return"}
  /\ \E m \in Markets, o \in OrderRec :
       o.market = m /\ o.type = PLAN /\ o.left # 0 /\ order_put_future(m, o)
  /\ UNCHANGED <<latestPrice, taker>>

Finishes ==
  /\ Between(pc) /\ pc' \notin {"match", "return"}
  /\ \E i \in DOMAIN orders : order_finish_future(i)
  /\ UNCHANGED <<latestPrice, taker>>

Rests ==
  /\ Between(pc) /\ pc' \notin {"match", "return"}
  /\ UNCHANGED <<index, latestPrice, taker>>

\* execute_order has returned, perhaps to the planner, which finishes the order
\* whose copy it released.
Returns ==
  /\ pc = "return" /\ pc' \notin {"match", "return"} /\ taker' = NoOrder
  /\ \/ UNCHANGED index
     \/ \E i \in DOMAIN orders : orders[i].type # LIMIT /\ order_finish_future(i)
  /\ UNCHANGED latestPrice

BookStep ==
  \/ Starts \/ Files \/ Finishes \/ Rests \/ Returns
  \/ MatchStep \/ RestTaker \/ DropTaker \/ UNCHANGED vars

LEMMA ExecuteStarts ==
  ASSUME Between(pc), NEW o \in OrderRec, NEW m, NEW by, NEW old, Execute(o, m, by, old),
         o.type = LIMIT => o.left # 0, UNCHANGED <<index, latestPrice>>
  PROVE  Starts
  BY DEF Execute, Starts

\* Requests for orders of one kind only, besides market and limit orders.
NoTpsl == TPSL \notin CloseTypes

LEMMA OpenBooks ==
  ASSUME StateOK, NEW a, ArgsType(a), a.leverage \in Nat \ {0}, a.type # TPSL,
         market_put_order_open(a)
  PROVE  BookStep
<1> DEFINE mode     == ModeAfter(a)[<<a.user, a.market>>]
           held     == HasPosition(a.user, a.market)
           leverage == IF held THEN LeadPosition(a.user, a.market).leverage ELSE a.leverage
           pri      == Margin(a.volume, IF held THEN leverage ELSE mode.leverage)
           planned  == initOrder(a, OPEN, leverage, 0)
           freeze   == IF a.type = LIMIT THEN pri ELSE 0
           placed   == initOrder(a, OPEN, leverage, freeze)
<1>1. /\ pc = "idle" /\ a.volume >= 1
      /\ UNCHANGED latestPrice
      /\ \/ UNCHANGED <<index, pc, taker>>
         \/ /\ a.type = PLAN
            /\ order_put_future(a.market, planned)
            /\ pc' \in {"idle", "crash"}
            /\ UNCHANGED taker
         \/ Execute(placed, a.market, "client", 0) /\ UNCHANGED index
  BY DEF market_put_order_open, Compares, OpenArgsValid
<1>2. leverage \in Nat \ {0}
  <2>1. CASE held
    <3>1. LeadPosition(a.user, a.market) \in PositionRec
      BY <2>1 DEF HasPosition, LeadPosition, Sides, StateOK, AccountsOK, PositionsType
    <3> QED BY <2>1, <3>1 DEF PositionRec
  <2>2. CASE ~held
    BY <2>2
  <2> QED BY <2>1, <2>2
<1>3. pri \in Int
  <2>1. (IF held THEN leverage ELSE mode.leverage) \in Int
    BY <1>2, ModeAfterType DEF StateOK, AccountsOK
  <2>2. a.volume \in Int
    BY DEF ArgsType
  <2> QED BY <2>1, <2>2, MarginType
<1> HIDE DEF leverage, pri
<1>4. freeze \in Int /\ OPEN \in {OPEN, CLOSE} /\ PricesOK
  BY <1>3 DEF StateOK
<1> HIDE DEF freeze
<1>5. /\ planned \in OrderRec /\ planned.type = a.type /\ planned.market = a.market
      /\ placed \in OrderRec /\ planned.left = a.volume /\ placed.left = a.volume
  <2>1. planned.left = a.volume /\ placed.left = a.volume
    BY DEF initOrder
  <2> QED BY <2>1, <1>2, <1>4, initOrderType
<1> HIDE DEF planned, placed
<1>6. a.volume # 0 /\ a.market \in Markets
  BY <1>1 DEF ArgsType
<1>7. Between(pc) /\ (pc' \in {"idle", "crash"} => pc' \notin {"match", "return"})
  BY <1>1 DEF Between
<1>8. CASE UNCHANGED <<index, pc, taker>>
  BY <1>1, <1>7, <1>8 DEF BookStep, Rests
<1>9. CASE a.type = PLAN /\ order_put_future(a.market, planned)
           /\ pc' \in {"idle", "crash"} /\ UNCHANGED taker
  BY <1>1, <1>5, <1>6, <1>7, <1>9 DEF BookStep, Files
<1>10. CASE Execute(placed, a.market, "client", 0) /\ UNCHANGED index
  BY <1>1, <1>5, <1>6, <1>7, <1>10, ExecuteStarts DEF BookStep
<1> QED BY <1>1, <1>8, <1>9, <1>10

LEMMA CloseBooks ==
  ASSUME StateOK, NEW a, ArgsType(a), a.type # TPSL, market_put_order_close(a)
  PROVE  BookStep
<1> DEFINE k == <<a.user, a.market, a.direction>>
           o == initOrder(a, CLOSE, positions[k].leverage, 0)
<1>1. /\ pc = "idle" /\ a.volume >= 1
      /\ k \in DOMAIN positions
      /\ UNCHANGED latestPrice
      /\ \/ Execute(o, a.market, "client", 0) /\ UNCHANGED index
         \/ /\ a.type \notin {MARKET, LIMIT}
            /\ order_put_future(a.market, o)
            /\ pc' \in {"idle", "crash"}
            /\ UNCHANGED taker
  BY DEF market_put_order_close, Compares, CloseArgsValid
<1>2. positions[k].leverage \in Nat \ {0}
  BY <1>1 DEF StateOK, AccountsOK, PositionsType, PositionRec
<1>3. o \in OrderRec /\ o.type = a.type /\ o.market = a.market /\ o.left = a.volume
  <2>1. PricesOK /\ CLOSE \in {OPEN, CLOSE} /\ 0 \in Int
    BY DEF StateOK
  <2>2. o.left = a.volume
    BY DEF initOrder
  <2> QED BY <2>1, <2>2, <1>2, initOrderType
<1> HIDE DEF o
<1>4. a.volume # 0 /\ a.market \in Markets /\ (a.type \notin {MARKET, LIMIT} => a.type = PLAN)
  BY <1>1 DEF ArgsType
<1>5. Between(pc) /\ (pc' \in {"idle", "crash"} => pc' \notin {"match", "return"})
  BY <1>1 DEF Between
<1>6. CASE Execute(o, a.market, "client", 0) /\ UNCHANGED index
  BY <1>1, <1>3, <1>4, <1>5, <1>6, ExecuteStarts DEF BookStep
<1>7. CASE /\ a.type \notin {MARKET, LIMIT} /\ order_put_future(a.market, o)
           /\ pc' \in {"idle", "crash"} /\ UNCHANGED taker
  BY <1>1, <1>3, <1>4, <1>5, <1>7 DEF BookStep, Files
<1> QED BY <1>1, <1>6, <1>7

LEMMA CancelBooks ==
  ASSUME Between(pc), NEW i \in DOMAIN orders, NEW next, next \notin {"match", "return"},
         market_cancel_order(i, next), UNCHANGED <<latestPrice, taker>>
  PROVE  BookStep
<1>1. pc' \in {next, "crash"} /\ (order_finish_future(i) \/ UNCHANGED index)
  BY DEF market_cancel_order, Compares
<1> QED BY <1>1 DEF BookStep, Finishes, Rests

\* The arguments of the requests.
LEMMA OpenRequestArgs ==
  ASSUME OpenRequest
  PROVE  \E a : /\ ArgsType(a) /\ a.leverage \in Nat \ {0} /\ a.type # TPSL
                /\ a.pattern \in Patterns /\ a.leverage \in Leverages
                /\ market_put_order_open(a)
<1>1. PICK u \in Users, m \in Markets, s \in Sides, t \in OpenTypes, pt \in Patterns,
           lv \in Leverages, v \in Volumes :
        \E ep \in EntrustPrices(t), tr \in TriggerPrices(t) :
          market_put_order_open(
            [user |-> u, market |-> m, direction |-> s, type |-> t, pattern |-> pt,
             leverage |-> lv, volume |-> v, entrustPrice |-> ep, triggerPrice |-> tr,
             tpPrice |-> 0, tpAmount |-> 0, slPrice |-> 0, slAmount |-> 0])
  BY DEF OpenRequest
<1>2. PICK ep \in EntrustPrices(t), tr \in TriggerPrices(t) :
          market_put_order_open(
            [user |-> u, market |-> m, direction |-> s, type |-> t, pattern |-> pt,
             leverage |-> lv, volume |-> v, entrustPrice |-> ep, triggerPrice |-> tr,
             tpPrice |-> 0, tpAmount |-> 0, slPrice |-> 0, slAmount |-> 0])
  BY <1>1
<1> DEFINE a == [user |-> u, market |-> m, direction |-> s, type |-> t, pattern |-> pt,
                 leverage |-> lv, volume |-> v, entrustPrice |-> ep, triggerPrice |-> tr,
                 tpPrice |-> 0, tpAmount |-> 0, slPrice |-> 0, slAmount |-> 0]
<1>3. ep \in Nat /\ tr \in Nat
  BY MarketAssumption DEF EntrustPrices, TriggerPrices
<1>4. /\ ArgsType(a) /\ a.leverage \in Nat \ {0} /\ a.type # TPSL
      /\ a.pattern \in Patterns /\ a.leverage \in Leverages
  BY <1>3, MarketAssumption DEF ArgsType, MARKET, LIMIT, PLAN, TPSL
<1>5. market_put_order_open(a)
  BY <1>2
<1> HIDE DEF a
<1> QED BY <1>4, <1>5

LEMMA CloseRequestArgs ==
  ASSUME CloseRequest
  PROVE  \E a : /\ ArgsType(a) /\ a.type \in CloseTypes /\ a.pattern \in Patterns
                /\ market_put_order_close(a)
<1>1. PICK u \in Users, m \in Markets, s \in Sides, t \in CloseTypes, pt \in Patterns,
           v \in Volumes :
        \E ep \in EntrustPrices(t), tr \in TriggerPrices(t),
           tp \in TpslPrices(t), sl \in TpslPrices(t) :
          \E ta \in TpslAmounts(t, tp, v), sa \in TpslAmounts(t, sl, v) :
            market_put_order_close(
              [user |-> u, market |-> m, direction |-> s, type |-> t, pattern |-> pt,
               volume |-> IF t = TPSL THEN 0 ELSE v,
               entrustPrice |-> ep, triggerPrice |-> tr,
               tpPrice |-> tp, tpAmount |-> ta, slPrice |-> sl, slAmount |-> sa])
  BY DEF CloseRequest
<1>2. PICK ep \in EntrustPrices(t), tr \in TriggerPrices(t),
           tp \in TpslPrices(t), sl \in TpslPrices(t) :
        \E ta \in TpslAmounts(t, tp, v), sa \in TpslAmounts(t, sl, v) :
          market_put_order_close(
            [user |-> u, market |-> m, direction |-> s, type |-> t, pattern |-> pt,
             volume |-> IF t = TPSL THEN 0 ELSE v,
             entrustPrice |-> ep, triggerPrice |-> tr,
             tpPrice |-> tp, tpAmount |-> ta, slPrice |-> sl, slAmount |-> sa])
  BY <1>1
<1>3. PICK ta \in TpslAmounts(t, tp, v), sa \in TpslAmounts(t, sl, v) :
        market_put_order_close(
          [user |-> u, market |-> m, direction |-> s, type |-> t, pattern |-> pt,
           volume |-> IF t = TPSL THEN 0 ELSE v,
           entrustPrice |-> ep, triggerPrice |-> tr,
           tpPrice |-> tp, tpAmount |-> ta, slPrice |-> sl, slAmount |-> sa])
  BY <1>2
<1> DEFINE a == [user |-> u, market |-> m, direction |-> s, type |-> t, pattern |-> pt,
                 volume |-> IF t = TPSL THEN 0 ELSE v,
                 entrustPrice |-> ep, triggerPrice |-> tr,
                 tpPrice |-> tp, tpAmount |-> ta, slPrice |-> sl, slAmount |-> sa]
<1>4. /\ ep \in Nat /\ tr \in Nat /\ tp \in Nat /\ sl \in Nat /\ ta \in Nat /\ sa \in Nat
  BY MarketAssumption DEF EntrustPrices, TriggerPrices, TpslPrices, TpslAmounts
<1>5. ArgsType(a) /\ a.type \in CloseTypes /\ a.pattern \in Patterns
  BY <1>4, MarketAssumption DEF ArgsType
<1>6. market_put_order_close(a)
  BY <1>3
<1> HIDE DEF a
<1> QED BY <1>5, <1>6

LEMMA RequestBooks == ASSUME NoTpsl, StateOK, Requests PROVE BookStep
<1>1. CASE OpenRequest
  BY <1>1, OpenRequestArgs, OpenBooks
<1>2. CASE CloseRequest
  <2>1. PICK a : ArgsType(a) /\ a.type \in CloseTypes /\ market_put_order_close(a)
    BY <1>2, CloseRequestArgs
  <2> QED BY <2>1, CloseBooks DEF NoTpsl
<1>3. CASE CancelRequest
  <2>1. PICK i \in DOMAIN orders : OrderCancel(i)
    BY <1>3 DEF CancelRequest
  <2>2. Between(pc) /\ "idle" \notin {"match", "return"}
    BY <2>1 DEF OrderCancel, Between
  <2> QED BY <2>1, <2>2, CancelBooks DEF OrderCancel
<1>4. CASE Rejected
  BY <1>4 DEF Rejected, BookStep
<1>5. CASE ModeRequest
  <2>1. /\ pc = "idle" /\ pc' \in {"idle", "crash"}
        /\ UNCHANGED <<index, latestPrice, taker>>
    BY <1>5 DEF ModeRequest, on_cmd_position_query_all, on_cmd_position_mode_query,
                on_cmd_position_mode_adjust
  <2> QED BY <2>1 DEF BookStep, Rests, Between
<1>6. CASE PrincipalRequest
  <2>1. pc = "idle" /\ UNCHANGED <<pc, index, latestPrice, taker>>
    BY <1>6, Zenon DEF PrincipalRequest, on_cmd_position_adjust_principal
  <2> QED BY <2>1 DEF BookStep, Rests, Between
<1> QED BY <1>1, <1>2, <1>3, <1>4, <1>5, <1>6 DEF Requests

LEMMA PlanBooks == ASSUME StateOK, IterOK, BooksInv, Planning PROVE BookStep
<1>1. CASE PlanStep
  <2>1. /\ pc = "plan" /\ Between(pc)
    BY <1>1 DEF PlanStep, Between
  <2>2. PICK i \in scan.todo : PlanSkip(i) \/ PlanOpen(i) \/ PlanClose(i) \/ PlanDangling(i)
    BY <1>1 DEF PlanStep, NextInScan
  <2>3. CASE PlanSkip(i) \/ PlanDangling(i)
    BY <2>1, <2>3 DEF PlanSkip, PlanDangling, Skip, BookStep, Rests
  <2>4. ASSUME i \in DOMAIN orders
        PROVE  /\ copyOrder(orders[i]) \in OrderRec /\ copyOrder(orders[i]).left # 0
               /\ copyOrder(orders[i]).left = orders[i].left /\ orders[i].type = PLAN
    <3>1. orders[i] \in OrderRec
      BY <2>4 DEF StateOK, IndexOK, OrdersType
    <3>2. orders[i].type \in {LIMIT, PLAN} /\ orders[i].type # LIMIT /\ orders[i].left # 0
      BY <2>1, <2>4, ScanFacts DEF BooksInv, BooksOK
    <3>3. copyOrder(orders[i]).left = orders[i].left
      BY <3>1, <3>2 DEF copyOrder, OrderRec
    <3> QED BY <3>1, <3>2, <3>3, copyOrderType
  <2>5. CASE PlanOpen(i)
    <3> DEFINE c == copyOrder(orders[i])
               pri == Margin(c.left, c.leverage)
               frozen == [c EXCEPT !.freeze = pri]
    <3>1. /\ i \in DOMAIN orders
          /\ Execute(c, c.market, "planner", i) \/ Execute(frozen, c.market, "planner", i)
          /\ UNCHANGED <<index, latestPrice>>
      BY <2>5 DEF PlanOpen
    <3>2. c \in OrderRec /\ c.left # 0
      BY <3>1, <2>4
    <3> HIDE DEF c
    <3>3. pri \in Int
      <4>1. c.left \in Int /\ c.leverage \in Int
        BY <3>2 DEF OrderRec
      <4> QED BY <4>1, MarginType
    <3> HIDE DEF pri
    <3>4. frozen \in OrderRec /\ frozen.left # 0
      BY <3>2, <3>3 DEF OrderRec
    <3> HIDE DEF frozen
    <3> QED BY <2>1, <3>1, <3>2, <3>4, ExecuteStarts DEF BookStep
  <2>6. CASE PlanClose(i)
    <3> DEFINE c == copyOrder(orders[i])
    <3>1. /\ i \in DOMAIN orders
          /\ Execute(c, c.market, "planner", i)
          /\ UNCHANGED <<index, latestPrice>>
      BY <2>6 DEF PlanClose
    <3>2. c \in OrderRec /\ c.left # 0
      BY <3>1, <2>4
    <3> HIDE DEF c
    <3> QED BY <2>1, <3>1, <3>2, ExecuteStarts DEF BookStep
  <2> QED BY <2>2, <2>3, <2>5, <2>6
<1>2. CASE ReturnToPlanner
  <2>1. /\ pc = "return" /\ pc' \in {"plan", "crash"} /\ taker' = NoOrder
        /\ order_finish_future(call.old) /\ UNCHANGED latestPrice
    BY <1>2 DEF ReturnToPlanner, Compares
  <2>2. call.old \in DOMAIN orders /\ orders[call.old].type # LIMIT
    BY <1>2 DEF ReturnToPlanner, StateOK, ControlOK, HandlerOK
  <2> QED BY <2>1, <2>2 DEF BookStep, Returns
<1>3. CASE PlanAdvance
  BY <1>3 DEF PlanAdvance, BookStep, Rests, Between
<1> QED BY <1>1, <1>2, <1>3 DEF Planning

LEMMA LiquidationBooks == ASSUME StateOK, IterOK, Liquidating PROVE BookStep
<1>1. CASE LiquidationPass \/ CrossForfeit \/ CrossDone
  BY <1>1 DEF LiquidationPass, CrossForfeit, CrossDone, BookStep, Rests, Between
<1>2. CASE LiquidationCancel
  <2>1. PICK i \in DOMAIN orders : market_cancel_order(i, "cancel")
    BY <1>2 DEF LiquidationCancel, DoomedOrders, OrdersOf
  <2>2. Between(pc) /\ "cancel" \notin {"match", "return"} /\ UNCHANGED <<latestPrice, taker>>
    BY <1>2 DEF LiquidationCancel, Between
  <2> QED BY <2>1, <2>2, CancelBooks
<1>3. ASSUME NEW k \in DOMAIN positions, NEW m, NEW by, Between(pc),
             Execute(BlastOrder(k), m, by, 0), UNCHANGED <<index, latestPrice>>
      PROVE  BookStep
  <2>1. BlastOrder(k) \in OrderRec /\ BlastOrder(k).type # LIMIT
    BY BlastOrderType DEF MARKET, LIMIT
  <2> QED BY <2>1, <1>3, ExecuteStarts DEF BookStep
<1>4. CASE IsolatedBlast
  <2>1. victim.key \in DOMAIN positions
    BY <1>4 DEF IsolatedBlast, StateOK, ControlOK, HandlerOK
  <2> QED BY <2>1, <1>3, <1>4 DEF IsolatedBlast, Between
<1>5. CASE CrossBlast
  <2>1. /\ pc = "cross" /\ UNCHANGED <<index, latestPrice>>
        /\ \/ \E m : /\ victim.key \in DOMAIN positions
                     /\ Execute(BlastOrder(victim.key), m, "cross", 0)
           \/ UNCHANGED <<pc, taker>>
    BY <1>5 DEF CrossBlast
  <2>2. CASE UNCHANGED <<pc, taker>>
    BY <2>1, <2>2 DEF BookStep, Rests, Between
  <2> QED BY <2>1, <2>2, <1>3 DEF Between
<1>6. CASE ReturnToLiquidation
  BY <1>6 DEF ReturnToLiquidation, BookStep, Returns
<1> QED BY <1>1, <1>2, <1>4, <1>5, <1>6 DEF Liquidating

LEMMA NextBooks ==
  ASSUME NoTpsl, StateOK, IterOK, BooksInv, [Next]_vars PROVE BookStep
<1>1. CASE Matching
  <2>1. CASE ReturnToClient
    BY <2>1 DEF ReturnToClient, BookStep, Returns
  <2> QED BY <1>1, <2>1 DEF Matching, BookStep
<1>2. CASE UNCHANGED vars
  BY <1>2 DEF BookStep
<1> QED BY <1>1, <1>2, RequestBooks, PlanBooks, LiquidationBooks DEF Next
------------------------------------------------------------------------------
(* The invariant                                                            *)

\* What a deal of MatchStep does to the index.
LEMMA DealBooks ==
  ASSUME StateOK, MatchStep
  PROVE  \E i \in book[call.market][Opposite(taker)] :
           LET maker  == orders[i]
               amount == IF taker.left < maker.left THEN taker.left ELSE maker.left
               rest   == adjustOrder(maker, amount)
           IN  /\ i \in DOMAIN orders /\ maker \in OrderRec /\ taker \in OrderRec
               /\ maker.type = LIMIT /\ maker.market = call.market
               /\ PutList(maker) = Opposite(taker) /\ call.market \in Markets
               /\ \A j \in book[call.market][Opposite(taker)] \ {i} : Before(i, j)
               /\ PriceMatches(taker, maker) /\ Deal(i)
               /\ amount \in Int
               /\ rest \in OrderRec /\ rest.left = maker.left - amount
               /\ \A f \in {"user", "market", "type", "side", "oper_type", "price"} :
                    rest[f] = maker[f] /\ taker'[f] = taker[f]
               /\ taker' \in OrderRec /\ taker'.left = taker.left - amount
<1>1. /\ taker \in OrderRec /\ call.market \in Markets
  BY DEF MatchStep, StateOK, ControlOK, HandlerOK
<1>2. PICK i \in book[call.market][Opposite(taker)] :
        /\ \A j \in book[call.market][Opposite(taker)] \ {i} : Before(i, j)
        /\ PriceMatches(taker, orders[i])
        /\ Deal(i)
  BY DEF MatchStep
<1>3. Opposite(taker) \in {"asks", "bids"} /\ Opposite(taker) \in Lists
  BY DEF Opposite, Lists
<1>4. /\ i \in DOMAIN orders /\ PutList(orders[i]) = Opposite(taker)
      /\ orders[i].market = call.market
  BY <1>1, <1>2, <1>3 DEF StateOK, IndexOK, ListsOK
<1>5. orders[i] \in OrderRec /\ orders[i].type = LIMIT
  BY <1>3, <1>4, ListOfKind DEF StateOK, IndexOK, OrdersType
<1> DEFINE maker  == orders[i]
           amount == IF taker.left < maker.left THEN taker.left ELSE maker.left
<1>6. amount \in Int
  BY <1>1, <1>5 DEF OrderRec
<1>7. taker' = adjustOrder(taker, amount)
  BY <1>2 DEF Deal
<1> HIDE DEF amount
<1>8. /\ adjustOrder(maker, amount) \in OrderRec /\ taker' \in OrderRec
      /\ \A f \in {"user", "market", "type", "side", "oper_type", "price"} :
           adjustOrder(maker, amount)[f] = maker[f] /\ taker'[f] = taker[f]
  BY <1>1, <1>5, <1>6, <1>7, adjustOrderType
<1>9. ASSUME NEW o \in OrderRec PROVE adjustOrder(o, amount).left = o.left - amount
  BY DEF adjustOrder, OrderRec
<1>10. adjustOrder(maker, amount).left = maker.left - amount /\ taker'.left = taker.left - amount
  BY <1>1, <1>5, <1>7, <1>9
<1> QED BY <1>1, <1>2, <1>4, <1>5, <1>6, <1>8, <1>10 DEF amount

LEMMA BooksStep ==
  ASSUME StateOK, BooksInv, BookStep PROVE BooksInv'
<1>1. CASE Starts
  <2>1. BooksOK'
    BY <1>1, BooksFrame DEF Starts, BooksInv
  <2> QED BY <2>1, <1>1 DEF Starts, BooksInv, TakerOK
<1>2. CASE Files
  <2>1. PICK m \in Markets, o \in OrderRec :
          o.market = m /\ o.type = PLAN /\ o.left # 0 /\ order_put_future(m, o)
    BY <1>2 DEF Files
  <2>2. BooksOK'
    BY <2>1, PutBooks DEF StateOK, BooksInv
  <2> QED BY <2>2, <1>2 DEF Files, Between, BooksInv, TakerOK
<1>3. CASE Finishes
  <2>1. BooksOK'
    BY <1>3, FinishBooks DEF Finishes, StateOK, BooksInv
  <2> QED BY <2>1, <1>3 DEF Finishes, Between, BooksInv, TakerOK
<1>4. CASE Rests
  <2>1. BooksOK'
    BY <1>4, BooksFrame DEF Rests, BooksInv
  <2> QED BY <2>1, <1>4 DEF Rests, Between, BooksInv, TakerOK
<1>5. CASE Returns
  <2>1. BooksOK'
    BY <1>5, BooksFrame, FinishBooks DEF Returns, StateOK, BooksInv
  <2> QED BY <2>1, <1>5 DEF Returns, BooksInv, TakerOK
<1>6. CASE MatchStep
  <2> DEFINE Amount(i) == IF taker.left < orders[i].left THEN taker.left ELSE orders[i].left
             Left(i)   == adjustOrder(orders[i], Amount(i))
  <2>1. PICK i \in DOMAIN orders :
          /\ Deal(i) /\ Left(i) \in OrderRec
          /\ \A f \in {"user", "market", "type", "side", "oper_type", "price"} :
               Left(i)[f] = orders[i][f]
    BY <1>6, DealBooks
  <2>2. /\ IF Left(i).left = 0 THEN order_finish_future(i)
           ELSE orders' = [orders EXCEPT ![i] = Left(i)] /\ book' = book
        /\ pc' = "crash" \/ pc' = IF taker'.left = 0 THEN "return" ELSE "match"
    BY <2>1 DEF Deal
  <2>3. /\ Left(i).market = orders[i].market /\ Left(i).type = orders[i].type
        /\ Left(i).side = orders[i].side /\ Left(i).oper_type = orders[i].oper_type
    BY <2>1
  <2> HIDE DEF Left
  <2>4. BooksOK'
    <3>1. CASE Left(i).left = 0
      BY <3>1, <2>2, FinishBooks DEF StateOK, BooksInv
    <3>2. CASE Left(i).left # 0
      BY <3>2, <2>1, <2>2, <2>3, ShrinkBooks DEF StateOK, BooksInv
    <3> QED BY <3>1, <3>2
  <2> QED BY <2>2, <2>4 DEF BooksInv, TakerOK
<1>7. CASE RestTaker
  <2>1. /\ taker \in OrderRec /\ call.market \in Markets /\ taker.type = LIMIT
        /\ taker.market = call.market /\ taker.left # 0
        /\ order_put_future(call.market, taker) /\ pc' = "return"
    BY <1>7 DEF RestTaker, NothingToMatch, StateOK, ControlOK, HandlerOK, BooksInv, TakerOK
  <2>2. BooksOK'
    BY <2>1, PutBooks DEF StateOK, BooksInv
  <2> QED BY <2>1, <2>2 DEF BooksInv, TakerOK
<1>8. CASE DropTaker
  <2>1. UNCHANGED index /\ pc' \in {"return", "crash"}
    BY <1>8 DEF DropTaker
  <2>2. BooksOK'
    BY <2>1, BooksFrame DEF BooksInv
  <2> QED BY <2>1, <2>2 DEF BooksInv, TakerOK
<1>9. CASE UNCHANGED vars
  <2>1. UNCHANGED <<index, pc, taker>>
    BY <1>9 DEF vars, index
  <2>2. BooksOK'
    BY <2>1, BooksFrame DEF BooksInv
  <2> QED BY <2>1, <2>2 DEF BooksInv, TakerOK
<1> QED BY <1>1, <1>2, <1>3, <1>4, <1>5, <1>6, <1>7, <1>8, <1>9 DEF BookStep

LEMMA BooksInit == Init => BooksInv
<1>1. Init => BooksOK
  BY DEF Init, BooksOK, IndexConsistent
<1> QED BY <1>1 DEF Init, BooksInv, TakerOK

\* The invariant of the contracts, with that of the engine.
LEMMA BooksInvariant == ASSUME NoTpsl PROVE Spec => [](StateOK /\ IterOK /\ BooksInv)
<1>1. Init => StateOK /\ IterOK /\ BooksInv
  BY InitInv, BooksInit
<1>2. StateOK /\ IterOK /\ BooksInv /\ [Next]_vars => (StateOK /\ IterOK /\ BooksInv)'
  BY NextInv, NextBooks, BooksStep
<1> QED BY <1>1, <1>2, PTL DEF Spec

\* Without take-profit / stop-loss orders no list ever holds an order that was
\* freed, and every order can be found where the code looks for it: in every
\* step of every handler, with any number of users and markets.
THEOREM IndexAlwaysConsistent == ASSUME TPSL \notin CloseTypes PROVE Spec => []IndexConsistent
<1>1. BooksInv => IndexConsistent
  BY DEF BooksInv, BooksOK
<1> QED BY <1>1, BooksInvariant, PTL DEF NoTpsl
------------------------------------------------------------------------------
(* The books are an auction                                                 *)

\* A limit order of the index, as the auction knows it.
LEMMA RestingFacts ==
  /\ DOMAIN RestingOrders = {i \in DOMAIN orders : orders[i].type = LIMIT}
  /\ \A i \in DOMAIN RestingOrders :
       /\ RestingOrders[i] = [market |-> orders[i].market, ask |-> IsAsk(orders[i]),
                              price |-> orders[i].price, left |-> orders[i].left]
       /\ RestingOrders[i].market = orders[i].market
       /\ RestingOrders[i].ask = IsAsk(orders[i])
       /\ RestingOrders[i].price = orders[i].price
       /\ RestingOrders[i].left = orders[i].left
  BY DEF RestingOrders

LEMMA RestingFrame == UNCHANGED index => RestingOrders' = RestingOrders
  BY DEF index, RestingOrders, IsAsk

\* An order of another kind that comes or goes does not show; a limit order
\* that goes leaves the others.
LEMMA RestingFinish ==
  ASSUME NEW i \in DOMAIN orders, order_finish_future(i)
  PROVE  /\ orders[i].type # LIMIT => RestingOrders' = RestingOrders
         /\ orders[i].type = LIMIT =>
              RestingOrders' = [j \in DOMAIN RestingOrders \ {i} |-> RestingOrders[j]]
<1>1. /\ DOMAIN orders' = DOMAIN orders \ {i}
      /\ \A j \in DOMAIN orders' : orders'[j] = orders[j]
  BY DEF order_finish_future, WithoutEntry
<1> DEFINE Slot(o) == [market |-> o.market, ask |-> IsAsk(o), price |-> o.price, left |-> o.left]
<1>2. /\ RestingOrders = [j \in {k \in DOMAIN orders : orders[k].type = LIMIT} |-> Slot(orders[j])]
      /\ RestingOrders' = [j \in {k \in DOMAIN orders' : orders'[k].type = LIMIT} |-> Slot(orders'[j])]
  BY DEF RestingOrders, IsAsk
<1> HIDE DEF Slot
<1>3. CASE orders[i].type # LIMIT
  <2>1. {k \in DOMAIN orders' : orders'[k].type = LIMIT} = {k \in DOMAIN orders : orders[k].type = LIMIT}
    BY <1>1, <1>3
  <2> QED BY <2>1, <1>1, <1>2, <1>3
<1>4. CASE orders[i].type = LIMIT
  <2>1. {k \in DOMAIN orders' : orders'[k].type = LIMIT}
          = {k \in DOMAIN orders : orders[k].type = LIMIT} \ {i}
    BY <1>1
  <2> QED BY <2>1, <1>1, <1>2, <1>4
<1> QED BY <1>3, <1>4

LEMMA RestingPut ==
  ASSUME IndexOK, NEW m, NEW o, order_put_future(m, o)
  PROVE  /\ o.type # LIMIT => RestingOrders' = RestingOrders
         /\ o.type = LIMIT =>
              RestingOrders' = [j \in DOMAIN RestingOrders \cup {order_id_start + 1} |->
                IF j = order_id_start + 1
                THEN [market |-> o.market, ask |-> IsAsk(o), price |-> o.price, left |-> o.left]
                ELSE RestingOrders[j]]
<1> DEFINE id == order_id_start + 1
           Slot(x) == [market |-> x.market, ask |-> IsAsk(x), price |-> x.price, left |-> x.left]
<1>1. /\ DOMAIN orders' = DOMAIN orders \cup {id} /\ orders'[id] = o
      /\ \A j \in DOMAIN orders : orders'[j] = orders[j]
      /\ id \notin DOMAIN orders
  BY DEF order_put_future, WithEntry, IndexOK, OrdersType
<1>2. /\ RestingOrders = [j \in {k \in DOMAIN orders : orders[k].type = LIMIT} |-> Slot(orders[j])]
      /\ RestingOrders' = [j \in {k \in DOMAIN orders' : orders'[k].type = LIMIT} |-> Slot(orders'[j])]
  BY DEF RestingOrders, IsAsk
<1>3. Slot(o) = [market |-> o.market, ask |-> IsAsk(o), price |-> o.price, left |-> o.left]
  OBVIOUS
<1> HIDE DEF Slot, id
<1>4. CASE o.type # LIMIT
  <2>1. {k \in DOMAIN orders' : orders'[k].type = LIMIT} = {k \in DOMAIN orders : orders[k].type = LIMIT}
    BY <1>1, <1>4
  <2> QED BY <2>1, <1>1, <1>2, <1>4
<1>5. CASE o.type = LIMIT
  <2>1. {k \in DOMAIN orders' : orders'[k].type = LIMIT}
          = {k \in DOMAIN orders : orders[k].type = LIMIT} \cup {id}
    BY <1>1, <1>5
  <2> QED BY <2>1, <1>1, <1>2, <1>3, <1>5 DEF id
<1> QED BY <1>4, <1>5

\* An order that shrinks in the index shrinks in the books.
LEMMA RestingShrink ==
  ASSUME NEW i \in DOMAIN orders, NEW o, orders' = [orders EXCEPT ![i] = o],
         orders[i].type = LIMIT, o.market = orders[i].market, o.type = orders[i].type,
         o.side = orders[i].side, o.oper_type = orders[i].oper_type, o.price = orders[i].price
  PROVE  RestingOrders' = [RestingOrders EXCEPT ![i].left = o.left]
<1> DEFINE Slot(x) == [market |-> x.market, ask |-> IsAsk(x), price |-> x.price, left |-> x.left]
           limits  == {k \in DOMAIN orders : orders[k].type = LIMIT}
<1>1. /\ RestingOrders = [j \in limits |-> Slot(orders[j])]
      /\ RestingOrders' = [j \in {k \in DOMAIN orders' : orders'[k].type = LIMIT} |-> Slot(orders'[j])]
  BY DEF RestingOrders, IsAsk
<1>2. {k \in DOMAIN orders' : orders'[k].type = LIMIT} = limits /\ i \in limits
  OBVIOUS
<1>3. Slot(o) = [Slot(orders[i]) EXCEPT !.left = o.left]
  <2>1. IsAsk(o) = IsAsk(orders[i])
    BY DEF IsAsk
  <2> QED BY <2>1
<1> HIDE DEF Slot, limits
<1>4. \A j \in limits : orders'[j] = IF j = i THEN o ELSE orders[j]
  BY DEF limits
<1> QED BY <1>1, <1>2, <1>3, <1>4

\* While an order is being matched, the auction sees the list execute_order
\* walks over, in its order, and the prices it compares.
LEMMA OtherSideIsList ==
  ASSUME StateOK, BooksInv, pc = "match", taker.left # 0
  PROVE  /\ IncomingOrder = [market |-> call.market, ask |-> IsAsk(taker),
                             limit |-> taker.type = LIMIT, price |-> taker.price,
                             left |-> taker.left]
         /\ Auction!OtherSide = book[call.market][Opposite(taker)]
         /\ \A i \in Auction!OtherSide :
              /\ i \in DOMAIN RestingOrders /\ i \in DOMAIN orders
              /\ Auction!Acceptable(i) <=> PriceMatches(taker, orders[i])
              /\ \A j \in Auction!OtherSide : Auction!Better(i, j) <=> Before(i, j)
<1> DEFINE list == book[call.market][Opposite(taker)]
<1>1. /\ IncomingOrder = [market |-> call.market, ask |-> IsAsk(taker),
                          limit |-> taker.type = LIMIT, price |-> taker.price,
                          left |-> taker.left]
      /\ IncomingOrder.market = call.market /\ IncomingOrder.ask = IsAsk(taker)
      /\ IncomingOrder.limit = (taker.type = LIMIT) /\ IncomingOrder.price = taker.price
  BY DEF IncomingOrder
<1>2. /\ call.market \in Markets /\ taker.type \in {MARKET, LIMIT}
      /\ Opposite(taker) \in Lists /\ Opposite(taker) \in {"asks", "bids"}
  BY DEF StateOK, ControlOK, HandlerOK, Opposite, Lists
<1>3. ASSUME NEW i
      PROVE  i \in list <=> /\ i \in DOMAIN RestingOrders
                            /\ RestingOrders[i].market = call.market
                            /\ RestingOrders[i].ask # IsAsk(taker)
  <2>1. ASSUME i \in DOMAIN orders
        PROVE  /\ orders[i] \in OrderRec /\ orders[i].market \in Markets
               /\ orders[i].type = LIMIT => (PutList(orders[i]) = Opposite(taker)
                                               <=> IsAsk(orders[i]) # IsAsk(taker))
    <3>1. orders[i] \in OrderRec
      BY <2>1 DEF StateOK, IndexOK, OrdersType
    <3> QED BY <3>1, ListOfKind DEF Opposite, IsAsk, OrderRec
  <2>2. CASE i \in list
    <3>1. i \in DOMAIN orders /\ orders[i].market = call.market /\ PutList(orders[i]) = Opposite(taker)
      BY <2>2, <1>2 DEF BooksInv, BooksOK, IndexConsistent
    <3>2. orders[i].type = LIMIT
      BY <3>1, <2>1, <1>2, ListOfKind
    <3> QED BY <2>2, <3>1, <3>2, <2>1, RestingFacts
  <2>3. CASE i \in DOMAIN RestingOrders /\ RestingOrders[i].market = call.market
             /\ RestingOrders[i].ask # IsAsk(taker)
    <3>1. /\ i \in DOMAIN orders /\ orders[i].type = LIMIT /\ orders[i].market = call.market
          /\ IsAsk(orders[i]) # IsAsk(taker)
      BY <2>3, RestingFacts
    <3>2. i \in book[orders[i].market][PutList(orders[i])]
      BY <3>1 DEF BooksInv, BooksOK, IndexConsistent
    <3> QED BY <2>3, <3>1, <3>2, <2>1
  <2> QED BY <2>2, <2>3
<1>4. Auction!OtherSide = list
  BY <1>1, <1>3 DEF Auction!OtherSide
<1>5. ASSUME NEW i \in list
      PROVE  /\ i \in DOMAIN RestingOrders /\ i \in DOMAIN orders
             /\ RestingOrders[i].price = orders[i].price
             /\ RestingOrders[i].ask = IsAsk(orders[i])
  BY <1>3, RestingFacts
<1> HIDE DEF list
<1>6. ASSUME NEW i \in list
      PROVE  Auction!Acceptable(i) <=> PriceMatches(taker, orders[i])
  <2>1. (IncomingOrder.ask <=> IsAsk(taker)) /\ (IncomingOrder.limit <=> taker.type # MARKET)
    <3>1. IncomingOrder.ask <=> IsAsk(taker)
      BY <1>1, Zenon
    <3>2. IncomingOrder.limit <=> taker.type = LIMIT
      BY <1>1, Zenon
    <3> QED BY <3>1, <3>2, <1>2 DEF MARKET, LIMIT
  <2> QED BY <2>1, <1>1, <1>5 DEF Auction!Acceptable, PriceMatches
<1>7. ASSUME NEW i \in list, NEW j \in list
      PROVE  Auction!Better(i, j) <=> Before(i, j)
  BY <1>5 DEF Auction!Better, Before
<1> QED BY <1>1, <1>4, <1>5, <1>6, <1>7 DEF list

Bookkeeping == UNCHANGED <<RestingOrders, IncomingOrder, latestPrice>>

LEMMA NothingIncoming ==
  /\ pc \notin {"match", "crash"} \/ taker = NoOrder => IncomingOrder = NoOrder
  /\ Auction!NoIncoming = NoOrder
  BY DEF IncomingOrder, NoOrder, Auction!NoIncoming

\* Outside execute_order an order arrives, is withdrawn, or nothing happens.
LEMMA StartsIsArrival ==
  ASSUME BooksInv, Starts PROVE Auction!Arrive \/ Bookkeeping
<1>1. IncomingOrder = NoOrder /\ Auction!NoIncoming = NoOrder
  BY NothingIncoming DEF Starts, Between
<1>2. RestingOrders' = RestingOrders /\ latestPrice' = latestPrice /\ pc' = "match"
  BY RestingFrame DEF Starts
<1>3. CASE taker'.left = 0
  BY <1>1, <1>2, <1>3 DEF IncomingOrder, Bookkeeping
<1>4. CASE taker'.left # 0
  <2>1. IncomingOrder'.left = taker'.left
    BY <1>2, <1>4 DEF IncomingOrder
  <2>2. IncomingOrder' # NoOrder
    BY <2>1, <1>4 DEF NoOrder
  <2> QED BY <2>1, <2>2, <1>1, <1>2, <1>4 DEF Auction!Arrive
<1> QED BY <1>3, <1>4

LEMMA OutsideIsWithdrawal ==
  ASSUME StateOK, BooksInv, Files \/ Finishes \/ Rests \/ Returns
  PROVE  Auction!Withdraw \/ Bookkeeping
<1>1. IncomingOrder = NoOrder /\ Auction!NoIncoming = NoOrder
  BY NothingIncoming DEF Files, Finishes, Rests, Returns, Between
<1>2. IncomingOrder' = NoOrder
  <2>1. pc' \notin {"match", "crash"} \/ taker' = NoOrder
    BY DEF Files, Finishes, Rests, Returns, Between, BooksInv, TakerOK
  <2> QED BY <2>1 DEF IncomingOrder, NoOrder
<1>3. latestPrice' = latestPrice
  BY DEF Files, Finishes, Rests, Returns
<1>4. CASE RestingOrders' = RestingOrders
  BY <1>1, <1>2, <1>3, <1>4 DEF Bookkeeping
<1>5. ASSUME NEW i \in DOMAIN orders, order_finish_future(i)
      PROVE  Auction!Withdraw \/ Bookkeeping
  <2>1. CASE orders[i].type # LIMIT
    BY <2>1, <1>4, <1>5, RestingFinish
  <2>2. CASE orders[i].type = LIMIT
    <3>1. RestingOrders' = [j \in DOMAIN RestingOrders \ {i} |-> RestingOrders[j]]
      BY <2>2, <1>5, RestingFinish
    <3>2. i \in DOMAIN RestingOrders
      BY <2>2, RestingFacts
    <3> QED BY <3>1, <3>2, <1>1, <1>2, <1>3 DEF Auction!Withdraw
  <2> QED BY <2>1, <2>2
<1>6. CASE Files
  <2>1. PICK m \in Markets, o \in OrderRec : o.type = PLAN /\ order_put_future(m, o)
    BY <1>6 DEF Files
  <2>2. RestingOrders' = RestingOrders
    BY <2>1, RestingPut DEF StateOK, PLAN, LIMIT
  <2> QED BY <2>2, <1>4
<1>7. CASE Finishes
  BY <1>5, <1>7 DEF Finishes
<1>8. CASE Rests
  BY <1>4, <1>8, RestingFrame DEF Rests
<1>9. CASE Returns
  BY <1>4, <1>5, <1>9, RestingFrame DEF Returns
<1> QED BY <1>6, <1>7, <1>8, <1>9

\* What is left of an order nobody accepts rests or vanishes.
LEMMA NothingMatchesUnmatched ==
  ASSUME StateOK, BooksInv, NothingToMatch, taker.left # 0 PROVE Auction!Unmatched
<1>1. /\ pc = "match"
      /\ \A i \in book[call.market][Opposite(taker)] : ~PriceMatches(taker, orders[i])
  BY DEF NothingToMatch
<1>2. /\ IncomingOrder.left = taker.left
      /\ \A i \in Auction!OtherSide : ~Auction!Acceptable(i)
  BY <1>1, OtherSideIsList
<1>3. IncomingOrder # Auction!NoIncoming
  BY <1>2, NothingIncoming DEF NoOrder
<1> QED BY <1>2, <1>3 DEF Auction!Unmatched

LEMMA RestTakerRests == ASSUME StateOK, BooksInv, RestTaker PROVE Auction!Rest
<1> DEFINE id == order_id_start + 1
<1>1. /\ NothingToMatch /\ pc = "match" /\ pc' = "return"
      /\ taker.type = LIMIT /\ taker.market = call.market /\ taker.left # 0
      /\ order_put_future(call.market, taker) /\ latestPrice' = latestPrice
  BY DEF RestTaker, NothingToMatch, StateOK, ControlOK, HandlerOK, BooksInv, TakerOK
<1>2. Auction!Unmatched
  BY <1>1, NothingMatchesUnmatched
<1>3. IncomingOrder = [market |-> call.market, ask |-> IsAsk(taker), limit |-> taker.type = LIMIT,
                       price |-> taker.price, left |-> taker.left]
  BY <1>1, OtherSideIsList
<1>4. IncomingOrder.limit
  <2>1. IncomingOrder.limit = (taker.type = LIMIT)
    BY <1>3
  <2> QED BY <2>1, <1>1, Zenon
<1>5. Auction!Slot(IncomingOrder) = [market |-> taker.market, ask |-> IsAsk(taker),
                                     price |-> taker.price, left |-> taker.left]
  BY <1>1, <1>3 DEF Auction!Slot
<1>6. RestingOrders' = [j \in DOMAIN RestingOrders \cup {id} |->
                          IF j = id THEN Auction!Slot(IncomingOrder) ELSE RestingOrders[j]]
  BY <1>1, <1>5, RestingPut DEF StateOK
<1>7. \A j \in DOMAIN RestingOrders : j < id
  BY RestingFacts DEF StateOK, IndexOK, OrdersType
<1>8. IncomingOrder' = NoOrder
  BY <1>1 DEF IncomingOrder
<1>9. id \in DOMAIN RestingOrders'
  BY <1>6
<1> HIDE DEF id
<1> QED BY <1>1, <1>2, <1>4, <1>6, <1>7, <1>8, <1>9, NothingIncoming DEF Auction!Rest

LEMMA DropTakerVanishes ==
  ASSUME StateOK, BooksInv, DropTaker PROVE Auction!Vanish \/ Bookkeeping
<1>1. /\ NothingToMatch /\ pc = "match" /\ taker.type = MARKET /\ pc' \in {"return", "crash"}
      /\ taker' = taker /\ call' = call /\ latestPrice' = latestPrice
      /\ RestingOrders' = RestingOrders
  BY RestingFrame DEF DropTaker, NothingToMatch
<1>2. CASE taker.left = 0
  BY <1>1, <1>2 DEF IncomingOrder, Bookkeeping
<1>3. CASE taker.left # 0 /\ pc' = "crash"
  BY <1>1, <1>3 DEF IncomingOrder, IsAsk, Bookkeeping
<1>4. CASE taker.left # 0 /\ pc' = "return"
  <2>1. Auction!Unmatched
    BY <1>1, <1>4, NothingMatchesUnmatched
  <2>2. ~IncomingOrder.limit
    <3>1. IncomingOrder.limit = (taker.type = LIMIT)
      BY <1>1, <1>4, OtherSideIsList
    <3>2. taker.type # LIMIT
      BY <1>1 DEF MARKET, LIMIT
    <3> QED BY <3>1, <3>2, Zenon
  <2>3. IncomingOrder' = NoOrder
    BY <1>4 DEF IncomingOrder
  <2> QED BY <2>1, <2>2, <2>3, <1>1, NothingIncoming DEF Auction!Vanish
<1> QED BY <1>1, <1>2, <1>3, <1>4

\* A deal is a trade with the best offer.
LEMMA MatchIsTrade ==
  ASSUME StateOK, BooksInv, MatchStep
  PROVE  \E i \in DOMAIN RestingOrders : Auction!Trade(i)
<1> DEFINE list == book[call.market][Opposite(taker)]
           Amount(i) == IF taker.left < orders[i].left THEN taker.left ELSE orders[i].left
<1>1. pc = "match" /\ taker.left # 0
  BY DEF MatchStep
<1>2. PICK i \in list :
        LET maker == orders[i]
            rest  == adjustOrder(maker, Amount(i))
        IN  /\ i \in DOMAIN orders /\ maker \in OrderRec /\ taker \in OrderRec
            /\ maker.type = LIMIT /\ maker.market = call.market
            /\ \A j \in list \ {i} : Before(i, j)
            /\ PriceMatches(taker, maker) /\ Deal(i)
            /\ rest \in OrderRec /\ rest.left = maker.left - Amount(i)
            /\ \A f \in {"user", "market", "type", "side", "oper_type", "price"} :
                 rest[f] = maker[f] /\ taker'[f] = taker[f]
            /\ taker'.left = taker.left - Amount(i)
  BY DealBooks
<1> DEFINE maker  == orders[i]
           amount == Amount(i)
           rest   == adjustOrder(maker, amount)
<1>3. /\ IncomingOrder = [market |-> call.market, ask |-> IsAsk(taker), limit |-> taker.type = LIMIT,
                          price |-> taker.price, left |-> taker.left]
      /\ Auction!OtherSide = list
      /\ i \in DOMAIN RestingOrders /\ Auction!Acceptable(i)
      /\ \A j \in Auction!OtherSide \ {i} : Auction!Better(i, j)
  BY <1>1, <1>2, OtherSideIsList
<1>4. /\ latestPrice' = [latestPrice EXCEPT ![call.market] = maker.price]
      /\ call' = call
      /\ IF rest.left = 0 THEN order_finish_future(i)
         ELSE orders' = [orders EXCEPT ![i] = rest] /\ UNCHANGED <<book, order_id_start>>
      /\ pc' = "crash" \/ pc' = IF taker'.left = 0 THEN "return" ELSE "match"
  BY <1>2 DEF Deal
<1>5. /\ RestingOrders[i].price = maker.price /\ RestingOrders[i].left = maker.left
  BY <1>3, RestingFacts
<1>6. maker.left \in Int /\ taker.left \in Int
  BY <1>2 DEF OrderRec
<1>7. IncomingOrder' = IF taker.left = amount THEN NoOrder
                       ELSE [IncomingOrder EXCEPT !.left = @ - amount]
  <2>1. CASE taker.left = amount
    <3>1. taker'.left = 0
      BY <2>1, <1>2, <1>6
    <3> QED BY <3>1, <2>1 DEF IncomingOrder
  <2>2. CASE taker.left # amount
    <3>1. taker'.left # 0 /\ pc' \in {"match", "crash"}
      BY <2>2, <1>2, <1>4, <1>6
    <3>2. IsAsk(taker)' = IsAsk(taker) /\ taker'.type = taker.type /\ taker'.price = taker.price
      BY <1>2 DEF IsAsk
    <3>3. IncomingOrder' = [market |-> call.market, ask |-> IsAsk(taker), limit |-> taker.type = LIMIT,
                            price |-> taker.price, left |-> taker.left - amount]
      BY <3>1, <3>2, <1>2, <1>4 DEF IncomingOrder
    <3> QED BY <3>3, <2>2, <1>3
  <2> QED BY <2>1, <2>2
<1>8. RestingOrders' = IF maker.left = amount
                       THEN [j \in DOMAIN RestingOrders \ {i} |-> RestingOrders[j]]
                       ELSE [RestingOrders EXCEPT ![i].left = @ - amount]
  <2>1. CASE maker.left = amount
    <3>1. order_finish_future(i)
      BY <2>1, <1>2, <1>4, <1>6
    <3> QED BY <3>1, <2>1, <1>2, RestingFinish
  <2>2. CASE maker.left # amount
    <3>1. orders' = [orders EXCEPT ![i] = rest]
      BY <2>2, <1>2, <1>4, <1>6
    <3>2. /\ rest.market = maker.market /\ rest.type = maker.type /\ rest.side = maker.side
          /\ rest.oper_type = maker.oper_type /\ rest.price = maker.price
      BY <1>2
    <3> HIDE DEF rest
    <3>3. RestingOrders' = [RestingOrders EXCEPT ![i].left = rest.left]
      BY <3>1, <3>2, <1>2, RestingShrink
    <3>4. rest.left = RestingOrders[i].left - amount
      BY <1>2, <1>5 DEF rest
    <3> HIDE DEF amount
    <3> QED BY <3>3, <3>4, <2>2
  <2> QED BY <2>1, <2>2
<1>9. amount = IF IncomingOrder.left < RestingOrders[i].left THEN IncomingOrder.left
                                                             ELSE RestingOrders[i].left
  BY <1>3, <1>5
<1>10. IncomingOrder # NoOrder /\ IncomingOrder.left = taker.left /\ IncomingOrder.market = call.market
  BY <1>1, <1>3 DEF NoOrder
<1> HIDE DEF amount, maker, rest, list
<1>11. Auction!Trade(i)
  BY <1>2, <1>3, <1>4, <1>5, <1>7, <1>8, <1>9, <1>10, NothingIncoming DEF Auction!Trade
<1> QED BY <1>3, <1>11

LEMMA AuctionStep ==
  ASSUME StateOK, BooksInv, BookStep PROVE [Auction!ANext]_(Auction!abstractVars)
<1>1. ASSUME Bookkeeping PROVE UNCHANGED Auction!abstractVars
  BY <1>1 DEF Bookkeeping, Auction!abstractVars
<1>2. CASE UNCHANGED vars
  <2>1. UNCHANGED index /\ UNCHANGED <<pc, taker, call, latestPrice>>
    BY <1>2 DEF vars, index
  <2>2. RestingOrders' = RestingOrders
    BY <2>1, RestingFrame
  <2>3. IncomingOrder' = IncomingOrder
    BY <2>1 DEF IncomingOrder, IsAsk
  <2> QED BY <2>1, <2>2, <2>3, <1>1 DEF Bookkeeping
<1> QED BY <1>1, <1>2, StartsIsArrival, OutsideIsWithdrawal, RestTakerRests, DropTakerVanishes,
           MatchIsTrade DEF BookStep, Auction!ANext

LEMMA AuctionInit == Init => Auction!AInit
<1> SUFFICES ASSUME Init PROVE Auction!AInit
  OBVIOUS
<1>1. orders = [i \in {} |-> 0] /\ taker = NoOrder /\ latestPrice = [m \in Markets |-> 0]
  BY DEF Init
<1>2. RestingOrders = [i \in {} |-> 0]
  <2>1. {j \in DOMAIN orders : orders[j].type = LIMIT} = {}
    BY <1>1
  <2> QED BY <2>1 DEF RestingOrders
<1> QED BY <1>1, <1>2, NothingIncoming DEF Auction!AInit

\* Without take-profit / stop-loss orders the engine implements the price-time
\* priority auction: whatever is going on in a handler, an order arrives alone,
\* trades with the best offers at their prices as long as one is acceptable,
\* and rests or vanishes; nothing else touches the books but a cancellation.
THEOREM EngineIsAuction == ASSUME TPSL \notin CloseTypes PROVE Spec => IsAuction
<1>1. Init => Auction!AInit
  BY AuctionInit
<1>2. StateOK /\ IterOK /\ BooksInv /\ [Next]_vars => [Auction!ANext]_(Auction!abstractVars)
  BY NextBooks, AuctionStep DEF NoTpsl
<1>3. Spec => [](StateOK /\ IterOK /\ BooksInv)
  BY BooksInvariant DEF NoTpsl
<1> QED BY <1>1, <1>2, <1>3, PTL DEF Spec, IsAuction, Auction!ASpec

------------------------------------------------------------------------------
(* Contracts and money: sums over the tables of orders and positions.       *)
(*                                                                          *)
(* This is about an engine that gets no close orders with a trigger: a plan *)
(* order sets its contracts aside when it is released, held or not, and a   *)
(* position may go below zero.  The second half is about the money of the   *)
(* orders.                                                                  *)

\* What a table of orders sells of a position.
CloseIn(os, k)  == {i \in DOMAIN os : /\ KeyOf(os[i]) = k
                                      /\ os[i].type = LIMIT
                                      /\ os[i].oper_type = CLOSE}
LeftIn(os)      == [i \in DOMAIN os |-> os[i].left]
ClaimsIn(os, k) == SumFunctionOnSet(LeftIn(os), CloseIn(os, k))

\* What one order of the table sells of it.
Claim(os, i, k) == IF i \in CloseIn(os, k) THEN os[i].left ELSE 0

FrozenIn(ps, k) == IF k \in DOMAIN ps THEN ps[k].frozen ELSE 0
HeldIn(ps, k)   == IF k \in DOMAIN ps THEN Total(ps[k]) ELSE 0

HoldingsIn(ps) == /\ IsFiniteSet(DOMAIN ps)
                  /\ \A k \in DOMAIN ps : ps[k].position >= 0 /\ Total(ps[k]) > 0

\* No position is short of contracts, and what is frozen of it, if there is
\* one, is what the orders have to sell.
FrozenOK ==
  /\ HoldingsIn(positions)
  /\ \A k \in Keys : FrozenIn(positions, k) = ClaimsIn(orders, k) + TakerLeft(k)

\* Orders have something left, and only limit orders close.
LeftsOK ==
  /\ \A i \in DOMAIN orders : /\ orders[i].left > 0
                              /\ orders[i].oper_type = CLOSE => orders[i].type = LIMIT
  /\ pc = "match" => taker.left > 0

\* While a cross user's positions are closed nobody sells of the victim's.
InCross == pc = "cross" \/ (pc \in {"match", "return"} /\ call.by = "cross")

CrossOK ==
  InCross => /\ \A i \in DOMAIN orders :
                  orders[i].oper_type = CLOSE => KeyOf(orders[i]) # victim.key
             /\ pc = "match" => taker.type = MARKET

\* The iterator of the planner stands on live orders, and not on the one whose
\* copy is being executed.
ScanOK ==
  InPlanner => /\ scan.todo \subseteq DOMAIN orders
               /\ pc # "plan" => call.old \notin scan.todo

HoldingsInv == FrozenOK /\ LeftsOK /\ CrossOK /\ ScanOK

\* Close orders have no trigger.
NoTriggers == CloseTypes \subseteq {MARKET, LIMIT}
------------------------------------------------------------------------------
(* What the orders sell                                                     *)

TableOf(os) == /\ IsFiniteSet(DOMAIN os)
               /\ \A i \in DOMAIN os : os[i] \in OrderRec /\ os[i].left > 0

LEMMA OrdersFinite == ASSUME IndexOK, LeftsOK PROVE TableOf(orders)
<1>1. order_id_start \in Nat /\ DOMAIN orders \subseteq 1..order_id_start
  BY DEF IndexOK, OrdersType
<1>2. IsFiniteSet(DOMAIN orders)
  <2>1. IsFiniteSet(1..order_id_start)
    BY <1>1, FS_Interval
  <2> QED BY <1>1, <2>1, FS_Subset
<1> QED BY <1>2 DEF IndexOK, OrdersType, LeftsOK, TableOf

LEMMA ClaimsFacts ==
  ASSUME NEW os, TableOf(os), NEW k
  PROVE  /\ CloseIn(os, k) \subseteq DOMAIN os /\ IsFiniteSet(CloseIn(os, k))
         /\ \A i \in CloseIn(os, k) : /\ LeftIn(os)[i] = os[i].left
                                      /\ os[i].left \in Int /\ LeftIn(os)[i] \in Nat
         /\ ClaimsIn(os, k) \in Nat
         /\ \A i \in CloseIn(os, k) : os[i].left <= ClaimsIn(os, k)
         /\ ClaimsIn(os, k) = 0 <=> CloseIn(os, k) = {}
<1>1. CloseIn(os, k) \subseteq DOMAIN os /\ IsFiniteSet(CloseIn(os, k))
  <2>1. CloseIn(os, k) \subseteq DOMAIN os
    BY DEF CloseIn
  <2> QED BY <2>1, FS_Subset DEF TableOf
<1>2. \A i \in CloseIn(os, k) : /\ LeftIn(os)[i] = os[i].left /\ os[i].left > 0
                                /\ os[i].left \in Int /\ LeftIn(os)[i] \in Nat
  BY <1>1 DEF LeftIn, TableOf, OrderRec
<1>3. /\ ClaimsIn(os, k) \in Nat
      /\ \A i \in CloseIn(os, k) : LeftIn(os)[i] <= ClaimsIn(os, k)
  BY <1>1, <1>2, SumOfNat DEF ClaimsIn
<1>4. CloseIn(os, k) = {} => ClaimsIn(os, k) = 0
  BY SumOfNone DEF ClaimsIn
<1>5. ClaimsIn(os, k) = 0 => CloseIn(os, k) = {}
  <2> SUFFICES ASSUME ClaimsIn(os, k) = 0, NEW i \in CloseIn(os, k) PROVE FALSE
    OBVIOUS
  <2> QED BY <1>2, <1>3
<1> QED BY <1>1, <1>2, <1>3, <1>4, <1>5

\* One order comes, goes or changes.
LEMMA ClaimsUpdate ==
  ASSUME NEW os, NEW os2, TableOf(os), TableOf(os2), NEW i,
         DOMAIN os \ {i} = DOMAIN os2 \ {i}, \A j \in DOMAIN os \ {i} : os2[j] = os[j], NEW k
  PROVE  /\ ClaimsIn(os2, k) = ClaimsIn(os, k) - Claim(os, i, k) + Claim(os2, i, k)
         /\ ClaimsIn(os, k) \in Nat /\ ClaimsIn(os2, k) \in Nat
         /\ Claim(os, i, k) \in Nat /\ Claim(os2, i, k) \in Nat
         /\ Claim(os, i, k) <= ClaimsIn(os, k)
<1> DEFINE S == CloseIn(os, k)  T == CloseIn(os2, k)
           f == LeftIn(os)      g == LeftIn(os2)
<1>1. S \ {i} = T \ {i}
  BY DEF CloseIn
<1>2. /\ IsFiniteSet(S) /\ \A j \in S : f[j] \in Nat /\ f[j] = os[j].left
      /\ IsFiniteSet(T) /\ \A j \in T : g[j] \in Nat /\ g[j] = os2[j].left
  BY ClaimsFacts
<1>3. \A j \in S \ {i} : g[j] = f[j]
  BY DEF LeftIn, CloseIn
<1>4. /\ IsFiniteSet(S) /\ \A j \in S : f[j] \in Int
      /\ IsFiniteSet(T) /\ \A j \in T : g[j] \in Int
  BY <1>2
<1> HIDE DEF S, T, f, g
<1>5. SumFunctionOnSet(g, T) = SumFunctionOnSet(f, S)
        - (IF i \in S THEN f[i] ELSE 0) + (IF i \in T THEN g[i] ELSE 0)
  BY <1>1, <1>3, <1>4, SumUpdate
<1>6. /\ (IF i \in S THEN f[i] ELSE 0) = Claim(os, i, k)
      /\ (IF i \in T THEN g[i] ELSE 0) = Claim(os2, i, k)
  BY <1>2 DEF Claim, S, T
<1>7. /\ ClaimsIn(os, k) = SumFunctionOnSet(f, S) /\ ClaimsIn(os, k) \in Nat
      /\ ClaimsIn(os2, k) = SumFunctionOnSet(g, T) /\ ClaimsIn(os2, k) \in Nat
  BY ClaimsFacts DEF ClaimsIn, S, T, f, g
<1>8. Claim(os, i, k) \in Nat /\ Claim(os2, i, k) \in Nat /\ Claim(os, i, k) <= ClaimsIn(os, k)
  BY ClaimsFacts DEF Claim
<1> QED BY <1>5, <1>6, <1>7, <1>8
------------------------------------------------------------------------------
(* What the positions hold                                                  *)

\* Setting contracts aside, or giving them back, keeps their number.
LEMMA FreezeHoldings ==
  ASSUME NEW ps, PositionsType(ps), HoldingsIn(ps), NEW k \in DOMAIN ps, NEW amount \in Int,
         amount <= ps[k].position
  PROVE  LET ps2 == [ps EXCEPT ![k] = FreezePosition(@, amount)]
         IN  /\ HoldingsIn(ps2)
             /\ \A j \in Keys : /\ HeldIn(ps2, j) = HeldIn(ps, j)
                                /\ FrozenIn(ps2, j) = FrozenIn(ps, j) + IF j = k THEN amount ELSE 0
<1> DEFINE p == ps[k]  q == FreezePosition(p, amount)
           ps2 == [ps EXCEPT ![k] = FreezePosition(@, amount)]
<1>1. p.position \in Int /\ p.frozen \in Int
  BY DEF PositionsType, PositionRec
<1>2. p \in PositionRec
  BY DEF PositionsType
<1>3. q.position = p.position - amount /\ q.frozen = p.frozen + amount
  BY <1>2 DEF FreezePosition, PositionRec
<1> HIDE DEF q
<1>4. ps2 = [ps EXCEPT ![k] = q]
  BY DEF q
<1>5. DOMAIN ps2 = DOMAIN ps /\ ps2[k] = q /\ \A j \in DOMAIN ps : j # k => ps2[j] = ps[j]
  BY <1>4
<1>6. Total(q) = Total(p)
  BY <1>1, <1>3 DEF Total
<1> HIDE DEF ps2
<1>7. \A j \in DOMAIN ps : ps[j].frozen \in Int
  BY DEF PositionsType, PositionRec
<1>8. HoldingsIn(ps2)
  BY <1>1, <1>3, <1>5, <1>6 DEF HoldingsIn
<1>9. \A j \in Keys : /\ HeldIn(ps2, j) = HeldIn(ps, j)
                      /\ FrozenIn(ps2, j) = FrozenIn(ps, j) + IF j = k THEN amount ELSE 0
  BY <1>1, <1>3, <1>5, <1>6, <1>7 DEF HeldIn, FrozenIn
<1> QED BY <1>8, <1>9 DEF ps2

\* What a deal does to the position of one of its orders: an open order adds
\* its contracts, a close order takes them out of the frozen ones.
LEMMA AdjustHoldings ==
  ASSUME NEW ps, PositionsType(ps), HoldingsIn(ps), NEW k \in Keys, NEW o \in OrderRec,
         NEW amount \in Int, amount > 0, NEW price, NEW fee,
         o.oper_type = CLOSE => amount <= FrozenIn(ps, k)
  PROVE  LET ps2 == adjustPosition(ps, k, o, amount, price, fee)
             opens == o.oper_type = OPEN
         IN  /\ HoldingsIn(ps2)
             /\ DOMAIN ps \ {k} = DOMAIN ps2 \ {k}
             /\ \A j \in DOMAIN ps \ {k} : ps2[j] = ps[j]
             /\ HeldIn(ps2, k) = HeldIn(ps, k) + IF opens THEN amount ELSE -amount
             /\ FrozenIn(ps2, k) = FrozenIn(ps, k) - IF opens THEN 0 ELSE amount
<1> DEFINE new == IF k \notin DOMAIN ps
                  THEN NewPosition(o.pattern, o.leverage, amount, price, fee)
                  ELSE IF o.oper_type = OPEN
                       THEN OpenInto(ps[k], amount, price, Margin(amount, o.leverage), fee)
                       ELSE CloseFrom(ps[k], amount)
           ps2 == adjustPosition(ps, k, o, amount, price, fee)
<1>1. ps2 = StorePosition(ps, k, new)
  BY DEF adjustPosition
<1>2. o.oper_type \in {OPEN, CLOSE} /\ OPEN # CLOSE
  BY DEF OrderRec, OPEN, CLOSE
<1>3. ASSUME k \in DOMAIN ps
      PROVE  /\ ps[k] \in PositionRec /\ ps[k].position \in Int /\ ps[k].frozen \in Int
             /\ ps[k].position >= 0 /\ ps[k].position + ps[k].frozen > 0
  BY <1>3 DEF PositionsType, PositionRec, HoldingsIn, Total
<1>4. /\ new.position \in Int /\ new.frozen \in Int /\ new.position >= 0
      /\ new.frozen = FrozenIn(ps, k) - IF o.oper_type = OPEN THEN 0 ELSE amount
      /\ new.position + new.frozen = HeldIn(ps, k) + IF o.oper_type = OPEN THEN amount ELSE -amount
      /\ new.frozen >= 0 \/ o.oper_type = OPEN
      /\ o.oper_type = OPEN => new.position + new.frozen > 0
  <2>1. CASE k \notin DOMAIN ps
    <3>1. FrozenIn(ps, k) = 0 /\ HeldIn(ps, k) = 0
      BY <2>1 DEF FrozenIn, HeldIn
    <3>2. o.oper_type = OPEN
      BY <1>2, <3>1
    <3>3. new.position = amount /\ new.frozen = 0
      BY <2>1 DEF NewPosition
    <3> QED BY <3>1, <3>2, <3>3
  <2>2. CASE k \in DOMAIN ps /\ o.oper_type = OPEN
    <3>1. FrozenIn(ps, k) = ps[k].frozen /\ HeldIn(ps, k) = ps[k].position + ps[k].frozen
      BY <2>2 DEF FrozenIn, HeldIn, Total
    <3>2. new.position = ps[k].position + amount /\ new.frozen = ps[k].frozen
      BY <2>2, <1>3 DEF OpenInto, PositionRec
    <3> HIDE DEF new
    <3> QED BY <3>1, <3>2, <2>2, <1>3
  <2>3. CASE k \in DOMAIN ps /\ o.oper_type = CLOSE
    <3>1. FrozenIn(ps, k) = ps[k].frozen /\ HeldIn(ps, k) = ps[k].position + ps[k].frozen
      BY <2>3 DEF FrozenIn, HeldIn, Total
    <3>2. new = CloseFrom(ps[k], amount) /\ o.oper_type # OPEN
      BY <2>3, <1>2
    <3> HIDE DEF new
    <3>3. IF ps[k].position + ps[k].frozen = amount
          THEN new.position = 0 /\ new.frozen = 0
          ELSE new.position = ps[k].position /\ new.frozen = ps[k].frozen - amount
      BY <3>2, <2>3, <1>3 DEF CloseFrom, Total, PositionRec
    <3> QED BY <3>1, <3>2, <3>3, <2>3, <1>2, <1>3
  <2> QED BY <2>1, <2>2, <2>3, <1>2
<1> HIDE DEF new
<1>5. IF new.position = 0 /\ new.frozen = 0
      THEN DOMAIN ps2 = DOMAIN ps \ {k} /\ k \notin DOMAIN ps2
      ELSE DOMAIN ps2 = DOMAIN ps \cup {k} /\ ps2[k] = new
  BY <1>1 DEF StorePosition, WithEntry, WithoutEntry
<1>6. DOMAIN ps \ {k} = DOMAIN ps2 \ {k} /\ \A j \in DOMAIN ps \ {k} : ps2[j] = ps[j]
  BY <1>1 DEF StorePosition, WithEntry, WithoutEntry
<1> HIDE DEF ps2
<1>7. IsFiniteSet(DOMAIN ps2)
  BY <1>5, FS_AddElement, FS_RemoveElement DEF HoldingsIn
<1>8. k \in DOMAIN ps2 => new.position + new.frozen > 0
  BY <1>2, <1>4, <1>5
<1>9. HoldingsIn(ps2)
  BY <1>4, <1>5, <1>6, <1>7, <1>8 DEF HoldingsIn, Total
<1>10. /\ HeldIn(ps2, k) = new.position + new.frozen /\ FrozenIn(ps2, k) = new.frozen
  BY <1>4, <1>5 DEF HeldIn, FrozenIn, Total
<1> QED BY <1>4, <1>6, <1>9, <1>10 DEF ps2
------------------------------------------------------------------------------
(* The kinds of steps, as the holdings see them                             *)

SameHoldings(ps, ps2) ==
  /\ DOMAIN ps2 = DOMAIN ps
  /\ \A k \in DOMAIN ps : ps2[k].position = ps[k].position /\ ps2[k].frozen = ps[k].frozen

\* Nothing is promised and nothing given back.
Moves ==
  /\ pc # "match" /\ pc' # "match"
  /\ SameHoldings(positions, positions')
  /\ \/ UNCHANGED index
     \/ \E m \in Markets, o \in OrderRec :
          o.market = m /\ o.oper_type = OPEN /\ o.left > 0 /\ order_put_future(m, o)
     \/ \E i \in DOMAIN orders :
          (orders[i].type # LIMIT \/ orders[i].oper_type = OPEN) /\ order_finish_future(i)

\* execute_order starts for an open order ...
Opens ==
  /\ pc # "match" /\ pc' = "match"
  /\ UNCHANGED <<positions, index>>
  /\ taker' \in OrderRec /\ taker'.oper_type = OPEN /\ taker'.left > 0

\* ... or a close order, whose contracts were set aside.
Promises ==
  /\ pc # "match" /\ pc' = "match"
  /\ UNCHANGED index
  /\ taker' \in OrderRec /\ taker'.oper_type = CLOSE /\ taker'.left > 0
  /\ \E k \in DOMAIN positions, amount \in Int :
       /\ KeyOf(taker') = k /\ taker'.left = amount /\ amount <= positions[k].position
       /\ positions' = [positions EXCEPT ![k] = FreezePosition(@, amount)]

\* A close order is cancelled.
GivesBack ==
  /\ pc # "match" /\ pc' # "match"
  /\ \E i \in DOMAIN orders :
       /\ orders[i].type = LIMIT /\ orders[i].oper_type = CLOSE
       /\ order_finish_future(i)
       /\ KeyOf(orders[i]) \in DOMAIN positions
       /\ positions' = [positions EXCEPT ![KeyOf(orders[i])] =
                           FreezePosition(@, -orders[i].left)]

HoldStep == \/ Moves \/ Opens \/ Promises \/ GivesBack
            \/ MatchStep \/ RestTaker \/ DropTaker \/ UNCHANGED vars

LEMMA TakerLeftFacts ==
  ASSUME NEW k
  PROVE  /\ pc # "match" => TakerLeft(k) = 0
         /\ pc = "match" =>
              TakerLeft(k) = IF KeyOf(taker) = k /\ taker.oper_type = CLOSE THEN taker.left ELSE 0
         /\ pc' # "match" => TakerLeft(k)' = 0
         /\ pc' = "match" =>
              TakerLeft(k)' = IF KeyOf(taker') = k /\ taker'.oper_type = CLOSE
                              THEN taker'.left ELSE 0
  BY DEF TakerLeft, KeyOf

LEMMA TakerLeftType ==
  ASSUME StateOK, LeftsOK, NEW k PROVE TakerLeft(k) \in Nat
<1>1. CASE pc = "match"
  <2>1. taker.left \in Nat
    BY <1>1 DEF StateOK, ControlOK, LeftsOK, OrderRec
  <2> QED BY <2>1, TakerLeftFacts
<1>2. CASE pc # "match"
  BY <1>2, TakerLeftFacts
<1> QED BY <1>1, <1>2

\* The orders a step leaves have something left, and only limit orders close.
OrdersLeft(os) == \A i \in DOMAIN os : /\ os[i].left > 0
                                       /\ os[i].oper_type = CLOSE => os[i].type = LIMIT

LEMMA TableIs ==
  ASSUME IndexOK', OrdersLeft(orders') PROVE TableOf(orders')
<1>1. order_id_start' \in Nat /\ DOMAIN orders' \subseteq 1..order_id_start'
  BY DEF IndexOK, OrdersType
<1>2. IsFiniteSet(DOMAIN orders')
  <2>1. IsFiniteSet(1..order_id_start')
    BY <1>1, FS_Interval
  <2> QED BY <1>1, <2>1, FS_Subset
<1> QED BY <1>2 DEF IndexOK, OrdersType, OrdersLeft, TableOf

\* An order is filed.
LEMMA PutClaims ==
  ASSUME StateOK, IndexOK', LeftsOK, NEW m, NEW o \in OrderRec, order_put_future(m, o),
         o.left > 0, o.oper_type = CLOSE => o.type = LIMIT
  PROVE  /\ OrdersLeft(orders')
         /\ \A i \in DOMAIN orders' : i \in DOMAIN orders \/ orders'[i] = o
         /\ \A i \in DOMAIN orders : i \in DOMAIN orders' /\ orders'[i] = orders[i]
         /\ \A k : ClaimsIn(orders', k) = ClaimsIn(orders, k)
                     + IF KeyOf(o) = k /\ o.oper_type = CLOSE THEN o.left ELSE 0
<1> DEFINE id == order_id_start + 1
<1>1. /\ DOMAIN orders' = DOMAIN orders \cup {id} /\ orders'[id] = o
      /\ \A i \in DOMAIN orders : orders'[i] = orders[i]
      /\ id \notin DOMAIN orders
  BY DEF order_put_future, WithEntry, StateOK, IndexOK, OrdersType
<1> HIDE DEF id
<1>2. OrdersLeft(orders')
  BY <1>1 DEF OrdersLeft, LeftsOK
<1>3. TableOf(orders) /\ TableOf(orders')
  BY <1>2, OrdersFinite, TableIs DEF StateOK
<1>4. ASSUME NEW k
      PROVE  ClaimsIn(orders', k) = ClaimsIn(orders, k)
               + IF KeyOf(o) = k /\ o.oper_type = CLOSE THEN o.left ELSE 0
  <2>1. Claim(orders, id, k) = 0
    BY <1>1 DEF Claim, CloseIn
  <2>2. Claim(orders', id, k) = IF KeyOf(o) = k /\ o.oper_type = CLOSE THEN o.left ELSE 0
    BY <1>1 DEF Claim, CloseIn
  <2>3. /\ ClaimsIn(orders', k) = ClaimsIn(orders, k) - Claim(orders, id, k) + Claim(orders', id, k)
        /\ ClaimsIn(orders, k) \in Nat /\ Claim(orders', id, k) \in Nat
    BY <1>1, <1>3, ClaimsUpdate
  <2> QED BY <2>1, <2>2, <2>3
<1> QED BY <1>1, <1>2, <1>4

\* An order leaves the index.
LEMMA FinishClaims ==
  ASSUME StateOK, IndexOK', LeftsOK, NEW i \in DOMAIN orders, order_finish_future(i)
  PROVE  /\ OrdersLeft(orders')
         /\ DOMAIN orders' = DOMAIN orders \ {i}
         /\ \A j \in DOMAIN orders' : orders'[j] = orders[j]
         /\ \A k : ClaimsIn(orders', k) = ClaimsIn(orders, k) - Claim(orders, i, k)
<1>1. /\ DOMAIN orders' = DOMAIN orders \ {i}
      /\ \A j \in DOMAIN orders' : orders'[j] = orders[j]
  BY DEF order_finish_future, WithoutEntry
<1>2. OrdersLeft(orders')
  BY <1>1 DEF OrdersLeft, LeftsOK
<1>3. TableOf(orders) /\ TableOf(orders')
  BY <1>2, OrdersFinite, TableIs DEF StateOK
<1>4. ASSUME NEW k
      PROVE  ClaimsIn(orders', k) = ClaimsIn(orders, k) - Claim(orders, i, k)
  <2>1. Claim(orders', i, k) = 0
    BY <1>1 DEF Claim, CloseIn
  <2>2. /\ ClaimsIn(orders', k) = ClaimsIn(orders, k) - Claim(orders, i, k) + Claim(orders', i, k)
        /\ ClaimsIn(orders, k) \in Nat /\ Claim(orders, i, k) \in Nat
    BY <1>1, <1>3, ClaimsUpdate
  <2> QED BY <2>1, <2>2
<1> QED BY <1>1, <1>2, <1>4

LEMMA ClaimsChange ==
  ASSUME NEW os, NEW os2, TableOf(os), TableOf(os2), NEW i \in DOMAIN os,
         DOMAIN os2 = DOMAIN os, \A j \in DOMAIN os \ {i} : os2[j] = os[j],
         os2[i].user = os[i].user, os2[i].market = os[i].market, os2[i].side = os[i].side,
         os2[i].type = os[i].type, os2[i].oper_type = os[i].oper_type, NEW k
  PROVE  ClaimsIn(os2, k) = ClaimsIn(os, k)
           - IF i \in CloseIn(os, k) THEN os[i].left - os2[i].left ELSE 0
<1>1. i \in CloseIn(os2, k) <=> i \in CloseIn(os, k)
  BY DEF CloseIn, KeyOf
<1>2. /\ Claim(os, i, k) = IF i \in CloseIn(os, k) THEN os[i].left ELSE 0
      /\ Claim(os2, i, k) = IF i \in CloseIn(os, k) THEN os2[i].left ELSE 0
  BY <1>1 DEF Claim
<1>3. DOMAIN os \ {i} = DOMAIN os2 \ {i}
  OBVIOUS
<1>4. /\ ClaimsIn(os2, k) = ClaimsIn(os, k) - Claim(os, i, k) + Claim(os2, i, k)
      /\ ClaimsIn(os, k) \in Nat
  BY <1>3, ClaimsUpdate
<1>5. os[i].left \in Int /\ os2[i].left \in Int
  BY DEF TableOf, OrderRec
<1> QED BY <1>2, <1>4, <1>5

\* An order shrinks.
LEMMA ShrinkClaims ==
  ASSUME StateOK, IndexOK', LeftsOK, NEW i \in DOMAIN orders, NEW o \in OrderRec,
         DOMAIN orders' = DOMAIN orders, orders'[i] = o,
         \A j \in DOMAIN orders \ {i} : orders'[j] = orders[j], o.left > 0,
         o.user = orders[i].user, o.market = orders[i].market, o.side = orders[i].side,
         o.type = orders[i].type, o.oper_type = orders[i].oper_type
  PROVE  /\ OrdersLeft(orders')
         /\ \A k : ClaimsIn(orders', k) = ClaimsIn(orders, k)
                     - IF i \in CloseIn(orders, k) THEN orders[i].left - o.left ELSE 0
<1>2. OrdersLeft(orders')
  BY DEF OrdersLeft, LeftsOK
<1>3. TableOf(orders) /\ TableOf(orders')
  BY <1>2, OrdersFinite, TableIs DEF StateOK
<1>4. ASSUME NEW k
      PROVE  ClaimsIn(orders', k) = ClaimsIn(orders, k)
               - IF i \in CloseIn(orders, k) THEN orders[i].left - o.left ELSE 0
  BY <1>3, ClaimsChange
<1> QED BY <1>2, <1>4
------------------------------------------------------------------------------
(* Each kind of step keeps the books and the positions together             *)

LEMMA LeftsParts == LeftsOK <=> OrdersLeft(orders) /\ (pc = "match" => taker.left > 0)
  BY DEF LeftsOK, OrdersLeft

LEMMA LeftsAfter ==
  ASSUME OrdersLeft(orders'), pc' = "match" => taker'.left > 0 PROVE LeftsOK'
  BY DEF LeftsOK, OrdersLeft

LEMMA SameHoldingsKeep ==
  ASSUME NEW ps, NEW ps2, HoldingsIn(ps), SameHoldings(ps, ps2)
  PROVE  /\ HoldingsIn(ps2)
         /\ \A k : FrozenIn(ps2, k) = FrozenIn(ps, k) /\ HeldIn(ps2, k) = HeldIn(ps, k)
  BY DEF HoldingsIn, SameHoldings, FrozenIn, HeldIn, Total

\* What the holdings need to know of a state.
LEMMA FrozenFacts ==
  ASSUME StateOK, FrozenOK, LeftsOK
  PROVE  /\ PositionsType(positions) /\ HoldingsIn(positions)
         /\ \A k \in Keys : /\ FrozenIn(positions, k) = ClaimsIn(orders, k) + TakerLeft(k)
                            /\ ClaimsIn(orders, k) \in Nat /\ TakerLeft(k) \in Nat
                            /\ FrozenIn(positions, k) \in Nat
                            /\ FrozenIn(positions, k) > 0 => k \in DOMAIN positions
         /\ \A k \in DOMAIN positions :
              /\ k \in Keys /\ positions[k].position \in Nat
              /\ FrozenIn(positions, k) = positions[k].frozen /\ positions[k].frozen \in Nat
<1>1. PositionsType(positions) /\ HoldingsIn(positions)
  BY DEF StateOK, AccountsOK, FrozenOK
<1>2. TableOf(orders)
  BY OrdersFinite DEF StateOK
<1>3. ASSUME NEW k \in Keys
      PROVE  /\ FrozenIn(positions, k) = ClaimsIn(orders, k) + TakerLeft(k)
             /\ ClaimsIn(orders, k) \in Nat /\ TakerLeft(k) \in Nat
             /\ FrozenIn(positions, k) \in Nat
             /\ FrozenIn(positions, k) > 0 => k \in DOMAIN positions
  <2>1. FrozenIn(positions, k) = ClaimsIn(orders, k) + TakerLeft(k)
    BY DEF FrozenOK
  <2>2. ClaimsIn(orders, k) \in Nat /\ TakerLeft(k) \in Nat
    BY <1>2, ClaimsFacts, TakerLeftType
  <2>3. k \notin DOMAIN positions => FrozenIn(positions, k) = 0
    BY DEF FrozenIn
  <2> QED BY <2>1, <2>2, <2>3
<1>4. ASSUME NEW k \in DOMAIN positions
      PROVE  /\ k \in Keys /\ positions[k].position \in Nat
             /\ FrozenIn(positions, k) = positions[k].frozen /\ positions[k].frozen \in Nat
  <2>1. k \in Keys /\ positions[k].position \in Int /\ positions[k].position >= 0
    BY <1>1 DEF PositionsType, PositionRec, HoldingsIn
  <2>2. FrozenIn(positions, k) = positions[k].frozen
    BY DEF FrozenIn
  <2> QED BY <2>1, <2>2, <1>3
<1> QED BY <1>1, <1>3, <1>4

\* What is set aside, or given back, is what the orders sell more, or less.
LEMMA FrozenMoved ==
  ASSUME StateOK, FrozenOK, LeftsOK, NEW k \in DOMAIN positions, NEW amount \in Int,
         amount <= positions[k].position,
         positions' = [positions EXCEPT ![k] = FreezePosition(@, amount)],
         \A j \in Keys : ClaimsIn(orders', j) + TakerLeft(j)' =
           ClaimsIn(orders, j) + TakerLeft(j) + IF j = k THEN amount ELSE 0
  PROVE  FrozenOK'
<1> DEFINE ps2 == [positions EXCEPT ![k] = FreezePosition(@, amount)]
<1>1. PositionsType(positions) /\ HoldingsIn(positions)
  BY FrozenFacts
<1>2. /\ HoldingsIn(ps2)
      /\ \A j \in Keys : FrozenIn(ps2, j) = FrozenIn(positions, j) + IF j = k THEN amount ELSE 0
  BY <1>1, FreezeHoldings
<1>3. positions' = ps2
  OBVIOUS
<1> HIDE DEF ps2
<1>4. \A j \in Keys : FrozenIn(positions', j) = ClaimsIn(orders', j) + TakerLeft(j)'
  BY <1>2, <1>3, FrozenFacts
<1> QED BY <1>2, <1>3, <1>4 DEF FrozenOK

LEMMA FrozenStays ==
  ASSUME StateOK, FrozenOK, LeftsOK, SameHoldings(positions, positions'),
         \A j \in Keys : ClaimsIn(orders', j) + TakerLeft(j)' = ClaimsIn(orders, j) + TakerLeft(j)
  PROVE  FrozenOK'
<1>1. HoldingsIn(positions)' /\ \A k : FrozenIn(positions', k) = FrozenIn(positions, k)
  BY FrozenFacts, SameHoldingsKeep
<1>2. \A j \in Keys : FrozenIn(positions', j) = ClaimsIn(orders', j) + TakerLeft(j)'
  BY <1>1, FrozenFacts
<1> QED BY <1>1, <1>2 DEF FrozenOK

LEMMA SameIsSame == ASSUME NEW ps PROVE SameHoldings(ps, ps)
  BY DEF SameHoldings

LEMMA MovesHold ==
  ASSUME StateOK, StateOK', FrozenOK, LeftsOK, Moves PROVE FrozenOK' /\ LeftsOK'
<1>1. /\ pc # "match" /\ pc' # "match" /\ SameHoldings(positions, positions')
      /\ \A j : TakerLeft(j) = 0 /\ TakerLeft(j)' = 0
  BY TakerLeftFacts DEF Moves
<1>2. IndexOK' /\ \A j \in Keys : ClaimsIn(orders, j) \in Nat
  BY FrozenFacts DEF StateOK
<1>3. SUFFICES OrdersLeft(orders') /\ \A j \in Keys : ClaimsIn(orders', j) = ClaimsIn(orders, j)
  BY <1>1, <1>2, FrozenStays, LeftsAfter
<1>4. CASE UNCHANGED index
  BY <1>4, LeftsParts DEF index
<1>5. ASSUME NEW m \in Markets, NEW o \in OrderRec, o.oper_type = OPEN, o.left > 0,
             order_put_future(m, o)
      PROVE  OrdersLeft(orders') /\ \A j \in Keys : ClaimsIn(orders', j) = ClaimsIn(orders, j)
  <2>1. o.oper_type # CLOSE
    BY <1>5 DEF OPEN, CLOSE
  <2>2. /\ OrdersLeft(orders')
        /\ \A k : ClaimsIn(orders', k) = ClaimsIn(orders, k)
                   + IF KeyOf(o) = k /\ o.oper_type = CLOSE THEN o.left ELSE 0
    BY <2>1, <1>2, <1>5, PutClaims
  <2> QED BY <2>1, <2>2, <1>2
<1>6. ASSUME NEW i \in DOMAIN orders, orders[i].type # LIMIT \/ orders[i].oper_type = OPEN,
             order_finish_future(i)
      PROVE  OrdersLeft(orders') /\ \A j \in Keys : ClaimsIn(orders', j) = ClaimsIn(orders, j)
  <2>1. \A k : Claim(orders, i, k) = 0
    BY <1>6 DEF Claim, CloseIn, OPEN, CLOSE
  <2>2. /\ OrdersLeft(orders')
        /\ \A k : ClaimsIn(orders', k) = ClaimsIn(orders, k) - Claim(orders, i, k)
    BY <1>2, <1>6, FinishClaims
  <2> QED BY <2>1, <2>2, <1>2
<1> QED BY <1>4, <1>5, <1>6 DEF Moves

LEMMA OpensHold ==
  ASSUME StateOK, FrozenOK, LeftsOK, Opens PROVE FrozenOK' /\ LeftsOK'
<1>1. /\ orders' = orders /\ SameHoldings(positions, positions')
      /\ taker'.left > 0 /\ taker'.oper_type = OPEN /\ pc # "match" /\ pc' = "match"
  BY SameIsSame DEF Opens, index
<1>2. \A j : TakerLeft(j) = 0 /\ TakerLeft(j)' = 0
  BY <1>1, TakerLeftFacts DEF OPEN, CLOSE
<1>3. FrozenOK'
  BY <1>1, <1>2, FrozenStays
<1>4. LeftsOK'
  BY <1>1, LeftsParts, LeftsAfter
<1> QED BY <1>3, <1>4

LEMMA PromisesHold ==
  ASSUME StateOK, FrozenOK, LeftsOK, Promises PROVE FrozenOK' /\ LeftsOK'
<1>1. /\ orders' = orders /\ taker'.left > 0 /\ taker'.oper_type = CLOSE
      /\ pc # "match" /\ pc' = "match"
  BY DEF Promises, index
<1>2. PICK k \in DOMAIN positions, amount \in Int :
        /\ KeyOf(taker') = k /\ taker'.left = amount /\ amount <= positions[k].position
        /\ positions' = [positions EXCEPT ![k] = FreezePosition(@, amount)]
  BY DEF Promises
<1>3. \A j : TakerLeft(j) = 0 /\ TakerLeft(j)' = IF j = k THEN taker'.left ELSE 0
  BY <1>1, <1>2, TakerLeftFacts
<1>4. \A j \in Keys : ClaimsIn(orders', j) + TakerLeft(j)' =
         ClaimsIn(orders, j) + TakerLeft(j) + IF j = k THEN amount ELSE 0
  BY <1>1, <1>2, <1>3, FrozenFacts
<1>5. FrozenOK'
  BY <1>2, <1>4, FrozenMoved
<1>6. LeftsOK'
  BY <1>1, LeftsParts, LeftsAfter
<1> QED BY <1>5, <1>6

LEMMA GivesBackHold ==
  ASSUME StateOK, StateOK', FrozenOK, LeftsOK, GivesBack PROVE FrozenOK' /\ LeftsOK'
<1>1. PICK i \in DOMAIN orders :
        /\ orders[i].type = LIMIT /\ orders[i].oper_type = CLOSE
        /\ order_finish_future(i)
        /\ KeyOf(orders[i]) \in DOMAIN positions
        /\ positions' = [positions EXCEPT ![KeyOf(orders[i])] =
                           FreezePosition(@, -orders[i].left)]
  BY DEF GivesBack
<1> DEFINE k == KeyOf(orders[i])  back == -orders[i].left
<1>2. /\ OrdersLeft(orders')
      /\ \A j : ClaimsIn(orders', j) = ClaimsIn(orders, j) - Claim(orders, i, j)
  BY <1>1, FinishClaims DEF StateOK
<1>3. \A j : Claim(orders, i, j) = IF j = k THEN orders[i].left ELSE 0
  BY <1>1 DEF Claim, CloseIn
<1>4. orders[i].left \in Int /\ orders[i].left > 0 /\ back \in Int
  BY DEF StateOK, IndexOK, OrdersType, OrderRec, LeftsOK
<1>5. \A j : TakerLeft(j) = 0 /\ TakerLeft(j)' = 0
  BY TakerLeftFacts DEF GivesBack
<1>6. k \in DOMAIN positions /\ positions' = [positions EXCEPT ![k] = FreezePosition(@, back)]
  BY <1>1
<1> HIDE DEF k
<1>7. back <= positions[k].position
  BY <1>4, <1>6, FrozenFacts
<1>8. \A j \in Keys : ClaimsIn(orders', j) + TakerLeft(j)' =
         ClaimsIn(orders, j) + TakerLeft(j) + IF j = k THEN back ELSE 0
  BY <1>2, <1>3, <1>4, <1>5, FrozenFacts
<1> HIDE DEF back
<1>9. FrozenOK'
  BY <1>4, <1>6, <1>7, <1>8, FrozenMoved
<1> QED BY <1>2, <1>9, LeftsAfter DEF GivesBack
------------------------------------------------------------------------------
(* Matching                                                                 *)

\* What a deal does to the position of one of its two orders.
Adjusted(ps, ps2, k, oper_type, amount) ==
  /\ PositionsType(ps2) /\ HoldingsIn(ps2)
  /\ DOMAIN ps \ {k} = DOMAIN ps2 \ {k}
  /\ \A j \in DOMAIN ps \ {k} : ps2[j] = ps[j]
  /\ HeldIn(ps2, k) = HeldIn(ps, k) + IF oper_type = OPEN THEN amount ELSE -amount
  /\ \A j : FrozenIn(ps2, j) = FrozenIn(ps, j)
             - IF j = k /\ oper_type = CLOSE THEN amount ELSE 0

LEMMA FrozenType ==
  ASSUME NEW ps, PositionsType(ps), NEW j PROVE FrozenIn(ps, j) \in Int /\ HeldIn(ps, j) \in Int
  BY DEF PositionsType, PositionRec, FrozenIn, HeldIn, Total

LEMMA AdjustIsAdjusted ==
  ASSUME NEW ps, PositionsType(ps), HoldingsIn(ps), NEW o \in OrderRec,
         NEW amount \in Int, amount > 0, NEW price \in Int, NEW fee \in Int,
         o.oper_type = CLOSE => amount <= FrozenIn(ps, KeyOf(o))
  PROVE  Adjusted(ps, adjustPosition(ps, KeyOf(o), o, amount, price, fee),
                  KeyOf(o), o.oper_type, amount)
<1> DEFINE k == KeyOf(o)  ps2 == adjustPosition(ps, k, o, amount, price, fee)
<1>1. k \in Keys
  BY KeyOfType
<1>2. /\ HoldingsIn(ps2)
      /\ DOMAIN ps \ {k} = DOMAIN ps2 \ {k}
      /\ \A j \in DOMAIN ps \ {k} : ps2[j] = ps[j]
      /\ HeldIn(ps2, k) = HeldIn(ps, k) + IF o.oper_type = OPEN THEN amount ELSE -amount
      /\ FrozenIn(ps2, k) = FrozenIn(ps, k) - IF o.oper_type = OPEN THEN 0 ELSE amount
  BY <1>1, AdjustHoldings
<1>3. PositionsType(ps2)
  BY <1>1, adjustPositionType
<1>4. o.oper_type = CLOSE <=> o.oper_type # OPEN
  BY DEF OrderRec, OPEN, CLOSE
<1> HIDE DEF ps2
<1>5. \A j : FrozenIn(ps, j) \in Int
  BY FrozenType
<1>6. ASSUME NEW j
      PROVE  FrozenIn(ps2, j) = FrozenIn(ps, j) - IF j = k /\ o.oper_type = CLOSE THEN amount ELSE 0
  <2>1. CASE j = k
    BY <2>1, <1>2, <1>4
  <2>2. CASE j # k
    <3>1. FrozenIn(ps2, j) = FrozenIn(ps, j)
      BY <2>2, <1>2 DEF FrozenIn
    <3> QED BY <3>1, <2>2, <1>5
  <2> QED BY <2>1, <2>2
<1>7. Adjusted(ps, ps2, k, o.oper_type, amount)
  BY <1>2, <1>3, <1>6 DEF Adjusted
<1> QED BY <1>7 DEF ps2

LEMMA DealHoldings ==
  ASSUME StateOK, FrozenOK, LeftsOK, MatchStep
  PROVE  \E i, amount, taken :
           /\ i \in DOMAIN orders /\ amount \in Int
           /\ orders[i] \in OrderRec /\ taker \in OrderRec /\ taker' \in OrderRec
           /\ orders[i].type = LIMIT /\ IsAsk(orders[i]) # IsAsk(taker)
           /\ orders[i].market = call.market
           /\ amount > 0 /\ amount <= orders[i].left
           /\ KeyOf(taker') = KeyOf(taker) /\ taker'.oper_type = taker.oper_type
           /\ taker'.type = taker.type /\ taker'.left = taker.left - amount
           /\ Adjusted(positions, taken, KeyOf(taker), taker.oper_type, amount)
           /\ Adjusted(taken, positions', KeyOf(orders[i]), orders[i].oper_type, amount)
           /\ IF orders[i].left = amount THEN order_finish_future(i)
              ELSE \E o \in OrderRec :
                     /\ DOMAIN orders' = DOMAIN orders /\ orders'[i] = o
                     /\ \A j \in DOMAIN orders \ {i} : orders'[j] = orders[j]
                     /\ o.left = orders[i].left - amount
                     /\ \A f \in {"user", "market", "type", "side", "oper_type"} :
                          o[f] = orders[i][f]
           /\ pc = "match" /\ pc' = IF taker'.left = 0 THEN "return" ELSE "match"
           /\ 0 <= taker'.left
           /\ UNCHANGED <<call, scan, victim>>
<1>1. PICK i \in book[call.market][Opposite(taker)] :
        LET maker  == orders[i]
            amount == IF taker.left < maker.left THEN taker.left ELSE maker.left
            rest   == adjustOrder(maker, amount)
        IN  /\ i \in DOMAIN orders /\ maker \in OrderRec /\ taker \in OrderRec
            /\ maker.type = LIMIT /\ maker.market = call.market
            /\ PutList(maker) = Opposite(taker) /\ Deal(i)
            /\ rest \in OrderRec /\ rest.left = maker.left - amount
            /\ \A f \in {"user", "market", "type", "side", "oper_type", "price"} :
                 rest[f] = maker[f] /\ taker'[f] = taker[f]
            /\ taker' \in OrderRec /\ taker'.left = taker.left - amount
  BY DealBooks
<1> DEFINE maker  == orders[i]
           amount == IF taker.left < maker.left THEN taker.left ELSE maker.left
           rest   == adjustOrder(maker, amount)
           taken  == adjustPosition(positions, KeyOf(taker), taker, amount, maker.price,
                                    amount * TakerFee)
<1>2. pc = "match" /\ i \in DOMAIN orders /\ maker \in OrderRec /\ taker \in OrderRec
  BY <1>1 DEF MatchStep
<1>3. /\ taker.left \in Int /\ taker.left > 0 /\ maker.left \in Int /\ maker.left > 0
      /\ amount \in Int /\ amount > 0 /\ amount <= maker.left /\ amount <= taker.left
      /\ maker.price \in Int /\ maker.oper_type \in {OPEN, CLOSE}
  BY <1>2 DEF LeftsOK, OrderRec
<1>4. /\ positions' = adjustPosition(taken, KeyOf(maker), maker, amount, maker.price,
                                     amount * MakerFee)
      /\ IF rest.left = 0 THEN order_finish_future(i)
         ELSE orders' = [orders EXCEPT ![i] = rest]
      /\ pc' = IF LosesEquity(positions, taker) \/ LosesEquity(taken, maker)
               THEN "crash"
               ELSE IF taker'.left = 0 THEN "return" ELSE "match"
      /\ UNCHANGED <<call, scan, victim>>
  BY <1>1 DEF Deal
<1>5. /\ rest \in OrderRec /\ rest.left = maker.left - amount
      /\ \A f \in {"user", "market", "type", "side", "oper_type"} :
           rest[f] = maker[f] /\ taker'[f] = taker[f]
      /\ taker' \in OrderRec /\ taker'.left = taker.left - amount
  BY <1>1
<1>6. IsAsk(maker) # IsAsk(taker)
  <2>1. PutList(maker) = Opposite(taker) /\ maker.type = LIMIT
    BY <1>1
  <2> QED BY <2>1, <1>2, ListOfKind DEF Opposite
<1>7. maker.type = LIMIT /\ maker.market = call.market
  BY <1>1
<1>8. KeyOf(taker') = KeyOf(taker) /\ taker'.oper_type = taker.oper_type /\ taker'.type = taker.type
  BY <1>5 DEF KeyOf
<1>9. amount * TakerFee \in Int /\ amount * MakerFee \in Int
  BY <1>3, MarketAssumption, SMT
<1> DEFINE price == maker.price  fee1 == amount * TakerFee  fee2 == amount * MakerFee
<1>10. price \in Int /\ fee1 \in Int /\ fee2 \in Int
  BY <1>3, <1>9
<1>11. /\ taken = adjustPosition(positions, KeyOf(taker), taker, amount, price, fee1)
       /\ positions' = adjustPosition(taken, KeyOf(maker), maker, amount, price, fee2)
  BY <1>4
<1> HIDE DEF maker, amount, rest, taken, price, fee1, fee2
<1>12. /\ KeyOf(taker) \in Keys /\ KeyOf(maker) \in Keys
       /\ PositionsType(positions) /\ HoldingsIn(positions)
  BY <1>2, KeyOfType, FrozenFacts
<1>13. /\ FrozenIn(positions, KeyOf(taker)) \in Int /\ FrozenIn(positions, KeyOf(maker)) \in Int
       /\ taker.oper_type = CLOSE =>
            /\ amount <= FrozenIn(positions, KeyOf(taker))
            /\ KeyOf(taker) \in DOMAIN positions
       /\ maker.oper_type = CLOSE =>
            maker.left + (IF KeyOf(taker) = KeyOf(maker) /\ taker.oper_type = CLOSE
                          THEN taker.left ELSE 0) <= FrozenIn(positions, KeyOf(maker))
  <2>1. /\ FrozenIn(positions, KeyOf(taker)) = ClaimsIn(orders, KeyOf(taker)) + TakerLeft(KeyOf(taker))
        /\ FrozenIn(positions, KeyOf(maker)) = ClaimsIn(orders, KeyOf(maker)) + TakerLeft(KeyOf(maker))
        /\ ClaimsIn(orders, KeyOf(taker)) \in Nat /\ ClaimsIn(orders, KeyOf(maker)) \in Nat
        /\ FrozenIn(positions, KeyOf(taker)) \in Nat /\ FrozenIn(positions, KeyOf(maker)) \in Nat
        /\ FrozenIn(positions, KeyOf(taker)) > 0 => KeyOf(taker) \in DOMAIN positions
    BY <1>12, FrozenFacts
  <2>2. \A k : TakerLeft(k) = IF KeyOf(taker) = k /\ taker.oper_type = CLOSE THEN taker.left ELSE 0
    BY <1>2, TakerLeftFacts
  <2>3. maker.oper_type = CLOSE => maker.left <= ClaimsIn(orders, KeyOf(maker))
    <3>1. maker.oper_type = CLOSE => i \in CloseIn(orders, KeyOf(maker))
      BY <1>2, <1>7 DEF CloseIn, maker
    <3>2. TableOf(orders)
      BY OrdersFinite DEF StateOK
    <3> QED BY <3>1, <3>2, ClaimsFacts DEF maker
  <2> QED BY <2>1, <2>2, <2>3, <1>3
<1>14. Adjusted(positions, taken, KeyOf(taker), taker.oper_type, amount)
  BY <1>2, <1>3, <1>10, <1>11, <1>12, <1>13, AdjustIsAdjusted
<1>15. /\ PositionsType(taken) /\ HoldingsIn(taken)
       /\ maker.oper_type = CLOSE => amount <= FrozenIn(taken, KeyOf(maker))
  BY <1>3, <1>13, <1>14 DEF Adjusted
<1>16. Adjusted(taken, positions', KeyOf(maker), maker.oper_type, amount)
  BY <1>2, <1>3, <1>10, <1>11, <1>15, AdjustIsAdjusted
<1>17. ~LosesEquity(positions, taker) /\ ~LosesEquity(taken, maker)
  <2>1. maker.oper_type = CLOSE => KeyOf(maker) \in DOMAIN taken
    BY <1>3, <1>15 DEF FrozenIn
  <2> QED BY <2>1, <1>13 DEF LosesEquity
<1>18. pc' = IF taker'.left = 0 THEN "return" ELSE "match"
  BY <1>4, <1>17
<1>19. IF maker.left = amount THEN order_finish_future(i)
       ELSE /\ DOMAIN orders' = DOMAIN orders /\ orders'[i] = rest
            /\ \A j \in DOMAIN orders \ {i} : orders'[j] = orders[j]
  BY <1>2, <1>3, <1>4, <1>5
<1>20. 0 <= taker'.left
  BY <1>3, <1>5
<1> QED BY <1>2, <1>3, <1>4, <1>5, <1>6, <1>7, <1>8, <1>14, <1>16, <1>18, <1>19, <1>20
        DEF maker

LEMMA MatchHolds ==
  ASSUME StateOK, StateOK', FrozenOK, LeftsOK, MatchStep PROVE FrozenOK' /\ LeftsOK'
<1>1. PICK i, amount, taken :
        /\ i \in DOMAIN orders /\ amount \in Int
        /\ orders[i] \in OrderRec /\ taker \in OrderRec
        /\ orders[i].type = LIMIT /\ amount > 0 /\ amount <= orders[i].left
        /\ KeyOf(taker') = KeyOf(taker) /\ taker'.oper_type = taker.oper_type
        /\ taker'.left = taker.left - amount
        /\ Adjusted(positions, taken, KeyOf(taker), taker.oper_type, amount)
        /\ Adjusted(taken, positions', KeyOf(orders[i]), orders[i].oper_type, amount)
        /\ IF orders[i].left = amount THEN order_finish_future(i)
           ELSE \E o \in OrderRec :
                  /\ DOMAIN orders' = DOMAIN orders /\ orders'[i] = o
                  /\ \A j \in DOMAIN orders \ {i} : orders'[j] = orders[j]
                  /\ o.left = orders[i].left - amount
                  /\ \A f \in {"user", "market", "type", "side", "oper_type"} :
                       o[f] = orders[i][f]
        /\ pc = "match" /\ pc' = IF taker'.left = 0 THEN "return" ELSE "match"
        /\ 0 <= taker'.left
  BY DealHoldings
<1> DEFINE maker == orders[i]
           sold(j) == IF KeyOf(maker) = j /\ maker.oper_type = CLOSE THEN amount ELSE 0
           took(j) == IF KeyOf(taker) = j /\ taker.oper_type = CLOSE THEN amount ELSE 0
<1>2. maker.left \in Int /\ taker.left \in Int /\ taker'.left \in Int
  BY <1>1 DEF OrderRec
<1>3. /\ OrdersLeft(orders')
      /\ \A j : ClaimsIn(orders', j) = ClaimsIn(orders, j) - sold(j)
  <2>1. \A j : i \in CloseIn(orders, j) <=> KeyOf(maker) = j /\ maker.oper_type = CLOSE
    BY <1>1 DEF CloseIn
  <2>2. CASE maker.left = amount
    <3>1. /\ OrdersLeft(orders')
          /\ \A j : ClaimsIn(orders', j) = ClaimsIn(orders, j) - Claim(orders, i, j)
      BY <1>1, <2>2, FinishClaims DEF StateOK
    <3>2. \A j : Claim(orders, i, j) = sold(j)
      BY <2>1, <2>2 DEF Claim
    <3> QED BY <3>1, <3>2
  <2>3. CASE maker.left # amount
    <3>1. PICK o \in OrderRec :
            /\ DOMAIN orders' = DOMAIN orders /\ orders'[i] = o
            /\ \A j \in DOMAIN orders \ {i} : orders'[j] = orders[j]
            /\ o.left = maker.left - amount
            /\ \A f \in {"user", "market", "type", "side", "oper_type"} : o[f] = maker[f]
      BY <1>1, <2>3
    <3>2. i \in DOMAIN orders /\ o.left > 0
      BY <1>1, <1>2, <2>3, <3>1
    <3>3. /\ o.user = maker.user /\ o.market = maker.market /\ o.side = maker.side
          /\ o.type = maker.type /\ o.oper_type = maker.oper_type
      BY <3>1
    <3>4. /\ OrdersLeft(orders')
          /\ \A j : ClaimsIn(orders', j) = ClaimsIn(orders, j)
                     - IF i \in CloseIn(orders, j) THEN maker.left - o.left ELSE 0
      BY <3>1, <3>2, <3>3, ShrinkClaims DEF StateOK
    <3>5. maker.left - o.left = amount /\ amount \in Int
      BY <1>1, <1>2, <3>1
    <3>6. \A j : (IF i \in CloseIn(orders, j) THEN maker.left - o.left ELSE 0) = sold(j)
      BY <2>1, <3>5
    <3> HIDE DEF sold
    <3> QED BY <3>4, <3>6
  <2> QED BY <2>2, <2>3
<1>4. \A j : /\ TakerLeft(j) = IF KeyOf(taker) = j /\ taker.oper_type = CLOSE THEN taker.left ELSE 0
             /\ TakerLeft(j)' = IF KeyOf(taker) = j /\ taker.oper_type = CLOSE
                                THEN taker'.left ELSE 0
  BY <1>1, TakerLeftFacts
<1>5. \A j : TakerLeft(j)' = TakerLeft(j) - took(j)
  BY <1>1, <1>2, <1>4
<1>6. \A j : FrozenIn(positions', j) = FrozenIn(positions, j) - took(j) - sold(j)
  BY <1>1 DEF Adjusted
<1> HIDE DEF maker
<1>7. \A j : took(j) \in Int /\ sold(j) \in Int
  BY <1>1
<1> HIDE DEF sold, took
<1>8. \A j \in Keys : FrozenIn(positions', j) = ClaimsIn(orders', j) + TakerLeft(j)'
  BY <1>3, <1>5, <1>6, <1>7, FrozenFacts
<1>9. HoldingsIn(positions')
  BY <1>1 DEF Adjusted
<1>10. FrozenOK'
  BY <1>8, <1>9 DEF FrozenOK
<1>11. LeftsOK'
  BY <1>1, <1>2, <1>3, LeftsAfter
<1> QED BY <1>10, <1>11

LEMMA RestHolds ==
  ASSUME StateOK, StateOK', FrozenOK, LeftsOK, RestTaker PROVE FrozenOK' /\ LeftsOK'
<1>1. /\ pc = "match" /\ pc' = "return" /\ taker \in OrderRec /\ taker.type = LIMIT
      /\ order_put_future(call.market, taker) /\ positions' = positions /\ taker.left > 0
  BY DEF RestTaker, NothingToMatch, accounts, StateOK, ControlOK, LeftsOK
<1>2. /\ OrdersLeft(orders')
      /\ \A k : ClaimsIn(orders', k) = ClaimsIn(orders, k)
                 + IF KeyOf(taker) = k /\ taker.oper_type = CLOSE THEN taker.left ELSE 0
  BY <1>1, PutClaims DEF StateOK
<1>3. \A k : /\ TakerLeft(k)' = 0
             /\ TakerLeft(k) = IF KeyOf(taker) = k /\ taker.oper_type = CLOSE THEN taker.left ELSE 0
  BY <1>1, TakerLeftFacts
<1>4. \A k \in Keys : ClaimsIn(orders, k) \in Nat /\ TakerLeft(k) \in Nat
  BY FrozenFacts
<1>5. \A k \in Keys : ClaimsIn(orders', k) + TakerLeft(k)' = ClaimsIn(orders, k) + TakerLeft(k)
  BY <1>2, <1>3, <1>4
<1>6. FrozenOK'
  BY <1>1, <1>5, SameIsSame, FrozenStays
<1> QED BY <1>1, <1>2, <1>6, LeftsAfter

LEMMA DropHolds ==
  ASSUME StateOK, FrozenOK, LeftsOK, DropTaker
  PROVE  FrozenOK' /\ LeftsOK' /\ pc' = "return"
<1> DEFINE k == KeyOf(taker)  back == -taker.left
<1>1. /\ pc = "match" /\ taker \in OrderRec /\ taker.left > 0 /\ taker.left \in Int
      /\ orders' = orders /\ k \in Keys /\ taker.oper_type \in {OPEN, CLOSE}
      /\ IF taker.oper_type = CLOSE
         THEN IF k \in DOMAIN positions
              THEN /\ positions' = [positions EXCEPT ![k] = FreezePosition(@, back)]
                   /\ pc' = "return"
              ELSE pc' = "crash" /\ UNCHANGED positions
         ELSE pc' = "return" /\ UNCHANGED positions
  BY KeyOfType DEF DropTaker, NothingToMatch, index, StateOK, ControlOK, LeftsOK, OrderRec
<1> HIDE DEF k
<1>2. /\ FrozenIn(positions, k) = ClaimsIn(orders, k) + TakerLeft(k)
      /\ \A j \in Keys : ClaimsIn(orders, j) \in Nat /\ TakerLeft(j) \in Nat
      /\ FrozenIn(positions, k) > 0 => k \in DOMAIN positions
  BY <1>1, FrozenFacts
<1>3. \A j : TakerLeft(j) = IF j = k /\ taker.oper_type = CLOSE THEN taker.left ELSE 0
  BY <1>1, TakerLeftFacts DEF k
<1>4. pc' = "return" => LeftsOK'
  BY <1>1, LeftsParts, LeftsAfter
<1>5. CASE taker.oper_type = CLOSE
  <2>1. k \in DOMAIN positions
    BY <1>1, <1>2, <1>3, <1>5
  <2>2. pc' = "return" /\ positions' = [positions EXCEPT ![k] = FreezePosition(@, back)]
    BY <1>1, <1>5, <2>1
  <2>3. \A j : TakerLeft(j)' = 0
    BY <2>2, TakerLeftFacts
  <2>4. back \in Int /\ back <= positions[k].position
    BY <1>1, <2>1, FrozenFacts
  <2>5. \A j \in Keys : ClaimsIn(orders', j) + TakerLeft(j)' =
           ClaimsIn(orders, j) + TakerLeft(j) + IF j = k THEN back ELSE 0
    BY <1>1, <1>2, <1>3, <1>5, <2>3
  <2> HIDE DEF back
  <2>6. FrozenOK'
    BY <2>1, <2>2, <2>4, <2>5, FrozenMoved
  <2> QED BY <2>2, <2>6, <1>4
<1>6. CASE taker.oper_type # CLOSE
  <2>1. pc' = "return" /\ positions' = positions
    BY <1>1, <1>6
  <2>2. \A j : TakerLeft(j)' = 0 /\ TakerLeft(j) = 0
    BY <2>1, <1>3, <1>6, TakerLeftFacts
  <2>3. FrozenOK'
    BY <1>1, <2>1, <2>2, SameIsSame, FrozenStays
  <2> QED BY <2>1, <2>3, <1>4
<1> QED BY <1>5, <1>6

LEMMA StutterHolds ==
  ASSUME StateOK, FrozenOK, LeftsOK, UNCHANGED vars PROVE FrozenOK' /\ LeftsOK'
<1>1. UNCHANGED <<positions, orders, pc, taker>>
  BY DEF vars
<1>2. \A k : TakerLeft(k)' = TakerLeft(k)
  BY <1>1 DEF TakerLeft, KeyOf
<1>3. FrozenOK'
  BY <1>1, <1>2, SameIsSame, FrozenStays
<1> QED BY <1>1, <1>3, LeftsParts, LeftsAfter

LEMMA HoldStepKeeps ==
  ASSUME StateOK, StateOK', FrozenOK, LeftsOK, HoldStep PROVE FrozenOK' /\ LeftsOK'
  BY MovesHold, OpensHold, PromisesHold, GivesBackHold, MatchHolds, RestHolds, DropHolds,
     StutterHolds DEF HoldStep
------------------------------------------------------------------------------
(* The steps of the engine are of these kinds                               *)

\* What the holdings rely on in every step: the invariants so far.
BaseInv == StateOK /\ IterOK /\ BooksInv

\* A step of one of the kinds that does not crash and keeps the loops in order.
Sound == HoldStep /\ CrossOK' /\ ScanOK' /\ pc' # "crash"

\* Outside its loops and execute_order there is nothing to keep in order.
LEMMA LoopsOver ==
  pc' \notin {"match", "return", "plan", "cross"}
    \/ (pc' \in {"match", "return"} /\ call'.by \notin {"planner", "cross"})
  => CrossOK' /\ ScanOK'
  BY DEF CrossOK, InCross, ScanOK, InPlanner

\* A live list is compared with no freed order.
LEMMA ComparesSafe ==
  ASSUME BaseInv, NEW m \in Markets, NEW l \in Lists, NEW next, pc' \in Compares(m, l, next)
  PROVE  pc' = next
<1>1. book[m][l] \subseteq DOMAIN orders
  BY ListSorted DEF BaseInv, StateOK, BooksInv
<1> QED BY <1>1 DEF Compares

LEMMA OpenSound ==
  ASSUME BaseInv, NEW a, ArgsType(a), a.leverage \in Nat \ {0}, a.type # TPSL,
         market_put_order_open(a)
  PROVE  Sound
<1> DEFINE mode     == ModeAfter(a)[<<a.user, a.market>>]
           held     == HasPosition(a.user, a.market)
           leverage == IF held THEN LeadPosition(a.user, a.market).leverage ELSE a.leverage
           pri      == Margin(a.volume, IF held THEN leverage ELSE mode.leverage)
           planned  == initOrder(a, OPEN, leverage, 0)
           freeze   == IF a.type = LIMIT THEN pri ELSE 0
           placed   == initOrder(a, OPEN, leverage, freeze)
<1>1. /\ pc = "idle" /\ a.volume >= 1 /\ positions' = positions
      /\ \/ UNCHANGED <<index, pc>>
         \/ /\ order_put_future(a.market, planned)
            /\ pc' \in Compares(a.market, PutList(planned), "idle")
         \/ Execute(placed, a.market, "client", 0) /\ UNCHANGED index
  BY DEF market_put_order_open, OpenArgsValid
<1>2. leverage \in Nat \ {0}
  <2>1. CASE held
    <3>1. LeadPosition(a.user, a.market) \in PositionRec
      BY <2>1 DEF HasPosition, LeadPosition, Sides, BaseInv, StateOK, AccountsOK, PositionsType
    <3> QED BY <2>1, <3>1 DEF PositionRec
  <2>2. CASE ~held
    BY <2>2
  <2> QED BY <2>1, <2>2
<1>3. pri \in Int
  <2>1. (IF held THEN leverage ELSE mode.leverage) \in Int
    BY <1>2, ModeAfterType DEF BaseInv, StateOK, AccountsOK
  <2>2. a.volume \in Int
    BY DEF ArgsType
  <2> QED BY <2>1, <2>2, MarginType
<1> HIDE DEF leverage, pri
<1>4. freeze \in Int /\ OPEN \in {OPEN, CLOSE} /\ PricesOK
  BY <1>3 DEF BaseInv, StateOK
<1> HIDE DEF freeze
<1>5. /\ planned \in OrderRec /\ planned.market = a.market /\ planned.oper_type = OPEN
      /\ placed \in OrderRec /\ placed.oper_type = OPEN
      /\ planned.left > 0 /\ placed.left > 0
  <2>1. /\ planned.left = a.volume /\ placed.left = a.volume
        /\ planned.oper_type = OPEN /\ placed.oper_type = OPEN
    BY DEF initOrder
  <2>2. a.volume > 0
    BY <1>1 DEF ArgsType
  <2> QED BY <2>1, <2>2, <1>2, <1>4, initOrderType
<1> HIDE DEF planned, placed
<1>6. a.market \in Markets /\ SameHoldings(positions, positions')
  BY <1>1, SameIsSame DEF ArgsType
<1>7. CASE UNCHANGED <<index, pc>>
  BY <1>1, <1>6, <1>7, LoopsOver DEF Sound, HoldStep, Moves
<1>8. CASE order_put_future(a.market, planned) /\ pc' \in Compares(a.market, PutList(planned), "idle")
  <2>1. PutList(planned) \in Lists
    BY <1>5, ListOfKind
  <2>2. pc' = "idle"
    BY <2>1, <1>6, <1>8, ComparesSafe
  <2>3. Moves
    BY <2>2, <1>1, <1>5, <1>6, <1>8 DEF Moves
  <2> QED BY <2>2, <2>3, LoopsOver DEF Sound, HoldStep
<1>9. CASE Execute(placed, a.market, "client", 0) /\ UNCHANGED index
  <2>1. pc' = "match" /\ taker' = placed /\ call'.by = "client"
    BY <1>9 DEF Execute
  <2>2. Opens
    BY <2>1, <1>1, <1>5, <1>9 DEF Opens
  <2> QED BY <2>1, <2>2, LoopsOver DEF Sound, HoldStep
<1> QED BY <1>1, <1>7, <1>8, <1>9

LEMMA CloseSound ==
  ASSUME BaseInv, NEW a, ArgsType(a), a.type \in {MARKET, LIMIT}, market_put_order_close(a)
  PROVE  Sound
<1> DEFINE k == <<a.user, a.market, a.direction>>
           o == initOrder(a, CLOSE, positions[k].leverage, 0)
           amount == a.volume
<1>1. /\ pc = "idle" /\ amount >= 1 /\ k \in DOMAIN positions /\ amount <= positions[k].position
      /\ positions' = [positions EXCEPT ![k] = FreezePosition(@, amount)]
      /\ Execute(o, a.market, "client", 0) /\ UNCHANGED index
  <2>1. a.type # TPSL
    BY DEF MARKET, LIMIT, TPSL
  <2>2. k \in DOMAIN positions => positions[k].position \in Int
    BY DEF BaseInv, StateOK, AccountsOK, PositionsType, PositionRec
  <2>3. amount \in Int
    BY DEF ArgsType
  <2> QED BY <2>1, <2>2, <2>3 DEF market_put_order_close, CloseArgsValid, HoldsVolume
<1>2. positions[k].leverage \in Nat \ {0}
  BY <1>1 DEF BaseInv, StateOK, AccountsOK, PositionsType, PositionRec
<1>3. o \in OrderRec /\ o.oper_type = CLOSE /\ o.left = amount /\ KeyOf(o) = k
  <2>1. PricesOK /\ CLOSE \in {OPEN, CLOSE} /\ 0 \in Int
    BY DEF BaseInv, StateOK
  <2>2. o.left = amount /\ o.oper_type = CLOSE /\ KeyOf(o) = k
    BY DEF initOrder, KeyOf
  <2> QED BY <2>1, <2>2, <1>2, initOrderType
<1> HIDE DEF o, k
<1>4. amount \in Int /\ amount > 0
  BY <1>1 DEF ArgsType
<1> HIDE DEF amount
<1>5. pc' = "match" /\ taker' = o /\ call'.by = "client"
  BY <1>1 DEF Execute
<1>6. Promises
  BY <1>1, <1>3, <1>4, <1>5 DEF Promises
<1> QED BY <1>5, <1>6, LoopsOver DEF Sound, HoldStep

LEMMA CancelSound ==
  ASSUME BaseInv, FrozenOK, LeftsOK, pc # "match", NEW i \in DOMAIN orders,
         NEW next \in {"idle", "cancel"}, market_cancel_order(i, next)
  PROVE  Sound
<1> DEFINE o == orders[i]  k == KeyOf(o)
<1>1. /\ o \in OrderRec /\ o.left > 0 /\ (o.oper_type = CLOSE => o.type = LIMIT)
      /\ o.oper_type \in {OPEN, CLOSE} /\ o.market \in Markets /\ FinishList(o) \in Lists
  BY ListOfKind DEF BaseInv, StateOK, IndexOK, OrdersType, OrderRec, LeftsOK
<1>2. k \in Keys
  BY <1>1, KeyOfType
<1>3. o.oper_type = CLOSE => k \in DOMAIN positions
  <2> SUFFICES ASSUME o.oper_type = CLOSE PROVE k \in DOMAIN positions
    OBVIOUS
  <2>1. i \in CloseIn(orders, k)
    BY <1>1 DEF CloseIn
  <2>2. TableOf(orders) /\ StateOK
    BY OrdersFinite DEF BaseInv, StateOK
  <2>3. o.left <= ClaimsIn(orders, k) /\ o.left \in Int
    BY <2>1, <2>2, ClaimsFacts
  <2>4. /\ FrozenIn(positions, k) = ClaimsIn(orders, k) + TakerLeft(k)
        /\ ClaimsIn(orders, k) \in Nat /\ TakerLeft(k) \in Nat
        /\ FrozenIn(positions, k) > 0 => k \in DOMAIN positions
    BY <1>2, <2>2, FrozenFacts
  <2> QED BY <2>3, <2>4, <1>1
<1> DEFINE finish == order_finish_future(i) /\ pc' \in Compares(o.market, FinishList(o), next)
<1>4. \/ o.oper_type = OPEN /\ finish /\ positions' = positions
      \/ pc' = next /\ UNCHANGED <<positions, index>>
      \/ /\ o.oper_type = CLOSE /\ finish
         /\ positions' = [positions EXCEPT ![k] = FreezePosition(@, -o.left)]
  BY <1>1, <1>3 DEF market_cancel_order
<1>5. finish => order_finish_future(i) /\ pc' = next
  BY <1>1, ComparesSafe
<1> HIDE DEF finish
<1>6. pc' = next
  BY <1>4, <1>5
<1>7. pc' # "match" /\ pc' # "crash" /\ CrossOK' /\ ScanOK'
  BY <1>6, LoopsOver
<1>8. CASE positions' = positions
           /\ (UNCHANGED index \/ (o.oper_type = OPEN /\ order_finish_future(i)))
  BY <1>7, <1>8, SameIsSame DEF Sound, HoldStep, Moves
<1>9. CASE /\ o.oper_type = CLOSE /\ order_finish_future(i)
           /\ positions' = [positions EXCEPT ![k] = FreezePosition(@, -o.left)]
  <2>1. GivesBack
    BY <1>1, <1>3, <1>7, <1>9 DEF GivesBack
  <2> QED BY <2>1, <1>7 DEF Sound, HoldStep
<1> QED BY <1>4, <1>5, <1>8, <1>9

LEMMA MatchSound == ASSUME BaseInv, HoldingsInv, MatchStep PROVE Sound
<1>1. PICK i, amount, taken :
        /\ i \in DOMAIN orders /\ amount \in Int
        /\ orders[i].type = LIMIT
        /\ taker'.type = taker.type
        /\ IF orders[i].left = amount THEN order_finish_future(i)
           ELSE \E o \in OrderRec :
                  /\ DOMAIN orders' = DOMAIN orders /\ orders'[i] = o
                  /\ \A j \in DOMAIN orders \ {i} : orders'[j] = orders[j]
                  /\ o.left = orders[i].left - amount
                  /\ \A f \in {"user", "market", "type", "side", "oper_type"} :
                       o[f] = orders[i][f]
        /\ pc = "match" /\ pc' = IF taker'.left = 0 THEN "return" ELSE "match"
        /\ UNCHANGED <<call, scan, victim>>
  BY DealHoldings DEF BaseInv, HoldingsInv
<1>2. /\ DOMAIN orders \ {i} \subseteq DOMAIN orders'
      /\ \A j \in DOMAIN orders' : /\ j \in DOMAIN orders
                                   /\ KeyOf(orders'[j]) = KeyOf(orders[j])
                                   /\ orders'[j].oper_type = orders[j].oper_type
  <2>1. CASE orders[i].left = amount
    <3>1. orders' = WithoutEntry(orders, i)
      BY <1>1, <2>1 DEF order_finish_future
    <3> QED BY <3>1 DEF WithoutEntry
  <2>2. CASE orders[i].left # amount
    <3>1. PICK o \in OrderRec :
            /\ DOMAIN orders' = DOMAIN orders /\ orders'[i] = o
            /\ \A j \in DOMAIN orders \ {i} : orders'[j] = orders[j]
            /\ \A f \in {"user", "market", "type", "side", "oper_type"} : o[f] = orders[i][f]
      BY <1>1, <2>2
    <3>2. KeyOf(o) = KeyOf(orders[i]) /\ o.oper_type = orders[i].oper_type
      BY <3>1 DEF KeyOf
    <3> QED BY <3>1, <3>2
  <2> QED BY <2>1, <2>2
<1>3. CrossOK'
  BY <1>1, <1>2 DEF HoldingsInv, CrossOK, InCross
<1>4. ScanOK'
  <2> SUFFICES ASSUME InPlanner' PROVE scan'.todo \subseteq DOMAIN orders' /\ call'.old \notin scan'.todo
    BY DEF ScanOK
  <2>1. InPlanner /\ scan' = scan /\ call' = call
    BY <1>1 DEF InPlanner
  <2>2. /\ scan.todo \subseteq DOMAIN orders /\ call.old \notin scan.todo
        /\ \A j \in scan.todo : j \in DOMAIN orders => orders[j].type # LIMIT
    BY <1>1, <2>1 DEF HoldingsInv, ScanOK, BaseInv, StateOK, ControlOK, HandlerOK
  <2> QED BY <1>1, <1>2, <2>1, <2>2
<1> QED BY <1>1, <1>3, <1>4 DEF Sound, HoldStep

LEMMA RestSound == ASSUME BaseInv, HoldingsInv, RestTaker PROVE Sound
<1>1. /\ pc = "match" /\ pc' = "return" /\ taker.type = LIMIT
      /\ order_put_future(call.market, taker)
      /\ UNCHANGED <<call, scan, victim>>
  BY DEF RestTaker, NothingToMatch
<1>2. DOMAIN orders \subseteq DOMAIN orders'
  BY <1>1 DEF order_put_future, WithEntry
<1>3. CrossOK'
  BY <1>1 DEF HoldingsInv, CrossOK, InCross, MARKET, LIMIT
<1>4. ScanOK'
  BY <1>1, <1>2 DEF HoldingsInv, ScanOK, InPlanner
<1> QED BY <1>1, <1>3, <1>4 DEF Sound, HoldStep

LEMMA DropSound == ASSUME BaseInv, HoldingsInv, DropTaker PROVE Sound
<1>1. /\ pc = "match" /\ pc' = "return" /\ UNCHANGED <<orders, call, scan, victim>>
  BY DropHolds DEF BaseInv, HoldingsInv, DropTaker, NothingToMatch, index
<1>2. CrossOK' /\ ScanOK'
  BY <1>1 DEF HoldingsInv, CrossOK, InCross, ScanOK, InPlanner, KeyOf
<1> QED BY <1>1, <1>2 DEF Sound, HoldStep

\* A step between two loops that leaves orders and contracts alone.
LEMMA IdleMoves ==
  ASSUME pc # "match", pc' # "match", UNCHANGED <<positions, index>> PROVE Moves
  BY SameIsSame DEF Moves

LEMMA ReturnToClientSound == ASSUME BaseInv, ReturnToClient PROVE Sound
<1>1. /\ pc = "return" /\ UNCHANGED <<positions, index>>
      /\ \/ pc' = "plan" /\ scan'.todo = book[1]["plan_asks"]
         \/ pc' = "idle"
  BY DEF ReturnToClient, accounts
<1>2. Moves
  BY <1>1, IdleMoves
<1>3. book[1]["plan_asks"] \subseteq DOMAIN orders
  <2>1. 1 \in Markets /\ "plan_asks" \in Lists
    BY MarketAssumption DEF Markets, Lists
  <2> QED BY <2>1, ListSorted DEF BaseInv, StateOK, BooksInv
<1>4. ScanOK' /\ CrossOK'
  BY <1>1, <1>3 DEF ScanOK, InPlanner, CrossOK, InCross, index
<1> QED BY <1>1, <1>2, <1>4 DEF Sound, HoldStep

LEMMA PlanSound == ASSUME BaseInv, HoldingsInv, Planning PROVE Sound
<1>1. CASE PlanStep
  <2>1. pc = "plan"
    BY <1>1 DEF PlanStep
  <2>2. PICK i \in scan.todo : PlanSkip(i) \/ PlanOpen(i) \/ PlanClose(i) \/ PlanDangling(i)
    BY <1>1 DEF PlanStep, NextInScan
  <2>3. /\ scan.todo \subseteq DOMAIN orders /\ i \in DOMAIN orders
        /\ orders[i].type # LIMIT /\ orders[i].oper_type = OPEN
        /\ orders[i] \in OrderRec /\ orders[i].left > 0
    <3>1. /\ scan.todo \subseteq DOMAIN orders /\ i \in DOMAIN orders /\ orders[i].type # LIMIT
      BY <2>1 DEF HoldingsInv, ScanOK, InPlanner, BaseInv, StateOK, ControlOK, HandlerOK
    <3>2. orders[i] \in OrderRec /\ orders[i].left > 0
          /\ (orders[i].oper_type = CLOSE => orders[i].type = LIMIT)
      BY <3>1 DEF HoldingsInv, LeftsOK, BaseInv, StateOK, IndexOK, OrdersType
    <3> QED BY <3>1, <3>2 DEF OrderRec
  <2>4. scan \in ScanRec
    BY DEF BaseInv, IterOK
  <2>5. CASE PlanSkip(i)
    <3>1. /\ pc' = "plan" /\ scan' = [scan EXCEPT !.todo = @ \ {i}]
          /\ UNCHANGED <<positions, index>>
      BY <2>5 DEF PlanSkip, Skip, accounts
    <3>2. scan'.todo \subseteq scan.todo /\ orders' = orders
      BY <3>1, <2>4 DEF ScanRec, index
    <3>3. ScanOK' /\ CrossOK'
      BY <2>3, <3>1, <3>2 DEF ScanOK, CrossOK, InCross
    <3> QED BY <2>1, <3>1, <3>3, IdleMoves DEF Sound, HoldStep
  <2>6. CASE PlanOpen(i)
    <3> DEFINE c == copyOrder(orders[i])
               pri == Margin(c.left, c.leverage)
               frozen == [c EXCEPT !.freeze = pri]
    <3>1. /\ Execute(c, c.market, "planner", i) \/ Execute(frozen, c.market, "planner", i)
          /\ scan' = [scan EXCEPT !.todo = @ \ {i}]
          /\ UNCHANGED <<positions, index>>
      BY <2>6 DEF PlanOpen
    <3>2. c \in OrderRec /\ c.left > 0 /\ c.oper_type = OPEN
      <4>1. orders[i].type = PLAN
        BY <2>3 DEF BaseInv, BooksInv, BooksOK
      <4>2. c.left = orders[i].left /\ c.oper_type = orders[i].oper_type
        BY <2>3, <4>1 DEF copyOrder, OrderRec
      <4> QED BY <2>3, <4>2, copyOrderType
    <3> HIDE DEF c
    <3>3. pri \in Int
      <4>1. c.left \in Int /\ c.leverage \in Int
        BY <3>2 DEF OrderRec
      <4> QED BY <4>1, MarginType
    <3> HIDE DEF pri
    <3>4. frozen \in OrderRec /\ frozen.left > 0 /\ frozen.oper_type = OPEN
      BY <3>2, <3>3 DEF OrderRec
    <3> HIDE DEF frozen
    <3>5. /\ pc' = "match" /\ taker' \in {c, frozen} /\ call'.by = "planner" /\ call'.old = i
      BY <3>1 DEF Execute
    <3>6. Opens
      BY <2>1, <3>1, <3>2, <3>4, <3>5 DEF Opens
    <3>7. scan'.todo \subseteq scan.todo /\ i \notin scan'.todo /\ orders' = orders
      BY <3>1, <2>4 DEF ScanRec, index
    <3>8. ScanOK' /\ CrossOK'
      BY <2>3, <3>5, <3>7 DEF ScanOK, CrossOK, InCross
    <3> QED BY <3>5, <3>6, <3>8 DEF Sound, HoldStep
  <2>7. ~PlanClose(i) /\ ~PlanDangling(i)
    BY <2>3 DEF PlanClose, PlanDangling, OPEN, CLOSE
  <2> QED BY <2>2, <2>5, <2>6, <2>7
<1>2. CASE ReturnToPlanner
  <2>1. /\ pc = "return" /\ call.by = "planner" /\ order_finish_future(call.old)
        /\ pc' \in Compares(orders[call.old].market, FinishList(orders[call.old]), "plan")
        /\ UNCHANGED <<positions, scan>>
    BY <1>2 DEF ReturnToPlanner, accounts
  <2>2. /\ call.old \in DOMAIN orders /\ orders[call.old].type # LIMIT
        /\ scan.todo \subseteq DOMAIN orders /\ call.old \notin scan.todo
    BY <2>1 DEF HoldingsInv, ScanOK, InPlanner, BaseInv, StateOK, ControlOK, HandlerOK
  <2>3. orders[call.old].market \in Markets /\ FinishList(orders[call.old]) \in Lists
    BY <2>2, ListOfKind DEF BaseInv, StateOK, IndexOK, OrdersType, OrderRec
  <2>4. pc' = "plan"
    BY <2>1, <2>3, ComparesSafe
  <2>5. DOMAIN orders' = DOMAIN orders \ {call.old}
    BY <2>1 DEF order_finish_future, WithoutEntry
  <2>6. ScanOK' /\ CrossOK'
    BY <2>1, <2>2, <2>4, <2>5 DEF ScanOK, CrossOK, InCross
  <2>7. Moves
    BY <2>1, <2>2, <2>4, SameIsSame DEF Moves
  <2> QED BY <2>4, <2>6, <2>7 DEF Sound, HoldStep
<1>3. CASE PlanAdvance
  <2>1. /\ pc = "plan" /\ UNCHANGED <<positions, index>>
        /\ pc' \in {"plan", "liquidate"}
    BY <1>3 DEF PlanAdvance, accounts
  <2>2. /\ scan \in ScanRec /\ scan.market \in Markets
    BY <2>1 DEF BaseInv, IterOK, StateOK, ControlOK, HandlerOK, InPlanner
  <2>3. pc' = "plan" => scan'.todo \subseteq DOMAIN orders
    <3>1. \A m \in Markets, l \in Lists : book[m][l] \subseteq DOMAIN orders
      BY ListSorted DEF BaseInv, StateOK, BooksInv
    <3>2. CASE scan.list = "plan_asks"
      <4>1. scan'.todo = book[scan.market]["plan_bids"]
        BY <1>3, <2>2, <3>2 DEF PlanAdvance, ScanRec
      <4> QED BY <4>1, <3>1, <2>2 DEF Lists
    <3>3. CASE scan.list # "plan_asks" /\ scan.market < MarketNum
      <4>1. scan'.todo = book[scan.market + 1]["plan_asks"]
        BY <1>3, <3>3 DEF PlanAdvance
      <4>2. scan.market + 1 \in Markets
        BY <2>2, <3>3, MarketAssumption DEF Markets
      <4> QED BY <4>1, <4>2, <3>1 DEF Lists
    <3>4. CASE scan.list # "plan_asks" /\ ~(scan.market < MarketNum)
      BY <1>3, <3>4 DEF PlanAdvance
    <3> QED BY <3>2, <3>3, <3>4
  <2>4. ScanOK' /\ CrossOK'
    BY <2>1, <2>3 DEF ScanOK, InPlanner, CrossOK, InCross, index
  <2> QED BY <2>1, <2>4, IdleMoves DEF Sound, HoldStep
<1> QED BY <1>1, <1>2, <1>3 DEF Planning
\* A forced close promises all the position holds, when nothing else does.
LEMMA BlastPromises ==
  ASSUME BaseInv, FrozenOK, LeftsOK, pc # "match", NEW k \in DOMAIN positions,
         CloseIn(orders, k) = {}, positions' = BlastPosition(k), UNCHANGED index,
         pc' = "match", taker' = BlastOrder(k)
  PROVE  Promises
<1> DEFINE amount == positions[k].position  o == BlastOrder(k)
<1>1. k \in Keys /\ amount \in Int /\ positions[k].frozen \in Int
  BY DEF BaseInv, StateOK, AccountsOK, PositionsType, PositionRec
<1>2. positions[k].frozen = 0
  <2>1. TableOf(orders)
    BY OrdersFinite DEF BaseInv, StateOK
  <2>2. ClaimsIn(orders, k) = 0
    BY <2>1, ClaimsFacts
  <2>3. TakerLeft(k) = 0
    BY TakerLeftFacts
  <2>4. FrozenIn(positions, k) = positions[k].frozen
    BY DEF FrozenIn
  <2>5. FrozenIn(positions, k) = ClaimsIn(orders, k) + TakerLeft(k)
    BY <1>1 DEF FrozenOK
  <2> QED BY <2>2, <2>3, <2>4, <2>5
<1>3. Total(positions[k]) = amount /\ amount > 0
  BY <1>1, <1>2 DEF Total, FrozenOK, HoldingsIn
<1>4. o \in OrderRec /\ o.oper_type = CLOSE /\ o.left = amount /\ KeyOf(o) = k
  <2>1. o \in OrderRec
    BY BlastOrderType DEF BaseInv
  <2>2. o.oper_type = CLOSE /\ o.left = amount /\ KeyOf(o) = <<k[1], k[2], k[3]>>
    BY <1>3 DEF BlastOrder, KeyOf
  <2>3. k = <<k[1], k[2], k[3]>>
    BY <1>1 DEF Keys
  <2> QED BY <2>1, <2>2, <2>3
<1>5. positions' = [positions EXCEPT ![k] = FreezePosition(@, amount)]
  BY DEF BlastPosition
<1> HIDE DEF o, amount
<1>6. taker' = o
  BY DEF o
<1>7. amount <= positions[k].position
  BY <1>1 DEF amount
<1> QED BY <1>1, <1>3, <1>4, <1>5, <1>6, <1>7 DEF Promises

\* When the cancelling loop ends, no order closes the position any more.
LEMMA NothingDoomed ==
  ASSUME BaseInv, pc = "cancel", DoomedOrders = {}
  PROVE  /\ victim.key \in DOMAIN positions
         /\ \A i \in DOMAIN orders : orders[i].oper_type = CLOSE => KeyOf(orders[i]) # victim.key
         /\ CloseIn(orders, victim.key) = {}
<1>1. victim.key \in DOMAIN positions
  BY DEF BaseInv, StateOK, ControlOK, HandlerOK
<1>2. ASSUME NEW i \in DOMAIN orders, orders[i].oper_type = CLOSE, KeyOf(orders[i]) = victim.key
      PROVE  FALSE
  <2>1. /\ orders[i].user = victim.key[1] /\ orders[i].market = victim.key[2]
        /\ orders[i].side = victim.key[3]
    BY <1>2 DEF KeyOf
  <2>2. i \in DoomedOrders
    BY <2>1, <1>2 DEF DoomedOrders, OrdersOf
  <2> QED BY <2>2
<1> QED BY <1>1, <1>2 DEF CloseIn

LEMMA LiquidationSound == ASSUME BaseInv, HoldingsInv, Liquidating PROVE Sound
<1>1. CASE LiquidationPass
  <2>1. pc = "liquidate" /\ pc' \in {"idle", "cancel"} /\ UNCHANGED <<positions, index>>
    BY <1>1 DEF LiquidationPass, accounts
  <2> QED BY <2>1, IdleMoves, LoopsOver DEF Sound, HoldStep
<1>2. CASE LiquidationCancel
  <2>1. PICK i \in DOMAIN orders : pc = "cancel" /\ market_cancel_order(i, "cancel")
    BY <1>2 DEF LiquidationCancel, DoomedOrders, OrdersOf
  <2> QED BY <2>1, CancelSound DEF HoldingsInv
<1>3. CASE IsolatedBlast
  <2>1. /\ pc = "cancel" /\ DoomedOrders = {} /\ positions' = BlastPosition(victim.key)
        /\ UNCHANGED index /\ pc' = "match" /\ taker' = BlastOrder(victim.key)
        /\ call'.by = "liquidation"
    BY <1>3 DEF IsolatedBlast, Execute
  <2>2. Promises
    BY <2>1, NothingDoomed, BlastPromises DEF HoldingsInv
  <2> QED BY <2>1, <2>2, LoopsOver DEF Sound, HoldStep
<1>4. CASE CrossForfeit
  <2>1. /\ pc = "cancel" /\ DoomedOrders = {} /\ pc' = "cross"
        /\ UNCHANGED <<positions, index>>
        /\ victim' = [victim EXCEPT !.todo = Markets \X Sides]
    BY <1>4 DEF CrossForfeit
  <2>2. victim'.key = victim.key
    BY <2>1 DEF BaseInv, IterOK, VictimRec
  <2>3. CrossOK' /\ ScanOK'
    BY <2>1, <2>2, NothingDoomed DEF CrossOK, InCross, ScanOK, InPlanner, index
  <2> QED BY <2>1, <2>3, IdleMoves DEF Sound, HoldStep
<1>5. CASE CrossBlast
  <2>1. PICK e \in victim.todo :
          /\ victim' = [victim EXCEPT !.todo = @ \ {e}]
          /\ \/ /\ victim.key \in DOMAIN positions
                /\ positions' = BlastPosition(victim.key)
                /\ Execute(BlastOrder(victim.key), e[1], "cross", 0)
             \/ UNCHANGED <<positions, pc, taker, call>>
    BY <1>5 DEF CrossBlast
  <2>2. pc = "cross" /\ UNCHANGED index /\ victim'.key = victim.key
    BY <1>5, <2>1 DEF CrossBlast, BaseInv, IterOK, VictimRec
  <2>3. \A i \in DOMAIN orders : orders[i].oper_type = CLOSE => KeyOf(orders[i]) # victim.key
    BY <2>2 DEF HoldingsInv, CrossOK, InCross
  <2>4. CASE UNCHANGED <<positions, pc, taker, call>>
    <3>1. CrossOK' /\ ScanOK'
      BY <2>2, <2>3, <2>4 DEF CrossOK, ScanOK, InPlanner, index
    <3> QED BY <2>2, <2>4, <3>1, IdleMoves DEF Sound, HoldStep
  <2>5. CASE /\ victim.key \in DOMAIN positions
             /\ positions' = BlastPosition(victim.key)
             /\ Execute(BlastOrder(victim.key), e[1], "cross", 0)
    <3>1. pc' = "match" /\ taker' = BlastOrder(victim.key) /\ call'.by = "cross"
      BY <2>5 DEF Execute
    <3>2. CloseIn(orders, victim.key) = {}
      BY <2>3 DEF CloseIn
    <3>3. Promises
      BY <2>2, <2>5, <3>1, <3>2, BlastPromises DEF HoldingsInv
    <3>4. taker'.type = MARKET
      BY <2>5, <3>1, BlastOrderType DEF BaseInv
    <3>5. CrossOK' /\ ScanOK'
      BY <2>2, <2>3, <3>1, <3>4 DEF CrossOK, ScanOK, InPlanner, index
    <3> QED BY <3>1, <3>3, <3>5 DEF Sound, HoldStep
  <2> QED BY <2>1, <2>4, <2>5
<1>6. CASE CrossDone
  <2>1. pc = "cross" /\ pc' = "liquidate" /\ UNCHANGED <<positions, index>>
    BY <1>6 DEF CrossDone, accounts
  <2> QED BY <2>1, IdleMoves, LoopsOver DEF Sound, HoldStep
<1>7. CASE ReturnToLiquidation
  <2>1. /\ pc = "return" /\ UNCHANGED <<positions, index, victim>>
        /\ pc' = IF call.by = "cross" THEN "cross" ELSE "liquidate"
    BY <1>7 DEF ReturnToLiquidation, accounts
  <2>2. CrossOK' /\ ScanOK'
    BY <2>1 DEF HoldingsInv, CrossOK, InCross, ScanOK, InPlanner, index
  <2> QED BY <2>1, <2>2, IdleMoves DEF Sound, HoldStep
<1> QED BY <1>1, <1>2, <1>3, <1>4, <1>5, <1>6, <1>7 DEF Liquidating

\* The requests that only look up or set modes and principals; what they read
\* may not be what they mean to, and the process may crash.
LEMMA AccountRequestKind ==
  ASSUME BaseInv, ModeRequest \/ PrincipalRequest
  PROVE  Moves /\ CrossOK' /\ ScanOK' /\ (pc' = "crash" => ModeRequest)
<1>1. CASE ModeRequest
  <2>1. pc = "idle" /\ pc' \in {"idle", "crash"} /\ UNCHANGED <<positions, index>>
    BY <1>1 DEF ModeRequest, on_cmd_position_query_all, on_cmd_position_mode_query,
                on_cmd_position_mode_adjust, accounts
  <2> QED BY <1>1, <2>1, IdleMoves, LoopsOver
<1>2. CASE PrincipalRequest
  <2>1. PICK k \in Keys, change \in Int : on_cmd_position_adjust_principal(k, change)
    <3>1. PICK k \in Keys, c \in Changes : \/ on_cmd_position_adjust_principal(k, c)
                                           \/ on_cmd_position_adjust_principal(k, -c)
      BY <1>2 DEF PrincipalRequest
    <3>2. c \in Int /\ -c \in Int
      BY PositionRequestsAssumption
    <3> QED BY <3>1, <3>2
  <2>2. /\ pc = "idle" /\ pc' = pc /\ k \in DOMAIN positions /\ UNCHANGED index
        /\ positions' = [positions EXCEPT ![k].principal = @ + change]
    BY <2>1 DEF on_cmd_position_adjust_principal
  <2>3. positions[k] \in PositionRec
    BY <2>2 DEF BaseInv, StateOK, AccountsOK, PositionsType
  <2>4. SameHoldings(positions, positions')
    BY <2>2, <2>3 DEF SameHoldings, PositionRec
  <2> QED BY <2>2, <2>4, LoopsOver DEF Moves
<1> QED BY <1>1, <1>2

\* Every step of the engine is of a kind that keeps the holdings, and only the
\* requests about modes may crash.
LEMMA NextHoldings ==
  ASSUME NoTriggers, BaseInv, HoldingsInv, [Next]_vars
  PROVE  HoldStep /\ CrossOK' /\ ScanOK' /\ (pc' = "crash" => pc = "crash" \/ ModeRequest)
<1>1. CASE OpenRequest
  BY <1>1, OpenRequestArgs, OpenSound DEF Sound
<1>2. CASE CloseRequest
  <2>1. PICK a : ArgsType(a) /\ a.type \in CloseTypes /\ market_put_order_close(a)
    BY <1>2, CloseRequestArgs
  <2> QED BY <2>1, CloseSound DEF NoTriggers, Sound
<1>3. CASE CancelRequest
  <2>1. PICK i \in DOMAIN orders : pc = "idle" /\ market_cancel_order(i, "idle")
    BY <1>3 DEF CancelRequest, OrderCancel
  <2> QED BY <2>1, CancelSound DEF Sound, HoldingsInv
<1>4. CASE ModeRequest \/ PrincipalRequest
  BY <1>4, AccountRequestKind DEF HoldStep
<1>5. CASE Matching
  BY <1>5, MatchSound, RestSound, DropSound, ReturnToClientSound DEF Matching, Sound
<1>6. CASE Planning
  BY <1>6, PlanSound DEF Sound
<1>7. CASE Liquidating
  BY <1>7, LiquidationSound DEF Sound
<1>8. CASE Rejected \/ UNCHANGED vars
  <2>1. UNCHANGED vars
    BY <1>8 DEF Rejected
  <2>2. UNCHANGED <<positions, orders, pc, taker, call, scan, victim>>
    BY <2>1 DEF vars
  <2>3. CrossOK' /\ ScanOK'
    BY <2>2 DEF HoldingsInv, CrossOK, InCross, ScanOK, InPlanner, KeyOf
  <2> QED BY <2>1, <2>2, <2>3 DEF HoldStep
<1> QED BY <1>1, <1>2, <1>3, <1>4, <1>5, <1>6, <1>7, <1>8 DEF Next, Requests

LEMMA HoldingsInit == Init => HoldingsInv
<1> SUFFICES ASSUME Init PROVE HoldingsInv
  OBVIOUS
<1>1. /\ DOMAIN positions = {} /\ DOMAIN orders = {} /\ pc = "idle"
  BY DEF Init
<1>2. HoldingsIn(positions)
  BY <1>1, FS_EmptySet DEF HoldingsIn
<1>3. \A k : CloseIn(orders, k) = {}
  BY <1>1 DEF CloseIn
<1>4. \A k : ClaimsIn(orders, k) = 0 /\ TakerLeft(k) = 0 /\ FrozenIn(positions, k) = 0
  BY <1>1, <1>3, SumOfNone, TakerLeftFacts DEF ClaimsIn, FrozenIn
<1>5. FrozenOK
  BY <1>2, <1>4 DEF FrozenOK
<1>6. LeftsOK /\ CrossOK /\ ScanOK
  BY <1>1 DEF LeftsOK, CrossOK, InCross, ScanOK, InPlanner
<1> QED BY <1>5, <1>6 DEF HoldingsInv

LEMMA HoldingsInvariant == ASSUME NoTriggers PROVE Spec => [](BaseInv /\ HoldingsInv)
<1>1. Init => HoldingsInv
  BY HoldingsInit
<1>2. BaseInv /\ BaseInv' /\ HoldingsInv /\ [Next]_vars => HoldingsInv'
  BY NextHoldings, HoldStepKeeps DEF HoldingsInv, BaseInv
<1>3. NoTpsl
  BY DEF NoTpsl, NoTriggers, MARKET, LIMIT, TPSL
<1>4. Spec => []BaseInv
  BY <1>3, BooksInvariant DEF BaseInv
<1> QED BY <1>1, <1>2, <1>4, PTL DEF Spec

\* In every step of every handler the frozen contracts of a position are those
\* its orders still have to sell, and the free ones are never less than none.
THEOREM FrozenAlwaysCovered ==
  ASSUME CloseTypes \subseteq {MARKET, LIMIT} PROVE Spec => []FrozenCovered
<1>1. BaseInv /\ HoldingsInv => FrozenCovered
  <2> SUFFICES ASSUME BaseInv, HoldingsInv, NEW k \in DOMAIN positions
               PROVE  /\ positions[k].position >= 0
                      /\ positions[k].frozen = SumFunctionOnSet(Lefts, CloseOrders(k)) + TakerLeft(k)
    BY DEF FrozenCovered
  <2>1. Lefts = LeftIn(orders) /\ CloseOrders(k) = CloseIn(orders, k)
    BY DEF Lefts, LeftIn, CloseOrders, CloseIn
  <2>2. k \in Keys /\ FrozenIn(positions, k) = positions[k].frozen /\ positions[k].position >= 0
    BY FrozenFacts DEF HoldingsInv, BaseInv
  <2>3. FrozenIn(positions, k) = ClaimsIn(orders, k) + TakerLeft(k)
    BY <2>2 DEF HoldingsInv, FrozenOK
  <2> QED BY <2>1, <2>2, <2>3 DEF ClaimsIn
<1> QED BY <1>1, HoldingsInvariant, PTL DEF NoTriggers

\* When a position is about to be closed by force, all it holds is free.
THEOREM ForcedCloseAlwaysUnfrozen ==
  ASSUME CloseTypes \subseteq {MARKET, LIMIT} PROVE Spec => []ForcedCloseUnfrozen
<1>1. BaseInv /\ HoldingsInv => ForcedCloseUnfrozen
  <2> SUFFICES ASSUME BaseInv, HoldingsInv, pc = "cancel", DoomedOrders = {}
               PROVE  positions[victim.key].frozen = 0
    BY DEF ForcedCloseUnfrozen
  <2> DEFINE k == victim.key
  <2>1. k \in DOMAIN positions /\ CloseIn(orders, k) = {}
    BY NothingDoomed
  <2> HIDE DEF k
  <2>2. ClaimsIn(orders, k) = 0 /\ TakerLeft(k) = 0
    BY <2>1, SumOfNone, TakerLeftFacts DEF ClaimsIn
  <2>3. k \in Keys /\ FrozenIn(positions, k) = positions[k].frozen
    BY <2>1, FrozenFacts DEF HoldingsInv, BaseInv
  <2>4. positions[k].frozen = 0
    BY <2>2, <2>3 DEF HoldingsInv, FrozenOK
  <2> QED BY <2>4 DEF k
<1> QED BY <1>1, HoldingsInvariant, PTL DEF NoTriggers

\* No handler ever uses a position that is gone or an order that was freed,
\* other than by the requests about modes, which read memory nobody wrote.
THEOREM NeverCrashes ==
  ASSUME CloseTypes \subseteq {MARKET, LIMIT}, ModeOrders = 0 PROVE Spec => []NoCrash
<1>1. Init => NoCrash
  BY DEF Init, NoCrash
<1>2. BaseInv /\ HoldingsInv /\ NoCrash /\ [Next]_vars => NoCrash'
  <2> SUFFICES ASSUME BaseInv, HoldingsInv, NoCrash, [Next]_vars PROVE NoCrash'
    OBVIOUS
  <2>1. ~ModeRequest
    BY DEF ModeRequest, BaseInv, StateOK, IndexOK
  <2> QED BY <2>1, NextHoldings DEF NoTriggers, NoCrash
<1> QED BY <1>1, <1>2, HoldingsInvariant, PTL DEF Spec, NoTriggers

------------------------------------------------------------------------------
(* What clients name                                                        *)

\* Patterns and leverages come from the requests, and go with the order from
\* the books into the position and from the position into the forced close.
NamedIs(r) == r.pattern \in Patterns /\ r.leverage \in Leverages
NamedIn(f) == \A x \in DOMAIN f : NamedIs(f[x])

\* An order is executed in its own market, but for the closes of a cross user.
Placed == pc = "match" /\ call.by # "cross" => taker.market = call.market

Named == NamedIn(positions) /\ NamedIn(orders) /\ (pc = "match" => NamedIs(taker)) /\ Placed

LEMMA FreezeNamed ==
  ASSUME NEW ps, PositionsType(ps), NamedIn(ps), NEW k \in DOMAIN ps, NEW amount
  PROVE  NamedIn([ps EXCEPT ![k] = FreezePosition(@, amount)])
<1> DEFINE q == FreezePosition(ps[k], amount)
<1>1. ps[k] \in PositionRec
  BY DEF PositionsType
<1>2. q.pattern = ps[k].pattern /\ q.leverage = ps[k].leverage
  BY <1>1 DEF FreezePosition, PositionRec
<1> HIDE DEF q
<1>3. NamedIn([ps EXCEPT ![k] = q])
  BY <1>2 DEF NamedIn, NamedIs
<1> QED BY <1>3 DEF q

LEMMA AdjustNamed ==
  ASSUME NEW ps, PositionsType(ps), NamedIn(ps), NEW k, NEW o, NamedIs(o),
         NEW amount, NEW price, NEW fee
  PROVE  NamedIn(adjustPosition(ps, k, o, amount, price, fee))
<1> DEFINE new == IF k \notin DOMAIN ps
                  THEN NewPosition(o.pattern, o.leverage, amount, price, fee)
                  ELSE IF o.oper_type = OPEN
                       THEN OpenInto(ps[k], amount, price, Margin(amount, o.leverage), fee)
                       ELSE CloseFrom(ps[k], amount)
<1>1. NamedIs(new)
  <2>1. CASE k \notin DOMAIN ps
    BY <2>1 DEF NewPosition, NamedIs
  <2>2. CASE k \in DOMAIN ps
    <3>1. ps[k] \in PositionRec /\ NamedIs(ps[k])
      BY <2>2 DEF PositionsType, NamedIn
    <3>2. NamedIs(OpenInto(ps[k], amount, price, Margin(amount, o.leverage), fee))
      BY <3>1 DEF OpenInto, NamedIs, PositionRec
    <3>3. NamedIs(CloseFrom(ps[k], amount))
      <4> DEFINE p == [ps[k] EXCEPT !.principal = @ - Quot(amount * ps[k].principal, Total(ps[k]))]
      <4>1. /\ p.pattern = ps[k].pattern /\ p.leverage = ps[k].leverage
            /\ DOMAIN p = {"pattern", "leverage", "position", "frozen", "price", "principal"}
        BY <3>1 DEF PositionRec
      <4>2. \/ CloseFrom(ps[k], amount) = [p EXCEPT !.position = 0, !.frozen = 0]
            \/ CloseFrom(ps[k], amount) = [p EXCEPT !.frozen = @ - amount]
        BY DEF CloseFrom
      <4> HIDE DEF p
      <4> QED BY <4>1, <4>2, <3>1 DEF NamedIs
    <3> QED BY <2>2, <3>2, <3>3
  <2> QED BY <2>1, <2>2
<1>2. adjustPosition(ps, k, o, amount, price, fee) = StorePosition(ps, k, new)
  BY DEF adjustPosition
<1> HIDE DEF new
<1> QED BY <1>1, <1>2 DEF StorePosition, WithEntry, WithoutEntry, NamedIn

\* Orders leave the index, and enter it.
LEMMA FinishNamed ==
  ASSUME NamedIn(orders), NEW i, order_finish_future(i) PROVE NamedIn(orders')
  BY DEF order_finish_future, WithoutEntry, NamedIn

LEMMA PutNamed ==
  ASSUME NamedIn(orders), NEW m, NEW o, NamedIs(o), order_put_future(m, o)
  PROVE  NamedIn(orders')
  BY DEF order_put_future, WithEntry, NamedIn

LEMMA CancelNamed ==
  ASSUME StateOK, Named, NEW i \in DOMAIN orders, NEW next \in {"idle", "cancel"},
         market_cancel_order(i, next)
  PROVE  Named'
<1> DEFINE k == KeyOf(orders[i])  back == -orders[i].left
<1>1. /\ pc' # "match"
      /\ UNCHANGED orders \/ order_finish_future(i)
      /\ \/ UNCHANGED positions
         \/ /\ k \in DOMAIN positions
            /\ positions' = [positions EXCEPT ![k] = FreezePosition(@, back)]
  BY DEF market_cancel_order, Compares, index
<1> HIDE DEF k, back
<1>2. NamedIn(positions')
  BY <1>1, FreezeNamed DEF Named, StateOK, AccountsOK
<1>3. NamedIn(orders')
  BY <1>1, FinishNamed DEF Named
<1> QED BY <1>1, <1>2, <1>3 DEF Named, Placed

LEMMA MatchNamed == ASSUME StateOK, Named, MatchStep PROVE Named'
<1>1. PICK i \in DOMAIN orders :
        /\ taker \in OrderRec /\ orders[i] \in OrderRec /\ Deal(i)
        /\ taker'.market = taker.market
  BY DealBooks
<1> DEFINE maker  == orders[i]
           amount == IF taker.left < maker.left THEN taker.left ELSE maker.left
           fee1   == amount * TakerFee
           fee2   == amount * MakerFee
           price  == maker.price
           taken  == adjustPosition(positions, KeyOf(taker), taker, amount, price, fee1)
           rest   == adjustOrder(maker, amount)
<1>2. /\ positions' = adjustPosition(taken, KeyOf(maker), maker, amount, price, fee2)
      /\ taker' = adjustOrder(taker, amount)
      /\ order_finish_future(i) \/ orders' = [orders EXCEPT ![i] = rest]
      /\ UNCHANGED call
  BY <1>1 DEF Deal
<1>3. pc = "match" /\ NamedIs(taker) /\ NamedIs(maker) /\ NamedIn(orders) /\ NamedIn(positions)
  BY DEF MatchStep, Named, NamedIn
<1>4. amount \in Int /\ price \in Int /\ fee1 \in Int /\ fee2 \in Int
  <2>1. amount \in Int /\ price \in Int
    BY <1>1 DEF OrderRec
  <2> HIDE DEF amount
  <2> QED BY <2>1, MarketAssumption, SMT
<1> HIDE DEF amount, price, fee1, fee2
<1>5. NamedIs(rest) /\ NamedIs(taker')
  BY <1>1, <1>2, <1>3 DEF adjustOrder, NamedIs, OrderRec
<1>6. PositionsType(positions) /\ PositionsType(taken)
  BY <1>1, <1>4, KeyOfType, adjustPositionType DEF StateOK, AccountsOK
<1>7. NamedIn(taken)
  BY <1>3, <1>6, AdjustNamed
<1> HIDE DEF taken, maker
<1>8. NamedIn(positions')
  BY <1>2, <1>3, <1>6, <1>7, AdjustNamed
<1> HIDE DEF rest
<1>9. NamedIn(orders')
  <2>1. CASE order_finish_future(i)
    BY <2>1, <1>3, FinishNamed
  <2>2. CASE orders' = [orders EXCEPT ![i] = rest]
    BY <2>2, <1>3, <1>5 DEF NamedIn
  <2> QED BY <1>2, <2>1, <2>2
<1>10. Placed'
  BY <1>1, <1>2, <1>3 DEF Named, Placed
<1> QED BY <1>5, <1>8, <1>9, <1>10 DEF Named

\* A step that leaves positions and orders alone and starts no execution.
LEMMA SameNamed ==
  ASSUME Named, pc' # "match", UNCHANGED <<positions, orders>> PROVE Named'
  BY DEF Named, Placed

\* An execution starts.
LEMMA StartNamed ==
  ASSUME Named, NamedIn(positions'), UNCHANGED index, NEW o, NamedIs(o), NEW m, NEW by, NEW old,
         Execute(o, m, by, old), by # "cross" => o.market = m
  PROVE  Named'
<1>1. pc' = "match" /\ taker' = o /\ call'.by = by /\ call'.market = m /\ orders' = orders
  BY DEF Execute, index
<1> QED BY <1>1 DEF Named, Placed

LEMMA RequestNamed == ASSUME StateOK, Named, Requests PROVE Named'
<1>1. CASE OpenRequest
  <2>1. PICK a : a.pattern \in Patterns /\ a.leverage \in Leverages /\ market_put_order_open(a)
    BY <1>1, OpenRequestArgs
  <2> DEFINE mode     == ModeAfter(a)[<<a.user, a.market>>]
             held     == HasPosition(a.user, a.market)
             leverage == IF held THEN LeadPosition(a.user, a.market).leverage ELSE a.leverage
             pri      == Margin(a.volume, IF held THEN leverage ELSE mode.leverage)
             planned  == initOrder(a, OPEN, leverage, 0)
             placed   == initOrder(a, OPEN, leverage, IF a.type = LIMIT THEN pri ELSE 0)
  <2>2. /\ pc = "idle" /\ positions' = positions
        /\ \/ UNCHANGED <<index, pc>>
           \/ order_put_future(a.market, planned) /\ pc' \in {"idle", "crash"}
           \/ Execute(placed, a.market, "client", 0) /\ UNCHANGED index
    BY <2>1 DEF market_put_order_open, Compares
  <2>3. leverage \in Leverages
    <3>1. CASE held
      BY <3>1 DEF HasPosition, LeadPosition, Sides, Named, NamedIn, NamedIs
    <3> QED BY <3>1, <2>1
  <2>4. NamedIs(planned) /\ NamedIs(placed) /\ placed.market = a.market
    BY <2>1, <2>3 DEF NamedIs, initOrder
  <2> HIDE DEF planned, placed
  <2>5. CASE UNCHANGED <<index, pc>>
    BY <2>2, <2>5, SameNamed DEF index
  <2>6. CASE order_put_future(a.market, planned) /\ pc' \in {"idle", "crash"}
    <3>1. NamedIn(orders')
      BY <2>4, <2>6, PutNamed DEF Named
    <3> QED BY <2>2, <2>6, <3>1 DEF Named, Placed
  <2>7. CASE Execute(placed, a.market, "client", 0) /\ UNCHANGED index
    BY <2>2, <2>4, <2>7, StartNamed DEF Named
  <2> QED BY <2>2, <2>5, <2>6, <2>7
<1>2. CASE CloseRequest
  <2>1. PICK a : ArgsType(a) /\ a.pattern \in Patterns /\ market_put_order_close(a)
    BY <1>2, CloseRequestArgs
  <2> DEFINE k == <<a.user, a.market, a.direction>>
             o == initOrder(a, CLOSE, positions[k].leverage, 0)
             amount == a.volume
  <2>2. /\ k \in DOMAIN positions
        /\ \/ /\ positions' = [positions EXCEPT ![k] = FreezePosition(@, amount)]
              /\ Execute(o, a.market, "client", 0) /\ UNCHANGED index
           \/ /\ order_put_future(a.market, o) /\ pc' \in {"idle", "crash"}
              /\ UNCHANGED positions
    BY <2>1 DEF market_put_order_close, Compares
  <2>3. NamedIs(o) /\ o.market = a.market
    BY <2>1, <2>2 DEF Named, NamedIn, NamedIs, initOrder
  <2> HIDE DEF o, k, amount
  <2>4. CASE /\ positions' = [positions EXCEPT ![k] = FreezePosition(@, amount)]
             /\ Execute(o, a.market, "client", 0) /\ UNCHANGED index
    <3>1. NamedIn(positions')
      BY <2>2, <2>4, FreezeNamed DEF Named, StateOK, AccountsOK
    <3> QED BY <2>3, <2>4, <3>1, StartNamed
  <2>5. CASE /\ order_put_future(a.market, o) /\ pc' \in {"idle", "crash"}
             /\ UNCHANGED positions
    <3>1. NamedIn(orders')
      BY <2>3, <2>5, PutNamed DEF Named
    <3> QED BY <2>5, <3>1 DEF Named, Placed
  <2> QED BY <2>2, <2>4, <2>5
<1>3. CASE CancelRequest
  <2>1. PICK i \in DOMAIN orders : market_cancel_order(i, "idle")
    BY <1>3 DEF CancelRequest, OrderCancel
  <2> QED BY <2>1, CancelNamed
<1>4. CASE Rejected
  BY <1>4 DEF Rejected, vars, Named, Placed, NamedIs
<1>5. CASE ModeRequest
  <2>1. pc' \in {"idle", "crash"} /\ UNCHANGED <<positions, orders>>
    BY <1>5 DEF ModeRequest, on_cmd_position_query_all, on_cmd_position_mode_query,
                on_cmd_position_mode_adjust, accounts, index
  <2> QED BY <2>1, SameNamed
<1>6. CASE PrincipalRequest
  <2>1. PICK k, change :
          /\ pc = "idle" /\ pc' = pc /\ UNCHANGED index
          /\ k \in DOMAIN positions
          /\ positions' = [positions EXCEPT ![k].principal = @ + change]
    BY <1>6, Zenon DEF PrincipalRequest, on_cmd_position_adjust_principal
  <2>2. positions[k] \in PositionRec
    BY <2>1 DEF StateOK, AccountsOK, PositionsType
  <2>3. NamedIn(positions')
    BY <2>1, <2>2 DEF Named, NamedIn, NamedIs, PositionRec
  <2> QED BY <2>1, <2>3 DEF Named, Placed, index
<1> QED BY <1>1, <1>2, <1>3, <1>4, <1>5, <1>6 DEF Requests

LEMMA PlanNamed == ASSUME StateOK, IterOK, Named, Planning PROVE Named'
<1>1. ASSUME NEW o, o \in OrderRec, NamedIs(o), NEW freeze
      PROVE  /\ copyOrder(o) \in OrderRec
             /\ NamedIs(copyOrder(o)) /\ NamedIs([copyOrder(o) EXCEPT !.freeze = freeze])
             /\ [copyOrder(o) EXCEPT !.freeze = freeze].market = copyOrder(o).market
  <2> DEFINE c == copyOrder(o)
  <2>1. c \in OrderRec
    BY <1>1, copyOrderType
  <2>2. c.pattern = o.pattern /\ c.leverage = o.leverage
    BY <1>1 DEF copyOrder, OrderRec
  <2> HIDE DEF c
  <2>3. NamedIs(c) /\ NamedIs([c EXCEPT !.freeze = freeze])
        /\ [c EXCEPT !.freeze = freeze].market = c.market
    BY <1>1, <2>1, <2>2 DEF NamedIs, OrderRec
  <2> QED BY <2>1, <2>3 DEF c
<1>2. ASSUME NEW i, i \in DOMAIN orders
      PROVE  orders[i] \in OrderRec /\ NamedIs(orders[i])
  BY <1>2 DEF StateOK, IndexOK, OrdersType, Named, NamedIn
<1>3. CASE PlanStep
  <2>1. PICK i : PlanSkip(i) \/ PlanOpen(i) \/ PlanClose(i) \/ PlanDangling(i)
    BY <1>3 DEF PlanStep
  <2> DEFINE c == copyOrder(orders[i])
             pri == Margin(c.left, c.leverage)
             frozen == [c EXCEPT !.freeze = pri]
             k == KeyOf(orders[i])
             amount == c.left
  <2>2. CASE PlanSkip(i) \/ PlanDangling(i)
    <3>1. pc' \in {"plan", "crash"} /\ UNCHANGED <<positions, orders>>
      BY <2>2 DEF PlanSkip, PlanDangling, Skip, accounts, index
    <3> QED BY <3>1, SameNamed
  <2>3. CASE PlanOpen(i)
    <3>1. /\ i \in DOMAIN orders /\ UNCHANGED <<positions, index>>
          /\ Execute(c, c.market, "planner", i) \/ Execute(frozen, c.market, "planner", i)
      BY <2>3 DEF PlanOpen
    <3>2. NamedIs(c) /\ NamedIs(frozen) /\ frozen.market = c.market
      BY <3>1, <1>1, <1>2
    <3> HIDE DEF c, frozen, pri
    <3> QED BY <3>1, <3>2, StartNamed DEF Named
  <2>4. CASE PlanClose(i)
    <3>1. /\ i \in DOMAIN orders /\ k \in DOMAIN positions /\ UNCHANGED index
          /\ positions' = [positions EXCEPT ![k] = FreezePosition(@, amount)]
          /\ Execute(c, c.market, "planner", i)
      BY <2>4 DEF PlanClose
    <3>2. NamedIs(c)
      BY <3>1, <1>1, <1>2
    <3> HIDE DEF c, amount, k
    <3>3. NamedIn(positions')
      BY <3>1, FreezeNamed DEF Named, StateOK, AccountsOK
    <3> QED BY <3>1, <3>2, <3>3, StartNamed
  <2> QED BY <2>1, <2>2, <2>3, <2>4
<1>4. CASE ReturnToPlanner
  <2>1. /\ order_finish_future(call.old) /\ pc' \in {"plan", "crash"} /\ UNCHANGED positions
    BY <1>4 DEF ReturnToPlanner, Compares, accounts
  <2>2. NamedIn(orders')
    BY <2>1, FinishNamed DEF Named
  <2> QED BY <2>1, <2>2 DEF Named, Placed
<1>5. CASE PlanAdvance
  <2>1. pc' \in {"plan", "liquidate"} /\ UNCHANGED <<positions, orders>>
    BY <1>5 DEF PlanAdvance, accounts, index
  <2> QED BY <2>1, SameNamed
<1> QED BY <1>3, <1>4, <1>5 DEF Planning

LEMMA BlastNamed ==
  ASSUME StateOK, Named, NEW k \in DOMAIN positions
  PROVE  NamedIn(BlastPosition(k)) /\ NamedIs(BlastOrder(k)) /\ BlastOrder(k).market = k[2]
<1> DEFINE amount == positions[k].position
<1>1. BlastPosition(k) = [positions EXCEPT ![k] = FreezePosition(@, amount)]
  BY DEF BlastPosition
<1> HIDE DEF amount
<1>2. NamedIn(BlastPosition(k))
  <2>1. PositionsType(positions) /\ NamedIn(positions)
    BY DEF Named, StateOK, AccountsOK
  <2>2. NamedIn([positions EXCEPT ![k] = FreezePosition(@, amount)])
    BY <2>1, FreezeNamed
  <2> QED BY <1>1, <2>2, Zenon
<1>3. NamedIs(BlastOrder(k)) /\ BlastOrder(k).market = k[2]
  BY DEF BlastOrder, NamedIs, Named, NamedIn
<1> QED BY <1>2, <1>3

LEMMA LiquidationNamed == ASSUME StateOK, Named, Liquidating PROVE Named'
<1>1. CASE LiquidationPass \/ CrossForfeit \/ CrossDone \/ ReturnToLiquidation
  <2>1. pc' \in {"idle", "cancel", "cross", "liquidate"} /\ UNCHANGED <<positions, orders>>
    BY <1>1 DEF LiquidationPass, CrossForfeit, CrossDone, ReturnToLiquidation, accounts, index
  <2> QED BY <2>1, SameNamed
<1>2. CASE LiquidationCancel
  <2>1. PICK i \in DOMAIN orders : market_cancel_order(i, "cancel")
    BY <1>2 DEF LiquidationCancel, DoomedOrders, OrdersOf
  <2> QED BY <2>1, CancelNamed
<1>3. CASE IsolatedBlast
  <2>1. /\ victim.key \in DOMAIN positions
        /\ positions' = BlastPosition(victim.key) /\ UNCHANGED index
        /\ Execute(BlastOrder(victim.key), victim.key[2], "liquidation", 0)
    BY <1>3 DEF IsolatedBlast, StateOK, ControlOK, HandlerOK
  <2> QED BY <2>1, BlastNamed, StartNamed
<1>4. CASE CrossBlast
  <2>1. /\ pc = "cross" /\ UNCHANGED index
        /\ \/ \E m : /\ victim.key \in DOMAIN positions
                     /\ positions' = BlastPosition(victim.key)
                     /\ Execute(BlastOrder(victim.key), m, "cross", 0)
           \/ UNCHANGED <<positions, pc>>
    BY <1>4 DEF CrossBlast
  <2>2. CASE UNCHANGED <<positions, pc>>
    BY <2>1, <2>2, SameNamed DEF index
  <2>3. ASSUME NEW m, victim.key \in DOMAIN positions, positions' = BlastPosition(victim.key),
               Execute(BlastOrder(victim.key), m, "cross", 0)
        PROVE  Named'
    BY <2>1, <2>3, BlastNamed, StartNamed
  <2> QED BY <2>1, <2>2, <2>3
<1> QED BY <1>1, <1>2, <1>3, <1>4 DEF Liquidating

LEMMA NextNamed == ASSUME StateOK, IterOK, Named, [Next]_vars PROVE Named'
<1>1. CASE RestTaker
  <2>1. /\ pc = "match" /\ pc' = "return" /\ order_put_future(call.market, taker)
        /\ UNCHANGED positions
    BY <1>1 DEF RestTaker, NothingToMatch, accounts
  <2>2. NamedIn(orders')
    BY <2>1, PutNamed DEF Named
  <2> QED BY <2>1, <2>2 DEF Named, Placed
<1>2. CASE DropTaker
  <2> DEFINE k == KeyOf(taker)  back == -taker.left
  <2>1. /\ pc' # "match" /\ UNCHANGED orders
        /\ \/ UNCHANGED positions
           \/ /\ k \in DOMAIN positions
              /\ positions' = [positions EXCEPT ![k] = FreezePosition(@, back)]
    BY <1>2 DEF DropTaker, index
  <2> HIDE DEF k, back
  <2>2. NamedIn(positions')
    BY <2>1, FreezeNamed DEF Named, StateOK, AccountsOK
  <2> QED BY <2>1, <2>2 DEF Named, Placed
<1>3. CASE ReturnToClient
  <2>1. pc' \in {"plan", "idle"} /\ UNCHANGED <<positions, orders>>
    BY <1>3 DEF ReturnToClient, accounts, index
  <2> QED BY <2>1, SameNamed
<1>4. CASE UNCHANGED vars
  BY <1>4 DEF vars, Named, Placed, NamedIs
<1> QED BY <1>1, <1>2, <1>3, <1>4, RequestNamed, MatchNamed, PlanNamed, LiquidationNamed
        DEF Next, Matching

LEMMA NamedInvariant == Spec => [](StateOK /\ IterOK /\ Named)
<1>1. Init => StateOK /\ IterOK /\ Named
  BY InitInv DEF Init, Named, NamedIn, Placed
<1>2. StateOK /\ IterOK /\ Named /\ [Next]_vars => (StateOK /\ IterOK /\ Named)'
  BY NextInv, NextNamed
<1> QED BY <1>1, <1>2, PTL DEF Spec

------------------------------------------------------------------------------
(* Every contract has a holder on either side                               *)

HoldersIn(ps, m, s)  == {k \in DOMAIN ps : k[2] = m /\ k[3] = s}
TotalsIn(ps)         == [k \in DOMAIN ps |-> Total(ps[k])]
ContractsIn(ps, m, s) == SumFunctionOnSet(TotalsIn(ps), HoldersIn(ps, m, s))

BalancedIn(ps) == \A m \in Markets : ContractsIn(ps, m, BULL) = ContractsIn(ps, m, BEAR)

LEMMA HoldersFacts ==
  ASSUME NEW ps, PositionsType(ps), IsFiniteSet(DOMAIN ps), NEW m, NEW s
  PROVE  /\ IsFiniteSet(HoldersIn(ps, m, s))
         /\ \A k \in HoldersIn(ps, m, s) : /\ TotalsIn(ps)[k] \in Int
                                           /\ TotalsIn(ps)[k] = HeldIn(ps, k)
         /\ ContractsIn(ps, m, s) \in Int
<1>1. IsFiniteSet(HoldersIn(ps, m, s))
  <2>1. HoldersIn(ps, m, s) \subseteq DOMAIN ps
    BY DEF HoldersIn
  <2> QED BY <2>1, FS_Subset
<1>2. \A k \in HoldersIn(ps, m, s) : /\ TotalsIn(ps)[k] \in Int
                                     /\ TotalsIn(ps)[k] = HeldIn(ps, k)
  BY DEF HoldersIn, TotalsIn, HeldIn, Total, PositionsType, PositionRec
<1> QED BY <1>1, <1>2, SumType DEF ContractsIn

\* One side of a deal changes the contracts of its market and side.
LEMMA AdjustContracts ==
  ASSUME NEW ps, NEW ps2, PositionsType(ps), HoldingsIn(ps), NEW o \in OrderRec,
         NEW amount \in Int, Adjusted(ps, ps2, KeyOf(o), o.oper_type, amount), NEW m, NEW s
  PROVE  ContractsIn(ps2, m, s) = ContractsIn(ps, m, s)
           + IF o.market = m /\ o.side = s
             THEN IF o.oper_type = OPEN THEN amount ELSE -amount ELSE 0
<1> DEFINE k == KeyOf(o)  S == HoldersIn(ps, m, s)  T == HoldersIn(ps2, m, s)
           f == TotalsIn(ps)  g == TotalsIn(ps2)
           mine == o.market = m /\ o.side = s
<1>1. /\ PositionsType(ps2) /\ IsFiniteSet(DOMAIN ps) /\ IsFiniteSet(DOMAIN ps2)
      /\ DOMAIN ps \ {k} = DOMAIN ps2 \ {k}
      /\ \A j \in DOMAIN ps \ {k} : ps2[j] = ps[j]
      /\ HeldIn(ps2, k) = HeldIn(ps, k) + IF o.oper_type = OPEN THEN amount ELSE -amount
  BY DEF Adjusted, HoldingsIn
<1>2. k[2] = o.market /\ k[3] = o.side
  BY DEF KeyOf
<1> HIDE DEF k
<1>3. S \ {k} = T \ {k} /\ \A j \in S \ {k} : g[j] = f[j]
  BY <1>1 DEF HoldersIn, TotalsIn
<1>4. /\ IsFiniteSet(S) /\ \A j \in S : f[j] \in Int /\ f[j] = HeldIn(ps, j)
      /\ IsFiniteSet(T) /\ \A j \in T : g[j] \in Int /\ g[j] = HeldIn(ps2, j)
  BY <1>1, HoldersFacts
<1>5. /\ (IF k \in S THEN f[k] ELSE 0) = IF mine THEN HeldIn(ps, k) ELSE 0
      /\ (IF k \in T THEN g[k] ELSE 0) = IF mine THEN HeldIn(ps2, k) ELSE 0
  <2>1. /\ k \in S <=> k \in DOMAIN ps /\ mine
        /\ k \in T <=> k \in DOMAIN ps2 /\ mine
    BY <1>2 DEF HoldersIn
  <2>2. /\ k \notin DOMAIN ps => HeldIn(ps, k) = 0
        /\ k \notin DOMAIN ps2 => HeldIn(ps2, k) = 0
    BY DEF HeldIn
  <2> HIDE DEF S, T, f, g, mine
  <2> QED BY <2>1, <2>2, <1>4
<1>6. /\ ContractsIn(ps, m, s) = SumFunctionOnSet(f, S) /\ ContractsIn(ps, m, s) \in Int
      /\ ContractsIn(ps2, m, s) = SumFunctionOnSet(g, T)
  BY <1>1, HoldersFacts DEF ContractsIn
<1> HIDE DEF S, T, f, g, mine
<1>7. SumFunctionOnSet(g, T) = SumFunctionOnSet(f, S)
        - (IF k \in S THEN f[k] ELSE 0) + (IF k \in T THEN g[k] ELSE 0)
  BY <1>3, <1>4, SumUpdate
<1>8. HeldIn(ps, k) \in Int /\ HeldIn(ps2, k) \in Int
  BY <1>1, FrozenType
<1>9. ContractsIn(ps2, m, s) = ContractsIn(ps, m, s)
           + IF mine THEN IF o.oper_type = OPEN THEN amount ELSE -amount ELSE 0
  BY <1>1, <1>5, <1>6, <1>7, <1>8
<1> QED BY <1>9 DEF mine

\* A deal: what one side sells in the market the other side buys there.
LEMMA DealBalances ==
  ASSUME NEW ps, NEW taken, NEW ps2, PositionsType(ps), HoldingsIn(ps), BalancedIn(ps),
         NEW t \in OrderRec, NEW o \in OrderRec, t.market = o.market, IsAsk(t) # IsAsk(o),
         NEW amount \in Int, Adjusted(ps, taken, KeyOf(t), t.oper_type, amount),
         Adjusted(taken, ps2, KeyOf(o), o.oper_type, amount)
  PROVE  BalancedIn(ps2)
<1> DEFINE part(x, m, s) == IF x.market = m /\ x.side = s
                            THEN IF x.oper_type = OPEN THEN amount ELSE -amount ELSE 0
<1> SUFFICES ASSUME NEW m \in Markets PROVE ContractsIn(ps2, m, BULL) = ContractsIn(ps2, m, BEAR)
  BY DEF BalancedIn
<1>1. PositionsType(taken) /\ HoldingsIn(taken)
  BY DEF Adjusted
<1>2. ASSUME NEW s
      PROVE  /\ ContractsIn(ps2, m, s) = ContractsIn(ps, m, s) + part(t, m, s) + part(o, m, s)
             /\ ContractsIn(ps, m, s) \in Int
  <2>1. ContractsIn(taken, m, s) = ContractsIn(ps, m, s)
          + IF t.market = m /\ t.side = s THEN IF t.oper_type = OPEN THEN amount ELSE -amount ELSE 0
    <3>1. Adjusted(ps, taken, KeyOf(t), t.oper_type, amount)
      OBVIOUS
    <3> HIDE DEF part
    <3> QED BY ONLY <3>1, PositionsType(ps), HoldingsIn(ps), t \in OrderRec, amount \in Int, AdjustContracts
  <2>2. ContractsIn(ps2, m, s) = ContractsIn(taken, m, s)
          + IF o.market = m /\ o.side = s THEN IF o.oper_type = OPEN THEN amount ELSE -amount ELSE 0
    BY <1>1, AdjustContracts
  <2>3. ContractsIn(ps, m, s) \in Int
    BY HoldersFacts DEF HoldingsIn
  <2>4. /\ ContractsIn(taken, m, s) = ContractsIn(ps, m, s) + part(t, m, s)
        /\ ContractsIn(ps2, m, s) = ContractsIn(taken, m, s) + part(o, m, s)
        /\ part(t, m, s) \in Int /\ part(o, m, s) \in Int
    BY <2>1, <2>2
  <2> HIDE DEF part
  <2> QED BY <2>3, <2>4
<1>3. part(t, m, BULL) + part(o, m, BULL) = part(t, m, BEAR) + part(o, m, BEAR)
  <2>1. /\ t.side \in {BEAR, BULL} /\ o.side \in {BEAR, BULL}
        /\ t.oper_type \in {OPEN, CLOSE} /\ o.oper_type \in {OPEN, CLOSE}
    BY DEF OrderRec, Sides
  <2> QED BY <2>1 DEF IsAsk, BEAR, BULL, OPEN, CLOSE
<1>4. ContractsIn(ps, m, BULL) = ContractsIn(ps, m, BEAR)
  BY DEF BalancedIn
<1>5. \A s : part(t, m, s) \in Int /\ part(o, m, s) \in Int
  OBVIOUS
<1> HIDE DEF part
<1> QED BY <1>2, <1>3, <1>4, <1>5

\* Everything but a deal leaves every account its contracts.
LEMMA SameContracts ==
  ASSUME NEW ps, NEW ps2, PositionsType(ps), HoldingsIn(ps), BalancedIn(ps),
         DOMAIN ps2 = DOMAIN ps, \A k \in DOMAIN ps : HeldIn(ps2, k) = HeldIn(ps, k)
  PROVE  BalancedIn(ps2)
<1>1. ASSUME NEW m, NEW s PROVE ContractsIn(ps2, m, s) = ContractsIn(ps, m, s)
  <2> DEFINE S == HoldersIn(ps, m, s)  f == TotalsIn(ps)  g == TotalsIn(ps2)
  <2>1. HoldersIn(ps2, m, s) = S
    BY DEF HoldersIn
  <2>2. IsFiniteSet(S) /\ \A k \in S : f[k] \in Int /\ f[k] = HeldIn(ps, k)
    BY HoldersFacts DEF HoldingsIn
  <2>3. \A k \in S : g[k] = HeldIn(ps2, k) /\ k \in DOMAIN ps
    BY DEF HoldersIn, TotalsIn, HeldIn
  <2>4. \A k \in S : f[k] \in Int /\ g[k] = f[k]
    BY <2>2, <2>3
  <2> HIDE DEF S, f, g
  <2>5. SumFunctionOnSet(g, S) = SumFunctionOnSet(f, S)
    BY <2>2, <2>4, SumSame
  <2> QED BY <2>1, <2>5 DEF ContractsIn, S, f, g
<1> QED BY <1>1 DEF BalancedIn

LEMMA HoldersStay ==
  ASSUME StateOK, FrozenOK, LeftsOK, HoldStep, ~MatchStep
  PROVE  /\ DOMAIN positions' = DOMAIN positions
         /\ \A k \in DOMAIN positions : HeldIn(positions', k) = HeldIn(positions, k)
<1>1. /\ PositionsType(positions) /\ HoldingsIn(positions)
      /\ \A k \in DOMAIN positions : k \in Keys
  BY FrozenFacts
<1>2. ASSUME NEW k \in DOMAIN positions, NEW amount \in Int, amount <= positions[k].position,
             positions' = [positions EXCEPT ![k] = FreezePosition(@, amount)]
      PROVE  /\ DOMAIN positions' = DOMAIN positions
             /\ \A j \in DOMAIN positions : HeldIn(positions', j) = HeldIn(positions, j)
  <2> DEFINE ps2 == [positions EXCEPT ![k] = FreezePosition(@, amount)]
  <2>1. DOMAIN ps2 = DOMAIN positions /\ \A j \in Keys : HeldIn(ps2, j) = HeldIn(positions, j)
    BY <1>1, <1>2, FreezeHoldings
  <2>2. positions' = ps2
    BY <1>2
  <2> HIDE DEF ps2
  <2> QED BY <2>1, <2>2, <1>1
<1>3. CASE Moves
  BY <1>1, <1>3, SameHoldingsKeep DEF Moves, SameHoldings
<1>4. CASE UNCHANGED positions
  BY <1>4
<1>5. CASE Promises
  BY <1>5, <1>2 DEF Promises
<1>6. CASE GivesBack
  <2>1. PICK i \in DOMAIN orders :
          /\ KeyOf(orders[i]) \in DOMAIN positions
          /\ positions' = [positions EXCEPT ![KeyOf(orders[i])] =
                             FreezePosition(@, -orders[i].left)]
    BY <1>6 DEF GivesBack
  <2> DEFINE k == KeyOf(orders[i])  back == -orders[i].left
  <2>2. orders[i].left \in Int /\ orders[i].left > 0
    BY DEF StateOK, IndexOK, OrdersType, OrderRec, LeftsOK
  <2>3. back \in Int /\ back <= 0
    BY <2>2
  <2>4. k \in DOMAIN positions /\ positions' = [positions EXCEPT ![k] = FreezePosition(@, back)]
    BY <2>1
  <2> HIDE DEF k, back
  <2>5. back <= positions[k].position
    BY <2>3, <2>4, FrozenFacts
  <2> QED BY <2>3, <2>4, <2>5, <1>2
<1>7. CASE DropTaker
  <2> DEFINE k == KeyOf(taker)  back == -taker.left
  <2>1. /\ taker.left \in Int /\ taker.left > 0
        /\ \/ UNCHANGED positions
           \/ k \in DOMAIN positions /\ positions' = [positions EXCEPT ![k] = FreezePosition(@, back)]
    BY <1>7 DEF DropTaker, NothingToMatch, StateOK, ControlOK, OrderRec, LeftsOK
  <2>3. back \in Int /\ back <= 0
    BY <2>1
  <2> HIDE DEF k, back
  <2>5. k \in DOMAIN positions => back <= positions[k].position
    BY <2>3, FrozenFacts
  <2> QED BY <2>1, <2>3, <2>5, <1>2
<1> QED BY <1>3, <1>4, <1>5, <1>6, <1>7 DEF HoldStep, Opens, RestTaker, accounts, vars

\* With one market, or without cross margin, an order is always executed in its
\* own market.
OwnMarket == pc = "match" => taker.market = call.market

LEMMA OwnMarketStep ==
  ASSUME OwnMarket, MatchStep, BaseInv, HoldingsInv, BalancedIn(positions)
  PROVE  BalancedIn(positions')
<1>1. PICK i, amount, taken :
        /\ i \in DOMAIN orders /\ amount \in Int
        /\ orders[i] \in OrderRec /\ taker \in OrderRec
        /\ IsAsk(orders[i]) # IsAsk(taker) /\ orders[i].market = call.market
        /\ Adjusted(positions, taken, KeyOf(taker), taker.oper_type, amount)
        /\ Adjusted(taken, positions', KeyOf(orders[i]), orders[i].oper_type, amount)
        /\ pc = "match"
  BY DealHoldings DEF BaseInv, HoldingsInv
<1>2. taker.market = orders[i].market
  BY <1>1 DEF OwnMarket
<1>3. PositionsType(positions) /\ HoldingsIn(positions)
  BY FrozenFacts DEF BaseInv, HoldingsInv
<1> DEFINE ps2 == positions'
<1>4. Adjusted(taken, ps2, KeyOf(orders[i]), orders[i].oper_type, amount)
  BY <1>1
<1> HIDE DEF ps2
<1>5. BalancedIn(ps2)
  BY <1>1, <1>2, <1>3, <1>4, DealBalances
<1> QED BY <1>5 DEF ps2

LEMMA OneMarketOwn == ASSUME MarketNum = 1, StateOK PROVE OwnMarket
<1> SUFFICES ASSUME pc = "match" PROVE taker.market = call.market
  BY DEF OwnMarket
<1>1. taker.market \in Markets /\ call.market \in Markets
  BY DEF StateOK, ControlOK, HandlerOK, OrderRec
<1>2. \A m \in Markets : m = 1
  BY DEF Markets
<1> QED BY <1>1, <1>2

\* Without cross positions nobody is forfeited.
LEMMA NobodyCross ==
  ASSUME CROSS \notin Patterns, StateOK, Named, ~InCross, [Next]_vars PROVE ~InCross'
<1>1. ~CrossForfeit
  BY DEF CrossForfeit, StateOK, ControlOK, HandlerOK, Named, NamedIn, NamedIs
<1>2. ~CrossBlast
  BY DEF CrossBlast, InCross
<1>3. CASE Requests
  <2>1. \/ pc' \in {"idle", "crash"} \/ (pc' = "match" /\ call'.by = "client")
        \/ UNCHANGED vars
    <3>1. CASE OpenRequest
      <4>1. PICK a : market_put_order_open(a)
        BY <3>1, OpenRequestArgs
      <4> QED BY <4>1 DEF market_put_order_open, Execute, Compares
    <3>2. CASE CloseRequest
      <4>1. PICK a : market_put_order_close(a)
        BY <3>2, CloseRequestArgs
      <4> QED BY <4>1 DEF market_put_order_close, Execute, Compares
    <3>3. CASE CancelRequest
      <4>1. PICK i : market_cancel_order(i, "idle")
        BY <3>3 DEF CancelRequest, OrderCancel
      <4> QED BY <4>1 DEF market_cancel_order, Compares
    <3>4. CASE Rejected
      BY <3>4 DEF Rejected
    <3>5. CASE ModeRequest
      BY <3>5 DEF ModeRequest, on_cmd_position_query_all, on_cmd_position_mode_query,
                  on_cmd_position_mode_adjust
    <3>6. CASE PrincipalRequest
      BY <3>6, Zenon DEF PrincipalRequest, on_cmd_position_adjust_principal
    <3> QED BY <1>3, <3>1, <3>2, <3>3, <3>4, <3>5, <3>6 DEF Requests
  <2> QED BY <2>1 DEF InCross, vars
<1>4. CASE Matching
  BY <1>4 DEF Matching, MatchStep, Deal, RestTaker, DropTaker, NothingToMatch, ReturnToClient, InCross
<1>5. CASE Planning
  <2>1. pc' \in {"plan", "crash", "liquidate"} \/ (pc' = "match" /\ call'.by = "planner")
    BY <1>5 DEF Planning, PlanStep, PlanSkip, PlanOpen, PlanClose, PlanDangling, Skip, Execute,
                ReturnToPlanner, Compares, PlanAdvance
  <2> QED BY <2>1 DEF InCross
<1>6. CASE Liquidating
  <2>1. \/ pc' \in {"idle", "cancel", "crash", "liquidate"}
        \/ (pc' = "match" /\ call'.by = "liquidation")
    BY <1>1, <1>2, <1>6 DEF Liquidating, LiquidationPass, LiquidationCancel, market_cancel_order,
       Compares, IsolatedBlast, Execute, CrossDone, ReturnToLiquidation, InCross
  <2> QED BY <2>1 DEF InCross
<1>7. CASE UNCHANGED vars
  BY <1>7 DEF vars, InCross
<1> QED BY <1>3, <1>4, <1>5, <1>6, <1>7 DEF Next

LEMMA OwnMarketInvariant ==
  ASSUME MarketNum = 1 \/ CROSS \notin Patterns PROVE Spec => []OwnMarket
<1>1. CASE MarketNum = 1
  <2>1. StateOK /\ IterOK /\ Named => OwnMarket
    BY <1>1, OneMarketOwn
  <2> QED BY <2>1, NamedInvariant, PTL
<1>2. CASE CROSS \notin Patterns
  <2>1. Init => ~InCross
    BY DEF Init, InCross
  <2>2. StateOK /\ IterOK /\ Named /\ ~InCross /\ [Next]_vars => ~InCross'
    BY <1>2, NobodyCross
  <2>3. Named /\ ~InCross => OwnMarket
    BY DEF Named, Placed, InCross, OwnMarket
  <2> QED BY <2>1, <2>2, <2>3, NamedInvariant, PTL DEF Spec
<1> QED BY <1>1, <1>2

\* Whatever happens, the longs and the shorts of a market hold the same number
\* of contracts.  (The forced closes of a cross user are executed in the market
\* of another position: with several markets the sides part there.)
THEOREM OpenInterestAlwaysBalanced ==
  ASSUME CloseTypes \subseteq {MARKET, LIMIT}, MarketNum = 1 \/ CROSS \notin Patterns
  PROVE  Spec => []OpenInterestBalanced
<1>1. Init => BalancedIn(positions)
  <2> SUFFICES ASSUME Init PROVE BalancedIn(positions)
    OBVIOUS
  <2>1. \A m, s : HoldersIn(positions, m, s) = {}
    BY DEF Init, HoldersIn
  <2>2. \A m, s : ContractsIn(positions, m, s) = 0
    BY <2>1, SumOfNone DEF ContractsIn
  <2> QED BY <2>2 DEF BalancedIn
<1>2. BaseInv /\ HoldingsInv /\ OwnMarket /\ BalancedIn(positions) /\ [Next]_vars
        => BalancedIn(positions)'
  <2> SUFFICES ASSUME BaseInv, HoldingsInv, OwnMarket, BalancedIn(positions), [Next]_vars
               PROVE  BalancedIn(positions')
    OBVIOUS
  <2>1. HoldStep
    BY NextHoldings DEF NoTriggers
  <2>2. CASE MatchStep
    BY <2>2, OwnMarketStep
  <2>3. CASE ~MatchStep
    <3> DEFINE ps2 == positions'
    <3>1. /\ DOMAIN ps2 = DOMAIN positions
          /\ \A k \in DOMAIN positions : HeldIn(ps2, k) = HeldIn(positions, k)
      BY <2>1, <2>3, HoldersStay DEF BaseInv, HoldingsInv
    <3>2. PositionsType(positions) /\ HoldingsIn(positions)
      BY FrozenFacts DEF BaseInv, HoldingsInv
    <3> HIDE DEF ps2
    <3>3. BalancedIn(ps2)
      BY <3>1, <3>2, SameContracts
    <3> QED BY <3>3 DEF ps2
  <2> QED BY <2>2, <2>3
<1>3. BalancedIn(positions) => OpenInterestBalanced
  <2>1. \A m, s : /\ Holders(m, s) = HoldersIn(positions, m, s)
                  /\ Totals = TotalsIn(positions)
    BY DEF Holders, HoldersIn, Totals, TotalsIn
  <2> QED BY <2>1 DEF BalancedIn, ContractsIn, OpenInterestBalanced
<1> QED BY <1>1, <1>2, <1>3, HoldingsInvariant, OwnMarketInvariant, PTL DEF Spec, NoTriggers
------------------------------------------------------------------------------
(***************************************************************************)
(* The money open orders freeze: that an account holds what its orders     *)
(* froze and have not spent, so that each of them can be cancelled, and    *)
(* holds no more than that if margins come out even.                       *)
(*                                                                         *)
(* This is about an engine in which one leverage is in use (an order       *)
(* freezes the margin of its mode's leverage and spends that of its own),  *)
(* in which balances are stored in the precision they are computed with    *)
(* (a rescaled one no longer has what was frozen), and in which users have *)
(* no cross positions if there are several markets (the liquidation of one *)
(* forfeits what orders of other markets froze).                           *)
(***************************************************************************)

OneLeverage == \A a, b \in Leverages : a = b

\* A contract's value can be divided by every leverage.
Even == \A lv \in Leverages : Unit % lv = 0

\* What is kept for a sum to be paid: no less, and no more if margins are even.
Covers(money, sum) == money >= sum /\ (Even => money = sum)

\* A resting order has its margin frozen, one that waits for its price nothing.
FreezeRight(o) ==
  o.oper_type = OPEN =>
    IF o.type = LIMIT THEN Covers(o.freeze, Margin(o.left, o.leverage)) ELSE o.freeze = 0

Funded(os) == \A i \in DOMAIN os : FreezeRight(os[i])

OpensIn(os, u)  == {i \in DOMAIN os : /\ os[i].user = u
                                      /\ os[i].type = LIMIT
                                      /\ os[i].oper_type = OPEN}
FreezeIn(os)    == [i \in DOMAIN os |-> os[i].freeze]
MoneyIn(os, u)  == SumFunctionOnSet(FreezeIn(os), OpensIn(os, u))
Stake(os, i, u) == IF i \in OpensIn(os, u) THEN os[i].freeze ELSE 0

MoneyOK == \A u \in Users : Covers(balance[u].freeze, MoneyIn(orders, u) + TakerFreeze(u))

FundsOK == /\ Funded(orders)
           /\ pc = "match" /\ taker.type = LIMIT => FreezeRight(taker)

ModesOK == \A k \in DOMAIN position_mode : position_mode[k].leverage \in Leverages

MarginInv == MoneyOK /\ FundsOK /\ ModesOK

\* The hypotheses.
PlainMargins == /\ Quantum = 1 /\ OneLeverage
                /\ ModeOrders = 0 \/ 1 \in Leverages
                /\ MarketNum = 1 \/ CROSS \notin Patterns
------------------------------------------------------------------------------
(* Margins                                                                  *)

LEMMA QuotientIs ==
  ASSUME NEW a \in Nat, NEW lv \in Nat \ {0}
  PROVE  /\ a \div lv \in Nat /\ a % lv \in 0..(lv - 1)
         /\ a = lv * (a \div lv) + (a % lv)
  BY SMT

LEMMA QuotientAtMost ==
  ASSUME NEW q \in Int, NEW r \in Int, NEW lv \in Nat \ {0}, lv * q <= lv * r + (lv - 1)
  PROVE  q <= r
<1> SUFFICES ASSUME q >= r + 1 PROVE FALSE
  OBVIOUS
<1>1. lv * q >= lv * (r + 1)
  BY SMT
<1>2. lv * (r + 1) = lv * r + lv
  BY SMT
<1> QED BY <1>1, <1>2, SMT

\* The margins of two parts are no more than that of the whole.
LEMMA MarginOfParts ==
  ASSUME NEW n \in Nat, NEW m \in Nat, NEW lv \in Nat \ {0}
  PROVE  /\ Margin(n, lv) \in Nat /\ Margin(m, lv) \in Nat /\ Margin(n + m, lv) \in Nat
         /\ Margin(n, lv) + Margin(m, lv) <= Margin(n + m, lv)
         /\ Unit % lv = 0 => Margin(n, lv) + Margin(m, lv) = Margin(n + m, lv)
         /\ Margin(0, lv) = 0
<1> DEFINE a == n * Unit  b == m * Unit
           x == a \div lv y == b \div lv z == (a + b) \div lv
<1>1. a \in Nat /\ b \in Nat /\ a + b \in Nat /\ (n + m) * Unit = a + b /\ 0 * Unit = 0
  BY UnitAssumption, SMT
<1>2. /\ Margin(n, lv) = x /\ Margin(m, lv) = y /\ Margin(n + m, lv) = z
      /\ Margin(0, lv) = 0 \div lv
  BY <1>1 DEF Margin, Quot
<1> HIDE DEF a, b
<1>3. /\ x \in Nat /\ y \in Nat /\ z \in Nat
      /\ a = lv * x + (a % lv) /\ b = lv * y + (b % lv) /\ a + b = lv * z + ((a + b) % lv)
      /\ a % lv \in 0..(lv - 1) /\ b % lv \in 0..(lv - 1) /\ (a + b) % lv \in 0..(lv - 1)
  BY <1>1, QuotientIs
<1> HIDE DEF x, y, z
<1>4. lv * (x + y) = lv * x + lv * y
  BY <1>3, SMT
<1>5. x + y <= z
  <2>1. lv * (x + y) <= lv * z + (lv - 1)
    <3>1. lv * x \in Int /\ lv * y \in Int /\ lv * z \in Int
      BY <1>3
    <3> QED BY <3>1, <1>3, <1>4
  <2>2. x + y \in Int /\ z \in Int
    BY <1>3
  <2> QED BY ONLY <2>1, <2>2, QuotientAtMost
<1>6. ASSUME Unit % lv = 0 PROVE x + y = z
  <2> DEFINE c == Unit \div lv
  <2>1. c \in Nat /\ Unit = lv * c
    BY <1>6, UnitAssumption, QuotientIs
  <2> HIDE DEF c
  <2>2. a = lv * (n * c) /\ b = lv * (m * c) /\ n * c \in Nat /\ m * c \in Nat
    BY <2>1, SMT DEF a, b
  <2>3. a + b = lv * (n * c + m * c)
    BY <2>2, SMT
  <2>4. ASSUME NEW q \in Nat, NEW d \in Nat, NEW r \in 0..(lv - 1), lv * q = lv * d + r
        PROVE  q = d
    <3>1. d <= q
      <4>1. lv * d \in Int /\ lv * q \in Int
        OBVIOUS
      <4>2. lv * d <= lv * q + (lv - 1)
        BY <2>4, <4>1
      <4> QED BY <4>2, QuotientAtMost
    <3>2. q <= d
      <4>1. lv * d \in Int /\ lv * q \in Int
        OBVIOUS
      <4>2. lv * q <= lv * d + (lv - 1)
        BY <2>4, <4>1
      <4> QED BY <4>2, QuotientAtMost
    <3> QED BY <3>1, <3>2
  <2>5. n * c = x /\ m * c = y
    BY <1>3, <2>2, <2>4
  <2>6. n * c + m * c = z
    <3>1. lv * (n * c + m * c) = lv * z + ((a + b) % lv) /\ n * c + m * c \in Nat
      BY <1>3, <2>2, <2>3
    <3> QED BY <3>1, <1>3, <2>4
  <2> QED BY <2>5, <2>6
<1>7. 0 \div lv = 0
  BY SMT
<1> QED BY <1>2, <1>3, <1>5, <1>6, <1>7
------------------------------------------------------------------------------
(* What the account operations do to frozen money                           *)

LEMMA RescaleExact == ASSUME Quantum = 1, NEW a \in Int PROVE Rescale(a) = a
<1>1. a \div 1 = a
  BY SMT
<1> QED BY <1>1 DEF Rescale

Frozen(acc) == {"available", "freeze"} \subseteq DOMAIN acc /\ acc.freeze \in Nat

LEMMA AccountFrozen == ASSUME NEW acc \in Account PROVE Frozen(acc)
  BY DEF Account, Frozen

\* Only transfers touch what is frozen.
LEMMA AvailableOnly ==
  ASSUME NEW acc, Frozen(acc), NEW amount
  PROVE  /\ balance_set(acc, "available", amount).freeze = acc.freeze
         /\ balance_add(acc, "available", amount).freeze = acc.freeze
         /\ balance_sub(acc, "available", amount).freeze = acc.freeze
         /\ Frozen(balance_add(acc, "available", amount))
         /\ Frozen(balance_sub(acc, "available", amount))
<1>1. ASSUME NEW a
      PROVE  /\ [acc EXCEPT !["available"] = a].freeze = acc.freeze
             /\ Frozen([acc EXCEPT !["available"] = a])
  BY DEF Frozen
<1> QED BY <1>1 DEF balance_set, balance_add, balance_sub

LEMMA UnfreezeExact ==
  ASSUME Quantum = 1, NEW acc, Frozen(acc), NEW amount \in Nat, amount <= acc.freeze
  PROVE  /\ CanSub(acc, "freeze", amount)
         /\ balance_unfreeze(acc, amount).freeze = acc.freeze - amount
         /\ Frozen(balance_unfreeze(acc, amount))
<1>1. CanSub(acc, "freeze", amount)
  BY DEF CanSub, Frozen
<1>2. Rescale(acc.freeze - amount) = acc.freeze - amount /\ acc.freeze - amount \in Nat
  BY RescaleExact DEF Frozen
<1> QED BY <1>1, <1>2 DEF balance_unfreeze, Frozen

LEMMA FreezeExact ==
  ASSUME Quantum = 1, NEW acc \in Account, NEW amount \in Nat, amount <= acc.available
  PROVE  balance_freeze(acc, amount).freeze = acc.freeze + amount
<1>1. acc.available \in Int /\ acc.freeze + amount \in Int
  BY DEF Account
<1>2. CanSub(acc, "available", amount) /\ Rescale(acc.freeze + amount) = acc.freeze + amount
  BY <1>1, RescaleExact DEF CanSub
<1> QED BY <1>2 DEF balance_freeze

\* What an order spends of its frozen money in a deal.
Spent(o, amount) ==
  IF o.oper_type = OPEN /\ o.type = LIMIT THEN Margin(amount, o.leverage) ELSE 0

LEMMA adjustBalanceSpends ==
  ASSUME Quantum = 1, NEW acc, Frozen(acc), NEW o \in OrderRec, NEW amount \in Nat,
         NEW fee, NEW pnl, Spent(o, amount) <= acc.freeze
  PROVE  /\ adjustBalance(acc, o, amount, fee, pnl).freeze = acc.freeze - Spent(o, amount)
         /\ Spent(o, amount) \in Nat
         /\ Frozen(adjustBalance(acc, o, amount, fee, pnl))
<1> DEFINE pri == Margin(amount, o.leverage)
           back == IF o.type = LIMIT THEN balance_unfreeze(acc, pri) ELSE acc
           added == balance_add(acc, "available", pnl)
           new == adjustBalance(acc, o, amount, fee, pnl)
<1>1. pri \in Nat /\ acc.freeze \in Int /\ Spent(o, amount) \in Nat
  <2>1. o.leverage \in Nat \ {0}
    BY DEF OrderRec
  <2>2. pri \in Nat
    BY <2>1, MarginOfParts
  <2> QED BY <2>2 DEF Frozen, Spent
<1>2. new = IF o.oper_type = OPEN THEN balance_sub(back, "available", pri)
            ELSE IF o.isblast THEN acc
            ELSE balance_sub(added, "available", fee)
  BY DEF adjustBalance
<1>3. CASE o.oper_type = OPEN
  <2>1. back.freeze = acc.freeze - Spent(o, amount) /\ Frozen(back)
    <3>1. CASE o.type = LIMIT
      <4>1. Spent(o, amount) = pri
        BY <1>3, <3>1 DEF Spent
      <4> HIDE DEF pri
      <4>2. back = balance_unfreeze(acc, pri)
        BY <3>1
      <4> HIDE DEF back
      <4> QED BY <1>1, <4>1, <4>2, UnfreezeExact
    <3>2. CASE o.type # LIMIT
      BY <1>1, <3>2 DEF Spent
    <3> QED BY <3>1, <3>2
  <2>2. new = balance_sub(back, "available", pri)
    BY <1>2, <1>3
  <2> HIDE DEF new, back, pri
  <2>3. new.freeze = back.freeze /\ Frozen(new)
    BY <2>1, <2>2, AvailableOnly
  <2> QED BY <1>1, <2>1, <2>3 DEF new
<1>4. CASE o.oper_type # OPEN
  <2>1. Spent(o, amount) = 0
    BY <1>4 DEF Spent
  <2>2. new = acc \/ new = balance_sub(added, "available", fee)
    BY <1>2, <1>4
  <2> HIDE DEF new
  <2>3. added.freeze = acc.freeze /\ Frozen(added)
    BY AvailableOnly
  <2> HIDE DEF added
  <2>4. new.freeze = acc.freeze /\ Frozen(new)
    BY <2>2, <2>3, AvailableOnly
  <2> QED BY <1>1, <2>1, <2>4 DEF new
<1> QED BY <1>3, <1>4
------------------------------------------------------------------------------
(* What the orders of a table froze                                         *)

TableFunded(os) == TableOf(os) /\ Funded(os)

LEMMA FreezeIsNat ==
  ASSUME NEW o \in OrderRec, o.left >= 0, FreezeRight(o), o.oper_type = OPEN
  PROVE  /\ o.freeze \in Nat /\ Margin(o.left, o.leverage) \in Nat
         /\ o.type = LIMIT => o.freeze >= Margin(o.left, o.leverage)
         /\ o.type # LIMIT => o.freeze = 0
<1>1. o.freeze \in Int /\ o.left \in Nat /\ o.leverage \in Nat \ {0}
  BY DEF OrderRec
<1>2. Margin(o.left, o.leverage) \in Nat
  BY <1>1, MarginOfParts
<1> QED BY <1>1, <1>2 DEF FreezeRight, Covers

LEMMA MoneyFacts ==
  ASSUME NEW os, TableFunded(os), NEW u
  PROVE  /\ OpensIn(os, u) \subseteq DOMAIN os /\ IsFiniteSet(OpensIn(os, u))
         /\ \A i \in OpensIn(os, u) : /\ FreezeIn(os)[i] = os[i].freeze
                                      /\ os[i].freeze \in Nat
         /\ MoneyIn(os, u) \in Nat
         /\ \A i \in OpensIn(os, u) : os[i].freeze <= MoneyIn(os, u)
         /\ OpensIn(os, u) = {} => MoneyIn(os, u) = 0
<1>1. OpensIn(os, u) \subseteq DOMAIN os /\ IsFiniteSet(OpensIn(os, u))
  <2>1. OpensIn(os, u) \subseteq DOMAIN os
    BY DEF OpensIn
  <2> QED BY <2>1, FS_Subset DEF TableOf, TableFunded
<1>2. \A i \in OpensIn(os, u) : FreezeIn(os)[i] = os[i].freeze /\ os[i].freeze \in Nat
  <2> SUFFICES ASSUME NEW i \in OpensIn(os, u)
               PROVE  FreezeIn(os)[i] = os[i].freeze /\ os[i].freeze \in Nat
    OBVIOUS
  <2>1. /\ i \in DOMAIN os /\ os[i] \in OrderRec /\ os[i].left > 0 /\ FreezeRight(os[i])
        /\ os[i].oper_type = OPEN /\ os[i].left \in Int
    BY DEF OpensIn, TableFunded, TableOf, Funded, OrderRec
  <2>2. os[i].left >= 0
    BY <2>1
  <2>3. os[i].freeze \in Nat
    BY <2>1, <2>2, FreezeIsNat
  <2> QED BY <2>1, <2>3 DEF FreezeIn
<1>3. /\ MoneyIn(os, u) \in Nat
      /\ \A i \in OpensIn(os, u) : FreezeIn(os)[i] <= MoneyIn(os, u)
  BY <1>1, <1>2, SumOfNat DEF MoneyIn
<1>4. OpensIn(os, u) = {} => MoneyIn(os, u) = 0
  BY SumOfNone DEF MoneyIn
<1> QED BY <1>1, <1>2, <1>3, <1>4

\* One order comes, goes or changes.
LEMMA MoneyUpdate ==
  ASSUME NEW os, NEW os2, TableFunded(os), TableFunded(os2), NEW i,
         DOMAIN os \ {i} = DOMAIN os2 \ {i}, \A j \in DOMAIN os \ {i} : os2[j] = os[j], NEW u
  PROVE  /\ MoneyIn(os2, u) = MoneyIn(os, u) - Stake(os, i, u) + Stake(os2, i, u)
         /\ MoneyIn(os, u) \in Nat /\ MoneyIn(os2, u) \in Nat
         /\ Stake(os, i, u) \in Nat /\ Stake(os2, i, u) \in Nat
         /\ Stake(os, i, u) <= MoneyIn(os, u)
<1> DEFINE S == OpensIn(os, u)  T == OpensIn(os2, u)
           f == FreezeIn(os)    g == FreezeIn(os2)
<1>1. S \ {i} = T \ {i}
  BY DEF OpensIn
<1>2. /\ IsFiniteSet(S) /\ \A j \in S : f[j] \in Nat /\ f[j] = os[j].freeze
      /\ IsFiniteSet(T) /\ \A j \in T : g[j] \in Nat /\ g[j] = os2[j].freeze
  BY MoneyFacts
<1>3. \A j \in S \ {i} : g[j] = f[j]
  BY DEF FreezeIn, OpensIn
<1>4. /\ IsFiniteSet(S) /\ \A j \in S : f[j] \in Int
      /\ IsFiniteSet(T) /\ \A j \in T : g[j] \in Int
  BY <1>2
<1> HIDE DEF S, T, f, g
<1>5. SumFunctionOnSet(g, T) = SumFunctionOnSet(f, S)
        - (IF i \in S THEN f[i] ELSE 0) + (IF i \in T THEN g[i] ELSE 0)
  BY <1>1, <1>3, <1>4, SumUpdate
<1>6. /\ (IF i \in S THEN f[i] ELSE 0) = Stake(os, i, u)
      /\ (IF i \in T THEN g[i] ELSE 0) = Stake(os2, i, u)
  BY <1>2 DEF Stake, S, T
<1>7. /\ MoneyIn(os, u) = SumFunctionOnSet(f, S) /\ MoneyIn(os, u) \in Nat
      /\ MoneyIn(os2, u) = SumFunctionOnSet(g, T) /\ MoneyIn(os2, u) \in Nat
  BY MoneyFacts DEF MoneyIn, S, T, f, g
<1>8. Stake(os, i, u) \in Nat /\ Stake(os2, i, u) \in Nat /\ Stake(os, i, u) <= MoneyIn(os, u)
  BY MoneyFacts DEF Stake
<1> QED BY <1>5, <1>6, <1>7, <1>8
------------------------------------------------------------------------------
(* How the index moves, as the money sees it                                *)

\* The state the lemmas are about, and the one a step leaves.
Ready == StateOK /\ LeftsOK /\ FundsOK

LEMMA ReadyTable == ASSUME Ready PROVE TableFunded(orders)
  BY OrdersFinite DEF Ready, StateOK, FundsOK, TableFunded

LEMMA NextTable ==
  ASSUME StateOK', LeftsOK', Funded(orders') PROVE TableFunded(orders')
<1>1. OrdersLeft(orders') /\ IndexOK'
  BY DEF LeftsOK, OrdersLeft, StateOK
<1> QED BY <1>1, TableIs DEF TableFunded

\* An order is filed.
LEMMA PutMoney ==
  ASSUME Ready, StateOK', LeftsOK', NEW m, NEW o \in OrderRec, order_put_future(m, o),
         FreezeRight(o)
  PROVE  /\ Funded(orders')
         /\ \A u : /\ MoneyIn(orders, u) \in Nat
                   /\ MoneyIn(orders', u) = MoneyIn(orders, u)
                        + IF o.user = u /\ o.type = LIMIT /\ o.oper_type = OPEN
                          THEN o.freeze ELSE 0
<1> DEFINE id == order_id_start + 1
<1>1. /\ DOMAIN orders' = DOMAIN orders \cup {id} /\ orders'[id] = o
      /\ \A i \in DOMAIN orders : orders'[i] = orders[i]
      /\ id \notin DOMAIN orders
  BY DEF order_put_future, WithEntry, Ready, StateOK, IndexOK, OrdersType
<1> HIDE DEF id
<1>2. Funded(orders')
  BY <1>1 DEF Funded, Ready, FundsOK
<1>3. TableFunded(orders) /\ TableFunded(orders')
  BY <1>2, ReadyTable, NextTable
<1>4. ASSUME NEW u
      PROVE  /\ MoneyIn(orders, u) \in Nat
             /\ MoneyIn(orders', u) = MoneyIn(orders, u)
                  + IF o.user = u /\ o.type = LIMIT /\ o.oper_type = OPEN THEN o.freeze ELSE 0
  <2>1. Stake(orders, id, u) = 0
    BY <1>1 DEF Stake, OpensIn
  <2>2. Stake(orders', id, u) = IF o.user = u /\ o.type = LIMIT /\ o.oper_type = OPEN
                                THEN o.freeze ELSE 0
    BY <1>1 DEF Stake, OpensIn
  <2>3. /\ MoneyIn(orders', u) = MoneyIn(orders, u) - Stake(orders, id, u) + Stake(orders', id, u)
        /\ MoneyIn(orders, u) \in Nat /\ Stake(orders', id, u) \in Nat
    BY <1>1, <1>3, MoneyUpdate
  <2> QED BY <2>1, <2>2, <2>3
<1> QED BY <1>2, <1>4

\* An order leaves the index.
LEMMA FinishMoney ==
  ASSUME Ready, StateOK', LeftsOK', NEW i \in DOMAIN orders, order_finish_future(i)
  PROVE  /\ Funded(orders')
         /\ \A u : /\ MoneyIn(orders, u) \in Nat /\ Stake(orders, i, u) \in Nat
                   /\ MoneyIn(orders', u) \in Nat
                   /\ MoneyIn(orders', u) = MoneyIn(orders, u) - Stake(orders, i, u)
<1>1. /\ DOMAIN orders' = DOMAIN orders \ {i}
      /\ \A j \in DOMAIN orders' : orders'[j] = orders[j]
  BY DEF order_finish_future, WithoutEntry
<1>2. Funded(orders')
  BY <1>1 DEF Funded, Ready, FundsOK
<1>3. TableFunded(orders) /\ TableFunded(orders')
  BY <1>2, ReadyTable, NextTable
<1>4. ASSUME NEW u
      PROVE  /\ MoneyIn(orders, u) \in Nat /\ Stake(orders, i, u) \in Nat
             /\ MoneyIn(orders', u) \in Nat
             /\ MoneyIn(orders', u) = MoneyIn(orders, u) - Stake(orders, i, u)
  <2>1. Stake(orders', i, u) = 0
    BY <1>1 DEF Stake, OpensIn
  <2>2. /\ MoneyIn(orders', u) = MoneyIn(orders, u) - Stake(orders, i, u) + Stake(orders', i, u)
        /\ MoneyIn(orders, u) \in Nat /\ Stake(orders, i, u) \in Nat
        /\ MoneyIn(orders', u) \in Nat
    <3>1. DOMAIN orders \ {i} = DOMAIN orders' \ {i} /\ \A j \in DOMAIN orders \ {i} : orders'[j] = orders[j]
      BY <1>1
    <3> QED BY ONLY <1>3, <3>1, MoneyUpdate
  <2> QED BY <2>1, <2>2
<1> QED BY <1>2, <1>4

\* An order shrinks.
LEMMA ShrinkMoney ==
  ASSUME Ready, StateOK', LeftsOK', NEW i \in DOMAIN orders, NEW o \in OrderRec,
         orders' = [orders EXCEPT ![i] = o], FreezeRight(o),
         o.user = orders[i].user, o.type = orders[i].type, o.oper_type = orders[i].oper_type
  PROVE  /\ Funded(orders')
         /\ \A u : /\ MoneyIn(orders, u) \in Nat
                   /\ MoneyIn(orders', u) \in Nat
                   /\ MoneyIn(orders', u) = MoneyIn(orders, u)
                        - IF i \in OpensIn(orders, u) THEN orders[i].freeze - o.freeze ELSE 0
<1>1. /\ DOMAIN orders' = DOMAIN orders /\ orders'[i] = o
      /\ \A j \in DOMAIN orders \ {i} : orders'[j] = orders[j]
  OBVIOUS
<1>2. Funded(orders')
  BY <1>1 DEF Funded, Ready, FundsOK
<1>3. TableFunded(orders) /\ TableFunded(orders')
  BY <1>2, ReadyTable, NextTable
<1>4. ASSUME NEW u
      PROVE  /\ MoneyIn(orders, u) \in Nat /\ MoneyIn(orders', u) \in Nat
             /\ MoneyIn(orders', u) = MoneyIn(orders, u)
                  - IF i \in OpensIn(orders, u) THEN orders[i].freeze - o.freeze ELSE 0
  <2>1. i \in OpensIn(orders', u) <=> i \in OpensIn(orders, u)
    BY <1>1 DEF OpensIn
  <2>2. /\ Stake(orders, i, u) = IF i \in OpensIn(orders, u) THEN orders[i].freeze ELSE 0
        /\ Stake(orders', i, u) = IF i \in OpensIn(orders, u) THEN o.freeze ELSE 0
    BY <1>1, <2>1 DEF Stake
  <2>3. /\ MoneyIn(orders', u) = MoneyIn(orders, u) - Stake(orders, i, u) + Stake(orders', i, u)
        /\ MoneyIn(orders, u) \in Nat /\ MoneyIn(orders', u) \in Nat
    <3>1. DOMAIN orders \ {i} = DOMAIN orders' \ {i}
      BY <1>1
    <3> QED BY ONLY <1>1, <1>3, <3>1, MoneyUpdate
  <2>4. orders[i].freeze \in Int /\ o.freeze \in Int
    BY <1>3 DEF TableFunded, TableOf, OrderRec
  <2> QED BY <2>2, <2>3, <2>4
<1> QED BY <1>2, <1>4

LEMMA TakerFreezeFacts ==
  ASSUME NEW u
  PROVE  /\ pc # "match" => TakerFreeze(u) = 0
         /\ pc = "match" =>
              TakerFreeze(u) = IF taker.user = u /\ taker.type = LIMIT /\ taker.oper_type = OPEN
                               THEN taker.freeze ELSE 0
         /\ pc' # "match" => TakerFreeze(u)' = 0
         /\ pc' = "match" =>
              TakerFreeze(u)' = IF taker'.user = u /\ taker'.type = LIMIT /\ taker'.oper_type = OPEN
                                THEN taker'.freeze ELSE 0
  BY DEF TakerFreeze

LEMMA TakerFreezeType ==
  ASSUME Ready, NEW u
  PROVE  TakerFreeze(u) \in Nat
<1>1. CASE pc = "match" /\ taker.type = LIMIT /\ taker.oper_type = OPEN
  <2>1. taker \in OrderRec /\ taker.left > 0 /\ FreezeRight(taker) /\ taker.left \in Int
    BY <1>1 DEF Ready, StateOK, ControlOK, LeftsOK, FundsOK, OrderRec
  <2>2. taker.left >= 0
    BY <2>1
  <2>3. taker.freeze \in Nat
    BY <1>1, <2>1, <2>2, FreezeIsNat
  <2> QED BY <2>3, TakerFreezeFacts
<1>2. CASE ~(pc = "match" /\ taker.type = LIMIT /\ taker.oper_type = OPEN)
  BY <1>2, TakerFreezeFacts
<1> QED BY <1>1, <1>2

\* What an account has frozen is a number, and so is what it owes its orders.
LEMMA MoneyTypes ==
  ASSUME Ready, MoneyOK, NEW u \in Users
  PROVE  /\ balance[u] \in Account /\ balance[u].freeze \in Nat
         /\ MoneyIn(orders, u) \in Nat /\ TakerFreeze(u) \in Nat
         /\ balance[u].freeze >= MoneyIn(orders, u) + TakerFreeze(u)
         /\ Even => balance[u].freeze = MoneyIn(orders, u) + TakerFreeze(u)
<1>1. balance[u] \in Account /\ balance[u].freeze \in Nat
  BY DEF Ready, StateOK, AccountsOK, Account
<1>2. MoneyIn(orders, u) \in Nat /\ TakerFreeze(u) \in Nat
  BY ReadyTable, MoneyFacts, TakerFreezeType
<1> QED BY <1>1, <1>2 DEF MoneyOK, Covers
------------------------------------------------------------------------------
(* The kinds of steps, as the money sees them                               *)

\* Frozen money stays as it is, or is forfeited by somebody without open orders;
\* the orders that come and go have none.
KeepsMoney ==
  /\ pc # "match" /\ pc' # "match"
  /\ \A u \in Users : \/ balance'[u].freeze = balance[u].freeze
                      \/ balance'[u].freeze = 0 /\ OpensIn(orders, u) = {}
  /\ \/ UNCHANGED index
     \/ \E m \in Markets, o \in OrderRec :
          /\ o.type # LIMIT /\ (o.oper_type = OPEN => o.freeze = 0)
          /\ order_put_future(m, o)
     \/ \E i \in DOMAIN orders :
          /\ orders[i].oper_type = OPEN => ~(orders[i].freeze > 0)
          /\ order_finish_future(i)

\* An open order is cancelled.
Refunds ==
  /\ pc # "match" /\ pc' # "match"
  /\ \E i \in DOMAIN orders :
       /\ orders[i].oper_type = OPEN /\ orders[i].freeze > 0
       /\ balance' = [balance EXCEPT ![orders[i].user] = balance_unfreeze(@, orders[i].freeze)]
       /\ order_finish_future(i)

\* execute_order starts, and has the margin frozen if it may have to rest.
Funds ==
  /\ pc # "match" /\ pc' = "match" /\ UNCHANGED index
  /\ \/ /\ taker'.type = LIMIT /\ taker'.oper_type = OPEN
        /\ taker'.freeze = Margin(taker'.left, taker'.leverage)
        /\ taker'.freeze <= balance[taker'.user].available
        /\ balance' = [balance EXCEPT ![taker'.user] = balance_freeze(@, taker'.freeze)]
     \/ /\ ~(taker'.type = LIMIT /\ taker'.oper_type = OPEN)
        /\ UNCHANGED balance

MoneyStep == \/ KeepsMoney \/ Refunds \/ Funds
             \/ MatchStep \/ RestTaker \/ DropTaker \/ UNCHANGED vars

LEMMA CoversSame == ASSUME NEW a, NEW b, NEW c, NEW d, Covers(a, b), c = a, d = b PROVE Covers(c, d)
  OBVIOUS

LEMMA KeepsMoneyKeeps ==
  ASSUME Ready, MoneyOK, StateOK', LeftsOK', KeepsMoney PROVE MoneyOK' /\ FundsOK'
<1>1. \A u : TakerFreeze(u) = 0 /\ TakerFreeze(u)' = 0
  BY TakerFreezeFacts DEF KeepsMoney
<1>2. Funded(orders') /\ \A u : MoneyIn(orders', u) = MoneyIn(orders, u)
  <2>1. CASE UNCHANGED index
    BY <2>1 DEF index, Ready, FundsOK
  <2>2. ASSUME NEW m \in Markets, NEW o \in OrderRec, o.type # LIMIT,
               o.oper_type = OPEN => o.freeze = 0, order_put_future(m, o)
        PROVE  Funded(orders') /\ \A u : MoneyIn(orders', u) = MoneyIn(orders, u)
    <3>1. FreezeRight(o)
      BY <2>2 DEF FreezeRight
    <3>2. /\ Funded(orders')
          /\ \A u : /\ MoneyIn(orders, u) \in Nat
                    /\ MoneyIn(orders', u) = MoneyIn(orders, u)
                         + IF o.user = u /\ o.type = LIMIT /\ o.oper_type = OPEN
                           THEN o.freeze ELSE 0
      BY ONLY Ready, StateOK', LeftsOK', <2>2, <3>1, PutMoney
    <3> QED BY <2>2, <3>2
  <2>3. ASSUME NEW i \in DOMAIN orders, orders[i].oper_type = OPEN => ~(orders[i].freeze > 0),
               order_finish_future(i)
        PROVE  Funded(orders') /\ \A u : MoneyIn(orders', u) = MoneyIn(orders, u)
    <3>1. /\ Funded(orders')
          /\ \A u : /\ MoneyIn(orders, u) \in Nat /\ Stake(orders, i, u) \in Nat
                    /\ MoneyIn(orders', u) = MoneyIn(orders, u) - Stake(orders, i, u)
      BY <2>3, FinishMoney
    <3>2. \A u : Stake(orders, i, u) \in Nat => Stake(orders, i, u) = 0
      BY <2>3 DEF Stake, OpensIn
    <3> QED BY <3>1, <3>2
  <2> QED BY <2>1, <2>2, <2>3 DEF KeepsMoney
<1>3. MoneyOK'
  <2> SUFFICES ASSUME NEW u \in Users
               PROVE  Covers(balance'[u].freeze, MoneyIn(orders', u) + TakerFreeze(u)')
    BY DEF MoneyOK
  <2>1. Covers(balance[u].freeze, MoneyIn(orders, u) + TakerFreeze(u))
    BY DEF MoneyOK
  <2>2. MoneyIn(orders', u) = MoneyIn(orders, u) /\ TakerFreeze(u)' = TakerFreeze(u)
    BY <1>1, <1>2
  <2>3. CASE balance'[u].freeze = balance[u].freeze
    BY <2>1, <2>2, <2>3
  <2>4. CASE balance'[u].freeze = 0 /\ OpensIn(orders, u) = {}
    <3>1. MoneyIn(orders, u) = 0
      BY <2>4, ReadyTable, MoneyFacts
    <3> QED BY <1>1, <2>2, <2>4, <3>1 DEF Covers
  <2> QED BY <2>3, <2>4 DEF KeepsMoney
<1>4. FundsOK'
  BY <1>2 DEF FundsOK, KeepsMoney, Funded, FreezeRight, Covers
<1> QED BY <1>3, <1>4

LEMMA RefundsKeep ==
  ASSUME Quantum = 1, Ready, MoneyOK, StateOK', LeftsOK', Refunds PROVE MoneyOK' /\ FundsOK'
<1>1. PICK i \in DOMAIN orders :
        /\ orders[i].oper_type = OPEN /\ orders[i].freeze > 0
        /\ balance' = [balance EXCEPT ![orders[i].user] = balance_unfreeze(@, orders[i].freeze)]
        /\ order_finish_future(i)
  BY DEF Refunds
<1> DEFINE v == orders[i].user  f == orders[i].freeze
<1>2. i \in OpensIn(orders, v) /\ v \in Users /\ f \in Nat
  <2>1. orders[i] \in OrderRec /\ FreezeRight(orders[i]) /\ orders[i].freeze \in Int
    BY DEF Ready, StateOK, IndexOK, OrdersType, FundsOK, Funded, OrderRec
  <2>2. orders[i].type = LIMIT
    BY <1>1, <2>1 DEF FreezeRight
  <2> QED BY <1>1, <2>1, <2>2 DEF OpensIn, OrderRec
<1>3. /\ Funded(orders')
      /\ \A u : /\ MoneyIn(orders, u) \in Nat /\ MoneyIn(orders', u) \in Nat
                /\ MoneyIn(orders', u) = MoneyIn(orders, u) - Stake(orders, i, u)
                /\ Stake(orders, i, u) \in Nat
  BY <1>1, FinishMoney
<1>4. \A u : Stake(orders, i, u) = IF u = v THEN f ELSE 0
  BY <1>2 DEF Stake, OpensIn
<1>5. \A u : TakerFreeze(u) = 0 /\ TakerFreeze(u)' = 0
  BY TakerFreezeFacts DEF Refunds
<1>6. ASSUME NEW u \in Users
      PROVE  /\ balance[u].freeze \in Nat
             /\ balance'[u].freeze = balance[u].freeze - Stake(orders, i, u)
  <2>1. /\ balance[u] \in Account /\ balance[u].freeze \in Nat
        /\ balance[u].freeze >= MoneyIn(orders, u) + TakerFreeze(u)
    BY MoneyTypes
  <2>2. f <= balance[u].freeze \/ u # v
    <3> SUFFICES ASSUME u = v PROVE f <= balance[u].freeze
      OBVIOUS
    <3>1. f <= MoneyIn(orders, u)
      BY <1>2, ReadyTable, MoneyFacts
    <3> QED BY <1>2, <1>3, <1>5, <2>1, <3>1
  <2>3. u = v => balance_unfreeze(balance[u], f).freeze = balance[u].freeze - f
    BY <1>2, <2>1, <2>2, AccountFrozen, UnfreezeExact
  <2>4. balance'[u] = IF u = v THEN balance_unfreeze(balance[u], f) ELSE balance[u]
    BY <1>1 DEF Ready, StateOK, AccountsOK
  <2> QED BY <1>4, <2>1, <2>3, <2>4
<1>7. MoneyOK'
  <2> SUFFICES ASSUME NEW u \in Users
               PROVE  Covers(balance'[u].freeze, MoneyIn(orders', u) + TakerFreeze(u)')
    BY DEF MoneyOK
  <2>1. Covers(balance[u].freeze, MoneyIn(orders, u) + TakerFreeze(u))
    BY DEF MoneyOK
  <2>2. /\ balance'[u].freeze = balance[u].freeze - Stake(orders, i, u)
        /\ MoneyIn(orders', u) = MoneyIn(orders, u) - Stake(orders, i, u)
        /\ TakerFreeze(u) = 0 /\ TakerFreeze(u)' = 0
        /\ balance[u].freeze \in Nat /\ MoneyIn(orders, u) \in Nat /\ Stake(orders, i, u) \in Nat
    BY <1>3, <1>5, <1>6
  <2> QED BY ONLY <2>1, <2>2 DEF Covers
<1>8. FundsOK'
  BY <1>3 DEF FundsOK, Refunds, Funded, FreezeRight, Covers
<1> QED BY <1>7, <1>8

LEMMA FundsKeep ==
  ASSUME Quantum = 1, Ready, MoneyOK, StateOK', LeftsOK', Funds PROVE MoneyOK' /\ FundsOK'
<1>1. /\ taker' \in OrderRec /\ taker'.left \in Nat /\ taker'.user \in Users
  BY DEF Funds, StateOK, ControlOK, LeftsOK, OrderRec
<1>2. orders' = orders /\ \A u : MoneyIn(orders', u) = MoneyIn(orders, u)
  BY DEF Funds, index
<1>3. \A u : /\ TakerFreeze(u) = 0
             /\ TakerFreeze(u)' = IF taker'.user = u /\ taker'.type = LIMIT /\ taker'.oper_type = OPEN
                                  THEN taker'.freeze ELSE 0
  BY TakerFreezeFacts DEF Funds
<1>4. CASE /\ taker'.type = LIMIT /\ taker'.oper_type = OPEN
           /\ taker'.freeze = Margin(taker'.left, taker'.leverage)
           /\ taker'.freeze <= balance[taker'.user].available
           /\ balance' = [balance EXCEPT ![taker'.user] = balance_freeze(@, taker'.freeze)]
  <2> DEFINE v == taker'.user  f == taker'.freeze
  <2>1. f \in Nat
    <3>1. taker'.leverage \in Nat \ {0}
      BY <1>1 DEF OrderRec
    <3> QED BY <1>1, <1>4, <3>1, MarginOfParts
  <2>2. ASSUME NEW u \in Users
        PROVE  /\ balance[u].freeze \in Nat
               /\ balance'[u].freeze = balance[u].freeze + TakerFreeze(u)'
               /\ TakerFreeze(u)' \in Nat
    <3>1. balance[u] \in Account /\ balance[u].freeze \in Nat
      BY MoneyTypes
    <3>2. u = v => balance_freeze(balance[u], f).freeze = balance[u].freeze + f
      BY <1>4, <2>1, <3>1, FreezeExact
    <3>3. balance'[u] = IF u = v THEN balance_freeze(balance[u], f) ELSE balance[u]
      BY <1>4 DEF Ready, StateOK, AccountsOK
    <3>4. TakerFreeze(u)' = IF u = v THEN f ELSE 0
      BY <1>3, <1>4
    <3> QED BY <2>1, <3>1, <3>2, <3>3, <3>4
  <2>3. MoneyOK'
    <3> SUFFICES ASSUME NEW u \in Users
                 PROVE  Covers(balance'[u].freeze, MoneyIn(orders', u) + TakerFreeze(u)')
      BY DEF MoneyOK
    <3>1. Covers(balance[u].freeze, MoneyIn(orders, u) + TakerFreeze(u))
      BY DEF MoneyOK
    <3>2. MoneyIn(orders, u) \in Nat
      BY MoneyTypes
    <3> QED BY <1>2, <1>3, <2>2, <3>1, <3>2 DEF Covers
  <2>4. FreezeRight(taker')
    BY <1>4, <1>1, <2>1 DEF FreezeRight, Covers
  <2> QED BY <1>2, <2>3, <2>4 DEF FundsOK, Funded, FreezeRight, Covers, Ready
<1>5. CASE ~(taker'.type = LIMIT /\ taker'.oper_type = OPEN) /\ UNCHANGED balance
  <2>1. MoneyOK'
    BY <1>2, <1>3, <1>5 DEF MoneyOK, Covers
  <2>2. pc' = "match" /\ taker'.type = LIMIT => FreezeRight(taker')
    BY <1>5 DEF FreezeRight
  <2> QED BY <1>2, <2>1, <2>2 DEF FundsOK, Funded, FreezeRight, Covers, Ready
<1> QED BY <1>4, <1>5 DEF Funds
\* What an order has frozen is enough for a deal, and for what it has left then.
LEMMA SpentFits ==
  ASSUME NEW o \in OrderRec, o.leverage \in Leverages, o.type = LIMIT, o.oper_type = OPEN,
         FreezeRight(o), NEW amount \in Nat, amount <= o.left
  PROVE  /\ Spent(o, amount) \in Nat /\ Spent(o, amount) <= o.freeze /\ o.freeze \in Nat
         /\ adjustOrder(o, amount).freeze = o.freeze - Spent(o, amount)
         /\ FreezeRight(adjustOrder(o, amount))
         /\ Even /\ amount = o.left => o.freeze = Spent(o, amount)
<1> DEFINE lv == o.leverage  rest == o.left - amount  q == adjustOrder(o, amount)
<1>1. /\ lv \in Nat \ {0} /\ rest \in Nat /\ o.left \in Nat /\ o.freeze \in Int
      /\ amount + rest = o.left
  BY DEF OrderRec
<1>2. /\ q.left = rest /\ q.leverage = lv /\ q.type = LIMIT /\ q.oper_type = OPEN
      /\ q.freeze = o.freeze - Margin(amount, lv)
  BY DEF adjustOrder, OrderRec
<1> HIDE DEF q, rest, lv
<1>3. /\ Margin(amount, lv) \in Nat /\ Margin(rest, lv) \in Nat /\ Margin(amount + rest, lv) \in Nat
      /\ Margin(amount, lv) + Margin(rest, lv) <= Margin(amount + rest, lv)
      /\ Unit % lv = 0 => Margin(amount, lv) + Margin(rest, lv) = Margin(amount + rest, lv)
      /\ Margin(0, lv) = 0
  BY <1>1, MarginOfParts
<1>4. o.freeze >= Margin(o.left, lv) /\ (Even => o.freeze = Margin(o.left, lv))
  BY DEF FreezeRight, Covers, lv
<1>5. Even => Unit % lv = 0
  BY DEF Even, lv
<1>6. Spent(o, amount) = Margin(amount, lv)
  BY DEF Spent, lv
<1>7. q.freeze >= Margin(rest, lv) /\ (Even => q.freeze = Margin(rest, lv))
  BY <1>1, <1>2, <1>3, <1>4, <1>5
<1>8. FreezeRight(q)
  BY <1>2, <1>7 DEF FreezeRight, Covers
<1>9. Margin(amount, lv) <= o.freeze
  BY <1>1, <1>3, <1>4
<1>10. ASSUME Even, amount = o.left PROVE o.freeze = Margin(amount, lv)
  BY <1>4, <1>10
<1>11. o.freeze \in Nat
  BY <1>1, <1>3, <1>9
<1> QED BY <1>2, <1>3, <1>6, <1>8, <1>9, <1>10, <1>11 DEF q

LEMMA SpentNothing ==
  ASSUME NEW o, NEW amount, ~(o.type = LIMIT /\ o.oper_type = OPEN)
  PROVE  Spent(o, amount) = 0
  BY DEF Spent

\* What the two orders of a deal take from what a user has frozen.
TakerSpends(u, amount)    == IF u = taker.user THEN Spent(taker, amount) ELSE 0
MakerSpends(i, u, amount) == IF u = orders[i].user THEN Spent(orders[i], amount) ELSE 0

LEMMA DealSpends ==
  ASSUME Quantum = 1, balance \in [Users -> Account],
         NEW i, Deal(i), taker \in OrderRec, orders[i] \in OrderRec,
         NEW amount \in Nat,
         amount = IF taker.left < orders[i].left THEN taker.left ELSE orders[i].left,
         \A u \in Users : TakerSpends(u, amount) + MakerSpends(i, u, amount) <= balance[u].freeze
  PROVE  \A u \in Users : balance'[u].freeze =
           balance[u].freeze - TakerSpends(u, amount) - MakerSpends(i, u, amount)
<1> DEFINE maker == orders[i]
           price == maker.price
           taken == adjustPosition(positions, KeyOf(taker), taker, amount, price, amount * TakerFee)
           fee1  == amount * TakerFee
           fee2  == amount * MakerFee
           pnl1  == DealPNL(positions, taker, amount, price)
           pnl2  == DealPNL(taken, maker, amount, price)
           paid  == [balance EXCEPT ![taker.user] = adjustBalance(@, taker, amount, fee1, pnl1)]
<1>1. balance' = [paid EXCEPT ![maker.user] = adjustBalance(@, maker, amount, fee2, pnl2)]
  BY DEF Deal
<1> HIDE DEF fee1, fee2, pnl1, pnl2, price, taken
<1>2. taker.user \in Users /\ maker.user \in Users
  BY DEF OrderRec
<1>3. ASSUME NEW o \in OrderRec PROVE Spent(o, amount) \in Nat
  <2>1. o.leverage \in Nat \ {0}
    BY DEF OrderRec
  <2>2. Margin(amount, o.leverage) \in Nat
    BY <2>1, MarginOfParts
  <2> QED BY <2>2 DEF Spent
<1>4. \A u \in Users : TakerSpends(u, amount) \in Nat /\ MakerSpends(i, u, amount) \in Nat
  BY <1>3 DEF TakerSpends, MakerSpends
<1>5. ASSUME NEW u \in Users
      PROVE  paid[u].freeze = balance[u].freeze - TakerSpends(u, amount) /\ Frozen(paid[u])
  <2>1. balance[u].freeze \in Nat /\ Frozen(balance[u])
    BY AccountFrozen DEF Account
  <2>2. paid[u] = IF u = taker.user THEN adjustBalance(balance[u], taker, amount, fee1, pnl1)
                  ELSE balance[u]
    BY DEF paid
  <2>3. TakerSpends(u, amount) <= balance[u].freeze
    BY <1>4, <2>1
  <2> HIDE DEF paid
  <2>4. CASE u = taker.user
    <3>1. Spent(taker, amount) <= balance[u].freeze /\ TakerSpends(u, amount) = Spent(taker, amount)
      BY <2>3, <2>4 DEF TakerSpends
    <3> QED BY <2>1, <2>2, <2>4, <3>1, adjustBalanceSpends
  <2>5. CASE u # taker.user
    BY <2>1, <2>2, <2>5 DEF TakerSpends
  <2> QED BY <2>4, <2>5
<1>6. \A u \in Users : balance'[u] = IF u = maker.user
                                     THEN adjustBalance(paid[u], maker, amount, fee2, pnl2)
                                     ELSE paid[u]
  BY <1>1, <1>2 DEF paid
<1> HIDE DEF paid
<1>7. ASSUME NEW u \in Users
      PROVE  balance'[u].freeze = paid[u].freeze - MakerSpends(i, u, amount)
  <2>1. /\ paid[u].freeze \in Nat /\ Frozen(paid[u])
        /\ MakerSpends(i, u, amount) <= paid[u].freeze
    <3>1. balance[u].freeze \in Nat
      BY DEF Account
    <3> QED BY <1>4, <1>5, <3>1 DEF Frozen
  <2>2. CASE u = maker.user
    <3>1. MakerSpends(i, u, amount) = Spent(maker, amount)
      BY <2>2 DEF MakerSpends
    <3> HIDE DEF maker
    <3>2. maker \in OrderRec
      BY DEF maker
    <3> QED BY <1>6, <2>1, <2>2, <3>1, <3>2, adjustBalanceSpends
  <2>3. CASE u # maker.user
    BY <1>6, <2>1, <2>3 DEF MakerSpends
  <2> QED BY <2>2, <2>3
<1> QED BY <1>5, <1>7

LEMMA MatchMoney ==
  ASSUME Quantum = 1, Ready, Named, MoneyOK, StateOK', LeftsOK', MatchStep, pc' # "crash"
  PROVE  MoneyOK' /\ FundsOK'
<1>1. PICK i \in book[call.market][Opposite(taker)] :
        /\ i \in DOMAIN orders /\ orders[i] \in OrderRec /\ taker \in OrderRec
        /\ orders[i].type = LIMIT /\ Deal(i)
  BY DealBooks DEF Ready
<1> DEFINE maker  == orders[i]
           amount == IF taker.left < maker.left THEN taker.left ELSE maker.left
           rest   == adjustOrder(maker, amount)
           ts(u)  == TakerSpends(u, amount)
           ms(u)  == MakerSpends(i, u, amount)
<1>2. /\ pc = "match" /\ taker' = adjustOrder(taker, amount)
      /\ pc' = IF taker'.left = 0 THEN "return" ELSE "match"
      /\ IF rest.left = 0 THEN order_finish_future(i) ELSE orders' = [orders EXCEPT ![i] = rest]
  BY <1>1 DEF MatchStep, Deal
<1>3. /\ amount \in Nat /\ amount <= taker.left /\ amount <= maker.left
      /\ taker.left \in Int /\ maker.left \in Int
  <2>1. taker.left > 0 /\ maker.left > 0 /\ taker.left \in Int /\ maker.left \in Int
    BY <1>1, <1>2 DEF Ready, LeftsOK, OrderRec
  <2> QED BY <2>1
<1>4. /\ maker.leverage \in Leverages /\ FreezeRight(maker)
      /\ taker.leverage \in Leverages /\ (taker.type = LIMIT => FreezeRight(taker))
  BY <1>1, <1>2 DEF Named, NamedIn, NamedIs, Ready, FundsOK, Funded
<1>5. amount = IF taker.left < orders[i].left THEN taker.left ELSE orders[i].left
  OBVIOUS
<1> HIDE DEF amount
<1>6. /\ rest.left = maker.left - amount /\ taker'.left = taker.left - amount
      /\ rest.user = maker.user /\ rest.type = maker.type /\ rest.oper_type = maker.oper_type
      /\ taker'.user = taker.user /\ taker'.type = taker.type /\ taker'.oper_type = taker.oper_type
      /\ rest \in OrderRec /\ taker' \in OrderRec
  <2>1. ASSUME NEW o \in OrderRec
        PROVE  /\ adjustOrder(o, amount).left = o.left - amount
               /\ adjustOrder(o, amount) \in OrderRec
               /\ adjustOrder(o, amount).user = o.user /\ adjustOrder(o, amount).type = o.type
               /\ adjustOrder(o, amount).oper_type = o.oper_type
    <3>1. adjustOrder(o, amount) \in OrderRec
      BY <1>3, adjustOrderType
    <3>2. /\ adjustOrder(o, amount).left = o.left - amount /\ adjustOrder(o, amount).user = o.user
          /\ adjustOrder(o, amount).type = o.type
          /\ adjustOrder(o, amount).oper_type = o.oper_type
      BY DEF adjustOrder, OrderRec
    <3> QED BY <3>1, <3>2
  <2> QED BY <1>1, <1>2, <2>1
<1>7. maker.oper_type = OPEN =>
        /\ Spent(maker, amount) \in Nat /\ Spent(maker, amount) <= maker.freeze
        /\ maker.freeze \in Nat /\ rest.freeze = maker.freeze - Spent(maker, amount)
        /\ FreezeRight(rest)
        /\ Even /\ amount = maker.left => maker.freeze = Spent(maker, amount)
  BY <1>1, <1>3, <1>4, SpentFits
<1>8. taker.oper_type = OPEN /\ taker.type = LIMIT =>
        /\ Spent(taker, amount) \in Nat /\ Spent(taker, amount) <= taker.freeze
        /\ taker.freeze \in Nat /\ taker'.freeze = taker.freeze - Spent(taker, amount)
        /\ FreezeRight(taker')
        /\ Even /\ amount = taker.left => taker.freeze = Spent(taker, amount)
  BY <1>1, <1>2, <1>3, <1>4, SpentFits
<1> HIDE DEF rest, maker
\* What either order has frozen, before and after.
<1>9. ASSUME NEW u
      PROVE  /\ Stake(orders, i, u) \in Nat /\ ms(u) \in Nat /\ ms(u) <= Stake(orders, i, u)
             /\ TakerFreeze(u) \in Nat /\ ts(u) \in Nat /\ ts(u) <= TakerFreeze(u)
             /\ TakerFreeze(u)' \in Nat /\ TakerFreeze(u)' <= TakerFreeze(u) - ts(u)
             /\ Even => TakerFreeze(u)' = TakerFreeze(u) - ts(u)
  <2>1. Stake(orders, i, u) = IF maker.user = u /\ maker.oper_type = OPEN THEN maker.freeze ELSE 0
    BY <1>1 DEF Stake, OpensIn, maker
  <2>2. ms(u) = IF maker.user = u /\ maker.oper_type = OPEN THEN Spent(maker, amount) ELSE 0
    BY <1>1 DEF MakerSpends, maker, Spent
  <2>3. TakerFreeze(u) = IF taker.user = u /\ taker.type = LIMIT /\ taker.oper_type = OPEN
                         THEN taker.freeze ELSE 0
    BY <1>2, TakerFreezeFacts
  <2>4. ts(u) = IF taker.user = u /\ taker.type = LIMIT /\ taker.oper_type = OPEN
                THEN Spent(taker, amount) ELSE 0
    BY DEF TakerSpends, Spent
  <2>5. TakerFreeze(u)' = IF taker'.left # 0 /\ taker.user = u /\ taker.type = LIMIT
                             /\ taker.oper_type = OPEN
                          THEN taker'.freeze ELSE 0
    BY <1>2, <1>6, TakerFreezeFacts
  <2>6. taker'.left = 0 => amount = taker.left
    BY <1>3, <1>6
  <2> HIDE DEF ts, ms
  <2>7. Stake(orders, i, u) \in Nat /\ ms(u) \in Nat /\ ms(u) <= Stake(orders, i, u)
    BY <1>7, <2>1, <2>2
  <2>8. /\ TakerFreeze(u) \in Nat /\ ts(u) \in Nat /\ ts(u) <= TakerFreeze(u)
        /\ TakerFreeze(u)' \in Nat /\ TakerFreeze(u)' <= TakerFreeze(u) - ts(u)
        /\ Even => TakerFreeze(u)' = TakerFreeze(u) - ts(u)
    <3>1. CASE taker.user = u /\ taker.type = LIMIT /\ taker.oper_type = OPEN
      BY <1>8, <2>3, <2>4, <2>5, <2>6, <3>1
    <3>2. CASE ~(taker.user = u /\ taker.type = LIMIT /\ taker.oper_type = OPEN)
      BY <2>3, <2>4, <2>5, <3>2
    <3> QED BY <3>1, <3>2
  <2> QED BY <2>7, <2>8
<1>10. /\ Funded(orders')
       /\ \A u : /\ MoneyIn(orders, u) \in Nat /\ MoneyIn(orders', u) \in Nat
                 /\ MoneyIn(orders', u) <= MoneyIn(orders, u) - ms(u)
                 /\ Even => MoneyIn(orders', u) = MoneyIn(orders, u) - ms(u)
  <2>1. ASSUME NEW u
        PROVE  ms(u) = IF maker.user = u /\ maker.oper_type = OPEN THEN Spent(maker, amount) ELSE 0
    BY <1>1 DEF MakerSpends, maker, Spent
  <2>2. ASSUME NEW u
        PROVE  i \in OpensIn(orders, u) <=> maker.user = u /\ maker.oper_type = OPEN
    BY <1>1 DEF OpensIn, maker
  <2> HIDE DEF ms
  <2>3. CASE rest.left = 0
    <3>1. /\ Funded(orders')
          /\ \A u : /\ MoneyIn(orders, u) \in Nat /\ Stake(orders, i, u) \in Nat
                    /\ MoneyIn(orders', u) \in Nat
                    /\ MoneyIn(orders', u) = MoneyIn(orders, u) - Stake(orders, i, u)
      BY <1>1, <1>2, <2>3, FinishMoney
    <3>2. ASSUME NEW u
          PROVE  Stake(orders, i, u) = IF maker.user = u /\ maker.oper_type = OPEN
                                       THEN maker.freeze ELSE 0
      BY <2>2 DEF Stake, maker
    <3>3. amount = maker.left
      <4>1. maker.left - amount = 0
        BY <1>6, <2>3
      <4> QED BY ONLY <1>3, <4>1
    <3>4. ASSUME NEW u, Even PROVE Stake(orders, i, u) = ms(u)
      BY <1>7, <2>1, <3>2, <3>3, <3>4
    <3> QED BY <1>9, <3>1, <3>4
  <2>4. CASE rest.left # 0
    <3>1. FreezeRight(rest)
      BY <1>6, <1>7 DEF FreezeRight
    <3>2. /\ Funded(orders')
          /\ \A u : /\ MoneyIn(orders, u) \in Nat
                    /\ MoneyIn(orders', u) \in Nat
                    /\ MoneyIn(orders', u) = MoneyIn(orders, u)
                         - IF i \in OpensIn(orders, u) THEN maker.freeze - rest.freeze ELSE 0
      BY <1>1, <1>2, <1>6, <2>4, <3>1, ShrinkMoney DEF maker
    <3>3. ASSUME NEW u
          PROVE  (IF i \in OpensIn(orders, u) THEN maker.freeze - rest.freeze ELSE 0) = ms(u)
      BY <1>7, <2>1, <2>2
    <3> QED BY <1>9, <3>2, <3>3
  <2> QED BY <2>3, <2>4
<1>11. \A u \in Users : /\ balance[u].freeze \in Nat
                        /\ ts(u) + ms(u) <= balance[u].freeze
  <2> SUFFICES ASSUME NEW u \in Users
               PROVE  balance[u].freeze \in Nat /\ ts(u) + ms(u) <= balance[u].freeze
    OBVIOUS
  <2>1. /\ balance[u].freeze \in Nat
        /\ balance[u].freeze >= MoneyIn(orders, u) + TakerFreeze(u)
        /\ MoneyIn(orders, u) \in Nat
    BY MoneyTypes
  <2>2. Stake(orders, i, u) <= MoneyIn(orders, u)
    BY ReadyTable, MoneyFacts, <2>1 DEF Stake
  <2> HIDE DEF ts, ms
  <2> QED BY <1>9, <2>1, <2>2
<1>12. \A u \in Users : balance'[u].freeze = balance[u].freeze - ts(u) - ms(u)
  BY <1>1, <1>3, <1>5, <1>11, DealSpends DEF Ready, StateOK, AccountsOK
<1> HIDE DEF ts, ms
<1>13. MoneyOK'
  <2> SUFFICES ASSUME NEW u \in Users
               PROVE  Covers(balance'[u].freeze, MoneyIn(orders', u) + TakerFreeze(u)')
    BY DEF MoneyOK
  <2>1. /\ balance[u].freeze \in Nat
        /\ balance[u].freeze >= MoneyIn(orders, u) + TakerFreeze(u)
        /\ Even => balance[u].freeze = MoneyIn(orders, u) + TakerFreeze(u)
    BY MoneyTypes
  <2>2. /\ ts(u) \in Nat /\ ms(u) \in Nat /\ TakerFreeze(u) \in Nat /\ TakerFreeze(u)' \in Nat
        /\ TakerFreeze(u)' <= TakerFreeze(u) - ts(u)
        /\ Even => TakerFreeze(u)' = TakerFreeze(u) - ts(u)
    BY <1>9
  <2>3. /\ MoneyIn(orders, u) \in Nat /\ MoneyIn(orders', u) \in Nat
        /\ MoneyIn(orders', u) <= MoneyIn(orders, u) - ms(u)
        /\ Even => MoneyIn(orders', u) = MoneyIn(orders, u) - ms(u)
    BY <1>10
  <2>4. balance'[u].freeze = balance[u].freeze - ts(u) - ms(u)
    BY <1>12
  <2> QED BY ONLY <2>1, <2>2, <2>3, <2>4 DEF Covers
<1>14. FundsOK'
  <2>1. pc' = "match" /\ taker'.type = LIMIT => FreezeRight(taker')
    BY <1>6, <1>8 DEF FreezeRight
  <2> QED BY <1>10, <2>1 DEF FundsOK, Funded, FreezeRight, Covers
<1> QED BY <1>13, <1>14

\* What is left of a taker rests with what it has frozen ...
LEMMA RestMoney ==
  ASSUME Ready, MoneyOK, StateOK', LeftsOK', RestTaker PROVE MoneyOK' /\ FundsOK'
<1>1. /\ pc = "match" /\ pc' = "return" /\ taker.type = LIMIT /\ taker \in OrderRec
      /\ order_put_future(call.market, taker) /\ balance' = balance
  BY DEF RestTaker, NothingToMatch, accounts, Ready, StateOK, ControlOK
<1>2. FreezeRight(taker)
  BY <1>1 DEF Ready, FundsOK
<1> DEFINE m == call.market
<1>3. order_put_future(m, taker)
  BY <1>1
<1> HIDE DEF m
<1>4. /\ Funded(orders')
      /\ \A u : /\ MoneyIn(orders, u) \in Nat
                /\ MoneyIn(orders', u) = MoneyIn(orders, u)
                     + IF taker.user = u /\ taker.type = LIMIT /\ taker.oper_type = OPEN
                       THEN taker.freeze ELSE 0
  BY <1>1, <1>2, <1>3, PutMoney
<1>5. \A u : /\ TakerFreeze(u) = IF taker.user = u /\ taker.type = LIMIT /\ taker.oper_type = OPEN
                                 THEN taker.freeze ELSE 0
             /\ TakerFreeze(u)' = 0
  BY <1>1, TakerFreezeFacts
<1>6. ASSUME NEW u \in Users
      PROVE  Covers(balance'[u].freeze, MoneyIn(orders', u) + TakerFreeze(u)')
  <2>1. Covers(balance[u].freeze, MoneyIn(orders, u) + TakerFreeze(u))
    BY DEF MoneyOK
  <2>2. MoneyIn(orders', u) = MoneyIn(orders, u) + TakerFreeze(u)
    BY <1>4, <1>5
  <2>3. MoneyIn(orders, u) \in Nat /\ TakerFreeze(u) \in Nat
    BY MoneyTypes
  <2>4. MoneyIn(orders', u) + TakerFreeze(u)' = MoneyIn(orders, u) + TakerFreeze(u)
    BY <1>5, <2>2, <2>3
  <2> QED BY <1>1, <2>1, <2>4
<1> QED BY <1>1, <1>4, <1>6 DEF MoneyOK, FundsOK, Funded, FreezeRight, Covers

\* ... or is dropped; then it was a market order, and had nothing.
LEMMA DropMoney ==
  ASSUME Ready, MoneyOK, DropTaker PROVE MoneyOK' /\ FundsOK'
<1>1. /\ pc = "match" /\ pc' # "match" /\ taker.type = MARKET
      /\ balance' = balance /\ orders' = orders
  BY DEF DropTaker, NothingToMatch, index
<1>2. \A u : TakerFreeze(u) = 0 /\ TakerFreeze(u)' = 0
  BY <1>1, TakerFreezeFacts DEF MARKET, LIMIT
<1>3. MoneyOK'
  <2> SUFFICES ASSUME NEW u \in Users
               PROVE  Covers(balance'[u].freeze, MoneyIn(orders', u) + TakerFreeze(u)')
    BY DEF MoneyOK
  <2>1. Covers(balance[u].freeze, MoneyIn(orders, u) + TakerFreeze(u))
    BY DEF MoneyOK
  <2> QED BY <1>1, <1>2, <2>1
<1>4. FundsOK'
  BY <1>1 DEF Ready, FundsOK, Funded, FreezeRight, Covers
<1> QED BY <1>3, <1>4

LEMMA StutterMoney ==
  ASSUME Ready, MoneyOK, UNCHANGED vars PROVE MoneyOK' /\ FundsOK'
<1>1. UNCHANGED <<balance, orders, pc, taker>>
  BY DEF vars
<1>2. \A u : TakerFreeze(u)' = TakerFreeze(u)
  BY <1>1 DEF TakerFreeze
<1>3. MoneyOK'
  <2> SUFFICES ASSUME NEW u \in Users
               PROVE  Covers(balance'[u].freeze, MoneyIn(orders', u) + TakerFreeze(u)')
    BY DEF MoneyOK
  <2> QED BY <1>1, <1>2 DEF MoneyOK
<1>4. FundsOK'
  BY <1>1 DEF Ready, FundsOK, Funded, FreezeRight, Covers
<1> QED BY <1>3, <1>4

LEMMA MoneyStepKeeps ==
  ASSUME Quantum = 1, Ready, Named, MoneyOK, StateOK', LeftsOK', MoneyStep,
         MatchStep => pc' # "crash"
  PROVE  MoneyOK' /\ FundsOK'
  BY KeepsMoneyKeeps, RefundsKeep, FundsKeep, MatchMoney, RestMoney, DropMoney, StutterMoney
     DEF MoneyStep
------------------------------------------------------------------------------
(* Whoever places an order can pay for it                                   *)

\* The equity of a user's cross positions is an integer.
LEMMA getSumPNLType ==
  ASSUME StateOK, HoldingsIn(positions), NEW u PROVE getSumPNL(u) \in Int
<1> DEFINE S == CrossKeys(u)
           pnl(k) == getPNL(positions[k], k[3], latestPrice[k[2]])
           f == [k \in S |-> pnl(k)]
           Q(g) == g = [T \in SUBSET S |-> IF T = {} THEN 0 ELSE pnl(Pick(T)) + g[T \ {Pick(T)}]]
<1>1. IsFiniteSet(S) /\ S \subseteq DOMAIN positions
  <2>1. S \subseteq DOMAIN positions
    BY DEF CrossKeys
  <2> QED BY <2>1, FS_Subset DEF HoldingsIn
<1>2. \A k \in S : f[k] = pnl(k) /\ f[k] \in Int
  <2>1. ASSUME NEW k \in S PROVE pnl(k) \in Int
    <3>1. k[2] \in Markets /\ positions[k] \in PositionRec
      BY <1>1 DEF StateOK, AccountsOK, PositionsType, Keys
    <3>2. latestPrice[k[2]] \in Int
      BY <3>1 DEF StateOK, PricesOK
    <3> QED BY <3>1, <3>2, getPNLType
  <2> QED BY <2>1
<1>3. getSumPNL(u) = (CHOOSE g : Q(g))[S]
  BY DEF getSumPNL, MapThenSumSet, MapThenFoldSet, Pick
<1> HIDE DEF pnl, f, S
<1>4. ASSUME NEW g PROVE Q(g) <=> Recurs(g, f, S)
  <2>1. \A T \in SUBSET S : T # {} => f[Pick(T)] = pnl(Pick(T))
    BY <1>2, PickIsIn
  <2> QED BY <2>1 DEF Recurs
<1>5. \E g : Q(g)
  BY <1>1, <1>2, <1>4, AdditiveExists, AdditiveRecurs
<1> DEFINE r == CHOOSE g : Q(g)
<1>6. Q(r)
  BY <1>5
<1> HIDE DEF r, Q
<1>7. r[S] \in Int
  BY <1>1, <1>2, <1>4, <1>6, RecursType
<1> QED BY <1>3, <1>7 DEF r

LEMMA CheckPaid ==
  ASSUME StateOK, HoldingsIn(positions), NEW u \in Users, NEW pri \in Int, NEW pattern,
         checkPriAndFee(pattern, u, pri)
  PROVE  pri <= balance[u].available
<1>1. balance[u].available \in Int /\ getSumPNL(u) \in Int
  BY getSumPNLType DEF StateOK, AccountsOK, Account
<1> QED BY <1>1 DEF checkPriAndFee

LEMMA MarginIsNat == ASSUME NEW n \in Nat, NEW lv \in Nat \ {0} PROVE Margin(n, lv) \in Nat
  BY MarginOfParts

\* Steps that have nothing to do with frozen money.
LEMMA RestsMoney ==
  ASSUME pc # "match", pc' # "match", UNCHANGED <<balance, index>> PROVE MoneyStep
<1>1. \A u \in Users : balance'[u].freeze = balance[u].freeze
  OBVIOUS
<1> QED BY <1>1 DEF MoneyStep, KeepsMoney

LEMMA PutsMoney ==
  ASSUME pc # "match", pc' # "match", UNCHANGED balance, NEW m \in Markets, NEW o \in OrderRec,
         o.type # LIMIT, o.freeze = 0, order_put_future(m, o)
  PROVE  MoneyStep
<1>1. \A u \in Users : balance'[u].freeze = balance[u].freeze
  OBVIOUS
<1>2. \E mm \in Markets, oo \in OrderRec :
        /\ oo.type # LIMIT /\ (oo.oper_type = OPEN => oo.freeze = 0)
        /\ order_put_future(mm, oo)
  OBVIOUS
<1> QED BY <1>1, <1>2 DEF MoneyStep, KeepsMoney

\* A placed order is in the form of Funds.
LEMMA StartMoney ==
  ASSUME pc # "match", NEW o \in OrderRec, NEW m, NEW by, NEW old, Execute(o, m, by, old),
         UNCHANGED index,
         \/ /\ o.type = LIMIT /\ o.oper_type = OPEN /\ o.freeze = Margin(o.left, o.leverage)
            /\ o.freeze <= balance[o.user].available
            /\ balance' = [balance EXCEPT ![o.user] = balance_freeze(@, o.freeze)]
         \/ ~(o.type = LIMIT /\ o.oper_type = OPEN) /\ UNCHANGED balance
  PROVE  MoneyStep
<1>1. pc' = "match" /\ taker' = o
  BY DEF Execute
<1> QED BY <1>1 DEF MoneyStep, Funds

LEMMA OpenMoney ==
  ASSUME OneLeverage, Ready, FrozenOK, Named, ModesOK, NEW a, ArgsType(a),
         a.leverage \in Leverages, market_put_order_open(a)
  PROVE  MoneyStep /\ ModesOK'
<1> DEFINE key      == <<a.user, a.market>>
           mode     == ModeAfter(a)[key]
           held     == HasPosition(a.user, a.market)
           leverage == IF held THEN LeadPosition(a.user, a.market).leverage ELSE a.leverage
           modes    == IF held THEN leverage ELSE mode.leverage
           pri      == Margin(a.volume, modes)
           planned  == initOrder(a, OPEN, leverage, 0)
           freeze   == IF a.type = LIMIT THEN pri ELSE 0
           placed   == initOrder(a, OPEN, leverage, freeze)
<1>1. /\ pc = "idle" /\ position_mode' = ModeAfter(a)
      /\ \/ UNCHANGED <<balance, index, pc>>
         \/ /\ a.type = PLAN /\ order_put_future(a.market, planned)
            /\ pc' \in {"idle", "crash"} /\ UNCHANGED balance
         \/ /\ checkPriAndFee(a.pattern, a.user, pri)
            /\ balance' = IF a.type = LIMIT
                          THEN [balance EXCEPT ![a.user] = balance_freeze(@, pri)] ELSE balance
            /\ Execute(placed, a.market, "client", 0) /\ UNCHANGED index
  BY DEF market_put_order_open, Compares
<1>2. leverage \in Leverages
  <2>1. held => \E k \in DOMAIN positions : LeadPosition(a.user, a.market) = positions[k]
    BY DEF HasPosition, LeadPosition, Sides
  <2> QED BY <2>1 DEF Named, NamedIn, NamedIs
<1>3. /\ \A k \in DOMAIN ModeAfter(a) : ModeAfter(a)[k].leverage \in Leverages
      /\ ~held => key \in DOMAIN ModeAfter(a)
  <2> DEFINE v == [pattern |-> a.pattern, leverage |-> a.leverage]
  <2>1. v.leverage \in Leverages
    OBVIOUS
  <2> HIDE DEF v
  <2>2. \/ ModeAfter(a) = position_mode /\ (held \/ key \in DOMAIN position_mode)
        \/ ModeAfter(a) = WithEntry(position_mode, key, v)
    BY DEF ModeAfter, v
  <2> HIDE DEF key
  <2> QED BY <2>1, <2>2 DEF ModesOK, WithEntry
<1>4. ModesOK'
  BY <1>1, <1>3 DEF ModesOK
<1>5. modes = leverage
  BY <1>2, <1>3 DEF OneLeverage
<1>6. /\ a.user \in Users /\ a.market \in Markets /\ a.volume \in Nat
      /\ leverage \in Nat \ {0}
  BY <1>2, MarketAssumption DEF ArgsType
<1> HIDE DEF leverage, modes
<1>7. pri \in Nat /\ pri = Margin(a.volume, leverage)
  BY <1>5, <1>6, MarginIsNat
<1> HIDE DEF pri, mode, held, key
<1>8. freeze \in Int /\ OPEN \in {OPEN, CLOSE} /\ PricesOK
  BY <1>7 DEF Ready, StateOK
<1>9. /\ planned \in OrderRec /\ placed \in OrderRec
      /\ planned.type = a.type /\ placed.type = a.type
  <2> HIDE DEF freeze
  <2>1. 0 \in Int
    OBVIOUS
  <2> QED BY ONLY <1>6, <1>8, <2>1, ArgsType(a), initOrderType DEF planned, placed
<1>10. /\ planned.freeze = 0 /\ placed.freeze = freeze /\ placed.left = a.volume
       /\ placed.leverage = leverage /\ placed.user = a.user /\ placed.oper_type = OPEN
  BY DEF initOrder
<1> HIDE DEF planned, placed
<1>11. CASE UNCHANGED <<balance, index, pc>>
  BY <1>1, <1>4, <1>11, RestsMoney
<1>12. CASE /\ a.type = PLAN /\ order_put_future(a.market, planned)
            /\ pc' \in {"idle", "crash"} /\ UNCHANGED balance
  <2>1. planned.type # LIMIT
    BY <1>9, <1>12 DEF PLAN, LIMIT
  <2>2. pc # "match" /\ pc' # "match"
    BY <1>1, <1>12
  <2> QED BY <1>4, <1>6, <1>9, <1>10, <1>12, <2>1, <2>2, PutsMoney
<1>13. CASE /\ checkPriAndFee(a.pattern, a.user, pri)
            /\ balance' = IF a.type = LIMIT
                          THEN [balance EXCEPT ![a.user] = balance_freeze(@, pri)] ELSE balance
            /\ Execute(placed, a.market, "client", 0) /\ UNCHANGED index
  <2>1. pri <= balance[a.user].available
    BY <1>6, <1>7, <1>13, CheckPaid DEF Ready, FrozenOK
  <2>2. pc # "match"
    BY <1>1
  <2>3. CASE a.type = LIMIT
    <3>1. placed.type = LIMIT /\ placed.freeze = pri /\ placed.freeze = Margin(placed.left, placed.leverage)
      BY <1>7, <1>9, <1>10, <2>3
    <3>2. balance' = [balance EXCEPT ![placed.user] = balance_freeze(@, placed.freeze)]
      BY <1>10, <1>13, <2>3, <3>1
    <3>3. placed.freeze <= balance[placed.user].available
      BY <1>10, <2>1, <3>1
    <3> QED BY <1>4, <1>9, <1>10, <1>13, <2>2, <3>1, <3>2, <3>3, StartMoney
  <2>4. CASE a.type # LIMIT
    BY <1>4, <1>9, <1>13, <2>2, <2>4, StartMoney
  <2> QED BY <2>3, <2>4
<1> QED BY <1>1, <1>4, <1>11, <1>12, <1>13

LEMMA CloseMoney ==
  ASSUME Ready, NEW a, ArgsType(a), a.type \in {MARKET, LIMIT}, market_put_order_close(a)
  PROVE  MoneyStep
<1> DEFINE k == <<a.user, a.market, a.direction>>
           o == initOrder(a, CLOSE, positions[k].leverage, 0)
<1>1. /\ pc = "idle" /\ k \in DOMAIN positions
      /\ Execute(o, a.market, "client", 0) /\ UNCHANGED <<balance, index>>
  BY DEF market_put_order_close
<1>2. positions[k].leverage \in Nat \ {0}
  BY <1>1 DEF Ready, StateOK, AccountsOK, PositionsType, PositionRec
<1>3. o \in OrderRec /\ o.oper_type = CLOSE
  <2>1. PricesOK /\ CLOSE \in {OPEN, CLOSE} /\ 0 \in Int
    BY DEF Ready, StateOK
  <2>2. o.oper_type = CLOSE
    BY DEF initOrder
  <2> QED BY <2>1, <2>2, <1>2, initOrderType
<1> HIDE DEF o
<1>4. o.oper_type # OPEN /\ pc # "match"
  BY <1>1, <1>3 DEF OPEN, CLOSE
<1> QED BY <1>1, <1>3, <1>4, StartMoney

LEMMA CancelMoney ==
  ASSUME pc # "match", NEW i \in DOMAIN orders, NEW next, next # "match",
         market_cancel_order(i, next)
  PROVE  MoneyStep
<1>1. pc' # "match"
  BY DEF market_cancel_order, Compares
<1>2. CASE orders[i].oper_type = OPEN /\ orders[i].freeze > 0
  <2>1. \/ /\ balance' = [balance EXCEPT ![orders[i].user] = balance_unfreeze(@, orders[i].freeze)]
           /\ order_finish_future(i)
        \/ UNCHANGED <<balance, index>>
    BY <1>2 DEF market_cancel_order
  <2> QED BY <1>1, <1>2, <2>1 DEF MoneyStep, Refunds, KeepsMoney
<1>3. CASE ~(orders[i].oper_type = OPEN /\ orders[i].freeze > 0)
  <2>1. balance' = balance /\ (order_finish_future(i) \/ UNCHANGED index)
    BY <1>3 DEF market_cancel_order
  <2> QED BY <1>1, <1>3, <2>1 DEF MoneyStep, KeepsMoney
<1> QED BY <1>2, <1>3

\* Requests about modes and principals.
LEMMA AccountMoney ==
  ASSUME ModeOrders = 0 \/ 1 \in Leverages, Ready, ModesOK, ModeRequest \/ PrincipalRequest
  PROVE  MoneyStep /\ ModesOK'
<1>1. CASE ModeRequest
  <2>1. 1 \in Leverages
    BY <1>1 DEF ModeRequest, Ready, StateOK, IndexOK
  <2>2. /\ pc = "idle" /\ pc' \in {"idle", "crash"} /\ UNCHANGED <<balance, index>>
    BY <1>1 DEF ModeRequest, on_cmd_position_query_all, on_cmd_position_mode_query,
                on_cmd_position_mode_adjust, accounts
  <2>3. MoneyStep
    BY <2>2 DEF MoneyStep, KeepsMoney
  <2>4. ASSUME NEW u, NEW m, NEW pattern, NEW lv \in Leverages
        PROVE  \A k \in DOMAIN add_position_mode(u, m, pattern, lv) :
                 add_position_mode(u, m, pattern, lv)[k].leverage \in Leverages
    <3> DEFINE key == <<u, m>>  v == [pattern |-> pattern, leverage |-> lv]
    <3>1. v.leverage \in Leverages
      OBVIOUS
    <3> HIDE DEF v
    <3>2. \/ add_position_mode(u, m, pattern, lv) = position_mode
          \/ add_position_mode(u, m, pattern, lv) = WithEntry(position_mode, key, v)
      BY DEF add_position_mode, v
    <3> HIDE DEF key
    <3> QED BY <3>1, <3>2 DEF ModesOK, WithEntry
  <2>5. ASSUME NEW u, on_cmd_position_query_all(u) PROVE ModesOK'
    BY <2>5 DEF on_cmd_position_query_all, accounts, ModesOK
  <2>6. ASSUME NEW u, NEW m, on_cmd_position_mode_query(u, m) PROVE ModesOK'
    BY <2>1, <2>4, <2>6 DEF on_cmd_position_mode_query, ModesOK
  <2>7. ASSUME NEW u, NEW m, NEW pattern, NEW lv \in Leverages,
               on_cmd_position_mode_adjust(u, m, pattern, lv)
        PROVE  ModesOK'
    <3> DEFINE found == add_position_mode(u, m, ISOLATED, lv)
               v == [pattern |-> pattern, leverage |-> lv]
    <3>1. \A k \in DOMAIN found : found[k].leverage \in Leverages
      BY <2>4
    <3>2. position_mode' = found \/ position_mode' = [found EXCEPT ![<<u, m>>] = v]
      BY <2>7 DEF on_cmd_position_mode_adjust
    <3>3. v.leverage \in Leverages
      OBVIOUS
    <3> HIDE DEF found, v
    <3> QED BY <3>1, <3>2, <3>3 DEF ModesOK
  <2> QED BY <1>1, <2>3, <2>5, <2>6, <2>7 DEF ModeRequest
<1>2. CASE PrincipalRequest
  <2>1. PICK k, change : on_cmd_position_adjust_principal(k, change)
    BY <1>2 DEF PrincipalRequest
  <2>2. /\ pc = "idle" /\ pc' = pc /\ UNCHANGED <<index, position_mode>>
        /\ balance' = [balance EXCEPT ![k[1]] =
                         IF change > 0 THEN balance_sub(@, "available", change)
                                       ELSE balance_add(@, "available", -change)]
    BY <2>1 DEF on_cmd_position_adjust_principal
  <2>3. ASSUME NEW u \in Users PROVE balance'[u].freeze = balance[u].freeze
    <3>1. Frozen(balance[u]) /\ u \in DOMAIN balance
      BY AccountFrozen DEF Ready, StateOK, AccountsOK
    <3>2. /\ balance_sub(balance[u], "available", change).freeze = balance[u].freeze
          /\ balance_add(balance[u], "available", -change).freeze = balance[u].freeze
      BY <3>1, AvailableOnly
    <3>3. balance'[u] \in {balance[u], balance_sub(balance[u], "available", change),
                           balance_add(balance[u], "available", -change)}
      BY <2>2, <3>1
    <3> QED BY <3>2, <3>3
  <2> QED BY <2>2, <2>3 DEF MoneyStep, KeepsMoney, ModesOK
<1> QED BY <1>1, <1>2

LEMMA FinishesMoney ==
  ASSUME pc # "match", pc' # "match", UNCHANGED balance, NEW i \in DOMAIN orders,
         orders[i].oper_type = OPEN => ~(orders[i].freeze > 0), order_finish_future(i)
  PROVE  MoneyStep
<1>1. \A u \in Users : balance'[u].freeze = balance[u].freeze
  OBVIOUS
<1> QED BY <1>1 DEF MoneyStep, KeepsMoney

LEMMA PlanMoney ==
  ASSUME BaseInv, HoldingsInv, Ready, Planning PROVE MoneyStep
<1>1. CASE PlanStep
  <2>1. PICK i \in scan.todo : PlanSkip(i) \/ PlanOpen(i) \/ PlanClose(i) \/ PlanDangling(i)
    BY <1>1 DEF PlanStep, NextInScan
  <2>2. pc = "plan"
    BY <1>1 DEF PlanStep
  <2>3. CASE PlanSkip(i) \/ PlanDangling(i)
    <3>1. pc' \in {"plan", "crash"} /\ UNCHANGED <<balance, index>>
      BY <2>2, <2>3 DEF PlanSkip, PlanDangling, Skip, accounts
    <3> QED BY <2>2, <3>1, RestsMoney
  <2>4. CASE PlanOpen(i)
    <3> DEFINE c == copyOrder(orders[i])
               pri == Margin(c.left, c.leverage)
               funded == [c EXCEPT !.freeze = pri]
    <3>1. /\ checkPriAndFee(c.pattern, c.user, pri) /\ UNCHANGED index
          /\ i \in DOMAIN orders /\ orders[i].oper_type = OPEN
          /\ IF c.type = LIMIT
             THEN /\ balance' = [balance EXCEPT ![c.user] = balance_freeze(@, pri)]
                  /\ Execute(funded, c.market, "planner", i)
             ELSE Execute(c, c.market, "planner", i) /\ UNCHANGED balance
      BY <2>4 DEF PlanOpen
    <3>2. orders[i] \in OrderRec /\ orders[i].left > 0 /\ orders[i].type # LIMIT
      <4>1. orders[i].type # LIMIT
        BY <2>2, <3>1 DEF HoldingsInv, ScanOK, InPlanner, BaseInv, StateOK, ControlOK, HandlerOK
      <4> QED BY <3>1, <4>1 DEF HoldingsInv, LeftsOK, BaseInv, StateOK, IndexOK, OrdersType
    <3>3. c \in OrderRec /\ c.left > 0 /\ c.oper_type = OPEN
      <4>1. orders[i].type = PLAN
        BY <3>1, <3>2 DEF BaseInv, BooksInv, BooksOK, HoldingsInv, LeftsOK, OrderRec, OPEN, CLOSE
      <4>2. c.left = orders[i].left /\ c.oper_type = orders[i].oper_type
        BY <3>2, <4>1 DEF copyOrder, OrderRec
      <4> QED BY <3>1, <3>2, <4>2, copyOrderType
    <3> HIDE DEF c
    <3>4. pri \in Nat
      <4>1. c.left \in Nat /\ c.leverage \in Nat \ {0}
        BY <3>3 DEF OrderRec
      <4> QED BY <4>1, MarginIsNat
    <3>5. pri <= balance[c.user].available
      <4>1. c.user \in Users
        BY <3>3 DEF OrderRec
      <4> HIDE DEF pri
      <4> QED BY <3>1, <3>4, <4>1, CheckPaid DEF BaseInv, HoldingsInv, FrozenOK
    <3>6. CASE c.type = LIMIT
      <4>1. /\ funded \in OrderRec /\ funded.freeze = pri /\ funded.type = LIMIT
            /\ funded.oper_type = OPEN /\ funded.user = c.user
            /\ funded.left = c.left /\ funded.leverage = c.leverage
        <5> HIDE DEF pri
        <5> QED BY <3>3, <3>4, <3>6 DEF OrderRec
      <4> HIDE DEF funded
      <4>2. /\ balance' = [balance EXCEPT ![funded.user] = balance_freeze(@, funded.freeze)]
            /\ Execute(funded, c.market, "planner", i)
            /\ funded.freeze <= balance[funded.user].available
            /\ funded.freeze = Margin(funded.left, funded.leverage)
        BY <3>1, <3>5, <3>6, <4>1
      <4>3. pc # "match" /\ UNCHANGED index
        BY <2>2, <3>1
      <4> QED BY ONLY <4>1, <4>2, <4>3, StartMoney
    <3>7. CASE c.type # LIMIT
      <4>1. pc # "match" /\ UNCHANGED <<balance, index>> /\ Execute(c, c.market, "planner", i)
        BY <2>2, <3>1, <3>7
      <4> QED BY <3>3, <3>7, <4>1, StartMoney
    <3> QED BY <3>6, <3>7
  <2>5. CASE PlanClose(i)
    <3> DEFINE c == copyOrder(orders[i])
    <3>1. /\ i \in DOMAIN orders /\ orders[i].oper_type = CLOSE
          /\ Execute(c, c.market, "planner", i) /\ UNCHANGED <<balance, index>>
      BY <2>5 DEF PlanClose
    <3>2. orders[i] \in OrderRec
      BY <3>1 DEF BaseInv, StateOK, IndexOK, OrdersType
    <3>3. c \in OrderRec /\ c.oper_type = CLOSE
      <4>1. c.oper_type = orders[i].oper_type
        BY <3>2 DEF copyOrder, OrderRec
      <4> QED BY <3>1, <3>2, <4>1, copyOrderType
    <3> HIDE DEF c
    <3>4. pc # "match" /\ c.oper_type # OPEN
      BY <2>2, <3>3 DEF OPEN, CLOSE
    <3> QED BY <3>1, <3>3, <3>4, StartMoney
  <2> QED BY <2>1, <2>3, <2>4, <2>5
<1>2. CASE ReturnToPlanner
  <2>1. /\ pc = "return" /\ call.by = "planner" /\ order_finish_future(call.old)
        /\ pc' \in {"plan", "crash"} /\ UNCHANGED balance
    BY <1>2 DEF ReturnToPlanner, Compares, accounts
  <2>2. call.old \in DOMAIN orders /\ orders[call.old].type # LIMIT
    BY <2>1 DEF HoldingsInv, ScanOK, InPlanner, BaseInv, StateOK, ControlOK, HandlerOK
  <2>3. orders[call.old].oper_type = OPEN => ~(orders[call.old].freeze > 0)
    BY <2>2 DEF Ready, FundsOK, Funded, FreezeRight
  <2>4. pc # "match" /\ pc' # "match"
    BY <2>1
  <2> QED BY <2>1, <2>2, <2>3, <2>4, FinishesMoney
<1>3. CASE PlanAdvance
  <2>1. pc = "plan" /\ pc' \in {"plan", "liquidate"} /\ UNCHANGED <<balance, index>>
    BY <1>3 DEF PlanAdvance, accounts
  <2> QED BY <2>1, RestsMoney
<1> QED BY <1>1, <1>2, <1>3 DEF Planning

\* Who loses what is left on the account has no open orders any more.
LEMMA ForfeitMoney ==
  ASSUME MarketNum = 1 \/ CROSS \notin Patterns, BaseInv, Named, CrossForfeit PROVE MoneyStep
<1> DEFINE k == victim.key  acc == balance[k[1]]
           forfeited == balance_set(balance_set(acc, "available", 0), "freeze", 0)
<1>1. /\ pc = "cancel" /\ pc' = "cross" /\ DoomedOrders = {} /\ positions[k].pattern = CROSS
      /\ balance' = [balance EXCEPT ![k[1]] = forfeited] /\ UNCHANGED index
  BY DEF CrossForfeit
<1>2. k \in DOMAIN positions
  BY <1>1 DEF BaseInv, StateOK, ControlOK, HandlerOK
<1>3. MarketNum = 1
  BY <1>1, <1>2 DEF Named, NamedIn, NamedIs
<1>4. k[1] \in Users /\ k[2] \in Markets
  BY <1>2 DEF BaseInv, StateOK, AccountsOK, PositionsType, Keys
<1>5. OpensIn(orders, k[1]) = {}
  <2>1. ASSUME NEW i \in DOMAIN orders, orders[i].user = k[1] PROVE FALSE
    <3>1. orders[i].market \in Markets
      BY DEF BaseInv, StateOK, IndexOK, OrdersType, OrderRec
    <3>2. orders[i].market = k[2]
      BY <1>3, <1>4, <3>1 DEF Markets
    <3>3. i \in DoomedOrders
      BY <1>1, <2>1, <3>2 DEF DoomedOrders, OrdersOf, ISOLATED, CROSS
    <3> QED BY <1>1, <3>3
  <2> QED BY <2>1 DEF OpensIn
<1>6. forfeited.freeze = 0
  <2>1. Rescale(0) = 0
    BY QuantumAssumption, SMT DEF Rescale
  <2>2. acc \in Account
    BY <1>4 DEF BaseInv, StateOK, AccountsOK
  <2> HIDE DEF acc
  <2> QED BY <2>1, <2>2 DEF balance_set, Account
<1> HIDE DEF forfeited, k
<1>7. \A u \in Users : \/ balance'[u].freeze = balance[u].freeze
                       \/ balance'[u].freeze = 0 /\ OpensIn(orders, u) = {}
  BY <1>1, <1>4, <1>5, <1>6 DEF BaseInv, StateOK, AccountsOK
<1> QED BY <1>1, <1>7 DEF MoneyStep, KeepsMoney

LEMMA LiquidationMoney ==
  ASSUME MarketNum = 1 \/ CROSS \notin Patterns, BaseInv, HoldingsInv, Named, Liquidating
  PROVE  MoneyStep
<1>1. CASE LiquidationPass \/ CrossDone \/ ReturnToLiquidation
  <2>1. /\ pc \in {"liquidate", "cross", "return"} /\ pc' \in {"idle", "cancel", "liquidate", "cross"}
        /\ UNCHANGED <<balance, index>>
    BY <1>1 DEF LiquidationPass, CrossDone, ReturnToLiquidation, accounts
  <2> QED BY <2>1, RestsMoney
<1>2. CASE LiquidationCancel
  <2>1. PICK i \in DOMAIN orders : pc = "cancel" /\ market_cancel_order(i, "cancel")
    BY <1>2 DEF LiquidationCancel, DoomedOrders, OrdersOf
  <2> QED BY <2>1, CancelMoney
<1>3. CASE CrossForfeit
  BY <1>3, ForfeitMoney
<1>4. ASSUME NEW m, NEW by, pc # "match", victim.key \in DOMAIN positions,
             Execute(BlastOrder(victim.key), m, by, 0), UNCHANGED <<balance, index>>
      PROVE  MoneyStep
  <2>1. BlastOrder(victim.key) \in OrderRec /\ BlastOrder(victim.key).type # LIMIT
    BY <1>4, BlastOrderType DEF BaseInv, MARKET, LIMIT
  <2> QED BY <1>4, <2>1, StartMoney
<1>5. CASE IsolatedBlast
  <2>1. /\ pc = "cancel" /\ UNCHANGED <<balance, index>>
        /\ Execute(BlastOrder(victim.key), victim.key[2], "liquidation", 0)
    BY <1>5 DEF IsolatedBlast
  <2>2. victim.key \in DOMAIN positions
    BY <2>1 DEF BaseInv, StateOK, ControlOK, HandlerOK
  <2> QED BY <1>4, <2>1, <2>2
<1>6. CASE CrossBlast
  <2>1. PICK e \in victim.todo :
          \/ /\ victim.key \in DOMAIN positions
             /\ Execute(BlastOrder(victim.key), e[1], "cross", 0)
          \/ UNCHANGED pc
    BY <1>6 DEF CrossBlast
  <2>2. pc = "cross" /\ UNCHANGED <<balance, index>>
    BY <1>6 DEF CrossBlast
  <2>3. CASE UNCHANGED pc
    BY <2>2, <2>3, RestsMoney
  <2>4. CASE victim.key \in DOMAIN positions /\ Execute(BlastOrder(victim.key), e[1], "cross", 0)
    BY <1>4, <2>2, <2>4
  <2> QED BY <2>1, <2>3, <2>4
<1> QED BY <1>1, <1>2, <1>3, <1>5, <1>6 DEF Liquidating

LEMMA ModesStay == ASSUME ModesOK, UNCHANGED position_mode PROVE ModesOK'
  BY DEF ModesOK

LEMMA NextMoney ==
  ASSUME NoTriggers, PlainMargins, BaseInv, HoldingsInv, Named, FundsOK, ModesOK, [Next]_vars
  PROVE  MoneyStep /\ ModesOK'
<1>1. Ready /\ FrozenOK
  BY DEF Ready, BaseInv, HoldingsInv
<1>2. CASE OpenRequest
  BY <1>1, <1>2, OpenRequestArgs, OpenMoney DEF PlainMargins
<1>3. CASE CloseRequest
  <2>1. PICK a : ArgsType(a) /\ a.type \in CloseTypes /\ market_put_order_close(a)
    BY <1>3, CloseRequestArgs
  <2>2. UNCHANGED position_mode
    BY <2>1 DEF market_put_order_close
  <2> QED BY <1>1, <2>1, <2>2, CloseMoney, ModesStay DEF NoTriggers
<1>4. CASE CancelRequest
  <2>1. PICK i \in DOMAIN orders : pc = "idle" /\ market_cancel_order(i, "idle")
                                   /\ UNCHANGED position_mode
    BY <1>4 DEF CancelRequest, OrderCancel
  <2> QED BY <2>1, CancelMoney, ModesStay
<1>5. CASE ModeRequest \/ PrincipalRequest
  BY <1>1, <1>5, AccountMoney DEF PlainMargins
<1>6. CASE Matching
  <2>1. UNCHANGED position_mode
    BY <1>6 DEF Matching, MatchStep, Deal, RestTaker, DropTaker, ReturnToClient, accounts
  <2>2. ReturnToClient => pc = "return" /\ pc' \in {"plan", "idle"} /\ UNCHANGED <<balance, index>>
    BY DEF ReturnToClient, accounts
  <2> QED BY <1>6, <2>1, <2>2, RestsMoney, ModesStay DEF Matching, MoneyStep
<1>7. CASE Planning
  <2>1. UNCHANGED position_mode
    BY <1>7 DEF Planning, PlanStep, PlanSkip, PlanOpen, PlanClose, PlanDangling,
                ReturnToPlanner, PlanAdvance, accounts
  <2> QED BY <1>1, <1>7, <2>1, PlanMoney, ModesStay
<1>8. CASE Liquidating
  <2>1. UNCHANGED position_mode
    BY <1>8 DEF Liquidating, LiquidationPass, LiquidationCancel, IsolatedBlast, CrossForfeit,
                CrossBlast, CrossDone, ReturnToLiquidation, accounts
  <2> QED BY <1>8, <2>1, LiquidationMoney, ModesStay DEF PlainMargins
<1>9. CASE Rejected \/ UNCHANGED vars
  <2>1. UNCHANGED vars
    BY <1>9 DEF Rejected
  <2>2. UNCHANGED position_mode
    BY <2>1 DEF vars
  <2> QED BY <2>1, <2>2, ModesStay DEF MoneyStep
<1> QED BY <1>2, <1>3, <1>4, <1>5, <1>6, <1>7, <1>8, <1>9 DEF Next, Requests

LEMMA MarginInit == Init => MarginInv
<1> SUFFICES ASSUME Init PROVE MarginInv
  OBVIOUS
<1>1. /\ DOMAIN orders = {} /\ DOMAIN position_mode = {} /\ pc = "idle"
      /\ balance = [u \in Users |-> [available |-> Rescale(InitBalance), freeze |-> 0]]
  BY DEF Init
<1>2. FundsOK /\ ModesOK
  BY <1>1 DEF FundsOK, Funded, ModesOK
<1>3. ASSUME NEW u \in Users PROVE Covers(balance[u].freeze, MoneyIn(orders, u) + TakerFreeze(u))
  <2>1. OpensIn(orders, u) = {}
    BY <1>1 DEF OpensIn
  <2>2. MoneyIn(orders, u) = 0 /\ TakerFreeze(u) = 0 /\ balance[u].freeze = 0
    BY <1>1, <2>1, SumOfNone, TakerFreezeFacts DEF MoneyIn
  <2> QED BY <2>2 DEF Covers
<1> QED BY <1>2, <1>3 DEF MarginInv, MoneyOK

LEMMA MarginInvariant ==
  ASSUME NoTriggers, PlainMargins PROVE Spec => [](BaseInv /\ HoldingsInv /\ MarginInv)
<1>1. Init => MarginInv
  BY MarginInit
<1>2. /\ BaseInv /\ HoldingsInv /\ Named /\ MarginInv /\ [Next]_vars
      /\ BaseInv' /\ HoldingsInv'
      => MarginInv'
  <2> SUFFICES ASSUME BaseInv, HoldingsInv, Named, MarginInv, [Next]_vars, BaseInv', HoldingsInv'
               PROVE  MarginInv'
    OBVIOUS
  <2>1. Ready /\ MoneyOK /\ StateOK' /\ LeftsOK'
    BY DEF Ready, BaseInv, HoldingsInv, MarginInv
  <2>2. MoneyStep /\ ModesOK'
    BY NextMoney DEF MarginInv
  <2>3. MatchStep => pc' # "crash"
    BY MatchSound DEF Sound
  <2> QED BY <2>1, <2>2, <2>3, MoneyStepKeeps DEF PlainMargins, MarginInv
<1>3. Spec => [](BaseInv /\ HoldingsInv)
  BY HoldingsInvariant
<1>4. Spec => []Named
  BY NamedInvariant, PTL
<1> QED BY <1>1, <1>2, <1>3, <1>4, PTL DEF Spec

------------------------------------------------------------------------------
(* What it is for                                                           *)

\* The account of whoever has an open order holds what the order froze and has
\* not spent: the order can be cancelled.  Margins may be rounded.
THEOREM CancelAlwaysSucceeds ==
  ASSUME CloseTypes \subseteq {MARKET, LIMIT}, Quantum = 1, OneLeverage,
         ModeOrders = 0 \/ 1 \in Leverages, MarketNum = 1 \/ CROSS \notin Patterns
  PROVE  Spec => []CancelSucceeds
<1>1. BaseInv /\ HoldingsInv /\ MarginInv => CancelSucceeds
  <2> SUFFICES ASSUME BaseInv, HoldingsInv, MarginInv, NEW i \in DOMAIN orders,
                      orders[i].oper_type = OPEN, orders[i].freeze > 0
               PROVE  CanSub(balance[orders[i].user], "freeze", orders[i].freeze)
    BY DEF CancelSucceeds
  <2> DEFINE o == orders[i]
  <2>1. Ready /\ MoneyOK /\ TableFunded(orders)
    BY ReadyTable DEF Ready, BaseInv, HoldingsInv, MarginInv
  <2>2. o \in OrderRec /\ o.user \in Users /\ FreezeRight(o)
    BY <2>1 DEF Ready, StateOK, IndexOK, OrdersType, OrderRec, FundsOK, Funded
  <2>3. i \in OpensIn(orders, o.user)
    BY <2>2 DEF FreezeRight, OpensIn
  <2>4. o.freeze <= MoneyIn(orders, o.user) /\ o.freeze \in Nat
    BY <2>1, <2>3, MoneyFacts
  <2>5. /\ balance[o.user] \in Account /\ balance[o.user].freeze \in Nat
        /\ MoneyIn(orders, o.user) \in Nat /\ TakerFreeze(o.user) \in Nat
        /\ balance[o.user].freeze >= MoneyIn(orders, o.user) + TakerFreeze(o.user)
    BY <2>1, <2>2, MoneyTypes
  <2>6. o.freeze <= balance[o.user].freeze
    BY <2>4, <2>5
  <2> QED BY <2>4, <2>5, <2>6, UnfreezeExact, AccountFrozen
<1>2. NoTriggers /\ PlainMargins
  BY DEF NoTriggers, PlainMargins
<1> QED BY <1>1, <1>2, MarginInvariant, PTL

\* What an account has frozen is what its open limit orders froze and have not
\* spent, to the last unit, if no margin is rounded.
THEOREM FreezeAlwaysCovered ==
  ASSUME CloseTypes \subseteq {MARKET, LIMIT}, Quantum = 1, OneLeverage, Even,
         ModeOrders = 0 \/ 1 \in Leverages, MarketNum = 1 \/ CROSS \notin Patterns
  PROVE  Spec => []FreezeCovered
<1>1. BaseInv /\ HoldingsInv /\ MarginInv => FreezeCovered
  <2> SUFFICES ASSUME BaseInv, HoldingsInv, MarginInv, NEW u \in Users
               PROVE  balance[u].freeze = SumFunctionOnSet(Freezes, OpenOrders(u)) + TakerFreeze(u)
    BY DEF FreezeCovered
  <2>1. Freezes = FreezeIn(orders) /\ OpenOrders(u) = OpensIn(orders, u)
    BY DEF Freezes, FreezeIn, OpenOrders, OpensIn
  <2>2. balance[u].freeze = MoneyIn(orders, u) + TakerFreeze(u)
    BY MoneyTypes DEF Ready, BaseInv, HoldingsInv, MarginInv
  <2> QED BY <2>1, <2>2 DEF MoneyIn
<1>2. NoTriggers /\ PlainMargins
  BY DEF NoTriggers, PlainMargins
<1> QED BY <1>1, <1>2, MarginInvariant, PTL
==============================================================================
