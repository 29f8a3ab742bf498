------------------------------- MODULE Market --------------------------------
(***************************************************************************)
(* The futures market of matchengine/src/me_market.c: the order index and  *)
(* the books, order entry (market_put_order_open, market_put_order_close), *)
(* matching (execute_order) and cancelling (market_cancel_order).          *)
(*                                                                         *)
(* The match engine is one libev loop: a request is handled to its end     *)
(* before the next one is read.  A handler is not one step here, though:   *)
(* `pc` says which loop of the handler is running, and every iteration of  *)
(* that loop is a step, so that what holds in the middle of a handler, and *)
(* whether the handler ends, can be stated.  Requests arrive only when pc  *)
(* is "idle".  Modules Planner and Liquidation add the loops that follow a *)
(* price change; module Engine puts them together.                         *)
(***************************************************************************)
EXTENDS Balance, Position, FiniteSetsExt

CONSTANTS
  Users,              \* the accounts
  MarketNum,          \* settings.market_num
  Prices,             \* entrust, trigger, take-profit and stop-loss prices
  Volumes,            \* order volumes, in contracts
  Leverages,          \* leverages a request may name
  Patterns,           \* margin patterns a request may name
  OpenTypes,          \* order types of open requests
  CloseTypes,         \* order types of close requests
  InitBalance,        \* available balance of every account at start
  TakerFee,           \* fee per contract of the taker
  MakerFee,           \* fee per contract of the maker
  MaxOrders           \* bound on the orders clients place in the index

MARKET == 0           \* order types
LIMIT  == 1
PLAN   == 2           \* plan order: released when the price crosses a trigger
TPSL   == 3           \* take-profit / stop-loss order

Markets == 1..MarketNum
Sides   == {BEAR, BULL}
Lists   == {"asks", "bids", "plan_asks", "plan_bids"}
Keys    == Users \X Markets \X Sides

ASSUME MarketAssumption ==
  /\ MarketNum \in Nat \ {0}
  /\ Prices \subseteq Nat \ {0}
  /\ Volumes \subseteq Nat
  /\ Leverages \subseteq Nat \ {0}
  /\ Patterns \subseteq {ISOLATED, CROSS}
  /\ OpenTypes \subseteq {MARKET, LIMIT, PLAN}
  /\ CloseTypes \subseteq {MARKET, LIMIT, PLAN, TPSL}
  /\ InitBalance \in Nat
  /\ TakerFee \in Nat
  /\ MakerFee \in Nat
  /\ MaxOrders \in Nat

VARIABLES
  balance,            \* dict_balance
  positions,          \* dict_position: partial function of Keys
  position_mode,      \* dict_position_mode: partial function of <<user, market>>
  orders,             \* market->orders: partial function of order ids
  book,               \* per market the four skiplists, as sets of order ids
  latestPrice,        \* market->latestPrice; 0 before the first deal
  order_id_start,     \* last order id given to an order of the index
  pc,                 \* the loop that is running
  taker,              \* the order execute_order is matching
  call,               \* who called execute_order, and what it returns to
  scan,               \* iterator of on_planner
  victim              \* the position force_liquidation looks at

accounts == <<balance, positions, position_mode>>
index    == <<orders, book, order_id_start>>
vars     == <<balance, positions, position_mode, orders, book, latestPrice,
              order_id_start, pc, taker, call, scan, victim>>

------------------------------------------------------------------------------
(* Orders                                                                   *)

OrderRec ==
  [user : Users, market : Markets, type : {MARKET, LIMIT, PLAN, TPSL},
   side : Sides, oper_type : {OPEN, CLOSE}, pattern : {ISOLATED, CROSS},
   leverage : Nat \ {0}, price : Nat, left : Int, freeze : Int, isblast : BOOLEAN,
   trigger : Nat, current_price : Nat,
   tpPrice : Nat, tpAmount : Nat, slPrice : Nat, slAmount : Nat]

NoOrder  == [left |-> 0]
NoCall   == [by |-> "none", market |-> 0, price |-> 0, old |-> 0]
NoScan   == [market |-> 0, list |-> "none", todo |-> {}]
NoVictim == [key |-> <<>>, todo |-> {}]

KeyOf(o) == <<o.user, o.market, o.side>>

\* An order that sells contracts: it opens a short or closes a long.
IsAsk(o) == \/ o.side = BEAR /\ o.oper_type = OPEN
            \/ o.side = BULL /\ o.oper_type = CLOSE

\* initOrder.  A market or plan order holds no money yet.
initOrder(a, oper_type, leverage, freeze) ==
  [user |-> a.user, market |-> a.market, type |-> a.type, side |-> a.direction,
   oper_type |-> oper_type, pattern |-> a.pattern, leverage |-> leverage,
   price |-> a.entrustPrice, left |-> a.volume, freeze |-> freeze, isblast |-> FALSE,
   trigger |-> a.triggerPrice, current_price |-> latestPrice[a.market],
   tpPrice |-> a.tpPrice, tpAmount |-> a.tpAmount,
   slPrice |-> a.slPrice, slAmount |-> a.slAmount]

\* (variant) the last order at a price comes first
Before_LastFirst(i, j) ==
  LET p == orders[i].price  q == orders[j].price
  IN  IF p = q THEN i > j ELSE IF IsAsk(orders[i]) THEN p < q ELSE p > q

\* order_match_compare on two orders of one list: price first (asks ascending,
\* bids descending), then the id, which is the arrival order.
Before(i, j) ==
  LET p == orders[i].price  q == orders[j].price
  IN  IF p = q THEN i < j ELSE IF IsAsk(orders[i]) THEN p < q ELSE p > q

\* order_put_future files an order under the list of its direction and kind,
\* order_finish_future looks for it under the list of its type.
PutList(o) ==
  IF IsAsk(o) THEN IF o.type = LIMIT THEN "asks" ELSE "plan_asks"
              ELSE IF o.type = LIMIT THEN "bids" ELSE "plan_bids"

\* (variant) the list is chosen by the side alone
FinishList_BySide(o) ==
  IF o.side = BEAR THEN IF o.type = PLAN THEN "plan_asks" ELSE "asks"
                   ELSE IF o.type = PLAN THEN "plan_bids" ELSE "bids"

FinishList(o) ==
  IF IsAsk(o) THEN IF o.type = PLAN THEN "plan_asks" ELSE "asks"
              ELSE IF o.type = PLAN THEN "plan_bids" ELSE "bids"

\* An id is drawn when an order enters the index.  The code draws it when the
\* order is made; ids are only ever compared between indexed orders, and none
\* enters the index in between.
order_put_future(m, o) ==
  LET id == order_id_start + 1
  IN  /\ order_id_start' = id
      /\ orders' = WithEntry(orders, id, o)
      /\ book' = [book EXCEPT ![m][PutList(o)] = @ \cup {id}]

\* order_match_compare orders two orders of one type only.  A list of several
\* types, or one with an order that was freed, has no order to rely on.
Sorted(m, l) ==
  \A i, j \in book[m][l] : {i, j} \subseteq DOMAIN orders /\ orders[i].type = orders[j].type

\* skiplist_find may miss an entry of a list that is not sorted.
order_finish_future(i) ==
  LET m == orders[i].market  l == FinishList(orders[i])
  IN  /\ orders' = WithoutEntry(orders, i)
      /\ \/ book' = [book EXCEPT ![m][l] = @ \ {i}]
         \/ ~Sorted(m, l) /\ UNCHANGED book
      /\ UNCHANGED order_id_start

\* Looking for a place or an entry in a list compares with the orders in it; one
\* that was freed may crash the process.
Compares(m, l, next) ==
  IF book[m][l] \subseteq DOMAIN orders THEN {next} ELSE {next, "crash"}

OrdersOf(u, m) == {i \in DOMAIN orders : orders[i].user = u /\ orders[i].market = m}
------------------------------------------------------------------------------
(* Matching                                                                 *)

Opposite(o) == IF IsAsk(o) THEN "bids" ELSE "asks"

\* (variant) equal prices do not match
PriceMatches_Strict(t, maker) ==
  \/ t.type = MARKET
  \/ IF IsAsk(t) THEN t.price < maker.price ELSE t.price > maker.price

\* May the taker deal with a resting order?  A market order takes any price, a
\* limit order its own or a better one.  Only limit orders rest in a book.
PriceMatches(t, maker) ==
  \/ t.type = MARKET
  \/ IF IsAsk(t) THEN t.price <= maker.price ELSE t.price >= maker.price

\* (variant) what a deal spends still counts as frozen by the order
adjustOrder_KeepsFreeze(o, amount) == [o EXCEPT !.left = @ - amount]

\* adjustOrder: both orders shrink by the amount; an open order's money is
\* spent at its own leverage.
adjustOrder(o, amount) ==
  [o EXCEPT !.left   = @ - amount,
            !.freeze = IF o.oper_type = OPEN THEN @ - Margin(amount, o.leverage) ELSE @]

\* (variant) the margin is paid, but not out of the frozen money
adjustBalance_KeepsFrozen(acc, o, amount, fee, pnl) ==
  IF o.oper_type = OPEN THEN balance_sub(acc, "available", Margin(amount, o.leverage))
  ELSE IF o.isblast THEN acc
  ELSE balance_sub(balance_add(acc, "available", pnl), "available", fee)

\* adjustBalance for one order of a deal.  An open order pays its margin, a
\* close order receives its share of the equity and pays the fee; a forced
\* close pays and receives nothing.  Failing account operations are ignored.
adjustBalance(acc, o, amount, fee, pnl) ==
  LET pri == Margin(amount, o.leverage)
  IN  IF o.oper_type = OPEN
      THEN balance_sub(IF o.type = LIMIT THEN balance_unfreeze(acc, pri) ELSE acc,
                       "available", pri)
      ELSE IF o.isblast THEN acc
      ELSE balance_sub(balance_add(acc, "available", pnl), "available", fee)

\* A close order whose position is gone has no equity: the code passes the
\* NULL on to balance_add.
LosesEquity(ps, o) == o.oper_type = CLOSE /\ ~o.isblast /\ KeyOf(o) \notin DOMAIN ps

DealPNL(ps, o, amount, price) ==
  IF o.oper_type = CLOSE /\ KeyOf(o) \in DOMAIN ps
  THEN ClosePNL(ps[KeyOf(o)], o.side, amount, price) ELSE 0

\* execute_order_open_imp: the taker's side of the deal first, then the maker's
\* on what that left; they may be orders of one user.
Deal(i) ==
  LET maker  == orders[i]
      amount == IF taker.left < maker.left THEN taker.left ELSE maker.left
      price  == maker.price
      taken  == adjustPosition(positions, KeyOf(taker), taker, amount, price,
                               amount * TakerFee)
      paid   == [balance EXCEPT ![taker.user] =
                   adjustBalance(@, taker, amount, amount * TakerFee,
                                 DealPNL(positions, taker, amount, price))]
      maker2 == adjustOrder(maker, amount)
  IN  /\ latestPrice' = [latestPrice EXCEPT ![call.market] = price]
      /\ positions' = adjustPosition(taken, KeyOf(maker), maker, amount, price,
                                     amount * MakerFee)
      /\ balance' = [paid EXCEPT ![maker.user] =
                       adjustBalance(@, maker, amount, amount * MakerFee,
                                     DealPNL(taken, maker, amount, price))]
      /\ taker' = adjustOrder(taker, amount)
      /\ IF maker2.left = 0
         THEN order_finish_future(i)
         ELSE orders' = [orders EXCEPT ![i] = maker2] /\ UNCHANGED <<book, order_id_start>>
      /\ pc' = IF LosesEquity(positions, taker) \/ LosesEquity(taken, maker)
               THEN "crash"
               ELSE IF taker'.left = 0 THEN "return" ELSE "match"
      /\ UNCHANGED <<position_mode, call, scan, victim>>

\* One iteration of execute_order: the first order of the opposite list deals
\* with the taker if the prices allow it.
MatchStep ==
  /\ pc = "match"
  /\ taker.left # 0
  /\ \E i \in book[call.market][Opposite(taker)] :
       /\ \A j \in book[call.market][Opposite(taker)] \ {i} : Before(i, j)
       /\ PriceMatches(taker, orders[i])
       /\ Deal(i)

\* The loop of execute_order has ended: the list is exhausted, its first order
\* (and with it every other) does not match, or the order was empty from the
\* start.  What is left of a limit order rests in the book.
NothingToMatch ==
  /\ pc = "match"
  /\ \/ taker.left = 0
     \/ \A i \in book[call.market][Opposite(taker)] : ~PriceMatches(taker, orders[i])

RestTaker ==
  /\ NothingToMatch
  /\ taker.type = LIMIT
  /\ order_put_future(call.market, taker)
  /\ pc' = "return"
  /\ UNCHANGED <<accounts, latestPrice, taker, call, scan, victim>>

\* What is left of a market order is cancelled: market_cancel_order gives the
\* contracts of a close order back to its position, and crashes without one.
DropTaker ==
  /\ NothingToMatch
  /\ taker.type = MARKET
  /\ IF taker.oper_type = CLOSE /\ taker.left > 0
     THEN IF KeyOf(taker) \in DOMAIN positions
          THEN /\ positions' = [positions EXCEPT ![KeyOf(taker)] =
                                  FreezePosition(@, -taker.left)]
               /\ pc' = "return"
          ELSE pc' = "crash" /\ UNCHANGED positions
     ELSE pc' = "return" /\ UNCHANGED positions
  /\ UNCHANGED <<balance, position_mode, index, latestPrice, taker, call, scan, victim>>

\* Start execute_order.
Execute(o, m, by, old) ==
  /\ pc' = "match"
  /\ taker' = o
  /\ call' = [by |-> by, market |-> m, price |-> latestPrice[m], old |-> old]

\* execute_order returns to market_put_order_common, which goes on to the plan
\* orders only if the price has changed.
ReturnToClient ==
  /\ pc = "return" /\ call.by = "client"
  /\ IF latestPrice[call.market] # call.price
     THEN pc' = "plan" /\ scan' = [market |-> 1, list |-> "plan_asks",
                                   todo |-> book[1]["plan_asks"]]
     ELSE pc' = "idle" /\ UNCHANGED scan
  /\ taker' = NoOrder /\ call' = NoCall
  /\ UNCHANGED <<accounts, index, latestPrice, victim>>
------------------------------------------------------------------------------
(* Order entry                                                              *)

HasPosition(u, m) == \E s \in Sides : <<u, m, s>> \in DOMAIN positions

\* The position whose leverage an open request takes over, long before short.
LeadPosition(u, m) ==
  IF <<u, m, BULL>> \in DOMAIN positions THEN positions[<<u, m, BULL>>]
                                         ELSE positions[<<u, m, BEAR>>]

\* check_position_order_mode: orders or positions pin the position mode.
ModePinned(u, m) == OrdersOf(u, m) # {} \/ HasPosition(u, m)

\* getSumPNL: the equity of all cross positions of a user.
CrossKeys(u) == {k \in DOMAIN positions : k[1] = u /\ positions[k].pattern = CROSS}

getSumPNL(u) ==
  MapThenSumSet(LAMBDA k : getPNL(positions[k], k[3], latestPrice[k[2]]), CrossKeys(u))

\* A cross user in the red needs the loss covered as well.
checkPriAndFee(pattern, u, pri) ==
  IF pattern = CROSS /\ CrossKeys(u) # {} /\ getSumPNL(u) < 0
  THEN balance[u].available + getSumPNL(u) >= pri
  ELSE balance[u].available >= pri

\* The position mode an open request leaves behind.  It is written before the
\* request is accepted.
ModeAfter(a) ==
  LET k == <<a.user, a.market>>
  IN  IF HasPosition(a.user, a.market) THEN position_mode
      ELSE IF k \notin DOMAIN position_mode \/ ~ModePinned(a.user, a.market)
      THEN WithEntry(position_mode, k, [pattern |-> a.pattern, leverage |-> a.leverage])
      ELSE position_mode

\* The checks of market_put_order_common and the first ones of
\* market_put_order_open.
OpenArgsValid(a) ==
  /\ a.type = LIMIT => a.entrustPrice > 0
  /\ a.type = PLAN => a.triggerPrice > 0
  /\ balance[a.user].available > 0
  /\ a.volume >= 1

\* market_put_order_open.  A limit order freezes its margin, computed with the
\* leverage of the position or of the position mode; the order itself carries
\* the leverage of the position or of the request.
market_put_order_open(a) ==
  LET mode     == ModeAfter(a)[<<a.user, a.market>>]
      held     == HasPosition(a.user, a.market)
      leverage == IF held THEN LeadPosition(a.user, a.market).leverage ELSE a.leverage
      pri      == Margin(a.volume, IF held THEN leverage ELSE mode.leverage)
  IN  /\ pc = "idle"
      /\ a.type # MARKET => order_id_start < MaxOrders
      /\ OpenArgsValid(a)
      /\ position_mode' = ModeAfter(a)
      /\ IF mode.pattern # a.pattern \/ ~checkPriAndFee(a.pattern, a.user, pri)
         THEN UNCHANGED <<balance, index, pc, taker, call>>
         ELSE IF a.type = PLAN
         THEN /\ order_put_future(a.market, initOrder(a, OPEN, leverage, 0))
              /\ pc' \in Compares(a.market, PutList(initOrder(a, OPEN, leverage, 0)), "idle")
              /\ UNCHANGED <<balance, taker, call>>
         ELSE /\ balance' = IF a.type = LIMIT
                            THEN [balance EXCEPT ![a.user] = balance_freeze(@, pri)]
                            ELSE balance
              /\ Execute(initOrder(a, OPEN, leverage, IF a.type = LIMIT THEN pri ELSE 0),
                         a.market, "client", 0)
              /\ UNCHANGED index
      /\ UNCHANGED <<positions, latestPrice, scan, victim>>

\* Take-profit and stop-loss prices must lie on their side of the price.
TpslValid(a) ==
  LET last == latestPrice[a.market]
  IN  /\ a.tpPrice > 0 \/ a.slPrice > 0
      /\ a.tpPrice > 0 => a.tpAmount > 0
      /\ a.slPrice > 0 => a.slAmount > 0
      /\ a.tpPrice > 0 => IF a.direction = BULL THEN a.tpPrice >= last ELSE a.tpPrice <= last
      /\ a.slPrice > 0 => IF a.direction = BULL THEN a.slPrice <= last ELSE a.slPrice >= last

CloseArgsValid(a) ==
  /\ a.type = LIMIT => a.entrustPrice > 0
  /\ a.type = PLAN => a.triggerPrice > 0
  /\ a.type = TPSL => TpslValid(a)
  /\ a.type # TPSL => a.volume >= 1

\* (variant) contracts promised to other orders count as well
HoldsVolume_WithFrozen(a, p) == a.type # TPSL => Total(p) >= a.volume

\* Only contracts no other order is selling can be closed.
HoldsVolume(a, p) == a.type # TPSL => p.position >= a.volume

\* market_put_order_close.  Limit and market orders set their contracts aside,
\* plan orders do not.
market_put_order_close(a) ==
  LET k == <<a.user, a.market, a.direction>>
      o == initOrder(a, CLOSE, positions[k].leverage, 0)
  IN  /\ pc = "idle"
      /\ a.type # MARKET => order_id_start < MaxOrders
      /\ CloseArgsValid(a)
      /\ k \in DOMAIN positions
      /\ HoldsVolume(a, positions[k])
      /\ IF a.type \in {MARKET, LIMIT}
         THEN /\ positions' = [positions EXCEPT ![k] = FreezePosition(@, a.volume)]
              /\ Execute(o, a.market, "client", 0)
              /\ UNCHANGED index
         ELSE /\ order_put_future(a.market, o)
              /\ pc' \in Compares(a.market, PutList(o), "idle")
              /\ UNCHANGED <<positions, taker, call>>
      /\ UNCHANGED <<balance, position_mode, latestPrice, scan, victim>>

\* market_cancel_order on an order of the index: it returns the money an open
\* order froze, or fails if the account does not hold it; it returns the
\* contracts of a close order, or crashes if there is no position.
market_cancel_order(i, next) ==
  LET o == orders[i]  k == KeyOf(orders[i])
      finish == /\ order_finish_future(i)
                /\ pc' \in Compares(o.market, FinishList(o), next)
  IN  IF o.oper_type = OPEN /\ o.freeze > 0
      THEN IF CanSub(balance[o.user], "freeze", o.freeze)
           THEN /\ balance' = [balance EXCEPT ![o.user] = balance_unfreeze(@, o.freeze)]
                /\ finish /\ UNCHANGED positions
           ELSE pc' = next /\ UNCHANGED <<balance, positions, index>>
      ELSE IF o.oper_type = CLOSE /\ o.left > 0
      THEN IF k \in DOMAIN positions
           THEN /\ positions' = [positions EXCEPT ![k] = FreezePosition(@, -o.left)]
                /\ finish /\ UNCHANGED balance
           ELSE pc' = "crash" /\ UNCHANGED <<balance, positions, index>>
      ELSE finish /\ UNCHANGED <<balance, positions>>

\* on_cmd_order_cancel of the order's owner.
OrderCancel(i) ==
  /\ pc = "idle"
  /\ market_cancel_order(i, "idle")
  /\ UNCHANGED <<position_mode, latestPrice, taker, call, scan, victim>>

\* A request that fails a check before anything is written is answered with an
\* error; so is the cancelling of an order that is not there.
Rejected == pc = "idle" /\ UNCHANGED vars
------------------------------------------------------------------------------
(* Requests                                                                 *)

\* Prices that mean something for an order type; the others are sent as 0.
EntrustPrices(type) == IF type = LIMIT THEN Prices
                       ELSE IF type = MARKET THEN {0} ELSE Prices \cup {0}
TriggerPrices(type) == IF type = PLAN THEN Prices ELSE {0}
TpslPrices(type)    == IF type = TPSL THEN Prices \cup {0} ELSE {0}
TpslAmounts(type, price, v) ==
  IF type # TPSL THEN {0} ELSE IF price > 0 THEN {v} ELSE {0, v}

\* initOpenArgs
OpenRequest ==
  \E u \in Users, m \in Markets, s \in Sides, t \in OpenTypes, pt \in Patterns,
     lv \in Leverages, v \in Volumes :
    \E ep \in EntrustPrices(t), tr \in TriggerPrices(t) :
      market_put_order_open(
        [user |-> u, market |-> m, direction |-> s, type |-> t, pattern |-> pt,
         leverage |-> lv, volume |-> v, entrustPrice |-> ep, triggerPrice |-> tr,
         tpPrice |-> 0, tpAmount |-> 0, slPrice |-> 0, slAmount |-> 0])

\* initCloseArgs.  A take-profit / stop-loss order has no volume of its own but
\* an amount for either price; an amount whose price is unset may be sent as 0.
CloseRequest ==
  \E u \in Users, m \in Markets, s \in Sides, t \in CloseTypes, pt \in Patterns,
     v \in Volumes :
    \E ep \in EntrustPrices(t), tr \in TriggerPrices(t),
       tp \in TpslPrices(t), sl \in TpslPrices(t) :
      \E ta \in TpslAmounts(t, tp, v), sa \in TpslAmounts(t, sl, v) :
        market_put_order_close(
          [user |-> u, market |-> m, direction |-> s, type |-> t, pattern |-> pt,
           volume |-> IF t = TPSL THEN 0 ELSE v,
           entrustPrice |-> ep, triggerPrice |-> tr,
           tpPrice |-> tp, tpAmount |-> ta, slPrice |-> sl, slAmount |-> sa])

CancelRequest == \E i \in DOMAIN orders : OrderCancel(i)

Init ==
  /\ balance = [u \in Users |-> [available |-> Rescale(InitBalance), freeze |-> 0]]
  /\ positions = [k \in {} |-> 0]
  /\ position_mode = [k \in {} |-> 0]
  /\ orders = [i \in {} |-> 0]
  /\ book = [m \in Markets |-> [l \in Lists |-> {}]]
  /\ latestPrice = [m \in Markets |-> 0]
  /\ order_id_start = 0
  /\ pc = "idle"
  /\ taker = NoOrder
  /\ call = NoCall
  /\ scan = NoScan
  /\ victim = NoVictim
==============================================================================
