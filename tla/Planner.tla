------------------------------- MODULE Planner -------------------------------
(***************************************************************************)
(* matchengine/src/me_planner.c: after a request has changed a price,      *)
(* on_planner walks once over the plan orders of every market, sell side   *)
(* before buy side, and releases the ones whose condition holds at the     *)
(* price their market has by then.  A released order is a copy, executed   *)
(* as a market order if it has no price and as a limit order otherwise;    *)
(* the plan order itself is finished when the copy has been executed.      *)
(* (dict_market is iterated in the order of its hash; the markets of the   *)
(* model are numbered in that order.)                                      *)
(***************************************************************************)
EXTENDS Market

\* checkConditionAsk and checkConditionBid.  An unset price is 0, not NULL, and
\* takes part in the comparisons.  The result is the amount to close.
TpslFires(o) ==
  LET last == latestPrice[o.market]
  IN  IF IsAsk(o) THEN last >= o.tpPrice \/ last <= o.slPrice
                  ELSE last <= o.tpPrice \/ last >= o.slPrice

TpslAmount(o) ==
  LET last == latestPrice[o.market]
  IN  IF IF IsAsk(o) THEN last >= o.tpPrice ELSE last <= o.tpPrice
      THEN o.tpAmount ELSE o.slAmount

\* The trigger lies between the price when the order was placed and the price
\* now, from either side.
PlanFires(o) ==
  LET last == latestPrice[o.market]
  IN  \/ o.current_price >= o.trigger /\ last <= o.trigger
      \/ o.current_price <= o.trigger /\ last >= o.trigger

Fires(o) == IF o.type = PLAN THEN PlanFires(o) ELSE TpslFires(o)

\* copyOrder, with the type and the amount of the released order.
copyOrder(o) ==
  [o EXCEPT !.type = IF o.price = 0 THEN MARKET ELSE LIMIT,
            !.left = IF o.type = PLAN THEN @ ELSE TpslAmount(o)]

\* (variant) the iterator stays where it is
Skip_Stays(i) == pc' = "plan" /\ i \in scan.todo /\ UNCHANGED scan

\* The iterator moves on.
Skip(i) == /\ pc' = "plan"
           /\ scan' = [scan EXCEPT !.todo = @ \ {i}]

\* The orders the iterator may be at: the first of the list, if it has an order.
NextInScan ==
  {i \in scan.todo : Sorted(scan.market, scan.list) =>
                       \A j \in scan.todo \ {i} : Before(i, j)}

PlanSkip(i) ==
  LET o == orders[i]
      c == copyOrder(o)
  IN  /\ i \in DOMAIN orders
      /\ \/ ~Fires(o)
         \/ /\ o.oper_type = OPEN
            /\ ~checkPriAndFee(c.pattern, c.user, Margin(c.left, c.leverage))
         \/ o.oper_type = CLOSE /\ KeyOf(o) \notin DOMAIN positions
      /\ Skip(i)
      /\ UNCHANGED <<accounts, index, latestPrice, taker, call, victim>>

\* A released open order needs its margin; only a limit order freezes it.
PlanOpen(i) ==
  LET o   == orders[i]
      c   == copyOrder(o)
      pri == Margin(c.left, c.leverage)
  IN  /\ i \in DOMAIN orders
      /\ Fires(o) /\ o.oper_type = OPEN
      /\ checkPriAndFee(c.pattern, c.user, pri)
      /\ IF c.type = LIMIT
         THEN /\ balance' = [balance EXCEPT ![c.user] = balance_freeze(@, pri)]
              /\ Execute([c EXCEPT !.freeze = pri], c.market, "planner", i)
         ELSE Execute(c, c.market, "planner", i) /\ UNCHANGED balance
      /\ scan' = [scan EXCEPT !.todo = @ \ {i}]
      /\ UNCHANGED <<positions, position_mode, index, latestPrice, victim>>

\* A released close order sets its contracts aside, held or not.
PlanClose(i) ==
  LET o == orders[i]
      c == copyOrder(o)
  IN  /\ i \in DOMAIN orders
      /\ Fires(o) /\ o.oper_type = CLOSE
      /\ KeyOf(o) \in DOMAIN positions
      /\ positions' = [positions EXCEPT ![KeyOf(o)] = FreezePosition(@, c.left)]
      /\ Execute(c, c.market, "planner", i)
      /\ scan' = [scan EXCEPT !.todo = @ \ {i}]
      /\ UNCHANGED <<balance, position_mode, index, latestPrice, victim>>

\* An order that was freed and is still in the list is read after its memory
\* was given back: the process crashes, or finds nothing to release.
PlanDangling(i) ==
  /\ i \notin DOMAIN orders
  /\ \/ Skip(i)
     \/ pc' = "crash" /\ UNCHANGED scan
  /\ UNCHANGED <<accounts, index, latestPrice, taker, call, victim>>

PlanStep ==
  /\ pc = "plan"
  /\ \E i \in NextInScan : PlanSkip(i) \/ PlanOpen(i) \/ PlanClose(i) \/ PlanDangling(i)

\* The released copy has been executed; the plan order is finished.
ReturnToPlanner ==
  /\ pc = "return" /\ call.by = "planner"
  /\ order_finish_future(call.old)
  /\ pc' \in Compares(orders[call.old].market, FinishList(orders[call.old]), "plan")
  /\ taker' = NoOrder /\ call' = NoCall
  /\ UNCHANGED <<accounts, latestPrice, scan, victim>>

\* The list is exhausted: on to the next list, the next market, and at the end
\* to force_liquidation.
PlanAdvance ==
  /\ pc = "plan"
  /\ scan.todo = {}
  /\ IF scan.list = "plan_asks"
     THEN /\ scan' = [scan EXCEPT !.list = "plan_bids",
                                  !.todo = book[scan.market]["plan_bids"]]
          /\ UNCHANGED pc
     ELSE IF scan.market < MarketNum
     THEN /\ scan' = [market |-> scan.market + 1, list |-> "plan_asks",
                      todo |-> book[scan.market + 1]["plan_asks"]]
          /\ UNCHANGED pc
     ELSE scan' = NoScan /\ pc' = "liquidate"
  /\ UNCHANGED <<accounts, index, latestPrice, taker, call, victim>>
==============================================================================
