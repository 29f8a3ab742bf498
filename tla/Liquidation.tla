----------------------------- MODULE Liquidation -----------------------------
(***************************************************************************)
(* matchengine/src/me_liquidation.c: force_liquidation, the last thing a   *)
(* request that changed a price does.  A pass looks at one position, the   *)
(* first of dict_position (the hash decides which one that is); if it is   *)
(* liquidated there is another pass, otherwise the handler ends.           *)
(***************************************************************************)
EXTENDS Market

CONSTANTS
  CloseFee,           \* fee per contract of a forced close (0.0001)
  MaintenanceFee      \* maintenance margin per contract (0.0003)

ASSUME LiquidationAssumption == CloseFee \in Nat /\ MaintenanceFee \in Nat

\* isolated_liquidation: the equity does not cover the fees.
IsolatedBlown(k) ==
  LET p == positions[k]
  IN  getPNL(p, k[3], latestPrice[k[2]]) - Total(p) * (CloseFee + MaintenanceFee) <= 0

\* cross_liquidation: neither do all cross positions and the account together
\* (getSumPNL, getSumCloseFee, getSumMaintenance).
CrossBlown(u) ==
  LET held == MapThenSumSet(LAMBDA k : Total(positions[k]), CrossKeys(u))
  IN  balance[u].available + balance[u].freeze + getSumPNL(u)
        - held * (CloseFee + MaintenanceFee) <= 0

Blown(k) ==
  /\ latestPrice[k[2]] > 0
  /\ IF positions[k].pattern = ISOLATED THEN IsolatedBlown(k) ELSE CrossBlown(k[1])

\* One pass of force_liquidation.
LiquidationPass ==
  /\ pc = "liquidate"
  /\ \/ /\ DOMAIN positions = {}
        /\ pc' = "idle" /\ UNCHANGED victim
     \/ \E k \in DOMAIN positions :
          IF Blown(k)
          THEN pc' = "cancel" /\ victim' = [key |-> k, todo |-> {}]
          ELSE pc' = "idle" /\ UNCHANGED victim
  /\ UNCHANGED <<accounts, index, latestPrice, taker, call, scan>>

\* (variant) only open orders are cancelled
DoomedOrders_OpensOnly ==
  {i \in OrdersOf(victim.key[1], victim.key[2]) : orders[i].oper_type = OPEN}

\* The orders that have to go before the position is closed: those that close
\* it, or, for a cross position, all the user has in the position's market.
DoomedOrders ==
  LET u == victim.key[1]  m == victim.key[2]  s == victim.key[3]
  IN  {i \in OrdersOf(u, m) :
         positions[victim.key].pattern = ISOLATED =>
           orders[i].side = s /\ orders[i].oper_type = CLOSE}

\* One round of the cancelling loop: the latest of these orders, the first one in the
\* user's list (order_id_compare).
LiquidationCancel ==
  /\ pc = "cancel"
  /\ \E i \in DoomedOrders :
       /\ \A j \in DoomedOrders : i >= j
       /\ market_cancel_order(i, "cancel")
  /\ UNCHANGED <<position_mode, latestPrice, taker, call, scan, victim>>

\* initOrder of a forced close: a market order over the whole position.
BlastOrder(k) ==
  LET p == positions[k]
  IN  [user |-> k[1], market |-> k[2], type |-> MARKET, side |-> k[3],
       oper_type |-> CLOSE, pattern |-> p.pattern, leverage |-> p.leverage,
       price |-> 0, left |-> Total(p), freeze |-> 0, isblast |-> TRUE,
       trigger |-> 0, current_price |-> 0,
       tpPrice |-> 0, tpAmount |-> 0, slPrice |-> 0, slAmount |-> 0]

BlastPosition(k) == [positions EXCEPT ![k] = FreezePosition(@, @.position)]

IsolatedBlast ==
  /\ pc = "cancel" /\ DoomedOrders = {}
  /\ positions[victim.key].pattern = ISOLATED
  /\ positions' = BlastPosition(victim.key)
  /\ Execute(BlastOrder(victim.key), victim.key[2], "liquidation", 0)
  /\ victim' = NoVictim
  /\ UNCHANGED <<balance, position_mode, index, latestPrice, scan>>

\* A cross user loses what is left on the account ...
CrossForfeit ==
  /\ pc = "cancel" /\ DoomedOrders = {}
  /\ positions[victim.key].pattern = CROSS
  /\ balance' = [balance EXCEPT ![victim.key[1]] =
                   balance_set(balance_set(@, "available", 0), "freeze", 0)]
  /\ victim' = [victim EXCEPT !.todo = Markets \X Sides]
  /\ pc' = "cross"
  /\ UNCHANGED <<positions, position_mode, index, latestPrice, taker, call, scan>>

\* ... and for each cross position of the user, market by market and short
\* before long, a forced close is executed in that position's market.  The
\* order is made from the position of the pass, though, not from that position.
\* Once the pass's own position is closed, its record (deleted from the dict,
\* never freed) holds nothing, and the remaining orders are empty ones that
\* execute_order drops.
CrossBlast ==
  LET u == victim.key[1]
  IN  /\ pc = "cross"
      /\ \E e \in victim.todo :
           /\ \A f \in victim.todo : e[1] < f[1] \/ (e[1] = f[1] /\ e[2] <= f[2])
           /\ victim' = [victim EXCEPT !.todo = @ \ {e}]
           /\ IF <<u, e[1], e[2]>> \in CrossKeys(u) /\ victim.key \in DOMAIN positions
              THEN /\ positions' = BlastPosition(victim.key)
                   /\ Execute(BlastOrder(victim.key), e[1], "cross", 0)
              ELSE UNCHANGED <<positions, pc, taker, call>>
      /\ UNCHANGED <<balance, position_mode, index, latestPrice, scan>>

CrossDone ==
  /\ pc = "cross" /\ victim.todo = {}
  /\ pc' = "liquidate" /\ victim' = NoVictim
  /\ UNCHANGED <<accounts, index, latestPrice, taker, call, scan>>

ReturnToLiquidation ==
  /\ pc = "return" /\ call.by \in {"liquidation", "cross"}
  /\ pc' = IF call.by = "cross" THEN "cross" ELSE "liquidate"
  /\ taker' = NoOrder /\ call' = NoCall
  /\ UNCHANGED <<accounts, index, latestPrice, scan, victim>>
==============================================================================
