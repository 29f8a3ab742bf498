--------------------------- MODULE PositionRequests ---------------------------
(***************************************************************************)
(* The requests of me_server.c that look up, set or correct what an        *)
(* account's positions rest on: the position mode and the principal.  None *)
(* of them is written to the operation log, and each runs to its end in    *)
(* one step.                                                               *)
(***************************************************************************)
EXTENDS Market

CONSTANTS
  Changes,            \* amounts a request may add to or take from a principal
  ModeOrders,         \* bound: modes are asked for before so many orders are in
  PrincipalOrders,    \* bound: principals are changed before so many are in
  PrincipalBound      \* bound on the principals such requests lead to

ASSUME PositionRequestsAssumption ==
  /\ ModeOrders \in Nat
  /\ PrincipalOrders \in Nat
  /\ Changes \subseteq Nat
  /\ PrincipalBound \in Nat

\* The mode a request finds, or leaves behind when there is none.
add_position_mode(u, m, pattern, leverage) ==
  IF <<u, m>> \in DOMAIN position_mode THEN position_mode
  ELSE WithEntry(position_mode, <<u, m>>, [pattern |-> pattern, leverage |-> leverage])

\* Asking for a mode creates it.  The answer names the market by a pointer that
\* add_position_mode never set: with what malloc left there it may crash.
on_cmd_position_mode_query(u, m) ==
  /\ pc = "idle"
  /\ position_mode' = add_position_mode(u, m, ISOLATED, 1)
  /\ pc' \in {"idle", "crash"}
  /\ UNCHANGED <<balance, positions, index, latestPrice, taker, call, scan, victim>>

\* Setting a mode creates it first, and then asks check_position_order_mode for
\* the orders and positions that pin it; but it passes the market's name where
\* a market is expected.  What the check reads is the memory behind the name:
\* it may crash, refuse what nothing pins or allow what an order pins.
on_cmd_position_mode_adjust(u, m, pattern, leverage) ==
  LET found == add_position_mode(u, m, ISOLATED, leverage)
  IN  /\ pc = "idle"
      /\ \/ position_mode' = found /\ pc' \in {"idle", "crash"}
         \/ /\ position_mode' = [found EXCEPT ![<<u, m>>] =
                                   [pattern |-> pattern, leverage |-> leverage]]
            /\ pc' = "idle"
      /\ UNCHANGED <<balance, positions, index, latestPrice, taker, call, scan, victim>>

\* Adding to a principal goes on when the account cannot pay for it: the refusal
\* is sent, nothing is taken, and the principal grows all the same.  Taking from
\* one is never refused: `!mpd_cmp(...) < 0` does not hold whatever is compared.
on_cmd_position_adjust_principal(k, change) ==
  /\ pc = "idle"
  /\ k \in DOMAIN positions
  /\ positions[k].principal + change \in 0..PrincipalBound
  /\ balance' = [balance EXCEPT ![k[1]] =
                   IF change > 0 THEN balance_sub(@, "available", change)
                                 ELSE balance_add(@, "available", -change)]
  /\ positions' = [positions EXCEPT ![k].principal = @ + change]
  /\ UNCHANGED <<position_mode, index, latestPrice, pc, taker, call, scan, victim>>

\* Listing one user's positions without naming a market reads the precision of
\* the market that was not named.
on_cmd_position_query_all(u) ==
  /\ pc = "idle"
  /\ pc' = IF \E m \in Markets : HasPosition(u, m) THEN "crash" ELSE "idle"
  /\ UNCHANGED <<accounts, index, latestPrice, taker, call, scan, victim>>

ModeRequest ==
  /\ order_id_start < ModeOrders
  /\ \E u \in Users :
       \/ on_cmd_position_query_all(u)
       \/ \E m \in Markets : on_cmd_position_mode_query(u, m)
       \/ \E m \in Markets, pattern \in Patterns, leverage \in Leverages :
            on_cmd_position_mode_adjust(u, m, pattern, leverage)

PrincipalRequest ==
  /\ order_id_start < PrincipalOrders
  /\ \E k \in Keys, change \in Changes :
       \/ on_cmd_position_adjust_principal(k, change)
       \/ on_cmd_position_adjust_principal(k, -change)
==============================================================================
