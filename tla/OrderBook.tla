------------------------------ MODULE OrderBook ------------------------------
(***************************************************************************)
(* What the matching part of the match engine promises, without accounts,  *)
(* positions, plan orders or liquidations: a continuous double auction     *)
(* with price-time priority.  Orders rest in two books per market; one     *)
(* incoming order at a time trades with the best resting orders at their   *)
(* prices, and what is left of it rests, if it named a price, or vanishes. *)
(***************************************************************************)
EXTENDS Integers

CONSTANTS Markets

VARIABLES
  resting,            \* partial function of arrival numbers to orders
  incoming,           \* the order being matched, or NoIncoming
  lastPrice           \* price of the last trade of every market

abstractVars == <<resting, incoming, lastPrice>>

NoIncoming == [left |-> 0]

\* A resting order, as the book knows it.
Slot(o) == [market |-> o.market, ask |-> o.ask, price |-> o.price, left |-> o.left]

\* Price first, then arrival.
Better(i, j) ==
  LET p == resting[i].price  q == resting[j].price
  IN  IF p = q THEN i < j ELSE IF resting[i].ask THEN p < q ELSE p > q

OtherSide == {i \in DOMAIN resting : /\ resting[i].market = incoming.market
                                     /\ resting[i].ask # incoming.ask}

Acceptable(i) ==
  \/ ~incoming.limit
  \/ IF incoming.ask THEN incoming.price <= resting[i].price
                     ELSE incoming.price >= resting[i].price

AInit == /\ resting = [i \in {} |-> 0]
         /\ incoming = NoIncoming
         /\ lastPrice = [m \in Markets |-> 0]

\* An order arrives, from a client or from within the engine.
Arrive == /\ incoming = NoIncoming
          /\ incoming' # NoIncoming /\ incoming'.left # 0
          /\ UNCHANGED <<resting, lastPrice>>

\* A trade takes place at the best price the other side has on offer, with the
\* order that offered it first, over all that both have left.
Trade(i) ==
  LET amount == IF incoming.left < resting[i].left THEN incoming.left ELSE resting[i].left
  IN  /\ incoming # NoIncoming
      /\ i \in OtherSide /\ Acceptable(i)
      /\ \A j \in OtherSide \ {i} : Better(i, j)
      /\ lastPrice' = [lastPrice EXCEPT ![incoming.market] = resting[i].price]
      /\ incoming' = IF incoming.left = amount THEN NoIncoming
                     ELSE [incoming EXCEPT !.left = @ - amount]
      /\ resting' = IF resting[i].left = amount
                    THEN [j \in DOMAIN resting \ {i} |-> resting[j]]
                    ELSE [resting EXCEPT ![i].left = @ - amount]

\* Nobody on the other side accepts the incoming order.
Unmatched == incoming # NoIncoming /\ \A i \in OtherSide : ~Acceptable(i)

Rest == /\ Unmatched /\ incoming.limit
        /\ \E id \in DOMAIN resting' :
             /\ \A j \in DOMAIN resting : j < id
             /\ resting' = [j \in DOMAIN resting \cup {id} |->
                              IF j = id THEN Slot(incoming) ELSE resting[j]]
        /\ incoming' = NoIncoming
        /\ UNCHANGED lastPrice

Vanish == /\ Unmatched /\ ~incoming.limit
          /\ incoming' = NoIncoming
          /\ UNCHANGED <<resting, lastPrice>>

\* A resting order is cancelled while nothing is being matched.
Withdraw == /\ incoming = NoIncoming
            /\ \E i \in DOMAIN resting :
                 resting' = [j \in DOMAIN resting \ {i} |-> resting[j]]
            /\ UNCHANGED <<incoming, lastPrice>>

ANext == Arrive \/ (\E i \in DOMAIN resting : Trade(i)) \/ Rest \/ Vanish \/ Withdraw

ASpec == AInit /\ [][ANext]_abstractVars
==============================================================================
