---------------------------- MODULE EngineProps ------------------------------
(***************************************************************************)
(* What the match engine has to keep true, in every state of a handler and *)
(* not only between two requests.                                          *)
(***************************************************************************)
EXTENDS Engine, Functions

Phases == {"idle", "match", "return", "plan", "liquidate", "cancel", "cross", "crash"}

CallRec   == [by : {"none", "client", "planner", "liquidation", "cross"},
              market : Nat, price : Nat, old : Nat]
ScanRec   == [market : Nat, list : {"none", "plan_asks", "plan_bids"}, todo : SUBSET Nat]
VictimRec == [key : Keys \cup {<<>>}, todo : SUBSET (Markets \X Sides)]

\* Every variable holds what the C type of the object it stands for allows.
TypeOK ==
  /\ balance \in [Users -> Account]
  /\ \A k \in DOMAIN positions : k \in Keys /\ positions[k] \in PositionRec
  /\ \A k \in DOMAIN position_mode :
       /\ k \in Users \X Markets
       /\ position_mode[k] \in [pattern : {ISOLATED, CROSS}, leverage : Nat \ {0}]
  /\ \A i \in DOMAIN orders : i \in 1..order_id_start /\ orders[i] \in OrderRec
  /\ book \in [Markets -> [Lists -> SUBSET Nat]]
  /\ latestPrice \in [Markets -> Nat]
  /\ order_id_start \in Nat
  /\ pc \in Phases
  /\ pc \in {"match", "return"} => taker \in OrderRec
  /\ call \in CallRec /\ scan \in ScanRec /\ victim \in VictimRec

\* What the type invariant rests on: the lists hold ids that were given out, an
\* order of the index is only in the list of its market and kind, and the two
\* trading lists hold nothing else, whatever becomes of the plan lists; an order
\* being matched is a limit or a market order; and what a loop returns to,
\* walks over or closes is there, and of the right kind, when it is used.
ListsOK ==
  \A m \in Markets, l \in Lists : \A i \in book[m][l] :
    /\ i \in 1..order_id_start
    /\ l \in {"asks", "bids"} => i \in DOMAIN orders
    /\ i \in DOMAIN orders => orders[i].market = m /\ PutList(orders[i]) = l

InPlanner == pc = "plan" \/ (pc \in {"match", "return"} /\ call.by = "planner")

HandlerOK ==
  /\ pc \in {"match", "return"} /\ call.by = "planner" =>
       call.old \in DOMAIN orders /\ orders[call.old].type # LIMIT
  /\ pc = "match" =>
       /\ call.market \in Markets
       /\ taker.type \in {MARKET, LIMIT}
       /\ taker.type = LIMIT => taker.market = call.market
  /\ InPlanner =>
       /\ scan.market \in Markets
       /\ scan.todo \subseteq 1..order_id_start
       /\ \A j \in scan.todo : j \in DOMAIN orders => orders[j].type # LIMIT
  /\ pc = "cancel" => victim.key \in DOMAIN positions

EngineInv == TypeOK /\ ListsOK /\ HandlerOK

\* The limit orders that hold money, or contracts, of somebody, and how much.
OpenOrders(u)  == {i \in DOMAIN orders : /\ orders[i].user = u
                                         /\ orders[i].type = LIMIT
                                         /\ orders[i].oper_type = OPEN}
CloseOrders(k) == {i \in DOMAIN orders : /\ KeyOf(orders[i]) = k
                                         /\ orders[i].type = LIMIT
                                         /\ orders[i].oper_type = CLOSE}
Freezes == [i \in DOMAIN orders |-> orders[i].freeze]
Lefts   == [i \in DOMAIN orders |-> orders[i].left]

TakerFreeze(u) == IF /\ pc = "match" /\ taker.user = u
                     /\ taker.type = LIMIT /\ taker.oper_type = OPEN
                  THEN taker.freeze ELSE 0
TakerLeft(k)   == IF pc = "match" /\ KeyOf(taker) = k /\ taker.oper_type = CLOSE
                  THEN taker.left ELSE 0

\* The money an account has frozen is exactly what its open limit orders froze
\* and have not spent.  Freezing happens at order entry and at the release of
\* a plan order, spending in every deal, and the rest comes back on cancel.
FreezeCovered ==
  \A u \in Users :
    balance[u].freeze = SumFunctionOnSet(Freezes, OpenOrders(u)) + TakerFreeze(u)

\* The frozen contracts of a position are exactly those its live limit close
\* orders, and the market or forced close being matched, still have to sell;
\* none of the two parts of a position is negative.
FrozenCovered ==
  \A k \in DOMAIN positions :
    /\ positions[k].position >= 0
    /\ positions[k].frozen = SumFunctionOnSet(Lefts, CloseOrders(k)) + TakerLeft(k)

Holders(m, s) == {k \in DOMAIN positions : k[2] = m /\ k[3] = s}
Totals        == [k \in DOMAIN positions |-> Total(positions[k])]

\* Every contract has a holder on either side: the longs and the shorts of a
\* market add up to the same number.  A deal may open two positions, move a
\* contract from one holder to another, or close two positions.
OpenInterestBalanced ==
  \A m \in Markets : SumFunctionOnSet(Totals, Holders(m, BULL))
                       = SumFunctionOnSet(Totals, Holders(m, BEAR))

\* The lists hold ids of live orders only, each order in the list of its kind,
\* and every live order is in its list: a list entry whose order was freed is
\* a dangling pointer, an order in no list can never be matched.
IndexConsistent ==
  /\ \A m \in Markets, l \in Lists : \A i \in book[m][l] :
       /\ i \in DOMAIN orders
       /\ orders[i].market = m /\ PutList(orders[i]) = l
  /\ \A i \in DOMAIN orders : i \in book[orders[i].market][PutList(orders[i])]

\* No handler uses a position that does not exist or memory that was freed.
NoCrash == pc # "crash"

\* The owner of a live order can always cancel it: the account still holds the
\* money the order froze.
CancelSucceeds ==
  \A i \in DOMAIN orders :
    orders[i].oper_type = OPEN /\ orders[i].freeze > 0 =>
      CanSub(balance[orders[i].user], "freeze", orders[i].freeze)

\* The books as an auction sees them: what rests in them, and the order being
\* matched, which a crash leaves behind.
RestingOrders ==
  [i \in {j \in DOMAIN orders : orders[j].type = LIMIT} |->
     [market |-> orders[i].market, ask |-> IsAsk(orders[i]),
      price |-> orders[i].price, left |-> orders[i].left]]

IncomingOrder ==
  IF pc \in {"match", "crash"} /\ taker.left # 0
  THEN [market |-> call.market, ask |-> IsAsk(taker), limit |-> taker.type = LIMIT,
        price |-> taker.price, left |-> taker.left]
  ELSE NoOrder

\* The books are the price-time priority auction of OrderBook: whatever the
\* clients, the planner and the liquidations do, orders only ever trade with
\* the best offer, at its price, and leave the books filled or withdrawn.
Auction ==
  INSTANCE OrderBook WITH
    resting <- RestingOrders, incoming <- IncomingOrder, lastPrice <- latestPrice

IsAuction == Auction!ASpec

\* When a position is about to be closed by force all its contracts are free
\* again: the cancelling loop before it has given every one of them back.
ForcedCloseUnfrozen ==
  pc = "cancel" /\ DoomedOrders = {} => positions[victim.key].frozen = 0

\* Whatever a handler sets off comes to an end and the next request is read.
HandlerEnds == pc # "idle" ~> pc = "idle"
==============================================================================
