-------------------------------- MODULE Spot ---------------------------------
(***************************************************************************)
(* Spot orders of matchengine: the functions of me_market.c that move two  *)
(* assets instead of positions, the commands of me_server.c that call      *)
(* them, and their replay in me_load.c.                                    *)
(*                                                                         *)
(* A handler runs to its end before the next one and works on one memory,  *)
(* so a handler is a function from a memory to a memory, and the replay of *)
(* a log is the same functions applied to another one: `mem` is the        *)
(* process, `disk` what a process that starts now makes of the log.  The   *)
(* way of an entry into the log is module Operlog.                         *)
(*                                                                         *)
(* The field oper_type of an order tells what a futures order does.  Spot  *)
(* orders are allocated by malloc and nobody sets it, but the lists are    *)
(* sorted and orders cancelled by it: `heap` is what the memory happens to *)
(* hold, the same for all orders.                                          *)
(***************************************************************************)
EXTENDS Balance, SequencesExt

CONSTANTS
  Users,              \* the accounts
  Rows,               \* what a limit order may be: side, amount in steps of stock, price
                      \* in money per step, and what its source says of the market maker
  BatchMax,           \* rows and ids of a batch
  MinAmount,          \* market->min_amount
  Unit,               \* units of an account in a step
  TakerFee,           \* fee of the taker, of Unit
  MakerFee,           \* fee of the maker, of Unit
  Funds,              \* what every account has at start of each asset
  HeapValues,         \* what malloc'd memory may hold
  MaxOrders           \* bound on order ids

ASK == 1              \* sides
BID == 2
Sides  == {ASK, BID}
Assets == {"stock", "money"}

NORMAL == 1           \* sources: MM_ORDER_TYPE_NORMAL
CANCEL == 2           \* MM_ORDER_TYPE_CANCEL, which makes way for the market maker

ASSUME SpotAssumption ==
  /\ Rows \subseteq [side : Sides, amount : Nat \ {0}, price : Nat \ {0},
                     mm : {0, NORMAL, CANCEL}]
  /\ BatchMax \in Nat /\ MinAmount \in Nat /\ MaxOrders \in Nat
  /\ Unit \in Nat \ {0} /\ TakerFee \in 0..(Unit - 1) /\ MakerFee \in 0..(Unit - 1)
  /\ Unit % Quantum = 0          \* market_create: an account stores every digit of what an order is worth
  /\ IsFiniteSet(Users) /\ Funds \in [Assets -> Nat]
  /\ HeapValues \subseteq 0..2

VARIABLES
  heap,               \* oper_type of every spot order
  mem,                \* accounts, orders and books of the process
  disk,               \* the memory after a replay of the log, if it succeeds
  unlogged            \* something was done that the log does not know

vars == <<heap, mem, disk, unlogged>>

Other(side) == IF side = ASK THEN BID ELSE ASK
Gives(side) == IF side = ASK THEN "stock" ELSE "money"
Gets(side)  == Gives(Other(side))

\* A market order has no price; the amount of a bid is one of money.
MarketRows == {[r EXCEPT !.price = 0] : r \in Rows}

Clean ==
  [balance  |-> [u \in Users |-> [a \in Assets |-> [available |-> Rescale(Funds[a]), freeze |-> 0]]],
   orders   |-> <<>>,                           \* market->orders, by id
   book     |-> [s \in Sides |-> <<>>],         \* asks and bids: ids in the order of the list
   order_id |-> 0,
   crashed  |-> FALSE,                          \* memory was used that had been freed
   owed     |-> [u \in Users |-> [a \in Assets |-> 0]],  \* frozen for orders that are gone
   burnt    |-> [a \in Assets |-> 0]]           \* fees

Init ==
  /\ heap \in HeapValues
  /\ mem = Clean
  /\ disk = [ok |-> TRUE, mem |-> Clean]
  /\ unlogged = FALSE
------------------------------------------------------------------------------
(* The books                                                                *)

Available(m, u, a) == m.balance[u][a].available
Forget(m, id)      == [m EXCEPT !.orders = [i \in DOMAIN @ \ {id} |-> @[i]]]
Crash(m)           == [m EXCEPT !.crashed = TRUE]

\* An order that was freed is still in the list.
Stale(m, side) == \E i \in DOMAIN m.book[side] : m.book[side][i] \notin DOMAIN m.orders

\* order_match_compare: asks ascend if oper_type is 1, bids if it is 2.
Before(m, side, i, j) ==
  LET p == m.orders[i].price  q == m.orders[j].price
  IN  IF p = q THEN i < j
      ELSE IF (side = ASK /\ heap = 1) \/ (side = BID /\ heap = 2) THEN p < q ELSE p > q

\* skiplist_insert: behind all that come before it.
Listed(m, side, id) ==
  LET list  == m.book[side]
      ahead == {n \in DOMAIN list : Before(m, side, list[n], id)}
  IN  IF Stale(m, side) THEN Crash(m)
      ELSE [m EXCEPT !.book[side] = InsertAt(@, Cardinality(ahead) + 1, id)]

Unlisted(m, side, id) ==
  LET at == {n \in DOMAIN m.book[side] : m.book[side][n] = id}
  IN  CASE Stale(m, side) -> Crash(m)
        [] ~Stale(m, side) /\ at = {} -> m
        [] OTHER -> [m EXCEPT !.book[side] = RemoveAt(@, CHOOSE n \in at : TRUE)]

\* What an order promises of what it gives.
Worth(asset, amount, price) == IF asset = "stock" THEN amount * Unit ELSE amount * price * Unit

\* order_put.  The result of balance_freeze does not matter: the order is in the
\* book already.
order_put(m, id, o) ==
  LET want == Worth(Gives(o.side), o.left, o.price)
      put  == [m EXCEPT !.orders = [i \in DOMAIN @ \cup {id} |->
                                      IF i = id THEN [o EXCEPT !.freeze = want] ELSE @[i]],
                        !.balance[o.user][Gives(o.side)] = balance_freeze(@, want)]
  IN  Listed(put, o.side, id)

\* order_finish.  If the account does not have what the order froze the order only
\* leaves its list.
order_finish(m, id) ==
  LET o == m.orders[id]  asset == Gives(o.side)  out == Unlisted(m, o.side, id)
  IN  IF CanSub(m.balance[o.user][asset], "freeze", o.freeze)
      THEN Forget([out EXCEPT !.balance[o.user][asset] = balance_unfreeze(@, o.freeze)], id)
      ELSE out
------------------------------------------------------------------------------
(* Matching                                                                 *)

\* One party of a deal gives, gets and pays its fee of what it gets; failures are
\* ignored.
Settled(m, u, side, type, amount, price, fee) ==
  LET gives == Gives(side)  gets == Gets(side)
      cost  == (Worth(gets, amount, price) \div Unit) * fee
  IN  [m EXCEPT !.balance[u][gives] = balance_sub(@, type, Worth(gives, amount, price)),
                !.balance[u][gets]  = balance_sub(balance_add(@, "available", Worth(gets, amount, price)),
                                                  "available", cost),
                !.burnt[gets] = @ + cost]

\* (variant) equal prices do not match
Crosses_Strict(taker, maker) ==
  taker.price = 0 \/ IF taker.side = ASK THEN taker.price < maker.price ELSE taker.price > maker.price

\* A market order has price 0 and takes any price.
Crosses(taker, maker) ==
  taker.price = 0 \/ IF taker.side = ASK THEN taker.price <= maker.price ELSE taker.price >= maker.price

MarketBid(taker) == taker.price = 0 /\ taker.side = BID

\* (variant) the money a market bid has left is not divided by the price
AmountOf_Undivided(taker, maker) == IF taker.left < maker.left THEN taker.left ELSE maker.left

\* A market bid has an amount of money: what it buys is rounded down to a step.
AmountOf(taker, maker) ==
  LET most == IF MarketBid(taker) THEN taker.left \div maker.price ELSE taker.left
  IN  IF most < maker.left THEN most ELSE maker.left

\* (variant) the maker's order still counts what the deal spent
Shrunk_KeepsFreeze(o, amount, price) == [o EXCEPT !.left = @ - amount]

Shrunk(o, amount, price) ==
  [o EXCEPT !.left = @ - amount, !.freeze = @ - Worth(Gives(o.side), amount, price)]

\* (variant) an order that is filled stays
Deal_Keeps(m, taker, id, amount) ==
  LET maker == m.orders[id]
      paid  == Settled(m, taker.user, taker.side, "available", amount, maker.price, TakerFee)
      dealt == Settled(paid, maker.user, maker.side, "freeze", amount, maker.price, MakerFee)
  IN  [dealt EXCEPT !.orders[id] = Shrunk(@, amount, maker.price)]

Deal(m, taker, id, amount) ==
  LET maker == m.orders[id]
      paid  == Settled(m, taker.user, taker.side, "available", amount, maker.price, TakerFee)
      dealt == Settled(paid, maker.user, maker.side, "freeze", amount, maker.price, MakerFee)
      new   == [dealt EXCEPT !.orders[id] = Shrunk(@, amount, maker.price)]
  IN  IF new.orders[id].left = 0 THEN order_finish(new, id) ELSE new

\* The loop of the four execute functions, for one order of the other side.
MatchStep(run, id) ==
  LET m == run.mem  taker == run.taker
      maker  == m.orders[id]
      amount == AmountOf(taker, maker)
  IN  IF run.stop \/ taker.left = 0 THEN [run EXCEPT !.stop = TRUE]
      ELSE IF id \notin DOMAIN m.orders THEN [run EXCEPT !.stop = TRUE, !.mem = Crash(m)]
      ELSE IF ~Crosses(taker, maker) THEN [run EXCEPT !.stop = TRUE]
      ELSE IF taker.mm > 0 /\ maker.mm = CANCEL THEN [run EXCEPT !.mem = order_finish(m, id)]
      ELSE IF amount = 0 THEN [run EXCEPT !.stop = TRUE]
      ELSE [run EXCEPT !.mem = Deal(m, taker, id, amount),
                       !.taker.left = @ - IF MarketBid(taker) THEN amount * maker.price ELSE amount]

Executed(m, taker) ==
  FoldLeft(MatchStep, [mem |-> [m EXCEPT !.order_id = @ + 1], taker |-> taker, stop |-> FALSE],
           m.book[Other(taker.side)])

Order(u, r) ==
  [user |-> u, side |-> r.side, price |-> r.price, left |-> r.amount, freeze |-> 0, mm |-> r.mm]

Result(ret, m) == [ret |-> ret, mem |-> m]

market_put_limit_order(m, u, r) ==
  LET run == Executed(m, Order(u, r))
  IN  IF Available(m, u, Gives(r.side)) < Worth(Gives(r.side), r.amount, r.price) THEN Result(-1, m)
      ELSE IF r.amount < MinAmount THEN Result(-2, m)
      ELSE IF run.mem.crashed \/ run.taker.left = 0 THEN Result(0, run.mem)
      ELSE Result(0, order_put(run.mem, run.mem.order_id, run.taker))

\* What a market order does not get at once it does not get.
market_put_market_order(m, u, r) ==
  LET others == m.book[Other(r.side)]
      least  == IF r.side = ASK THEN MinAmount ELSE m.orders[Head(others)].price * MinAmount
  IN  IF Available(m, u, Gives(r.side)) < r.amount * Unit THEN Result(-1, m)
      ELSE IF others = <<>> THEN Result(-3, m)
      ELSE IF r.side = BID /\ Head(others) \notin DOMAIN m.orders THEN Result(0, Crash(m))
      ELSE IF r.amount < least THEN Result(-2, m)
      ELSE Result(0, Executed(m, Order(u, r)).mem)
------------------------------------------------------------------------------
(* Cancelling                                                               *)

\* What is owed to the user grows by what the order froze and shrinks by what was
\* unfrozen instead.
Owing(m, o, money) ==
  [m EXCEPT !.owed[o.user] = [a \in Assets |-> @[a] + (IF a = Gives(o.side) THEN o.freeze ELSE 0)
                                                   - (IF a = "money" THEN money ELSE 0)]]

\* The list order_finish_future looks for an order in.
FinishSide(side) == IF (side = ASK /\ heap = 1) \/ (side = BID /\ heap = 2) THEN ASK ELSE BID

order_finish_future(m, id) == Forget(Unlisted(m, FinishSide(m.orders[id].side), id), id)

\* market_cancel_order is written for futures: an order that opens has frozen
\* money, one that closes contracts of a position, and a spot user has none.
market_cancel_order(m, id) ==
  LET o == m.orders[id]
      unfrozen == [m EXCEPT !.balance[o.user]["money"] = balance_unfreeze(@, o.freeze)]
  IN  CASE heap = 0 -> Result(0, Owing(order_finish_future(m, id), o, 0))
        [] heap = 1 -> IF CanSub(m.balance[o.user]["money"], "freeze", o.freeze)
                       THEN Result(0, Owing(order_finish_future(unfrozen, id), o, o.freeze))
                       ELSE Result(-1, m)
        [] heap = 2 -> Result(0, Crash(m))

\* Orders of a list of ids that exist and are the user's; failures are ignored.
CancelEach(m, u, ids) ==
  FoldLeft(LAMBDA n, id : IF id \in DOMAIN n.orders /\ n.orders[id].user = u /\ ~n.crashed
                          THEN market_cancel_order(n, id).mem ELSE n, m, ids)

\* market_put_limit_order_extra for each row.
PutEach(m, u, rows) ==
  FoldLeft(LAMBDA n, r : IF n.crashed THEN n ELSE market_put_limit_order(n, u, r).mem, m, rows)

\* market_cancel_all_order, by which a market is changed or removed.
market_cancel_all_order(m) ==
  FoldLeft(LAMBDA n, id : IF id \in DOMAIN n.orders THEN order_finish(n, id) ELSE Crash(n),
           m, m.book[ASK] \o m.book[BID])
------------------------------------------------------------------------------
(* Replay                                                                   *)

\* The list of a user has the newest order first.  The orders of others, which
\* CancelEach passes over, are among the ids here.
NewestFirst(m) == [i \in 1..m.order_id |-> m.order_id + 1 - i]

IdsOf(m, op) == IF op.all THEN NewestFirst(m) ELSE op.ids

\* order.update_limit and its replay cancel the order if it is somebody else's.
CancelOther(m, u, id) ==
  IF id \in DOMAIN m.orders /\ m.orders[id].user # u THEN market_cancel_order(m, id).mem ELSE m

load_cancel_order(m, op) ==
  IF op.ids[1] \in DOMAIN m.orders THEN market_cancel_order(m, op.ids[1]) ELSE Result(0, m)

load_update_limit_order(m, op) ==
  market_put_limit_order(CancelOther(m, op.user, op.ids[1]), op.user, op.rows[1])

\* (variant) the orders to be replaced are put first
load_update_limit_order_batch_Swapped(m, op) ==
  Result(0, CancelEach(PutEach(m, op.user, op.rows), op.user, op.ids))

load_update_limit_order_batch(m, op) ==
  Result(0, PutEach(CancelEach(m, op.user, op.ids), op.user, op.rows))

\* load_oper.  It has no branch for limit_order and market_order, though there are
\* functions for both: a log with one of them cannot be replayed.
load_oper(d, op) ==
  LET m == d.mem
      r == CASE op.method = "limit_order_batch"        -> Result(0, PutEach(m, op.user, op.rows))
             [] op.method = "update_limit_order"       -> load_update_limit_order(m, op)
             [] op.method = "update_limit_order_batch" -> load_update_limit_order_batch(m, op)
             [] op.method = "cancel_order"             -> load_cancel_order(m, op)
             [] op.method = "cancel_order_batch" -> Result(0, CancelEach(m, op.user, IdsOf(m, op)))
             [] OTHER -> Result(-1, m)
  IN  IF ~d.ok \/ m.crashed THEN d ELSE [ok |-> r.ret = 0, mem |-> r.mem]
------------------------------------------------------------------------------
(* Commands                                                                 *)

Request(method, u, ids, rows) ==
  [method |-> method, user |-> u, ids |-> ids, rows |-> rows, all |-> FALSE]

\* A request that succeeds is logged; a process that crashed in it logs nothing.
Handled(r, op) ==
  LET logged == r.ret = 0 /\ ~r.mem.crashed
  IN  /\ ~mem.crashed
      /\ mem' = r.mem
      /\ disk' = IF logged THEN load_oper(disk, op) ELSE disk
      /\ unlogged' = (unlogged \/ (~logged /\ r.mem # mem))
      /\ UNCHANGED heap

Room(n) == mem.order_id + n <= MaxOrders /\ disk.mem.order_id + n <= MaxOrders

on_cmd_order_put_limit ==
  \E u \in Users, r \in Rows :
    Room(1) /\ Handled(market_put_limit_order(mem, u, r), Request("limit_order", u, <<>>, <<r>>))

on_cmd_order_put_market ==
  \E u \in Users, r \in MarketRows :
    Room(1) /\ Handled(market_put_market_order(mem, u, r), Request("market_order", u, <<>>, <<r>>))

on_cmd_order_put_limit_batch ==
  \E u \in Users, rows \in BoundedSeq(Rows, BatchMax) :
    Room(Len(rows)) /\ Handled(Result(0, PutEach(mem, u, rows)),
                               Request("limit_order_batch", u, <<>>, rows))

on_cmd_order_update_limit ==
  \E u \in Users, id \in 1..MaxOrders, r \in Rows :
    LET op == Request("update_limit_order", u, <<id>>, <<r>>)  m == CancelOther(mem, u, id)
    IN  Room(1) /\ Handled(IF m.crashed THEN Result(0, m) ELSE market_put_limit_order(m, u, r), op)

on_cmd_order_update_limit_batch ==
  \E u \in Users, ids \in BoundedSeq(1..MaxOrders, 1), rows \in BoundedSeq(Rows, BatchMax) :
    LET op == Request("update_limit_order_batch", u, ids, rows)
    IN  Room(Len(rows)) /\ Handled(Result(0, PutEach(CancelEach(mem, u, ids), u, rows)), op)

on_cmd_order_cancel ==
  \E u \in Users, id \in DOMAIN mem.orders :
    /\ mem.orders[id].user = u
    /\ Handled(market_cancel_order(mem, id), Request("cancel_order", u, <<id>>, <<>>))

on_cmd_order_cancel_batch ==
  \E u \in Users, all \in BOOLEAN, ids \in BoundedSeq(1..MaxOrders, BatchMax) :
    LET op == [Request("cancel_order_batch", u, ids, <<>>) EXCEPT !.all = all]
    IN  (all => ids = <<>>) /\ Handled(Result(0, CancelEach(mem, u, IdsOf(mem, op))), op)

\* An administrator changes the market; that goes into the configuration and not
\* into the log.
on_cmd_market_add_market ==
  /\ ~mem.crashed
  /\ mem' = market_cancel_all_order(mem)
  /\ unlogged' = (unlogged \/ mem' # mem)
  /\ UNCHANGED <<heap, disk>>

\* The process ends, of a crash or otherwise, and the next one replays the log.
Restart ==
  /\ disk.ok
  /\ mem' = disk.mem
  /\ unlogged' = FALSE
  /\ UNCHANGED <<heap, disk>>

Next ==
  \/ on_cmd_order_put_limit
  \/ on_cmd_order_put_market
  \/ on_cmd_order_put_limit_batch
  \/ on_cmd_order_update_limit
  \/ on_cmd_order_update_limit_batch
  \/ on_cmd_order_cancel
  \/ on_cmd_order_cancel_batch
  \/ on_cmd_market_add_market
  \/ Restart

Spec == Init /\ [][Next]_vars
==============================================================================
