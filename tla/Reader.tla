-------------------------------- MODULE Reader --------------------------------
(***************************************************************************)
(* readhistory's queries of the history database, rh_server.c and          *)
(* rh_reader.c.  They read the tables that Outbox writes and choose them   *)
(* by the same hash; a thread has its own connection, so that a query sees *)
(* the statements that are done.                                           *)
(***************************************************************************)
EXTENDS Outbox

CONSTANT QUERY_LIMIT  \* the longest page

ASSUME ReaderAssumption == QUERY_LIMIT \in Nat

\* The answers of on_job: rows, or the code of an error.
InvalidArgument == [code |-> 1, records |-> <<>>]
Records(rows_)  == [code |-> 0, records |-> rows_]

\* WHERE: the rows of one user or order, less those that the filters (by market,
\* side, asset, business, time) leave out.
Where(kind, of, keep) ==
  SelectSeq(db[<<kind, of % HISTORY_HASH_NUM>>], LAMBDA r : r.of = of /\ r.n \in keep)

\* ORDER BY `id` DESC: the key of an order is its id, that of other rows grows as
\* they are stored.
Newest(found) ==
  IF \E i \in DOMAIN found : found[i].key # 0
  THEN SortSeq(found, LAMBDA r, s : r.key > s.key) ELSE Reverse(found)

\* (variant) a page after the first begins with the last row of the one before
Limited_Overlapping(found, offset, limit) ==
  LET from == IF offset > 0 THEN offset ELSE 1
  IN  SubSeq(found, from, Min({offset + limit, Len(found)}))

\* LIMIT offset, limit
Limited(found, offset, limit) ==
  SubSeq(found, offset + 1, Min({offset + limit, Len(found)}))

\* What the queries of pages have in common; 0 is no user and no order.
Pages(kind, of, keep, offset, limit) ==
  IF of = 0 \/ limit = 0 \/ limit > QUERY_LIMIT THEN InvalidArgument
  ELSE Records(Limited(Newest(Where(kind, of, keep)), offset, limit))

on_cmd_balance_history(u, keep, offset, limit) == Pages("balance", u, keep, offset, limit)
on_cmd_order_history(u, keep, offset, limit)   == Pages("order", u, keep, offset, limit)
on_cmd_order_deals(id, keep, offset, limit)    == Pages("order_deal", id, keep, offset, limit)
on_cmd_market_deals(u, keep, offset, limit)    == Pages("user_deal", u, keep, offset, limit)

\* on_cmd_order_detail_finished: an order that is not there is answered with null.
on_cmd_order_detail_finished(id) ==
  IF id = 0 THEN InvalidArgument ELSE Records(Where("detail", id, 1..rows))

\* on_cmd_order_history_all has no market among its filters.
on_cmd_order_history_all(u, keep, offset, limit) ==
  on_cmd_order_history(u, keep, offset, limit)

\* on_job: the command that reads a kind of rows.
Query(kind, of, keep, offset, limit) ==
  CASE kind = "balance"    -> on_cmd_balance_history(of, keep, offset, limit)
    [] kind = "order"      -> on_cmd_order_history_all(of, keep, offset, limit)
    [] kind = "order_deal" -> on_cmd_order_deals(of, keep, offset, limit)
    [] kind = "user_deal"  -> on_cmd_market_deals(of, keep, offset, limit)
    [] kind = "detail"     -> on_cmd_order_detail_finished(of)
==============================================================================
