-------------------------------- MODULE Views --------------------------------
(***************************************************************************)
(* The requests of me_server.c that only look: pages of the order lists,   *)
(* the books and their depth, balances, summaries and positions.  Each is  *)
(* answered between two requests, from the lists in the order the code     *)
(* walks them; the dictionaries are walked in an order nobody chooses,     *)
(* which is a parameter here.  A depth is kept for a while and answered    *)
(* again, so that requests for it are actions.                             *)
(***************************************************************************)
EXTENDS EngineProps, SequencesExt

CONSTANTS
  DepthIntervals,     \* intervals clients ask for the depth with
  DepthOrders,        \* bound on the orders there were when they ask, and on those at
                      \* a request while a depth is kept
  CacheTimeout        \* settings.cache_timeout

ASSUME ViewsAssumption == DepthIntervals \subseteq Nat /\ {DepthOrders, CacheTimeout} \subseteq Nat

VARIABLES
  dict_cache          \* by parameters: a depth, its age, and how long (a history
                      \* variable) it has not been the depth; both up to Outdated

Outdated == CacheTimeout + 1

Lesser(a, b) == IF a < b THEN a ELSE b
OrZero(n)    == IF n < 0 THEN 0 ELSE n

\* A list from its head on.  Orders have no creation time here; they are made
\* in the order of their ids, which stand for it.
ListOf(m, l) == SetToSortSeq(book[m][l], Before)

\* order_id_compare: the last order comes first.
LatestFirst(ids) == SetToSortSeq(ids, LAMBDA i, j : i > j)

market_get_order_list(u, m) == LatestFirst(OrdersOf(u, m))

market_get_user_order_list(u) == LatestFirst({i \in DOMAIN orders : orders[i].user = u})

get_order_info(i) ==
  [id |-> i, market |-> orders[i].market, type |-> orders[i].type, side |-> orders[i].side,
   user |-> orders[i].user, oper_type |-> orders[i].oper_type, price |-> orders[i].price,
   left |-> orders[i].left]

get_order_info_brief(i) == [id |-> i, side |-> orders[i].side, price |-> orders[i].price]

Show(list, Info(_)) == [n \in DOMAIN list |-> Info(list[n])]

\* Skip `offset` nodes and take up to `limit` more.
Page(list, offset, limit) == SubSeq(list, offset + 1, Lesser(offset + limit, Len(list)))

Paged(list, offset, limit, Info(_)) ==
  [total   |-> Len(list),
   records |-> IF offset < Len(list) THEN Show(Page(list, offset, limit), Info) ELSE <<>>]

on_cmd_order_query(u, m, offset, limit) ==
  Paged(market_get_order_list(u, m), offset, limit, get_order_info)

on_cmd_order_query_brief(u, m, offset, limit) ==
  Paged(market_get_order_list(u, m), offset, limit, get_order_info_brief)

on_cmd_order_query_all(u, offset, limit) ==
  Paged(market_get_user_order_list(u), offset, limit, get_order_info)

\* (variant) the offset is skipped in the list of every user
Passed_Again(list, count, offset) == Lesser(OrZero(offset), Len(list))

\* The nodes of one user's list that a page still has to pass.
Passed(list, count, offset) == Lesser(OrZero(offset - count), Len(list))

\* One page over the lists of all users, in the order of the dictionary: what
\* an offset has not used up in one list is skipped in the next.
on_cmd_order_query_alluser(users, offset, limit) ==
  LET lists == [n \in DOMAIN users |-> market_get_user_order_list(users[n])]
      Walk(acc, list) ==
        LET passed == Passed(list, acc.count, offset)
            taken  == Lesser(OrZero(offset + limit - acc.count - passed),
                             Len(list) - passed)
        IN  [count   |-> acc.count + passed + taken,
             records |-> acc.records \o SubSeq(list, passed + 1, passed + taken)]
      walked == FoldLeft(Walk, [count |-> 0, records |-> <<>>], lists)
  IN  [total   |-> FoldLeft(LAMBDA n, list : n + Len(list), 0, lists),
       records |-> Show(walked.records, get_order_info)]

on_cmd_order_book(m, ask, offset, limit) ==
  Paged(ListOf(m, IF ask THEN "asks" ELSE "bids"), offset, limit, get_order_info)

\* A bound of 0 is no bound.
check_order_by_time(i, start_time, end_time) ==
  /\ start_time > 0 => i >= start_time
  /\ end_time > 0 => end_time > start_time /\ i <= end_time

\* The orders one user has in a book.  The loop that skips `offset` of them ends
\* only after it has read one more node of the book, which the page then lacks:
\* even a page from 0 on starts at the second order of the book.
on_cmd_order_book_ext(m, ask, offset, limit, u, start_time, end_time) ==
  LET list    == ListOf(m, IF ask THEN "asks" ELSE "bids")
      Mine(i) == orders[i].user = u /\ check_order_by_time(i, start_time, end_time)
      total   == Len(SelectSeq(list, Mine))
      read    == CHOOSE n \in 0..Len(list) :
                   /\ Len(SelectSeq(SubSeq(list, 1, n), Mine)) = offset
                   /\ n > 0 => Len(SelectSeq(SubSeq(list, 1, n - 1), Mine)) < offset
      rest    == SelectSeq(SubSeq(list, read + 2, Len(list)), Mine)
  IN  [total  |-> total,
       orders |-> IF offset < total THEN Show(Page(rest, 0, limit), get_order_info)
                  ELSE <<>>]

on_cmd_order_detail(m, id) ==
  IF id \in {i \in DOMAIN orders : orders[i].market = m} THEN <<get_order_info(id)>> ELSE <<>>
------------------------------------------------------------------------------
(* Depth                                                                    *)

\* One walk over a book: an order joins the last level or starts one.
Levels(list, limit, Joins(_, _), PriceOf(_)) ==
  LET Add(levels, i) ==
        IF levels # <<>> /\ Joins(Last(levels).price, orders[i].price)
        THEN [levels EXCEPT ![Len(levels)].amount = @ + orders[i].left]
        ELSE Append(levels, [price |-> PriceOf(orders[i].price), amount |-> orders[i].left])
  IN  Page(FoldLeft(Add, <<>>, list), 0, limit)

get_depth(m, limit) ==
  LET Same(level, price) == level = price
      Own(price)         == price
  IN  [asks |-> Levels(ListOf(m, "asks"), limit, Same, Own),
       bids |-> Levels(ListOf(m, "bids"), limit, Same, Own)]

Down(price, interval) == (price \div interval) * interval

\* (variant) a price on the border goes up as well
Up_Always(price, interval) == Down(price, interval) + interval

\* Sellers' prices are rounded up to the interval, buyers' down.
Up(price, interval) ==
  Down(price, interval) + (IF price % interval # 0 THEN interval ELSE 0)

get_depth_merge(m, limit, interval) ==
  LET Below(level, price) == level >= price
      Above(level, price) == level <= price
  IN  [asks |-> Levels(ListOf(m, "asks"), limit, Below, LAMBDA p : Up(p, interval)),
       bids |-> Levels(ListOf(m, "bids"), limit, Above, LAMBDA p : Down(p, interval))]

\* The depth there is.
Depth(m, limit, interval) ==
  IF interval = 0 THEN get_depth(m, limit) ELSE get_depth_merge(m, limit, interval)

DepthOf(key) == Depth(key[1], key[2], key[3])

\* (variant) what is kept is answered until the timer forgets it
TooOld_Never(age) == FALSE

\* process_cache; such an answer is deleted when it is found.
TooOld(age) == age > CacheTimeout

IsKept(key) == key \in DOMAIN dict_cache /\ ~TooOld(dict_cache[key].age)

\* What a client is answered who asks now.
Answered(key) == IF IsKept(key) THEN dict_cache[key].result ELSE DepthOf(key)

\* The command and its parameters are the key; the parameters have been checked.
on_cmd_order_book_depth(key) ==
  /\ pc = "idle" /\ order_id_start <= DepthOrders
  /\ IF IsKept(key) THEN UNCHANGED dict_cache
     ELSE dict_cache' = [k \in DOMAIN dict_cache \cup {key} |->
                           IF k = key THEN [result |-> DepthOf(key), age |-> 0, wrong |-> 0]
                           ELSE dict_cache[k]]
  /\ UNCHANGED vars

on_cache_timer == pc = "idle" /\ dict_cache # <<>> /\ dict_cache' = <<>> /\ UNCHANGED vars

\* Time passes, between two requests.  What becomes too old is not waited for.
tick ==
  /\ pc = "idle" /\ dict_cache # <<>>
  /\ dict_cache' = [k \in {k \in DOMAIN dict_cache : ~TooOld(dict_cache[k].age + 1)} |->
       [dict_cache[k] EXCEPT
          !.age   = Lesser(@ + 1, Outdated),
          !.wrong = IF dict_cache[k].result = DepthOf(k) THEN 0 ELSE Lesser(@ + 1, Outdated)]]
  /\ UNCHANGED vars

DepthKeys == Markets \X {MaxOrders} \X DepthIntervals

\* svr_on_recv_pkg and the timer of the cache; the handlers of other requests may give
\* the book back the depth that is kept, or take it away.
ViewsNext ==
  \/ /\ Next
     /\ pc = "idle" /\ dict_cache # <<>> => order_id_start < DepthOrders
     /\ dict_cache' = [k \in DOMAIN dict_cache |->
          IF pc' = "idle" /\ dict_cache[k].result = DepthOf(k)'
          THEN [dict_cache[k] EXCEPT !.wrong = 0] ELSE dict_cache[k]]
  \/ on_cache_timer \/ tick
  \/ \E key \in DepthKeys : on_cmd_order_book_depth(key)

ViewsInit == Init /\ dict_cache = <<>>

ViewsSpec == ViewsInit /\ [][ViewsNext]_<<vars, dict_cache>>

\* FairSpec with these requests.
FairViewsSpec == ViewsSpec /\ WF_vars(Matching \/ Planning \/ Liquidating)

market_get_status(m) ==
  LET Left(l) == MapThenSumSet(LAMBDA i : orders[i].left, book[m][l])
  IN  [ask_count |-> Cardinality(book[m]["asks"]), ask_amount |-> Left("asks"),
       bid_count |-> Cardinality(book[m]["bids"]), bid_amount |-> Left("bids")]

on_cmd_market_summary(ms) == [n \in DOMAIN ms |-> market_get_status(ms[n])]
------------------------------------------------------------------------------
(* Accounts                                                                 *)

\* dict_balance holds no zero: the entries of a walk over it.
BalanceEntries == {e \in Users \X {"available", "freeze"} : balance[e[1]][e[2]] > 0}

on_cmd_balance_query(u) == balance[u]

\* The users of a walk: one is taken to be new when the entry before was not
\* his, so that he is listed again if another's entry lies between his two.
UsersOfWalk(walk) ==
  FoldLeft(LAMBDA us, e : IF us # <<>> /\ Last(us) = e[1] THEN us ELSE Append(us, e[1]),
           <<>>, walk)

on_cmd_balance_query_all(walk) ==
  [n \in DOMAIN UsersOfWalk(walk) |->
     [user |-> UsersOfWalk(walk)[n], unit |-> on_cmd_balance_query(UsersOfWalk(walk)[n])]]

balance_status ==
  LET Entries(type) == {e \in BalanceEntries : e[2] = type}
      Sum(es)       == MapThenSumSet(LAMBDA e : balance[e[1]][e[2]], es)
  IN  [total           |-> Sum(BalanceEntries),
       available_count |-> Cardinality(Entries("available")),
       available       |-> Sum(Entries("available")),
       freeze_count    |-> Cardinality(Entries("freeze")),
       freeze          |-> Sum(Entries("freeze"))]

\* The markets of a group settle in one asset.
on_cmd_asset_summary == <<balance_status>>
------------------------------------------------------------------------------
(* Positions                                                                *)

dump_positionToJson(u, m, side) ==
  LET k == <<u, m, side>>
  IN  IF k \in DOMAIN positions THEN <<[key |-> k, position |-> positions[k]]>> ELSE <<>>

MarketSeq == [m \in 1..MarketNum |-> m]

Joined(seqs) == FlattenSeq(seqs)

\* One market and side, both sides of it, or those of every market; a market
\* nobody knows is no market named, and a side of 0 is both.
on_cmd_position_query(u, m, side) ==
  LET ms   == IF m \in Markets THEN <<m>> ELSE MarketSeq
      side_of(x) == IF side = 0
                    THEN dump_positionToJson(u, x, BULL) \o dump_positionToJson(u, x, BEAR)
                    ELSE dump_positionToJson(u, x, side)
  IN  Joined([n \in DOMAIN ms |-> side_of(ms[n])])

\* Without a user the walk is over the balances, not over the positions, and ms
\* are the markets named, or all of them.
on_cmd_position_query_everyone(walk, ms) ==
  LET us == UsersOfWalk(walk)
      Both(u, m) == dump_positionToJson(u, m, BEAR) \o dump_positionToJson(u, m, BULL)
      Of(u) == Joined([n \in DOMAIN ms |-> Both(u, ms[n])])
  IN  [n \in DOMAIN us |-> [user |-> us[n], positions |-> Of(us[n])]]

------------------------------------------------------------------------------
(* What those who ask may rely on. *)

SeqsOf(S) == SetToSeqs(S)

\* Pages of one size, from the first on, show a list once and in its order.
Concatenates(PageAt(_), list, limit) ==
  LET pages == [n \in 1..(Len(list) + 1) |-> PageAt((n - 1) * limit)]
  IN  FlattenSeq([n \in DOMAIN pages |-> pages[n].records]) = list
        /\ \A n \in DOMAIN pages : pages[n].total = Len(list)

\* Whatever the size of the pages, paging through orders shows every open order
\* of a user, of a market's book or of all users exactly once; for all users
\* this holds only because both walks over the dictionary see one order of it.
PagesExact ==
  \A limit \in 1..2 :
    /\ \A u \in Users, m \in Markets :
         Concatenates(LAMBDA o : on_cmd_order_query(u, m, o, limit),
                      Show(LatestFirst(OrdersOf(u, m)), get_order_info), limit)
    /\ \A m \in Markets, ask \in BOOLEAN :
         Concatenates(LAMBDA o : on_cmd_order_book(m, ask, o, limit),
                      Show(ListOf(m, IF ask THEN "asks" ELSE "bids"), get_order_info), limit)
    /\ \A us \in SeqsOf(Users) :
         LET all == Joined([n \in DOMAIN us |-> Show(market_get_user_order_list(us[n]),
                                                     get_order_info)])
         IN  /\ Concatenates(LAMBDA o : on_cmd_order_query_alluser(us, o, limit), all, limit)
             /\ {all[n].id : n \in DOMAIN all} = DOMAIN orders

\* A page of the filtered book shows the user's own orders only, each once and
\* in the order of the book, and lacks at most the one after those it skipped.
FilteredPagesMissOne ==
  \A m \in Markets, ask \in BOOLEAN, u \in Users, offset \in 0..1, limit \in 1..2 :
    LET page == on_cmd_order_book_ext(m, ask, offset, limit, u, 0, 0)
        own  == SelectSeq(ListOf(m, IF ask THEN "asks" ELSE "bids"),
                          LAMBDA i : orders[i].user = u)
        from(n) == Show(Page(own, n, limit), get_order_info)
    IN  page.total = Len(own) /\ page.orders \in {from(offset), from(offset + 1)}

\* The depth at any interval shows every contract on offer once, at a price no
\* better for the taker than its own and less than an interval from it, level by
\* level; and at no interval does a book that is not crossed look crossed.
DepthExact ==
  \A m \in Markets, interval \in 0..3 :
    LET depth == Depth(m, MaxOrders, interval)
        Within(price, level, ask) ==
          IF ask THEN level - price \in 0..OrZero(interval - 1)
                 ELSE price - level \in 0..OrZero(interval - 1)
        Right(levels, l) ==
          /\ \A n \in DOMAIN levels :
               levels[n].amount = MapThenSumSet(LAMBDA i : orders[i].left,
                 {i \in book[m][l] : Within(orders[i].price, levels[n].price, l = "asks")})
          /\ \A i \in book[m][l] : \E n \in DOMAIN levels :
               Within(orders[i].price, levels[n].price, l = "asks")
          /\ \A n \in 2..Len(levels) : IF l = "asks" THEN levels[n].price > levels[n - 1].price
                                                     ELSE levels[n].price < levels[n - 1].price
          /\ FoldLeft(LAMBDA sum, x : sum + x.amount, 0, levels) =
               (IF l = "asks" THEN market_get_status(m).ask_amount
                              ELSE market_get_status(m).bid_amount)
    IN  /\ Right(depth.asks, "asks") /\ Right(depth.bids, "bids")
        /\ depth.asks # <<>> /\ depth.bids # <<>> => depth.asks[1].price > depth.bids[1].price

\* A client that asks for the depth gets the one there is, or one there was not longer ago
\* than answers are kept; even then both sides are of the same moment.
DepthRecent ==
  \A key \in DepthKeys :
    LET answer == Answered(key)
    IN  /\ answer = DepthOf(key) \/ dict_cache[key].wrong <= CacheTimeout
        /\ answer.asks # <<>> /\ answer.bids # <<>> => answer.asks[1].price > answer.bids[1].price

\* The frozen money of the asset's summary is what the orders listed hold back,
\* and every user with money is listed with it, at least once and always alike.
SummaryExact ==
  /\ balance_status.freeze = MapThenSumSet(LAMBDA i : orders[i].freeze,
                               {i \in DOMAIN orders : orders[i].oper_type = OPEN})
  /\ balance_status.total = balance_status.available + balance_status.freeze
  /\ \A walk \in SeqsOf(BalanceEntries) :
       LET rows == on_cmd_balance_query_all(walk)
       IN  /\ {rows[n].user : n \in DOMAIN rows} = {e[1] : e \in BalanceEntries}
           /\ \A n \in DOMAIN rows : rows[n].unit = balance[rows[n].user]

\* The positions a user asks for are his, each once; those of everyone lack only
\* the positions of users who have no money at all.
PositionsListed ==
  LET KeysOf(rows) == {rows[n].key : n \in DOMAIN rows}
      Held(us)     == {k \in DOMAIN positions : k[1] \in us}
  IN  /\ \A u \in Users :
           LET rows == on_cmd_position_query(u, 0, 0)
           IN  KeysOf(rows) = Held({u}) /\ Len(rows) = Cardinality(Held({u}))
      /\ \A walk \in SeqsOf(BalanceEntries) :
           LET rows == on_cmd_position_query_everyone(walk, MarketSeq)
           IN  UNION {KeysOf(rows[n].positions) : n \in DOMAIN rows}
                 = Held({e[1] : e \in BalanceEntries})

\* Requests are answered between two handlers.
ViewsExact ==
  pc = "idle" =>
    PagesExact /\ FilteredPagesMissOne /\ DepthExact /\ DepthRecent /\ SummaryExact /\ PositionsListed
==============================================================================
