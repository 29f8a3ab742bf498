# viabtc-future in TLA+

This directory holds the specifications of viabtc-future, an exchange for
perpetual contracts written in C: TLA+ modules translated from the source, the
TLC configurations that check them on small instances, and proofs checked by
TLAPS.  `PROJECT.json` lists the runs, the theorems, and for every definition
the lines of source it stands for.

Contents: 1 the system, 2 modules and code, 3 what is checked, 4 bounds,
fairness and abstractions, 5 what is proved, 6 disagreements found, 7 behaviour
seen outside the listed runs, 8 what is not modelled, 9 plan.

## 1. The system

Five services talk over RPC, Kafka and Redis.  Each is one or more processes
with a libev loop (`src/network`), in which handlers run to their end.

| component | state | operations | interacts with |
|---|---|---|---|
| match engine: accounts (`me_balance.c`) | `dict_balance`: (user, type, asset) to decimal | set, add, sub, freeze, unfreeze | called by market, liquidation, updates |
| match engine: positions (`me_position.c`) | `dict_position`: (user, market, side); `dict_position_mode`: (user, market) | get, add, delete; changed in place by `adjustPosition` | market, planner, liquidation |
| match engine: market (`me_market.c`) | per market: index `orders`, skiplists `asks`, `bids`, `plan_asks`, `plan_bids`, `latestPrice` | open, close, match, cancel | accounts, positions; sets off planner and liquidation |
| match engine: spot market (`me_market.c`, `me_server.c`) | the same index and lists; an order gives one asset for another | put, put in batches, update, cancel; replay by `me_load.c` | accounts; no positions, planner or liquidation |
| match engine: planner (`me_planner.c`) | none of its own; iterates the plan lists | release orders whose trigger was crossed | executes orders from inside the iteration |
| match engine: liquidation (`me_liquidation.c`) | none of its own; iterates positions | cancel the orders of a blown position, close it by force | market |
| match engine: operation log (`me_operlog.c`, `nw_job.c`) | list, job queue of a thread, table `operlog_<date>` | append, flush by timer, execute, repeat | main thread, log thread, database |
| match engine: slices (`me_persist.c`, `me_dump.c`, `me_load.c`) | forked children, tables `slice_*_<time>`, `slice_history` | fork, dump, clear, load, replay | copy of the process, database |
| match engine: update deduplication (`me_update.c`) | `dict_update` | refuse a repeated business id, forget after a day | replay |
| match engine: mode and principal (`me_server.c`) | the entries of `dict_position_mode`, the principal of a position | ask, set, add, take | positions; not logged |
| match engine: history and messages (`me_history.c`, `me_message.c`) | `dict_sql`, a thread pool; a list per topic, the producer of librdkafka | append, flush by timer, execute, repeat; produce, hold back, drain | database, Kafka; the dispatcher refuses commands while they are full |
| match engine: queries (`me_server.c`) | none; some answers kept for a while | pages of orders, books, depth, balances, positions | all of the above |
| marketprice (`mp_message.c`, `mp_kline.c`) | per market: tables `sec`, `min`, `hour`, `day` of k-lines, recent deals, last price, each also in Redis; `update`, `last_offset`, `k:offset` | aggregate deals, flush, clear, reload, answer queries | reads the deals topic through `ut_kafka.c`, Redis |
| Kafka consumer (`ut_kafka.c`) | list of messages, pipe, a thread | fetch, wake the loop, drain | marketprice, accessws |
| accesshttp (`ah_server.c`) | per worker: sessions of clients, table of open requests, one client per backend | forward a request, answer it by the reply or the timer | RPC to the others |
| readhistory (`rh_server.c`, `rh_reader.c`, `nw_job.c`) | sessions of workers, a thread pool with its two lists | queue a query, read pages of rows, answer when it is done | accesshttp, accessws, database |
| accessws, users (`aw_auth.c`, `aw_sign.c`, `aw_order.c`, `aw_asset.c`, `aw_position.c`, `aw_message.c`) | sessions, who is logged in, per user a list of subscriptions, open queries | log in, subscribe, tell about orders, assets and positions | Kafka, match engine, the service that knows logins |
| accessws, topics (`aw_price.c`, `aw_today.c`, `aw_state.c`, `aw_kline.c`, `aw_depth.c`, `aw_deals.c`) | per topic: sessions, the last answer | poll, compare, send what is new | match engine, marketprice |
| accessws, requests (`aw_server.c`) | table of open requests, kept answers | check, forward, answer from what is kept, by the reply or by the timer | marketprice, match engine, readhistory |
| sessions (`nw_ses.c`, `nw_buf.c`, `ut_rpc.c`, `ut_http_svr.c`, `ut_ws_svr.c`) | per session: read buffer, queue of write buffers, what libev watches | read, decode, call back, send, queue, close | every service, from inside of its handlers |
| network (`nw_svr.c`, `nw_clt.c`, `nw_state.c`, `ut_rpc_*.c`, `ut_http_svr.c`) | sessions in reused memory with ids, timers of clients and entries | accept, connect, reconnect, time out | all services |

What is hard here:

* **Nested loops over shared lists.**  A request executes an order; every deal
  changes two accounts, two positions and a price; a new price lets the planner
  walk the plan lists and execute more orders, whose deals change the price it
  is comparing with; at the end `force_liquidation` cancels orders and executes
  forced closes.  Lists change under iterators, records are freed while
  entries still point at them.
* **Money and contracts set aside twice over.**  An order carries its freeze, the
  account another one, the position a frozen part: four code paths (order entry,
  release, forced close, cancel) have to keep them equal.
* **Errors that nobody looks at.**  Account operations return NULL and callers
  go on.
* **Read at least once, count once.**  marketprice adds up deals it can only read
  at least once, and writes sums and the offset they belong to by separate
  statements.
* **Acknowledge first, write later.**  A request is answered before the log has
  it.  A crash cuts a list, a queue and a statement in flight; slices are
  written by a child while the log goes on.
* **Ids in reused memory.**  Sessions are pieces of memory that the next
  connection gets, told from their predecessors by an id; queries are numbered
  per process and from 1.  Answers come late, twice, after a restart, from a
  thread, or never.
* **Bytes cut anywhere.**  A package may arrive in pieces or with its neighbours, a
  write may be taken in part; the callback of a package sends, and sending may
  close the session it was called from.
* **Subscriptions against everything else.**  A connection logs in again, closes
  or is closed in the middle of being told; logins are answered by threads in
  any order; polls overlap; what is sent is the difference to what is
  supposed to be at the client.
* **One memory layout, two kinds of orders.**  Spot orders share lists, index and
  cancelling with futures orders and leave a field unset that these read.

What makes the components correct: frozen money equals what live orders have
frozen; frozen contracts equal what live close orders promise; longs equal
shorts; the books are a price-time auction and never crossed; index and lists
agree; cancel always succeeds; handlers end; a restart succeeds and brings back
exactly a durable prefix of what was accepted; k-lines, stored or answered, are a
function of the deals; an answer goes to whoever asked, once, and comes; a
client that subscribed has what the backend has, or something is under way that
brings it; every row of the history is stored and every topic of messages in
order; what comes out of a connection is what was sent, or the connection is
closed for cause.  `PROJECT.json` "hazards" lists where each can go wrong.

## 2. Modules and code

```
 Balance   Position                         Operlog        log, job thread, requests
      \     /                                  |
      Market      orders, matching          Slices         fork, dump, clear
   /     |      \                              |
Planner Liquidation PositionRequests        Persist        start, stop, crash, replay
   \     |      /                              |
      Engine                                PersistProps -- DurableStore (abstract)
        |                                      |
   EngineProps -- OrderBook (abstract)      PersistProofs
   /         \
 Views     EngineProofs -- SumLemmas
   |
 MCEngine

 Kline -- Consumer -- MarketPrice -- MarketPriceProps -- MCMarketPrice -- Queries
                                           |
                                    MarketPriceProofs -- SumLemmas

 JobPool -- Gateway -- GatewayProps -- GatewayProofs      accesshttp, network, readhistory
 Outbox -- Reader -- OutboxProps                          history rows, messages, their readers
 Session -- Stream -- MCStream                            bytes, buffers, packages
 AccessWs -- AccessWsProps -- MCAccessWs                  users' subscriptions
                  |
            AccessWsProofs -- SumLemmas, Queries
 Feed -- FeedProps -- FeedProofs                          polled topics
 Spot -- SpotProps -- SpotProofs                          spot orders and their replay
```

A module below another one extends it; `Spot` also uses `Balance`, `PersistProofs`, `SpotProofs`
and `FeedProofs` also use `SumLemmas`, `AccessWsProofs` extends it, and what is right of `--` and called abstract or `Queries` is
instantiated.  Where the instance for TLC is a definition or two it is at the
end of the module with the properties.

**Balance, Position** are the pure operations on one account and one position,
with the rounding of the code: amounts are integers of the computing precision,
`Quantum` is what a stored balance can tell apart (`prec_save`), a quotient
rounds down.

**Market** holds the state of the engine and the three request handlers.  `pc`
names the loop a handler is in:

| `pc` | code | steps |
|---|---|---|
| `idle` | waiting in the loop | `OpenRequest`, `CloseRequest`, `CancelRequest`, `Rejected` |
| `match` | `execute_order` | `MatchStep` (one deal), `RestTaker`, `DropTaker` |
| `return` | `execute_order` returns to `call.by` | `ReturnToClient`, `ReturnToPlanner`, `ReturnToLiquidation` |
| `plan` | `on_planner` | `PlanSkip`, `PlanOpen`, `PlanClose`, `PlanDangling`, `PlanAdvance` |
| `liquidate` | `force_liquidation` | `LiquidationPass` |
| `cancel` | cancelling loop of a liquidation | `LiquidationCancel`, `IsolatedBlast`, `CrossForfeit` |
| `cross` | loop over markets of `cross_liquidation` | `CrossBlast`, `CrossDone` |
| `crash` | a NULL or freed pointer was used | none |

Handlers are atomic in the program.  They are split at loop iterations so that
invariants hold in the middle of them, where nested calls see the state, and so
that "the handler ends" is a statement.  Requests are taken in `idle` only.

**PositionRequests** adds the requests for modes and principals to the actions of
`Engine`.  A mode asked for comes into being; where the code uses memory it did
not set (`market` of a new mode, a name passed as a `market_t`), the model
chooses among what that memory can lead to, the end of the process included.

**Views** are the requests that only look, as operators on the state: pages of
an order list, books, depth, balances, positions; what they have to answer is an
invariant of the engine (`ViewsExact`).  One of them changes something:
`on_cmd_order_book_depth` keeps its answer in `dict_cache` and gives it again for
`cache_timeout`, the only one that calls `process_cache`.  So the runs of the engine have its requests, the timer that clears the cache, and the passing
of time (`tick`) as actions beside the engine's (`ViewsSpec`), and `DepthRecent` is the
part of `ViewsExact` about them.

**OrderBook** is the abstract auction: orders arrive, trade with the best
offer at its price, rest or vanish, and are withdrawn.  `EngineProps!Auction`
maps the engine to it; what planner and liquidation do must be a series of
such steps.

**Operlog, Slices, Persist** have the requests as numbers: what matters about a
request is whether its effect is in memory, in the log, in a slice.  `mem` is
the process (applied updates, orders in the books, orders with money frozen,
deduplication dictionary); `list`, `job`, `busy`, `log` are the way of an operation into the
database; `children` are the forked slice processes, each with its copy of
`mem` and its place in the code; `accounts`, `orders_of`, `history` are the
tables.  `Crash` may happen in every state, also between the start and the end
of a slice, and a slice process may die between any two statements.

**DurableStore** says what a client may rely on: an update is live, later
durable, in the order of acceptance; a restart restores the durable ones.

**Outbox** has what the engine tells the world: a command appends rows to one
statement per table (`dict_sql`), the timer hands statements over (`HistoryTimer`),
threads take, execute and repeat them (`TakeJob`, `on_job`); messages go to the
producer or wait in a list per topic, and the callbacks of librdkafka drain it.
The guard of the dispatcher is part of each command.  Stop and crash cut this at
any point, and a restart begins with the ids the log knows.  **Reader** reads the
tables: the queries of readhistory, page by page.

**Kline** has the pure part of marketprice: a k-line, a table of them, and the
queries that merge tables into answers.  **Consumer** is the thread of
`ut_kafka.c` with its list and its pipe, and what the main loop does with them.
**MarketPrice** is `mp_message.c` around them, and `pc` is where the main loop is:

| `pc` | code | steps |
|---|---|---|
| `loop` | waiting in libev | `Wake`, `FlushTimer`, `ClearTimer`, `Reload` |
| `read` | the second loop of `on_can_read` | `OnDealsMessage`, `Drained` |
| `update` | `flush_update`, `flush_last` | `FlushKline` (one HSET), `FlushLast` |
| `deals` | `flush_deals` | `FlushDeals` |
| `offset` | `flush_offset` | `FlushOffset` |
| `down` | between two processes | `Start` |

The flush runs in the main loop and no message is handled in between, but the
thread goes on fetching, the process that clears Redis is another one, and the
process may end between two statements; so each statement is a step.  Each
succeeds, is refused, is not executed because the connection broke, or is
executed with its answer lost, and the model follows what each call in the code
makes of that.  The history variable `drift` records which keys of Redis are
ahead of, behind, or for good different from what the stored offset stands for;
no action reads it.

**Queries** is the life of a client's request in accessws: the checks of each
handler, the answers kept by accessws and by the services, the table of open
requests, links that break, services that answer late or never.  Time passes in
steps that age what is kept.  `MCMarketPrice` runs it beside marketprice, from which it is
independent: `part` says which of the two a behaviour is about.

**JobPool** is the thread pool of `nw_job.c`, each use of the lock a step.
**Gateway** is the way of a request from a client's connection to a worker of
accesshttp, through the table of open requests and the link to a backend, into
a session there, in readhistory through the pool, and back.  Connections break
(`Cut`, and each end notices by itself), are refused, stay silent; both heartbeat
timers give up; workers and backends restart and count sessions and queries
from 1 again.  A client (`nw_clt.c`) is in one of three states with one of three
timers, `nw_clt_start` is every way its start can go.  History variables
number connections and note what each request was answered, and on which
connection.

**Session** is one session of `nw_ses.c` as operators from a state to the next,
because handlers call each other: reading decodes, a package calls back, the
callback sends, sending may close.  **Stream** is one connection with a session at
each end, in the six ways the services use one: RPC over stream and packet sockets,
the listener's, HTTP, and WebSocket with whole and with split frames.

**AccessWs** has the connections of a worker, the logins under way, the lists
by user of who is to be told about orders, assets and positions, the messages
of the match engine and the queries that two of the three channels send for
the value itself.  `version` counts the changes of each thing, `copy` is the
newest version a client was told.  That sending fails inside of the loop over
a list is a branch of `on_message` and `on_reply`: the session is closed, its
units leave the list, and the loop goes on from a freed unit, or crashes.

**Feed** is one polled topic of six kinds; `entry` holds sessions and last answer,
`polls` the requests under way.  A subscription to several topics that is refused at
one of them leaves the session in those before it (`SubscribeHalfway`; the history
variable `halfway` has these sessions).  A depth is a function from prices to amounts;
what is sent is `Diff`, and what a client makes of it is `Applied`.

**Spot** has a handler as a function from one memory to another, because a spot
order sets off nothing: `mem` is the process, `disk` is what a process that
starts now makes of the log, by the functions of `me_load.c`.  `heap` is what
malloc'd memory holds in the field `oper_type`.  The memory has two history
fields: `owed`, frozen money of orders that were cancelled without giving it back (negative:
money unfrozen that belongs to others), and `burnt`, the fees.

Definitions marked *(variant)* are plausible bugs; the mutants of
`PROJECT.json` put each in the place of the definition below it and TLC must
find the named property violated.

## 3. What is checked

Passing runs:

| run | question |
|---|---|
| `core` | Two users, one market, isolated margin, limit and market orders, open and close, forced closes, changes of principals: are contracts, index and books consistent in every step, can every order be cancelled, is it an auction, and do queries show what there is, or what was kept of it a moment ago?  `FrozenCovered`, `OpenInterestBalanced`, `IndexConsistent`, `CancelSucceeds`, `ForcedCloseUnfrozen`, `NoCrash`, `ViewsExact`, `IsAuction` |
| `plan` | Plan orders in two markets, with fairness: does every handler end, however plan orders release each other (`HandlerEnds`)? |
| `trigger` | Cross margin with liquidations of the whole account, mode requests, and close orders of all types, plan and take-profit / stop-loss, which leave entries of freed orders in the plan lists, crashes included: the invariant the proofs begin with (`EngineInv`), and frozen money to the unit (`FreezeCovered`) |
| `persist` | Log, slices, stops, and crashes at every point: would the next start work, and bring back what it should (`PersistInv`), is it a durable store (`IsDurableStore`), and does every accepted update get into the log while the process runs (`EventuallyDurable`)? |
| `klines` | marketprice with crashes, failing statements, clearing, reloads and `market.kline_update` at every point: `InOrder`, `MemoryExact`, `StoredExact`, `AtLeastOnce` for what it keeps; then what clients are answered, by marketprice and through accessws (`AnswersRight`), and does the offset catch up and everybody get an answer (`EventuallyServed`)? |
| `gateway` | Two connections and two requests through a worker, the match engine and readhistory, with any one fault: does the answer go to whoever asked, once (`AnswersAsker`), is no finished job overlooked (`Woken`), does everybody get an answer (`Answered`), is the worker connected again in the end (`Reconnects`)?  `GatewayTypeOK` |
| `accessws` | Two users, two pieces of memory, logins in any order, one failing send or lost query: are the lists exact (`SubscriptionsExact`), and does a client know the last change, or is something under way that will tell it of just that one (`NothingMissed`)? |
| `feed` | Each kind of topic with two sessions, polls that overlap, and one fault: who is told, those refused half-way included (`SessionsExact`), what clients hold (`CopiesRight`), and `CatchesUp` under fairness |
| `spot` | All spot commands, restarts, and every value of the unset field: is frozen money explained (`SpotInv`), is any made or lost (`Conserved`), are the books uncrossed (`SpotUncrossed`), does a replay come to the same state (`ReplayExact`)? |
| `outbox` | History rows and messages of commands, with lost answers, failing messages, a full producer, a stop or crash and a restart: is no row lost and does every page show what is stored (`HistoryKept`), is every topic in order (`MessagesInOrder`), are the queues bounded (`Backpressure`), and is what was appended stored in the end (`HistoryStored`)? |
| `stream` | Each way a connection is used, with reads and writes cut anywhere, queues that fill, and a second connection: is what comes out what was sent, whole and in order, or the connection closed for cause (`StreamInv`), and does everything arrive (`Arrives`)? |

Some names stand for several statements: `PersistInv` is `PersistTypeOK` and
`LoadSucceeds`; `SpotInv` is `SpotTypeOK` and `FrozenExact`; `CopiesRight` is
`CopyIsLast` and `DealsOnce`; `HistoryKept` is `RowsKept` and `HistoryShown`;
`StreamInv` is `MessagesExact`, `ClosedForCause` and `BuffersBounded`.  In `klines`,
`AnswersRight` is `AnswersExact` of marketprice, and the property of that name in `Queries`
in the behaviours that are about queries; `EventuallyServed` likewise.

`FreezeCovered` is an equality of sums kept in different files: the account on
one side, all limit orders and the order being matched on the other.
`FrozenCovered` is the same for contracts.  `OpenInterestBalanced` relates all
positions of a market, of both sides of all deals.  `LoadSucceeds` says in every
reachable state, and so at every possible crash, that the next start would work
and bring back what it should.

`core`, `trigger` and `plan` restrict order types, leverages and markets for a reason: outside the
restrictions the properties fail, as section 7 tells.
`IndexConsistent` fails with TPSL orders, `FrozenCovered` and `NoCrash` with
plan close orders, `FreezeCovered` with more than one leverage,
`OpenInterestBalanced` with cross users in two markets.

`MemoryExact`, `StoredExact` and `AnswersExact` compare with `KlineOf`,
which states the k-line of a set of deals by first, last, maximum, minimum and
sums, and shares nothing with the way the code folds and merges.  They do
except the keys in `drift`: a crash in a flush makes the next process count
deals again, a refused HSET is not repeated, and a reload forgets deals; what
the properties show is that the damage stays within the keys those events
touched, that it goes away where the code repairs it, and that no deal before
the stored offset is missing however often the process crashed (`AtLeastOnce`).
The answers are those about status, the day, k-lines of every width up to months,
deals and the last price; asked now, or, as long as nothing happens, on the last day on which a
query still looks for today's deals, or on the day after (`AskedAt`).  An interval without
deals shows the last price, but not one from more than `DaysBefore` (30) days before: counted
from the first interval for days and weeks, from `start` for months, and from today for
`market.status_today`.

`AnswersAsker` is about two numberings that start again with every process, memory
that is reused, and links that deliver what was sent before they broke.
`SubscriptionsExact` derives the lists, which the code keeps by four different
paths, from who is logged in and what each client asked for last.
`NothingMissed` is what lets a client trust its view without polling.
`CopyIsLast` shares nothing with the walk over two lists that computes a
difference: applied to the client's copy it must give the new depth.
Two kinds of sessions are not sent the value there is and are `Untold` until it changes: those
of k-lines, and those refused half-way.  The first thing they are sent must bring
them where the others are, and `CatchesUp` asks of them only what is left to be
sent.
`ReplayExact` compares handlers in `me_server.c` with functions in `me_load.c`
that were written a second time.
`RowsKept` accounts for each row at exactly one place, with one exception: rows that
shared a statement with an order stored already.  `MessagesExact` compares the bytes one end
decodes with the packages the other one was given, whatever the socket cut.

Violation run, the code against a sentence of the repository: `slice_orders`
(section 6).

## 4. Bounds, fairness, abstractions

**Bounds of the engine runs.**  Two users (every deal has two sides, and one
user may be both), one market or two, two prices next to each other (enough for better,
equal and worse), `MaxOrders` 3 orders in the
index, counted over the whole behaviour: two resting orders eaten by a third,
and a close that rests after an open.  Market orders are not
counted.  `Unit`, the fees and `InitBalance` are chosen so that margins divide
without a rest, an account affords two or three orders but not all of them, and
a price step of one blows a position.  `core` has volumes 1 and 2 (partial
fills), isolated margin, and changes of principals (`PrincipalOrders`,
`PrincipalBound`), and depths are asked for at an interval of 2 while there were at
most two orders (`DepthOrders`), and up to the second is made while one is kept, which rests or
takes the first away; a
`tick` is a second, and `CacheTimeout` 0 of them is the default of 0.45 (`me_config.c:573`): an answer
is kept until the second is over.  `plan` and `trigger` ask for no depth.  `trigger` has cross margin at leverage 2, all four types of close
orders, and mode requests before the third order; `plan` has two markets, and prices
{3, 4}, so that no position can be blown (the handler of a blown position with
no counterpart does not end, section 7).

**Bounds of the persistence runs.**  `persist`: `MaxRequests` 2 (something before
and after a slice), `MaxSlices` 2 (an old one to clear when the new one is written),
`KeepTime` 0 (a slice is old as soon as there is a newer one), `MaxRestarts` 1,
`MaxPending` 1 (the guard of the queue is met), `MaxChildren` 1.  The process may
stop, kill itself or crash, at every point.  The inductive invariant of
`PersistProofs` was checked with three requests, too.
`InsertFails`, `OrphanSlices` and `MaxChildren > 1` are faults the code does not
survive (section 7); the passing run and the theorems assume them away by name.

**Bounds of `klines`.**  One market; two deals (the second meets what the first
left in memory, in Redis and in the list), two prices, `FetchLimit` 2 so that
the list may hold both, one of `DealsMax` recent deals so that the list is cut.
A minute has 2 seconds, an hour 8, a day 16, months begin at days 0, 1, 3 and 6, a query looks back `DaysBefore` 2 days, and the clock jumps from 5 to 20:
two days, hours and minutes, with a period of 15 to 17 seconds crossing from
seconds to minutes at the first deal; `HourMax` 1 lets the first hour expire and
be cleared while its second, minute and day are kept.  `SecMax` covers a day, as
the default of seven days does, which the 24 hours of `get_market_status_today`
need.  One fault of any kind (`MaxFaults`), at any point.
Queries: two users over one piece of memory, a public question, a private one and
one with refused parameters, timeouts of 1, two connections, two requests, one
lost link.

**Bounds of `outbox`.**  One user, one table each for balances and orders, one topic;
two threads and statements of up to two commands, queues and limits of 1 so that
each is met, one fault, one end of the process and a restart, with one order that
the start loads.

**Bounds of `stream`.**  Six links; heads of 2 bytes, buffers of 4, a queue of at most
2 buffers and a socket that takes 3 bytes, so that packages are cut in head
and body, fill buffers exactly and one byte less, and overflow the queue; a second
connection in the memory of the first.

**Bounds of `gateway`.**  One worker, the match engine and readhistory with one
thread; one piece of memory for clients and one per backend, so that every
connection gets the memory of its predecessor; two connections, two requests,
one fault of any kind but a failing `socket()`, at any point.  `MaxPendingJob` 1
lets readhistory refuse.  `GatewayProofs` has any number of all of them.

**Bounds of `accessws`.**  Two users, two pieces of memory, two connections, four
requests of clients, two changes, one fault; one market with two assets and one position.
Clients subscribe to all markets, to an asset followed by a refused parameter,
and to the same asset twice.

**Bounds of `feed`.**  Two sessions, three changes, two polls under way, depths
of two levels out of three prices, so that levels drop out of the list and come
back.  Only the topics a client subscribes to several at a time (price, today, state, deals)
can be refused half-way.

**Bounds of `spot`.**  Two users, three order ids, two prices and two amounts,
one order a batch, all three values of `heap`.  Batches of two reach the same
states: a batch is the same as its rows one after another.
`heap` is one value for all orders and processes; fees are half of what is
got, so that a missing fee is seen.

**Symmetry** of users is used in `core`, `trigger` and `spot`, of users and memory
in `accessws`, and in none of the runs with a liveness property.

**Deadlock** is checked except where the system may stop: `trigger`
(the process crashes), the persistence runs (a process that is down and has
no restarts left), and `gateway`, `accessws`, `feed`, `spot`, `outbox`, `stream`
(clients that ask for nothing more, bounds that are used up, a log that cannot
be replayed).

**Fairness.**  `Engine!FairSpec`: weak fairness of the steps of a handler, not
of requests.  The loop is a single thread that runs a handler until it returns.
`Persist!FairSpec`: weak fairness of the flush timer (0.1 s, repeating), of the
job thread taking a statement and of a statement being executed, that is, the
database answers in the end.  A lost answer is possible any number of times.
Nothing is assumed of slices, restarts or requests.
`Outbox!FairSpec` is the same for the history: timer, threads and database.
`MarketPrice!FairSpec`: weak fairness of the thread's fetching, of the main loop
going on until it is back in libev (`Handling`), of the flush timer, and of the
restart by `process_keepalive`; strong fairness of `Wake`, because a byte in the
pipe is not there to be seen while a flush runs, but libev calls every watcher
that is ready in each of its rounds.  Nothing is assumed of clearing, reloads or the clock.
`Queries`: weak fairness of time and of the timers of open requests, and of nothing else: services
need not answer.
`Gateway!FairSpec`: weak fairness of `Work`, all that loops, threads and timers
do by themselves.  It is one condition for all of them together and so weaker than
one for each; it is enough because between two steps of the environment, of which there are finitely many,
only finitely many steps of `Work` are possible.  `Feed!FairSpec`: weak fairness of the
repeating timer, the backend and the loop together; a topic polls for ever, and
a round of its poll is the only thing it can do.  `Stream!FairSpec`: weak fairness
of reading and of writing at each end: libev reports a socket that is ready.

**Abstractions.**
* One settlement asset; the discount asset for fees is left out.
* Skiplists are sets of ids; a list with one order type and no freed entry is
  iterated in its order, any other in any order, and a search in it may miss
  (`Sorted`, `Compares`): `order_match_compare` answers "greater" whichever way
  two types are asked, and reads freed memory for stale entries.
* Using freed memory either crashes or finds nothing; that it finds a new order
  in the reused block is not modelled.
* `mpd_div` by zero gives NaN; the model's `Quot` gives 0.  No run divides by
  zero where it matters: leverages are positive, and a stored position holds
  contracts, unless a TPSL amount exceeds them.
* Iteration over `dict_market` is in the order of the markets' numbers; the
  first entry of `dict_position` is any.
* Order ids are drawn when an order enters the index; only their order counts.
* In the persistence modules an `open` is an order that rests, all account
  tables of a slice are one, all tables of a date are one log, and the tables
  of a slice are written in one step, because no one reads them before the row
  of `slice_history`.
* Local time is UTC; a month is any set of days (`Months`).  A deal's time is the time it is
  published at.
* A flush writes the k-lines in one order, where the code has that of a hash
  table: no property relates two keys.
* What `Reload` removes from `update` depends in the code on the padding of the
  keys (`mp_message.c:920`); in the model it is all or nothing, and a load that
  fails brings nothing.
* LPUSH and LTRIM are one statement: the list is never read beyond its limit.
* Gateway: the backends other than readhistory answer in the handler.  The timer of an
  entry may fire at any time.  Which free piece of memory a session gets is
  left open.
* AccessWs: a query is answered with a value it had at some time since it was sent.
  Of the three channels' parsing of parameters only "refused half-way" is left.
* Outbox: what a command does to accounts and books is left to the other modules; a row is a
  key, its table and the user or order it is about.  The filters of a query are a set of
  rows kept.
* Queries: an answer is the question it answers and its age; ages beyond all
  timeouts are one.
* Session: a byte is a pair of its package and its place in it.  malloc never fails.
* Slices: the rows of `slice_history` that `clear_slice` selects without ORDER BY come
  in the order of their key.
* Spot: `order_finish` and its like run in the order of the code, and memory
  that was freed is either not used or crashes the process.
* A statement that was in flight at a crash is executed before the crash or
  not at all.

## 5. What is proved

For every value of the constants that the `ASSUME`s of the modules allow (positive
units and widths, natural fees and limits, positive prices and leverages, types and
patterns from their sets), and where a theorem names more in its `ASSUME`, under that:

| theorem | says | assumes besides |
|---|---|---|
| `EngineProofs!EngineInvariant` | `Spec => []EngineInv` | |
| `EngineProofs!TypeCorrect` | `Spec => []TypeOK` | |
| `EngineProofs!IndexAlwaysConsistent` | `Spec => []IndexConsistent` | no TPSL orders |
| `EngineProofs!EngineIsAuction` | `Spec => IsAuction`, the refinement of `OrderBook` | no TPSL orders |
| `EngineProofs!FrozenAlwaysCovered` | `Spec => []FrozenCovered` | close orders are market or limit orders |
| `EngineProofs!ForcedCloseAlwaysUnfrozen` | `Spec => []ForcedCloseUnfrozen` | the same |
| `EngineProofs!NeverCrashes` | `Spec => []NoCrash` | the same, and no mode requests |
| `EngineProofs!OpenInterestAlwaysBalanced` | `Spec => []OpenInterestBalanced` | the same, and one market or no cross margin |
| `PersistProofs!AlwaysLoads` | `Spec => []PersistInv` | `OneByOne` |
| `PersistProofs!LogIsDurableStore` | `Spec => IsDurableStore`, the refinement of `DurableStore` | `OneByOne` |
| `MarketPriceProofs!ConsumerTypeCorrect` | `Spec => []MarketPriceTypeOK` | |
| `MarketPriceProofs!DealsInOrder` | `Spec => []InOrder` | |
| `MarketPriceProofs!MemoryAlwaysExact` | `Spec => []MemoryExact` | |
| `MarketPriceProofs!StoredAlwaysExact` | `Spec => []StoredExact` | |
| `MarketPriceProofs!AtLeastOnceHolds` | `Spec => []AtLeastOnce` | |
| `GatewayProofs!GatewayTypeCorrect` | `Spec => []GatewayTypeOK` | |
| `GatewayProofs!AnswersGoBack` | `Spec => []AnswersAsker` | |
| `GatewayProofs!NoJobMissed` | `Spec => []Woken` | |
| `FeedProofs!SessionsAlwaysExact` | `Spec => []SessionsExact` | |
| `FeedProofs!CopiesAlwaysRight` | `Spec => []CopiesRight` | |
| `AccessWsProofs!SubscriptionsAlwaysExact` | `Spec => []SubscriptionsExact` | |
| `AccessWsProofs!NothingIsMissed` | `Spec => []NothingMissed` | |
| `AccessWsProofs!AnswersAlwaysRight` | `Spec => []AnswersRight` of Queries | `QueriesAssumption` |
| `SpotProofs!SpotInvHolds` | `Spec => []SpotInv` | |
| `SpotProofs!ConservedHolds` | `Spec => []Conserved` | `FeesFit` |
| `SpotProofs!SpotUncrossedHolds` | `Spec => []SpotUncrossed` | |
| `SpotProofs!ReplayIsExact` | `Spec => []ReplayExact` | |

**EngineProofs** has four parts, one after the other.  `TypeOK` is not inductive by itself.  That a stored balance stays natural rests
on the comparisons of `CanSub` alone, but that a deal yields a typed order
needs that the entries of a trading list are in the index (the maker may not be
freed); that `RestTaker` keeps the lists by kind needs that only limit orders of
the market being matched are put to rest; that the planner may finish
the released order after executing its copy needs that the matching in between
did not remove it, and it cannot, because matching removes limit orders only
and the released one is none.  `EngineInv == TypeOK /\ ListsOK /\ HandlerOK` adds
exactly these facts and is inductive; the run `trigger` checks it with TLC.
There is a lemma for every operator of accounts and positions, a lemma for
each action, split into the state part (`StateOK`) and the part about iterators
(`IterOK`), and one theorem that puts them together.

The second part (`BooksInv`) adds the way back: an order of the index is in the list of its kind.
A TPSL order is filed in one list and looked for in another, may be
released with amount 0, and then rests as an empty order, so the theorems exclude
it.  For the refinement, each action is one step of the auction: orders that rest
are what `RestingOrders` says, and the maker of a deal is the best offer because
the list it is taken from is sorted.

The third part is about sums: contracts frozen by orders, contracts held in a
market.  `SumLemmas` has what it needs of `SumFunctionOnSet`: how the sum changes with a
summand, an element, or the set.  The provers have no induction over sets, but a
smallest counterexample will do: the smallest size of a set for which a sum goes
wrong, found with the order of the natural numbers.  It also has `FoldRuns`, which does the
like for folds over lists (see SpotProofs).
`HoldingsInv` relates each position's two parts to the live close orders
and the one being matched, and says what a forced close may rely on in each
phase.  Plan and TPSL close orders are excluded: a plan close order sets
contracts aside when it is released whether they are held or not, so that a
position may become negative.  `NeverCrashes` excludes mode requests, which
read memory that was never set.  `OpenInterestAlwaysBalanced` excludes cross
margin in several markets: a cross user's forced close is executed in the
market of another of his positions.

The fourth part is about money, and is conditional: it shows which conditions are enough for
`CancelSucceeds` and `FreezeCovered`, and the code ensures none of those about
leverages and precision.  Clients choose leverages freely and stored balances are rounded, so
`CancelAlwaysSucceeds` and `FreezeAlwaysCovered` are statements about an exchange that is
configured and used in one way, not about the program, and are not among the results above.  What they
assume, and why the code needs it (section 7 has what happens without):

* `CloseTypes \subseteq {MARKET, LIMIT}`: `FrozenCovered` is used;
* `OneLeverage`, and `ModeOrders = 0 \/ 1 \in Leverages`: an order is frozen at the leverage of its
  position's mode and spent at the one of the request, and a mode that is only asked for
  has leverage 1;
* `Quantum = 1`: a stored balance is rounded down;
* `MarketNum = 1 \/ CROSS \notin Patterns`: the liquidation of a cross account
  zeroes its frozen money, orders of other markets included;
* for `FreezeAlwaysCovered` also that every leverage divides `Unit`: a margin rounded at
  every deal leaves a remainder frozen for ever.  Without that, `MarginInv` has "at least", which is
  enough for `CancelAlwaysSucceeds`.

`MarginInv == MoneyOK /\ FundsOK /\ ModesOK`: what an account has frozen covers what its open
orders have frozen and not spent, and the share of the order being matched; each order has at
least the margin of what it has left; the mode of a position has the one leverage.

**PersistProofs.**  `OneByOne` says: one slice process at a time, which ends with the engine and
notices a failed INSERT; section 7 says what happens otherwise.
`IInv` has these parts: a process that is down has no memory, queue or children
(`Gone`); pending operations have the next ids, and the statement in flight is in the log
wholly or not at all (`Numbered`); what memory shows is what the last slice shows and
the operations after it, in the order of the requests, no update twice, all of them
remembered in `seen` (`Held`), and while the process is down the same of the log
alone (`HeldByLog`); the last slice is the newest and has its tables (`SlicesOK`); a
slice process either holds a copy newer than all slices or deletes slices other than the last
(`ChildrenOK`).  From it follows what the next start does, though the loader is a recursive
function over the log: of the steps at which it might differ from what was accepted there would be a first.
For the refinement, a request is `Accept` of the abstract store or, if it is refused
or no update, a stutter; a statement executed and a new row of `slice_history` are `Persist`; the end
of the process is `Restart`; everything else stutters.  That clearing a slice, or the
first half of writing one, is a stutter is the point of it.

**MarketPriceProofs.**  `InOrder` says that the list holds exactly the offsets between the last deal
handled and the next one to fetch, in order, and that a non-empty list implies
a byte in the pipe or the draining loop; `MarketPriceTypeOK` has the
bounds of the stored offset that `Start` needs.  Together they are inductive:
that a flush stores no offset beyond the topic needs `InOrder`, and that a new
process begins in order needs the type of the stored offset.

What is kept is the subject of the other part.  The properties compare a table with
`KlineOf` of a set of deals; `DueNext` proves that one more deal changes that as
`market_update` changes an entry: the first and last of the set, its extremes (`MaxIs`) and its
sums (`SumLemmas`).  The properties are not inductive, for two reasons.  A flush
writes key after key while the offset stays, so that Redis has to be compared with
two offsets at once, the stored one and the last handled; and what is wrong of one key must
not spread to others.  `KeptInv` therefore says of each bucket that is kept
(`KeyRight`):

* in memory it shows what the handled deals make of it, if it is not `Off`, wrong for good;
* in Redis it shows the same, if it is not `Late` either: still to be written, or not
  written when it should have been;
* in Redis it shows what the deals up to the stored offset make of it, if it does not
  `Differ`: ahead of that offset, or behind it.

The first and the second are what a reload needs, which takes what it lost from Redis; the
third is what a restart needs, which takes everything; and when the offset is stored, the second
becomes the third.  All of this holds in two ways, `Right("exact", ...)` for `MemoryExact` and
`StoredExact`, `Right("cover", ...)` for `AtLeastOnce`: there, keys that show deals
twice are not excepted, and a key that was written ahead still covers what is stored as due
(`DueCovers`: more deals make a greater k-line).  `DealsRight` and `LastRight` say the like of
the recent deals and of the last price, where what is in memory pushed on what is in
Redis must give the newest deals (`PushedIs`); and `FlushOrder` says what is left to write in
which phase of a flush, and that a market that is not fresh has nothing left.  The steps that fill
`drift` say in which case a key leaves the three for good.  TLC
checked `KeptInv` as well before it was proved: with one fault to the end, with two to depth 22.

**GatewayProofs.**  Any number of workers, backends, slots, threads,
connections, requests and faults.  That an answer goes to whoever asked needs
to know what is under way, and each place is kept honest by one number:

* ids of sessions only grow within a process (`SessionsOK`), so that the id in an
  entry that outlived its session is not given again; and an entry stands for a
  request without an answer, no two of them for the same (`EntriesOK`,
  `EntriesDistinct`): one answer;
* sequence numbers only grow within a worker, and a worker that begins again
  leaves its links behind: a package on a link that a worker reads is `Genuine`, it
  has the number of its own request's entry or of none (`CarriedOK`);
* ids of a backend's sessions grow as well, so that a job whose session is still
  the same may be answered to whoever is at the other end (`JobsOK`).

`GatewayInv` has these parts, the types, and that each connected client is at the
end of a link of its own.  Most of the proof is one lemma per action.  What
ends (a link, a session, a process) is treated once, in `EndStep`: whatever is
left after it was there before.  `NoJobMissed` is inductive by itself.

**FeedProofs.**  Any number of sessions, polls, errors and timeouts, any prices, amounts and
limit; `Null` is assumed to be no entry.  `SessionsExact` says that the entry has
whom it should, sessions that were refused half-way included, and that nobody is served
without an entry.  `CopiesRight` rests on one lemma for each kind of topic:

* depth: `DiffRestores`, what a client makes of a depth and `get_list_diff` is the new
  depth.  A level that is missing from the new depth and not sent as removed is
  behind the end of it, which happens only if the new depth is full: then the
  client drops the level because it has `Limit` better ones.  Both depths need at most
  `Limit` levels, which is what `TopType` says of an answer;
* deals: `JoinAscends` and `JoinDescends`, on where an answer may be joined.  `DealsOK` says
  that while polls do not overlap, the one poll asks for what comes after
  the list, its answer continues the list without a gap, and the end of what a client has is
  the list's beginning, so a client that subscribes between a poll and its
  answer is told the answer as well, and not twice.

`FeedInv == FeedTypeOK /\ SessionsExact /\ CopyIsLast /\ DealsOK` is inductive.

**AccessWsProofs** has two parts, about two models of one process.

The first is about subscriptions, for any number of users, pieces of memory, topics and faults.
`SubscriptionsExact` is nearly inductive, `NothingMissed` is not: between a change and its
message a connection may log in as somebody else, the list be gone through while it
shrinks, and a query sent for one subscriber be answered to another.
`AccessInv` has the types, and

* of each session (`SessionOK`): nobody is logged in where nobody is connected
  (`Idle`), what a client asked for is in the list of its user (`Listed`), and in the lists of
  orders and assets there is no more than that (`Members`).  The last is what makes it
  right that `on_close` and a new login take the session out of the list of one user only: it is
  in no other;
* `Published`: no message is about a version that was not yet;
* `Informed`: what a client knows is never ahead of the account, and if it is behind, something
  is `Coming`: the message with the last version, a query sent since then, or
  the message of an order in an asset of that user, or a query for just that was lost.  An
  older query or message may still arrive: it is not what is coming, and leaves that
  where it is, behind it in the queue.

A session that was left in a list of positions may be told another user's; `Informed`
says nothing of it, as `NothingMissed` does not (section 7).  `Without`, `Added` and `AskedAll` fold over lists; `FoldRuns` gives what
they leave in a list, as a set.  TLC checked `AccessInv` on the run `accessws`, with its
numbers bounded, before it was proved.

The second part is about queries.  `QueriesAssumption`: times are natural numbers, questions are for methods
there are, no question is `Null`.  (`Queries` is instantiated, not extended, by `MCMarketPrice`, so
the assumption is stated with the theorem.)  `AnswersRight` is about the answers of one step;
`QueriesInv` says what makes the next one right:

* numbers of sessions are not used again, so that an entry whose session is still there is
  about a question that waits (`SessionsOK`, `EntriesOK`);
* a package with the number of a request is about that request, and about nobody if
  accessws is going to keep its answer (`About`);
* an answer on its way is no older than the time its entry has waited, and the time the
  service keeps it (`InTime`), and what accessws keeps is older by its own age
  (`CacheOK`): the three times of `Fresh` add up.  An answer that names a user was
  not kept by a service, so it is no older than the question.

**SpotProofs.**  A handler of Spot is a function from a memory to a memory, so the
invariant is one of a memory, `Sane`, and `IInv` says it of the process's memory and of
the one a replay makes.  `SpotInv` and `Conserved` are not inductive: that a deal finds
in an account what it takes from it, and that the code may therefore ignore the
results of `balance_sub` and its like, rests on all of these:

* an order in the index has frozen exactly what is left of it (`Promised`): what a deal
  takes from `freeze` is that part of the order which the deal shrinks;
* lists hold ids that were given out, of orders of their side (`Listing`), so that the new id
  is in no list and a taker meets the other side only;
* balances have no more digits than an account stores (`Whole`): nothing is lost
  by rounding what an order is worth, because `Unit % Quantum = 0`
  (`market_create` checks `stock_prec + money_prec`);
* stock is never owed too little, and money only if `oper_type` is 1 (`Lacking`).

Then what is frozen is explained (`Exact`) and nothing made or lost (`Kept`) as long as the
memory is `Sound`.  `Kept` needs `FeesFit`: a fee has no more digits than an account stores.
`market_create` (`me_market.c:486-495`) checks `stock_prec + fee_prec` and `money_prec +
fee_prec`, but a fee of a deal in money has the digits of amount, price and rate together.  With
`Quantum = 2`, `Unit = 2` and `TakerFee = 1` TLC finds `Conserved` violated: an
account rounds down by less than a unit what it pays.

`SpotUncrossed` is about sorted lists.  If `oper_type` is 1, `Sane` has `Neat`: lists of
orders that exist, each once, the better price first, no bid at or above an ask.
Handlers keep it because of what the matching loop keeps (`Clear`): the orders it
passed are gone or their price does not meet the taker's, and then none behind them meets it
(`MeetsLess`).  So when something of the order is left, it crosses nothing
(`Apart`), and `skiplist_insert` puts it where the list stays sorted (`ListedNeat`).

Handlers fold over lists, and a fold is a recursive function, of which nothing can be
proved by induction.  `FoldRuns` takes it apart all the same: if every step from a value
in a set `M` ends in `M`, the fold (`SumLemmas`) is the last of a sequence of values in `M`, each one step
from the one before; of the places at which that might stop being so there would be
a first.  `M` is the invariant of the loop.

`ReplayExact` needs none of this, it is inductive by itself: `load_oper` calls the functions
the commands call, in the same order, and fails at `limit_order` and `market_order`.

**Only model-checked:**

* liveness (`HandlerEnds`, `EventuallyDurable`, `EventuallyServed`, `Answered`, `Reconnects`,
  `CatchesUp`, `HistoryStored`, `Arrives`): the prover has no fairness;
* what queries about k-lines answer (that half of `AnswersRight`): they fold over seconds, minutes
  and days, and induction over what a fold runs through is not within reach;
* `ViewsExact`, `HistoryKept`, `StreamInv`: the modules sort, fold and recur, which the
  provers cannot expand;
* `MessagesInOrder`, `Backpressure`: their model filters lists with `SelectSeq` and sorts
  them, which the library defines by recursion without a theorem about it.

## 6. Disagreements between code and its comments or tests

| run | what |
|---|---|
| `slice_orders` | A restart from a slice loses every order and keeps what it froze |

## 7. Behaviour seen with other constants

These come out of the same modules with other constants or without an exception a
property makes; they are recorded here because they explain the restrictions of
the passing runs.

The match engine:

* `CloseTypes` with PLAN: cancelling a plan close order takes out of the frozen
  part what was never put there (`FrozenCovered` fails), and uses a NULL
  position if it is gone (`NoCrash` fails), `me_market.c:2532`.
* Margin is frozen with the leverage of the position mode and spent with the one
  of the request: with two leverages `FreezeCovered` fails.
* `force_liquidation` looks at the first position only, not at all of them.
* A take-profit / stop-loss order with one price is released at any price.
* The suicide command waits for the log by blocking the loop that the log needs.
* `Leverages = {3}`, `Unit = 10`, `Quantum > 1`: an order whose margin does not
  fit `prec_save` cannot be cancelled (`CancelSucceeds` fails).
* Two markets and cross users: the liquidation zeroes the frozen balance that
  orders of the other market own (`me_liquidation.c:182`, `CancelSucceeds`).
* Two markets and a cross user with a position in each: the liquidation loop
  looks up the position of each market (`tmp`, `me_liquidation.c:196`) and closes the
  one of the pass (`position`, line 198) in that market, so that contracts of
  one market are closed against orders of another and longs and shorts no
  longer add up (`OpenInterestBalanced` fails).
* Forced close with an empty book: `HandlerEnds` fails, the process examines the
  same position for ever (`me_liquidation.c:219`).
* `isolated_liquidation` also closes at an equity of exactly zero
  (`me_liquidation.c:90`), where its comment says less than zero.
* `position.mode_query` reads the `market` of a mode that was never set, and
  `position.mode_adjust` passes a name where a `market_t` is expected
  (`me_server.c:2584`): both may end the process.
* `position.adjust_principal` that is refused is answered so, but the principal grows
  all the same; and its test `!mpd_cmp() < 0` never refuses to take.
* Modes, principals and `balance.unfreeze` are not logged: a restart undoes them.
* Queries: the page of `order_book_ext` lacks one order at its end; `query_all` lists a
  user once per run of keys and omits the positions of users without money;
  `position.query` of an unknown market answers all markets; `position.query_all`
  of a user with an empty market name uses a NULL market if he has a position.
* `OrphanSlices = TRUE`, `MaxChildren = 2` or `InsertFails = TRUE`:
  `IsDurableStore` fails: a child that outlives the engine or is overtaken by
  another records a slice older than what was durable; a failed INSERT is
  compared with `< 0` and records an empty one (`me_dump.c:81`).
* The first start after midnight, before the first slice of the day, reads only today's
  table of the log (`me_persist.c:193`).
* `dict_update` is not part of a slice: after a restart from one, a repetition
  is not recognised (`me_update.c:95`).

History and messages:

* With the default of ten threads, rows are stored in any order; and rows stored
  twice after a lost answer are shown twice.
* A statement with the row of an order that is stored already is lost as a whole: error 1062 counts as
  success.
* A stop flushes the messages once and waits 0.1 s for the history; the rest is gone.
* ORDER_OPEN, ORDER_CLOSE and PUSH_DEALS do not ask the guard (`Backpressure` excepts
  them by `forced`), and `on_cmd_push_deals` takes ids that the log does not know.
* The detail of an order that never dealt is answered with null.

The spot market:

* `oper_type` of a spot order is what malloc returned.  0: asks are sorted
  descending, cancelling gives no money back and leaves a freed ask in
  its list (`SpotUncrossed` fails, `owed` grows, the next search crashes).
  1: cancelling an ask unfreezes money instead of stock (`FrozenExact` fails
  without `Sound`).  2: cancelling uses a NULL position.
* `order.update_limit` cancels the order if it is somebody else's and leaves the
  user's own alone: the comparison at `me_server.c:935` is inverted, and the
  same at `me_load.c:538`.
* `limit_order` and `market_order` are logged and `load_oper` does not know them:
  after one of either the process cannot start from its log (`disk.ok` is false).

marketprice:

* `market.kline_update` changes memory only; it is stored with the next deal in its
  bucket, or never.
* Month k-lines look for the last price from `start` back, not from the month; and all k-lines
  of days or more show nothing for a market without a deal in thirty days, `market.status_today`
  prices of zero.
* A process with nothing stored begins to read at offset 1
  (`mp_message.c:866` and 890), so that the first message of the topic is never
  read; the model's topic begins with the one after it.
* Without the exceptions for `drift`, `MemoryExact` and `StoredExact`
  fail after a crash in mid flush (deals count twice), a refused HSET
  (`mp_message.c:706`), an error reply to LPUSH (`mp_message.c:607`) and a reload
  of a market with deals not flushed (`mp_message.c:921`).

Gateway and network:

* When `socket()` fails in `nw_clt_start` no timer is set and the client is not
  started again (`nw_clt.c:228`; `Reconnects` fails with `"socket"` among the
  faults), though `network/README.md:13` says auto reconnect.
* Requests of one connection are answered in the order in which the backends
  answer (`ah_server.c:191`).
* A body, or a header, that arrives in pieces is replaced by its last piece
  (`ut_http_svr.c:92`), and so is a WebSocket message (`ut_ws_svr.c:214` and 233).
  WebSocket frames read together with the handshake are dropped.
* A packet that a SEQPACKET socket does not take is dropped: `nw_ses.c:266` compares an
  `int` with a `size_t`.
* A package longer than the limit, or a queue that is full, closes the session, the
  latter from inside of the caller's send; a broadcast ends at the first failure.
* `nw_ses_send_fd` goes past what is queued.
* `init_worker_svr` leaves `on_recv_fd` unset.

accessws:

* A session that ends stays in the lists of positions (`aw_server.c:1056`), and
  of the topic of states; whoever gets its memory is told another user's
  positions.  "delete zombie data" (`aw_position.c:261`) looks for a user whose
  number is the session's address.
* A query sent for an earlier subscription may bring an older balance after a newer one
  (`aw_asset.c:88`).
* Polls of deals that overlap send deals twice (`DealsOnce` fails without its premise).
* An error reply to a poll drops the topic with all who are in it, who are not told.
* A subscription to several topics that is refused at one of them stays in those before
  it (`aw_server.c:360`, and the same for today, state and deals): the client was answered "invalid
  argument", is told the changes, is never sent the value there is (`aw_server.c:367` is not
  reached), and has lost the topics it had before.
* Who subscribes to a k-line is sent nothing until it changes (`aw_kline.c`).
* A public answer may be as old as all the times together that accessws, the service and
  the request allow.
* `position.history` is sent to a service that does not know it, and times out.

## 8. What is not modelled

* Match engine: batch cancelling of futures orders, asset administration, fees in
  the discount asset, `me_trade.c`; what a restart makes of modes, principals
  and `balance.unfreeze` (no module has both positions and the log).
* marketprice: several markets that share one offset.
* accesshttp: the monitor.
* Network and utilities: datagram sockets, the arithmetic of timers, names of tables
  by date, configuration, logging, containers as such.
* Command lines, scripts and tests.
* hiredis, http_parser and sds are third-party code, a third of the lines of the
  repository.

Components are checked apart: no run has the match engine with its log, or two
services with everything between them.

## 9. Plan

Done: Balance, Position, Market, Planner, Liquidation, PositionRequests, Engine, Views, OrderBook,
with EngineProofs; Operlog, Slices, Persist, DurableStore,
with PersistProofs; Kline, Consumer, MarketPrice, with MarketPriceProofs; JobPool,
Gateway, with GatewayProofs; Outbox, Reader; Session, Stream; AccessWs and Queries, with AccessWsProofs; Feed, with FeedProofs; Spot, with SpotProofs.

Next, in this order:

1. Proofs: `Backpressure` and `MessagesInOrder` of Outbox, with its filters written as folds (`FoldRuns`), as those of AccessWs are.
2. What a restart forgets of modes, principals and `balance.unfreeze`.
3. MarketPrice with two markets, which share the offset and not the flush.
4. Batch cancelling of futures orders.
