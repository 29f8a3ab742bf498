----------------------------- MODULE MarketPrice ------------------------------
(***************************************************************************)
(* marketprice (mp_message.c) for one market: the deals read from Kafka    *)
(* become k-lines and a list of recent deals in memory; a timer flushes    *)
(* what changed to Redis, statement by statement, and last the offset from *)
(* which the next process goes on reading.                                 *)
(*                                                                         *)
(* `drift` is a history variable, which no action reads.  It records which *)
(* keys of Redis, for the moment, show deals after the stored offset       *)
(* (ahead), do not show what they should have got since (missed), or deals *)
(* before it (behind); and which keys show deals twice (over) or not at    *)
(* all (under), for all that is known, for good.                           *)
(***************************************************************************)
EXTENDS Consumer

CONSTANTS
  DealsMax,           \* MARKET_DEALS_MAX
  MaxFaults,          \* bound on crashes, failures of Redis and reloads
  Faults              \* the kinds of faults there are

ASSUME MarketPriceAssumption ==
  /\ DealsMax \in Nat \ {0} /\ MaxFaults \in Nat
  /\ Faults \subseteq {"crash", "redis", "reload", "update"}

VARIABLES
  mem,                \* market_info of the process
  last_offset,        \* offset of the last deal handled
  context,            \* "ok" or "err", the connection a flush uses
  redis,              \* the keys k:<market>:1s to 1d, deals and last, and k:offset
  drift,              \* history variable, see above
  faults              \* number of faults so far

vars == <<now, consumer, pc, mem, last_offset, context, redis, drift, faults>>

DealsKey == <<"deals", 0>>      \* stands for the key k:<market>:deals
LastKey  == <<"last", 0>>       \* stands for the key k:<market>:last

Expired(type, t) == t < Limit(type, now)

\* clear_dict, clear_key: without the buckets before a time
Since(table, start) == Restrict(table, {t \in DOMAIN table : t >= start})

Cleared(tables) == [type \in Types |-> Since(tables[type], Limit(type, now))]

\* A table with a k-line set, and one with what another one has besides.
Put(table, t, k) == [u \in DOMAIN table \cup {t} |-> IF u = t THEN k ELSE table[u]]
Joined(table, rest) ==
  [t \in DOMAIN table \cup DOMAIN rest |-> IF t \in DOMAIN table THEN table[t] ELSE rest[t]]

\* load_market_kline: dict_add keeps an entry that is there.
LoadedKlines(own) ==
  [type \in Types |-> Joined(own[type], Since(redis.klines[type], Limit(type, now)))]

NoTables == [type \in Types |-> <<>>]

\* load_market.  A price that was never stored changes nothing.
load_market(m) ==
  [m EXCEPT !.klines     = LoadedKlines(@),
            !.deals_json = @ \o redis.deals,
            !.last       = IF redis.last = 0 THEN @ ELSE redis.last]

\* create_market: nothing but a price of zero
NoMarket == [klines |-> NoTables, update |-> {}, deals |-> <<>>, deals_json |-> <<>>,
             last |-> 0, fresh |-> FALSE]

\* The k-lines a deal belongs to.
KeysOf(deal) == {<<type, Bucket(type, deal.time)>> : type \in Types}

\* (variant) the k-line starts with the deal before
Aggregated_OldOpen(table, t, deal, last) ==
  LET k == IF t \in DOMAIN table THEN table[t] ELSE kline_info_new(last)
  IN  Put(table, t, kline_info_update(k, deal.price, deal.amount))

Aggregated(table, t, deal, last) ==
  LET k == IF t \in DOMAIN table THEN table[t] ELSE kline_info_new(deal.price)
  IN  Put(table, t, kline_info_update(k, deal.price, deal.amount))

FirstOnes(s, n) == SubSeq(s, 1, Lower(n, Len(s)))

\* market_update
market_update(m, i) ==
  LET deal == topic[i]
  IN  [klines     |-> [type \in Types |->
                         Aggregated(m.klines[type], Bucket(type, deal.time), deal, m.last)],
       update     |-> m.update \cup KeysOf(deal),
       deals      |-> Append(m.deals, i),
       deals_json |-> FirstOnes(<<i>> \o m.deals_json, DealsMax),
       last       |-> deal.price,
       fresh      |-> TRUE]

\* on_deals_message.  The messages of the match engine are well-formed.
OnDealsMessage ==
  /\ Handle
  /\ mem' = market_update(mem, Head(list))
  /\ last_offset' = Head(list)
  /\ UNCHANGED <<context, redis, drift, faults>>

Outside == UNCHANGED <<mem, last_offset, context, redis, drift, faults>>

\* What may become of a statement: it is refused with an error; it is not
\* executed because the connection broke; it is executed but the answer is
\* lost.  A broken connection stays broken, and is counted once.
Outcomes ==
  IF context = "err" THEN {"broken"}
  ELSE {"ok"} \cup IF "redis" \in Faults /\ faults < MaxFaults
                   THEN {"error", "broken", "lost"} ELSE {}

Executed(outcome) == outcome \in {"ok", "lost"}

Noted(outcome) ==
  /\ context' = IF outcome \in {"broken", "lost"} THEN "err" ELSE context
  /\ faults' = IF outcome # "ok" /\ context = "ok" THEN faults + 1 ELSE faults

\* on_market_timer, flush_market: a market that did not change is passed over.
\* If there is no connection, nothing happens.
FlushTimer ==
  /\ pc = "loop"
  /\ context' = "ok"
  /\ pc' = IF mem.fresh THEN "update" ELSE "offset"
  /\ UNCHANGED <<now, consumer, mem, last_offset, redis, drift, faults>>

\* flush_update, flush_kline: an entry is dropped whether its k-line was written
\* or not, or is not there any more.  The entries come in the order of the hash
\* table, which is some order: no property relates two of them.
FlushKline ==
  /\ pc = "update"
  /\ mem.update # {}
  /\ LET key == CHOOSE k \in mem.update : TRUE
     IN  \E outcome \in Outcomes :
           /\ Noted(outcome)
           /\ mem' = [mem EXCEPT !.update = @ \ {key}]
           /\ IF key[2] \in DOMAIN mem.klines[key[1]] /\ Executed(outcome)
              THEN /\ redis' = [redis EXCEPT !.klines[key[1]] =
                                  Put(@, key[2], mem.klines[key[1]][key[2]])]
                   /\ drift' = [drift EXCEPT !.ahead = @ \cup {key}, !.behind = @ \ {key},
                                             !.missed = @ \ {key}]
              ELSE /\ drift' = [drift EXCEPT !.missed = @ \cup {key}]
                   /\ UNCHANGED redis
  /\ UNCHANGED <<now, consumer, pc, last_offset>>

\* flush_last; a failure ends the flush.
FlushLast ==
  /\ pc = "update"
  /\ mem.update = {}
  /\ \E outcome \in Outcomes :
       /\ Noted(outcome)
       /\ pc' = IF outcome # "ok" THEN "loop"
                ELSE IF mem.deals = <<>> THEN "offset" ELSE "deals"
       /\ IF Executed(outcome)
          THEN /\ redis' = [redis EXCEPT !.last = mem.last]
               /\ drift' = [drift EXCEPT !.ahead = @ \cup {LastKey}]
          ELSE UNCHANGED <<redis, drift>>
  /\ UNCHANGED <<now, consumer, mem, last_offset>>

\* (variant) the list is pushed as a whole, not one by one
Pushed_Whole(deals, stored) == FirstOnes(deals \o stored, DealsMax)

Pushed(deals, stored) == FirstOnes(Reverse(deals) \o stored, DealsMax)

\* flush_deals: LPUSH of the deals in their order, LTRIM.  Only a missing answer
\* is a failure, an error is not.
FlushDeals ==
  /\ pc = "deals"
  /\ \E outcome \in Outcomes :
       LET success == outcome \in {"ok", "error"}
       IN  /\ Noted(outcome)
           /\ pc' = IF success THEN "offset" ELSE "loop"
           /\ mem' = IF success THEN [mem EXCEPT !.deals = <<>>] ELSE mem
           /\ redis' = IF Executed(outcome)
                       THEN [redis EXCEPT !.deals = Pushed(mem.deals, @)]
                       ELSE redis
           /\ drift' = CASE outcome = "ok"    -> [drift EXCEPT !.ahead  = @ \cup {DealsKey}]
                         [] outcome = "lost"  -> [drift EXCEPT !.over   = @ \cup {DealsKey}]
                         [] outcome = "error" -> [drift EXCEPT !.missed = @ \cup {DealsKey}]
                         [] OTHER             -> drift
  /\ UNCHANGED <<now, consumer, last_offset>>

\* (variant) the offset of the last deal taken from Kafka is stored
OffsetToStore_Fetched == offset - 1

OffsetToStore == last_offset

\* flush_offset, and last_flush = current_timestamp().
FlushOffset ==
  /\ pc = "offset"
  /\ pc' = "loop"
  /\ \E outcome \in Outcomes :
       /\ Noted(outcome)
       /\ mem' = IF outcome = "ok" THEN [mem EXCEPT !.fresh = FALSE] ELSE mem
       /\ IF Executed(outcome)
          THEN /\ redis' = [redis EXCEPT !.offset = OffsetToStore]
               /\ drift' = [drift EXCEPT !.ahead = {}, !.missed = {},
                                         !.behind = @ \cup drift.missed]
          ELSE UNCHANGED <<redis, drift>>
  /\ UNCHANGED <<now, consumer, last_offset>>

Flush == FlushKline \/ FlushLast \/ FlushDeals \/ FlushOffset

\* on_clear_timer, clear_kline
ClearTimer ==
  /\ pc = "loop"
  /\ mem' = [mem EXCEPT !.klines = Cleared(@)]
  /\ mem' # mem
  /\ UNCHANGED <<now, consumer, pc, last_offset, context, redis, drift, faults>>

\* on_redis_timer, clear_redis, in a process of its own
ClearRedis ==
  /\ redis' = [redis EXCEPT !.klines = Cleared(@)]
  /\ redis' # redis
  /\ UNCHANGED <<now, consumer, pc, mem, last_offset, context, drift, faults>>

Fault(kind) == kind \in Faults /\ faults < MaxFaults /\ faults' = faults + 1

\* market_kline_reload.  The k-lines of buckets that ended are read again from
\* Redis, which does not have the deals since the last flush; they are not read
\* again from Kafka.  If Redis fails, they are gone.  Whether an entry of `update`
\* is removed is up to the padding of its key; here it is all or none of them.
Reload ==
  /\ pc = "loop"
  /\ Fault("reload")
  /\ LET kept == [type \in Types |-> Since(mem.klines[type], now)]
         Keys(klines) == UNION {{type} \X DOMAIN klines[type] : type \in Types}
     IN  \E update \in {mem.update, {}}, loaded \in {TRUE, "redis" \notin Faults} :
           /\ LET rest == [mem EXCEPT !.klines = kept, !.update = update,
                                      !.deals = <<>>, !.deals_json = <<>>]
              IN  mem' = IF loaded THEN load_market(rest) ELSE rest
           /\ drift' = [drift EXCEPT !.under = @ \cup
                IF loaded
                THEN mem.update \cup drift.missed \cup drift.behind
                       \cup (IF mem.deals = <<>> THEN {} ELSE {DealsKey})
                       \cup (IF mem.fresh THEN {LastKey} ELSE {})
                ELSE Keys(mem.klines) \cup Keys(redis.klines) \cup {DealsKey}]
  /\ UNCHANGED <<now, consumer, pc, last_offset, context, redis>>

\* market_kline_update: a k-line in memory is set to something else, and stored when
\* its next deal comes.
KlineUpdate ==
  /\ pc = "loop"
  /\ Fault("update")
  /\ \E type \in Types, price \in Prices : \E t \in DOMAIN mem.klines[type] :
       /\ mem' = [mem EXCEPT !.klines[type][t] = kline_info_new(price)]
       /\ drift' = [drift EXCEPT !.under = @ \cup {<<type, t>>}]
  /\ UNCHANGED <<now, consumer, pc, last_offset, context, redis>>

\* The process ends at any point.
Crash ==
  /\ pc # "down"
  /\ Fault("crash")
  /\ pc' = "down"
  /\ mem' = NoMarket
  /\ last_offset' = 0
  /\ kafka_consumer_create(0)
  /\ context' = "ok"
  /\ drift' = [ahead |-> {}, missed |-> {}, behind |-> {},
               over  |-> drift.over \cup drift.ahead,
               under |-> drift.under \cup drift.behind]
  /\ UNCHANGED <<now, topic, redis>>

\* (variant) the next process begins with the offset that was stored
StartOffset_Same == redis.offset

StartOffset == redis.offset + 1

\* init_message: init_market, get_message_offset, kafka_consumer_create.  With
\* update_time and last_flush both 0 the first flush passes nothing over.
Start ==
  /\ pc = "down"
  /\ pc' = "loop"
  /\ mem' = load_market([NoMarket EXCEPT !.fresh = TRUE])
  /\ last_offset' = redis.offset
  /\ kafka_consumer_create(StartOffset)
  /\ UNCHANGED <<now, topic, context, redis, drift, faults>>

Init ==
  /\ now \in Clock /\ \A t \in Clock : now <= t
  /\ topic = <<>> /\ offset = 1 /\ list = <<>> /\ pipe = 0
  /\ pc = "loop"
  /\ mem = [NoMarket EXCEPT !.fresh = TRUE]
  /\ last_offset = 0
  /\ context = "ok"
  /\ redis = [klines |-> NoTables, deals |-> <<>>, last |-> 0, offset |-> 0]
  /\ drift = [ahead |-> {}, missed |-> {}, behind |-> {}, over |-> {}, under |-> {}]
  /\ faults = 0

Next ==
  \/ Tick /\ Outside
  \/ \E price \in Prices, amount \in Amounts : Publish(price, amount) /\ Outside
  \/ Fetch /\ Outside
  \/ Wake /\ Outside
  \/ OnDealsMessage
  \/ Drained /\ Outside
  \/ FlushTimer \/ Flush
  \/ ClearTimer \/ ClearRedis
  \/ Reload \/ KlineUpdate \/ Crash \/ Start

Spec == Init /\ [][Next]_vars

\* What the main loop goes on with until it comes back to libev.
Handling == OnDealsMessage \/ (Drained /\ Outside) \/ Flush

\* The consumer's thread runs; the main loop goes on, and calls whoever has
\* something to do; the process is started again by its parent (process_keepalive).
FairSpec ==
  /\ Spec
  /\ WF_vars(Fetch /\ Outside)
  /\ SF_vars(Wake /\ Outside)
  /\ WF_vars(FlushTimer)
  /\ WF_vars(Handling)
  /\ WF_vars(Start)
==============================================================================
