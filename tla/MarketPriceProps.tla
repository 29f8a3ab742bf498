--------------------------- MODULE MarketPriceProps ---------------------------
(***************************************************************************)
(* What marketprice has to keep true: its k-lines are a function of the    *)
(* deals, which KlineOf states without folding anything.                   *)
(***************************************************************************)
EXTENDS MarketPrice

\* The deals among the first n whose time is at least `from` and before `to`.
DealsIn(n, from, to) == {i \in 1..n : from <= topic[i].time /\ topic[i].time < to}

\* The k-line of some deals.
KlineOf(ids) ==
  IF ids = {} THEN NoKline
  ELSE [open   |-> topic[Min(ids)].price,
        close  |-> topic[Max(ids)].price,
        high   |-> Max({topic[i].price : i \in ids}),
        low    |-> Min({topic[i].price : i \in ids}),
        volume |-> SumFunction([i \in ids |-> topic[i].amount]),
        deal   |-> SumFunction([i \in ids |-> topic[i].price * topic[i].amount])]

\* The keys of the deals' buckets that are kept at this time; the k-line of a
\* key in a table, and the one the first n deals make.
KeptKeys == {key \in UNION {KeysOf(topic[i]) : i \in DOMAIN topic} : ~Expired(key[1], key[2])}
At(klines, key) == IF key[2] \in DOMAIN klines[key[1]] THEN klines[key[1]][key[2]] ELSE NoKline
Due(n, key) == KlineOf(DealsIn(n, key[2], key[2] + Width[key[1]]))

\* The last ones of the first n deals, newest first.
RecentOf(n) == [i \in 1..Lower(n, DealsMax) |-> n - i + 1]

Wrong == drift.over \cup drift.under

\* Types of the consumer and of what a flush keeps count with.
MarketPriceTypeOK ==
  /\ pc \in {"loop", "read", "update", "deals", "offset", "down"}
  /\ context \in {"ok", "err"}
  /\ now \in Clock
  /\ faults \in 0..MaxFaults
  /\ topic \in Seq([time : Clock, price : Prices, amount : Amounts])
  /\ Len(topic) <= MaxDeals
  /\ offset \in Nat /\ last_offset \in Nat /\ pipe \in Nat
  /\ DOMAIN redis = {"klines", "deals", "last", "offset"}
  /\ redis.offset \in 0..Len(topic)

\* The offsets after `done` and before `next`, in order.
Between(done, next) == [i \in 1..(next - 1 - done) |-> done + i]

\* Deals are handled in their order, each once by a process, from the one after
\* the stored offset on: those in the list are exactly the ones between the last
\* one handled and the next one to fetch.  The loop cannot miss one: if the list
\* is not empty there is a byte in the pipe, or the loop that empties the list is
\* under way.
InOrder ==
  pc # "down" =>
    /\ redis.offset <= last_offset /\ last_offset < offset /\ offset <= Len(topic) + 1
    /\ list = Between(last_offset, offset)
    /\ list # <<>> => pipe > 0 \/ pc = "read"

\* The k-lines, recent deals and last price in memory are those of the deals
\* handled: none is missing, counted twice or in the wrong bucket, whatever was
\* flushed, cleared and restarted, and however the flush was cut or refused.
\* Excepted are the keys a crash in mid flush, a reload or an answer lost made
\* wrong for good.
MemoryExact ==
  pc # "down" =>
    /\ \A key \in KeptKeys \ Wrong : At(mem.klines, key) = Due(last_offset, key)
    /\ DealsKey \notin Wrong => mem.deals_json = RecentOf(last_offset)
    /\ LastKey \notin Wrong /\ last_offset > 0 => mem.last = topic[last_offset].price

\* The stored k-lines and recent deals are those of the deals up to the stored
\* offset, from which the next process goes on, except for the keys being ahead
\* or behind.
StoredExact ==
  LET keys == Wrong \cup drift.ahead \cup drift.behind
  IN  /\ \A key \in KeptKeys \ keys : At(redis.klines, key) = Due(redis.offset, key)
      /\ DealsKey \notin keys => redis.deals = RecentOf(redis.offset)

\* A deal before the stored offset is in its stored k-lines at least once, also
\* after crashes at any point of a flush.
AtLeastOnce ==
  \A key \in KeptKeys \ (drift.under \cup drift.behind) :
    LET stored == At(redis.klines, key)
        due    == Due(redis.offset, key)
    IN  due # NoKline => /\ stored.volume >= due.volume
                         /\ stored.high >= due.high /\ stored.low <= due.low

\* Between two flushes and without a reason to be wrong, queries can be compared
\* with the deals.
Comparable == pc = "loop" /\ Wrong = {} /\ list = <<>> /\ redis.offset = last_offset

\* When a client may ask: now; or if nothing happens, on the last day on which
\* today's deals are looked for, or on the day after it.
AskedAt == {now} \cup {now + days * Day : days \in {DaysBefore, DaysBefore + 1}}
StartsBefore(at) == {t \in Clock \cup {at} : t <= at}

\* The deals of the last `period` seconds; a deal of this very second is left out
\* when a minute begins.
LastDeals(at, period) ==
  DealsIn(last_offset, at - period, IF at % Minute = 0 THEN at ELSE at + 1)

\* market.status answers for the deals of the last `period` seconds, each once,
\* though it adds up seconds and minutes; market.status_today takes the prices of
\* the day, or the last price of DaysBefore days, and the volume of the last 24 hours.
StatusExact ==
  Comparable =>
    \A at \in AskedAt :
      /\ \A period \in 1..Lower(SecMax, MinMax * Minute) :
           get_market_status(mem.klines, at, period) = KlineOf(LastDeals(at, period))
      /\ LET today  == Bucket("day", at)
             own    == DealsIn(last_offset, today, today + Day)
             before == DealsIn(last_offset, today - DaysBefore * Day, today)
             prices == IF own # {} THEN KlineOf(own) ELSE kline_info_new(KlineOf(before).close)
             window == KlineOf(LastDeals(at, Day))
         IN  get_market_status_today(mem.klines, at) =
               [prices EXCEPT !.volume = window.volume, !.deal = window.deal]

\* What a k-line query has to answer, when deals before `limit` are forgotten:
\* the candles are in the order of time; and for each interval from the one of
\* `start` to the one of `end`, the candle of its deals or, if there are none
\* in it but some before, a flat one at the last price; and nothing else.
IsAnswer(result, limit, start, end, interval, origin) ==
  LET Own(t)    == DealsIn(last_offset, Higher(limit, t), t + interval)
      Before(t) == DealsIn(last_offset, limit, t)
      spans     == {t \in (start - interval + 1)..end :
                      /\ t % interval = origin % interval
                      /\ t + interval > limit
                      /\ Own(t) \cup Before(t) # {}}
  IN  /\ \A i \in 1..(Len(result) - 1) : result[i].time < result[i + 1].time
      /\ {result[i].time : i \in DOMAIN result} = spans
      /\ \A i \in DOMAIN result :
           LET t == result[i].time
           IN  result[i].kline = IF Own(t) # {} THEN KlineOf(Own(t))
                                 ELSE kline_info_new(KlineOf(Before(t)).close)

\* market.kline answers like that for every interval it takes: those below a day
\* as far back as their table goes, those of days with the last price of the
\* DaysBefore days before the first one.
KlinesExact ==
  Comparable =>
    \A at \in AskedAt : \A start \in StartsBefore(at) :
      /\ \A interval \in {i \in 1..(Minute - 1) : Minute % i = 0} :
           IsAnswer(get_market_kline("sec", mem.klines.sec, at, start, at, interval),
                    Limit("sec", at), start, at, interval, 0)
      /\ \A interval \in {i \in Minute..(Hour - 1) : i % Minute = 0 /\ Hour % i = 0} :
           IsAnswer(get_market_kline("min", mem.klines.min, at, start, at, interval),
                    Limit("min", at), start, at, interval, 0)
      /\ \A interval \in {i \in Hour..(Day - 1) : i % Hour = 0 /\ Day % i = 0} :
           IsAnswer(get_market_kline("hour", mem.klines.hour, at, start, at, interval),
                    Limit("hour", at), start, at, interval, 0)
      /\ \A days \in {1, 2, 7} :
           LET shift == IF days = 7 THEN 4 ELSE 0
               first == Floor(start - shift * Day, days * Day) + shift * Day
           IN  IsAnswer(get_market_kline_days(mem.klines.day, start, at, days * Day, shift),
                        first - DaysBefore * Day, start, at, days * Day, shift * Day)

\* market.kline by months answers for the months of `start' to now in their order, each
\* with its deals or flat at the last price, if there is one in the days it looks back.
MonthsExact ==
  Comparable =>
    \A at \in AskedAt : \A start \in StartsBefore(at) :
      LET result == get_market_kline_month(mem.klines.day, start, at)
          first  == Lower(start - DaysBefore * Day, get_month_start(start))
          Own(mon)    == DealsIn(last_offset, mon, get_next_month(mon))
          Before(mon) == {i \in DealsIn(last_offset, 0, mon) : Bucket("day", topic[i].time) >= first}
      IN  /\ \A i \in 1..(Len(result) - 1) : result[i].time < result[i + 1].time
          /\ {result[i].time : i \in DOMAIN result} =
               {mon \in {d * Day : d \in Months} : /\ get_month_start(start) <= mon /\ mon <= at
                                                   /\ Own(mon) \cup Before(mon) # {}}
          /\ \A i \in DOMAIN result :
               LET mon == result[i].time
               IN  result[i].kline = IF Own(mon) # {} THEN KlineOf(Own(mon))
                                     ELSE kline_info_new(KlineOf(Before(mon)).close)

\* market.deals answers with the newest ones after the last a client knows, newest
\* first.
DealsExact ==
  Comparable =>
    \A limit \in 1..DealsMax, last_id \in 0..last_offset :
      get_market_deals(mem.deals_json, limit, last_id) =
        [i \in 1..Lower(limit, Lower(DealsMax, last_offset - last_id)) |-> last_offset - i + 1]

\* All of them: every answer is the one the deals give.
AnswersExact == StatusExact /\ KlinesExact /\ MonthsExact /\ DealsExact

Stored == redis.offset = Len(topic)

\* The stored offset catches up with the topic, through crashes and failures and
\* however the consumer's thread and the loop meet at list and pipe.
EventuallyStored == []<>Stored
==============================================================================
