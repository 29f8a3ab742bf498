-------------------------------- MODULE Kline --------------------------------
(***************************************************************************)
(* The k-lines of marketprice: mp_kline.c, and the queries of mp_message.c *)
(* that read tables of them.  A table is a partial function from the start *)
(* of a bucket to the k-line of the deals of that bucket.  Times are in    *)
(* seconds; a minute, an hour and a day have as few of them as a model     *)
(* wants, and local time is UTC.                                           *)
(***************************************************************************)
EXTENDS Integers, SequencesExt

CONSTANTS
  Minute,             \* seconds of a minute
  Hour,               \* seconds of an hour
  Day,                \* seconds of a day
  SecMax,             \* settings.sec_max: seconds kept
  MinMax,             \* settings.min_max: minutes kept
  HourMax,            \* settings.hour_max: hours kept
  DaysBefore,         \* days a query looks back for a previous day (30)
  Months              \* the days, counted from the epoch, on which months begin,
                      \* up to one after all times

ASSUME KlineAssumption ==
  /\ {Minute, Hour, Day, SecMax, MinMax, HourMax, DaysBefore} \subseteq Nat \ {0}
  /\ Hour % Minute = 0 /\ Day % Hour = 0
  /\ Months \subseteq Nat /\ 0 \in Months

Types == {"sec", "min", "hour", "day"}

Width == [sec |-> 1, min |-> Minute, hour |-> Hour, day |-> Day]
Kept  == [sec |-> SecMax, min |-> MinMax, hour |-> HourMax]

Floor(t, width) == (t \div width) * width

\* The bucket of a time, time_sec to time_day of market_update.
Bucket(type, t) == Floor(t, Width[type])

\* Where a table begins, as seen at time now; days are kept for ever.
Limit(type, now) ==
  IF type = "day" THEN 0
  ELSE Bucket(type, now) - Kept[type] * Width[type]

kline_info_new(price) ==
  [open |-> price, close |-> price, high |-> price, low |-> price,
   volume |-> 0, deal |-> 0]

\* A NULL k-line; prices are positive.
NoKline == kline_info_new(0)

Higher(a, b) == IF a > b THEN a ELSE b
Lower(a, b)  == IF a < b THEN a ELSE b

kline_info_update(k, price, amount) ==
  [k EXCEPT !.close  = price,
            !.high   = Higher(price, @),
            !.low    = Lower(price, @),
            !.volume = @ + amount,
            !.deal   = @ + price * amount]

kline_info_merge(k, update) ==
  [k EXCEPT !.close  = update.close,
            !.high   = Higher(update.high, @),
            !.low    = Lower(update.low, @),
            !.volume = @ + update.volume,
            !.deal   = @ + update.deal]

\* The times first, first + step, ... before last.
Times(first, last, step) ==
  [i \in 1..((last - first + step - 1) \div step) |-> first + (i - 1) * step]

\* The k-lines of a table at some times, merged in their order.
Merged(k, table, times) ==
  FoldLeft(LAMBDA m, t : IF t \notin DOMAIN table THEN m
                         ELSE kline_info_merge(IF m = NoKline THEN kline_info_new(table[t].open)
                                               ELSE m, table[t]),
           k, times)

\* (variant) the oldest one is left out
get_last_kline_ShortOfEnd(table, start, end, step) ==
  LET found == {t \in DOMAIN table : end < t /\ t <= start /\ (start - t) % step = 0}
  IN  IF found = {} THEN NoKline
      ELSE table[CHOOSE t \in found : \A u \in found : u <= t]

\* The last k-line at start, start - step, ... not before end.
get_last_kline(table, start, end, step) ==
  LET found == {t \in DOMAIN table : end <= t /\ t <= start /\ (start - t) % step = 0}
  IN  IF found = {} THEN NoKline
      ELSE table[CHOOSE t \in found : \A u \in found : u <= t]

\* (variant) seconds are used up to the current one
get_market_status_AllSeconds(tables, now, period) ==
  LET seconds == Times(now - period, now + 1, 1)
  IN  Merged(Merged(NoKline, tables.sec, seconds), tables.min,
             Times(Floor(now - period, Minute) + Minute, now, Minute))

\* get_market_status: the seconds up to the first full minute, then the minutes.
get_market_status(tables, now, period) ==
  LET start_min == Floor(now - period, Minute) + Minute
  IN  Merged(Merged(NoKline, tables.sec, Times(now - period, start_min, 1)),
             tables.min, Times(start_min, now, Minute))

\* get_market_status_today: prices of the day, volumes of the last 24 hours.
get_market_status_today(tables, now) ==
  LET start == Bucket("day", now)
      klast == get_last_kline(tables.day, start - Day, start - Day * DaysBefore, Day)
      prices == IF start \in DOMAIN tables.day THEN tables.day[start]
                ELSE kline_info_new(klast.close)
      volumes == get_market_status(tables, now, Day)
  IN  [prices EXCEPT !.volume = volumes.volume, !.deal = volumes.deal]

\* The loop of the k-line queries: one candle per span, merged from the table,
\* or flat at the close of the candle before, or none if there was none.
Candles(table, spans, step, kbefor) ==
  FoldLeft(LAMBDA s, span :
             LET kinfo == Merged(NoKline, table, Times(span[1], span[2], step))
                 unit  == IF kinfo = NoKline THEN kline_info_new(s.klast.close) ELSE kinfo
             IN  IF unit = NoKline THEN s
                 ELSE [klast |-> unit, result |-> Append(s.result, [time |-> span[1], kline |-> unit])],
           [klast |-> kbefor, result |-> <<>>], spans).result

\* (variant) the interval that begins at the end is left out
Spans_ShortOfEnd(start, end, interval) ==
  [i \in DOMAIN Times(start, end, interval) |->
     <<start + (i - 1) * interval, start + i * interval>>]

\* The intervals from start that begin by end.
Spans(start, end, interval) ==
  [i \in DOMAIN Times(start, end + 1, interval) |->
     <<start + (i - 1) * interval, start + i * interval>>]

\* get_market_kline_sec, _min and _hour: the start is at most as far back as
\* the table and a multiple of the interval, for hours counted from midnight.
get_market_kline(type, table, now, start, end, interval) ==
  LET from == Floor(Higher(start, Limit(type, now)), interval)
  IN  Candles(table, Spans(from, end, interval), Width[type],
              get_last_kline(table, from - Width[type], Limit(type, now), Width[type]))

\* get_market_kline_day and _week: intervals of days, counted from a day that is
\* `shift` days after the epoch (weeks begin on a Monday, the epoch did not).
get_market_kline_days(table, start, end, interval, shift) ==
  LET from == Floor(start - shift * Day, interval) + shift * Day
  IN  Candles(table, Spans(from, end, interval), Day,
              get_last_kline(table, from - Day, from - Day * DaysBefore, Day))

\* get_month_start, get_next_month
get_month_start(t)  == Day * Max({d \in Months : d * Day <= t})
get_next_month(mon) == Day * Min({d \in Months : d * Day > mon})

\* The months from the one of start that begin by end; days after end are left out.
MonthSpans(table, start, end) ==
  LET starts == SetToSortSeq({t \in {d * Day : d \in Months} :
                                get_month_start(start) <= t /\ t <= end}, <)
  IN  [i \in DOMAIN starts |-> <<starts[i], Lower(get_next_month(starts[i]), end + 1)>>]

\* get_market_kline_month.  How far it looks back is counted from start, and not from
\* where its month begins: nothing is found after the first days of a long month.
get_market_kline_month(table, start, end) ==
  Candles(table, MonthSpans(table, start, end), Day,
          get_last_kline(table, get_month_start(start) - Day, start - Day * DaysBefore, Day))

\* get_market_deals: a list has the newest first.
get_market_deals(deals_json, limit, last_id) ==
  LET fresh == SelectSeq(deals_json, LAMBDA id : id > last_id)
  IN  SubSeq(fresh, 1, Lower(limit, Len(fresh)))
==============================================================================
