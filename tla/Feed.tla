-------------------------------- MODULE Feed ----------------------------------
(***************************************************************************)
(* A topic of accessws that is fed by polling: on a timer the worker asks a *)
(* backend, compares the answer with the last one, and tells the sessions   *)
(* that are subscribed.  `kind` is what the topic is about:                 *)
(*                                                                         *)
(*   "value"  price and today (aw_price.c, aw_today.c): a new value is      *)
(*            sent, and the last one to who subscribes                      *)
(*   "state"  (aw_state.c): the same, but a session that ends stays in it   *)
(*   "kline"  (aw_kline.c): the same, but who subscribes gets nothing       *)
(*   "depth"  (aw_depth.c): one side of a book, as a whole or as what is    *)
(*            different from the last one                                   *)
(*   "deals"  (aw_deals.c): what came after the last deal                   *)
(*                                                                         *)
(* A client is modelled by what it makes of what it was sent.               *)
(***************************************************************************)
EXTENDS Integers, FiniteSets, Sequences, SequencesExt

CONSTANTS
  Slots,              \* pieces of memory for sessions
  Kinds,              \* the kinds of topics
  Prices,             \* prices in a book; side asks: the best is the lowest
  Amounts,            \* amounts at a price
  Limit,              \* levels of a depth, DEALS_QUERY_LIMIT
  Null,               \* no value
  MaxChanges,         \* bound on changes at the backend
  MaxPolls,           \* bound on polls under way
  MaxFaults,          \* bound on faults
  Faults              \* the kinds of faults there are

ASSUME FeedAssumption ==
  /\ Kinds \subseteq {"value", "state", "kline", "depth", "deals"}
  /\ Prices \subseteq Nat /\ Amounts \subseteq Nat \ {0}
  /\ Limit \in Nat \ {0} /\ MaxChanges \in Nat /\ MaxPolls \in Nat \ {0} /\ MaxFaults \in Nat
  /\ Faults \subseteq {"lost", "error", "pending"}

\* Books, and what an entry may have got last.
Depths == UNION {[D -> Amounts] : D \in SUBSET Prices}
Lasts  == UNION {{Null}, Nat, Depths, Seq(Nat)}

\* Null is no entry.
ASSUME NullAssumption == Null \notin [sessions : SUBSET Slots, last : Lasts]

VARIABLES
  kind,               \* what the topic is about
  source,             \* the value, the book, or the number of deals at the backend
  entry,              \* the entry of the topic: sessions and last; or Null
  polls,              \* requests to the backend, oldest first, and their answers
  open,               \* the sessions there are
  wants,              \* history variable: the sessions that were told they are subscribed
  halfway,            \* history variable: those refused after they were put into the entry
  copy,               \* history variable: what their clients have
  zombies,            \* history variable: ended sessions that are still in the entry
  dropped,            \* history variable: sessions an error reply took out
  overlapped,         \* history variable: deals were asked for twice at a time
  cut,                \* history variable: an answer left out deals
  changes, faults     \* number of changes and faults so far

clients == <<open, wants, halfway, copy, zombies, dropped>>
vars == <<kind, source, entry, polls, clients, overlapped, cut, changes, faults>>

Fault(f) == f \in Faults /\ faults < MaxFaults /\ faults' = faults + 1

\* The best levels of a book.
Top(book) ==
  LET better(p) == {q \in DOMAIN book : q < p}
      best == {p \in DOMAIN book : Cardinality(better(p)) < Limit}
  IN  [p \in best |-> book[p]]

\* (variant) levels behind the end of the new list are never removed
Gone_Never(old, new) == {p \in DOMAIN old \ DOMAIN new : \E q \in DOMAIN new : q > p}

\* get_list_diff, the levels that are sent with an amount of 0: those missing
\* before the end of the new list, and behind it if the new list is not full.
Gone(old, new) ==
  {p \in DOMAIN old \ DOMAIN new :
     (\E q \in DOMAIN new : q > p) \/ Cardinality(DOMAIN new) < Limit}

\* get_list_diff
Diff(old, new) ==
  LET changed == {p \in DOMAIN new : p \in DOMAIN old => old[p] # new[p]}
  IN  [p \in changed \cup Gone(old, new) |-> IF p \in changed THEN new[p] ELSE 0]

\* A client replaces amounts, removes levels without, and keeps as many as it
\* asked for.
Applied(book, diff) ==
  LET left == {p \in DOMAIN book \cup DOMAIN diff : p \in DOMAIN diff => diff[p] # 0}
  IN  Top([p \in left |-> IF p \in DOMAIN diff THEN diff[p] ELSE book[p]])

\* As many deals as are kept and asked for.
Newest(deals) == SubSeq(deals, 1, IF Len(deals) < Limit THEN Len(deals) ELSE Limit)

\* The sessions an entry has.
Sessions == IF entry = Null THEN {} ELSE entry.sessions

\* val.last of a new entry
NoLast == IF kind = "deals" THEN <<>> ELSE Null

Init ==
  /\ kind \in Kinds
  /\ source = CASE kind = "depth" -> <<>> [] kind = "deals" -> 0 [] OTHER -> 1
  /\ entry = Null
  /\ polls = <<>>
  /\ open = {} /\ wants = {} /\ halfway = {} /\ zombies = {} /\ dropped = {}
  /\ copy = [s \in Slots |-> NoLast]
  /\ overlapped = FALSE /\ cut = FALSE
  /\ changes = 0 /\ faults = 0

\* Something changes at the backend.
Change ==
  /\ changes < MaxChanges /\ changes' = changes + 1
  /\ IF kind = "depth"
     THEN \E p \in Prices :
            \/ \E a \in Amounts : source' = [q \in DOMAIN source \cup {p} |->
                                               IF q = p THEN a ELSE source[q]]
            \/ p \in DOMAIN source /\ source' = [q \in DOMAIN source \ {p} |-> source[q]]
     ELSE source' = source + 1
  /\ UNCHANGED <<kind, entry, polls, clients, overlapped, cut, faults>>
------------------------------------------------------------------------------
(* Sessions.                                                                *)

on_upgrade(s) ==
  /\ s \notin open
  /\ open' = open \cup {s}
  /\ UNCHANGED <<kind, source, entry, polls, wants, halfway, copy, zombies, dropped,
                 overlapped, cut, changes, faults>>

\* (variant) the session is not taken out
Unsubscribed_Not(s) == entry

\* price_unsubscribe, today_unsubscribe, state_unsubscribe, kline_unsubscribe,
\* depth_unsubscribe, deals_unsubscribe
Unsubscribed(s) == IF entry = Null THEN Null ELSE [entry EXCEPT !.sessions = @ \ {s}]

\* What becomes of the client's view when it is not subscribed any more.
Left(s) ==
  /\ wants' = wants \ {s} /\ halfway' = halfway \ {s} /\ dropped' = dropped \ {s}
  /\ copy' = [copy EXCEPT ![s] = NoLast]

\* The handler of unsubscribe; a subscription to other topics only, and one that is
\* refused before it comes to this topic, begin with the same.
Unsubscribe(s) ==
  /\ s \in open
  /\ entry' = Unsubscribed(s)
  /\ Left(s) /\ zombies' = zombies \ {s}
  /\ UNCHANGED <<kind, source, polls, open, overlapped, cut, changes, faults>>

\* on_close.  The key of a session is hashed by its first bytes, which say
\* whether libev has an event for it: if it has when a timer or a failing send
\* closes the session, the session is not found and stays.  state_unsubscribe is
\* not called at all.
on_close(s) ==
  /\ s \in open
  /\ open' = open \ {s}
  /\ Left(s)
  /\ \/ /\ kind # "state" \/ s \notin Sessions
        /\ entry' = Unsubscribed(s)
        /\ zombies' = zombies \ {s}
        /\ UNCHANGED faults
     \/ /\ s \in Sessions
        /\ IF kind = "state" THEN UNCHANGED faults ELSE Fault("pending")
        /\ zombies' = zombies \cup {s}
        /\ UNCHANGED entry
  /\ UNCHANGED <<kind, source, polls, overlapped, cut, changes>>

\* price_send_last, today_send_last, state_send_last, depth_send_clean,
\* deals_send_full; the list of deals has the newest first.
SentFirst(last) ==
  CASE kind = "kline" -> Null
    [] kind = "deals" -> Reverse(last)
    [] OTHER          -> last

\* price_subscribe and its like: the entry is made if there is none.
Subscribed(s) ==
  IF entry = Null THEN [sessions |-> {s}, last |-> NoLast]
  ELSE [entry EXCEPT !.sessions = @ \cup {s}]

\* on_method_price_subscribe and its like: the session is taken out of all entries
\* and put into those it asks for, and when that is done it is sent their values.
Subscribe(s) ==
  /\ s \in open
  /\ entry' = Subscribed(s)
  /\ wants' = wants \cup {s} /\ halfway' = halfway \ {s}
  /\ dropped' = dropped \ {s} /\ zombies' = zombies \ {s}
  /\ copy' = [copy EXCEPT ![s] = SentFirst(entry'.last)]
  /\ UNCHANGED <<kind, source, polls, open, overlapped, cut, changes, faults>>

\* The same where a market further down the list is none: the client is answered
\* "invalid argument" and sent nothing, but stays in the entries before.  A k-line and
\* a depth are subscribed to one at a time.
SubscribeHalfway(s) ==
  /\ s \in open /\ kind \in {"value", "state", "deals"}
  /\ entry' = Subscribed(s)
  /\ wants' = wants \ {s} /\ halfway' = halfway \cup {s}
  /\ dropped' = dropped \ {s} /\ zombies' = zombies \ {s}
  /\ copy' = [copy EXCEPT ![s] = NoLast]
  /\ UNCHANGED <<kind, source, polls, open, overlapped, cut, changes, faults>>
------------------------------------------------------------------------------
(* Polling.                                                                 *)

\* obj->last_id
LastId == IF kind = "deals" /\ entry.last # <<>> THEN Head(entry.last) ELSE 0

\* (variant) an entry that has a value does not ask again
on_timer_Once ==
  /\ entry # Null /\ entry.last = NoLast
  /\ Len(polls) < MaxPolls
  /\ polls' = Append(polls, [after |-> LastId, answer |-> Null])
  /\ UNCHANGED <<kind, source, entry, clients, overlapped, cut, changes, faults>>

\* on_timer: an entry nobody is in is deleted, else one asks.
on_timer ==
  /\ entry # Null
  /\ IF entry.sessions = {}
     THEN entry' = Null /\ UNCHANGED <<polls, overlapped>>
     ELSE /\ Len(polls) < MaxPolls
          /\ polls' = Append(polls, [after |-> LastId, answer |-> Null])
          /\ overlapped' = (overlapped \/ (kind = "deals" /\ polls # <<>>))
          /\ UNCHANGED entry
  /\ UNCHANGED <<kind, source, clients, cut, changes, faults>>

\* The backend answers in the order it is asked; deals come newest first.
Answer ==
  /\ \E i \in DOMAIN polls :
       /\ polls[i].answer = Null /\ \A j \in 1..(i - 1) : polls[j].answer # Null
       /\ LET after == polls[i].after
              ids   == [k \in 1..(source - after) |-> source + 1 - k]
          IN  /\ polls' = [polls EXCEPT ![i].answer =
                     CASE kind = "depth" -> Top(source)
                       [] kind = "deals" -> Newest(ids)
                       [] OTHER          -> source]
              /\ cut' = (cut \/ (kind = "deals" /\ source - after > Limit))
  /\ UNCHANGED <<kind, source, entry, clients, overlapped, changes, faults>>

\* What clients have after they were told.
Told(new) ==
  [s \in Slots |-> IF s \in entry.sessions \cap (wants \cup halfway) THEN new[s] ELSE copy[s]]

\* on_market_last_reply, on_market_status_today_reply, on_market_status_reply,
\* on_market_kline_reply
ValueReply(answer) ==
  IF answer = entry.last THEN UNCHANGED <<entry, copy>>
  ELSE /\ entry' = [entry EXCEPT !.last = answer]
       /\ copy' = Told([s \in Slots |-> answer])

\* on_market_depth_reply: the whole depth is sent the first time and once a
\* minute, and else what is different.
DepthReply(answer) ==
  IF entry.last # Null /\ Diff(entry.last, answer) = <<>> THEN UNCHANGED <<entry, copy>>
  ELSE /\ entry' = [entry EXCEPT !.last = answer]
       /\ \/ copy' = Told([s \in Slots |-> answer])
          \/ /\ entry.last # Null
             /\ copy' = Told([s \in Slots |-> Applied(copy[s], Diff(entry.last, answer))])

\* (variant) the new deals are put in as they come
DealsReply_Reversed(answer) ==
  IF answer = <<>> THEN UNCHANGED <<entry, copy>>
  ELSE /\ entry' = [entry EXCEPT !.last = Newest(Reverse(answer) \o @)]
       /\ copy' = Told([s \in Slots |-> copy[s] \o Reverse(answer)])

\* on_order_deals_reply
DealsReply(answer) ==
  IF answer = <<>> THEN UNCHANGED <<entry, copy>>
  ELSE /\ entry' = [entry EXCEPT !.last = Newest(answer \o @)]
       /\ copy' = Told([s \in Slots |-> copy[s] \o Reverse(answer)])

\* on_backend_recv_pkg, with a result; the entry may be gone, or be another one.
on_reply ==
  /\ polls # <<>> /\ polls[1].answer # Null
  /\ polls' = Tail(polls)
  /\ IF entry = Null THEN UNCHANGED <<entry, copy>>
     ELSE CASE kind = "depth" -> DepthReply(polls[1].answer)
            [] kind = "deals" -> DealsReply(polls[1].answer)
            [] OTHER          -> ValueReply(polls[1].answer)
  /\ UNCHANGED <<kind, source, open, wants, halfway, zombies, dropped, overlapped, cut,
                 changes, faults>>

\* on_backend_recv_pkg, with an error: the entry is deleted, with all who are in it.
on_error_reply ==
  /\ polls # <<>> /\ Fault("error")
  /\ polls' = Tail(polls)
  /\ entry' = Null
  /\ dropped' = dropped \cup (Sessions \cap wants)
  /\ zombies' = {} /\ halfway' = {}
  /\ UNCHANGED <<kind, source, open, wants, copy, overlapped, cut, changes>>

\* on_timeout, after which an answer finds no state; or the connection broke.
on_timeout ==
  /\ polls # <<>> /\ Fault("lost")
  /\ polls' = Tail(polls)
  /\ UNCHANGED <<kind, source, entry, clients, overlapped, cut, changes>>
------------------------------------------------------------------------------
Work == on_timer \/ Answer \/ on_reply

Next ==
  \/ Work \/ Change \/ on_error_reply \/ on_timeout
  \/ \E s \in Slots :
       on_upgrade(s) \/ on_close(s) \/ Subscribe(s) \/ SubscribeHalfway(s) \/ Unsubscribe(s)

Spec == Init /\ [][Next]_vars

\* The timer repeats, the backend answers, the loop reads the answers.
FairSpec == Spec /\ WF_vars(Work)
==============================================================================
