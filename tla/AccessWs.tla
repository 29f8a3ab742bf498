------------------------------ MODULE AccessWs --------------------------------
(***************************************************************************)
(* Subscriptions of a worker of accessws: connections, logins answered by a *)
(* pool of threads (aw_auth.c, aw_sign.c), the lists of who is to be told   *)
(* about a user's orders, assets and positions (aw_order.c, aw_asset.c,     *)
(* aw_position.c), messages of the match engine (aw_message.c), and the     *)
(* queries they set off.                                                    *)
(*                                                                         *)
(* A handler runs to its end; what it sends to clients may fail, and then   *)
(* the session is closed inside of the handler.                             *)
(***************************************************************************)
EXTENDS Integers, Sequences, SequencesExt

CONSTANTS
  Users,              \* who can log in
  Slots,              \* pieces of memory for sessions
  Topics,             \* by channel: markets, assets, positions (market and side)
  Legs,               \* by market: stock and money
  Params,             \* by channel: what clients subscribe to, lists of topics
  None, All, Bad,     \* no user; no market given; a parameter that is refused
  MaxConns,           \* bound on connections
  MaxRequests,        \* bound on requests of clients
  MaxUpdates,         \* bound on changes at the match engine
  MaxFaults,          \* bound on faults
  Faults              \* the kinds of faults there are

Channels == {"order", "asset", "position"}

ASSUME AccessWsAssumption ==
  /\ DOMAIN Topics = Channels /\ DOMAIN Params = Channels
  /\ \A m \in Topics["order"] : Legs[m] \in Seq(Topics["asset"])
  /\ \A ch \in Channels : Params[ch] \subseteq Seq(Topics[ch] \cup {Bad}) /\ All \notin Topics[ch]
  /\ None \notin Users
  /\ MaxConns \in Nat /\ MaxRequests \in Nat /\ MaxUpdates \in Nat /\ MaxFaults \in Nat
  /\ Faults \subseteq {"send", "lost"}

VARIABLES
  ses,                \* by slot: id (0: free) and the user logged in, or None
  id_start,           \* nw_svr.id_start
  logins,             \* the entries of both state tables: kind and session
  dict_sub,           \* by channel and user: the list of subscriptions
  kafka,              \* by channel: messages not read yet
  queries,            \* by channel: queries to the match engine, oldest first
  version,            \* by channel, user and topic: how often it changed
  wants,              \* history variable: by slot, what its client subscribed to
  copy,               \* history variable: by slot, the newest versions its client was told
  lost,               \* history variable: changes nobody was told about
  requests,           \* number of requests so far
  updates,            \* number of changes so far
  faults              \* number of faults so far

vars == <<ses, id_start, logins, dict_sub, kafka, queries, version, wants, copy, lost,
          requests, updates, faults>>

clients == <<wants, copy>>

Key(ch, user, topic) == [ch |-> ch, user |-> user, topic |-> topic]

\* A client that is connected sends a request.
Request(s) == ses[s].id # 0 /\ requests < MaxRequests /\ requests' = requests + 1

Fault(kind) == kind \in Faults /\ faults < MaxFaults /\ faults' = faults + 1

Free    == [id |-> 0, user |-> None]
Nothing == [ch \in Channels |-> {}]
NoCopy  == [ch \in Channels |-> [t \in Topics[ch] |-> 0]]
NoSubs  == [ch \in Channels |-> [u \in Users |-> <<>>]]
Empty   == [ch \in Channels |-> <<>>]

Init ==
  /\ ses = [s \in Slots |-> Free]
  /\ id_start = 1
  /\ logins = <<>>
  /\ dict_sub = NoSubs
  /\ kafka = Empty
  /\ queries = Empty
  /\ version = [ch \in Channels |-> [u \in Users |-> [t \in Topics[ch] |-> 0]]]
  /\ wants = [s \in Slots |-> Nothing]
  /\ copy = [s \in Slots |-> NoCopy]
  /\ lost = {}
  /\ requests = 0 /\ updates = 0 /\ faults = 0

\* order_unsubscribe, asset_unsubscribe, position_unsubscribe: the units of a list but
\* for those of session s.
Without(list, s) == FoldLeft(LAMBDA l, n : IF n.ses = s THEN l ELSE Append(l, n), <<>>, list)

\* The lists without what session s has in those of one user.
Dropped(chs, user, s) ==
  [ch \in Channels |-> [u \in Users |->
     IF ch \in chs /\ u = user THEN Without(dict_sub[ch][u], s) ELSE dict_sub[ch][u]]]
------------------------------------------------------------------------------
(* Sessions and logins.                                                     *)

\* nw_svr_add_clt, on_upgrade: nobody is logged in on a new connection.
on_upgrade(s) ==
  /\ ses[s].id = 0 /\ id_start <= MaxConns
  /\ ses' = [ses EXCEPT ![s] = [id |-> id_start, user |-> None]]
  /\ id_start' = id_start + 1
  /\ UNCHANGED <<logins, dict_sub, kafka, queries, version, clients, lost, requests, updates, faults>>

\* (variant) orders stay, too
Closed_KeepsOrders(s) == Dropped({"asset"}, ses[s].user, s)

\* on_close: positions stay.
Closed(s) == Dropped({"order", "asset"}, ses[s].user, s)

\* The peer closes, or is silent too long, or an answer cannot be sent to it.
on_close(s) ==
  /\ ses[s].id # 0
  /\ dict_sub' = Closed(s)
  /\ ses' = [ses EXCEPT ![s] = Free]
  /\ wants' = [wants EXCEPT ![s] = Nothing]
  /\ copy' = [copy EXCEPT ![s] = NoCopy]
  /\ UNCHANGED <<id_start, logins, kafka, queries, version, lost, requests, updates, faults>>

\* send_auth_request, send_sign_request
send_request(kind, s) ==
  /\ Request(s)
  /\ logins' = Append(logins, [kind |-> kind, ses |-> s, ses_id |-> ses[s].id])
  /\ UNCHANGED <<ses, id_start, dict_sub, kafka, queries, version, clients, lost, updates, faults>>

\* (variant) the lists of the former user keep the session
Forgotten_None(kind) == {}

\* What another user's login ends: with aw_sign.c, not the positions.
Forgotten(kind) == IF kind = "auth" THEN Channels ELSE {"order", "asset"}

SameSession(login) == ses[login.ses].id = login.ses_id

\* on_finish, on_result: threads finish in any order; a session that has ended,
\* or a login that failed, changes nothing, and neither does on_timeout, after
\* which the result finds no entry.
on_result(i, user) ==
  /\ i \in DOMAIN logins
  /\ logins' = RemoveAt(logins, i)
  /\ LET login  == logins[i]
         s      == login.ses
         former == ses[s].user
     IN  IF ~SameSession(login) \/ user = None
         THEN UNCHANGED <<ses, dict_sub, clients>>
         ELSE /\ ses' = [ses EXCEPT ![s].user = user]
              /\ IF former \in {None, user} THEN UNCHANGED <<dict_sub, clients>>
                 ELSE /\ dict_sub' = Dropped(Forgotten(login.kind), former, s)
                      /\ wants' = [wants EXCEPT ![s] = Nothing]
                      /\ copy' = [copy EXCEPT ![s] = NoCopy]
  /\ UNCHANGED <<id_start, kafka, queries, version, lost, requests, updates, faults>>
------------------------------------------------------------------------------
(* Requests of clients.                                                     *)

\* The parameters up to the first that is refused; none at all are all markets.
Accepted(ch, params) ==
  IF ch = "order" /\ params = <<>> THEN <<All>>
  ELSE LET ok == {i \in 0..Len(params) : \A j \in 1..i : params[j] # Bad}
       IN  SubSeq(params, 1, Max(ok))

\* Which of them get a unit: the first of equal ones, and in aw_asset.c perhaps
\* another, as list_find compares a byte of the unit nobody has set.
Kept(ch, topics) ==
  LET first == {i \in DOMAIN topics : \A j \in 1..(i - 1) : topics[j] # topics[i]}
  IN  {K \in SUBSET DOMAIN topics : first \subseteq K /\ (K = first \/ ch = "asset")}

\* The units of the topics at the places K go to the end of a list.
Added(list, s, topics, K) ==
  FoldLeft(LAMBDA l, i : IF i \in K THEN Append(l, [ses |-> s, topic |-> topics[i]]) ELSE l,
           list, [i \in DOMAIN topics |-> i])

\* (variant) what was subscribed to before stays
Resubscribed_Adds(ch, s) == dict_sub

Resubscribed(ch, s) == Dropped({ch}, ses[s].user, s)

\* on_method_order_subscribe, on_method_asset_subscribe,
\* on_method_position_subscribe: a new list takes the place of the old one.  (What
\* position_subscribe does to `zombies' is to look for a user whose number is
\* the address of the session.)
Subscribe(ch, s, params) ==
  /\ Request(s) /\ ses[s].user # None
  /\ LET user   == ses[s].user
         topics == Accepted(ch, params)
     IN  /\ \E K \in Kept(ch, topics) :
              dict_sub' = [Resubscribed(ch, s) EXCEPT ![ch][user] = Added(@, s, topics, K)]
         /\ wants' = [wants EXCEPT ![s][ch] = ToSet(topics)]
         /\ copy' = [copy EXCEPT ![s][ch] = version[ch][user]]
  /\ UNCHANGED <<ses, id_start, logins, kafka, queries, version, lost, updates, faults>>

\* on_method_order_unsubscribe, on_method_asset_unsubscribe,
\* on_method_position_unsubscribe
Unsubscribe(ch, s) ==
  /\ Request(s) /\ ses[s].user # None
  /\ dict_sub' = Dropped({ch}, ses[s].user, s)
  /\ wants' = [wants EXCEPT ![s][ch] = {}]
  /\ copy' = [copy EXCEPT ![s][ch] = NoCopy[ch]]
  /\ UNCHANGED <<ses, id_start, logins, kafka, queries, version, lost, updates, faults>>
------------------------------------------------------------------------------
(* Messages and notifications.                                              *)

\* The process is gone, and with it all it knew.  The one process_keepalive forks
\* reads the topics from their end.
Restarted ==
  /\ ses' = [s \in Slots |-> Free]
  /\ id_start' = id_start
  /\ logins' = <<>> /\ dict_sub' = NoSubs
  /\ kafka' = Empty /\ queries' = Empty
  /\ wants' = [s \in Slots |-> Nothing] /\ copy' = [s \in Slots |-> NoCopy]
  /\ lost' = {}
  /\ UNCHANGED version

\* The units of a list a change concerns, by place.
Hits(list, topic) == {i \in DOMAIN list : list[i].topic \in {topic, All}}

Subscribed(s, ch, topic) == {topic, All} \cap wants[s][ch] # {}

\* What clients were told when those of some sessions are told a version.  (It may
\* be an older one: a query sent for an earlier subscription is answered late.)
Told(c, ch, topic, ss, v) ==
  [s \in Slots |-> IF s \in ss /\ Subscribed(s, ch, topic)
                   THEN [c[s] EXCEPT ![ch][topic] = Max({@, v})] ELSE c[s]]

\* The loop over a list in order_on_update, on_balance_query_reply and
\* on_position_query_reply, every send_notify of which succeeds.
Notify(ch, user, topic, v) ==
  LET list == dict_sub[ch][user]
      ss   == {list[i].ses : i \in Hits(list, topic)}
  IN  /\ copy' = Told(copy, ch, topic, ss, v)
      /\ UNCHANGED <<ses, dict_sub, wants, faults>>

\* The same, and sending fails at the i-th unit, so that the session is closed.
\* Its units go, and the loop, which holds a pointer to the next unit, uses
\* freed memory if that is one of them: the process crashes, or gets away with it.
Crashes(ch, list, i) ==
  ch # "position" /\ i + 1 \in DOMAIN list /\ list[i + 1].ses = list[i].ses

NotifyBroken(ch, user, topic, v, i) ==
  LET list == dict_sub[ch][user]
      s    == list[i].ses
      ss   == {list[j].ses : j \in Hits(list, topic)} \ {s}
  IN  /\ ses[s].id # 0
      /\ copy' = Told([copy EXCEPT ![s] = NoCopy], ch, topic, ss, v)
      /\ dict_sub' = Closed(s)
      /\ ses' = [ses EXCEPT ![s] = Free]
      /\ wants' = [wants EXCEPT ![s] = Nothing]

\* A change is in the match engine, and a message about it is published.  An
\* order moves money, too, which no other message says.
Update(ch, user, topic) ==
  LET moved == IF ch = "order" THEN ToSet(Legs[topic]) ELSE {}
  IN  /\ updates < MaxUpdates
      /\ updates' = updates + 1
      /\ version' = [c \in Channels |-> [u \in Users |-> [t \in Topics[c] |->
           version[c][u][t] + (IF u = user /\ (<<c, t>> = <<ch, topic>> \/ (c = "asset" /\ t \in moved))
                               THEN 1 ELSE 0)]]]
      /\ kafka' = [kafka EXCEPT ![ch] = Append(@, [user |-> user, topic |-> topic,
                                                  version |-> version'[ch][user][topic]])]
      /\ UNCHANGED <<ses, id_start, logins, dict_sub, queries, clients, lost, requests, faults>>

\* asset_on_update, position_on_update: a query if somebody is subscribed
on_update(qs, ch, user, topic) ==
  IF Hits(dict_sub[ch][user], topic) = {} THEN qs
  ELSE [qs EXCEPT ![ch] = Append(@, [user |-> user, topic |-> topic,
                                    since |-> version[ch][user][topic]])]

\* (variant) the money is not looked at
Moved_Stock(m) == <<Head(Legs[m])>>

Moved(m) == Legs[m]

AskedAll(user, assets) ==
  FoldLeft(LAMBDA qs, a : on_update(qs, "asset", user, a), queries, assets)

\* process_orders_message, process_balances_message, process_positions_message
on_message(ch) ==
  /\ kafka[ch] # <<>>
  /\ LET msg == Head(kafka[ch])
         asked == IF ch = "order" THEN AskedAll(msg.user, Moved(msg.topic))
                  ELSE on_update(queries, ch, msg.user, msg.topic)
         on == Hits(dict_sub["order"][msg.user], msg.topic)
     IN  \/ /\ kafka' = [kafka EXCEPT ![ch] = Tail(@)]
            /\ queries' = asked
            /\ IF ch = "order" THEN Notify(ch, msg.user, msg.topic, msg.version)
               ELSE UNCHANGED <<ses, dict_sub, clients, faults>>
            /\ UNCHANGED <<id_start, logins, lost>>
         \/ \E i \in on :
              /\ ch = "order" /\ Fault("send")
              /\ \/ Crashes(ch, dict_sub[ch][msg.user], i) /\ Restarted
                 \/ /\ kafka' = [kafka EXCEPT ![ch] = Tail(@)]
                    /\ queries' = asked
                    /\ NotifyBroken(ch, msg.user, msg.topic, msg.version, i)
                    /\ UNCHANGED <<id_start, logins, lost>>
  /\ UNCHANGED <<version, requests, updates>>

\* The entry of a query is deleted; what was lost is made good by its answer.
Replied(ch, q, v) ==
  /\ queries' = [queries EXCEPT ![ch] = Tail(@)]
  /\ lost' = IF v = version[ch][q.user][q.topic] THEN lost \ {Key(ch, q.user, q.topic)} ELSE lost
  /\ UNCHANGED <<id_start, logins, kafka>>

\* on_backend_recv_pkg: the answer has what the match engine knew at some time since
\* the query was sent.
on_reply(ch) ==
  /\ queries[ch] # <<>>
  /\ LET q == Head(queries[ch])
     IN  \E v \in q.since..version[ch][q.user][q.topic] :
           \/ Notify(ch, q.user, q.topic, v) /\ Replied(ch, q, v)
           \/ \E i \in Hits(dict_sub[ch][q.user], q.topic) :
                /\ Fault("send")
                /\ \/ Crashes(ch, dict_sub[ch][q.user], i) /\ Restarted
                   \/ /\ NotifyBroken(ch, q.user, q.topic, v, i)
                      /\ Replied(ch, q, v)
  /\ UNCHANGED <<version, requests, updates>>

\* on_timeout of aw_asset.c and aw_position.c, or an error for an answer: nobody
\* is told.
on_timeout(ch) ==
  /\ Fault("lost")
  /\ queries[ch] # <<>>
  /\ queries' = [queries EXCEPT ![ch] = Tail(@)]
  /\ lost' = lost \cup {Key(ch, Head(queries[ch]).user, Head(queries[ch]).topic)}
  /\ UNCHANGED <<ses, id_start, logins, dict_sub, kafka, version, clients, requests, updates>>
------------------------------------------------------------------------------
Next ==
  \/ \E s \in Slots : \/ on_upgrade(s) \/ on_close(s)
                      \/ \E kind \in {"auth", "sign"} : send_request(kind, s)
                      \/ \E ch \in Channels : \/ \E p \in Params[ch] : Subscribe(ch, s, p)
                                              \/ Unsubscribe(ch, s)
  \/ \E i \in DOMAIN logins : \E user \in Users \cup {None} : on_result(i, user)
  \/ \E ch \in Channels, user \in Users : \E t \in Topics[ch] : Update(ch, user, t)
  \/ \E ch \in Channels : on_timeout(ch)
  \/ \E ch \in Channels : on_message(ch) \/ on_reply(ch)

Spec == Init /\ [][Next]_vars
==============================================================================
