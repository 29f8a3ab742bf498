------------------------------- MODULE Queries --------------------------------
(***************************************************************************)
(* Queries of clients of accessws: what aw_server.c checks, the answers it  *)
(* keeps for a while, the table of open requests (nw_state.c), and the      *)
(* services it asks: marketprice (mp_server.c) and matchengine              *)
(* (me_server.c), which keep some of their answers, too, and readhistory    *)
(* (rh_server.c), whose threads answer in any order.                        *)
(*                                                                         *)
(* An answer carries its age: the time since a service looked the data up.  *)
(* Ages are not counted beyond Old.  The timers that forget all kept        *)
(* answers once a minute may strike at any time.                            *)
(***************************************************************************)
EXTENDS Integers, FiniteSets, Sequences, SequencesExt, Functions

CONSTANTS
  Users, Slots,       \* accounts; pieces of memory for sessions
  Questions,          \* methods and parameters clients ask with
  Null,               \* no user, no answer
  BadParams,          \* parameters a service refuses, or accessws if it looks
  CacheTimeout,       \* settings.cache_timeout of accessws,
  ServiceTimeout,     \* of marketprice and of matchengine
  BackendTimeout,     \* settings.backend_timeout
  MaxConns,           \* bound on connections
  MaxRequests,        \* bound on requests
  MaxFaults           \* bound on lost connections to services

Backends == {"marketprice", "matchengine", "readhistory"}

Old == CacheTimeout + ServiceTimeout + BackendTimeout + 1

------------------------------------------------------------------------------
(* The handlers of accessws: whom they ask, what they check and in which order, *)
(* and whether the answer is kept.                                          *)

Public(backend, command) ==
  [backend |-> backend, command |-> command, kept |-> TRUE, checks |-> <<"connected">>]

Private(backend, command, checks) ==
  [backend |-> backend, command |-> command, kept |-> FALSE, checks |-> checks]

on_method_kline_query == Public("marketprice", "MARKET_KLINE")
on_method_depth_query == Public("matchengine", "ORDER_BOOK_DEPTH")
on_method_price_query == Public("marketprice", "MARKET_LAST")
on_method_state_query == Public("marketprice", "MARKET_STATUS")
on_method_today_query == Public("marketprice", "MARKET_STATUS_TODAY")
on_method_deals_query == Public("marketprice", "MARKET_DEALS")

on_method_order_query ==
  Private("matchengine", "ORDER_QUERY", <<"connected", "auth", "params">>)
on_method_order_query_all ==
  Private("matchengine", "ORDER_QUERY_ALL", <<"connected", "auth", "params">>)
on_method_order_history ==
  Private("readhistory", "ORDER_HISTORY", <<"connected", "auth", "params">>)
on_method_order_history_all ==
  Private("readhistory", "ORDER_HISTORY_ALL", <<"connected", "auth", "params">>)
on_method_asset_query == Private("matchengine", "BALANCE_QUERY", <<"auth", "connected">>)
on_method_asset_history ==
  Private("readhistory", "BALANCE_HISTORY", <<"connected", "auth", "params">>)
on_method_position_query == Private("matchengine", "POSITION_QUERY", <<"auth", "connected">>)
on_method_position_history ==
  Private("readhistory", "POSITION_HISTORY", <<"connected", "auth", "params">>)

\* init_svr: the names of the methods
method_map ==
  [kline_query |-> on_method_kline_query, depth_query |-> on_method_depth_query,
   price_query |-> on_method_price_query, state_query |-> on_method_state_query,
   today_query |-> on_method_today_query, deals_query |-> on_method_deals_query,
   order_query |-> on_method_order_query, order_query_all |-> on_method_order_query_all,
   order_history |-> on_method_order_history,
   order_history_all |-> on_method_order_history_all,
   asset_query |-> on_method_asset_query, asset_history |-> on_method_asset_history,
   position_query |-> on_method_position_query,
   position_history |-> on_method_position_history]

(* The handlers of the services that are asked by everybody alike, and whether they *)
(* keep their answers.  What they refuse, they refuse before they look for one.       *)

Handler(command, kept) == [command |-> command, kept |-> kept]

on_cmd_market_status       == Handler("MARKET_STATUS", TRUE)
on_cmd_market_kline        == Handler("MARKET_KLINE", TRUE)
on_cmd_market_deals        == Handler("MARKET_DEALS", FALSE)
on_cmd_market_last         == Handler("MARKET_LAST", FALSE)
on_cmd_market_status_today == Handler("MARKET_STATUS_TODAY", TRUE)
on_cmd_order_book_depth    == Handler("ORDER_BOOK_DEPTH", TRUE)

KeptByService ==
  LET handlers == {on_cmd_market_status, on_cmd_market_kline, on_cmd_market_deals,
                   on_cmd_market_last, on_cmd_market_status_today, on_cmd_order_book_depth}
  IN  {h.command : h \in {h \in handlers : h.kept}}

\* The command of accessws that readhistory does not know and leaves unanswered.
Unknown == {"POSITION_HISTORY"}

------------------------------------------------------------------------------
VARIABLES
  ses,                \* by slot: id (0: free) and user, or Null
  id_start,           \* nw_svr.id_start
  entries,            \* state_context: by state id the entry
  backend_cache,      \* by key: when it was put in, and the answer
  dict_cache,         \* by service and key: the age of the answer
  connected,          \* the services there is a connection to
  wire,               \* by service: requests on their way, oldest first
  replies,            \* by service: answers on their way, oldest first
  asked,              \* history variable: by request what was asked, until it is answered
  answers,            \* history variable: what the last step sent to clients
  requests, faults    \* number of requests and lost connections

server   == <<ses, id_start>>
services == <<dict_cache, wire, replies>>
qvars    == <<server, entries, backend_cache, services, connected, asked, answers,
              requests, faults>>

Free == [id |-> 0, user |-> Null]

Init ==
  /\ ses = [s \in Slots |-> Free] /\ id_start = 1
  /\ entries = <<>> /\ backend_cache = <<>>
  /\ dict_cache = [b \in Backends |-> <<>>]
  /\ connected = Backends
  /\ wire = [b \in Backends |-> <<>>] /\ replies = [b \in Backends |-> <<>>]
  /\ asked = <<>> /\ answers = {}
  /\ requests = 0 /\ faults = 0

With(f, key, val) == [k \in DOMAIN f \cup {key} |-> IF k = key THEN val ELSE f[k]]
Without(f, keys)  == Restrict(f, DOMAIN f \ keys)

\* Something is sent to the session in slot s about request r.
Sent(s, r, of, user, age) ==
  answers' = {[ses_id |-> ses[s].id, asked |-> IF r \in DOMAIN asked THEN asked[r] ELSE Null,
               of |-> of, user |-> user, age |-> age]}

Quiet == answers' = {}

Error == <<"error", 0>>
------------------------------------------------------------------------------
(* Sessions.                                                                *)

on_upgrade(s) ==
  /\ ses[s].id = 0 /\ id_start <= MaxConns
  /\ ses' = [ses EXCEPT ![s] = [id |-> id_start, user |-> Null]]
  /\ id_start' = id_start + 1
  /\ Quiet
  /\ UNCHANGED <<entries, backend_cache, services, connected, asked, requests, faults>>

\* on_result: info->auth and info->user_id
login(s, user) ==
  /\ ses[s].id # 0 /\ ses[s].user # user
  /\ ses' = [ses EXCEPT ![s].user = user]
  /\ Quiet
  /\ UNCHANGED <<id_start, entries, backend_cache, services, connected, asked, requests, faults>>

\* The entries of open requests stay, with a pointer to the session.
on_close(s) ==
  /\ ses[s].id # 0
  /\ ses' = [ses EXCEPT ![s] = Free]
  /\ asked' = Without(asked, {r \in DOMAIN asked : asked[r].ses_id = ses[s].id})
  /\ Quiet
  /\ UNCHANGED <<id_start, entries, backend_cache, services, connected, requests, faults>>
------------------------------------------------------------------------------
(* A message of a client.                                                   *)

\* The checks of a handler that fail.
Fails(check, h, s, params) ==
  CASE check = "connected" -> h.backend \notin connected
    [] check = "auth"      -> ses[s].user = Null
    [] check = "params"    -> params = BadParams

\* Requests to matchengine and readhistory name the user who is logged in.
UserOf(h, s) == IF h.kept THEN Null ELSE ses[s].user

\* on_message, up to the handler
Asks(s, h, params) ==
  /\ ses[s].id # 0 /\ requests < MaxRequests
  /\ requests' = requests + 1
  /\ UNCHANGED <<server, dict_cache, replies, connected, faults>>

Asked(s, h, params) ==
  [ses_id |-> ses[s].id, of |-> <<h.command, params>>, user |-> UserOf(h, s), age |-> 0]

\* A check fails: send_error_internal_error, send_error_require_auth,
\* send_error_invalid_argument.
refused(s, h, params) ==
  /\ Asks(s, h, params)
  /\ \E i \in DOMAIN h.checks : Fails(h.checks[i], h, s, params)
  /\ answers' = {[ses_id |-> ses[s].id, asked |-> Asked(s, h, params),
                  of |-> Error, user |-> Null, age |-> 0]}
  /\ UNCHANGED <<entries, backend_cache, wire, asked>>

\* (variant) what is kept is never too old
Expired_Never(age, timeout) == FALSE

Expired(age, timeout) == age > timeout

\* process_cache of aw_server.c finds an answer.
from_cache(s, h, params) ==
  /\ Asks(s, h, params)
  /\ \A i \in DOMAIN h.checks : ~Fails(h.checks[i], h, s, params)
  /\ LET key == <<h.command, params>>
     IN  /\ h.kept /\ key \in DOMAIN backend_cache
         /\ ~Expired(backend_cache[key].age, CacheTimeout)
         /\ answers' = {[ses_id |-> ses[s].id, asked |-> Asked(s, h, params), of |-> key,
                         user |-> backend_cache[key].val.user, age |-> backend_cache[key].val.age]}
  /\ UNCHANGED <<entries, backend_cache, wire, asked>>

\* It does not, or forgets one that is too old, and the service is asked.  State
\* ids count up as the requests do.
forwarded(s, h, params) ==
  /\ Asks(s, h, params)
  /\ \A i \in DOMAIN h.checks : ~Fails(h.checks[i], h, s, params)
  /\ LET key == <<h.command, params>>
         id  == requests + 1
     IN  /\ ~(h.kept /\ key \in DOMAIN backend_cache
              /\ ~Expired(backend_cache[key].age, CacheTimeout))
         /\ backend_cache' = IF h.kept THEN Without(backend_cache, {key}) ELSE backend_cache
         /\ entries' = With(entries, id,
              [slot |-> s, ses_id |-> ses[s].id, request_id |-> id, left |-> BackendTimeout,
               cache_key |-> IF h.kept THEN key ELSE Null])
         /\ wire' = [wire EXCEPT ![h.backend] =
              Append(@, [sequence |-> id, of |-> key, user |-> UserOf(h, s)])]
         /\ asked' = With(asked, id, Asked(s, h, params))
  /\ Quiet
------------------------------------------------------------------------------
(* The services.                                                            *)

\* process_cache and add_cache of mp_server.c and me_server.c: the age of an answer.
\* Nothing is kept of a request that is refused.
Looked(b, key) ==
  IF key \in DOMAIN dict_cache[b] /\ ~Expired(dict_cache[b][key], ServiceTimeout)
  THEN dict_cache[b][key] ELSE 0

\* svr_on_recv_pkg.  An answer has the sequence number of its request.
svr_on_recv_pkg(b, i) ==
  /\ i \in DOMAIN wire[b] /\ (b # "readhistory" => i = 1)
  /\ LET pkg  == wire[b][i]
         bad  == pkg.of[2] = BadParams
         kept == ~bad /\ pkg.of[1] \in KeptByService
         age  == IF kept THEN Looked(b, pkg.of) ELSE 0
     IN  /\ wire' = [wire EXCEPT ![b] = RemoveAt(@, i)]
         /\ dict_cache' = IF kept THEN [dict_cache EXCEPT ![b] = With(@, pkg.of, age)]
                          ELSE dict_cache
         /\ replies' = IF b = "readhistory" /\ pkg.of[1] \in Unknown THEN replies
              ELSE [replies EXCEPT ![b] =
                      Append(@, [sequence |-> pkg.sequence, of |-> IF bad THEN Error ELSE pkg.of,
                                 user |-> pkg.user, age |-> age])]
  /\ Quiet
  /\ UNCHANGED <<server, entries, backend_cache, connected, asked, requests, faults>>

\* Other workers and other services ask, too.
asked_by_others(b, key) ==
  /\ key[1] \in KeptByService /\ Looked(b, key) = 0
  /\ dict_cache' = [dict_cache EXCEPT ![b] = With(@, key, 0)]
  /\ Quiet
  /\ UNCHANGED <<server, entries, backend_cache, connected, wire, replies, asked, requests, faults>>

\* on_cache_timer of the three processes
on_cache_timer ==
  /\ \/ backend_cache # <<>> /\ backend_cache' = <<>> /\ UNCHANGED dict_cache
     \/ \E b \in Backends : /\ dict_cache[b] # <<>>
                            /\ dict_cache' = [dict_cache EXCEPT ![b] = <<>>]
                            /\ UNCHANGED backend_cache
  /\ Quiet
  /\ UNCHANGED <<server, entries, connected, wire, replies, asked, requests, faults>>

\* A connection is lost, with what is on its way, and made again.
disconnect(b) ==
  /\ b \in connected /\ faults < MaxFaults
  /\ faults' = faults + 1
  /\ connected' = connected \ {b}
  /\ wire' = [wire EXCEPT ![b] = <<>>] /\ replies' = [replies EXCEPT ![b] = <<>>]
  /\ Quiet
  /\ UNCHANGED <<server, entries, backend_cache, dict_cache, asked, requests>>

on_backend_connect(b) ==
  /\ b \notin connected
  /\ connected' = connected \cup {b}
  /\ Quiet
  /\ UNCHANGED <<server, entries, backend_cache, services, asked, requests, faults>>
------------------------------------------------------------------------------
(* Answers and time.                                                        *)

\* (variant) an answer goes to whoever is in the memory of the session
SameSession_Always(e) == ses[e.slot].id # 0

SameSession(e) == ses[e.slot].id = e.ses_id

\* What is kept of an answer: its result, unless it has none.
Kept(e, reply) ==
  IF e.cache_key = Null \/ reply.of = Error THEN backend_cache
  ELSE With(backend_cache, e.cache_key,
            [age |-> 0, val |-> [of |-> reply.of, user |-> reply.user, age |-> reply.age]])

\* on_backend_recv_pkg: an entry may be gone, or the session, and then the answer is
\* kept all the same.
on_backend_recv_pkg(b) ==
  /\ replies[b] # <<>>
  /\ replies' = [replies EXCEPT ![b] = Tail(@)]
  /\ LET reply == Head(replies[b])
         id    == reply.sequence
     IN  IF id \notin DOMAIN entries THEN Quiet /\ UNCHANGED <<entries, backend_cache, asked>>
         ELSE LET e == entries[id]
              IN  /\ IF SameSession(e)
                     THEN /\ Sent(e.slot, e.request_id, reply.of, reply.user, reply.age)
                          /\ asked' = Without(asked, {e.request_id})
                     ELSE Quiet /\ UNCHANGED asked
                  /\ backend_cache' = Kept(e, reply)
                  /\ entries' = Without(entries, {id})
  /\ UNCHANGED <<server, dict_cache, wire, connected, requests, faults>>

\* (variant) a service that is too slow is not reported
on_timeout_Silent(id) ==
  /\ id \in DOMAIN entries /\ entries[id].left = 0
  /\ entries' = Without(entries, {id})
  /\ Quiet
  /\ UNCHANGED <<server, backend_cache, services, connected, asked, requests, faults>>

\* on_timeout: "service timeout"
on_timeout(id) ==
  /\ id \in DOMAIN entries /\ entries[id].left = 0
  /\ entries' = Without(entries, {id})
  /\ LET e == entries[id]
     IN  IF SameSession(e)
         THEN /\ Sent(e.slot, e.request_id, Error, Null, 0)
              /\ asked' = Without(asked, {e.request_id})
         ELSE Quiet /\ UNCHANGED asked
  /\ UNCHANGED <<server, backend_cache, services, connected, requests, faults>>

Older(age, limit) == IF age < limit THEN age + 1 ELSE limit

OlderAll(f) == [k \in DOMAIN f |-> [f[k] EXCEPT !.age = Older(@, Old)]]

\* Time passes; a timer that is due comes first.
tick ==
  /\ \A id \in DOMAIN entries : entries[id].left > 0
  /\ entries' = [id \in DOMAIN entries |-> [entries[id] EXCEPT !.left = @ - 1]]
  /\ backend_cache' = [k \in DOMAIN backend_cache |->
       [age |-> Older(backend_cache[k].age, CacheTimeout + 1),
        val |-> [backend_cache[k].val EXCEPT !.age = Older(@, Old)]]]
  /\ dict_cache' = [b \in Backends |-> [k \in DOMAIN dict_cache[b] |->
       Older(dict_cache[b][k], ServiceTimeout + 1)]]
  /\ replies' = [b \in Backends |-> OlderAll(replies[b])]
  /\ asked' = OlderAll(asked)
  /\ Quiet
  /\ UNCHANGED <<server, wire, connected, requests, faults>>
------------------------------------------------------------------------------
on_message(s, m, params) ==
  \/ refused(s, method_map[m], params)
  \/ from_cache(s, method_map[m], params)
  \/ forwarded(s, method_map[m], params)

Timers == tick \/ \E id \in DOMAIN entries : on_timeout(id)

Next ==
  \/ Timers \/ on_cache_timer
  \/ \E s \in Slots : \/ on_upgrade(s) \/ on_close(s)
                      \/ \E user \in Users : login(s, user)
                      \/ \E q \in Questions : on_message(s, q[1], q[2])
  \/ \E q \in Questions : LET h == method_map[q[1]]
                         IN  q[2] # BadParams /\ asked_by_others(h.backend, <<h.command, q[2]>>)
  \/ \E b \in Backends : \/ \E i \in DOMAIN wire[b] : svr_on_recv_pkg(b, i)
                         \/ on_backend_recv_pkg(b) \/ disconnect(b) \/ on_backend_connect(b)

Spec == Init /\ [][Next]_qvars

\* Time passes, and a timer that is due strikes.
FairSpec == Spec /\ WF_qvars(Timers)

------------------------------------------------------------------------------
(* What accessws owes a client that asks. *)

Known == {a \in answers : a.of # Error}

\* An answer goes to the connection a question came from that is still open, once,
\* and is about just that question and the user who was logged in when it was
\* asked: whoever gets the memory of the session, and whatever is kept.
Owned ==
  /\ \A a \in answers : a.asked # Null /\ a.asked.ses_id = a.ses_id
  /\ \A a \in Known : a.of = a.asked.of /\ a.user = a.asked.user

\* What is kept twice on its way is never older than both times and the time a
\* request may take; what is about a user was looked up after it was asked for.
Fresh ==
  \A a \in Known :
    /\ a.age <= CacheTimeout + ServiceTimeout + BackendTimeout
    /\ a.of[1] \notin KeptByService => a.age <= CacheTimeout + BackendTimeout
    /\ a.user # Null => a.age <= a.asked.age

AnswersRight == Owned /\ Fresh

\* Whoever asked is answered or leaves, though connections to services break and
\* readhistory does not answer everything: again and again nobody waits, as the number
\* of requests is bounded.
NoneWaits == asked = <<>>

QueriesAnswered == []<>NoneWaits
==============================================================================
