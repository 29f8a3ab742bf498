---------------------------- MODULE AccessWsProps -----------------------------
(***************************************************************************)
(* What accessws owes a client that subscribed.                             *)
(***************************************************************************)
EXTENDS AccessWs

\* The lists of orders and assets say who is logged in as that user and subscribed,
\* no more and no less: through logins answered late and in any order, clients
\* that log in again as somebody else, subscriptions refused half-way, and
\* sessions whose memory the next connection gets.
SubscriptionsExact ==
  \A ch \in {"order", "asset"}, u \in Users :
    ToSet(dict_sub[ch][u]) =
      {[ses |-> s, topic |-> t] : s \in {s \in Slots : ses[s].user = u}, t \in Topics[ch] \cup {All}}
        \cap UNION {{[ses |-> s, topic |-> t] : t \in wants[s][ch]} : s \in Slots}

\* The session is in a list of somebody it is not logged in as.
Zombie(s, ch) ==
  \E u \in Users \ {ses[s].user} : \E i \in DOMAIN dict_sub[ch][u] : dict_sub[ch][u][i].ses = s

\* What will tell of the last change: the message about it, a message that will set off
\* a query, or a query sent after it.
Coming(ch, u, t) ==
  \/ \E m \in ToSet(kafka[ch]) :
       m.user = u /\ m.topic = t /\ (ch = "order" => m.version = version[ch][u][t])
  \/ \E q \in ToSet(queries[ch]) : q.user = u /\ q.topic = t /\ q.since = version[ch][u][t]
  \/ ch = "asset" /\ \E m \in ToSet(kafka["order"]) : m.user = u /\ t \in ToSet(Legs[m.topic])

\* A client that subscribed knows the last change, or a message or a query that will
\* tell of just that one is under way, or such a query was lost.  (With a zombie it is told of
\* another user's positions as if they were its own.)
NothingMissed ==
  \A s \in Slots, ch \in Channels : ses[s].user # None /\ ~Zombie(s, ch) =>
    \A t \in Topics[ch] :
      LET u == ses[s].user
      IN  Subscribed(s, ch, t) /\ copy[s][ch][t] # version[ch][u][t]
            => Coming(ch, u, t) \/ Key(ch, u, t) \in lost
==============================================================================
