------------------------------ MODULE FeedProps -------------------------------
(***************************************************************************)
(* What clients have that subscribed to a topic.                            *)
(***************************************************************************)
EXTENDS Feed

\* Those a topic tells: who was told to be subscribed, without those an error took out,
\* and those who were refused half-way.
Served == (wants \ dropped) \cup halfway

\* A topic tells who is subscribed and nobody else, but for sessions it was made to
\* forget, could not, or was refused and kept (the handlers of subscribe and
\* unsubscribe, on_close, on_backend_recv_pkg).
SessionsExact == Sessions = Served \cup zombies /\ wants \cap halfway = {}

\* The newest a client has, the entry has, and there is; of deals the last one, if any.
Latest(s) == IF kind # "deals" \/ copy[s] = <<>> THEN copy[s] ELSE <<Last(copy[s])>>
Known     == IF kind # "deals" \/ entry.last = <<>> THEN entry.last ELSE <<Head(entry.last)>>
Current   == CASE kind = "depth" -> Top(source)
               [] kind = "deals" -> IF source = 0 THEN <<>> ELSE <<source>>
               [] OTHER          -> source

\* Who was not sent what there was and has heard of nothing since: a k-line is not sent to
\* who subscribes, and nothing to who was refused half-way.
Untold(s) == copy[s] = NoLast /\ (kind = "kline" \/ s \in halfway)

\* A client's view is the last answer: whenever it subscribed, and whether it was
\* sent the whole or differences, a level at the end of a depth included; and
\* who is untold gets there with the first thing it is sent.
CopyRight(s) == Untold(s) \/ Latest(s) = Known

CopyIsLast == \A s \in Served : CopyRight(s)

\* If polls do not overlap, a client gets deals in order and none twice, and all of
\* them if there are no more at a time than an answer holds.
DealsOnce ==
  kind = "deals" /\ ~overlapped =>
    \A s \in Served : \A i \in 1..(Len(copy[s]) - 1) :
      /\ copy[s][i] < copy[s][i + 1]
      /\ ~cut => copy[s][i + 1] = copy[s][i] + 1

\* What clients hold, of every kind of topic.
CopiesRight == CopyIsLast /\ DealsOnce

\* A client has not what there is, and is to be sent it: who is untold waits for
\* something the entry has not got yet.
Behind(s) ==
  /\ s \in Served /\ Latest(s) # Current
  /\ Untold(s) => Known # Current

\* Whoever is subscribed catches up with the backend, though answers get lost; the
\* untold do with the next change (on_timer, on_backend_recv_pkg).
CatchesUp == \A s \in Slots : Behind(s) ~> ~Behind(s)
==============================================================================
