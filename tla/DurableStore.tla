---------------------------- MODULE DurableStore -----------------------------
(***************************************************************************)
(* What the operation log and the slices promise of the balance updates:   *)
(* an update is first only in the memory of the process, later durable,    *)
(* and it becomes durable in the order it was accepted in.  A restart      *)
(* brings back the durable updates, all of them and nothing else.          *)
(***************************************************************************)
EXTENDS Naturals

VARIABLES
  live,               \* the updates the balances show
  durable,            \* the ones a restart would bring back
  last                \* number of the last update accepted

svars == <<live, durable, last>>

SInit == live = {} /\ durable = {} /\ last = 0

Accept ==
  /\ last' \in Nat /\ last' > last
  /\ live' = live \cup {last'}
  /\ UNCHANGED durable

\* The updates of d are live, and with each of them all accepted before it.
Initial(d, l) == d \subseteq l /\ \A s \in l \ d, t \in d : t < s

Persist ==
  /\ UNCHANGED <<live, last>>
  /\ durable \subseteq durable'
  /\ Initial(durable', live)

Restart == live' = durable /\ UNCHANGED <<durable, last>>

SSpec == SInit /\ [][Persist \/ Accept \/ Restart]_svars
==============================================================================
