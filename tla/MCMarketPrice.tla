---------------------------- MODULE MCMarketPrice -----------------------------
(* Instances for TLC of marketprice, which makes the k-lines, and of the     *)
(* queries of clients, which ask for them.  The two share no state, so each  *)
(* behaviour is about one of them; the other one rests in its first state.   *)
EXTENDS MarketPriceProps

CONSTANTS
  Users, Slots, Null, BadParams,
  CacheTimeout, ServiceTimeout, BackendTimeout, MaxConns, MaxRequests, MaxLost

VARIABLES
  part,               \* what the behaviour is about
  ses, id_start, entries, backend_cache, dict_cache, connected, wire, replies,
  asked, answers, requests, lost

\* A public question, one about the user, which workers of readhistory answer in any
\* order, and one with parameters accessws refuses.
Questions == {<<"kline_query", 1>>, <<"order_history", 1>>, <<"order_history", BadParams>>}

Q == INSTANCE Queries WITH MaxFaults <- MaxLost, faults <- lost

qvars == <<ses, id_start, entries, backend_cache, dict_cache, connected, wire, replies,
           asked, answers, requests, lost>>

MCInit == Init /\ Q!Init /\ part \in {"marketprice", "queries"}

MarketPriceNext == part = "marketprice" /\ Next /\ UNCHANGED <<part, qvars>>
QueriesNext     == part = "queries" /\ Q!Next /\ UNCHANGED <<part, vars>>

Fairness ==
  LET OfMarketPrice(A) == part = "marketprice" /\ A
  IN  /\ WF_vars(OfMarketPrice(Fetch /\ Outside))
      /\ SF_vars(OfMarketPrice(Wake /\ Outside))
      /\ WF_vars(OfMarketPrice(FlushTimer))
      /\ WF_vars(OfMarketPrice(Handling))
      /\ WF_vars(OfMarketPrice(Start))
      /\ WF_qvars(part = "queries" /\ Q!Timers)

\* FairSpec of both
MCSpec == MCInit /\ [][MarketPriceNext \/ QueriesNext]_<<part, vars, qvars>> /\ Fairness

\* An answer is the one the deals give when it is made, and is given to whom asked for
\* it, in time.
AnswersRight == IF part = "marketprice" THEN AnswersExact ELSE Q!AnswersRight

\* The stored offset catches up with the topic, as EventuallyStored of
\* MarketPriceProps says; whoever asked is answered or leaves, as QueriesAnswered of
\* Queries says.
EventuallyServed == []<>(IF part = "marketprice" THEN Stored ELSE Q!NoneWaits)
==============================================================================
