----------------------------- MODULE OutboxProps -----------------------------
(***************************************************************************)
(* What the history database and Kafka may count on.                       *)
(***************************************************************************)
EXTENDS Reader

InDict   == {r \in mine : \E t \in Tables : r \in ToSet(dict_sql[t])}
InJob    == {r \in mine : \E i \in DOMAIN job : r \in ToSet(job[i])}
InThread == {r \in mine : \E sql \in busy : r \in ToSet(sql)}
InDb     == {r \in mine : r \in ToSet(db[r.table])}

\* While the process runs, every row a handler appended is on its way, at one place,
\* or stored, however often the database fails.  The exception are rows that
\* shared a statement with the row of an order that an earlier process stored
\* already, because it had given the same id out, or ended the same order, and
\* crashed before the log knew: all of them are refused, for good.
RowsKept ==
  /\ mine = InDict \cup InJob \cup InThread \cup InDb \cup refused
  /\ InDict \cap (InJob \cup InThread \cup InDb) = {}
  /\ InJob \cap (InThread \cup InDb) = {}
  /\ \A r \in refused : \E s \in refused, before \in ToSet(db[r.table]) \ mine :
       s.table = r.table /\ s.key = before.key /\ s.key # 0

StoredOf(kind, of, keep) ==
  {at \in UNION {{t} \X DOMAIN db[t] : t \in {t \in Tables : t[1] = kind}} :
     db[at[1]][at[2]].of = of /\ db[at[1]][at[2]].n \in keep}

\* Whoever pages through a history while no statement is under way, by the longest
\* pages and whatever the filter, sees every stored row of that user or order once
\* (twice if it was stored twice, because an answer was lost), and no other's.
HistoryShown ==
  busy = {} /\ job = <<>> =>
  \A kind \in Kinds \ {"detail"}, of \in Users, from \in 1..2 :
    LET limit   == QUERY_LIMIT
        keep    == from..rows
        all     == StoredOf(kind, of, keep)
        page(n) == Query(kind, of, keep, (n - 1) * limit, limit).records
        shown   == FlattenSeq([n \in 1..(Cardinality(all) \div limit + 1) |-> page(n)])
    IN  ToSet(shown) = {db[at[1]][at[2]] : at \in all} /\ Len(shown) = Cardinality(all)

\* No row of the history is lost on its way to the database or from there.
HistoryKept == RowsKept /\ HistoryShown

\* Each topic has the messages in the order of the events, and once: what Kafka has,
\* what the producer holds and what waits are, one after the other, the messages that
\* did not fail or die with a process.
InQueue(t) == {i \in DOMAIN queue : queue[i].topic = t}

MessagesInOrder ==
  \A t \in Topics :
    LET has   == ToSet(topic[t])
        holds == {queue[i].n : i \in InQueue(t)}
        waits == ToSet(waiting[t])
    IN  /\ has \cup holds \cup waits = (1..pushed[t]) \ gone[t]
        /\ \A i, j \in DOMAIN topic[t] : i < j => topic[t][i] < topic[t][j]
        /\ \A i, j \in InQueue(t) : i < j => queue[i].n < queue[j].n
        /\ \A i, j \in DOMAIN waiting[t] : i < j => waiting[t][i] < waiting[t][j]
        /\ \A m \in has, n \in holds : m < n
        /\ \A m \in has \cup holds, n \in waits : m < n

\* What may be waiting when a command is refused: the guard looks before the command,
\* and at the statements the timer has handed over, not at those it will.
MostRows     == MAX_PENDING_HISTORY - 1 + Cardinality(Tables)
MostMessages == MAX_PENDING_MESSAGE - 1 + 3

\* The queues towards the database and Kafka have a bound, as long as no command
\* without a guard is executed while they are full.
Backpressure ==
  ~forced => Len(job) <= MostRows /\ \A t \in Topics : Len(waiting[t]) <= MostMessages

\* What was appended does not lie about: once clients are silent everything is
\* stored or refused, unless the process ends.
OnItsWay == pc = "up" /\ InDict \cup InJob \cup InThread # {}

HistoryStored == OnItsWay ~> ~OnItsWay

------------------------------------------------------------------------------
(* An instance for TLC. *)

MCLoaded == <<1>>
==============================================================================
