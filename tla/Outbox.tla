------------------------------- MODULE Outbox --------------------------------
(***************************************************************************)
(* What matchengine tells the world of what it did: rows of the history    *)
(* database (me_history.c) and messages to Kafka (me_message.c), and the   *)
(* guard of the dispatcher (me_server.c) that refuses commands while too   *)
(* much of either waits.                                                   *)
(*                                                                         *)
(* A handler appends its rows to one INSERT statement per table, kept in   *)
(* dict_sql; a timer gives the statements to a pool of threads, which      *)
(* execute and repeat them.  A message goes to the producer of librdkafka, *)
(* or to a list if the producer's queue is full or others wait already.    *)
(*                                                                         *)
(* What a command does to accounts and books is the subject of Market and  *)
(* Spot.  Here an order is its id, its owner and whether it has dealt.     *)
(* The operation log is Operlog's: `saved` is what a restart brings back.  *)
(***************************************************************************)
EXTENDS Integers, FiniteSetsExt, SequencesExt

CONSTANTS
  Kinds,              \* the kinds of rows an instance follows; tables know nothing of each other
  Topics,             \* the topics it follows
  Users,              \* user ids
  HISTORY_HASH_NUM,   \* tables per kind of row
  history_thread,     \* threads of the pool
  MAX_PENDING_HISTORY,
  MAX_PENDING_MESSAGE,
  QueueMax,           \* what the producer of librdkafka holds
  LoadedOrders,       \* users whose orders the start loads, in the order of their ids
  MaxCommands,        \* bound on the commands executed
  MaxFaults,          \* bound on the failures of Kafka and lost answers of the database
  MaxRestarts         \* bound on crashes and stops

ASSUME OutboxAssumption ==
  /\ Kinds \subseteq {"balance", "order", "detail", "order_deal", "user_deal"}
  /\ Topics \subseteq {"balances", "orders", "deals", "positions"}
  /\ Users \subseteq Nat
  /\ HISTORY_HASH_NUM \in Nat \ {0} /\ history_thread \in Nat \ {0}
  /\ MAX_PENDING_HISTORY \in Nat \ {0} /\ MAX_PENDING_MESSAGE \in Nat \ {0}
  /\ QueueMax \in Nat \ {0}
  /\ LoadedOrders \in Seq(Users)
  /\ {MaxCommands, MaxFaults, MaxRestarts} \subseteq Nat

Tables == Kinds \X (0..(HISTORY_HASH_NUM - 1))

VARIABLES
  pc,                 \* "up", "stopping", "released" or "down"
  order_id_start,     \* last order id given
  book,               \* resting orders
  saved,              \* order_id_start and book as a restart finds them
  dict_sql,           \* per table the rows of the statement being put together
  job,                \* statements waiting for a thread
  busy,               \* statements threads are executing
  db,                 \* per table the rows that are stored, in order
  waiting,            \* list_balances, list_orders, list_deals, list_positions
  queue,              \* the producer's queue: topic and number of a message
  topic,              \* per topic the messages Kafka has
  commands,           \* number of commands executed
  faults,             \* number of faults
  restarts,           \* number of crashes and stops
  \* what the properties compare with
  rows,               \* number of rows appended so far
  mine,               \* rows appended by this process
  refused,            \* those of statements the database refused for good
  pushed,             \* per topic number of messages pushed
  gone,               \* per topic messages that failed or died with the process
  forced              \* a command without a guard was executed while blocked

engine  == <<order_id_start, book>>
history == <<dict_sql, job, busy, db, rows, mine, refused>>
message == <<waiting, queue, topic, pushed, gone>>
bounds  == <<commands, faults, restarts>>
vars    == <<pc, engine, saved, history, message, bounds, forced>>

Loaded ==
  [order_id_start |-> Len(LoadedOrders),
   book |-> {[id |-> i, user |-> LoadedOrders[i], dealt |-> FALSE] : i \in DOMAIN LoadedOrders}]

Init ==
  /\ pc = "up"
  /\ saved = Loaded /\ order_id_start = saved.order_id_start /\ book = saved.book
  /\ dict_sql = [t \in Tables |-> <<>>] /\ job = <<>> /\ busy = {}
  /\ db = [t \in Tables |-> <<>>]
  /\ waiting = [t \in Topics |-> <<>>] /\ queue = <<>> /\ topic = [t \in Topics |-> <<>>]
  /\ commands = 0 /\ faults = 0 /\ restarts = 0
  /\ rows = 0 /\ mine = {} /\ refused = {}
  /\ pushed = [t \in Topics |-> 0] /\ gone = [t \in Topics |-> {}]
  /\ forced = FALSE
------------------------------------------------------------------------------
(* Rows                                                                     *)

\* Rows of orders have the order's id as their key; the others get one from the
\* database.  `of` is the user or the order that they are about and hashed by.
Row(kind, of, key) == [table |-> <<kind, of % HISTORY_HASH_NUM>>, of |-> of, key |-> key]

append_user_balance(u)              == <<Row("balance", u, 0)>>
append_user_order(o)                == Row("order", o.user, o.id)
append_order_detail(o)              == Row("detail", o.id, o.id)
append_order_deal(o)                == Row("order_deal", o.id, 0)
append_user_deal(o)                 == Row("user_deal", o.user, 0)
append_order_history(o)             == <<append_user_order(o), append_order_detail(o)>>
append_order_deal_history(ask, bid) ==
  <<append_order_deal(ask), append_order_deal(bid), append_user_deal(ask), append_user_deal(bid)>>

\* An order that never dealt leaves no row when it ends.
Ended(o) == IF o.dealt THEN append_order_history(o) ELSE <<>>

Numbered(new) == [i \in DOMAIN new |-> [n |-> rows + i, table |-> new[i].table,
                                          of |-> new[i].of, key |-> new[i].key]]

OfTable(new, t) == FoldLeft(LAMBDA l, r : IF r.table = t THEN Append(l, r) ELSE l, <<>>, new)

\* get_sql, set_sql: each row goes to the end of the statement of its table.
Appended(new) ==
  /\ dict_sql' = [t \in Tables |-> dict_sql[t] \o OfTable(Numbered(new), t)]
  /\ rows' = rows + Len(new)
  /\ mine' = mine \cup {r \in ToSet(Numbered(new)) : r.table \in Tables}
  /\ UNCHANGED <<job, busy, db, refused>>
------------------------------------------------------------------------------
(* Messages                                                                 *)

\* (variant) a message may overtake those that wait
Produced_Overtakes(s, t) ==
  LET n == s.pushed[t] + 1
      more == [s EXCEPT !.pushed[t] = n]
  IN  IF Len(s.queue) >= QueueMax
      THEN [more EXCEPT !.waiting[t] = Append(@, n)]
      ELSE [more EXCEPT !.queue = Append(@, [topic |-> t, n |-> n])]

\* push_message, as a function of the state of the producer.
Produced(s, t) ==
  LET n == s.pushed[t] + 1
      more == [s EXCEPT !.pushed[t] = n]
  IN  IF s.waiting[t] # <<>> \/ Len(s.queue) >= QueueMax
      THEN [more EXCEPT !.waiting[t] = Append(@, n)]
      ELSE [more EXCEPT !.queue = Append(@, [topic |-> t, n |-> n])]

\* The messages of one handler, in their order, to the topics that are followed.
AllProduced(s, to) ==
  FoldLeft(LAMBDA p, t : IF t \in Topics THEN Produced(p, t) ELSE p, s, to)

push_messages(to) ==
  LET s == AllProduced([waiting |-> waiting, queue |-> queue, pushed |-> pushed], to)
  IN  /\ waiting' = s.waiting /\ queue' = s.queue /\ pushed' = s.pushed
      /\ UNCHANGED <<topic, gone>>
------------------------------------------------------------------------------
(* Commands                                                                 *)

\* (variant) one statement too many
is_history_block_OffByOne == Len(job) > MAX_PENDING_HISTORY

\* is_history_block counts the statements no thread has taken.
is_history_block == Len(job) >= MAX_PENDING_HISTORY

is_message_block == \E t \in Topics : Len(waiting[t]) >= MAX_PENDING_MESSAGE

\* What svr_on_recv_pkg asks before most commands that change something; the guard
\* by the operation log is Operlog's.
Guarded == ~is_history_block /\ ~is_message_block

Command(guarded) ==
  /\ pc = "up" /\ commands < MaxCommands
  /\ guarded => Guarded
  /\ forced' = (forced \/ ~Guarded)
  /\ commands' = commands + 1
  /\ UNCHANGED <<pc, saved, faults, restarts>>

\* on_cmd_balance_update
BalanceUpdate ==
  \E u \in Users :
    /\ Command(TRUE)
    /\ Appended(append_user_balance(u))
    /\ push_messages(<<"balances">>)
    /\ UNCHANGED engine

Order(u) == [id |-> order_id_start + 1, user |-> u, dealt |-> FALSE]

\* An order that meets no other rests.
Rests(u) ==
  /\ order_id_start' = order_id_start + 1
  /\ book' = book \cup {Order(u)}
  /\ Appended(<<>>)
  /\ push_messages(<<"orders">>)

\* What the two parties of a deal leave: the rows of the deal, of the accounts of a
\* spot deal (one for each party stands for what it gives, gets and pays), and of
\* the orders that are filled (`full`); an order that is not stays or comes to
\* rest.  Orders of market makers, which leave no rows, are left out.
DealRows(taker, maker, full, spot) ==
  append_order_deal_history(taker, maker)
  \o (IF spot THEN append_user_balance(taker.user) \o append_user_balance(maker.user) ELSE <<>>)
  \o (IF maker \in full THEN Ended(maker) ELSE <<>>)
  \o (IF taker \in full THEN Ended(taker) ELSE <<>>)

\* execute_order tells of the positions, the deal and both orders, and of a taker
\* that comes to rest again; the functions for spot orders of the deal, the maker
\* and at last the taker.
DealTopics(rests, spot) ==
  IF spot THEN <<"deals", "orders", "orders">>
  ELSE <<"positions", "positions", "deals", "orders", "orders">> \o (IF rests THEN <<"orders">> ELSE <<>>)

Deals(u, spot) ==
  \E m \in book :
    LET taker == [Order(u) EXCEPT !.dealt = TRUE]
        maker == [m EXCEPT !.dealt = TRUE]
    IN  \E full \in {{taker}, {maker}, {taker, maker}} :
          /\ order_id_start' = order_id_start + 1
          /\ book' = (book \ {m}) \cup ({taker, maker} \ full)
          /\ Appended(DealRows(taker, maker, full, spot))
          /\ push_messages(DealTopics(taker \notin full, spot))

\* on_cmd_order_put_limit, and the other commands that put spot orders
OrderPut  == \E u \in Users : Command(TRUE) /\ (Rests(u) \/ Deals(u, TRUE))

\* on_cmd_order_open, on_cmd_order_close: nothing is asked.
OrderOpen == \E u \in Users : Command(FALSE) /\ (Rests(u) \/ Deals(u, FALSE))

\* on_cmd_order_cancel
OrderCancel ==
  \E o \in book :
    /\ Command(TRUE)
    /\ book' = book \ {o}
    /\ Appended(Ended(o))
    /\ push_messages(<<"orders">>)
    /\ UNCHANGED order_id_start

\* on_cmd_push_deals: a deal that never was, of two orders that never were.
PushDeals ==
  /\ Command(FALSE)
  /\ order_id_start' = order_id_start + 2
  /\ Appended(<<>>)
  /\ push_messages(<<"deals">>)
  /\ UNCHANGED book

\* The log, or a slice, has everything up to here.
Saved ==
  /\ pc = "up"
  /\ saved' = [order_id_start |-> order_id_start, book |-> book]
  /\ UNCHANGED <<pc, engine, history, message, bounds, forced>>
------------------------------------------------------------------------------
(* The history threads                                                      *)

Statements == SetToSeq({t \in Tables : dict_sql[t] # <<>>})

\* on_timer of me_history.c; the order of the tables is that of a hash table.
flush_history ==
  /\ job' = job \o [i \in DOMAIN Statements |-> dict_sql[Statements[i]]]
  /\ dict_sql' = [t \in Tables |-> <<>>]

HistoryTimer ==
  /\ pc = "up" /\ Statements # <<>>
  /\ flush_history
  /\ UNCHANGED <<pc, engine, saved, busy, db, rows, mine, refused, message, bounds, forced>>

\* thread_routine of nw_job.c; JobPool has the way back of a job.
TakeJob ==
  /\ pc \in {"up", "stopping"}
  /\ Cardinality(busy) < history_thread /\ job # <<>>
  /\ busy' = busy \cup {Head(job)}
  /\ job' = Tail(job)
  /\ UNCHANGED <<pc, engine, saved, dict_sql, db, rows, mine, refused, message, bounds, forced>>

TableOf(sql) == Head(sql).table

\* The key of a row is there already: the statement fails with 1062.
Duplicate(sql) ==
  \E r \in ToSet(sql), s \in ToSet(db[TableOf(sql)]) : r.key # 0 /\ r.key = s.key

Stored(sql) == IF Duplicate(sql) THEN db ELSE [db EXCEPT ![TableOf(sql)] = @ \o sql]

\* (variant) after an error the statement is given up
on_job_GivesUp ==
  \E sql \in busy :
    /\ busy' = busy \ {sql}
    /\ db' \in {db, Stored(sql)}
    /\ refused' = refused \cup (IF Duplicate(sql) THEN ToSet(sql) \ ToSet(db[TableOf(sql)]) ELSE {})
    /\ UNCHANGED <<pc, engine, saved, dict_sql, job, rows, mine, message, bounds, forced>>

\* (variant) a row that is there already is an error like any other
on_job_Repeats ==
  \E sql \in busy :
    /\ ~Duplicate(sql)
    /\ busy' = busy \ {sql}
    /\ db' = Stored(sql)
    /\ UNCHANGED <<pc, engine, saved, dict_sql, job, rows, mine, refused, message, bounds, forced>>

\* on_job: a statement is repeated until the database has answered it, and 1062 is an
\* answer like success.
on_job ==
  \E sql \in busy :
    /\ busy' = busy \ {sql}
    /\ db' = Stored(sql)
    /\ refused' = refused \cup (IF Duplicate(sql) THEN ToSet(sql) \ ToSet(db[TableOf(sql)]) ELSE {})
    /\ UNCHANGED <<pc, engine, saved, dict_sql, job, rows, mine, message, bounds, forced>>

\* The database did it, but its answer was lost: the statement will be repeated.
AnswerLost ==
  \E sql \in busy :
    /\ faults < MaxFaults /\ faults' = faults + 1
    /\ db' = Stored(sql)
    /\ UNCHANGED <<pc, engine, saved, dict_sql, job, busy, rows, mine, refused, message,
                   commands, restarts, forced>>
------------------------------------------------------------------------------
(* The producer                                                             *)

\* produce_list: the head of a list is produced, while there is room.
ListStep(s, t) ==
  IF s.waiting[t] = <<>> \/ Len(s.queue) >= QueueMax THEN s
  ELSE [s EXCEPT !.queue = Append(@, [topic |-> t, n |-> Head(s.waiting[t])]),
                 !.waiting[t] = Tail(@)]

\* A list, until it is empty or the queue is full.
ListProduced(s, t) == FoldLeft(LAMBDA r, n : ListStep(r, t), s, s.waiting[t])

\* on_timer of me_message.c: the lists one after the other.
ListsProduced ==
  FoldLeft(LAMBDA r, t : IF t \in Topics THEN ListProduced(r, t) ELSE r,
           [waiting |-> waiting, queue |-> queue],
           <<"balances", "orders", "deals", "positions">>)

produce_lists == waiting' = ListsProduced.waiting /\ queue' = ListsProduced.queue

MessageTimer ==
  /\ pc = "up" /\ ListsProduced.queue # queue
  /\ produce_lists
  /\ UNCHANGED <<pc, engine, saved, history, topic, pushed, gone, bounds, forced>>

\* A message the producer will not take for another reason than a full queue is
\* only logged.  Here it is the head of a list; what push_message loses this way is
\* lost by on_delivery.
ProduceFails ==
  /\ pc = "up" /\ faults < MaxFaults /\ faults' = faults + 1
  /\ \E t \in Topics :
       /\ waiting[t] # <<>>
       /\ gone' = [gone EXCEPT ![t] = @ \cup {Head(waiting[t])}]
       /\ waiting' = [waiting EXCEPT ![t] = Tail(@)]
  /\ UNCHANGED <<pc, engine, saved, history, queue, topic, pushed, commands, restarts, forced>>

\* librdkafka delivers in order ...
Deliver ==
  /\ pc # "down" /\ queue # <<>>
  /\ topic' = [topic EXCEPT ![Head(queue).topic] = Append(@, Head(queue).n)]
  /\ queue' = Tail(queue)
  /\ UNCHANGED <<pc, engine, saved, history, waiting, pushed, gone, bounds, forced>>

\* ... or gives up, which on_delivery only logs.
on_delivery ==
  /\ pc # "down" /\ queue # <<>> /\ faults < MaxFaults /\ faults' = faults + 1
  /\ gone' = [gone EXCEPT ![Head(queue).topic] = @ \cup {Head(queue).n}]
  /\ queue' = Tail(queue)
  /\ UNCHANGED <<pc, engine, saved, history, waiting, topic, pushed, commands, restarts, forced>>
------------------------------------------------------------------------------
(* The end of the process, and the next one                                 *)

Undelivered(t) == ToSet(waiting[t]) \cup {q.n : q \in {r \in ToSet(queue) : r.topic = t}}

MessagesLost ==
  /\ gone' = [t \in Topics |-> gone[t] \cup Undelivered(t)]
  /\ waiting' = [t \in Topics |-> <<>>] /\ queue' = <<>>
  /\ UNCHANGED <<topic, pushed>>

\* fini_message flushes once and waits a second for the producer; fini_history
\* flushes and waits a tenth.
Stop ==
  /\ pc = "up" /\ restarts < MaxRestarts /\ restarts' = restarts + 1
  /\ pc' = "stopping"
  /\ produce_lists
  /\ flush_history
  /\ UNCHANGED <<engine, saved, busy, db, rows, mine, refused, topic, pushed, gone,
                 commands, faults, forced>>

\* nw_job_release: threads finish the statement they have and take no other.
Release ==
  /\ pc = "stopping"
  /\ pc' = "released"
  /\ MessagesLost
  /\ UNCHANGED <<engine, saved, history, bounds, forced>>

ProcessGone ==
  /\ pc' = "down"
  /\ dict_sql' = [t \in Tables |-> <<>>] /\ job' = <<>> /\ busy' = {}
  /\ mine' = {} /\ refused' = {}
  /\ UNCHANGED <<engine, saved, db, rows, forced>>

Exit ==
  /\ pc = "released" /\ busy = {}
  /\ ProcessGone
  /\ UNCHANGED <<message, bounds>>

\* A crash, or the command that ends the process without stopping it.  A
\* statement that was being executed is done or not.
Crash ==
  /\ pc \in {"up", "stopping", "released"} /\ restarts < MaxRestarts
  /\ restarts' = restarts + 1
  /\ ProcessGone
  /\ MessagesLost
  /\ UNCHANGED <<commands, faults>>

\* init_from_db, and then init_history and init_message with nothing in them: the
\* replay of commands tells nobody of them again.
Start ==
  /\ pc = "down"
  /\ pc' = "up"
  /\ order_id_start' = saved.order_id_start /\ book' = saved.book
  /\ UNCHANGED <<saved, history, message, bounds, forced>>

Commands == BalanceUpdate \/ OrderPut \/ OrderOpen \/ OrderCancel \/ PushDeals
Threads  == TakeJob \/ on_job \/ AnswerLost
Producer == MessageTimer \/ ProduceFails \/ Deliver \/ on_delivery
Process  == Saved \/ Stop \/ Release \/ Exit \/ Crash \/ Start

Next == Commands \/ HistoryTimer \/ Threads \/ Producer \/ Process

Spec == Init /\ [][Next]_vars

\* The loop runs its timers, threads run, the database answers in the end.
FairSpec == Spec /\ WF_vars(HistoryTimer) /\ WF_vars(TakeJob) /\ WF_vars(on_job)
==============================================================================
