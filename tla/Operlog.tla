------------------------------- MODULE Operlog -------------------------------
(***************************************************************************)
(* The operation log of matchengine/src/me_operlog.c.  A request is        *)
(* executed, appended to a list and answered; a timer turns the list into  *)
(* one INSERT statement and gives it to a job thread (network/src/         *)
(* nw_job.c), which executes statements one by one and repeats what fails. *)
(*                                                                         *)
(* What a request does to the engine is the subject of module Market; here *)
(* the requests are told apart by what a restart makes of them.  Request   *)
(* number t of `requests` stands for itself: `applied` holds the requests  *)
(* whose effect the balances and positions show, `orders` the ones whose   *)
(* order is in the books, `frozen` the ones whose order's money or         *)
(* contracts are set aside.                                                *)
(***************************************************************************)
EXTENDS Naturals, SequencesExt

CONSTANTS
  Business,           \* keys of balance updates: user, asset, business, business_id
  MaxRequests,        \* bound on the requests executed
  MaxPending          \* MAX_PENDING_OPERLOG

ASSUME OperlogAssumption == MaxRequests \in Nat /\ MaxPending \in Nat \ {0}

VARIABLES
  requests,           \* what clients sent and the engine executed, in order
  mem,                \* state of the engine's process
  operlog_id_start,   \* last id given to an operation
  list,               \* operations not yet given to the job thread
  job,                \* request queue of the job thread: one list per INSERT
  busy,               \* the INSERT the job thread is executing, or <<>>
  log,                \* table operlog: partial function from id to request
  pc                  \* "up", "stopping", "suicide" or "down"

operlog == <<operlog_id_start, list, job, busy, log>>

Update(b) == [kind |-> "update", arg |-> b]   \* balance.update
Open      == [kind |-> "open",   arg |-> 0]   \* an order that rests in the book
Cancel(o) == [kind |-> "cancel", arg |-> o]   \* order.cancel

Empty == [applied |-> {}, orders |-> {}, frozen |-> {}, seen |-> {}]

\* What executing request t does to the engine.  A cancel whose order is not
\* there does nothing.
Apply(s, t, r) ==
  IF r.kind = "cancel" /\ r.arg \notin s.orders THEN s
  ELSE [applied |-> s.applied \cup {t},
        orders  |-> IF r.kind = "open" THEN s.orders \cup {t} ELSE s.orders \ {r.arg},
        frozen  |-> IF r.kind = "open" THEN s.frozen \cup {t} ELSE s.frozen \ {r.arg},
        seen    |-> IF r.kind = "update" THEN s.seen \cup {r.arg} ELSE s.seen]

\* is_operlog_block
is_operlog_block == Len(job) >= MaxPending

\* append_operlog
append_operlog(t) ==
  /\ operlog_id_start' = operlog_id_start + 1
  /\ list' = Append(list, [id |-> operlog_id_start + 1, request |-> t])

\* Execute a request and answer it.
Executed(r) ==
  /\ pc = "up"
  /\ Len(requests) < MaxRequests
  /\ requests' = Append(requests, r)
  /\ mem' = Apply(mem, Len(requests) + 1, r)
  /\ UNCHANGED <<job, busy, log, pc>>

\* on_cmd_balance_update: a repeated update is refused.
BalanceUpdate(b) ==
  /\ ~is_operlog_block
  /\ b \notin mem.seen
  /\ Executed(Update(b))
  /\ append_operlog(Len(requests) + 1)

\* on_cmd_order_open asks nothing of the queues.
OrderOpen == Executed(Open) /\ append_operlog(Len(requests) + 1)

\* on_cmd_order_cancel
OrderCancel(o) ==
  /\ ~is_operlog_block
  /\ o \in mem.orders
  /\ Executed(Cancel(o))
  /\ append_operlog(Len(requests) + 1)

\* (variant) the last operation of the list is left out
flush_log_DropsLast == /\ job' = Append(job, Front(list))
                       /\ list' = <<>>

\* flush_log: the list becomes one INSERT.
flush_log == /\ job' = Append(job, list)
             /\ list' = <<>>

\* on_timer of me_operlog.c
FlushTimer ==
  /\ pc = "up"
  /\ list # <<>>
  /\ flush_log
  /\ UNCHANGED <<requests, mem, operlog_id_start, busy, log, pc>>

\* thread_routine takes the first request of the queue; the threads run until
\* the job is released.
TakeJob ==
  /\ pc # "down"
  /\ busy = <<>> /\ job # <<>>
  /\ busy' = Head(job) /\ job' = Tail(job)
  /\ UNCHANGED <<requests, mem, operlog_id_start, list, log, pc>>

\* One INSERT writes all its rows or none; an id that is there already makes it
\* fail with 1062.
Ids(rows) == {rows[i].id : i \in DOMAIN rows}

Inserted(rows) ==
  IF Ids(rows) \cap DOMAIN log # {} THEN log
  ELSE [id \in DOMAIN log \cup Ids(rows) |->
          IF id \in DOMAIN log THEN log[id]
          ELSE (CHOOSE r \in ToSet(rows) : r.id = id).request]

\* on_job: the statement is executed, and the thread learns of it (1062 counts
\* as success) ...
ExecuteJob ==
  /\ busy # <<>>
  /\ log' = Inserted(busy)
  /\ busy' = <<>>
  /\ UNCHANGED <<requests, mem, operlog_id_start, list, job, pc>>

\* ... or it is executed but the answer is lost, and the thread repeats it.
LoseAnswer ==
  /\ busy # <<>>
  /\ log' = Inserted(busy)
  /\ UNCHANGED <<requests, mem, operlog_id_start, list, job, busy, pc>>
==============================================================================
