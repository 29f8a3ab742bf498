------------------------------- MODULE Persist -------------------------------
(***************************************************************************)
(* Start, stop and crash of the match engine: what init_from_db makes of   *)
(* the slices and the operation log (me_persist.c, me_load.c), and how the *)
(* process ends (me_main.c, me_operlog.c, me_server.c).                    *)
(***************************************************************************)
EXTENDS Slices

CONSTANTS
  MaxRestarts,        \* bound on the starts of the process
  OrphanSlices,       \* does a slice process outlive the engine's process?
  Exits               \* the ways the process is asked to end

ASSUME PersistAssumption ==
  MaxRestarts \in Nat /\ OrphanSlices \in BOOLEAN /\ Exits \subseteq {"stop", "suicide"}

VARIABLES
  restarts            \* starts of the process after the first one

vars == <<requests, mem, operlog, pc, slices, restarts>>

\* load_orders looks for the market of an order in the column of its update
\* time, finds none and skips the row, whatever the table holds.
load_orders(rows) == {}

\* load_slice_from_db.  What was updated when is not part of a slice.
Loaded(t) ==
  [applied |-> accounts[t].applied, orders |-> load_orders(orders_of[t]),
   frozen |-> accounts[t].frozen, seen |-> {}]

\* get_last_slice: the row with the greatest id.
HasSlice  == DOMAIN history # {}
LastSlice == history[LastId]
StartId   == IF HasSlice THEN LastSlice.end ELSE 0

\* The ids load_operlog reads, in order.
ToReplay ==
  LET ids == {i \in DOMAIN log : i > StartId}
  IN  [i \in 1..Cardinality(ids) |-> StartId + i]

\* load_oper repeats a request; a balance update that was seen is an error.
Repeats(s, t) == requests[t].kind = "update" /\ requests[t].arg \in s.seen

load_oper(s, id) ==
  [ok  |-> s.ok /\ ~Repeats(s.mem, log[id]),
   mem |-> Apply(s.mem, log[id], requests[log[id]])]

\* init_from_db can read the tables of the last slice, and finds no gap between
\* the ids of the log.
Readable ==
  /\ HasSlice => /\ LastSlice.time \in DOMAIN accounts
                 /\ LastSlice.time \in DOMAIN orders_of
  /\ \A i \in DOMAIN ToReplay : ToReplay[i] \in DOMAIN log

\* init_from_db: the last slice and the operations after it.
init_from_db ==
  LET ids == ToReplay
      load[i \in 0..Len(ids)] ==
        IF i = 0
        THEN [ok |-> TRUE, mem |-> IF HasSlice THEN Loaded(LastSlice.time) ELSE Empty]
        ELSE load_oper(load[i - 1], ids[i])
  IN  load[Len(ids)]

Start ==
  /\ pc = "down"
  /\ restarts < MaxRestarts
  /\ Readable /\ init_from_db.ok
  /\ restarts' = restarts + 1
  /\ pc' = "up"
  /\ mem' = init_from_db.mem
  /\ operlog_id_start' = StartId + Len(ToReplay)
  /\ UNCHANGED <<requests, list, job, busy, log, slices>>

\* What is lost with the process.  Its slice processes go on by themselves,
\* unless the machine went down with it.
ProcessEnds ==
  /\ pc' = "down"
  /\ mem' = Empty
  /\ operlog_id_start' = 0
  /\ list' = <<>> /\ job' = <<>> /\ busy' = <<>>
  /\ children' = IF OrphanSlices THEN children ELSE {}
  /\ UNCHANGED <<requests, log, clock, accounts, orders_of, history, restarts>>

Crash == pc # "down" /\ ProcessEnds

\* SIGQUIT: the loop ends and fini_operlog flushes the list.
Stop ==
  /\ "stop" \in Exits
  /\ pc = "up"
  /\ pc' = "stopping"
  /\ IF list # <<>> THEN flush_log ELSE UNCHANGED <<list, job>>
  /\ UNCHANGED <<requests, mem, operlog_id_start, busy, log, slices, restarts>>

\* nw_job_release waits for the statement a thread is executing, but the thread
\* does not look at the queue again.
Stopped == pc = "stopping" /\ busy = <<>> /\ ProcessEnds

\* CMD_MATCHENGINE_SUICIDE: the loop sleeps for a second, so that the timer does
\* not flush the list any more; the job thread goes on.
Suicide ==
  /\ "suicide" \in Exits
  /\ pc = "up"
  /\ pc' = "suicide"
  /\ UNCHANGED <<requests, mem, operlog, slices, restarts>>

Dead == pc = "suicide" /\ ProcessEnds

\* on_timer of me_update.c forgets an update after a day; slices are taken more
\* often than that.
ForgetUpdate(b) ==
  /\ pc = "up"
  /\ b \in mem.seen
  /\ HasSlice
  /\ \A t \in mem.applied : requests[t] = Update(b) => t \in Loaded(LastSlice.time).applied
  /\ mem' = [mem EXCEPT !.seen = @ \ {b}]
  /\ UNCHANGED <<requests, operlog, pc, slices, restarts>>

Request ==
  /\ \/ \E b \in Business : BalanceUpdate(b)
     \/ OrderOpen
     \/ \E o \in mem.orders : OrderCancel(o)
  /\ UNCHANGED <<slices, restarts>>

Log == (FlushTimer \/ TakeJob \/ ExecuteJob) /\ UNCHANGED <<slices, restarts>>

Next ==
  \/ Request
  \/ Log
  \/ LoseAnswer /\ UNCHANGED <<slices, restarts>>
  \/ (MakeSlice \/ SliceStep) /\ UNCHANGED restarts
  \/ \E b \in Business : ForgetUpdate(b)
  \/ Stop \/ Stopped \/ Suicide \/ Dead \/ Crash \/ Start

Init ==
  /\ requests = <<>>
  /\ mem = Empty
  /\ operlog_id_start = 0
  /\ list = <<>> /\ job = <<>> /\ busy = <<>>
  /\ log = [i \in {} |-> 0]
  /\ pc = "up"
  /\ clock = 0
  /\ children = {}
  /\ accounts = [t \in {} |-> 0]
  /\ orders_of = [t \in {} |-> {}]
  /\ history = [id \in {} |-> 0]
  /\ restarts = 0

Spec == Init /\ [][Next]_vars

\* The timer fires and the job thread runs; statements succeed in the end.
FairSpec ==
  /\ Spec
  /\ WF_vars(FlushTimer /\ UNCHANGED <<slices, restarts>>)
  /\ WF_vars(TakeJob /\ UNCHANGED <<slices, restarts>>)
  /\ WF_vars(ExecuteJob /\ UNCHANGED <<slices, restarts>>)
==============================================================================
