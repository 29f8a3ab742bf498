------------------------------- MODULE Slices --------------------------------
(***************************************************************************)
(* Slices, matchengine/src/me_persist.c and me_dump.c: a forked copy of    *)
(* the process writes what it holds to tables of its own timestamp, table  *)
(* after table, adds a row to slice_history, and then drops the slices     *)
(* that are too old.                                                       *)
(***************************************************************************)
EXTENDS Operlog

CONSTANTS
  MaxSlices,          \* bound on the slices begun
  MaxChildren,        \* bound on the slice processes at one time
  KeepTime,           \* settings.slice_keeptime, in slices
  InsertFails         \* may an INSERT of dump_balance fail?

ASSUME SlicesAssumption ==
  /\ MaxSlices \in Nat /\ MaxChildren \in Nat /\ KeepTime \in Nat
  /\ InsertFails \in BOOLEAN

VARIABLES
  clock,              \* timestamp of the last slice begun
  children,           \* the slice processes
  accounts,           \* tables slice_balance_<t>, slice_position_<t>, ...
  orders_of,          \* tables slice_order_<t>
  history             \* table slice_history: partial function from id to row

slices == <<clock, children, accounts, orders_of, history>>

Without(f, x) == [y \in DOMAIN f \ {x} |-> f[y]]
With(f, x, v) == [y \in DOMAIN f \cup {x} |-> IF y = x THEN v ELSE f[y]]

\* make_slice forks: the child holds a copy of the memory.
MakeSlice ==
  /\ pc = "up"
  /\ clock < MaxSlices
  /\ Cardinality(children) < MaxChildren
  /\ clock' = clock + 1
  /\ children' = children \cup
       {[time |-> clock + 1, mem |-> mem, end |-> operlog_id_start,
         step |-> "dump", todo |-> [id \in {} |-> 0]]}
  /\ UNCHANGED <<requests, mem, operlog, pc, accounts, orders_of, history>>

Continue(c, step) == children' = (children \ {c}) \cup {[c EXCEPT !.step = step]}
Exit(c)           == children' = children \ {c}

InSlice == UNCHANGED <<requests, mem, operlog, pc, clock>>

\* dump_balance_to_db, dump_order_to_db, ...: the tables of one slice.  Nobody
\* reads them before the row of slice_history is there, so writing them is one
\* step.  The result of an INSERT is compared with < 0, which mysql_real_query
\* never returns: one that fails leaves its table empty and is not noticed.
Written(c) == [applied |-> c.mem.applied, frozen |-> c.mem.frozen]
NotWritten == [applied |-> {}, frozen |-> {}]

DumpTables(c) ==
  /\ c.step = "dump"
  /\ \E rows \in {Written(c)} \cup (IF InsertFails THEN {NotWritten} ELSE {}) :
       accounts' = With(accounts, c.time, rows)
  /\ orders_of' = With(orders_of, c.time, c.mem.orders)
  /\ Continue(c, "history")
  /\ UNCHANGED history /\ InSlice

LastId == Max(DOMAIN history \cup {0})

\* (variant) the row names the last operation of the log, not of the snapshot
update_slice_history_Late(c) ==
  history' = With(history, LastId + 1, [time |-> c.time, end |-> operlog_id_start])

update_slice_history(c) ==
  history' = With(history, LastId + 1, [time |-> c.time, end |-> c.end])

DumpHistory(c) ==
  /\ c.step = "history"
  /\ update_slice_history(c)
  /\ Continue(c, "clear")
  /\ UNCHANGED <<accounts, orders_of>> /\ InSlice

\* A statement of dump_to_db fails: the child goes on to clear_slice.  So it
\* does when the row of slice_history is not written, which is not noticed.
DumpFails(c) ==
  /\ c.step \in {"dump", "history"}
  /\ Continue(c, "clear")
  /\ UNCHANGED <<accounts, orders_of, history>> /\ InSlice

IsRecent(c, h) == h.time + KeepTime >= c.time
IsOld(c, h)    == ~IsRecent(c, h)

\* (variant) old slices are dropped whether or not there is a recent one
HasRecent_Unasked(c) == TRUE

\* slice_count
HasRecent(c) == \E id \in DOMAIN history : IsRecent(c, history[id])

Drop(c, rows) ==
  children' = (children \ {c}) \cup {[c EXCEPT !.step = "drop_orders", !.todo = rows]}

\* clear_slice: without a recent slice nothing is dropped.
ClearSlice(c) ==
  /\ c.step = "clear"
  /\ LET old == {id \in DOMAIN history : IsOld(c, history[id])}
     IN  IF HasRecent(c) /\ old # {}
         THEN Drop(c, [id \in old |-> history[id]])
         ELSE Exit(c)
  /\ UNCHANGED <<accounts, orders_of, history>> /\ InSlice

\* delete_slice, for one old row after the other: it drops the two tables and then
\* deletes the row.  Dropping a table that is not there is an error, which ends
\* clear_slice.
Oldest(c) == Min(DOMAIN c.todo)

DropOrders(c) ==
  /\ c.step = "drop_orders"
  /\ LET t == c.todo[Oldest(c)].time
     IN  IF t \in DOMAIN orders_of
         THEN orders_of' = Without(orders_of, t) /\ Continue(c, "drop_accounts")
         ELSE Exit(c) /\ UNCHANGED orders_of
  /\ UNCHANGED <<accounts, history>> /\ InSlice

DropAccounts(c) ==
  /\ c.step = "drop_accounts"
  /\ LET t == c.todo[Oldest(c)].time
     IN  IF t \in DOMAIN accounts
         THEN accounts' = Without(accounts, t) /\ Continue(c, "delete_row")
         ELSE Exit(c) /\ UNCHANGED accounts
  /\ UNCHANGED <<orders_of, history>> /\ InSlice

DeleteRow(c) ==
  /\ c.step = "delete_row"
  /\ history' = Without(history, Oldest(c))
  /\ LET rows == Without(c.todo, Oldest(c))
     IN  IF DOMAIN rows = {} THEN Exit(c) ELSE Drop(c, rows)
  /\ UNCHANGED <<accounts, orders_of>> /\ InSlice

\* The child is killed, or a statement of clear_slice fails.
SliceDies(c) == Exit(c) /\ UNCHANGED <<accounts, orders_of, history>> /\ InSlice

SliceStep ==
  \E c \in children :
    \/ DumpTables(c) \/ DumpHistory(c) \/ DumpFails(c)
    \/ ClearSlice(c) \/ DropOrders(c) \/ DropAccounts(c) \/ DeleteRow(c)
    \/ SliceDies(c)
==============================================================================
