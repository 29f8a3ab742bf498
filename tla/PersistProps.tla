---------------------------- MODULE PersistProps -----------------------------
(***************************************************************************)
(* What the operation log and the slices have to keep true.                *)
(***************************************************************************)
EXTENDS Persist, FiniteSetsExt

Updates(s) == {t \in s : requests[t].kind = "update"}

\* The operations that are not in the log yet, in the order they will get there.
Pending == busy \o FlattenSeq(job) \o list

\* Types, and the one order operations keep on their way into the log: those
\* pending in a process are numbered without a gap up to the last one.
PersistTypeOK ==
  /\ pc \in {"up", "stopping", "suicide", "down"}
  /\ mem.applied \subseteq DOMAIN requests
  /\ mem.seen \subseteq Business
  /\ DOMAIN log \subseteq 1..MaxRequests
  /\ \A id \in DOMAIN log : log[id] \in DOMAIN requests
  /\ \A i \in DOMAIN Pending : Pending[i].id = operlog_id_start - Len(Pending) + i
  /\ DOMAIN accounts \cup DOMAIN orders_of \subseteq 1..clock

\* The updates a restart brings back: those of the last slice, and those the log
\* holds after it.
Durable ==
  Updates({log[id] : id \in {i \in DOMAIN log : i > StartId}}
          \cup (IF HasSlice THEN accounts[LastSlice.time].applied ELSE {}))

\* Whenever the process ends, the next one can start: the last slice is whole,
\* the log has no gap after it, and no operation of it is refused; and the
\* start brings back the durable updates and no other.
LoadSucceeds ==
  /\ Readable
  /\ init_from_db.ok
  /\ Updates(init_from_db.mem.applied) = Durable

\* Both: what is in the log and the slices has its type and can be loaded.
PersistInv == PersistTypeOK /\ LoadSucceeds

\* The balance updates are the durable store of DurableStore: whatever is
\* flushed, repeated, sliced, dropped or stopped, and wherever it crashes, an
\* update that would have come back still does, and none comes back without
\* the ones accepted before it.
Store ==
  INSTANCE DurableStore WITH
    live    <- IF pc = "down" THEN Durable ELSE Updates(mem.applied),
    durable <- Durable,
    last    <- SelectLastInSeq(requests, LAMBDA r : r.kind = "update")

IsDurableStore == Store!SSpec

\* As long as the process runs, every update it accepted reaches the log or a
\* slice.
EventuallyDurable ==
  \A t \in 1..MaxRequests :
    (pc = "up" /\ t \in DOMAIN requests /\ t \in Updates(mem.applied))
      ~> (pc # "up" \/ t \in Durable)

\* Money and contracts that are set aside belong to an order of the books, also
\* after a restart.
FrozenHasOrder == pc = "up" => mem.frozen = mem.orders

==============================================================================
