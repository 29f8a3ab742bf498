------------------------------- MODULE Session -------------------------------
(***************************************************************************)
(* A session of the network library (nw_ses.c) with its buffers            *)
(* (nw_buf.c), at either end of one connection.  A byte is a pair: the     *)
(* number of the package it belongs to, and its place in it; what has been *)
(* given to nw_ses_send is kept in `sent`, so that a package can be found  *)
(* from its first byte, as its header tells its size.                      *)
(*                                                                         *)
(* Operators take the state of the connection as a record and return the   *)
(* next one, as handlers call each other: a decoded package calls back,    *)
(* the callback sends, sending may fail and close the session it was       *)
(* called from.                                                            *)
(***************************************************************************)
EXTENDS Integers, Sequences, SequencesExt

CONSTANTS
  HeadSize,           \* bytes of a package before its size is known
  BufSize,            \* max_pkg_size: bytes of a buffer
  BufLimit,           \* buf_limit: buffers a session may queue, 0: any number
  Kernel              \* bytes the socket takes before it has to be drained

ASSUME SessionAssumption ==
  /\ HeadSize \in Nat \ {0} /\ BufSize \in Nat \ {0} /\ BufLimit \in Nat /\ Kernel \in Nat \ {0}

Ends == {"clt", "svr"}
Other(e) == IF e = "clt" THEN "svr" ELSE "clt"

Lower(a, b) == IF a < b THEN a ELSE b

\* Op(x), where x is computed once for all its uses in Op.
With(x, Op(_)) == CHOOSE r \in {Op(y) : y \in {x}} : TRUE

Bytes(k, size) == [i \in 1..size |-> <<k, i>>]

\* nw_ses_init: nothing read, nothing to write, waiting to read
Fresh  == [open |-> TRUE, read_buf |-> <<>>, write_buf |-> <<>>, watch |-> "read"]
Closed == [open |-> FALSE, read_buf |-> <<>>, write_buf |-> <<>>, watch |-> "none"]
------------------------------------------------------------------------------
(* Buffers: what is left to write, and how far the buffer is used up.       *)

nw_buf_avail(buf) == BufSize - buf.wpos

nw_buf_write(buf, data) ==
  LET n == Lower(nw_buf_avail(buf), Len(data))
  IN  [data |-> buf.data \o SubSeq(data, 1, n), wpos |-> buf.wpos + n]

Empty == [data |-> <<>>, wpos |-> 0]

\* buffers that may still be added to the list
Spare(list, needed) == IF BufLimit = 0 THEN needed ELSE Lower(needed, BufLimit - Len(list))

\* (variant) the bytes that went into the last buffer are written again
nw_buf_list_write_Again(list, data) ==
  LET needed == (Len(data) + BufSize - 1) \div BufSize
      added  == Spare(list, needed)
      first  == IF list = <<>> THEN list ELSE Front(list) \o <<nw_buf_write(Last(list), data)>>
  IN  [ok   |-> added = needed,
       list |-> first \o [i \in 1..added |-> nw_buf_write(Empty, SubSeq(data, (i - 1) * BufSize + 1, Len(data)))]]

\* The rest of the last buffer is used first, then as many new ones as it takes
\* and the limit allows.
nw_buf_list_write(list, data) ==
  LET used   == IF list = <<>> THEN 0 ELSE Lower(nw_buf_avail(Last(list)), Len(data))
      left   == SubSeq(data, used + 1, Len(data))
      needed == (Len(left) + BufSize - 1) \div BufSize
      added  == Spare(list, needed)
  IN  [ok   |-> added = needed,
       list |-> (IF used = 0 THEN list ELSE Front(list) \o <<nw_buf_write(Last(list), data)>>)
                  \o [i \in 1..added |-> nw_buf_write(Empty, SubSeq(left, (i - 1) * BufSize + 1, Len(left)))]]

nw_buf_list_shift(list) == Tail(list)

\* A buffer of its own, for sockets that keep packets apart.
nw_buf_list_append(list, data) ==
  LET fits == Spare(list, 1) = 1 /\ Len(data) <= BufSize
  IN  [ok |-> fits, list |-> IF fits THEN Append(list, nw_buf_write(Empty, data)) ELSE list]
------------------------------------------------------------------------------
(* Writing                                                                  *)

Room(net, e) == Kernel - Len(net.wire[e])

\* What is known of a client goes with its session; `cut` is for the properties.
Freed(info) == [info EXCEPT !.upgrade = FALSE, !.message = <<>>, !.body = <<>>]

\* (variant) what could not be written yet stays
nw_ses_close_Keeps(net, e, cause) ==
  [net EXCEPT !.ses[e] = [Closed EXCEPT !.write_buf = net.ses[e].write_buf],
              !.why[e] = cause, !.wire[Other(e)] = <<>>,
              !.info = IF e = "svr" THEN Freed(@) ELSE @]

\* on_error and on_close of nw_svr.c and nw_clt.c end in nw_ses_close: nothing is
\* kept of what was read or is still to be written.  What is on its way to the
\* session is gone, what it has written is not.
nw_ses_close(net, e, cause) ==
  [net EXCEPT !.ses[e] = Closed, !.why[e] = cause, !.wire[Other(e)] = <<>>,
              !.info = IF e = "svr" THEN Freed(@) ELSE @]

\* What does not go out at once is queued, and the socket is watched until it can
\* be written to; when the queue is full the session is closed.
Queued(net, e, result) ==
  IF result.ok
  THEN [net EXCEPT !.ses[e].write_buf = result.list, !.ses[e].watch = "write"]
  ELSE nw_ses_close(net, e, "no send buf")

\* A byte stream takes as much as there is room for, a packet goes whole or not
\* at all.
Taken(net, e, data) ==
  IF net.sock = "stream" THEN Lower(Room(net, e), Len(data))
  ELSE IF Len(data) <= Room(net, e) THEN Len(data) ELSE 0

\* (variant) the queue is overtaken when there is room
nw_ses_send_Overtakes(net, e, pkg) ==
  LET k    == Len(net.sent[e]) + 1
      data == Bytes(k, pkg.size)
      now  == [net EXCEPT !.sent[e] = Append(@, pkg)]
      n    == Taken(net, e, data)
      gone == [now EXCEPT !.wire[e] = @ \o SubSeq(data, 1, n)]
  IN  IF ~net.ses[e].open THEN net
      ELSE IF n = Len(data) THEN gone
      ELSE Queued(gone, e, nw_buf_list_write(net.ses[e].write_buf, SubSeq(data, n + 1, Len(data))))

nw_ses_send(net, e, pkg) ==
  LET k    == Len(net.sent[e]) + 1
      data == Bytes(k, pkg.size)
      now  == [net EXCEPT !.sent[e] = Append(@, pkg)]
      put(list, bytes) == IF net.sock = "stream" THEN nw_buf_list_write(list, bytes)
                          ELSE nw_buf_list_append(list, bytes)
      n    == Taken(net, e, data)
      gone == [now EXCEPT !.wire[e] = @ \o SubSeq(data, 1, n)]
  IN  IF ~net.ses[e].open THEN net
      ELSE IF net.ses[e].write_buf # <<>> THEN Queued(now, e, put(net.ses[e].write_buf, data))
      ELSE IF n = Len(data) THEN gone
      ELSE Queued(gone, e, put(<<>>, SubSeq(data, n + 1, Len(data))))

\* nw_ses_send_fd goes past the queue.
nw_ses_send_fd(net, e, pkg) ==
  IF net.ses[e].open /\ pkg.size <= Room(net, e)
  THEN [net EXCEPT !.sent[e] = Append(@, pkg),
                   !.wire[e] = @ \o Bytes(Len(net.sent[e]) + 1, pkg.size)]
  ELSE net

\* One buffer of the queue.  A stream stops when the socket takes no more.  A packet
\* that the socket does not take is dropped: the result is compared as a number
\* without sign, so that -1 passes for the whole packet.
BufWritten(net, e) ==
  LET buf == Head(net.ses[e].write_buf)
      n   == Taken(net, e, buf.data)
      out == [net EXCEPT !.wire[e] = @ \o SubSeq(buf.data, 1, n)]
  IN  IF n < Len(buf.data) /\ net.sock = "stream"
      THEN [out EXCEPT !.ses[e].write_buf[1].data = SubSeq(@, n + 1, Len(@))]
      ELSE [out EXCEPT !.ses[e].write_buf = nw_buf_list_shift(@),
                       !.lost[e] = IF n < Len(buf.data) THEN @ \cup {buf.data[1][1]} ELSE @]

RECURSIVE Drained(_, _)
Drained(net, e) ==
  IF net.ses[e].write_buf = <<>> \/ (net.sock = "stream" /\ Room(net, e) = 0) THEN net
  ELSE With(BufWritten(net, e), LAMBDA next : Drained(next, e))

on_can_write(net, e) ==
  With(Drained(net, e),
       LAMBDA next : IF next.ses[e].write_buf = <<>> THEN [next EXCEPT !.ses[e].watch = "read"]
                     ELSE next)
==============================================================================
