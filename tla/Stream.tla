-------------------------------- MODULE Stream --------------------------------
(***************************************************************************)
(* One connection of each kind the services have, byte by byte: RPC        *)
(* between two services (ut_rpc.c, ut_rpc_svr.c, ut_rpc_clt.c), WebSocket  *)
(* (ut_ws_svr.c) and HTTP (ut_http_svr.c) with a client of some other make,*)
(* and the one over which a listener hands connections to a worker         *)
(* (aw_listener.c).  Session is what is below them.                        *)
(*                                                                         *)
(* `sent` and `got` are history variables: the packages that were given to *)
(* the session to send, and the messages that were handed to the           *)
(* application, as the numbers of the packages they came in.  So are       *)
(* `why`, the reason a session was closed for, and `lost`.                 *)
(***************************************************************************)
EXTENDS Session, FiniteSets, TLC

CONSTANTS
  Links,              \* connections to choose from: protocol, type of socket, packages
                      \* a client may send (a WebSocket after the handshake), sizes of
                      \* a server's without the head, bounds on what each end sends
  MaxConns            \* bound on connections

ASSUME StreamAssumption ==
  /\ \A l \in Links : /\ l.protocol \in {"rpc", "ws", "http", "listener"}
                       /\ l.sock \in {"stream", "packet"}
                       /\ \A pkg \in l.pkgs : pkg.size >= HeadSize
                       /\ l.bodies \subseteq Nat /\ l.most \in [Ends -> Nat]
  /\ MaxConns \in Nat

VARIABLES
  link,               \* what the connection is
  ses,                \* the sessions of both ends
  wire,               \* what the socket took from an end and the other has not read
  info,               \* privdata of the server's session
  sent, got, why, lost,  \* history variables, see above
  conns               \* number of connections so far

vars == <<link, ses, wire, info, sent, got, why, lost, conns>>

protocol == link.protocol

\* The server's view of a connection: whether it is a WebSocket by now, the frames of
\* the message so far, and what the parser has of a request: its body, and whether
\* a header came in two pieces.
FreshInfo == [upgrade |-> FALSE, message |-> <<>>, body |-> <<>>, cut |-> FALSE]

Both(x) == [e \in Ends |-> x]

Net == [sock |-> link.sock, luck |-> TRUE, ses |-> ses, wire |-> wire, info |-> info,
        sent |-> sent, got |-> got, why |-> why, lost |-> lost]

Becomes(next) == \E net \in {next} :
  /\ ses' = net.ses /\ wire' = net.wire /\ info' = net.info
  /\ sent' = net.sent /\ got' = net.got /\ why' = net.why /\ lost' = net.lost

Package(kind, body, fin, good) == [kind |-> kind, size |-> HeadSize + body, fin |-> fin, good |-> good]
Bare(kind) == Package(kind, 0, TRUE, TRUE)

Handed(net, e, message) == [net EXCEPT !.got[e] = Append(@, message)]
------------------------------------------------------------------------------
(* Decoding: the size of the first package in the buffer, 0 if more has to  *)
(* be read, less than 0 if it cannot be one.                                *)

\* The magic number is in the first bytes; the checksum covers the package.
rpc_decode(buf, from) ==
  LET k == buf[1][1]
  IN  IF Len(buf) < HeadSize THEN 0
      ELSE IF buf[1][2] # 1 THEN -1
      ELSE IF Len(buf) < from[k].size THEN 0
      ELSE IF SubSeq(buf, 1, from[k].size) # Bytes(k, from[k].size) THEN -3
      ELSE from[k].size

\* Until the handshake everything is the parser's; then come frames, which have no
\* checksum.
ws_decode_pkg(buf, from, upgrade) ==
  LET k == buf[1][1]
  IN  IF ~upgrade THEN Len(buf)
      ELSE IF Len(buf) < HeadSize THEN 0
      ELSE IF buf[1][2] # 1 \/ from[k].kind = "bad" THEN -1
      ELSE IF Len(buf) < from[k].size THEN 0
      ELSE from[k].size

http_decode_pkg(buf) == Len(buf)

decode_pkg(net, e) ==
  LET buf  == net.ses[e].read_buf
      from == net.sent[Other(e)]
  IN  IF e = "clt" \/ protocol \in {"rpc", "listener"} THEN rpc_decode(buf, from)
      ELSE IF protocol = "ws" THEN ws_decode_pkg(buf, from, net.info.upgrade)
      ELSE http_decode_pkg(buf)
------------------------------------------------------------------------------
(* Callbacks of the protocols                                               *)

on_heartbeat(net) == nw_ses_send(net, "svr", Bare("beat"))

rpc_svr_on_recv_pkg(net, k) ==
  IF net.sent.clt[k].kind = "heartbeat" THEN on_heartbeat(net) ELSE Handed(net, "svr", <<k>>)

rpc_clt_on_recv_pkg(net, k) ==
  IF net.sent.svr[k].kind = "beat" THEN net ELSE Handed(net, "clt", <<k>>)

\* A request the application refuses has a reply of its own and ends the connection.
on_request(net, k) ==
  IF net.sent.clt[k].good /\ net.info.body # <<>>
     /\ Len(net.info.body) = net.sent.clt[k].size - HeadSize
  THEN Handed(net, "svr", <<k>>)
  ELSE LET told == nw_ses_send(net, "svr", Bare("400"))
       IN  IF told.ses.svr.open THEN nw_ses_close(told, "svr", "refused") ELSE told

\* The handshake: what follows it in the buffer is not looked at.  A header that
\* came in two pieces may be the one that is missed, or not.
Upgraded(net, k) ==
  IF net.sent.clt[k].good /\ (net.info.cut => net.luck)
  THEN nw_ses_send([net EXCEPT !.info.upgrade = TRUE], "svr", Bare("101"))
  ELSE nw_ses_close(net, "svr", "refused")

on_message_complete(net, k) ==
  IF protocol = "ws" THEN Upgraded(net, k) ELSE on_request(net, k)

\* on_body keeps the last piece it was called with, and so does on_header_value.
on_body(body, piece) == IF piece # <<>> THEN piece ELSE body

Parsed(net, k, part) ==
  LET piece == SelectSeq(part, LAMBDA b : b[2] > HeadSize)
      head  == Len(part) - Len(piece)
      begun == part[1][2] = 1
  IN  [net EXCEPT !.info.body = on_body(IF begun THEN <<>> ELSE @, piece),
                  !.info.cut  = head \in 1..(HeadSize - 1) \/ (@ /\ ~begun)]

\* The requests, or parts of requests, in what was read.
http_parser_execute(net, data) ==
  LET first == data[1][1]
      last  == data[Len(data)][1]
      Part(k) == SelectSeq(data, LAMBDA b : b[1] = k)
      One(now, k) ==
        IF ~now.ses.svr.open \/ now.info.upgrade THEN now
        ELSE LET parsed == Parsed(now, k, Part(k))
             IN  IF Last(Part(k))[2] = now.sent.clt[k].size
                 THEN on_message_complete(parsed, k) ELSE parsed
  IN  FoldLeft(LAMBDA acc, k : With(acc, LAMBDA now : One(now, k)), net, [i \in 1..(last - first + 1) |-> first + i - 1])

\* (variant) a control frame ends the message
ws_on_recv_pkg_PingResets(net, data) ==
  LET k       == data[1][1]
      pkg     == net.sent.clt[k]
      message == Append(net.info.message, k)
  IN  IF ~net.info.upgrade THEN http_parser_execute(net, data)
      ELSE IF pkg.kind = "close" THEN nw_ses_close(net, "svr", "asked")
      ELSE IF pkg.kind = "ping"
           THEN nw_ses_send([net EXCEPT !.info.message = <<>>], "svr", Bare("pong"))
      ELSE IF pkg.kind = "pong" THEN net
      ELSE IF ~pkg.fin THEN [net EXCEPT !.info.message = message]
      ELSE IF ~pkg.good THEN nw_ses_close(net, "svr", "refused")
      ELSE Handed([net EXCEPT !.info.message = <<>>], "svr", message)

\* Frames make a message; control frames may come between them.
ws_on_recv_pkg(net, data) ==
  LET k       == data[1][1]
      pkg     == net.sent.clt[k]
      message == Append(net.info.message, k)
  IN  IF ~net.info.upgrade THEN http_parser_execute(net, data)
      ELSE IF pkg.kind = "close" THEN nw_ses_close(net, "svr", "asked")
      ELSE IF pkg.kind = "ping" THEN nw_ses_send(net, "svr", Bare("pong"))
      ELSE IF pkg.kind = "pong" THEN net
      ELSE IF ~pkg.fin THEN [net EXCEPT !.info.message = message]
      ELSE IF ~pkg.good THEN nw_ses_close(net, "svr", "refused")
      ELSE Handed([net EXCEPT !.info.message = <<>>], "svr", message)

on_recv_pkg(net, e, data) ==
  LET k == data[1][1]
  IN  IF e = "clt"
      THEN IF protocol \in {"rpc", "listener"} THEN rpc_clt_on_recv_pkg(net, k)
           ELSE Handed(net, e, <<k>>)
      ELSE CASE protocol = "ws"   -> ws_on_recv_pkg(net, data)
             [] protocol = "http" -> http_parser_execute(net, data)
             [] OTHER             -> rpc_svr_on_recv_pkg(net, k)
------------------------------------------------------------------------------
(* on_can_read                                                              *)

\* The packages of the buffer, one after the other, unless one of them closes the
\* session.
RECURSIVE Decoded(_, _)

\* (variant) a full buffer is read into
Decoded_Full(net, e) ==
  LET buf  == net.ses[e].read_buf
      size == decode_pkg(net, e)
      Left(next) == [next EXCEPT !.ses[e].read_buf = SubSeq(buf, size + 1, Len(buf))]
  IN  IF ~net.ses[e].open \/ buf = <<>> THEN net
      ELSE IF size < 0 THEN nw_ses_close(net, e, "decode")
      ELSE IF size > 0 THEN
        With(on_recv_pkg(net, e, SubSeq(buf, 1, size)),
             LAMBDA next : IF next.ses[e].open THEN With(Left(next), LAMBDA now : Decoded(now, e))
                           ELSE next)
      ELSE net

\* (variant) one package is handled each time something is read
Decoded_One(net, e) ==
  LET buf  == net.ses[e].read_buf
      size == decode_pkg(net, e)
  IN  IF ~net.ses[e].open \/ buf = <<>> THEN net
      ELSE IF size < 0 THEN nw_ses_close(net, e, "decode")
      ELSE IF size > 0 THEN
        With(on_recv_pkg(net, e, SubSeq(buf, 1, size)),
             LAMBDA next : IF next.ses[e].open
                           THEN [next EXCEPT !.ses[e].read_buf = SubSeq(buf, size + 1, Len(buf))]
                           ELSE next)
      ELSE IF Len(buf) = BufSize THEN nw_ses_close(net, e, "too big")
      ELSE net

Decoded(net, e) ==
  LET buf  == net.ses[e].read_buf
      size == decode_pkg(net, e)
      Left(next) == [next EXCEPT !.ses[e].read_buf = SubSeq(buf, size + 1, Len(buf))]
  IN  IF ~net.ses[e].open \/ buf = <<>> THEN net
      ELSE IF size < 0 THEN nw_ses_close(net, e, "decode")
      ELSE IF size > 0 THEN
        With(on_recv_pkg(net, e, SubSeq(buf, 1, size)),
             LAMBDA next : IF next.ses[e].open THEN With(Left(next), LAMBDA now : Decoded(now, e))
                           ELSE next)
      ELSE IF Len(buf) = BufSize THEN nw_ses_close(net, e, "too big")
      ELSE net

\* n bytes are read, and all packages that are whole now are handled.
on_can_read(net, e, n) ==
  LET from == Other(e)
      data == SubSeq(net.wire[from], 1, n)
      read == [net EXCEPT !.ses[e].read_buf = @ \o data,
                          !.wire[from] = SubSeq(@, n + 1, Len(@))]
  IN  With(read, LAMBDA now : Decoded(now, e))

\* a packet is read whole
FirstPacket(bytes) == Len(SelectSeq(bytes, LAMBDA b : b[1] = bytes[1][1]))

\* A connection to hand over comes beside the data.
on_recv_fd(net, k) ==
  Handed([net EXCEPT !.wire.svr = SelectSeq(@, LAMBDA b : b[1] # k)], "clt", <<k>>)

\* read() returns some of what there is, or nothing when the other end is gone, or
\* when there is no place to read to.
Read(e) ==
  LET from  == Other(e)
      avail == BufSize - Len(ses[e].read_buf)
      k     == wire[from][1][1]
  IN  /\ ses[e].open
      /\ \/ /\ wire[from] # <<>> /\ avail > 0 /\ link.sock = "stream"
            /\ \E n \in 1..Lower(avail, Len(wire[from])), luck \in BOOLEAN :
                 Becomes(on_can_read([Net EXCEPT !.luck = luck], e, n))
         \/ /\ wire[from] # <<>> /\ link.sock = "packet"
            /\ Becomes(IF sent[from][k].kind = "fd" THEN on_recv_fd(Net, k)
                       ELSE on_can_read(Net, e, FirstPacket(wire[from])))
         \/ /\ (wire[from] = <<>> /\ ~ses[from].open) \/ (avail = 0 /\ link.sock = "stream")
            /\ Becomes(nw_ses_close(Net, e, "eof"))
      /\ UNCHANGED <<link, conns>>

Write(e) ==
  /\ ses[e].open /\ ses[e].watch = "write" /\ Room(Net, e) > 0
  /\ Becomes(on_can_write(Net, e))
  /\ UNCHANGED <<link, conns>>
------------------------------------------------------------------------------
(* What the applications do                                                 *)

Send(e, pkg) ==
  /\ ses[e].open
  /\ Becomes(nw_ses_send(Net, e, pkg))
  /\ UNCHANGED <<link, conns>>

Sent(e, kinds) == {k \in DOMAIN sent[e] : sent[e][k].kind \in kinds}

\* What a client may send next; frames follow the answer to the handshake.
Offers ==
  IF protocol # "ws" \/ got.clt # <<>> THEN link.pkgs
  ELSE {Package("get", 0, TRUE, good) : good \in IF sent.clt = <<>> THEN BOOLEAN ELSE {}}

ClientSends ==
  /\ Len(sent.clt) < link.most.clt
  /\ \E pkg \in Offers : Send("clt", pkg)

\* send_heartbeat in on_timer of ut_rpc_clt.c
SendHeartbeat ==
  /\ protocol \in {"rpc", "listener"} /\ Len(sent.clt) < link.most.clt
  /\ Send("clt", Bare("heartbeat"))

\* An answer to a request that was handed to the application, at once or later.
Replies ==
  /\ protocol \in {"rpc", "http"}
  /\ Cardinality(Sent("svr", {"reply"})) < Lower(Len(got.svr), link.most.svr)
  /\ \E b \in link.bodies : Send("svr", Package("reply", b, TRUE, TRUE))

\* ws_send_text, to answer or to notify
send_text ==
  /\ protocol = "ws" /\ info.upgrade
  /\ Cardinality(Sent("svr", {"text"})) < link.most.svr
  /\ \E b \in link.bodies : Send("svr", Package("text", b, TRUE, TRUE))

\* listener_on_accept: the connection of a client is handed to the worker; if that
\* fails it is closed.
listener_on_accept ==
  /\ protocol = "listener" /\ ses.svr.open
  /\ Cardinality(Sent("svr", {"fd"})) < link.most.svr
  /\ Becomes(nw_ses_send_fd(Net, "svr", Bare("fd")))
  /\ UNCHANGED <<link, conns>>

\* on_timer of ut_ws_svr.c and ut_http_svr.c: idle too long; of ut_rpc_svr.c and
\* ut_rpc_clt.c: no heartbeat.  Or a client that leaves.
Leave(e) ==
  /\ ses[e].open
  /\ Becomes(nw_ses_close(Net, e, "left"))
  /\ UNCHANGED <<link, conns>>

\* The connection breaks, and takes with it what was not read yet.
Reset(e) ==
  /\ ses[e].open /\ ~ses[Other(e)].open
  /\ Becomes(nw_ses_close(Net, e, "error"))
  /\ UNCHANGED <<link, conns>>

\* nw_clt_start and nw_svr_add_clt: the client's session is used again, the server
\* has a new one.
Connect ==
  /\ \A e \in Ends : ~ses[e].open
  /\ conns < MaxConns /\ conns' = conns + 1
  /\ ses' = [clt |-> [ses.clt EXCEPT !.open = TRUE, !.watch = "read"], svr |-> Fresh]
  /\ wire' = Both(<<>>) /\ info' = FreshInfo
  /\ sent' = Both(<<>>) /\ got' = Both(<<>>) /\ why' = Both("") /\ lost' = Both({})
  /\ UNCHANGED link

Init ==
  /\ link \in Links
  /\ ses = Both(Closed) /\ wire = Both(<<>>) /\ info = FreshInfo
  /\ sent = Both(<<>>) /\ got = Both(<<>>) /\ why = Both("") /\ lost = Both({})
  /\ conns = 0

Loop == \E e \in Ends : Read(e) \/ Write(e)

Application == ClientSends \/ SendHeartbeat \/ Replies \/ send_text \/ listener_on_accept

Next == Loop \/ Application \/ (\E e \in Ends : Leave(e) \/ Reset(e)) \/ Connect

Spec == Init /\ [][Next]_vars

\* libev calls back as long as a socket is ready and watched; answers come.
FairSpec ==
  /\ Spec
  /\ \A e \in Ends : WF_vars(Read(e)) /\ WF_vars(Write(e))
==============================================================================
