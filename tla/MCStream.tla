------------------------------- MODULE MCStream -------------------------------
(* What buffers and protocols owe the applications at the ends, and an      *)
(* instance of the connections for TLC.                                     *)
EXTENDS Stream

ForApplication(e) ==
  IF e = "svr" THEN {"request", "post", "text"} ELSE {"reply", "text", "fd", "101", "pong", "400"}

\* The packages that are for the application, in the order they were sent in; the
\* ones the server's application has refused end the connection and are not for it.
Data(e) ==
  LET from == sent[Other(e)]
  IN  SelectSeq([k \in DOMAIN from |-> k],
                LAMBDA k : /\ from[k].kind \in ForApplication(e)
                           /\ k \notin lost[Other(e)])

\* They make messages: of frames, as many as it takes to the final one.
Messages(e) ==
  FoldLeft(LAMBDA acc, k :
             IF sent[Other(e)][k].fin
             THEN [whole |-> Append(acc.whole, Append(acc.part, k)), part |-> <<>>]
             ELSE [acc EXCEPT !.part = Append(@, k)],
           [whole |-> <<>>, part |-> <<>>], Data(e)).whole

\* What is handed to an application are the messages of the other end, whole, in
\* order, each once, and nothing else: however the bytes were cut on their way,
\* queued, and read, in whatever order sessions were closed and opened again.
MessagesExact == \A e \in Ends : IsPrefix(got[e], Messages(e))

\* A session is closed for a reason: by its application or the other end; for a
\* package that cannot be decoded, is refused or is too big, if one like that
\* was sent; or when its queue is full.
ClosedForCause ==
  \A e \in Ends :
    LET pkgs == {sent[Other(e)][k] : k \in DOMAIN sent[Other(e)]}
    IN  /\ why[e] = "eof"     => ~ses[Other(e)].open
        /\ why[e] = "decode"  => \E p \in pkgs : p.kind = "bad"
        /\ why[e] = "too big" => \E p \in pkgs : p.size > BufSize
        /\ why[e] = "refused" => \/ \E p \in pkgs : ~p.good
                                 \/ info.cut \/ protocol = "http"

\* Buffers are within their limits; a socket is watched for writing exactly while
\* there is something to write.
BuffersBounded ==
  \A e \in Ends :
    /\ Len(ses[e].read_buf) <= BufSize
    /\ BufLimit > 0 => Len(ses[e].write_buf) <= BufLimit
    /\ ses[e].open => (ses[e].watch = "write") = (ses[e].write_buf # <<>>)

\* The three together, of nw_ses.c, nw_buf.c and the servers and clients above them.
StreamInv == MessagesExact /\ ClosedForCause /\ BuffersBounded

\* While nobody closes the connection, all that was sent arrives: no byte stays in a
\* buffer of nw_ses.c whose socket is not watched, or behind a package that was read
\* with it.
Arrives == <>[](\A e \in Ends : ses[e].open /\ ses[Other(e)].open => got[e] = Messages(e))

------------------------------------------------------------------------------
Link(proto, sock, pkgs, bodies, clt, svr) ==
  [protocol |-> proto, sock |-> sock, pkgs |-> pkgs, bodies |-> bodies,
   most |-> [clt |-> clt, svr |-> svr]]

Requests(sizes) == {Package("request", n, TRUE, TRUE) : n \in sizes}
Posts  == {Package("post", n, TRUE, good) : n \in {1, 3}, good \in BOOLEAN}
Frames == {Package("text", 1, TRUE, good) : good \in BOOLEAN}
            \cup {Package("text", 3, TRUE, TRUE)} \cup {Bare(kind) : kind \in {"ping", "pong", "close", "bad"}}
Pieces == {Package("text", 0, fin, TRUE) : fin \in BOOLEAN} \cup {Bare("ping")}

MCLinks == {Link("rpc", "stream", Requests({1, 3}), {1, 3}, 2, 2),
            Link("rpc", "packet", Requests({0, 1}), {0, 1}, 2, 2),
            Link("listener", "packet", {}, {}, 2, 2),
            Link("http", "stream", Posts, {1}, 2, 2),
            Link("ws", "stream", Frames, {2}, 2, 3),
            Link("ws", "stream", Pieces, {}, 4, 0)}
==============================================================================
