------------------------------- MODULE Gateway --------------------------------
(***************************************************************************)
(* The way of a request through the services: a client's connection to a   *)
(* worker of accesshttp (ah_server.c), the worker's table of open requests *)
(* (nw_state.c), its connection to each backend (nw_clt.c, ut_rpc_clt.c),  *)
(* the backend's sessions (nw_svr.c, ut_rpc_svr.c), and, in readhistory    *)
(* (rh_server.c), the thread pool.                                         *)
(*                                                                         *)
(* A session is a piece of memory that the next connection may get when it *)
(* is released, and is told from its predecessors by its id.  Which free   *)
(* piece is taken is left open: the cache hands out the one released last. *)
(*                                                                         *)
(* `conns` and `requests` are history variables: connections are numbered, *)
(* a request knows the connection it came from, and what it was answered   *)
(* is noted with the connection the answer was written to.                 *)
(***************************************************************************)
EXTENDS JobPool

CONSTANTS
  Workers,            \* the processes of accesshttp
  Backends,           \* the services they forward to
  ReadHistory,        \* the one with a thread pool
  ClientSlots,        \* pieces of memory for sessions of clients
  Slots,              \* and, in a backend, of workers
  MaxPendingJob,      \* MAX_PENDING_JOB
  MaxConns,           \* bound on connections of clients
  MaxRequests,        \* bound on requests
  MaxFaults,          \* bound on faults
  Faults              \* the kinds of faults there are

ASSUME GatewayAssumption ==
  /\ ReadHistory \in Backends
  /\ MaxPendingJob \in Nat \ {0} /\ MaxConns \in Nat /\ MaxRequests \in Nat /\ MaxFaults \in Nat
  /\ Faults \subseteq {"cut", "refused", "silent", "socket", "worker", "backend"}

VARIABLES
  ses,                \* by worker and slot: id (0: free) and connection
  id_start,           \* by worker: nw_svr.id_start
  state,              \* by worker: the open requests, by sequence number
  state_start,        \* by worker: nw_state.id_start
  clt,                \* by worker and backend: the client, its timer, its link
  links,              \* the connections to backends: up, and what is under way
  rses,               \* by backend and slot: id (0: free) and link
  rid_start,          \* by backend: nw_svr.id_start
  conns,              \* history variable, see above
  requests,           \* history variable, see above
  faults              \* number of faults so far

vars == <<pool, ses, id_start, state, state_start, clt, links, rses, rid_start,
          conns, requests, faults>>

front == <<ses, id_start, state, state_start>>
back  == <<rses, rid_start, pool>>

Free == [id |-> 0, of |-> 0]

Fault(kind) == kind \in Faults /\ faults < MaxFaults /\ faults' = faults + 1

\* nw_svr_add_clt: the id of the next session, which is never 0
NextId(start) == IF start = 0 THEN 1 ELSE start

\* A client is closed, with or without a timer to start it again; or waits for
\* connect() with a timer; or is connected.
Closed(timer) == [st |-> "closed", timer |-> timer, link |-> 0]
Connecting    == [st |-> "connecting", timer |-> "watch", link |-> 0]

\* (variant) a client that was closed is not started again
reconnect_later_Never == Closed("none")

reconnect_later == Closed("reconnect")

\* nw_clt_start: socket() may fail, and then nothing else happens; connect() may
\* fail at once, and then on_connect and nw_clt_start both close the client and
\* set the timer; else one waits for the result.
Starts ==
  {Connecting} \cup (IF "socket" \in Faults THEN {Closed("none")} ELSE {})
               \cup (IF "refused" \in Faults THEN {reconnect_later} ELSE {})

nw_clt_start(w, b) == \E c \in Starts : clt' = [clt EXCEPT ![w][b] = c]

Init ==
  /\ NoJobs
  /\ ses = [w \in Workers |-> [s \in ClientSlots |-> Free]]
  /\ id_start = [w \in Workers |-> 0]
  /\ state = [w \in Workers |-> <<>>]
  /\ state_start = [w \in Workers |-> 0]
  /\ clt = [w \in Workers |-> [b \in Backends |-> Connecting]]
  /\ links = <<>>
  /\ rses = [b \in Backends |-> [s \in Slots |-> Free]]
  /\ rid_start = [b \in Backends |-> 0]
  /\ conns = 0
  /\ requests = <<>>
  /\ faults = 0
------------------------------------------------------------------------------
(* Clients and workers.                                                     *)

\* (variant) id_start is not counted on
Accept_SameId(w, s) ==
  /\ conns < MaxConns
  /\ ses[w][s].id = 0
  /\ conns' = conns + 1
  /\ ses' = [ses EXCEPT ![w][s] = [id |-> NextId(id_start[w]), of |-> conns']]
  /\ UNCHANGED <<id_start, state, state_start, clt, links, back, requests, faults>>

\* on_listener_recv_fd, nw_svr_add_clt_fd
Accept(w, s) ==
  /\ conns < MaxConns
  /\ ses[w][s].id = 0
  /\ conns' = conns + 1
  /\ ses' = [ses EXCEPT ![w][s] = [id |-> NextId(id_start[w]), of |-> conns']]
  /\ id_start' = [id_start EXCEPT ![w] = NextId(@) + 1]
  /\ UNCHANGED <<state, state_start, clt, links, back, requests, faults>>

\* nw_svr_close_clt: the peer closed, or was idle too long, or an error occured.
CloseClient(w, s) ==
  /\ ses[w][s].id # 0
  /\ ses' = [ses EXCEPT ![w][s] = Free]
  /\ UNCHANGED <<id_start, state, state_start, clt, links, back, conns, requests, faults>>

\* What a request is answered, `of` being the one whose result is sent, or 0.
Answer(w, s, of) == [to |-> ses[w][s].of, of |-> of]

\* on_http_request: the request cannot be read (400, and on_message_complete
\* closes the connection), its method is not known (404), or the backend is not
\* connected (500).
Refused(w, s) ==
  /\ ses[w][s].id # 0
  /\ Len(requests) < MaxRequests
  /\ requests' = Append(requests, [conn |-> ses[w][s].of, got |-> <<Answer(w, s, 0)>>])
  /\ \/ ses' = [ses EXCEPT ![w][s] = Free]
     \/ UNCHANGED ses
  /\ UNCHANGED <<id_start, state, state_start, clt, links, back, conns, faults>>

\* A package written to a link that is not up is lost.
Sent(n, way, pkg) ==
  [links EXCEPT ![n][way] = IF links[n].up THEN Append(@, pkg) ELSE @]

With(f, x, v) == [y \in DOMAIN f \cup {x} |-> IF y = x THEN v ELSE f[y]]
Without(f, x) == [y \in DOMAIN f \ {x} |-> f[y]]

\* on_http_request: an entry is made and the package is sent; whether that
\* succeeds is not looked at.
Request(w, s, b) ==
  /\ ses[w][s].id # 0
  /\ Len(requests) < MaxRequests
  /\ clt[w][b].st = "connected"
  /\ LET r   == Len(requests) + 1
         seq == state_start[w] + 1
     IN  /\ requests' = Append(requests, [conn |-> ses[w][s].of, got |-> <<>>])
         /\ state' = [state EXCEPT ![w] = With(@, seq, [ses |-> s, ses_id |-> ses[w][s].id,
                                                        req |-> r])]
         /\ state_start' = [state_start EXCEPT ![w] = seq]
         /\ links' = Sent(clt[w][b].link, "req", [seq |-> seq, of |-> r])
  /\ UNCHANGED <<ses, id_start, clt, back, conns, faults>>

\* (variant) whoever has the session now gets the answer
Respond_Anyone(w, info, of) ==
  requests' = IF ses[w][info.ses].id # 0
              THEN [requests EXCEPT ![info.req].got = Append(@, Answer(w, info.ses, of))]
              ELSE requests

\* Something is sent to the session of an entry if it is still the same one.
Respond(w, info, of) ==
  requests' = IF ses[w][info.ses].id = info.ses_id
              THEN [requests EXCEPT ![info.req].got = Append(@, Answer(w, info.ses, of))]
              ELSE requests

\* on_backend_recv_pkg
Reply(w, b) ==
  /\ clt[w][b].st = "connected"
  /\ LET n == clt[w][b].link
     IN  /\ links[n].rep # <<>>
         /\ links' = [links EXCEPT ![n].rep = Tail(@)]
         /\ LET pkg == Head(links[n].rep)
            IN  IF pkg.seq \in DOMAIN state[w]
                THEN /\ Respond(w, state[w][pkg.seq], pkg.of)
                     /\ state' = [state EXCEPT ![w] = Without(@, pkg.seq)]
                ELSE UNCHANGED <<state, requests>>
  /\ UNCHANGED <<ses, id_start, state_start, clt, back, conns, faults>>

\* (variant) the entry is removed without an answer
StateTimeout_Silent(w, seq) ==
  /\ seq \in DOMAIN state[w]
  /\ state' = [state EXCEPT ![w] = Without(@, seq)]
  /\ UNCHANGED <<ses, id_start, state_start, clt, links, back, conns, requests, faults>>

\* on_timeout, on_state_timeout
StateTimeout(w, seq) ==
  /\ seq \in DOMAIN state[w]
  /\ Respond(w, state[w][seq], 0)
  /\ state' = [state EXCEPT ![w] = Without(@, seq)]
  /\ UNCHANGED <<ses, id_start, state_start, clt, links, back, conns, faults>>
------------------------------------------------------------------------------
(* The connection of a worker to a backend.                                 *)

\* A connection breaks: its ends will notice, sooner or later, and may first
\* read what has arrived.
Cut(n) ==
  /\ Fault("cut")
  /\ links[n].up
  /\ links' = [links EXCEPT ![n].up = FALSE]
  /\ UNCHANGED <<front, clt, back, conns, requests>>

\* nw_ses_close at the worker's end
Hung(n) == [links EXCEPT ![n].up = FALSE, ![n].rep = <<>>]

\* on_connect, with success; the backend's on_accept, nw_svr_add_clt
Connected(w, b, s) ==
  /\ clt[w][b].st = "connecting"
  /\ rses[b][s].id = 0
  /\ links' = Append(links, [up |-> TRUE, req |-> <<>>, rep |-> <<>>])
  /\ clt' = [clt EXCEPT ![w][b] = [st |-> "connected", timer |-> "watch", link |-> Len(links')]]
  /\ rses' = [rses EXCEPT ![b][s] = [id |-> NextId(rid_start[b]), of |-> Len(links')]]
  /\ rid_start' = [rid_start EXCEPT ![b] = NextId(@) + 1]
  /\ UNCHANGED <<front, pool, conns, requests, faults>>

\* on_connect, with failure
ConnectFailed(w, b) ==
  /\ Fault("refused")
  /\ clt[w][b].st = "connecting"
  /\ clt' = [clt EXCEPT ![w][b] = reconnect_later]
  /\ UNCHANGED <<front, links, back, conns, requests>>

\* on_connect_timeout; it finds a client that connected in the meantime and
\* leaves it alone.
ConnectTimeout(w, b) ==
  /\ Fault("silent")
  /\ clt[w][b].timer = "watch" /\ clt[w][b].st = "connecting"
  /\ nw_clt_start(w, b)
  /\ UNCHANGED <<front, links, back, conns, requests>>

\* on_reconnect_timeout
ReconnectTimeout(w, b) ==
  /\ clt[w][b].timer = "reconnect"
  /\ nw_clt_start(w, b)
  /\ IF clt'[w][b].st = "connecting" THEN UNCHANGED faults
     ELSE faults < MaxFaults /\ faults' = faults + 1
  /\ UNCHANGED <<front, links, back, conns, requests>>

\* on_close, on_error
LinkClosed(w, b) ==
  /\ clt[w][b].st = "connected"
  /\ ~links[clt[w][b].link].up
  /\ clt' = [clt EXCEPT ![w][b] = reconnect_later]
  /\ links' = Hung(clt[w][b].link)
  /\ UNCHANGED <<front, back, conns, requests, faults>>

\* on_timer of ut_rpc_clt.c: no heartbeat was answered for too long.  The client
\* is closed and started without delay.
HeartbeatTimeout(w, b) ==
  /\ Fault("silent")
  /\ clt[w][b].st = "connected"
  /\ links' = Hung(clt[w][b].link)
  /\ nw_clt_start(w, b)
  /\ UNCHANGED <<front, back, conns, requests>>
------------------------------------------------------------------------------
(* Backends.                                                                *)

\* nw_svr_close_clt
CloseSession(b, s) ==
  /\ rses[b][s].id # 0
  /\ b = ReadHistory => ~reading
  /\ links' = [links EXCEPT ![rses[b][s].of].up = FALSE, ![rses[b][s].of].req = <<>>]
  /\ rses' = [rses EXCEPT ![b][s] = Free]
  /\ UNCHANGED <<front, clt, rid_start, pool, conns, requests>>

\* on_close, on_error
SessionClosed(b, s) == CloseSession(b, s) /\ ~links[rses[b][s].of].up /\ UNCHANGED faults

\* on_timer of ut_rpc_svr.c: there was no heartbeat for too long.
SessionSilent(b, s) == CloseSession(b, s) /\ Fault("silent")

\* The handlers of the match engine and of marketprice answer before they return.
Receive(b, s) ==
  /\ b # ReadHistory
  /\ rses[b][s].id # 0
  /\ LET n == rses[b][s].of
     IN  /\ links[n].req # <<>>
         /\ links' = [Sent(n, "rep", Head(links[n].req)) EXCEPT ![n].req = Tail(@)]
  /\ UNCHANGED <<front, clt, back, conns, requests, faults>>

\* svr_on_recv_pkg of readhistory: too many jobs wait, or one more is added.
ReceiveJob(s) ==
  /\ ~reading
  /\ rses[ReadHistory][s].id # 0
  /\ LET n   == rses[ReadHistory][s].of
         pkg == Head(links[n].req)
     IN  /\ links[n].req # <<>>
         /\ IF Len(request_list) >= MaxPendingJob * WorkerNum
            THEN /\ links' = [Sent(n, "rep", pkg) EXCEPT ![n].req = Tail(@)]
                 /\ UNCHANGED pool
            ELSE /\ links' = [links EXCEPT ![n].req = Tail(@)]
                 /\ nw_job_add([ses |-> s, ses_id |-> rses[ReadHistory][s].id, pkg |-> pkg])
  /\ UNCHANGED <<front, clt, rses, rid_start, conns, requests, faults>>

\* Threads and the wake-up of the main loop of readhistory.
Pool ==
  /\ \/ JobTake
     \/ \E job \in working : JobDone(job)
     \/ JobWake
     \/ JobDrained
  /\ UNCHANGED <<front, clt, links, rses, rid_start, conns, requests, faults>>

\* (variant) the session is not compared with the one that asked
FinishJob_Anyone ==
  /\ JobFinish
  /\ LET job == Head(reply_list)
         now == rses[ReadHistory][job.ses]
     IN  links' = IF now.id # 0 THEN Sent(now.of, "rep", job.pkg) ELSE links
  /\ UNCHANGED <<front, clt, rses, rid_start, conns, requests, faults>>

\* on_job_finish: no answer if the session has ended.
FinishJob ==
  /\ JobFinish
  /\ LET job == Head(reply_list)
         now == rses[ReadHistory][job.ses]
     IN  links' = IF now.id = job.ses_id THEN Sent(now.of, "rep", job.pkg) ELSE links
  /\ UNCHANGED <<front, clt, rses, rid_start, conns, requests, faults>>
------------------------------------------------------------------------------
(* Processes end and are started again.                                     *)

\* What becomes of the links of a process: nothing of it is read any more.
Abandoned(ns, way) ==
  [n \in DOMAIN links |-> IF n \in ns THEN [links[n] EXCEPT !.up = FALSE, ![way] = <<>>]
                          ELSE links[n]]

\* process_keepalive: a worker that crashed is forked anew.
WorkerRestart(w) ==
  /\ Fault("worker")
  /\ ses' = [ses EXCEPT ![w] = [s \in ClientSlots |-> Free]]
  /\ id_start' = [id_start EXCEPT ![w] = 0]
  /\ state' = [state EXCEPT ![w] = <<>>]
  /\ state_start' = [state_start EXCEPT ![w] = 0]
  /\ links' = Abandoned({clt[w][b].link : b \in Backends}, "rep")
  /\ clt' = [clt EXCEPT ![w] = [b \in Backends |-> Connecting]]
  /\ UNCHANGED <<back, conns, requests>>

BackendRestart(b) ==
  /\ Fault("backend")
  /\ rses' = [rses EXCEPT ![b] = [s \in Slots |-> Free]]
  /\ rid_start' = [rid_start EXCEPT ![b] = 0]
  /\ links' = Abandoned({rses[b][s].of : s \in Slots}, "req")
  /\ IF b = ReadHistory THEN AllJobsLost ELSE UNCHANGED pool
  /\ UNCHANGED <<front, clt, conns, requests>>
------------------------------------------------------------------------------
\* What the loop of a worker, of a backend, and the threads do by themselves.
WorkerStep(w) ==
  \/ \E b \in Backends : \/ Reply(w, b)
                         \/ \E s \in Slots : Connected(w, b, s)
                         \/ ReconnectTimeout(w, b)
                         \/ LinkClosed(w, b)
  \/ \E seq \in DOMAIN state[w] : StateTimeout(w, seq)

BackendStep ==
  \/ \E b \in Backends, s \in Slots : SessionClosed(b, s) \/ Receive(b, s)
  \/ \E s \in Slots : ReceiveJob(s)
  \/ FinishJob
  \/ Pool

\* What clients do, and what goes wrong.
Environment ==
  \/ \E w \in Workers, s \in ClientSlots : \/ Accept(w, s) \/ CloseClient(w, s) \/ Refused(w, s)
                                           \/ \E b \in Backends : Request(w, s, b)
  \/ \E w \in Workers, b \in Backends : \/ ConnectFailed(w, b) \/ ConnectTimeout(w, b)
                                        \/ HeartbeatTimeout(w, b)
  \/ \E n \in DOMAIN links : Cut(n)
  \/ \E w \in Workers : WorkerRestart(w)
  \/ \E b \in Backends : BackendRestart(b) \/ \E s \in Slots : SessionSilent(b, s)

Work == (\E w \in Workers : WorkerStep(w)) \/ BackendStep

Next == Work \/ Environment

Spec == Init /\ [][Next]_vars

\* The loops turn, the threads run and the timers fire: something that can be
\* done is done.  Work goes on for ever only if the environment goes on for ever,
\* so there is no need to be fair to every part of it.
FairSpec == Spec /\ WF_vars(Work)
==============================================================================
