----------------------------- MODULE GatewayProps -----------------------------
(***************************************************************************)
(* What the services owe a client that sent a request.                     *)
(***************************************************************************)
EXTENDS Gateway

Asked == DOMAIN requests

Package == [seq : Nat \ {0}, of : Asked]
Job     == [ses : Slots, ses_id : Nat \ {0}, pkg : Package]
Session == [id : Nat, of : Nat]

\* Types of the tables, the links and the pool.  Entries and jobs name sessions
\* that exist or have existed.
GatewayTypeOK ==
  /\ request_list \in Seq(Job) /\ reply_list \in Seq(Job) /\ working \subseteq Job
  /\ readable \in BOOLEAN /\ reading \in BOOLEAN
  /\ ses \in [Workers -> [ClientSlots -> Session]]
  /\ id_start \in [Workers -> Nat] /\ state_start \in [Workers -> Nat]
  /\ DOMAIN state = Workers
  /\ \A w \in Workers : \A seq \in DOMAIN state[w] :
       /\ seq \in 1..state_start[w]
       /\ state[w][seq] \in [ses : ClientSlots, ses_id : 1..id_start[w], req : Asked]
  /\ clt \in [Workers -> [Backends -> [st : {"closed", "connecting", "connected"},
                                      timer : {"none", "reconnect", "watch"},
                                      link : 0..Len(links)]]]
  /\ links \in Seq([up : BOOLEAN, req : Seq(Package), rep : Seq(Package)])
  /\ rses \in [Backends -> [Slots -> [id : Nat, of : 0..Len(links)]]]
  /\ rid_start \in [Backends -> Nat]
  /\ conns \in Nat /\ faults \in Nat
  /\ requests \in Seq([conn : 1..conns, got : Seq([to : 0..conns, of : 0..Len(requests)])])

\* A request is answered once, by its result, an error or the timer, and the
\* answer goes to the connection that asked: though sessions are pieces of memory
\* used over and over, numbers start again with each process, backends answer
\* late or twice, links break with packages under way, and jobs outlive the
\* sessions they came from.
AnswersAsker ==
  \A r \in Asked :
    /\ Len(requests[r].got) <= 1
    /\ \A i \in DOMAIN requests[r].got :
         /\ requests[r].got[i].to = requests[r].conn
         /\ requests[r].got[i].of \in {0, r}

\* The main loop cannot miss a job that is done: it will be woken up, or has not
\* returned from on_can_read yet.
Woken == reply_list # <<>> => readable \/ reading

\* The request has no answer, and the connection it came from is still there.
Waiting(r) ==
  /\ r \in Asked /\ requests[r].got = <<>>
  /\ \E w \in Workers, s \in ClientSlots : ses[w][s].id # 0 /\ ses[w][s].of = requests[r].conn

\* Whoever asks gets an answer, if only that there is none, or goes: whatever
\* backends and links do, the timer of the entry is there.
Answered == \A r \in 1..MaxRequests : Waiting(r) ~> ~Waiting(r)

\* "nw_clt : client implement, auto reconnect" (network/README.md:13): when nothing
\* goes wrong any more, workers are connected to all backends.
Reconnects == <>[](\A w \in Workers, b \in Backends : clt[w][b].st = "connected")
==============================================================================
