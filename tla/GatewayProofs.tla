----------------------------- MODULE GatewayProofs ----------------------------
(***************************************************************************)
(* Proofs that answers go to those who asked, and that no finished job is  *)
(* overlooked.                                                              *)
(***************************************************************************)
EXTENDS GatewayProps, SequenceTheorems, TLAPS

(* The inductive invariant, in three parts: the worker's side, the links with *)
(* the sessions at their other end, and the jobs.                            *)

FrontType ==
  /\ ses \in [Workers -> [ClientSlots -> Session]]
  /\ id_start \in [Workers -> Nat] /\ state_start \in [Workers -> Nat]
  /\ DOMAIN state = Workers
  /\ \A w \in Workers : \A seq \in DOMAIN state[w] :
       /\ seq \in 1..state_start[w]
       /\ state[w][seq] \in [ses : ClientSlots, ses_id : 1..id_start[w], req : Asked]
  /\ conns \in Nat
  /\ requests \in Seq([conn : 1..conns, got : Seq([to : 0..conns, of : 0..Len(requests)])])

LinkType ==
  /\ clt \in [Workers -> [Backends -> [st : {"closed", "connecting", "connected"},
                                      timer : {"none", "reconnect", "watch"},
                                      link : 0..Len(links)]]]
  /\ links \in Seq([up : BOOLEAN, req : Seq(Package), rep : Seq(Package)])
  /\ rses \in [Backends -> [Slots -> [id : Nat, of : 0..Len(links)]]]
  /\ rid_start \in [Backends -> Nat]

PoolType ==
  /\ request_list \in Seq(Job) /\ reply_list \in Seq(Job) /\ working \subseteq Job
  /\ readable \in BOOLEAN /\ reading \in BOOLEAN

\* Sessions have numbers that were counted, and connections.
SessionsOK ==
  \A w \in Workers, s \in ClientSlots :
    ses[w][s].id # 0 => ses[w][s].id < id_start[w] /\ ses[w][s].of \in 1..conns

\* An entry is for a request that has no answer, and for one connection: while its
\* session is still the same, it is the one that asked.
EntriesOK ==
  \A w \in Workers : \A seq \in DOMAIN state[w] :
    LET e == state[w][seq]
    IN  /\ e.ses_id < id_start[w]
        /\ requests[e.req].got = <<>>
        /\ ses[w][e.ses].id = e.ses_id => ses[w][e.ses].of = requests[e.req].conn

\* No request has two entries.
EntriesDistinct ==
  \A v \in Workers, w \in Workers : \A p \in DOMAIN state[v], q \in DOMAIN state[w] :
    state[v][p].req = state[w][q].req => v = w /\ p = q

FrontInv == FrontType /\ SessionsOK /\ EntriesOK /\ EntriesDistinct /\ AnswersAsker

Owns(w, b, n) == clt[w][b].st = "connected" /\ clt[w][b].link = n

\* A package may go to this worker: if its number is that of an entry, it is about
\* the request of the entry.
Genuine(w, pkg) ==
  /\ pkg.seq <= state_start[w]
  /\ pkg.seq \in DOMAIN state[w] => state[w][pkg.seq].req = pkg.of

\* The packages on a link, both ways.
Carried(link) == Range(link.req) \cup Range(link.rep)

LinksOK ==
  /\ \A w \in Workers, b \in Backends :
       clt[w][b].st = "connected" => clt[w][b].link \in 1..Len(links)
  /\ \A b \in Backends, s \in Slots :
       rses[b][s].id # 0 => rses[b][s].id < rid_start[b] /\ rses[b][s].of \in 1..Len(links)
  /\ \A n \in 1..Len(links), v \in Workers, w \in Workers, b \in Backends, c \in Backends :
       Owns(v, b, n) /\ Owns(w, c, n) => v = w /\ b = c

CarriedOK ==
  \A n \in 1..Len(links), w \in Workers, b \in Backends :
    Owns(w, b, n) => \A pkg \in Carried(links[n]) : Genuine(w, pkg)

LinkInv == LinkType /\ LinksOK /\ CarriedOK

Jobs == Range(request_list) \cup working \cup Range(reply_list)

\* A job whose session is still the same may be answered to whoever is at the
\* other end.
JobsOK ==
  \A job \in Jobs :
    /\ job.ses_id < rid_start[ReadHistory]
    /\ rses[ReadHistory][job.ses].id = job.ses_id =>
         \A w \in Workers, b \in Backends :
           Owns(w, b, rses[ReadHistory][job.ses].of) => Genuine(w, job.pkg)

JobInv == PoolType /\ JobsOK /\ Woken

GatewayInv == FrontInv /\ LinkInv /\ JobInv /\ faults \in Nat
------------------------------------------------------------------------------
(* Sequences and types.                                                      *)

USE GatewayAssumption, JobPoolAssumption

\* What is in a sequence, when something is added, or the first is taken away.
LEMMA RangeAppend ==
  ASSUME NEW S, NEW s \in Seq(S), NEW e \in S
  PROVE  Range(Append(s, e)) = Range(s) \cup {e}
<1>1. /\ DOMAIN s = 1..Len(s) /\ Len(s) \in Nat
      /\ DOMAIN Append(s, e) = 1..(Len(s) + 1)
  OBVIOUS
<1>2. \A i \in 1..Len(s) : Append(s, e)[i] = s[i]
  OBVIOUS
<1>3. Append(s, e)[Len(s) + 1] = e
  OBVIOUS
<1> QED BY <1>1, <1>2, <1>3 DEF Range

LEMMA RangeTail ==
  ASSUME NEW S, NEW s \in Seq(S), s # <<>>
  PROVE  Head(s) \in Range(s) /\ Range(Tail(s)) \subseteq Range(s)
<1>1. /\ DOMAIN s = 1..Len(s) /\ Len(s) \in Nat \ {0}
      /\ Head(s) = s[1]
      /\ DOMAIN Tail(s) = 1..(Len(s) - 1)
      /\ \A i \in 1..(Len(s) - 1) : Tail(s)[i] = s[i + 1]
  OBVIOUS
<1> QED BY <1>1 DEF Range

LEMMA RangeEmpty == Range(<<>>) = {}
<1>1. <<>> \in Seq({})
  BY EmptySeq
<1>2. Range(<<>>) \in SUBSET {}
  BY <1>1, RangeOfSeq
<1> QED BY <1>2

\* What the types are made of.
LEMMA TypeParts == GatewayTypeOK <=> FrontType /\ LinkType /\ PoolType /\ faults \in Nat
BY DEF GatewayTypeOK, FrontType, LinkType, PoolType

LinkRec(P) == [up : BOOLEAN, req : Seq(P), rep : Seq(P)]
LinkSeq(P) == Seq(LinkRec(P))

\* Requests only become more: what was typed stays typed.
LEMMA PackagesGrow ==
  ASSUME LinkType, Asked \subseteq Asked'
  PROVE  /\ Package \subseteq Package' /\ Job \subseteq Job'
         /\ links \in LinkSeq(Package')
<1>1. Package \subseteq Package'
  BY DEF Package
<1>2. Job \subseteq Job'
  BY <1>1 DEF Job
<1>3. Seq(Package) \subseteq Seq(Package')
  BY <1>1, SeqMonotonic
<1>4. LinkRec(Package) \subseteq LinkRec(Package')
  BY <1>3 DEF LinkRec
<1>5. links \in LinkSeq(Package)
  BY DEF LinkType, LinkRec, LinkSeq
<1> QED BY <1>1, <1>2, <1>4, <1>5, SeqMonotonic DEF LinkSeq

\* So did what the links and the pool hold.
LEMMA TypesGrow ==
  ASSUME LinkType, PoolType, Asked \subseteq Asked',
         UNCHANGED <<clt, links, rses, rid_start, pool>>
  PROVE  LinkType' /\ PoolType'
<1>1. PoolType'
  BY PackagesGrow, SeqMonotonic DEF PoolType, pool
<1>2. LinkType'
  BY PackagesGrow DEF LinkType, LinkRec, LinkSeq
<1> QED BY <1>1, <1>2

\* A queue of a link is replaced.
Queued(ls, n, way, q) == [ls EXCEPT ![n][way] = q]

\* Of a link whose queue is replaced, only that changes; the others are as they were.
LEMMA QueueSet ==
  ASSUME NEW P, NEW ls \in LinkSeq(P), NEW n \in 1..Len(ls), NEW way \in {"req", "rep"},
         NEW q \in Seq(P)
  PROVE  /\ Queued(ls, n, way, q) \in LinkSeq(P)
         /\ Len(Queued(ls, n, way, q)) = Len(ls)
         /\ \A m \in 1..Len(ls) : m # n => Queued(ls, n, way, q)[m] = ls[m]
         /\ Queued(ls, n, way, q)[n].up = ls[n].up
         /\ Carried(Queued(ls, n, way, q)[n]) \subseteq Carried(ls[n]) \cup Range(q)
<1>1. ls[n] \in LinkRec(P)
  BY ElementOfSeq DEF LinkSeq
<1> DEFINE l == [ls[n] EXCEPT ![way] = q]
<1>2. l \in LinkRec(P) /\ l.up = ls[n].up
  BY <1>1 DEF LinkRec
<1>3. Carried(l) \subseteq Carried(ls[n]) \cup Range(q)
  BY <1>1 DEF LinkRec, Carried
<1>4. Queued(ls, n, way, q) = [ls EXCEPT ![n] = l]
  BY <1>1 DEF Queued
<1> HIDE DEF l
<1>5. /\ [ls EXCEPT ![n] = l] \in LinkSeq(P) /\ Len([ls EXCEPT ![n] = l]) = Len(ls)
      /\ \A m \in 1..Len(ls) : [ls EXCEPT ![n] = l][m] = IF m = n THEN l ELSE ls[m]
  BY <1>2, ExceptSeq DEF LinkSeq
<1> QED BY <1>2, <1>3, <1>4, <1>5

\* A package is sent, if the link is up.
LEMMA SentStep ==
  ASSUME NEW P, links \in LinkSeq(P), NEW n \in 1..Len(links),
         NEW way \in {"req", "rep"}, NEW pkg \in P
  PROVE  /\ Sent(n, way, pkg) \in LinkSeq(P)
         /\ Len(Sent(n, way, pkg)) = Len(links)
         /\ \A m \in 1..Len(links) : m # n => Sent(n, way, pkg)[m] = links[m]
         /\ Carried(Sent(n, way, pkg)[n]) \subseteq Carried(links[n]) \cup {pkg}
<1>1. links[n] \in LinkRec(P)
  BY ElementOfSeq DEF LinkSeq
<1>2. links[n][way] \in Seq(P) /\ Range(links[n][way]) \subseteq Carried(links[n])
  BY <1>1 DEF LinkRec, Carried
<1> DEFINE q == IF links[n].up THEN Append(links[n][way], pkg) ELSE links[n][way]
<1>3. q \in Seq(P) /\ Range(q) \subseteq Carried(links[n]) \cup {pkg}
  BY <1>2, RangeAppend
<1>4. Sent(n, way, pkg) = Queued(links, n, way, q)
  BY DEF Sent, Queued
<1> HIDE DEF q
<1>5. Queued(links, n, way, q) \in LinkSeq(P)
  BY <1>3, QueueSet
<1>6. Len(Queued(links, n, way, q)) = Len(links)
  BY <1>3, QueueSet
<1>7. \A m \in 1..Len(links) : m # n => Queued(links, n, way, q)[m] = links[m]
  BY <1>3, QueueSet
<1>8. Carried(Queued(links, n, way, q)[n]) \subseteq Carried(links[n]) \cup Range(q)
  BY <1>3, QueueSet
<1> QED BY <1>3, <1>4, <1>5, <1>6, <1>7, <1>8

\* Entries are only taken away, or made with new numbers.
Follows ==
  \A w \in Workers :
    /\ state_start'[w] >= state_start[w]
    /\ \A q \in DOMAIN state'[w] :
         \/ q \in DOMAIN state[w] /\ state'[w][q].req = state[w][q].req
         \/ q > state_start[w]

\* A package that was genuine stays so.
LEMMA GenuineStays ==
  ASSUME FrontType, FrontType', Follows, NEW w \in Workers, NEW pkg, pkg.seq \in Nat,
         Genuine(w, pkg)
  PROVE  Genuine(w, pkg)'
BY DEF FrontType, Follows, Genuine

\* What is on a link is packages,
LEMMA PackageSeq ==
  ASSUME LinkType, NEW n \in 1..Len(links)
  PROVE  Carried(links[n]) \subseteq Package /\ \A pkg \in Carried(links[n]) : pkg.seq \in Nat
<1>1. links[n].req \in Seq(Package) /\ links[n].rep \in Seq(Package)
  <2>1. links[n] \in [up : BOOLEAN, req : Seq(Package), rep : Seq(Package)]
    BY ElementOfSeq DEF LinkType
  <2> QED BY <2>1
<1>2. Carried(links[n]) \subseteq Package
  BY <1>1, RangeOfSeq DEF Carried
<1> QED BY <1>2 DEF Package

\* and what is in the pool is jobs.
LEMMA JobTypes ==
  ASSUME PoolType
  PROVE  Jobs \subseteq Job /\ \A job \in Jobs : job.pkg.seq \in Nat
<1>1. Jobs \subseteq Job
  BY RangeOfSeq DEF PoolType, Jobs
<1> QED BY <1>1 DEF Job, Package

\* Jobs do not mind what happens to the entries.
LEMMA JobStep ==
  ASSUME JobInv, FrontType, FrontType', PoolType', Follows,
         UNCHANGED <<clt, rses, rid_start, pool>>
  PROVE  JobInv'
<1>1. JobsOK'
  <2> SUFFICES ASSUME NEW job \in Jobs
               PROVE  /\ job.ses_id < rid_start[ReadHistory]
                      /\ rses[ReadHistory][job.ses].id = job.ses_id =>
                           \A w \in Workers, b \in Backends :
                             Owns(w, b, rses[ReadHistory][job.ses].of) => Genuine(w, job.pkg)'
    BY DEF JobsOK, Jobs, Owns, pool
  <2> QED BY JobTypes, GenuineStays DEF JobInv, JobsOK
<1>2. Woken'
  BY DEF JobInv, Woken, pool
<1> QED BY <1>1, <1>2 DEF JobInv

\* Workers that do nothing.
LEMMA FrontSame ==
  ASSUME FrontInv, UNCHANGED <<front, conns, requests>>
  PROVE  FrontInv' /\ Follows /\ Asked' = Asked
<1>1. FrontType' /\ Asked' = Asked
  BY DEF FrontInv, FrontType, front, Asked
<1>2. SessionsOK'
  BY DEF FrontInv, SessionsOK, front
<1>3. EntriesOK'
  BY DEF FrontInv, EntriesOK, front
<1>4. EntriesDistinct'
  BY DEF FrontInv, EntriesDistinct, front
<1>5. AnswersAsker'
  BY DEF FrontInv, AnswersAsker, Asked, front
<1>6. Follows
  BY DEF FrontInv, FrontType, Follows, front
<1> QED BY <1>1, <1>2, <1>3, <1>4, <1>5, <1>6 DEF FrontInv

\* Nor do links, whose packages move but come from nowhere.
LEMMA LinksStep ==
  ASSUME LinkInv, FrontType, FrontType', LinkType', Follows,
         UNCHANGED <<clt, rses, rid_start>>, Len(links') = Len(links),
         \A n \in 1..Len(links), w \in Workers, b \in Backends :
           Owns(w, b, n) => \A pkg \in Carried(links'[n]) :
                              pkg \in Carried(links[n]) \/ Genuine(w, pkg)'
  PROVE  LinkInv'
<1>1. LinksOK'
  BY DEF LinkInv, LinksOK, Owns
<1>2. CarriedOK'
  <2> SUFFICES ASSUME NEW n \in 1..Len(links), NEW w \in Workers, NEW b \in Backends,
                      Owns(w, b, n), NEW pkg \in Carried(links'[n]), pkg \in Carried(links[n])
               PROVE  Genuine(w, pkg)'
    BY DEF CarriedOK, Owns
  <2> QED BY PackageSeq, GenuineStays DEF LinkInv, CarriedOK
<1> QED BY <1>1, <1>2 DEF LinkInv
------------------------------------------------------------------------------
(* Clients and workers.                                                      *)

\* A step of clients and workers that leaves the links alone.
LEMMA FrontStep ==
  ASSUME GatewayInv, FrontInv', Follows, Asked \subseteq Asked', faults' \in Nat,
         UNCHANGED <<clt, links, rses, rid_start, pool>>
  PROVE  GatewayInv'
<1>1. LinkType' /\ PoolType'
  BY TypesGrow DEF GatewayInv, LinkInv, JobInv
<1>2. LinkInv'
  BY <1>1, LinksStep DEF GatewayInv, FrontInv
<1>3. JobInv'
  BY <1>1, JobStep DEF GatewayInv, FrontInv
<1> QED BY <1>2, <1>3 DEF GatewayInv

\* The number of a new session is higher than those entries have.
LEMMA AcceptStep ==
  ASSUME GatewayInv, NEW w \in Workers, NEW s \in ClientSlots, Accept(w, s)
  PROVE  GatewayInv'
<1>1. /\ NextId(id_start[w]) \in Nat \ {0} /\ NextId(id_start[w]) >= id_start[w]
      /\ id_start[w] \in Nat /\ conns \in Nat
  BY DEF GatewayInv, FrontInv, FrontType, NextId
<1>2. /\ ses' = [ses EXCEPT ![w] = [ses[w] EXCEPT ![s] = [id |-> NextId(id_start[w]), of |-> conns + 1]]]
      /\ id_start' = [id_start EXCEPT ![w] = NextId(id_start[w]) + 1]
      /\ conns' = conns + 1
      /\ UNCHANGED <<state, state_start, clt, links, rses, rid_start, pool, requests, faults>>
  BY DEF Accept, back
<1>3. FrontType'
  <2>1. ses' \in [Workers -> [ClientSlots -> Session]]
    BY <1>1, <1>2 DEF GatewayInv, FrontInv, FrontType, Session
  <2>2. id_start' \in [Workers -> Nat] /\ conns' \in Nat
    BY <1>1, <1>2 DEF GatewayInv, FrontInv, FrontType
  <2>3. ASSUME NEW v \in Workers, NEW q \in DOMAIN state[v]
        PROVE  state[v][q] \in [ses : ClientSlots, ses_id : 1..id_start'[v], req : Asked]
    BY <1>1, <1>2 DEF GatewayInv, FrontInv, FrontType
  <2>4. requests \in Seq([conn : 1..conns', got : Seq([to : 0..conns', of : 0..Len(requests)])])
    <3>1. 0..conns \subseteq 0..conns' /\ 1..conns \subseteq 1..conns'
      BY <1>1, <1>2
    <3>2. [to : 0..conns, of : 0..Len(requests)] \subseteq [to : 0..conns', of : 0..Len(requests)]
      BY <3>1
    <3>3. Seq([to : 0..conns, of : 0..Len(requests)]) \subseteq Seq([to : 0..conns', of : 0..Len(requests)])
      BY <3>2, SeqMonotonic
    <3>4. [conn : 1..conns, got : Seq([to : 0..conns, of : 0..Len(requests)])]
            \subseteq [conn : 1..conns', got : Seq([to : 0..conns', of : 0..Len(requests)])]
      BY <3>1, <3>3
    <3>5. requests \in Seq([conn : 1..conns, got : Seq([to : 0..conns, of : 0..Len(requests)])])
      BY DEF GatewayInv, FrontInv, FrontType
    <3> QED BY <3>4, <3>5, SeqMonotonic
  <2>5. \A v \in Workers : \A q \in DOMAIN state'[v] :
          q \in 1..state_start'[v] /\ state'[v][q] \in [ses : ClientSlots, ses_id : 1..id_start'[v], req : Asked']
    BY <1>2, <2>3 DEF GatewayInv, FrontInv, FrontType, Asked
  <2>6. state_start' \in [Workers -> Nat] /\ DOMAIN state' = Workers
    BY <1>2 DEF GatewayInv, FrontInv, FrontType
  <2>7. requests' \in Seq([conn : 1..conns', got : Seq([to : 0..conns', of : 0..Len(requests')])])
    BY <1>2, <2>4
  <2> QED BY <2>1, <2>2, <2>5, <2>6, <2>7 DEF FrontType
<1>4. SessionsOK'
  <2>1. /\ \A v \in Workers, t \in ClientSlots :
             ses'[v][t] = IF v = w /\ t = s THEN [id |-> NextId(id_start[w]), of |-> conns + 1]
                          ELSE ses[v][t]
        /\ \A v \in Workers : id_start'[v] = IF v = w THEN NextId(id_start[w]) + 1 ELSE id_start[v]
    BY <1>2 DEF GatewayInv, FrontInv, FrontType
  <2>2. \A v \in Workers, t \in ClientSlots :
          /\ ses[v][t].id \in Nat /\ id_start[v] \in Nat
          /\ ses[v][t].id # 0 => ses[v][t].id < id_start[v] /\ ses[v][t].of \in 1..conns
    BY DEF GatewayInv, FrontInv, FrontType, SessionsOK, Session
  <2> SUFFICES ASSUME NEW v \in Workers, NEW t \in ClientSlots, ses'[v][t].id # 0
               PROVE  ses'[v][t].id < id_start'[v] /\ ses'[v][t].of \in 1..conns'
    BY DEF SessionsOK
  <2>3. CASE v = w /\ t = s
    BY <1>1, <1>2, <2>1, <2>3
  <2>4. CASE ~(v = w /\ t = s)
    <3>1. ses'[v][t] = ses[v][t]
      BY <2>1, <2>4
    <3> QED BY <1>1, <1>2, <2>1, <2>2, <3>1
  <2> QED BY <2>3, <2>4
<1>5. EntriesOK'
  <2> SUFFICES ASSUME NEW v \in Workers, NEW q \in DOMAIN state[v]
               PROVE  /\ state[v][q].ses_id < id_start'[v]
                      /\ requests[state[v][q].req].got = <<>>
                      /\ ses'[v][state[v][q].ses].id = state[v][q].ses_id =>
                           ses'[v][state[v][q].ses].of = requests[state[v][q].req].conn
    BY <1>2 DEF EntriesOK
  <2>1. state[v][q].ses \in ClientSlots /\ state[v][q].ses_id \in Nat
    BY DEF GatewayInv, FrontInv, FrontType
  <2>2. /\ state[v][q].ses_id < id_start[v] /\ requests[state[v][q].req].got = <<>>
        /\ ses[v][state[v][q].ses].id = state[v][q].ses_id =>
             ses[v][state[v][q].ses].of = requests[state[v][q].req].conn
    BY DEF GatewayInv, FrontInv, EntriesOK
  <2>3. CASE v = w /\ state[v][q].ses = s
    <3>1. ses'[v][state[v][q].ses].id = NextId(id_start[w]) /\ id_start'[v] = NextId(id_start[w]) + 1
      BY <1>2, <2>3 DEF GatewayInv, FrontInv, FrontType
    <3> QED BY <1>1, <2>1, <2>2, <2>3, <3>1
  <2>4. CASE ~(v = w /\ state[v][q].ses = s)
    <3>1. ses'[v][state[v][q].ses] = ses[v][state[v][q].ses] /\ id_start'[v] >= id_start[v]
      BY <1>1, <1>2, <2>1, <2>4 DEF GatewayInv, FrontInv, FrontType
    <3>2. id_start'[v] \in Nat /\ id_start[v] \in Nat
      BY <1>3 DEF GatewayInv, FrontInv, FrontType
    <3> QED BY <2>1, <2>2, <3>1, <3>2
  <2> QED BY <2>3, <2>4
<1>6. EntriesDistinct' /\ AnswersAsker'
  BY <1>2 DEF GatewayInv, FrontInv, EntriesDistinct, AnswersAsker, Asked
<1>7. Follows
  BY <1>2 DEF Follows, GatewayInv, FrontInv, FrontType
<1>8. FrontInv' /\ Asked' = Asked /\ faults' \in Nat
  BY <1>2, <1>3, <1>4, <1>5, <1>6 DEF FrontInv, GatewayInv, Asked
<1> QED BY <1>2, <1>7, <1>8, FrontStep

\* A session ends, or does not.
LEMMA SessionEnds ==
  ASSUME FrontInv, NEW w \in Workers, NEW s \in ClientSlots, UNCHANGED <<id_start, conns>>,
         ses' = [ses EXCEPT ![w] = [ses[w] EXCEPT ![s] = Free]] \/ UNCHANGED ses
  PROVE  /\ ses' \in [Workers -> [ClientSlots -> Session]]
         /\ \A v \in Workers, t \in ClientSlots :
              ses'[v][t] = ses[v][t] \/ ses'[v][t].id = 0
         /\ SessionsOK'
<1>1. CASE UNCHANGED ses
  BY <1>1 DEF FrontInv, FrontType, SessionsOK
<1>2. CASE ses' = [ses EXCEPT ![w] = [ses[w] EXCEPT ![s] = Free]]
  <2>1. ses' \in [Workers -> [ClientSlots -> Session]]
    BY <1>2 DEF FrontInv, FrontType, Session, Free
  <2>2. \A v \in Workers, t \in ClientSlots : ses'[v][t] = ses[v][t] \/ ses'[v][t].id = 0
    BY <1>2 DEF FrontInv, FrontType, Free
  <2>3. SessionsOK'
    BY <2>2 DEF FrontInv, SessionsOK
  <2> QED BY <2>1, <2>2, <2>3
<1> QED BY <1>1, <1>2

\* Entries of a session that ended are left: their numbers will not be given again.
LEMMA CloseClientStep ==
  ASSUME GatewayInv, NEW w \in Workers, NEW s \in ClientSlots, CloseClient(w, s)
  PROVE  GatewayInv'
<1>1. /\ ses' = [ses EXCEPT ![w] = [ses[w] EXCEPT ![s] = Free]]
      /\ UNCHANGED <<id_start, conns, state, state_start, clt, links, rses, rid_start, pool, requests, faults>>
  BY DEF CloseClient, back
<1>2. /\ ses' \in [Workers -> [ClientSlots -> Session]] /\ SessionsOK'
      /\ \A v \in Workers, t \in ClientSlots : ses'[v][t] = ses[v][t] \/ ses'[v][t].id = 0
  BY <1>1, SessionEnds DEF GatewayInv
<1>3. FrontType'
  BY <1>1, <1>2 DEF GatewayInv, FrontInv, FrontType, Asked
<1>4. EntriesOK'
  <2> SUFFICES ASSUME NEW v \in Workers, NEW q \in DOMAIN state[v]
               PROVE  /\ state[v][q].ses_id < id_start[v]
                      /\ requests[state[v][q].req].got = <<>>
                      /\ ses'[v][state[v][q].ses].id = state[v][q].ses_id =>
                           ses'[v][state[v][q].ses].of = requests[state[v][q].req].conn
    BY <1>1 DEF EntriesOK
  <2>1. state[v][q].ses \in ClientSlots /\ state[v][q].ses_id # 0
    BY DEF GatewayInv, FrontInv, FrontType
  <2> QED BY <1>2, <2>1 DEF GatewayInv, FrontInv, EntriesOK
<1>5. EntriesDistinct' /\ AnswersAsker'
  BY <1>1 DEF GatewayInv, FrontInv, EntriesDistinct, AnswersAsker, Asked
<1>6. Follows
  BY <1>1 DEF Follows, GatewayInv, FrontInv, FrontType
<1>7. FrontInv' /\ Asked' = Asked /\ faults' \in Nat
  BY <1>1, <1>2, <1>3, <1>4, <1>5 DEF FrontInv, GatewayInv, Asked
<1> QED BY <1>1, <1>6, <1>7, FrontStep

\* A request is noted.
LEMMA NotedStep ==
  ASSUME FrontType, NEW new \in [conn : 1..conns, got : Seq([to : 0..conns, of : 0..Len(requests)])],
         requests' = Append(requests, new), conns' = conns
  PROVE  /\ requests' \in Seq([conn : 1..conns', got : Seq([to : 0..conns', of : 0..Len(requests')])])
         /\ Asked' = Asked \cup {Len(requests) + 1} /\ Len(requests) + 1 \notin Asked
         /\ requests'[Len(requests) + 1] = new
         /\ \A r \in Asked : r # Len(requests) + 1 /\ requests'[r] = requests[r]
<1> DEFINE A == [to : 0..conns, of : 0..Len(requests)]
           B == [to : 0..conns, of : 0..Len(requests')]
           R == [conn : 1..conns, got : Seq(A)]
           Q == [conn : 1..conns, got : Seq(B)]
<1>1. requests \in Seq(R)
  BY DEF FrontType
<1>2. requests' \in Seq(R) /\ Len(requests') = Len(requests) + 1 /\ Len(requests) \in Nat
  BY <1>1
<1>3. Seq(A) \subseteq Seq(B)
  <2>1. 0..Len(requests) \subseteq 0..Len(requests')
    BY <1>2
  <2>2. A \subseteq B
    BY <2>1
  <2> HIDE DEF A, B
  <2> QED BY <2>2, SeqMonotonic
<1>4. R \subseteq Q
  BY <1>3
<1>5. requests' \in Seq(Q)
  <2> HIDE DEF R, Q
  <2> QED BY <1>2, <1>4, SeqMonotonic
<1>6. Asked' = Asked \cup {Len(requests) + 1} /\ Len(requests) + 1 \notin Asked
  BY <1>1, <1>2 DEF Asked
<1>7. /\ requests'[Len(requests) + 1] = new
      /\ \A r \in Asked : r # Len(requests) + 1 /\ requests'[r] = requests[r]
  BY <1>1, <1>2 DEF Asked
<1> QED BY <1>5, <1>6, <1>7

\* The request is refused, and the connection closed or not.
LEMMA RefusedStep ==
  ASSUME GatewayInv, NEW w \in Workers, NEW s \in ClientSlots, Refused(w, s)
  PROVE  GatewayInv'
<1> DEFINE new == [conn |-> ses[w][s].of, got |-> <<Answer(w, s, 0)>>]
<1>1. /\ ses[w][s].id # 0 /\ requests' = Append(requests, new)
      /\ ses' = [ses EXCEPT ![w] = [ses[w] EXCEPT ![s] = Free]] \/ UNCHANGED ses
      /\ UNCHANGED <<id_start, conns, state, state_start, clt, links, rses, rid_start, pool, faults>>
  BY DEF Refused, back
<1>2. ses[w][s].of \in 1..conns /\ conns \in Nat /\ Len(requests) \in Nat
  BY <1>1 DEF GatewayInv, FrontInv, FrontType, SessionsOK
<1>3. Answer(w, s, 0) \in [to : 0..conns, of : 0..Len(requests)]
  BY <1>2 DEF Answer
<1>4. /\ new \in [conn : 1..conns, got : Seq([to : 0..conns, of : 0..Len(requests)])]
      /\ Len(new.got) = 1 /\ new.got[1] = Answer(w, s, 0) /\ DOMAIN new.got = {1}
  BY <1>2, <1>3
<1> HIDE DEF new
<1>5. /\ requests' \in Seq([conn : 1..conns', got : Seq([to : 0..conns', of : 0..Len(requests')])])
      /\ Asked' = Asked \cup {Len(requests) + 1} /\ Len(requests) + 1 \notin Asked
      /\ requests'[Len(requests) + 1] = new
      /\ \A r \in Asked : r # Len(requests) + 1 /\ requests'[r] = requests[r]
  BY <1>1, <1>4, NotedStep DEF GatewayInv, FrontInv
<1>6. /\ ses' \in [Workers -> [ClientSlots -> Session]] /\ SessionsOK'
      /\ \A v \in Workers, t \in ClientSlots : ses'[v][t] = ses[v][t] \/ ses'[v][t].id = 0
  BY <1>1, SessionEnds DEF GatewayInv
<1>7. FrontType'
  BY <1>1, <1>5, <1>6 DEF GatewayInv, FrontInv, FrontType
<1>8. EntriesOK'
  <2> SUFFICES ASSUME NEW v \in Workers, NEW q \in DOMAIN state[v]
               PROVE  /\ state[v][q].ses_id < id_start[v]
                      /\ requests'[state[v][q].req].got = <<>>
                      /\ ses'[v][state[v][q].ses].id = state[v][q].ses_id =>
                           ses'[v][state[v][q].ses].of = requests'[state[v][q].req].conn
    BY <1>1 DEF EntriesOK
  <2>1. state[v][q].ses \in ClientSlots /\ state[v][q].ses_id # 0 /\ state[v][q].req \in Asked
    BY DEF GatewayInv, FrontInv, FrontType
  <2>2. /\ state[v][q].ses_id < id_start[v] /\ requests[state[v][q].req].got = <<>>
        /\ ses[v][state[v][q].ses].id = state[v][q].ses_id =>
             ses[v][state[v][q].ses].of = requests[state[v][q].req].conn
    BY DEF GatewayInv, FrontInv, EntriesOK
  <2>3. requests'[state[v][q].req] = requests[state[v][q].req]
    BY <1>5, <2>1
  <2> QED BY <1>6, <2>1, <2>2, <2>3
<1>9. EntriesDistinct'
  BY <1>1 DEF GatewayInv, FrontInv, EntriesDistinct
<1>10. AnswersAsker'
  <2>1. new.got[1].to = new.conn /\ new.got[1].of = 0
    BY <1>4 DEF new, Answer
  <2>2. ASSUME NEW r \in Asked
        PROVE  /\ Len(requests'[r].got) <= 1
               /\ \A i \in DOMAIN requests'[r].got :
                    requests'[r].got[i].to = requests'[r].conn /\ requests'[r].got[i].of \in {0, r}
    BY <1>5 DEF GatewayInv, FrontInv, AnswersAsker
  <2>3. ASSUME NEW r \in Asked', r \notin Asked
        PROVE  /\ Len(requests'[r].got) <= 1
               /\ \A i \in DOMAIN requests'[r].got :
                    requests'[r].got[i].to = requests'[r].conn /\ requests'[r].got[i].of \in {0, r}
    <3>1. requests'[r] = new
      BY <1>5, <2>3
    <3>2. Len(new.got) <= 1 /\ \A i \in DOMAIN new.got : i = 1
      BY <1>4
    <3> QED BY <2>1, <3>1, <3>2
  <2> QED BY <2>2, <2>3 DEF AnswersAsker
<1>11. Follows
  BY <1>1 DEF Follows, GatewayInv, FrontInv, FrontType
<1>12. FrontInv' /\ Asked \subseteq Asked' /\ faults' \in Nat
  BY <1>1, <1>5, <1>6, <1>7, <1>8, <1>9, <1>10 DEF FrontInv, GatewayInv
<1> QED BY <1>1, <1>11, <1>12, FrontStep

\* What becomes of an entry that is answered: of is the result of its request, or
\* none.
LEMMA RespondStep ==
  ASSUME FrontInv, NEW w \in Workers, NEW seq \in DOMAIN state[w],
         NEW of \in {0, state[w][seq].req}, Respond(w, state[w][seq], of),
         state' = [state EXCEPT ![w] = Without(state[w], seq)],
         UNCHANGED <<ses, id_start, state_start, conns>>
  PROVE  FrontInv' /\ Follows /\ Asked' = Asked
<1> DEFINE e == state[w][seq]
           a == Answer(w, e.ses, of)
           A == [to : 0..conns, of : 0..Len(requests)]
           R == [conn : 1..conns, got : Seq(A)]
<1>1. /\ e.ses \in ClientSlots /\ e.req \in Asked /\ requests \in Seq(R)
      /\ requests[e.req].got = <<>>
      /\ ses[w][e.ses].id = e.ses_id => ses[w][e.ses].of = requests[e.req].conn
  BY DEF FrontInv, FrontType, EntriesOK
<1>2. /\ Len(requests) \in Nat /\ conns \in Nat /\ Asked = 1..Len(requests)
      /\ \A r \in Asked : requests[r] \in R
  <2>1. Len(requests) \in Nat /\ conns \in Nat /\ Asked = 1..Len(requests)
    BY <1>1 DEF Asked, FrontInv, FrontType
  <2> HIDE DEF R
  <2> QED BY <1>1, <2>1, ElementOfSeq
<1>3. requests[e.req].conn \in 1..conns
  BY <1>1, <1>2
<1>4. /\ requests' \in Seq(R) /\ Len(requests') = Len(requests)
      /\ \A r \in Asked \ {e.req} : requests'[r] = requests[r]
      /\ requests'[e.req].conn = requests[e.req].conn
      /\ \/ requests'[e.req].got = <<>>
         \/ requests'[e.req].got = <<[to |-> requests[e.req].conn, of |-> of]>>
  <2>1. CASE ses[w][e.ses].id # e.ses_id
    BY <1>1, <2>1 DEF Respond
  <2>2. CASE ses[w][e.ses].id = e.ses_id
    <3>1. a = [to |-> requests[e.req].conn, of |-> of] /\ a \in A
      <4>1. a = [to |-> requests[e.req].conn, of |-> of]
        BY <1>1, <2>2 DEF Answer
      <4>2. of \in 0..Len(requests)
        BY <1>1, <1>2
      <4>3. requests[e.req].conn \in 0..conns
        BY <1>2, <1>3
      <4> QED BY <4>1, <4>2, <4>3
    <3>2. requests' = [requests EXCEPT ![e.req].got = Append(<<>>, a)]
      BY <1>1, <2>2 DEF Respond
    <3>3. Append(<<>>, a) = <<a>> /\ <<a>> \in Seq(A)
      BY <3>1
    <3> DEFINE new == [requests[e.req] EXCEPT !.got = <<a>>]
    <3>4. new \in R /\ new.conn = requests[e.req].conn /\ new.got = <<a>>
      BY <1>1, <1>2, <3>3
    <3>5. requests' = [requests EXCEPT ![e.req] = new]
      BY <3>2, <3>3
    <3>6. PICK x : x = e.req
      OBVIOUS
    <3> HIDE DEF new, R, a
    <3>7. x \in 1..Len(requests) /\ requests \in Seq(R) /\ new \in R
      BY <1>1, <1>2, <3>4, <3>6
    <3>8. /\ [requests EXCEPT ![x] = new] \in Seq(R)
          /\ Len([requests EXCEPT ![x] = new]) = Len(requests)
          /\ \A r \in 1..Len(requests) :
               [requests EXCEPT ![x] = new][r] = IF r = x THEN new ELSE requests[r]
      BY <3>7, ExceptSeq
    <3>9. requests' = [requests EXCEPT ![x] = new]
      BY <3>5, <3>6
    <3>10. requests'[x] = new /\ new.got = <<[to |-> requests[x].conn, of |-> of]>>
      BY <3>1, <3>4, <3>6, <3>7, <3>8, <3>9
    <3> QED BY <1>2, <3>4, <3>6, <3>8, <3>9, <3>10
  <2> QED BY <2>1, <2>2
<1>5. Asked' = Asked
  BY <1>4 DEF Asked
<1>6. /\ DOMAIN state' = Workers
      /\ \A v \in Workers : DOMAIN state'[v] \subseteq DOMAIN state[v]
      /\ \A v \in Workers : \A q \in DOMAIN state'[v] :
           state'[v][q] = state[v][q] /\ (v = w => q # seq)
  BY DEF FrontInv, FrontType, Without
<1>7. FrontType'
  <2>1. requests' \in Seq([conn : 1..conns, got : Seq([to : 0..conns, of : 0..Len(requests')])])
    BY <1>4
  <2> QED BY <1>5, <1>6, <2>1 DEF FrontInv, FrontType
<1>8. SessionsOK'
  BY DEF FrontInv, SessionsOK
<1>9. EntriesOK'
  <2> SUFFICES ASSUME NEW v \in Workers, NEW q \in DOMAIN state'[v]
               PROVE  /\ state'[v][q].ses_id < id_start[v]
                      /\ requests'[state'[v][q].req].got = <<>>
                      /\ ses[v][state'[v][q].ses].id = state'[v][q].ses_id =>
                           ses[v][state'[v][q].ses].of = requests'[state'[v][q].req].conn
    BY DEF EntriesOK
  <2>1. q \in DOMAIN state[v] /\ state'[v][q] = state[v][q] /\ (v = w => q # seq)
    BY <1>6
  <2>2. state[v][q].req # e.req /\ state[v][q].req \in Asked
    BY <2>1 DEF FrontInv, FrontType, EntriesDistinct
  <2>3. /\ state[v][q].ses_id < id_start[v] /\ requests[state[v][q].req].got = <<>>
        /\ ses[v][state[v][q].ses].id = state[v][q].ses_id =>
             ses[v][state[v][q].ses].of = requests[state[v][q].req].conn
    BY <2>1 DEF FrontInv, EntriesOK
  <2>4. requests'[state[v][q].req] = requests[state[v][q].req]
    BY <1>4, <2>2
  <2> QED BY <2>1, <2>3, <2>4
<1>10. EntriesDistinct'
  BY <1>6 DEF FrontInv, EntriesDistinct
<1>11. AnswersAsker'
  <2> SUFFICES ASSUME NEW r \in Asked
               PROVE  /\ Len(requests'[r].got) <= 1
                      /\ \A i \in DOMAIN requests'[r].got :
                           requests'[r].got[i].to = requests'[r].conn /\ requests'[r].got[i].of \in {0, r}
    BY <1>5 DEF AnswersAsker
  <2>1. CASE r # e.req
    <3>1. requests'[r] = requests[r]
      BY <1>4, <2>1
    <3> QED BY <3>1 DEF FrontInv, AnswersAsker
  <2>2. CASE r = e.req /\ requests'[r].got = <<>>
    BY <2>2
  <2>3. CASE r = e.req /\ requests'[r].got = <<[to |-> requests[r].conn, of |-> of]>>
    <3>1. of \in {0, r} /\ requests'[r].conn = requests[r].conn
      BY <1>4, <2>3
    <3>2. /\ Len(requests'[r].got) = 1 /\ DOMAIN requests'[r].got = {1}
          /\ requests'[r].got[1] = [to |-> requests[r].conn, of |-> of]
      BY <2>3
    <3> QED BY <3>1, <3>2
  <2> QED BY <1>4, <2>1, <2>2, <2>3
<1>12. Follows
  BY <1>6 DEF Follows, FrontInv, FrontType
<1> QED BY <1>5, <1>7, <1>8, <1>9, <1>10, <1>11, <1>12 DEF FrontInv

\* The timer of an entry.
LEMMA StateTimeoutStep ==
  ASSUME GatewayInv, NEW w \in Workers, NEW seq \in DOMAIN state[w], StateTimeout(w, seq)
  PROVE  GatewayInv'
<1>1. FrontInv' /\ Follows /\ Asked' = Asked
  BY RespondStep DEF StateTimeout, GatewayInv
<1> QED BY <1>1, FrontStep DEF StateTimeout, back, GatewayInv

\* A request is forwarded: request and entry are new, and so are their numbers.
LEMMA RequestStep ==
  ASSUME GatewayInv, NEW w \in Workers, NEW s \in ClientSlots, NEW b \in Backends,
         Request(w, s, b)
  PROVE  GatewayInv'
<1> DEFINE r == Len(requests) + 1
           seq == state_start[w] + 1
           e == [ses |-> s, ses_id |-> ses[w][s].id, req |-> r]
           n == clt[w][b].link
           new == [conn |-> ses[w][s].of, got |-> <<>>]
<1>0. PICK pkg : pkg = [seq |-> seq, of |-> r]
  OBVIOUS
<1>1. /\ ses[w][s].id # 0 /\ clt[w][b].st = "connected"
      /\ requests' = Append(requests, new)
      /\ state' = [state EXCEPT ![w] = With(state[w], seq, e)]
      /\ state_start' = [state_start EXCEPT ![w] = seq]
      /\ links' = Sent(n, "req", pkg)
      /\ UNCHANGED <<ses, id_start, clt, rses, rid_start, pool, conns, faults>>
  BY <1>0 DEF Request, back
<1>2. /\ ses[w][s].of \in 1..conns /\ ses[w][s].id < id_start[w]
      /\ conns \in Nat /\ Len(requests) \in Nat /\ Asked = 1..Len(requests)
      /\ state_start[w] \in Nat /\ id_start[w] \in Nat /\ ses[w][s].id \in Nat
  BY <1>1 DEF GatewayInv, FrontInv, FrontType, SessionsOK, Session, Asked
<1>3. new \in [conn : 1..conns, got : Seq([to : 0..conns, of : 0..Len(requests)])]
  BY <1>2
<1> HIDE DEF new
<1>4. /\ requests' \in Seq([conn : 1..conns', got : Seq([to : 0..conns', of : 0..Len(requests')])])
      /\ Asked' = Asked \cup {r} /\ r \notin Asked /\ requests'[r] = new
      /\ \A x \in Asked : x # r /\ requests'[x] = requests[x]
  BY <1>1, <1>3, NotedStep DEF GatewayInv, FrontInv
<1>5. /\ DOMAIN state' = Workers
      /\ \A v \in Workers : v # w => state'[v] = state[v]
      /\ DOMAIN state'[w] = DOMAIN state[w] \cup {seq} /\ seq \notin DOMAIN state[w]
      /\ state'[w][seq] = e
      /\ \A q \in DOMAIN state[w] : q # seq /\ state'[w][q] = state[w][q]
  <2>1. seq \notin DOMAIN state[w]
    BY <1>2 DEF GatewayInv, FrontInv, FrontType
  <2>2. DOMAIN state' = Workers /\ state'[w] = With(state[w], seq, e)
        /\ \A v \in Workers : v # w => state'[v] = state[v]
    BY <1>1 DEF GatewayInv, FrontInv, FrontType
  <2> HIDE DEF seq, e
  <2> QED BY <2>1, <2>2 DEF With
<1>6. FrontType'
  <2>1. e \in [ses : ClientSlots, ses_id : 1..id_start[w], req : Asked']
    BY <1>1, <1>2, <1>4
  <2>2. state_start' \in [Workers -> Nat] /\ state_start'[w] = state_start[w] + 1
    BY <1>1, <1>2 DEF GatewayInv, FrontInv, FrontType
  <2>3. ASSUME NEW v \in Workers, NEW q \in DOMAIN state'[v]
        PROVE  /\ q \in 1..state_start'[v]
               /\ state'[v][q] \in [ses : ClientSlots, ses_id : 1..id_start[v], req : Asked']
    <3>1. CASE v = w /\ q = seq
      BY <1>2, <1>5, <2>1, <2>2, <3>1
    <3>2. CASE ~(v = w /\ q = seq)
      <4>1. q \in DOMAIN state[v] /\ state'[v][q] = state[v][q]
        BY <1>5, <3>2
      <4>2. /\ q \in 1..state_start[v]
            /\ state[v][q] \in [ses : ClientSlots, ses_id : 1..id_start[v], req : Asked]
        BY <4>1 DEF GatewayInv, FrontInv, FrontType
      <4>3. state_start'[v] \in Nat /\ state_start'[v] >= state_start[v] /\ state_start[v] \in Nat
        BY <1>1, <1>2 DEF GatewayInv, FrontInv, FrontType
      <4> QED BY <1>4, <4>1, <4>2, <4>3
    <3> QED BY <3>1, <3>2
  <2> QED BY <1>1, <1>4, <1>5, <2>2, <2>3 DEF GatewayInv, FrontInv, FrontType
<1>7. SessionsOK'
  BY <1>1 DEF GatewayInv, FrontInv, SessionsOK
<1>8. EntriesOK'
  <2> SUFFICES ASSUME NEW v \in Workers, NEW q \in DOMAIN state'[v]
               PROVE  /\ state'[v][q].ses_id < id_start[v]
                      /\ requests'[state'[v][q].req].got = <<>>
                      /\ ses[v][state'[v][q].ses].id = state'[v][q].ses_id =>
                           ses[v][state'[v][q].ses].of = requests'[state'[v][q].req].conn
    BY <1>1 DEF EntriesOK
  <2>1. CASE v = w /\ q = seq
    <3>1. state'[v][q] = e
      BY <1>5, <2>1
    <3>2. requests'[e.req].got = <<>> /\ requests'[e.req].conn = ses[w][s].of
      BY <1>4 DEF new
    <3> QED BY <1>2, <2>1, <3>1, <3>2
  <2>2. CASE ~(v = w /\ q = seq)
    <3>1. q \in DOMAIN state[v] /\ state'[v][q] = state[v][q]
      BY <1>5, <2>2
    <3>2. /\ state[v][q].ses_id < id_start[v] /\ requests[state[v][q].req].got = <<>>
          /\ ses[v][state[v][q].ses].id = state[v][q].ses_id =>
               ses[v][state[v][q].ses].of = requests[state[v][q].req].conn
      BY <3>1 DEF GatewayInv, FrontInv, EntriesOK
    <3>3. state[v][q].req \in Asked
      BY <3>1 DEF GatewayInv, FrontInv, FrontType
    <3>4. requests'[state[v][q].req] = requests[state[v][q].req]
      BY <1>4, <3>3
    <3> QED BY <3>1, <3>2, <3>4
  <2> QED BY <2>1, <2>2
<1>9. EntriesDistinct'
  <2>1. \A v \in Workers : \A q \in DOMAIN state[v] : state[v][q].req # r
    BY <1>4 DEF GatewayInv, FrontInv, FrontType
  <2>2. \A v \in Workers : \A q \in DOMAIN state'[v] :
          \/ v = w /\ q = seq /\ state'[v][q].req = r
          \/ q \in DOMAIN state[v] /\ state'[v][q] = state[v][q]
    BY <1>5
  <2> HIDE DEF r, seq
  <2> QED BY <2>1, <2>2 DEF GatewayInv, FrontInv, EntriesDistinct
<1>10. AnswersAsker'
  <2>1. ASSUME NEW x \in Asked', x \notin Asked
        PROVE  requests'[x].got = <<>>
    BY <1>4, <2>1 DEF new
  <2>2. ASSUME NEW x \in Asked
        PROVE  requests'[x] = requests[x]
    BY <1>4
  <2> QED BY <2>1, <2>2 DEF GatewayInv, FrontInv, AnswersAsker
<1>11. FrontInv'
  BY <1>6, <1>7, <1>8, <1>9, <1>10 DEF FrontInv
<1>12. Follows
  <2>1. \A v \in Workers : /\ state_start[v] \in Nat
                           /\ state_start'[v] = IF v = w THEN seq ELSE state_start[v]
    BY <1>1, <1>2 DEF GatewayInv, FrontInv, FrontType
  <2>2. \A v \in Workers : state_start'[v] >= state_start[v]
    BY <1>2, <2>1
  <2>3. seq > state_start[w]
    BY <1>2
  <2>4. ASSUME NEW v \in Workers, NEW q \in DOMAIN state'[v]
        PROVE  \/ q \in DOMAIN state[v] /\ state'[v][q].req = state[v][q].req
               \/ q > state_start[v]
    BY <1>5, <2>3
  <2> QED BY <2>2, <2>4 DEF Follows
<1>13. pkg \in Package' /\ Genuine(w, pkg)'
  <2>1. pkg \in Package'
    <3>1. seq \in Nat \ {0}
      BY <1>2
    <3>2. r \in Asked'
      BY <1>4
    <3> HIDE DEF seq, r
    <3> QED BY <1>0, <3>1, <3>2 DEF Package
  <2>2. state_start'[w] = seq
    BY <1>1 DEF GatewayInv, FrontInv, FrontType
  <2> QED BY <1>0, <1>2, <1>5, <2>1, <2>2 DEF Genuine
<1>14. n \in 1..Len(links) /\ Owns(w, b, n)
  BY <1>1 DEF GatewayInv, LinkInv, LinksOK, Owns
<1> HIDE DEF r, seq, n
<1>15. /\ links' \in LinkSeq(Package') /\ Len(links') = Len(links)
       /\ \A m \in 1..Len(links) : m # n => links'[m] = links[m]
       /\ Carried(links'[n]) \subseteq Carried(links[n]) \cup {pkg}
  <2>1. links \in LinkSeq(Package')
    BY <1>4, PackagesGrow DEF GatewayInv, LinkInv
  <2>2. pkg \in Package' /\ n \in 1..Len(links)
    BY <1>13, <1>14
  <2>3. links' \in LinkSeq(Package')
    BY <1>1, <2>1, <2>2, SentStep
  <2>4. Len(links') = Len(links)
    BY <1>1, <2>1, <2>2, SentStep
  <2>5. \A m \in 1..Len(links) : m # n => links'[m] = links[m]
    BY <1>1, <2>1, <2>2, SentStep
  <2>6. Carried(links'[n]) \subseteq Carried(links[n]) \cup {pkg}
    BY <1>1, <2>1, <2>2, SentStep
  <2> QED BY <2>3, <2>4, <2>5, <2>6
<1>16. LinkType' /\ PoolType'
  <2>1. LinkType'
    BY <1>1, <1>15 DEF LinkType, LinkRec, LinkSeq, GatewayInv, LinkInv
  <2>2. PoolType'
    BY <1>1, <1>4, PackagesGrow, SeqMonotonic DEF PoolType, pool, GatewayInv, LinkInv, JobInv
  <2> QED BY <2>1, <2>2
<1>17. LinkInv'
  <2>1. ASSUME NEW m \in 1..Len(links), NEW v \in Workers, NEW c \in Backends,
               Owns(v, c, m), NEW p \in Carried(links'[m])
        PROVE  p \in Carried(links[m]) \/ Genuine(v, p)'
    <3>1. m = n => v = w
      BY <1>14, <2>1 DEF GatewayInv, LinkInv, LinksOK
    <3> QED BY <1>13, <1>15, <2>1, <3>1
  <2> QED BY <1>1, <1>11, <1>12, <1>15, <1>16, <2>1, LinksStep DEF GatewayInv, FrontInv
<1>18. JobInv'
  BY <1>1, <1>11, <1>12, <1>16, JobStep DEF GatewayInv, FrontInv
<1> QED BY <1>1, <1>11, <1>17, <1>18 DEF GatewayInv

\* An answer arrives at the worker: it is a genuine one.
LEMMA ReplyStep ==
  ASSUME GatewayInv, NEW w \in Workers, NEW b \in Backends, Reply(w, b)
  PROVE  GatewayInv'
<1>1. PICK n : n = clt[w][b].link
  OBVIOUS
<1>2. PICK pkg : pkg = Head(links[n].rep)
  OBVIOUS
<1>3. /\ clt[w][b].st = "connected" /\ links[n].rep # <<>>
      /\ links' = Queued(links, n, "rep", Tail(links[n].rep))
      /\ UNCHANGED <<ses, id_start, state_start, clt, rses, rid_start, pool, conns, faults>>
  BY <1>1 DEF Reply, Queued, back
<1>4. n \in 1..Len(links) /\ Owns(w, b, n)
  BY <1>1, <1>3 DEF GatewayInv, LinkInv, LinksOK, Owns
<1>5. links \in LinkSeq(Package) /\ links[n] \in LinkRec(Package)
  BY <1>4, ElementOfSeq DEF GatewayInv, LinkInv, LinkType, LinkSeq, LinkRec
<1>6. links[n].rep \in Seq(Package) /\ Range(links[n].rep) \subseteq Carried(links[n])
  BY <1>5 DEF LinkRec, Carried
<1>7. /\ Tail(links[n].rep) \in Seq(Package) /\ Range(Tail(links[n].rep)) \subseteq Carried(links[n])
      /\ pkg \in Carried(links[n])
  <2>1. Head(links[n].rep) \in Range(links[n].rep) /\ Range(Tail(links[n].rep)) \subseteq Range(links[n].rep)
    BY <1>3, <1>6, RangeTail
  <2>2. Tail(links[n].rep) \in Seq(Package)
    BY <1>3, <1>6
  <2> QED BY <1>2, <1>6, <2>1, <2>2
<1>8. Genuine(w, pkg)
  BY <1>4, <1>7 DEF GatewayInv, LinkInv, CarriedOK
<1>9. FrontInv' /\ Follows /\ Asked' = Asked
  <2>1. CASE pkg.seq \in DOMAIN state[w]
    <3>1. /\ Respond(w, state[w][pkg.seq], pkg.of) /\ pkg.of = state[w][pkg.seq].req
          /\ state' = [state EXCEPT ![w] = Without(state[w], pkg.seq)]
      BY <1>1, <1>2, <1>8, <2>1 DEF Reply, Genuine
    <3> QED BY <1>3, <2>1, <3>1, RespondStep DEF GatewayInv
  <2>2. CASE pkg.seq \notin DOMAIN state[w]
    <3>1. UNCHANGED <<state, requests>>
      BY <1>1, <1>2, <2>2 DEF Reply
    <3> QED BY <1>3, <3>1, FrontSame DEF GatewayInv, front
  <2> QED BY <2>1, <2>2
<1>10. Package' = Package
  BY <1>9 DEF Package
<1>11. PICK q : q = Tail(links[n].rep)
  OBVIOUS
<1>12. n \in 1..Len(links) /\ links \in LinkSeq(Package) /\ q \in Seq(Package)
  BY <1>4, <1>5, <1>7, <1>11
<1>13. links' = Queued(links, n, "rep", q)
  BY <1>3, <1>11
<1>14. /\ links' \in LinkSeq(Package) /\ Len(links') = Len(links)
       /\ \A m \in 1..Len(links) : Carried(links'[m]) \subseteq Carried(links[m])
  <2>1. links' \in LinkSeq(Package)
    BY <1>12, <1>13, QueueSet
  <2>2. Len(links') = Len(links)
    BY <1>12, <1>13, QueueSet
  <2>3. \A m \in 1..Len(links) : m # n => links'[m] = links[m]
    BY <1>12, <1>13, QueueSet
  <2>4. Carried(links'[n]) \subseteq Carried(links[n]) \cup Range(q)
    BY <1>12, <1>13, QueueSet
  <2> QED BY <1>7, <1>11, <2>1, <2>2, <2>3, <2>4
<1>15. LinkType'
  BY <1>3, <1>10, <1>14 DEF LinkType, LinkSeq, LinkRec, GatewayInv, LinkInv
<1>16. PoolType'
  BY <1>3, <1>9, <1>10 DEF PoolType, pool, Job, GatewayInv, JobInv
<1>17. LinkInv'
  BY <1>3, <1>9, <1>14, <1>15, LinksStep DEF GatewayInv, FrontInv
<1>18. JobInv'
  BY <1>3, <1>9, <1>16, JobStep DEF GatewayInv, FrontInv
<1> QED BY <1>3, <1>9, <1>17, <1>18 DEF GatewayInv
------------------------------------------------------------------------------
(* Links and sessions end.                                                   *)

CltRec == [st : {"closed", "connecting", "connected"}, timer : {"none", "reconnect", "watch"},
           link : 0..Len(links)]
RsesRec == [id : Nat, of : 0..Len(links)]

\* Whatever ends, what is left is as it was: links that lose what they carried,
\* clients that are not connected, sessions that are free, jobs that are gone.
LEMMA EndStep ==
  ASSUME GatewayInv, FrontInv', Asked' = Asked, faults' \in Nat,
         \A v \in Workers : \/ state'[v] = state[v] /\ state_start'[v] = state_start[v]
                            \/ \A b \in Backends : clt'[v][b].st # "connected",
         links' \in LinkSeq(Package), Len(links') = Len(links),
         \A n \in 1..Len(links) : Carried(links'[n]) \subseteq Carried(links[n]),
         clt' \in [Workers -> [Backends -> CltRec]],
         \A v \in Workers, b \in Backends :
           clt'[v][b].st = "connected" => clt'[v][b] = clt[v][b],
         rses' \in [Backends -> [Slots -> RsesRec]], rid_start' \in [Backends -> Nat],
         \A b \in Backends, s \in Slots :
           rses'[b][s].id # 0 => rses'[b][s] = rses[b][s] /\ rid_start'[b] = rid_start[b],
         \/ UNCHANGED pool /\ rid_start'[ReadHistory] = rid_start[ReadHistory]
         \/ AllJobsLost
  PROVE  GatewayInv'
<1>1. Package' = Package /\ Job' = Job
  BY DEF Package, Job
<1>2. LinkType'
  BY <1>1 DEF LinkType, LinkSeq, LinkRec, CltRec, RsesRec
<1>3. LinksOK'
  <2>1. /\ \A w \in Workers, b \in Backends :
             clt[w][b].st = "connected" => clt[w][b].link \in 1..Len(links)
        /\ \A b \in Backends, s \in Slots :
             rses[b][s].id # 0 => rses[b][s].id < rid_start[b] /\ rses[b][s].of \in 1..Len(links)
        /\ \A n \in 1..Len(links), v \in Workers, w \in Workers, b \in Backends, c \in Backends :
             Owns(v, b, n) /\ Owns(w, c, n) => v = w /\ b = c
    BY DEF LinksOK, GatewayInv, LinkInv
  <2>2. ASSUME NEW w \in Workers, NEW b \in Backends, clt'[w][b].st = "connected"
        PROVE  clt'[w][b].link \in 1..Len(links')
    <3>1. clt'[w][b] = clt[w][b]
      BY <2>2
    <3> QED BY <2>1, <2>2, <3>1
  <2>3. ASSUME NEW b \in Backends, NEW s \in Slots, rses'[b][s].id # 0
        PROVE  rses'[b][s].id < rid_start'[b] /\ rses'[b][s].of \in 1..Len(links')
    <3>1. rses'[b][s] = rses[b][s] /\ rid_start'[b] = rid_start[b]
      BY <2>3
    <3> QED BY <2>1, <2>3, <3>1
  <2>4. \A w \in Workers, b \in Backends : \A n : Owns(w, b, n)' => Owns(w, b, n)
    BY DEF Owns
  <2>5. \A n \in 1..Len(links'), v \in Workers, w \in Workers, b \in Backends, c \in Backends :
          Owns(v, b, n)' /\ Owns(w, c, n)' => v = w /\ b = c
    BY <2>1, <2>4
  <2> QED BY <2>2, <2>3, <2>5 DEF LinksOK
<1>4. ASSUME NEW v \in Workers, NEW b \in Backends, NEW n, NEW pkg, Owns(v, b, n)', Genuine(v, pkg)
      PROVE  Owns(v, b, n) /\ Genuine(v, pkg)'
  BY <1>4 DEF Owns, Genuine
<1>5. CarriedOK'
  <2> SUFFICES ASSUME NEW n \in 1..Len(links), NEW v \in Workers, NEW b \in Backends,
                      Owns(v, b, n)', NEW pkg \in Carried(links'[n])
               PROVE  Genuine(v, pkg)'
    BY DEF CarriedOK
  <2>1. Owns(v, b, n)
    BY DEF Owns
  <2>2. Genuine(v, pkg)
    BY <2>1 DEF GatewayInv, LinkInv, CarriedOK
  <2> QED BY <1>4, <2>2
<1>6. ASSUME UNCHANGED pool, rid_start'[ReadHistory] = rid_start[ReadHistory]
      PROVE  JobInv'
  <2>1. PoolType' /\ Jobs' = Jobs /\ Woken'
    BY <1>1, <1>6 DEF PoolType, Jobs, Woken, pool, GatewayInv, JobInv
  <2>2. JobsOK'
    <3> SUFFICES ASSUME NEW job \in Jobs
                 PROVE  /\ job.ses_id < rid_start[ReadHistory]
                        /\ rses'[ReadHistory][job.ses].id = job.ses_id =>
                             \A w \in Workers, b \in Backends :
                               Owns(w, b, rses[ReadHistory][job.ses].of)' => Genuine(w, job.pkg)'
      <4>1. Jobs' = Jobs
        BY <2>1
      <4> QED BY <1>6, <4>1 DEF JobsOK
    <3>1. job.ses \in Slots /\ job.ses_id # 0
      BY JobTypes DEF Job, GatewayInv, JobInv
    <3>2. rses'[ReadHistory][job.ses].id = job.ses_id =>
            rses'[ReadHistory][job.ses] = rses[ReadHistory][job.ses]
      BY <3>1
    <3>3. job.ses_id < rid_start[ReadHistory]
      BY DEF GatewayInv, JobInv, JobsOK
    <3>4. ASSUME rses'[ReadHistory][job.ses].id = job.ses_id, NEW w \in Workers, NEW b \in Backends,
                 Owns(w, b, rses[ReadHistory][job.ses].of)'
          PROVE  Genuine(w, job.pkg)'
      <4>1. PICK n : n = rses[ReadHistory][job.ses].of
        OBVIOUS
      <4>2. Owns(w, b, n)' /\ Owns(w, b, n)
        BY <3>2, <3>4, <4>1 DEF Owns
      <4>3. Genuine(w, job.pkg)
        BY <3>2, <3>4, <4>1, <4>2 DEF GatewayInv, JobInv, JobsOK
      <4> QED BY <1>4, <4>2, <4>3
    <3> QED BY <3>3, <3>4
  <2> QED BY <2>1, <2>2 DEF JobInv
<1>7. ASSUME AllJobsLost
      PROVE  JobInv'
  <2>1. Jobs' = {}
    BY <1>7, RangeEmpty DEF AllJobsLost, Jobs
  <2>2. PoolType'
    <3>1. request_list' \in Seq(Job') /\ reply_list' \in Seq(Job')
      BY <1>7, EmptySeq DEF AllJobsLost
    <3> QED BY <1>7, <3>1 DEF AllJobsLost, PoolType
  <2>3. Woken'
    BY <1>7 DEF AllJobsLost, Woken
  <2>4. JobsOK'
    BY <2>1 DEF JobsOK
  <2> QED BY <2>2, <2>3, <2>4 DEF JobInv
<1> QED BY <1>2, <1>3, <1>5, <1>6, <1>7 DEF GatewayInv, LinkInv

\* A link that is down and has lost a queue is still a link.
LEMMA RecEnds ==
  ASSUME NEW P, NEW l \in LinkRec(P), NEW way \in {"req", "rep"}
  PROVE  [l EXCEPT !.up = FALSE, ![way] = <<>>] \in LinkRec(P)
<1>1. PICK e : e = <<>>
  OBVIOUS
<1>2. e \in Seq(P)
  BY <1>1, EmptySeq
<1>3. [l EXCEPT !.up = FALSE, ![way] = e] \in LinkRec(P)
  BY <1>2 DEF LinkRec
<1> QED BY <1>1, <1>3

\* An end of a link is closed.
LEMMA LinkEnds ==
  ASSUME NEW P, links \in LinkSeq(P), NEW n \in 1..Len(links), NEW way \in {"req", "rep"}
  PROVE  LET ls == [links EXCEPT ![n].up = FALSE, ![n][way] = <<>>]
         IN  /\ ls \in LinkSeq(P) /\ Len(ls) = Len(links)
             /\ \A m \in 1..Len(links) : Carried(ls[m]) \subseteq Carried(links[m])
<1>1. links[n] \in LinkRec(P)
  BY ElementOfSeq DEF LinkSeq
<1> DEFINE l == [links[n] EXCEPT !.up = FALSE, ![way] = <<>>]
<1>2. l \in LinkRec(P)
  BY <1>1, RecEnds
<1>3. Carried(l) \subseteq Carried(links[n])
  BY <1>1, RangeEmpty DEF LinkRec, Carried
<1>4. [links EXCEPT ![n].up = FALSE, ![n][way] = <<>>] = [links EXCEPT ![n] = l]
  BY <1>1 DEF LinkSeq
<1> HIDE DEF l
<1>5. /\ [links EXCEPT ![n] = l] \in LinkSeq(P) /\ Len([links EXCEPT ![n] = l]) = Len(links)
      /\ \A m \in 1..Len(links) : [links EXCEPT ![n] = l][m] = IF m = n THEN l ELSE links[m]
  BY <1>2, ExceptSeq DEF LinkSeq
<1> QED BY <1>3, <1>4, <1>5

\* All links of a process are.
LEMMA LinksAbandoned ==
  ASSUME NEW P, links \in LinkSeq(P), NEW ns, NEW way \in {"req", "rep"}
  PROVE  /\ Abandoned(ns, way) \in LinkSeq(P) /\ Len(Abandoned(ns, way)) = Len(links)
         /\ \A m \in 1..Len(links) : Carried(Abandoned(ns, way)[m]) \subseteq Carried(links[m])
<1>1. DOMAIN links = 1..Len(links) /\ Len(links) \in Nat
  BY DEF LinkSeq
<1>2. ASSUME NEW m \in 1..Len(links)
      PROVE  Abandoned(ns, way)[m] \in LinkRec(P) /\ Carried(Abandoned(ns, way)[m]) \subseteq Carried(links[m])
  <2>1. links[m] \in LinkRec(P)
    BY ElementOfSeq DEF LinkSeq
  <2> DEFINE l == [links[m] EXCEPT !.up = FALSE, ![way] = <<>>]
  <2>2. l \in LinkRec(P)
    BY <2>1, RecEnds
  <2>3. Carried(l) \subseteq Carried(links[m])
    BY <2>1, RangeEmpty DEF LinkRec, Carried
  <2>4. Abandoned(ns, way)[m] = IF m \in ns THEN l ELSE links[m]
    BY <1>1 DEF Abandoned
  <2> HIDE DEF l
  <2> QED BY <2>1, <2>2, <2>3, <2>4
<1>3. Abandoned(ns, way) \in [1..Len(links) -> LinkRec(P)]
  <2>1. Abandoned(ns, way) = [m \in 1..Len(links) |-> Abandoned(ns, way)[m]]
    BY <1>1 DEF Abandoned
  <2> QED BY <1>2, <2>1
<1>4. Abandoned(ns, way) \in LinkSeq(P) /\ Len(Abandoned(ns, way)) = Len(links)
  BY <1>1, <1>3 DEF LinkSeq
<1> QED BY <1>2, <1>4

\* A client is closed or started.
LEMMA ClientSet ==
  ASSUME LinkType, NEW w \in Workers, NEW b \in Backends,
         NEW c \in {Connecting, Closed("none"), Closed("reconnect")},
         clt' = [clt EXCEPT ![w][b] = c]
  PROVE  /\ clt' \in [Workers -> [Backends -> CltRec]]
         /\ \A v \in Workers, d \in Backends :
              clt'[v][d].st = "connected" => clt'[v][d] = clt[v][d]
<1>1. c \in CltRec /\ c.st # "connected"
  BY DEF CltRec, Connecting, Closed, LinkType
<1>2. clt \in [Workers -> [Backends -> CltRec]]
  BY DEF LinkType, CltRec
<1> QED BY <1>1, <1>2

\* nw_clt_start does one of three things.
LEMMA StartsAre == Starts \subseteq {Connecting, Closed("none"), Closed("reconnect")}
BY DEF Starts, reconnect_later

\* The parts of what EndStep asks for.
LinksFewer ==
  /\ links' \in LinkSeq(Package) /\ Len(links') = Len(links)
  /\ \A n \in 1..Len(links) : Carried(links'[n]) \subseteq Carried(links[n])

ClientsFewer ==
  /\ clt' \in [Workers -> [Backends -> CltRec]]
  /\ \A v \in Workers, b \in Backends :
       clt'[v][b].st = "connected" => clt'[v][b] = clt[v][b]

SessionsFewer ==
  /\ rses' \in [Backends -> [Slots -> RsesRec]] /\ rid_start' \in [Backends -> Nat]
  /\ \A b \in Backends, s \in Slots :
       rses'[b][s].id # 0 => rses'[b][s] = rses[b][s] /\ rid_start'[b] = rid_start[b]
  /\ \/ UNCHANGED pool /\ rid_start'[ReadHistory] = rid_start[ReadHistory]
     \/ AllJobsLost

\* Ends that no client and no entry notices.
LEMMA QuietEnd ==
  ASSUME GatewayInv, UNCHANGED <<front, conns, requests>>, faults' \in Nat,
         LinksFewer, ClientsFewer, SessionsFewer
  PROVE  GatewayInv'
<1>1. FrontInv' /\ Asked' = Asked
  BY FrontSame DEF GatewayInv
<1>2. \A v \in Workers : state'[v] = state[v] /\ state_start'[v] = state_start[v]
  BY DEF front
<1> QED BY <1>1, <1>2, EndStep DEF LinksFewer, ClientsFewer, SessionsFewer

\* What a step leaves alone.
LEMMA LinkTypes == ASSUME GatewayInv PROVE links \in LinkSeq(Package)
BY DEF GatewayInv, LinkInv, LinkType, LinkSeq, LinkRec

LEMMA LinksSame == ASSUME GatewayInv, UNCHANGED links PROVE LinksFewer
BY LinkTypes DEF LinksFewer

LEMMA ClientsSame == ASSUME GatewayInv, UNCHANGED clt PROVE ClientsFewer
BY DEF ClientsFewer, GatewayInv, LinkInv, LinkType, CltRec

LEMMA SessionsSame == ASSUME GatewayInv, UNCHANGED <<rses, rid_start, pool>> PROVE SessionsFewer
BY DEF SessionsFewer, GatewayInv, LinkInv, LinkType, RsesRec

LEMMA FaultCounted == ASSUME GatewayInv, NEW kind, Fault(kind) PROVE faults' \in Nat
BY DEF GatewayInv, Fault

\* A link breaks, and keeps what it carries.
LEMMA CutStep ==
  ASSUME GatewayInv, NEW n \in DOMAIN links, Cut(n)
  PROVE  GatewayInv'
<1>1. /\ links' = [links EXCEPT ![n].up = FALSE] /\ Fault("cut")
      /\ UNCHANGED <<front, clt, rses, rid_start, pool, conns, requests>>
  BY DEF Cut, back
<1>2. links \in LinkSeq(Package) /\ n \in 1..Len(links)
  BY LinkTypes DEF LinkSeq
<1>3. links[n] \in LinkRec(Package)
  BY <1>2, ElementOfSeq DEF LinkSeq
<1> DEFINE l == [links[n] EXCEPT !.up = FALSE]
<1>4. l \in LinkRec(Package) /\ Carried(l) \subseteq Carried(links[n])
  BY <1>3 DEF LinkRec, Carried
<1>5. links' = [links EXCEPT ![n] = l]
  BY <1>1, <1>2, <1>3
<1> HIDE DEF l
<1>6. LinksFewer
  BY <1>2, <1>4, <1>5, ExceptSeq DEF LinksFewer, LinkSeq
<1> QED BY <1>1, <1>6, ClientsSame, SessionsSame, FaultCounted, QuietEnd

\* A client is closed or started, and perhaps its link ends.
LEMMA ClientStep ==
  ASSUME GatewayInv, UNCHANGED <<front, conns, requests, rses, rid_start, pool>>, faults' \in Nat,
         NEW w \in Workers, NEW b \in Backends,
         \E c \in {Connecting, Closed("none"), Closed("reconnect")} : clt' = [clt EXCEPT ![w][b] = c],
         \/ UNCHANGED links
         \/ clt[w][b].st = "connected" /\ links' = Hung(clt[w][b].link)
  PROVE  GatewayInv'
<1>1. ClientsFewer
  BY ClientSet DEF ClientsFewer, GatewayInv, LinkInv
<1>2. LinksFewer
  <2>1. CASE UNCHANGED links
    BY <2>1, LinksSame
  <2>2. CASE clt[w][b].st = "connected" /\ links' = Hung(clt[w][b].link)
    <3>1. clt[w][b].link \in 1..Len(links)
      BY <2>2 DEF GatewayInv, LinkInv, LinksOK
    <3> QED BY <2>2, <3>1, LinkTypes, LinkEnds DEF LinksFewer, Hung
  <2> QED BY <2>1, <2>2
<1> QED BY <1>1, <1>2, SessionsSame, QuietEnd

\* nw_clt_start changes the client to one of the three.
LEMMA StartStep ==
  ASSUME NEW w \in Workers, NEW b \in Backends, nw_clt_start(w, b)
  PROVE  \E c \in {Connecting, Closed("none"), Closed("reconnect")} : clt' = [clt EXCEPT ![w][b] = c]
BY StartsAre DEF nw_clt_start

\* The timers of a client and the events that close it.
LEMMA ClientActions ==
  ASSUME GatewayInv, NEW w \in Workers, NEW b \in Backends,
         \/ ConnectFailed(w, b) \/ ConnectTimeout(w, b) \/ ReconnectTimeout(w, b)
         \/ LinkClosed(w, b) \/ HeartbeatTimeout(w, b)
  PROVE  GatewayInv'
<1>1. CASE ConnectFailed(w, b)
  BY <1>1, FaultCounted, ClientStep DEF ConnectFailed, reconnect_later, back
<1>2. CASE ConnectTimeout(w, b)
  BY <1>2, FaultCounted, StartStep, ClientStep DEF ConnectTimeout, back
<1>3. CASE ReconnectTimeout(w, b)
  <2>1. faults' \in Nat
    BY <1>3 DEF ReconnectTimeout, GatewayInv
  <2> QED BY <1>3, <2>1, StartStep, ClientStep DEF ReconnectTimeout, back
<1>4. CASE LinkClosed(w, b)
  <2>1. faults' \in Nat
    BY <1>4 DEF LinkClosed, GatewayInv
  <2> QED BY <1>4, <2>1, ClientStep DEF LinkClosed, reconnect_later, back
<1>5. CASE HeartbeatTimeout(w, b)
  BY <1>5, FaultCounted, StartStep, ClientStep DEF HeartbeatTimeout, back
<1> QED BY <1>1, <1>2, <1>3, <1>4, <1>5

\* A backend closes a session: what its link carried to it is lost.
LEMMA CloseSessionStep ==
  ASSUME GatewayInv, NEW b \in Backends, NEW s \in Slots, CloseSession(b, s), faults' \in Nat
  PROVE  GatewayInv'
<1>1. PICK n : n = rses[b][s].of
  OBVIOUS
<1>2. /\ rses[b][s].id # 0
      /\ links' = [links EXCEPT ![n].up = FALSE, ![n].req = <<>>]
      /\ rses' = [rses EXCEPT ![b][s] = Free]
      /\ UNCHANGED <<front, clt, rid_start, pool, conns, requests>>
  BY <1>1 DEF CloseSession
<1>3. n \in 1..Len(links)
  BY <1>1, <1>2 DEF GatewayInv, LinkInv, LinksOK
<1>4. LinksFewer
  BY <1>2, <1>3, LinkTypes, LinkEnds DEF LinksFewer
<1>5. SessionsFewer
  <2>1. rses \in [Backends -> [Slots -> RsesRec]] /\ rid_start \in [Backends -> Nat]
    BY DEF GatewayInv, LinkInv, LinkType, RsesRec
  <2>2. Free \in RsesRec /\ Free.id = 0
    BY LinkTypes DEF Free, RsesRec, LinkSeq
  <2>3. rses' \in [Backends -> [Slots -> RsesRec]]
    BY <1>2, <2>1, <2>2
  <2>4. \A c \in Backends, t \in Slots : rses'[c][t].id # 0 => rses'[c][t] = rses[c][t]
    BY <1>2, <2>1, <2>2
  <2> QED BY <1>2, <2>1, <2>3, <2>4 DEF SessionsFewer
<1> QED BY <1>2, <1>4, <1>5, ClientsSame, QuietEnd

\* A backend that begins again has no sessions and no jobs, so that it may number
\* sessions from the beginning.
LEMMA BackendRestartStep ==
  ASSUME GatewayInv, NEW b \in Backends, BackendRestart(b)
  PROVE  GatewayInv'
<1>1. /\ rses' = [rses EXCEPT ![b] = [s \in Slots |-> Free]]
      /\ rid_start' = [rid_start EXCEPT ![b] = 0]
      /\ Fault("backend") /\ UNCHANGED <<front, clt, conns, requests>>
      /\ b = ReadHistory => AllJobsLost
      /\ b # ReadHistory => UNCHANGED pool
      /\ links' = Abandoned({rses[b][s].of : s \in Slots}, "req")
  BY DEF BackendRestart
<1>2. LinksFewer
  BY <1>1, LinkTypes, LinksAbandoned DEF LinksFewer
<1>3. SessionsFewer
  <2>1. rses \in [Backends -> [Slots -> RsesRec]] /\ rid_start \in [Backends -> Nat]
    BY DEF GatewayInv, LinkInv, LinkType, RsesRec
  <2>2. Free \in RsesRec /\ Free.id = 0
    BY LinkTypes DEF Free, RsesRec, LinkSeq
  <2>3. rses' \in [Backends -> [Slots -> RsesRec]] /\ rid_start' \in [Backends -> Nat]
    BY <1>1, <2>1, <2>2
  <2>4. \A c \in Backends, t \in Slots :
          rses'[c][t].id # 0 => rses'[c][t] = rses[c][t] /\ rid_start'[c] = rid_start[c]
    BY <1>1, <2>1, <2>2
  <2>5. \/ UNCHANGED pool /\ rid_start'[ReadHistory] = rid_start[ReadHistory]
        \/ AllJobsLost
    BY <1>1, <2>1
  <2> QED BY <2>3, <2>4, <2>5 DEF SessionsFewer
<1> QED BY <1>1, <1>2, <1>3, ClientsSame, FaultCounted, QuietEnd

\* A worker that begins again has no entries, and owns no link.
LEMMA WorkerRestartStep ==
  ASSUME GatewayInv, NEW w \in Workers, WorkerRestart(w)
  PROVE  GatewayInv'
<1>1. /\ ses' = [ses EXCEPT ![w] = [s \in ClientSlots |-> Free]]
      /\ id_start' = [id_start EXCEPT ![w] = 0]
      /\ state' = [state EXCEPT ![w] = <<>>]
      /\ state_start' = [state_start EXCEPT ![w] = 0]
      /\ links' = Abandoned({clt[w][b].link : b \in Backends}, "rep")
      /\ clt' = [clt EXCEPT ![w] = [b \in Backends |-> Connecting]]
      /\ Fault("worker") /\ UNCHANGED <<rses, rid_start, pool, conns, requests>>
  BY DEF WorkerRestart, back
<1>2. LinksFewer
  BY <1>1, LinkTypes, LinksAbandoned DEF LinksFewer
<1>3. ClientsFewer /\ \A b \in Backends : clt'[w][b].st # "connected"
  <2>1. clt \in [Workers -> [Backends -> CltRec]]
    BY DEF GatewayInv, LinkInv, LinkType, CltRec
  <2>2. Connecting \in CltRec /\ Connecting.st # "connected"
    BY LinkTypes DEF Connecting, CltRec, LinkSeq
  <2>3. clt' \in [Workers -> [Backends -> CltRec]]
    BY <1>1, <2>1, <2>2
  <2>4. \A v \in Workers, b \in Backends : clt'[v][b] = IF v = w THEN Connecting ELSE clt[v][b]
    BY <1>1, <2>1
  <2> QED BY <2>2, <2>3, <2>4 DEF ClientsFewer
<1>4. \A v \in Workers :
        /\ state'[v] = IF v = w THEN <<>> ELSE state[v]
        /\ state_start'[v] = IF v = w THEN 0 ELSE state_start[v]
        /\ id_start'[v] = IF v = w THEN 0 ELSE id_start[v]
        /\ \A s \in ClientSlots : ses'[v][s] = IF v = w THEN Free ELSE ses[v][s]
  BY <1>1 DEF GatewayInv, FrontInv, FrontType
<1>5. DOMAIN <<>> = {}
  OBVIOUS
<1>6. FrontType'
  <2>1. ses' \in [Workers -> [ClientSlots -> Session]]
    BY <1>1 DEF GatewayInv, FrontInv, FrontType, Free, Session
  <2>2. /\ id_start' \in [Workers -> Nat] /\ state_start' \in [Workers -> Nat]
        /\ DOMAIN state' = Workers
    BY <1>1 DEF GatewayInv, FrontInv, FrontType
  <2>3. ASSUME NEW v \in Workers, NEW q \in DOMAIN state'[v]
        PROVE  /\ q \in 1..state_start'[v]
               /\ state'[v][q] \in [ses : ClientSlots, ses_id : 1..id_start'[v], req : Asked']
    <3>1. v # w
      BY <1>4, <1>5
    <3> QED BY <1>1, <1>4, <3>1 DEF GatewayInv, FrontInv, FrontType, Asked
  <2> QED BY <1>1, <2>1, <2>2, <2>3 DEF GatewayInv, FrontInv, FrontType
<1>7. SessionsOK'
  BY <1>1, <1>4 DEF GatewayInv, FrontInv, SessionsOK, Free
<1>8. EntriesOK'
  <2> SUFFICES ASSUME NEW v \in Workers, NEW q \in DOMAIN state'[v]
               PROVE  /\ state'[v][q].ses_id < id_start'[v]
                      /\ requests[state'[v][q].req].got = <<>>
                      /\ ses'[v][state'[v][q].ses].id = state'[v][q].ses_id =>
                           ses'[v][state'[v][q].ses].of = requests[state'[v][q].req].conn
    BY <1>1 DEF EntriesOK
  <2>1. v # w
    BY <1>4, <1>5
  <2>2. state'[v] = state[v] /\ id_start'[v] = id_start[v] /\ ses'[v] = ses[v]
    BY <1>1, <2>1 DEF GatewayInv, FrontInv, FrontType
  <2> QED BY <2>2 DEF GatewayInv, FrontInv, EntriesOK
<1>9. EntriesDistinct'
  <2>1. \A v \in Workers : \A q \in DOMAIN state'[v] :
          q \in DOMAIN state[v] /\ state'[v][q] = state[v][q]
    BY <1>4, <1>5
  <2> QED BY <2>1 DEF GatewayInv, FrontInv, EntriesDistinct
<1>10. AnswersAsker' /\ Asked' = Asked
  BY <1>1 DEF GatewayInv, FrontInv, AnswersAsker, Asked
<1>11. FrontInv'
  BY <1>6, <1>7, <1>8, <1>9, <1>10 DEF FrontInv
<1>12. \A v \in Workers : \/ state'[v] = state[v] /\ state_start'[v] = state_start[v]
                          \/ \A b \in Backends : clt'[v][b].st # "connected"
  BY <1>3, <1>4
<1>13. SessionsFewer /\ faults' \in Nat
  BY <1>1, SessionsSame, FaultCounted
<1> QED BY <1>2, <1>3, <1>10, <1>11, <1>12, <1>13, EndStep DEF LinksFewer, ClientsFewer, SessionsFewer
------------------------------------------------------------------------------
(* Backends.                                                                 *)

\* A connection is made: a new link with nothing on it, and a session with a new
\* number.
LEMMA ConnectedStep ==
  ASSUME GatewayInv, NEW w \in Workers, NEW b \in Backends, NEW s \in Slots, Connected(w, b, s)
  PROVE  GatewayInv'
<1>1. PICK k : k = Len(links) + 1
  OBVIOUS
<1>2. PICK new : new = [up |-> TRUE, req |-> <<>>, rep |-> <<>>]
  OBVIOUS
<1>3. /\ links \in LinkSeq(Package) /\ new \in LinkRec(Package) /\ Carried(new) = {}
  <2>1. new \in LinkRec(Package)
    BY <1>2, EmptySeq DEF LinkRec
  <2>2. Carried(new) = {}
    BY <1>2, RangeEmpty DEF Carried
  <2> QED BY <2>1, <2>2, LinkTypes
<1>4. links' = Append(links, new)
  BY <1>2 DEF Connected
<1>5. /\ links' \in LinkSeq(Package) /\ Len(links') = k /\ Len(links) \in Nat
      /\ \A n \in 1..Len(links) : links'[n] = links[n]
      /\ links'[k] = new
  BY <1>1, <1>3, <1>4 DEF LinkSeq
<1>6. PICK id : id = NextId(rid_start[b])
  OBVIOUS
<1>7. /\ clt' = [clt EXCEPT ![w] = [clt[w] EXCEPT ![b] = [st |-> "connected", timer |-> "watch", link |-> k]]]
      /\ rses' = [rses EXCEPT ![b] = [rses[b] EXCEPT ![s] = [id |-> id, of |-> k]]]
      /\ rid_start' = [rid_start EXCEPT ![b] = id + 1]
      /\ UNCHANGED <<front, pool, conns, requests, faults>>
  BY <1>5, <1>6 DEF Connected
<1>8. rid_start[b] \in Nat /\ id \in Nat \ {0} /\ id >= rid_start[b]
  BY <1>6 DEF GatewayInv, LinkInv, LinkType, NextId
<1>9. FrontInv' /\ Follows /\ Asked' = Asked /\ Package' = Package
  BY <1>7, FrontSame DEF GatewayInv, Package
<1>10. \A v \in Workers, c \in Backends :
         clt'[v][c] = IF v = w /\ c = b THEN [st |-> "connected", timer |-> "watch", link |-> k]
                      ELSE clt[v][c]
  BY <1>7 DEF GatewayInv, LinkInv, LinkType
<1>11. /\ \A c \in Backends, t \in Slots :
             rses'[c][t] = IF c = b /\ t = s THEN [id |-> id, of |-> k] ELSE rses[c][t]
       /\ \A c \in Backends : rid_start'[c] = IF c = b THEN id + 1 ELSE rid_start[c]
  BY <1>7 DEF GatewayInv, LinkInv, LinkType
<1>12. LinkType'
  <2>1. 0..Len(links) \subseteq 0..Len(links') /\ k \in 0..Len(links')
    BY <1>1, <1>5
  <2>2. clt \in [Workers -> [Backends -> CltRec]] /\ CltRec \subseteq CltRec'
    BY <2>1 DEF GatewayInv, LinkInv, LinkType, CltRec
  <2>3. rses \in [Backends -> [Slots -> RsesRec]] /\ RsesRec \subseteq RsesRec'
    BY <2>1 DEF GatewayInv, LinkInv, LinkType, RsesRec
  <2>4. clt' \in [Workers -> [Backends -> CltRec']]
    <3>1. [st |-> "connected", timer |-> "watch", link |-> k] \in CltRec'
      BY <2>1 DEF CltRec
    <3> QED BY <1>7, <2>2, <3>1
  <2>5. rses' \in [Backends -> [Slots -> RsesRec']]
    <3>1. [id |-> id, of |-> k] \in RsesRec'
      BY <1>8, <2>1 DEF RsesRec
    <3> QED BY <1>7, <2>3, <3>1
  <2>6. rid_start' \in [Backends -> Nat]
    BY <1>7, <1>8 DEF GatewayInv, LinkInv, LinkType
  <2> QED BY <1>5, <1>9, <2>4, <2>5, <2>6 DEF LinkType, CltRec, RsesRec, LinkSeq, LinkRec
<1>13. \A v \in Workers, c \in Backends : \A n :
         Owns(v, c, n)' => \/ v = w /\ c = b /\ n = k
                           \/ Owns(v, c, n) /\ n \in 1..Len(links)
  BY <1>10 DEF Owns, GatewayInv, LinkInv, LinksOK
<1>14. LinksOK'
  <2>1. \A v \in Workers, c \in Backends :
          clt'[v][c].st = "connected" => clt'[v][c].link \in 1..Len(links')
    BY <1>1, <1>5, <1>10 DEF GatewayInv, LinkInv, LinksOK
  <2>2. \A c \in Backends, t \in Slots :
          rses'[c][t].id # 0 => rses'[c][t].id < rid_start'[c] /\ rses'[c][t].of \in 1..Len(links')
    <3> SUFFICES ASSUME NEW c \in Backends, NEW t \in Slots, rses'[c][t].id # 0
                 PROVE  rses'[c][t].id < rid_start'[c] /\ rses'[c][t].of \in 1..Len(links')
      OBVIOUS
    <3>1. CASE c = b /\ t = s
      BY <1>1, <1>5, <1>8, <1>11, <3>1
    <3>2. CASE ~(c = b /\ t = s)
      <4>1. rses'[c][t] = rses[c][t]
        BY <1>11, <3>2
      <4>2. rses[c][t].id < rid_start[c] /\ rses[c][t].of \in 1..Len(links)
        BY <4>1 DEF GatewayInv, LinkInv, LinksOK
      <4>3. rses[c][t].id \in Nat /\ rid_start[c] \in Nat /\ rid_start'[c] >= rid_start[c]
        <5>1. rses[c][t].id \in Nat /\ rid_start[c] \in Nat
          BY DEF GatewayInv, LinkInv, LinkType
        <5> QED BY <1>8, <1>11, <5>1
      <4>4. rid_start'[c] \in Nat
        BY <1>8, <1>11, <4>3
      <4> QED BY <1>1, <1>5, <4>1, <4>2, <4>3, <4>4
    <3> QED BY <3>1, <3>2
  <2>3. \A n \in 1..Len(links'), u \in Workers, v \in Workers, c \in Backends, d \in Backends :
          Owns(u, c, n)' /\ Owns(v, d, n)' => u = v /\ c = d
    BY <1>1, <1>5, <1>13 DEF GatewayInv, LinkInv, LinksOK
  <2> QED BY <2>1, <2>2, <2>3 DEF LinksOK
<1>15. \A v \in Workers : \A p : Genuine(v, p)' <=> Genuine(v, p)
  BY <1>7 DEF Genuine, front
<1>16. CarriedOK'
  <2> SUFFICES ASSUME NEW n \in 1..Len(links'), NEW v \in Workers, NEW c \in Backends,
                      Owns(v, c, n)', NEW p \in Carried(links'[n])
               PROVE  Genuine(v, p)
    BY <1>15 DEF CarriedOK
  <2>1. n # k
    BY <1>3, <1>5
  <2>2. Owns(v, c, n) /\ n \in 1..Len(links)
    BY <1>13, <2>1
  <2> QED BY <1>5, <2>2 DEF GatewayInv, LinkInv, CarriedOK
<1>17. PoolType' /\ Woken' /\ Jobs' = Jobs
  BY <1>7, <1>9 DEF PoolType, Woken, Jobs, Job, pool, GatewayInv, JobInv
<1>18. JobsOK'
  <2> SUFFICES ASSUME NEW job \in Jobs
               PROVE  /\ job.ses_id < rid_start'[ReadHistory]
                      /\ rses'[ReadHistory][job.ses].id = job.ses_id =>
                           \A v \in Workers, c \in Backends :
                             Owns(v, c, rses[ReadHistory][job.ses].of)' => Genuine(v, job.pkg)
    BY <1>15, <1>17 DEF JobsOK
  <2>1. job.ses \in Slots /\ job.ses_id \in Nat \ {0}
    BY JobTypes DEF Job, GatewayInv, JobInv
  <2>2. job.ses_id < rid_start[ReadHistory] /\ rid_start[ReadHistory] \in Nat
    BY DEF GatewayInv, JobInv, JobsOK, LinkInv, LinkType
  <2>3. job.ses_id < rid_start'[ReadHistory]
    BY <1>8, <1>11, <2>1, <2>2
  <2>4. ASSUME rses'[ReadHistory][job.ses].id = job.ses_id, NEW v \in Workers, NEW c \in Backends,
               Owns(v, c, rses[ReadHistory][job.ses].of)'
        PROVE  Genuine(v, job.pkg)
    <3>1. rses'[ReadHistory][job.ses] = rses[ReadHistory][job.ses]
      <4>1. ~(b = ReadHistory /\ job.ses = s)
        BY <1>8, <1>11, <2>1, <2>2, <2>4
      <4> QED BY <1>11, <2>1, <4>1
    <3>2. PICK n : n = rses[ReadHistory][job.ses].of
      OBVIOUS
    <3>3. Owns(v, c, n)' /\ n \in 1..Len(links)
      <4>1. n \in 1..Len(links)
        BY <2>1, <2>4, <3>1, <3>2 DEF GatewayInv, LinkInv, LinksOK
      <4> QED BY <2>4, <3>1, <3>2, <4>1 DEF Owns
    <3>4. Owns(v, c, n)
      BY <1>1, <1>5, <1>13, <3>3
    <3> QED BY <2>4, <3>1, <3>2, <3>4 DEF GatewayInv, JobInv, JobsOK
  <2> QED BY <2>3, <2>4
<1> QED BY <1>7, <1>9, <1>12, <1>14, <1>16, <1>17, <1>18 DEF GatewayInv, LinkInv, JobInv

\* The first package of a queue is answered, and taken from the queue.
LEMMA AnsweredLinks ==
  ASSUME GatewayInv, NEW n \in 1..Len(links), links[n].req # <<>>,
         links' = [Sent(n, "rep", Head(links[n].req)) EXCEPT ![n].req = Tail(@)]
  PROVE  LinksFewer
<1>1. PICK pkg : pkg = Head(links[n].req)
  OBVIOUS
<1>2. links \in LinkSeq(Package) /\ links[n] \in LinkRec(Package)
  BY LinkTypes, ElementOfSeq DEF LinkSeq
<1>3. links[n].req \in Seq(Package) /\ Range(links[n].req) \subseteq Carried(links[n])
  BY <1>2 DEF LinkRec, Carried
<1>4. PICK q : q = Tail(links[n].req)
  OBVIOUS
<1>5. /\ pkg \in Package /\ pkg \in Carried(links[n])
      /\ q \in Seq(Package) /\ Range(q) \subseteq Carried(links[n])
  <2>1. Head(links[n].req) \in Range(links[n].req) /\ Range(Tail(links[n].req)) \subseteq Range(links[n].req)
    BY <1>3, RangeTail
  <2>2. pkg \in Package /\ q \in Seq(Package)
    BY <1>1, <1>3, <1>4
  <2> QED BY <1>1, <1>3, <1>4, <2>1, <2>2
<1>6. PICK ls : ls = Sent(n, "rep", pkg)
  OBVIOUS
<1>7. ls[n].req = links[n].req
  BY <1>2, <1>6 DEF Sent, LinkSeq, LinkRec
<1>8. ls \in LinkSeq(Package)
  BY <1>2, <1>5, <1>6, SentStep
<1>9. Len(ls) = Len(links)
  BY <1>2, <1>5, <1>6, SentStep
<1>10. \A m \in 1..Len(links) : m # n => ls[m] = links[m]
  BY <1>2, <1>5, <1>6, SentStep
<1>11. Carried(ls[n]) \subseteq Carried(links[n]) \cup {pkg}
  BY <1>2, <1>5, <1>6, SentStep
<1>12. links' = Queued(ls, n, "req", q)
  BY <1>1, <1>4, <1>6, <1>7, <1>8 DEF Queued, LinkSeq
<1>13. n \in 1..Len(ls) /\ ls \in LinkSeq(Package) /\ q \in Seq(Package)
  BY <1>5, <1>8, <1>9
<1>14. Queued(ls, n, "req", q) \in LinkSeq(Package)
  BY <1>13, QueueSet
<1>15. Len(Queued(ls, n, "req", q)) = Len(ls)
  BY <1>13, QueueSet
<1>16. \A m \in 1..Len(ls) : m # n => Queued(ls, n, "req", q)[m] = ls[m]
  BY <1>13 DEF Queued, LinkSeq
<1>17. Carried(Queued(ls, n, "req", q)[n]) \subseteq Carried(ls[n]) \cup Range(q)
  BY <1>13, QueueSet
<1>18. \A m \in 1..Len(links) : Carried(links'[m]) \subseteq Carried(links[m])
  BY <1>5, <1>9, <1>10, <1>11, <1>12, <1>16, <1>17
<1> QED BY <1>9, <1>12, <1>14, <1>15, <1>18 DEF LinksFewer

\* The match engine and marketprice answer before their handlers return.
LEMMA ReceiveStep ==
  ASSUME GatewayInv, NEW b \in Backends, NEW s \in Slots, Receive(b, s)
  PROVE  GatewayInv'
<1>1. PICK n : n = rses[b][s].of
  OBVIOUS
<1>2. /\ rses[b][s].id # 0 /\ links[n].req # <<>>
      /\ links' = [Sent(n, "rep", Head(links[n].req)) EXCEPT ![n].req = Tail(@)]
      /\ UNCHANGED <<front, clt, rses, rid_start, pool, conns, requests, faults>>
  BY <1>1 DEF Receive, back
<1>3. n \in 1..Len(links)
  BY <1>1, <1>2 DEF GatewayInv, LinkInv, LinksOK
<1>4. faults' \in Nat
  BY <1>2 DEF GatewayInv
<1> QED BY <1>2, <1>3, <1>4, AnsweredLinks, ClientsSame, SessionsSame, QuietEnd

\* Jobs move between the lists, or end.
LEMMA JobsMove ==
  ASSUME JobInv, PoolType', Woken', Jobs' \subseteq Jobs,
         UNCHANGED <<state, state_start, clt, rses, rid_start>>
  PROVE  JobInv'
<1>1. JobsOK'
  BY DEF JobInv, JobsOK, Owns, Genuine
<1> QED BY <1>1 DEF JobInv

\* The thread pool and its queue change, and links only by what was genuine.
LEMMA BackendStepInv ==
  ASSUME GatewayInv, UNCHANGED <<front, clt, rses, rid_start, conns, requests, faults>>,
         links' \in LinkSeq(Package), Len(links') = Len(links),
         \A n \in 1..Len(links), w \in Workers, b \in Backends :
           Owns(w, b, n) => \A pkg \in Carried(links'[n]) :
                              pkg \in Carried(links[n]) \/ Genuine(w, pkg),
         JobInv'
  PROVE  GatewayInv'
<1>1. FrontInv' /\ Follows /\ Package' = Package /\ FrontType /\ FrontType'
  BY FrontSame DEF GatewayInv, FrontInv, Package
<1>2. LinkType'
  BY <1>1 DEF LinkType, LinkSeq, LinkRec, GatewayInv, LinkInv
<1>3. \A w \in Workers : \A p : Genuine(w, p)' <=> Genuine(w, p)
  BY DEF Genuine, front
<1>4. LinkInv'
  BY <1>1, <1>2, <1>3, LinksStep DEF GatewayInv
<1> QED BY <1>1, <1>4 DEF GatewayInv

\* readhistory refuses, or adds a job that is genuine as its package is.
LEMMA ReceiveJobStep ==
  ASSUME GatewayInv, NEW s \in Slots, ReceiveJob(s)
  PROVE  GatewayInv'
<1>1. PICK n : n = rses[ReadHistory][s].of
  OBVIOUS
<1>2. PICK pkg : pkg = Head(links[n].req)
  OBVIOUS
<1>3. PICK job : job = [ses |-> s, ses_id |-> rses[ReadHistory][s].id, pkg |-> pkg]
  OBVIOUS
<1>4. /\ rses[ReadHistory][s].id # 0 /\ links[n].req # <<>>
      /\ UNCHANGED <<front, clt, rses, rid_start, conns, requests, faults>>
  BY <1>1 DEF ReceiveJob
<1>5. /\ n \in 1..Len(links)
      /\ rses[ReadHistory][s].id \in Nat \ {0} /\ rses[ReadHistory][s].id < rid_start[ReadHistory]
  BY <1>1, <1>4 DEF GatewayInv, LinkInv, LinkType, LinksOK
<1>6. \/ /\ links' = [Sent(n, "rep", Head(links[n].req)) EXCEPT ![n].req = Tail(@)]
         /\ UNCHANGED pool
      \/ /\ links' = Queued(links, n, "req", Tail(links[n].req))
         /\ nw_job_add(job)
  BY <1>1, <1>2, <1>3 DEF ReceiveJob, Queued
<1>7. CASE /\ links' = [Sent(n, "rep", Head(links[n].req)) EXCEPT ![n].req = Tail(@)]
           /\ UNCHANGED pool
  <2>1. LinksFewer /\ faults' \in Nat
    BY <1>4, <1>5, <1>7, AnsweredLinks DEF GatewayInv
  <2> QED BY <1>4, <1>7, <2>1, ClientsSame, SessionsSame, QuietEnd
<1>8. CASE /\ links' = Queued(links, n, "req", Tail(links[n].req))
           /\ nw_job_add(job)
  <2>1. links \in LinkSeq(Package) /\ links[n] \in LinkRec(Package)
    BY <1>5, LinkTypes, ElementOfSeq DEF LinkSeq
  <2>2. links[n].req \in Seq(Package) /\ Range(links[n].req) \subseteq Carried(links[n])
    BY <2>1 DEF LinkRec, Carried
  <2>3. PICK q : q = Tail(links[n].req)
    OBVIOUS
  <2>4. /\ pkg \in Package /\ pkg \in Carried(links[n])
        /\ q \in Seq(Package) /\ Range(q) \subseteq Carried(links[n])
    <3>1. Head(links[n].req) \in Range(links[n].req) /\ Range(Tail(links[n].req)) \subseteq Range(links[n].req)
      BY <1>4, <2>2, RangeTail
    <3>2. pkg \in Package /\ q \in Seq(Package)
      BY <1>2, <1>4, <2>2, <2>3
    <3> QED BY <1>2, <2>2, <2>3, <3>1, <3>2
  <2>5. /\ links' = Queued(links, n, "req", q)
        /\ links \in LinkSeq(Package) /\ n \in 1..Len(links) /\ q \in Seq(Package)
    BY <1>5, <1>8, <2>1, <2>3, <2>4
  <2>6. links' \in LinkSeq(Package)
    BY <2>5, QueueSet
  <2>7. Len(links') = Len(links)
    BY <2>5, QueueSet
  <2>8. \A m \in 1..Len(links) : m # n => links'[m] = links[m]
    BY <2>5, QueueSet
  <2>9. Carried(links'[n]) \subseteq Carried(links[n]) \cup Range(q)
    BY <2>5, QueueSet
  <2>10. \A m \in 1..Len(links) : Carried(links'[m]) \subseteq Carried(links[m])
    BY <2>4, <2>8, <2>9
  <2>11. /\ request_list' = Append(request_list, job)
         /\ UNCHANGED <<working, reply_list, readable, reading>>
    BY <1>8 DEF nw_job_add
  <2>12. job \in Job /\ request_list \in Seq(Job)
    BY <1>3, <1>5, <2>4 DEF Job, GatewayInv, JobInv, PoolType
  <2>13. PoolType'
    <3>1. Package' = Package /\ Job' = Job
      BY <1>4 DEF Package, Job, Asked
    <3> QED BY <2>11, <2>12, <3>1 DEF PoolType, GatewayInv, JobInv
  <2>14. Jobs' = Jobs \cup {job}
    BY <2>11, <2>12, RangeAppend DEF Jobs
  <2>15. /\ job.ses_id < rid_start[ReadHistory]
         /\ \A w \in Workers, b \in Backends :
              Owns(w, b, rses[ReadHistory][job.ses].of) => Genuine(w, job.pkg)
    <3>1. job.ses = s /\ job.pkg = pkg /\ job.ses_id = rses[ReadHistory][s].id
      BY <1>3
    <3> QED BY <1>1, <1>5, <2>4, <3>1 DEF GatewayInv, LinkInv, CarriedOK
  <2>16. JobsOK'
    <3> SUFFICES ASSUME NEW j \in Jobs'
                 PROVE  /\ j.ses_id < rid_start[ReadHistory]
                        /\ rses[ReadHistory][j.ses].id = j.ses_id =>
                             \A w \in Workers, b \in Backends :
                               Owns(w, b, rses[ReadHistory][j.ses].of) => Genuine(w, j.pkg)
      BY <1>4 DEF JobsOK, Owns, Genuine, front
    <3>1. j = job \/ j \in Jobs
      BY <2>14
    <3> QED BY <2>15, <3>1 DEF GatewayInv, JobInv, JobsOK
  <2>17. Woken'
    BY <2>11 DEF Woken, GatewayInv, JobInv
  <2> QED BY <1>4, <2>6, <2>7, <2>10, <2>13, <2>16, <2>17, BackendStepInv DEF JobInv
<1> QED BY <1>6, <1>7, <1>8

\* Threads and the main loop pass jobs on.
LEMMA PoolStep ==
  ASSUME GatewayInv, Pool
  PROVE  GatewayInv'
<1>1. /\ UNCHANGED <<front, clt, links, rses, rid_start, conns, requests, faults>>
      /\ UNCHANGED <<state, state_start>>
  BY DEF Pool, front
<1>2. /\ request_list \in Seq(Job) /\ reply_list \in Seq(Job) /\ working \subseteq Job
      /\ readable \in BOOLEAN /\ reading \in BOOLEAN /\ Woken /\ JobInv
  BY DEF GatewayInv, JobInv, PoolType
<1>3. Job' = Job
  BY <1>1 DEF Job, Package, Asked
<1>4. JobInv'
  <2>1. CASE JobTake
    <3>1. /\ request_list # <<>> /\ working' = working \cup {Head(request_list)}
          /\ request_list' = Tail(request_list) /\ UNCHANGED <<reply_list, readable, reading>>
      BY <2>1 DEF JobTake
    <3>2. /\ Head(request_list) \in Range(request_list)
          /\ Range(Tail(request_list)) \subseteq Range(request_list)
      BY <1>2, <3>1, RangeTail
    <3>3. PoolType'
      BY <1>2, <1>3, <3>1 DEF PoolType
    <3>4. Jobs' \subseteq Jobs /\ Woken'
      BY <1>2, <3>1, <3>2 DEF Jobs, Woken
    <3> QED BY <1>1, <1>2, <3>3, <3>4, JobsMove
  <2>2. ASSUME NEW job \in working, JobDone(job)
        PROVE  JobInv'
    <3>1. /\ working' = working \ {job} /\ reply_list' = Append(reply_list, job)
          /\ readable' = TRUE /\ UNCHANGED <<request_list, reading>>
      BY <2>2 DEF JobDone
    <3>2. Range(Append(reply_list, job)) = Range(reply_list) \cup {job}
      BY <1>2, RangeAppend
    <3>3. PoolType'
      BY <1>2, <1>3, <3>1 DEF PoolType
    <3>4. Jobs' \subseteq Jobs /\ Woken'
      BY <3>1, <3>2 DEF Jobs, Woken
    <3> QED BY <1>1, <1>2, <3>3, <3>4, JobsMove
  <2>3. CASE JobWake \/ JobDrained
    <3>1. UNCHANGED <<request_list, working, reply_list>>
      BY <2>3 DEF JobWake, JobDrained
    <3>2. PoolType'
      BY <1>2, <1>3, <2>3 DEF PoolType, JobWake, JobDrained
    <3>3. Jobs' \subseteq Jobs /\ Woken'
      BY <2>3, <3>1 DEF Jobs, Woken, JobWake, JobDrained
    <3> QED BY <1>1, <1>2, <3>2, <3>3, JobsMove
  <2> QED BY <2>1, <2>2, <2>3 DEF Pool
<1>5. LinksFewer
  BY <1>1, LinksSame
<1> QED BY <1>1, <1>4, <1>5, BackendStepInv DEF LinksFewer

\* The job's session is still the same: whoever is at its other end sent it.
LEMMA FinishJobStep ==
  ASSUME GatewayInv, FinishJob
  PROVE  GatewayInv'
<1>1. PICK job : job = Head(reply_list)
  OBVIOUS
<1>2. PICK n : n = rses[ReadHistory][job.ses].of
  OBVIOUS
<1>3. /\ reading /\ reply_list # <<>> /\ reply_list' = Tail(reply_list)
      /\ UNCHANGED <<request_list, working, readable, reading>>
      /\ UNCHANGED <<front, clt, rses, rid_start, conns, requests, faults>>
      /\ UNCHANGED <<state, state_start>>
  BY DEF FinishJob, JobFinish, front
<1>4. links' = IF rses[ReadHistory][job.ses].id = job.ses_id THEN Sent(n, "rep", job.pkg) ELSE links
  BY <1>1, <1>2 DEF FinishJob
<1>5. reply_list \in Seq(Job) /\ PoolType /\ JobInv
  BY DEF GatewayInv, JobInv, PoolType
<1>6. Head(reply_list) \in Range(reply_list) /\ Range(Tail(reply_list)) \subseteq Range(reply_list)
  BY <1>3, <1>5, RangeTail
<1>7. job \in Jobs /\ job \in Job /\ Tail(reply_list) \in Seq(Job)
  BY <1>1, <1>3, <1>5, <1>6 DEF Jobs
<1>8. JobInv'
  <2>1. PoolType'
    <3>1. Job' = Job
      BY <1>3 DEF Job, Package, Asked
    <3> QED BY <1>3, <1>5, <1>7, <3>1 DEF PoolType
  <2>2. Jobs' \subseteq Jobs /\ Woken'
    BY <1>3, <1>6 DEF Jobs, Woken
  <2> QED BY <1>3, <1>5, <2>1, <2>2, JobsMove
<1>9. CASE rses[ReadHistory][job.ses].id # job.ses_id
  <2>1. LinksFewer
    BY <1>4, <1>9, LinksSame
  <2> QED BY <1>3, <1>8, <2>1, BackendStepInv DEF LinksFewer
<1>10. CASE rses[ReadHistory][job.ses].id = job.ses_id
  <2>1. PICK pkg : pkg = job.pkg
    OBVIOUS
  <2>2. pkg \in Package /\ job.ses \in Slots /\ job.ses_id # 0
    BY <1>7, <2>1 DEF Job
  <2>3. n \in 1..Len(links) /\ links \in LinkSeq(Package)
    BY <1>2, <1>10, <2>2, LinkTypes DEF GatewayInv, LinkInv, LinksOK
  <2>4. \A w \in Workers, b \in Backends : Owns(w, b, n) => Genuine(w, pkg)
    BY <1>2, <1>7, <1>10, <2>1 DEF GatewayInv, JobInv, JobsOK
  <2>5. links' = Sent(n, "rep", pkg)
    BY <1>4, <1>10, <2>1
  <2>6. links' \in LinkSeq(Package)
    BY <2>2, <2>3, <2>5, SentStep
  <2>7. Len(links') = Len(links)
    BY <2>2, <2>3, <2>5, SentStep
  <2>8. \A m \in 1..Len(links) : m # n => links'[m] = links[m]
    BY <2>2, <2>3, <2>5, SentStep
  <2>9. Carried(links'[n]) \subseteq Carried(links[n]) \cup {pkg}
    BY <2>2, <2>3, <2>5, SentStep
  <2>10. \A m \in 1..Len(links), w \in Workers, b \in Backends :
           Owns(w, b, m) => \A p \in Carried(links'[m]) : p \in Carried(links[m]) \/ Genuine(w, p)
    BY <2>4, <2>8, <2>9
  <2> QED BY <1>3, <1>8, <2>6, <2>7, <2>10, BackendStepInv
<1> QED BY <1>9, <1>10
------------------------------------------------------------------------------
(* The whole.                                                                *)

\* The invariant holds at first, when there is nothing,
LEMMA GatewayInit == Init => GatewayInv
<1> SUFFICES ASSUME Init PROVE GatewayInv
  OBVIOUS
<1>1. PICK e : e = <<>>
  OBVIOUS
<1>2. e = <<>> /\ DOMAIN e = {} /\ Len(e) = 0 /\ Range(e) = {} /\ \A S : e \in Seq(S)
  BY <1>1, RangeEmpty, EmptySeq
<1>3. /\ ses = [w \in Workers |-> [s \in ClientSlots |-> Free]]
      /\ id_start = [w \in Workers |-> 0] /\ state_start = [w \in Workers |-> 0]
      /\ state = [w \in Workers |-> e] /\ requests = e /\ conns = 0
  BY <1>1 DEF Init
<1>4. FrontType
  BY <1>2, <1>3 DEF FrontType, Free, Session
<1>5. SessionsOK /\ EntriesOK /\ EntriesDistinct
  BY <1>2, <1>3 DEF SessionsOK, EntriesOK, EntriesDistinct, Free
<1>6. AnswersAsker
  BY <1>2, <1>3 DEF AnswersAsker, Asked
<1>7. /\ clt = [w \in Workers |-> [b \in Backends |-> Connecting]] /\ links = e
      /\ rses = [b \in Backends |-> [s \in Slots |-> Free]]
      /\ rid_start = [b \in Backends |-> 0] /\ faults = 0
  BY <1>1 DEF Init
<1>8. LinkType
  BY <1>2, <1>7 DEF LinkType, Connecting, Free
<1>9. LinksOK /\ CarriedOK
  BY <1>2, <1>7 DEF LinksOK, CarriedOK, Owns, Connecting, Free
<1>10. /\ request_list = e /\ working = {} /\ reply_list = e
       /\ readable = FALSE /\ reading = FALSE
  BY <1>1 DEF Init, NoJobs
<1>11. PoolType /\ JobsOK /\ Woken
  BY <1>2, <1>10 DEF PoolType, JobsOK, Jobs, Woken
<1> QED BY <1>4, <1>5, <1>6, <1>7, <1>8, <1>9, <1>11 DEF GatewayInv, FrontInv, LinkInv, JobInv

\* is kept by every step,
LEMMA GatewayNext == GatewayInv /\ [Next]_vars => GatewayInv'
<1> SUFFICES ASSUME GatewayInv, [Next]_vars PROVE GatewayInv'
  OBVIOUS
<1>1. ASSUME NEW w \in Workers, WorkerStep(w) PROVE GatewayInv'
  <2>1. ASSUME NEW b \in Backends, Reply(w, b) PROVE GatewayInv'
    BY <2>1, ReplyStep
  <2>2. ASSUME NEW b \in Backends, NEW s \in Slots, Connected(w, b, s) PROVE GatewayInv'
    BY <2>2, ConnectedStep
  <2>3. ASSUME NEW b \in Backends, ReconnectTimeout(w, b) \/ LinkClosed(w, b) PROVE GatewayInv'
    BY <2>3, ClientActions
  <2>4. ASSUME NEW seq \in DOMAIN state[w], StateTimeout(w, seq) PROVE GatewayInv'
    BY <2>4, StateTimeoutStep
  <2> QED BY <1>1, <2>1, <2>2, <2>3, <2>4 DEF WorkerStep
<1>2. ASSUME BackendStep PROVE GatewayInv'
  <2>1. ASSUME NEW b \in Backends, NEW s \in Slots, SessionClosed(b, s) PROVE GatewayInv'
    <3>1. faults' \in Nat
      BY <2>1 DEF SessionClosed, GatewayInv
    <3> QED BY <2>1, <3>1, CloseSessionStep DEF SessionClosed
  <2>2. ASSUME NEW b \in Backends, NEW s \in Slots, Receive(b, s) PROVE GatewayInv'
    BY <2>2, ReceiveStep
  <2>3. ASSUME NEW s \in Slots, ReceiveJob(s) PROVE GatewayInv'
    BY <2>3, ReceiveJobStep
  <2> QED BY <1>2, <2>1, <2>2, <2>3, FinishJobStep, PoolStep DEF BackendStep
<1>3. ASSUME Environment PROVE GatewayInv'
  <2>1. ASSUME NEW w \in Workers, NEW s \in ClientSlots, Accept(w, s) PROVE GatewayInv'
    BY <2>1, AcceptStep
  <2>2. ASSUME NEW w \in Workers, NEW s \in ClientSlots, CloseClient(w, s) PROVE GatewayInv'
    BY <2>2, CloseClientStep
  <2>3. ASSUME NEW w \in Workers, NEW s \in ClientSlots, Refused(w, s) PROVE GatewayInv'
    BY <2>3, RefusedStep
  <2>4. ASSUME NEW w \in Workers, NEW s \in ClientSlots, NEW b \in Backends, Request(w, s, b)
        PROVE GatewayInv'
    BY <2>4, RequestStep
  <2>5. ASSUME NEW w \in Workers, NEW b \in Backends,
               ConnectFailed(w, b) \/ ConnectTimeout(w, b) \/ HeartbeatTimeout(w, b)
        PROVE  GatewayInv'
    BY <2>5, ClientActions
  <2>6. ASSUME NEW n \in DOMAIN links, Cut(n) PROVE GatewayInv'
    BY <2>6, CutStep
  <2>7. ASSUME NEW w \in Workers, WorkerRestart(w) PROVE GatewayInv'
    BY <2>7, WorkerRestartStep
  <2>8. ASSUME NEW b \in Backends, BackendRestart(b) PROVE GatewayInv'
    BY <2>8, BackendRestartStep
  <2>9. ASSUME NEW b \in Backends, NEW s \in Slots, SessionSilent(b, s) PROVE GatewayInv'
    <3>1. faults' \in Nat
      BY <2>9, FaultCounted DEF SessionSilent
    <3> QED BY <2>9, <3>1, CloseSessionStep DEF SessionSilent
  <2> QED BY <1>3, <2>1, <2>2, <2>3, <2>4, <2>5, <2>6, <2>7, <2>8, <2>9 DEF Environment
<1>4. ASSUME UNCHANGED vars PROVE GatewayInv'
  <2>1. UNCHANGED <<front, clt, links, rses, rid_start, pool, conns, requests, faults>>
    BY <1>4 DEF vars, front
  <2>2. faults' \in Nat
    BY <2>1 DEF GatewayInv
  <2> QED BY <2>1, <2>2, LinksSame, ClientsSame, SessionsSame, QuietEnd
<1> QED BY <1>1, <1>2, <1>3, <1>4 DEF Next, Work

\* and so holds always.
LEMMA GatewayInductive == Spec => []GatewayInv
BY GatewayInit, GatewayNext, PTL DEF Spec

\* Tables, links and lists keep their types: no request makes a number of a session,
\* an entry or a package that was not counted.
THEOREM GatewayTypeCorrect == Spec => []GatewayTypeOK
<1>1. GatewayInv => GatewayTypeOK
  BY TypeParts DEF GatewayInv, FrontInv, LinkInv, JobInv
<1> QED BY <1>1, GatewayInductive, PTL

\* on_backend_recv_pkg, on_state_timeout and on_job_finish: a request is answered
\* once, and where it came from, with its own result.
THEOREM AnswersGoBack == Spec => []AnswersAsker
<1>1. GatewayInv => AnswersAsker
  BY DEF GatewayInv, FrontInv
<1> QED BY <1>1, GatewayInductive, PTL

\* on_can_read of nw_job.c: a job that is done will be found.
THEOREM NoJobMissed == Spec => []Woken
<1>1. GatewayInv => Woken
  BY DEF GatewayInv, JobInv
<1> QED BY <1>1, GatewayInductive, PTL
==============================================================================
