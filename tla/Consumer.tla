------------------------------ MODULE Consumer -------------------------------
(***************************************************************************)
(* The Kafka consumer of utils/src/ut_kafka.c, as marketprice uses it for  *)
(* the deals of one market: a thread takes messages from the topic into a  *)
(* list and writes a byte into a pipe for each; the main loop wakes up     *)
(* when the pipe can be read, empties the pipe, and handles messages until *)
(* the list is empty.  The thread may add messages in between.             *)
(***************************************************************************)
EXTENDS Kline

CONSTANTS
  Prices,             \* prices of deals
  Amounts,            \* amounts of deals
  Clock,              \* the times at which something happens
  MaxDeals,           \* bound on the deals published
  FetchLimit          \* limit of the consumer's list

ASSUME ConsumerAssumption ==
  /\ Prices \subseteq Nat \ {0} /\ Amounts \subseteq Nat \ {0}
  /\ Clock \subseteq Nat /\ Clock # {}
  /\ MaxDeals \in Nat /\ FetchLimit \in Nat \ {0}

VARIABLES
  now,                \* the time
  topic,              \* the deals published so far, by offset
  offset,             \* offset of the next message Kafka hands out
  list,               \* offsets of the messages taken from the topic
  pipe,               \* bytes in the pipe
  pc                  \* where the main loop is, see MarketPrice

consumer == <<topic, offset, list, pipe>>

Tick ==
  /\ \E t \in Clock : t > now /\ now' = t
  /\ UNCHANGED <<consumer, pc>>

\* The match engine publishes a deal, stamped with the time it was made.
Publish(price, amount) ==
  /\ Len(topic) < MaxDeals
  /\ topic' = Append(topic, [time |-> now, price |-> price, amount |-> amount])
  /\ UNCHANGED <<now, offset, list, pipe, pc>>

\* thread_routine
Fetch ==
  /\ pc # "down"
  /\ Len(list) < FetchLimit
  /\ offset <= Len(topic)
  /\ list' = Append(list, offset)
  /\ offset' = offset + 1
  /\ pipe' = pipe + 1
  /\ UNCHANGED <<now, topic, pc>>

\* on_can_read is called, and empties the pipe ...
Wake ==
  /\ pc = "loop"
  /\ pipe > 0
  /\ pipe' = 0
  /\ pc' = "read"
  /\ UNCHANGED <<now, topic, offset, list>>

\* (variant) one message is handled for each time the pipe can be read
Handle_Once ==
  /\ pc = "read"
  /\ list # <<>>
  /\ list' = Tail(list)
  /\ pc' = "loop"
  /\ UNCHANGED <<now, topic, offset, pipe>>

\* ... handles the oldest message of the list, the callback being the subject
\* of MarketPrice ...
Handle ==
  /\ pc = "read"
  /\ list # <<>>
  /\ list' = Tail(list)
  /\ UNCHANGED <<now, topic, offset, pipe, pc>>

\* ... and returns when there is none.
Drained ==
  /\ pc = "read"
  /\ list = <<>>
  /\ pc' = "loop"
  /\ UNCHANGED <<now, consumer>>

\* kafka_consumer_create, asked to begin at a given offset
kafka_consumer_create(from) ==
  /\ offset' = from
  /\ list' = <<>>
  /\ pipe' = 0
==============================================================================
