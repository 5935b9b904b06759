----------------------------- MODULE MQConsumer -----------------------------
(***************************************************************************)
(* src/app/services/mq_consumer.py between RabbitMQ and MySQL: the durable *)
(* queue, the deliveries that are not acknowledged, the consumer thread    *)
(* that handles one message at a time, and the connections it loses.       *)
(*                                                                         *)
(* Messages are numbered in the order they are published.  A message is a  *)
(* state report, a log, or one the handler cannot process.  RabbitMQ and   *)
(* the network are modelled from how the code uses them: per connection    *)
(* FIFO, at most Prefetch unacknowledged deliveries, and everything        *)
(* unacknowledged on a connection goes back to its place in the queue when *)
(* the broker finds the connection gone.                                   *)
(***************************************************************************)
EXTENDS Naturals, Sequences, FiniteSets

CONSTANTS
  Message,        \* the messages: a function on 1 .. Count of records with
                  \* kind, key, eventId, messageId and digest
  Count,          \* how many messages are published
  StateKeys,      \* primary keys of ops_state
  Prefetch,       \* basic_qos(prefetch_count)
  MaxConnections, \* bound on the connections made
  LateDetection,  \* whether the consumer may be back before the broker has
                  \* noticed that its last connection is gone
  None            \* no message, no id

Msgs == 1 .. Count
Conns == 1 .. MaxConnections

States == {m \in Msgs : Message[m].kind = "state"}
Logs == {m \in Msgs : Message[m].kind = "log"}

ASSUME CountAssumption == Count \in Nat /\ Prefetch \in Nat \ {0} /\ MaxConnections \in Nat
ASSUME KeyAssumption == \A m \in States : Message[m].key \in StateKeys
ASSUME LateAssumption == LateDetection \in BOOLEAN
ASSUME NoneAssumption == None \notin Nat

VARIABLES
  published,  \* messages published so far
  ready,      \* messages in the queue, delivered lowest number first
  unacked,    \* per connection, deliveries the broker has no answer for
  open,       \* the connections the broker believes in
  toBroker,   \* per connection, acks and nacks on their way to the broker
  dlq,        \* the dead letter queue
  cur,        \* the consumer's connection, the last one made
  link,       \* whether that connection works
  pc,         \* where the consumer thread is
  inbox,      \* deliveries the thread has not looked at yet
  msg,        \* the message it is handling
  rows,       \* ops_log: the message each row was made from, by log_id
  state,      \* ops_state: the message each record holds, 0 when there is none
  applied     \* the messages whose transaction has committed at least once

brokerVars == <<published, ready, unacked, open, toBroker, dlq>>
threadVars == <<cur, link, pc, inbox, msg>>
dbVars == <<rows, state, applied>>
vars == <<brokerVars, threadVars, dbVars>>

Answer == [msg : Msgs, ok : BOOLEAN]

TypeOK ==
  /\ published \in 0 .. Count
  /\ ready \subseteq Msgs
  /\ unacked \in [Conns -> SUBSET Msgs]
  /\ open \subseteq Conns
  /\ toBroker \in [Conns -> Seq(Answer)]
  /\ dlq \subseteq Msgs
  /\ cur \in 0 .. MaxConnections
  /\ link \in BOOLEAN
  /\ pc \in {"down", "consuming", "committed", "failed"}
  /\ inbox \in Seq(Msgs)
  /\ msg \in Msgs \cup {None}
  /\ pc # "down" => cur \in Conns
  /\ pc \in {"committed", "failed"} => msg \in Msgs
  /\ rows \in Seq(Logs)
  /\ state \in [StateKeys -> {0} \cup States]
  /\ applied \subseteq States \cup Logs

Init ==
  /\ published = 0 /\ ready = {} /\ dlq = {}
  /\ unacked = [c \in Conns |-> {}]
  /\ open = {}
  /\ toBroker = [c \in Conns |-> <<>>]
  /\ cur = 0 /\ link = FALSE /\ pc = "down" /\ inbox = <<>> /\ msg = None
  /\ rows = <<>> /\ state = [k \in StateKeys |-> 0] /\ applied = {}

-----------------------------------------------------------------------------
(* What one message does to the database.                                  *)

\* The identity of a log: its event_id, else the AMQP message_id, else the
\* SHA-256 of its canonical payload.
EventOf(m) ==
  IF Message[m].eventId # None THEN Message[m].eventId
  ELSE IF Message[m].messageId # None THEN Message[m].messageId
  ELSE Message[m].digest

Event == [m \in Msgs |-> EventOf(m)]

\* The events that have a row.
Stored == {Event[rows[i]] : i \in 1 .. Len(rows)}

\* Mutant of Supported: an unknown kind falls through without an error.
SupportedAny(m) == m \in Msgs

\* The handler can process a message of a known kind.
Supported(m) == m \in States \cup Logs

\* Mutant of Persist: logs are inserted without looking at the event id.
PersistAlways(m) ==
  /\ Supported(m)
  /\ rows' = IF m \in Logs THEN Append(rows, m) ELSE rows
  /\ state' = IF m \in States THEN [state EXCEPT ![Message[m].key] = m] ELSE state
  /\ applied' = applied \cup {m}

\* _persist_message and commit: a state overwrites its record, a log is
\* inserted unless its event has a row.
Persist(m) ==
  /\ Supported(m)
  /\ rows' = IF m \in Logs /\ Event[m] \notin Stored THEN Append(rows, m) ELSE rows
  /\ state' = IF m \in States THEN [state EXCEPT ![Message[m].key] = m] ELSE state
  /\ applied' = applied \cup {m}

-----------------------------------------------------------------------------
(* Producer, broker and network.                                           *)

Publish ==
  /\ published < Count
  /\ published' = published + 1
  /\ ready' = ready \cup {published'}
  /\ UNCHANGED <<unacked, open, toBroker, dlq, threadVars, dbVars>>

\* The broker pushes the first message of the queue to a connection; it
\* reaches the consumer if the connection is the one it uses and works.
Deliver(c) ==
  /\ c \in open /\ Cardinality(unacked[c]) < Prefetch
  /\ \E m \in ready :
       /\ \A n \in ready : m <= n
       /\ ready' = ready \ {m}
       /\ unacked' = [unacked EXCEPT ![c] = @ \cup {m}]
       /\ inbox' = IF c = cur /\ link /\ pc # "down" THEN Append(inbox, m) ELSE inbox
  /\ UNCHANGED <<published, open, toBroker, dlq, cur, link, pc, msg, dbVars>>

\* An ack settles a delivery, a nack without requeue dead-letters it.
BrokerSettles(c) ==
  /\ c \in open /\ toBroker[c] # <<>>
  /\ LET answer == Head(toBroker[c])
     IN  /\ unacked' = [unacked EXCEPT ![c] = @ \ {answer.msg}]
         /\ dlq' = IF answer.ok THEN dlq ELSE dlq \cup {answer.msg}
  /\ toBroker' = [toBroker EXCEPT ![c] = Tail(@)]
  /\ UNCHANGED <<published, ready, open, threadVars, dbVars>>

\* The broker finds a connection gone and requeues what is unacknowledged.
BrokerRequeues(c) ==
  /\ c \in open /\ (c # cur \/ ~link)
  /\ open' = open \ {c}
  /\ ready' = ready \cup unacked[c]
  /\ unacked' = [unacked EXCEPT ![c] = {}]
  /\ toBroker' = [toBroker EXCEPT ![c] = <<>>]
  /\ UNCHANGED <<published, dlq, threadVars, dbVars>>

\* The connection breaks; the last one allowed by the bound does not.
LinkBreaks ==
  /\ link /\ cur < MaxConnections
  /\ link' = FALSE
  /\ UNCHANGED <<brokerVars, cur, pc, inbox, msg, dbVars>>

-----------------------------------------------------------------------------
(* The consumer thread.                                                    *)

\* Mutant of Connect: the thread reconnects at once.
ConnectAtOnce ==
  /\ pc = "down" /\ cur < MaxConnections
  /\ cur' = cur + 1
  /\ link' = TRUE
  /\ open' = open \cup {cur'}
  /\ pc' = "consuming"
  /\ inbox' = <<>>
  /\ UNCHANGED <<published, ready, unacked, toBroker, dlq, msg, dbVars>>

\* _consume_once connects and subscribes.
Connect ==
  /\ pc = "down" /\ cur < MaxConnections
  /\ LateDetection \/ open = {}
  /\ cur' = cur + 1
  /\ link' = TRUE
  /\ open' = open \cup {cur'}
  /\ pc' = "consuming"
  /\ inbox' = <<>>
  /\ UNCHANGED <<published, ready, unacked, toBroker, dlq, msg, dbVars>>

\* handle_message: the transaction of the next delivery commits.
Handle ==
  /\ pc = "consuming" /\ inbox # <<>>
  /\ Persist(Head(inbox))
  /\ msg' = Head(inbox)
  /\ inbox' = Tail(inbox)
  /\ pc' = "committed"
  /\ UNCHANGED <<brokerVars, cur, link>>

\* Mutant of HandleFails: the failure is logged and nothing is sent.
HandleFailsSilently ==
  /\ pc = "consuming" /\ inbox # <<>>
  /\ inbox' = Tail(inbox)
  /\ UNCHANGED <<brokerVars, cur, link, pc, msg, dbVars>>

\* handle_message: parsing, _persist_message or commit raises, and the
\* session is rolled back.  A commit whose answer is lost may have happened.
HandleFails ==
  /\ pc = "consuming" /\ inbox # <<>>
  /\ \/ UNCHANGED dbVars
     \/ Persist(Head(inbox))
  /\ msg' = Head(inbox)
  /\ inbox' = Tail(inbox)
  /\ pc' = "failed"
  /\ UNCHANGED <<brokerVars, cur, link>>

Send(ok) ==
  toBroker' = IF link
              THEN [toBroker EXCEPT ![cur] = Append(@, [msg |-> msg, ok |-> ok])]
              ELSE toBroker

\* basic_ack after the commit; on a connection already broken it may go
\* unnoticed.
Ack ==
  /\ pc = "committed"
  /\ Send(TRUE)
  /\ pc' = "consuming" /\ msg' = None
  /\ UNCHANGED <<published, ready, unacked, open, dlq, cur, link, inbox, dbVars>>

\* Mutant of Nack: a report that could not be stored is acknowledged when its
\* record exists, since the next report will bring it up to date.
NackUnlessRecorded ==
  /\ pc = "failed"
  /\ Send(msg \in States /\ state[Message[msg].key] # 0)
  /\ pc' = "consuming" /\ msg' = None
  /\ UNCHANGED <<published, ready, unacked, open, dlq, cur, link, inbox, dbVars>>

\* basic_nack(requeue=False); its failure is swallowed.
Nack ==
  /\ pc = "failed"
  /\ Send(FALSE)
  /\ pc' = "consuming" /\ msg' = None
  /\ UNCHANGED <<published, ready, unacked, open, dlq, cur, link, inbox, dbVars>>

\* basic_ack or start_consuming raises on the broken connection:
\* _consume_once ends, and _run waits before it reconnects.
ConnectionError ==
  /\ ~link /\ pc \in {"consuming", "committed"}
  /\ pc' = "down" /\ inbox' = <<>> /\ msg' = None
  /\ UNCHANGED <<brokerVars, cur, link, dbVars>>

\* The process dies and is restarted; what it had not committed is lost.
Crash ==
  /\ pc # "down" /\ cur < MaxConnections
  /\ link' = FALSE /\ pc' = "down" /\ inbox' = <<>> /\ msg' = None
  /\ UNCHANGED <<brokerVars, cur, dbVars>>

ThreadStep == Connect \/ Handle \/ HandleFails \/ Ack \/ Nack \/ ConnectionError

Next ==
  \/ Publish
  \/ \E c \in Conns : Deliver(c) \/ BrokerSettles(c) \/ BrokerRequeues(c)
  \/ LinkBreaks
  \/ ThreadStep
  \/ Crash

Spec == Init /\ [][Next]_vars

\* The thread keeps running, and the broker delivers, reads answers and finds
\* dead connections; that the last connection stays up is the bound's doing.
Fairness ==
  /\ WF_vars(ThreadStep)
  /\ \A c \in Conns :
       /\ WF_vars(Deliver(c))
       /\ WF_vars(BrokerSettles(c))
       /\ WF_vars(BrokerRequeues(c))

FairSpec == Spec /\ Fairness

-----------------------------------------------------------------------------
(* Properties.                                                             *)

\* The broker still has message m.
Held(m) == m \in ready \/ \E c \in Conns : m \in unacked[c]

\* Report m has been written, and the record of its key holds it or another
\* report of that key that was written.
Written(m) ==
  LET holds == state[Message[m].key]
  IN  {m, holds} \subseteq applied /\ Message[holds].key = Message[m].key

\* Acknowledging only after the commit: a published message the broker no
\* longer has is in the dead letter queue, or its log event has a row, or this
\* very report was written to its record and not only some other one, at
\* whatever point connections broke, acks were lost or the process died.
NothingLost ==
  \A m \in 1 .. published :
    \/ Held(m) \/ m \in dlq
    \/ m \in Logs /\ Event[m] \in Stored
    \/ m \in States /\ Written(m)

\* An accepted state report is never hidden behind an older one: the record
\* of its key is at least as new ("Latest ops state records",
\* src/app/models/ops_model.py:30), once nothing is in flight.
LatestStateWins ==
  (pc = "consuming" /\ \A m \in Msgs : ~Held(m)) =>
    \A m \in applied \cap States : m \in dlq \/ state[Message[m].key] >= m

\* At-least-once delivery and deduplicated inserts together make exactly
\* one row per published log event, unless it is dead-lettered; and every log
\* is stored or dead-lettered in the end.
Ingest == INSTANCE LogIngest WITH dead <- dlq
LogsIngestedOnce == Ingest!Spec

\* A message that can never be processed does not block the queue: every
\* published message leaves it.
EverythingSettles ==
  \A m \in Msgs : (m <= published) ~> (published >= m /\ ~Held(m))

=============================================================================
