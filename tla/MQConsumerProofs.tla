-------------------------- MODULE MQConsumerProofs --------------------------
(***************************************************************************)
(* Proofs about MQConsumer, for any messages, any prefetch and any number  *)
(* of connections, lost acknowledgements and crashes.                      *)
(***************************************************************************)
EXTENDS MQConsumer, SequenceTheorems, TLAPS

-----------------------------------------------------------------------------
(* Sequences whose elements all lie in a set.                              *)

All(s, S) == \A i \in 1 .. Len(s) : s[i] \in S

LEMMA AllAppend ==
  ASSUME NEW T, NEW s \in Seq(T), NEW e \in T, NEW S, All(s, S), e \in S
  PROVE  /\ Append(s, e) \in Seq(T)
         /\ All(Append(s, e), S)
  BY AppendProperties DEF All

LEMMA AllTail ==
  ASSUME NEW T, NEW s \in Seq(T), s # <<>>, NEW S, All(s, S)
  PROVE  /\ Head(s) \in T /\ Head(s) \in S
         /\ Tail(s) \in Seq(T)
         /\ All(Tail(s), S)
<1>1. Len(s) \in Nat /\ Len(s) >= 1 /\ Head(s) = s[1]
  BY EmptySeq, LenProperties
<1>. QED
  BY <1>1, HeadTailProperties DEF All

-----------------------------------------------------------------------------
(* The inductive invariant.                                                *)

\* The answers the thread may send: for published messages only, and positive
\* ones only for messages whose transaction has committed.
Truthful == {a \in Answer : a.msg <= published /\ (a.ok => a.msg \in applied)}

Published == 1 .. published

AnswersTruthful ==
  /\ \A c \in Conns : All(toBroker[c], Truthful)
  /\ All(inbox, Published)
  /\ pc \in {"committed", "failed"} => msg \in Published
  /\ pc = "committed" => msg \in applied
  /\ ready \subseteq Published
  /\ \A c \in Conns : unacked[c] \subseteq Published

\* A committed transaction has left its mark.
EffectStays ==
  \A m \in applied :
    /\ m \in Logs => Event[m] \in Stored
    /\ m \in States => Written(m)

\* The broker forgets a message only on an ack or by dead-lettering it.
Accounted == \A m \in Published : Held(m) \/ m \in dlq \/ m \in applied

IngestInv == TypeOK /\ AnswersTruthful /\ EffectStays /\ Accounted

LEMMA IngestInvInit == Init => IngestInv
<1> SUFFICES ASSUME Init
             PROVE  IngestInv
  OBVIOUS
<1>1. TypeOK
  <2>1. toBroker \in [Conns -> Seq(Answer)] /\ inbox \in Seq(Msgs) /\ rows \in Seq(Logs)
    BY EmptySeq DEF Init
  <2>2. unacked \in [Conns -> SUBSET Msgs] /\ state \in [StateKeys -> {0} \cup States]
    BY DEF Init
  <2>3. published \in 0 .. Count /\ cur \in 0 .. MaxConnections
    BY CountAssumption DEF Init
  <2>4. /\ ready \subseteq Msgs /\ dlq \subseteq Msgs /\ open \subseteq Conns
        /\ applied \subseteq States \cup Logs
    BY DEF Init
  <2>5. /\ pc = "down" /\ pc \in {"down", "consuming", "committed", "failed"}
        /\ link \in BOOLEAN /\ msg \in Msgs \cup {None}
    BY DEF Init
  <2>. QED
    BY <2>1, <2>2, <2>3, <2>4, <2>5 DEF TypeOK
<1>2. AnswersTruthful
  BY DEF Init, AnswersTruthful, All, Published
<1>. QED
  BY <1>1, <1>2 DEF Init, IngestInv, EffectStays, Accounted, Published

-----------------------------------------------------------------------------
(* What a commit does.                                                     *)

LEMMA StoredGrows ==
  ASSUME NEW r \in Seq(Logs), NEW m \in Logs
  PROVE  {Event[Append(r, m)[i]] : i \in 1 .. Len(Append(r, m))}
           = {Event[r[i]] : i \in 1 .. Len(r)} \cup {Event[m]}
<1>1. /\ Len(Append(r, m)) = Len(r) + 1
      /\ \A i \in 1 .. Len(r) : Append(r, m)[i] = r[i]
      /\ Append(r, m)[Len(r) + 1] = m
      /\ Len(r) \in Nat
  BY AppendProperties, LenProperties
<1>2. 1 .. (Len(r) + 1) = (1 .. Len(r)) \cup {Len(r) + 1}
  BY <1>1
<1>. QED
  BY <1>1, <1>2

LEMMA PersistEffect ==
  ASSUME TypeOK, EffectStays, NEW m \in Msgs, Persist(m)
  PROVE  /\ rows' \in Seq(Logs)
         /\ state' \in [StateKeys -> {0} \cup States]
         /\ applied' \subseteq States \cup Logs
         /\ applied' = applied \cup {m}
         /\ EffectStays'
<1>1. rows' \in Seq(Logs)
  BY AppendProperties DEF Persist, TypeOK
<1>2. /\ Stored \subseteq Stored'
      /\ m \in Logs => Event[m] \in Stored'
  <2>1. CASE m \in Logs /\ Event[m] \notin Stored
    <3>1. rows' = Append(rows, m) /\ rows \in Seq(Logs)
      BY <2>1 DEF Persist, TypeOK
    <3>2. Stored' = Stored \cup {Event[m]}
      BY <2>1, <3>1, StoredGrows DEF Stored
    <3>. QED
      BY <3>2
  <2>2. CASE ~(m \in Logs /\ Event[m] \notin Stored)
    BY <2>2 DEF Persist, Stored
  <2>. QED
    BY <2>1, <2>2
<1>3. /\ state' \in [StateKeys -> {0} \cup States]
      /\ \A k \in StateKeys : \/ state'[k] = state[k]
                              \/ m \in States /\ Message[m].key = k /\ state'[k] = m
      /\ m \in States => state'[Message[m].key] = m
  BY KeyAssumption DEF Persist, TypeOK, States, Msgs
<1>4. applied' = applied \cup {m}
  BY DEF Persist
<1>5. ASSUME NEW n \in applied', n \in States PROVE Written(n)'
  <2>1. CASE n \in applied /\ state'[Message[n].key] = state[Message[n].key]
    BY <1>4, <2>1, <1>5 DEF EffectStays, Written
  <2>2. CASE m \in States /\ Message[m].key = Message[n].key
    BY <1>3, <1>4, <1>5, <2>2 DEF Written
  <2>3. n \in applied \/ n = m
    BY <1>4, <1>5
  <2>. QED
    BY <1>3, <1>5, <2>1, <2>2, <2>3, KeyAssumption
<1>6. EffectStays'
  BY <1>2, <1>4, <1>5 DEF EffectStays, Persist
<1>. QED
  BY <1>1, <1>3, <1>6 DEF Persist, Supported, TypeOK

-----------------------------------------------------------------------------
(* The invariant is inductive.                                             *)

LEMMA IngestInvStep == IngestInv /\ [Next]_vars => IngestInv'
<1> SUFFICES ASSUME IngestInv, [Next]_vars
             PROVE  IngestInv'
  OBVIOUS
<1> USE CountAssumption
<1>t. TypeOK /\ AnswersTruthful /\ EffectStays /\ Accounted
  BY DEF IngestInv
<1>1. CASE Publish
  <2>1. published' = published + 1 /\ published' \in 0 .. Count
    BY <1>1, <1>t DEF Publish, TypeOK
  <2>2. Published' = Published \cup {published'} /\ published' \in Msgs
    BY <2>1, <1>t DEF Published, Msgs, TypeOK
  <2>3. Truthful \subseteq Truthful'
    BY <1>1, <2>1, <1>t DEF Publish, Truthful, dbVars, TypeOK, Answer, Msgs
  <2>4. TypeOK'
    BY <1>1, <1>t, <2>1, <2>2 DEF Publish, TypeOK, threadVars, dbVars
  <2>5. AnswersTruthful'
    BY <1>1, <1>t, <2>2, <2>3 DEF Publish, AnswersTruthful, All, threadVars, dbVars
  <2>6. Accounted'
    BY <1>1, <1>t, <2>2 DEF Publish, Accounted, Held, dbVars
  <2>. QED
    BY <1>1, <1>t, <2>4, <2>5, <2>6 DEF Publish, IngestInv, EffectStays, dbVars, Stored, Written
<1>2. ASSUME NEW c \in Conns, Deliver(c)
      PROVE  IngestInv'
  <2>1. PICK m \in ready :
           /\ ready' = ready \ {m}
           /\ unacked' = [unacked EXCEPT ![c] = @ \cup {m}]
           /\ inbox' = IF c = cur /\ link /\ pc # "down" THEN Append(inbox, m) ELSE inbox
    BY <1>2 DEF Deliver
  <2>2. m \in Msgs /\ m \in Published
    BY <1>t, <2>1 DEF TypeOK, AnswersTruthful
  <2>3. inbox' \in Seq(Msgs) /\ All(inbox', Published)
    BY <1>t, <2>1, <2>2, AllAppend DEF TypeOK, AnswersTruthful
  <2>4. TypeOK'
    BY <1>2, <1>t, <2>1, <2>2, <2>3 DEF Deliver, TypeOK, dbVars
  <2>5. AnswersTruthful'
    BY <1>2, <1>t, <2>1, <2>2, <2>3
       DEF Deliver, AnswersTruthful, Published, Truthful, dbVars, TypeOK
  <2>6. Accounted'
    BY <1>2, <1>t, <2>1 DEF Deliver, Accounted, Held, Published, dbVars, TypeOK
  <2>. QED
    BY <1>2, <1>t, <2>4, <2>5, <2>6 DEF Deliver, IngestInv, EffectStays, dbVars, Stored, Written
<1>3. ASSUME NEW c \in Conns, BrokerSettles(c)
      PROVE  IngestInv'
  <2> DEFINE answer == Head(toBroker[c])
  <2>1. /\ answer \in Answer /\ answer \in Truthful
        /\ Tail(toBroker[c]) \in Seq(Answer)
        /\ All(Tail(toBroker[c]), Truthful)
    BY <1>3, <1>t, AllTail DEF BrokerSettles, TypeOK, AnswersTruthful
  <2>2. /\ unacked' = [unacked EXCEPT ![c] = @ \ {answer.msg}]
        /\ dlq' = IF answer.ok THEN dlq ELSE dlq \cup {answer.msg}
        /\ toBroker' = [toBroker EXCEPT ![c] = Tail(@)]
        /\ UNCHANGED <<published, ready, open, threadVars, dbVars>>
    BY <1>3 DEF BrokerSettles
  <2>3. answer.msg \in Msgs /\ answer.ok \in BOOLEAN /\ (answer.ok => answer.msg \in applied)
    BY <2>1 DEF Answer, Truthful
  <2>4. TypeOK'
    BY <1>t, <2>1, <2>2, <2>3 DEF TypeOK, threadVars, dbVars
  <2>5. AnswersTruthful'
    <3>1. Truthful' = Truthful /\ Published' = Published
      BY <2>2 DEF Truthful, Published, dbVars
    <3>. QED
      BY <1>t, <2>1, <2>2, <3>1 DEF AnswersTruthful, threadVars, dbVars, TypeOK
  <2>6. Accounted'
    BY <1>t, <2>2, <2>3 DEF Accounted, Held, Published, dbVars, TypeOK
  <2>. QED
    BY <1>t, <2>2, <2>4, <2>5, <2>6 DEF IngestInv, EffectStays, dbVars, Stored, Written
<1>4. ASSUME NEW c \in Conns, BrokerRequeues(c)
      PROVE  IngestInv'
  <2>1. TypeOK'
    BY <1>4, <1>t DEF BrokerRequeues, TypeOK, threadVars, dbVars
  <2>2. AnswersTruthful'
    <3>1. Truthful' = Truthful /\ Published' = Published
      BY <1>4 DEF BrokerRequeues, Truthful, Published, dbVars
    <3>2. \A d \in Conns : All(toBroker'[d], Truthful)
      BY <1>4, <1>t DEF BrokerRequeues, AnswersTruthful, All, TypeOK
    <3>. QED
      BY <1>4, <1>t, <3>1, <3>2 DEF BrokerRequeues, AnswersTruthful, threadVars, dbVars, TypeOK
  <2>3. Accounted'
    BY <1>4, <1>t DEF BrokerRequeues, Accounted, Held, Published, dbVars, TypeOK
  <2>. QED
    BY <1>4, <1>t, <2>1, <2>2, <2>3
       DEF BrokerRequeues, IngestInv, EffectStays, dbVars, Stored, Written
<1>5. CASE LinkBreaks
  <2>1. TypeOK'
    BY <1>5, <1>t DEF LinkBreaks, TypeOK, brokerVars, dbVars
  <2>2. AnswersTruthful'
    BY <1>5, <1>t DEF LinkBreaks, AnswersTruthful, Published, Truthful, brokerVars, dbVars
  <2>3. EffectStays' /\ Accounted'
    BY <1>5, <1>t DEF LinkBreaks, EffectStays, Stored, Written, Accounted, Held, Published,
                      brokerVars, dbVars
  <2>. QED
    BY <2>1, <2>2, <2>3 DEF IngestInv
<1>6. CASE Connect
  <2>1. All(<<>>, Published)
    BY DEF All
  <2>2. cur' \in Conns /\ TypeOK'
    BY <1>6, <1>t DEF Connect, TypeOK, dbVars, Conns
  <2>3. AnswersTruthful'
    BY <1>6, <1>t, <2>1 DEF Connect, AnswersTruthful, Published, Truthful, dbVars
  <2>. QED
    BY <1>6, <1>t, <2>2, <2>3
       DEF Connect, IngestInv, EffectStays, Accounted, Held, Published, dbVars, Stored, Written
<1>7. CASE Handle
  <2>1. /\ Head(inbox) \in Msgs /\ Head(inbox) \in Published
        /\ Tail(inbox) \in Seq(Msgs) /\ All(Tail(inbox), Published)
    BY <1>7, <1>t, AllTail DEF Handle, TypeOK, AnswersTruthful
  <2>2. /\ rows' \in Seq(Logs)
        /\ state' \in [StateKeys -> {0} \cup States]
        /\ applied' \subseteq States \cup Logs
        /\ applied' = applied \cup {Head(inbox)}
        /\ EffectStays'
    BY <1>7, <1>t, <2>1, PersistEffect DEF Handle
  <2>4. TypeOK'
    BY <1>7, <1>t, <2>1, <2>2 DEF Handle, TypeOK, brokerVars
  <2>5. AnswersTruthful'
    BY <1>7, <1>t, <2>1, <2>2
       DEF Handle, AnswersTruthful, All, Published, Truthful, brokerVars
  <2>6. Accounted'
    BY <1>7, <1>t, <2>2 DEF Handle, Accounted, Held, Published, brokerVars
  <2>. QED
    BY <2>2, <2>4, <2>5, <2>6 DEF IngestInv
<1>8. CASE HandleFails
  <2>1. /\ Head(inbox) \in Msgs /\ Head(inbox) \in Published
        /\ Tail(inbox) \in Seq(Msgs) /\ All(Tail(inbox), Published)
    BY <1>8, <1>t, AllTail DEF HandleFails, TypeOK, AnswersTruthful
  <2>2. /\ rows' \in Seq(Logs)
        /\ state' \in [StateKeys -> {0} \cup States]
        /\ applied' \subseteq States \cup Logs
        /\ applied \subseteq applied'
        /\ EffectStays'
    <3>1. CASE UNCHANGED dbVars
      BY <1>t, <3>1 DEF dbVars, TypeOK, EffectStays, Stored, Written
    <3>2. CASE Persist(Head(inbox))
      BY <1>t, <2>1, <3>2, PersistEffect
    <3>. QED
      BY <1>8, <3>1, <3>2 DEF HandleFails
  <2>4. TypeOK'
    BY <1>8, <1>t, <2>1, <2>2 DEF HandleFails, TypeOK, brokerVars
  <2>5. AnswersTruthful'
    BY <1>8, <1>t, <2>1, <2>2
       DEF HandleFails, AnswersTruthful, All, Published, Truthful, brokerVars
  <2>6. Accounted'
    BY <1>8, <1>t, <2>2 DEF HandleFails, Accounted, Held, Published, brokerVars
  <2>. QED
    BY <2>2, <2>4, <2>5, <2>6 DEF IngestInv
<1>9. ASSUME NEW ok \in BOOLEAN, Send(ok), pc = IF ok THEN "committed" ELSE "failed",
             pc' = "consuming", msg' = None,
             UNCHANGED <<published, ready, unacked, open, dlq, cur, link, inbox, dbVars>>
      PROVE  IngestInv'
  <2> DEFINE answer == [msg |-> msg, ok |-> ok]
  <2>1. cur \in Conns /\ answer \in Answer /\ answer \in Truthful
    BY <1>9, <1>t DEF TypeOK, AnswersTruthful, Answer, Truthful, Published
  <2>2. /\ toBroker' \in [Conns -> Seq(Answer)]
        /\ \A c \in Conns : All(toBroker'[c], Truthful)
    BY <1>9, <1>t, <2>1, AllAppend DEF Send, TypeOK, AnswersTruthful
  <2>3. TypeOK'
    BY <1>9, <1>t, <2>2 DEF TypeOK, dbVars
  <2>4. AnswersTruthful'
    BY <1>9, <1>t, <2>2 DEF AnswersTruthful, Truthful, Published, dbVars
  <2>. QED
    BY <1>9, <1>t, <2>3, <2>4
       DEF IngestInv, EffectStays, Accounted, Held, Published, dbVars, Stored, Written
<1>10. CASE Ack
  BY <1>9, <1>10 DEF Ack
<1>11. CASE Nack
  BY <1>9, <1>11 DEF Nack
<1>12. CASE ConnectionError \/ Crash
  <2>1. All(<<>>, Published)
    BY DEF All
  <2>2. /\ pc' = "down" /\ inbox' = <<>> /\ msg' = None /\ link' \in BOOLEAN
        /\ UNCHANGED <<brokerVars, cur, dbVars>>
    BY <1>12, <1>t DEF ConnectionError, Crash, TypeOK
  <2>3. TypeOK'
    BY <1>t, <2>2 DEF TypeOK, brokerVars, dbVars
  <2>4. AnswersTruthful'
    BY <1>t, <2>1, <2>2 DEF AnswersTruthful, Published, Truthful, brokerVars, dbVars
  <2>. QED
    BY <1>t, <2>2, <2>3, <2>4
       DEF IngestInv, EffectStays, Accounted, Held, Published, Stored, Written, brokerVars, dbVars
<1>13. CASE UNCHANGED vars
  BY <1>13, <1>t
     DEF vars, brokerVars, threadVars, dbVars, IngestInv, TypeOK, AnswersTruthful, EffectStays,
         Accounted, Held, Published, Truthful, Stored, Written
<1>. QED
  BY <1>1, <1>2, <1>3, <1>4, <1>5, <1>6, <1>7, <1>8, <1>10, <1>11, <1>12, <1>13
     DEF Next, ThreadStep

LEMMA IngestInvariant == Spec => []IngestInv
  BY IngestInvInit, IngestInvStep, PTL DEF Spec

\* Every reachable state is well typed.
THEOREM TypeCorrect == Spec => []TypeOK
<1>1. IngestInv => TypeOK
  BY DEF IngestInv
<1>. QED
  BY <1>1, IngestInvariant, PTL

\* No published message disappears without a place in the dead letter queue,
\* a row of its own log event, or its own report written to its record: a
\* newer report of a record that is there cannot get lost either
\* (mq_consumer.py:128-160).
THEOREM NothingLostCorrect == Spec => []NothingLost
<1>1. IngestInv => NothingLost
  <2> SUFFICES ASSUME IngestInv, NEW m \in 1 .. published, ~Held(m), m \notin dlq
               PROVE  \/ m \in Logs /\ Event[m] \in Stored
                      \/ m \in States /\ Written(m)
    BY DEF NothingLost
  <2>1. m \in applied
    BY DEF IngestInv, Accounted, Published
  <2>. QED
    BY <2>1 DEF IngestInv, TypeOK, EffectStays
<1>. QED
  BY <1>1, IngestInvariant, PTL

-----------------------------------------------------------------------------
(* The consumer implements LogIngest.                                      *)

LEMMA PersistIngests ==
  ASSUME TypeOK, NEW m \in Msgs, m <= published, Persist(m), UNCHANGED <<published, dlq>>
  PROVE  [Ingest!Next]_(Ingest!vars)
<1>1. CASE m \in Logs /\ Event[m] \notin Stored
  BY <1>1 DEF Persist, Stored, Ingest!Next, Ingest!Insert, Ingest!Stored
<1>2. CASE ~(m \in Logs /\ Event[m] \notin Stored)
  BY <1>2 DEF Persist, Ingest!vars
<1>. QED
  BY <1>1, <1>2

\* At-least-once delivery and deduplicated inserts implement exactly one row
\* per log event: every step of the consumer is an insert of an event without
\* a row, a message given up, a publication, or invisible in ops_log.
THEOREM ConsumerIngestsOnce == Spec => Ingest!Safety
<1>1. Init => Ingest!Init
  BY DEF Init, Ingest!Init
<1>2. IngestInv /\ [Next]_vars => [Ingest!Next]_(Ingest!vars)
  <2> SUFFICES ASSUME IngestInv, [Next]_vars
               PROVE  [Ingest!Next]_(Ingest!vars)
    OBVIOUS
  <2>t. TypeOK /\ AnswersTruthful
    BY DEF IngestInv
  <2>1. CASE Publish
    BY <2>1 DEF Publish, dbVars, Ingest!Next, Ingest!Publish
  <2>2. ASSUME NEW c \in Conns, BrokerSettles(c)
        PROVE  [Ingest!Next]_(Ingest!vars)
    <3> DEFINE answer == Head(toBroker[c])
    <3>1. answer \in Truthful
      BY <2>2, <2>t, AllTail DEF BrokerSettles, TypeOK, AnswersTruthful
    <3>2. answer.msg \in 1 .. Count /\ answer.msg <= published
      BY <3>1 DEF Truthful, Answer, Msgs
    <3>3. CASE answer.ok
      BY <2>2, <3>3 DEF BrokerSettles, dbVars, Ingest!vars
    <3>4. CASE ~answer.ok
      BY <2>2, <3>2, <3>4 DEF BrokerSettles, dbVars, Ingest!Next, Ingest!GiveUp
    <3>. QED
      BY <3>3, <3>4
  <2>3. CASE Handle
    <3>1. Head(inbox) \in Msgs /\ Head(inbox) <= published
      BY <2>3, <2>t, AllTail DEF Handle, TypeOK, AnswersTruthful, Published
    <3>. QED
      BY <2>3, <2>t, <3>1, PersistIngests DEF Handle, brokerVars
  <2>4. CASE HandleFails
    <3>1. Head(inbox) \in Msgs /\ Head(inbox) <= published
      BY <2>4, <2>t, AllTail DEF HandleFails, TypeOK, AnswersTruthful, Published
    <3>2. CASE UNCHANGED dbVars
      BY <2>4, <3>2 DEF HandleFails, dbVars, brokerVars, Ingest!vars
    <3>3. CASE Persist(Head(inbox))
      BY <2>4, <2>t, <3>1, <3>3, PersistIngests DEF HandleFails, brokerVars
    <3>. QED
      BY <2>4, <3>2, <3>3 DEF HandleFails
  <2>5. CASE \/ \E c \in Conns : Deliver(c) \/ BrokerRequeues(c)
             \/ LinkBreaks \/ Connect \/ Ack \/ Nack \/ ConnectionError \/ Crash
             \/ UNCHANGED vars
    BY <2>5 DEF Deliver, BrokerRequeues, LinkBreaks, Connect, Ack, Nack, ConnectionError,
                Crash, vars, brokerVars, dbVars, Ingest!vars
  <2>. QED
    BY <2>1, <2>2, <2>3, <2>4, <2>5 DEF Next, ThreadStep
<1>. QED
  BY <1>1, <1>2, IngestInvariant, PTL DEF Spec, Ingest!Safety

-----------------------------------------------------------------------------
(* The newest report wins when the broker notices lost connections first.  *)

\* Why it does: the broker then deals with the messages strictly in order.
\* It has settled 1 .. f, has delivered f+1 .. d on the one open connection
\* and has the rest in the queue; on their way there are the answers to f+1,
\* f+2, ..., the message being handled and the inbox, in this order.
Working == IF pc \in {"committed", "failed"} THEN 1 ELSE 0

QueueInOrder(f, d) ==
  /\ f <= d /\ d <= published
  /\ ready = (d + 1) .. published
  /\ open \subseteq {cur}
  /\ \A c \in Conns : c \notin open => unacked[c] = {} /\ toBroker[c] = <<>>
  /\ cur \in open => unacked[cur] = (f + 1) .. d
  /\ cur \notin open => d = f
  /\ link => cur \in open /\ pc # "down"

AnswersInOrder(f, d) ==
  \A c \in open : /\ f + Len(toBroker[c]) <= d
                  /\ \A i \in 1 .. Len(toBroker[c]) : toBroker[c][i].msg = f + i

\* On a broken connection the thread may still work off its inbox.
InboxInOrder(f, d) ==
  /\ link => /\ Working = 1 => msg = f + Len(toBroker[cur]) + 1
             /\ d = f + Len(toBroker[cur]) + Working + Len(inbox)
             /\ \A i \in 1 .. Len(inbox) : inbox[i] = f + Len(toBroker[cur]) + Working + i
  /\ \A i \in 1 .. Len(inbox) : /\ inbox[i] > f
                                /\ \A c \in open : inbox[i] > f + Len(toBroker[c])

\* What is acknowledged, or about to be, is in the database or superseded.
Recorded(m) == m \in States => state[Message[m].key] >= m

AnswersAccurate(f) ==
  /\ applied \subseteq Published
  /\ \A m \in applied : m <= f => m \in dlq \/ Recorded(m)
  /\ \A c \in open : \A i \in 1 .. Len(toBroker[c]) :
       toBroker[c][i].ok => Recorded(toBroker[c][i].msg)
  /\ link /\ pc = "committed" => Recorded(msg)

Ordered(f, d) ==
  QueueInOrder(f, d) /\ AnswersInOrder(f, d) /\ InboxInOrder(f, d) /\ AnswersAccurate(f)

OrderInv == \E f, d \in Nat : Ordered(f, d)

LEMMA OrderInit == Init => OrderInv
<1> SUFFICES ASSUME Init
             PROVE  Ordered(0, 0)
  BY DEF OrderInv
<1>1. QueueInOrder(0, 0)
  BY DEF Init, QueueInOrder
<1>. QED
  BY <1>1 DEF Init, Ordered, AnswersInOrder, InboxInOrder, AnswersAccurate

LEMMA OrderTypes ==
  ASSUME IngestInv
  PROVE  /\ published \in Nat /\ cur \in Nat
         /\ Len(inbox) \in Nat
         /\ \A c \in Conns : toBroker[c] \in Seq(Answer) /\ Len(toBroker[c]) \in Nat
         /\ open \subseteq Conns /\ Msgs \subseteq Nat
         /\ state \in [StateKeys -> Nat]
  BY CountAssumption, LenProperties DEF IngestInv, TypeOK, Msgs, States

LEMMA Intervals ==
  ASSUME NEW a \in Nat, NEW b \in Nat, a <= b
  PROVE  /\ ((a + 1) .. b) \cup {b + 1} = (a + 1) .. (b + 1)
         /\ (a .. b) \ {a} = (a + 1) .. b
  OBVIOUS

LEMMA Shift ==
  ASSUME NEW f \in Nat, NEW a \in Nat, NEW b, a >= 1, b = a - 1
  PROVE  b \in Nat /\ (f + 1) + b = f + a
  OBVIOUS

LEMMA Beyond ==
  ASSUME NEW f \in Nat, NEW a \in Nat, NEW b \in Nat, NEW x \in Nat,
         (f + 1) + b = f + a, x > f + a
  PROVE  x > f + 1 /\ x > (f + 1) + b
  OBVIOUS

LEMMA Later ==
  ASSUME NEW f \in Nat, NEW a \in Nat, NEW w \in Nat, NEW i \in Nat, i >= 1
  PROVE  f + a + w + i > f /\ f + a + w + i > f + a
  OBVIOUS

LEMMA FirstOf ==
  ASSUME NEW T, NEW s \in Seq(T), s # <<>>
  PROVE  /\ Head(s) = s[1] /\ Head(s) \in T /\ Tail(s) \in Seq(T)
         /\ Len(s) \in Nat /\ Len(s) >= 1 /\ Len(Tail(s)) = Len(s) - 1
         /\ \A i \in 1 .. Len(Tail(s)) : Tail(s)[i] = s[i + 1]
  BY HeadTailProperties, EmptySeq, LenProperties

\* The steps of the broker and the network.
LEMMA PublishOrder ==
  ASSUME IngestInv, NEW f \in Nat, NEW d \in Nat, Ordered(f, d), Publish
  PROVE  Ordered(f, d)'
<1>1. /\ published' = published + 1 /\ ready' = ready \cup {published + 1}
      /\ UNCHANGED <<unacked, open, toBroker, dlq, threadVars, dbVars>>
  BY DEF Publish
<1>2. QueueInOrder(f, d)'
  <2>1. d <= published /\ ready = (d + 1) .. published /\ published \in Nat
    BY OrderTypes DEF Ordered, QueueInOrder
  <2>2. ready' = (d + 1) .. published' /\ d <= published'
    BY <1>1, <2>1, Intervals
  <2>. QED
    BY <1>1, <2>2 DEF Ordered, QueueInOrder, threadVars
<1>3. AnswersAccurate(f)'
  <2>1. /\ applied' = applied /\ state' = state /\ dlq' = dlq
        /\ toBroker' = toBroker /\ link' = link /\ pc' = pc /\ msg' = msg
    BY <1>1 DEF threadVars, dbVars
  <2>2. applied \subseteq Published'
    BY <1>1, OrderTypes DEF Ordered, AnswersAccurate, Published
  <2>3. AnswersAccurate(f)
    BY DEF Ordered
  <2>. QED
    BY <1>1, <2>1, <2>2, <2>3 DEF AnswersAccurate, Recorded
<1>. QED
  BY <1>1, <1>2, <1>3
     DEF Ordered, AnswersInOrder, InboxInOrder, Working, threadVars

LEMMA DeliverOrder ==
  ASSUME IngestInv, NEW f \in Nat, NEW d \in Nat, Ordered(f, d), NEW c \in Conns, Deliver(c)
  PROVE  Ordered(f, d + 1)'
<1>1. PICK m \in ready :
        /\ \A n \in ready : m <= n
        /\ ready' = ready \ {m}
        /\ unacked' = [unacked EXCEPT ![c] = @ \cup {m}]
        /\ inbox' = IF c = cur /\ link /\ pc # "down" THEN Append(inbox, m) ELSE inbox
  BY DEF Deliver
<1>2. UNCHANGED <<published, open, toBroker, dlq, cur, link, pc, msg, dbVars>>
  BY DEF Deliver
<1>3. c = cur /\ cur \in open
  BY DEF Deliver, Ordered, QueueInOrder
<1>4. m = d + 1 /\ m <= published
  BY <1>1, OrderTypes DEF Ordered, QueueInOrder
<1>5. QueueInOrder(f, d + 1)'
  <2>1. unacked \in [Conns -> SUBSET Msgs]
    BY DEF IngestInv, TypeOK
  <2>2. /\ ready' = ((d + 1) + 1) .. published
        /\ unacked'[cur] = (f + 1) .. (d + 1)
        /\ \A b \in Conns : b # cur => unacked'[b] = unacked[b]
    BY <1>1, <1>3, <1>4, <2>1, OrderTypes DEF Ordered, QueueInOrder
  <2>. QED
    BY <1>2, <1>3, <1>4, <2>2 DEF Ordered, QueueInOrder
<1>6. AnswersInOrder(f, d + 1)'
  BY <1>2, OrderTypes DEF Ordered, AnswersInOrder
<1>7. InboxInOrder(f, d + 1)'
  <2>1. CASE link
    <3>1. inbox \in Seq(Msgs) /\ m \in Msgs
      BY <1>1 DEF IngestInv, TypeOK
    <3>2. inbox' = Append(inbox, m)
      BY <1>1, <1>3, <2>1 DEF Ordered, QueueInOrder
    <3>3. /\ Len(inbox') = Len(inbox) + 1
          /\ \A i \in 1 .. Len(inbox) : inbox'[i] = inbox[i]
          /\ inbox'[Len(inbox) + 1] = m
      BY <3>1, <3>2, AppendProperties
    <3>4. /\ d = f + Len(toBroker[cur]) + Working + Len(inbox)
          /\ Working \in {0, 1} /\ Working' = Working
          /\ Len(toBroker[cur]) \in Nat
      BY <1>2, <1>3, <2>1, OrderTypes DEF Ordered, InboxInOrder, Working
    <3>5. Len(inbox) \in Nat /\ Working \in Nat
      BY <3>4, OrderTypes
    <3>6. d + 1 = f + Len(toBroker[cur]) + Working + (Len(inbox) + 1)
      <4> DEFINE a == Len(toBroker[cur])
                 w == Working
                 n == Len(inbox)
      <4>1. a \in Nat /\ w \in Nat /\ n \in Nat /\ d = f + a + w + n
        BY <3>4, <3>5
      <4> HIDE DEF a, w, n
      <4>2. d + 1 = f + a + w + (n + 1)
        BY <4>1
      <4>. QED
        BY <4>2 DEF a, w, n
    <3>7. ASSUME NEW i \in 1 .. Len(inbox')
          PROVE  inbox'[i] = f + Len(toBroker[cur]) + Working + i
      <4>1. CASE i = Len(inbox) + 1
        BY <1>4, <3>3, <3>6, <4>1
      <4>2. CASE i \in 1 .. Len(inbox)
        BY <2>1, <3>3, <4>2 DEF Ordered, InboxInOrder
      <4>. QED
        BY <3>3, <3>5, <4>1, <4>2
    <3>8. Working = 1 => msg = f + Len(toBroker[cur]) + 1
      BY <2>1 DEF Ordered, InboxInOrder
    <3>9. \A i \in 1 .. Len(inbox') : /\ inbox'[i] > f
                                     /\ inbox'[i] > f + Len(toBroker[cur])
      BY <3>4, <3>5, <3>7, Later
    <3>10. open \subseteq {cur}
      BY DEF Ordered, QueueInOrder
    <3>. QED
      BY <1>2, <3>3, <3>4, <3>6, <3>7, <3>8, <3>9, <3>10 DEF InboxInOrder
  <2>2. CASE ~link
    BY <1>1, <1>2, <2>2 DEF Ordered, InboxInOrder
  <2>. QED
    BY <2>1, <2>2
<1>8. AnswersAccurate(f)'
  BY <1>2 DEF Ordered, AnswersAccurate, Recorded, Published, dbVars
<1>. QED
  BY <1>5, <1>6, <1>7, <1>8 DEF Ordered

LEMMA SettleOrder ==
  ASSUME IngestInv, NEW f \in Nat, NEW d \in Nat, Ordered(f, d), NEW c \in Conns,
         BrokerSettles(c)
  PROVE  Ordered(f + 1, d)'
<1> DEFINE answer == Head(toBroker[c])
<1>1. /\ c = cur /\ cur \in open /\ toBroker[c] # <<>>
      /\ unacked' = [unacked EXCEPT ![c] = @ \ {answer.msg}]
      /\ dlq' = IF answer.ok THEN dlq ELSE dlq \cup {answer.msg}
      /\ toBroker' = [toBroker EXCEPT ![c] = Tail(@)]
      /\ UNCHANGED <<published, ready, open, threadVars, dbVars>>
  BY DEF BrokerSettles, Ordered, QueueInOrder
<1>2. /\ Len(toBroker'[c]) = Len(toBroker[c]) - 1
      /\ \A i \in 1 .. Len(toBroker'[c]) : toBroker'[c][i] = toBroker[c][i + 1]
      /\ answer = toBroker[c][1]
      /\ Len(toBroker[c]) \in Nat /\ Len(toBroker[c]) >= 1
  <2>1. toBroker[c] \in Seq(Answer) /\ toBroker'[c] = Tail(toBroker[c])
    BY <1>1 DEF IngestInv, TypeOK
  <2>2. /\ Len(Tail(toBroker[c])) = Len(toBroker[c]) - 1
        /\ \A i \in 1 .. Len(Tail(toBroker[c])) : Tail(toBroker[c])[i] = toBroker[c][i + 1]
        /\ Head(toBroker[c]) = toBroker[c][1]
        /\ Len(toBroker[c]) \in Nat /\ Len(toBroker[c]) >= 1
    BY <1>1, <2>1, FirstOf
  <2>. QED
    BY <2>1, <2>2
<1>2a. c = cur
  BY <1>1
<1>2b. /\ Len(toBroker[cur]) \in Nat /\ Len(toBroker'[cur]) \in Nat
       /\ (f + 1) + Len(toBroker'[cur]) = f + Len(toBroker[cur])
  BY <1>2, <1>2a, Shift
<1>3. answer.msg = f + 1 /\ f + 1 <= d
  BY <1>1, <1>2 DEF Ordered, AnswersInOrder
<1>4. QueueInOrder(f + 1, d)'
  <2>1. unacked \in [Conns -> SUBSET Msgs] /\ toBroker \in [Conns -> Seq(Answer)]
    BY DEF IngestInv, TypeOK
  <2>2. unacked[cur] = (f + 1) .. d
    BY <1>1 DEF Ordered, QueueInOrder
  <2>3. unacked'[cur] = unacked[cur] \ {f + 1}
    BY <1>1, <1>3, <2>1
  <2>4. unacked'[cur] = ((f + 1) + 1) .. d
    BY <1>3, <2>2, <2>3, Intervals
  <2>5. \A b \in Conns : b # cur => unacked'[b] = unacked[b] /\ toBroker'[b] = toBroker[b]
    BY <1>1, <2>1
  <2>. QED
    BY <1>1, <1>3, <2>4, <2>5 DEF Ordered, QueueInOrder, threadVars
<1>5. AnswersInOrder(f + 1, d)'
  <2>1. /\ f + Len(toBroker[cur]) <= d
        /\ \A i \in 1 .. Len(toBroker[cur]) : toBroker[cur][i].msg = f + i
    BY <1>1 DEF Ordered, AnswersInOrder
  <2>2. \A i \in 1 .. Len(toBroker'[cur]) :
          i + 1 \in 1 .. Len(toBroker[cur]) /\ f + (i + 1) = (f + 1) + i
    BY <1>1, <1>2
  <2>3. \A i \in 1 .. Len(toBroker'[cur]) : toBroker'[cur][i].msg = (f + 1) + i
    BY <1>1, <1>2, <2>1, <2>2
  <2>4. (f + 1) + Len(toBroker'[cur]) <= d
    BY <1>2b, <2>1
  <2>5. open' \subseteq {cur}
    BY <1>1 DEF Ordered, QueueInOrder
  <2>. QED
    BY <2>3, <2>4, <2>5 DEF AnswersInOrder
<1>6. InboxInOrder(f + 1, d)'
  <2>1. Working \in {0, 1} /\ Working' = Working
    BY <1>1 DEF Working, threadVars
  <2>2. open' \subseteq {cur}
    BY <1>1 DEF Ordered, QueueInOrder
  <2>3. /\ (f + 1) + Len(toBroker'[cur]) = f + Len(toBroker[cur])
        /\ Len(toBroker'[cur]) \in Nat
    BY <1>2b
  <2>4. \A i \in 1 .. Len(inbox) : inbox[i] \in Nat
    BY ElementOfSeq, OrderTypes DEF IngestInv, TypeOK
  <2>5. \A i \in 1 .. Len(inbox) : inbox[i] > f + Len(toBroker[cur])
    BY <1>1 DEF Ordered, InboxInOrder
  <2>6. \A i \in 1 .. Len(inbox) :
          inbox[i] > f + 1 /\ inbox[i] > (f + 1) + Len(toBroker'[cur])
    BY <1>2b, <2>4, <2>5, Beyond
  <2>7. link => /\ Working = 1 => msg = (f + 1) + Len(toBroker'[cur]) + 1
                /\ d = (f + 1) + Len(toBroker'[cur]) + Working + Len(inbox)
                /\ \A i \in 1 .. Len(inbox) :
                     inbox[i] = (f + 1) + Len(toBroker'[cur]) + Working + i
    BY <2>3 DEF Ordered, InboxInOrder
  <2>. QED
    BY <1>1, <2>1, <2>2, <2>6, <2>7 DEF InboxInOrder, threadVars
<1>7. AnswersAccurate(f + 1)'
  <2>1. answer.ok => Recorded(f + 1)
    BY <1>1, <1>2, <1>3 DEF Ordered, AnswersAccurate
  <2>2. \A m \in applied : m <= f + 1 => m \in dlq' \/ Recorded(m)
    BY <1>1, <1>3, <2>1, OrderTypes DEF Ordered, AnswersAccurate, Published
  <2>3. \A i \in 1 .. Len(toBroker'[cur]) :
          toBroker'[cur][i].ok => Recorded(toBroker'[cur][i].msg)
    BY <1>1, <1>2 DEF Ordered, AnswersAccurate
  <2>. QED
    BY <1>1, <2>2, <2>3
       DEF Ordered, AnswersAccurate, QueueInOrder, Recorded, Published, threadVars, dbVars
<1>. QED
  BY <1>4, <1>5, <1>6, <1>7 DEF Ordered

LEMMA RequeueOrder ==
  ASSUME IngestInv, NEW f \in Nat, NEW d \in Nat, Ordered(f, d), NEW c \in Conns,
         BrokerRequeues(c)
  PROVE  Ordered(f, f)'
<1>1. /\ c = cur /\ cur \in open /\ ~link
      /\ open' = {} /\ ready' = ready \cup unacked[c]
      /\ unacked' = [unacked EXCEPT ![c] = {}]
      /\ toBroker' = [toBroker EXCEPT ![c] = <<>>]
      /\ UNCHANGED <<published, dlq, threadVars, dbVars>>
  BY DEF BrokerRequeues, Ordered, QueueInOrder
<1>2. ready' = (f + 1) .. published
  BY <1>1, OrderTypes DEF Ordered, QueueInOrder
<1>3. \A b \in Conns : unacked'[b] = {} /\ toBroker'[b] = <<>>
  BY <1>1 DEF IngestInv, TypeOK, Ordered, QueueInOrder
<1>4. QueueInOrder(f, f)'
  BY <1>1, <1>2, <1>3, OrderTypes DEF Ordered, QueueInOrder, threadVars
<1>. QED
  BY <1>1, <1>4
     DEF Ordered, AnswersInOrder, InboxInOrder, AnswersAccurate, Recorded, Published,
         threadVars, dbVars

LEMMA BreakOrder ==
  ASSUME IngestInv, NEW f \in Nat, NEW d \in Nat, Ordered(f, d),
         LinkBreaks \/ ConnectionError \/ Crash
  PROVE  Ordered(f, d)'
<1>1. CASE LinkBreaks
  BY <1>1 DEF LinkBreaks, Ordered, QueueInOrder, AnswersInOrder, InboxInOrder,
              AnswersAccurate, Recorded, Published, brokerVars, dbVars
<1>2. CASE ConnectionError \/ Crash
  <2>1. /\ link' = FALSE /\ pc' = "down" /\ inbox' = <<>>
        /\ UNCHANGED <<brokerVars, cur, dbVars>>
    BY <1>2 DEF ConnectionError, Crash, IngestInv, TypeOK
  <2>. QED
    BY <2>1 DEF Ordered, QueueInOrder, AnswersInOrder, InboxInOrder, AnswersAccurate,
                Recorded, Published, brokerVars, dbVars
<1>. QED
  BY <1>1, <1>2

\* The steps of the thread.
LEMMA ConnectOrder ==
  ASSUME IngestInv, ~LateDetection, NEW f \in Nat, NEW d \in Nat, Ordered(f, d), Connect
  PROVE  Ordered(f, d)'
<1>1. /\ open = {} /\ cur < MaxConnections /\ cur' = cur + 1
      /\ open' = {cur'} /\ pc' = "consuming" /\ inbox' = <<>>
      /\ UNCHANGED <<published, ready, unacked, toBroker, dlq, dbVars>>
  BY DEF Connect
<1>2. cur' \in Conns
  BY <1>1, OrderTypes, CountAssumption DEF Conns
<1>3. d = f /\ unacked[cur'] = {} /\ toBroker[cur'] = <<>>
  BY <1>1, <1>2 DEF Ordered, QueueInOrder
<1>4. (f + 1) .. d = {}
  BY <1>3
<1>5. QueueInOrder(f, d)'
  BY <1>1, <1>2, <1>3, <1>4 DEF Ordered, QueueInOrder
<1>6. AnswersInOrder(f, d)' /\ InboxInOrder(f, d)'
  BY <1>1, <1>3 DEF AnswersInOrder, InboxInOrder, Working
<1>7. AnswersAccurate(f)'
  BY <1>1, <1>3 DEF Ordered, AnswersAccurate, Recorded, Published, dbVars
<1>. QED
  BY <1>5, <1>6, <1>7 DEF Ordered

LEMMA PersistRecords ==
  ASSUME IngestInv, NEW x \in Msgs, Persist(x) \/ UNCHANGED dbVars
  PROVE  /\ \A m \in Msgs : m < x /\ Recorded(m) => Recorded(m)'
         /\ Persist(x) => Recorded(x)'
<1>1. CASE UNCHANGED dbVars
  <2>1. \A m \in Msgs : Recorded(m) => Recorded(m)'
    BY <1>1 DEF dbVars, Recorded
  <2>2. Persist(x) => Recorded(x)'
    BY KeyAssumption, OrderTypes DEF Persist, Recorded
  <2>. QED
    BY <2>1, <2>2
<1>2. CASE Persist(x)
  BY <1>2, KeyAssumption, OrderTypes DEF Persist, Recorded
<1>. QED
  BY <1>1, <1>2

LEMMA HandleOrder ==
  ASSUME IngestInv, NEW f \in Nat, NEW d \in Nat, Ordered(f, d), Handle \/ HandleFails
  PROVE  Ordered(f, d)'
<1>a. inbox # <<>> /\ inbox \in Seq(Msgs)
  BY DEF Handle, HandleFails, IngestInv, TypeOK
<1>b. PICK x \in Msgs : x = Head(inbox)
  BY <1>a, FirstOf
<1>1. /\ pc = "consuming"
      /\ msg' = x /\ inbox' = Tail(inbox)
      /\ pc' \in {"committed", "failed"}
      /\ Persist(x) \/ UNCHANGED dbVars
      /\ pc' = "committed" => Persist(x)
      /\ UNCHANGED <<brokerVars, cur, link>>
  BY <1>b DEF Handle, HandleFails
<1>2. /\ x = inbox[1] /\ x \in Msgs
      /\ Len(inbox) \in Nat /\ Len(inbox) >= 1 /\ Len(inbox') = Len(inbox) - 1
      /\ \A i \in 1 .. Len(inbox') : inbox'[i] = inbox[i + 1]
  BY <1>a, <1>b, <1>1, FirstOf
<1>3. x > f /\ \A c \in open : x > f + Len(toBroker[c])
  BY <1>2 DEF Ordered, InboxInOrder
<1>4. x \in Published
  BY <1>1, <1>2 DEF IngestInv, AnswersTruthful, All
<1>5. Working = 0 /\ Working' = 1
  BY <1>1 DEF Working
<1>6. QueueInOrder(f, d)' /\ AnswersInOrder(f, d)'
  BY <1>1 DEF Ordered, QueueInOrder, AnswersInOrder, brokerVars
<1>7. InboxInOrder(f, d)'
  <2>1. \A i \in 1 .. Len(inbox') : /\ inbox'[i] > f
                                   /\ \A c \in open : inbox'[i] > f + Len(toBroker[c])
    BY <1>2 DEF Ordered, InboxInOrder
  <2>2. ASSUME link
        PROVE  /\ x = f + Len(toBroker[cur]) + 1
               /\ d = f + Len(toBroker[cur]) + 1 + Len(inbox')
               /\ \A i \in 1 .. Len(inbox') : inbox'[i] = f + Len(toBroker[cur]) + 1 + i
    <3> DEFINE a == Len(toBroker[cur])
    <3>1. a \in Nat
      BY <2>2, OrderTypes DEF Ordered, QueueInOrder
    <3>2. /\ d = f + a + 0 + Len(inbox)
          /\ \A i \in 1 .. Len(inbox) : inbox[i] = f + a + 0 + i
      BY <1>5, <2>2 DEF Ordered, InboxInOrder
    <3> HIDE DEF a
    <3>3. \A i \in 1 .. Len(inbox') : i + 1 \in 1 .. Len(inbox)
      BY <1>2
    <3>4. /\ x = f + a + 1 /\ d = f + a + 1 + Len(inbox')
          /\ \A i \in 1 .. Len(inbox') : inbox'[i] = f + a + 1 + i
      BY <1>2, <3>1, <3>2, <3>3
    <3>. QED
      BY <3>4 DEF a
  <2>. QED
    BY <1>1, <1>5, <2>1, <2>2 DEF InboxInOrder, brokerVars
<1>8. AnswersAccurate(f)'
  <2>1. /\ \A m \in Msgs : m < x /\ Recorded(m) => Recorded(m)'
        /\ Persist(x) => Recorded(x)'
    BY <1>1, <1>2, PersistRecords
  <2>2. applied' \subseteq applied \cup {x}
    BY <1>1 DEF Persist, dbVars
  <2>3. \A m \in applied' : m <= f => m \in dlq' \/ Recorded(m)'
    <3>1. applied \subseteq Msgs /\ Msgs \subseteq Nat
      BY OrderTypes DEF IngestInv, TypeOK, States, Logs
    <3>2. \A m \in applied : m <= f => m \in dlq \/ Recorded(m)
      BY DEF Ordered, AnswersAccurate
    <3>. QED
      BY <1>1, <1>2, <1>3, <2>1, <2>2, <3>1, <3>2, OrderTypes DEF brokerVars
  <2>4. ASSUME NEW c \in open, NEW i \in 1 .. Len(toBroker[c])
        PROVE  (toBroker[c][i].ok => Recorded(toBroker[c][i].msg))'
    <3>1. toBroker[c][i] \in Answer /\ Len(toBroker[c]) \in Nat
      BY ElementOfSeq, OrderTypes
    <3>2. PICK m \in Msgs : m = toBroker[c][i].msg
      BY <3>1 DEF Answer
    <3>3. m < x
      <4>1. m = f + i
        BY <3>2 DEF Ordered, AnswersInOrder
      <4>. QED
        BY <1>2, <1>3, <3>1, <4>1, OrderTypes
    <3>4. toBroker[c][i].ok => Recorded(m)
      BY <3>2 DEF Ordered, AnswersAccurate
    <3>. QED
      BY <1>1, <2>1, <3>2, <3>3, <3>4 DEF brokerVars
  <2>5. applied' \subseteq Published'
    BY <1>1, <1>4, <2>2 DEF Ordered, AnswersAccurate, Published, brokerVars
  <2>6. (link /\ pc = "committed" => Recorded(msg))'
    BY <1>1, <2>1
  <2>7. open' = open /\ toBroker' = toBroker
    BY <1>1 DEF brokerVars
  <2>. QED
    BY <2>3, <2>4, <2>5, <2>6, <2>7 DEF AnswersAccurate
<1>. QED
  BY <1>6, <1>7, <1>8 DEF Ordered

LEMMA SendOrder ==
  ASSUME IngestInv, NEW f \in Nat, NEW d \in Nat, Ordered(f, d), Ack \/ Nack
  PROVE  Ordered(f, d)'
<1>1. PICK ok \in BOOLEAN :
        /\ Send(ok)
        /\ pc = IF ok THEN "committed" ELSE "failed"
        /\ pc' = "consuming"
        /\ UNCHANGED <<published, ready, unacked, open, dlq, cur, link, inbox, dbVars>>
  BY DEF Ack, Nack
<1>2. Working = 1 /\ Working' = 0
  BY <1>1 DEF Working
<1>3. CASE ~link
  BY <1>1, <1>3
     DEF Send, Ordered, QueueInOrder, AnswersInOrder, InboxInOrder, AnswersAccurate,
         Recorded, Published, dbVars
<1>4. CASE link
  <2> DEFINE answer == [msg |-> msg, ok |-> ok]
             a == Len(toBroker[cur])
             b == Len(toBroker'[cur])
  <2>1. /\ cur \in open /\ cur \in Conns /\ open \subseteq {cur}
        /\ toBroker[cur] \in Seq(Answer) /\ a \in Nat /\ Len(inbox) \in Nat
        /\ toBroker \in [Conns -> Seq(Answer)]
    BY <1>4, OrderTypes DEF Ordered, QueueInOrder, IngestInv, TypeOK
  <2>2. answer \in Answer
    BY <1>1 DEF IngestInv, TypeOK, Answer
  <2>3. /\ toBroker'[cur] = Append(toBroker[cur], answer)
        /\ \A c \in Conns : c # cur => toBroker'[c] = toBroker[c]
    BY <1>1, <1>4, <2>1 DEF Send
  <2>4. /\ b = a + 1
        /\ \A i \in 1 .. a : toBroker'[cur][i] = toBroker[cur][i]
        /\ toBroker'[cur][a + 1] = answer
    BY <2>1, <2>2, <2>3, AppendProperties
  <2>5. /\ msg = f + a + 1 /\ d = f + a + 1 + Len(inbox)
        /\ \A i \in 1 .. Len(inbox) : inbox[i] = f + a + 1 + i
    BY <1>2, <1>4 DEF Ordered, InboxInOrder
  <2>6. QueueInOrder(f, d)'
    BY <1>1, <1>4, <2>1, <2>3 DEF Ordered, QueueInOrder
  <2>8. ok => Recorded(msg)
    BY <1>1, <1>4 DEF Ordered, AnswersAccurate
  <2>9. ASSUME NEW i \in 1 .. b
        PROVE  /\ toBroker'[cur][i].msg = f + i
               /\ toBroker'[cur][i].ok => Recorded(toBroker'[cur][i].msg)
    <3> HIDE DEF a, b
    <3>1. CASE i \in 1 .. a
      <4>1. toBroker'[cur][i] = toBroker[cur][i]
        BY <2>4, <3>1
      <4>2. /\ toBroker[cur][i].msg = f + i
            /\ toBroker[cur][i].ok => Recorded(toBroker[cur][i].msg)
        BY <2>1, <3>1 DEF a, Ordered, AnswersInOrder, AnswersAccurate
      <4>3. toBroker'[cur][i].msg = toBroker[cur][i].msg
        BY <4>1
      <4>4. toBroker'[cur][i].ok => toBroker[cur][i].ok
        BY <4>1
      <4>. QED
        BY <4>2, <4>3, <4>4 DEF Recorded
    <3>2. CASE i = a + 1
      <4>1. toBroker'[cur][i].msg = msg /\ toBroker'[cur][i].ok = ok
        BY <2>4, <3>2
      <4>. QED
        BY <2>1, <2>5, <2>8, <3>2, <4>1
    <3>3. i \in 1 .. a \/ i = a + 1
      BY <2>1, <2>4
    <3>. QED
      BY <3>1, <3>2, <3>3
  <2>10. /\ f + b <= d /\ d = f + b + 0 + Len(inbox)
         /\ \A i \in 1 .. Len(inbox) : /\ inbox[i] = f + b + 0 + i
                                       /\ inbox[i] > f /\ inbox[i] > f + b
    <3> HIDE DEF a, b
    <3>. QED
      BY <2>1, <2>4, <2>5
  <2>11. AnswersInOrder(f, d)' /\ InboxInOrder(f, d)'
    BY <1>1, <1>2, <2>1, <2>9, <2>10 DEF AnswersInOrder, InboxInOrder
  <2>12. AnswersAccurate(f)'
    BY <1>1, <2>1, <2>9 DEF Ordered, AnswersAccurate, Recorded, Published, dbVars
  <2>. QED
    BY <2>6, <2>11, <2>12 DEF Ordered
<1>. QED
  BY <1>3, <1>4

LEMMA OrderStep == ~LateDetection /\ IngestInv /\ OrderInv /\ [Next]_vars => OrderInv'
<1> SUFFICES ASSUME ~LateDetection, IngestInv, NEW f \in Nat, NEW d \in Nat, Ordered(f, d),
                    [Next]_vars
             PROVE  OrderInv'
  BY DEF OrderInv
<1>1. CASE UNCHANGED vars
  <2>1. Ordered(f, d)'
    BY <1>1 DEF vars, brokerVars, threadVars, dbVars, Ordered, QueueInOrder, AnswersInOrder,
                InboxInOrder, AnswersAccurate, Recorded, Published, Working
  <2>. QED
    BY <2>1 DEF OrderInv
<1>2. ASSUME NEW c \in Conns, Deliver(c)
      PROVE  OrderInv'
  BY <1>2, DeliverOrder DEF OrderInv
<1>3. ASSUME NEW c \in Conns, BrokerSettles(c)
      PROVE  OrderInv'
  BY <1>3, SettleOrder DEF OrderInv
<1>. QED
  BY <1>1, <1>2, <1>3, PublishOrder, RequeueOrder, BreakOrder, ConnectOrder, HandleOrder,
     SendOrder
     DEF Next, ThreadStep, OrderInv

\* When the broker has noticed that a connection is gone by the time the
\* consumer is back, an accepted report is never hidden behind an older one,
\* for any messages, prefetch, connections, crashes and lost answers.
THEOREM LatestStateWinsCorrect == ~LateDetection => (Spec => []LatestStateWins)
<1> SUFFICES ASSUME ~LateDetection
             PROVE  Spec => []LatestStateWins
  OBVIOUS
<1>1. IngestInv /\ OrderInv => LatestStateWins
  <2> SUFFICES ASSUME IngestInv, NEW f \in Nat, NEW d \in Nat, Ordered(f, d),
                      \A m \in Msgs : ~Held(m),
                      NEW m \in applied \cap States, m \notin dlq
               PROVE  state[Message[m].key] >= m
    BY DEF OrderInv, LatestStateWins
  <2>1. m \in Msgs /\ m \in Published /\ published \in Nat /\ m \in Nat
    BY OrderTypes DEF Ordered, AnswersAccurate, States
  <2>2. ~(m > f)
    <3> SUFFICES ASSUME m > f
                 PROVE  FALSE
      OBVIOUS
    <3>1. m \notin ready /\ \A c \in Conns : m \notin unacked[c]
      BY <2>1 DEF Held
    <3>2. m <= d
      BY <2>1, <3>1 DEF Ordered, QueueInOrder, Published
    <3>3. CASE cur \in open
      BY <2>1, <3>1, <3>2, <3>3, OrderTypes DEF Ordered, QueueInOrder
    <3>4. CASE cur \notin open
      BY <2>1, <3>2, <3>4 DEF Ordered, QueueInOrder
    <3>. QED
      BY <3>3, <3>4
  <2>. QED
    BY <2>1, <2>2 DEF Ordered, AnswersAccurate, Recorded
<1>. QED
  BY <1>1, OrderInit, OrderStep, IngestInvariant, PTL DEF Spec

=============================================================================
