------------------------ MODULE ServiceProcessProofs ------------------------
(***************************************************************************)
(* Proofs about ServiceProcess, for any number of requests at a time and   *)
(* any size of the connection pool.                                        *)
(***************************************************************************)
EXTENDS ServiceProcess, FiniteSetTheorems, TLAPS

\* Before the service has started nobody is at work.
QuietBeforeStart ==
  phase = "starting" =>
    /\ \A r \in Requests : at[r] = "idle"
    /\ at[Loop] = "none" /\ at[Consumer] = "none"

\* While lifespan ends, the broadcast task is not in a synchronous call.
LoopAtRest == phase \in {"signalled", "told"} => LoopFree

\* A consumption runs on a connection that shutdown() can see.
ConsumesOnOpen == at[Consumer] \in Consuming => published = "open"

\* shutdown() has set the stop event, unless the thread had ended.
StopIsSet == phase \in {"signalled", "told"} => stop \/ at[Consumer] = "none"

\* Whoever still connects after shutdown() was overtaken by it.
Overtaken ==
  phase = "told" =>
    /\ at[Consumer] = "connecting" => met = "connecting"
    /\ at[Consumer] = "publishing" => met \in {"connecting", "publishing"}

IInv ==
  /\ TypeOK /\ ConnectionsInUse /\ StopReachesConsumer
  /\ QuietBeforeStart /\ LoopAtRest /\ ConsumesOnOpen /\ StopIsSet /\ Overtaken

-----------------------------------------------------------------------------

LEMMA HoldersFinite == TypeOK => IsFiniteSet(holds)
<1> SUFFICES ASSUME TypeOK PROVE IsFiniteSet(holds)
  OBVIOUS
<1>1. IsFiniteSet({Loop, Consumer})
  <2>1. IsFiniteSet({Loop})
    BY FS_Singleton
  <2>2. IsFiniteSet({Loop} \cup {Consumer})
    BY <2>1, FS_AddElement
  <2>3. {Loop} \cup {Consumer} = {Loop, Consumer}
    OBVIOUS
  <2>. QED
    BY <2>2, <2>3
<1>2. IsFiniteSet(Threads)
  BY <1>1, ProcessAssumption, FS_Union DEF Threads
<1>. QED
  BY <1>2, FS_Subset DEF TypeOK

\* Taking a connection while there is one, and giving one back, keep the pool
\* within its capacity.
LEMMA TakeOne ==
  ASSUME TypeOK, NEW t \in Threads, Cardinality(holds) < Capacity
  PROVE  holds \cup {t} \subseteq Threads /\ Cardinality(holds \cup {t}) <= Capacity
<1>1. IsFiniteSet(holds) /\ Cardinality(holds) \in Nat
  BY HoldersFinite, FS_CardinalityType
<1>2. Cardinality(holds \cup {t}) = IF t \in holds THEN Cardinality(holds) ELSE Cardinality(holds) + 1
  BY <1>1, FS_AddElement
<1>. QED
  BY <1>1, <1>2, ProcessAssumption DEF TypeOK

LEMMA GiveOneBack ==
  ASSUME TypeOK, NEW t
  PROVE  holds \ {t} \subseteq Threads /\ Cardinality(holds \ {t}) <= Capacity
<1>1. IsFiniteSet(holds) /\ Cardinality(holds) \in Nat
  BY HoldersFinite, FS_CardinalityType
<1>2. Cardinality(holds \ {t}) = IF t \in holds THEN Cardinality(holds) - 1 ELSE Cardinality(holds)
  BY <1>1, FS_RemoveElement
<1>. QED
  BY <1>1, <1>2, ProcessAssumption DEF TypeOK

-----------------------------------------------------------------------------

LEMMA InitInv == Init => IInv
<1> SUFFICES ASSUME Init PROVE IInv
  OBVIOUS
<1>1. TypeOK
  <2>1. Cardinality(holds) <= Capacity
    BY FS_EmptySet, ProcessAssumption DEF Init
  <2>. QED
    BY <2>1, ProcessAssumption
    DEF Init, TypeOK, RedisInit, RedisTypeOK, Phases, Threads, Loop, Consumer, RequestPlaces,
        LoopPlaces, ConsumerPlaces, Busy, Consuming
<1>. QED
  BY <1>1, ProcessAssumption
  DEF Init, IInv, ConnectionsInUse, StopReachesConsumer, QuietBeforeStart, LoopAtRest,
      ConsumesOnOpen, StopIsSet, Overtaken, Threads, Loop, Consumer, Consuming

LEMMA StartInv == IInv /\ Start => IInv'
<1> SUFFICES ASSUME IInv, Start PROVE IInv'
  OBVIOUS
<1>1. holds = {} /\ holds' = {}
  BY DEF Start, IInv, TypeOK, ConnectionsInUse, QuietBeforeStart, Threads
<1>2. CASE phase' = "refused"
  <2>1. UNCHANGED <<redisVars, at, holds, consumerVars>>
    BY <1>2 DEF Start
  <2>. QED
    BY <1>2, <2>1
    DEF Start, IInv, TypeOK, RedisTypeOK, Phases, ConnectionsInUse, StopReachesConsumer,
        QuietBeforeStart, LoopAtRest, LoopFree, ConsumesOnOpen, StopIsSet, Overtaken,
        redisVars, consumerVars
<1>3. CASE phase' = "serving"
  <2>1. /\ at' = [at EXCEPT ![Consumer] = "testing", ![Loop] = "sleeping"]
        /\ stop' = FALSE
        /\ UNCHANGED <<redisVars, holds, published, callback, met>>
    BY <1>3 DEF Start
  <2>2. /\ at' \in [Threads -> RequestPlaces \cup LoopPlaces \cup ConsumerPlaces]
        /\ at'[Loop] = "sleeping" /\ at'[Consumer] = "testing"
        /\ \A r \in Requests : at'[r] = at[r]
    BY <2>1, ProcessAssumption
    DEF IInv, TypeOK, Threads, Loop, Consumer, LoopPlaces, ConsumerPlaces
  <2>3. TypeOK'
    BY <1>3, <2>1, <2>2
    DEF IInv, TypeOK, RedisTypeOK, Phases, LoopPlaces, ConsumerPlaces, redisVars
  <2>. QED
    BY <1>1, <1>3, <2>1, <2>2, <2>3
    DEF IInv, ConnectionsInUse, StopReachesConsumer, QuietBeforeStart, LoopAtRest, LoopFree,
        ConsumesOnOpen, StopIsSet, Overtaken, Consuming
<1>. QED
  BY <1>2, <1>3 DEF Start

\* A request that moves, without touching the state of other threads.
LEMMA RequestMoves ==
  ASSUME IInv, NEW r \in Requests, NEW place \in RequestPlaces, Go(r, place),
         phase # "starting", UNCHANGED <<phase, consumerVars>>, RedisTypeOK',
         holds' \subseteq Threads, Cardinality(holds') <= Capacity,
         holds' \subseteq holds \cup {r},
         r \in holds' => place \in {"running", "probing", "finished", "closing", "pinging database"}
  PROVE  IInv'
<1>1. /\ at' \in [Threads -> RequestPlaces \cup LoopPlaces \cup ConsumerPlaces]
      /\ \A t \in Threads \ {r} : at'[t] = at[t]
      /\ at'[r] = place
  BY DEF Go, IInv, TypeOK, Threads
<1>2. /\ at'[Loop] = at[Loop] /\ at'[Consumer] = at[Consumer]
      /\ Loop \in holds' => Loop \in holds
      /\ Consumer \in holds' => Consumer \in holds
  BY <1>1, ProcessAssumption DEF Threads
<1>3. TypeOK'
  BY <1>1, <1>2 DEF IInv, TypeOK, consumerVars, Threads
<1>4. ConnectionsInUse'
  BY <1>1, <1>2 DEF IInv, ConnectionsInUse, Threads
<1>. QED
  BY <1>2, <1>3, <1>4
  DEF IInv, StopReachesConsumer, QuietBeforeStart, LoopAtRest, LoopFree, ConsumesOnOpen,
      StopIsSet, Overtaken, consumerVars

\* The broadcast task moves.
LEMMA LoopMoves ==
  ASSUME IInv, NEW place \in LoopPlaces, Go(Loop, place),
         phase # "starting", phase \in {"signalled", "told"} => place \notin Busy,
         UNCHANGED <<phase, consumerVars>>, RedisTypeOK',
         holds' \subseteq Threads, Cardinality(holds') <= Capacity,
         holds' \subseteq holds \cup {Loop},
         Loop \in holds' => place = "checking"
  PROVE  IInv'
<1>1. /\ at' \in [Threads -> RequestPlaces \cup LoopPlaces \cup ConsumerPlaces]
      /\ \A t \in Threads \ {Loop} : at'[t] = at[t]
      /\ at'[Loop] = place
  BY DEF Go, IInv, TypeOK, Threads
<1>2. /\ \A r \in Requests : at'[r] = at[r] /\ (r \in holds' => r \in holds)
      /\ at'[Consumer] = at[Consumer]
      /\ Consumer \in holds' => Consumer \in holds
  BY <1>1, ProcessAssumption DEF Threads, Loop, Consumer
<1>3. TypeOK'
  BY <1>1, <1>2 DEF IInv, TypeOK, consumerVars
<1>4. ConnectionsInUse'
  BY <1>1, <1>2 DEF IInv, ConnectionsInUse
<1>. QED
  BY <1>1, <1>2, <1>3, <1>4
  DEF IInv, StopReachesConsumer, QuietBeforeStart, LoopAtRest, LoopFree, ConsumesOnOpen,
      StopIsSet, Overtaken, consumerVars

\* The consumer thread moves; what it says of its connection and of the
\* callback is checked by the caller.
LEMMA ConsumerMoves ==
  ASSUME IInv, NEW place \in ConsumerPlaces, Go(Consumer, place), at[Consumer] # "none",
         UNCHANGED <<phase, stop, met>>, RedisTypeOK',
         published' \in {"none", "open", "closed"}, callback' \in BOOLEAN,
         holds' \subseteq Threads, Cardinality(holds') <= Capacity,
         holds' \subseteq holds \cup {Consumer},
         Consumer \in holds' => place = "storing",
         place \in Consuming => published' = "open",
         place = "connecting" => ~stop,
         place = "publishing" => at[Consumer] = "connecting",
         place \in Consuming =>
           \/ at[Consumer] = "publishing"
           \/ at[Consumer] \in Consuming /\ callback' = callback
  PROVE  IInv'
<1>1. /\ at' \in [Threads -> RequestPlaces \cup LoopPlaces \cup ConsumerPlaces]
      /\ \A t \in Threads \ {Consumer} : at'[t] = at[t]
      /\ at'[Consumer] = place
  BY DEF Go, IInv, TypeOK, Threads
<1>2. /\ \A r \in Requests : at'[r] = at[r] /\ (r \in holds' => r \in holds)
      /\ at'[Loop] = at[Loop]
      /\ Loop \in holds' => Loop \in holds
  BY <1>1, ProcessAssumption DEF Threads, Loop, Consumer
<1>3. TypeOK'
  BY <1>1, <1>2 DEF IInv, TypeOK
<1>4. ConnectionsInUse'
  BY <1>1, <1>2 DEF IInv, ConnectionsInUse
<1>5. StopIsSet' /\ Overtaken'
  BY <1>1 DEF IInv, StopIsSet, Overtaken
<1>6. StopReachesConsumer'
  BY <1>1 DEF IInv, StopReachesConsumer, Overtaken
<1>. QED
  BY <1>1, <1>2, <1>3, <1>4, <1>5, <1>6
  DEF IInv, QuietBeforeStart, LoopAtRest, LoopFree, ConsumesOnOpen

-----------------------------------------------------------------------------

LEMMA RequestInv ==
  ASSUME IInv, NEW r \in Requests, Dispatch(r) \/ RequestStep(r) \/ Exit(r)
  PROVE  IInv'
<1>. USE DEF RequestPlaces, redisVars, RedisTypeOK
<1>1. /\ RedisTypeOK /\ holds \subseteq Threads /\ Cardinality(holds) <= Capacity
      /\ r \in Threads
      /\ phase = "starting" => at[r] = "idle"
      /\ r \in holds => at[r] \in {"running", "probing", "finished", "closing", "pinging database"}
  BY DEF IInv, TypeOK, Threads, QuietBeforeStart, ConnectionsInUse
<1>2. holds \ {r} \subseteq Threads /\ Cardinality(holds \ {r}) <= Capacity
  BY GiveOneBack DEF IInv
<1>3. CASE Dispatch(r)
  BY <1>1, <1>3, RequestMoves DEF Dispatch
<1>4. CASE RequestUsesRedis(r)
  <2>1. /\ Go(r, "running") \/ Go(r, "probing")
        /\ at[r] \in {"running", "probing"}
        /\ RedisTypeOK' /\ UNCHANGED <<phase, holds, consumerVars>>
    BY <1>1, <1>4 DEF RequestUsesRedis, UseRedis, PingAnswers, PingFails
  <2>. QED
    BY <1>1, <2>1, RequestMoves
<1>5. CASE FirstQuery(r)
  BY <1>1, <1>5, RequestMoves DEF FirstQuery
<1>6. CASE RequestGetsConnection(r)
  <2>1. CASE Acquire(r, "running")
    <3>1. holds \cup {r} \subseteq Threads /\ Cardinality(holds \cup {r}) <= Capacity
      BY <1>1, <2>1, TakeOne DEF IInv, Acquire
    <3>. QED
      BY <1>1, <1>6, <2>1, <3>1, RequestMoves DEF RequestGetsConnection, Acquire
  <2>2. CASE PoolTimeout(r, "finished")
    BY <1>1, <1>6, <2>2, RequestMoves DEF RequestGetsConnection, PoolTimeout
  <2>. QED
    BY <1>6, <2>1, <2>2 DEF RequestGetsConnection
<1>7. CASE Finish(r)
  BY <1>1, <1>7, RequestMoves DEF Finish
<1>8. CASE Health(r)
  <2>1. CASE at[r] = "health" /\ Acquire(r, "pinging database")
    <3>1. holds \cup {r} \subseteq Threads /\ Cardinality(holds \cup {r}) <= Capacity
      BY <1>1, <2>1, TakeOne DEF IInv, Acquire
    <3>. QED
      BY <1>1, <1>8, <2>1, <3>1, RequestMoves DEF Health, Acquire
  <2>2. CASE at[r] = "health" /\ PoolTimeout(r, "finished")
    BY <1>1, <1>8, <2>2, RequestMoves DEF Health, PoolTimeout
  <2>3. CASE at[r] = "pinging database" /\ Go(r, "finished") /\ holds' = holds \ {r}
    BY <1>1, <1>2, <1>8, <2>3, RequestMoves DEF Health
  <2>. QED
    BY <1>8, <2>1, <2>2, <2>3 DEF Health
<1>9. CASE Exit(r)
  BY <1>1, <1>9, RequestMoves DEF Exit
<1>10. CASE Close(r)
  BY <1>1, <1>2, <1>10, RequestMoves DEF Close
<1>. QED
  BY <1>3, <1>4, <1>5, <1>6, <1>7, <1>8, <1>9, <1>10 DEF RequestStep

LEMMA BroadcastInv == IInv /\ BroadcastStep => IInv'
<1> SUFFICES ASSUME IInv, BroadcastStep PROVE IInv'
  OBVIOUS
<1>. USE DEF LoopPlaces, Busy, redisVars, RedisTypeOK
<1>1. /\ RedisTypeOK /\ holds \subseteq Threads /\ Cardinality(holds) <= Capacity
      /\ Loop \in Threads
      /\ phase = "starting" => at[Loop] = "none"
      /\ Loop \in holds => at[Loop] = "checking"
      /\ phase \in {"signalled", "told"} => at[Loop] \notin Busy
  BY DEF IInv, TypeOK, Threads, QuietBeforeStart, ConnectionsInUse, LoopAtRest, LoopFree
<1>2. holds \ {Loop} \subseteq Threads /\ Cardinality(holds \ {Loop}) <= Capacity
  BY GiveOneBack DEF IInv
<1>3. CASE WakeUp
  BY <1>1, <1>3, LoopMoves DEF WakeUp
<1>4. CASE LoopGetsConnection
  <2>1. CASE Acquire(Loop, "checking")
    <3>1. holds \cup {Loop} \subseteq Threads /\ Cardinality(holds \cup {Loop}) <= Capacity
      BY <1>1, <2>1, TakeOne DEF IInv, Acquire
    <3>. QED
      BY <1>1, <1>4, <2>1, <3>1, LoopMoves DEF LoopGetsConnection, Acquire
  <2>2. CASE PoolTimeout(Loop, "sleeping")
    BY <1>1, <1>4, <2>2, LoopMoves DEF LoopGetsConnection, PoolTimeout
  <2>. QED
    BY <1>4, <2>1, <2>2 DEF LoopGetsConnection
<1>5. CASE CheckVersion
  BY <1>1, <1>2, <1>5, LoopMoves DEF CheckVersion
<1>6. CASE LoopUsesRedis
  <2>1. /\ Go(Loop, "sending") \/ Go(Loop, "probing")
        /\ at[Loop] \in {"invalidating", "probing"}
        /\ RedisTypeOK' /\ UNCHANGED <<phase, holds, consumerVars>>
    BY <1>1, <1>6 DEF LoopUsesRedis, UseRedis, PingAnswers, PingFails
  <2>. QED
    BY <1>1, <2>1, LoopMoves
<1>7. CASE Sent
  BY <1>1, <1>7, LoopMoves DEF Sent
<1>. QED
  BY <1>3, <1>4, <1>5, <1>6, <1>7 DEF BroadcastStep

LEMMA ConsumerInv == IInv /\ ConsumerStep => IInv'
<1> SUFFICES ASSUME IInv, ConsumerStep PROVE IInv'
  OBVIOUS
<1>. USE DEF ConsumerPlaces, Consuming, redisVars, consumerVars, RedisTypeOK
<1>1. /\ RedisTypeOK /\ holds \subseteq Threads /\ Cardinality(holds) <= Capacity
      /\ Consumer \in Threads
      /\ Consumer \in holds => at[Consumer] = "storing"
      /\ published \in {"none", "open", "closed"} /\ callback \in BOOLEAN
      /\ at[Consumer] \in Consuming => published = "open"
  BY DEF IInv, TypeOK, Threads, ConnectionsInUse, ConsumesOnOpen
<1>2. holds \ {Consumer} \subseteq Threads /\ Cardinality(holds \ {Consumer}) <= Capacity
  BY GiveOneBack DEF IInv
<1>3. CASE TestStop
  BY <1>1, <1>3, ConsumerMoves DEF TestStop
<1>4. CASE Connect
  BY <1>1, <1>4, ConsumerMoves DEF Connect
<1>5. CASE PublishConnection
  BY <1>1, <1>5, ConsumerMoves DEF PublishConnection
<1>6. CASE StopConsuming
  BY <1>1, <1>6, ConsumerMoves DEF StopConsuming
<1>7. CASE PauseBeforeReconnect
  BY <1>1, <1>7, ConsumerMoves DEF PauseBeforeReconnect
<1>8. CASE Deliver
  BY <1>1, <1>8, ConsumerMoves DEF Deliver
<1>9. CASE ConsumerGetsConnection
  <2>1. CASE Acquire(Consumer, "storing")
    <3>1. /\ holds \cup {Consumer} \subseteq Threads
          /\ Cardinality(holds \cup {Consumer}) <= Capacity
      BY <1>1, <2>1, TakeOne DEF IInv, Acquire
    <3>. QED
      BY <1>1, <1>9, <2>1, <3>1, ConsumerMoves DEF ConsumerGetsConnection, Acquire
  <2>2. CASE PoolTimeout(Consumer, "consuming")
    BY <1>1, <1>9, <2>2, ConsumerMoves DEF ConsumerGetsConnection, PoolTimeout
  <2>. QED
    BY <1>9, <2>1, <2>2 DEF ConsumerGetsConnection
<1>10. CASE StoreMessage
  BY <1>1, <1>2, <1>10, ConsumerMoves DEF StoreMessage
<1>11. CASE ConsumerUsesRedis
  <2>1. /\ Go(Consumer, "consuming") \/ Go(Consumer, "probing")
        /\ at[Consumer] \in {"invalidating", "probing"}
        /\ RedisTypeOK' /\ UNCHANGED <<phase, holds, consumerVars>>
    BY <1>1, <1>11 DEF ConsumerUsesRedis, UseRedis, PingAnswers, PingFails
  <2>. QED
    BY <1>1, <2>1, ConsumerMoves
<1>. QED
  BY <1>3, <1>4, <1>5, <1>6, <1>7, <1>8, <1>9, <1>10, <1>11 DEF ConsumerStep

\* lifespan after its yield, and the pause of the Redis client.
LEMMA LifespanInv ==
  IInv /\ (Terminate \/ Signal \/ Tell \/ EndProcess \/ RetryPauseEnds \/ Ended) => IInv'
<1> SUFFICES ASSUME IInv,
                    Terminate \/ Signal \/ Tell \/ EndProcess \/ RetryPauseEnds \/ Ended
             PROVE  IInv'
  OBVIOUS
<1>. USE DEF IInv, TypeOK, RedisTypeOK, Phases, ConnectionsInUse, StopReachesConsumer,
             QuietBeforeStart, LoopAtRest, LoopFree, ConsumesOnOpen, StopIsSet, Overtaken,
             redisVars, consumerVars
<1>1. CASE Terminate
  BY <1>1 DEF Terminate
<1>2. CASE Signal
  BY <1>2 DEF Signal
<1>3. CASE Tell
  <2>1. callback' = (stop /\ published = "open")
    BY <1>3 DEF Tell
  <2>2. callback' \in BOOLEAN /\ (stop /\ published = "open" => callback')
    BY <2>1, Zenon
  <2>3. TypeOK'
    BY <1>3, <2>2 DEF Tell
  <2>4. StopReachesConsumer'
    BY <1>3, <2>2 DEF Tell, Consuming
  <2>. QED
    BY <1>3, <2>3, <2>4 DEF Tell
<1>4. CASE EndProcess
  <2>1. holds \ {Consumer} \subseteq Threads /\ Cardinality(holds \ {Consumer}) <= Capacity
    BY GiveOneBack
  <2>2. /\ at' \in [Threads -> RequestPlaces \cup LoopPlaces \cup ConsumerPlaces]
        /\ at'[Loop] = "none" /\ at'[Consumer] = "none"
        /\ \A r \in Requests : at'[r] = at[r]
    BY <1>4, ProcessAssumption DEF EndProcess, Threads, Loop, Consumer, LoopPlaces, ConsumerPlaces
  <2>3. TypeOK'
    BY <1>4, <2>1, <2>2 DEF EndProcess, LoopPlaces, ConsumerPlaces
  <2>4. ConnectionsInUse'
    BY <1>4, <2>2, ProcessAssumption DEF EndProcess, Busy
  <2>. QED
    BY <1>4, <2>2, <2>3, <2>4 DEF EndProcess, Busy, Consuming
<1>5. CASE RetryPauseEnds
  BY <1>5 DEF RetryPauseEnds, PauseEnds
<1>6. CASE Ended
  BY <1>6 DEF Ended, vars
<1>. QED
  BY <1>1, <1>2, <1>3, <1>4, <1>5, <1>6

LEMMA NextInv == IInv /\ [Next]_vars => IInv'
<1> SUFFICES ASSUME IInv, [Next]_vars PROVE IInv'
  OBVIOUS
<1>1. CASE UNCHANGED vars
  BY <1>1
  DEF vars, redisVars, consumerVars, IInv, TypeOK, RedisTypeOK, ConnectionsInUse,
      StopReachesConsumer, QuietBeforeStart, LoopAtRest, LoopFree, ConsumesOnOpen, StopIsSet,
      Overtaken
<1>2. CASE Next
  BY <1>2, StartInv, RequestInv, BroadcastInv, ConsumerInv, LifespanInv DEF Next
<1>. QED
  BY <1>1, <1>2

-----------------------------------------------------------------------------

\* Every thread is where it can be, and the pool never gives out more
\* connections than it has, however many requests compete for it.
THEOREM TypeCorrect == Spec => []TypeOK
<1>1. IInv => TypeOK
  BY DEF IInv
<1>. QED
  BY <1>1, InitInv, NextInv, PTL DEF Spec

\* No path through errors, timeouts and the end of the process keeps a
\* connection of the pool whose holder is not at work with it.
THEOREM NoConnectionLeaks == Spec => []ConnectionsInUse
<1>1. IInv => ConnectionsInUse
  BY DEF IInv
<1>. QED
  BY <1>1, InitInv, NextInv, PTL DEF Spec

\* shutdown() misses a consuming thread only if it overtook it while it was
\* connecting.
THEOREM StopIsHeard == Spec => []StopReachesConsumer
<1>1. IInv => StopReachesConsumer
  BY DEF IInv
<1>. QED
  BY <1>1, InitInv, NextInv, PTL DEF Spec

=============================================================================
