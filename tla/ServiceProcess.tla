--------------------------- MODULE ServiceProcess ---------------------------
(***************************************************************************)
(* The service process (app/main.py): its threads, what they share and     *)
(* wait for, from startup to the end of the process.                       *)
(*                                                                         *)
(*   - One thread runs the event loop.  It dispatches the requests, has    *)
(*     their database sessions closed (the exit of the get_db dependency)  *)
(*     and runs the broadcast task, whose database and Redis calls are     *)
(*     synchronous: while they last, the loop does nothing else.           *)
(*   - A request runs in worker threads, the endpoint in one, the exit of  *)
(*     get_db in another.  Its session takes a connection from the pool at *)
(*     its first query and keeps it until get_db exits.                    *)
(*   - The MQ consumer is a daemon thread that reconnects on its own.      *)
(*                                                                         *)
(*   phase      how far app/main.py:lifespan is                            *)
(*   at         where each thread is; the loop's own location is that of   *)
(*              the broadcast task                                         *)
(*   holds      the threads (sessions) that have a connection of the pool  *)
(*   stop       MQConsumer._stop_event is set                              *)
(*   published  MQConsumer._connection and _channel: not set, set and      *)
(*              open, or set and closed                                    *)
(*   callback   stop_consuming is queued on the consumer's connection      *)
(*   met        where shutdown() found the consumer (a history variable)   *)
(*                                                                         *)
(* What the queries, messages and answers are is left out: every one of    *)
(* them may succeed or fail.                                               *)
(***************************************************************************)
EXTENDS RedisClient, FiniteSets, Naturals

CONSTANTS Requests,   \* requests under way at a time
          Capacity    \* DATABASE_POOL_SIZE + DATABASE_MAX_OVERFLOW

Loop == "loop"
Consumer == "consumer"
Threads == Requests \cup {Loop, Consumer}

ASSUME ProcessAssumption ==
  /\ IsFiniteSet(Requests)
  /\ Loop \notin Requests
  /\ Consumer \notin Requests
  /\ Capacity \in Nat \ {0}

VARIABLES phase, at, holds, stop, published, callback, met

consumerVars == <<stop, published, callback, met>>
vars == <<redisVars, phase, at, holds, consumerVars>>

-----------------------------------------------------------------------------

RequestPlaces == {"idle", "running", "waiting", "probing", "finished",
                  "closing", "health", "pinging database"}

(* The broadcast task: asleep, in one of its synchronous calls, sending.   *)
Busy == {"waiting", "checking", "invalidating", "probing"}
LoopPlaces == Busy \cup {"none", "sleeping", "sending"}

(* The consumer from its connection's publication until it is closed.      *)
Consuming == {"consuming", "handling", "waiting", "storing", "invalidating",
              "probing"}
ConsumerPlaces ==
  Consuming \cup {"none", "testing", "connecting", "publishing", "pausing"}

Phases == {"starting", "refused", "serving", "draining", "signalled", "told",
           "exited"}

LoopFree == at[Loop] \notin Busy

Go(t, place) == at' = [at EXCEPT ![t] = place]

-----------------------------------------------------------------------------

Init ==
  /\ RedisInit
  /\ phase = "starting"
  /\ at = [t \in Threads |-> IF t \in Requests THEN "idle" ELSE "none"]
  /\ holds = {}
  /\ stop = FALSE
  /\ published = "none"
  /\ callback = FALSE
  /\ met = "none"

(* lifespan before its yield: the probe of the database answers, the       *)
(* consumer thread and the broadcast task start; or it fails and the       *)
(* application does not start.                                             *)
Start ==
  /\ phase = "starting"
  /\ \/ /\ phase' = "serving"
        /\ at' = [at EXCEPT ![Consumer] = "testing", ![Loop] = "sleeping"]
        /\ stop' = FALSE
        /\ UNCHANGED <<published, callback, met>>
     \/ /\ phase' = "refused"
        /\ UNCHANGED <<at, consumerVars>>
  /\ UNCHANGED <<redisVars, holds>>

-----------------------------------------------------------------------------
(* The connection pool.  A thread that finds no connection waits for one,  *)
(* for DATABASE_POOL_TIMEOUT seconds, and then gets a TimeoutError.        *)

\* Mutant of Acquire: max_overflow = -1, which SQLAlchemy takes for no limit.
AcquireUnlimited(t, place) ==
  /\ holds' = holds \cup {t}
  /\ Go(t, place)

Acquire(t, place) ==
  /\ Cardinality(holds) < Capacity
  /\ holds' = holds \cup {t}
  /\ Go(t, place)

\* Mutant of PoolTimeout: a connection is waited for without a limit.
PoolTimeoutNever(t, place) == FALSE

PoolTimeout(t, place) ==
  /\ Cardinality(holds) >= Capacity
  /\ Go(t, place)
  /\ UNCHANGED holds

(* The shared Redis client, used by a thread at `from`, which goes on to   *)
(* `next` when the call returns.                                           *)
UseRedis(t, from, next) ==
  \/ /\ at[t] = from
     /\ Settled
     /\ Go(t, next)
     /\ UNCHANGED redisVars
  \/ /\ at[t] = from
     /\ ~Settled
     /\ Go(t, "probing")
     /\ UNCHANGED redisVars
  \/ /\ at[t] = "probing"
     /\ PingAnswers \/ PingFails
     /\ Go(t, next)

-----------------------------------------------------------------------------
(* Requests.                                                               *)

(* The event loop takes a request and hands it to a worker thread: an      *)
(* endpoint of the monitor or GET /health.                                 *)
Dispatch(r) ==
  /\ phase = "serving"
  /\ LoopFree
  /\ at[r] = "idle"
  /\ Go(r, "running") \/ Go(r, "health")
  /\ UNCHANGED <<redisVars, phase, holds, consumerVars>>

(* A call of the cache (cache_get, cache_set) returns to the endpoint.     *)
RequestUsesRedis(r) ==
  /\ UseRedis(r, "running", "running")
  /\ UNCHANGED <<phase, holds, consumerVars>>

(* The first query of the session needs a connection.                      *)
FirstQuery(r) ==
  /\ at[r] = "running"
  /\ r \notin holds
  /\ Go(r, "waiting")
  /\ UNCHANGED <<redisVars, phase, holds, consumerVars>>

RequestGetsConnection(r) ==
  /\ at[r] = "waiting"
  /\ Acquire(r, "running") \/ PoolTimeout(r, "finished")
  /\ UNCHANGED <<redisVars, phase, consumerVars>>

(* The endpoint returns or raises; its session is still open.              *)
Finish(r) ==
  /\ at[r] = "running"
  /\ Go(r, "finished")
  /\ UNCHANGED <<redisVars, phase, holds, consumerVars>>

(* health_check: the connection is given back by the worker itself.        *)
Health(r) ==
  /\ \/ /\ at[r] = "health"
        /\ Acquire(r, "pinging database") \/ PoolTimeout(r, "finished")
     \/ /\ at[r] = "pinging database"
        /\ Go(r, "finished")
        /\ holds' = holds \ {r}
  /\ UNCHANGED <<redisVars, phase, consumerVars>>

(* The event loop takes the result and hands the exit of get_db to a       *)
(* worker thread.                                                          *)
Exit(r) ==
  /\ at[r] = "finished"
  /\ LoopFree
  /\ Go(r, "closing")
  /\ UNCHANGED <<redisVars, phase, holds, consumerVars>>

(* The exit of get_db: commit or rollback, and close in any case.  That    *)
(* the loop then sends the answer is left out.                             *)
Close(r) ==
  /\ at[r] = "closing"
  /\ Go(r, "idle")
  /\ holds' = holds \ {r}
  /\ UNCHANGED <<redisVars, phase, consumerVars>>

RequestStep(r) ==
  RequestUsesRedis(r) \/ FirstQuery(r) \/ RequestGetsConnection(r)
    \/ Finish(r) \/ Health(r) \/ Close(r)

-----------------------------------------------------------------------------
(* The broadcast task, on the event loop.                                  *)

WakeUp ==
  /\ phase \in {"serving", "draining"}
  /\ at[Loop] = "sleeping"
  /\ Go(Loop, "waiting")
  /\ UNCHANGED <<redisVars, phase, holds, consumerVars>>

\* Mutant of LoopGetsConnection: its error is not caught and ends the task.
LoopGetsConnectionOrEnds ==
  /\ at[Loop] = "waiting"
  /\ Acquire(Loop, "checking") \/ PoolTimeout(Loop, "none")
  /\ UNCHANGED <<redisVars, phase, consumerVars>>

(* SessionLocal() and the first query: synchronous, on the loop's thread.  *)
LoopGetsConnection ==
  /\ at[Loop] = "waiting"
  /\ Acquire(Loop, "checking") \/ PoolTimeout(Loop, "sleeping")
  /\ UNCHANGED <<redisVars, phase, consumerVars>>

\* Mutant of CheckVersion: a failed query leaves the session open.
CheckVersionLeaks ==
  /\ at[Loop] = "checking"
  /\ \/ Go(Loop, "sleeping") /\ UNCHANGED holds
     \/ Go(Loop, "invalidating") /\ holds' = holds \ {Loop}
  /\ UNCHANGED <<redisVars, phase, consumerVars>>

(* The session is closed whether or not the query failed; a changed        *)
(* version is broadcast.                                                   *)
CheckVersion ==
  /\ at[Loop] = "checking"
  /\ Go(Loop, "sleeping") \/ Go(Loop, "invalidating")
  /\ holds' = holds \ {Loop}
  /\ UNCHANGED <<redisVars, phase, consumerVars>>

LoopUsesRedis ==
  /\ UseRedis(Loop, "invalidating", "sending")
  /\ UNCHANGED <<phase, holds, consumerVars>>

(* The sends await the clients: the loop is free meanwhile.                *)
Sent ==
  /\ phase \in {"serving", "draining"}
  /\ at[Loop] = "sending"
  /\ Go(Loop, "sleeping")
  /\ UNCHANGED <<redisVars, phase, holds, consumerVars>>

BroadcastStep ==
  WakeUp \/ LoopGetsConnection \/ CheckVersion \/ LoopUsesRedis \/ Sent

-----------------------------------------------------------------------------
(* The consumer thread (MQConsumer._run and _consume_once).                *)

TestStop ==
  /\ at[Consumer] = "testing"
  /\ Go(Consumer, IF stop THEN "none" ELSE "connecting")
  /\ UNCHANGED <<redisVars, phase, holds, consumerVars>>

Connect ==
  /\ at[Consumer] = "connecting"
  /\ Go(Consumer, "publishing") \/ Go(Consumer, "pausing")
  /\ UNCHANGED <<redisVars, phase, holds, consumerVars>>

\* Mutant of PublishConnection: the channel is not kept for shutdown().
PublishNothing ==
  /\ at[Consumer] = "publishing"
  /\ Go(Consumer, "consuming") \/ Go(Consumer, "pausing")
  /\ UNCHANGED <<redisVars, phase, holds, consumerVars>>

(* The connection and the channel become visible to shutdown().  When      *)
(* basic_consume fails they stay so, closed, until the next connection.    *)
PublishConnection ==
  /\ at[Consumer] = "publishing"
  /\ \/ /\ Go(Consumer, "consuming")
        /\ published' = "open"
     \/ /\ Go(Consumer, "pausing")
        /\ published' = "closed"
  /\ UNCHANGED <<redisVars, phase, holds, stop, callback, met>>

(* start_consuming runs the queued callback and returns, or the connection *)
(* breaks; the connection is closed and withdrawn.                         *)
StopConsuming ==
  /\ at[Consumer] = "consuming"
  /\ \/ callback /\ Go(Consumer, "testing")
     \/ Go(Consumer, "pausing")
  /\ published' = "none"
  /\ callback' = FALSE
  /\ UNCHANGED <<redisVars, phase, holds, stop, met>>

(* _stop_event.wait(5): over after 5 seconds or when the event is set.     *)
PauseBeforeReconnect ==
  /\ at[Consumer] = "pausing"
  /\ Go(Consumer, "testing")
  /\ UNCHANGED <<redisVars, phase, holds, consumerVars>>

(* A delivery; one that cannot be parsed is rejected at once.              *)
Deliver ==
  /\ at[Consumer] = "consuming"
  /\ Go(Consumer, "waiting")
  /\ UNCHANGED <<redisVars, phase, holds, consumerVars>>

(* Without a connection in time the message is rejected: dead-lettered.    *)
ConsumerGetsConnection ==
  /\ at[Consumer] = "waiting"
  /\ Acquire(Consumer, "storing") \/ PoolTimeout(Consumer, "consuming")
  /\ UNCHANGED <<redisVars, phase, consumerVars>>

(* The message is stored (then the cache is invalidated) or rejected; the  *)
(* session is closed either way.                                           *)
StoreMessage ==
  /\ at[Consumer] = "storing"
  /\ Go(Consumer, "invalidating") \/ Go(Consumer, "consuming")
  /\ holds' = holds \ {Consumer}
  /\ UNCHANGED <<redisVars, phase, consumerVars>>

ConsumerUsesRedis ==
  /\ UseRedis(Consumer, "invalidating", "consuming")
  /\ UNCHANGED <<phase, holds, consumerVars>>

ConsumerStep ==
  \/ TestStop \/ Connect \/ PublishConnection \/ StopConsuming
  \/ PauseBeforeReconnect \/ Deliver \/ ConsumerGetsConnection
  \/ StoreMessage \/ ConsumerUsesRedis

-----------------------------------------------------------------------------
(* The end of the process.                                                 *)

(* The server is told to stop: it takes no more requests.                  *)
Terminate ==
  /\ phase = "serving"
  /\ phase' = "draining"
  /\ UNCHANGED <<redisVars, at, holds, consumerVars>>

(* lifespan after its yield, once every request is answered: shutdown()    *)
(* sets the stop event when the thread is alive.                           *)
Signal ==
  /\ phase = "draining"
  /\ LoopFree
  /\ \A r \in Requests : at[r] = "idle"
  /\ phase' = "signalled"
  /\ stop' = (at[Consumer] # "none")
  /\ UNCHANGED <<redisVars, at, holds, published, callback, met>>

(* shutdown() reads _connection and _channel and queues stop_consuming on  *)
(* an open one.                                                            *)
Tell ==
  /\ phase = "signalled"
  /\ phase' = "told"
  /\ callback' = (stop /\ published = "open")
  /\ met' = at[Consumer]
  /\ UNCHANGED <<redisVars, at, holds, stop, published>>

\* Mutant of EndProcess: shutdown() joins the consumer thread.
EndProcessAfterJoin ==
  /\ phase = "told"
  /\ at[Consumer] = "none"
  /\ phase' = "exited"
  /\ at' = [at EXCEPT ![Loop] = "none"]
  /\ UNCHANGED <<redisVars, holds, consumerVars>>

(* The broadcast task is cancelled where it awaits, the process ends and   *)
(* its daemon thread with it, wherever it is.                              *)
EndProcess ==
  /\ phase = "told"
  /\ phase' = "exited"
  /\ at' = [at EXCEPT ![Loop] = "none", ![Consumer] = "none"]
  /\ holds' = holds \ {Consumer}
  /\ published' = "none"
  /\ callback' = FALSE
  /\ UNCHANGED <<redisVars, stop, met>>

(* Redis may be tried again.                                               *)
RetryPauseEnds ==
  /\ phase # "exited"
  /\ PauseEnds
  /\ UNCHANGED <<phase, at, holds, consumerVars>>

(* The process has ended, or never served.                                 *)
Ended ==
  /\ phase \in {"refused", "exited"}
  /\ UNCHANGED vars

Next ==
  \/ Start \/ Terminate \/ Signal \/ Tell \/ EndProcess
  \/ BroadcastStep \/ ConsumerStep
  \/ RetryPauseEnds \/ Ended
  \/ \E r \in Requests : Dispatch(r) \/ RequestStep(r) \/ Exit(r)

(* Every thread goes on while it can, and what it waits for is answered or *)
(* times out.  An endpoint makes finitely many calls, so it finishes; the  *)
(* event loop is a queue, so it runs what is ready whenever it is free     *)
(* again and again.  Nothing says that a request arrives, that a message   *)
(* is delivered or that the service is told to stop.                       *)
Fairness ==
  /\ WF_vars(Start) /\ WF_vars(RetryPauseEnds)
  /\ SF_vars(Signal) /\ WF_vars(Tell) /\ WF_vars(EndProcess)
  /\ WF_vars(BroadcastStep)
  /\ WF_vars(ConsumerStep)
  /\ \A r \in Requests : /\ WF_vars(RequestStep(r))
                         /\ SF_vars(Finish(r))
                         /\ SF_vars(Exit(r))

Spec == Init /\ [][Next]_vars
FairSpec == Spec /\ Fairness

-----------------------------------------------------------------------------

(* Type invariant; the pool never gives out more than its capacity.        *)
TypeOK ==
  /\ RedisTypeOK
  /\ phase \in Phases
  /\ at \in [Threads -> RequestPlaces \cup LoopPlaces \cup ConsumerPlaces]
  /\ \A r \in Requests : at[r] \in RequestPlaces
  /\ at[Loop] \in LoopPlaces
  /\ at[Consumer] \in ConsumerPlaces
  /\ holds \subseteq Threads
  /\ Cardinality(holds) <= Capacity
  /\ stop \in BOOLEAN
  /\ published \in {"none", "open", "closed"}
  /\ callback \in BOOLEAN
  /\ met \in ConsumerPlaces

(* No connection of the pool is lost: whoever has one is at work with it,  *)
(* on every path through errors, timeouts and the end of the process.  An  *)
(* idle request slot, a sleeping or sending broadcast task and a consumer  *)
(* that waits for messages or for RabbitMQ hold none.                      *)
ConnectionsInUse ==
  /\ \A r \in Requests \cap holds :
       at[r] \in {"running", "probing", "finished", "closing",
                "pinging database"}
  /\ Loop \in holds => at[Loop] = "checking"
  /\ Consumer \in holds => at[Consumer] = "storing"

(* shutdown() reaches the consumer: once it has run, a thread that still   *)
(* consumes will be stopped by the queued callback.  The one exception is  *)
(* a thread it overtook between its test of the stop event and the         *)
(* publication of its connection, which nothing stops any more.            *)
StopReachesConsumer ==
  phase = "told" /\ at[Consumer] \in Consuming
    => callback \/ met \in {"connecting", "publishing"}

(* Every request ends, also when the finished requests have the whole pool *)
(* and wait for the event loop to close their sessions, while the          *)
(* broadcast task blocks that loop waiting for a connection.               *)
RequestsEnd == \A r \in Requests : at[r] # "idle" ~> at[r] = "idle"

(* No failure ends the broadcast task: while the service runs, it checks   *)
(* the data again and again.  And the event loop, which it blocks during   *)
(* each synchronous call, gets free again, whoever has the connections.    *)
BroadcastGoesOn ==
  /\ phase = "serving" ~> phase # "serving" \/ at[Loop] = "waiting"
  /\ ~LoopFree ~> LoopFree

(* A service told to stop ends: neither an unfinished request nor a        *)
(* consumer that the stop did not reach keeps the process alive.           *)
ShutdownCompletes == phase = "draining" ~> phase = "exited"

(* If from some time on every ping is answered, then from some time on no  *)
(* call probes Redis any more, although a failed ping that began earlier   *)
(* may still reset the client another thread has set.                      *)
ProbesEnd ==
  <>[][~PingFails]_redisVars => <>[](\A t \in Threads : at[t] # "probing")

(* Then no thread is shut out for good either: a working client that a     *)
(* failed ping has reset stays away for one pause, after which it is there *)
(* or the next call may make it.                                           *)
ClientComesBack ==
  <>[][~PingFails]_redisVars => <>[](client \/ ~cooling \/ phase = "exited")

=============================================================================
