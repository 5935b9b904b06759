------------------------- MODULE SingleFlightCache -------------------------
(***************************************************************************)
(* The cache-aside layer of src/app/utils/cache.py as the request threads  *)
(* of one worker process, the MQ consumer and the broadcast loop use it.   *)
(*                                                                         *)
(* A request walks through the cached queries it needs (get_overview asks  *)
(* for the OS, process and log results in turn, a list endpoint for one)   *)
(* in one database session.  Each query is a cache_get_or_build call: read *)
(* Redis, and on a miss either lead the flight of that key (re-read Redis, *)
(* build from MySQL, store, publish the future, unregister the flight) or  *)
(* follow it (wait for the leader's future).                               *)
(*                                                                         *)
(* The data of a result is abstracted to the version of the table it was   *)
(* computed from: every commit of a kind ("state" or "log") moves the      *)
(* version of that kind by one.                                            *)
(***************************************************************************)
EXTENDS Naturals, Sequences

CONSTANTS
  Threads,      \* the threads that serve API requests
  Writers,      \* MQ consumers: each commits a message, then invalidates
  Broadcasters, \* the broadcast loop: invalidates every kind
  Keys,         \* cache keys
  Kinds,        \* kinds of monitoring data
  KindOf,       \* the kind whose patterns match a key
  Requests,     \* the sequences of keys the endpoints ask for
  MaxVersion,   \* bound on the commits of a kind
  None,         \* absent entry, unset future, no leader, no snapshot
  Failed        \* the outcome of a call that raised

ASSUME KindAssumption == KindOf \in [Keys -> Kinds]
ASSUME RequestAssumption == Requests \subseteq Seq(Keys) \ {<<>>}
ASSUME NoneAssumption == None \notin Nat \cup Threads \cup [Kinds -> Nat] \cup {Failed}
ASSUME FailedAssumption == Failed \notin Nat

VARIABLES
  db,       \* committed version of each kind in MySQL
  redis,    \* version stored under each key, None when there is no entry
  up,       \* whether Redis answers the calls of this process
  flights,  \* _flights: the leader registered for each key
  pc,       \* where each request thread is
  plan,     \* the queries the request still has to make, the current one first
  snap,     \* the snapshot of the request's session, None before its first query
  draft,    \* the outcome a leader is about to publish
  joined,   \* the leader whose future a follower waits for
  future,   \* the content of the future a thread holds, None while pending
  wpc,      \* where each invalidation is
  scope,    \* the kinds it invalidates
  toScan,   \* matching keys SCAN has not visited yet
  found     \* keys SCAN returned

readerVars == <<flights, pc, plan, snap, draft, joined, future>>
writerVars == <<wpc, scope, toScan, found>>
vars == <<db, redis, up, readerVars, writerVars>>

Version == Nat
Outcome == Version \cup {Failed}
Invalidators == Writers \cup Broadcasters
LeaderSteps == {"lead", "build", "store", "settle", "clean"}

TypeOK ==
  /\ db \in [Kinds -> Version]
  /\ redis \in [Keys -> Version \cup {None}]
  /\ up \in BOOLEAN
  /\ flights \in [Keys -> Threads \cup {None}]
  /\ pc \in [Threads -> {"idle", "open", "miss", "wait"} \cup LeaderSteps]
  /\ plan \in [Threads -> Seq(Keys)]
  /\ \A t \in Threads : pc[t] # "idle" => plan[t] # <<>>
  /\ snap \in [Threads -> [Kinds -> Version] \cup {None}]
  /\ draft \in [Threads -> Outcome \cup {None}]
  /\ \A t \in Threads : pc[t] = "store" => draft[t] \in Version
  /\ \A t \in Threads : pc[t] \in {"settle", "clean"} => draft[t] \in Outcome
  /\ joined \in [Threads -> Threads \cup {None}]
  /\ future \in [Threads -> Outcome \cup {None}]
  /\ wpc \in [Invalidators -> {"idle", "invalidate", "scan"}]
  /\ scope \in [Invalidators -> SUBSET Kinds]
  /\ toScan \in [Invalidators -> SUBSET Keys]
  /\ found \in [Invalidators -> SUBSET Keys]

Init ==
  /\ db = [c \in Kinds |-> 0]
  /\ redis = [k \in Keys |-> None]
  /\ up = TRUE
  /\ flights = [k \in Keys |-> None]
  /\ pc = [t \in Threads |-> "idle"]
  /\ plan = [t \in Threads |-> <<>>]
  /\ snap = [t \in Threads |-> None]
  /\ draft = [t \in Threads |-> None]
  /\ joined = [t \in Threads |-> None]
  /\ future = [t \in Threads |-> None]
  /\ wpc = [w \in Invalidators |-> "idle"]
  /\ scope = [w \in Invalidators |-> {}]
  /\ toScan = [w \in Invalidators |-> {}]
  /\ found = [w \in Invalidators |-> {}]

-----------------------------------------------------------------------------
(* Requests and the calls they make.                                       *)

Key(t) == Head(plan[t])
KeysOf(kinds) == {k \in Keys : KindOf[k] \in kinds}

\* cache_get: the entry when Redis answers and has one, None otherwise.
CacheGet(k) == IF up THEN redis[k] ELSE None

\* A request starts with a session that has run no query yet.
Begin(t) ==
  /\ pc[t] = "idle"
  /\ \E r \in Requests : plan' = [plan EXCEPT ![t] = r]
  /\ pc' = [pc EXCEPT ![t] = "open"]
  /\ UNCHANGED <<db, redis, up, flights, snap, draft, joined, future, writerVars>>

\* The call of t returns r or raises.  The session closes with the last call
\* of the request, or when a call raises: get_db then rolls back.
Return(t, r) ==
  LET over == r = Failed \/ Tail(plan[t]) = <<>>
  IN  /\ pc' = [pc EXCEPT ![t] = IF over THEN "idle" ELSE "open"]
      /\ plan' = [plan EXCEPT ![t] = IF over THEN <<>> ELSE Tail(@)]
      /\ snap' = [snap EXCEPT ![t] = IF over THEN None ELSE @]

\* The first cache_get finds the entry; deserialize() may raise.
Hit(t) ==
  /\ pc[t] = "open"
  /\ CacheGet(Key(t)) # None
  /\ \E r \in {redis[Key(t)], Failed} : Return(t, r)
  /\ UNCHANGED <<db, redis, up, flights, draft, joined, future, writerVars>>

\* The first cache_get finds nothing.
Miss(t) ==
  /\ pc[t] = "open"
  /\ CacheGet(Key(t)) = None
  /\ pc' = [pc EXCEPT ![t] = "miss"]
  /\ UNCHANGED <<db, redis, up, flights, plan, snap, draft, joined, future, writerVars>>

\* Mutant of Lead: the flight is registered without looking under the lock.
LeadUnchecked(t) ==
  /\ pc[t] = "miss"
  /\ flights' = [flights EXCEPT ![Key(t)] = t]
  /\ future' = [future EXCEPT ![t] = None]
  /\ pc' = [pc EXCEPT ![t] = "lead"]
  /\ UNCHANGED <<db, redis, up, plan, snap, draft, joined, writerVars>>

\* Under _flights_lock: no flight is registered, t becomes the leader.
Lead(t) ==
  /\ pc[t] = "miss"
  /\ flights[Key(t)] = None
  /\ flights' = [flights EXCEPT ![Key(t)] = t]
  /\ future' = [future EXCEPT ![t] = None]
  /\ pc' = [pc EXCEPT ![t] = "lead"]
  /\ UNCHANGED <<db, redis, up, plan, snap, draft, joined, writerVars>>

\* Under _flights_lock: t takes the registered future.
Join(t) ==
  /\ pc[t] = "miss"
  /\ flights[Key(t)] # None
  /\ joined' = [joined EXCEPT ![t] = flights[Key(t)]]
  /\ future' = [future EXCEPT ![t] = future[flights[Key(t)]]]
  /\ pc' = [pc EXCEPT ![t] = "wait"]
  /\ UNCHANGED <<db, redis, up, flights, plan, snap, draft, writerVars>>

\* future.result() of a follower, which has no timeout.
Wake(t) ==
  /\ pc[t] = "wait"
  /\ future[t] # None
  /\ Return(t, future[t])
  /\ joined' = [joined EXCEPT ![t] = None]
  /\ future' = [future EXCEPT ![t] = None]
  /\ UNCHANGED <<db, redis, up, flights, draft, writerVars>>

-----------------------------------------------------------------------------
(* The leader of a flight.                                                 *)

\* Mutant of Recheck: the leader builds without a second look.
RecheckSkipped(t) ==
  /\ pc[t] = "lead"
  /\ pc' = [pc EXCEPT ![t] = "build"]
  /\ UNCHANGED <<db, redis, up, flights, plan, snap, draft, joined, future, writerVars>>

\* The second cache_get: another leader may have finished in between; what it
\* has stored is the outcome, unless deserialize() raises.
Recheck(t) ==
  /\ pc[t] = "lead"
  /\ \/ /\ CacheGet(Key(t)) # None
        /\ \E r \in {redis[Key(t)], Failed} : draft' = [draft EXCEPT ![t] = r]
        /\ pc' = [pc EXCEPT ![t] = "settle"]
     \/ /\ CacheGet(Key(t)) = None
        /\ pc' = [pc EXCEPT ![t] = "build"]
        /\ UNCHANGED draft
  /\ UNCHANGED <<db, redis, up, flights, plan, snap, joined, future, writerVars>>

\* build() sees the snapshot of the session, taken by its first query.
Build(t) ==
  /\ pc[t] = "build"
  /\ snap' = [snap EXCEPT ![t] = IF @ = None THEN db ELSE @]
  /\ draft' = [draft EXCEPT ![t] = snap'[t][KindOf[Key(t)]]]
  /\ pc' = [pc EXCEPT ![t] = "store"]
  /\ UNCHANGED <<db, redis, up, flights, plan, joined, future, writerVars>>

\* Mutant of BuildFails: the exception is swallowed and its outcome cached.
BuildFailureStored(t) ==
  /\ pc[t] = "build"
  /\ draft' = [draft EXCEPT ![t] = Failed]
  /\ pc' = [pc EXCEPT ![t] = "store"]
  /\ UNCHANGED <<db, redis, up, flights, plan, snap, joined, future, writerVars>>

\* build() or serialize() raises.
BuildFails(t) ==
  /\ pc[t] = "build"
  /\ draft' = [draft EXCEPT ![t] = Failed]
  /\ pc' = [pc EXCEPT ![t] = "settle"]
  /\ UNCHANGED <<db, redis, up, flights, plan, snap, joined, future, writerVars>>

\* cache_set: ignored when Redis does not answer.
Store(t) ==
  /\ pc[t] = "store"
  /\ redis' = IF up THEN [redis EXCEPT ![Key(t)] = draft[t]] ELSE redis
  /\ pc' = [pc EXCEPT ![t] = "settle"]
  /\ UNCHANGED <<db, up, flights, plan, snap, draft, joined, future, writerVars>>

\* The threads that hold the future t is about to publish.
Holders(t) == {t} \cup {u \in Threads : pc[u] = "wait" /\ joined[u] = t /\ future[u] = None}

\* Mutant of Settle: an exception is not passed on to the future.
SettleResultOnly(t) ==
  /\ pc[t] = "settle"
  /\ future' = [u \in Threads |->
                  IF u \in Holders(t) /\ draft[t] # Failed THEN draft[t] ELSE future[u]]
  /\ pc' = [pc EXCEPT ![t] = "clean"]
  /\ UNCHANGED <<db, redis, up, flights, plan, snap, draft, joined, writerVars>>

\* future.set_result or future.set_exception.
Settle(t) ==
  /\ pc[t] = "settle"
  /\ future' = [u \in Threads |-> IF u \in Holders(t) THEN draft[t] ELSE future[u]]
  /\ pc' = [pc EXCEPT ![t] = "clean"]
  /\ UNCHANGED <<db, redis, up, flights, plan, snap, draft, joined, writerVars>>

\* Mutant of Clean: the flight is unregistered on the success path only.
CleanOnSuccess(t) ==
  /\ pc[t] = "clean"
  /\ flights' = [flights EXCEPT ![Key(t)] = IF draft[t] # Failed THEN None ELSE @]
  /\ Return(t, draft[t])
  /\ draft' = [draft EXCEPT ![t] = None]
  /\ future' = [future EXCEPT ![t] = None]
  /\ UNCHANGED <<db, redis, up, joined, writerVars>>

\* The finally block, under _flights_lock, and the end of the leader's call.
Clean(t) ==
  /\ pc[t] = "clean"
  /\ flights' = [flights EXCEPT ![Key(t)] = IF @ = t THEN None ELSE @]
  /\ Return(t, draft[t])
  /\ draft' = [draft EXCEPT ![t] = None]
  /\ future' = [future EXCEPT ![t] = None]
  /\ UNCHANGED <<db, redis, up, joined, writerVars>>

-----------------------------------------------------------------------------
(* Commits and invalidations.                                              *)

\* handle_message has committed a message of kind c and is about to
\* invalidate the keys of that kind.
Commit(w, c) ==
  /\ wpc[w] = "idle"
  /\ db[c] < MaxVersion
  /\ db' = [db EXCEPT ![c] = @ + 1]
  /\ wpc' = [wpc EXCEPT ![w] = "invalidate"]
  /\ scope' = [scope EXCEPT ![w] = {c}]
  /\ UNCHANGED <<redis, up, readerVars, toScan, found>>

\* broadcast_refresh invalidates every kind.
BroadcastRefresh(w) ==
  /\ wpc[w] = "idle"
  /\ wpc' = [wpc EXCEPT ![w] = "invalidate"]
  /\ scope' = [scope EXCEPT ![w] = Kinds]
  /\ UNCHANGED <<db, redis, up, readerVars, toScan, found>>

\* scan_iter starts over the patterns of the kinds in scope.
StartScan(w) ==
  /\ wpc[w] = "invalidate" /\ up
  /\ wpc' = [wpc EXCEPT ![w] = "scan"]
  /\ toScan' = [toScan EXCEPT ![w] = KeysOf(scope[w])]
  /\ UNCHANGED <<db, redis, up, readerVars, scope, found>>

\* Mutant of ScanKey: one SCAN command instead of the whole iteration.
ScanOnePage(w, k) ==
  /\ wpc[w] = "scan" /\ up
  /\ k \in toScan[w]
  /\ toScan' = [toScan EXCEPT ![w] = {}]
  /\ found' = [found EXCEPT ![w] = IF redis[k] = None THEN @ ELSE @ \cup {k}]
  /\ UNCHANGED <<db, redis, up, readerVars, wpc, scope>>

\* SCAN visits one key: an entry present for the whole scan is returned, one
\* that comes or goes meanwhile may or may not be.
ScanKey(w, k) ==
  /\ wpc[w] = "scan" /\ up
  /\ k \in toScan[w]
  /\ toScan' = [toScan EXCEPT ![w] = @ \ {k}]
  /\ found' = [found EXCEPT ![w] = IF redis[k] = None THEN @ ELSE @ \cup {k}]
  /\ UNCHANGED <<db, redis, up, readerVars, wpc, scope>>

FinishInvalidation(w) ==
  /\ wpc' = [wpc EXCEPT ![w] = "idle"]
  /\ scope' = [scope EXCEPT ![w] = {}]
  /\ toScan' = [toScan EXCEPT ![w] = {}]
  /\ found' = [found EXCEPT ![w] = {}]

\* client.delete(*keys), one command; not sent when SCAN returned nothing.
DeleteFound(w) ==
  /\ wpc[w] = "scan" /\ toScan[w] = {}
  /\ up \/ found[w] = {}
  /\ redis' = [k \in Keys |-> IF k \in found[w] THEN None ELSE redis[k]]
  /\ FinishInvalidation(w)
  /\ UNCHANGED <<db, up, readerVars>>

\* No client, or a command raises: the failure is swallowed.
InvalidationFails(w) ==
  /\ ~up
  /\ \/ wpc[w] = "invalidate"
     \/ wpc[w] = "scan" /\ (toScan[w] # {} \/ found[w] # {})
  /\ FinishInvalidation(w)
  /\ UNCHANGED <<db, redis, up, readerVars>>

-----------------------------------------------------------------------------
(* Redis itself.                                                           *)

\* Mutant of Expire: entries are stored without a TTL.
ExpireNever(k) ==
  /\ FALSE
  /\ redis' = [redis EXCEPT ![k] = None]
  /\ UNCHANGED <<db, up, readerVars, writerVars>>

\* The TTL of an entry runs out.
Expire(k) ==
  /\ redis[k] # None
  /\ redis' = [redis EXCEPT ![k] = None]
  /\ UNCHANGED <<db, up, readerVars, writerVars>>

\* Redis stops answering, or get_redis_client finds it again.
Outage == up /\ up' = FALSE /\ UNCHANGED <<db, redis, readerVars, writerVars>>
Recover == ~up /\ up' = TRUE /\ UNCHANGED <<db, redis, readerVars, writerVars>>

-----------------------------------------------------------------------------

\* The steps of a thread inside a request.
RequestStep(t) ==
  \/ Hit(t) \/ Miss(t) \/ Lead(t) \/ Join(t) \/ Wake(t)
  \/ Recheck(t) \/ Build(t) \/ BuildFails(t) \/ Store(t) \/ Settle(t) \/ Clean(t)

\* The steps of an invalidation that has begun.
InvalidationStep(w) ==
  \/ StartScan(w)
  \/ \E k \in Keys : ScanKey(w, k)
  \/ DeleteFound(w)
  \/ InvalidationFails(w)

Environment ==
  \/ \E k \in Keys : Expire(k)
  \/ Outage
  \/ Recover

Next ==
  \/ \E t \in Threads : Begin(t) \/ RequestStep(t)
  \/ \E w \in Writers, c \in Kinds : Commit(w, c)
  \/ \E w \in Broadcasters : BroadcastRefresh(w)
  \/ \E w \in Invalidators : InvalidationStep(w)
  \/ Environment

Spec == Init /\ [][Next]_vars

\* Every thread keeps running (the driver's timeouts end each query), every
\* invalidation goes on, and Redis drops an entry when its TTL has run out.
Fairness ==
  /\ \A t \in Threads : WF_vars(RequestStep(t))
  /\ \A w \in Invalidators : WF_vars(InvalidationStep(w))
  /\ \A k \in Keys : WF_vars(Expire(k))

FairSpec == Spec /\ Fairness

-----------------------------------------------------------------------------
(* Properties.                                                             *)

Leads(t, k) == pc[t] \in LeaderSteps /\ Key(t) = k

\* At most one thread is rebuilding a key, from the moment it registers the
\* flight until its finally block has run: concurrent misses of one key do
\* not multiply the load on MySQL.
SingleBuilder ==
  \A t, u \in Threads : \A k \in Keys : Leads(t, k) /\ Leads(u, k) => t = u

\* The flight table and the leaders agree: a registered flight belongs to a
\* thread that is leading that very key, so no flight outlives its leader and
\* blocks the key for good, and a leader stays registered until it cleans up.
FlightTableExact ==
  \A k \in Keys, t \in Threads : flights[k] = t <=> Leads(t, k)

\* A follower whose future is pending waits for a thread that leads the same
\* key and has not published yet: nobody waits for a future no one will set.
NoOrphanWaiter ==
  \A t \in Threads :
    pc[t] = "wait" /\ future[t] = None =>
      /\ joined[t] \in Threads
      /\ Leads(joined[t], Key(t))
      /\ pc[joined[t]] # "clean"

\* Every cache_get_or_build call returns or raises, the calls that wait for
\* another thread's future without a timeout included.
CallReturns ==
  \A t \in Threads :
    (pc[t] = "miss") ~> (pc[t] \in {"idle", "open"})

\* Once commits have stopped, the TTL drives every stale entry out: from some
\* point on Redis holds nothing but current results, whatever fills raced with
\* the invalidations and whichever invalidations failed.
EventuallyFresh ==
  <>[](\A k \in Keys : redis[k] \in {None, db[KindOf[k]]})

=============================================================================
