---------------------- MODULE SingleFlightCacheProofs ----------------------
(***************************************************************************)
(* Proofs about SingleFlightCache, for every set of threads, keys, kinds   *)
(* and invalidations and any number of commits.                            *)
(***************************************************************************)
EXTENDS SingleFlightCache, TLAPS

\* A request under way has a current key and a rest.
LEMMA CurrentKey ==
  ASSUME NEW s \in Seq(Keys), s # <<>>
  PROVE  Head(s) \in Keys /\ Tail(s) \in Seq(Keys)
  OBVIOUS

\* The steps that change only what the flights do not look at: the database,
\* the entries in Redis and the invalidations.
Background ==
  \/ \E w \in Writers, c \in Kinds : Commit(w, c)
  \/ \E w \in Broadcasters : BroadcastRefresh(w)
  \/ \E w \in Invalidators : InvalidationStep(w)
  \/ Environment

LEMMA NextCases ==
  ASSUME Next
  PROVE  \/ \E t \in Threads : Begin(t) \/ RequestStep(t)
         \/ Background
  BY DEF Next, Background

LEMMA BackgroundSkipsReaders ==
  ASSUME Background
  PROVE  UNCHANGED readerVars
  BY DEF Background, Commit, BroadcastRefresh, InvalidationStep, StartScan, ScanKey,
         DeleteFound, InvalidationFails, Environment, Expire, Outage, Recover

-----------------------------------------------------------------------------

\* The types of what the readers keep and of what the background keeps.
ReaderTypeOK ==
  /\ flights \in [Keys -> Threads \cup {None}]
  /\ pc \in [Threads -> {"idle", "open", "miss", "wait"} \cup LeaderSteps]
  /\ plan \in [Threads -> Seq(Keys)]
  /\ \A t \in Threads : pc[t] # "idle" => plan[t] # <<>>
  /\ snap \in [Threads -> [Kinds -> Version] \cup {None}]
  /\ draft \in [Threads -> Outcome \cup {None}]
  /\ \A t \in Threads : pc[t] = "store" => draft[t] \in Version
  /\ \A t \in Threads : pc[t] \in {"settle", "clean"} => draft[t] \in Outcome
  /\ joined \in [Threads -> Threads \cup {None}]
  /\ future \in [Threads -> Outcome \cup {None}]

DataTypeOK ==
  /\ db \in [Kinds -> Version]
  /\ redis \in [Keys -> Version \cup {None}]
  /\ up \in BOOLEAN

WriterTypeOK ==
  /\ wpc \in [Invalidators -> {"idle", "invalidate", "scan"}]
  /\ scope \in [Invalidators -> SUBSET Kinds]
  /\ toScan \in [Invalidators -> SUBSET Keys]
  /\ found \in [Invalidators -> SUBSET Keys]

LEMMA TypeInit == Init => TypeOK
  BY NoneAssumption, FailedAssumption DEF Init, TypeOK, Version, Outcome, LeaderSteps

\* A return of a call that is under way keeps the readers' types.
LEMMA ReturnType ==
  ASSUME TypeOK, NEW t \in Threads, plan[t] # <<>>, NEW r, Return(t, r)
  PROVE  /\ pc' \in [Threads -> {"idle", "open", "miss", "wait"} \cup LeaderSteps]
         /\ pc' = [pc EXCEPT ![t] = pc'[t]]
         /\ pc'[t] \in {"idle", "open"}
         /\ plan' \in [Threads -> Seq(Keys)]
         /\ \A u \in Threads : pc'[u] # "idle" => plan'[u] # <<>>
         /\ \A u \in Threads \ {t} : plan'[u] = plan[u]
         /\ snap' \in [Threads -> [Kinds -> Version] \cup {None}]
<1>1. Tail(plan[t]) \in Seq(Keys)
  BY CurrentKey DEF TypeOK
<1>. QED
  BY <1>1 DEF TypeOK, Return

LEMMA TypeStep == TypeOK /\ [Next]_vars => TypeOK'
<1> SUFFICES ASSUME TypeOK, [Next]_vars
             PROVE  TypeOK'
  OBVIOUS
<1> USE NoneAssumption, FailedAssumption
<1>1. ASSUME NEW t \in Threads, Begin(t)
      PROVE  TypeOK'
  BY <1>1, RequestAssumption DEF Begin, TypeOK, writerVars, LeaderSteps
<1>2. ASSUME NEW t \in Threads, RequestStep(t)
      PROVE  TypeOK'
  <2> DEFINE k == Key(t)
  <2>k. pc[t] # "idle" => k \in Keys
    BY CurrentKey DEF TypeOK, Key
  <2>1. CASE Hit(t)
    <3>1. plan[t] # <<>>
      BY <2>1 DEF Hit, TypeOK
    <3>2. \E r : Return(t, r)
      BY <2>1 DEF Hit
    <3>3. ReaderTypeOK'
      BY <2>1, <3>1, <3>2, ReturnType DEF Hit, TypeOK, ReaderTypeOK, LeaderSteps
    <3>. QED
      BY <2>1, <3>3 DEF ReaderTypeOK, Hit, TypeOK, DataTypeOK, WriterTypeOK, writerVars
  <2>2. CASE Miss(t)
    BY <2>2 DEF Miss, TypeOK, writerVars, LeaderSteps
  <2>3. CASE Lead(t)
    BY <2>3, <2>k DEF Lead, TypeOK, writerVars, LeaderSteps
  <2>4. CASE Join(t)
    <3>1. flights[k] \in Threads
      BY <2>4, <2>k DEF Join, TypeOK
    <3>. QED
      BY <2>4, <3>1 DEF Join, TypeOK, writerVars, LeaderSteps
  <2>5. CASE Wake(t)
    <3>1. plan[t] # <<>>
      BY <2>5 DEF Wake, TypeOK
    <3>2. Return(t, future[t])
      BY <2>5 DEF Wake
    <3>3. ReaderTypeOK'
      BY <2>5, <3>1, <3>2, ReturnType DEF Wake, TypeOK, ReaderTypeOK, LeaderSteps
    <3>. QED
      BY <2>5, <3>3 DEF ReaderTypeOK, Wake, TypeOK, DataTypeOK, WriterTypeOK, writerVars
  <2>6. CASE Recheck(t)
    <3>1. CASE CacheGet(k) # None
      <4>1. PICK r \in {redis[k], Failed} :
              draft' = [draft EXCEPT ![t] = r] /\ pc' = [pc EXCEPT ![t] = "settle"]
        BY <2>6, <3>1 DEF Recheck
      <4>2. r \in Outcome
        BY <2>6, <2>k, <3>1 DEF Recheck, CacheGet, TypeOK, Outcome
      <4>. QED
        BY <2>6, <4>1, <4>2 DEF Recheck, TypeOK, writerVars, LeaderSteps
    <3>2. CASE CacheGet(k) = None
      BY <2>6, <3>2 DEF Recheck, TypeOK, writerVars, LeaderSteps
    <3>. QED
      BY <3>1, <3>2
  <2>7. CASE Build(t)
    <3>1. KindOf[k] \in Kinds
      BY <2>7, <2>k, KindAssumption DEF Build
    <3>2. snap'[t] \in [Kinds -> Version]
      BY <2>7 DEF Build, TypeOK
    <3>. QED
      BY <2>7, <3>1, <3>2 DEF Build, TypeOK, writerVars, LeaderSteps, Outcome
  <2>8. CASE BuildFails(t)
    BY <2>8 DEF BuildFails, TypeOK, writerVars, LeaderSteps, Outcome
  <2>9. CASE Store(t)
    BY <2>9, <2>k DEF Store, Key, TypeOK, writerVars, LeaderSteps, Outcome
  <2>10. CASE Settle(t)
    BY <2>10 DEF Settle, Holders, TypeOK, writerVars, LeaderSteps
  <2>11. CASE Clean(t)
    <3>1. plan[t] # <<>>
      BY <2>11 DEF Clean, TypeOK
    <3>2. Return(t, draft[t])
      BY <2>11 DEF Clean
    <3>3. ReaderTypeOK'
      BY <2>11, <3>1, <3>2, ReturnType DEF Clean, TypeOK, ReaderTypeOK, LeaderSteps
    <3>. QED
      BY <2>11, <3>3 DEF ReaderTypeOK, Clean, TypeOK, DataTypeOK, WriterTypeOK, writerVars
  <2>. QED
    BY <1>2, <2>1, <2>2, <2>3, <2>4, <2>5, <2>6, <2>7, <2>8, <2>9, <2>10, <2>11
       DEF RequestStep
<1>3. ASSUME Background
      PROVE  TypeOK'
  <2>1. ReaderTypeOK'
    BY <1>3, BackgroundSkipsReaders DEF TypeOK, ReaderTypeOK, readerVars
  <2>2. DataTypeOK' /\ WriterTypeOK'
    <3>1. ASSUME NEW w \in Writers, NEW c \in Kinds, Commit(w, c)
          PROVE  DataTypeOK' /\ WriterTypeOK'
      BY <3>1 DEF Commit, TypeOK, DataTypeOK, WriterTypeOK, Invalidators, Version
    <3>2. ASSUME NEW w \in Broadcasters, BroadcastRefresh(w)
          PROVE  DataTypeOK' /\ WriterTypeOK'
      BY <3>2 DEF BroadcastRefresh, TypeOK, DataTypeOK, WriterTypeOK, Invalidators
    <3>3. ASSUME NEW w \in Invalidators, InvalidationStep(w)
          PROVE  DataTypeOK' /\ WriterTypeOK'
      <4>1. CASE StartScan(w)
        BY <4>1 DEF StartScan, KeysOf, TypeOK, DataTypeOK, WriterTypeOK
      <4>2. CASE \E k \in Keys : ScanKey(w, k)
        BY <4>2 DEF ScanKey, TypeOK, DataTypeOK, WriterTypeOK
      <4>3. CASE DeleteFound(w)
        BY <4>3 DEF DeleteFound, FinishInvalidation, TypeOK, DataTypeOK, WriterTypeOK
      <4>4. CASE InvalidationFails(w)
        BY <4>4 DEF InvalidationFails, FinishInvalidation, TypeOK, DataTypeOK, WriterTypeOK
      <4>. QED
        BY <3>3, <4>1, <4>2, <4>3, <4>4 DEF InvalidationStep
    <3>4. ASSUME Environment
          PROVE  DataTypeOK' /\ WriterTypeOK'
      BY <3>4 DEF Environment, Expire, Outage, Recover, writerVars,
                  TypeOK, DataTypeOK, WriterTypeOK
    <3>. QED
      BY <1>3, <3>1, <3>2, <3>3, <3>4 DEF Background
  <2>. QED
    BY <2>1, <2>2 DEF TypeOK, ReaderTypeOK, DataTypeOK, WriterTypeOK
<1>4. CASE UNCHANGED vars
  BY <1>4 DEF vars, readerVars, writerVars, TypeOK
<1>. QED
  BY <1>1, <1>2, <1>3, <1>4, NextCases

\* Every reachable state is well typed; in particular a leader never stores
\* or publishes anything but a version it has built, or an exception.
THEOREM TypeCorrect == Spec => []TypeOK
<1>. QED
  BY TypeInit, TypeStep, PTL DEF Spec

-----------------------------------------------------------------------------

\* What makes the flight table inductive: a leader's future is pending until
\* it settles and holds the outcome while the leader cleans up, so a follower
\* that joins in between takes a future that is pending exactly when the
\* leader has yet to publish it.
FlightInv ==
  /\ FlightTableExact
  /\ \A t \in Threads : pc[t] \in LeaderSteps \ {"clean"} => future[t] = None
  /\ \A t \in Threads : pc[t] = "clean" => future[t] # None
  /\ NoOrphanWaiter

LEMMA FlightInit == Init => FlightInv
  BY NoneAssumption DEF Init, FlightInv, FlightTableExact, NoOrphanWaiter, Leads, LeaderSteps

\* A thread that holds no future and leads nothing, before and after a step
\* that leaves the flights, the futures and the other threads alone.
LEMMA BystanderStep ==
  ASSUME TypeOK, FlightInv, NEW t \in Threads,
         pc[t] \in {"idle", "open", "miss"}, pc'[t] \in {"idle", "open", "miss"},
         pc' = [pc EXCEPT ![t] = pc'[t]],
         \A u \in Threads \ {t} : plan'[u] = plan[u],
         UNCHANGED <<flights, future, joined>>
  PROVE  FlightInv'
<1>1. \A u \in Threads, k \in Keys : Leads(u, k)' <=> Leads(u, k)
  BY DEF Leads, Key, LeaderSteps, TypeOK
<1>2. FlightTableExact'
  BY <1>1 DEF FlightInv, FlightTableExact
<1>3. NoOrphanWaiter'
  BY DEF FlightInv, NoOrphanWaiter, Leads, Key, LeaderSteps, TypeOK
<1>. QED
  BY <1>2, <1>3 DEF FlightInv, LeaderSteps, TypeOK

\* A leader moves on before it settles.
LEMMA LeaderStep ==
  ASSUME TypeOK, FlightInv, NEW t \in Threads,
         pc[t] \in LeaderSteps \ {"clean"}, pc'[t] \in LeaderSteps \ {"clean"},
         pc' = [pc EXCEPT ![t] = pc'[t]],
         UNCHANGED <<flights, plan, future, joined>>
  PROVE  FlightInv'
<1>1. \A u \in Threads, k \in Keys : Leads(u, k)' <=> Leads(u, k)
  BY DEF Leads, Key, LeaderSteps, TypeOK
<1>2. FlightTableExact'
  BY <1>1 DEF FlightInv, FlightTableExact
<1>3. NoOrphanWaiter'
  BY DEF FlightInv, NoOrphanWaiter, Leads, Key, LeaderSteps, TypeOK
<1>. QED
  BY <1>2, <1>3 DEF FlightInv, LeaderSteps, TypeOK

LEMMA FlightStep == TypeOK /\ FlightInv /\ [Next]_vars => FlightInv'
<1> SUFFICES ASSUME TypeOK, FlightInv, [Next]_vars
             PROVE  FlightInv'
  OBVIOUS
<1> USE NoneAssumption
<1>1. ASSUME NEW t \in Threads, Begin(t)
      PROVE  FlightInv'
  BY <1>1, BystanderStep DEF Begin, TypeOK
<1>2. ASSUME NEW t \in Threads, RequestStep(t)
      PROVE  FlightInv'
  <2>k. pc[t] # "idle" => Key(t) \in Keys /\ plan[t] # <<>>
    BY CurrentKey DEF TypeOK, Key
  <2>1. CASE Hit(t)
    <3>1. plan[t] # <<>> /\ \E r : Return(t, r)
      BY <2>1, <2>k DEF Hit
    <3>. QED
      BY <2>1, <3>1, ReturnType, BystanderStep DEF Hit
  <2>2. CASE Miss(t)
    BY <2>2, BystanderStep DEF Miss, TypeOK
  <2>3. CASE Lead(t)
    <3>1. \A u \in Threads, k \in Keys :
            Leads(u, k)' <=> Leads(u, k) \/ (u = t /\ k = Key(t))
      BY <2>3 DEF Lead, Leads, Key, LeaderSteps, TypeOK
    <3>2. FlightTableExact'
      BY <2>3, <2>k, <3>1 DEF Lead, FlightInv, FlightTableExact, TypeOK, Leads
    <3>3. NoOrphanWaiter'
      BY <2>3, <3>1 DEF Lead, FlightInv, NoOrphanWaiter, Key, Leads, LeaderSteps, TypeOK
    <3>. QED
      BY <2>3, <3>2, <3>3 DEF Lead, FlightInv, LeaderSteps, TypeOK
  <2>4. CASE Join(t)
    <3> DEFINE l == flights[Key(t)]
    <3>1. l \in Threads /\ Leads(l, Key(t))
      BY <2>4, <2>k DEF Join, TypeOK, FlightInv, FlightTableExact
    <3>2. l # t
      BY <2>4, <3>1 DEF Join, Leads, LeaderSteps
    <3>3. \A u \in Threads, k \in Keys : Leads(u, k)' <=> Leads(u, k)
      BY <2>4 DEF Join, Leads, Key, LeaderSteps, TypeOK
    <3>4. FlightTableExact'
      BY <2>4, <3>3 DEF Join, FlightInv, FlightTableExact
    <3>5. future[l] = None => pc[l] # "clean"
      BY <3>1 DEF FlightInv
    <3>6. NoOrphanWaiter'
      <4>1. SUFFICES ASSUME NEW u \in Threads, pc'[u] = "wait", future'[u] = None
                     PROVE  /\ joined'[u] \in Threads
                            /\ Leads(joined[u], Key(u))'
                            /\ pc'[joined'[u]] # "clean"
        BY DEF NoOrphanWaiter
      <4>2. CASE u = t
        BY <2>4, <4>1, <4>2, <3>1, <3>2, <3>5 DEF Join, Leads, Key, TypeOK
      <4>3. CASE u # t
        BY <2>4, <4>1, <4>3 DEF Join, FlightInv, NoOrphanWaiter, Leads, Key, LeaderSteps, TypeOK
      <4>. QED
        BY <4>2, <4>3
    <3>. QED
      BY <2>4, <3>4, <3>6 DEF Join, FlightInv, LeaderSteps, TypeOK
  <2>5. CASE Wake(t)
    <3>1. plan[t] # <<>> /\ Return(t, future[t])
      BY <2>5, <2>k DEF Wake
    <3>2. /\ pc' = [pc EXCEPT ![t] = pc'[t]]
          /\ pc'[t] \in {"idle", "open"}
          /\ \A u \in Threads \ {t} : plan'[u] = plan[u]
      BY <3>1, ReturnType
    <3>3. \A u \in Threads, k \in Keys : Leads(u, k)' <=> Leads(u, k)
      BY <2>5, <3>2 DEF Wake, Leads, Key, LeaderSteps, TypeOK
    <3>4. FlightTableExact'
      BY <2>5, <3>3 DEF Wake, FlightInv, FlightTableExact
    <3>5. NoOrphanWaiter'
      <4>1. SUFFICES ASSUME NEW u \in Threads, pc'[u] = "wait", future'[u] = None
                     PROVE  /\ joined'[u] \in Threads
                            /\ Leads(joined[u], Key(u))'
                            /\ pc'[joined'[u]] # "clean"
        BY DEF NoOrphanWaiter
      <4>2. u # t /\ pc[u] = "wait" /\ future[u] = None /\ joined'[u] = joined[u]
        BY <2>5, <4>1, <3>2 DEF Wake, TypeOK
      <4>3. joined[u] \in Threads /\ Leads(joined[u], Key(u)) /\ pc[joined[u]] # "clean"
        BY <4>2 DEF FlightInv, NoOrphanWaiter
      <4>4. joined[u] # t
        BY <2>5, <4>3 DEF Wake, Leads, LeaderSteps
      <4>. QED
        BY <3>2, <4>2, <4>3, <4>4 DEF Leads, Key, TypeOK
    <3>. QED
      BY <2>5, <3>2, <3>4, <3>5 DEF Wake, FlightInv, LeaderSteps, TypeOK
  <2>6. CASE Recheck(t)
    BY <2>6, LeaderStep DEF Recheck, LeaderSteps, TypeOK
  <2>7. CASE Build(t)
    BY <2>7, LeaderStep DEF Build, LeaderSteps, TypeOK
  <2>8. CASE BuildFails(t)
    BY <2>8, LeaderStep DEF BuildFails, LeaderSteps, TypeOK
  <2>9. CASE Store(t)
    BY <2>9, LeaderStep DEF Store, LeaderSteps, TypeOK
  <2>10. CASE Settle(t)
    <3>1. draft[t] # None
      BY <2>10, FailedAssumption DEF Settle, TypeOK, Outcome, Version
    <3>2. \A u \in Threads, k \in Keys : Leads(u, k)' <=> Leads(u, k)
      BY <2>10 DEF Settle, Leads, Key, LeaderSteps, TypeOK
    <3>3. FlightTableExact'
      BY <2>10, <3>2 DEF Settle, FlightInv, FlightTableExact
    <3>4. NoOrphanWaiter'
      <4>1. SUFFICES ASSUME NEW u \in Threads, pc'[u] = "wait", future'[u] = None
                     PROVE  /\ joined'[u] \in Threads
                            /\ Leads(joined[u], Key(u))'
                            /\ pc'[joined'[u]] # "clean"
        BY DEF NoOrphanWaiter
      <4>2. u # t /\ pc[u] = "wait" /\ future[u] = None /\ joined[u] # t
        BY <2>10, <4>1, <3>1 DEF Settle, Holders, TypeOK
      <4>3. joined[u] \in Threads /\ Leads(joined[u], Key(u)) /\ pc[joined[u]] # "clean"
        BY <4>2 DEF FlightInv, NoOrphanWaiter
      <4>. QED
        BY <2>10, <4>2, <4>3 DEF Settle, Leads, Key, TypeOK
    <3>5. \A u \in Threads : pc'[u] \in LeaderSteps \ {"clean"} => future'[u] = None
      BY <2>10 DEF Settle, Holders, FlightInv, LeaderSteps, TypeOK
    <3>6. \A u \in Threads : pc'[u] = "clean" => future'[u] # None
      BY <2>10, <3>1 DEF Settle, Holders, FlightInv, LeaderSteps, TypeOK
    <3>. QED
      BY <3>3, <3>4, <3>5, <3>6 DEF FlightInv
  <2>11. CASE Clean(t)
    <3>1. plan[t] # <<>> /\ Return(t, draft[t])
      BY <2>11, <2>k DEF Clean
    <3>2. /\ pc' = [pc EXCEPT ![t] = pc'[t]]
          /\ pc'[t] \in {"idle", "open"}
          /\ \A u \in Threads \ {t} : plan'[u] = plan[u]
      BY <3>1, ReturnType
    <3>3. flights[Key(t)] = t /\ Key(t) \in Keys
      BY <2>11, <2>k DEF Clean, FlightInv, FlightTableExact, Leads, LeaderSteps
    <3>4. \A u \in Threads, k \in Keys : Leads(u, k)' <=> Leads(u, k) /\ u # t
      BY <2>11, <3>2 DEF Clean, Leads, Key, LeaderSteps, TypeOK
    <3>5. FlightTableExact'
      BY <2>11, <3>3, <3>4 DEF Clean, FlightInv, FlightTableExact, Leads, TypeOK
    <3>6. NoOrphanWaiter'
      <4>1. SUFFICES ASSUME NEW u \in Threads, pc'[u] = "wait", future'[u] = None
                     PROVE  /\ joined'[u] \in Threads
                            /\ Leads(joined[u], Key(u))'
                            /\ pc'[joined'[u]] # "clean"
        BY DEF NoOrphanWaiter
      <4>2. u # t /\ pc[u] = "wait" /\ future[u] = None /\ joined'[u] = joined[u]
        BY <2>11, <4>1, <3>2 DEF Clean, TypeOK
      <4>3. joined[u] \in Threads /\ Leads(joined[u], Key(u)) /\ pc[joined[u]] # "clean"
        BY <4>2 DEF FlightInv, NoOrphanWaiter
      <4>4. joined[u] # t
        BY <2>11, <4>3 DEF Clean, Leads, LeaderSteps
      <4>. QED
        BY <3>2, <4>2, <4>3, <4>4 DEF Leads, Key, TypeOK
    <3>. QED
      BY <2>11, <3>2, <3>5, <3>6 DEF Clean, FlightInv, LeaderSteps, TypeOK
  <2>. QED
    BY <1>2, <2>1, <2>2, <2>3, <2>4, <2>5, <2>6, <2>7, <2>8, <2>9, <2>10, <2>11
       DEF RequestStep
<1>3. ASSUME Background
      PROVE  FlightInv'
  BY <1>3, BackgroundSkipsReaders
     DEF readerVars, FlightInv, FlightTableExact, NoOrphanWaiter, Leads, Key
<1>4. CASE UNCHANGED vars
  BY <1>4 DEF vars, readerVars, FlightInv, FlightTableExact, NoOrphanWaiter, Leads, Key
<1>. QED
  BY <1>1, <1>2, <1>3, <1>4, NextCases

\* TypeOK and FlightInv together are inductive.
LEMMA FlightInvariant == Spec => [](TypeOK /\ FlightInv)
<1>1. Init => TypeOK /\ FlightInv
  BY TypeInit, FlightInit
<1>2. TypeOK /\ FlightInv /\ [Next]_vars => (TypeOK /\ FlightInv)'
  BY TypeStep, FlightStep
<1>. QED
  BY <1>1, <1>2, PTL DEF Spec

\* The flight table names exactly the threads that are leading: no flight
\* survives its leader, no leader is unregistered before its finally block.
THEOREM FlightTableCorrect == Spec => []FlightTableExact
<1>1. TypeOK /\ FlightInv => FlightTableExact
  BY DEF FlightInv
<1>. QED
  BY <1>1, FlightInvariant, PTL

\* Concurrent misses of a key never run two rebuilds of it.
THEOREM SingleBuilderCorrect == Spec => []SingleBuilder
<1>1. TypeOK /\ FlightInv => SingleBuilder
  BY DEF FlightInv, FlightTableExact, SingleBuilder
<1>. QED
  BY <1>1, FlightInvariant, PTL

\* No follower waits for a future that nobody is going to set.
THEOREM NoOrphanCorrect == Spec => []NoOrphanWaiter
<1>1. TypeOK /\ FlightInv => NoOrphanWaiter
  BY DEF FlightInv
<1>. QED
  BY <1>1, FlightInvariant, PTL

=============================================================================
