------------------------ MODULE CacheFreshnessProofs ------------------------
(***************************************************************************)
(* Proofs about CacheFreshness, for any number of threads, keys, kinds,    *)
(* commits and concurrent invalidations.                                   *)
(***************************************************************************)
EXTENDS CacheFreshness, SingleFlightCacheProofs

LEMMA FreshNextRefines == [FreshNext]_fvars => [Next]_vars
<1>1. FreshNext => Next
  BY DEF FreshNext, FreshMiss, FreshReturn, FreshRecheck, FreshStore, FreshStartScan,
         FreshDelete, FreshAbandon, FreshExpire, OtherStep, Next, RequestStep,
         InvalidationStep, Environment
<1>. QED
  BY <1>1 DEF fvars

\* The history adds nothing to the behaviour of the cache.
THEOREM HistoryOnlyObserves == FreshSpec => Spec
<1>. QED
  BY FreshNextRefines, PTL DEF FreshSpec, FreshInit, Spec

\* The state an entry's freshness depends on, and the steps that change none of
\* it: everything a request does but storing its result.
dataVars == <<db, redis, up, cleared, target, late, writerVars>>

QuietStep ==
  \/ \E t \in Threads :
       \/ FreshMiss(t) \/ FreshReturn(t) \/ FreshRecheck(t)
       \/ (Begin(t) \/ Hit(t) \/ Lead(t) \/ Join(t) \/ Build(t) \/ BuildFails(t)
            \/ Settle(t)) /\ UNCHANGED history
  \/ UNCHANGED fvars

\* The steps of an invalidation in progress.
FreshInvalidation(w) ==
  \/ FreshStartScan(w)
  \/ (\E k \in Keys : ScanKey(w, k)) /\ UNCHANGED history
  \/ FreshDelete(w)
  \/ FreshAbandon(w)

LEMMA FreshCases ==
  ASSUME [FreshNext]_fvars
  PROVE  \/ QuietStep
         \/ \E t \in Threads : FreshStore(t)
         \/ \E w \in Writers, c \in Kinds : Commit(w, c) /\ UNCHANGED history
         \/ \E w \in Broadcasters : BroadcastRefresh(w) /\ UNCHANGED history
         \/ \E w \in Invalidators : FreshInvalidation(w)
         \/ \E k \in Keys : FreshExpire(k)
         \/ (Outage \/ Recover) /\ UNCHANGED history
  BY DEF FreshNext, OtherStep, QuietStep, FreshInvalidation

LEMMA QuietSkipsData ==
  ASSUME QuietStep
  PROVE  UNCHANGED dataVars
  BY DEF QuietStep, FreshMiss, FreshReturn, FreshRecheck, Begin, Hit, Miss, Lead, Join,
         Wake, Recheck, Build, BuildFails, Settle, Clean, fvars, vars, history, dataVars

-----------------------------------------------------------------------------

\* What makes StaleOnlyWhenStoredLate inductive: no history runs ahead of the
\* database, and a running SCAN has already dealt with every key it has passed:
\* the key is on the list to delete, or whatever has been stored under it since
\* is recent enough, or was stored late.
ScanInv ==
  \A w \in Invalidators, k \in Keys :
    wpc[w] = "scan" /\ KindOf[k] \in scope[w] /\ k \notin toScan[w] /\ k \notin found[w] =>
      (redis[k] # None /\ ~late[k] => redis[k] >= target[w][KindOf[k]])

FreshInv ==
  /\ cleared \in [Kinds -> Version]
  /\ target \in [Invalidators -> [Kinds -> Version]]
  /\ late \in [Keys -> BOOLEAN]
  /\ \A c \in Kinds : cleared[c] <= db[c]
  /\ \A w \in Invalidators, c \in Kinds : target[w][c] <= db[c]
  /\ StaleOnlyWhenStoredLate
  /\ ScanInv

LEMMA FreshInvInit == FreshInit => FreshInv
  BY KindAssumption, NoneAssumption
     DEF FreshInit, Init, FreshInv, Version, StaleOnlyWhenStoredLate, ScanInv

LEMMA FreshInvStep == TypeOK /\ FreshInv /\ [FreshNext]_fvars => FreshInv'
<1> SUFFICES ASSUME TypeOK, FreshInv, [FreshNext]_fvars
             PROVE  FreshInv'
  OBVIOUS
<1> USE KindAssumption, NoneAssumption
<1>1. CASE QuietStep
  BY <1>1, QuietSkipsData
     DEF dataVars, writerVars, FreshInv, StaleOnlyWhenStoredLate, ScanInv
<1>2. ASSUME NEW t \in Threads, FreshStore(t)
      PROVE  FreshInv'
  <2>1. Key(t) \in Keys /\ draft[t] \in Version
    BY <1>2, CurrentKey DEF FreshStore, Store, Key, TypeOK
  <2>2. CASE ~up
    BY <1>2, <2>2 DEF FreshStore, Store, writerVars, FreshInv, StaleOnlyWhenStoredLate, ScanInv
  <2>3. CASE up
    <3> DEFINE key == Key(t)
    <3>1. /\ redis' = [redis EXCEPT ![key] = draft[t]]
          /\ late' = [late EXCEPT ![key] = draft[t] # db[KindOf[key]]]
          /\ UNCHANGED <<db, cleared, target, writerVars>>
      BY <1>2, <2>3 DEF FreshStore, Store
    <3>2. late' \in [Keys -> BOOLEAN]
      BY <3>1 DEF FreshInv
    <3>3. /\ redis'[key] = draft[t]
          /\ ~late'[key] => draft[t] = db[KindOf[key]]
          /\ \A k \in Keys \ {key} : redis'[k] = redis[k] /\ late'[k] = late[k]
      BY <2>1, <3>1 DEF TypeOK, FreshInv
    <3>4. StaleOnlyWhenStoredLate'
      BY <2>1, <3>1, <3>3 DEF FreshInv, StaleOnlyWhenStoredLate, TypeOK, Version
    <3>5. ScanInv'
      BY <2>1, <3>1, <3>3 DEF FreshInv, ScanInv, TypeOK, Version, writerVars
    <3>. QED
      BY <3>1, <3>2, <3>4, <3>5 DEF FreshInv
  <2>. QED
    BY <2>2, <2>3 DEF TypeOK
<1>3. ASSUME NEW w \in Writers, NEW c \in Kinds, Commit(w, c), UNCHANGED history
      PROVE  FreshInv'
  <2>1. \A d \in Kinds : db'[d] \in Nat /\ db[d] <= db'[d]
    BY <1>3 DEF Commit, TypeOK, Version
  <2>2. /\ \A d \in Kinds : cleared'[d] <= db'[d]
        /\ \A i \in Invalidators, d \in Kinds : target'[i][d] <= db'[d]
    BY <1>3, <2>1 DEF history, FreshInv, TypeOK, Version
  <2>3. ScanInv'
    BY <1>3 DEF Commit, history, FreshInv, ScanInv, TypeOK, Invalidators
  <2>. QED
    BY <1>3, <2>2, <2>3 DEF Commit, history, FreshInv, StaleOnlyWhenStoredLate
<1>4. ASSUME NEW w \in Broadcasters, BroadcastRefresh(w), UNCHANGED history
      PROVE  FreshInv'
  <2>1. ScanInv'
    BY <1>4 DEF BroadcastRefresh, history, FreshInv, ScanInv, TypeOK, Invalidators
  <2>. QED
    BY <1>4, <2>1 DEF BroadcastRefresh, history, FreshInv, StaleOnlyWhenStoredLate
<1>5. ASSUME NEW w \in Invalidators, FreshInvalidation(w)
      PROVE  FreshInv'
  <2>1. CASE FreshStartScan(w)
    <3>1. target' \in [Invalidators -> [Kinds -> Version]]
      BY <2>1 DEF FreshStartScan, StartScan, FreshInv, TypeOK
    <3>2. \A i \in Invalidators, d \in Kinds : target'[i][d] <= db'[d]
      BY <2>1 DEF FreshStartScan, StartScan, FreshInv, TypeOK, Version
    <3>3. ScanInv'
      BY <2>1 DEF FreshStartScan, StartScan, KeysOf, FreshInv, ScanInv, TypeOK
    <3>. QED
      BY <2>1, <3>1, <3>2, <3>3 DEF FreshStartScan, StartScan, FreshInv, StaleOnlyWhenStoredLate
  <2>2. ASSUME NEW k \in Keys, ScanKey(w, k), UNCHANGED history
        PROVE  FreshInv'
    <3>1. ScanInv'
      BY <2>2 DEF ScanKey, history, FreshInv, ScanInv, TypeOK
    <3>. QED
      BY <2>2, <3>1 DEF ScanKey, history, FreshInv, StaleOnlyWhenStoredLate
  <2>3. CASE FreshDelete(w)
    <3>1. /\ redis' = [k \in Keys |-> IF k \in found[w] THEN None ELSE redis[k]]
          /\ late' = [k \in Keys |-> late[k] /\ k \notin found[w]]
          /\ cleared' = [c \in Kinds |->
                           IF c \in scope[w] /\ target[w][c] > cleared[c]
                           THEN target[w][c] ELSE cleared[c]]
          /\ wpc[w] = "scan" /\ toScan[w] = {}
          /\ target' = [target EXCEPT ![w] = [c \in Kinds |-> 0]]
          /\ UNCHANGED db
      BY <2>3 DEF FreshDelete, DeleteFound
    <3>2. /\ cleared' \in [Kinds -> Version]
          /\ \A c \in Kinds : cleared'[c] <= db[c]
      BY <3>1 DEF FreshInv, TypeOK, Version
    <3>t. /\ target' \in [Invalidators -> [Kinds -> Version]]
          /\ \A i \in Invalidators, d \in Kinds : target'[i][d] <= db'[d]
      BY <3>1 DEF FreshInv, TypeOK, Version
    <3>3. StaleOnlyWhenStoredLate'
      <4>1. SUFFICES ASSUME NEW k \in Keys, redis'[k] # None, ~late'[k]
                     PROVE  redis'[k] >= cleared'[KindOf[k]]
        BY DEF StaleOnlyWhenStoredLate
      <4>2. k \notin found[w] /\ redis'[k] = redis[k] /\ ~late[k] /\ redis[k] \in Version
        BY <3>1, <4>1 DEF TypeOK
      <4>3. redis[k] >= cleared[KindOf[k]]
        BY <4>1, <4>2 DEF FreshInv, StaleOnlyWhenStoredLate
      <4>4. KindOf[k] \in scope[w] => redis[k] >= target[w][KindOf[k]]
        BY <3>1, <4>1, <4>2 DEF FreshInv, ScanInv
      <4>5. /\ KindOf[k] \in Kinds
            /\ cleared'[KindOf[k]] = IF /\ KindOf[k] \in scope[w]
                                        /\ target[w][KindOf[k]] > cleared[KindOf[k]]
                                     THEN target[w][KindOf[k]] ELSE cleared[KindOf[k]]
        BY <3>1
      <4>. QED
        BY <4>2, <4>3, <4>4, <4>5
    <3>4. ScanInv'
      <4>1. SUFFICES ASSUME NEW i \in Invalidators, NEW k \in Keys,
                            wpc'[i] = "scan", KindOf[k] \in scope'[i],
                            k \notin toScan'[i], k \notin found'[i],
                            redis'[k] # None, ~late'[k]
                     PROVE  redis'[k] >= target'[i][KindOf[k]]
        BY DEF ScanInv
      <4>2. i # w
        BY <2>3, <4>1 DEF FreshDelete, DeleteFound, FinishInvalidation, TypeOK
      <4>3. /\ wpc[i] = "scan" /\ KindOf[k] \in scope[i]
            /\ k \notin toScan[i] /\ k \notin found[i]
        BY <2>3, <4>1, <4>2 DEF FreshDelete, DeleteFound, FinishInvalidation, TypeOK
      <4>4. redis'[k] = redis[k] /\ ~late[k] /\ target'[i] = target[i]
        BY <3>1, <4>1, <4>2 DEF FreshInv
      <4>. QED
        BY <4>1, <4>3, <4>4 DEF FreshInv, ScanInv
    <3>l. late' \in [Keys -> BOOLEAN]
      BY <3>1 DEF FreshInv
    <3>. QED
      BY <3>1, <3>2, <3>t, <3>3, <3>4, <3>l DEF FreshInv
  <2>4. CASE FreshAbandon(w)
    <3>1. /\ target' = [target EXCEPT ![w] = [c \in Kinds |-> 0]]
          /\ UNCHANGED <<cleared, late, db, redis>>
      BY <2>4 DEF FreshAbandon, InvalidationFails
    <3>2. target' \in [Invalidators -> [Kinds -> Version]]
      BY <3>1 DEF FreshInv, Version
    <3>3. \A i \in Invalidators, d \in Kinds : target'[i][d] <= db[d]
      BY <3>1 DEF FreshInv, TypeOK, Version
    <3>4. ScanInv'
      BY <2>4, <3>1
         DEF FreshAbandon, InvalidationFails, FinishInvalidation, FreshInv, ScanInv, TypeOK
    <3>. QED
      BY <3>1, <3>2, <3>3, <3>4 DEF FreshInv, StaleOnlyWhenStoredLate
  <2>. QED
    BY <1>5, <2>1, <2>2, <2>3, <2>4 DEF FreshInvalidation
<1>6. ASSUME NEW k \in Keys, FreshExpire(k)
      PROVE  FreshInv'
  BY <1>6 DEF FreshExpire, Expire, writerVars, FreshInv, StaleOnlyWhenStoredLate, ScanInv, TypeOK
<1>7. CASE (Outage \/ Recover) /\ UNCHANGED history
  BY <1>7 DEF Outage, Recover, history, writerVars, FreshInv, StaleOnlyWhenStoredLate, ScanInv
<1>. QED
  BY <1>1, <1>2, <1>3, <1>4, <1>5, <1>6, <1>7, FreshCases

\* After an invalidation has completed, only a fill that was already outdated
\* when it reached Redis leaves an entry older than what was invalidated.
THEOREM StaleOnlyWhenStoredLateCorrect == FreshSpec => []StaleOnlyWhenStoredLate
<1>1. FreshInit /\ Init => TypeOK /\ FreshInv
  BY TypeInit, FreshInvInit
<1>2. TypeOK /\ FreshInv /\ [FreshNext]_fvars => (TypeOK /\ FreshInv)'
  BY TypeStep, FreshInvStep, FreshNextRefines
<1>3. TypeOK /\ FreshInv => StaleOnlyWhenStoredLate
  BY DEF FreshInv
<1>4. FreshInit => Init
  BY DEF FreshInit
<1>. QED
  BY <1>1, <1>2, <1>3, <1>4, PTL DEF FreshSpec

-----------------------------------------------------------------------------

\* What makes OneRebuildPerMiss inductive beside FlightInv: the type of blind.
RebuildInv == blind \in [Threads -> BOOLEAN] /\ OneRebuildPerMiss

LEMMA RebuildStep == TypeOK /\ FlightInv /\ RebuildInv /\ [FreshNext]_fvars => RebuildInv'
<1> SUFFICES ASSUME TypeOK, FlightInv, RebuildInv, [FreshNext]_fvars
             PROVE  RebuildInv'
  OBVIOUS
<1>k. \A t \in Threads : pc[t] # "idle" => Key(t) \in Keys /\ plan[t] # <<>>
  BY CurrentKey DEF TypeOK, Key
<1>1. ASSUME NEW t \in Threads, FreshRecheck(t)
      PROVE  RebuildInv'
  <2>1. blind' \in [Threads -> BOOLEAN]
    BY <1>1 DEF FreshRecheck, RebuildInv, TypeOK
  <2>2. pc'[t] = "build" /\ ~blind'[t] => redis[Key(t)] = None
    BY <1>1 DEF FreshRecheck, Recheck, CacheGet, RebuildInv, TypeOK
  <2>3. pc'[t] # "store"
    BY <1>1 DEF FreshRecheck, Recheck, TypeOK
  <2>4. OneRebuildPerMiss'
    BY <1>1, <2>2, <2>3
       DEF FreshRecheck, Recheck, OneRebuildPerMiss, RebuildInv, TypeOK, Key
  <2>. QED
    BY <2>1, <2>4 DEF RebuildInv
<1>2. ASSUME NEW t \in Threads, FreshStore(t)
      PROVE  RebuildInv'
  <2>1. Leads(t, Key(t))
    BY <1>2, <1>k DEF FreshStore, Store, Leads, LeaderSteps
  <2>2. \A u \in Threads \ {t} : pc[u] \in {"build", "store"} => Key(u) # Key(t)
    BY <1>2, <2>1, <1>k DEF FreshStore, Store, FlightInv, FlightTableExact, Leads, LeaderSteps
  <2>. QED
    BY <1>2, <1>k, <2>2
       DEF FreshStore, Store, RebuildInv, OneRebuildPerMiss, TypeOK, Key
<1>3. ASSUME NEW t \in Threads, FreshReturn(t)
      PROVE  RebuildInv'
  <2>1. pc[t] # "idle" /\ plan[t] # <<>> /\ \E r : Return(t, r)
    BY <1>3, <1>k DEF FreshReturn, Wake, Clean
  <2>2. /\ pc' = [pc EXCEPT ![t] = pc'[t]]
        /\ pc'[t] \in {"idle", "open"}
        /\ \A u \in Threads \ {t} : plan'[u] = plan[u]
    BY <2>1, ReturnType
  <2>. QED
    BY <1>3, <2>2
       DEF FreshReturn, Wake, Clean, RebuildInv, OneRebuildPerMiss, TypeOK, Key
<1>4. ASSUME NEW t \in Threads, UNCHANGED history,
             Begin(t) \/ Lead(t) \/ Join(t) \/ Build(t) \/ BuildFails(t) \/ Settle(t)
      PROVE  RebuildInv'
  BY <1>4 DEF history, Begin, Lead, Join, Build, BuildFails, Settle,
              RebuildInv, OneRebuildPerMiss, TypeOK, Key
<1>5. ASSUME NEW t \in Threads, Hit(t), UNCHANGED history
      PROVE  RebuildInv'
  <2>1. plan[t] # <<>> /\ \E r : Return(t, r)
    BY <1>5, <1>k DEF Hit
  <2>2. /\ pc' = [pc EXCEPT ![t] = pc'[t]]
        /\ pc'[t] \in {"idle", "open"}
        /\ \A u \in Threads \ {t} : plan'[u] = plan[u]
    BY <2>1, ReturnType
  <2>. QED
    BY <1>5, <2>2 DEF history, Hit, RebuildInv, OneRebuildPerMiss, TypeOK, Key
<1>6. ASSUME NEW t \in Threads, FreshMiss(t)
      PROVE  RebuildInv'
  BY <1>6 DEF FreshMiss, Miss, RebuildInv, OneRebuildPerMiss, TypeOK, Key
<1>7. ASSUME UNCHANGED <<pc, plan, blind>>,
             \A k \in Keys : redis'[k] = redis[k] \/ redis'[k] = None
      PROVE  RebuildInv'
  BY <1>7, <1>k DEF RebuildInv, OneRebuildPerMiss, Key
<1>8. ASSUME Background, UNCHANGED blind
      PROVE  RebuildInv'
  <2>1. \A k \in Keys : redis'[k] = redis[k] \/ redis'[k] = None
    BY <1>8 DEF Background, Commit, BroadcastRefresh, InvalidationStep, StartScan, ScanKey,
         DeleteFound, InvalidationFails, Environment, Expire, Outage, Recover, TypeOK
  <2>. QED
    BY <1>7, <1>8, <2>1, BackgroundSkipsReaders DEF readerVars
<1>9. CASE UNCHANGED fvars
  BY <1>7, <1>9 DEF fvars, vars, readerVars, history
<1>10. \/ \E t \in Threads : FreshRecheck(t) \/ FreshStore(t) \/ FreshReturn(t) \/ FreshMiss(t)
       \/ \E t \in Threads : Hit(t) /\ UNCHANGED history
       \/ \E t \in Threads :
            /\ Begin(t) \/ Lead(t) \/ Join(t) \/ Build(t) \/ BuildFails(t) \/ Settle(t)
            /\ UNCHANGED history
       \/ Background /\ UNCHANGED blind
       \/ UNCHANGED fvars
  BY DEF FreshNext, OtherStep, FreshStartScan, FreshDelete, FreshAbandon, FreshExpire,
         Background, InvalidationStep, Environment, history
<1>. QED
  BY <1>1, <1>2, <1>3, <1>4, <1>5, <1>6, <1>8, <1>9, <1>10

\* Between a leader's second look at Redis and its cache_set nobody fills the
\* key, so every disappearance of an entry costs at most one rebuild.
THEOREM OneRebuildPerMissCorrect == FreshSpec => []OneRebuildPerMiss
<1>1. FreshInit => RebuildInv
  BY DEF FreshInit, Init, RebuildInv, OneRebuildPerMiss
<1>2. RebuildInv => OneRebuildPerMiss
  BY DEF RebuildInv
<1>. QED
  BY <1>1, <1>2, RebuildStep, FlightInvariant, HistoryOnlyObserves, PTL DEF FreshSpec

=============================================================================
