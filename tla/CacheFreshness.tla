--------------------------- MODULE CacheFreshness ---------------------------
(***************************************************************************)
(* SingleFlightCache with history variables that date what is cached and   *)
(* what is answered against the invalidations that have completed.  The    *)
(* history constrains nothing: every step is a step of SingleFlightCache.  *)
(***************************************************************************)
EXTENDS SingleFlightCache

VARIABLES
  cleared,  \* per kind, the newest version a completed invalidation covers
  target,   \* per invalidation, the versions committed when its SCAN began
  late,     \* per key, whether the entry was already outdated when stored
  floor,    \* per thread, cleared of the key's kind when its call began
  blind     \* per leader, whether Redis was unreachable at its second read

history == <<cleared, target, late, floor, blind>>
fvars == <<vars, history>>

FreshInit ==
  /\ Init
  /\ cleared = [c \in Kinds |-> 0]
  /\ target = [w \in Invalidators |-> [c \in Kinds |-> 0]]
  /\ late = [k \in Keys |-> FALSE]
  /\ floor = [t \in Threads |-> 0]
  /\ blind = [t \in Threads |-> FALSE]

-----------------------------------------------------------------------------

\* A call that misses: it should see what invalidations have cleared by now.
FreshMiss(t) ==
  /\ Miss(t)
  /\ floor' = [floor EXCEPT ![t] = cleared[KindOf[Key(t)]]]
  /\ UNCHANGED <<cleared, target, late, blind>>

\* A call that missed returns.
FreshReturn(t) ==
  /\ Wake(t) \/ Clean(t)
  /\ floor' = [floor EXCEPT ![t] = 0]
  /\ blind' = [blind EXCEPT ![t] = FALSE]
  /\ UNCHANGED <<cleared, target, late>>

FreshRecheck(t) ==
  /\ Recheck(t)
  /\ blind' = [blind EXCEPT ![t] = ~up]
  /\ UNCHANGED <<cleared, target, late, floor>>

\* The entry is late when its kind has moved on since the build read it.
FreshStore(t) ==
  /\ Store(t)
  /\ late' = IF up
             THEN [late EXCEPT ![Key(t)] = draft[t] # db[KindOf[Key(t)]]]
             ELSE late
  /\ UNCHANGED <<cleared, target, floor, blind>>

FreshStartScan(w) ==
  /\ StartScan(w)
  /\ target' = [target EXCEPT ![w] = db]
  /\ UNCHANGED <<cleared, late, floor, blind>>

FreshDelete(w) ==
  /\ DeleteFound(w)
  /\ cleared' = [c \in Kinds |->
                   IF c \in scope[w] /\ target[w][c] > cleared[c]
                   THEN target[w][c] ELSE cleared[c]]
  /\ late' = [k \in Keys |-> late[k] /\ k \notin found[w]]
  /\ target' = [target EXCEPT ![w] = [c \in Kinds |-> 0]]
  /\ UNCHANGED <<floor, blind>>

FreshAbandon(w) ==
  /\ InvalidationFails(w)
  /\ target' = [target EXCEPT ![w] = [c \in Kinds |-> 0]]
  /\ UNCHANGED <<cleared, late, floor, blind>>

FreshExpire(k) ==
  /\ Expire(k)
  /\ late' = [late EXCEPT ![k] = FALSE]
  /\ UNCHANGED <<cleared, target, floor, blind>>

\* The steps that leave the history alone.
OtherStep ==
  /\ \/ \E t \in Threads :
          \/ Begin(t) \/ Hit(t) \/ Lead(t) \/ Join(t)
          \/ Build(t) \/ BuildFails(t) \/ Settle(t)
     \/ \E w \in Writers, c \in Kinds : Commit(w, c)
     \/ \E w \in Broadcasters : BroadcastRefresh(w)
     \/ \E w \in Invalidators, k \in Keys : ScanKey(w, k)
     \/ Outage
     \/ Recover
  /\ UNCHANGED history

FreshNext ==
  \/ \E t \in Threads : FreshMiss(t) \/ FreshReturn(t) \/ FreshRecheck(t) \/ FreshStore(t)
  \/ \E w \in Invalidators : FreshStartScan(w) \/ FreshDelete(w) \/ FreshAbandon(w)
  \/ \E k \in Keys : FreshExpire(k)
  \/ OtherStep

FreshSpec == FreshInit /\ [][FreshNext]_fvars

-----------------------------------------------------------------------------
(* Properties.                                                             *)

\* Committing before invalidating works as far as it can: once an
\* invalidation has completed, an entry older than the versions it covered
\* can only have been stored late, by a leader that read MySQL before the
\* commit and reached cache_set after it.  No other interleaving of SCAN,
\* DELETE, TTL, outages, several invalidations and fills leaves one behind.
StaleOnlyWhenStoredLate ==
  \A k \in Keys :
    redis[k] # None /\ ~late[k] => redis[k] >= cleared[KindOf[k]]

\* A leader that could read Redis at its second check never overwrites an
\* entry: between that check and its cache_set nobody else fills the key, so
\* one disappearance of an entry costs at most one rebuild.
OneRebuildPerMiss ==
  \A t \in Threads :
    pc[t] \in {"build", "store"} /\ ~blind[t] => redis[Key(t)] = None

\* A call that begins after an invalidation has completed returns data at
\* least as new as what that invalidation covered.  tests/test_cache.py:240
\* says that an invalidation makes the next query read the new state, and
\* ws_manager.py:63 that the invalidation before a broadcast closes the race.
NextQueryReadsNewState ==
  [][\A t \in Threads :
       /\ Hit(t) => redis[Key(t)] >= cleared[KindOf[Key(t)]]
       /\ Wake(t) /\ future[t] # Failed => future[t] >= floor[t]
       /\ Clean(t) /\ draft[t] # Failed => draft[t] >= floor[t]]_fvars

=============================================================================
