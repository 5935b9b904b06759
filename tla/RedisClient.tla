---------------------------- MODULE RedisClient ----------------------------
(***************************************************************************)
(* The Redis client the whole service process shares: the globals _client  *)
(* and _retry_after of app/utils/cache.py, read and written by every       *)
(* thread that uses the cache, with no lock.                               *)
(*                                                                         *)
(*   client    _client is set;                                             *)
(*   cooling   now < _retry_after.  It is set by a failed probe and lapses *)
(*             30 seconds later; the clock is left out.                    *)
(*                                                                         *)
(* A call of get_redis_client() returns at once what is settled, or probes *)
(* Redis: the caller then waits for the ping (the caller's own location,   *)
(* kept by the module that extends this one) and writes the globals when   *)
(* its answer arrives, whatever other threads wrote meanwhile.             *)
(***************************************************************************)

VARIABLES client, cooling

redisVars == <<client, cooling>>

RedisTypeOK == client \in BOOLEAN /\ cooling \in BOOLEAN

RedisInit == client = FALSE /\ cooling = FALSE

(* A call returns the client, or None during the pause, without a probe.   *)
Settled == client \/ cooling

\* Mutant of PingAnswers: the caller keeps the client for itself.
PingAnswersUnshared == UNCHANGED redisVars

(* The ping answered: the caller's connection becomes the shared client.   *)
PingAnswers ==
  /\ client' = TRUE
  /\ UNCHANGED cooling

(* The ping failed: the client is reset, also one another thread set since *)
(* this probe began, and the pause starts.                                 *)
PingFails ==
  /\ client' = FALSE
  /\ cooling' = TRUE

\* Mutant of PauseEnds: the pause ends for a caller that has a client.
PauseEndsWithClient ==
  /\ cooling /\ client
  /\ cooling' = FALSE
  /\ UNCHANGED client

(* The 30 seconds since the failed probe are over.                         *)
PauseEnds ==
  /\ cooling
  /\ cooling' = FALSE
  /\ UNCHANGED client

=============================================================================
