--------------------------- MODULE BroadcastProofs ---------------------------
(***************************************************************************)
(* Proofs about Broadcast, for any connections, records and times and any  *)
(* number of commits.                                                      *)
(***************************************************************************)
EXTENDS Broadcast, FiniteSetTheorems, TLAPS

\* Sending fails only to a connection that does not work any more.
StaleAreDead == \A c \in stale : ~Live(c)

\* Only connections that have been registered are sent to.
WereRegistered == \A c \in registered \cup todo \cup stale : conn[c] \in {"open", "ended"}

IInv == TypeOK /\ LiveIsRegistered /\ StaleAreDead /\ WereRegistered

LEMMA VersionType == TypeOK => DataVersion \in Versions
<1> SUFFICES ASSUME TypeOK PROVE DataVersion \in Versions
  OBVIOUS
<1>1. IsFiniteSet(Rows)
  BY ConnAssumption, FS_Subset DEF Rows
<1>2. Cardinality(Rows) \in Nat
  BY <1>1, FS_CardinalityType
<1>3. logs \in Nat /\ NewestTime \in SUBSET Times
  BY ChangeAssumption DEF TypeOK, NewestTime
<1>. QED
  BY <1>2, <1>3 DEF DataVersion, Versions

LEMMA InitInv == Init => IInv
  BY ChangeAssumption DEF Init, IInv, TypeOK, LiveIsRegistered, StaleAreDead, WereRegistered, Live

\* The bookkeeping of a broadcast.
LEMMA ContinueKeeps ==
  ASSUME IInv, NEW rest \in SUBSET (registered \cup todo),
         NEW failed \in SUBSET (todo \cup stale), \A c \in failed : ~Live(c),
         NEW read \in Versions \cup {None}, Continue(rest, failed, read), UNCHANGED <<conn, here>>
  PROVE  /\ loop' \in {"asleep", "sending"} /\ (loop' = "asleep" <=> todo' = {})
         /\ todo' \subseteq Conns /\ stale' \subseteq Conns /\ registered' \subseteq Conns
         /\ last' \in Versions \cup {None}
         /\ LiveIsRegistered' /\ StaleAreDead' /\ WereRegistered'
<1>1. CASE rest # {}
  BY <1>1 DEF Continue, IInv, TypeOK, LiveIsRegistered, StaleAreDead, WereRegistered, Live
<1>2. CASE rest = {}
  BY <1>2 DEF Continue, IInv, TypeOK, LiveIsRegistered, StaleAreDead, WereRegistered, Live
<1>. QED
  BY <1>1, <1>2

LEMMA FetchInv == IInv /\ Fetch => IInv'
<1> SUFFICES ASSUME IInv, Fetch PROVE IInv'
  OBVIOUS
<1>1. version' \in Versions
  BY VersionType DEF IInv, Fetch
<1>2. CASE last # None /\ version' # last
  <2>1. /\ Continue(registered, {}, version') /\ UNCHANGED <<conn, here>>
        /\ registered \in SUBSET (registered \cup todo)
    BY <1>2 DEF Fetch, browsers, IInv, TypeOK
  <2>2. /\ loop' \in {"asleep", "sending"} /\ (loop' = "asleep" <=> todo' = {})
        /\ todo' \subseteq Conns /\ stale' \subseteq Conns /\ registered' \subseteq Conns
        /\ last' \in Versions \cup {None}
        /\ LiveIsRegistered' /\ StaleAreDead' /\ WereRegistered'
    BY <1>1, <2>1, ContinueKeeps
  <2>. QED
    BY <1>1, <2>2 DEF Fetch, db, browsers, IInv, TypeOK
<1>3. CASE ~(last # None /\ version' # last)
  BY <1>1, <1>3 DEF Fetch, db, browsers, IInv, TypeOK, LiveIsRegistered, StaleAreDead, WereRegistered, Live
<1>. QED
  BY <1>2, <1>3

LEMMA SendInv == ASSUME IInv, NEW c \in Conns, Send(c) PROVE IInv'
<1>1. UNCHANGED <<db, version, conn, here, shows>> /\ event' \in [Conns -> BOOLEAN]
  BY DEF Send, IInv, TypeOK
<1>2. ASSUME NEW failed \in SUBSET (todo \cup stale), \A d \in failed : ~Live(d),
             Continue(todo \ {c}, failed, version)
      PROVE  IInv'
  <2>1. /\ loop' \in {"asleep", "sending"} /\ (loop' = "asleep" <=> todo' = {})
        /\ todo' \subseteq Conns /\ stale' \subseteq Conns /\ registered' \subseteq Conns
        /\ last' \in Versions \cup {None}
        /\ LiveIsRegistered' /\ StaleAreDead' /\ WereRegistered'
    <3>1. todo \ {c} \in SUBSET (registered \cup todo) /\ version \in Versions \cup {None}
      BY DEF IInv, TypeOK
    <3>. QED
      BY <1>1, <1>2, <3>1, ContinueKeeps
  <2>. QED
    BY <1>1, <2>1 DEF db, IInv, TypeOK
<1>3. c \in todo /\ \A d \in stale : ~Live(d)
  BY DEF Send, IInv, StaleAreDead
<1>4. CASE Continue(todo \ {c}, stale, version)
  BY <1>2, <1>3, <1>4
<1>5. CASE (conn[c] = "ended" \/ ~here[c]) /\ Continue(todo \ {c}, stale \cup {c}, version)
  BY <1>2, <1>3, <1>5 DEF Live
<1>. QED
  BY <1>4, <1>5 DEF Send

LEMMA StepInv == IInv /\ [Next]_vars => IInv'
<1> SUFFICES ASSUME IInv, [Next]_vars PROVE IInv'
  OBVIOUS
<1> USE DEF IInv, TypeOK, LiveIsRegistered, StaleAreDead, WereRegistered, Live, db, task, endpoints, browsers
<1>1. CASE \E r \in Records, t \in Times \cup {0} : Report(r, t)
  BY <1>1, ChangeAssumption DEF Report
<1>2. CASE Log
  <2>1. logs' \in 0 .. change'
    BY <1>2, ChangeAssumption DEF Log
  <2>. QED
    BY <1>2, <2>1, ChangeAssumption DEF Log
<1>3. CASE Fetch
  BY <1>3, FetchInv
<1>4. CASE \E c \in Conns : Send(c)
  BY <1>4, SendInv
<1>5. ASSUME NEW c \in Conns, Accept(c) PROVE IInv'
  BY <1>5 DEF Accept
<1>6. ASSUME NEW c \in Conns, Register(c) PROVE IInv'
  <2>1. UNCHANGED <<db, task, here, shows>>
    BY <1>6 DEF Register
  <2>2. CASE /\ conn' = [conn EXCEPT ![c] = "open"]
             /\ registered' = registered \cup {c}
             /\ event' = [event EXCEPT ![c] = here[c]]
    <3>1. event' \in [Conns -> BOOLEAN]
      BY <2>2
    <3>2. /\ conn' \in [Conns -> {"new", "accepted", "open", "ended"}]
          /\ registered' \subseteq Conns
          /\ \A d \in Conns \ {c} : conn'[d] = conn[d]
          /\ c \in registered'
      BY <2>2
    <3>3. LiveIsRegistered'
      BY <2>1, <2>2, <3>2
    <3>4. conn[c] = "accepted"
      BY <1>6 DEF Register
    <3>5. c \notin registered \cup todo \cup stale
      BY <3>4
    <3>6. StaleAreDead'
      BY <2>1, <3>2, <3>5
    <3>7. WereRegistered'
      <4>1. conn'[c] = "open"
        BY <2>2
      <4>. QED
        BY <2>1, <2>2, <3>2, <4>1
    <3>. QED
      BY <2>1, <3>1, <3>2, <3>3, <3>6, <3>7
  <2>3. CASE /\ ~here[c] /\ conn' = [conn EXCEPT ![c] = "ended"]
             /\ UNCHANGED <<registered, event>>
    BY <2>1, <2>3
  <2>. QED
    BY <1>6, <2>2, <2>3 DEF Register
<1>7. ASSUME NEW c \in Conns, Disconnect(c) PROVE IInv'
  BY <1>7 DEF Disconnect
<1>8. ASSUME NEW c \in Conns, EndpointFails(c) PROVE IInv'
  BY <1>8 DEF EndpointFails
<1>9. ASSUME NEW c \in Conns, Leave(c) PROVE IInv'
  BY <1>9 DEF Leave
<1>10. ASSUME NEW c \in Conns, Load(c) PROVE IInv'
  BY <1>10, VersionType DEF Load
<1>11. CASE UNCHANGED vars
  BY <1>11 DEF vars
<1>. QED
  BY <1>1, <1>2, <1>3, <1>4, <1>5, <1>6, <1>7, <1>8, <1>9, <1>10, <1>11 DEF Next, Endpoint

LEMMA InvCorrect == Spec => []IInv
  BY InitInv, StepInv, PTL DEF Spec

\* Every reachable state is well typed; in particular the loop never waits for
\* sends that are not there (ws_manager.py:42-52, 93-111).
THEOREM TypeCorrect == Spec => []TypeOK
<1>1. IInv => TypeOK
  BY DEF IInv
<1>. QED
  BY <1>1, InvCorrect, PTL

\* A connection that works is in the set (ws_manager.py:34-52,
\* ws_route.py:11-22).
THEOREM LiveIsRegisteredCorrect == Spec => []LiveIsRegistered
<1>1. IInv => LiveIsRegistered
  BY DEF IInv
<1>. QED
  BY <1>1, InvCorrect, PTL

=============================================================================
