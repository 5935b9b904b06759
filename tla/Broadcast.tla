------------------------------ MODULE Broadcast ------------------------------
(***************************************************************************)
(* Telling the browsers that data have changed: ConnectionManager,         *)
(* fetch_data_version and broadcast_loop of app/services/ws_manager.py and *)
(* the endpoint /ws/monitor of app/routes/ws_route.py, all of them         *)
(* coroutines of one event loop.  A step is what runs from one await to    *)
(* the next.                                                               *)
(*                                                                         *)
(* The data are those of the current day.  A page loads them when it gets  *)
(* an event; that it also polls, and how it loads, is the subject of       *)
(* Dashboard, and how old the cache may be that of CacheFreshness.         *)
(***************************************************************************)
EXTENDS Naturals, FiniteSets

CONSTANTS
  Conns,      \* WebSocket connections, each used once
  Records,    \* keys of ops_state
  Times,      \* update_time, as the producers set it
  None,       \* no row, no version yet, nothing loaded yet
  MaxChanges  \* bound on the number of commits

ASSUME TimeAssumption == Times \subseteq Nat \ {0} /\ None \notin Nat
ASSUME ConnAssumption == IsFiniteSet(Conns) /\ IsFiniteSet(Records)
ASSUME ChangeAssumption == MaxChanges \in Nat

VARIABLES
  change,     \* the number of commits: tells contents of the database apart
  times,      \* update_time of each row of ops_state, 0 when it is NULL
  logs,       \* the newest log_id
  loop,       \* broadcast_loop: asleep, or sending
  last,       \* last_version
  version,    \* the version the loop has read most recently
  todo,       \* broadcast: the connections still to be sent to
  stale,      \* and those that sending to failed
  registered, \* _connections
  conn,       \* the endpoint of each connection
  here,       \* whether the browser still has the connection
  event,      \* whether a hello or refresh is on its way to the page
  shows       \* what the page has loaded last

db == <<change, times, logs>>
task == <<loop, last, version, todo, stale>>
endpoints == <<registered, conn>>
browsers == <<here, event, shows>>
vars == <<db, task, endpoints, browsers>>

Rows == {r \in Records : times[r] # None}

\* MAX(update_time): NULL times are skipped, {} when there is no other.
NewestTime ==
  {t \in Times : /\ \E r \in Rows : times[r] = t
                 /\ \A r \in Rows : times[r] <= t}

\* fetch_data_version.  The newest log time is left out: logs are only added,
\* and each has a log_id of its own.
DataVersion == [log |-> logs, time |-> NewestTime, count |-> Cardinality(Rows)]

Versions == [log : Nat, time : SUBSET Times, count : Nat]

TypeOK ==
  /\ change \in 0 .. MaxChanges
  /\ times \in [Records -> Times \cup {0, None}]
  /\ logs \in 0 .. change
  /\ loop \in {"asleep", "sending"}
  /\ last \in Versions \cup {None} /\ version \in Versions \cup {None}
  /\ todo \subseteq Conns /\ stale \subseteq Conns
  /\ loop = "asleep" <=> todo = {}
  /\ registered \subseteq Conns
  /\ conn \in [Conns -> {"new", "accepted", "open", "ended"}]
  /\ here \in [Conns -> BOOLEAN] /\ event \in [Conns -> BOOLEAN]
  /\ shows \in [Conns -> [change : 0 .. MaxChanges, version : Versions] \cup {None}]

Init ==
  /\ change = 0 /\ times = [r \in Records |-> None] /\ logs = 0
  /\ loop = "asleep" /\ last = None /\ version = None
  /\ todo = {} /\ stale = {}
  /\ registered = {} /\ conn = [c \in Conns |-> "new"]
  /\ here = [c \in Conns |-> FALSE]
  /\ event = [c \in Conns |-> FALSE]
  /\ shows = [c \in Conns |-> None]

-----------------------------------------------------------------------------
(* Commits of the consumer.                                                *)

Report(r, t) ==
  /\ change < MaxChanges /\ change' = change + 1
  /\ times' = [times EXCEPT ![r] = t]
  /\ UNCHANGED <<logs, task, endpoints, browsers>>

Log ==
  /\ change < MaxChanges /\ change' = change + 1
  /\ logs' = logs + 1
  /\ UNCHANGED <<times, task, endpoints, browsers>>

-----------------------------------------------------------------------------
(* broadcast_loop.                                                         *)

\* Mutant of Continue: the version is read once more after the broadcast.
ContinueAndRead(rest, failed, read) ==
  /\ todo' = rest
  /\ IF rest # {}
     THEN /\ loop' = "sending" /\ stale' = failed
          /\ UNCHANGED <<last, registered>>
     ELSE /\ loop' = "asleep" /\ stale' = {}
          /\ last' = DataVersion
          /\ registered' = registered \ failed

\* Mutant of Continue: connections that failed stay in the set.
ContinueKeeping(rest, failed, read) ==
  /\ todo' = rest
  /\ IF rest # {}
     THEN /\ loop' = "sending" /\ stale' = failed
          /\ UNCHANGED <<last, registered>>
     ELSE /\ loop' = "asleep" /\ stale' = {}
          /\ last' = read
          /\ UNCHANGED registered

\* On with the broadcast when some connections are left; else the failed ones
\* are dropped, the version read before is remembered and the loop sleeps.
Continue(rest, failed, read) ==
  /\ todo' = rest
  /\ IF rest # {}
     THEN /\ loop' = "sending" /\ stale' = failed
          /\ UNCHANGED <<last, registered>>
     ELSE /\ loop' = "asleep" /\ stale' = {}
          /\ last' = read
          /\ registered' = registered \ failed

\* Mutant of Fetch: a broadcast that nobody listens to waits for its sends.
FetchAndSend ==
  /\ loop = "asleep"
  /\ version' = DataVersion
  /\ IF last # None /\ version' # last
     THEN loop' = "sending" /\ todo' = registered /\ UNCHANGED <<last, stale>>
     ELSE last' = version' /\ UNCHANGED <<loop, todo, stale>>
  /\ UNCHANGED <<db, endpoints, browsers>>

\* The loop wakes up and reads the version.  The first one only sets the base
\* line.  A database that does not answer leaves everything as it was.
Fetch ==
  /\ loop = "asleep"
  /\ version' = DataVersion
  /\ IF last # None /\ version' # last
     THEN Continue(registered, {}, version')
     ELSE last' = version' /\ UNCHANGED <<loop, todo, stale, registered>>
  /\ UNCHANGED <<db, conn, browsers>>

\* Mutant of Send: a connection that takes too long counts as failed.
SendOrGiveUp(c) ==
  /\ loop = "sending" /\ c \in todo
  /\ \/ /\ conn[c] = "open" /\ here[c]
        /\ event' = [event EXCEPT ![c] = TRUE]
        /\ Continue(todo \ {c}, stale, version)
     \/ /\ UNCHANGED event
        /\ Continue(todo \ {c}, stale \cup {c}, version)
  /\ UNCHANGED <<db, version, conn, here, shows>>

\* send_json reaches the browser, or disappears when the browser is gone and
\* nobody has noticed, or fails.
Send(c) ==
  /\ loop = "sending" /\ c \in todo
  /\ \/ /\ conn[c] = "open" /\ here[c]
        /\ event' = [event EXCEPT ![c] = TRUE]
        /\ Continue(todo \ {c}, stale, version)
     \/ /\ conn[c] = "open" /\ ~here[c]
        /\ UNCHANGED event
        /\ Continue(todo \ {c}, stale, version)
     \/ /\ conn[c] = "ended" \/ ~here[c]
        /\ UNCHANGED event
        /\ Continue(todo \ {c}, stale \cup {c}, version)
  /\ UNCHANGED <<db, version, conn, here, shows>>

-----------------------------------------------------------------------------
(* monitor_websocket.                                                      *)

\* accept(), up to its await.
Accept(c) ==
  /\ conn[c] = "new"
  /\ conn' = [conn EXCEPT ![c] = "accepted"]
  /\ here' = [here EXCEPT ![c] = TRUE]
  /\ UNCHANGED <<db, task, registered, event, shows>>

\* The connection is added and sent a hello; when that fails it is removed.
Register(c) ==
  /\ conn[c] = "accepted"
  /\ \/ /\ conn' = [conn EXCEPT ![c] = "open"]
        /\ registered' = registered \cup {c}
        /\ event' = [event EXCEPT ![c] = here[c]]
     \/ /\ ~here[c]
        /\ conn' = [conn EXCEPT ![c] = "ended"]
        /\ UNCHANGED <<registered, event>>
  /\ UNCHANGED <<db, task, here, shows>>

\* WebSocketDisconnect from receive_text or from the pong.
Disconnect(c) ==
  /\ conn[c] = "open" /\ ~here[c]
  /\ conn' = [conn EXCEPT ![c] = "ended"]
  /\ registered' = registered \ {c}
  /\ UNCHANGED <<db, task, browsers>>

\* Any other exception ends the endpoint and closes the connection, which
\* stays in the set.
EndpointFails(c) ==
  /\ conn[c] = "open"
  /\ conn' = [conn EXCEPT ![c] = "ended"]
  /\ here' = [here EXCEPT ![c] = FALSE]
  /\ event' = [event EXCEPT ![c] = FALSE]
  /\ UNCHANGED <<db, task, registered, shows>>

-----------------------------------------------------------------------------
(* The browser.                                                            *)

\* The browser closes the connection, or the network loses it.
Leave(c) ==
  /\ here[c]
  /\ here' = [here EXCEPT ![c] = FALSE]
  /\ event' = [event EXCEPT ![c] = FALSE]
  /\ UNCHANGED <<db, task, endpoints, shows>>

\* The page gets the event and loads the data.
Load(c) ==
  /\ event[c]
  /\ event' = [event EXCEPT ![c] = FALSE]
  /\ shows' = [shows EXCEPT ![c] = [change |-> change, version |-> DataVersion]]
  /\ UNCHANGED <<db, task, endpoints, here>>

-----------------------------------------------------------------------------

Endpoint(c) == Register(c) \/ Disconnect(c) \/ EndpointFails(c)

Next ==
  \/ \E r \in Records, t \in Times \cup {0} : Report(r, t)
  \/ Log
  \/ Fetch
  \/ \E c \in Conns : Send(c) \/ Accept(c) \/ Endpoint(c) \/ Leave(c) \/ Load(c)

Spec == Init /\ [][Next]_vars

\* The loop wakes up every two seconds and the database answers some time; a
\* send ends, because the server drops a connection that does not take data;
\* an event that has been sent is handled.
Fairness ==
  /\ WF_vars(Fetch)
  /\ WF_vars(\E c \in Conns : Send(c))
  /\ \A c \in Conns : WF_vars(Load(c))

FairSpec == Spec /\ Fairness

-----------------------------------------------------------------------------
(* Properties.                                                             *)

Live(c) == conn[c] = "open" /\ here[c]

\* A connection that works is in the set, whatever broadcasts and departures
\* of others happen at the awaits: it can be reached by every broadcast.
LiveIsRegistered == \A c \in Conns : Live(c) => c \in registered

\* The page has loaded data of the version v.
HasVersion(c, v) == shows[c] # None /\ shows[c].version = v

\* The version the connection has been told of, if only by what it loaded.
Announced(c) == IF c \in todo THEN last ELSE version

\* A change that the version tells from what was announced reaches every page
\* that stays connected, also when more commits, connections and failures come
\* in the middle of the broadcast.
VersionChangePushed ==
  \A c \in Conns :
    Live(c) /\ HasVersion(c, Announced(c)) /\ DataVersion # Announced(c) ~>
      ~Live(c) \/ HasVersion(c, DataVersion)

\* A broadcast comes to an end, and drops the connections whose endpoint ended
\* without removing them.
DeadAreDropped ==
  \A c \in Conns : conn[c] = "ended" /\ c \in todo ~> c \notin registered

\* The page has loaded the newest data.
IsCurrent(c) == shows[c] # None /\ shows[c].change = change

\* "Whenever data change, tell the page to refresh" (ws_manager.py:4).
EveryChangePushed ==
  \A c \in Conns :
    Live(c) /\ HasVersion(c, Announced(c)) /\ ~IsCurrent(c) ~> ~Live(c) \/ IsCurrent(c)

=============================================================================
