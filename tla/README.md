# Verification of omms_app

TLA+ models of the OMMS monitoring service: what its threads, its message
consumer, its cache and its dashboard do when they meet in an inconvenient
order.  TLC checks the modules on small instances; TLAPS proves the central
invariants for every value of the constants.

All paths are relative to the repository (`src/`).

## 1. The system

A producer publishes state reports and logs to RabbitMQ.  A consumer thread in
the API process writes them to MySQL.  The API answers the dashboard from MySQL
through a Redis cache.  A background task polls MySQL for changes and tells the
browsers over WebSocket to refresh.

    producer -> RabbitMQ -> MQConsumer -> MySQL <- OpsService <- API <- dashboard
                                 |                     |                   ^
                                 +-- invalidate --> Redis cache            |
                broadcast_loop --+-- invalidate, then "refresh" -----------+

| Component | State | Operations | Interacts by |
|---|---|---|---|
| Cache layer, `app/utils/cache.py` | Redis entries; flight table `_flights`; futures; `_client`, `_retry_after` | `cache_get_or_build`, `cache_set`, `invalidate_monitor_cache`, `get_redis_client` | called by request threads, the consumer thread and the broadcast loop, concurrently |
| MQ consumer, `app/services/mq_consumer.py` | connection, channel, thread, stop event; durable queue and dead letter queue in the broker; `ops_state`, `ops_log` | `start`, `shutdown`, `_run`, `_consume_once`, `handle_message`, `_persist_message` | AMQP deliveries, acks; commit, then invalidation, then ack |
| Broadcast, `app/services/ws_manager.py`, `app/routes/ws_route.py` | connection set; last version seen | `connect`, `disconnect`, `broadcast`, `fetch_data_version`, `broadcast_loop` | reads MySQL, invalidates the cache, sends to browsers |
| Monitoring queries, `app/services/ops_service.py`, `app/utils/ops_parse.py` | the session of the request | OS, process, log, alarm and overview queries; status, session and work time rules | calls the cache; its builds read MySQL |
| Controller, `app/controllers/monitor_overview_controller.py` | none | filtering, sorting, paging | maps queries to answers |
| Dashboard, `frontend/src/views/OmmsDashboard.vue`, `utils/refreshCoordinator.ts`, `api/monitorSocket.ts` | rows, filters, page, pending refresh, socket and its timers | refresh, change of group or page, automatic refresh, reconnection | HTTP requests whose answers come in any order; WebSocket events |
| Session and lifespan, `app/utils/db.py`, `app/main.py` | connection pool; the thread and the task started | `get_db`, startup, shutdown, health | requests, broadcast and consumer share the pool; the event loop has sessions closed and runs the broadcast |
| Producer, `scripts/mq_producer.py` | the number published | publish with `event_id` and AMQP `message_id` | feeds the queue |

Stateless declarations (routes, schemas, settings), data generators, benchmarks
and presentation components are listed in `PROJECT.json` and not modelled.

### What is hard

* **Cache.**  Concurrent misses; followers that wait without a timeout; a leader
  whose build raises; fills that race with SCAN and DELETE; invalidations that
  overlap or fail; sessions whose snapshot is older than the call.  Correct: one
  builder per key, an exact flight table, every call returns, an entry can be
  outdated after an invalidation only for a known reason and never for good.
* **Consumer.**  At-least-once delivery, lost acks, crashes between commit and
  ack, half-open connections that reorder messages, poison messages, commits
  whose answer is lost.  Correct: nothing accepted disappears, a log event has one
  row, the newest report wins, the queue drains.
* **Broadcast.**  A version that does not see every change, sends that fail or
  block, connections that come and go during a broadcast.  Correct: every change
  is followed by a refresh of every browser that stays connected.
* **Dashboard.**  Late answers for a group or page no longer shown, refreshes
  asked for while one runs, rounds that fail halfway, reconnection timers.  Correct:
  the refresh flags come back to rest; the timer fits the mode; what is shown in the
  end is current and belongs to what is selected; one round at a time.
* **Queries.**  Several reports per key, late or without a time; sessions that change
  while the old one still reports; work time over midnight; pages of a list that is
  sorted anew, or grows, between two requests; cards, alarms and lists computed along
  different paths.  Correct: offline means silent on duty, a group's view is a part of the
  whole, cards count what lists show, and pages read one by one leave nothing out.
* **Process.**  Few pool connections, waited for by worker threads, the consumer and,
  synchronously, the event loop; a Redis client that every thread replaces without a lock;
  a shutdown at any point of the consumer's reconnection.  Correct: no connection is lost,
  every request ends, the broadcast goes on, probing settles and a Redis that answers again
  is used again, the process ends and the consumer hears of it.

`PROJECT.json` lists each hazard with its line and the properties that cover it.

## 2. The modules

| Module | Models | Kind |
|---|---|---|
| `SingleFlightCache` | `cache.py`, the requests of `ops_service.py` that use it, the commits and invalidations of `mq_consumer.py` and `ws_manager.py` | specification |
| `CacheFreshness` | the same with history variables that date entries and answers | history over `SingleFlightCache` |
| `MQConsumer` | `mq_consumer.py` with RabbitMQ, the network and MySQL around it | specification |
| `LogIngest` | what the consumer promises about logs | abstract specification |
| `Dashboard` | `refreshCoordinator.ts`, `monitorSocket.ts` and the loads, timers and handlers of `OmmsDashboard.vue` | specification |
| `Broadcast` | `ws_manager.py`, the endpoint of `ws_route.py` | specification |
| `MonitorRules` | the algorithms of `ops_service.py`, `ops_parse.py`, `monitor_overview_controller.py`, and `loadOsRows` | operators |
| `Monitoring` | the three tables over time: reports, logs, the clock, a user who pages through the logs | specification over `MonitorRules` |
| `RedisClient` | `get_redis_client` and its globals, shared by all threads | component of `ServiceProcess` |
| `ServiceProcess` | the lifespan of `main.py`, the sessions and the pool of `db.py`, the threads: event loop with `broadcast_loop`, requests, consumer from `start` to `shutdown` | composition |
| `Refresher` | what a refresh coordinator promises | abstract specification |
| `MCSingleFlightCache`, `MCCacheFreshness`, `MCMQConsumer`, `MCDashboard`, `MCBroadcast`, `MCMonitoring`, `MCServiceProcess` | instances for TLC | model checking |
| `SingleFlightCacheProofs`, `CacheFreshnessProofs`, `MQConsumerProofs`, `DashboardProofs`, `BroadcastProofs`, `MonitoringProofs`, `ServiceProcessProofs` | theorems | TLAPS |
| `MonitorRulesProofs` | lemmas about lists, sorting, paging and counting, used by `MonitoringProofs` | TLAPS |

### SingleFlightCache

One process: `_flights` and its lock are shared by the threads of one worker,
and the repository starts a single worker.

| Variable | Code |
|---|---|
| `db` | committed version of each kind of data in MySQL ("state": `ops_state`, "log": `ops_log`) |
| `redis`, `up` | the entries under the monitoring keys; whether `get_redis_client` yields a client whose commands succeed |
| `flights` | `_flights`: the leader registered for a key |
| `pc`, `plan` | where a request thread is; the cached queries its endpoint still has to make |
| `snap` | the REPEATABLE READ snapshot of the request's session |
| `draft` | the outcome a leader holds between `build()` and the end of its call |
| `joined`, `future` | the future a thread holds: whose it is and its content |
| `wpc`, `scope`, `toScan`, `found` | `invalidate_monitor_cache`: its progress, its kinds, the keys SCAN has not visited, the keys it returned |

A query result is abstracted to the version of the table it was computed from.
The actions of a thread follow `cache_get_or_build` statement by statement:
`Hit` or `Miss` (111-113), `Lead` or `Join` under the lock (115-122), `Wake`
(125), `Recheck` (129), `Build` or `BuildFails` (133), `Store` (134), `Settle`
(135, 139), `Clean` (141-144).  `Begin` and `Return` are the request around the
calls: one session from its first query to its end; a call that raises ends the
request.  `Commit` is `handle_message` up to its commit; `StartScan`, `ScanKey`,
`DeleteFound` and `InvalidationFails` are `invalidate_monitor_cache`, in which
SCAN visits one key at a time and DELETE is one command.  `Outage`, `Recover` and
`Expire` are Redis.

### CacheFreshness

`cleared` is the newest version of a kind that a completed invalidation covers,
`late` marks an entry that was outdated when it was stored, `floor` is `cleared`
when a call that missed began, `blind` marks a leader whose second `cache_get` got
no answer.  The history constrains nothing: `HistoryOnlyObserves` is proved.

### MQConsumer and LogIngest

Messages are numbered in the order of publication.  A message is a state report
of one record, a log with an `event_id`, an AMQP `message_id` or only a payload
digest, or one of an unknown kind.

| Variable | Code |
|---|---|
| `ready`, `unacked`, `open`, `toBroker`, `dlq` | the broker: the queue, deliveries without an answer per connection, connections it believes in, answers on their way, the dead letter queue |
| `cur`, `link` | the connection of `_consume_once`, and whether it works |
| `pc`, `inbox`, `msg` | the thread: no connection, consuming, committed and about to ack, failed and about to nack; deliveries not looked at; the one being handled |
| `rows`, `state`, `applied` | `ops_log`; `ops_state`; the messages committed at least once |

`Handle` is `handle_message` up to the commit, `Ack` the rest of it, `HandleFails`
and `Nack` its error path: `HandleFails` may leave the effect in the database,
because a commit can succeed and its answer be lost.  The broker and the network
are external: FIFO, at most `Prefetch` deliveries without an answer, requeue to
the original place when a connection is found dead.  `LateDetection` says whether
the consumer may be back before the broker has found its last connection dead;
the code sets no heartbeat and waits five seconds, so both happen.

The cache invalidation between commit and ack never raises (it catches
everything, and `handle_message` catches once more) and changes none of these
variables; `SingleFlightCache` models it.

`NothingLost` does not take a record that exists for the report in question: `Written(m)`
says that this report was applied to its record, and that what the record holds now is an
applied report of the same key (which one is the subject of `LatestStateWins`).

`LogIngest` is the promise without broker and connections: every published event
gets one row or its message is given up.  `rows` is append-only there, so a second
row for an event, a row for an unpublished message, or an overwritten row is not a
step of it.

### Dashboard

A panel is one of the results a refresh loads: totals, OS rows, process rows, logs.
What the user has chosen for it is a filter (group, machine tag, only errors) and a
page.  Code that runs without an await, a timer or an event in between is one step.

| Variable | Code |
|---|---|
| `version` | the monitoring data on the server |
| `cached` | no entry of the server's cache, and no rebuild that will store one, is older than this |
| `sel` | `osGroup`, `processGroup`, `logGroup`, `logMachineTag`, `logOnlyError`, `logPageNo` |
| `rows` | `overviewTotal`, `osRows`, `processRows`, `logRows`: the selection and version of the answer they came from |
| `requests` | HTTP requests under way, of the current round, of a round that failed, or of a selection |
| `refreshing`, `pending` | the flags of `createRefreshCoordinator` |
| `auto`, `visible`, `timer`, `mounted` | `autoRefresh`, `document.hidden`, the interval of `refreshTimer`, the component's life |
| `socket` | the WebSocket client: connecting, open, waiting to reconnect, closed |

`Ask` is `request()`; `EndRound` is the end of `refreshOnce()` and the loop around it,
with the next round when one is pending.  `Answer` and `Fail` are the continuations of
the four loads: a failing load rejects `Promise.all` and ends the round (`GiveUp`) while
the other requests go on; `loadLogRows` catches its error and does not.  `Choose` stands
for the group, search, only-error and page handlers, which load one panel outside the
coordinator.  `SwitchAuto`, `Hide`, `Show` and `Unmount` are the watcher, the visibility
handler and `onBeforeUnmount`; `Status` is `onStatusChange`; `SocketOpens`,
`SocketCloses`, `Reconnect` and `Event` are `monitorSocket.ts`.

An answer is made from data no older than `since`.  For the logs, which `get_logs` reads from
MySQL, that is what was committed when the request was sent (`Oldest`); the other panels are
answered through `cache_get_or_build`, so their answers may be as old as the cache is, which
is older than the request and than the rows shown.  `Expire` moves `cached` on: entries are
deleted or expire, and leaders come to their end (how, and how late, is the subject of
`CacheFreshness`).  The variables of a request that only exist for the properties are `alone`
(no other request of its panel since it was sent), and `no`, which tells equal requests apart.

The user acts on a page that is not hidden, and the refresh button, which shows the page
loading while a round runs, takes no clicks then (`Refresh`).

Closing a socket, or failing to open one, reports a lost connection, starts the polling
interval of 5 seconds anew and sets the reconnect timer of 3 seconds.  While the socket waits
for that timer the interval cannot be due, so `Tick` is not enabled then.

`Refresher` is the promise of a coordinator: what the round under way still waits for
(`loading`), whether another one is owed because somebody has asked since it began (`owed`),
and whether the page is in automatic mode (`automatic`).  A round loads everything, each
panel once; it ends when the last load is back or one fails; the one owed starts then and
none starts before; `owed` is taken back in no other way than by leaving the automatic mode
(`Leave`); and every round ends.  `Dashboard` implements it with `loading` read as the panels
of the current round's requests, `owed` as `pending` and `automatic` as `auto /\ visible`;
it is the coordinator's view of a round, which ends with the first load that fails.
`AsksAreHeeded` adds the caller's side, which `Refresher` leaves open: whenever a visible page
in automatic mode asks for a refresh, by button, timer, event or coming to the front, a round
is under way afterwards, and another one is owed if one was before.

### Broadcast

`broadcast_loop` and the endpoints are coroutines of one event loop, so a step is what
runs from one await to the next.

| Variable | Code |
|---|---|
| `change`, `times`, `logs` | MySQL: the number of commits, `update_time` of the rows of `ops_state` (0 for NULL), the newest `log_id` |
| `last`, `version` | `last_version`; the version read most recently |
| `loop`, `todo`, `stale` | whether the loop sleeps or sends; the rest of the copied set; the connections whose send failed |
| `registered`, `conn` | `_connections`; how far the endpoint of each connection is |
| `here`, `event`, `shows` | the browser: still connected, an event on its way, what its last load returned |

`Fetch` is one turn of the loop up to the first send, `Send` one `send_json`, which
arrives, is lost with a browser whose absence nobody has noticed, or fails; `Continue`
is the rest of the turn.  `Accept` and `Register` are the two halves of `connect` with
the hello, `Disconnect` the `except` clause, `EndpointFails` every other exception.
`Report` and `Log` are the commits of the consumer.

### MonitorRules and Monitoring

The queries keep no state: what they return is a function of the configuration, the two
tables and the clock.  `MonitorRules` has these functions, `Monitoring` the tables.

| Variable | Code |
|---|---|
| `now` | `OpsService._now()`, in clock units since day 0; `Date` and `Clock` split it |
| `states` | `ops_state`: one row per date, type, machine, key and value |
| `logs` | `ops_log`, numbered by `log_id` |
| `reading` | the log pages one user has asked for: the query, its page, the logs seen so far |
| `events` | the number of reports and log lines, bounded |

| Operator | Code |
|---|---|
| `OsStates`, `OsItem`, `OsStatus`, `Latest` | `_compute_os_states`, `_build_os_item`, `_select_latest_os_state` |
| `ProcessStates`, `Candidates`, `Session`, `Owned`, `Selected`, `Unmatched` | `_compute_process_states` and its helpers, AM and PM sessions, state-only processes |
| `LogsMatching`, `LogPage`, `Groups` | `get_logs`, `get_groups` |
| `LogStats`, `Overview`, `GetTotal` | `_compute_log_stats`, `get_overview` of a group with and without only-error, the controller's `get_total` |
| `GetAlarms`, `AlarmLogs` | `get_alarms` with its one page of logs |
| `IsInWorkTime`, `IsStale` | `ops_parse.py` |
| `SortOs`, `SortProcess`, `Page`, `OsSnapshot`, `ProcessList` | the controller |
| `Filtered`, `SortedBy`, `StableSort`, `InOrder` | list comprehensions with `if`, `sorted(key=...)`, `sorted` of a set |
| `DedupeOsRows`, `LoadOsRows` | what the dashboard does with a snapshot |

`Report` is the upsert of `_persist_message` for a report that was written a moment ago or
whose time cannot be read, `Log` the insertion of a line, `OpenLogs` and `NextPage` the
requests of a user who reads page after page.  A query is evaluated at one moment; what
the cache and late answers do to it is the subject of the other modules.

Texts are natural numbers in the order of the texts, 0 the empty or absent one, and
`Within` says which text contains which; `SessionsOf` gives the sessions the YAML arguments
of a value name, `WorkTime` the ranges of a work time.  Messages, process ids and extra
fields are left out; so is the lookup by reserved group names, since a group chosen on the
dashboard is one that `get_groups` offered.  Group names are assumed to have no blanks
around them: `get_groups` trims them and the filter compares the text as it is stored.
The logs are in the default order, newest `log_id` first, the only one the dashboard asks
for.

Selecting and sorting are defined by ranks: the place of an item is the number of items
before it in an order, which for `sorted` compares the keys and, where they are equal, the
positions (Python's sort is stable).  `SelectSeq` and `SortSeq` would say the same, but the
provers know nothing of them.

`MonitoringAssumption` says what the tables are made of: finitely many configurations, with
the columns the queries read and texts for values, and reports with texts for machine, key,
value and name.  `None` is none of them.

### RedisClient and ServiceProcess

One worker process: which threads there are, what they wait for and what they share.  What
a query, a message or an answer says is left out, each may succeed or fail; the data are in
the other modules.

| Variable | Code |
|---|---|
| `client`, `cooling` | `_client` is set; `now < _retry_after`, the 30 seconds after a failed ping |
| `phase` | `lifespan`: probing the database, refused, serving, draining (no more requests), stop event set, `shutdown()` done, process ended |
| `at` | where each thread is; for the event loop, where the broadcast task is |
| `holds` | the threads whose session has a connection of the pool |
| `stop`, `published`, `callback` | `_stop_event`; `_connection` and `_channel` as `shutdown()` sees them; `stop_consuming` queued on the connection |
| `met` | where `shutdown()` found the consumer (history) |

`Acquire` and `PoolTimeout` are the pool: a thread gets a connection or, while there is none,
a `TimeoutError`.  `UseRedis` is any call of the cache: at once when the client is set or
pausing, else through a ping whose answer (`PingAnswers`, `PingFails`) is written over
whatever other threads wrote meanwhile.  A request is handed to a worker by the loop
(`Dispatch`), uses Redis and the database in any order, and ends with an answer or an error
(`Finish`); the loop must be free to hand the exit of `get_db` to a worker (`Exit`), which
closes the session (`Close`).  `Health` is `GET /health`.  `WakeUp`, `LoopGetsConnection`,
`CheckVersion`, `LoopUsesRedis` and `Sent` are one turn of `broadcast_loop`: everything but
the sends and the sleep is synchronous, so `LoopFree` is false meanwhile.  The consumer's
actions are the statements of `_run` and `_consume_once`; `Signal` and `Tell` are the two
halves of `shutdown()`, `EndProcess` the cancellation of the broadcast and the end of the
daemon thread, wherever it is.

## 3. The runs

| Run | Instance | Shows |
|---|---|---|
| `cache_flights` | 3 threads, 1 key, 1 consumer, 1 commit; outages, expiry, failing builds | `SingleBuilder`, `FlightTableExact`, `NoOrphanWaiter`; every call returns; `EventuallyFresh`: after the last commit the TTL drives every outdated entry out |
| `cache_freshness` | 2 overview requests over 2 keys, 1 commit, the consumer's and the broadcast's invalidation one at a time | `StaleOnlyWhenStoredLate`, `OneRebuildPerMiss` |
| `cache_next_query` | 2 threads, 1 key, consumer and broadcast loop | **violation** of `NextQueryReadsNewState` |
| `mq_consumer` | 6 messages (2 reports of one record, an event published twice, a legacy log, an unknown kind), prefetch 2, 3 connections, early detection | `NothingLost`, `LatestStateWins`, `LogsIngestedOnce`, `EverythingSettles` |
| `mq_late_detection` | the same, late detection | **violation** of `LatestStateWins` |
| `dashboard` | OS and log panel, 2 filters, 2 pages, 1 change, 1 selection, 1 failure | `CoordinatorExact`, `TimerMatchesMode`, `LoneAnswerIsCurrent`, `Converges`; `KeepsRefreshing`: the coordinator implements `Refresher`, every round ends, and no refresh asked for is dropped |
| `dashboard_rounds` | the same | **violation** of `OneRoundAtATime` |
| `dashboard_fallback` | the same, no selections and failures | **violation** of `PollsWhenDisconnected` |
| `broadcast` | 2 connections, 1 record with 2 times, 2 commits | `LiveIsRegistered`, `VersionChangePushed`, `DeadAreDropped` |
| `broadcast_every_change` | 1 connection, 2 records, 2 commits | **violation** of `EveryChangePushed` |
| `monitoring` | 3 machines, 2 groups, 3 OS and 2 process configurations, 3 reports or lines at most one hour late, from hour 4 to midnight of a day of 6 hours | the eight properties below |
| `service` | 2 requests at a time, a pool of 1 connection, the event loop, the consumer, from startup to the end | `ConnectionsInUse`, `StopReachesConsumer`, `RequestsEnd`, `BroadcastGoesOn`, `ShutdownCompletes`, `ProbesEnd`, `ClientComesBack` |

`monitoring` checks: `OfflineExactlyWhenSilent` (the row picked among several reports never
hides a recent one), `WorkTimeIsAnArc` (the two cases of a range are one arc of the clock),
`SessionOfTheHourDecides` and `UnconfiguredMeansUnmatched` (the target session never falls
back; every report no configuration matches is listed as unconfigured, and a report of a
session that one matches is not, shown or not), `GroupViewsAgree` (the
shortcut through the group's machines changes nothing), `CardsMatchLists` (overview, cards
and alarms against the lists, for every group, with and without only-error),
`PagesMakeUpTheList` (whatever the order the database returns configurations in),
`NoLogSkipped` (logs may arrive between two pages).

**Bounds.**  Three threads give a flight with two followers, one of which joins
while the result is being published.  Keys do not interact except through the
session and one invalidation that covers several, which two keys show.  The invalidations
of `cache_freshness` come one at a time; that nothing changes when several overlap is shown by
the proof, which puts no bound on them.  One commit
is enough for an outdated entry; `MaxVersion` bounds commits, and the theorems hold
for any number.  Three connections allow two losses, so a message can be delivered
three times; `MaxConnections` bounds reconnections, and the last connection stays up
because the bound has to end somewhere.  Prefetch 2 lets a delivery wait behind
another one when the connection goes.  In `cache_freshness`, which has no liveness
property, the threads are symmetric.  On the dashboard the OS panel stands for the three
whose loads reject and the log panel for the one whose load does not and which has
pages; with one selection, one failure and one change a request of a selection, one of a
failed round and one of the next round meet in the same panel, in any order.  Refreshes,
ticks, reconnections and switches are not bounded: the flags bound the requests.  In
`broadcast` one connection is sent to while the other comes, goes or fails, with a
commit before and one during the sends; a connection is used once, as in the code.
In `monitoring` three reports give a configuration two candidates and another one a state
at the same time: two values of one host key, both sessions of a process, a session and a
generic report; the second host key of that machine, and the other machine, stay silent.  The clock starts in the morning session, passes PM start and midnight, so
that work time `5-0` is entered, wraps and goes on, and reports of yesterday and today lie
side by side.  `MaxDelay` is one hour, as much as `Timeout`: a late report may be stale when it
arrives.  Log pages have one line, so every arrival shifts them, and one reading of the logs is followed, from
a moment when there is something to read; `MaxPageSize` is two, so
that three log lines do not fit into the one page `get_alarms` reads.
In `service` one connection is the smallest pool: one session that waits for the event loop
to be closed holds all of it, and the other request, the broadcast and the consumer wait.
Two requests can hold the pool one after the other, so a waiting thread may be overtaken.
A request slot is used again and again, and so is the consumer; nothing is counted, so there
is no bound besides these two constants, and larger ones only add threads in the same places:
type, `ConnectionsInUse` and `StopReachesConsumer` are proved for any.

**Fairness.**  Threads are scheduled and each database query ends (the driver has
timeouts), so `RequestStep` is weakly fair; nothing forces a request to begin, a
commit, an outage or its end.  Every entry is stored with an expiry, so `Expire` is
weakly fair.  The consumer thread runs until the process ends; the broker delivers,
reads answers and detects dead connections.  Publication, crashes and losses are
not fair.  On the dashboard every request ends, because the client gives up after ten
seconds (`omms.ts:102`); the reconnect timer is due; what is cached expires (`Expire`); and an
interval fires that is left alone.  One that is started over and over need not: `Tick` is
weakly fair, but not enabled while the socket waits to reconnect, so a socket that closes
again and again may keep it from firing for ever.  Users, the socket and the data owe nothing.
`Converges` therefore assumes, besides a page that stays open, visible and automatic, that the
socket is at some time no longer closed (it stays open, or an attempt to connect hangs): then
it relies on polling alone.  In `Broadcast` the loop wakes
up every two seconds and the database answers some time, a send ends because the server
drops a connection that takes no data, and an event that arrives is handled; browsers
and commits owe nothing.

What `VersionChangePushed` promises begins with a page that has the announced version:
the first turn of the loop only sets the base line, so a change between the page's first
load and that turn is left to polling.

In `ServiceProcess` every thread goes on while it can (weak fairness of `BroadcastStep`,
`ConsumerStep`, `RequestStep(r)`, and of `Start`, `Tell`, `EndProcess`, `RetryPauseEnds`):
queries, pings and connection attempts have timeouts, as has the wait for the pool.  Strong
fairness is needed in three places.  `Finish(r)`: an endpoint makes finitely many calls, but
in the model it could go on with them for ever.  `Exit(r)` and `Signal`: what is ready to run
on the event loop is in its queue and runs once the loop is free, although the broadcast
takes the loop away again and again.  No request, message, outage or stop has to come.

**Deadlock** is checked for the cache, the broadcast and the service, where a process that
has ended, or refused to start, stays so.  The clock of `monitoring` is bounded.  The consumer instances stop when all
messages are published and settled, and a dashboard page stops after it is closed, so
it is not checked there.

`RequestsEnd` and `BroadcastGoesOn` are about one hazard: finished requests hold the
whole pool and wait for the event loop, which waits for the pool.  Only `pool_timeout` gets
them out: without it both fail.  `StopReachesConsumer` names the only window in which
`shutdown()` misses the consumer; then the process ends with the thread still consuming
(it is a daemon), which `NothingLost` of `MQConsumer` makes harmless.  `ProbesEnd`: a ping that
fails late resets the client that another thread has just set, but each such probe is used
up, so nobody probes any more once Redis answers.  `ClientComesBack`: nor does the reset
client stay away; from some time on it is set, or no pause keeps the next call from setting
it.

### What the violations show

`cache_next_query`: thread 1 misses, leads and reads MySQL; the consumer commits a
newer state, scans and deletes; thread 1 stores what it read; the next query
returns the old state.  `tests/test_cache.py:240` is named
`test_invalidation_makes_next_query_read_new_state`, and `ws_manager.py:63` says the
invalidation before a broadcast closes the race.  `cache_freshness` and its proofs
show that this is the only way to an outdated entry after a completed invalidation,
and `cache_flights` that it ends with the TTL.

`mq_late_detection`: report 1 is handed to a connection that is already dead; the
consumer is back and handles report 2 of the same record; the broker finds the old
connection dead and requeues report 1; it overwrites report 2.  `ops_model.py:30`
says "Latest ops state records".  The upsert (`mq_consumer.py:84-87`) does not compare
`update_time`.

`dashboard_rounds`: the page is opened in the background, which starts the first round, and
is brought to the front, which asks for another; the OS request fails and ends the round;
the pending round starts while the log request of the first one is still under way, and its
late answer may overwrite a newer one.  `OmmsDashboard.vue:416` says "同一时刻只允许一轮刷新"
(only one round of refreshing at a time).  `Converges` shows that polling repairs it.
`LoneAnswerIsCurrent` shows what it takes to be misled: rows of a selection the user has left
come only from requests of one panel that overlap, and so do logs older than those shown.  The
other panels can also go back in time without any overlap, when the server answers from a
cache that is behind (`cache_next_query`).

`dashboard_fallback`: each attempt to reconnect fails before the polling interval is due, is
reported as a lost connection, and has the interval started anew (`OmmsDashboard.vue:644-649`,
`monitorSocket.ts:53-57`).  With a server that refuses connections at once the attempts are
three seconds apart and the interval of five is never due.  `OmmsDashboard.vue:638` says that a
lost connection resumes polling every 5 seconds, `docs/api_omms_monitor_overview.md:332` that
the page falls back to it.  The page recovers with the connection, or when it is brought to the
front; an attempt that hangs for longer than two seconds lets the interval fire.

`broadcast_every_change`: a record is reported again with the time it has already, or with none
as before.
`MAX(update_time)` and the count stay as they are, so the loop sees no change.
`ws_manager.py:4` says that the page is told whenever data change.  `VersionChangePushed` shows
that every change the version does see arrives.  (The same follows for a record whose new time
is still older than that of another record; the trace does not need it.)

### A known limit

A machine of a group that is configured under two keys, with nothing reported yet, gives two
rows that show the machine, the group, no metric and offline: the key is not among the visible
fields.  `dedupeOsRows` drops one, and `loadOsRows` finds fewer rows than the total and refuses
the list, although the snapshot is complete.  `OmmsDashboard.vue:468` means to refuse incomplete
ones, and `docs/api_omms_monitor_overview.md:146` tells configurations apart by machine and key.
No run is spent on it; `SnapshotShownCorrect` proves that two keys of one machine are the only
way to it.

## 4. The proofs

TLAPS checks, for every value of the constants that meets the named assumptions
(`KindAssumption`, `RequestAssumption`, `NoneAssumption`, `FailedAssumption`;
`CountAssumption`, `KeyAssumption`, `LateAssumption`, `NoneAssumption`;
`PanelAssumption`, `SelectionAssumption`, `BoundAssumption`; `TimeAssumption`,
`ConnAssumption`, `ChangeAssumption`; `RulesAssumption`, `MonitoringAssumption`;
`ProcessAssumption`):

| Theorem | States |
|---|---|
| `SingleFlightCacheProofs!TypeCorrect` | `Spec => []TypeOK` |
| `FlightTableCorrect`, `SingleBuilderCorrect`, `NoOrphanCorrect` | the flight table is exact, one builder per key, no follower waits in vain |
| `CacheFreshnessProofs!HistoryOnlyObserves` | `FreshSpec => Spec` |
| `StaleOnlyWhenStoredLateCorrect` | outdated after an invalidation only when stored late |
| `OneRebuildPerMissCorrect` | a leader that could read Redis overwrites nothing |
| `MQConsumerProofs!TypeCorrect`, `NothingLostCorrect` | typing; a published message is held by the broker, dead-lettered, or had its very effect |
| `ConsumerIngestsOnce` | `Spec => Ingest!Safety`: refinement of `LogIngest` |
| `LatestStateWinsCorrect` | without late detection no report is hidden behind an older one |
| `DashboardProofs!TypeCorrect` | `Spec => []TypeOK` |
| `CoordinatorCorrect`, `TimerCorrect` | flags and timer always fit the requests and the mode |
| `LoneAnswerCorrect` | an answer to the only request of its panel is for what is selected, and for the logs not older than what is shown |
| `DashboardRefreshes` | `Spec => Rounds!Safety /\ AsksAreHeeded`: refinement of `Refresher`, and no refresh asked for is dropped |
| `BroadcastProofs!TypeCorrect` | `Spec => []TypeOK` |
| `LiveIsRegisteredCorrect` | every broadcast reaches every working connection |
| `MonitoringProofs!TypeCorrect`, `LogsNumbered` | `Spec => []TypeOK`; logs are numbered without a clash |
| `WorkTimeCorrect` | work time is an arc of the clock |
| `LogPagesComplete` | whoever has paged to the end has seen every log that was there |
| `OfflineCorrect` | a configured host is offline exactly when it is silent on duty |
| `SessionCorrect` | a process is judged by the session of the hour |
| `UnconfiguredCorrect` | which processes are listed as unconfigured |
| `PagesCorrect`, `EveryPageSizeCorrect` | the OS list does not depend on the order of the database; pages of any size make up a list |
| `GroupViewsCorrect` | a group's list is its part of the list of all groups |
| `CardsCorrect` | cards, overviews, alarms and lists count the same |
| `SnapshotShownCorrect` | where machine and group tell the hosts apart, every snapshot is shown |
| `ServiceProcessProofs!TypeCorrect` | typing, and the pool within its capacity |
| `NoConnectionLeaks`, `StopIsHeard` | `ConnectionsInUse` and `StopReachesConsumer`, for any number of requests and any pool |

**The cache.**  `FlightTableExact` and `NoOrphanWaiter` are together inductive with
`TypeOK` and one more fact: the future a leader holds is pending until it settles and
set while it cleans up.  A thread becomes leader only where no flight is registered, so
the table names it and nobody else; a follower takes its future from the table, so its
leader exists; `Settle` reaches all followers before `Clean` removes the entry.
`SingleBuilder` is a consequence: two leaders of a key would both be its one entry.

**Freshness.**  `StaleOnlyWhenStoredLate` alone is not inductive.  `ScanInv` adds what
holds while an invalidation is running: a key that SCAN has passed is on the list to
delete, or it holds no entry, one as recent as what the invalidation will clear (`target`), or
an entry stored late; neither `target` nor `cleared` passes `db`, which only grows.
`OneRebuildPerMiss` follows from the exact flight table: only the leader of a key stores
under it.

**The consumer.**  `NothingLost` needs to know what is on the way to the broker: every
positive answer in `toBroker` is for a message whose transaction has committed
(`AnswersTruthful`), a committed transaction leaves its mark for good (`EffectStays`),
and every published message is held by the broker, dead-lettered or applied
(`Accounted`).  A record, once written, holds an applied report of its key.  With typing these
are inductive.  The refinement uses the same invariant: what the thread inserts was published, and what is dead-lettered was too.

`LatestStateWins` needs order.  Without late detection there is one connection the broker
believes in, and everything is an interval of message numbers (`OrderInv`): up to `f` the
broker has settled, `f + 1 .. d` are unacknowledged on the current connection, `d + 1 ..` are
in the queue (`QueueInOrder`); the answers on their way, the message being handled and the
inbox are `f + 1 .. d` in this order (`AnswersInOrder`, `InboxInOrder`).  So a message is
handled only when all before it have been, a requeue puts an interval back where it was, and
a redelivery starts again from `f + 1` and passes through the newer reports once more.
`AnswersAccurate` says of the settled ones and of positive answers that the record holds
their report or a newer one.

**The dashboard.**  `RequestInv` carries `CoordinatorExact` and `LoneAnswerIsCurrent`.
No two requests of a panel have the same number: the requests are finitely many, so one
more number than there are requests always leaves one free (`FreeNumber`, by the pigeon
hole principle).  A request that is alone is the only one of its panel, was sent for what
is selected, and, for the logs, is answered from data no older than those shown (`Lone`,
with `Dated`: nothing shown or asked for is newer than the data); sending
(`SendLone`), giving up and removing requests keep that.  `PageInv` carries
`TimerMatchesMode` and needs that the page is mounted exactly until the socket is closed
for good: no status is reported after that.  The refinement of `Refresher` follows from
`RequestInv`: `refreshing` is set exactly while a request of the current round is under way,
and the round has at most one request of each panel, so an answer takes one panel from
`loading` (`Progress`) or is the last (`End`); only `Hide` and `SwitchAuto` leave the automatic
mode, and they clear `pending` with it.

**The broadcast.**  `LiveIsRegistered` needs `StaleAreDead` (a connection whose send failed
does not work any more, so dropping it at the end of the broadcast, many awaits later,
takes no working one) and `WereRegistered` (what is still to be sent to was registered,
so it is not new and cannot be accepted meanwhile).

**The service.**  `ConnectionsInUse` with the bound of the pool is inductive: connections are
taken and given back one at a time (`TakeOne`, `GiveOneBack`).  `StopReachesConsumer` needs
what `shutdown()` relied on when it read the globals: whoever consumes does so on a published,
open connection (`ConsumesOnOpen`); the stop event is set, or there was no thread any more
(`StopIsSet`), so after it nobody gets past the test of the event; and whoever still connects
then was connecting or publishing when `shutdown()` looked (`Overtaken`).  `LoopAtRest` and
`QuietBeforeStart` are what `lifespan` knows at its two ends.

**Monitoring.**  `NoLogSkipped` needs to know what a reader has seen halfway (`PagesRead`): every
log that was there at the start and whose rank is now at most the page times its size.  A new
log has the largest number, so the rank of the others only grows (`RankGrows`) and what has been
passed stays passed; the next page adds the ranks up to the next multiple (`PageAdds`); on
the last page every rank is covered (`RankBounds`).  `WorkTimeIsAnArc` is arithmetic: the hours
since the start of a range, modulo the day, are the difference of the clocks or that and a
day (`HoursSince`).

What the lists show rests on `Inv`: typing, and `Told`, that `ops_state` is finite and its rows
are told apart by their identity, which is what the upsert keeps (`ToldStep`).  Typing alone
would allow two rows of one identity, or infinitely many, of which there is no latest.  From
there the properties of a moment follow from the operators:

* *Orders.*  `InOrder` lists a finite set, each element once, in any strict total order
  (`InOrderLists`): ranks are injective into `0..n-1`, hence onto.  It is the only such list
  (`OneListing`).  Python's tuple order and the order of a stable sort are strict and total
  (`BeforeOrder`, `ByKeyOrder`).
* *Lists.*  Sorting keeps the items, their number and how many have a property
  (`SortedItems`), and repeats none (`SortedNoRepeats`); picking from a sorted list is
  sorting what is picked (`PickedSorted`); a list whose items all have different keys is
  sorted alike from any order (`SortedSet`).
* *The latest row.*  A finite nonempty set of rows has one that is before no other, since one
  of them has the highest rank (`LatestRow`).  So the row picked under a key is recent when
  one is (`LatestFresh`), which is `OfflineExactlyWhenSilent`; the same for the candidates of
  the target session gives `SessionOfTheHourDecides`.
* *Unconfigured processes.*  What a configuration owns are all its candidates, or all those
  of a session; the rows nobody owns pass through `ProcessRow` and the sort unchanged
  (`UnconfiguredRows`).
* *Pages.*  The pages up to number `no` are the beginning of the list of length `no` times
  the size (`BeginningGrows`), and joining pages is one function of their number: two would
  differ first at some page (`FlattenIs`, `PagesJoin`).  That configurations
  come in any order does not matter because their sort key is all of them (`CfgKeyNames`,
  `HostCfgsSame`).
* *Groups.*  The states read for a group's machines are those its configurations look at
  (`GroupStates`, `GroupHostStates`), so each row is the same (`RowOfHost`, `RowOfProc`), and the
  rest is `PickedSorted`; unconfigured rows have no group (`GroupKnown` excludes the empty one).
* *Counts.*  `is_alarm` of a row is the abnormal status of its item; rows and items are as many
  and as many of them alarm (`HostCounts`, `ProcessCounts`, the latter for the configured rows among
  all); every item of a process is either normal or abnormal (`GoodCount`); the logs of the two
  levels add up (`LogCounts`), and one page holds all logs if there are not more than its size
  (`AlarmLogsListed`).
* *Snapshots.*  `SnapshotShownCorrect` bounds the known limit of section 3: under
  `MachineTellsHosts` (no machine of a group is configured twice, none reports under two keys that
  nobody configured) two rows differ in machine, group or `is_configured` (`HostsRowsOnce`).

**Only model-checked.**  All liveness (`CallReturns`, `EventuallyFresh`,
`EverythingSettles`, `Converges`, `VersionChangePushed`, `DeadAreDropped`, `RequestsEnd`,
`BroadcastGoesOn`, `ShutdownCompletes`, `ProbesEnd`,
`ClientComesBack`, the fairness of `LogIngest` and
`Refresher`), which is out of reach of the prover.  Every other property of a passing run is a
theorem, and so is the safety part of the two refinements.  The induction theorems of the
library cannot be used with these provers; where an
argument over data needs one, it goes by the least number with a property (`LeastNumber`), by
ranks or by cardinalities.

## 5. Not modelled

* **The whole pipeline as one state machine** (commit, invalidation, broadcast, refresh,
  query).  Its parts meet in narrow places, each of which some module has with both sides:
  commit and cache in `SingleFlightCache`, commit and broadcast and page in `Broadcast`,
  page and answers in `Dashboard`, all threads in `ServiceProcess`.  The product is beyond
  TLC at sizes where anything happens.
* **Inside `ServiceProcess`**: flights (a follower waits for a leader whose progress
  `SingleFlightCache` shows), the length of the Redis pause, and the moment the loop sends
  the answer after the session is closed.
* **The record of warnings already logged** (`ops_service.py:83`): 1024 entries, shared by
  the threads; only whether a warning is logged again depends on it.
* **Sorting logs by another field**, the list of groups of the dashboard, its loading flags
  and error banners: nothing else depends on them.
* **The order of processes with equal machine and name** across two requests
  (`monitor_overview_controller.py:456`): it is that of an unsorted MySQL query.
* **Two moments within one query** (`ops_service.py:710`): each query of `Monitoring` is one.
* **Never**: text of logs and messages, SQL, HTML and CSS, routes and schemas, settings,
  benchmarks, data generators, presentation components.  They keep no state of their own.
