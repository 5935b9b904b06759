----------------------------- MODULE Monitoring -----------------------------
(***************************************************************************)
(* The monitoring data over time: hosts report states (upserted, so that   *)
(* a row holds the last report of its identity), logs are appended, the    *)
(* clock goes through work times, sessions and midnight, and a user reads  *)
(* the log list page by page while it grows.  What a query returns at a    *)
(* moment is a function of the state, in MonitorRules; the properties say  *)
(* what the lists of any moment have to do with the reports behind them.   *)
(***************************************************************************)
EXTENDS MonitorRules

CONSTANTS Cfgs,        \* the enabled configurations
          Reports,     \* [type, machine, key, value, dat] a host may report
          Lines,       \* [machine, level] a host may log
          LogQueries,  \* [group, machine, level, onlyError] a user may choose
          LogPageSize, \* the page size of the log table
          StartTime,
          MaxDelay,    \* bound: a report is at most this late
          MaxTime,     \* bound on the clock
          MaxEvents    \* bound on reports and log lines

ASSUME MonitoringAssumption ==
  /\ MaxTime \in Nat /\ StartTime \in 0..MaxTime
  /\ MaxDelay \in Nat /\ MaxEvents \in Nat
  /\ LogPageSize \in Nat \ {0}
  /\ IsFiniteSet(Cfgs)
  /\ \A c \in Cfgs :
       /\ c = [type |-> c.type, machine |-> c.machine, group |-> c.group,
                key |-> c.key, value |-> c.value, work |-> c.work]
       /\ {c.machine, c.group, c.key, c.value, c.work} \subseteq Nat
       /\ c.work \in DOMAIN WorkTime
  /\ \A r \in Reports : {r.machine, r.key, r.value, r.dat.name} \subseteq Nat
  /\ None \notin Cfgs
  /\ None \notin [date : Int, type : {r.type : r \in Reports}, machine : Nat, key : Nat,
                   value : Nat, time : Int \cup {None}, dat : {r.dat : r \in Reports}]
  /\ \A line \in Lines : line = [machine |-> line.machine, level |-> line.level]

VARIABLES now,      \* the server's local clock
          states,   \* ops_state
          logs,     \* ops_log
          reading,  \* the log pages a user has gone through, None before
          events    \* reports and log lines so far

vars == <<now, states, logs, reading, events>>

\* The configurations in one of the orders the database may return them.
SomeOrder(S) == CHOOSE q \in SetToSeqs(S) : TRUE
cfgs == SomeOrder(Cfgs)

Init == /\ now = StartTime
        /\ states = {}
        /\ logs = {}
        /\ reading = None
        /\ events = 0

Tick == /\ now < MaxTime
        /\ now' = now + 1
        /\ UNCHANGED <<states, logs, reading, events>>

\* Mutant of Row: the day of the server, not of the report.
RowServerDate(r, t) == [date |-> Date(now), type |-> r.type,
                        machine |-> r.machine, key |-> r.key, value |-> r.value,
                        time |-> t, dat |-> r.dat]

\* A report written at time t, or without a readable time, and its row.
Row(r, t) == [date |-> Date(IF t = None THEN now ELSE t), type |-> r.type,
              machine |-> r.machine, key |-> r.key, value |-> r.value,
              time |-> t, dat |-> r.dat]

\* When a report or line that arrives now may have been written.
Times == {t \in (now - MaxDelay)..now : t >= StartTime} \cup {None}

Report(r, t) ==
  /\ events < MaxEvents
  /\ states' = {s \in states : Identity(s) # Identity(Row(r, t))} \cup {Row(r, t)}
  /\ events' = events + 1
  /\ UNCHANGED <<now, logs, reading>>

\* A line written at time t; log_id is assigned by the database.
Log(line, t) ==
  /\ events < MaxEvents
  /\ logs' = logs \cup {[id |-> Cardinality(logs) + 1, date |-> Date(t),
                         machine |-> line.machine, level |-> line.level]}
  /\ events' = events + 1
  /\ UNCHANGED <<now, states, reading>>

-----------------------------------------------------------------------------
\* The log list a user pages through.

List(q) == LogsMatching(cfgs, logs, q, Date(now))
Ids(S) == {l.id : l \in S}

\* The user has been shown page no of query q, after the logs already seen.
Shown(q, no, of, seen) ==
  reading' = [query |-> q, date |-> Date(now), page |-> no, of |-> of,
              seen |-> seen \cup Ids(LogPage(List(q), no, LogPageSize)),
              ended |-> no * LogPageSize >= Cardinality(List(q))]

\* Choosing filters starts at page 1.  Bounds: one reading is followed, since
\* another one would begin like a first one at that moment, and it is one that
\* finds a log, since any other is over at once.
OpenLogs(q) ==
  /\ reading = None
  /\ List(q) # {}
  /\ Shown(q, 1, Ids(List(q)), {})
  /\ UNCHANGED <<now, states, logs, events>>

\* The list of another day would be another list.
NextPage ==
  /\ reading # None
  /\ ~reading.ended
  /\ reading.date = Date(now)
  /\ Shown(reading.query, reading.page + 1, reading.of, reading.seen)
  /\ UNCHANGED <<now, states, logs, events>>

Next == \/ Tick
        \/ \E r \in Reports, t \in Times : Report(r, t)
        \/ \E line \in Lines, t \in Times \ {None} : Log(line, t)
        \/ \E q \in LogQueries : OpenLogs(q)
        \/ NextPage

Spec == Init /\ [][Next]_vars

-----------------------------------------------------------------------------
\* Type correctness: rows are those of the reports, at times that have been.
TypeOK ==
  /\ now \in StartTime..MaxTime
  /\ \A s \in states : \E r \in Reports, t \in StartTime..now :
       /\ s = [date |-> s.date, type |-> r.type, machine |-> r.machine, key |-> r.key,
               value |-> r.value, time |-> s.time, dat |-> r.dat]
       /\ s.date = Date(t) /\ s.time \in {t, None}
  /\ \A l \in logs : /\ l = [id |-> l.id, date |-> l.date, machine |-> l.machine, level |-> l.level]
                     /\ l.id \in 1..Cardinality(logs)
                     /\ \E t \in StartTime..now : l.date = Date(t)
                     /\ [machine |-> l.machine, level |-> l.level] \in Lines
  /\ reading = None \/ /\ reading.query \in LogQueries
                       /\ reading.seen \cup reading.of \subseteq Ids(logs)
  /\ events \in 0..MaxEvents

-----------------------------------------------------------------------------
\* Properties.

Today(type) == {s \in states : s.type = type /\ s.date = Date(now)}
Fresh(s) == s.time # None /\ now - s.time <= Timeout
OsList(group) == OsSnapshot(cfgs, states, group, "", FALSE, now)
Processes(group) == ProcessList(cfgs, SomeOrder(states), group, "", FALSE, now)

\* A configured host is offline exactly when it is work time and none of the
\* reports of today under its key, whatever their values, is recent: the row
\* picked for it never hides a recent one (_select_latest_os_state).
OfflineExactlyWhenSilent ==
  \A c \in Cfgs : c.type = "os" =>
    \A i \in ToSet(OsStates(<<c>>, states, c.group, now)) :
      (i.status = "offline") <=>
        /\ IsInWorkTime(c.work, now)
        /\ ~\E s \in Today("os") : s.machine = c.machine /\ s.key = c.key /\ Fresh(s)

\* Work time is the arc of the clock from the start of a range to its end,
\* over midnight or not, and there is always some when it is malformed.
WorkTimeIsAnArc ==
  \A c \in Cfgs : IsInWorkTime(c.work, now) <=>
    \/ WorkTime[c.work] = {} \/ None \in WorkTime[c.work]
    \/ \E r \in WorkTime[c.work] \ {None} :
         (now - r.from) % DayLength <= (r.to - r.from) % DayLength

\* With reports of sessions, a configured process is judged by the session of
\* the hour alone: it is offline in work time when that session is silent,
\* however recent the reports of the other one are, and never otherwise
\* (the target session never falls back).
SessionOfTheHourDecides ==
  \A c \in Cfgs : c.type = "process" =>
    LET found == Candidates(c, Today("process"))
        item == ProcessStates(<<c>>, SomeOrder(states), c.group, TRUE, now)[1]
    IN  SessionMode(found) =>
          ((item.status = "offline") <=>
             /\ IsInWorkTime(c.work, now)
             /\ ~\E s \in found : Session(s) = TargetSession(now) /\ Fresh(s))

\* The unconfigured processes of the list are reports of today that no
\* configuration matches, or generic ones beside the reports of a session: a
\* report of a session that a configuration matches is never among them, not
\* even while the other session is shown; and every report that no
\* configuration matches is listed.
UnconfiguredMeansUnmatched ==
  LET listed == {r \in ToSet(Processes(None)) : ~r.configured}
      row(s) == ProcessRow(StateOnlyProcessItem(s, now))
      matched(s) == \E c \in Cfgs : c.type = "process" /\ s \in Candidates(c, {s})
  IN  /\ \A r \in listed : \E s \in Today("process") :
           r = row(s) /\ (matched(s) => Session(s) = "generic")
      /\ \A s \in Today("process") : ~matched(s) => row(s) \in listed

\* Choosing a group shows exactly the rows the list of all groups has for it,
\* in the same order, although the states are then read for its machines only.
GroupViewsAgree ==
  LET hosts == OsList(None)
      all == Processes(None)
  IN  \A g \in Groups(cfgs) :
        /\ OsList(g) = Filtered(hosts, LAMBDA r : r.group = g)
        /\ Processes(g) = Filtered(all, LAMBDA r : r.group = g)

\* The counts and the lists come from different paths (SQL, counters over
\* items, sorted rows, one page of logs) and agree all the same, for every
\* group and filter: the overview counts the OS rows, the configured processes
\* and the logs that the lists show; the cards are the overview of everything;
\* and the alarm list holds what the overview counts as alarms, of the logs
\* those within one page from the newest.
CardsMatchLists ==
  LET table == SomeOrder(states)
      configured(g) == Filtered(Processes(g), LAMBDA r : r.configured)
      alarms(rows) == CountOf(rows, LAMBDA r : r.alarm = 1)
      shown(rows, onlyError) == IF onlyError THEN alarms(rows) ELSE Len(rows)
      listed(g, level, onlyError) ==
        Cardinality(LogsMatching(cfgs, logs, [group |-> g, machine |-> 0, level |-> level,
                                              onlyError |-> onlyError], Date(now)))
      ofLogs(g, onlyError) == [total |-> listed(g, "", onlyError), alarm |-> listed(g, "", TRUE),
                               error |-> listed(g, "error", FALSE)]
      card(rows) == [total |-> Len(rows), alarm |-> alarms(rows), error |-> alarms(rows)]
  IN  /\ \A g \in Groups(cfgs) \cup {None} :
           LET hosts == OsList(g)
               processes == configured(g)
               list == GetAlarms(cfgs, table, logs, g, now)
           IN  /\ \A onlyError \in BOOLEAN :
                    Overview(cfgs, table, logs, g, onlyError, now) =
                      [os |-> [total |-> shown(hosts, onlyError), alarm |-> alarms(hosts)],
                       process |-> [total |-> shown(processes, onlyError), alarm |-> alarms(processes),
                                    running |-> shown(processes, onlyError) - alarms(processes)],
                       log |-> ofLogs(g, onlyError)]
               /\ Len(list.os) = alarms(hosts) /\ Len(list.process) = alarms(processes)
               /\ Cardinality(list.log) <= listed(g, "", TRUE)
               /\ listed(g, "", FALSE) <= AlarmLogs => Cardinality(list.log) = listed(g, "", TRUE)
      /\ GetTotal(cfgs, table, logs, now) =
           [os |-> card(OsList(None)), process |-> card(configured(None)), log |-> ofLogs(None, FALSE)]

\* Pages asked for one by one make up the OS list: it does not depend on the
\* order in which the database returns the configurations to each request, and
\* every page size cuts it without a gap or an overlap.
PagesMakeUpTheList ==
  LET list == OsList(None)
      pages(size) == [no \in 1..(Len(list) + 1) |-> Page(list, no, size)]
  IN  /\ \A order \in SetToSeqs({c \in Cfgs : c.type = "os"}) :
           OsSnapshot(order, states, None, "", FALSE, now) = list
      /\ \A size \in {1, 2} : FlattenSeq(pages(size)) = list

\* A user who has paged to the end of the log list has seen every log that
\* was there at the start, although the pages shift as logs arrive.
NoLogSkipped ==
  reading # None /\ reading.ended => reading.of \subseteq reading.seen

\* A complete snapshot is shown ("snapshot must return the complete visible
\* set", OmmsDashboard.vue:468): the rows of two configurations are two rows.
CompleteSnapshotShown ==
  \A g \in Groups(cfgs) \cup {None} : LoadOsRows(OsList(g)) = ToSet(OsList(g))

=============================================================================
