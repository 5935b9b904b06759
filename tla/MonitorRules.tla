---------------------------- MODULE MonitorRules ----------------------------
(***************************************************************************)
(* How the monitoring queries turn configuration, reported states and logs *)
(* into the rows of the dashboard (app/services/ops_service.py, the        *)
(* helpers of app/utils/ops_parse.py and the sorting and paging of         *)
(* app/controllers/monitor_overview_controller.py), as pure operators of   *)
(* the rows of the three tables and of the clock.                          *)
(*                                                                         *)
(* Data.  A text (machine, group, key, value, work time) is a natural      *)
(* number, in the order of the texts; 0 is the empty or absent text.       *)
(* Times are numbers of clock units since day 0, None when the column is   *)
(* missing or cannot be parsed.                                            *)
(*   configuration: [type, machine, group, key, value, work]  (enabled)    *)
(*   state row:     [date, type, machine, key, value, time, dat]           *)
(*   dat:           [broken, name, cpu, mem, disk, home]; broken when the  *)
(*                  text is there but gives no data                        *)
(*   log row:       [id, date, machine, level]                             *)
(***************************************************************************)
EXTENDS Integers, FiniteSets, SequencesExt

CONSTANTS DayLength,         \* clock units of a day
          AmStart, PmStart,  \* the clock times at which the sessions change
          Timeout,           \* OPS_OFFLINE_TIMEOUT_MINUTES
          Threshold,         \* alarm threshold of each metric
          Within,            \* pairs <<a, b>> of texts: a is contained in b
          SessionsOf,        \* the sessions the YAML arguments of a value name
          WorkTime,          \* the ranges of a work time text; None: malformed
          Reserved,          \* names a group must not have: "all", "only errors"
          DefaultPageSize, MaxPageSize,
          None

Metrics == {"cpu", "mem", "disk", "home"}
Required == {"cpu", "mem", "disk"}

ASSUME RulesAssumption ==
  /\ DayLength \in Nat \ {0}
  /\ AmStart \in 0..(DayLength - 1)
  /\ PmStart \in 0..(DayLength - 1)
  /\ AmStart < PmStart
  /\ Timeout \in Nat
  /\ MaxPageSize \in Nat \ {0}
  /\ DefaultPageSize \in 1..MaxPageSize
  /\ None \notin Int
  /\ \A work \in DOMAIN WorkTime : \A r \in WorkTime[work] \ {None} :
       r.from \in 0..(DayLength - 1) /\ r.to \in 0..(DayLength - 1)

Bit(p) == IF p THEN 1 ELSE 0

\* The order of Python tuples: a and b have the same length.
Before(a, b) ==
  \E i \in DOMAIN a : a[i] < b[i] /\ \A j \in 1..(i - 1) : a[j] = b[j]

\* Selecting and sorting by ranks: the provers have no definition of SelectSeq
\* and SortSeq to reason with.

\* How many elements of S come before each one in the order R, a set of pairs.
Ranks(S, R) == [x \in S |-> Cardinality({y \in S : <<y, x>> \in R})]

\* The elements of S from the first to the last.
InOrder(S, R) ==
  LET rank == Ranks(S, R)
  IN  [k \in 1..Cardinality(S) |-> CHOOSE x \in S : rank[x] = k - 1]

Arranged(items, I, R) ==
  LET place == InOrder(I, R)
  IN  [k \in 1..Cardinality(I) |-> items[place[k]]]

Rising(I) == {e \in I \X I : e[1] < e[2]}

\* [i for i in items if ...]
ItemsAt(items, I) == Arranged(items, I, Rising(I))
Filtered(items, P(_)) == ItemsAt(items, {i \in DOMAIN items : P(items[i])})

\* Equal keys keep their order.
ByKey(key) == {e \in (DOMAIN key) \X (DOMAIN key) :
                 \/ Before(key[e[1]], key[e[2]])
                 \/ key[e[1]] = key[e[2]] /\ e[1] < e[2]}

\* sorted(items, key=...)
SortedBy(items, key) == Arranged(items, DOMAIN items, ByKey(key))
StableSort(items, KeyOf(_)) == SortedBy(items, [i \in DOMAIN items |-> KeyOf(items[i])])

-----------------------------------------------------------------------------
\* Time.

Clock(now) == now % DayLength
Date(now) == now \div DayLength

IsStale(time, now) == time = None \/ now - time > Timeout

\* Mutant of InRange: no range over midnight.
InRangeSameDay(r, c) == r.from <= c /\ c <= r.to

\* A range whose end is before its start goes over midnight.
InRange(r, c) == \/ r.from <= r.to /\ r.from <= c /\ c <= r.to
                 \/ r.from > r.to /\ (c >= r.from \/ c <= r.to)

\* A missing or malformed work time counts as work time.
IsInWorkTime(work, now) ==
  WorkTime[work] = {} \/ \E r \in WorkTime[work] : r = None \/ InRange(r, Clock(now))

TargetSession(now) ==
  IF AmStart <= Clock(now) /\ Clock(now) < PmStart THEN "am" ELSE "pm"

-----------------------------------------------------------------------------
\* Reading the tables.  cfgs is in the order the database returned it.

\* Mutant of CfgsOf: the group is a part of the name.
CfgsOfLikeGroup(cfgs, type, group) ==
  Filtered(cfgs, LAMBDA c : c.type = type /\ (group = None \/ <<group, c.group>> \in Within))

CfgsOf(cfgs, type, group) ==
  Filtered(cfgs, LAMBDA c : c.type = type /\ group \in {None, c.group})

\* The groups the dashboard offers.
Groups(cfgs) == {cfgs[i].group : i \in DOMAIN cfgs} \ (Reserved \cup {0})

\* Of one day; for a group, of the machines of its configurations only.
StatesFor(states, type, mine, group, now) ==
  {s \in states : /\ s.type = type
                  /\ s.date = Date(now)
                  /\ group = None \/ \E c \in ToSet(mine) : c.machine = s.machine}

Identity(s) == <<s.date, s.type, s.machine, s.key, s.value>>

\* Mutant of LatestKey: ordered by identity alone.
LatestKeyUntimed(s) == <<0, 0, s.machine, s.key, s.value>>

\* The newest of the rows of one day and type, ties broken by identity.
LatestKey(s) ==
  <<Bit(s.time # None), IF s.time = None THEN 0 ELSE s.time, s.machine, s.key, s.value>>

Latest(rows) ==
  IF rows = {} THEN None
  ELSE CHOOSE s \in rows : \A t \in rows \ {s} : Before(LatestKey(t), LatestKey(s))

Abnormal == {"warning", "error", "offline", "unknown"}

-----------------------------------------------------------------------------
\* OS rows.

\* A negative disk_home is no metric.
Usage(dat) ==
  [m \in Metrics |-> IF m = "home" /\ dat[m] # None /\ dat[m] < 0 THEN None ELSE dat[m]]

Alarms(usage) == {m \in Metrics : usage[m] # None /\ usage[m] >= Threshold[m]}

OsStatus(s, usage, working, now) ==
  IF working /\ (s = None \/ IsStale(s.time, now)) THEN "offline"
  ELSE IF s = None THEN "normal"
  ELSE IF \E m \in Required : usage[m] = None THEN "unknown"
  ELSE IF Alarms(usage) # {} THEN "error"
  ELSE "normal"

\* The row of configuration c (None: state-only) and state s (None: no report).
OsItem(c, s, now) ==
  LET working == IF c = None THEN TRUE ELSE IsInWorkTime(c.work, now)
      usage == IF s = None THEN [m \in Metrics |-> None] ELSE Usage(s.dat)
  IN  [machine |-> IF c = None THEN s.machine ELSE c.machine,
       group |-> IF c = None THEN 0 ELSE c.group,
       configured |-> c # None,
       usage |-> usage,
       alarms |-> Alarms(usage),
       status |-> OsStatus(s, usage, working, now),
       time |-> IF s = None THEN None ELSE s.time]

\* Mutant of CfgKey: the configurations keep the order of the database.
CfgKeyUnsorted(c) == <<0>>

CfgKey(c) == <<c.group, c.machine, c.key, c.value, c.work>>

OsStates(cfgs, states, group, now) ==
  LET mine == StableSort(CfgsOf(cfgs, "os", group), CfgKey)
      today == StatesFor(states, "os", mine, group, now)
      latest(machine, key) == Latest({s \in today : s.machine = machine /\ s.key = key})
      keys == {<<mine[i].machine, mine[i].key>> : i \in DOMAIN mine}
      others == IF group # None THEN << >>
                ELSE LET S == {<<s.machine, s.key>> : s \in today} \ keys
                     IN  InOrder(S, {e \in S \X S : Before(e[1], e[2])})
  IN  [i \in DOMAIN mine |-> OsItem(mine[i], latest(mine[i].machine, mine[i].key), now)]
        \o [i \in DOMAIN others |-> OsItem(None, latest(others[i][1], others[i][2]), now)]

-----------------------------------------------------------------------------
\* Process rows.

Candidates(c, states) ==
  {s \in states : /\ s.machine = c.machine
                  /\ <<c.key, s.key>> \in Within
                  /\ c.value = 0 \/ <<c.value, s.value>> \in Within}

Session(s) ==
  LET named == SessionsOf[s.value]
  IN  IF named = {"am"} THEN "am" ELSE IF named = {"pm"} THEN "pm"
      ELSE IF named = {} THEN "generic" ELSE "ambiguous"

SessionMode(candidates) == \E s \in candidates : Session(s) # "generic"

\* Mutant of Owned: only what is shown is accounted for.
OwnedSelected(candidates) == {Latest(candidates)}

\* The candidates a configuration accounts for, shown or not.
Owned(candidates) ==
  IF SessionMode(candidates) THEN {s \in candidates : Session(s) # "generic"}
  ELSE candidates

\* Mutant of Selected: falls back to the newest candidate.
SelectedFallback(candidates, now) ==
  LET target == {s \in candidates : Session(s) = TargetSession(now)}
  IN  Latest(IF target = {} THEN candidates ELSE target)

\* No fallback to the other session, nor to a generic candidate.
Selected(candidates, now) ==
  Latest(IF SessionMode(candidates)
         THEN {s \in candidates : Session(s) = TargetSession(now)}
         ELSE candidates)

ProcessStatus(s, working, now) ==
  IF working /\ (s = None \/ IsStale(s.time, now)) THEN "offline"
  ELSE IF s # None /\ s.dat.broken THEN "unknown"
  ELSE "normal"

ProcessItem(c, s, now) ==
  [machine |-> c.machine, group |-> c.group, name |-> c.key, configured |-> TRUE,
   args |-> IF s # None /\ s.value # 0 THEN s.value ELSE c.value,
   cpu |-> IF s = None THEN None ELSE s.dat.cpu,
   status |-> ProcessStatus(s, IsInWorkTime(c.work, now), now),
   time |-> IF s = None THEN None ELSE s.time]

StateOnlyProcessItem(s, now) ==
  [machine |-> s.machine, group |-> 0, configured |-> FALSE,
   name |-> IF s.dat.name = 0 THEN s.key ELSE s.dat.name,
   args |-> s.value,
   cpu |-> s.dat.cpu,
   status |-> IF IsStale(s.time, now) THEN "offline" ELSE "normal",
   time |-> s.time]

\* The rows no configuration accounts for, in the order of the database.
Unmatched(cfgs, rows) ==
  Filtered(rows, LAMBDA s :
    \A i \in DOMAIN cfgs : s \notin Owned(Candidates(cfgs[i], ToSet(rows))))

ProcessStates(cfgs, states, group, withStateOnly, now) ==
  LET mine == CfgsOf(cfgs, "process", group)
      today == StatesFor(ToSet(states), "process", mine, group, now)
      others == IF withStateOnly /\ group = None
                THEN Unmatched(mine, Filtered(states, LAMBDA s : s \in today))
                ELSE << >>
  IN  [i \in DOMAIN mine |->
         ProcessItem(mine[i], Selected(Candidates(mine[i], today), now), now)]
        \o [i \in DOMAIN others |-> StateOnlyProcessItem(others[i], now)]

-----------------------------------------------------------------------------
\* Logs, newest first, and the counts of the overview.

MachinesOf(cfgs, group) == {cfgs[i].machine : i \in {j \in DOMAIN cfgs : cfgs[j].group = group}}

\* Mutant of LogsMatching: only errors are alarms.
LogsMatchingErrors(cfgs, logs, q, date) ==
  {l \in logs : /\ l.date = date
                /\ q.machine \in {0, l.machine}
                /\ q.level # "" => l.level = q.level
                /\ q.level = "" /\ q.onlyError => l.level = "error"
                /\ q.group = None \/ l.machine \in MachinesOf(cfgs, q.group)}

\* An explicit level is more specific than "only errors".
LogsMatching(cfgs, logs, q, date) ==
  {l \in logs : /\ l.date = date
                /\ q.machine \in {0, l.machine}
                /\ q.level # "" => l.level = q.level
                /\ q.level = "" /\ q.onlyError => l.level \in {"warn", "error"}
                /\ q.group = None \/ l.machine \in MachinesOf(cfgs, q.group)}

\* Position of a log in the list ordered by log_id descending.
Rank(l, list) == Cardinality({m \in list : m.id >= l.id})

\* Mutant of LogPage: the offset is one too large.
LogPageShifted(list, no, size) ==
  {l \in list : (no - 1) * size + 1 < Rank(l, list) /\ Rank(l, list) <= no * size + 1}

LogPage(list, no, size) ==
  {l \in list : (no - 1) * size < Rank(l, list) /\ Rank(l, list) <= no * size}

CountOf(items, P(_)) == Cardinality({i \in DOMAIN items : P(items[i])})

\* With "only errors": the items whose status is abnormal.
FilterErrorItems(items, onlyError) ==
  Filtered(items, LAMBDA i : onlyError => i.status \in Abnormal)

\* Counted from the levels, not with the filters of the log list.
LogStats(cfgs, logs, group, onlyError, now) ==
  LET mine == {l \in logs : /\ l.date = Date(now)
                            /\ group = None \/ l.machine \in MachinesOf(cfgs, group)}
      of(levels) == Cardinality({l \in mine : l.level \in levels})
  IN  [total |-> IF onlyError THEN of({"error"}) + of({"warn"}) ELSE Cardinality(mine),
       alarm |-> of({"error"}) + of({"warn"}),
       error |-> of({"error"})]

\* The processes without a configuration are not counted.
Overview(cfgs, states, logs, group, onlyError, now) ==
  LET hosts == FilterErrorItems(OsStates(cfgs, ToSet(states), group, now), onlyError)
      processes == FilterErrorItems(ProcessStates(cfgs, states, group, FALSE, now), onlyError)
      alarms(items) == CountOf(items, LAMBDA i : i.status \in Abnormal)
  IN  [os |-> [total |-> Len(hosts), alarm |-> alarms(hosts)],
       process |-> [total |-> Len(processes), alarm |-> alarms(processes),
                    running |-> CountOf(processes, LAMBDA i : i.status = "normal")],
       log |-> LogStats(cfgs, logs, group, onlyError, now)]

\* The cards: for hosts and processes every alarm counts as an error.
GetTotal(cfgs, states, logs, now) ==
  LET o == Overview(cfgs, states, logs, None, FALSE, now)
      card(stats) == [total |-> stats.total, alarm |-> stats.alarm, error |-> stats.alarm]
  IN  [os |-> card(o.os), process |-> card(o.process), log |-> o.log]

\* get_alarms: the abnormal hosts and configured processes, then the alarms
\* among the newest logs, of which one page is read.
AlarmLogs == IF MaxPageSize < 200 THEN MaxPageSize ELSE 200
GetAlarms(cfgs, states, logs, group, now) ==
  LET every == [group |-> group, machine |-> 0, level |-> "", onlyError |-> FALSE]
      newest == LogPage(LogsMatching(cfgs, logs, every, Date(now)), 1, AlarmLogs)
  IN  [os |-> FilterErrorItems(OsStates(cfgs, ToSet(states), group, now), TRUE),
       process |-> FilterErrorItems(ProcessStates(cfgs, states, group, FALSE, now), TRUE),
       log |-> {l \in newest : l.level \in {"warn", "error"}}]

-----------------------------------------------------------------------------
\* What the controller returns: rows, sorted, then cut into pages.

OsRow(i) == [machine |-> i.machine, group |-> i.group, configured |-> i.configured,
             usage |-> i.usage, alarms |-> i.alarms, time |-> i.time,
             offline |-> Bit(i.status = "offline"), alarm |-> Bit(i.status \in Abnormal)]

ProcessRow(i) == [machine |-> i.machine, group |-> i.group, configured |-> i.configured,
                  name |-> i.name, args |-> i.args, cpu |-> i.cpu, time |-> i.time,
                  offline |-> Bit(i.status = "offline"), alarm |-> Bit(i.status \in Abnormal)]

\* Grouped rows first, then machine, configured first, newest first.
OsIdentityKey(r) ==
  <<Bit(r.group = 0), r.group, r.machine, Bit(~r.configured),
    Bit(r.time = None), IF r.time = None THEN 0 ELSE -r.time>>

FieldOf(r, by) == IF by \in Required THEN r.usage[by] ELSE r[by]

\* sort_by = "": alarms first.  Otherwise missing values last, in both orders.
SortOs(rows, by, desc) ==
  IF by = "" THEN StableSort(rows, LAMBDA r : <<-r.alarm, -r.offline>> \o OsIdentityKey(r))
  ELSE LET ordered == StableSort(rows, OsIdentityKey)
           present == Filtered(ordered, LAMBDA r : FieldOf(r, by) # None)
           missing == Filtered(ordered, LAMBDA r : FieldOf(r, by) = None)
       IN  StableSort(present, LAMBDA r : <<IF desc THEN -FieldOf(r, by) ELSE FieldOf(r, by)>>)
             \o missing

\* A process without the field comes last, and first in descending order.
SortProcess(rows, by, desc) ==
  IF by = "" THEN StableSort(rows, LAMBDA r : <<-r.alarm, -r.offline, r.machine, r.name>>)
  ELSE LET key(r) == IF r[by] = None THEN <<1, 0>> ELSE <<0, r[by]>>
       IN  StableSort(rows, LAMBDA r : IF desc THEN <<-key(r)[1], -key(r)[2]>> ELSE key(r))

RowsOf(items, RowOf(_)) == [i \in DOMAIN items |-> RowOf(items[i])]

OsSnapshot(cfgs, states, group, by, desc, now) ==
  SortOs(RowsOf(OsStates(cfgs, states, group, now), OsRow), by, desc)

ProcessList(cfgs, states, group, by, desc, now) ==
  SortProcess(RowsOf(ProcessStates(cfgs, states, group, TRUE, now), ProcessRow), by, desc)

\* A missing or zero number is the default.
PageNo(n) == IF n = None \/ n < 1 THEN 1 ELSE n
PageSize(n) == IF n = None \/ n = 0 THEN DefaultPageSize
               ELSE IF n < 1 THEN 1 ELSE IF n > MaxPageSize THEN MaxPageSize ELSE n

Page(rows, no, size) ==
  LET start == (PageNo(no) - 1) * PageSize(size)
      end == start + PageSize(size)
  IN  SubSeq(rows, start + 1, IF end < Len(rows) THEN end ELSE Len(rows))

-----------------------------------------------------------------------------
\* What the dashboard does with an OS snapshot.

\* Rows alike in every visible field are shown once.
DedupeOsRows(rows) == ToSet(rows)

\* The rows shown, None when the snapshot is refused as incomplete.
LoadOsRows(snapshot) ==
  IF Cardinality(DedupeOsRows(snapshot)) < Len(snapshot) THEN None ELSE DedupeOsRows(snapshot)

=============================================================================
