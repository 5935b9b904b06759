-------------------------- MODULE MonitoringProofs --------------------------
(***************************************************************************)
(* Theorems about Monitoring, for all configurations, reports, clocks and  *)
(* page sizes.                                                             *)
(***************************************************************************)
EXTENDS Monitoring, MonitorRulesProofs

-----------------------------------------------------------------------------
\* The clock.

\* Division leaves one remainder.
LEMMA Remainder ==
  ASSUME NEW d \in Nat \ {0}, NEW q \in Int, NEW r \in 0..(d - 1)
  PROVE  (d * q + r) % d = r
BY Z3

\* The way from hour f to the hour of time t.
LEMMA HoursSince ==
  ASSUME NEW t \in Int, NEW f \in 0..(DayLength - 1)
  PROVE  /\ Clock(t) \in 0..(DayLength - 1)
         /\ (t - f) % DayLength
              = IF f <= Clock(t) THEN Clock(t) - f ELSE Clock(t) - f + DayLength
<1> DEFINE d == DayLength
           q == t \div d
           c == t % d
<1>1. d \in Nat \ {0}
  BY RulesAssumption
<1> HIDE DEF d
<1>2. q \in Int /\ c \in 0..(d - 1) /\ t = d * q + c
  BY <1>1, Z3
<1> HIDE DEF q, c
<1>3. CASE f <= c
  <2>1. c - f \in 0..(d - 1) /\ t - f = d * q + (c - f)
    BY <1>1, <1>2, <1>3 DEF d
  <2>2. (t - f) % d = c - f
    BY ONLY <1>1, <1>2, <2>1, Remainder
  <2> QED
    BY <1>2, <1>3, <2>2 DEF Clock, c, d
<1>4. CASE f > c
  <2>1. c - f + d \in 0..(d - 1) /\ q - 1 \in Int
    BY <1>1, <1>2, <1>4 DEF d
  <2>2. d * (q - 1) = d * q - d
    BY ONLY <1>1, <1>2, Z3
  <2>3. d * q \in Int
    BY ONLY <1>1, <1>2, Z3
  <2>4. t - f = d * (q - 1) + (c - f + d)
    BY <1>1, <1>2, <2>2, <2>3 DEF d
  <2>5. (t - f) % d = c - f + d
    BY ONLY <1>1, <2>1, <2>4, Remainder
  <2> QED
    BY <1>2, <1>4, <2>5 DEF Clock, c, d
<1> QED
  BY <1>1, <1>2, <1>3, <1>4 DEF d


-----------------------------------------------------------------------------
(***************************************************************************)
(* Rows that are reports, logs numbered in the order they came: what       *)
(* TypeOK says, and that an id names one log.                              *)
(***************************************************************************)

LogsOK == /\ IsFiniteSet(logs)
          /\ \A l \in logs : l.id \in 1..Cardinality(logs)
          /\ \A l, m \in logs : l.id = m.id => l = m

\* A new log is numbered after all the others.
LEMMA LogAppended ==
  ASSUME LogsOK, NEW line \in Lines, NEW t, Log(line, t)
  PROVE  /\ LogsOK'
         /\ Cardinality(logs') = Cardinality(logs) + 1
<1> DEFINE n == Cardinality(logs)
           new == [id |-> n + 1, date |-> Date(t),
                   machine |-> line.machine, level |-> line.level]
<1>1. n \in Nat
  BY FS_CardinalityType DEF LogsOK
<1>2. logs' = logs \cup {new}
  BY DEF Log
<1>3. new \notin logs
  <2>1. new.id = n + 1
    OBVIOUS
  <2> QED
    BY <1>1, <2>1 DEF LogsOK
<1>4. IsFiniteSet(logs') /\ Cardinality(logs') = n + 1
  BY <1>2, <1>3, FS_AddElement DEF LogsOK
<1>5. new.id = n + 1
  OBVIOUS
<1> HIDE DEF new
<1>6. \A l \in logs' : l.id \in 1..Cardinality(logs')
  BY <1>1, <1>2, <1>4, <1>5 DEF LogsOK
<1>7. \A l, m \in logs' : l.id = m.id => l = m
  BY <1>1, <1>2, <1>5 DEF LogsOK
<1> QED
  BY <1>4, <1>6, <1>7 DEF LogsOK

\* Logs are numbered without a clash.
THEOREM LogsNumbered == Spec => []LogsOK
<1>1. Init => LogsOK
  BY FS_EmptySet DEF Init, LogsOK
<1>2. LogsOK /\ [Next]_vars => LogsOK'
  <2> SUFFICES ASSUME LogsOK, [Next]_vars
               PROVE  LogsOK'
    OBVIOUS
  <2>1. CASE UNCHANGED logs
    BY <2>1 DEF LogsOK
  <2>2. CASE \E line \in Lines, t \in Times \ {None} : Log(line, t)
    BY <2>2, LogAppended
  <2> QED
    BY <2>1, <2>2 DEF Next, vars, Tick, Report, OpenLogs, NextPage
<1> QED
  BY <1>1, <1>2, PTL DEF Spec

-----------------------------------------------------------------------------
(* Type correctness. *)

\* The parts of TypeOK: the clock, the rows, the logs, the reading.
ClockOK == now \in StartTime..MaxTime /\ events \in 0..MaxEvents

ReportOf(s, r, t) ==
  /\ s = [date |-> s.date, type |-> r.type, machine |-> r.machine, key |-> r.key,
          value |-> r.value, time |-> s.time, dat |-> r.dat]
  /\ s.date = Date(t) /\ s.time \in {t, None}

StatesOK == \A s \in states : \E r \in Reports, t \in StartTime..now : ReportOf(s, r, t)

LineOf(l) ==
  /\ l = [id |-> l.id, date |-> l.date, machine |-> l.machine, level |-> l.level]
  /\ \E t \in StartTime..now : l.date = Date(t)
  /\ [machine |-> l.machine, level |-> l.level] \in Lines

LinesOK == \A l \in logs : LineOf(l)

ReadingOK == reading = None \/ /\ reading.query \in LogQueries
                               /\ reading.seen \cup reading.of \subseteq Ids(logs)

TypeInv == ClockOK /\ StatesOK /\ LogsOK /\ LinesOK /\ ReadingOK

\* The type invariant follows from its parts.
LEMMA TypeInvIsTypeOK == TypeInv => TypeOK
BY DEF TypeInv, TypeOK, ClockOK, StatesOK, ReportOf, LogsOK, LinesOK, LineOf, ReadingOK

\* A row written for a report is a row of that report.
LEMMA RowReported ==
  ASSUME ClockOK, NEW r \in Reports, NEW t \in Times
  PROVE  \E u \in StartTime..now : ReportOf(Row(r, t), r, u)
<1>1. now \in StartTime..now
  BY MonitoringAssumption DEF ClockOK
<1>2. CASE t = None
  BY <1>1, <1>2 DEF Row, ReportOf
<1>3. CASE t # None
  <2>1. t \in StartTime..now
    BY <1>3, MonitoringAssumption DEF Times, ClockOK
  <2> QED
    BY <1>3, <2>1 DEF Row, ReportOf
<1> QED
  BY <1>2, <1>3

\* Every page shows logs of the table.
LEMMA PageShowsLogs ==
  ASSUME NEW q, NEW no
  PROVE  Ids(List(q)) \subseteq Ids(logs) /\ Ids(LogPage(List(q), no, LogPageSize)) \subseteq Ids(logs)
BY DEF Ids, List, LogPage, LogsMatching

\* The step of each action.
LEMMA TypeInvStep == TypeInv /\ [Next]_vars => TypeInv'
<1> SUFFICES ASSUME TypeInv, [Next]_vars
             PROVE  TypeInv'
  OBVIOUS
<1> USE DEF TypeInv
<1>1. CASE Tick
  <2>1. ClockOK' /\ now' = now + 1 /\ now \in Nat
    BY <1>1, MonitoringAssumption DEF Tick, ClockOK
  <2>2. StatesOK'
    <3> SUFFICES ASSUME NEW s \in states
                 PROVE  \E r \in Reports, t \in StartTime..now' : ReportOf(s, r, t)
      BY <1>1 DEF Tick, StatesOK, ReportOf
    <3>1. PICK r \in Reports, t \in StartTime..now : ReportOf(s, r, t)
      BY DEF StatesOK
    <3>2. t \in StartTime..now'
      BY <2>1, MonitoringAssumption
    <3> QED
      BY <3>1, <3>2
  <2>3. LinesOK'
    <3> SUFFICES ASSUME NEW l \in logs
                 PROVE  LineOf(l)'
      BY <1>1 DEF Tick, LinesOK
    <3>1. LineOf(l)
      BY DEF LinesOK
    <3>2. \A t \in StartTime..now : t \in StartTime..now'
      BY <2>1, MonitoringAssumption
    <3> QED
      BY <3>1, <3>2 DEF LineOf
  <2>4. LogsOK' /\ ReadingOK'
    BY <1>1 DEF Tick, LogsOK, ReadingOK, Ids
  <2> QED
    BY <2>1, <2>2, <2>3, <2>4
<1>2. CASE \E r \in Reports, t \in Times : Report(r, t)
  <2>1. PICK r \in Reports, t \in Times : Report(r, t)
    BY <1>2
  <2>2. ClockOK'
    BY <2>1, MonitoringAssumption DEF Report, ClockOK
  <2>3. StatesOK'
    <3>1. PICK u \in StartTime..now : ReportOf(Row(r, t), r, u)
      BY RowReported
    <3>2. states' \subseteq states \cup {Row(r, t)} /\ now' = now
      BY <2>1 DEF Report
    <3> SUFFICES ASSUME NEW s \in states'
                 PROVE  \E r1 \in Reports, t1 \in StartTime..now : ReportOf(s, r1, t1)
      BY <3>2 DEF StatesOK, ReportOf
    <3>3. CASE s \in states
      BY <3>3 DEF StatesOK
    <3>4. CASE s = Row(r, t)
      BY <3>1, <3>4
    <3> QED
      BY <3>2, <3>3, <3>4
  <2>4. LogsOK' /\ LinesOK' /\ ReadingOK'
    BY <2>1 DEF Report, LogsOK, LinesOK, LineOf, ReadingOK, Ids
  <2> QED
    BY <2>2, <2>3, <2>4
<1>3. CASE \E line \in Lines, t \in Times \ {None} : Log(line, t)
  <2>1. PICK line \in Lines, t \in Times \ {None} : Log(line, t)
    BY <1>3
  <2> DEFINE new == [id |-> Cardinality(logs) + 1, date |-> Date(t),
                     machine |-> line.machine, level |-> line.level]
  <2>2. ClockOK' /\ StatesOK'
    BY <2>1, MonitoringAssumption DEF Log, ClockOK, StatesOK, ReportOf
  <2>3. LogsOK'
    BY <2>1, LogAppended
  <2>4. logs' = logs \cup {new} /\ now' = now /\ reading' = reading
    BY <2>1 DEF Log
  <2>5. LineOf(new)
    <3>1. t \in StartTime..now
      BY MonitoringAssumption DEF Times, ClockOK
    <3>2. [machine |-> line.machine, level |-> line.level] \in Lines
      BY MonitoringAssumption
    <3> QED
      BY <3>1, <3>2 DEF LineOf
  <2>6. LinesOK'
    BY <2>4, <2>5 DEF LinesOK, LineOf
  <2>7. ReadingOK'
    BY <2>4 DEF ReadingOK, Ids
  <2> QED
    BY <2>2, <2>3, <2>6, <2>7
<1>4. CASE \E q \in LogQueries : OpenLogs(q)
  <2>1. PICK q \in LogQueries : OpenLogs(q)
    BY <1>4
  <2>2. ClockOK' /\ StatesOK' /\ LogsOK' /\ LinesOK'
    BY <2>1 DEF OpenLogs, ClockOK, StatesOK, ReportOf, LogsOK, LinesOK, LineOf
  <2>3. ReadingOK'
    BY <2>1, PageShowsLogs DEF OpenLogs, Shown, ReadingOK, Ids
  <2> QED
    BY <2>2, <2>3
<1>5. CASE NextPage
  <2>1. ClockOK' /\ StatesOK' /\ LogsOK' /\ LinesOK'
    BY <1>5 DEF NextPage, ClockOK, StatesOK, ReportOf, LogsOK, LinesOK, LineOf
  <2>2. ReadingOK'
    BY <1>5, PageShowsLogs DEF NextPage, Shown, ReadingOK, Ids
  <2> QED
    BY <2>1, <2>2
<1>6. CASE UNCHANGED vars
  BY <1>6 DEF vars, ClockOK, StatesOK, ReportOf, LogsOK, LinesOK, LineOf, ReadingOK, Ids
<1> QED
  BY <1>1, <1>2, <1>3, <1>4, <1>5, <1>6 DEF Next

\* The tables are empty at first.
LEMMA InitTyped == Init => TypeInv
BY FS_EmptySet, MonitoringAssumption
   DEF Init, TypeInv, ClockOK, StatesOK, LogsOK, LinesOK, ReadingOK

\* Every row of ops_state is a report of its day, every log a line of a host
\* numbered in the order it came, and a reader has seen logs that exist.
THEOREM TypeCorrect == Spec => []TypeOK
BY InitTyped, TypeInvStep, TypeInvIsTypeOK, PTL DEF Spec

-----------------------------------------------------------------------------
(* Work time. *)

\* Walking from the start of a range one meets the time before the end.
LEMMA InRangeIsAnArc ==
  ASSUME NEW t \in Int, NEW from \in 0..(DayLength - 1), NEW to \in 0..(DayLength - 1),
         NEW r, r.from = from, r.to = to
  PROVE  InRange(r, Clock(t)) <=> (t - from) % DayLength <= (to - from) % DayLength
<1>1. DayLength \in Nat \ {0}
  BY RulesAssumption
<1>2. Clock(t) \in 0..(DayLength - 1)
      /\ (t - from) % DayLength
           = IF from <= Clock(t) THEN Clock(t) - from ELSE Clock(t) - from + DayLength
  BY HoursSince
<1>3. Clock(to) = to
  <2>1. to = DayLength * 0 + to
    BY <1>1
  <2>2. (DayLength * 0 + to) % DayLength = to
    BY ONLY <1>1, Remainder, to \in 0..(DayLength - 1)
  <2> QED
    BY <2>1, <2>2 DEF Clock
<1>4. (to - from) % DayLength = IF from <= to THEN to - from ELSE to - from + DayLength
  <2>1. to \in Int
    BY <1>1
  <2> QED
    BY <1>3, <2>1, HoursSince
<1> QED
  BY <1>1, <1>2, <1>4 DEF InRange

\* Whatever the hours of a range, is_in_work_time holds on the arc of the clock
\* from its start to its end.
THEOREM WorkTimeCorrect == Spec => []WorkTimeIsAnArc
<1>1. ClockOK => WorkTimeIsAnArc
  <2> SUFFICES ASSUME ClockOK, NEW c \in Cfgs, NEW r \in WorkTime[c.work] \ {None}
               PROVE  InRange(r, Clock(now))
                        <=> (now - r.from) % DayLength <= (r.to - r.from) % DayLength
    BY DEF WorkTimeIsAnArc, IsInWorkTime
  <2>1. now \in Int
    BY MonitoringAssumption DEF ClockOK
  <2>2. r.from \in 0..(DayLength - 1) /\ r.to \in 0..(DayLength - 1)
    BY RulesAssumption, MonitoringAssumption
  <2> QED
    BY <2>1, <2>2, InRangeIsAnArc
<1>2. Spec => []TypeInv
  BY InitTyped, TypeInvStep, PTL DEF Spec
<1>3. TypeInv => ClockOK
  BY DEF TypeInv
<1> QED
  BY <1>1, <1>2, <1>3, PTL

-----------------------------------------------------------------------------
(***************************************************************************)
(* Paging.  What a reader has been shown after a number of pages: every    *)
(* log that was there at the start and is now among the first so many of   *)
(* the list.  A log that arrives only moves the others down.               *)
(***************************************************************************)

\* The logs named in of are in the list L; those of its first n are in seen.
NamedIn(L, of) == \A i \in of : \E l \in L : l.id = i
ReadTo(n, L, of, seen) == \A l \in L : l.id \in of /\ Rank(l, L) <= n => l.id \in seen
HasIds(L) == IsFiniteSet(L) /\ \A l \in L : l.id \in Int

ListOf(day) == LogsMatching(cfgs, logs, reading.query, day)

PagesRead ==
  reading # None =>
    /\ reading.page \in Nat
    /\ NamedIn(ListOf(reading.date), reading.of)
    /\ ReadTo(reading.page * LogPageSize, ListOf(reading.date), reading.of, reading.seen)
    /\ reading.ended => reading.of \subseteq reading.seen

\* A log's position in a list it belongs to, and in a longer list.
LEMMA RankBounds ==
  ASSUME NEW S, IsFiniteSet(S), NEW l \in S, l.id \in Int
  PROVE  Rank(l, S) \in Nat /\ 0 < Rank(l, S) /\ Rank(l, S) <= Cardinality(S)
<1> DEFINE R == {m \in S : m.id >= l.id}
<1>1. l \in R
  OBVIOUS
<1>2. R \subseteq S
  OBVIOUS
<1>3. IsFiniteSet(R) /\ Cardinality(R) <= Cardinality(S)
  BY <1>2, FS_Subset
<1>4. Cardinality(R) \in Nat /\ Cardinality(R) # 0
  BY <1>1, <1>3, FS_CardinalityType, FS_EmptySet
<1> QED
  BY <1>3, <1>4 DEF Rank

LEMMA RankGrows ==
  ASSUME NEW S, NEW T, IsFiniteSet(T), S \subseteq T, NEW l
  PROVE  Rank(l, S) <= Rank(l, T)
<1> DEFINE RS == {m \in S : m.id >= l.id}
           RT == {m \in T : m.id >= l.id}
<1>1. RS \subseteq RT /\ RT \subseteq T
  OBVIOUS
<1>2. IsFiniteSet(RT)
  BY <1>1, FS_Subset
<1>3. Cardinality(RS) <= Cardinality(RT)
  BY <1>1, <1>2, FS_Subset
<1> QED
  BY <1>3 DEF Rank

\* Page no of a list adds what pages 1 to no - 1 left out up to its end.
LEMMA PageAdds ==
  ASSUME NEW L, HasIds(L), NEW no \in Nat \ {0}, NEW of, NEW seen, NEW seen2,
         NEW low, low = (no - 1) * LogPageSize, NEW high, high = no * LogPageSize,
         seen2 = seen \cup Ids(LogPage(L, no, LogPageSize)),
         NamedIn(L, of), ReadTo(low, L, of, seen)
  PROVE  /\ ReadTo(high, L, of, seen2)
         /\ high >= Cardinality(L) => of \subseteq seen2
<1> USE DEF HasIds, NamedIn, ReadTo
<1>1. low \in Int /\ high \in Int
  BY MonitoringAssumption
<1>2. \A l \in L : l.id \in of /\ Rank(l, L) <= high => l.id \in seen2
  <2> SUFFICES ASSUME NEW l \in L, l.id \in of, Rank(l, L) <= high
               PROVE  l.id \in seen2
    OBVIOUS
  <2>1. Rank(l, L) \in Nat
    BY RankBounds
  <2>2. CASE Rank(l, L) <= low
    BY <2>2
  <2>3. CASE low < Rank(l, L)
    BY <2>3 DEF LogPage, Ids
  <2> QED
    BY <1>1, <2>1, <2>2, <2>3
<1>3. ASSUME high >= Cardinality(L)
      PROVE  of \subseteq seen2
  <2> SUFFICES ASSUME NEW i \in of
               PROVE  i \in seen2
    OBVIOUS
  <2>1. PICK l \in L : l.id = i
    OBVIOUS
  <2>2. Rank(l, L) \in Nat /\ Rank(l, L) <= Cardinality(L) /\ Cardinality(L) \in Nat
    BY RankBounds, FS_CardinalityType
  <2>3. Rank(l, L) <= high
    BY <1>1, <1>3, <2>2
  <2> QED
    BY <1>2, <2>1, <2>3
<1> QED
  BY <1>2, <1>3

\* The list of a query holds logs, finitely many, with their numbers.
LEMMA ListFinite ==
  ASSUME LogsOK, NEW q, NEW day
  PROVE  /\ HasIds(LogsMatching(cfgs, logs, q, day))
         /\ LogsMatching(cfgs, logs, q, day) \subseteq logs
<1>1. LogsMatching(cfgs, logs, q, day) \subseteq logs
  BY DEF LogsMatching
<1>2. \A l \in logs : l.id \in Int
  BY DEF LogsOK
<1> QED
  BY <1>1, <1>2, FS_Subset DEF LogsOK, HasIds

\* One step of a reading, or of the rest of the system.
LEMMA PagesReadStep ==
  ASSUME LogsOK, PagesRead, [Next]_vars
  PROVE  PagesRead'
<1>1. CASE \E line \in Lines, t \in Times \ {None} : Log(line, t)
  <2>1. PICK line \in Lines, t \in Times \ {None} : Log(line, t)
    BY <1>1
  <2> SUFFICES ASSUME reading # None
               PROVE  PagesRead'
    BY <2>1 DEF Log, PagesRead
  <2> DEFINE L == ListOf(reading.date)
             M == LogsMatching(cfgs, logs', reading.query, reading.date)
  <2>2. LogsOK' /\ logs \subseteq logs' /\ reading' = reading
    BY <2>1, LogAppended DEF Log
  <2>3. L \subseteq M /\ M \subseteq logs' /\ L \subseteq logs
    BY <2>2 DEF ListOf, LogsMatching
  <2>4. IsFiniteSet(M) /\ \A l \in M : l.id \in Int
    BY <2>2, <2>3, FS_Subset DEF LogsOK
  <2>5. IsFiniteSet(L) /\ \A l \in L : l.id \in Int
    BY ListFinite DEF ListOf, HasIds
  <2>6. \A l, m \in logs' : l.id = m.id => l = m
    BY <2>2 DEF LogsOK
  <2>7. ASSUME NEW l \in M, l.id \in reading.of, Rank(l, M) <= reading.page * LogPageSize
        PROVE  l.id \in reading.seen
    <3>1. PICK m \in L : m.id = l.id
      BY <2>7 DEF PagesRead, NamedIn
    <3>2. l \in L
      BY <2>2, <2>3, <2>6, <3>1
    <3>3. Rank(l, L) <= Rank(l, M) /\ Rank(l, L) \in Nat /\ Rank(l, M) \in Nat
      BY <2>3, <2>4, <2>5, <3>2, RankGrows, RankBounds
    <3>4. reading.page * LogPageSize \in Int
      BY MonitoringAssumption DEF PagesRead
    <3>5. Rank(l, L) <= reading.page * LogPageSize
      BY <2>7, <3>3, <3>4
    <3> QED
      BY <2>7, <3>2, <3>5 DEF PagesRead, ReadTo
  <2>8. ReadTo(reading.page * LogPageSize, M, reading.of, reading.seen)
    BY <2>7 DEF ReadTo
  <2>9. NamedIn(M, reading.of)
    BY <2>3 DEF PagesRead, NamedIn
  <2>10. ListOf(reading.date)' = M
    BY <2>2 DEF ListOf
  <2> QED
    BY <2>2, <2>8, <2>9, <2>10 DEF PagesRead
<1>2. CASE \E q \in LogQueries : OpenLogs(q)
  <2>1. PICK q \in LogQueries : OpenLogs(q)
    BY <1>2
  <2> DEFINE L == List(q)
             of == Ids(L)
             seen2 == {} \cup Ids(LogPage(L, 1, LogPageSize))
  <2>2. HasIds(L)
    BY ListFinite DEF List
  <2>3. NamedIn(L, of)
    BY DEF Ids, NamedIn
  <2> DEFINE one == 1
             high == one * LogPageSize
  <2>4. one \in Nat \ {0} /\ (one - 1) * LogPageSize = 0
    BY MonitoringAssumption
  <2>5. ReadTo(0, L, of, {})
    <3> HIDE DEF L
    <3>1. \A l \in L : 0 < Rank(l, L) /\ Rank(l, L) \in Nat
      BY <2>2, RankBounds DEF HasIds
    <3> QED
      BY <3>1 DEF ReadTo
  <2>6. seen2 = {} \cup Ids(LogPage(L, one, LogPageSize)) /\ high = one * LogPageSize
    OBVIOUS
  <2>7. /\ reading'.query = q /\ reading'.date = Date(now) /\ reading'.page = one
        /\ reading'.of = of /\ reading'.seen = seen2
        /\ reading'.ended = (high >= Cardinality(L))
        /\ logs' = logs
    BY <2>1 DEF OpenLogs, Shown
  <2>8. ListOf(reading.date)' = L
    BY <2>7 DEF ListOf, List
  <2> HIDE DEF L, of, seen2, one, high
  <2>9. ReadTo(high, L, of, seen2) /\ (high >= Cardinality(L) => of \subseteq seen2)
    BY ONLY <2>2, <2>3, <2>4, <2>5, <2>6, PageAdds
  <2> QED
    BY <2>3, <2>4, <2>6, <2>7, <2>8, <2>9 DEF PagesRead
<1>3. CASE NextPage
  <2> DEFINE L == List(reading.query)
             of == reading.of
             seen == reading.seen
             no == reading.page + 1
             low == reading.page * LogPageSize
             high == no * LogPageSize
             seen2 == reading.seen \cup Ids(LogPage(L, no, LogPageSize))
  <2>1. reading # None /\ L = ListOf(reading.date)
    BY <1>3 DEF NextPage, List, ListOf
  <2>2. HasIds(L)
    BY ListFinite DEF List
  <2>3. NamedIn(L, of)
    BY <2>1 DEF PagesRead
  <2>4. no \in Nat \ {0} /\ no - 1 = reading.page
    BY <2>1 DEF PagesRead
  <2>5. ReadTo(low, L, of, seen)
    BY <2>1 DEF PagesRead
  <2>6. /\ low = (no - 1) * LogPageSize /\ high = no * LogPageSize
        /\ seen2 = seen \cup Ids(LogPage(L, no, LogPageSize))
    BY <2>4
  <2>7. /\ reading'.query = reading.query /\ reading'.date = reading.date
        /\ reading'.page = no /\ reading'.of = of /\ reading'.seen = seen2
        /\ reading'.ended = (high >= Cardinality(L))
        /\ logs' = logs
    BY <1>3 DEF NextPage, Shown
  <2>8. ListOf(reading.date)' = L
    BY <2>1, <2>7 DEF ListOf
  <2> HIDE DEF L, of, seen, no, low, high, seen2
  <2>9. ReadTo(high, L, of, seen2) /\ (high >= Cardinality(L) => of \subseteq seen2)
    BY ONLY <2>2, <2>3, <2>4, <2>5, <2>6, PageAdds
  <2> QED
    BY <2>3, <2>4, <2>6, <2>7, <2>8, <2>9 DEF PagesRead
<1>4. CASE UNCHANGED <<logs, reading>>
  BY <1>4 DEF PagesRead, ListOf
<1> QED
  BY <1>1, <1>2, <1>3, <1>4 DEF Next, vars, Tick, Report

\* A user who pages to the end of the log list has seen every log that was
\* there at the start, however many arrive meanwhile.
THEOREM LogPagesComplete == Spec => []NoLogSkipped
<1>1. Init => PagesRead
  BY DEF Init, PagesRead
<1>2. PagesRead => NoLogSkipped
  BY DEF PagesRead, NoLogSkipped
<1> QED
  BY <1>1, <1>2, LogsNumbered, PagesReadStep, PTL DEF Spec

-----------------------------------------------------------------------------
(***************************************************************************)
(* The rows of ops_state: finitely many, and one of each identity, because *)
(* a report replaces the row of its identity.                              *)
(***************************************************************************)

Told == /\ IsFiniteSet(states)
        /\ \A s, t \in states : Identity(s) = Identity(t) => s = t

Inv == TypeInv /\ Told

LEMMA ToldStep ==
  ASSUME Told, [Next]_vars
  PROVE  Told'
<1>1. CASE \E r \in Reports, t \in Times : Report(r, t)
  <2>1. PICK r \in Reports, t \in Times : Report(r, t)
    BY <1>1
  <2> DEFINE row == Row(r, t)
             kept == {s \in states : Identity(s) # Identity(row)}
  <2>2. states' = kept \cup {row}
    BY <2>1 DEF Report
  <2>3. kept \in SUBSET states /\ \A s \in kept : Identity(s) # Identity(row)
    OBVIOUS
  <2> HIDE DEF row, kept
  <2>4. IsFiniteSet(states')
    BY <2>2, <2>3, FS_Subset, FS_AddElement DEF Told
  <2>5. ASSUME NEW s \in states', NEW t1 \in states', Identity(s) = Identity(t1)
        PROVE  s = t1
    BY <2>2, <2>3, <2>5 DEF Told
  <2> QED
    BY <2>4, <2>5 DEF Told, Identity
<1>2. CASE UNCHANGED states
  BY <1>2 DEF Told, Identity
<1> QED
  BY <1>1, <1>2 DEF Next, vars, Tick, Log, OpenLogs, NextPage

LEMMA InvAlways == Spec => []Inv
<1>1. Init => Inv
  BY InitTyped, FS_EmptySet DEF Inv, Told, Init
<1>2. Inv /\ [Next]_vars => Inv'
  BY TypeInvStep, ToldStep DEF Inv
<1> QED
  BY <1>1, <1>2, PTL DEF Spec

\* A row is that of a report: its texts are numbers, and it is not None.
LEMMA StateTyped ==
  ASSUME Inv, NEW s \in states
  PROVE  /\ RowTyped(s) /\ s.dat.name \in Int
         /\ s # None
<1>1. PICK r \in Reports, t \in StartTime..now : ReportOf(s, r, t)
  BY DEF Inv, TypeInv, StatesOK
<1>2. r.machine \in Nat /\ r.key \in Nat /\ r.value \in Nat /\ r.dat.name \in Nat
  BY MonitoringAssumption
<1>3. t \in Int /\ Date(t) \in Int
  <2>1. t \in Int
    BY MonitoringAssumption DEF Inv, TypeInv, ClockOK
  <2>2. DayLength \in Nat \ {0}
    BY RulesAssumption
  <2> QED
    BY <2>1, <2>2, Z3 DEF Date
<1>4. /\ s.date = Date(t) /\ s.time \in {t, None}
      /\ s = [date |-> s.date, type |-> r.type, machine |-> r.machine, key |-> r.key,
              value |-> r.value, time |-> s.time, dat |-> r.dat]
  BY <1>1 DEF ReportOf
<1>5. s.machine = r.machine /\ s.key = r.key /\ s.value = r.value /\ s.dat = r.dat
  BY <1>4
<1>6. s \in [date : Int, type : {q.type : q \in Reports}, machine : Nat, key : Nat,
             value : Nat, time : Int \cup {None}, dat : {q.dat : q \in Reports}]
  BY <1>2, <1>3, <1>4
<1>7. s # None
  BY <1>6, MonitoringAssumption
<1> QED
  BY <1>2, <1>3, <1>4, <1>5, <1>7 DEF RowTyped

\* Rows of today of one type are told apart by machine, key and value.
LEMMA TodayOK ==
  ASSUME Inv, NEW type, NEW S, S \subseteq Today(type)
  PROVE  RowsOK(S) /\ None \notin S
<1>1. S \subseteq states /\ \A s \in S : s.type = type /\ s.date = Date(now)
  BY DEF Today
<1>2. IsFiniteSet(S)
  BY <1>1, FS_Subset DEF Inv, Told
<1>3. \A s \in S : RowTyped(s) /\ s # None
  BY <1>1, StateTyped
<1>4. ASSUME NEW s \in S, NEW t \in S, s.machine = t.machine, s.key = t.key, s.value = t.value
      PROVE  s = t
  <2>1. Identity(s) = Identity(t)
    BY <1>1, <1>4 DEF Identity
  <2> QED
    BY <1>1, <2>1 DEF Inv, Told
<1> QED
  BY <1>2, <1>3, <1>4 DEF RowsOK

\* Whatever order the database returns.
LEMMA OrderOf ==
  ASSUME NEW S, IsFiniteSet(S), NEW q \in SetToSeqs(S)
  PROVE  ListOfItems(q, Cardinality(S)) /\ ToSet(q) = S /\ NoRepeats(q)
<1> DEFINE n == Cardinality(S)
<1>1. n \in Nat
  BY FS_CardinalityType
<1>2. q \in [1..n -> S] /\ \A i, j \in 1..n : i # j => q[i] # q[j]
  BY DEF SetToSeqs
<1>3. IsFiniteSet(1..n) /\ Cardinality(1..n) = n
  BY <1>1, FS_Interval
<1>4. q \in Injection(1..n, S)
  BY <1>2 DEF Injection, IsInjective
<1>5. q \in Surjection(1..n, S)
  BY <1>3, <1>4, FS_Injection
<1>6. ToSet(q) = S
  BY <1>2, <1>5 DEF ToSet, Surjection
<1> QED
  BY <1>1, <1>2, <1>6 DEF ListOfItems, NoRepeats

LEMMA SomeOrderOf ==
  ASSUME NEW S, IsFiniteSet(S)
  PROVE  /\ ListOfItems(SomeOrder(S), Cardinality(S))
         /\ ToSet(SomeOrder(S)) = S
         /\ NoRepeats(SomeOrder(S))
<1>1. PICK f \in Bijection(1..Cardinality(S), S) : TRUE
  BY FS_CardinalityType DEF ExistsBijection
<1>2. f \in SetToSeqs(S)
  BY <1>1 DEF SetToSeqs, Bijection, Injection, IsInjective
<1>3. SomeOrder(S) \in SetToSeqs(S)
  BY <1>2 DEF SomeOrder
<1> QED
  BY <1>3, OrderOf

-----------------------------------------------------------------------------
(***************************************************************************)
(* The configurations of a query and the host rows made of them.           *)
(***************************************************************************)

CfgKeys == [c \in Cfgs |-> CfgKey(c)]
Chosen(type, group) == {c \in Cfgs : c.type = type /\ group \in {None, c.group}}

LEMMA CfgTyped ==
  ASSUME NEW c \in Cfgs
  PROVE  /\ c # None /\ c.group # None
         /\ c.machine \in Int /\ c.group \in Int /\ c.key \in Int
         /\ c.value \in Int /\ c.work \in Int
BY MonitoringAssumption, RulesAssumption

LEMMA CfgKeyTyped ==
  ASSUME NEW c \in Cfgs
  PROVE  CfgKeys[c] \in Keys(5)
<1>1. CfgKeys[c] = CfgKey(c)
  BY DEF CfgKeys
<1> QED
  BY <1>1, CfgTyped DEF CfgKey, Keys

\* The key of an OS configuration is all there is to it.
LEMMA CfgKeyNames ==
  ASSUME NEW c \in Cfgs, NEW d \in Cfgs, c.type = d.type, CfgKeys[c] = CfgKeys[d]
  PROVE  c = d
<1>1. CfgKey(c) = CfgKey(d)
  BY DEF CfgKeys
<1>2. /\ c.group = d.group /\ c.machine = d.machine /\ c.key = d.key
      /\ c.value = d.value /\ c.work = d.work
  BY <1>1 DEF CfgKey
<1>3. /\ c = [type |-> c.type, machine |-> c.machine, group |-> c.group,
              key |-> c.key, value |-> c.value, work |-> c.work]
      /\ d = [type |-> d.type, machine |-> d.machine, group |-> d.group,
              key |-> d.key, value |-> d.value, work |-> d.work]
  BY MonitoringAssumption
<1> QED
  BY <1>2, <1>3

LEMMA CfgsOfPicked ==
  ASSUME NEW cs, NEW m, ListOfItems(cs, m), ToSet(cs) \subseteq Cfgs, NEW type, NEW group
  PROVE  CfgsOf(cs, type, group) = Picked(cs, Chosen(type, group))
<1>1. \A i \in DOMAIN cs : cs[i] \in Cfgs
  BY DEF ToSet
<1>2. {i \in DOMAIN cs : cs[i].type = type /\ group \in {None, cs[i].group}}
        = Where(cs, Chosen(type, group))
  BY <1>1 DEF Where, Chosen
<1> QED
  BY <1>2 DEF CfgsOf, Filtered, Picked

\* The configurations of the hosts, in the order of the rows.
HostCfgs(cs, group) == StableSort(CfgsOf(cs, "os", group), CfgKey)

LEMMA HostCfgsSorted ==
  ASSUME NEW cs, NEW m, ListOfItems(cs, m), ToSet(cs) \subseteq Cfgs, NEW group,
         NEW G, G = Chosen("os", group)
  PROVE  /\ HostCfgs(cs, group) = Sorted(Picked(cs, G), CfgKeys)
         /\ ListOfItems(HostCfgs(cs, group), Cardinality(Where(cs, G)))
         /\ ToSet(HostCfgs(cs, group)) = ToSet(cs) \cap G
<1> DEFINE chosen == Picked(cs, G)
           k == Cardinality(Where(cs, G))
<1>1. ListOfItems(chosen, k) /\ ToSet(chosen) = ToSet(cs) \cap G
  BY PickedItems
<1>2. CfgsOf(cs, "os", group) = chosen
  BY CfgsOfPicked
<1> HIDE DEF chosen, k
<1>3. \A i \in DOMAIN chosen : chosen[i] \in Cfgs
  BY <1>1 DEF ToSet
<1>4. [i \in DOMAIN chosen |-> CfgKey(chosen[i])] = KeysOf(chosen, CfgKeys)
  BY <1>3 DEF KeysOf, CfgKeys
<1>5. HostCfgs(cs, group) = Sorted(chosen, CfgKeys)
  BY <1>2, <1>4 DEF HostCfgs, StableSort, Sorted
<1>6. \A i \in 1..k : CfgKeys[chosen[i]] \in Keys(5)
  BY <1>1, <1>3, CfgKeyTyped DEF ListOfItems
<1>7. ListOfItems(Sorted(chosen, CfgKeys), k) /\ ToSet(Sorted(chosen, CfgKeys)) = ToSet(chosen)
  BY <1>1, <1>6, SortedItems
<1> QED
  BY <1>1, <1>5, <1>7 DEF chosen, k

\* The state of a host, its row, and the rows without a configuration.
LatestOf(today, machine, key) == Latest({s \in today : s.machine = machine /\ s.key = key})
HostItems(mine, today, t) ==
  [i \in DOMAIN mine |-> OsItem(mine[i], LatestOf(today, mine[i].machine, mine[i].key), t)]
Unclaimed(mine, today) ==
  {<<s.machine, s.key>> : s \in today} \ {<<mine[i].machine, mine[i].key>> : i \in DOMAIN mine}
InPairOrder(S) == InOrder(S, {e \in S \X S : Before(e[1], e[2])})
OtherItems(others, today, t) ==
  [i \in DOMAIN others |-> OsItem(None, LatestOf(today, others[i][1], others[i][2]), t)]

LEMMA OsStatesShape ==
  ASSUME NEW cs, NEW S, NEW group, NEW t,
         NEW mine, mine = HostCfgs(cs, group), NEW k, ListOfItems(mine, k),
         NEW today, today = StatesFor(S, "os", mine, group, t)
  PROVE  /\ group # None =>
              OsStates(cs, S, group, t) = HostItems(mine, today, t)
         /\ group = None =>
              OsStates(cs, S, group, t) =
                HostItems(mine, today, t)
                  \o OtherItems(InPairOrder(Unclaimed(mine, today)), today, t)
<1>1. CASE group # None
  <2>1. OsStates(cs, S, group, t) =
          HostItems(mine, today, t) \o OtherItems(<< >>, today, t)
    BY <1>1 DEF OsStates, HostCfgs, HostItems, OtherItems, LatestOf
  <2>2. OtherItems(<< >>, today, t) = << >>
    BY DEF OtherItems
  <2>3. ListOfItems(HostItems(mine, today, t), k)
    BY DEF HostItems, ListOfItems
  <2>4. HostItems(mine, today, t) \o << >> = HostItems(mine, today, t)
    BY <2>3, JoinedNone
  <2> QED
    BY <1>1, <2>1, <2>2, <2>4
<1>2. CASE group = None
  BY <1>2 DEF OsStates, HostCfgs, HostItems, OtherItems, LatestOf, InPairOrder, Unclaimed
<1> QED
  BY <1>1, <1>2

-----------------------------------------------------------------------------
(* Who is offline. *)

\* The row picked of some rows of today is recent when one of them is.
LEMMA LatestFresh ==
  ASSUME Inv, NEW type, NEW rows, rows \subseteq Today(type)
  PROVE  (Latest(rows) = None \/ IsStale(Latest(rows).time, now)) <=> ~\E s \in rows : Fresh(s)
<1> DEFINE l == Latest(rows)
<1>1. RowsOK(rows) /\ None \notin rows
  BY TodayOK
<1>2. CASE rows = {}
  BY <1>2 DEF Latest
<1>3. CASE rows # {}
  <2>1. l \in rows /\ \A t \in rows : t.time # None => l.time # None /\ t.time <= l.time
    BY <1>1, <1>3, LatestRow
  <2> HIDE DEF l
  <2>2. l # None /\ now \in Int /\ Timeout \in Int
    BY <1>1, <2>1, RulesAssumption, MonitoringAssumption DEF Inv, TypeInv, ClockOK
  <2>3. \A s \in rows : s.time \in Int \cup {None}
    BY <1>1 DEF RowsOK, RowTyped
  <2>4. ASSUME NEW s \in rows, Fresh(s)
        PROVE  ~IsStale(l.time, now)
    <3>1. s.time # None /\ now - s.time <= Timeout
      BY <2>4 DEF Fresh
    <3>2. l.time # None /\ s.time <= l.time
      BY <2>1, <3>1
    <3>3. s.time \in Int /\ l.time \in Int
      BY <2>1, <2>3, <3>1, <3>2
    <3> QED
      BY <2>2, <3>1, <3>2, <3>3 DEF IsStale
  <2>5. ASSUME ~IsStale(l.time, now)
        PROVE  Fresh(l)
    <3>1. l.time # None /\ ~(now - l.time > Timeout)
      BY <2>5 DEF IsStale
    <3>2. l.time \in Int
      BY <2>1, <2>3, <3>1
    <3> QED
      BY <2>2, <3>1, <3>2 DEF Fresh
  <2>6. (l = None \/ IsStale(l.time, now)) <=> ~\E s \in rows : Fresh(s)
    BY <2>1, <2>2, <2>4, <2>5
  <2> QED
    BY <2>6 DEF l
<1> QED
  BY <1>2, <1>3

LEMMA OneCfg ==
  ASSUME NEW c \in Cfgs
  PROVE  ListOfItems(<<c>>, 1) /\ ToSet(<<c>>) = {c} /\ Where(<<c>>, Chosen(c.type, c.group)) = {1}
<1>1. DOMAIN <<c>> = 1..1 /\ <<c>>[1] = c /\ 1..1 = {1}
  OBVIOUS
<1>2. c \in Chosen(c.type, c.group)
  BY DEF Chosen
<1> QED
  BY <1>1, <1>2 DEF ListOfItems, ToSet, Where

\* A configured host is offline exactly when it is work time and no report of
\* today under its key is recent, late and undated reports included: the choice
\* of _select_latest_os_state and the status of _build_os_item.
THEOREM OfflineCorrect == Spec => []OfflineExactlyWhenSilent
<1>1. ASSUME Inv, NEW c \in Cfgs, c.type = "os",
             NEW i \in ToSet(OsStates(<<c>>, states, c.group, now))
      PROVE  (i.status = "offline") <=>
               /\ IsInWorkTime(c.work, now)
               /\ ~\E s \in Today("os") : s.machine = c.machine /\ s.key = c.key /\ Fresh(s)
  <2> DEFINE mine == HostCfgs(<<c>>, c.group)
             today == StatesFor(states, "os", mine, c.group, now)
             rows == {s \in Today("os") : s.machine = c.machine /\ s.key = c.key}
             items == HostItems(mine, today, now)
             k == Cardinality(Where(<<c>>, Chosen("os", c.group)))
  <2>1. c # None /\ c.group # None
    BY CfgTyped
  <2>2. ListOfItems(mine, k) /\ ToSet(mine) = {c}
    <3>1. ListOfItems(<<c>>, 1) /\ ToSet(<<c>>) = {c} /\ {c} \cap Chosen("os", c.group) = {c}
      BY <1>1, OneCfg DEF Chosen
    <3> QED
      BY <3>1, HostCfgsSorted
  <2>3. OsStates(<<c>>, states, c.group, now) = items
    BY <2>1, <2>2, OsStatesShape
  <2> HIDE DEF mine
  <2>4. \A j \in 1..k : mine[j] = c
    BY <2>2 DEF ToSet, ListOfItems
  <2>5. {s \in today : s.machine = c.machine /\ s.key = c.key} = rows
    BY <2>2 DEF StatesFor, Today
  <2> HIDE DEF today, rows, k
  <2>6. \A j \in 1..k : items[j] = OsItem(c, Latest(rows), now)
    BY <2>2, <2>4, <2>5 DEF HostItems, LatestOf, ListOfItems
  <2>7. i = OsItem(c, Latest(rows), now)
    <3>1. DOMAIN items = 1..k
      BY <2>2 DEF HostItems, ListOfItems
    <3>2. PICK j \in 1..k : i = items[j]
      BY <1>1, <2>3, <3>1 DEF ToSet
    <3> QED
      BY <2>6, <3>2
  <2>8. rows \subseteq Today("os")
    BY DEF rows
  <2>9. (Latest(rows) = None \/ IsStale(Latest(rows).time, now)) <=> ~\E s \in rows : Fresh(s)
    BY <1>1, <2>8, LatestFresh
  <2> DEFINE l == Latest(rows)
  <2>10. \A u : (OsStatus(l, u, IsInWorkTime(c.work, now), now) = "offline") <=>
           IsInWorkTime(c.work, now) /\ (l = None \/ IsStale(l.time, now))
    BY DEF OsStatus
  <2>11. \E u : i.status = OsStatus(l, u, IsInWorkTime(c.work, now), now)
    BY <2>1, <2>7 DEF OsItem
  <2> QED
    BY <2>9, <2>10, <2>11 DEF rows
<1>2. Inv => OfflineExactlyWhenSilent
  BY <1>1 DEF OfflineExactlyWhenSilent
<1> QED
  BY <1>2, InvAlways, PTL

-----------------------------------------------------------------------------
(* The process rows. *)

ProcItems(mine, today, t) ==
  [i \in DOMAIN mine |-> ProcessItem(mine[i], Selected(Candidates(mine[i], today), t), t)]
Unowned(mine, T) == {s \in T : \A i \in DOMAIN mine : s \notin Owned(Candidates(mine[i], T))}
OtherProcs(rest, t) == [i \in DOMAIN rest |-> StateOnlyProcessItem(rest[i], t)]

LEMMA UnmatchedPicked ==
  ASSUME NEW mine, NEW rows
  PROVE  Unmatched(mine, rows) = Picked(rows, Unowned(mine, ToSet(rows)))
<1>1. {j \in DOMAIN rows : \A i \in DOMAIN mine : rows[j] \notin Owned(Candidates(mine[i], ToSet(rows)))}
        = Where(rows, Unowned(mine, ToSet(rows)))
  BY DEF Where, Unowned, ToSet
<1> QED
  BY <1>1 DEF Unmatched, Filtered, Picked

\* The processes of the lists, and those the overview counts.
ListedProcs(cs, sts, group, t) == ProcessStates(cs, sts, group, TRUE, t)
CountedProcs(cs, sts, group, t) == ProcessStates(cs, sts, group, FALSE, t)

LEMMA ConfiguredProcs ==
  ASSUME NEW cs, NEW sts, NEW group, NEW t,
         NEW mine, mine = CfgsOf(cs, "process", group), NEW k, ListOfItems(mine, k),
         NEW today, today = StatesFor(ToSet(sts), "process", mine, group, t)
  PROVE  /\ CountedProcs(cs, sts, group, t) = ProcItems(mine, today, t)
         /\ group # None => ListedProcs(cs, sts, group, t) = ProcItems(mine, today, t)
<1>1. /\ CountedProcs(cs, sts, group, t) = ProcItems(mine, today, t) \o OtherProcs(<< >>, t)
      /\ group # None => ListedProcs(cs, sts, group, t)
                           = ProcItems(mine, today, t) \o OtherProcs(<< >>, t)
  BY DEF ProcessStates, ProcItems, OtherProcs, CountedProcs, ListedProcs
<1>2. OtherProcs(<< >>, t) = << >>
  BY DEF OtherProcs
<1>3. ListOfItems(ProcItems(mine, today, t), k)
  BY DEF ProcItems, ListOfItems
<1>4. ProcItems(mine, today, t) \o << >> = ProcItems(mine, today, t)
  BY <1>3, JoinedNone
<1> QED
  BY <1>1, <1>2, <1>4

\* The configurations, the states of today, and these in the order of the table.
ReadForProcs(cs, sts, t, mine, today, rows) ==
  /\ mine = CfgsOf(cs, "process", None)
  /\ today = StatesFor(ToSet(sts), "process", mine, None, t)
  /\ rows = Picked(sts, today)

LEMMA AllProcs ==
  ASSUME NEW cs, NEW sts, NEW t, NEW mine, NEW today, NEW rows,
         ReadForProcs(cs, sts, t, mine, today, rows)
  PROVE  ListedProcs(cs, sts, None, t) =
           ProcItems(mine, today, t) \o OtherProcs(Picked(rows, Unowned(mine, ToSet(rows))), t)
<1>1. ListedProcs(cs, sts, None, t) =
        ProcItems(mine, today, t) \o OtherProcs(Unmatched(mine, rows), t)
  BY DEF ReadForProcs, ProcessStates, ProcItems, OtherProcs, Filtered, Picked, Where, ListedProcs
<1> QED
  BY <1>1, UnmatchedPicked

\* With reports of sessions, a configured process is offline in work time
\* exactly when the session of the hour has no recent report:
\* _compute_process_states never falls back to the other session.
THEOREM SessionCorrect == Spec => []SessionOfTheHourDecides
<1>1. ASSUME Inv, NEW c \in Cfgs, c.type = "process",
             NEW found, found = Candidates(c, Today("process")), SessionMode(found),
             NEW item, item = ListedProcs(<<c>>, SomeOrder(states), c.group, now)[1]
      PROVE  (item.status = "offline") <=>
               /\ IsInWorkTime(c.work, now)
               /\ ~\E s \in found : Session(s) = TargetSession(now) /\ Fresh(s)
  <2> DEFINE mine == CfgsOf(<<c>>, "process", c.group)
             today == StatesFor(ToSet(SomeOrder(states)), "process", mine, c.group, now)
             rows == {s \in found : Session(s) = TargetSession(now)}
             l == Latest(rows)
  <2>1. c # None /\ c.group # None
    BY CfgTyped
  <2>2. ListOfItems(mine, 1) /\ ToSet(mine) = {c} /\ mine[1] = c
    <3> DEFINE one == <<c>>
               G == Chosen("process", c.group)
    <3>1. ListOfItems(one, 1) /\ ToSet(one) = {c} /\ Where(one, G) = {1} /\ c \in G
      BY <1>1, OneCfg DEF Chosen
    <3> HIDE DEF one
    <3>2. mine = Picked(one, G)
      BY <3>1, CfgsOfPicked DEF one
    <3> HIDE DEF mine, G
    <3>3. Cardinality(Where(one, G)) = 1 /\ ToSet(one) \cap G = {c}
      <4>1. Cardinality({1}) = 1
        BY FS_Singleton
      <4>2. {c} \cap G = {c}
        BY <3>1
      <4> QED
        BY <3>1, <4>1, <4>2
    <3>4. ListOfItems(Picked(one, G), Cardinality(Where(one, G)))
           /\ ToSet(Picked(one, G)) = ToSet(one) \cap G
      BY ONLY <3>1, PickedItems
    <3>5. ListOfItems(mine, 1) /\ ToSet(mine) = {c}
      BY <3>2, <3>3, <3>4
    <3>6. mine[1] \in ToSet(mine)
      BY <3>5 DEF ListOfItems, ToSet
    <3> QED
      BY <3>5, <3>6
  <2>3. ListedProcs(<<c>>, SomeOrder(states), c.group, now) = ProcItems(mine, today, now)
    <3> DEFINE one == <<c>>
    <3>1. mine = CfgsOf(one, "process", c.group) /\ ListOfItems(mine, 1)
      BY <2>2
    <3>2. today = StatesFor(ToSet(SomeOrder(states)), "process", mine, c.group, now)
      OBVIOUS
    <3> HIDE DEF one, mine, today
    <3>3. ListedProcs(one, SomeOrder(states), c.group, now) = ProcItems(mine, today, now)
      BY ONLY <2>1, <3>1, <3>2, ConfiguredProcs
    <3> QED
      BY <3>3 DEF one
  <2> HIDE DEF mine
  <2>4. ToSet(SomeOrder(states)) = states
    BY <1>1, SomeOrderOf DEF Inv, Told
  <2>5. Candidates(c, today) = found
    BY <1>1, <2>2, <2>4 DEF StatesFor, Today, Candidates
  <2> HIDE DEF today
  <2>6. Selected(found, now) = l
    BY <1>1 DEF Selected
  <2> HIDE DEF rows, l
  <2>7. item = ProcessItem(c, l, now)
    <3>1. 1 \in DOMAIN mine
      BY <2>2 DEF ListOfItems
    <3> QED
      BY <1>1, <2>2, <2>3, <2>5, <2>6, <3>1 DEF ProcItems
  <2>8. rows \subseteq Today("process")
    BY <1>1 DEF rows, Candidates
  <2>9. (l = None \/ IsStale(l.time, now)) <=> ~\E s \in rows : Fresh(s)
    BY <1>1, <2>8, LatestFresh DEF l
  <2>10. (item.status = "offline") <=>
           IsInWorkTime(c.work, now) /\ (l = None \/ IsStale(l.time, now))
    BY <2>7 DEF ProcessItem, ProcessStatus
  <2> QED
    BY <2>9, <2>10 DEF rows
<1>2. ASSUME Inv PROVE SessionOfTheHourDecides
  <2> SUFFICES ASSUME NEW c \in Cfgs, c.type = "process",
                      SessionMode(Candidates(c, Today("process")))
               PROVE  (ProcessStates(<<c>>, SomeOrder(states), c.group, TRUE, now)[1].status = "offline") <=>
                        /\ IsInWorkTime(c.work, now)
                        /\ ~\E s \in Candidates(c, Today("process")) :
                              Session(s) = TargetSession(now) /\ Fresh(s)
    BY Zenon DEF SessionOfTheHourDecides
  <2> DEFINE found == Candidates(c, Today("process"))
             item == ListedProcs(<<c>>, SomeOrder(states), c.group, now)[1]
  <2>1. found = Candidates(c, Today("process")) /\ SessionMode(found)
        /\ item = ListedProcs(<<c>>, SomeOrder(states), c.group, now)[1]
    OBVIOUS
  <2> HIDE DEF found, item
  <2>2. (item.status = "offline") <=>
          /\ IsInWorkTime(c.work, now)
          /\ ~\E s \in found : Session(s) = TargetSession(now) /\ Fresh(s)
    BY <1>1, <1>2, <2>1
  <2> QED
    BY <2>2 DEF found, item, ListedProcs
<1> QED
  BY <1>2, InvAlways, PTL

-----------------------------------------------------------------------------
(* The process list. *)

ProcMine(group) == CfgsOf(cfgs, "process", group)
ProcToday(group) == StatesFor(states, "process", ProcMine(group), group, now)
ProcRest == Picked(Picked(SomeOrder(states), ProcToday(None)),
                   Unowned(ProcMine(None), ProcToday(None)))
Configured(group) == ProcItems(ProcMine(group), ProcToday(group), now)

LEMMA CfgsListed ==
  /\ ListOfItems(cfgs, Cardinality(Cfgs))
  /\ ToSet(cfgs) = Cfgs
  /\ NoRepeats(cfgs)
<1>1. IsFiniteSet(Cfgs)
  BY MonitoringAssumption
<1> QED
  BY <1>1, SomeOrderOf DEF cfgs

LEMMA ProcMineListed ==
  ASSUME NEW group
  PROVE  /\ ListOfItems(ProcMine(group), Len(ProcMine(group)))
         /\ ToSet(ProcMine(group)) = Chosen("process", group)
<1> DEFINE G == Chosen("process", group)
<1>1. ToSet(cfgs) \cap G = G
  BY CfgsListed DEF Chosen
<1>2. ProcMine(group) = Picked(cfgs, G)
  BY CfgsListed, CfgsOfPicked DEF ProcMine
<1> HIDE DEF G
<1>3. /\ ListOfItems(Picked(cfgs, G), Cardinality(Where(cfgs, G)))
      /\ Len(Picked(cfgs, G)) = Cardinality(Where(cfgs, G))
      /\ ToSet(Picked(cfgs, G)) = ToSet(cfgs) \cap G
  BY ONLY CfgsListed, PickedItems
<1>4. ListOfItems(ProcMine(group), Len(ProcMine(group))) /\ ToSet(ProcMine(group)) = G
  BY <1>1, <1>2, <1>3
<1> QED
  BY <1>4 DEF G

LEMMA ConfiguredListed ==
  ASSUME NEW group, NEW m, m = Len(ProcMine(group))
  PROVE  /\ ListOfItems(Configured(group), m)
         /\ \A i \in 1..m :
              LET c == ProcMine(group)[i]
              IN  /\ c \in Cfgs /\ c.type = "process" /\ group \in {None, c.group}
                  /\ Configured(group)[i] =
                       ProcessItem(c, Selected(Candidates(c, ProcToday(group)), now), now)
<1>1. ListOfItems(ProcMine(group), m) /\ ToSet(ProcMine(group)) = Chosen("process", group)
  BY ProcMineListed
<1>2. \A i \in 1..m : ProcMine(group)[i] \in Chosen("process", group)
  BY <1>1 DEF ListOfItems, ToSet
<1> QED
  BY <1>1, <1>2 DEF Configured, ProcItems, ListOfItems, Chosen

LEMMA ProcLists ==
  ASSUME Inv, NEW group
  PROVE  /\ CountedProcs(cfgs, SomeOrder(states), group, now) = Configured(group)
         /\ group # None => ListedProcs(cfgs, SomeOrder(states), group, now) = Configured(group)
<1> DEFINE order == SomeOrder(states)
           mine == ProcMine(group)
           today == StatesFor(ToSet(order), "process", mine, group, now)
<1>1. ToSet(order) = states
  BY SomeOrderOf DEF Inv, Told
<1>2. mine = CfgsOf(cfgs, "process", group) /\ ListOfItems(mine, Len(mine))
  BY ProcMineListed DEF ProcMine
<1>3. today = StatesFor(ToSet(order), "process", mine, group, now)
  OBVIOUS
<1> HIDE DEF order, mine, today
<1>4. /\ CountedProcs(cfgs, order, group, now) = ProcItems(mine, today, now)
      /\ group # None => ListedProcs(cfgs, order, group, now) = ProcItems(mine, today, now)
  BY ONLY <1>2, <1>3, ConfiguredProcs
<1>5. ProcItems(mine, today, now) = Configured(group)
  BY <1>1 DEF Configured, ProcToday, today, mine
<1> QED
  BY <1>4, <1>5 DEF order

LEMMA AllListed ==
  ASSUME Inv
  PROVE  /\ ListedProcs(cfgs, SomeOrder(states), None, now)
              = Configured(None) \o OtherProcs(ProcRest, now)
         /\ ListOfItems(ProcRest, Len(ProcRest))
         /\ ToSet(ProcRest) = Unowned(ProcMine(None), Today("process"))
         /\ ProcToday(None) = Today("process")
<1> DEFINE order == SomeOrder(states)
           n == Cardinality(states)
           mine == ProcMine(None)
           today == ProcToday(None)
           rows == Picked(order, today)
           k == Cardinality(Where(order, today))
           G == Unowned(mine, today)
<1>1. ToSet(order) = states /\ ListOfItems(order, n)
  BY SomeOrderOf DEF Inv, Told
<1>2. today = Today("process") /\ ToSet(order) \cap today = today
  BY <1>1 DEF ProcToday, StatesFor, Today
<1>3. mine = CfgsOf(cfgs, "process", None) /\ today = StatesFor(ToSet(order), "process", mine, None, now)
  BY <1>1 DEF ProcMine, ProcToday
<1>4. today \cap G = G
  BY DEF Unowned
<1>5. ProcRest = Picked(rows, G)
  BY DEF ProcRest
<1>6. rows = Picked(order, today) /\ ReadForProcs(cfgs, order, now, mine, today, rows)
  BY <1>3 DEF ReadForProcs
<1>7. G = Unowned(mine, today) /\ Configured(None) = ProcItems(mine, today, now)
  BY DEF Configured
<1> HIDE DEF order, n, mine, today, rows, G
<1>8. ListOfItems(rows, k) /\ ToSet(rows) = today
  BY <1>1, <1>2, <1>6, PickedItems
<1> HIDE DEF k
<1>9. /\ ListOfItems(ProcRest, Cardinality(Where(rows, G)))
      /\ Len(ProcRest) = Cardinality(Where(rows, G))
      /\ ToSet(ProcRest) = G
  BY <1>4, <1>5, <1>8, PickedItems
<1>10. ListedProcs(cfgs, order, None, now)
        = ProcItems(mine, today, now) \o OtherProcs(Picked(rows, Unowned(mine, ToSet(rows))), now)
  BY ONLY <1>6, AllProcs
<1>11. ListedProcs(cfgs, order, None, now) = Configured(None) \o OtherProcs(ProcRest, now)
  BY <1>5, <1>7, <1>8, <1>10
<1> QED
  BY <1>2, <1>7, <1>9, <1>11 DEF order, mine, today

ProcRows(items) == [i \in DOMAIN items |-> ProcessRow(items[i])]
ProcKeys(E) == [r \in E |-> <<-r.alarm, -r.offline, r.machine, r.name>>]

LEMMA ProcessListed ==
  ASSUME NEW group, NEW items, items = ListedProcs(cfgs, SomeOrder(states), group, now),
         NEW m, ListOfItems(items, m),
         \A i \in 1..m : items[i].machine \in Int /\ items[i].name \in Int,
         NEW rows, rows = ProcRows(items),
         NEW keyOf, keyOf = ProcKeys(ToSet(rows))
  PROVE  /\ Processes(group) = Sorted(rows, keyOf)
         /\ ListOfItems(rows, m)
         /\ \A i \in 1..m : rows[i] = ProcessRow(items[i]) /\ keyOf[rows[i]] \in Keys(4)
<1>1. ListOfItems(rows, m) /\ \A i \in 1..m : rows[i] = ProcessRow(items[i])
  BY DEF ProcRows, ListOfItems
<1>2. \A i \in DOMAIN rows : rows[i] \in ToSet(rows)
  BY DEF ToSet
<1>3. ASSUME NEW i \in 1..m
      PROVE  keyOf[rows[i]] \in Keys(4)
  <2>1. rows[i] \in ToSet(rows)
    BY <1>1, <1>2 DEF ListOfItems
  <2>2. keyOf[rows[i]] = <<-rows[i].alarm, -rows[i].offline, rows[i].machine, rows[i].name>>
    BY <2>1 DEF ProcKeys
  <2>3. /\ rows[i].alarm \in Int /\ rows[i].offline \in Int
        /\ rows[i].machine \in Int /\ rows[i].name \in Int
    <3> DEFINE item == items[i]
    <3>1. rows[i] = ProcessRow(item) /\ item.machine \in Int /\ item.name \in Int
      BY <1>1
    <3> HIDE DEF item
    <3>2. /\ rows[i].alarm = Bit(item.status \in Abnormal)
          /\ rows[i].offline = Bit(item.status = "offline")
          /\ rows[i].machine = item.machine /\ rows[i].name = item.name
      BY <3>1 DEF ProcessRow
    <3> QED
      BY <3>1, <3>2 DEF Bit
  <2> QED
    BY <2>2, <2>3 DEF Keys
<1>4. KeysOf(rows, keyOf) =
        [i \in DOMAIN rows |-> <<-rows[i].alarm, -rows[i].offline, rows[i].machine, rows[i].name>>]
  BY <1>2 DEF KeysOf, ProcKeys
<1>5. Processes(group) =
        SortedBy(rows, [i \in DOMAIN rows |->
                          <<-rows[i].alarm, -rows[i].offline, rows[i].machine, rows[i].name>>])
  BY DEF Processes, ProcessList, SortProcess, StableSort, RowsOf, ProcRows, ListedProcs
<1> QED
  BY <1>1, <1>3, <1>4, <1>5 DEF Sorted

LEMMA ConfiguredNamed ==
  ASSUME NEW group, NEW m, m = Len(ProcMine(group)), NEW i \in 1..m
  PROVE  /\ Configured(group)[i].machine \in Int /\ Configured(group)[i].name \in Int
         /\ Configured(group)[i].configured = TRUE
<1> DEFINE c == ProcMine(group)[i]
<1>1. c \in Cfgs /\ Configured(group)[i] =
                     ProcessItem(c, Selected(Candidates(c, ProcToday(group)), now), now)
  BY ConfiguredListed
<1> HIDE DEF c
<1> QED
  BY <1>1, CfgTyped DEF ProcessItem

LEMMA RestNamed ==
  ASSUME Inv, NEW s \in Today("process")
  PROVE  /\ StateOnlyProcessItem(s, now).machine \in Int
         /\ StateOnlyProcessItem(s, now).name \in Int
         /\ StateOnlyProcessItem(s, now).configured = FALSE
<1>1. s \in states
  BY DEF Today
<1>2. s.machine \in Int /\ s.key \in Int /\ s.dat.name \in Int
  BY <1>1, StateTyped DEF RowTyped
<1> QED
  BY <1>2 DEF StateOnlyProcessItem

Unconfigured(s) == ProcessRow(StateOnlyProcessItem(s, now))

UnconfiguredAfter(rows, k) ==
  \A i \in 1..Len(ProcRest) : rows[k + i] = Unconfigured(ProcRest[i])

\* The list of all groups: the configured processes and the rest.
LEMMA AllRows ==
  ASSUME Inv, NEW k, k = Len(ProcMine(None)), NEW n, n = Len(ProcRest),
         NEW items, items = ListedProcs(cfgs, SomeOrder(states), None, now),
         NEW rows, rows = ProcRows(items),
         NEW keyOf, keyOf = ProcKeys(ToSet(rows))
  PROVE  /\ Processes(None) = Sorted(rows, keyOf)
         /\ k \in Nat /\ n \in Nat
         /\ ListOfItems(rows, k + n)
         /\ \A i \in 1..(k + n) : keyOf[rows[i]] \in Keys(4)
         /\ \A i \in 1..k : rows[i] = ProcessRow(Configured(None)[i])
         /\ UnconfiguredAfter(rows, k)
<1> DEFINE conf == Configured(None)
           rest == OtherProcs(ProcRest, now)
<1>1. ListOfItems(conf, k)
  BY ConfiguredListed
<1>2. ListOfItems(ProcRest, n) /\ ToSet(ProcRest) \subseteq Today("process")
  BY AllListed DEF Unowned
<1>3. ListOfItems(rest, n) /\ \A i \in 1..n : rest[i] = StateOnlyProcessItem(ProcRest[i], now)
  BY <1>2 DEF OtherProcs, ListOfItems
<1>4. \A i \in 1..n : ProcRest[i] \in Today("process")
  BY <1>2 DEF ToSet, ListOfItems
<1>5. items = conf \o rest
  BY AllListed
<1>6. \A i \in 1..k : conf[i].machine \in Int /\ conf[i].name \in Int
  BY ConfiguredNamed
<1>7. \A i \in 1..n : rest[i].machine \in Int /\ rest[i].name \in Int
  BY <1>3, <1>4, RestNamed
<1>8. k \in Nat /\ n \in Nat
  BY <1>1, <1>2 DEF ListOfItems
<1> HIDE DEF conf, rest
<1>9. /\ ListOfItems(items, k + n)
      /\ \A i \in 1..k : items[i] = conf[i]
      /\ \A i \in 1..n : items[k + i] = rest[i]
  <2>1. ListOfItems(conf, k) /\ ListOfItems(rest, n)
    BY <1>1, <1>3
  <2> QED
    <3>1. OneAfterTheOther(items, conf, k, rest, n)
      BY ONLY <2>1, <1>5, Joined
    <3> QED
      BY <3>1 DEF OneAfterTheOther
<1>11. \A i \in 1..(k + n) : items[i].machine \in Int /\ items[i].name \in Int
  <2> SUFFICES ASSUME NEW i \in 1..(k + n)
               PROVE  items[i].machine \in Int /\ items[i].name \in Int
    OBVIOUS
  <2>1. CASE i <= k
    BY <1>6, <1>8, <1>9, <2>1
  <2>2. CASE ~(i <= k)
    <3>1. i - k \in 1..n /\ i = k + (i - k)
      BY <1>8, <2>2
    <3>2. items[i] = rest[i - k]
      BY <1>9, <3>1
    <3> QED
      BY <1>7, <3>1, <3>2
  <2> QED
    BY <2>1, <2>2
<1>12. /\ Processes(None) = Sorted(rows, keyOf)
       /\ ListOfItems(rows, k + n)
       /\ \A i \in 1..(k + n) : rows[i] = ProcessRow(items[i]) /\ keyOf[rows[i]] \in Keys(4)
  BY ONLY <1>9, <1>11, ProcessListed,
       items = ListedProcs(cfgs, SomeOrder(states), None, now),
       rows = ProcRows(items), keyOf = ProcKeys(ToSet(rows))
<1>13. \A i \in 1..k : i \in 1..(k + n)
  BY <1>8
<1>14. \A i \in 1..n : k + i \in 1..(k + n)
  BY <1>8
<1> QED
  BY <1>3, <1>8, <1>9, <1>12, <1>13, <1>14 DEF conf, Unconfigured, UnconfiguredAfter

\* The rows without a configuration are those of the reports nobody owns.
LEMMA UnconfiguredRows ==
  ASSUME Inv, NEW T, T = Unowned(ProcMine(None), Today("process"))
  PROVE  /\ \A r \in ToSet(Processes(None)) : ~r.configured => \E s \in T : r = Unconfigured(s)
         /\ \A s \in T : Unconfigured(s) \in ToSet(Processes(None)) /\ ~Unconfigured(s).configured
<1> DEFINE k == Len(ProcMine(None))
           n == Len(ProcRest)
           m == k + n
           rows == ProcRows(ListedProcs(cfgs, SomeOrder(states), None, now))
           keyOf == ProcKeys(ToSet(rows))
<1>1. /\ Processes(None) = Sorted(rows, keyOf)
      /\ k \in Nat /\ n \in Nat
      /\ ListOfItems(rows, m)
      /\ \A i \in 1..m : keyOf[rows[i]] \in Keys(4)
      /\ \A i \in 1..k : rows[i] = ProcessRow(Configured(None)[i])
      /\ \A i \in 1..n : rows[k + i] = Unconfigured(ProcRest[i])
  BY AllRows DEF UnconfiguredAfter
<1>2. ListOfItems(ProcRest, n) /\ ToSet(ProcRest) = T
  BY AllListed
<1>3. \A i \in 1..k : Configured(None)[i].configured = TRUE
  BY ConfiguredNamed
<1> HIDE DEF rows, keyOf, k, n
<1>4. ToSet(Processes(None)) = ToSet(rows)
  BY <1>1, SortedItems
<1>5. T \subseteq Today("process")
  BY DEF Unowned
<1>6. \A s \in T : Unconfigured(s).configured = FALSE
  BY <1>5, RestNamed DEF Unconfigured, ProcessRow
<1>7. \A i \in 1..k : rows[i].configured = TRUE
  <2> SUFFICES ASSUME NEW i \in 1..k
               PROVE  rows[i].configured = TRUE
    OBVIOUS
  <2> DEFINE item == Configured(None)[i]
  <2>1. rows[i] = ProcessRow(item) /\ item.configured = TRUE
    BY <1>1, <1>3
  <2> HIDE DEF item
  <2> QED
    BY ONLY <2>1 DEF ProcessRow
<1>8. ASSUME NEW r \in ToSet(rows), ~r.configured
      PROVE  \E s \in T : r = Unconfigured(s)
  <2>1. PICK i \in 1..m : r = rows[i]
    BY <1>1, <1>8 DEF ToSet, ListOfItems
  <2>2. ~(i \in 1..k)
    BY <1>7, <1>8, <2>1
  <2>3. i - k \in 1..n /\ k + (i - k) = i
    BY <1>1, <2>2
  <2>4. r = Unconfigured(ProcRest[i - k])
    BY <1>1, <2>1, <2>3
  <2>5. ProcRest[i - k] \in T
    BY <1>2, <2>3 DEF ToSet, ListOfItems
  <2> QED
    BY <2>4, <2>5
<1>9. ASSUME NEW s \in T
      PROVE  Unconfigured(s) \in ToSet(rows)
  <2>1. PICK i \in 1..n : s = ProcRest[i]
    BY <1>2, <1>9 DEF ToSet, ListOfItems
  <2>2. k + i \in 1..m /\ rows[k + i] = Unconfigured(s)
    BY <1>1, <2>1
  <2> QED
    BY <1>1, <2>2 DEF ToSet, ListOfItems
<1> QED
  BY <1>4, <1>6, <1>8, <1>9

\* The unconfigured processes of the list are reports of today that no
\* configuration matches, or generic ones beside the reports of a session: what
\* _compute_process_states enters into matched_state_ids.
THEOREM UnconfiguredCorrect == Spec => []UnconfiguredMeansUnmatched
<1> DEFINE mine == ProcMine(None)
           today == Today("process")
           Match(s) == \E c \in Cfgs : c.type = "process" /\ s \in Candidates(c, {s})
<1>1. \A i \in DOMAIN mine : mine[i] \in Cfgs /\ mine[i].type = "process"
  BY ProcMineListed DEF ToSet, Chosen
<1>2. ASSUME NEW c \in Cfgs, c.type = "process"
      PROVE  \E i \in DOMAIN mine : mine[i] = c
  <2>1. c \in ToSet(mine)
    BY <1>2, ProcMineListed DEF Chosen
  <2> QED
    BY <2>1 DEF ToSet
<1>3. ASSUME NEW s \in Unowned(mine, today), Match(s)
      PROVE  s \in today /\ Session(s) = "generic"
  <2>1. PICK c \in Cfgs : c.type = "process" /\ s \in Candidates(c, {s})
    BY <1>3
  <2>2. s \in today /\ s \in Candidates(c, today)
    BY <2>1 DEF Candidates, Unowned
  <2>3. PICK i \in DOMAIN mine : mine[i] = c
    BY <1>2, <2>1
  <2>4. s \notin Owned(Candidates(c, today))
    BY <2>3 DEF Unowned
  <2> QED
    BY <2>2, <2>4 DEF Owned
<1>4. ASSUME NEW s \in today, ~Match(s)
      PROVE  s \in Unowned(mine, today)
  <2>1. ASSUME NEW i \in DOMAIN mine
        PROVE  s \notin Candidates(mine[i], today)
    <3>1. mine[i] \in Cfgs /\ mine[i].type = "process"
      BY <1>1
    <3>2. s \notin Candidates(mine[i], {s})
      BY <1>4, <3>1
    <3> QED
      BY <3>2 DEF Candidates
  <2>2. \A i \in DOMAIN mine : s \notin Owned(Candidates(mine[i], today))
    BY <2>1 DEF Owned
  <2> QED
    BY <2>2 DEF Unowned
<1>5. \A s \in Unowned(mine, today) : s \in today
  BY DEF Unowned
<1> HIDE DEF mine, today
<1>6. ASSUME Inv
      PROVE  /\ \A r \in ToSet(Processes(None)) : ~r.configured =>
                  \E s \in Unowned(mine, today) : r = Unconfigured(s)
             /\ \A s \in Unowned(mine, today) :
                  Unconfigured(s) \in ToSet(Processes(None)) /\ ~Unconfigured(s).configured
  BY <1>6, UnconfiguredRows DEF mine, today
<1>7. ASSUME Inv PROVE UnconfiguredMeansUnmatched
  <2>1. \A r \in ToSet(Processes(None)) : ~r.configured =>
          \E s \in today : r = Unconfigured(s) /\ (Match(s) => Session(s) = "generic")
    BY <1>3, <1>5, <1>6, <1>7
  <2>2. \A s \in today : ~Match(s) =>
          Unconfigured(s) \in ToSet(Processes(None)) /\ ~Unconfigured(s).configured
    BY <1>4, <1>6, <1>7
  <2> QED
    BY <2>1, <2>2 DEF UnconfiguredMeansUnmatched, Unconfigured, today
<1> QED
  BY <1>7, InvAlways, PTL

-----------------------------------------------------------------------------
(* The host list. *)

HostMine(group) == HostCfgs(cfgs, group)
HostToday(group) == StatesFor(states, "os", HostMine(group), group, now)
Hosts(group) == HostItems(HostMine(group), HostToday(group), now)
HostRest == InPairOrder(Unclaimed(HostMine(None), Today("os")))
RestHosts == OtherItems(HostRest, Today("os"), now)

LEMMA HostMineListed ==
  ASSUME NEW group
  PROVE  /\ ListOfItems(HostMine(group), Len(HostMine(group)))
         /\ ToSet(HostMine(group)) = Chosen("os", group)
<1> DEFINE G == Chosen("os", group)
           m == Cardinality(Where(cfgs, G))
<1>1. ListOfItems(HostMine(group), m) /\ ToSet(HostMine(group)) = ToSet(cfgs) \cap G
  BY CfgsListed, HostCfgsSorted DEF HostMine
<1>2. ToSet(cfgs) \cap G = G
  BY CfgsListed DEF Chosen
<1> HIDE DEF G, m
<1>3. Len(HostMine(group)) = m
  BY <1>1, ListLen
<1> QED
  BY <1>1, <1>2, <1>3 DEF G

LEMMA HostsListed ==
  ASSUME NEW group, NEW m, m = Len(HostMine(group))
  PROVE  /\ ListOfItems(Hosts(group), m)
         /\ \A i \in 1..m :
              LET c == HostMine(group)[i]
              IN  /\ c \in Cfgs /\ c.type = "os" /\ group \in {None, c.group}
                  /\ Hosts(group)[i] = OsItem(c, LatestOf(HostToday(group), c.machine, c.key), now)
<1>1. ListOfItems(HostMine(group), m) /\ ToSet(HostMine(group)) = Chosen("os", group)
  BY HostMineListed
<1>2. \A i \in 1..m : HostMine(group)[i] \in Chosen("os", group)
  BY <1>1 DEF ListOfItems, ToSet
<1> QED
  BY <1>1, <1>2 DEF Hosts, HostItems, ListOfItems, Chosen

LEMMA TodayFinite ==
  ASSUME Inv, NEW type
  PROVE  IsFiniteSet(Today(type)) /\ Today(type) \subseteq states
<1>1. Today(type) \subseteq states
  BY DEF Today
<1> QED
  BY <1>1, FS_Subset DEF Inv, Told

\* The hosts without a configuration, each once, each with a report.
LEMMA HostRestListed ==
  ASSUME Inv
  PROVE  /\ ListOfItems(HostRest, Len(HostRest))
         /\ NoRepeats(HostRest)
         /\ \A i \in 1..Len(HostRest) :
              /\ HostRest[i] \in Unclaimed(HostMine(None), Today("os"))
              /\ \E s \in Today("os") : HostRest[i] = <<s.machine, s.key>>
<1> DEFINE today == Today("os")
           S == Unclaimed(HostMine(None), today)
           R == {e \in S \X S : Before(e[1], e[2])}
           P == {<<s.machine, s.key>> : s \in today}
           pair == [s \in today |-> <<s.machine, s.key>>]
<1>1. \A s \in today : s.machine \in Int /\ s.key \in Int
  BY TodayFinite, StateTyped DEF RowTyped
<1>2. P \subseteq Int \X Int /\ S \subseteq P
  BY <1>1 DEF Unclaimed
<1>3. IsFiniteSet(P)
  <2>1. pair \in Surjection(today, P)
    BY DEF Surjection
  <2> HIDE DEF pair, P, today
  <2>2. IsFiniteSet(today)
    BY TodayFinite DEF today
  <2> QED
    BY <2>1, <2>2, FS_Surjection
<1>4. IsFiniteSet(S)
  <2> HIDE DEF S, P
  <2> QED
    BY <1>2, <1>3, FS_Subset
<1>5. StrictOrder(S, R)
  <2>1. S \subseteq Int \X Int
    BY <1>2
  <2> HIDE DEF S
  <2> QED
    BY <2>1, PairOrder
<1>6. HostRest = InOrder(S, R)
  BY DEF HostRest, InPairOrder
<1> DEFINE n == Cardinality(S)
<1> HIDE DEF S, R
<1>7. Lists(HostRest, S, R)
  BY <1>4, <1>5, <1>6, InOrderLists
<1>8. n \in Nat
  BY <1>4, FS_CardinalityType
<1>9. ListOfItems(HostRest, n)
  BY <1>6, <1>7, <1>8 DEF Lists, InOrder, ListOfItems
<1>10. Len(HostRest) = n
  BY <1>9, ListLen
<1>11. \A i \in 1..n : HostRest[i] \in S /\ HostRest[i] \in P
  BY <1>2, <1>7 DEF Lists
<1>12. NoRepeats(HostRest)
  BY <1>4, <1>5, <1>7, ListedNoRepeats
<1> QED
  BY <1>9, <1>10, <1>11, <1>12 DEF S

LEMMA AllHosts ==
  ASSUME Inv, NEW group
  PROVE  /\ group # None => OsStates(cfgs, states, group, now) = Hosts(group)
         /\ OsStates(cfgs, states, None, now) = Hosts(None) \o RestHosts
         /\ HostToday(None) = Today("os")
<1>1. HostToday(None) = Today("os")
  BY DEF HostToday, StatesFor, Today
<1>2. ASSUME NEW g
      PROVE  /\ g # None => OsStates(cfgs, states, g, now) = Hosts(g)
             /\ g = None => OsStates(cfgs, states, g, now) =
                               Hosts(g) \o OtherItems(InPairOrder(Unclaimed(HostMine(g), HostToday(g))),
                                                     HostToday(g), now)
  <2> DEFINE mine == HostMine(g)
             today == HostToday(g)
             k == Len(mine)
  <2>1. mine = HostCfgs(cfgs, g) /\ ListOfItems(mine, k)
    BY HostMineListed DEF HostMine
  <2>2. today = StatesFor(states, "os", mine, g, now)
    BY DEF HostToday
  <2>3. Hosts(g) = HostItems(mine, today, now)
    BY DEF Hosts
  <2> HIDE DEF mine, today, k
  <2>4. /\ g # None => OsStates(cfgs, states, g, now) = HostItems(mine, today, now)
        /\ g = None => OsStates(cfgs, states, g, now) =
                          HostItems(mine, today, now)
                            \o OtherItems(InPairOrder(Unclaimed(mine, today)), today, now)
    BY ONLY <2>1, <2>2, OsStatesShape
  <2> QED
    BY <2>3, <2>4 DEF mine, today
<1> QED
  BY <1>1, <1>2 DEF RestHosts, HostRest

OsRows(items) == [i \in DOMAIN items |-> OsRow(items[i])]
OsKey(r) == <<-r.alarm, -r.offline>> \o OsIdentityKey(r)
OsKeys(E) == [r \in E |-> OsKey(r)]

\* What the keys of the sort need to be numbers.
HostItemOK(item) ==
  /\ item.machine \in Int /\ item.group \in Int
  /\ item.time \in Int \cup {None}

LEMMA OsKeyTyped ==
  ASSUME NEW item, HostItemOK(item)
  PROVE  OsKey(OsRow(item)) \in Keys(8)
<1> DEFINE r == OsRow(item)
           u == <<-r.alarm, -r.offline>>
           v == OsIdentityKey(r)
           w == u \o v
<1>1. /\ r.machine = item.machine /\ r.group = item.group /\ r.time = item.time
      /\ r.offline = Bit(item.status = "offline") /\ r.alarm = Bit(item.status \in Abnormal)
  BY DEF OsRow
<1>2. r.machine \in Int /\ r.group \in Int /\ r.time \in Int \cup {None}
  BY <1>1 DEF HostItemOK
<1>3. -r.alarm \in Int /\ -r.offline \in Int
  BY <1>1 DEF Bit
<1> HIDE DEF r
<1>4. Bit(r.group = 0) \in Int /\ Bit(~r.configured) \in Int /\ Bit(r.time = None) \in Int
  BY DEF Bit
<1>5. (IF r.time = None THEN 0 ELSE -r.time) \in Int
  BY <1>2
<1>6. v \in Keys(6)
  BY <1>2, <1>4, <1>5 DEF OsIdentityKey, Keys
<1>7. u \in Keys(2)
  BY <1>3 DEF Keys
<1> HIDE DEF u, v
<1>8. /\ ListOfItems(u, 2) /\ \A i \in 1..2 : u[i] \in Int
      /\ ListOfItems(v, 6) /\ \A i \in 1..6 : v[i] \in Int
  BY <1>6, <1>7 DEF Keys, ListOfItems
<1>9. OneAfterTheOther(w, u, 2, v, 6)
  BY ONLY <1>8, Joined
<1> HIDE DEF w
<1>10. /\ ListOfItems(w, 8)
       /\ \A i \in 1..2 : w[i] = u[i]
       /\ \A i \in 1..6 : w[2 + i] = v[i]
  <2>1. 2 + 6 = 8
    OBVIOUS
  <2> QED
    BY <1>9, <2>1 DEF OneAfterTheOther
<1>11. ASSUME NEW i \in 1..8
       PROVE  w[i] \in Int
  <2>1. CASE i \in 1..2
    BY <1>8, <1>10, <2>1
  <2>2. CASE i - 2 \in 1..6
    <3>1. i = 2 + (i - 2)
      OBVIOUS
    <3>2. w[2 + (i - 2)] = v[i - 2] /\ v[i - 2] \in Int
      BY <1>8, <1>10, <2>2
    <3> QED
      BY <3>1, <3>2
  <2> QED
    BY <2>1, <2>2
<1>12. w \in Keys(8)
  BY <1>10, <1>11 DEF Keys, ListOfItems
<1> QED
  BY <1>12 DEF OsKey, w, u, v, r

LEMMA OsListed ==
  ASSUME NEW group,
         NEW items, items = OsStates(cfgs, states, group, now),
         NEW m, ListOfItems(items, m),
         \A i \in 1..m : HostItemOK(items[i]),
         NEW rows, rows = OsRows(items),
         NEW keyOf, keyOf = OsKeys(ToSet(rows))
  PROVE  /\ OsList(group) = Sorted(rows, keyOf)
         /\ ListOfItems(rows, m)
         /\ \A i \in 1..m : rows[i] = OsRow(items[i]) /\ keyOf[rows[i]] \in Keys(8)
<1>1. ListOfItems(rows, m) /\ \A i \in 1..m : rows[i] = OsRow(items[i])
  BY DEF OsRows, ListOfItems
<1>2. \A i \in DOMAIN rows : rows[i] \in ToSet(rows)
  BY DEF ToSet
<1>3. ASSUME NEW i \in 1..m
      PROVE  keyOf[rows[i]] \in Keys(8)
  <2>1. rows[i] \in ToSet(rows) /\ rows[i] = OsRow(items[i])
    BY <1>1, <1>2 DEF ListOfItems
  <2>2. keyOf[rows[i]] = OsKey(OsRow(items[i]))
    BY <2>1 DEF OsKeys
  <2> QED
    BY <2>2, OsKeyTyped
<1>4. KeysOf(rows, keyOf) =
        [i \in DOMAIN rows |-> <<-rows[i].alarm, -rows[i].offline>> \o OsIdentityKey(rows[i])]
  BY <1>2 DEF KeysOf, OsKeys, OsKey
<1>5. OsList(group) =
        SortedBy(rows, [i \in DOMAIN rows |->
                          <<-rows[i].alarm, -rows[i].offline>> \o OsIdentityKey(rows[i])])
  BY DEF OsList, OsSnapshot, SortOs, StableSort, RowsOf, OsRows
<1> QED
  BY <1>1, <1>3, <1>4, <1>5 DEF Sorted

LEMMA LatestMember ==
  ASSUME Inv, NEW type, NEW rows, rows \subseteq Today(type)
  PROVE  /\ rows # {} => Latest(rows) \in rows /\ Latest(rows) # None
         /\ Latest(rows) # None => Latest(rows) \in rows
<1>1. RowsOK(rows) /\ None \notin rows
  BY TodayOK
<1>2. rows # {} => Latest(rows) \in rows
  BY <1>1, LatestRow
<1> QED
  BY <1>1, <1>2 DEF Latest

LEMMA HostsOK ==
  ASSUME Inv, NEW group, NEW m, m = Len(HostMine(group)), NEW i \in 1..m
  PROVE  HostItemOK(Hosts(group)[i])
<1> DEFINE c == HostMine(group)[i]
           rows == {s \in HostToday(group) : s.machine = c.machine /\ s.key = c.key}
           s == Latest(rows)
<1>1. c \in Cfgs /\ Hosts(group)[i] = OsItem(c, s, now)
  BY HostsListed DEF LatestOf
<1>2. rows \subseteq Today("os")
  BY DEF HostToday, StatesFor, Today
<1> HIDE DEF rows, c
<1>3. s # None => s \in rows
  BY <1>2, LatestMember
<1> HIDE DEF s
<1>4. s # None => s.time \in Int \cup {None}
  BY <1>2, <1>3, TodayFinite, StateTyped DEF RowTyped
<1>5. c.machine \in Int /\ c.group \in Int /\ c # None
  BY <1>1, CfgTyped
<1> QED
  BY <1>1, <1>4, <1>5 DEF OsItem, HostItemOK

LEMMA RestHostsOK ==
  ASSUME Inv, NEW n, n = Len(HostRest)
  PROVE  /\ ListOfItems(RestHosts, n)
         /\ \A i \in 1..n : /\ HostItemOK(RestHosts[i])
                             /\ RestHosts[i].configured = FALSE /\ RestHosts[i].group = 0
<1>1. ListOfItems(HostRest, n)
  BY HostRestListed
<1>2. ListOfItems(RestHosts, n)
  BY <1>1 DEF RestHosts, OtherItems, ListOfItems
<1>3. ASSUME NEW i \in 1..n
      PROVE  /\ HostItemOK(RestHosts[i])
             /\ RestHosts[i].configured = FALSE /\ RestHosts[i].group = 0
  <2> DEFINE pair == HostRest[i]
             rows == {s \in Today("os") : s.machine = pair[1] /\ s.key = pair[2]}
             l == Latest(rows)
  <2>1. RestHosts[i] = OsItem(None, l, now)
    BY <1>1 DEF RestHosts, OtherItems, LatestOf, ListOfItems
  <2>2. PICK s \in Today("os") : pair = <<s.machine, s.key>>
    BY HostRestListed
  <2>3. s \in rows /\ rows \subseteq Today("os")
    BY <2>2
  <2> HIDE DEF rows, pair
  <2>4. l \in rows /\ l # None
    BY <2>3, LatestMember
  <2> HIDE DEF l
  <2>5. l.machine \in Int /\ l.time \in Int \cup {None}
    BY <2>3, <2>4, TodayFinite, StateTyped DEF RowTyped
  <2> DEFINE item == RestHosts[i]
  <2>6. item = OsItem(None, l, now)
    BY <2>1
  <2> HIDE DEF item
  <2>7. /\ item.machine = l.machine /\ item.group = 0
        /\ item.configured = FALSE /\ item.time = l.time
    BY <2>4, <2>6 DEF OsItem
  <2>8. HostItemOK(item) /\ item.configured = FALSE /\ item.group = 0
    BY <2>5, <2>7 DEF HostItemOK
  <2> QED
    BY <2>8 DEF item
<1> QED
  BY <1>2, <1>3

LEMMA AllHostRows ==
  ASSUME Inv, NEW k, k = Len(HostMine(None)), NEW n, n = Len(HostRest),
         NEW items, items = OsStates(cfgs, states, None, now),
         NEW rows, rows = OsRows(items),
         NEW keyOf, keyOf = OsKeys(ToSet(rows))
  PROVE  /\ OsList(None) = Sorted(rows, keyOf)
         /\ k \in Nat /\ n \in Nat
         /\ ListOfItems(items, k + n)
         /\ ListOfItems(rows, k + n)
         /\ \A i \in 1..(k + n) : keyOf[rows[i]] \in Keys(8)
         /\ \A i \in 1..k : rows[i] = OsRow(Hosts(None)[i])
         /\ \A i \in 1..n : rows[k + i] = OsRow(RestHosts[i])
<1> DEFINE conf == Hosts(None)
           rest == RestHosts
<1>1. ListOfItems(conf, k) /\ \A i \in 1..k : HostItemOK(conf[i])
  BY HostsListed, HostsOK
<1>2. ListOfItems(rest, n) /\ \A i \in 1..n : HostItemOK(rest[i])
  BY RestHostsOK
<1>3. items = conf \o rest
  BY AllHosts
<1>4. k \in Nat /\ n \in Nat
  BY <1>1, <1>2 DEF ListOfItems
<1> HIDE DEF conf, rest
<1>5. OneAfterTheOther(conf \o rest, conf, k, rest, n)
  BY ONLY <1>1, <1>2, Joined
<1>6. /\ ListOfItems(items, k + n)
      /\ \A i \in 1..k : items[i] = conf[i]
      /\ \A i \in 1..n : items[k + i] = rest[i]
  BY <1>3, <1>5 DEF OneAfterTheOther
<1>7. \A i \in 1..(k + n) : HostItemOK(items[i])
  <2> SUFFICES ASSUME NEW i \in 1..(k + n)
               PROVE  HostItemOK(items[i])
    OBVIOUS
  <2>1. CASE i <= k
    BY <1>1, <1>4, <1>6, <2>1
  <2>2. CASE ~(i <= k)
    <3>1. i - k \in 1..n /\ i = k + (i - k)
      BY <1>4, <2>2
    <3>2. items[i] = rest[i - k]
      BY <1>6, <3>1
    <3> QED
      BY <1>2, <3>1, <3>2
  <2> QED
    BY <2>1, <2>2
<1>8. /\ OsList(None) = Sorted(rows, keyOf)
      /\ ListOfItems(rows, k + n)
      /\ \A i \in 1..(k + n) : rows[i] = OsRow(items[i]) /\ keyOf[rows[i]] \in Keys(8)
  BY ONLY <1>6, <1>7, OsListed, items = OsStates(cfgs, states, None, now),
          rows = OsRows(items), keyOf = OsKeys(ToSet(rows))
<1>9. (\A i \in 1..k : i \in 1..(k + n)) /\ (\A i \in 1..n : k + i \in 1..(k + n))
  BY <1>4
<1> QED
  BY <1>4, <1>6, <1>8, <1>9 DEF conf, rest

\* The order of the configurations is that of their keys, which are all there
\* is to them: however the database returns them, they are sorted alike.
LEMMA HostCfgsSame ==
  ASSUME NEW cs, NEW m, ListOfItems(cs, m), NoRepeats(cs),
         ToSet(cs) \subseteq Cfgs, Chosen("os", None) \subseteq ToSet(cs),
         NEW E, E = Chosen("os", None)
  PROVE  HostCfgs(cs, None) = [k \in 1..Cardinality(E) |-> InOrder(E, Order(E, CfgKeys))[k]]
<1> DEFINE L == Picked(cs, E)
           n == Cardinality(Where(cs, E))
<1>1. HostCfgs(cs, None) = Sorted(L, CfgKeys)
  BY HostCfgsSorted
<1>2. ListOfItems(L, n) /\ ToSet(L) = ToSet(cs) \cap E
  BY PickedItems
<1>3. NoRepeats(L)
  BY PickedNoRepeats
<1>4. ToSet(L) = E
  BY <1>2
<1>5. \A x \in E : x \in Cfgs /\ x.type = "os"
  BY DEF Chosen
<1>6. /\ \A x \in E : CfgKeys[x] \in Keys(5)
      /\ \A x, y \in E : CfgKeys[x] = CfgKeys[y] => x = y
  BY <1>5, CfgKeyTyped, CfgKeyNames
<1> HIDE DEF L, n
<1>7. Sorted(L, CfgKeys) = [k \in 1..Cardinality(E) |-> InOrder(E, Order(E, CfgKeys))[k]]
  BY ONLY <1>2, <1>3, <1>4, <1>6, SortedSet
<1> QED
  BY <1>1, <1>7

\* Pages asked for one by one make up the OS list, in whatever order each
\* request gets the configurations: the sorts of _compute_os_states and
\* _sort_os_items and the slices of get_os_list.
THEOREM PagesCorrect == Spec => []PagesMakeUpTheList
<1>1. ASSUME Inv, NEW order \in SetToSeqs({c \in Cfgs : c.type = "os"})
      PROVE  OsSnapshot(order, states, None, "", FALSE, now) = OsList(None)
  <2> DEFINE S == {c \in Cfgs : c.type = "os"}
             n == Cardinality(S)
             mine == HostCfgs(order, None)
             today == StatesFor(states, "os", mine, None, now)
  <2>1. S = Chosen("os", None) /\ S \subseteq Cfgs
    BY DEF Chosen
  <2>2. IsFiniteSet(S)
    BY <2>1, MonitoringAssumption, FS_Subset
  <2>3. order \in SetToSeqs(S)
    OBVIOUS
  <2> HIDE DEF S
  <2>4. ListOfItems(order, n) /\ ToSet(order) = S /\ NoRepeats(order)
    BY <2>2, <2>3, OrderOf
  <2> HIDE DEF n
  <2>5. HostCfgs(order, None) = [k \in 1..Cardinality(S) |-> InOrder(S, Order(S, CfgKeys))[k]]
    BY <2>1, <2>4, HostCfgsSame
  <2>6. HostCfgs(cfgs, None) = [k \in 1..Cardinality(S) |-> InOrder(S, Order(S, CfgKeys))[k]]
    BY <2>1, CfgsListed, HostCfgsSame
  <2>7. mine = HostMine(None)
    BY <2>5, <2>6 DEF HostMine
  <2>8. ListOfItems(mine, Len(mine))
    BY <2>7, HostMineListed
  <2>9. mine = HostCfgs(order, None) /\ today = StatesFor(states, "os", mine, None, now)
    OBVIOUS
  <2>10. today = Today("os")
    BY DEF StatesFor, Today
  <2> HIDE DEF mine, today
  <2>11. OsStates(order, states, None, now) =
           HostItems(mine, today, now)
             \o OtherItems(InPairOrder(Unclaimed(mine, today)), today, now)
    BY ONLY <2>8, <2>9, OsStatesShape
  <2>12. HostToday(None) = Today("os") /\ OsStates(cfgs, states, None, now) = Hosts(None) \o RestHosts
    BY <1>1, AllHosts
  <2>13. OsStates(order, states, None, now) = OsStates(cfgs, states, None, now)
    BY <2>7, <2>10, <2>11, <2>12 DEF Hosts, RestHosts, HostRest
  <2> QED
    BY <2>13 DEF OsList, OsSnapshot, RowsOf
<1>2. ASSUME Inv
      PROVE  ListOfItems(OsList(None), Len(OsList(None)))
  <2> DEFINE k == Len(HostMine(None))
             n == Len(HostRest)
             m == k + n
             rows == OsRows(OsStates(cfgs, states, None, now))
             keyOf == OsKeys(ToSet(rows))
  <2>1. /\ OsList(None) = Sorted(rows, keyOf)
        /\ ListOfItems(rows, m)
        /\ \A i \in 1..m : keyOf[rows[i]] \in Keys(8)
    BY <1>2, AllHostRows
  <2> HIDE DEF m, rows, keyOf
  <2>2. ListOfItems(Sorted(rows, keyOf), m) /\ Len(Sorted(rows, keyOf)) = m
    BY <2>1, SortedItems
  <2> QED
    BY <2>1, <2>2
<1>3. ASSUME Inv, NEW size \in {1, 2}
      PROVE  FlattenSeq([no \in 1..(Len(OsList(None)) + 1) |-> Page(OsList(None), no, size)]) = OsList(None)
  <2> DEFINE list == OsList(None)
             m == Len(list)
             pages == [no \in 1..(m + 1) |-> Page(list, no, size)]
  <2>1. ListOfItems(list, m)
    BY <1>2, <1>3
  <2>2. m = Len(list) /\ pages = [no \in 1..(m + 1) |-> Page(list, no, size)] /\ size \in Int
    OBVIOUS
  <2> HIDE DEF list, m, pages
  <2>3. FlattenSeq(pages) = list
    BY ONLY <2>1, <2>2, PagesJoin
  <2> QED
    BY <2>3 DEF pages, m, list
<1>4. ASSUME Inv PROVE PagesMakeUpTheList
  BY <1>1, <1>3, <1>4 DEF PagesMakeUpTheList
<1> QED
  BY <1>4, InvAlways, PTL

-----------------------------------------------------------------------------
(* The list of a group and the list of all groups. *)

LEMMA GroupKnown ==
  ASSUME NEW g \in Groups(cfgs)
  PROVE  g \in Int /\ g # None /\ g # 0
<1>1. PICK i \in DOMAIN cfgs : g = cfgs[i].group
  BY DEF Groups
<1>2. cfgs[i] \in Cfgs
  BY CfgsListed DEF ToSet
<1>3. g \in Int
  BY <1>1, <1>2, CfgTyped
<1>4. None \notin Int
  BY RulesAssumption
<1> QED
  BY <1>3, <1>4 DEF Groups

LEMMA ChosenWithin ==
  ASSUME NEW type, NEW g, g # None
  PROVE  Chosen(type, None) \cap Chosen(type, g) = Chosen(type, g)
BY DEF Chosen

\* The configurations of a group are those of all groups that are in it, in
\* the same order.
LEMMA ProcMineOfGroup ==
  ASSUME NEW g, g # None
  PROVE  ProcMine(g) = Picked(ProcMine(None), Chosen("process", g))
<1> DEFINE A == Chosen("process", None)
           C == Chosen("process", g)
           m == Cardinality(Cfgs)
<1>1. ProcMine(None) = Picked(cfgs, A) /\ ProcMine(g) = Picked(cfgs, C)
  BY CfgsListed, CfgsOfPicked DEF ProcMine
<1>2. A \cap C = C
  BY ChosenWithin
<1>3. ListOfItems(cfgs, m)
  BY CfgsListed
<1> HIDE DEF A, C, m
<1>4. Picked(Picked(cfgs, A), C) = Picked(cfgs, A \cap C)
  BY ONLY <1>3, PickedPicked
<1> QED
  BY <1>1, <1>2, <1>4 DEF C

LEMMA HostMineOfGroup ==
  ASSUME NEW g, g # None
  PROVE  HostMine(g) = Picked(HostMine(None), Chosen("os", g))
<1> DEFINE A == Chosen("os", None)
           C == Chosen("os", g)
           m == Cardinality(Cfgs)
           all == Picked(cfgs, A)
           k == Cardinality(Where(cfgs, A))
<1>1. HostMine(None) = Sorted(Picked(cfgs, A), CfgKeys) /\ HostMine(g) = Sorted(Picked(cfgs, C), CfgKeys)
  BY CfgsListed, HostCfgsSorted DEF HostMine
<1>2. A \cap C = C
  BY ChosenWithin
<1>3. ListOfItems(cfgs, m)
  BY CfgsListed
<1>4. \A x \in A : x \in Cfgs
  BY DEF Chosen
<1> HIDE DEF A, C, m
<1>5. Picked(Picked(cfgs, A), C) = Picked(cfgs, A \cap C)
  BY ONLY <1>3, PickedPicked
<1>6. ListOfItems(Picked(cfgs, A), k) /\ ToSet(Picked(cfgs, A)) = ToSet(cfgs) \cap A
  BY ONLY <1>3, PickedItems
<1> HIDE DEF all, k
<1>7. \A i \in 1..k : all[i] \in A
  BY <1>6 DEF ToSet, ListOfItems, all
<1>8. \A i \in 1..k : CfgKeys[all[i]] \in Keys(5)
  BY <1>4, <1>7, CfgKeyTyped
<1>9. ListOfItems(all, k)
  BY <1>6 DEF all
<1>10. Picked(Sorted(all, CfgKeys), C) = Sorted(Picked(all, C), CfgKeys)
  BY ONLY <1>8, <1>9, PickedSorted, 5 \in Nat
<1> QED
  BY <1>1, <1>2, <1>5, <1>10 DEF C, all

\* A group's machines are enough: the states of other machines are not those
\* of its configurations.
LEMMA GroupStates ==
  ASSUME NEW g, NEW i \in 1..Len(ProcMine(g)), NEW c, c = ProcMine(g)[i]
  PROVE  Candidates(c, ProcToday(g)) = Candidates(c, Today("process"))
<1>1. c \in ToSet(ProcMine(g))
  BY ProcMineListed DEF ListOfItems, ToSet
<1> QED
  BY <1>1 DEF Candidates, ProcToday, StatesFor, Today

LEMMA GroupHostStates ==
  ASSUME NEW g, NEW i \in 1..Len(HostMine(g)), NEW c, c = HostMine(g)[i]
  PROVE  LatestOf(HostToday(g), c.machine, c.key) = LatestOf(Today("os"), c.machine, c.key)
<1>1. c \in ToSet(HostMine(g))
  BY HostMineListed DEF ListOfItems, ToSet
<1>2. {s \in HostToday(g) : s.machine = c.machine /\ s.key = c.key}
        = {s \in Today("os") : s.machine = c.machine /\ s.key = c.key}
  BY <1>1 DEF HostToday, StatesFor, Today
<1> QED
  BY <1>2 DEF LatestOf

\* The row of a configuration.
RowOfProc == [c \in Cfgs |->
  ProcessRow(ProcessItem(c, Selected(Candidates(c, Today("process")), now), now))]
RowOfHost == [c \in Cfgs |->
  OsRow(OsItem(c, LatestOf(Today("os"), c.machine, c.key), now))]

LEMMA ProcRowsOfGroup ==
  ASSUME NEW g
  PROVE  /\ ListOfItems(ProcRows(Configured(g)), Len(ProcMine(g)))
         /\ \A i \in 1..Len(ProcMine(g)) :
              LET c == ProcMine(g)[i]
              IN  /\ c \in Cfgs /\ c.type = "process"
                  /\ ProcRows(Configured(g))[i] = RowOfProc[c]
                  /\ RowOfProc[c].group = c.group
                  /\ RowOfProc[c] = ProcessRow(Configured(g)[i])
<1> DEFINE m == Len(ProcMine(g))
<1>1. ListOfItems(Configured(g), m)
  BY ConfiguredListed
<1>2. ASSUME NEW i \in 1..m
      PROVE  LET c == ProcMine(g)[i]
             IN  /\ c \in Cfgs /\ c.type = "process"
                 /\ RowOfProc[c] = ProcessRow(Configured(g)[i])
                 /\ RowOfProc[c].group = c.group
  <2> DEFINE c == ProcMine(g)[i]
             found == Candidates(c, Today("process"))
             item == ProcessItem(c, Selected(found, now), now)
  <2>1. c \in Cfgs /\ c.type = "process" /\ Configured(g)[i] = item
    <3>1. /\ c \in Cfgs /\ c.type = "process"
          /\ Configured(g)[i] = ProcessItem(c, Selected(Candidates(c, ProcToday(g)), now), now)
      BY ConfiguredListed
    <3>2. Candidates(c, ProcToday(g)) = found
      BY GroupStates
    <3> HIDE DEF c, found
    <3> QED
      BY <3>1, <3>2
  <2>2. RowOfProc[c] = ProcessRow(item)
    BY <2>1 DEF RowOfProc
  <2>3. item.group = c.group
    BY DEF ProcessItem
  <2> HIDE DEF item
  <2>4. ProcessRow(item).group = c.group
    BY <2>3 DEF ProcessRow
  <2> QED
    BY <2>1, <2>2, <2>4
<1>3. \A i \in 1..m : ProcRows(Configured(g))[i] = ProcessRow(Configured(g)[i])
  BY <1>1 DEF ProcRows, ListOfItems
<1>4. ListOfItems(ProcRows(Configured(g)), m)
  BY <1>1 DEF ProcRows, ListOfItems
<1> QED
  BY <1>2, <1>3, <1>4

LEMMA HostRowsOfGroup ==
  ASSUME NEW g
  PROVE  /\ ListOfItems(OsRows(Hosts(g)), Len(HostMine(g)))
         /\ \A i \in 1..Len(HostMine(g)) :
              LET c == HostMine(g)[i]
              IN  /\ c \in Cfgs /\ c.type = "os"
                  /\ OsRows(Hosts(g))[i] = RowOfHost[c]
                  /\ RowOfHost[c].group = c.group
                  /\ RowOfHost[c] = OsRow(Hosts(g)[i])
<1> DEFINE m == Len(HostMine(g))
<1>1. ListOfItems(Hosts(g), m)
  BY HostsListed
<1>2. ASSUME NEW i \in 1..m
      PROVE  LET c == HostMine(g)[i]
             IN  /\ c \in Cfgs /\ c.type = "os"
                 /\ RowOfHost[c] = OsRow(Hosts(g)[i])
                 /\ RowOfHost[c].group = c.group
  <2> DEFINE c == HostMine(g)[i]
             l == LatestOf(Today("os"), c.machine, c.key)
             item == OsItem(c, l, now)
  <2>1. c \in Cfgs /\ c.type = "os" /\ Hosts(g)[i] = item
    <3>1. /\ c \in Cfgs /\ c.type = "os"
          /\ Hosts(g)[i] = OsItem(c, LatestOf(HostToday(g), c.machine, c.key), now)
      BY HostsListed
    <3>2. LatestOf(HostToday(g), c.machine, c.key) = l
      BY GroupHostStates
    <3> HIDE DEF c, l
    <3> QED
      BY <3>1, <3>2
  <2>2. RowOfHost[c] = OsRow(item)
    BY <2>1 DEF RowOfHost
  <2>3. c # None
    BY <2>1, CfgTyped
  <2>4. item.group = c.group
    BY <2>3 DEF OsItem
  <2> HIDE DEF item
  <2>5. OsRow(item).group = c.group
    BY <2>4 DEF OsRow
  <2> QED
    BY <2>1, <2>2, <2>5
<1>3. \A i \in 1..m : OsRows(Hosts(g))[i] = OsRow(Hosts(g)[i])
  BY <1>1 DEF OsRows, ListOfItems
<1>4. ListOfItems(OsRows(Hosts(g)), m)
  BY <1>1 DEF OsRows, ListOfItems
<1> QED
  BY <1>2, <1>3, <1>4

\* [r for r in items if r.group == g]
InGroup(items, g) == {r \in ToSet(items) : r.group = g}

LEMMA HostViews ==
  ASSUME Inv, NEW g \in Groups(cfgs)
  PROVE  OsList(g) = Filtered(OsList(None), LAMBDA r : r.group = g)
<1> DEFINE k == Len(HostMine(None))
           n == Len(HostRest)
           m == k + n
           rows == OsRows(OsStates(cfgs, states, None, now))
           keyOf == OsKeys(ToSet(rows))
           a == HostMine(None)
           C == Chosen("os", g)
           G == InGroup(rows, g)
           mg == Len(HostMine(g))
           part == OsRows(Hosts(g))
           keyG == OsKeys(ToSet(part))
           all == OsList(None)
<1>1. /\ all = Sorted(rows, keyOf)
      /\ k \in Nat /\ n \in Nat
      /\ ListOfItems(rows, m)
      /\ \A i \in 1..m : keyOf[rows[i]] \in Keys(8)
      /\ \A i \in 1..k : rows[i] = OsRow(Hosts(None)[i])
      /\ \A i \in 1..n : rows[k + i] = OsRow(RestHosts[i])
  BY AllHostRows
<1>2. g \in Int /\ g # None /\ g # 0
  BY GroupKnown
<1>3. \A i \in 1..n : rows[k + i] \notin G
  <2> SUFFICES ASSUME NEW i \in 1..n
               PROVE  rows[k + i] \notin G
    OBVIOUS
  <2> DEFINE item == RestHosts[i]
  <2>1. item.group = 0 /\ rows[k + i] = OsRow(item)
    BY <1>1, RestHostsOK
  <2> HIDE DEF item
  <2>2. OsRow(item).group = 0
    BY <2>1 DEF OsRow
  <2> QED
    BY <1>2, <2>1, <2>2 DEF InGroup
<1>4. ASSUME NEW i \in 1..k
      PROVE  rows[i] = RowOfHost[a[i]] /\ (rows[i] \in G <=> a[i] \in C)
  <2> DEFINE c == a[i]
  <2>1. /\ c \in Cfgs /\ c.type = "os" /\ RowOfHost[c].group = c.group
        /\ RowOfHost[c] = OsRow(Hosts(None)[i])
    BY HostRowsOfGroup
  <2>2. rows[i] = RowOfHost[c]
    BY <1>1, <2>1
  <2>3. rows[i] \in ToSet(rows)
    BY <1>1 DEF ToSet, ListOfItems
  <2> QED
    BY <1>2, <2>1, <2>2, <2>3 DEF InGroup, Chosen
<1>5. ListOfItems(a, k)
  BY HostMineListed
<1> HIDE DEF k, n, rows, keyOf, a, C, G, mg, part, keyG, all
<1>6. RowsFrom(rows, a, k, n, RowOfHost, G, C)
  BY <1>1, <1>3, <1>4, <1>5 DEF RowsFrom
<1>7. part = [i \in DOMAIN Picked(a, C) |-> RowOfHost[Picked(a, C)[i]]]
  <2>1. Picked(a, C) = HostMine(g)
    BY <1>2, HostMineOfGroup DEF a, C
  <2>2. ListOfItems(HostMine(g), mg) /\ ListOfItems(part, mg)
    BY HostMineListed, HostRowsOfGroup DEF mg, part
  <2>3. \A i \in 1..mg : part[i] = RowOfHost[HostMine(g)[i]]
    BY HostRowsOfGroup DEF mg, part
  <2> QED
    BY <2>1, <2>2, <2>3 DEF ListOfItems
<1>8. Picked(Sorted(rows, keyOf), G) = Sorted(part, keyOf) /\ ToSet(part) \subseteq ToSet(rows)
  BY ONLY <1>1, <1>6, <1>7, SortedPart, 8 \in Nat
<1>9. KeysOf(part, keyOf) = KeysOf(part, keyG)
  <2>1. \A i \in DOMAIN part : part[i] \in ToSet(part) /\ part[i] \in ToSet(rows)
    BY <1>8 DEF ToSet
  <2> QED
    BY <2>1 DEF KeysOf, OsKeys, keyOf, keyG
<1>10. OsList(g) = Sorted(part, keyG)
  <2> DEFINE items == Hosts(g)
  <2>1. ListOfItems(items, mg) /\ \A i \in 1..mg : HostItemOK(items[i])
    BY HostsListed, HostsOK DEF mg
  <2>2. items = OsStates(cfgs, states, g, now)
    BY <1>2, AllHosts
  <2>3. part = OsRows(items) /\ keyG = OsKeys(ToSet(part))
    BY DEF part, keyG
  <2> HIDE DEF items
  <2> QED
    BY ONLY <2>1, <2>2, <2>3, OsListed
<1>11. Filtered(all, LAMBDA r : r.group = g) = Picked(all, G)
  <2>1. ToSet(all) = ToSet(rows)
    BY ONLY <1>1, SortedItems, 8 \in Nat
  <2>2. {i \in DOMAIN all : all[i].group = g} = Where(all, G)
    BY <2>1 DEF Where, G, InGroup, ToSet
  <2> QED
    BY <2>2 DEF Filtered, Picked
<1> QED
  BY <1>1, <1>8, <1>9, <1>10, <1>11 DEF Sorted, all

LEMMA ProcessViews ==
  ASSUME Inv, NEW g \in Groups(cfgs)
  PROVE  Processes(g) = Filtered(Processes(None), LAMBDA r : r.group = g)
<1> DEFINE k == Len(ProcMine(None))
           n == Len(ProcRest)
           m == k + n
           rows == ProcRows(ListedProcs(cfgs, SomeOrder(states), None, now))
           keyOf == ProcKeys(ToSet(rows))
           a == ProcMine(None)
           C == Chosen("process", g)
           G == InGroup(rows, g)
           mg == Len(ProcMine(g))
           part == ProcRows(Configured(g))
           keyG == ProcKeys(ToSet(part))
           all == Processes(None)
<1>1. /\ all = Sorted(rows, keyOf)
      /\ k \in Nat /\ n \in Nat
      /\ ListOfItems(rows, m)
      /\ \A i \in 1..m : keyOf[rows[i]] \in Keys(4)
      /\ \A i \in 1..k : rows[i] = ProcessRow(Configured(None)[i])
      /\ \A i \in 1..n : rows[k + i] = Unconfigured(ProcRest[i])
  <2> DEFINE items == ListedProcs(cfgs, SomeOrder(states), None, now)
  <2>1. /\ k = Len(ProcMine(None)) /\ n = Len(ProcRest)
        /\ items = ListedProcs(cfgs, SomeOrder(states), None, now)
        /\ rows = ProcRows(items) /\ keyOf = ProcKeys(ToSet(rows))
    OBVIOUS
  <2> HIDE DEF k, n, items, rows, keyOf
  <2> QED
    <3>1. /\ all = Sorted(rows, keyOf) /\ k \in Nat /\ n \in Nat /\ ListOfItems(rows, m)
          /\ \A i \in 1..m : keyOf[rows[i]] \in Keys(4)
          /\ \A i \in 1..k : rows[i] = ProcessRow(Configured(None)[i])
          /\ UnconfiguredAfter(rows, k)
      BY ONLY <2>1, Inv, AllRows
    <3> QED
      BY <2>1, <3>1 DEF UnconfiguredAfter
<1>2. g \in Int /\ g # None /\ g # 0
  BY GroupKnown
<1>3. \A i \in 1..n : rows[k + i] \notin G
  <2> SUFFICES ASSUME NEW i \in 1..n
               PROVE  rows[k + i] \notin G
    OBVIOUS
  <2> DEFINE item == StateOnlyProcessItem(ProcRest[i], now)
  <2>1. item.group = 0 /\ rows[k + i] = ProcessRow(item)
    BY <1>1 DEF Unconfigured, StateOnlyProcessItem
  <2> HIDE DEF item
  <2>2. ProcessRow(item).group = 0
    BY <2>1 DEF ProcessRow
  <2> QED
    BY <1>2, <2>1, <2>2 DEF InGroup
<1>4. ASSUME NEW i \in 1..k
      PROVE  rows[i] = RowOfProc[a[i]] /\ (rows[i] \in G <=> a[i] \in C)
  <2> DEFINE c == a[i]
  <2>1. /\ c \in Cfgs /\ c.type = "process" /\ RowOfProc[c].group = c.group
        /\ RowOfProc[c] = ProcessRow(Configured(None)[i])
    BY ProcRowsOfGroup
  <2>2. rows[i] = RowOfProc[c]
    BY <1>1, <2>1
  <2>3. rows[i] \in ToSet(rows)
    BY <1>1 DEF ToSet, ListOfItems
  <2> QED
    BY <1>2, <2>1, <2>2, <2>3 DEF InGroup, Chosen
<1>5. ListOfItems(a, k)
  BY ProcMineListed
<1> HIDE DEF k, n, rows, keyOf, a, C, G, mg, part, keyG, all
<1>6. RowsFrom(rows, a, k, n, RowOfProc, G, C)
  BY <1>1, <1>3, <1>4, <1>5 DEF RowsFrom
<1>7. part = [i \in DOMAIN Picked(a, C) |-> RowOfProc[Picked(a, C)[i]]]
  <2>1. Picked(a, C) = ProcMine(g)
    BY <1>2, ProcMineOfGroup DEF a, C
  <2>2. ListOfItems(ProcMine(g), mg) /\ ListOfItems(part, mg)
    BY ProcMineListed, ProcRowsOfGroup DEF mg, part
  <2>3. \A i \in 1..mg : part[i] = RowOfProc[ProcMine(g)[i]]
    BY ProcRowsOfGroup DEF mg, part
  <2> QED
    BY <2>1, <2>2, <2>3 DEF ListOfItems
<1>8. Picked(Sorted(rows, keyOf), G) = Sorted(part, keyOf) /\ ToSet(part) \subseteq ToSet(rows)
  BY ONLY <1>1, <1>6, <1>7, SortedPart, 4 \in Nat
<1>9. KeysOf(part, keyOf) = KeysOf(part, keyG)
  <2>1. \A i \in DOMAIN part : part[i] \in ToSet(part) /\ part[i] \in ToSet(rows)
    BY <1>8 DEF ToSet
  <2> QED
    BY <2>1 DEF KeysOf, ProcKeys, keyOf, keyG
<1>10. Processes(g) = Sorted(part, keyG)
  <2> DEFINE items == Configured(g)
  <2>1. /\ ListOfItems(items, mg)
        /\ \A i \in 1..mg : items[i].machine \in Int /\ items[i].name \in Int
    BY ConfiguredListed, ConfiguredNamed DEF mg
  <2>2. items = ListedProcs(cfgs, SomeOrder(states), g, now)
    BY <1>2, ProcLists
  <2>3. part = ProcRows(items) /\ keyG = ProcKeys(ToSet(part))
    BY DEF part, keyG
  <2> HIDE DEF items
  <2> QED
    BY ONLY <2>1, <2>2, <2>3, ProcessListed
<1>11. Filtered(all, LAMBDA r : r.group = g) = Picked(all, G)
  <2>1. ToSet(all) = ToSet(rows)
    BY ONLY <1>1, SortedItems, 4 \in Nat
  <2>2. {i \in DOMAIN all : all[i].group = g} = Where(all, G)
    BY <2>1 DEF Where, G, InGroup, ToSet
  <2> QED
    BY <2>2 DEF Filtered, Picked
<1> QED
  BY <1>1, <1>8, <1>9, <1>10, <1>11 DEF Sorted, all

\* Choosing a group shows exactly the rows the list of all groups has for it,
\* in the same order: _get_states with the machines of the group, and sorting
\* a part gives the part of the sorted whole.
THEOREM GroupViewsCorrect == Spec => []GroupViewsAgree
<1>1. ASSUME Inv PROVE GroupViewsAgree
  BY <1>1, HostViews, ProcessViews DEF GroupViewsAgree
<1> QED
  BY <1>1, InvAlways, PTL

-----------------------------------------------------------------------------
(* What is counted and what is listed. *)

\* The rows of a list of hosts, before they are sorted.
LEMMA HostRows ==
  ASSUME Inv, NEW g, NEW items, items = OsStates(cfgs, states, g, now),
         NEW rows, rows = OsRows(items), NEW keyOf, keyOf = OsKeys(ToSet(rows))
  PROVE  /\ OsList(g) = Sorted(rows, keyOf)
         /\ \E m : /\ ListOfItems(items, m) /\ ListOfItems(rows, m)
                   /\ \A i \in 1..m : keyOf[rows[i]] \in Keys(8)
<1>1. CASE g = None
  <2> DEFINE k == Len(HostMine(None))
             n == Len(HostRest)
  <2>1. /\ OsList(None) = Sorted(rows, keyOf)
        /\ ListOfItems(items, k + n) /\ ListOfItems(rows, k + n)
        /\ \A i \in 1..(k + n) : keyOf[rows[i]] \in Keys(8)
    BY <1>1, AllHostRows
  <2> HIDE DEF k, n
  <2> QED
    BY <1>1, <2>1
<1>2. CASE g # None
  <2> DEFINE k == Len(HostMine(g))
  <2>1. ListOfItems(items, k) /\ \A i \in 1..k : HostItemOK(items[i])
    <3>1. items = Hosts(g)
      BY <1>2, AllHosts
    <3>2. ListOfItems(Hosts(g), k) /\ \A i \in 1..k : HostItemOK(Hosts(g)[i])
      BY HostsListed, HostsOK
    <3> QED
      BY <3>1, <3>2
  <2> HIDE DEF k
  <2>2. /\ OsList(g) = Sorted(rows, keyOf) /\ ListOfItems(rows, k)
        /\ \A i \in 1..k : keyOf[rows[i]] \in Keys(8)
    BY <2>1, OsListed
  <2> QED
    BY <2>1, <2>2
<1> QED
  BY <1>1, <1>2

\* The host rows: as many as the items, with an alarm for each abnormal one.
LEMMA HostCounts ==
  ASSUME Inv, NEW g \in Groups(cfgs) \cup {None},
         NEW items, items = OsStates(cfgs, states, g, now)
  PROVE  \E m : /\ ListOfItems(items, m)
                /\ Len(OsList(g)) = m
                /\ Cardinality(Alarmed(OsList(g))) = Cardinality(Bad(items))
<1> DEFINE rows == OsRows(items)
           keyOf == OsKeys(ToSet(rows))
<1>1. PICK m : /\ ListOfItems(items, m) /\ ListOfItems(rows, m)
               /\ OsList(g) = Sorted(rows, keyOf)
               /\ \A i \in 1..m : keyOf[rows[i]] \in Keys(8)
  BY HostRows
<1>2. Alarmed(rows) = Bad(items)
  <2>1. \A i \in DOMAIN items : rows[i].alarm = Bit(items[i].status \in Abnormal)
    <3> SUFFICES ASSUME NEW i \in DOMAIN items
                 PROVE  rows[i].alarm = Bit(items[i].status \in Abnormal)
      OBVIOUS
    <3> DEFINE item == items[i]
    <3>1. rows[i] = OsRow(item)
      BY DEF OsRows
    <3> HIDE DEF item
    <3>2. OsRow(item).alarm = Bit(item.status \in Abnormal)
      BY DEF OsRow
    <3> QED
      BY <3>1, <3>2 DEF item
  <2>2. DOMAIN rows = DOMAIN items
    BY DEF OsRows
  <2> HIDE DEF rows
  <2> QED
    BY <2>1, <2>2 DEF Alarmed, Bad, Bit
<1> HIDE DEF rows, keyOf
<1>3. Len(OsList(g)) = m /\ Cardinality(Alarmed(OsList(g))) = Cardinality(Alarmed(rows))
  BY ONLY <1>1, SortedAlarms, 8 \in Nat
<1> QED
  BY <1>1, <1>2, <1>3

\* The process rows of any group: k configured ones, then n others.
FirstConfigured(g, k, n, rows, keyOf) ==
  /\ k \in Nat /\ n \in Nat
  /\ Processes(g) = Sorted(rows, keyOf)
  /\ ListOfItems(rows, k + n)
  /\ \A i \in 1..(k + n) : keyOf[rows[i]] \in Keys(4)
  /\ \A i \in 1..k : rows[i] = ProcessRow(Configured(g)[i])
  /\ \A i \in 1..n : rows[k + i].configured = FALSE

LEMMA ProcessRows ==
  ASSUME Inv, NEW g \in Groups(cfgs) \cup {None}, NEW k, k = Len(ProcMine(g))
  PROVE  \E n, rows, keyOf : FirstConfigured(g, k, n, rows, keyOf)
<1>1. CASE g = None
  <2> DEFINE n == Len(ProcRest)
             items == ListedProcs(cfgs, SomeOrder(states), None, now)
             rows == ProcRows(items)
             keyOf == ProcKeys(ToSet(rows))
  <2>1. /\ k = Len(ProcMine(None)) /\ n = Len(ProcRest)
        /\ items = ListedProcs(cfgs, SomeOrder(states), None, now)
        /\ rows = ProcRows(items) /\ keyOf = ProcKeys(ToSet(rows))
    BY <1>1
  <2>2. \A i \in 1..n : ProcRest[i] \in Today("process")
    BY AllListed DEF Unowned, ToSet, ListOfItems
  <2> HIDE DEF n, items, rows, keyOf
  <2>3. /\ Processes(None) = Sorted(rows, keyOf) /\ k \in Nat /\ n \in Nat /\ ListOfItems(rows, k + n)
        /\ \A i \in 1..(k + n) : keyOf[rows[i]] \in Keys(4)
        /\ \A i \in 1..k : rows[i] = ProcessRow(Configured(None)[i])
        /\ UnconfiguredAfter(rows, k)
    BY ONLY <2>1, Inv, AllRows
  <2>4. \A i \in 1..n : rows[k + i].configured = FALSE
    <3> SUFFICES ASSUME NEW i \in 1..n
                 PROVE  rows[k + i].configured = FALSE
      OBVIOUS
    <3> DEFINE item == StateOnlyProcessItem(ProcRest[i], now)
    <3>1. rows[k + i] = ProcessRow(item)
      BY <2>1, <2>3 DEF UnconfiguredAfter, Unconfigured
    <3>2. item.configured = FALSE
      BY <2>2, RestNamed
    <3> HIDE DEF item
    <3> QED
      BY <3>1, <3>2 DEF ProcessRow
  <2>5. /\ Processes(g) = Sorted(rows, keyOf)
        /\ \A i \in 1..k : rows[i] = ProcessRow(Configured(g)[i])
    BY <1>1, <2>3
  <2>6. n \in Nat /\ k \in Nat /\ ListOfItems(rows, k + n)
    BY <2>3
  <2>7. \A i \in 1..(k + n) : keyOf[rows[i]] \in Keys(4)
    BY <2>3
  <2> QED
    BY ONLY <2>4, <2>5, <2>6, <2>7 DEF FirstConfigured
<1>2. CASE g # None
  <2> DEFINE items == Configured(g)
             rows == ProcRows(items)
             keyOf == ProcKeys(ToSet(rows))
  <2>1. /\ ListOfItems(items, k)
        /\ \A i \in 1..k : items[i].machine \in Int /\ items[i].name \in Int
    BY ConfiguredListed, ConfiguredNamed
  <2>2. items = ListedProcs(cfgs, SomeOrder(states), g, now)
    BY <1>2, ProcLists
  <2>3. rows = ProcRows(items) /\ keyOf = ProcKeys(ToSet(rows))
    OBVIOUS
  <2> HIDE DEF items, rows, keyOf
  <2>4. /\ Processes(g) = Sorted(rows, keyOf) /\ ListOfItems(rows, k)
        /\ \A i \in 1..k : rows[i] = ProcessRow(items[i]) /\ keyOf[rows[i]] \in Keys(4)
    BY ONLY <2>1, <2>2, <2>3, ProcessListed
  <2>5. k \in Nat /\ k + 0 = k /\ 0 \in Nat /\ 1..0 = {}
    BY <2>1 DEF ListOfItems
  <2>6. ListOfItems(rows, k + 0) /\ \A i \in 1..(k + 0) : keyOf[rows[i]] \in Keys(4)
    BY <2>4, <2>5
  <2>7. \A i \in 1..0 : rows[k + i].configured = FALSE
    BY <2>5
  <2> QED
    BY <2>4, <2>5, <2>6, <2>7 DEF items, FirstConfigured
<1> QED
  BY <1>1, <1>2

ConfiguredRows(g) == Filtered(Processes(g), LAMBDA r : r.configured)

LEMMA ProcessCounts ==
  ASSUME Inv, NEW g \in Groups(cfgs) \cup {None}, NEW k, k = Len(ProcMine(g)),
         NEW items, items = Configured(g)
  PROVE  /\ ListOfItems(items, k)
         /\ Cardinality(Good(items)) = k - Cardinality(Bad(items))
         /\ Len(ConfiguredRows(g)) = k
         /\ Cardinality(Alarmed(ConfiguredRows(g))) = Cardinality(Bad(items))
<1>0. PICK n, rows, keyOf : FirstConfigured(g, k, n, rows, keyOf)
  BY ProcessRows
<1>1. /\ k \in Nat /\ n \in Nat
      /\ Processes(g) = Sorted(rows, keyOf)
      /\ ListOfItems(rows, k + n)
      /\ \A i \in 1..(k + n) : keyOf[rows[i]] \in Keys(4)
      /\ \A i \in 1..k : rows[i] = ProcessRow(items[i])
      /\ \A i \in 1..n : rows[k + i].configured = FALSE
  BY <1>0 DEF FirstConfigured
<1> DEFINE m == k + n
           all == Processes(g)
           G == {r \in ToSet(rows) : r.configured}
           L == Picked(all, G)
<1>2. ListOfItems(items, k) /\ \A i \in 1..k : items[i].configured = TRUE
  BY ConfiguredListed, ConfiguredNamed
<1>3. \A i \in 1..k : items[i].status \in Abnormal \cup {"normal"}
  <2> SUFFICES ASSUME NEW i \in 1..k
               PROVE  items[i].status \in Abnormal \cup {"normal"}
    OBVIOUS
  <2> DEFINE c == ProcMine(g)[i]
             s == Selected(Candidates(c, ProcToday(g)), now)
  <2>1. items[i] = ProcessItem(c, s, now)
    BY ConfiguredListed
  <2> HIDE DEF s, c
  <2> QED
    BY <2>1 DEF ProcessItem, ProcessStatus, Abnormal
<1>4. \A i \in 1..k : /\ rows[i].configured = TRUE
                      /\ rows[i].alarm = Bit(items[i].status \in Abnormal)
  <2> SUFFICES ASSUME NEW i \in 1..k
               PROVE  rows[i].configured = TRUE /\ rows[i].alarm = Bit(items[i].status \in Abnormal)
    OBVIOUS
  <2> DEFINE item == items[i]
  <2>1. rows[i] = ProcessRow(item) /\ item.configured = TRUE
    BY <1>1, <1>2
  <2> HIDE DEF item
  <2>2. rows[i].configured = TRUE /\ rows[i].alarm = Bit(item.status \in Abnormal)
    BY <2>1 DEF ProcessRow
  <2> QED
    BY <2>2 DEF item
<1>5. DOMAIN rows = 1..m /\ DOMAIN items = 1..k /\ k \in Nat
  BY <1>1, <1>2 DEF ListOfItems
<1>6. Where(rows, G) = 1..k
  <2>1. \A i \in 1..m : i \in 1..k \/ (i - k \in 1..n /\ k + (i - k) = i)
    BY <1>1
  <2>2. \A i \in 1..m : ~(i \in 1..k) => rows[i].configured = FALSE
    BY <1>1, <2>1
  <2>3. \A i \in 1..k : i \in 1..m
    BY <1>1
  <2>4. \A i \in 1..m : rows[i] \in ToSet(rows)
    BY <1>5 DEF ToSet
  <2>5. \A i \in 1..m : rows[i] \in G <=> i \in 1..k
    BY <1>4, <2>2, <2>3, <2>4
  <2> HIDE DEF G, m
  <2> QED
    BY <1>5, <2>3, <2>5 DEF Where
<1>7. Alarmed(rows) \cap Where(rows, G) = Bad(items)
  <2>1. \A i \in 1..k : i \in 1..m
    BY <1>1
  <2> HIDE DEF G, m
  <2> QED
    BY <1>4, <1>5, <1>6, <2>1 DEF Alarmed, Bad, Bit
<1>8. all = Sorted(rows, keyOf) /\ ListOfItems(rows, m)
      /\ \A i \in 1..m : keyOf[rows[i]] \in Keys(4)
  BY <1>1
<1>9. ConfiguredRows(g) = L
  <2> HIDE DEF m
  <2>1. ToSet(all) = ToSet(rows)
    BY <1>8, SortedItems, 4 \in Nat
  <2>2. {i \in DOMAIN all : all[i].configured} = Where(all, G)
    BY <2>1 DEF Where, ToSet
  <2> QED
    BY <2>2 DEF ConfiguredRows, Filtered, Picked
<1>10. /\ Len(L) = Cardinality(Where(rows, G))
       /\ Cardinality(Alarmed(L)) = Cardinality(Alarmed(rows) \cap Where(rows, G))
  <2>1. L = Picked(Sorted(rows, keyOf), G)
    BY <1>8
  <2> HIDE DEF L, G, all, m
  <2> QED
    <3>1. ListOfItems(rows, m) /\ \A i \in 1..m : keyOf[rows[i]] \in Keys(4)
      BY <1>8
    <3>2. CountsThose(L, rows, G)
      BY ONLY <3>1, <2>1, PickedAlarms, 4 \in Nat
    <3> QED
      BY <3>2 DEF CountsThose
<1>11. Cardinality(1..k) = k
  BY {} \subseteq 1..k, <1>2, Places
<1>12. Cardinality(Good(items)) = k - Cardinality(Bad(items))
  BY <1>2, <1>3, GoodCount
<1> QED
  BY <1>2, <1>6, <1>7, <1>9, <1>10, <1>11, <1>12

\* The logs of a group of today, and the alarms among them.
MineLogs(g) == {l \in logs : l.date = Date(now) /\ (g = None \/ l.machine \in MachinesOf(cfgs, g))}
ErrorLogs(g) == {l \in MineLogs(g) : l.level \in {"warn", "error"}}
EveryLog(g) == [group |-> g, machine |-> 0, level |-> "", onlyError |-> FALSE]
ListedLogs(g, onlyError) ==
  Cardinality(LogsMatching(cfgs, logs, [group |-> g, machine |-> 0, level |-> "",
                                        onlyError |-> onlyError], Date(now)))
ListedErrors(g) ==
  Cardinality(LogsMatching(cfgs, logs, [group |-> g, machine |-> 0, level |-> "error",
                                        onlyError |-> FALSE], Date(now)))

\* What the overview has to say of the logs and of rows.
OfLogs(g, onlyError) ==
  [total |-> ListedLogs(g, onlyError), alarm |-> ListedLogs(g, TRUE), error |-> ListedErrors(g)]
ShownOf(rows, onlyError) == IF onlyError THEN Cardinality(Alarmed(rows)) ELSE Len(rows)
CardOf(rows) == [total |-> Len(rows), alarm |-> Cardinality(Alarmed(rows)),
                 error |-> Cardinality(Alarmed(rows))]

LEMMA MatchingLogs ==
  ASSUME NEW g
  PROVE  /\ LogsMatching(cfgs, logs, EveryLog(g), Date(now)) = MineLogs(g)
         /\ ListedLogs(g, FALSE) = Cardinality(MineLogs(g))
         /\ ListedLogs(g, TRUE) = Cardinality(ErrorLogs(g))
         /\ \A onlyError \in BOOLEAN :
              ListedLogs(g, onlyError) = Cardinality(IF onlyError THEN ErrorLogs(g) ELSE MineLogs(g))
         /\ ListedErrors(g) = Cardinality({l \in MineLogs(g) : l.level \in {"error"}})
<1>1. LogsMatching(cfgs, logs, [group |-> g, machine |-> 0, level |-> "error",
                                onlyError |-> FALSE], Date(now))
        = {l \in MineLogs(g) : l.level \in {"error"}}
  BY DEF LogsMatching, MineLogs
<1> QED
  BY <1>1 DEF LogsMatching, EveryLog, ListedLogs, ListedErrors, MineLogs, ErrorLogs

LEMMA LogCounts ==
  ASSUME Inv, NEW g, NEW onlyError \in BOOLEAN
  PROVE  LogStats(cfgs, logs, g, onlyError, now) = OfLogs(g, onlyError)
<1> DEFINE errors == {l \in MineLogs(g) : l.level \in {"error"}}
           warns == {l \in MineLogs(g) : l.level \in {"warn"}}
<1>1. IsFiniteSet(MineLogs(g)) /\ errors \subseteq MineLogs(g) /\ warns \subseteq MineLogs(g)
  <2>1. MineLogs(g) \subseteq logs /\ IsFiniteSet(logs)
    BY DEF Inv, TypeInv, LogsOK, MineLogs
  <2> QED
    BY <2>1, FS_Subset
<1>2. ErrorLogs(g) = errors \cup warns /\ errors \cap warns = {}
  BY DEF ErrorLogs
<1>3. LogStats(cfgs, logs, g, onlyError, now) =
        [total |-> IF onlyError THEN Cardinality(errors) + Cardinality(warns)
                   ELSE Cardinality(MineLogs(g)),
         alarm |-> Cardinality(errors) + Cardinality(warns),
         error |-> Cardinality(errors)]
  BY DEF LogStats, MineLogs
<1>4. ListedErrors(g) = Cardinality(errors)
  BY MatchingLogs
<1> HIDE DEF errors, warns
<1>5. IsFiniteSet(errors) /\ IsFiniteSet(warns)
  BY <1>1, FS_Subset
<1>6. Cardinality(errors \cup warns) =
        Cardinality(errors) + Cardinality(warns) - Cardinality(errors \cap warns)
  BY <1>5, FS_Union
<1>7. Cardinality(errors) \in Nat /\ Cardinality(warns) \in Nat
  BY <1>5, FS_CardinalityType
<1>8. Cardinality(ErrorLogs(g)) = Cardinality(errors) + Cardinality(warns)
  <2>1. Cardinality(errors \cap warns) = 0
    BY <1>2, FS_EmptySet
  <2> QED
    BY <1>2, <1>6, <1>7, <2>1
<1> QED
  BY <1>3, <1>4, <1>8, MatchingLogs DEF OfLogs

OverviewOf(g, onlyError) == Overview(cfgs, SomeOrder(states), logs, g, onlyError, now)
AlarmsOf(g) == GetAlarms(cfgs, SomeOrder(states), logs, g, now)

LEMMA OverviewParts ==
  ASSUME Inv, NEW g, NEW onlyError, NEW o, o = OverviewOf(g, onlyError),
         NEW H, H = FilterErrorItems(OsStates(cfgs, states, g, now), onlyError),
         NEW P, P = FilterErrorItems(Configured(g), onlyError)
  PROVE  o = [os |-> [total |-> Len(H), alarm |-> Cardinality(Bad(H))],
              process |-> [total |-> Len(P), alarm |-> Cardinality(Bad(P)),
                           running |-> Cardinality(Good(P))],
              log |-> LogStats(cfgs, logs, g, onlyError, now)]
<1>1. ToSet(SomeOrder(states)) = states
  BY SomeOrderOf DEF Inv, Told
<1>2. ProcessStates(cfgs, SomeOrder(states), g, FALSE, now) = Configured(g)
  BY ProcLists DEF CountedProcs
<1> QED
  BY <1>1, <1>2 DEF OverviewOf, Overview, CountOf, Bad, Good

LEMMA AlarmParts ==
  ASSUME Inv, NEW g, NEW list, list = AlarmsOf(g)
  PROVE  /\ list.os = BadItems(OsStates(cfgs, states, g, now))
         /\ list.process = BadItems(Configured(g))
         /\ list.log = {l \in LogPage(MineLogs(g), 1, AlarmLogs) : l.level \in {"warn", "error"}}
<1>1. ToSet(SomeOrder(states)) = states
  BY SomeOrderOf DEF Inv, Told
<1>2. ProcessStates(cfgs, SomeOrder(states), g, FALSE, now) = Configured(g)
  BY ProcLists DEF CountedProcs
<1>3. LogsMatching(cfgs, logs, EveryLog(g), Date(now)) = MineLogs(g)
  BY MatchingLogs
<1> QED
  BY <1>1, <1>2, <1>3 DEF AlarmsOf, GetAlarms, BadItems, EveryLog

\* The overview of a group, with or without "only errors", and the lists.
LEMMA CardsAndLists ==
  ASSUME Inv, NEW g \in Groups(cfgs) \cup {None}, NEW onlyError \in BOOLEAN,
         NEW o, o = OverviewOf(g, onlyError), NEW list, list = AlarmsOf(g)
  PROVE  /\ o = [os |-> [total |-> ShownOf(OsList(g), onlyError),
                        alarm |-> Cardinality(Alarmed(OsList(g)))],
                 process |-> [total |-> ShownOf(ConfiguredRows(g), onlyError),
                              alarm |-> Cardinality(Alarmed(ConfiguredRows(g))),
                              running |-> ShownOf(ConfiguredRows(g), onlyError)
                                            - Cardinality(Alarmed(ConfiguredRows(g)))],
                 log |-> OfLogs(g, onlyError)]
         /\ Len(list.os) = Cardinality(Alarmed(OsList(g)))
         /\ Len(list.process) = Cardinality(Alarmed(ConfiguredRows(g)))
<1> DEFINE hosts == OsStates(cfgs, states, g, now)
           procs == Configured(g)
           H == FilterErrorItems(hosts, onlyError)
           P == FilterErrorItems(procs, onlyError)
           k == Len(ProcMine(g))
           stats == LogStats(cfgs, logs, g, onlyError, now)
<1>1. o = [os |-> [total |-> Len(H), alarm |-> Cardinality(Bad(H))],
           process |-> [total |-> Len(P), alarm |-> Cardinality(Bad(P)),
                        running |-> Cardinality(Good(P))],
           log |-> stats]
  BY OverviewParts
<1>2. PICK m : /\ ListOfItems(hosts, m)
               /\ Len(OsList(g)) = m
               /\ Cardinality(Alarmed(OsList(g))) = Cardinality(Bad(hosts))
  BY HostCounts
<1>3. /\ ListOfItems(procs, k)
      /\ Cardinality(Good(procs)) = k - Cardinality(Bad(procs))
      /\ Len(ConfiguredRows(g)) = k
      /\ Cardinality(Alarmed(ConfiguredRows(g))) = Cardinality(Bad(procs))
  BY ProcessCounts
<1>4. stats = OfLogs(g, onlyError)
  BY LogCounts
<1>5. list.os = BadItems(hosts) /\ list.process = BadItems(procs)
  BY AlarmParts
<1>6. H = FilterErrorItems(hosts, onlyError) /\ P = FilterErrorItems(procs, onlyError)
  OBVIOUS
<1> HIDE DEF hosts, procs, H, P, k, stats
<1>7. /\ onlyError => Len(H) = Cardinality(Bad(hosts)) /\ Cardinality(Good(H)) = 0
      /\ ~onlyError => Len(H) = m /\ Cardinality(Good(H)) = Cardinality(Good(hosts))
      /\ Cardinality(Bad(H)) = Cardinality(Bad(hosts))
  BY ONLY <1>2, <1>6, onlyError \in BOOLEAN, ItemCounts
<1>8. /\ onlyError => Len(P) = Cardinality(Bad(procs)) /\ Cardinality(Good(P)) = 0
      /\ ~onlyError => Len(P) = k /\ Cardinality(Good(P)) = Cardinality(Good(procs))
      /\ Cardinality(Bad(P)) = Cardinality(Bad(procs))
  BY ONLY <1>3, <1>6, onlyError \in BOOLEAN, ItemCounts
<1>9. Len(BadItems(hosts)) = Cardinality(Bad(hosts)) /\ Len(BadItems(procs)) = Cardinality(Bad(procs))
  BY <1>2, <1>3, BadCounts
<1>10. Cardinality(Bad(procs)) \in Nat /\ k \in Nat
  BY <1>3, BadFinite DEF ListOfItems
<1>11. Len(H) = ShownOf(OsList(g), onlyError)
  BY <1>2, <1>7 DEF ShownOf
<1>12. Len(P) = ShownOf(ConfiguredRows(g), onlyError)
  BY <1>3, <1>8 DEF ShownOf
<1>13. Cardinality(Good(P)) = Len(P) - Cardinality(Bad(procs))
  BY <1>3, <1>8, <1>10
<1> QED
  BY <1>1, <1>2, <1>3, <1>4, <1>5, <1>7, <1>8, <1>9, <1>11, <1>12, <1>13

\* The alarms among the newest page of logs are all of them if one page is
\* enough, and never more.
LEMMA AlarmLogsListed ==
  ASSUME Inv, NEW g, NEW list, list = AlarmsOf(g)
  PROVE  /\ Cardinality(ErrorLogs(g)) >= Cardinality(list.log)
         /\ ListedLogs(g, FALSE) <= AlarmLogs => Cardinality(ErrorLogs(g)) = Cardinality(list.log)
<1> DEFINE L == MineLogs(g)
           page == LogPage(L, 1, AlarmLogs)
<1>1. IsFiniteSet(L) /\ \A l \in L : l.id \in Int
  <2>1. HasIds(LogsMatching(cfgs, logs, EveryLog(g), Date(now)))
    BY ListFinite DEF Inv, TypeInv
  <2> QED
    BY <2>1, MatchingLogs DEF HasIds
<1>2. AlarmLogs \in Nat /\ (1 - 1) * AlarmLogs = 0 /\ 1 * AlarmLogs = AlarmLogs
  BY RulesAssumption DEF AlarmLogs
<1>3. page \subseteq L /\ \A l \in L : 0 < Rank(l, L) /\ Rank(l, L) <= AlarmLogs => l \in page
  BY <1>2 DEF LogPage
<1>4. list.log = {l \in page : l.level \in {"warn", "error"}}
  BY AlarmParts
<1>5. list.log \subseteq ErrorLogs(g) /\ ErrorLogs(g) \subseteq L
  BY <1>3, <1>4 DEF ErrorLogs
<1>6. IsFiniteSet(ErrorLogs(g))
  BY <1>1, <1>5, FS_Subset
<1>7. Cardinality(list.log) <= Cardinality(ErrorLogs(g)) /\ Cardinality(list.log) \in Nat
        /\ Cardinality(ErrorLogs(g)) \in Nat
  BY <1>5, <1>6, FS_Subset, FS_CardinalityType
<1>8. ASSUME ListedLogs(g, FALSE) <= AlarmLogs
      PROVE  list.log = ErrorLogs(g)
  <2>1. Cardinality(L) <= AlarmLogs /\ Cardinality(L) \in Nat
    BY <1>1, <1>8, MatchingLogs, FS_CardinalityType
  <2> HIDE DEF L, page
  <2>2. \A l \in L : 0 < Rank(l, L) /\ Rank(l, L) <= AlarmLogs
    BY <1>1, <1>2, <2>1, RankBounds
  <2>3. page = L
    BY <1>3, <2>2
  <2> QED
    BY <1>4, <2>3 DEF ErrorLogs, L
<1> QED
  BY <1>7, <1>8

\* The cards are the overview of everything.
LEMMA TotalParts ==
  ASSUME Inv
  PROVE  GetTotal(cfgs, SomeOrder(states), logs, now) =
           [os |-> CardOf(OsList(None)), process |-> CardOf(ConfiguredRows(None)),
            log |-> OfLogs(None, FALSE)]
<1>1. PICK all \in BOOLEAN : all = FALSE
  OBVIOUS
<1> DEFINE o == OverviewOf(None, all)
<1>2. GetTotal(cfgs, SomeOrder(states), logs, now) =
        [os |-> [total |-> o.os.total, alarm |-> o.os.alarm, error |-> o.os.alarm],
         process |-> [total |-> o.process.total, alarm |-> o.process.alarm,
                      error |-> o.process.alarm],
         log |-> o.log]
  BY <1>1 DEF GetTotal, OverviewOf
<1>3. o = [os |-> [total |-> ShownOf(OsList(None), all),
                   alarm |-> Cardinality(Alarmed(OsList(None)))],
           process |-> [total |-> ShownOf(ConfiguredRows(None), all),
                        alarm |-> Cardinality(Alarmed(ConfiguredRows(None))),
                        running |-> ShownOf(ConfiguredRows(None), all)
                                      - Cardinality(Alarmed(ConfiguredRows(None)))],
           log |-> OfLogs(None, all)]
  BY CardsAndLists, None \in Groups(cfgs) \cup {None}
<1> HIDE DEF o
<1> QED
  BY <1>1, <1>2, <1>3 DEF CardOf, ShownOf

\* The cards, the overviews of the groups, the alarm list and the lists of
\* hosts, processes and logs count the same things, whatever was reported:
\* get_total, get_overview and get_alarms of the overview controller.
THEOREM CardsCorrect == Spec => []CardsMatchLists
<1>1. ASSUME Inv PROVE CardsMatchLists
  <2> DEFINE alarms(rows) == CountOf(rows, LAMBDA r : r.alarm = 1)
             configured(g) == Filtered(Processes(g), LAMBDA r : r.configured)
  <2>1. \A rows : alarms(rows) = Cardinality(Alarmed(rows))
    BY DEF CountOf, Alarmed
  <2>2. \A g : configured(g) = ConfiguredRows(g)
    BY DEF ConfiguredRows
  <2> HIDE DEF alarms, configured
  <2>3. ASSUME NEW g \in Groups(cfgs) \cup {None}, NEW onlyError \in BOOLEAN
        PROVE  OverviewOf(g, onlyError) =
                 [os |-> [total |-> IF onlyError THEN alarms(OsList(g)) ELSE Len(OsList(g)),
                          alarm |-> alarms(OsList(g))],
                  process |-> [total |-> IF onlyError THEN alarms(configured(g))
                                         ELSE Len(configured(g)),
                               alarm |-> alarms(configured(g)),
                               running |-> (IF onlyError THEN alarms(configured(g))
                                            ELSE Len(configured(g))) - alarms(configured(g))],
                  log |-> OfLogs(g, onlyError)]
    BY <1>1, <2>1, <2>2, CardsAndLists DEF ShownOf
  <2>4. ASSUME NEW g \in Groups(cfgs) \cup {None}
        PROVE  /\ Len(AlarmsOf(g).os) = alarms(OsList(g))
               /\ Len(AlarmsOf(g).process) = alarms(configured(g))
    BY <1>1, <2>1, <2>2, TRUE \in BOOLEAN, CardsAndLists
  <2>5. ASSUME NEW g \in Groups(cfgs) \cup {None}
        PROVE  /\ Cardinality(AlarmsOf(g).log) <= ListedLogs(g, TRUE)
               /\ ListedLogs(g, FALSE) <= AlarmLogs =>
                    Cardinality(AlarmsOf(g).log) = ListedLogs(g, TRUE)
    BY <1>1, MatchingLogs, AlarmLogsListed
  <2>6. GetTotal(cfgs, SomeOrder(states), logs, now) =
          [os |-> [total |-> Len(OsList(None)), alarm |-> alarms(OsList(None)),
                   error |-> alarms(OsList(None))],
           process |-> [total |-> Len(configured(None)), alarm |-> alarms(configured(None)),
                        error |-> alarms(configured(None))],
           log |-> OfLogs(None, FALSE)]
    BY <1>1, <2>1, <2>2, TotalParts DEF CardOf
  <2> QED
    BY ONLY <2>3, <2>4, <2>5, <2>6
       DEF CardsMatchLists, OfLogs, ListedLogs, ListedErrors, OverviewOf, AlarmsOf, alarms, configured
<1> QED
  BY <1>1, InvAlways, PTL

-----------------------------------------------------------------------------
(* Complete snapshots, and pages of any size. *)

\* The rows of the hosts do not show the key; a machine and its group are
\* enough to tell the hosts apart when no machine of a group is configured
\* twice, nor reports under two keys that are not configured.
UnknownHost(r) ==
  /\ r.type = "os"
  /\ ~\E c \in Cfgs : c.type = "os" /\ c.machine = r.machine /\ c.key = r.key
MachineTellsHosts ==
  /\ \A c, d \in Cfgs : c.type = "os" /\ d.type = "os"
                          /\ c.machine = d.machine /\ c.group = d.group => c = d
  /\ \A r, s \in Reports : UnknownHost(r) /\ UnknownHost(s)
                             /\ r.machine = s.machine => r.key = s.key

LEMMA HostMineOnce ==
  ASSUME NEW g
  PROVE  NoRepeats(HostMine(g))
<1> DEFINE E == Chosen("os", g)
           L == Picked(cfgs, E)
           n == Cardinality(Where(cfgs, E))
<1>1. HostMine(g) = Sorted(L, CfgKeys)
  BY CfgsListed, HostCfgsSorted DEF HostMine
<1>2. ListOfItems(L, n) /\ ToSet(L) = ToSet(cfgs) \cap E
  BY CfgsListed, PickedItems
<1>3. NoRepeats(L)
  BY CfgsListed, PickedNoRepeats
<1>4. \A x \in ToSet(L) : x \in Cfgs
  BY <1>2, CfgsListed
<1> HIDE DEF L, n
<1>5. \A i \in 1..n : CfgKeys[L[i]] \in Keys(5)
  BY <1>2, <1>4, CfgKeyTyped DEF ListOfItems, ToSet
<1>6. NoRepeats(Sorted(L, CfgKeys))
  BY <1>2, <1>3, <1>5, SortedNoRepeats, 5 \in Nat
<1> QED
  BY <1>1, <1>6

\* A host without a configuration reports under a key nobody configured.
LEMMA HostRestUnknown ==
  ASSUME Inv, NEW i \in 1..Len(HostRest)
  PROVE  \E r \in Reports : UnknownHost(r) /\ HostRest[i] = <<r.machine, r.key>>
<1> DEFINE S == Unclaimed(HostMine(None), Today("os"))
<1>1. HostRest[i] \in S
  BY HostRestListed
<1>2. PICK s \in Today("os") : HostRest[i] = <<s.machine, s.key>>
  BY HostRestListed
<1>3. PICK r \in Reports : s.type = r.type /\ s.machine = r.machine /\ s.key = r.key
  <2>1. s \in states
    BY DEF Today
  <2>2. PICK r \in Reports, t \in StartTime..now : ReportOf(s, r, t)
    BY <2>1 DEF Inv, TypeInv, StatesOK
  <2> DEFINE row == [date |-> s.date, type |-> r.type, machine |-> r.machine, key |-> r.key,
                     value |-> r.value, time |-> s.time, dat |-> r.dat]
  <2>3. s = row
    BY <2>2 DEF ReportOf
  <2>4. row.type = r.type /\ row.machine = r.machine /\ row.key = r.key
    OBVIOUS
  <2> HIDE DEF row
  <2> QED
    BY <2>3, <2>4
<1>4. r.type = "os"
  BY <1>3 DEF Today
<1>5. ASSUME NEW c \in Cfgs, c.type = "os", c.machine = r.machine, c.key = r.key
      PROVE  FALSE
  <2>1. c \in ToSet(HostMine(None))
    BY <1>5, HostMineListed DEF Chosen
  <2>2. PICK j \in DOMAIN HostMine(None) : HostMine(None)[j] = c
    BY <2>1 DEF ToSet
  <2>3. <<s.machine, s.key>> \in {<<HostMine(None)[k].machine, HostMine(None)[k].key>> :
                                    k \in DOMAIN HostMine(None)}
    BY <1>3, <1>5, <2>2
  <2> QED
    BY <1>1, <1>2, <2>3 DEF Unclaimed
<1> QED
  BY <1>2, <1>3, <1>4, <1>5 DEF UnknownHost

\* What the row of a host says of it.
LEMMA HostRowNames ==
  ASSUME NEW g, NEW i \in 1..Len(HostMine(g)), NEW c, c = HostMine(g)[i]
  PROVE  LET r == OsRow(Hosts(g)[i])
         IN  r.machine = c.machine /\ r.group = c.group /\ r.configured = TRUE
<1> DEFINE s == LatestOf(HostToday(g), c.machine, c.key)
           item == OsItem(c, s, now)
<1>1. Hosts(g)[i] = item /\ c \in Cfgs
  BY HostsListed
<1>2. c # None
  BY <1>1, CfgTyped
<1> HIDE DEF s
<1>3. item.machine = c.machine /\ item.group = c.group /\ item.configured = TRUE
  BY <1>2 DEF OsItem
<1> HIDE DEF item
<1>4. OsRow(item).machine = item.machine /\ OsRow(item).group = item.group
        /\ OsRow(item).configured = item.configured
  BY DEF OsRow
<1> QED
  BY <1>1, <1>3, <1>4

LEMMA RestRowNames ==
  ASSUME Inv, NEW i \in 1..Len(HostRest)
  PROVE  LET r == OsRow(RestHosts[i])
         IN  r.machine = HostRest[i][1] /\ r.configured = FALSE
<1> DEFINE pair == HostRest[i]
           rows == {s \in Today("os") : s.machine = pair[1] /\ s.key = pair[2]}
           l == Latest(rows)
           item == OsItem(None, l, now)
<1>1. RestHosts[i] = item
  BY HostRestListed DEF RestHosts, OtherItems, LatestOf, ListOfItems
<1>2. PICK s \in Today("os") : pair = <<s.machine, s.key>>
  BY HostRestListed
<1>3. s \in rows /\ rows \subseteq Today("os")
  BY <1>2
<1>4. \A x \in rows : x.machine = pair[1]
  OBVIOUS
<1> HIDE DEF rows, pair
<1>5. l \in rows
  BY <1>3, LatestMember
<1>6. l.machine = pair[1]
  BY <1>4, <1>5
<1> HIDE DEF l
<1>7. item.machine = pair[1] /\ item.configured = FALSE
  BY <1>6 DEF OsItem
<1> HIDE DEF item
<1>8. OsRow(item).machine = item.machine /\ OsRow(item).configured = item.configured
  BY DEF OsRow
<1> QED
  BY <1>1, <1>7, <1>8 DEF pair

\* The lists of hosts and processes are lists.
LEMMA ListsAreLists ==
  ASSUME Inv, NEW g \in Groups(cfgs) \cup {None}
  PROVE  /\ ListOfItems(OsList(g), Len(OsList(g)))
         /\ ListOfItems(Processes(g), Len(Processes(g)))
<1>1. ASSUME NEW L, NEW rows, NEW m, NEW keyOf, NEW n \in Nat, ListOfItems(rows, m),
             \A i \in 1..m : keyOf[rows[i]] \in Keys(n), L = Sorted(rows, keyOf)
      PROVE  ListOfItems(L, Len(L))
  BY <1>1, SortedItems
<1>2. ListOfItems(OsList(g), Len(OsList(g)))
  <2> DEFINE rows == OsRows(OsStates(cfgs, states, g, now))
             keyOf == OsKeys(ToSet(rows))
  <2>1. /\ OsList(g) = Sorted(rows, keyOf)
        /\ \E m : /\ ListOfItems(rows, m)
                  /\ \A i \in 1..m : keyOf[rows[i]] \in Keys(8)
    BY HostRows
  <2> HIDE DEF rows, keyOf
  <2> QED
    BY <1>1, <2>1, 8 \in Nat
<1>3. ListOfItems(Processes(g), Len(Processes(g)))
  <2> DEFINE k == Len(ProcMine(g))
  <2>1. PICK n, rows, keyOf : FirstConfigured(g, k, n, rows, keyOf)
    BY ProcessRows
  <2>2. /\ Processes(g) = Sorted(rows, keyOf) /\ ListOfItems(rows, k + n)
        /\ \A i \in 1..(k + n) : keyOf[rows[i]] \in Keys(4)
    BY <2>1 DEF FirstConfigured
  <2> HIDE DEF k
  <2> QED
    BY <1>1, <2>2, 4 \in Nat
<1> QED
  BY <1>2, <1>3

\* The pages of a list, up to one after its last possible one, put together.
AllPages(list, size) == FlattenSeq([no \in 1..(Len(list) + 1) |-> Page(list, no, size)])
EveryPageSizeWorks ==
  \A g \in Groups(cfgs) \cup {None}, size \in Int :
    /\ AllPages(OsList(g), size) = OsList(g)
    /\ AllPages(Processes(g), size) = Processes(g)

\* Whatever page size a client asks for, nonsensical ones included, the pages of
\* a list of hosts or processes, of a group or of all, make up that list: the
\* clamping of _normalize_page_size and the slicing leave no gap and repeat nothing.
THEOREM EveryPageSizeCorrect == Spec => []EveryPageSizeWorks
<1>1. ASSUME NEW list, ListOfItems(list, Len(list)), NEW size \in Int
      PROVE  AllPages(list, size) = list
  <2> DEFINE m == Len(list)
             pages == [no \in 1..(m + 1) |-> Page(list, no, size)]
  <2>1. FlattenSeq(pages) = list
    BY <1>1, PagesJoin
  <2> QED
    BY <2>1 DEF AllPages
<1>2. ASSUME Inv PROVE EveryPageSizeWorks
  BY <1>1, <1>2, ListsAreLists DEF EveryPageSizeWorks
<1> QED
  BY <1>2, InvAlways, PTL

LEMMA AllHostsInARow ==
  ASSUME Inv
  PROVE  LET k == Len(HostMine(None))
             n == Len(HostRest)
             rows == OsRows(OsStates(cfgs, states, None, now))
         IN  /\ ListOfItems(rows, k + n)
             /\ \A i \in 1..k : rows[i] = OsRow(Hosts(None)[i])
             /\ \A i \in 1..n : rows[k + i] = OsRow(RestHosts[i])
<1> DEFINE k == Len(HostMine(None))
           n == Len(HostRest)
           items == OsStates(cfgs, states, None, now)
           rows == OsRows(items)
           keyOf == OsKeys(ToSet(rows))
<1>1. /\ OsList(None) = Sorted(rows, keyOf)
      /\ ListOfItems(rows, k + n)
      /\ \A i \in 1..k : rows[i] = OsRow(Hosts(None)[i])
      /\ \A i \in 1..n : rows[k + i] = OsRow(RestHosts[i])
  BY AllHostRows
<1> QED
  BY <1>1

\* A list of hosts repeats no row when machine and group tell them apart.
LEMMA HostsRowsOnce ==
  ASSUME Inv, MachineTellsHosts, NEW g
  PROVE  NoRepeats(OsRows(OsStates(cfgs, states, g, now)))
<1> DEFINE k == Len(HostMine(g))
           n == Len(HostRest)
           conf(i) == OsRow(Hosts(g)[i])
           rest(i) == OsRow(RestHosts[i])
<1>1. ListOfItems(Hosts(g), k) /\ ListOfItems(RestHosts, n) /\ k \in Nat /\ n \in Nat
  BY HostsListed, RestHostsOK DEF ListOfItems
<1>2. \A i, j \in 1..k : conf(i) = conf(j) => i = j
  <2> SUFFICES ASSUME NEW i \in 1..k, NEW j \in 1..k, conf(i) = conf(j)
               PROVE  i = j
    OBVIOUS
  <2> DEFINE c == HostMine(g)[i]
             d == HostMine(g)[j]
  <2>1. conf(i).machine = c.machine /\ conf(i).group = c.group
    BY HostRowNames
  <2>2. conf(j).machine = d.machine /\ conf(j).group = d.group
    BY HostRowNames
  <2>3. c \in Cfgs /\ d \in Cfgs /\ c.type = "os" /\ d.type = "os"
    BY HostsListed
  <2>4. c = d
    BY <2>1, <2>2, <2>3 DEF MachineTellsHosts
  <2>5. ListOfItems(HostMine(g), k)
    BY HostMineListed
  <2> QED
    BY <2>4, <2>5, HostMineOnce DEF NoRepeats, ListOfItems
<1>3. \A i, j \in 1..n : rest(i) = rest(j) => i = j
  <2> SUFFICES ASSUME NEW i \in 1..n, NEW j \in 1..n, rest(i) = rest(j)
               PROVE  i = j
    OBVIOUS
  <2>1. HostRest[i][1] = HostRest[j][1]
    <3>1. rest(i).machine = HostRest[i][1] /\ rest(j).machine = HostRest[j][1]
      BY RestRowNames
    <3> HIDE DEF rest
    <3> QED
      BY <3>1
  <2>2. PICK r \in Reports : UnknownHost(r) /\ HostRest[i] = <<r.machine, r.key>>
    BY HostRestUnknown
  <2>3. PICK s \in Reports : UnknownHost(s) /\ HostRest[j] = <<s.machine, s.key>>
    BY HostRestUnknown
  <2>4. HostRest[i] = HostRest[j]
    BY <2>1, <2>2, <2>3 DEF MachineTellsHosts
  <2> QED
    BY <2>4, HostRestListed DEF NoRepeats, ListOfItems
<1>4. \A i \in 1..k, j \in 1..n : conf(i) # rest(j)
  <2> SUFFICES ASSUME NEW i \in 1..k, NEW j \in 1..n
               PROVE  conf(i) # rest(j)
    OBVIOUS
  <2>1. conf(i).configured = TRUE /\ rest(j).configured = FALSE
    BY HostRowNames, RestRowNames
  <2> QED
    BY <2>1
<1> DEFINE rows == OsRows(OsStates(cfgs, states, g, now))
<1>5. CASE g # None
  <2>1. DOMAIN rows = 1..k /\ \A i \in 1..k : rows[i] = conf(i)
    BY <1>1, <1>5, AllHosts DEF OsRows, ListOfItems
  <2> QED
    BY <1>2, <2>1 DEF NoRepeats
<1>6. CASE g = None
  <2>1. /\ ListOfItems(rows, k + n)
        /\ \A i \in 1..k : rows[i] = conf(i)
        /\ \A i \in 1..n : rows[k + i] = rest(i)
    <3> DEFINE all == OsRows(OsStates(cfgs, states, None, now))
               mine == Len(HostMine(None))
    <3>1. k = mine /\ rows = all /\ \A i \in 1..k : conf(i) = OsRow(Hosts(None)[i])
      BY <1>6
    <3>2. \A i \in 1..n : rest(i) = OsRow(RestHosts[i])
      OBVIOUS
    <3>3. /\ ListOfItems(all, mine + n)
          /\ \A i \in 1..mine : all[i] = OsRow(Hosts(None)[i])
          /\ \A i \in 1..n : all[mine + i] = OsRow(RestHosts[i])
      BY AllHostsInARow
    <3> HIDE DEF rows, k, n, conf, rest, all, mine
    <3> QED
      BY <3>1, <3>2, <3>3
  <2>2. DOMAIN rows = 1..(k + n)
    BY <2>1 DEF ListOfItems
  <2> HIDE DEF rows, conf, rest, k, n
  <2>3. \A i \in 1..(k + n) : i \in 1..k \/ (i - k \in 1..n /\ k + (i - k) = i)
    BY <1>1
  <2>4. ASSUME NEW i \in 1..(k + n), NEW j \in 1..(k + n), rows[i] = rows[j]
        PROVE  i = j
    <3>1. CASE i \in 1..k /\ j \in 1..k
      BY <1>2, <2>1, <2>4, <3>1
    <3>2. CASE i \notin 1..k /\ j \notin 1..k
      <4>1. rest(i - k) = rest(j - k) /\ i - k \in 1..n /\ j - k \in 1..n
        BY <2>1, <2>3, <2>4, <3>2
      <4>2. i - k = j - k
        BY <1>3, <4>1
      <4> QED
        BY <1>1, <4>2
    <3>3. CASE i \in 1..k /\ j \notin 1..k
      BY <1>4, <2>1, <2>3, <2>4, <3>3
    <3>4. CASE i \notin 1..k /\ j \in 1..k
      BY <1>4, <2>1, <2>3, <2>4, <3>4
    <3> QED
      BY <3>1, <3>2, <3>3, <3>4
  <2>5. NoRepeats(rows)
    BY <2>2, <2>4 DEF NoRepeats
  <2> QED
    BY <2>5 DEF rows
<1> QED
  BY <1>5, <1>6

\* Where machine and group tell the hosts apart, dedupeOsRows drops nothing and
\* loadOsRows shows every snapshot; two keys of one machine are the only way to
\* have a complete snapshot refused.
THEOREM SnapshotShownCorrect == MachineTellsHosts => (Spec => []CompleteSnapshotShown)
<1> SUFFICES ASSUME MachineTellsHosts PROVE Spec => []CompleteSnapshotShown
  OBVIOUS
<1>1. ASSUME Inv, NEW g
      PROVE  LoadOsRows(OsList(g)) = ToSet(OsList(g))
  <2> DEFINE rows == OsRows(OsStates(cfgs, states, g, now))
             keyOf == OsKeys(ToSet(rows))
  <2>1. OsList(g) = Sorted(rows, keyOf)
    BY <1>1, HostRows
  <2>2. PICK m : /\ ListOfItems(rows, m)
                 /\ \A i \in 1..m : keyOf[rows[i]] \in Keys(8)
    BY <1>1, HostRows
  <2>3. NoRepeats(rows)
    BY <1>1, HostsRowsOnce
  <2> HIDE DEF rows, keyOf
  <2>4. ListOfItems(OsList(g), m) /\ Len(OsList(g)) = m /\ m \in Nat
    BY <2>1, <2>2, SortedItems, 8 \in Nat DEF ListOfItems
  <2>5. NoRepeats(OsList(g))
    BY <2>1, <2>2, <2>3, SortedNoRepeats, 8 \in Nat
  <2>6. Cardinality(ToSet(OsList(g))) = m
    BY <2>4, <2>5, DifferentItems
  <2> QED
    BY <2>4, <2>6 DEF LoadOsRows, DedupeOsRows
<1>2. Inv => CompleteSnapshotShown
  BY <1>1 DEF CompleteSnapshotShown
<1> QED
  BY <1>2, InvAlways, PTL

=============================================================================
