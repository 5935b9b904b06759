---------------------------- MODULE MCMonitoring ----------------------------
(***************************************************************************)
(* Two machines of two groups and one that is not configured, a process    *)
(* with two sessions, over two days of six hours.                          *)
(* Texts: machines, groups and keys are small numbers.  Process values:    *)
(* 1: the configured YAML name, 2: its morning file, 3: its evening file,  *)
(* 4: both, 5: neither.                                                    *)
(***************************************************************************)
EXTENDS Monitoring

MCWithin == {<<a, a>> : a \in 0..5} \cup {<<0, a>> : a \in 1..5} \cup {<<1, a>> : a \in 2..5}
MCSessionsOf == [v \in 0..5 |-> CASE v = 2 -> {"am"} [] v = 3 -> {"pm"}
                                  [] v = 4 -> {"am", "pm"} [] OTHER -> {}]
MCThreshold == [m \in Metrics |-> IF m = "cpu" THEN 10 ELSE 9]

\* 0: always; 1: from hour 5 over midnight to hour 0, and hour 2; 2: malformed.
MCWorkTime == [w \in 0..2 |-> CASE w = 0 -> {}
                                [] w = 1 -> {[from |-> 5, to |-> 0], [from |-> 2, to |-> 2]}
                                [] w = 2 -> {None}]

Cfg(type, machine, group, key, value, work) ==
  [type |-> type, machine |-> machine, group |-> group, key |-> key,
   value |-> value, work |-> work]

MCCfgs == {Cfg("os", 1, 1, 1, 1, 1), Cfg("os", 1, 1, 2, 1, 0), Cfg("os", 2, 2, 1, 1, 0),
           Cfg("process", 1, 1, 1, 1, 1), Cfg("process", 2, 1, 1, 5, 2)}

Dat(cpu, home) == [broken |-> FALSE, name |-> 0, cpu |-> cpu, mem |-> 1, disk |-> 1, home |-> home]
Broken == [broken |-> TRUE, name |-> 0, cpu |-> None, mem |-> None, disk |-> None, home |-> None]

OfType(type, machine, key, value, dat) ==
  [type |-> type, machine |-> machine, key |-> key, value |-> value, dat |-> dat]

\* The second host key of machine 1 stays silent, as machine 2 does.
MCReports == {OfType("os", 1, 1, 1, Dat(1, -1)), OfType("os", 1, 1, 2, Dat(10, None)),
              OfType("os", 3, 1, 1, Broken)}
               \cup {OfType("process", 1, 1, v, Dat(1, None)) : v \in {1, 2, 3, 4}}
               \cup {OfType("process", 2, 1, 2, Broken)}

MCLines == {[machine |-> 1, level |-> "warn"], [machine |-> 2, level |-> "info"]}

Query(group, onlyError) ==
  [group |-> group, machine |-> 0, level |-> "", onlyError |-> onlyError]
MCLogQueries == {Query(1, TRUE)}

=============================================================================
