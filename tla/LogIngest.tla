----------------------------- MODULE LogIngest -----------------------------
(***************************************************************************)
(* What the MQ consumer promises about log messages, with no broker, no    *)
(* connection and no redelivery in sight: every published log event gets   *)
(* exactly one row in ops_log, or its message ends in the dead letter      *)
(* queue.                                                                  *)
(***************************************************************************)
EXTENDS Naturals, Sequences

CONSTANTS
  Logs,       \* the numbers of the messages that carry a log
  Event,      \* the event each message reports
  Count       \* how many messages are published

VARIABLES
  published,  \* messages are published in the order 1 .. Count
  rows,       \* ops_log: the message each row was made from, by log_id
  dead        \* the dead letter queue

vars == <<published, rows, dead>>

\* The events that have a row.
Stored == {Event[rows[i]] : i \in 1 .. Len(rows)}

Init == published = 0 /\ rows = <<>> /\ dead = {}

Publish ==
  /\ published < Count
  /\ published' = published + 1
  /\ UNCHANGED <<rows, dead>>

Insert(m) ==
  /\ m <= published
  /\ Event[m] \notin Stored
  /\ rows' = Append(rows, m)
  /\ UNCHANGED <<published, dead>>

\* A message may be given up, also after its event has been stored.
GiveUp(m) ==
  /\ m <= published
  /\ dead' = dead \cup {m}
  /\ UNCHANGED <<published, rows>>

Next ==
  \/ Publish
  \/ \E m \in Logs : Insert(m)
  \/ \E m \in 1 .. Count : GiveUp(m)

\* A log whose event has no row is stored or given up in the end.
Resolve(m) ==
  /\ Event[m] \notin Stored /\ m \notin dead
  /\ Insert(m) \/ GiveUp(m)

Safety == Init /\ [][Next]_vars
Spec == Safety /\ \A m \in Logs : WF_vars(Resolve(m))

=============================================================================
