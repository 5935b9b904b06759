\* Six messages over three connections: two reports of one machine, one log
\* published twice, one legacy log, one message of an unknown kind.
\* The consumer may be back before the broker has noticed that its last
\* connection is gone.
\* Deadlock is not checked: the instance stops when all messages have
\* settled.
CONSTANTS
  os1 = os1
  event1 = event1
  digest1 = digest1
  digest2 = digest2
  digest3 = digest3
  Message <- MCMessage
  Count = 6
  StateKeys = {os1}
  Prefetch = 2
  MaxConnections = 3
  LateDetection = TRUE
  None = None

SPECIFICATION Spec

INVARIANTS
  LatestStateWins

CHECK_DEADLOCK FALSE
