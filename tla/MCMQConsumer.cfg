\* Six messages over three connections: two reports of one machine, one log
\* published twice, one legacy log, one message of an unknown kind.
\* The broker has noticed that a connection is gone by the time the consumer
\* is back.
\* Deadlock is not checked: the instance stops when all messages have
\* settled.
CONSTANTS
  os1 = os1
  event1 = event1
  digest1 = digest1
  digest2 = digest2
  digest3 = digest3
  Message <- MCMessage
  Count = 6
  StateKeys = {os1}
  Prefetch = 2
  MaxConnections = 3
  LateDetection = FALSE
  None = None

SPECIFICATION FairSpec

INVARIANTS
  TypeOK
  NothingLost
  LatestStateWins

PROPERTIES
  LogsIngestedOnce
  EverythingSettles

CHECK_DEADLOCK FALSE
