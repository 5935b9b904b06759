SPECIFICATION FairSpec
CONSTANTS
  Requests = {r1, r2}
  Capacity = 1
INVARIANTS
  TypeOK
  ConnectionsInUse
  StopReachesConsumer
PROPERTIES
  RequestsEnd
  BroadcastGoesOn
  ShutdownCompletes
  ProbesEnd
  ClientComesBack
