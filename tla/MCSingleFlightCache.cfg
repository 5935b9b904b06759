\* One key and three request threads, so that a flight has two followers;
\* one consumer that commits once.
CONSTANTS
  os = os
  process = process
  Threads = {t1, t2, t3}
  Writers = {w1}
  Broadcasters = {}
  Keys = {os}
  Kinds <- MCKinds
  KindOf <- MCKindOf
  Requests <- OsOnly
  MaxVersion = 1
  None = None
  Failed = Failed

SPECIFICATION FairSpec

INVARIANTS
  TypeOK
  SingleBuilder
  FlightTableExact
  NoOrphanWaiter

PROPERTIES
  CallReturns
  EventuallyFresh
