\* Two requests for one key, the consumer and the broadcast loop.
CONSTANTS
  os = os
  process = process
  Threads = {t1, t2}
  Writers = {w1}
  Broadcasters = {b}
  Keys = {os}
  Kinds <- MCKinds
  KindOf <- MCKindOf
  Requests <- OsOnly
  MaxVersion = 1
  None = None
  Failed = Failed

SPECIFICATION FreshSpec

PROPERTIES
  NextQueryReadsNewState
