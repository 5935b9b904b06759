\* Two overview requests over two keys; w1 stands for the consumer and for
\* the broadcast loop, one invalidation at a time.
CONSTANTS
  os = os
  process = process
  Threads = {t1, t2}
  Writers = {w1}
  Broadcasters = {w1}
  Keys = {os, process}
  Kinds <- MCKinds
  KindOf <- MCKindOf
  Requests <- Overview
  MaxVersion = 1
  None = None
  Failed = Failed

SYMMETRY ThreadSymmetry

SPECIFICATION FreshSpec

INVARIANTS
  StaleOnlyWhenStoredLate
  OneRebuildPerMiss
