\* Two connections, a row of ops_state with two times, two commits.
CONSTANTS
  Conns = {c1, c2}
  Records = {r1}
  Times = {1, 2}
  None = None
  MaxChanges = 2

SPECIFICATION FairSpec

INVARIANTS
  TypeOK
  LiveIsRegistered

PROPERTIES
  VersionChangePushed
  DeadAreDropped
