\* One connection and two rows of ops_state; whether every commit is announced.
CONSTANTS
  Conns = {c1}
  Records = {r1, r2}
  Times = {1, 2}
  None = None
  MaxChanges = 2

SPECIFICATION FairSpec

PROPERTIES
  EveryChangePushed
