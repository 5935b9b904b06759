\* The instance of MCDashboard.cfg; whether requests of one round can be under
\* way in a later one.
CONSTANTS
  Panels = {"os", "log"}
  Filters = {all, g}
  NoFilter = all
  Pages = {1, 2}
  None = None
  MaxVersion = 1
  MaxChoices = 1
  MaxFailures = 1

SPECIFICATION Spec

INVARIANTS
  OneRoundAtATime

\* The page may be closed.
CHECK_DEADLOCK FALSE
