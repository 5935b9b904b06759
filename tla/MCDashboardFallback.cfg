\* The instance of MCDashboard.cfg without selections and failures; whether a
\* page without a connection goes on polling.
CONSTANTS
  Panels = {"os", "log"}
  Filters = {all, g}
  NoFilter = all
  Pages = {1, 2}
  None = None
  MaxVersion = 1
  MaxChoices = 0
  MaxFailures = 0

SPECIFICATION FairSpec

PROPERTIES
  PollsWhenDisconnected

\* The page may be closed.
CHECK_DEADLOCK FALSE
