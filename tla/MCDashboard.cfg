\* The OS and the log panel, two pages of logs, a filter of the OS rows.
CONSTANTS
  Panels = {"os", "log"}
  Filters = {all, g}
  NoFilter = all
  Pages = {1, 2}
  None = None
  MaxVersion = 1
  MaxChoices = 1
  MaxFailures = 1

SPECIFICATION FairSpec

INVARIANTS
  TypeOK
  CoordinatorExact
  TimerMatchesMode

PROPERTIES
  LoneAnswerIsCurrent
  Converges
  KeepsRefreshing

\* The page may be closed.
CHECK_DEADLOCK FALSE
