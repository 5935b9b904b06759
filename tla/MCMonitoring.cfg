\* Two configured machines and one that is not, three reports or log lines
\* while the clock goes from the last hour of the morning session over PM
\* start to midnight.
\* Deadlock is not checked: the clock stops at MaxTime.
SPECIFICATION Spec
CONSTANTS
  DayLength = 6
  AmStart = 1
  PmStart = 5
  Timeout = 1
  Threshold <- MCThreshold
  Within <- MCWithin
  SessionsOf <- MCSessionsOf
  WorkTime <- MCWorkTime
  Reserved = {}
  DefaultPageSize = 2
  MaxPageSize = 2
  None = None
  Cfgs <- MCCfgs
  Reports <- MCReports
  Lines <- MCLines
  LogQueries <- MCLogQueries
  LogPageSize = 1
  StartTime = 4
  MaxDelay = 1
  MaxTime = 6
  MaxEvents = 3
INVARIANTS
  TypeOK
  OfflineExactlyWhenSilent
  WorkTimeIsAnArc
  SessionOfTheHourDecides
  UnconfiguredMeansUnmatched
  GroupViewsAgree
  CardsMatchLists
  PagesMakeUpTheList
  NoLogSkipped
CHECK_DEADLOCK FALSE
