CONSTANTS
  None = None
  Logs <- MCLogs
  Apps <- MCApps
  StatsApps <- MCApps
  DefaultLimit = 2
  MaxLimit = 3
  Hours = 1
  MessageQuerySet <- MCMessageQueries
  EventQuerySet <- MCEventQueries
SPECIFICATION Spec
CHECK_DEADLOCK FALSE
INVARIANT QueriesSeeLatest
INVARIANT RecordedOnce
INVARIANT ListsAgree
INVARIANT SummaryExact
