CONSTANTS
  Second = 2
  MaxDuration = 15
  MaxInt = 15
  Backoff <- MCBackoff
  MaxRetryAfter = 5
  Identifiers <- MCIdentifiers
  MessageIDs = {"msg_1"}
  Normal <- MCNormal
  Calendar = 9
  Tolerance = 5
  App = "app"
  Message = "msg_1"
  Recipient = "ann@example.com"
  Spellings = {"ann@example.com", "Ann@example.com"}
  Routes <- MCRoutes
  Ids <- MCIds
  MaxAttempts = 3
  Headers <- MCHeaders
  Instants <- MCInstants
  Offsets <- MCOffsets
  MaxEvents = 2
SPECIFICATION Spec
CHECK_DEADLOCK FALSE
INVARIANT RecordsReadBack
INVARIANT NotificationsTakeEffect
INVARIANT FallsBackAsTold
