CONSTANTS
  Handlers = {h1, h2}
  Requests <- MCRequests
  Rules <- MCRules
  Window <- MCWindow
  RuleLimit <- MCRuleLimit
  MaxMessages = 3
  MaxTime = 2
  CacheLimit = 2
  TTL = 2
  Capacity = 1
SPECIFICATION Spec
SYMMETRY Symmetry
CHECK_DEADLOCK FALSE
INVARIANT CompletionCannotFail
INVARIANT NothingLeaked
INVARIANT QuotaExact
INVARIANT AcceptedOncePerKey
INVARIANT LogAgreesWithQueue
