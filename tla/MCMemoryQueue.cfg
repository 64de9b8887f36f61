CONSTANTS
  Capacity = 2
  Callers = {c1, c2, c3}
  Workers = {w1, w2}
  Delays <- MCDelays
  MaxSeq = 3
  MaxTime = 3
SPECIFICATION FairSpec
CHECK_DEADLOCK FALSE
INVARIANT TypeOK
INVARIANT PendingExact
INVARIANT NothingLostOrDuplicated
INVARIANT NoLostWakeup
PROPERTY HandedOutInOrder
PROPERTY ImplementsDelayQueue
PROPERTY EventuallyTaken
PROPERTY CloseStopsWorkers
