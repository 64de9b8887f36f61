CONSTANTS
  m1 = m1
  m2 = m2
  Messages <- MCMessages
  Workers = {w1, w2}
  MaxAttempts = 2
SPECIFICATION Spec
CHECK_DEADLOCK FALSE
INVARIANT StartedCallsFinish
