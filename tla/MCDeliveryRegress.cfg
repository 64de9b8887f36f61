CONSTANTS
  m1 = m1
  m2 = m2
  Messages <- MCMessages
  Workers = {w1, w2}
  Recipient <- MCRecipient
  Channels <- MCChannels
  MaxAttempts = 2
  Backoff <- NoBackoff
  RetryAfters = {0}
  MaxRetryAfter = 1
  Capacity = 1
  MaxTime = 0
  Reports <- MCReports
SPECIFICATION Spec
SYMMETRY Symmetry
CHECK_DEADLOCK FALSE
PROPERTY StatusNeverRegresses
