CONSTANTS
  m1 = m1
  m2 = m2
  Messages <- MCMessages
  Workers = {w1, w2}
  Recipient <- MCRecipient
  Channels <- MCChannels
  MaxAttempts = 2
  Backoff <- OneSecond
  RetryAfters = {0, 2}
  MaxRetryAfter = 1
  Capacity = 1
  MaxTime = 2
  Reports <- NoReports
SPECIFICATION FairSpec
CHECK_DEADLOCK FALSE
PROPERTY EveryMessageSettles
