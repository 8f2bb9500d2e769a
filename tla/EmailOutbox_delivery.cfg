CONSTANTS
  None = none
  Emails = {e1}
  Workers = {w1, w2}
  Backoff <- TwoRetries
  Stale = 1
  MaxAge = 8
  BatchSize = 1
  MaxTime = 11
  MaxRejections = 1
  MaxFailures = 1
  SlowRun = FALSE
CHECK_DEADLOCK FALSE
SPECIFICATION FairSpec
PROPERTY Delivered
