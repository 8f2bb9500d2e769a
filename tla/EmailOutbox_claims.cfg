CONSTANTS
  None = none
  Emails = {e1, e2}
  Workers = {w1, w2}
  Backoff <- OneRetry
  Stale = 1
  MaxAge = 2
  BatchSize = 1
  MaxTime = 5
  MaxRejections = 3
  MaxFailures = 1
  SlowRun = FALSE
CHECK_DEADLOCK FALSE
SPECIFICATION Spec
SYMMETRY Symmetry
INVARIANTS SentOnce
PROPERTY OutcomeIsFinal
