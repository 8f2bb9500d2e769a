CONSTANTS
  Tabs = {t1, t2}
  Rules = {r1, r2}
  Values = {v1, v2}
  None = none
  MaxSaves = 2
  Refetches = TRUE
  Returns = FALSE
CHECK_DEADLOCK FALSE
SPECIFICATION Spec
INVARIANT NobodyUndone
