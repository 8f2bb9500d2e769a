CONSTANTS
  DayLength = 12
  Before = 2
  After = 3
  Templates <- AllTemplates
  NoShift = noshift
  Schedules <- AllSchedules
  Instants = {37, 41}
  LastDate = 3
  Retroactive = 3
  None = none
  MaxChanges = 3
CHECK_DEADLOCK FALSE
SPECIFICATION Spec
INVARIANT OnExactlyOneDay
