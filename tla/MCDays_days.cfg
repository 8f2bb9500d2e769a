CONSTANTS
  DayLength = 12
  Before = 2
  After = 3
  Templates <- AllTemplates
  NoShift = noshift
  Schedules <- AllSchedules
  Instants = {25, 34, 37, 41}
  LastDate = 3
  Retroactive = 1
  None = none
  MaxChanges = 3
  Punches = {}
  Leaves = {}
  DayOf <- NoFacts
  OvertimeOf <- NoOvertime
  LastDay = 5
  Hired = 0
  Lookback = 3
  FillDays = 2
  MaxGap = 2
  Changers = {}
  Finalizers = {f1}
  Reviewers = {}
  MaxFaults = 1
  Mortal = {f1}
  SameDay = FALSE
  PlanRaces = FALSE
  ReviewRaces = FALSE
CHECK_DEADLOCK FALSE
SPECIFICATION SpecAll
INVARIANTS NearestOfAll StaleOnlyNearAChange
PROPERTIES PreviewComesTrue DaysAreClosed
