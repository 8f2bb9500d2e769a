CONSTANTS
  None = none
  Punches = {p1, p2}
  Leaves = {}
  DayOf <- FirstDayOnly
  OvertimeOf <- PairsAreOvertime
  LastDay = 0
  Hired = 0
  Lookback = 1
  FillDays = 1
  MaxGap = 0
  Changers = {c1, c2}
  Finalizers = {}
  Reviewers = {}
  MaxChanges = 2
  MaxFaults = 0
  Mortal = {}
  SameDay = TRUE
  PlanRaces = FALSE
  ReviewRaces = FALSE
CHECK_DEADLOCK FALSE
SPECIFICATION Spec
SYMMETRY Symmetry
INVARIANTS RecordsCurrent
