CONSTANTS
  None = none
  Punches = {p1}
  Leaves = {l1}
  DayOf <- FirstDayOnly
  OvertimeOf <- PairsAreOvertime
  LastDay = 2
  Hired = 0
  Lookback = 1
  FillDays = 2
  MaxGap = 1
  Changers = {c1, c2}
  Finalizers = {f1}
  Reviewers = {}
  MaxChanges = 2
  MaxFaults = 1
  Mortal = {f1}
  SameDay = FALSE
  PlanRaces = FALSE
  ReviewRaces = FALSE
CHECK_DEADLOCK FALSE
SPECIFICATION Spec
SYMMETRY Symmetry
INVARIANTS RecordsCurrent
