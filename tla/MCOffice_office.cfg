CONSTANTS
  None = none
  Punches = {x1, x2}
  Leaves = {}
  DayOf <- FirstDayOnly
  OvertimeOf <- PairsAreOvertime
  LastDay = 0
  Hired = 0
  Lookback = 1
  FillDays = 1
  MaxGap = 0
  Changers = {h1, h2}
  Finalizers = {}
  Reviewers = {r1, r2}
  MaxChanges = 4
  MaxFaults = 0
  Mortal = {}
  SameDay = TRUE
  PlanRaces = TRUE
  ReviewRaces = FALSE
  Tabs = {h1, h2}
  MaxTokens = 3
  MaxAccountChanges = 2
  MaxMishaps = 1
  LoginRaces = FALSE
  Users = {h1, h2}
  Employees = {x1, x2}
  Kept = kept
  MaxEdits = 2
  MaxRequests = 1
  EditRaces = FALSE
  StaleTokens = FALSE
  RemovesAdmins = FALSE
  MaxScreenChanges = 2
  QuickReturns = FALSE
  SlowLoads = FALSE
  MaxRoleChanges = 2
  Demotions = FALSE
SYMMETRY Symmetry
CHECK_DEADLOCK FALSE
SPECIFICATION SpecAll
INVARIANTS OvertimeFollows PasswordsTakeHold NoFalseAlarm AccountsStayUsable RightPeopleHear NothingForbidden ScreensFollow
PROPERTIES ReviewedKept
