CONSTANTS
  None = none
  Handlers = {h1, h2}
  Employees = {e1, e2}
  BiometricIds = {i1, i2}
  Badges = {p1, p2}
  IdOf <- OneId
  MaxSaves = 3
  IngestRaces = FALSE
  SaveRaces = FALSE
  Entries = {d1, d2}
  Staff = {s1}
  Titles = {t1}
  Weekdays = {1, 2}
  MaxCalls = 5
  AssignRaces = FALSE
  RenameRaces = FALSE
  WeekRaces = FALSE
  Company = company
  Schedules = {company, other}
  LastAssigned = 4
  Today = 3
  EarliestDate = 2
  MaxOps = 4
  UndoSwallowed = FALSE
  UnassignRaces = FALSE
  Minute = 2
  EarlyLunch = 1
  Situations <- AllSituations
  Keys = {"CHECK_IN", "BREAK_OUT", "UNKNOWN"}
  LeaveIntervals <- DayLeaves
  MaxPunches = 4
  MaxCorrections = 1
  MonthDays <- Calendar
  MonthsPerYear = 2
  Unit = 4
  Kinds <- AllKinds
  Terms <- AllTerms
  Renewals <- Renewal
  Hired = 1
  FirstToday = 6
  LastToday = 8
  DayParts = 4
  Shift <- OfficeHours
  WorkingDates = {6, 7, 9, 10}
  Horizon = 2
  Adjustments = {4}
  MaxRequests = 2
  MaxChanges = 1
  RequestRaces = FALSE
  Straddling = FALSE
  Crashes = FALSE
SYMMETRY Alike
CHECK_DEADLOCK FALSE
SPECIFICATION SpecAll
INVARIANTS PunchesFindTheirEmployee CataloguesStand OneScheduleADay RecordsFollowHistory LeavesStand LeavesRecorded PresenceIsWorkingTime ReportsAgree
PROPERTIES LossesAreForeseen LeaveNeverHurts
