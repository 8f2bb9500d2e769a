CONSTANTS
  None = none
  Handlers = {h1, h2}
  MaxMishaps = 1
  Rules = {r1, r2}
  Values = {v1, v2}
  Default <- OneValue
  MaxUpdates = 3
  UpdateRaces = FALSE
  MaxSaves = 2
  Refetches = FALSE
  Returns = FALSE
  Chunk = 2
  Attempts = 2
  MaxPunches = 4
  MaxWipes = 1
  MaxFaults = 2
  MaxSyncs = 3
  Minors <- TwoKinds
  PageSize = 1
  Lookback = 2
  Overlap = 1
  EndMargin = 2
  LastTime = 4
  MaxEvents = 4
  MaxResets = 1
  Crossings = FALSE
  HardResets = FALSE
  Devices = {d1, d2}
  Retention = 5
  LastStamp = 9
  Overlaps = FALSE
  LongOutages = FALSE
  Terminals = {ta, tb}
  MaxOps = 3
  Offerings <- Offers
  MaxCalls = 4
  MaxRenewals = 2
  Shares = FALSE
  Fleet <- SixSorts
  LargePage = 3
  SmallPage = 2
  MaxPages = 3
  MaxRecords = 1
  MaxTasks = 2
  Base = 2
  Payloads <- FewBytes
  MaxPackets = 3
  MaxLines = 2
  Zones <- Changes
  Days <- TurnOfTheYear
  FirstHour = 38
  LastHour = 54
  MaxReadings = 2
SYMMETRY Alike
CHECK_DEADLOCK FALSE
SPECIFICATION Spec
INVARIANTS NoSettingLost NothingPassedOver NothingMissed OutagesAreTold PushesAreWanted
  TerminalIsRead AnswersArrive ReadingsAreKept
PROPERTIES RefusedForCause
