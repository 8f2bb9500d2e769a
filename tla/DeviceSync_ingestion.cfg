CONSTANTS
  Terminals = {t1}
  NoTerminal = none
  Punches = {p1, bad}
  Rejected = {bad}
  Syncs = {s1, s2}
  Flushes = {f1}
  Probes = {}
  Admins = {}
  MaxLog = 1
  MaxWipes = 1
  MaxEdits = 0
  MaxFaults = 1
  SlowSync = FALSE
  EditsWhileBusy = FALSE
CHECK_DEADLOCK FALSE
SPECIFICATION FairSpec
INVARIANTS NothingSkipped CoveredIsProcessed
PROPERTIES LedgerSpec EventuallyStored
