CONSTANTS
  Terminals = {t1, t2}
  NoTerminal = none
  Punches = {p1}
  Rejected = {}
  Syncs = {s1}
  Flushes = {f1}
  Probes = {r1}
  Admins = {a1}
  MaxLog = 1
  MaxWipes = 0
  MaxEdits = 2
  MaxFaults = 0
  SlowSync = FALSE
  EditsWhileBusy = TRUE
CHECK_DEADLOCK FALSE
SPECIFICATION Spec
SYMMETRY Symmetry
PROPERTIES DisabledStaysDisabled
