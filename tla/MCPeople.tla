------------------------------ MODULE MCPeople -------------------------------
(***************************************************************************)
(* Model-checking instance of what the server keeps about people: their    *)
(* directory, the catalogues it refers to, their schedules, their leave    *)
(* requests, and a day of theirs from the first punch to the final         *)
(* figures.  Directory, Catalogues, Assignments, LeaveRequests and         *)
(* AttendanceDay share the handlers of the process and nothing else, so a  *)
(* behaviour is about one of them, chosen at the start.                    *)
(***************************************************************************)
EXTENDS LeaveRequests, TLC

CONSTANTS
    None,
    Employees, BiometricIds, Badges, IdOf, MaxSaves, IngestRaces, SaveRaces,
    Entries, Staff, Titles, Weekdays, MaxCalls, AssignRaces, RenameRaces, WeekRaces,
    Company, Schedules, LastAssigned, Today, EarliestDate, MaxOps, UndoSwallowed, UnassignRaces,
    Minute, EarlyLunch, Situations, Keys, LeaveIntervals, MaxPunches, MaxCorrections

VARIABLES
    focus,  \* which of them this behaviour is about
    employee, owner, counted, saves,
    kind, entries, staff, week, hours, call, begun,
    rows, record, ops,
    situation, now, punches, leaves, figures, inside, corrections, corrected

directory == <<employee, owner, counted, saves>>
catalogue == <<kind, entries, staff, week, hours, call, begun>>
history == <<rows, record, ops>>
day == <<situation, now, punches, leaves, figures, inside, corrections, corrected>>
leave == <<requests, adjustments, terms, today, covered, forecast, changes>>
allVars == <<focus, jobs, directory, catalogue, history, day, leave>>

D == INSTANCE Directory WITH Ids <- BiometricIds, Punches <- Badges
C == INSTANCE Catalogues WITH Callers <- Handlers, rows <- entries, shift <- hours, SaveRaces <- WeekRaces
A == INSTANCE Assignments WITH LastDate <- LastAssigned
F == INSTANCE MonthDocuments WITH record <- figures

ASSUME BadgeAssumption ==
    /\ IdOf \in [Badges -> BiometricIds]
    /\ None \notin BiometricIds \cup Employees /\ D!Unknown \notin Employees \cup {None}
ASSUME HistoryAssumption ==
    LastAssigned \in Nat /\ Today \in Nat /\ EarliestDate \in Int /\ None \notin Int
ASSUME CatalogueAssumption ==
    /\ Weekdays # {} /\ None \notin Entries
    /\ None \notin [name : Seq(Titles \cup Nat), live : BOOLEAN]
    /\ None \notin [live : BOOLEAN, of : Entries \cup {None}, wanted : Entries \cup {None}]
ASSUME LeaveAssumption ==
    /\ DayParts \in Nat \ {0} /\ FirstToday \in Nat /\ MaxRequests \in Nat
    /\ \A k \in Kinds : k.span \in Int \X Int

InitAll ==
    /\ focus \in {"directory", "catalogues", "assignments", "leave", "day"}
    /\ D!Init /\ C!Init /\ A!Init /\ F!Init /\ Init
    /\ focus # "catalogues" => kind = "office"
    /\ focus # "assignments" => rows = {}
    /\ focus # "leave" => terms = CHOOSE t \in Terms : TRUE
    /\ focus # "day" => situation = CHOOSE s \in Situations : TRUE

NextAny ==
    \/ focus = "directory" /\ D!Next /\ UNCHANGED <<focus, catalogue, history, leave, day>>
    \/ focus = "catalogues" /\ C!Next /\ UNCHANGED <<focus, jobs, directory, history, leave, day>>
    \/ focus = "assignments" /\ A!Next /\ UNCHANGED <<focus, directory, catalogue, leave, day>>
    \/ focus = "leave" /\ Next /\ UNCHANGED <<focus, directory, catalogue, history, day>>
    \/ focus = "day" /\ F!Next /\ UNCHANGED <<focus, jobs, directory, catalogue, history, leave>>

SpecAll == InitAll /\ [][NextAny]_allVars

Alike == Permutations(Handlers)

\* Every badge is the same id.
OneId == CHOOSE f \in [Badges -> BiometricIds] : \A p, q \in Badges : f[p] = f[q]

\* A year of two months, a month of two days or three, four parts to a day.
Calendar == <<2, 2, 3, 2, 2>>
OfficeHours == <<1, 4>>

Accrual(accrual, days, expiry) ==
    [daysPerYear |-> days, accrual |-> accrual, expiryMonths |-> expiry,
     afterYears |-> 1, extraPerYear |-> 1, maxExtra |-> 1]

Employment(rule, working, half) ==
    [rule |-> rule, workingDaysOnly |-> working, halfDays |-> half, negative |-> FALSE,
     leaves |-> Never]

Yearly    == Employment(Accrual("ANNUAL", 1, 1), TRUE, TRUE)
Monthly   == Employment(Accrual("MONTHLY", 2, 1), TRUE, FALSE)
InAdvance == Employment(Accrual("CALENDAR_YEAR", 1, 1), FALSE, TRUE)

AllTerms == {Yearly, InAdvance}
Renewal == {<<Yearly, Monthly>>}

Ask(type, from, to) == [type |-> type, span |-> <<from, to>>]

\* A morning, the day before, and a permission across the midnight between them.
AllKinds == {Ask("VACATION", 29, 30), Ask("VACATION", 24, 28), Ask("PERMISSION", 26, 30)}

\* Half minutes: a shift of three minutes with a lunch of one, tolerances of none.
Hours(flexible) ==
    [flexible |-> flexible, start |-> 2, end |-> 8, breakStart |-> 4, breakEnd |-> 6,
     lateTolerance |-> 0, earlyTolerance |-> 0, overtimeThreshold |-> 1]

Rules(pairing, basis, countEarly) ==
    [pairing |-> pairing, doublePress |-> 2, deductBreak |-> TRUE, basis |-> basis,
     countEarly |-> countEarly, overtime |-> TRUE, overtimeThreshold |-> 1]

Judged(type, shift, from, to, policy) ==
    [day |-> [type |-> type, shift |-> shift, from |-> from, to |-> to], policy |-> policy]

AllSituations ==
    {Judged("WORKDAY", Hours(FALSE), 0, 9, Rules("SEQUENTIAL", "AFTER_SHIFT_END", TRUE)),
     Judged("WORKDAY", Hours(TRUE), 0, 8, Rules("SEQUENTIAL", "AFTER_SHIFT_END", FALSE)),
     Judged("WORKDAY", Hours(FALSE), 2, 8, Rules("DEVICE_TYPE", "EXCESS_WORKED_TIME", FALSE)),
     Judged("HOLIDAY", None, 0, 5, Rules("SEQUENTIAL", "AFTER_SHIFT_END", FALSE)),
     Judged("WORKDAY", None, 0, 5, Rules("SEQUENTIAL", "AFTER_SHIFT_END", FALSE))}

\* Before the shift, of its morning, and of its afternoon and beyond.
DayLeaves == {[start |-> 0, end |-> 1], [start |-> 1, end |-> 4], [start |-> 5, end |-> 9]}

(* The properties of the other four, explained in their modules: a punch   *)
(* finds the employee who has its id,                                      *)
PunchesFindTheirEmployee == D!PunchesFindTheirEmployee
(* the catalogues stand behind what refers to them,                        *)
CataloguesStand == C!CataloguesStand
(* a date has one schedule in force,                                       *)
OneScheduleADay == A!OneScheduleADay
(* past days are computed with it,                                         *)
RecordsFollowHistory == A!RecordsFollowHistory
(* the record and the presence board tell the same day,                    *)
PresenceIsWorkingTime == F!PresenceIsWorkingTime
(* a leave approved for a closed day makes nobody look worse,              *)
LeaveNeverHurts == F!LeaveNeverHurts
(* and the documents of a month add up the same days, the dashboard and    *)
(* the board place a person alike.                                         *)
ReportsAgree == focus = "day" => F!DocumentsAgree /\ F!DashboardAgrees

(* Those of LeaveRequests, where there is something to evaluate: active    *)
(* requests overlap only if filed at the same moment, and an approved      *)
(* vacation takes days that are there,                                     *)
LeavesStand == focus = "leave" => NoOverlap /\ NeverOverdrawn
(* and past records show the approved leaves.                              *)
LeavesRecorded == focus = "leave" => RecordsFollowLeave
=============================================================================
