--------------------------- MODULE DayAttribution ---------------------------
(***************************************************************************)
(* The schedule history of one employee, the holidays and the punches, and *)
(* the records computed from them.  Every change is followed by the        *)
(* recomputation its handler makes: which dates it covers is the question  *)
(* here.  Handlers follow one another (AttendanceRecords has them overlap) *)
(* and the last date is today throughout; every day has its record from    *)
(* the start, so that completing missing days adds nothing.                *)
(***************************************************************************)
EXTENDS WorkDays

CONSTANTS
  Schedules,    \* weekly schedules: the template of every date, or NoShift
  Instants,     \* when punches may occur
  LastDate,     \* today
  Retroactive,  \* MAX_RETROACTIVE_DAYS
  None,         \* effective_to is null
  MaxChanges    \* bound: changes of schedules, holidays and punches

Past  == 1..LastDate
Days  == 1..(LastDate + 1)
Dates == -1..(LastDate + 3)

ASSUME DateAssumption == LastDate \in Nat \ {0} /\ Retroactive \in Nat
ASSUME ScheduleAssumption == Schedules \subseteq [Dates -> Templates \cup {NoShift}]
ASSUME InstantAssumption ==
  Instants \subseteq Int /\ \A t \in Instants : LocalDate(t) \in Past
ASSUME NoneAssumption == None \notin Int
ASSUME BoundAssumption == MaxChanges \in Nat

VARIABLES
  rows,      \* employee_schedules
  holidays,  \* dates of table holidays
  punches,   \* instants of the punches that count
  record,    \* record[d]: what the record of date d says of the punches
  since,     \* history: the days around d that changed since its record was computed
  changes    \* how much of the bound is used

vars == <<rows, holidays, punches, record, since, changes>>

Row == [from : Days, to : Dates \cup {None}, schedule : Schedules]

-----------------------------------------------------------------------------
(* WorkCalendar: the first row in force on a date, and its holidays.       *)

InForce(r, d) == r.from <= d /\ (r.to = None \/ r.to >= d)

TemplateOn(rs, d) ==
  IF \E r \in rs : InForce(r, d)
    THEN (CHOOSE r \in rs : InForce(r, d)).schedule[d]
    ELSE NoShift

CalendarOf(rs, hs) ==
  [d \in Dates |-> [template |-> TemplateOn(rs, d), holiday |-> d \in hs]]

Calendar == CalendarOf(rows, holidays)

\* Mutant: only the dates before and after are loaded.
MarginOfOne == 1

\* How many dates before and after the asked ones are loaded with them.
Margin == 2

\* load: the rows and the holidays that touch the dates from..to and their margin.
SnapshotOf(rs, hs, from, to) ==
  LET first == from - Margin
      last  == to + Margin
  IN  CalendarOf({r \in rs : r.from <= last /\ (r.to = None \/ r.to >= first)},
                 hs \cap (first..last))

\* What the record of date d says, computed with calendar cal from the punches ps.
RecordOf(cal, d, ps) == [counted |-> Counted(cal, d, ps), strays |-> Strays(cal, d, ps)]

-----------------------------------------------------------------------------
Init ==
  /\ rows = {}
  /\ holidays = {}
  /\ punches = {}
  /\ record = [d \in Days |-> RecordOf(Calendar, d, {})]
  /\ since = [d \in Days |-> {}]
  /\ changes = 0

\* The records of the given dates, all of them within from..to, computed with the snapshot
\* of that range as the change has left it.
Recompute(dates, from, to) ==
  LET snapshot == SnapshotOf(rows', holidays', from, to)
      now      == CalendarOf(rows', holidays')
      changed  == {d \in Dates : now[d] # Calendar[d]}
  IN
  /\ record' = [d \in Days |->
       IF d \in dates THEN RecordOf(snapshot, d, punches') ELSE record[d]]
  /\ since'  = [d \in Days |->
       IF d \in dates THEN {} ELSE since[d] \cup (changed \cap ((d - 2)..(d + 2)))]

Change == changes < MaxChanges /\ changes' = changes + 1

\* Mutant: the day recomputed is the date of the punch.
ProcessPunchOnItsDate(t) == Recompute({LocalDate(t)}, LocalDate(t) - 1, LastDate)

\* processEvents: the day the punch belongs to, with a calendar loaded from the date before
\* the punch on.
ProcessPunch(t) ==
  LET owner == WorkDateOf(SnapshotOf(rows', holidays', LocalDate(t) - 1, LastDate), t) IN
  Recompute({owner}, LocalDate(t) - 1, LastDate)

\* A punch is stored, or a voided one is restored by a manual one.
StorePunch(t) ==
  /\ Change
  /\ t \notin punches
  /\ punches' = punches \cup {t}
  /\ UNCHANGED <<rows, holidays>>
  /\ ProcessPunch(t)

VoidPunch(t) ==
  /\ Change
  /\ t \in punches
  /\ punches' = punches \ {t}
  /\ UNCHANGED <<rows, holidays>>
  /\ ProcessPunch(t)

\* createHoliday: recomputeDateIfPast recomputes that date alone.
CreateHoliday(d) ==
  /\ Change
  /\ d \notin holidays
  /\ holidays' = holidays \cup {d}
  /\ UNCHANGED <<rows, punches>>
  /\ Recompute({d} \cap Past, d, d)

RemoveHoliday(d) ==
  /\ Change
  /\ d \in holidays
  /\ holidays' = holidays \ {d}
  /\ UNCHANGED <<rows, punches>>
  /\ Recompute({d} \cap Past, d, d)

\* recomputeRetroactively: the dates from the given one to today, within the limit.
RecomputeSince(from) ==
  LET start == IF from < LastDate - Retroactive THEN LastDate - Retroactive ELSE from IN
  Recompute(start..LastDate, start, LastDate)

\* createAssignment closes the row in force the day before the new one starts.
Closed(r, from) ==
  IF r.to = None \/ r.to >= from THEN [r EXCEPT !.to = from - 1] ELSE r

\* assign
Assign(s, from) ==
  /\ Change
  /\ \A r \in rows : r.from < from
  /\ rows' = {Closed(r, from) : r \in rows}
               \cup {[from |-> from, to |-> None, schedule |-> s]}
  /\ UNCHANGED <<holidays, punches>>
  /\ RecomputeSince(from)

\* The latest of the rows that are left runs open-ended again.
Reopened(rs) ==
  {IF \A q \in rs : q.from <= r.from THEN [r EXCEPT !.to = None] ELSE r : r \in rs}

\* unassign
Unassign(r) ==
  /\ Change
  /\ \A q \in rows : q.from <= r.from
  /\ r.from >= LastDate - Retroactive
  /\ rows' = Reopened(rows \ {r})
  /\ UNCHANGED <<holidays, punches>>
  /\ RecomputeSince(r.from)

\* POST /attendance/recompute
RequestRecompute(from, to) ==
  /\ UNCHANGED <<rows, holidays, punches, changes>>
  /\ Recompute(from..to, from, to)

-----------------------------------------------------------------------------
\* Mutant: the day is the date of the punch.
PreviewDayOnItsDate(t) == LocalDate(t)

\* previewDay loads a calendar for the date of the punch alone: the day it falls to by that
\* calendar, and what that day would say with the punch.
PreviewDay(t) == WorkDateOf(SnapshotOf(rows, holidays, LocalDate(t), LocalDate(t)), t)

Preview(t) ==
  RecordOf(SnapshotOf(rows, holidays, LocalDate(t), LocalDate(t)), PreviewDay(t), punches \cup {t})

-----------------------------------------------------------------------------
Next ==
  \/ \E t \in Instants : StorePunch(t) \/ VoidPunch(t)
  \/ \E d \in Days : CreateHoliday(d) \/ RemoveHoliday(d)
  \/ \E s \in Schedules, from \in Days : Assign(s, from)
  \/ \E r \in rows : Unassign(r)
  \/ \E from, to \in Past : RequestRecompute(from, to)

Spec == Init /\ [][Next]_vars

-----------------------------------------------------------------------------
(* Properties.                                                             *)

TypeOK ==
  /\ rows \in SUBSET Row /\ \A r \in rows : r.to # None => r.from <= r.to
  /\ holidays \in SUBSET Days
  /\ punches \in SUBSET Instants
  /\ record \in [Days -> [counted : SUBSET Instants, strays : SUBSET Instants]]
  /\ since \in [Days -> SUBSET Dates]
  /\ changes \in 0..MaxChanges

\* From the first assignment on, exactly one is in force on every date: the history has
\* neither gaps nor overlaps, however assignments are made and undone.
OneScheduleEachDay ==
  \A d \in Dates :
    (\E r \in rows : r.from <= d) => \E r \in rows : \A q \in rows : InForce(q, d) <=> q = r

Clock == Midnight(1)..(Midnight(LastDate + 1) - 1)

\* A later punch never belongs to an earlier day, so the punches of a day are an interval and
\* an exit is never attributed to a day that ended before its entry's.
InOrder ==
  LET cal   == Calendar
      owned == {<<t, WorkDateOf(cal, t)>> : t \in Clock}
  IN  \A p, q \in owned : p[1] <= q[1] => p[2] <= q[2]

\* A punch belongs to the nearest of all shifts whose window has it, not only of the shifts
\* around its date, as long as no window spills further than that.
NearestOfAll ==
  LET cal == Calendar IN
  \A t \in Clock :
    LET owner == WorkDateOf(cal, t) IN
    \A d \in Dates :
      Claims(cal, d, t) => Claims(cal, owner, t) /\ Nearer(cal, t, owner, d)

\* Within the retroactive limit a record is out of date only because a day at most two before
\* or after it changed since: what the day itself has to work, and a punch that comes or goes,
\* always reach the record of the day they belong to.  In particular the two dates of margin of
\* a snapshot are enough: nothing further away decides what a day owns.
StaleOnlyNearAChange ==
  LET cal == Calendar IN
  \A d \in Past : d >= LastDate - Retroactive =>
    /\ d \notin since[d]
    /\ record[d] # RecordOf(cal, d, punches) => since[d] # {}

\* A punch that is stored changes the day the preview of a manual correction names, as it says
\* and no other, though the preview sees fewer dates around it than the computation does.
PreviewComesTrue ==
  [][\A t \in Instants :
       (t \notin punches /\ punches' = punches \cup {t}) =>
         record' = [record EXCEPT ![PreviewDay(t)] = Preview(t)]]_vars

\* Every punch is on the record of exactly one day, counted or reported.
OnExactlyOneDay ==
  \A t \in punches :
    \E d \in Days : \A e \in Days : t \in record[e].counted \cup record[e].strays <=> e = d
=============================================================================
