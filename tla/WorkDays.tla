------------------------------ MODULE WorkDays ------------------------------
(***************************************************************************)
(* Which working day a punch belongs to (work-day.ts, WorkCalendar).       *)
(*                                                                         *)
(* Instants are minutes of one time zone without daylight saving: date d   *)
(* runs from Midnight(d) to Midnight(d + 1).  A shift is a template        *)
(* anchored on a date; a shift that does not end after its start ends on   *)
(* the next date.  A calendar maps dates to the template and the holiday   *)
(* they have.                                                              *)
(***************************************************************************)
EXTENDS Integers

CONSTANTS
  DayLength,   \* minutes in a day
  Before,      \* punchWindowBeforeShiftMinutes
  After,       \* punchWindowAfterShiftMinutes
  Templates,   \* shift templates
  NoShift      \* no template on that date

ASSUME DayLengthAssumption == DayLength \in Nat \ {0}
ASSUME PolicyAssumption == Before \in Nat /\ After \in Nat
\* Hours are times of a day; a shift without fixed hours stays within its day (validateShift).
ASSUME TemplateAssumption ==
  /\ Templates \subseteq [start : 0..(DayLength - 1), end : 0..(DayLength - 1),
                          flexible : BOOLEAN]
  /\ \A s \in Templates : s.flexible => s.start < s.end
ASSUME NoShiftAssumption == NoShift \notin Templates

Context == [template : Templates \cup {NoShift}, holiday : BOOLEAN]

Midnight(d) == d * DayLength

LocalDate(t) == t \div DayLength

-----------------------------------------------------------------------------
(* The shift and the window of date d in calendar cal.                     *)

StartOf(cal, d) == Midnight(d) + cal[d].template.start

EndOf(cal, d) ==
  LET s == cal[d].template IN
  IF s.end <= s.start THEN Midnight(d + 1) + s.end ELSE Midnight(d) + s.end

\* The window follows the shift, on a holiday as well; without fixed hours it is the date.
FixedHours(cal, d) == cal[d].template # NoShift /\ ~cal[d].template.flexible

From(cal, d) == IF FixedHours(cal, d) THEN StartOf(cal, d) - Before ELSE Midnight(d)
To(cal, d)   == IF FixedHours(cal, d) THEN EndOf(cal, d) + After ELSE Midnight(d + 1)

InWindow(cal, d, t) == From(cal, d) <= t /\ t < To(cal, d)

\* On a holiday nobody has a shift.
HasShift(cal, d) == cal[d].template # NoShift /\ ~cal[d].holiday

Claims(cal, d, t) == HasShift(cal, d) /\ InWindow(cal, d, t)

Distance(cal, d, t) ==
  IF t < StartOf(cal, d) THEN StartOf(cal, d) - t
  ELSE IF t > EndOf(cal, d) THEN t - EndOf(cal, d) ELSE 0

-----------------------------------------------------------------------------
\* d is at least as near to t as e; on a tie the earlier date wins.
Nearer(cal, t, d, e) ==
  \/ Distance(cal, d, t) < Distance(cal, e, t)
  \/ Distance(cal, d, t) = Distance(cal, e, t) /\ d <= e

\* Mutant: a shift that starts after midnight cannot have the punch of the evening before.
AroundBackwards(t) == {LocalDate(t) - 1, LocalDate(t)}

\* The dates whose shift could have the punch.
Around(t) == {LocalDate(t) - 1, LocalDate(t), LocalDate(t) + 1}

Claimants(cal, t) == {d \in Around(t) : Claims(cal, d, t)}

\* workDateOf: the nearest shift that claims the punch, or its own date.
WorkDateOf(cal, t) ==
  LET claimants == Claimants(cal, t) IN
  IF claimants = {} THEN LocalDate(t)
  ELSE CHOOSE d \in claimants : \A e \in claimants : Nearer(cal, t, d, e)

\* reachOf: the punches loaded for date d are those of its window and of its date.
Loaded(cal, d, t) ==
  /\ t >= From(cal, d) \/ t >= Midnight(d)
  /\ t < To(cal, d) \/ t < Midnight(d + 1)

\* split: of the punches ts, those date d counts and those it only reports.
Own(cal, d, ts) == {t \in ts : Loaded(cal, d, t) /\ WorkDateOf(cal, t) = d}
Counted(cal, d, ts) == {t \in Own(cal, d, ts) : InWindow(cal, d, t)}
Strays(cal, d, ts)  == {t \in Own(cal, d, ts) : ~InWindow(cal, d, t)}
=============================================================================
