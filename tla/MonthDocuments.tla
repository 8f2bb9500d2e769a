--------------------------- MODULE MonthDocuments ----------------------------
(***************************************************************************)
(* What people are shown of a work day besides its record and the presence *)
(* board: the line and the totals of the month they sign                   *)
(* (attendance-month.ts, its workbook and its PDF), the monthly summary of *)
(* payroll (reports.service.ts), the time card of the screen (timecard.ts) *)
(* and the counts of the dashboard (dashboard.service.ts).                 *)
(*                                                                         *)
(* They are read off the day of AttendanceDay, which is date 2 of a month; *)
(* nobody punched on date 1, and date 3 is to come.  Names, words, notes,  *)
(* layout, the review of overtime and the rounding of times to the minute  *)
(* are left out.                                                           *)
(***************************************************************************)
EXTENDS AttendanceDay

LOCAL INSTANCE SequencesExt
LOCAL INSTANCE FiniteSetsExt

Dates == 1..3

-----------------------------------------------------------------------------
(* The records of the month, each with the stretches it stores.            *)

Segments == Pairs(Policy, Kept(Day, Policy, punches))

Stored ==
    LET Stretched(figures, segments) == [figures |-> figures, segments |-> segments]
        absence == 1 :> Stretched(Nothing("ABSENT", TRUE), <<>>)
    IN  IF record = None THEN absence ELSE absence @@ (2 :> Stretched(record, Segments))

Total(month, figure) == MapThenSumSet(LAMBDA date : month[date].figures[figure], DOMAIN month)
WithStatus(month, status) == Cardinality({date \in DOMAIN month : month[date].figures.status = status})
WorkedDays(month) == Cardinality({date \in DOMAIN month : month[date].figures.firstIn # None})
LateDays(month) == Cardinality({date \in DOMAIN month : month[date].figures.late > 0})

-----------------------------------------------------------------------------
(* The month to sign.                                                      *)

InstantOf(p) == IF p = None THEN None ELSE p.at

\* pausesOf: between an exit and the next entry.
Pauses(segments) ==
    LET returned == {i \in 1..(Len(segments) - 1) : segments[i].out # None /\ segments[i + 1].in # None}
    IN  [i \in returned |-> [out |-> segments[i].out.at, back |-> segments[i + 1].in.at]]

Length(p) == p.back - p.out

\* The first of the longest.
Lunch(pauses) ==
    LET longest == {i \in DOMAIN pauses : \A j \in DOMAIN pauses : Length(pauses[j]) <= Length(pauses[i])}
    IN  IF longest = {} THEN {} ELSE {Min(longest)}

NoLine == [entry |-> None, exit |-> None, lunch |-> <<>>, others |-> <<>>, figures |-> Nothing("NONE", TRUE)]

\* dayOf: entry and exit are those of the first and the last stretch.
LineOf(month, date) ==
    LET day == month[date]
        pauses == Pauses(day.segments)
    IN  IF date \notin DOMAIN month THEN NoLine
        ELSE [entry |-> IF day.segments # <<>> THEN InstantOf(day.segments[1].in)
                        ELSE day.figures.firstIn,
              exit |-> IF day.segments # <<>> THEN InstantOf(Last(day.segments).out)
                       ELSE day.figures.lastOut,
              lunch |-> [i \in Lunch(pauses) |-> pauses[i]],
              others |-> [i \in DOMAIN pauses \ Lunch(pauses) |-> pauses[i]],
              figures |-> day.figures]

\* Mutant: a day in course is not listed.
LinesUntilYesterday(month, hired, ended, today) ==
    [date \in {d \in Dates : d >= hired /\ d < today /\ d <= ended} |-> LineOf(month, date)]

\* sheetOf: the dates the person was with the company, up to today.
Lines(month, hired, ended, today) ==
    [date \in {d \in Dates : d >= hired /\ d <= today /\ d <= ended} |-> LineOf(month, date)]

\* totalsOf, some from the lines and some from the records.
SheetTotals(month, lines) ==
    [daysWorked |-> Cardinality({date \in DOMAIN lines : lines[date].entry # None}),
     worked |-> Total(lines, "worked"),
     late |-> Total(lines, "late"),
     short |-> Total(lines, "short"),
     overtime |-> Total(lines, "overtime"),
     absences |-> WithStatus(month, "ABSENT"),
     incomplete |-> WithStatus(month, "INCOMPLETE"),
     leaveDays |-> WithStatus(month, "ON_LEAVE")]

\* The hours of a line without an entry are not printed.
PrintedHours(lines) ==
    MapThenSumSet(LAMBDA date : lines[date].figures.worked,
                  {date \in DOMAIN lines : lines[date].entry # None})

-----------------------------------------------------------------------------
(* The summary of payroll, and the time card, which has no leave.          *)

MonthlyRow(month) ==
    [daysWorked |-> WorkedDays(month),
     lateDays |-> LateDays(month),
     absences |-> WithStatus(month, "ABSENT"),
     leaveDays |-> WithStatus(month, "ON_LEAVE"),
     incomplete |-> WithStatus(month, "INCOMPLETE"),
     worked |-> Total(month, "worked"),
     late |-> Total(month, "late"),
     early |-> Total(month, "early"),
     short |-> Total(month, "short")]

TimecardTotals(month) ==
    [daysWorked |-> WorkedDays(month),
     worked |-> Total(month, "worked"),
     lateDays |-> LateDays(month),
     late |-> Total(month, "late"),
     early |-> Total(month, "early"),
     overtime |-> Total(month, "overtime"),
     short |-> Total(month, "short"),
     absences |-> WithStatus(month, "ABSENT"),
     incomplete |-> WithStatus(month, "INCOMPLETE")]

-----------------------------------------------------------------------------
(* The dashboard, while the day is today.                                  *)

ArrivalDeadline(shift) ==
    IF shift.flexible THEN shift.end ELSE shift.start + shift.lateTolerance * Minute

\* Mutant: a leave is looked for in the record only.
CountedByRecord ==
    IF record # None /\ record.firstIn # None THEN "present"
    ELSE IF Day.shift = None \/ Day.type # "WORKDAY" THEN "none"
    ELSE IF record # None /\ record.status = "ON_LEAVE" THEN "onLeave"
    ELSE IF now > ArrivalDeadline(Day.shift) THEN "absent" ELSE "pendingArrival"

\* summary: what the person is counted as.
Counted ==
    IF record # None /\ record.firstIn # None THEN "present"
    ELSE IF Day.shift = None \/ Day.type # "WORKDAY" THEN "none"
    ELSE IF \/ \E l \in leaves : l.start <= now /\ now < l.end
            \/ record # None /\ record.status = "ON_LEAVE"
    THEN "onLeave"
    ELSE IF now > ArrivalDeadline(Day.shift) THEN "absent" ELSE "pendingArrival"

-----------------------------------------------------------------------------
(* Properties.                                                             *)

\* Some stretch lacks its entry, which only keys can do.
NoEntry == \E segment \in ToSet(Segments) : segment.in = None

(* A line of the month explains its hours: of a closed day that misses     *)
(* nothing, the time from its entry to its exit is the time worked and the *)
(* break, the break is the pauses it shows, and whatever else it contains  *)
(* is no longer than the lunch of the shift (dayOf).                       *)
LineExplainsHours(line) ==
    LET Sum(pauses) == MapThenSumSet(LAMBDA i : Length(pauses[i]), DOMAIN pauses)
        span == line.exit - line.entry
        paused == Sum(line.lunch) + Sum(line.others)
        lunch == IF HasBreak(Day.shift) THEN Day.shift.breakEnd - Day.shift.breakStart ELSE 0
    IN  \E deducted \in {0} \cup {Greatest(0, lunch - paused)} :
           /\ line.figures.worked = (span - paused - deducted) \div Minute
           /\ line.figures.break = (paused + deducted) \div Minute

(* The month that is signed, the summary of payroll and the time card add  *)
(* up the same days, whoever was hired or left in between, unless records  *)
(* are left outside the employment or a stretch lacks its entry; and the   *)
(* hours printed on the lines are those of the total.                      *)
TotalsAgree(month, hired, ended, today) ==
    LET lines == Lines(month, hired, ended, today)
        sheet == SheetTotals(month, lines)
        Alike(other) == \A f \in DOMAIN sheet \cap DOMAIN other : sheet[f] = other[f]
    IN  Alike(MonthlyRow(month)) /\ Alike(TimecardTotals(month)) /\ sheet.worked = PrintedHours(lines)

(* The documents say the same of a day, each of its hours included.        *)
DocumentsAgree ==
    record # None /\ ~NoEntry =>
        LET month == Stored
            ofHired == [date \in {2} |-> month[date]]
        IN  /\ record.final /\ ~record.missing /\ punches # {} => LineExplainsHours(LineOf(month, 2))
            /\ TotalsAgree(month, 0, 3, 2)
            /\ TotalsAgree(ofHired, 2, 2, 3)

(* The dashboard and the presence board place a person alike: who has come *)
(* in is on the board as in, on a break or gone; who is on leave or absent *)
(* is not expected any more, and who is to arrive is not missed yet.  Only *)
(* after a morning leave does the dashboard call absent who the board      *)
(* expects, since it does not move the hour, and without fixed hours does  *)
(* the board miss at once who the dashboard still awaits.  A day that was  *)
(* closed with nobody in it is counted as its record says.                 *)
DashboardAgrees ==
    ~NoEntry =>
        LET board == PresenceAt(Day, Policy, punches, leaves, now)
            moved == Day.shift # None /\ ExpectedStart(Day.shift, leaves) # Day.shift.start
        IN  /\ Counted = "present" <=> board \in {"IN", "ON_BREAK", "LEFT"}
            /\ Counted = "absent" => board = "NOT_ARRIVED" \/ (moved /\ board = "NOT_YET")
            /\ Counted = "pendingArrival" => board = "NOT_YET" \/ (Day.shift.flexible /\ board = "NOT_ARRIVED")
            /\ Counted = "onLeave" => board = "ON_LEAVE" \/ Closed(record)
            /\ Closed(record) /\ punches = {} /\ board \in {"NOT_YET", "NOT_ARRIVED"} /\ now > Day.shift.end =>
                  (record.status = "ABSENT" <=> Counted = "absent")
=============================================================================
