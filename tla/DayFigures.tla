----------------------------- MODULE DayFigures ------------------------------
(***************************************************************************)
(* The figures of one work day (attendance-calculator.ts) and where the    *)
(* person is at a moment of it (presence.ts), from the punches the day     *)
(* counts, its shift, the approved leaves and the policy.                  *)
(*                                                                         *)
(* Instants are integers; the code's figures are whole minutes.  A punch   *)
(* is [id, at, key]; a day [type, shift, from, to], with shift None on     *)
(* days off.  Neither strays nor the segments as they are stored are       *)
(* modelled.                                                               *)
(***************************************************************************)
EXTENDS Integers, Sequences, FiniteSets

CONSTANTS
    None,
    Minute,       \* MINUTE_MS
    EarlyLunch    \* EARLY_LUNCH_MS

LOCAL INSTANCE SequencesExt
LOCAL INSTANCE FiniteSetsExt

Least(a, b) == IF a < b THEN a ELSE b
Greatest(a, b) == IF a > b THEN a ELSE b

Overlap(a, b, from, to) == Greatest(0, Least(b, to) - Greatest(a, from))

-----------------------------------------------------------------------------
(* From punches to pairs of an entry and an exit.                          *)

Ordered(punches) ==
    [i \in 1..Cardinality(punches) |->
        CHOOSE p \in punches : Cardinality({q \in punches : q.at < p.at}) = i - 1]

\* selectPunches, dropDoublePresses: one too close to the last one kept is dropped.
Kept(day, policy, punches) ==
    LET Press(kept, p) ==
            IF kept # <<>> /\ p.at - Last(kept).at < policy.doublePress THEN kept
            ELSE Append(kept, p)
    IN  FoldLeft(Press, <<>>, Ordered({p \in punches : day.from <= p.at /\ p.at < day.to}))

PairSequentially(kept) ==
    [i \in 1..((Len(kept) + 1) \div 2) |->
        [in |-> kept[2 * i - 1], out |-> IF 2 * i <= Len(kept) THEN kept[2 * i] ELSE None]]

IsEntry(p, open) ==
    \/ p.key \in {"CHECK_IN", "BREAK_IN"}
    \/ p.key = "UNKNOWN" /\ open = None

PairByPunchType(kept) ==
    LET Left(open) == IF open = None THEN <<>> ELSE <<[in |-> open, out |-> None]>>
        Pair(done, p) ==
            IF IsEntry(p, done.open)
            THEN [pairs |-> done.pairs \o Left(done.open), open |-> p]
            ELSE [pairs |-> Append(done.pairs, [in |-> done.open, out |-> p]), open |-> None]
        done == FoldLeft(Pair, [pairs |-> <<>>, open |-> None], kept)
    IN  done.pairs \o Left(done.open)

Pairs(policy, kept) ==
    IF policy.pairing = "SEQUENTIAL" THEN PairSequentially(kept) ELSE PairByPunchType(kept)

Complete(pairs) == {i \in DOMAIN pairs : pairs[i].in # None /\ pairs[i].out # None}

\* Within [from, to), or all of it where that is None.
WorkedWithin(pairs, from, to) ==
    MapThenSumSet(LAMBDA i :
        Overlap(pairs[i].in.at, pairs[i].out.at,
                IF from = None THEN pairs[i].in.at ELSE from,
                IF to = None THEN pairs[i].out.at ELSE to), Complete(pairs))

GapsBetween(pairs) ==
    MapThenSumSet(LAMBDA i : pairs[i + 1].in.at - pairs[i].out.at,
        {i \in 1..(Len(pairs) - 1) : pairs[i].out # None /\ pairs[i + 1].in # None})

HasBreak(shift) == shift # None /\ shift.breakStart # None

\* What the punched pauses left of a lunch somebody worked through.
UnpunchedBreak(day, policy, pairs) ==
    IF /\ HasBreak(day.shift) /\ policy.deductBreak
       /\ \E i \in Complete(pairs) :
             pairs[i].in.at <= day.shift.breakStart /\ pairs[i].out.at >= day.shift.breakEnd
    THEN Greatest(0, day.shift.breakEnd - day.shift.breakStart - GapsBetween(pairs))
    ELSE 0

-----------------------------------------------------------------------------
(* What the shift expected.                                                *)

\* Mutant: a leave that is over before the shift starts counts too.
ExpectedStartAnyLeave(shift, leaves) ==
    LET morning == {l \in leaves : l.start <= shift.start}
    IN  IF morning = {} THEN shift.start
        ELSE Least((CHOOSE l \in morning : TRUE).end, shift.end)

\* expectedPresence; approved leaves do not overlap, so at most one covers each end.
ExpectedStart(shift, leaves) ==
    LET morning == {l \in leaves : l.start <= shift.start /\ l.end > shift.start}
    IN  IF morning = {} THEN shift.start
        ELSE Least((CHOOSE l \in morning : TRUE).end, shift.end)

ExpectedEnd(shift, leaves) ==
    LET afternoon == {l \in leaves : l.start < shift.end /\ l.end >= shift.end}
    IN  IF afternoon = {} THEN shift.end
        ELSE Greatest((CHOOSE l \in afternoon : TRUE).start, shift.start)

ScheduledWork(shift) ==
    (shift.end - shift.start - (IF HasBreak(shift) THEN shift.breakEnd - shift.breakStart ELSE 0))
        \div Minute

MissingMinutes(shift, leaves, worked) ==
    LET OnLeave(l) ==
            Overlap(l.start, l.end, shift.start, shift.end)
              - (IF HasBreak(shift) THEN Overlap(l.start, l.end, shift.breakStart, shift.breakEnd) ELSE 0)
        missing == ScheduledWork(shift) - (MapThenSumSet(OnLeave, leaves) \div Minute) - worked
    IN  IF missing > shift.earlyTolerance THEN missing ELSE 0

ComputeOvertime(policy, shift, pairs, worked) ==
    LET after == WorkedWithin(pairs, shift.end, None) \div Minute
        before == WorkedWithin(pairs, None, shift.start) \div Minute
        extra == IF shift.flexible \/ policy.basis = "EXCESS_WORKED_TIME"
                 THEN worked - ScheduledWork(shift)
                 ELSE after + (IF policy.countEarly THEN before ELSE 0)
    IN  IF policy.overtime /\ extra >= Greatest(1, shift.overtimeThreshold) THEN extra ELSE 0

StatusWithoutPunches(day, leaves) ==
    IF day.type # "WORKDAY" THEN day.type
    ELSE IF day.shift = None THEN "NO_SCHEDULE"
    ELSE IF \E l \in leaves : l.start <= day.shift.start /\ l.end >= day.shift.end
    THEN "ON_LEAVE" ELSE "ABSENT"

-----------------------------------------------------------------------------
\* Entries and exits that are missing; the last exit may still come on an open day.
Missing(pairs, final) ==
    \/ \E i \in DOMAIN pairs : pairs[i].in = None
    \/ \E i \in DOMAIN pairs : pairs[i].out = None /\ (i < Len(pairs) \/ final)

Nothing(status, final) ==
    [status |-> status, final |-> final, missing |-> FALSE, worked |-> 0, break |-> 0, late |-> 0,
     early |-> 0, overtime |-> 0, short |-> 0, firstIn |-> None, lastOut |-> None]

\* A day nobody had to work: all of it may be overtime.
OffDay(day, policy, base) ==
    [base EXCEPT !.status = IF day.type = "WORKDAY" THEN "NO_SCHEDULE" ELSE day.type,
                 !.overtime = IF /\ policy.overtime /\ day.type # "WORKDAY"
                                 /\ base.worked >= policy.overtimeThreshold
                              THEN base.worked ELSE 0]

ShiftDay(day, policy, pairs, leaves, now, base) ==
    LET shift == day.shift
        lateBy == (pairs[1].in.at - ExpectedStart(shift, leaves)) \div Minute
        earlyBy == (ExpectedEnd(shift, leaves) - pairs[Len(pairs)].out.at) \div Minute
        late == IF pairs[1].in # None /\ ~shift.flexible /\ lateBy > shift.lateTolerance
                THEN lateBy ELSE 0
        early == IF /\ pairs[Len(pairs)].out # None /\ ~shift.flexible
                    /\ now >= ExpectedEnd(shift, leaves) /\ earlyBy > shift.earlyTolerance
                 THEN earlyBy ELSE 0
    IN  [base EXCEPT
            !.status = IF base.missing THEN "INCOMPLETE" ELSE IF late > 0 THEN "LATE" ELSE "PRESENT",
            !.late = late,
            !.early = early,
            !.overtime = ComputeOvertime(policy, shift, pairs, base.worked),
            !.short = IF shift.flexible /\ base.final /\ ~base.missing
                      THEN MissingMinutes(shift, leaves, base.worked) ELSE 0]

\* What the pairs alone say.
Measured(day, policy, pairs, final) ==
    LET unpunched == UnpunchedBreak(day, policy, pairs)
        entries == {i \in DOMAIN pairs : pairs[i].in # None}
        exits == {i \in DOMAIN pairs : pairs[i].out # None}
    IN  [Nothing("PRESENT", final) EXCEPT
            !.missing = Missing(pairs, final),
            !.worked = Greatest(0, (WorkedWithin(pairs, None, None) - unpunched) \div Minute),
            !.break = (GapsBetween(pairs) + unpunched) \div Minute,
            !.firstIn = IF entries = {} THEN None ELSE pairs[Min(entries)].in.at,
            !.lastOut = IF exits = {} THEN None ELSE pairs[Max(exits)].out.at]

FiguresOf(day, policy, pairs, leaves, now) ==
    LET final == now >= day.to
        base == Measured(day, policy, pairs, final)
    IN  IF pairs = <<>> THEN Nothing(StatusWithoutPunches(day, leaves), final)
        ELSE IF day.shift = None \/ day.type # "WORKDAY" THEN OffDay(day, policy, base)
        ELSE ShiftDay(day, policy, pairs, leaves, now, base)

\* calculateAttendance.
CalculateAttendance(day, policy, punches, leaves, now) ==
    FiguresOf(day, policy, Pairs(policy, Kept(day, policy, punches)), leaves, now)

-----------------------------------------------------------------------------
(* Where the person is.                                                    *)

\* readPunches, of a punch that is not a double press.
Reading(policy, kept, p) ==
    LET pairs == Pairs(policy, kept)
    IN  IF \E i \in DOMAIN pairs : pairs[i].in = p
        THEN IF pairs[1].in = p THEN "CHECK_IN" ELSE "BREAK_IN"
        ELSE IF pairs[Len(pairs)].out = p THEN "CHECK_OUT" ELSE "BREAK_OUT"

StateAfter(day, policy, leaves, last, reading, now) ==
    IF reading \in {"CHECK_IN", "BREAK_IN"} THEN "IN"
    ELSE IF day.shift = None \/ now >= ExpectedEnd(day.shift, leaves) THEN "LEFT"
    ELSE IF \/ policy.pairing = "DEVICE_TYPE" /\ last.key = "BREAK_OUT"
            \/ /\ HasBreak(day.shift)
               /\ last.at >= day.shift.breakStart - EarlyLunch /\ last.at <= day.shift.breakEnd
    THEN "ON_BREAK" ELSE "LEFT"

StateWithoutPunches(day, leaves, now) ==
    IF \E l \in leaves : l.start <= now /\ l.end > now THEN "ON_LEAVE"
    ELSE IF day.type # "WORKDAY" THEN "DAY_OFF"
    ELSE IF day.shift = None THEN "NO_SCHEDULE"
    ELSE IF \/ day.shift.flexible
            \/ now > ExpectedStart(day.shift, leaves) + day.shift.lateTolerance * Minute
    THEN "NOT_ARRIVED" ELSE "NOT_YET"

\* Mutant: a double press is the last thing that happened.
PresenceAfterAny(day, policy, punches, leaves, now) ==
    LET last == Last(Ordered(punches))
    IN  IF punches = {} THEN StateWithoutPunches(day, leaves, now)
        ELSE StateAfter(day, policy, leaves, last,
                        Reading(policy, Kept(day, policy, punches), last), now)

\* presenceAt, stateOf: what the last punch that counts says.
PresenceAt(day, policy, punches, leaves, now) ==
    LET kept == Kept(day, policy, {p \in punches : p.at <= now})
    IN  IF kept = <<>> THEN StateWithoutPunches(day, leaves, now)
        ELSE StateAfter(day, policy, leaves, Last(kept), Reading(policy, kept, Last(kept)), now)
=============================================================================
