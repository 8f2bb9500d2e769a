---------------------------- MODULE VacationRules ----------------------------
(***************************************************************************)
(* Days of vacation a person earns, what a vacation costs, and what        *)
(* expires: vacations/domain as operators.  Dates are integers counted     *)
(* from the first day of the calendar, amounts are in units of which one   *)
(* day has Unit, so that twelfths, shares of a year and half days stay     *)
(* whole; the rounding to two decimals of the code is left out.            *)
(***************************************************************************)
EXTENDS Integers, Sequences, FiniteSets

CONSTANTS
    MonthDays,      \* the number of days of every month of the calendar
    MonthsPerYear,  \* twelve in the code
    Unit            \* units of a day

LOCAL INSTANCE SequencesExt
LOCAL INSTANCE FiniteSetsExt

Months == Len(MonthDays)

MonthStart[k \in 1 .. Months + 1] ==
    IF k = 1 THEN 0 ELSE MonthStart[k - 1] + MonthDays[k - 1]

LastDate == MonthStart[Months + 1] - 1
Dates == 0 .. LastDate

(* After every date: the expiry of what never expires, the end of service  *)
(* of who is not leaving.                                                  *)
Never == LastDate + 1

Least(a, b) == IF a <= b THEN a ELSE b
Most(a, b) == IF a >= b THEN a ELSE b

MonthOf(date) == CHOOSE k \in 1 .. Months : date \in MonthStart[k] .. MonthStart[k + 1] - 1

(* A day the target month does not have falls on its last day; beyond the  *)
(* calendar is never.                                                      *)
AddMonths(date, n) ==
    LET k == MonthOf(date) + n
    IN  IF k > Months THEN Never
        ELSE MonthStart[k] + Least(date - MonthStart[MonthOf(date)], MonthDays[k] - 1)

Years == 0 .. Months \div MonthsPerYear - 1
YearStart(y) == MonthStart[y * MonthsPerYear + 1]
YearOf(date) == CHOOSE y \in Years : date \in YearStart(y) .. YearStart(y + 1) - 1

Anniversary(hired, n) == AddMonths(hired, n * MonthsPerYear)

CompletedYears(hired, date) ==
    Cardinality({n \in 1 .. Cardinality(Years) : Anniversary(hired, n) <= date})

(***************************************************************************)
(* Entitlement.  A rule is a record: daysPerYear, accrual, expiryMonths    *)
(* (-1 for none), and the bonus afterYears, extraPerYear, maxExtra, which  *)
(* is none when maxExtra is 0.                                             *)
(***************************************************************************)
EntitlementForServiceYear(rule, year) ==
    rule.daysPerYear
      + Least(Most(0, year - rule.afterYears) * rule.extraPerYear, rule.maxExtra)

ExpiryOf(rule, from, months) ==
    IF rule.expiryMonths = -1 THEN Never ELSE AddMonths(from, months + rule.expiryMonths)

(* One credit per completed period of service, of a year or of a month.    *)
ServiceCredits(rule, hired, end, perYear) ==
    LET period == MonthsPerYear \div perYear
        count == Cardinality({n \in 1 .. Months : AddMonths(hired, n * period) <= end})
        year(n) == 1 + ((n - 1) \div perYear)
    IN  [n \in 1 .. count |->
            [date |-> AddMonths(hired, n * period),
             days |-> (EntitlementForServiceYear(rule, year(n)) * Unit) \div perYear,
             expiresOn |-> ExpiryOf(rule, hired, year(n) * MonthsPerYear)]]

(* In advance on the first day of the year, by the share of the year the   *)
(* person is employed; leaving counts once it has happened.                *)
CalendarYearCredits(rule, hired, asOf, leaves) ==
    LET end == Least(asOf, leaves)
        credited(y) == Most(hired, YearStart(y))
        until(y) == IF leaves <= asOf THEN Least(leaves, YearStart(y + 1) - 1)
                                      ELSE YearStart(y + 1) - 1
        first == YearOf(hired)
        count == Cardinality({y \in Years : y >= first /\ credited(y) <= end})
    IN  [n \in 1 .. count |->
            LET y == first + n - 1
            IN  [date |-> credited(y),
                 days |-> (EntitlementForServiceYear(rule, CompletedYears(hired, credited(y)) + 1)
                             * Unit * (until(y) - credited(y) + 1))
                          \div (YearStart(y + 1) - YearStart(y)),
                 expiresOn |-> IF rule.expiryMonths = -1 THEN Never
                               ELSE IF (y + 1) * MonthsPerYear + rule.expiryMonths >= Months
                               THEN Never
                               ELSE AddMonths(YearStart(y + 1), rule.expiryMonths)]]

VacationCredits(rule, hired, asOf, leaves) ==
    CASE rule.accrual = "CALENDAR_YEAR" -> CalendarYearCredits(rule, hired, asOf, leaves)
      [] rule.accrual = "ANNUAL"  -> ServiceCredits(rule, hired, Least(asOf, leaves), 1)
      [] rule.accrual = "MONTHLY" -> ServiceCredits(rule, hired, Least(asOf, leaves), MonthsPerYear)

TotalOf(credits) == FoldLeft(LAMBDA sum, c : sum + c.days, 0, credits)

AccruedVacationDays(rule, hired, asOf, leaves) ==
    LET credits == VacationCredits(rule, hired, asOf, leaves)
        ended == leaves # Never /\ leaves <= asOf
    IN  IF Least(asOf, leaves) < hired
        THEN [accrued |-> 0, years |-> 0,
              next |-> IF leaves # Never /\ leaves < hired THEN Never
                       ELSE CASE rule.accrual = "CALENDAR_YEAR" -> hired
                              [] rule.accrual = "ANNUAL"  -> AddMonths(hired, MonthsPerYear)
                              [] rule.accrual = "MONTHLY" -> AddMonths(hired, 1)]
        ELSE [accrued |-> TotalOf(credits),
              years |-> CompletedYears(hired, Least(asOf, leaves)),
              next |-> CASE ended -> Never
                         [] ~ended /\ rule.accrual = "CALENDAR_YEAR" ->
                                IF YearOf(asOf) + 1 \in Years THEN YearStart(YearOf(asOf) + 1)
                                                              ELSE Never
                         [] ~ended /\ rule.accrual = "ANNUAL" ->
                                Anniversary(hired, Len(credits) + 1)
                         [] ~ended /\ rule.accrual = "MONTHLY" ->
                                AddMonths(hired, Len(credits) + 1)]

(***************************************************************************)
(* What one date of a vacation costs.  Ranges are pairs of instants.       *)
(***************************************************************************)
Shared(a, b) == Most(0, Least(a[2], b[2]) - Most(a[1], b[1]))

Common(a, b) == <<Most(a[1], b[1]), Least(a[2], b[2])>>

(* The part of the working time of a day a leave covers, as a fraction.    *)
CoveredShare(leave, reference, pause) ==
    [covered |-> Shared(leave, reference) - Shared(leave, Common(pause, reference)),
     total   |-> Shared(reference, reference) - Shared(pause, reference)]

PartialDayCost(share) ==
    CASE share.total <= 0 \/ share.covered <= 0 -> 0
      [] share.total > 0 /\ share.covered > 0 /\ 2 * share.covered <= share.total -> Unit \div 2
      [] share.total > 0 /\ share.covered > 0 /\ 2 * share.covered > share.total -> Unit

VacationDayCost(workingDaysOnly, isWorkingDay, cost) ==
    IF workingDaysOnly /\ ~isWorkingDay THEN 0 ELSE cost

(***************************************************************************)
(* Expiry.  Lots that expire on one date behave as one, so what is left of *)
(* the lots is a function of the expiry date.  Credits are a sequence;     *)
(* debits, a function of dates.                                            *)
(***************************************************************************)
SumOf(f, S) == MapThenSumSet(LAMBDA e : f[e], S)

(* The lots that expire first are spent first.                             *)
Consume(left, days) ==
    LET before(e) == SumOf(left, {x \in DOMAIN left : x < e})
    IN  [left |-> [e \in DOMAIN left |-> Most(0, left[e] - Most(0, days - before(e)))],
         uncovered |-> Most(0, days - SumOf(left, DOMAIN left))]

(* Nothing expires after the end of service.                               *)
ExpireUntil(st, date, leaves) ==
    LET gone == {e \in DOMAIN st.left : e # Never /\ e <= date /\ e <= leaves}
    IN  [st EXCEPT !.left = [e \in DOMAIN st.left |-> IF e \in gone THEN 0 ELSE st.left[e]],
                   !.expired = @ + SumOf(st.left, gone)]

(* Days taken in advance are a debt the next credits repay before anything *)
(* else; advances are the dates on which that happened.                    *)
Credit(st, c) ==
    LET repaid == Least(st.debt, c.days)
    IN  [st EXCEPT !.debt = @ - repaid, !.left[c.expiresOn] = @ + c.days - repaid]

Debit(st, date, days) ==
    LET use == Consume(st.left, days)
    IN  [st EXCEPT !.left = use.left, !.debt = @ + use.uncovered,
                   !.advances = IF use.uncovered > 0 THEN @ \cup {date} ELSE @]

(* On each date first what expires, then the credits, then what is taken;  *)
(* last what was earned and expires by the date asked.                     *)
OnDate(st, credits, debits, date, leaves) ==
    LET today == SelectSeq(credits, LAMBDA c : c.date = date)
    IN  Debit(FoldLeft(Credit, ExpireUntil(st, date, leaves), today), date, debits[date])

Ledger(credits, debits, asOf, leaves) ==
    LET nothing == [left |-> [e \in {credits[i].expiresOn : i \in DOMAIN credits} |-> 0],
                    debt |-> 0, expired |-> 0, advances |-> {}]
        at[date \in Dates] ==
            OnDate(IF date = 0 THEN nothing ELSE at[date - 1], credits, debits, date, leaves)
    IN  ExpireUntil(at[asOf], asOf, leaves)

\* Mutant: the vacations planned before the date are not counted.
NextExpiryUnplanned(left, debits, asOf, leaves) ==
    LET losses == {date \in DOMAIN left \ {Never} : left[date] > 0}
        first == Min(losses)
    IN  IF leaves <= asOf \/ losses = {} \/ leaves < first
        THEN [date |-> Never, days |-> 0]
        ELSE [date |-> first, days |-> left[first]]

(* Planned vacations use the days that expire first; the first lot that    *)
(* still holds days on its expiry date is the next loss.                   *)
NextExpiry(left, debits, asOf, leaves) ==
    LET planned(date) == SumOf(debits, (asOf + 1) .. (date - 1))
        remaining(date) == Consume(left, planned(date)).left[date]
        losses == {date \in DOMAIN left \ {Never} : remaining(date) > 0}
        first == Min(losses)
    IN  IF leaves <= asOf \/ losses = {} \/ leaves < first
        THEN [date |-> Never, days |-> 0]
        ELSE [date |-> first, days |-> remaining(first)]

SimulateExpiry(credits, debits, asOf, leaves) ==
    LET st == Ledger(credits, debits, asOf, leaves)
    IN  [expired |-> st.expired, next |-> NextExpiry(st.left, debits, asOf, leaves)]
=============================================================================
