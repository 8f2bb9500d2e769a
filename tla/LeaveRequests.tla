---------------------------- MODULE LeaveRequests ----------------------------
(***************************************************************************)
(* The leave requests of one employee (leave-requests.service.ts), the     *)
(* vacation balance they are checked against (vacations.service.ts), the   *)
(* day records they decide and the notices of days about to expire         *)
(* (vacation-expiry-notices.ts).                                           *)
(*                                                                         *)
(* A handler is a job that reads, checks and writes in separate steps, and *)
(* handlers interleave.  A leave is a range of instants, DayParts to a     *)
(* date, its end excluded.                                                 *)
(***************************************************************************)
EXTENDS VacationRules

CONSTANTS
    Handlers,      \* requests the server works on at a time
    Kinds,         \* what may be asked for: records of a type and a span
    Terms,         \* employments: contract type, end of service
    Renewals,      \* pairs of them: which may replace which
    Hired,         \* date of hire
    FirstToday, LastToday,  \* the dates the model begins and ends on
    DayParts,      \* instants of a date
    Shift,         \* the working time of a working day, from midnight
    WorkingDates,  \* dates with a shift
    Horizon,       \* EXPIRY_NOTICE_DAYS
    Adjustments,   \* days an administrator may add or take away
    MaxRequests,   \* bound on requests filed
    MaxChanges,    \* bound on adjustments and changes of terms
    RequestRaces,  \* a request may be reviewed and cancelled at the same moment
    Straddling,    \* a vacation may go on past a date on which days expire
    Crashes        \* the process may stop between a commit and what follows

LOCAL INSTANCE SequencesExt
LOCAL INSTANCE FiniteSetsExt

VARIABLES
    requests,     \* every request filed, in order, and how many there were when it was checked
    adjustments,  \* vacation adjustments, dated
    terms,        \* the employment in force
    today,
    covered,      \* dates whose record shows a leave
    jobs,         \* what each handler has read
    forecast,     \* the next loss the last notice saw and when, unless something changed since
    changes

vars == <<requests, adjustments, terms, today, covered, jobs, forecast, changes>>

Unforeseen == [date |-> Never, days |-> 0, seen |-> -Horizon]

Idle == [op |-> "idle"]
\* Mutant: only what is approved takes its dates.
ActiveApproved == {"APPROVED"}

Active == {"PENDING", "APPROVED"}

Ids == DOMAIN requests

-----------------------------------------------------------------------------
(* What a leave covers and costs.                                          *)

FirstDate(span) == span[1] \div DayParts
FinalDate(span) == (span[2] - 1) \div DayParts
DatesOf(span) == FirstDate(span) .. FinalDate(span)

Overlap(a, b) == a[1] < b[2] /\ b[1] < a[2]

WorkingTime(date) ==
    IF date \in WorkingDates
    THEN <<date * DayParts + Shift[1], date * DayParts + Shift[2]>>
    ELSE <<date * DayParts, (date + 1) * DayParts>>

NoPause == <<0, 0>>

(* Half days only price a vacation within one date.                        *)
CostOn(span, date) ==
    VacationDayCost(terms.workingDaysOnly, date \in WorkingDates,
        IF terms.halfDays /\ FirstDate(span) = FinalDate(span)
        THEN PartialDayCost(CoveredShare(span, WorkingTime(date), NoPause))
        ELSE Unit)

CostOf(span) == MapThenSumSet(LAMBDA d : CostOn(span, d), DatesOf(span))

-----------------------------------------------------------------------------
(* The balance.                                                            *)

Vacations(statuses) ==
    {id \in Ids : requests[id].kind.type = "VACATION" /\ requests[id].status \in statuses}

Gifts == SelectSeq(adjustments, LAMBDA a : a.days > 0)

Credits(asOf) ==
    VacationCredits(terms.rule, Hired, asOf, terms.leaves)
      \o [i \in DOMAIN Gifts |-> [date |-> Gifts[i].date, days |-> Gifts[i].days,
                                  expiresOn |-> Never]]

(* Approved days by date, and what adjustments take away.                  *)
Debits(ids) ==
    [date \in Dates |->
        MapThenSumSet(LAMBDA id : CostOn(requests[id].kind.span, date),
                      {id \in ids : date \in DatesOf(requests[id].kind.span)})
          - MapThenSumSet(LAMBDA i : adjustments[i].days,
                          {i \in DOMAIN adjustments :
                              adjustments[i].date = date /\ adjustments[i].days < 0})]

ExpiryAt(asOf, ids) == SimulateExpiry(Credits(asOf), Debits(ids), asOf, terms.leaves)

Expired(asOf, ids) == IF terms.rule.expiryMonths = -1 THEN 0 ELSE ExpiryAt(asOf, ids).expired

(* compute: used, scheduled and pending days all count against the balance *)
(* of asOf, the request itself left out.                                   *)
Available(asOf, except) ==
    AccruedVacationDays(terms.rule, Hired, asOf, terms.leaves).accrued
      + MapThenSumSet(LAMBDA i : adjustments[i].days, DOMAIN adjustments)
      - MapThenSumSet(LAMBDA id : CostOf(requests[id].kind.span), Vacations(Active) \ except)
      - Expired(asOf, Vacations({"APPROVED"}) \ except)

\* Mutant: what waits for a decision is not reserved.
AffordableUnreserved(span, except) ==
    /\ CostOf(span) > 0
    /\ terms.negative \/ CostOf(span) <= Available(FirstDate(span), except \cup Vacations({"PENDING"}))

Affordable(span, except) ==
    /\ CostOf(span) > 0
    /\ terms.negative \/ CostOf(span) <= Available(FirstDate(span), except)

-----------------------------------------------------------------------------
(* Day records.                                                            *)

OnLeave(date) ==
    \E id \in Ids : requests[id].status = "APPROVED" /\ date \in DatesOf(requests[id].kind.span)

Recomputed(dates) == (covered \ dates) \cup {d \in dates : OnLeave(d)}

\* Mutant: the last date is taken as excluded.
AffectedDaysShort(span) ==
    {d \in Dates : FirstDate(span) - 1 <= d /\ d < Least(span[2] \div DayParts, today)}

(* The day before is looked at too: its shift may end on the first date.   *)
AffectedDays(span) ==
    {d \in Dates : FirstDate(span) - 1 <= d /\ d <= Least(span[2] \div DayParts, today)}

-----------------------------------------------------------------------------
Init ==
    /\ requests = <<>> /\ adjustments = <<>>
    /\ terms \in Terms
    /\ today = FirstToday
    /\ covered = {}
    /\ jobs = [h \in Handlers |-> Idle]
    /\ forecast = Unforeseen
    /\ changes = 0

Busy(op) == {h \in Handlers : jobs[h].op \in op}

SetJob(h, job) == jobs' = [jobs EXCEPT ![h] = job]

(* The dates on which some of the days earned expire.                      *)
ExpiryDates == {c.expiresOn : c \in ToSet(Credits(LastDate))} \ {Never}

(* create: no active request of the employee overlaps, of those filed by    *)
(* now (`seen`, history only).                                             *)
BeginCreate(h) ==
    /\ jobs[h] = Idle
    /\ Len(requests) + Cardinality(Busy({"create"})) < MaxRequests
    /\ LET dates == ExpiryDates IN
       \E kind \in Kinds :
          /\ \A id \in Ids : requests[id].status \in Active => ~Overlap(requests[id].kind.span, kind.span)
          /\ Straddling \/ ~\E e \in dates : FirstDate(kind.span) < e /\ e <= FinalDate(kind.span)
          /\ SetJob(h, [op |-> "create", at |-> IF kind.type = "VACATION" THEN "check" ELSE "write",
                        kind |-> kind, seen |-> Len(requests)])
    /\ UNCHANGED <<requests, adjustments, terms, today, covered, forecast, changes>>

(* The balance is read at one moment; a refusal ends the handler.          *)
CheckBalance(h) ==
    /\ jobs[h].op \in {"create", "review"} /\ jobs[h].at = "check"
    /\ LET kind == IF jobs[h].op = "create" THEN jobs[h].kind ELSE requests[jobs[h].id].kind
           except == IF jobs[h].op = "create" THEN {} ELSE {jobs[h].id}
       IN  IF Affordable(kind.span, except)
           THEN SetJob(h, [jobs[h] EXCEPT !.at = "write"])
           ELSE SetJob(h, Idle)
    /\ UNCHANGED <<requests, adjustments, terms, today, covered, forecast, changes>>

CommitCreate(h) ==
    /\ jobs[h].op = "create" /\ jobs[h].at = "write"
    /\ requests' = Append(requests, [kind |-> jobs[h].kind, status |-> "PENDING",
                                     seen |-> jobs[h].seen])
    /\ SetJob(h, Idle)
    /\ UNCHANGED <<adjustments, terms, today, covered, forecast, changes>>

MayHandle(id) ==
    RequestRaces \/ \A h \in Busy({"review", "cancel"}) : jobs[h].id # id \/ jobs[h].at = "recompute"

(* review: the status is read here, and written whatever it is by then.    *)
BeginReview(h) ==
    /\ jobs[h] = Idle
    /\ \E id \in Ids, decision \in {"APPROVED", "REJECTED"} :
          /\ requests[id].status = "PENDING" /\ MayHandle(id)
          /\ SetJob(h, [op |-> "review", id |-> id, decision |-> decision,
                        at |-> IF decision = "APPROVED" /\ requests[id].kind.type = "VACATION"
                               THEN "check" ELSE "write"])
    /\ UNCHANGED <<requests, adjustments, terms, today, covered, forecast, changes>>

CommitReview(h) ==
    /\ jobs[h].op = "review" /\ jobs[h].at = "write"
    /\ requests' = [requests EXCEPT ![jobs[h].id].status = jobs[h].decision]
    /\ forecast' = Unforeseen
    /\ SetJob(h, IF jobs[h].decision = "APPROVED" THEN [jobs[h] EXCEPT !.at = "recompute"] ELSE Idle)
    /\ UNCHANGED <<adjustments, terms, today, covered, changes>>

BeginCancel(h) ==
    /\ jobs[h] = Idle
    /\ \E id \in Ids :
          /\ requests[id].status \in Active /\ MayHandle(id)
          /\ SetJob(h, [op |-> "cancel", id |-> id, at |-> "write",
                        wasApproved |-> requests[id].status = "APPROVED"])
    /\ UNCHANGED <<requests, adjustments, terms, today, covered, forecast, changes>>

CommitCancel(h) ==
    /\ jobs[h].op = "cancel" /\ jobs[h].at = "write"
    /\ requests' = [requests EXCEPT ![jobs[h].id].status = "CANCELLED"]
    /\ forecast' = Unforeseen
    /\ SetJob(h, IF jobs[h].wasApproved THEN [jobs[h] EXCEPT !.at = "recompute"] ELSE Idle)
    /\ UNCHANGED <<adjustments, terms, today, covered, changes>>

RecomputeAffectedDays(h) ==
    /\ jobs[h].op \in {"review", "cancel"} /\ jobs[h].at = "recompute"
    /\ covered' = Recomputed(AffectedDays(requests[jobs[h].id].kind.span))
    /\ SetJob(h, Idle)
    /\ UNCHANGED <<requests, adjustments, terms, today, forecast, changes>>

(* A handler fails or its process stops; what it committed stays.          *)
Abort(h) ==
    /\ jobs[h] # Idle /\ (jobs[h].at = "recompute" => Crashes)
    /\ SetJob(h, Idle)
    /\ UNCHANGED <<requests, adjustments, terms, today, covered, forecast, changes>>

AddAdjustment(days) ==
    /\ changes < MaxChanges
    /\ adjustments' = Append(adjustments, [date |-> today, days |-> days])
    /\ changes' = changes + 1 /\ forecast' = Unforeseen
    /\ UNCHANGED <<requests, terms, today, covered, jobs>>

ChangeTerms ==
    /\ changes < MaxChanges
    /\ \E t \in Terms : <<terms, t>> \in Renewals /\ terms' = t
    /\ changes' = changes + 1 /\ forecast' = Unforeseen
    /\ UNCHANGED <<requests, adjustments, today, covered, jobs>>

(* The daily notice.  It tells whoever loses days within the horizon, once *)
(* a date; what it told is left out, what it saw is the forecast.          *)
NoticeExpiry ==
    /\ terms.rule.expiryMonths # -1 /\ terms.leaves > today /\ forecast.seen < today
    /\ LET next == ExpiryAt(today, Vacations({"APPROVED"})).next
       IN  forecast' = [date |-> next.date, days |-> next.days, seen |-> today]
    /\ UNCHANGED <<requests, adjustments, terms, today, covered, jobs, changes>>

(* A day ends: the finalizer recomputes it.                                *)
NextDay ==
    /\ today < LastToday
    /\ today' = today + 1
    /\ covered' = Recomputed({today})
    /\ UNCHANGED <<requests, adjustments, terms, jobs, forecast, changes>>

Handle(h) ==
    \/ BeginCreate(h) \/ CheckBalance(h) \/ CommitCreate(h)
    \/ BeginReview(h) \/ CommitReview(h)
    \/ BeginCancel(h) \/ CommitCancel(h)
    \/ RecomputeAffectedDays(h) \/ Abort(h)

Next ==
    \/ \E h \in Handlers : Handle(h)
    \/ \E days \in Adjustments : AddAdjustment(days)
    \/ ChangeTerms \/ NoticeExpiry \/ NextDay

Spec == Init /\ [][Next]_vars

-----------------------------------------------------------------------------
(* Properties.                                                             *)

(* Two active requests of an employee share a moment only if they were     *)
(* filed at the same moment: the later one was checked before the earlier  *)
(* one was stored.  The code prevents no more than that, and whatever is   *)
(* decided or cancelled in between takes nothing away from it (create).    *)
NoOverlap ==
    \A i, j \in Ids :
        i < j /\ {requests[i].status, requests[j].status} \subseteq Active
          /\ Overlap(requests[i].kind.span, requests[j].kind.span)
            => requests[j].seen < i

(* Whatever order requests are filed, decided and cancelled in, approved   *)
(* vacations never take a day the employee does not have on the date it is *)
(* taken, unless the contract allows it or an administrator changed the    *)
(* terms (assertAffordable).                                               *)
NeverOverdrawn ==
    changes = 0 /\ ~terms.negative =>
        Ledger(Credits(LastDate), Debits(Vacations({"APPROVED"})), LastDate, terms.leaves).advances = {}

(* The record of a past day shows a leave exactly when an approved request *)
(* covers it, but for a decision whose recomputation is on its way         *)
(* (recomputeAffectedDays, the finalizer).                                 *)
RecordsFollowLeave ==
    \A d \in Dates :
        d < today /\ d >= FirstToday
          /\ ~(\E h \in Handlers : jobs[h] # Idle /\ jobs[h].at = "recompute"
                   /\ d \in AffectedDays(requests[jobs[h].id].kind.span))
            => (d \in covered <=> OnLeave(d))

(* Days lost on a date, as the ledger has it.                              *)
LostOn(date) ==
    Expired(date, Vacations({"APPROVED"})) - Expired(date - 1, Vacations({"APPROVED"}))

(* Within the horizon of a notice, what it foresaw is what is lost, on that *)
(* date and not before, unless something changed in between; so nobody     *)
(* loses days unannounced (vacation-expiry-notices, nextExpiry).           *)
LossesAreForeseen ==
    [][today' # today /\ today' <= forecast.date /\ today' <= forecast.seen + Horizon
          => LostOn(today') = (IF today' = forecast.date THEN forecast.days ELSE 0)]_vars

=============================================================================
