------------------------- MODULE AttendanceRecords --------------------------
(***************************************************************************)
(* The attendance records of one employee and the overtime proposed from   *)
(* them: every change of the facts of a day (a punch stored or voided, a   *)
(* leave approved or cancelled) or of its schedule is committed first and  *)
(* its days are recomputed afterwards, by the handler that changed them;   *)
(* an hourly job closes the days that ended, and a person reviews overtime. *)
(*                                                                         *)
(* A recomputation loads the calendar, reads the facts of a day, and writes *)
(* the outcome in a transaction of its own; these are separate steps and   *)
(* the handlers of all requests and instances interleave between them.     *)
(* calculateAttendance is a function of what was read, so a record keeps   *)
(* its inputs in place of its figures.                                     *)
(***************************************************************************)
EXTENDS Naturals, FiniteSets

CONSTANTS
  None,          \* no row
  Punches,       \* punches of the employee
  Leaves,        \* leave requests of the employee, one day each
  DayOf,         \* DayOf[f]: the work day of a punch or leave
  OvertimeOf,    \* OvertimeOf[<<S, special>>]: overtime minutes calculated
  LastDay,       \* bound: days of the calendar
  Hired,         \* first day of employment
  Lookback,      \* FINALIZER_LOOKBACK_DAYS
  FillDays,      \* MAX_FILLED_DAYS
  MaxGap,        \* bound: days between two completed runs of the finalizer
  Changers,      \* concurrent requests that change facts or schedules
  Finalizers,    \* instances whose hourly job runs
  Reviewers,     \* concurrent overtime reviews
  MaxChanges,    \* bound: changes of facts and schedules
  MaxFaults,     \* bound: handlers that die
  Mortal,        \* handlers that may die in this instance
  SameDay,       \* may two recomputations of one day overlap?
  PlanRaces,     \* may a schedule change while a handler holds a calendar?
  ReviewRaces    \* may a review overlap a recomputation or another review?

Facts == Punches \cup Leaves
Days  == 0..LastDay

ASSUME FactAssumption == Punches \cap Leaves = {} /\ DayOf \in [Facts -> Days]
ASSUME OvertimeAssumption == OvertimeOf \in [(SUBSET Facts) \X BOOLEAN -> Nat]
ASSUME DayAssumption ==
  /\ LastDay \in Nat /\ Hired \in Days
  /\ Lookback \in Nat \ {0} /\ FillDays \in Nat \ {0} /\ MaxGap \in Nat
ASSUME BoundAssumption == MaxChanges \in Nat /\ MaxFaults \in Nat
ASSUME SwitchAssumption ==
  SameDay \in BOOLEAN /\ PlanRaces \in BOOLEAN /\ ReviewRaces \in BOOLEAN
ASSUME HandlerAssumption ==
  /\ Changers \cap Finalizers = {} /\ (Changers \cup Finalizers) \cap Reviewers = {}
  /\ Mortal \subseteq Changers \cup Finalizers

VARIABLES
  today,      \* the local date
  ended,      \* the windows of the days below this one are over
  facts,      \* facts[f]: "absent", "live" or "gone" (voided, cancelled)
  special,    \* days whose schedule differs: a holiday, another shift
  record,     \* attendance_records, by day
  overtime,   \* overtime_records, by day
  rows,       \* overtime rows created so far: the next row's identity
  job,        \* job[h]: where handler h is, and its local variables
  lastRun,    \* history: the date of the last completed run of the finalizer
  spent       \* how much of each bound is used

vars == <<today, ended, facts, special, record, overtime, rows, job, lastRun,
          spent>>

Workers  == Changers \cup Finalizers
Handlers == Workers \cup Reviewers

-----------------------------------------------------------------------------
(* Rows, and what a handler keeps between two awaits.                      *)

Record == [facts : SUBSET Facts, special : BOOLEAN, final : BOOLEAN]

Overtime == [id : Nat, minutes : Nat, status : {"PENDING", "APPROVED", "REJECTED"}]

Job == [pc : {"idle", "loading", "reading", "dropping", "opening", "closing",
              "filling", "listing", "missing", "deciding"},
        task : {"events", "range", "finalize", "review"},
        queue : SUBSET Days, from : Days, asOf : Days, calendar : SUBSET Days,
        day : Days, seen : SUBSET Facts, final : BOOLEAN,
        old : Overtime \cup {None}]

ASSUME NoneAssumption == None \notin Record \cup Overtime

IdleJob == [pc |-> "idle", task |-> "range", queue |-> {}, from |-> 0, asOf |-> 0,
            calendar |-> {}, day |-> 0, seen |-> {}, final |-> FALSE, old |-> None]

\* What the database says of day d now: punches not voided, approved leaves.
FactsOn(d) == {f \in Facts : DayOf[f] = d /\ facts[f] = "live"}

\* The inputs and the outcome of calculateAttendance, as recomputeWith has them.
Outcome(h) == [facts |-> job[h].seen, special |-> job[h].day \in job[h].calendar,
               final |-> job[h].final]

MinutesOf(r) == OvertimeOf[<<r.facts, r.special>>]

At(h, s) == job[h].pc = s
Finish(h) == job' = [job EXCEPT ![h] = IdleJob]

\* Between reading the facts of a day and saving what follows from them.
Computing(h, d) == job[h].pc \in {"dropping", "opening", "closing"} /\ job[h].day = d

\* The row lock of an open transaction that upserted the record of day d.
Locked(d) == \E g \in Workers : At(g, "closing") /\ job[g].day = d

Pending(o)  == o # None /\ o.status = "PENDING"
Reviewed(o) == o # None /\ o.status # "PENDING"

-----------------------------------------------------------------------------
Init ==
  /\ today = 0 /\ ended = 0
  /\ facts = [f \in Facts |-> "absent"]
  /\ special = {}
  /\ record = [d \in Days |-> None]
  /\ overtime = [d \in Days |-> None]
  /\ rows = 0
  /\ job = [h \in Handlers |-> IdleJob]
  /\ lastRun = 0
  /\ spent = [changes |-> 0, faults |-> 0]

-----------------------------------------------------------------------------
(* Time.  A window may end before midnight or, for a night shift, during the *)
(* next day.                                                               *)

NextDate ==
  /\ today < LastDay
  /\ today <= ended
  /\ today - lastRun < MaxGap
  /\ today' = today + 1
  /\ UNCHANGED <<ended, facts, special, record, overtime, rows, job, lastRun, spent>>

WindowEnds ==
  /\ ended <= today
  /\ ended' = ended + 1
  /\ UNCHANGED <<today, facts, special, record, overtime, rows, job, lastRun, spent>>

-----------------------------------------------------------------------------
(* Changes: each commits, and its days are still to be recomputed.         *)

\* The handler goes on with processEvents for a punch of day d.
ProcessEvents(h, d) ==
  job' = [job EXCEPT ![h] = [IdleJob EXCEPT !.pc = "loading", !.task = "events",
                                            !.queue = {d}, !.from = d]]

\* The handler goes on with recomputeRange.
RecomputeRange(h, days) ==
  job' = [job EXCEPT ![h] = [IdleJob EXCEPT !.pc = "loading", !.queue = days]]

Change ==
  /\ spent.changes < MaxChanges
  /\ spent' = [spent EXCEPT !.changes = @ + 1]

\* A punch of today or of the past is stored, by a device or by hand.
StorePunch(h, f) ==
  /\ At(h, "idle")
  /\ Change
  /\ facts[f] = "absent" /\ DayOf[f] <= today
  /\ facts' = [facts EXCEPT ![f] = "live"]
  /\ ProcessEvents(h, DayOf[f])
  /\ UNCHANGED <<today, ended, special, record, overtime, rows, lastRun>>

\* Mutant: the day of a voided punch is not recomputed.
VoidEventQuietly(h, f) ==
  /\ At(h, "idle")
  /\ Change
  /\ facts[f] = "live"
  /\ facts' = [facts EXCEPT ![f] = "gone"]
  /\ UNCHANGED <<today, ended, special, record, overtime, rows, job, lastRun>>

\* voidEvent: the row stays, it stops counting.
VoidEvent(h, f) ==
  /\ At(h, "idle")
  /\ Change
  /\ facts[f] = "live"
  /\ facts' = [facts EXCEPT ![f] = "gone"]
  /\ ProcessEvents(h, DayOf[f])
  /\ UNCHANGED <<today, ended, special, record, overtime, rows, lastRun>>

\* A leave is approved or an approved one cancelled: its day and the one before.
ReviewLeave(h, f) ==
  /\ At(h, "idle")
  /\ Change
  /\ \/ facts[f] = "absent" /\ facts' = [facts EXCEPT ![f] = "live"]
     \/ facts[f] = "live" /\ facts' = [facts EXCEPT ![f] = "gone"]
  /\ RecomputeRange(h, {d \in Days : d = DayOf[f] \/ d + 1 = DayOf[f]})
  /\ UNCHANGED <<today, ended, special, record, overtime, rows, lastRun>>

\* A holiday is registered or removed, or the schedule of the day changes.
ChangePlan(h, d) ==
  /\ At(h, "idle")
  /\ Change
  /\ PlanRaces \/ \A g \in Workers : At(g, "idle")
  /\ special' = IF d \in special THEN special \ {d} ELSE special \cup {d}
  /\ RecomputeRange(h, {d})
  /\ UNCHANGED <<today, ended, facts, record, overtime, rows, lastRun>>

\* POST /attendance/recompute.
RequestRecompute(h) ==
  /\ At(h, "idle")
  /\ Change
  /\ \E days \in {from..to : from, to \in Days} : RecomputeRange(h, days)
  /\ UNCHANGED <<today, ended, facts, special, record, overtime, rows, lastRun>>

-----------------------------------------------------------------------------
(* Recomputation: processEvents, recomputeRange, recompute.                *)

\* The days a task computes: a range stops at today and skips days of no
\* employment; the day of a punch is computed whatever it is.
Due(h) == {d \in job[h].queue : job[h].task = "events" \/ (Hired <= d /\ d <= today)}

\* What a task does when its queue is empty.
AfterQueue == [events |-> "filling", range |-> "idle", finalize |-> "missing"]

\* What handler h keeps when it goes to step s.
Keep(h, s) ==
  IF s = "idle" THEN IdleJob
  ELSE [job[h] EXCEPT !.pc = s, !.seen = {}, !.final = FALSE, !.old = None, !.day = 0]

\* loadCalendar: a snapshot of the schedules for all the days of the task.
LoadCalendar(h) ==
  LET next == IF Due(h) # {} THEN "reading" ELSE AfterQueue[job[h].task] IN
  /\ At(h, "loading")
  /\ job' = [job EXCEPT
               ![h] = [Keep(h, next) EXCEPT
                         !.queue = Due(h),
                         !.asOf = IF next # "idle" /\ job[h].task # "finalize"
                                    THEN today ELSE @,
                         !.calendar = IF next # "idle" THEN special ELSE @]]
  /\ UNCHANGED <<today, ended, facts, special, record, overtime, rows, lastRun, spent>>

\* The facts of the day and the clock; with no punch on an open day there is
\* nothing to save.
ReadDay(h) ==
  /\ At(h, "reading")
  /\ \E d \in job[h].queue :
       /\ SameDay \/ \A g \in Workers : ~Computing(g, d)
       /\ job' = [job EXCEPT
                    ![h].pc = IF FactsOn(d) \cap Punches = {} /\ ended <= d
                                THEN "dropping" ELSE "opening",
                    ![h].queue = @ \ {d},
                    ![h].day = d,
                    ![h].seen = FactsOn(d),
                    ![h].final = d < ended]
  /\ UNCHANGED <<today, ended, facts, special, record, overtime, rows, lastRun, spent>>

\* After a day: the next of the queue (the job loads a calendar for each), or
\* what follows the last.
AfterDay(h) ==
  IF job[h].queue = {} THEN AfterQueue[job[h].task]
  ELSE IF job[h].task = "finalize" THEN "loading" ELSE "reading"

\* A stale provisional row goes; its overtime proposal is not touched.
DropProvisional(h) ==
  LET d == job[h].day IN
  /\ At(h, "dropping")
  /\ record[d] = None \/ ~Locked(d)
  /\ record' = IF record[d] # None /\ ~record[d].final
                 THEN [record EXCEPT ![d] = None] ELSE record
  /\ job' = [job EXCEPT ![h] = Keep(h, AfterDay(h))]
  /\ UNCHANGED <<today, ended, facts, special, overtime, rows, lastRun, spent>>

\* The transaction upserts the record, which locks its row until it commits,
\* and reads the overtime row.
OpenTransaction(h) ==
  /\ At(h, "opening")
  /\ ~Locked(job[h].day)
  /\ job' = [job EXCEPT ![h].pc = "closing", ![h].old = overtime[job[h].day]]
  /\ UNCHANGED <<today, ended, facts, special, record, overtime, rows, lastRun, spent>>

\* A new proposal.
Propose(d, minutes) ==
  /\ overtime' = [overtime EXCEPT ![d] = [id |-> rows, minutes |-> minutes,
                                          status |-> "PENDING"]]
  /\ rows' = rows + 1

\* Mutant: a proposal is only ever created.
SyncOvertimeOnce(d, old, minutes) ==
  \/ old = None /\ minutes > 0 /\ Propose(d, minutes)
  \/ (old # None \/ minutes = 0) /\ UNCHANGED <<overtime, rows>>

\* Mutant: a reviewed row follows the calculation too.
SyncOvertimeAlways(d, old, minutes) ==
  \/ old = None /\ minutes > 0 /\ Propose(d, minutes)
  \/ /\ old # None
     /\ overtime' = [overtime EXCEPT ![d].minutes = minutes]
     /\ UNCHANGED rows
  \/ old = None /\ minutes = 0 /\ UNCHANGED <<overtime, rows>>

\* syncOvertime, decided by the row read before; its writes name the row by its
\* key (employee and day), not by its status.
SyncOvertime(d, old, minutes) ==
  \/ old = None /\ minutes > 0 /\ Propose(d, minutes)
  \/ /\ Pending(old) /\ minutes > 0
     /\ overtime' = [overtime EXCEPT ![d].minutes = minutes]
     /\ UNCHANGED rows
  \/ /\ Pending(old) /\ minutes = 0
     /\ overtime' = [overtime EXCEPT ![d] = None]
     /\ UNCHANGED rows
  \/ /\ Reviewed(old) \/ (old = None /\ minutes = 0)
     /\ UNCHANGED <<overtime, rows>>

CommitTransaction(h) ==
  LET d == job[h].day IN
  /\ At(h, "closing")
  /\ record' = [record EXCEPT ![d] = Outcome(h)]
  /\ SyncOvertime(d, job[h].old, MinutesOf(Outcome(h)))
  /\ job' = [job EXCEPT ![h] = Keep(h, AfterDay(h))]
  /\ UNCHANGED <<today, ended, facts, special, lastRun, spent>>

\* The days a handler fills or closes: up to addDays(today, -1).
UpToYesterday(asOf, d) == d < asOf

\* completeDaysSince: the days between the punches and yesterday that have no
\* record, no further back than FillDays.
FillDaysSince(h) ==
  LET earliest == IF job[h].asOf > FillDays THEN job[h].asOf - FillDays ELSE 0
      missing  == {d \in Days : /\ job[h].from <= d /\ earliest <= d
                                /\ UpToYesterday(job[h].asOf, d) /\ Hired <= d
                                /\ record[d] = None}
  IN
  /\ At(h, "filling")
  /\ IF job[h].from + 1 >= job[h].asOf \/ missing = {}
       THEN Finish(h)
       ELSE job' = [job EXCEPT ![h].pc = "reading", ![h].task = "range",
                               ![h].queue = missing]
  /\ UNCHANGED <<today, ended, facts, special, record, overtime, rows, lastRun, spent>>

-----------------------------------------------------------------------------
(* The hourly job: finalizePendingDays.                                    *)

BeginFinalize(h) ==
  /\ At(h, "idle")
  /\ job' = [job EXCEPT ![h] = [IdleJob EXCEPT !.pc = "listing", !.task = "finalize",
                                               !.asOf = today]]
  /\ UNCHANGED <<today, ended, facts, special, record, overtime, rows, lastRun, spent>>

\* Mutant: one day less of look-back.
FirstDayAfter(asOf) == IF asOf >= Lookback THEN asOf - Lookback + 1 ELSE 0

\* addDays(today, -FINALIZER_LOOKBACK_DAYS)
FirstDay(asOf) == IF asOf >= Lookback THEN asOf - Lookback ELSE 0

ListProvisional(h) ==
  LET first == FirstDay(job[h].asOf)
      open  == {d \in first..job[h].asOf : record[d] # None /\ ~record[d].final}
  IN
  /\ At(h, "listing")
  /\ job' = [job EXCEPT ![h].pc = IF open = {} THEN "missing" ELSE "loading",
                        ![h].queue = open,
                        ![h].from = first]
  /\ UNCHANGED <<today, ended, facts, special, record, overtime, rows, lastRun, spent>>

\* One date of the look-back after the other, up to yesterday.
FindMissing(h) ==
  LET d == job[h].from
      missing == record[d] = None /\ Hired <= d
  IN
  /\ At(h, "missing")
  /\ UpToYesterday(job[h].asOf, d)
  /\ job' = [job EXCEPT ![h].from = d + 1,
                        ![h].pc = IF missing THEN "loading" ELSE "missing",
                        ![h].queue = IF missing THEN {d} ELSE {}]
  /\ UNCHANGED <<today, ended, facts, special, record, overtime, rows, lastRun, spent>>

EndFinalize(h) ==
  /\ At(h, "missing")
  /\ ~UpToYesterday(job[h].asOf, job[h].from)
  /\ lastRun' = job[h].asOf
  /\ Finish(h)
  /\ UNCHANGED <<today, ended, facts, special, record, overtime, rows, spent>>

-----------------------------------------------------------------------------
(* Overtime review.                                                        *)

\* The row is read; one that is not pending is refused.
BeginReview(h, d) ==
  /\ At(h, "idle")
  /\ Pending(overtime[d])
  /\ ReviewRaces \/ \A g \in Reviewers : ~(At(g, "deciding") /\ job[g].day = d)
  /\ job' = [job EXCEPT ![h] = [IdleJob EXCEPT !.pc = "deciding", !.task = "review",
                                               !.day = d, !.old = overtime[d]]]
  /\ UNCHANGED <<today, ended, facts, special, record, overtime, rows, lastRun, spent>>

\* The update names the row by its id only; a row deleted meanwhile is an error.
Decide(h) ==
  LET d == job[h].day IN
  /\ At(h, "deciding")
  /\ ReviewRaces \/ ~Locked(d)
  /\ IF overtime[d] # None /\ overtime[d].id = job[h].old.id
       THEN \E s \in {"APPROVED", "REJECTED"} :
              overtime' = [overtime EXCEPT ![d].status = s]
       ELSE UNCHANGED overtime
  /\ Finish(h)
  /\ UNCHANGED <<today, ended, facts, special, record, rows, lastRun, spent>>

-----------------------------------------------------------------------------
\* The instance dies, or an exception ends the handler: an open transaction is
\* rolled back, the days still in the queue are not recomputed.
Die(h) ==
  /\ ~At(h, "idle")
  /\ spent.faults < MaxFaults
  /\ spent' = [spent EXCEPT !.faults = @ + 1]
  /\ Finish(h)
  /\ UNCHANGED <<today, ended, facts, special, record, overtime, rows, lastRun>>

Recompute(h) ==
  \/ LoadCalendar(h) \/ ReadDay(h) \/ DropProvisional(h)
  \/ OpenTransaction(h) \/ CommitTransaction(h)

Finalize(h) ==
  BeginFinalize(h) \/ ListProvisional(h) \/ FindMissing(h) \/ EndFinalize(h)

Next ==
  \/ NextDate \/ WindowEnds
  \/ \E h \in Changers :
       \/ \E f \in Punches : StorePunch(h, f) \/ VoidEvent(h, f)
       \/ \E f \in Leaves : ReviewLeave(h, f)
       \/ \E d \in Days : ChangePlan(h, d)
       \/ RequestRecompute(h) \/ Recompute(h) \/ FillDaysSince(h)
  \/ \E h \in Finalizers : Finalize(h) \/ Recompute(h)
  \/ \E h \in Reviewers : \/ \E d \in Days : BeginReview(h, d)
                          \/ Decide(h)
  \/ \E h \in Mortal : Die(h)

Spec == Init /\ [][Next]_vars

(***************************************************************************)
(* Fairness: the hourly job keeps running and started handlers go on unless *)
(* they die; days pass; people act as they please.                         *)
(***************************************************************************)
Fairness ==
  /\ \A h \in Changers : WF_vars(Recompute(h) \/ FillDaysSince(h))
  /\ \A h \in Finalizers : WF_vars(Finalize(h) \/ Recompute(h))
  /\ WF_vars(NextDate) /\ WF_vars(WindowEnds)

FairSpec == Spec /\ Fairness

-----------------------------------------------------------------------------
(* Properties.                                                             *)

TypeOK ==
  /\ today \in Days /\ ended \in 0..(LastDay + 1) /\ lastRun \in Days
  /\ facts \in [Facts -> {"absent", "live", "gone"}]
  /\ special \in SUBSET Days
  /\ record \in [Days -> Record \cup {None}]
  /\ overtime \in [Days -> Overtime \cup {None}]
  /\ rows \in Nat
  /\ job \in [Handlers -> Job]
  /\ spent \in [changes : 0..MaxChanges, faults : 0..MaxFaults]

\* Somebody is about to compute day d, or in the middle of it.
Underway(d) == \E h \in Workers : d \in job[h].queue \/ Computing(h, d)

\* The past is reproducible: once every change of a day has been recomputed its
\* record is that of the punches, leaves and schedule the database holds now.
RecordsCurrent ==
  \A d \in Hired..LastDay :
    ~Underway(d) =>
      IF record[d] = None THEN FactsOn(d) \cap Punches = {}
      ELSE record[d].facts = FactsOn(d) /\ record[d].special = (d \in special)

\* A record and its overtime are written together: a record with overtime has a
\* row, and a proposal nobody reviewed is that of the record it stands beside.
OvertimeFollows ==
  \A d \in Days :
    record[d] # None =>
      /\ MinutesOf(record[d]) > 0 => overtime[d] # None
      /\ Pending(overtime[d]) => overtime[d].minutes = MinutesOf(record[d])

\* Overtime somebody approved or rejected is never overwritten, by a
\* recomputation or by another review.
ReviewedKept ==
  [][\A d \in Days : Reviewed(overtime[d]) => overtime'[d] = overtime[d]]_vars

\* Every day of employment that ends gets a final record and keeps one, also
\* the days nobody punched, when the API is down for at most MaxGap days.  (The
\* calendar of the model ends before the last day can be yesterday.)
DaysAreClosed ==
  \A d \in Hired..(LastDay - 1) :
    d < ended ~> [](record[d] # None /\ record[d].final)
=============================================================================
