----------------------------- MODULE Assignments -----------------------------
(***************************************************************************)
(* The schedule history of one employee, edited by several handlers at     *)
(* once (work-schedules.service.ts).  Each operation reads and checks the  *)
(* history, changes it in a transaction, and then has the past days        *)
(* computed anew.  Module DayAttribution has the operations one after the  *)
(* other and asks what becomes of the punches.                             *)
(***************************************************************************)
EXTENDS FiniteSets, Integers

CONSTANTS
    Handlers,
    Company,        \* the schedule of COMPANY_SCHEDULE_NAME
    Schedules,      \* every schedule, Company among them
    None,           \* effectiveTo is null; no schedule
    LastDate,       \* dates are 1..LastDate
    Today,
    EarliestDate,   \* Today - MAX_RETROACTIVE_DAYS
    MaxOps,         \* bound on operations
    UndoSwallowed,  \* an assignment may be undone when a race has left one without a day
    UnassignRaces   \* an assignment may be undone while the history is edited

VARIABLES
    rows,    \* employeeSchedule: [id, schedule, from, to]
    record,  \* of each past date: the schedule its record was computed with
    jobs,    \* what each handler is at
    ops      \* operations begun: the next row's id, too

vars == <<rows, record, jobs, ops>>

Dates == 1..LastDate
Past == 1..Today
Idle == [op |-> "idle"]

Job(h, job) == jobs' = [jobs EXCEPT ![h] = job]

InForce(r, d) == r.from <= d /\ (r.to = None \/ d <= r.to)

ScheduleOn(rs, d) ==
    IF \E r \in rs : InForce(r, d) THEN (CHOOSE r \in rs : InForce(r, d)).schedule ELSE None

Latest(rs) == {r \in rs : \A s \in rs : s.from <= r.from}

\* Mutant: it closes only the assignment that has no end.
OpenAt(r, from) == r.to = None

\* What createAssignment closes the day before it.
Reaches(r, from) == r.to = None \/ r.to >= from

\* createAssignment: what was in force ends the day before, the new one has no end.
Assigned(rs, id, schedule, from) ==
    {IF Reaches(r, from) THEN [r EXCEPT !.to = from - 1] ELSE r : r \in rs}
        \cup {[id |-> id, schedule |-> schedule, from |-> from, to |-> None]}

-----------------------------------------------------------------------------
\* An employee is created with a schedule or without one.
Init ==
    /\ rows \in {{}} \cup {{[id |-> 0, schedule |-> s, from |-> 1, to |-> None]} : s \in Schedules}
    /\ record = [d \in Past |-> ScheduleOn(rows, d)]
    /\ jobs = [h \in Handlers |-> Idle]
    /\ ops = 0

Busy(kind) == \E h \in Handlers : jobs[h].op = kind

Begin(h) == jobs[h] = Idle /\ ops < MaxOps /\ ops' = ops + 1

\* Two assignments committed against the order of their dates leave the first without a day.
Swallowed(r) == r.to # None /\ r.to < r.from

(* assign: nothing starts on or after that date.                           *)
AssignCheck(h) ==
    /\ Begin(h)
    /\ UnassignRaces \/ ~Busy("unassign")
    /\ \E s \in Schedules, from \in Dates :
          /\ \A r \in rows : r.from < from
          /\ Job(h, [op |-> "assign", id |-> ops', schedule |-> s, from |-> from])
    /\ UNCHANGED <<rows, record>>

AssignCommit(h) ==
    /\ jobs[h].op = "assign"
    /\ rows' = Assigned(rows, jobs[h].id, jobs[h].schedule, jobs[h].from)
    /\ Job(h, [op |-> "recompute", from |-> jobs[h].from])
    /\ UNCHANGED <<record, ops>>

(* setupWorkday reads the latest assignment of everyone it will assign.    *)
SetupRead(h) ==
    /\ Begin(h)
    /\ UnassignRaces \/ ~Busy("unassign")
    /\ \E from \in EarliestDate..LastDate :
          /\ \/ rows = {} /\ Job(h, [op |-> "setup", id |-> ops', from |-> from, latest |-> {}])
             \/ \E r \in Latest(rows) :
                   Job(h, [op |-> "setup", id |-> ops', from |-> from, latest |-> {r}])
    /\ UNCHANGED <<rows, record>>

(* It assigns on what it read: someone on the schedule stays on it, and    *)
(* whoever has another from that date on keeps it and is not recomputed.   *)
SetupAssign(h) ==
    /\ jobs[h].op = "setup"
    /\ LET from == jobs[h].from
           on == {r \in jobs[h].latest : r.schedule = Company}
           kept == {r \in jobs[h].latest \ on : r.from >= from}
       IN  /\ rows' = IF on \cup kept = {} THEN Assigned(rows, jobs[h].id, Company, from) ELSE rows
           /\ Job(h, IF kept # {} THEN Idle ELSE [op |-> "recompute", from |-> from])
    /\ UNCHANGED <<record, ops>>

(* unassign: the latest one, if its days can still be computed anew.       *)
UnassignCheck(h) ==
    /\ Begin(h)
    /\ UnassignRaces \/ ~(Busy("assign") \/ Busy("setup") \/ Busy("unassign"))
    /\ \E r \in Latest(rows) :
          /\ r.from >= EarliestDate
          /\ UndoSwallowed \/ \A s \in rows : ~Swallowed(s)
          /\ Job(h, [op |-> "unassign", row |-> r])
    /\ UNCHANGED <<rows, record>>

(* What preceded it has no end again; a row already gone fails.            *)
UnassignCommit(h) ==
    /\ jobs[h].op = "unassign"
    /\ LET gone == {r \in rows : r.id = jobs[h].row.id}
           from == jobs[h].row.from
           earlier == Latest({r \in rows : r.from < from})
           Reopened(r) == (rows \ (gone \cup {r})) \cup {[r EXCEPT !.to = None]}
       IN  /\ rows' \in IF gone = {} THEN {rows}
                       ELSE IF earlier = {} THEN {rows \ gone} ELSE {Reopened(r) : r \in earlier}
           /\ Job(h, IF gone = {} THEN Idle ELSE [op |-> "recompute", from |-> from])
    /\ UNCHANGED <<record, ops>>

\* Mutant: the date of the change itself is not computed anew.
RecomputeAfter(h) ==
    /\ jobs[h].op = "recompute"
    /\ record' = [d \in Past |->
          IF d > jobs[h].from /\ d >= EarliestDate THEN ScheduleOn(rows, d) ELSE record[d]]
    /\ Job(h, Idle)
    /\ UNCHANGED <<rows, ops>>

(* recomputeRetroactively, recomputeRange.                                 *)
Recompute(h) ==
    /\ jobs[h].op = "recompute"
    /\ record' = [d \in Past |->
          IF d >= jobs[h].from /\ d >= EarliestDate THEN ScheduleOn(rows, d) ELSE record[d]]
    /\ Job(h, Idle)
    /\ UNCHANGED <<rows, ops>>

Handle(h) ==
    \/ AssignCheck(h) \/ AssignCommit(h) \/ SetupRead(h) \/ SetupAssign(h)
    \/ UnassignCheck(h) \/ UnassignCommit(h) \/ Recompute(h)

Next == \E h \in Handlers : Handle(h)

Spec == Init /\ [][Next]_vars

-----------------------------------------------------------------------------
(* Properties.                                                             *)

(* From the first assignment on, every date has exactly one in force,      *)
(* whatever was assigned, set up and undone meanwhile: closing the         *)
(* previous one and opening it again leave neither gap nor overlap.        *)
OneScheduleADay ==
    \A d \in Dates :
        (\E r \in rows : r.from <= d) => Cardinality({r \in rows : InForce(r, d)}) = 1

(* When nothing is under way, each past date within reach was last         *)
(* computed with the schedule the history has for it.                      *)
RecordsFollowHistory ==
    (\A h \in Handlers : jobs[h] = Idle) =>
        \A d \in Past : d >= EarliestDate => record[d] = ScheduleOn(rows, d)
=============================================================================
