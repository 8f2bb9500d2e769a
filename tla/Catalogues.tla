----------------------------- MODULE Catalogues ------------------------------
(***************************************************************************)
(* What employees refer to and how it is edited: departments and positions *)
(* (departments.service.ts, positions.service.ts), contract types          *)
(* (contract-types.service.ts), supervisors (employees.service.ts), and    *)
(* the weekly schedules with their shifts (work-schedules.service.ts).     *)
(* Every operation reads and checks first and writes later, in a           *)
(* transaction that checks nothing again: what happens in between is seen  *)
(* by the constraints of the database only.                                *)
(***************************************************************************)
EXTENDS FiniteSets, Integers, Sequences

CONSTANTS
    None,
    Callers,      \* requests in progress
    Entries,      \* ids of departments, positions, contract types or supervisors
    Staff,        \* ids of employees
    Titles,       \* what is unique among the entries: a name, a biometric id
    Weekdays,
    MaxCalls,     \* bound on calls
    AssignRaces,  \* an entry may be removed while it is being given to somebody
    RenameRaces,  \* an entry may be removed while it is being renamed
    SaveRaces     \* two saves of a schedule, or of a shift, may overlap

VARIABLES
    kind,   \* what the entries are: "office" (departments, positions), "contract", "supervisor"
    rows,   \* entry -> None or [name, live]; a name is a title and the suffixes after it
    staff,  \* employee -> None or [live, of: its entry, wanted: the one it was given last]
    week,   \* rows of a weekly schedule: [day, save]
    shift,  \* [flexible, overnight]
    call,   \* what each caller is at
    begun   \* calls begun; also tells removals and saves apart

vars == <<kind, rows, staff, week, shift, call, begun>>

Idle == [op |-> "idle"]

Fields == {"flexible", "overnight"}

Live(e) == rows[e] # None /\ rows[e].live

\* A removed contract type is no row any more.
Stored(e) == rows[e] # None /\ (kind = "contract" => rows[e].live)

Free(title, e) == \A f \in Entries \ {e} : rows[f] # None => rows[f].name # <<title>>

Users(e) == {s \in Staff : staff[s] # None /\ staff[s].of = e}

\* What remove counts: users that were not removed.
InUse(e) == \E s \in Users(e) : staff[s].live

\* Mutant: the name stays as it was.
FreedLater(name, stamp) == name

\* The name of what is removed, for another to have: a suffix, or no name (of a supervisor, the
\* biometric id).
Freed(name, stamp) == IF kind = "office" THEN Append(name, stamp) ELSE <<>>

Measurable(s) == ~(s.flexible /\ s.overnight)

-----------------------------------------------------------------------------
Init ==
    /\ kind \in {"office", "contract", "supervisor", "schedule"}
    /\ rows = [e \in Entries |-> None]
    /\ staff = [s \in Staff |-> None]
    /\ week = {[day |-> d, save |-> 0] : d \in Weekdays}
    /\ shift = [flexible |-> FALSE, overnight |-> FALSE]
    /\ call = [c \in Callers |-> Idle]
    /\ begun = 0

\* They are the two operations, on one entry.
Both(job, other, ops) == {job.op, other.op} = ops /\ job.entry = other.entry

Apart(job, other) ==
    /\ ~AssignRaces => ~Both(job, other, {"assign", "remove"})
    /\ ~RenameRaces => ~Both(job, other, {"rename", "remove"})
    /\ ~SaveRaces /\ job.op \in {"week", "shift"} => job.op # other.op

Begin(c, job) ==
    /\ call[c] = Idle /\ begun < MaxCalls
    /\ \A d \in Callers : Apart(job, call[d])
    /\ begun' = begun + 1
    /\ call' = [call EXCEPT ![c] = job]

\* Writes, answers an error or gives up: the call is over.
End(c) ==
    /\ call' = [call EXCEPT ![c] = Idle]
    /\ UNCHANGED <<kind, begun>>

Create(e, title) ==
    /\ begun < MaxCalls /\ begun' = begun + 1
    /\ rows[e] = None /\ Free(title, e)
    /\ rows' = [rows EXCEPT ![e] = [name |-> <<title>>, live |-> TRUE]]
    /\ UNCHANGED <<kind, staff, week, shift, call>>

BeginRename(c, e, title) ==
    /\ Live(e)
    /\ Begin(c, [op |-> "rename", entry |-> e, title |-> title])
    /\ UNCHANGED <<kind, rows, staff, week, shift>>

\* Nothing to update (P2025) or a name that is taken (P2002) is answered as an error.
Rename(c) ==
    LET e == call[c].entry IN
    /\ call[c].op = "rename" /\ End(c)
    /\ rows' = IF Stored(e) /\ Free(call[c].title, e)
               THEN [rows EXCEPT ![e].name = <<call[c].title>>] ELSE rows
    /\ UNCHANGED <<staff, week, shift>>

\* A department, position or contract type in use is refused; a supervisor is not.
BeginRemove(c, e) ==
    /\ Live(e) /\ (InUse(e) => kind = "supervisor")
    /\ Begin(c, [op |-> "remove", entry |-> e, name |-> rows[e].name, stamp |-> begun + 1])
    /\ UNCHANGED <<kind, rows, staff, week, shift>>

Removing(c) == call[c].op = "remove" /\ End(c) /\ UNCHANGED <<week, shift>>

Gone(c) == [name |-> Freed(call[c].name, call[c].stamp), live |-> FALSE]

RemoveOffice(c) ==
    /\ kind = "office" /\ Removing(c)
    /\ rows' = [rows EXCEPT ![call[c].entry] = Gone(c)]
    /\ UNCHANGED staff

\* The row is deleted, ON DELETE SET NULL (nothing is, P2025, if another call did).
RemoveContract(c) ==
    /\ kind = "contract" /\ Removing(c)
    /\ rows' = [rows EXCEPT ![call[c].entry] = Gone(c)]
    /\ staff' = [s \in Staff |-> IF s \in Users(call[c].entry) THEN [staff[s] EXCEPT !.of = None]
                                 ELSE staff[s]]

\* employees.remove: whom the employee supervised has no supervisor.
RemoveSupervisor(c) ==
    /\ kind = "supervisor" /\ Removing(c)
    /\ rows' = [rows EXCEPT ![call[c].entry] = Gone(c)]
    /\ staff' = [s \in Staff |-> IF s \in Users(call[c].entry)
                                 THEN [staff[s] EXCEPT !.of = None, !.wanted = None] ELSE staff[s]]

\* create or update of an employee; assertReferences looks for the entry.
BeginAssign(c, s, e) ==
    /\ staff[s] # None => staff[s].live
    /\ e # None => Live(e)
    /\ Begin(c, [op |-> "assign", entry |-> e, who |-> s, new |-> staff[s] = None])
    /\ UNCHANGED <<kind, rows, staff, week, shift>>

\* A row that is gone fails the foreign key (P2003), an id already there its uniqueness.
Assign(c) ==
    LET e == call[c].entry
        s == call[c].who
        stands == (e # None => Stored(e)) /\ (call[c].new => staff[s] = None)
    IN  /\ call[c].op = "assign" /\ End(c)
        /\ staff' = IF ~stands THEN staff
                    ELSE [staff EXCEPT ![s] =
                            [live |-> call[c].new \/ staff[s].live, of |-> e, wanted |-> e]]
        /\ UNCHANGED <<rows, week, shift>>

RemoveEmployee(s) ==
    /\ begun < MaxCalls /\ begun' = begun + 1
    /\ staff[s] # None /\ staff[s].live
    /\ staff' = [staff EXCEPT ![s].live = FALSE]
    /\ UNCHANGED <<kind, rows, week, shift, call>>

-----------------------------------------------------------------------------
(* updateSchedule: its days are deleted and written anew.                  *)
BeginWeek(c, days) ==
    /\ Begin(c, [op |-> "week", days |-> days, seen |-> None, stamp |-> begun + 1])
    /\ UNCHANGED <<kind, rows, staff, week, shift>>

\* The deletion finds the rows of when it starts, and waits for who has deleted them first.
DeleteWeek(c) ==
    /\ call[c].op = "week" /\ call[c].seen = None
    /\ call' = [call EXCEPT ![c].seen = week]
    /\ UNCHANGED <<kind, rows, staff, week, shift, begun>>

\* A weekday has one row (P2002 otherwise: everything is rolled back).
WriteWeek(c) ==
    LET left == week \ call[c].seen
        new == {[day |-> d, save |-> call[c].stamp] : d \in call[c].days}
    IN  /\ call[c].op = "week" /\ call[c].seen # None /\ End(c)
        /\ week' = IF {r.day : r \in left} \cap call[c].days = {} THEN left \cup new ELSE week
        /\ UNCHANGED <<rows, staff, shift>>

\* updateShift: validateShift sees the shift that was read with the change of the call.
BeginShift(c, field, value) ==
    /\ Measurable([shift EXCEPT ![field] = value])
    /\ Begin(c, [op |-> "shift", field |-> field, value |-> value])
    /\ UNCHANGED <<kind, rows, staff, week, shift>>

WriteShift(c) ==
    /\ call[c].op = "shift" /\ End(c)
    /\ shift' = [shift EXCEPT ![call[c].field] = call[c].value]
    /\ UNCHANGED <<rows, staff, week>>

-----------------------------------------------------------------------------
EditEntries ==
    \/ \E e \in Entries, t \in Titles : Create(e, t)
    \/ \E s \in Staff : RemoveEmployee(s)
    \/ \E c \in Callers :
          \/ \E e \in Entries, t \in Titles : BeginRename(c, e, t)
          \/ \E e \in Entries : BeginRemove(c, e)
          \/ \E e \in Entries \cup {None}, s \in Staff : BeginAssign(c, s, e)
          \/ Rename(c) \/ Assign(c)
          \/ RemoveOffice(c) \/ RemoveContract(c) \/ RemoveSupervisor(c)

EditSchedules ==
    \E c \in Callers :
       \/ \E days \in (SUBSET Weekdays) \ {{}} : BeginWeek(c, days)
       \/ \E f \in Fields, value \in BOOLEAN : BeginShift(c, f, value)
       \/ DeleteWeek(c) \/ WriteWeek(c) \/ WriteShift(c)

Next == IF kind = "schedule" THEN EditSchedules ELSE EditEntries

Spec == Init /\ [][Next]_vars

-----------------------------------------------------------------------------
(* Who was given a department, a position, a contract type or a supervisor *)
(* still has it, and it is still there: a removal counts its employees     *)
(* (contract-types.service.ts:114: their balances would silently           *)
(* disappear), and the employees service looks for what it refers to.      *)
ReferencesStand ==
    \A s \in Staff : staff[s] # None /\ staff[s].live =>
        staff[s].of = staff[s].wanted /\ (staff[s].of # None => Live(staff[s].of))

(* What was removed holds no name and no biometric id that another may     *)
(* want (departments.service.ts:91).                                       *)
NamesComeBack ==
    \A e \in Entries : rows[e] # None /\ ~rows[e].live => rows[e].name \notin {<<t>> : t \in Titles}

(* A weekly schedule is what one save made it, and no shift is without     *)
(* fixed hours and across midnight at once                                 *)
(* (work-schedules.service.ts:523: it could not be measured).              *)
SchedulesHold == Cardinality({r.save : r \in week}) = 1 /\ Measurable(shift)

(* The three together: what the catalogues promise whoever refers to them, *)
(* however many calls are under way, save the overlaps the switches name.  *)
CataloguesStand == ReferencesStand /\ NamesComeBack /\ SchedulesHold
=============================================================================
