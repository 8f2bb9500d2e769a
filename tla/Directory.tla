------------------------------ MODULE Directory ------------------------------
(***************************************************************************)
(* Employees, the biometric id each is enrolled under, and the punches     *)
(* that arrive before anybody has the id (employees.service.ts; of         *)
(* device-sync.service.ts, the part of an ingestion that finds whose a     *)
(* punch is).  Saving an employee commits first and links the unmatched    *)
(* punches afterwards; ingestions and other employees go on meanwhile.     *)
(***************************************************************************)
EXTENDS FiniteSets, Naturals

CONSTANTS
    Employees, Ids, Punches,
    IdOf,          \* the id each punch was made under
    Handlers,
    None,
    MaxSaves,      \* bound on employees saved or removed
    IngestRaces,   \* an id may be saved between the two halves of an ingestion
    SaveRaces      \* an employee may be saved or removed while being saved

VARIABLES
    employee,  \* of each: state, id (biometricId)
    owner,     \* of each punch stored: its employee or None; "unknown" before
    counted,   \* punches the records of each employee count
    jobs,      \* what each handler is at
    saves

vars == <<employee, owner, counted, jobs, saves>>

Idle == [op |-> "idle"]
Unknown == "unknown"

Job(h, job) == jobs' = [jobs EXCEPT ![h] = job]

Present(e) == employee[e].state = "present"

\* The employee whose id it is.
HolderOf(id) ==
    IF \E e \in Employees : Present(e) /\ employee[e].id = id
    THEN CHOOSE e \in Employees : Present(e) /\ employee[e].id = id
    ELSE None

Stored(p) == owner[p] # Unknown

\* processEvents: the days of these punches are computed anew for the employee.
Reprocessed(e) == [counted EXCEPT ![e] = {p \in Punches : owner'[p] = e}]

-----------------------------------------------------------------------------
Init ==
    /\ employee = [e \in Employees |-> [state |-> "absent", id |-> None]]
    /\ owner = [p \in Punches |-> Unknown]
    /\ counted = [e \in Employees |-> {}]
    /\ jobs = [h \in Handlers |-> Idle]
    /\ saves = 0

Saving(e) == {h \in Handlers : jobs[h].op = "save" /\ jobs[h].e = e}

(* create, update: what it was before is read first.                       *)
BeginSave(h) ==
    /\ jobs[h] = Idle /\ saves < MaxSaves
    /\ \E e \in Employees, id \in Ids \cup {None} :
          /\ employee[e].state # "deleted"
          /\ SaveRaces \/ Saving(e) = {}
          /\ Job(h, [op |-> "save", at |-> "commit", e |-> e, id |-> id, before |-> employee[e].id])
    /\ saves' = saves + 1
    /\ UNCHANGED <<employee, owner, counted>>

\* Mutant: an employee who had another id is not looked for.
CommitSaveFirst(h) ==
    /\ jobs[h].op = "save" /\ jobs[h].at = "commit"
    /\ IngestRaces \/ \A g \in Handlers : jobs[g].op # "ingest"
    /\ LET e == jobs[h].e
           id == jobs[h].id
       IN  IF id # None /\ \E f \in Employees \ {e} : employee[f].id = id
           THEN Job(h, Idle) /\ UNCHANGED employee
           ELSE /\ employee' = [employee EXCEPT ![e].id = id,
                                    ![e].state = IF @ = "absent" THEN "present" ELSE @]
                /\ Job(h, IF id # None /\ jobs[h].before = None
                          THEN [jobs[h] EXCEPT !.at = "find"] ELSE Idle)
    /\ UNCHANGED <<owner, counted, saves>>

(* An id is one employee's at a time: the database refuses another.        *)
CommitSave(h) ==
    /\ jobs[h].op = "save" /\ jobs[h].at = "commit"
    /\ IngestRaces \/ \A g \in Handlers : jobs[g].op # "ingest"
    /\ LET e == jobs[h].e
           id == jobs[h].id
       IN  IF id # None /\ \E f \in Employees \ {e} : employee[f].id = id
           THEN Job(h, Idle) /\ UNCHANGED employee
           ELSE /\ employee' = [employee EXCEPT ![e].id = id,
                                    ![e].state = IF @ = "absent" THEN "present" ELSE @]
                /\ Job(h, IF id # None /\ id # jobs[h].before
                          THEN [jobs[h] EXCEPT !.at = "find"] ELSE Idle)
    /\ UNCHANGED <<owner, counted, saves>>

(* linkUnmatchedPunches.                                                   *)
FindUnmatched(h) ==
    /\ jobs[h].op = "save" /\ jobs[h].at = "find"
    /\ LET pending == {p \in Punches : owner[p] = None /\ IdOf[p] = jobs[h].id}
       IN  Job(h, IF pending = {} THEN Idle
                  ELSE [op |-> "save", at |-> "link", e |-> jobs[h].e, pending |-> pending])
    /\ UNCHANGED <<employee, owner, counted, saves>>

LinkPunches(h) ==
    /\ jobs[h].op = "save" /\ jobs[h].at = "link"
    /\ owner' = [p \in Punches |-> IF p \in jobs[h].pending THEN jobs[h].e ELSE owner[p]]
    /\ Job(h, [op |-> "save", at |-> "process", e |-> jobs[h].e])
    /\ UNCHANGED <<employee, counted, saves>>

ProcessPunches(h) ==
    /\ jobs[h].op \in {"save", "ingest"} /\ jobs[h].at = "process"
    /\ UNCHANGED owner
    /\ counted' = Reprocessed(jobs[h].e)
    /\ Job(h, Idle)
    /\ UNCHANGED <<employee, saves>>

(* remove releases the id; the punches stay the employee's.                *)
Remove(e) ==
    /\ Present(e) /\ saves < MaxSaves
    /\ SaveRaces \/ Saving(e) = {}
    /\ employee' = [employee EXCEPT ![e] = [state |-> "deleted", id |-> None]]
    /\ saves' = saves + 1
    /\ UNCHANGED <<owner, counted, jobs>>

(* An ingestion asks whose the ids are, then stores what it was sent.      *)
BeginIngest(h) ==
    /\ jobs[h] = Idle
    /\ \E p \in Punches :
          /\ ~Stored(p) /\ \A g \in Handlers : jobs[g].op = "ingest" => jobs[g].p # p
          /\ Job(h, [op |-> "ingest", at |-> "store", p |-> p, e |-> HolderOf(IdOf[p])])
    /\ UNCHANGED <<employee, owner, counted, saves>>

StorePunch(h) ==
    /\ jobs[h].op = "ingest" /\ jobs[h].at = "store"
    /\ owner' = [owner EXCEPT ![jobs[h].p] = jobs[h].e]
    /\ Job(h, IF jobs[h].e = None THEN Idle ELSE [jobs[h] EXCEPT !.at = "process"])
    /\ UNCHANGED <<employee, counted, saves>>

Handle(h) ==
    \/ BeginSave(h) \/ CommitSave(h) \/ FindUnmatched(h) \/ LinkPunches(h) \/ ProcessPunches(h)
    \/ BeginIngest(h) \/ StorePunch(h)

Next == (\E h \in Handlers : Handle(h)) \/ \E e \in Employees : Remove(e)

Spec == Init /\ [][Next]_vars

-----------------------------------------------------------------------------
(* Properties.                                                             *)

(* When nothing is under way, a punch made under an id somebody has now    *)
(* belongs to somebody, and each employee's records count exactly the      *)
(* punches that are theirs: a punch received before the id was enrolled is *)
(* neither forgotten nor counted twice (linkUnmatchedPunches).             *)
PunchesFindTheirEmployee ==
    (\A h \in Handlers : jobs[h] = Idle) =>
        /\ \A p \in Punches : Stored(p) /\ HolderOf(IdOf[p]) # None => owner[p] # None
        /\ \A e \in Employees : counted[e] = {p \in Punches : owner[p] = e}
=============================================================================
