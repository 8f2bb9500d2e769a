---------------------------- MODULE PeopleProofs -----------------------------
(***************************************************************************)
(* What holds of the directory, the schedule history, the leave requests   *)
(* and the catalogues of people for any number of employees, punches,      *)
(* dates, requests, entries and handlers.                                  *)
(***************************************************************************)
EXTENDS MCPeople, FiniteSetTheorems, TLAPS

-----------------------------------------------------------------------------
(* The schedule history: rows and the schedule they give.                  *)

RowType == [id : Nat, schedule : Schedules \cup {Company}, from : Int, to : Int \cup {None}]

\* From the first row on, one row and no other is in force.
OneAt(rs) ==
  \A d \in Int : (\E r \in rs : r.from <= d) =>
    \E r \in rs : A!InForce(r, d) /\ \A s \in rs : A!InForce(s, d) => s = r

RowsById(rs) == \A r, s \in rs : r.id = s.id => r = s

LEMMA ScheduleOfRow ==
  ASSUME NEW rs, rs \subseteq RowType, OneAt(rs), NEW d \in Int, NEW r \in rs, A!InForce(r, d)
  PROVE  /\ A!ScheduleOn(rs, d) = r.schedule
         /\ \A s \in rs : A!InForce(s, d) => s = r
<1>1. r.from <= d
  BY DEF A!InForce
<1>2. PICK q \in rs : A!InForce(q, d) /\ \A s \in rs : A!InForce(s, d) => s = q
  BY <1>1 DEF OneAt
<1>3. r = q
  BY <1>2
<1>4. (CHOOSE s \in rs : A!InForce(s, d)) = r
  BY <1>2, <1>3
<1> QED BY <1>2, <1>3, <1>4 DEF A!ScheduleOn

\* What is in force before a date and what not, of two histories.
AlikeOn(rs, qs, d) ==
  /\ \A r \in rs : A!InForce(r, d) => \E q \in qs : A!InForce(q, d) /\ q.schedule = r.schedule
  /\ \A q \in qs : A!InForce(q, d) => \E r \in rs : A!InForce(r, d)

LEMMA SameSchedule ==
  ASSUME NEW rs, NEW qs, rs \subseteq RowType, qs \subseteq RowType, OneAt(rs), OneAt(qs),
         NEW d \in Int, AlikeOn(rs, qs, d)
  PROVE  A!ScheduleOn(qs, d) = A!ScheduleOn(rs, d)
<1>1. CASE \E r \in rs : A!InForce(r, d)
  <2>1. PICK r \in rs : A!InForce(r, d)
    BY <1>1
  <2>2. PICK q \in qs : A!InForce(q, d) /\ q.schedule = r.schedule
    BY <2>1 DEF AlikeOn
  <2> QED BY <2>1, <2>2, ScheduleOfRow
<1>2. CASE ~\E r \in rs : A!InForce(r, d)
  <2>1. ~\E q \in qs : A!InForce(q, d)
    BY <1>2 DEF AlikeOn
  <2> QED BY <1>2, <2>1 DEF A!ScheduleOn
<1> QED BY <1>1, <1>2

\* An assignment, checked or not, leaves one row in force from its start on and changes nothing
\* before it.
LEMMA AssignedHistory ==
  ASSUME NEW rs, rs \subseteq RowType, OneAt(rs), NEW id \in Nat,
         NEW s \in Schedules \cup {Company}, NEW from \in Int,
         NEW qs, qs = A!Assigned(rs, id, s, from)
  PROVE  /\ qs \subseteq RowType /\ OneAt(qs)
         /\ \A d \in Int : d < from => A!ScheduleOn(qs, d) = A!ScheduleOn(rs, d)
         /\ \A q \in qs : q.id = id \/ \E r \in rs : q.id = r.id
         /\ RowsById(rs) /\ (\A r \in rs : r.id # id) => RowsById(qs)
<1> DEFINE new == [id |-> id, schedule |-> s, from |-> from, to |-> None]
           Closed(r) == IF A!Reaches(r, from) THEN [r EXCEPT !.to = from - 1] ELSE r
<1>0. None \notin Int
  BY HistoryAssumption
<1>1. qs = {Closed(r) : r \in rs} \cup {new}
  BY DEF A!Assigned
<1>2. /\ new \in RowType /\ new.id = id /\ new.from = from /\ new.to = None
  BY DEF RowType
<1>3. ASSUME NEW r \in rs
      PROVE  /\ Closed(r) \in RowType /\ Closed(r).from = r.from /\ Closed(r).id = r.id
             /\ Closed(r).schedule = r.schedule
             /\ A!Reaches(r, from) => Closed(r).to = from - 1
             /\ ~A!Reaches(r, from) => Closed(r).to = r.to
  <2>1. r \in RowType
    OBVIOUS
  <2> QED BY <2>1 DEF RowType
<1>4. ASSUME NEW r \in rs PROVE r.from \in Int /\ (r.to = None \/ r.to \in Int)
  BY DEF RowType
<1>5. \A r \in rs : Closed(r) \in qs
  BY <1>1
<1>6. new \in qs
  BY <1>1
<1>7. \A q \in qs : q = new \/ \E r \in rs : q = Closed(r)
  BY <1>1
<1> HIDE DEF new, Closed
<1>8. qs \subseteq RowType
  BY <1>2, <1>3, <1>7
<1>9. ASSUME NEW r \in rs, NEW d \in Int
      PROVE  A!InForce(Closed(r), d) <=> A!InForce(r, d) /\ d < from
  BY <1>0, <1>3, <1>4 DEF A!InForce, A!Reaches
<1>10. ASSUME NEW d \in Int PROVE A!InForce(new, d) <=> from <= d
  BY <1>2 DEF A!InForce
<1>11. OneAt(qs)
  <2> SUFFICES ASSUME NEW d \in Int, NEW q \in qs, q.from <= d
               PROVE  \E p \in qs : A!InForce(p, d) /\ \A t \in qs : A!InForce(t, d) => t = p
    BY DEF OneAt
  <2>1. CASE from <= d
    <3>1. A!InForce(new, d)
      BY <1>10, <2>1
    <3>2. ASSUME NEW t \in qs, A!InForce(t, d) PROVE t = new
      BY <1>7, <1>9, <2>1, <3>2
    <3> QED BY <1>6, <3>1, <3>2
  <2>2. CASE d < from
    <3>1. q # new
      BY <1>2, <2>2
    <3>2. PICK r \in rs : q = Closed(r)
      BY <1>7, <3>1
    <3>3. r.from <= d
      BY <1>3, <3>2
    <3>4. PICK p \in rs : A!InForce(p, d) /\ \A t \in rs : A!InForce(t, d) => t = p
      BY <3>3 DEF OneAt
    <3>5. A!InForce(Closed(p), d)
      BY <1>9, <2>2, <3>4
    <3>6. ASSUME NEW t \in qs, A!InForce(t, d) PROVE t = Closed(p)
      <4>1. t # new
        BY <1>10, <2>2, <3>6
      <4>2. PICK u \in rs : t = Closed(u)
        BY <1>7, <4>1
      <4> QED BY <1>9, <3>4, <3>6, <4>2
    <3> QED BY <1>5, <3>5, <3>6
  <2> QED BY <2>1, <2>2
<1>12. ASSUME NEW d \in Int, d < from
       PROVE  A!ScheduleOn(qs, d) = A!ScheduleOn(rs, d)
  <2>1. ASSUME NEW r \in rs, A!InForce(r, d)
        PROVE  \E q \in qs : A!InForce(q, d) /\ q.schedule = r.schedule
    BY <1>3, <1>5, <1>9, <1>12, <2>1
  <2>2. ASSUME NEW q \in qs, A!InForce(q, d) PROVE \E r \in rs : A!InForce(r, d)
    <3>1. q # new
      BY <1>10, <1>12, <2>2
    <3>2. PICK r \in rs : q = Closed(r)
      BY <1>7, <3>1
    <3> QED BY <1>9, <2>2, <3>2
  <2>3. AlikeOn(rs, qs, d)
    BY <2>1, <2>2 DEF AlikeOn
  <2> QED BY <1>8, <1>11, <2>3, SameSchedule
<1>13. \A q \in qs : q.id = id \/ \E r \in rs : q.id = r.id
  BY <1>2, <1>3, <1>7
<1>14. ASSUME RowsById(rs), \A r \in rs : r.id # id PROVE RowsById(qs)
  <2> SUFFICES ASSUME NEW p \in qs, NEW q \in qs, p.id = q.id PROVE p = q
    BY DEF RowsById
  <2>1. (p = new \/ \E r \in rs : p = Closed(r)) /\ (q = new \/ \E r \in rs : q = Closed(r))
    BY <1>7
  <2> QED BY <1>2, <1>3, <1>14, <2>1 DEF RowsById
<1> QED BY <1>8, <1>11, <1>12, <1>13, <1>14

\* What undoing r makes of a history.
Undone(rs, r, qs) ==
  \/ qs = rs \ {r} /\ A!Latest({s \in rs : s.from < r.from}) = {}
  \/ \E p \in A!Latest({s \in rs : s.from < r.from}) :
       qs = (rs \ {r, p}) \cup {[p EXCEPT !.to = None]}

NoneSwallowed(rs) == \A s \in rs : ~A!Swallowed(s)

\* Undoing the latest assignment opens the row before it again.  That row is the one in force on
\* the day before the undone one started, provided no race has left a row without a day.
LEMMA UndoneHistory ==
  ASSUME NEW rs, rs \subseteq RowType, OneAt(rs), RowsById(rs),
         NoneSwallowed(rs), NEW r \in A!Latest(rs), NEW qs, Undone(rs, r, qs)
  PROVE  /\ qs \subseteq RowType /\ OneAt(qs) /\ RowsById(qs)
         /\ \A d \in Int : d < r.from => A!ScheduleOn(qs, d) = A!ScheduleOn(rs, d)
         /\ \A q \in qs : \E s \in rs : q.id = s.id
<1>0. None \notin Int
  BY HistoryAssumption
<1>1. ASSUME NEW s \in rs
      PROVE  /\ s.from \in Int /\ (s.to = None \/ s.to \in Int) /\ A!InForce(s, s.from)
  BY DEF RowType, NoneSwallowed, A!Swallowed, A!InForce
<1>2. ASSUME NEW s \in rs, NEW t \in rs, NEW d \in Int, A!InForce(s, d), A!InForce(t, d)
      PROVE  s = t
  BY <1>2, ScheduleOfRow
<1>3. r \in rs /\ \A s \in rs : s.from <= r.from
  BY DEF A!Latest
<1>4. ASSUME NEW s \in rs, s # r PROVE s.from < r.from
  <2>1. s.from <= r.from /\ s.from \in Int /\ r.from \in Int
    BY <1>1, <1>3
  <2>2. s.from # r.from
    BY <1>1, <1>2, <1>3, <1>4
  <2> QED BY <2>1, <2>2
<1>5. CASE \E p \in A!Latest({s \in rs : s.from < r.from}) :
              qs = (rs \ {r, p}) \cup {[p EXCEPT !.to = None]}
  <2>1. PICK p \in A!Latest({s \in rs : s.from < r.from}) :
               qs = (rs \ {r, p}) \cup {[p EXCEPT !.to = None]}
    BY <1>5
  <2>2. /\ p \in rs /\ p.from < r.from /\ p # r
        /\ \A s \in rs : s # r => s.from <= p.from
    <3>1. r.from \in Int /\ ~(r.from < r.from)
      BY <1>1, <1>3
    <3>2. /\ p \in {s \in rs : s.from < r.from}
          /\ \A s \in {t \in rs : t.from < r.from} : s.from <= p.from
      BY <2>1 DEF A!Latest
    <3> QED BY <1>4, <3>1, <3>2
  <2>3. PICK n : n = [p EXCEPT !.to = None]
    OBVIOUS
  <2>4. /\ n \in RowType /\ n.id = p.id /\ n.from = p.from /\ n.schedule = p.schedule /\ n.to = None
    <3>1. p \in RowType
      BY <2>2
    <3> QED BY <2>3, <3>1 DEF RowType
  <2>5. qs = (rs \ {r, p}) \cup {n}
    BY <2>1, <2>3
  <2>6. qs \subseteq RowType
    BY <2>4, <2>5
  <2>7. RowsById(qs)
    BY <2>2, <2>4, <2>5 DEF RowsById
  \* The other rows are over before p starts.
  <2>8. ASSUME NEW s \in rs, s # r, s # p, NEW d \in Int, A!InForce(s, d) PROVE d < p.from
    <3>1. s.from <= p.from /\ s.from \in Int /\ p.from \in Int
      BY <1>1, <2>2, <2>8
    <3>2. ~A!InForce(s, p.from)
      BY <1>1, <1>2, <2>2, <2>8
    <3> QED BY <1>1, <2>8, <3>1, <3>2 DEF A!InForce
  <2>9. ASSUME NEW d \in Int, p.from <= d, d < r.from PROVE A!InForce(p, d)
    <3>1. PICK q \in rs : A!InForce(q, d)
      BY <2>2, <2>9 DEF OneAt
    <3>2. q # r
      BY <1>1, <2>9, <3>1 DEF A!InForce
    <3>3. q = p
      BY <1>1, <2>2, <2>8, <2>9, <3>1, <3>2
    <3> QED BY <3>1, <3>3
  <2>10. ASSUME NEW d \in Int PROVE A!InForce(n, d) <=> p.from <= d
    BY <2>4 DEF A!InForce
  <2>11. OneAt(qs)
    <3> SUFFICES ASSUME NEW d \in Int, NEW q \in qs, q.from <= d
                 PROVE  \E m \in qs : A!InForce(m, d) /\ \A t \in qs : A!InForce(t, d) => t = m
      BY DEF OneAt
    <3>1. CASE p.from <= d
      <4>1. \A t \in qs : A!InForce(t, d) => t = n
        BY <1>1, <2>2, <2>5, <2>8, <3>1
      <4> QED BY <2>5, <2>10, <3>1, <4>1
    <3>2. CASE ~(p.from <= d)
      <4>1. q # n
        BY <2>4, <3>2
      <4>2. q \in rs /\ q # r
        BY <2>5, <4>1
      <4>3. PICK m \in rs : A!InForce(m, d) /\ \A t \in rs : A!InForce(t, d) => t = m
        BY <4>2 DEF OneAt
      <4>4. m # r /\ m # p
        BY <1>1, <2>2, <3>2, <4>3 DEF A!InForce
      <4>5. m \in qs
        BY <2>5, <4>4
      <4>6. \A t \in qs : A!InForce(t, d) => t = m
        BY <2>5, <2>10, <3>2, <4>3
      <4> QED BY <4>3, <4>5, <4>6
    <3> QED BY <3>1, <3>2
  <2>12. ASSUME NEW d \in Int, d < r.from
         PROVE  A!ScheduleOn(qs, d) = A!ScheduleOn(rs, d)
    <3>1. ASSUME NEW s \in rs, A!InForce(s, d)
          PROVE  \E q \in qs : A!InForce(q, d) /\ q.schedule = s.schedule
      <4>1. s # r
        BY <1>1, <2>12, <3>1 DEF A!InForce
      <4>2. CASE s = p
        <5>1. A!InForce(n, d)
          BY <2>10, <3>1, <4>2 DEF A!InForce
        <5> QED BY <2>4, <2>5, <4>2, <5>1
      <4>3. CASE s # p
        BY <2>5, <3>1, <4>1, <4>3
      <4> QED BY <4>2, <4>3
    <3>2. ASSUME NEW q \in qs, A!InForce(q, d) PROVE \E s \in rs : A!InForce(s, d)
      <4>1. CASE q = n
        BY <2>2, <2>9, <2>10, <2>12, <3>2, <4>1
      <4>2. CASE q # n
        BY <2>5, <3>2, <4>2
      <4> QED BY <4>1, <4>2
    <3>3. AlikeOn(rs, qs, d)
      BY <3>1, <3>2 DEF AlikeOn
    <3> QED BY <2>6, <2>11, <3>3, SameSchedule
  <2>13. \A q \in qs : \E s \in rs : q.id = s.id
    BY <2>2, <2>4, <2>5
  <2> QED BY <2>6, <2>7, <2>11, <2>12, <2>13
<1>6. CASE qs = rs \ {r} /\ A!Latest({s \in rs : s.from < r.from}) = {}
  \* Otherwise the row in force on the day before would be the latest of the others.
  <2>1. ASSUME NEW s \in rs, s # r PROVE FALSE
    <3>1. s.from <= r.from - 1 /\ r.from - 1 \in Int
      BY <1>1, <1>3, <1>4, <2>1
    <3>2. PICK p \in rs : A!InForce(p, r.from - 1)
      BY <3>1 DEF OneAt
    <3>3. p.from < r.from
      BY <1>1, <1>3, <3>2 DEF A!InForce
    <3>4. ASSUME NEW t \in rs, t.from < r.from, ~(t.from <= p.from) PROVE FALSE
      <4>1. A!InForce(p, t.from)
        BY <1>0, <1>1, <1>3, <3>2, <3>4 DEF A!InForce
      <4>2. t = p
        BY <1>1, <1>2, <4>1
      <4> QED BY <1>1, <3>4, <4>2
    <3>5. p \in A!Latest({t \in rs : t.from < r.from})
      BY <3>3, <3>4 DEF A!Latest
    <3> QED BY <1>6, <3>5
  <2>2. qs = {}
    BY <1>6, <2>1
  <2>3. \A d \in Int : ~\E q \in qs : A!InForce(q, d)
    BY <2>2
  <2>4. ASSUME NEW d \in Int, d < r.from PROVE A!ScheduleOn(qs, d) = A!ScheduleOn(rs, d)
    <3>1. ~\E s \in rs : A!InForce(s, d)
      BY <1>1, <2>1, <2>4 DEF A!InForce
    <3> QED BY <2>3, <3>1 DEF A!ScheduleOn
  <2> QED BY <2>2, <2>4 DEF OneAt, RowsById
<1> QED BY <1>5, <1>6 DEF Undone

-----------------------------------------------------------------------------
(* The schedule history: its inductive invariant.                          *)

HistoryJob ==
  {A!Idle}
    \cup [op : {"assign"}, id : Nat, schedule : Schedules, from : Int]
    \cup [op : {"setup"}, id : Nat, from : Int, latest : SUBSET RowType]
    \cup [op : {"unassign"}, row : RowType]
    \cup [op : {"recompute"}, from : Int]

HistoryTypes ==
  ops \in Nat /\ rows \subseteq RowType /\ jobs \in [Handlers -> HistoryJob]

Adding(h) == jobs[h].op \in {"assign", "setup"}

\* Rows, and the ones about to be added, have ids of their own.
OwnIds ==
  /\ RowsById(rows) /\ \A r \in rows : r.id <= ops
  /\ \A h \in Handlers : Adding(h) => jobs[h].id <= ops /\ \A r \in rows : r.id # jobs[h].id
  /\ \A g, h \in Handlers : Adding(g) /\ Adding(h) /\ jobs[g].id = jobs[h].id => g = h

\* What an undo has found and checked stays so until it is committed.
UndoHolds ==
  \A h \in Handlers : jobs[h].op = "unassign" =>
    /\ jobs[h].row \in A!Latest(rows) /\ NoneSwallowed(rows)
    /\ \A g \in Handlers : Adding(g) \/ jobs[g].op = "unassign" => g = h

\* A past day not computed with the schedule in force is about to be.
Followed ==
  \A d \in A!Past : d >= EarliestDate /\ record[d] # A!ScheduleOn(rows, d) =>
    \E h \in Handlers : jobs[h].op = "recompute" /\ jobs[h].from <= d

HistoryInv == HistoryTypes /\ OneAt(rows) /\ OwnIds /\ UndoHolds /\ Followed

LEMMA HistoryJobs ==
  ASSUME HistoryTypes, NEW h \in Handlers
  PROVE  /\ jobs[h] \in HistoryJob
         /\ jobs[h].op \in {"idle", "assign", "setup", "unassign", "recompute"}
         /\ jobs[h].op = "assign" =>
              jobs[h].id \in Nat /\ jobs[h].schedule \in Schedules /\ jobs[h].from \in Int
         /\ jobs[h].op = "setup" => jobs[h].id \in Nat /\ jobs[h].from \in Int
         /\ jobs[h].op = "unassign" => jobs[h].row \in RowType
         /\ jobs[h].op = "recompute" => jobs[h].from \in Int
BY DEF HistoryTypes, HistoryJob, A!Idle

LEMMA HistoryInit == InitAll => HistoryInv
<1> SUFFICES ASSUME InitAll PROVE HistoryInv
  OBVIOUS
<1>1. /\ rows \in {{}} \cup {{[id |-> 0, schedule |-> s, from |-> 1, to |-> None]} : s \in Schedules}
      /\ record = [d \in A!Past |-> A!ScheduleOn(rows, d)]
      /\ jobs = [h \in Handlers |-> A!Idle] /\ ops = 0
  BY DEF InitAll, A!Init
<1>2. HistoryTypes
  BY <1>1 DEF HistoryTypes, HistoryJob, RowType
<1>3. OneAt(rows)
  BY <1>1, HistoryAssumption DEF OneAt, A!InForce
<1>4. \A h \in Handlers : jobs[h].op = "idle"
  BY <1>1 DEF A!Idle
<1>5. OwnIds
  BY <1>1, <1>4 DEF OwnIds, RowsById, Adding
<1>6. UndoHolds
  BY <1>4 DEF UndoHolds
<1>7. Followed
  BY <1>1 DEF Followed
<1> QED BY <1>2, <1>3, <1>5, <1>6, <1>7 DEF HistoryInv

\* A change of the history is followed by the recomputation of the days it may concern.
LEMMA ChangeIsFollowed ==
  ASSUME HistoryInv, NEW h \in Handlers, jobs[h].op # "recompute", NEW from \in Int,
         jobs' = [jobs EXCEPT ![h] = [op |-> "recompute", from |-> from]],
         UNCHANGED record,
         \A d \in Int : d < from => A!ScheduleOn(rows', d) = A!ScheduleOn(rows, d)
  PROVE  Followed'
<1> SUFFICES ASSUME NEW d \in A!Past, d >= EarliestDate, record[d] # A!ScheduleOn(rows', d)
             PROVE  \E g \in Handlers : jobs'[g].op = "recompute" /\ jobs'[g].from <= d
  BY DEF Followed
<1>1. d \in Int
  BY DEF A!Past
<1>2. /\ jobs'[h].op = "recompute" /\ jobs'[h].from = from
      /\ \A g \in Handlers : g # h => jobs'[g] = jobs[g]
  BY DEF HistoryInv, HistoryTypes
<1>3. CASE from <= d
  BY <1>2, <1>3
<1>4. CASE d < from
  <2>1. record[d] # A!ScheduleOn(rows, d)
    BY <1>1, <1>4
  <2>2. PICK g \in Handlers : jobs[g].op = "recompute" /\ jobs[g].from <= d
    BY <2>1 DEF HistoryInv, Followed
  <2> QED BY <1>2, <2>2
<1> QED BY <1>1, <1>3, <1>4

\* A job that is no recomputation, before or after, makes no difference to the days.
LEMMA StaysFollowed ==
  ASSUME HistoryInv, NEW h \in Handlers, jobs[h].op # "recompute", NEW job,
         jobs' = [jobs EXCEPT ![h] = job], UNCHANGED <<record, rows>>
  PROVE  Followed'
<1>1. \A g \in Handlers : g # h => jobs'[g] = jobs[g]
  BY DEF HistoryInv, HistoryTypes
<1> QED BY <1>1 DEF HistoryInv, Followed

LEMMA AddBegins ==
  ASSUME HistoryInv, ~UnassignRaces, NEW h \in Handlers, A!AssignCheck(h) \/ A!SetupRead(h)
  PROVE  HistoryInv'
<1>1. /\ jobs[h] = A!Idle /\ ops' = ops + 1 /\ ~A!Busy("unassign") /\ UNCHANGED <<rows, record>>
  BY DEF A!AssignCheck, A!SetupRead, A!Begin
<1>2. PICK job \in HistoryJob : /\ jobs' = [jobs EXCEPT ![h] = job]
                                /\ job.op \in {"assign", "setup"} /\ job.id = ops + 1
  <2>0. ops \in Nat /\ rows \subseteq RowType
    BY DEF HistoryInv, HistoryTypes
  <2>1. CASE A!AssignCheck(h)
    <3>1. PICK s \in Schedules, from \in A!Dates :
            jobs' = [jobs EXCEPT ![h] = [op |-> "assign", id |-> ops', schedule |-> s, from |-> from]]
      BY <2>1 DEF A!AssignCheck, A!Job
    <3>2. [op |-> "assign", id |-> ops', schedule |-> s, from |-> from] \in HistoryJob
      BY <1>1, <2>0 DEF A!Dates, HistoryJob
    <3> QED BY <1>1, <3>1, <3>2
  <2>2. CASE A!SetupRead(h)
    <3>1. PICK from \in EarliestDate..LastAssigned, latest \in SUBSET rows :
            jobs' = [jobs EXCEPT ![h] = [op |-> "setup", id |-> ops', from |-> from, latest |-> latest]]
      BY <2>2 DEF A!SetupRead, A!Job, A!Latest
    <3>2. [op |-> "setup", id |-> ops', from |-> from, latest |-> latest] \in HistoryJob
      BY <1>1, <2>0 DEF HistoryJob
    <3> QED BY <1>1, <3>1, <3>2
  <2> QED BY <2>1, <2>2
<1>3. /\ jobs'[h] = job /\ \A g \in Handlers : g # h => jobs'[g] = jobs[g]
  BY <1>2 DEF HistoryInv, HistoryTypes
<1>4. HistoryTypes'
  BY <1>1, <1>2 DEF HistoryInv, HistoryTypes
<1>5. OneAt(rows')
  BY <1>1 DEF HistoryInv
<1>6. OwnIds'
  <2>1. \A g \in Handlers : g # h => (Adding(g)' <=> Adding(g))
    BY <1>3 DEF Adding
  <2>2. \A g \in Handlers : Adding(g) => jobs[g].id \in Nat /\ jobs[g].id <= ops
    BY HistoryJobs DEF HistoryInv, OwnIds, Adding
  <2>3. ops \in Nat /\ \A r \in rows : r.id \in Nat /\ r.id <= ops
    BY DEF HistoryInv, HistoryTypes, RowType, OwnIds
  <2>4. RowsById(rows') /\ \A r \in rows' : r.id <= ops'
    BY <1>1, <2>3 DEF HistoryInv, OwnIds
  <2>5. ASSUME NEW g \in Handlers, Adding(g)'
        PROVE  jobs'[g].id <= ops' /\ \A r \in rows' : r.id # jobs'[g].id
    <3>1. CASE g = h
      BY <1>1, <1>2, <1>3, <2>3, <3>1
    <3>2. CASE g # h
      BY <1>1, <1>3, <2>1, <2>2, <2>3, <2>5, <3>2 DEF HistoryInv, OwnIds
    <3> QED BY <3>1, <3>2
  <2>6. ASSUME NEW f \in Handlers, NEW g \in Handlers, Adding(f)', Adding(g)',
               jobs'[f].id = jobs'[g].id
        PROVE  f = g
    <3>1. \A e \in Handlers : e # h /\ Adding(e)' => jobs'[e].id = jobs[e].id /\ jobs[e].id # ops + 1
      BY <1>3, <2>1, <2>2, <2>3
    <3>2. jobs'[h].id = ops + 1
      BY <1>2, <1>3
    <3> QED BY <2>1, <2>6, <3>1, <3>2 DEF HistoryInv, OwnIds
  <2> QED BY <2>4, <2>5, <2>6 DEF OwnIds
<1>7. UndoHolds'
  <2>1. \A g \in Handlers : jobs[g].op # "unassign"
    BY <1>1 DEF A!Busy
  <2>2. \A g \in Handlers : jobs'[g].op # "unassign"
    BY <1>2, <1>3, <2>1
  <2> QED BY <2>2 DEF UndoHolds
<1>8. Followed'
  <2>1. jobs[h].op # "recompute"
    BY <1>1 DEF A!Idle
  <2> QED BY <1>1, <1>2, <2>1, StaysFollowed
<1> QED BY <1>4, <1>5, <1>6, <1>7, <1>8 DEF HistoryInv

\* An assignment is added, by whoever had it under way.
LEMMA AddEnds ==
  ASSUME HistoryInv, NEW h \in Handlers, Adding(h), NEW from \in Int,
         NEW s \in Schedules \cup {Company}, rows' = A!Assigned(rows, jobs[h].id, s, from),
         jobs' = [jobs EXCEPT ![h] = [op |-> "recompute", from |-> from]],
         UNCHANGED <<record, ops>>
  PROVE  HistoryInv'
<1>1. jobs[h].id \in Nat /\ jobs[h].op # "recompute"
  BY HistoryJobs DEF HistoryInv, Adding
<1>2. jobs'[h].op = "recompute" /\ \A g \in Handlers : g # h => jobs'[g] = jobs[g]
  BY DEF HistoryInv, HistoryTypes
<1>3. rows \subseteq RowType /\ OneAt(rows) /\ RowsById(rows) /\ \A r \in rows : r.id # jobs[h].id
  BY DEF HistoryInv, HistoryTypes, OwnIds
<1>4. /\ rows' \subseteq RowType /\ OneAt(rows') /\ RowsById(rows')
      /\ \A d \in Int : d < from => A!ScheduleOn(rows', d) = A!ScheduleOn(rows, d)
      /\ \A q \in rows' : q.id = jobs[h].id \/ \E r \in rows : q.id = r.id
  BY <1>1, <1>3, AssignedHistory
<1>5. HistoryTypes'
  <2>1. [op |-> "recompute", from |-> from] \in HistoryJob
    BY DEF HistoryJob
  <2> QED BY <1>4, <2>1 DEF HistoryInv, HistoryTypes
<1>6. OwnIds'
  <2>1. \A g \in Handlers : Adding(g)' => g # h /\ Adding(g) /\ jobs'[g] = jobs[g]
    BY <1>2 DEF Adding
  <2> QED BY <1>4, <2>1 DEF HistoryInv, OwnIds
<1>7. UndoHolds'
  <2>1. \A g \in Handlers : jobs[g].op # "unassign"
    BY DEF HistoryInv, UndoHolds, Adding
  <2>2. \A g \in Handlers : jobs'[g].op # "unassign"
    BY <1>2, <2>1
  <2> QED BY <2>2 DEF UndoHolds
<1>8. Followed'
  BY <1>1, <1>4, ChangeIsFollowed
<1> QED BY <1>4, <1>5, <1>6, <1>7, <1>8 DEF HistoryInv

LEMMA JobEnds ==
  ASSUME HistoryInv, NEW h \in Handlers, Adding(h), NEW job \in HistoryJob,
         job.op \in {"idle", "recompute"}, jobs' = [jobs EXCEPT ![h] = job],
         UNCHANGED <<rows, record, ops>>
  PROVE  HistoryInv'
<1>1. jobs'[h] = job /\ \A g \in Handlers : g # h => jobs'[g] = jobs[g]
  BY DEF HistoryInv, HistoryTypes
<1>2. HistoryTypes'
  BY DEF HistoryInv, HistoryTypes
<1>3. \A g \in Handlers : Adding(g)' => g # h /\ Adding(g) /\ jobs'[g] = jobs[g]
  BY <1>1 DEF Adding
<1>4. OwnIds'
  BY <1>3 DEF HistoryInv, OwnIds
<1>5. UndoHolds'
  <2>1. \A g \in Handlers : jobs[g].op # "unassign"
    BY DEF HistoryInv, UndoHolds, Adding
  <2>2. \A g \in Handlers : jobs'[g].op # "unassign"
    BY <1>1, <2>1
  <2> QED BY <2>2 DEF UndoHolds
<1>6. Followed'
  BY StaysFollowed DEF Adding
<1> QED BY <1>2, <1>4, <1>5, <1>6 DEF HistoryInv

LEMMA UndoBegins ==
  ASSUME HistoryInv, ~UnassignRaces, ~UndoSwallowed, NEW h \in Handlers, A!UnassignCheck(h)
  PROVE  HistoryInv'
<1>1. /\ jobs[h] = A!Idle /\ ops' = ops + 1 /\ UNCHANGED <<rows, record>>
      /\ ~A!Busy("assign") /\ ~A!Busy("setup") /\ ~A!Busy("unassign")
  BY DEF A!UnassignCheck, A!Begin
<1>2. PICK r \in A!Latest(rows) : /\ NoneSwallowed(rows)
                                  /\ jobs' = [jobs EXCEPT ![h] = [op |-> "unassign", row |-> r]]
  BY DEF A!UnassignCheck, A!Job, NoneSwallowed
<1>3. r \in RowType
  BY <1>2 DEF A!Latest, HistoryInv, HistoryTypes
<1>4. /\ jobs'[h] = [op |-> "unassign", row |-> r]
      /\ \A g \in Handlers : g # h => jobs'[g] = jobs[g]
  BY <1>2 DEF HistoryInv, HistoryTypes
<1>5. HistoryTypes'
  <2>1. [op |-> "unassign", row |-> r] \in HistoryJob
    BY <1>3 DEF HistoryJob
  <2> QED BY <1>1, <1>2, <2>1 DEF HistoryInv, HistoryTypes
<1>6. \A g \in Handlers : ~Adding(g) /\ jobs[g].op # "unassign"
  BY <1>1 DEF A!Busy, Adding
<1>7. \A g \in Handlers : ~Adding(g)' /\ (g # h => jobs'[g].op # "unassign")
  BY <1>4, <1>6 DEF Adding
<1>8. OwnIds'
  <2>1. \A q \in rows : q.id \in Nat /\ q.id <= ops
    BY DEF HistoryInv, HistoryTypes, RowType, OwnIds
  <2>2. ops \in Nat /\ RowsById(rows)
    BY DEF HistoryInv, HistoryTypes, OwnIds
  <2>3. \A q \in rows' : q.id <= ops'
    BY <1>1, <2>1, <2>2
  <2> QED BY <1>1, <1>7, <2>2, <2>3 DEF OwnIds
<1>9. UndoHolds'
  BY <1>1, <1>2, <1>4, <1>7 DEF UndoHolds
<1>10. Followed'
  <2>1. jobs[h].op # "recompute"
    BY <1>1 DEF A!Idle
  <2> QED BY <1>1, <1>2, <2>1, StaysFollowed
<1>11. OneAt(rows')
  BY <1>1 DEF HistoryInv
<1> QED BY <1>5, <1>8, <1>9, <1>10, <1>11 DEF HistoryInv

LEMMA UndoEnds ==
  ASSUME HistoryInv, NEW h \in Handlers, A!UnassignCommit(h)
  PROVE  HistoryInv'
<1>1. jobs[h].op = "unassign" /\ UNCHANGED <<record, ops>>
  BY DEF A!UnassignCommit
<1>2. PICK r : r = jobs[h].row
  OBVIOUS
<1>3. /\ r \in A!Latest(rows) /\ NoneSwallowed(rows)
      /\ \A g \in Handlers : Adding(g) \/ jobs[g].op = "unassign" => g = h
  BY <1>1, <1>2 DEF HistoryInv, UndoHolds
<1>4. /\ rows \subseteq RowType /\ OneAt(rows) /\ RowsById(rows)
      /\ r \in rows /\ r \in RowType /\ r.from \in Int
  BY <1>3 DEF HistoryInv, HistoryTypes, OwnIds, A!Latest, RowType
<1>5. {s \in rows : s.id = r.id} = {r}
  BY <1>4 DEF RowsById
<1>6. /\ Undone(rows, r, rows')
      /\ jobs' = [jobs EXCEPT ![h] = [op |-> "recompute", from |-> r.from]]
  <2>1. PICK earlier : earlier = A!Latest({s \in rows : s.from < r.from})
    OBVIOUS
  <2>2. /\ rows' \in IF {r} = {} THEN {rows}
                     ELSE IF earlier = {} THEN {rows \ {r}}
                     ELSE {(rows \ ({r} \cup {p})) \cup {[p EXCEPT !.to = None]} : p \in earlier}
        /\ jobs' = [jobs EXCEPT ![h] = IF {r} = {} THEN A!Idle
                                       ELSE [op |-> "recompute", from |-> r.from]]
    BY <1>2, <1>5, <2>1 DEF A!UnassignCommit, A!Job
  <2>3. CASE earlier = {}
    BY <2>1, <2>2, <2>3 DEF Undone
  <2>4. CASE earlier # {}
    <3>1. PICK p \in earlier : rows' = (rows \ ({r} \cup {p})) \cup {[p EXCEPT !.to = None]}
      BY <2>2, <2>4
    <3>2. {r} \cup {p} = {r, p}
      OBVIOUS
    <3> QED BY <2>1, <2>2, <3>1, <3>2 DEF Undone
  <2> QED BY <2>3, <2>4
<1>7. /\ rows' \subseteq RowType /\ OneAt(rows') /\ RowsById(rows')
      /\ \A d \in Int : d < r.from => A!ScheduleOn(rows', d) = A!ScheduleOn(rows, d)
      /\ \A q \in rows' : \E s \in rows : q.id = s.id
  BY <1>3, <1>4, <1>6, UndoneHistory
<1>8. jobs'[h].op = "recompute" /\ \A g \in Handlers : g # h => jobs'[g] = jobs[g]
  BY <1>6 DEF HistoryInv, HistoryTypes
<1>9. HistoryTypes'
  <2>1. [op |-> "recompute", from |-> r.from] \in HistoryJob
    BY <1>4 DEF HistoryJob
  <2> QED BY <1>1, <1>6, <1>7, <2>1 DEF HistoryInv, HistoryTypes
<1>10. \A g \in Handlers : ~Adding(g)' /\ jobs'[g].op # "unassign"
  BY <1>3, <1>8 DEF Adding
<1>11. OwnIds'
  BY <1>1, <1>7, <1>10 DEF HistoryInv, OwnIds
<1>12. UndoHolds'
  BY <1>10 DEF UndoHolds
<1>13. Followed'
  BY <1>1, <1>4, <1>6, <1>7, ChangeIsFollowed
<1> QED BY <1>7, <1>9, <1>11, <1>12, <1>13 DEF HistoryInv

LEMMA RecomputeFollows ==
  ASSUME HistoryInv, NEW h \in Handlers, A!Recompute(h)
  PROVE  HistoryInv'
<1>1. /\ jobs[h].op = "recompute" /\ UNCHANGED <<rows, ops>>
      /\ record' = [d \in A!Past |-> IF d >= jobs[h].from /\ d >= EarliestDate
                                     THEN A!ScheduleOn(rows, d) ELSE record[d]]
      /\ jobs' = [jobs EXCEPT ![h] = A!Idle]
  BY DEF A!Recompute, A!Job
<1>2. jobs'[h] = A!Idle /\ \A g \in Handlers : g # h => jobs'[g] = jobs[g]
  BY <1>1 DEF HistoryInv, HistoryTypes
<1>3. HistoryTypes'
  BY <1>1 DEF HistoryInv, HistoryTypes, HistoryJob
<1>4. \A g \in Handlers : /\ Adding(g)' => g # h /\ Adding(g)
                          /\ jobs'[g].op = "unassign" => g # h /\ jobs[g].op = "unassign"
  BY <1>2 DEF Adding, A!Idle
<1>5. OwnIds'
  BY <1>1, <1>2, <1>4 DEF HistoryInv, OwnIds
<1>6. UndoHolds'
  BY <1>1, <1>2, <1>4 DEF HistoryInv, UndoHolds
<1>7. Followed'
  <2> SUFFICES ASSUME NEW d \in A!Past, d >= EarliestDate, record'[d] # A!ScheduleOn(rows, d)
               PROVE  \E g \in Handlers : jobs'[g].op = "recompute" /\ jobs'[g].from <= d
    BY <1>1 DEF Followed
  <2>1. d \in Int /\ jobs[h].from \in Int
    BY <1>1, HistoryJobs DEF A!Past, HistoryInv
  <2>2. ~(jobs[h].from <= d) /\ record[d] # A!ScheduleOn(rows, d)
    BY <1>1, <2>1
  <2>3. PICK g \in Handlers : jobs[g].op = "recompute" /\ jobs[g].from <= d
    BY <2>2 DEF HistoryInv, Followed
  <2> QED BY <1>2, <2>2, <2>3
<1>8. OneAt(rows')
  BY <1>1 DEF HistoryInv
<1> QED BY <1>3, <1>5, <1>6, <1>7, <1>8 DEF HistoryInv

LEMMA HistoryNext ==
  ASSUME HistoryInv, ~UnassignRaces, ~UndoSwallowed, A!Next
  PROVE  HistoryInv'
<1>1. PICK h \in Handlers : A!Handle(h)
  BY DEF A!Next
<1>2. CASE A!AssignCheck(h) \/ A!SetupRead(h)
  BY <1>2, AddBegins
<1>3. CASE A!AssignCommit(h)
  <2>1. /\ Adding(h) /\ jobs[h].from \in Int /\ jobs[h].schedule \in Schedules \cup {Company}
    BY <1>3, HistoryJobs DEF A!AssignCommit, Adding, HistoryInv
  <2> QED BY <1>3, <2>1, AddEnds DEF A!AssignCommit, A!Job
<1>4. CASE A!SetupAssign(h)
  <2>1. /\ Adding(h) /\ jobs[h].from \in Int /\ UNCHANGED <<record, ops>>
    BY <1>4, HistoryJobs DEF A!SetupAssign, Adding, HistoryInv
  <2>2. PICK job \in {A!Idle, [op |-> "recompute", from |-> jobs[h].from]} :
          /\ jobs' = [jobs EXCEPT ![h] = job]
          /\ \/ rows' = rows
             \/ /\ rows' = A!Assigned(rows, jobs[h].id, Company, jobs[h].from)
                /\ job = [op |-> "recompute", from |-> jobs[h].from]
    BY <1>4 DEF A!SetupAssign, A!Job
  <2>3. job \in HistoryJob /\ job.op \in {"idle", "recompute"}
    BY <2>1, <2>2 DEF HistoryJob, A!Idle
  <2>4. CASE rows' = rows
    BY <2>1, <2>2, <2>3, <2>4, JobEnds
  <2>5. CASE /\ rows' = A!Assigned(rows, jobs[h].id, Company, jobs[h].from)
             /\ job = [op |-> "recompute", from |-> jobs[h].from]
    BY <2>1, <2>2, <2>5, AddEnds
  <2> QED BY <2>2, <2>4, <2>5
<1>5. CASE A!UnassignCheck(h)
  BY <1>5, UndoBegins
<1>6. CASE A!UnassignCommit(h)
  BY <1>6, UndoEnds
<1>7. CASE A!Recompute(h)
  BY <1>7, RecomputeFollows
<1> QED BY <1>1, <1>2, <1>3, <1>4, <1>5, <1>6, <1>7 DEF A!Handle

-----------------------------------------------------------------------------
(* The directory: its inductive invariant.                                 *)

AnyId == BiometricIds \cup {None}

DirectoryJob ==
  {D!Idle}
    \cup [op : {"save"}, at : {"commit", "find"}, e : Employees, id : AnyId, before : AnyId]
    \cup [op : {"save"}, at : {"link"}, e : Employees, pending : SUBSET Badges]
    \cup [op : {"save"}, at : {"process"}, e : Employees]
    \cup [op : {"ingest"}, at : {"store"}, p : Badges, e : Employees \cup {None}]
    \cup [op : {"ingest"}, at : {"process"}, p : Badges, e : Employees]

DirectoryTypes ==
  /\ employee \in [Employees -> [state : {"absent", "present", "deleted"}, id : AnyId]]
  /\ owner \in [Badges -> Employees \cup {None, D!Unknown}]
  /\ counted \in [Employees -> SUBSET Badges]
  /\ jobs \in [Handlers -> DirectoryJob]

\* An id is one employee's, who is there to have it.
IdsAreOwn ==
  \A e \in Employees : employee[e].id # None =>
    /\ employee[e].state = "present"
    /\ \A f \in Employees : employee[f].id = employee[e].id => f = e

\* What a job has read is still so.
Reads(job, emps, owners) ==
  /\ job.op = "save" => emps[job.e].state # "deleted"
  /\ job.op = "save" /\ job.at = "commit" => job.before = emps[job.e].id
  /\ job.op = "save" /\ job.at = "find" => job.id # None /\ job.id = emps[job.e].id
  /\ job.op = "save" /\ job.at = "link" =>
       \A p \in job.pending : owners[p] = None /\ IdOf[p] = emps[job.e].id
  /\ job.op = "ingest" /\ job.at = "store" =>
       /\ owners[job.p] = D!Unknown
       /\ job.e = None => \A e \in Employees : emps[e].id # IdOf[job.p]

\* An employee is saved, a punch ingested, by one job at a time.
OneJob(f, g) ==
  /\ f.op = "save" /\ g.op = "save" => f.e # g.e
  /\ f.op = "ingest" /\ g.op = "ingest" => f.p # g.p

JobsAgree ==
  /\ \A h \in Handlers : Reads(jobs[h], employee, owner)
  /\ \A g, h \in Handlers : g # h => OneJob(jobs[g], jobs[h])

\* Somebody is about to link a punch to its employee.
WillLink(job, e, p) ==
  job.op = "save" /\ job.e = e /\ (job.at = "find" \/ (job.at = "link" /\ p \in job.pending))

Linked ==
  \A p \in Badges, e \in Employees :
    owner[p] = None /\ employee[e].id = IdOf[p] => \E h \in Handlers : WillLink(jobs[h], e, p)

Theirs(e) == {p \in Badges : owner[p] = e}

WillCount(job, e) == job.op \in {"save", "ingest"} /\ job.at = "process" /\ job.e = e

CountedRight ==
  \A e \in Employees : counted[e] # Theirs(e) => \E h \in Handlers : WillCount(jobs[h], e)

DirectoryInv == DirectoryTypes /\ IdsAreOwn /\ JobsAgree /\ Linked /\ CountedRight

LEMMA DirectoryJobs ==
  ASSUME NEW job \in DirectoryJob
  PROVE  /\ job = D!Idle <=> job.op = "idle"
         /\ job.op \in {"idle", "save", "ingest"}
         /\ job.op = "save" => job.e \in Employees /\ job.at \in {"commit", "find", "link", "process"}
         /\ job.op = "save" /\ job.at \in {"commit", "find"} => job.id \in AnyId /\ job.before \in AnyId
         /\ job.op = "save" /\ job.at = "link" => job.pending \in SUBSET Badges
         /\ job.op = "ingest" => job.p \in Badges /\ job.at \in {"store", "process"}
         /\ job.op = "ingest" /\ job.at = "store" => job.e \in Employees \cup {None}
         /\ job.op \in {"save", "ingest"} /\ job.at = "process" => job.e \in Employees
BY DEF DirectoryJob, D!Idle

LEMMA DirectoryInit == InitAll => DirectoryInv
<1> SUFFICES ASSUME InitAll PROVE DirectoryInv
  OBVIOUS
<1>1. /\ employee = [e \in Employees |-> [state |-> "absent", id |-> None]]
      /\ owner = [p \in Badges |-> D!Unknown] /\ counted = [e \in Employees |-> {}]
      /\ jobs = [h \in Handlers |-> D!Idle]
  BY DEF InitAll, D!Init
<1>2. DirectoryTypes
  BY <1>1 DEF DirectoryTypes, DirectoryJob, AnyId
<1>3. IdsAreOwn
  BY <1>1 DEF IdsAreOwn
<1>4. JobsAgree
  BY <1>1 DEF JobsAgree, Reads, OneJob, D!Idle
<1>5. Linked
  BY <1>1, BadgeAssumption DEF Linked, AnyId
<1>6. CountedRight
  BY <1>1, BadgeAssumption DEF CountedRight, Theirs
<1> QED BY <1>2, <1>3, <1>4, <1>5, <1>6 DEF DirectoryInv

\* A job is replaced by another.
LEMMA JobReplaced ==
  ASSUME DirectoryTypes, NEW h \in Handlers, NEW job \in DirectoryJob,
         jobs' = [jobs EXCEPT ![h] = job]
  PROVE  /\ jobs' \in [Handlers -> DirectoryJob] /\ jobs'[h] = job
         /\ \A g \in Handlers : g # h => jobs'[g] = jobs[g]
BY DEF DirectoryTypes

\* A step that reads, and leaves employees, punches and counts alone.
LEMMA OnlyReads ==
  ASSUME DirectoryInv, NEW h \in Handlers, NEW job \in DirectoryJob,
         jobs' = [jobs EXCEPT ![h] = job], UNCHANGED <<employee, owner, counted>>,
         Reads(job, employee, owner),
         \A g \in Handlers : g # h => OneJob(jobs[g], job) /\ OneJob(job, jobs[g]),
         \A e \in Employees, p \in Badges :
           owner[p] = None /\ employee[e].id = IdOf[p] /\ WillLink(jobs[h], e, p) => WillLink(job, e, p),
         \A e \in Employees : WillCount(jobs[h], e) => WillCount(job, e)
  PROVE  DirectoryInv'
<1>1. /\ jobs' \in [Handlers -> DirectoryJob] /\ jobs'[h] = job
      /\ \A g \in Handlers : g # h => jobs'[g] = jobs[g]
  BY JobReplaced DEF DirectoryInv
<1>2. DirectoryTypes' /\ IdsAreOwn'
  BY <1>1 DEF DirectoryInv, DirectoryTypes, IdsAreOwn
<1>3. JobsAgree'
  <2>1. ASSUME NEW g \in Handlers PROVE Reads(jobs'[g], employee', owner')
    BY <1>1 DEF DirectoryInv, JobsAgree
  <2>2. ASSUME NEW f \in Handlers, NEW g \in Handlers, f # g PROVE OneJob(jobs'[f], jobs'[g])
    BY <1>1, <2>2 DEF DirectoryInv, JobsAgree
  <2> QED BY <2>1, <2>2 DEF JobsAgree
<1>4. Linked'
  <2> SUFFICES ASSUME NEW p \in Badges, NEW e \in Employees, owner[p] = None, employee[e].id = IdOf[p]
               PROVE  \E g \in Handlers : WillLink(jobs'[g], e, p)
    BY DEF Linked
  <2>1. PICK g \in Handlers : WillLink(jobs[g], e, p)
    BY DEF DirectoryInv, Linked
  <2> QED BY <1>1, <2>1
<1>5. CountedRight'
  <2> SUFFICES ASSUME NEW e \in Employees, counted[e] # Theirs(e)
               PROVE  \E g \in Handlers : WillCount(jobs'[g], e)
    BY DEF CountedRight, Theirs
  <2>1. PICK g \in Handlers : WillCount(jobs[g], e)
    BY DEF DirectoryInv, CountedRight
  <2> QED BY <1>1, <2>1
<1> QED BY <1>2, <1>3, <1>4, <1>5 DEF DirectoryInv

LEMMA SaveBegins ==
  ASSUME DirectoryInv, ~SaveRaces, NEW h \in Handlers, D!BeginSave(h)
  PROVE  DirectoryInv'
<1>1. jobs[h].op = "idle" /\ UNCHANGED <<employee, owner, counted>>
  BY DEF D!BeginSave, D!Idle
<1>2. PICK e \in Employees, id \in AnyId :
        /\ employee[e].state # "deleted" /\ D!Saving(e) = {}
        /\ jobs' = [jobs EXCEPT ![h] = [op |-> "save", at |-> "commit", e |-> e, id |-> id,
                                        before |-> employee[e].id]]
  BY DEF D!BeginSave, D!Job, AnyId
<1>3. PICK job : job = [op |-> "save", at |-> "commit", e |-> e, id |-> id,
                        before |-> employee[e].id]
  OBVIOUS
<1>4. job \in DirectoryJob /\ Reads(job, employee, owner)
  <2>1. employee[e].id \in AnyId
    BY DEF DirectoryInv, DirectoryTypes
  <2> QED BY <1>2, <1>3, <2>1 DEF DirectoryJob, Reads
<1>5. \A g \in Handlers : ~(jobs[g].op = "save" /\ jobs[g].e = e)
  BY <1>2 DEF D!Saving
<1>6. \A g \in Handlers : g # h => OneJob(jobs[g], job) /\ OneJob(job, jobs[g])
  BY <1>3, <1>5 DEF OneJob
<1>7. \A f \in Employees, p \in Badges :
        owner[p] = None /\ employee[f].id = IdOf[p] /\ WillLink(jobs[h], f, p) => WillLink(job, f, p)
  BY <1>1 DEF WillLink
<1>8. \A f \in Employees : WillCount(jobs[h], f) => WillCount(job, f)
  BY <1>1 DEF WillCount
<1> QED BY <1>1, <1>2, <1>3, <1>4, <1>6, <1>7, <1>8, OnlyReads

LEMMA IngestBegins ==
  ASSUME DirectoryInv, NEW h \in Handlers, D!BeginIngest(h)
  PROVE  DirectoryInv'
<1>1. jobs[h].op = "idle" /\ UNCHANGED <<employee, owner, counted>>
  BY DEF D!BeginIngest, D!Idle
<1>2. PICK p \in Badges :
        /\ owner[p] = D!Unknown
        /\ \A g \in Handlers : jobs[g].op = "ingest" => jobs[g].p # p
        /\ jobs' = [jobs EXCEPT ![h] = [op |-> "ingest", at |-> "store", p |-> p,
                                        e |-> D!HolderOf(IdOf[p])]]
  BY DEF D!BeginIngest, D!Job, D!Stored
<1>3. PICK e : e = D!HolderOf(IdOf[p])
  OBVIOUS
<1>4. /\ e \in Employees \cup {None}
      /\ e = None => \A f \in Employees : employee[f].id # IdOf[p]
  <2>1. IdOf[p] # None /\ None \notin Employees
    BY BadgeAssumption
  <2>2. CASE \E f \in Employees : D!Present(f) /\ employee[f].id = IdOf[p]
    <3>1. D!HolderOf(IdOf[p]) \in Employees
      BY <2>2 DEF D!HolderOf
    <3> QED BY <1>3, <2>1, <3>1
  <2>3. CASE ~\E f \in Employees : D!Present(f) /\ employee[f].id = IdOf[p]
    <3>1. e = None
      BY <1>3, <2>3 DEF D!HolderOf
    <3>2. \A f \in Employees : employee[f].id # IdOf[p]
      BY <2>1, <2>3 DEF DirectoryInv, IdsAreOwn, D!Present
    <3> QED BY <3>1, <3>2
  <2> QED BY <2>2, <2>3
<1>5. PICK job : job = [op |-> "ingest", at |-> "store", p |-> p, e |-> e]
  OBVIOUS
<1>6. job \in DirectoryJob /\ Reads(job, employee, owner)
  BY <1>2, <1>4, <1>5 DEF DirectoryJob, Reads
<1>7. \A g \in Handlers : g # h => OneJob(jobs[g], job) /\ OneJob(job, jobs[g])
  BY <1>2, <1>5 DEF OneJob
<1>8. \A f \in Employees, q \in Badges :
        owner[q] = None /\ employee[f].id = IdOf[q] /\ WillLink(jobs[h], f, q) => WillLink(job, f, q)
  BY <1>1 DEF WillLink
<1>9. \A f \in Employees : WillCount(jobs[h], f) => WillCount(job, f)
  BY <1>1 DEF WillCount
<1>10. jobs' = [jobs EXCEPT ![h] = job]
  BY <1>2, <1>3, <1>5
<1> QED BY <1>1, <1>6, <1>7, <1>8, <1>9, <1>10, OnlyReads

LEMMA UnmatchedFound ==
  ASSUME DirectoryInv, NEW h \in Handlers, D!FindUnmatched(h)
  PROVE  DirectoryInv'
<1>1. /\ jobs[h].op = "save" /\ jobs[h].at = "find" /\ UNCHANGED <<employee, owner, counted>>
  BY DEF D!FindUnmatched
<1>2. PICK e, pending : e = jobs[h].e /\ pending = {p \in Badges : owner[p] = None /\ IdOf[p] = jobs[h].id}
  OBVIOUS
<1>3. PICK job : job = IF pending = {} THEN D!Idle
                       ELSE [op |-> "save", at |-> "link", e |-> e, pending |-> pending]
  OBVIOUS
<1>4. jobs' = [jobs EXCEPT ![h] = job]
  BY <1>2, <1>3 DEF D!FindUnmatched, D!Job
<1>5. /\ e \in Employees /\ jobs[h].id = employee[e].id /\ employee[e].state # "deleted"
      /\ \A g \in Handlers : g # h => OneJob(jobs[g], jobs[h]) /\ OneJob(jobs[h], jobs[g])
  <2>1. jobs[h] \in DirectoryJob /\ Reads(jobs[h], employee, owner)
    BY DEF DirectoryInv, DirectoryTypes, JobsAgree
  <2>2. \A g \in Handlers : g # h => OneJob(jobs[g], jobs[h]) /\ OneJob(jobs[h], jobs[g])
    BY DEF DirectoryInv, JobsAgree
  <2> QED BY <1>1, <1>2, <2>1, <2>2, DirectoryJobs DEF Reads
<1>6. job \in DirectoryJob /\ Reads(job, employee, owner)
  <2>1. CASE pending = {}
    BY <1>3, <2>1 DEF DirectoryJob, Reads, D!Idle
  <2>2. CASE pending # {}
    <3>1. job = [op |-> "save", at |-> "link", e |-> e, pending |-> pending]
      BY <1>3, <2>2
    <3>2. pending \in SUBSET Badges /\ \A p \in pending : owner[p] = None /\ IdOf[p] = employee[e].id
      BY <1>2, <1>5
    <3> QED BY <1>5, <3>1, <3>2 DEF DirectoryJob, Reads
  <2> QED BY <2>1, <2>2
<1>7. job.op # "ingest" /\ (job.op = "save" => job.e = e)
  BY <1>3 DEF D!Idle
<1>8. \A g \in Handlers : g # h => OneJob(jobs[g], job) /\ OneJob(job, jobs[g])
  BY <1>1, <1>2, <1>5, <1>7 DEF OneJob
<1>9. ASSUME NEW f \in Employees, NEW p \in Badges, owner[p] = None, employee[f].id = IdOf[p],
             WillLink(jobs[h], f, p)
      PROVE  WillLink(job, f, p)
  <2>1. f = e
    BY <1>2, <1>9 DEF WillLink
  <2>2. p \in pending
    BY <1>2, <1>5, <1>9, <2>1
  <2> QED BY <1>3, <2>1, <2>2 DEF WillLink
<1>10. \A f \in Employees : WillCount(jobs[h], f) => WillCount(job, f)
  BY <1>1 DEF WillCount
<1>11. \A f \in Employees, p \in Badges :
         owner[p] = None /\ employee[f].id = IdOf[p] /\ WillLink(jobs[h], f, p) => WillLink(job, f, p)
  BY <1>9
<1> QED BY <1>1, <1>4, <1>6, <1>8, <1>10, <1>11, OnlyReads

LEMMA SaveCommits ==
  ASSUME DirectoryInv, ~IngestRaces, NEW h \in Handlers, D!CommitSave(h)
  PROVE  DirectoryInv'
<1>1. /\ jobs[h].op = "save" /\ jobs[h].at = "commit" /\ UNCHANGED <<owner, counted>>
      /\ \A g \in Handlers : jobs[g].op # "ingest"
  BY DEF D!CommitSave
<1>2. PICK e, id : e = jobs[h].e /\ id = jobs[h].id
  OBVIOUS
<1>3. /\ jobs[h] \in DirectoryJob /\ Reads(jobs[h], employee, owner)
      /\ \A g \in Handlers : g # h => OneJob(jobs[g], jobs[h]) /\ OneJob(jobs[h], jobs[g])
  BY DEF DirectoryInv, DirectoryTypes, JobsAgree
<1>4. /\ e \in Employees /\ id \in AnyId /\ jobs[h].before = employee[e].id
      /\ employee[e].state # "deleted"
  BY <1>1, <1>2, <1>3, DirectoryJobs DEF Reads
<1>5. CASE id # None /\ \E f \in Employees \ {e} : employee[f].id = id
  <2>1. jobs' = [jobs EXCEPT ![h] = D!Idle] /\ employee' = employee
    BY <1>2, <1>5 DEF D!CommitSave, D!Job
  <2>2. /\ D!Idle \in DirectoryJob /\ Reads(D!Idle, employee, owner)
        /\ \A g \in Handlers : g # h => OneJob(jobs[g], D!Idle) /\ OneJob(D!Idle, jobs[g])
    BY DEF DirectoryJob, Reads, OneJob, D!Idle
  <2>3. /\ \A f \in Employees, p \in Badges :
             owner[p] = None /\ employee[f].id = IdOf[p] /\ WillLink(jobs[h], f, p)
               => WillLink(D!Idle, f, p)
        /\ \A f \in Employees : WillCount(jobs[h], f) => WillCount(D!Idle, f)
    BY <1>1 DEF WillLink, WillCount
  <2> QED BY <1>1, <2>1, <2>2, <2>3, OnlyReads
<1>6. CASE ~(id # None /\ \E f \in Employees \ {e} : employee[f].id = id)
  <2>1. PICK job : job = IF id # None /\ id # jobs[h].before THEN [jobs[h] EXCEPT !.at = "find"]
                         ELSE D!Idle
    OBVIOUS
  <2>2. /\ employee' = [employee EXCEPT ![e].id = id,
                            ![e].state = IF @ = "absent" THEN "present" ELSE @]
        /\ jobs' = [jobs EXCEPT ![h] = job]
    BY <1>2, <1>6, <2>1 DEF D!CommitSave, D!Job
  <2>3. /\ employee' \in [Employees -> [state : {"absent", "present", "deleted"}, id : AnyId]]
        /\ employee'[e].id = id /\ employee'[e].state = "present"
        /\ \A f \in Employees : f # e => employee'[f] = employee[f]
    BY <1>4, <2>2 DEF DirectoryInv, DirectoryTypes
  <2>4. /\ job \in DirectoryJob /\ Reads(job, employee', owner)
        /\ job.op \in {"idle", "save"} /\ (job.op = "save" => job.e = e)
        /\ ~(job.op = "save" /\ job.at = "process")
    <3>1. CASE id # None /\ id # jobs[h].before
      <4>1. PICK b : b = jobs[h].before
        OBVIOUS
      <4>2. job = [op |-> "save", at |-> "find", e |-> e, id |-> id, before |-> b] /\ b \in AnyId
        <5>1. jobs[h] \in [op : {"save"}, at : {"commit", "find"}, e : Employees, id : AnyId, before : AnyId]
          BY <1>1, <1>3 DEF DirectoryJob, D!Idle
        <5> QED BY <1>1, <1>2, <2>1, <3>1, <4>1, <5>1
      <4> QED BY <1>4, <2>3, <3>1, <4>2 DEF DirectoryJob, Reads
    <3>2. CASE ~(id # None /\ id # jobs[h].before)
      <4>1. job = D!Idle
        BY <2>1, <3>2
      <4> QED BY <4>1 DEF DirectoryJob, Reads, D!Idle
    <3> QED BY <3>1, <3>2
  <2>5. /\ jobs' \in [Handlers -> DirectoryJob] /\ jobs'[h] = job
        /\ \A g \in Handlers : g # h => jobs'[g] = jobs[g]
    BY <2>2, <2>4, JobReplaced DEF DirectoryInv
  <2>6. DirectoryTypes'
    BY <1>1, <2>3, <2>5 DEF DirectoryInv, DirectoryTypes
  <2>7. IdsAreOwn'
    <3> SUFFICES ASSUME NEW f \in Employees, employee'[f].id # None
                 PROVE  /\ employee'[f].state = "present"
                        /\ \A g \in Employees : employee'[g].id = employee'[f].id => g = f
      BY DEF IdsAreOwn
    <3>1. CASE f = e
      BY <1>6, <2>3, <3>1
    <3>2. CASE f # e
      BY <1>6, <2>3, <3>2 DEF DirectoryInv, IdsAreOwn
    <3> QED BY <3>1, <3>2
  <2>8. ASSUME NEW g \in Handlers PROVE Reads(jobs'[g], employee', owner')
    <3>1. CASE g = h
      BY <1>1, <2>4, <2>5, <3>1
    <3>2. CASE g # h
      <4>1. /\ jobs[g] \in DirectoryJob /\ Reads(jobs[g], employee, owner)
            /\ jobs[g].op # "ingest" /\ jobs'[g] = jobs[g]
        BY <1>1, <2>5, <3>2 DEF DirectoryInv, DirectoryTypes, JobsAgree
      <4>2. jobs[g].op = "save" => jobs[g].e \in Employees /\ jobs[g].e # e
        BY <1>1, <1>2, <1>3, <3>2, <4>1, DirectoryJobs DEF OneJob
      <4>3. jobs[g].op = "save" => employee'[jobs[g].e] = employee[jobs[g].e]
        BY <2>3, <4>2
      <4> QED BY <1>1, <4>1, <4>3 DEF Reads
    <3> QED BY <3>1, <3>2
  <2>9. ASSUME NEW f \in Handlers, NEW g \in Handlers, f # g PROVE OneJob(jobs'[f], jobs'[g])
    <3>1. CASE f # h /\ g # h
      BY <2>5, <2>9, <3>1 DEF DirectoryInv, JobsAgree
    <3>2. CASE f = h
      BY <1>1, <1>2, <1>3, <2>4, <2>5, <2>9, <3>2 DEF OneJob
    <3>3. CASE g = h
      BY <1>1, <1>2, <1>3, <2>4, <2>5, <2>9, <3>3 DEF OneJob
    <3> QED BY <3>1, <3>2, <3>3
  <2>10. Linked'
    <3> SUFFICES ASSUME NEW p \in Badges, NEW f \in Employees, owner[p] = None,
                        employee'[f].id = IdOf[p]
                 PROVE  \E g \in Handlers : WillLink(jobs'[g], f, p)
      BY <1>1 DEF Linked
    <3>1. CASE employee[f].id = IdOf[p]
      <4>1. PICK g \in Handlers : WillLink(jobs[g], f, p)
        BY <3>1 DEF DirectoryInv, Linked
      <4>2. g # h
        BY <1>1, <4>1 DEF WillLink
      <4> QED BY <2>5, <4>1, <4>2
    <3>2. CASE employee[f].id # IdOf[p]
      <4>1. f = e /\ id = IdOf[p] /\ id # jobs[h].before /\ id # None
        BY <1>4, <2>3, <3>2, BadgeAssumption DEF AnyId
      <4>2. job = [jobs[h] EXCEPT !.at = "find"]
        BY <2>1, <4>1
      <4>3. WillLink(job, f, p)
        <5>1. jobs[h] \in [op : {"save"}, at : {"commit", "find"}, e : Employees, id : AnyId, before : AnyId]
          BY <1>1, <1>3 DEF DirectoryJob, D!Idle
        <5>2. job.op = "save" /\ job.at = "find" /\ job.e = e
          BY <1>1, <1>2, <4>2, <5>1
        <5>3. WillLink(job, e, p)
          BY <5>2 DEF WillLink
        <5>4. f = e
          BY <4>1
        <5> QED BY <5>3, <5>4
      <4> QED BY <2>5, <4>3
    <3> QED BY <3>1, <3>2
  <2>11. CountedRight'
    <3> SUFFICES ASSUME NEW f \in Employees, counted[f] # Theirs(f)
                 PROVE  \E g \in Handlers : WillCount(jobs'[g], f)
      BY <1>1 DEF CountedRight, Theirs
    <3>1. PICK g \in Handlers : WillCount(jobs[g], f)
      BY DEF DirectoryInv, CountedRight
    <3>2. g # h
      BY <1>1, <3>1 DEF WillCount
    <3> QED BY <2>5, <3>1, <3>2
  <2> QED BY <2>6, <2>7, <2>8, <2>9, <2>10, <2>11 DEF DirectoryInv, JobsAgree
<1> QED BY <1>5, <1>6

\* Punches get an owner, or their days are computed, or neither.
LEMMA PunchesChange ==
  ASSUME DirectoryInv, NEW h \in Handlers, NEW job \in DirectoryJob,
         jobs' = [jobs EXCEPT ![h] = job], UNCHANGED employee,
         owner' \in [Badges -> Employees \cup {None, D!Unknown}],
         counted' \in [Employees -> SUBSET Badges],
         \A g \in Handlers : g # h => OneJob(jobs[g], job) /\ OneJob(job, jobs[g]),
         Reads(job, employee, owner'),
         \A g \in Handlers : g # h => Reads(jobs[g], employee, owner'),
         \A p \in Badges, e \in Employees :
           owner'[p] = None /\ employee[e].id = IdOf[p] =>
             owner[p] = None /\ (WillLink(jobs[h], e, p) => WillLink(job, e, p)),
         \A e \in Employees :
           \/ counted'[e] = Theirs(e)'
           \/ WillCount(job, e)
           \/ counted[e] # Theirs(e) /\ ~WillCount(jobs[h], e)
  PROVE  DirectoryInv'
<1>1. /\ jobs' \in [Handlers -> DirectoryJob] /\ jobs'[h] = job
      /\ \A g \in Handlers : g # h => jobs'[g] = jobs[g]
  BY JobReplaced DEF DirectoryInv
<1>2. DirectoryTypes' /\ IdsAreOwn'
  BY <1>1 DEF DirectoryInv, DirectoryTypes, IdsAreOwn
<1>3. JobsAgree'
  <2>1. ASSUME NEW g \in Handlers PROVE Reads(jobs'[g], employee', owner')
    BY <1>1
  <2>2. ASSUME NEW f \in Handlers, NEW g \in Handlers, f # g PROVE OneJob(jobs'[f], jobs'[g])
    BY <1>1, <2>2 DEF DirectoryInv, JobsAgree
  <2> QED BY <2>1, <2>2 DEF JobsAgree
<1>4. Linked'
  <2> SUFFICES ASSUME NEW p \in Badges, NEW e \in Employees, owner'[p] = None, employee[e].id = IdOf[p]
               PROVE  \E g \in Handlers : WillLink(jobs'[g], e, p)
    BY DEF Linked
  <2>1. owner[p] = None
    OBVIOUS
  <2>2. PICK g \in Handlers : WillLink(jobs[g], e, p)
    BY <2>1 DEF DirectoryInv, Linked
  <2> QED BY <1>1, <2>2
<1>5. CountedRight'
  <2> SUFFICES ASSUME NEW e \in Employees, counted'[e] # Theirs(e)'
               PROVE  \E g \in Handlers : WillCount(jobs'[g], e)
    BY DEF CountedRight
  <2>1. CASE WillCount(job, e)
    BY <1>1, <2>1
  <2>2. CASE counted[e] # Theirs(e) /\ ~WillCount(jobs[h], e)
    <3>1. PICK g \in Handlers : WillCount(jobs[g], e)
      BY <2>2 DEF DirectoryInv, CountedRight
    <3>2. g # h
      BY <2>2, <3>1
    <3> QED BY <1>1, <3>1, <3>2
  <2> QED BY <2>1, <2>2
<1> QED BY <1>2, <1>3, <1>4, <1>5 DEF DirectoryInv

LEMMA IngestStores ==
  ASSUME DirectoryInv, NEW h \in Handlers, D!StorePunch(h)
  PROVE  DirectoryInv'
<1>1. jobs[h].op = "ingest" /\ jobs[h].at = "store" /\ UNCHANGED <<employee, counted>>
  BY DEF D!StorePunch
<1>2. PICK p, e : p = jobs[h].p /\ e = jobs[h].e
  OBVIOUS
<1>3. /\ jobs[h] \in DirectoryJob /\ Reads(jobs[h], employee, owner)
      /\ \A g \in Handlers : g # h => OneJob(jobs[g], jobs[h]) /\ OneJob(jobs[h], jobs[g])
  BY DEF DirectoryInv, DirectoryTypes, JobsAgree
<1>4. /\ p \in Badges /\ e \in Employees \cup {None} /\ owner[p] = D!Unknown
      /\ e = None => \A f \in Employees : employee[f].id # IdOf[p]
  BY <1>1, <1>2, <1>3, DirectoryJobs DEF Reads
<1>5. PICK job : job = IF e = None THEN D!Idle
                       ELSE [op |-> "ingest", at |-> "process", p |-> p, e |-> e]
  OBVIOUS
<1>6. jobs' = [jobs EXCEPT ![h] = job] /\ owner' = [owner EXCEPT ![p] = e]
  <2>1. jobs[h] \in [op : {"ingest"}, at : {"store"}, p : Badges, e : Employees \cup {None}]
    BY <1>1, <1>3 DEF DirectoryJob, D!Idle
  <2>2. [jobs[h] EXCEPT !.at = "process"] = [op |-> "ingest", at |-> "process", p |-> p, e |-> e]
    BY <1>2, <2>1
  <2> QED BY <1>2, <1>5, <2>2 DEF D!StorePunch, D!Job
<1>7. /\ owner' \in [Badges -> Employees \cup {None, D!Unknown}]
      /\ owner'[p] = e /\ \A q \in Badges : q # p => owner'[q] = owner[q]
  BY <1>4, <1>6 DEF DirectoryInv, DirectoryTypes
<1>8. job \in DirectoryJob /\ job.op \in {"idle", "ingest"} /\ (job.op = "ingest" => job.p = p)
  BY <1>4, <1>5 DEF DirectoryJob, D!Idle
<1>9. Reads(job, employee, owner')
  BY <1>5 DEF Reads, D!Idle
<1>10. \A g \in Handlers : g # h => OneJob(jobs[g], job) /\ OneJob(job, jobs[g])
  BY <1>1, <1>2, <1>3, <1>8 DEF OneJob
<1>11. D!Unknown # None
  BY BadgeAssumption
<1>12. ASSUME NEW g \in Handlers, g # h PROVE Reads(jobs[g], employee, owner')
  <2>1. jobs[g] \in DirectoryJob /\ Reads(jobs[g], employee, owner)
    BY DEF DirectoryInv, DirectoryTypes, JobsAgree
  <2>2. jobs[g].op = "save" /\ jobs[g].at = "link" =>
          \A q \in jobs[g].pending : q \in Badges /\ q # p
    BY <1>4, <1>11, <2>1, DirectoryJobs DEF Reads
  <2>3. jobs[g].op = "ingest" => jobs[g].p \in Badges /\ jobs[g].p # p
    BY <1>1, <1>2, <1>3, <1>12, <2>1, DirectoryJobs DEF OneJob
  <2> QED BY <1>7, <2>1, <2>2, <2>3 DEF Reads
<1>13. \A q \in Badges, f \in Employees :
         owner'[q] = None /\ employee[f].id = IdOf[q] =>
           owner[q] = None /\ (WillLink(jobs[h], f, q) => WillLink(job, f, q))
  <2>1. \A q, f : ~WillLink(jobs[h], f, q)
    BY <1>1 DEF WillLink
  <2>2. \A q \in Badges, f \in Employees :
          owner'[q] = None /\ employee[f].id = IdOf[q] => q # p /\ owner[q] = None
    BY <1>4, <1>7
  <2> QED BY <2>1, <2>2
<1>14. ASSUME NEW f \in Employees
       PROVE  \/ counted'[f] = Theirs(f)'
              \/ WillCount(job, f)
              \/ counted[f] # Theirs(f) /\ ~WillCount(jobs[h], f)
  <2>1. ~WillCount(jobs[h], f)
    BY <1>1 DEF WillCount
  <2>2. CASE f = e
    <3>1. e # None
      BY <2>2, BadgeAssumption
    <3> QED BY <1>5, <2>2, <3>1 DEF WillCount
  <2>3. CASE f # e
    <3>1. Theirs(f)' = Theirs(f)
      <4>1. f # D!Unknown
        BY BadgeAssumption
      <4>2. \A q \in Badges : owner'[q] = f <=> owner[q] = f
        BY <1>4, <1>7, <2>3, <4>1
      <4> QED BY <4>2 DEF Theirs
    <3> QED BY <1>1, <2>1, <3>1
  <2> QED BY <2>2, <2>3
<1>15. counted' \in [Employees -> SUBSET Badges]
  BY <1>1 DEF DirectoryInv, DirectoryTypes
<1> QED BY <1>1, <1>6, <1>7, <1>8, <1>9, <1>10, <1>12, <1>13, <1>14, <1>15, PunchesChange

LEMMA PunchesLinked ==
  ASSUME DirectoryInv, NEW h \in Handlers, D!LinkPunches(h)
  PROVE  DirectoryInv'
<1>1. jobs[h].op = "save" /\ jobs[h].at = "link" /\ UNCHANGED <<employee, counted>>
  BY DEF D!LinkPunches
<1>2. PICK e, pending : e = jobs[h].e /\ pending = jobs[h].pending
  OBVIOUS
<1>3. /\ jobs[h] \in DirectoryJob /\ Reads(jobs[h], employee, owner)
      /\ \A g \in Handlers : g # h => OneJob(jobs[g], jobs[h]) /\ OneJob(jobs[h], jobs[g])
  BY DEF DirectoryInv, DirectoryTypes, JobsAgree
<1>4. /\ e \in Employees /\ pending \in SUBSET Badges /\ employee[e].state # "deleted"
      /\ \A p \in pending : owner[p] = None /\ IdOf[p] = employee[e].id
  BY <1>1, <1>2, <1>3, DirectoryJobs DEF Reads
<1>5. PICK job : job = [op |-> "save", at |-> "process", e |-> e]
  OBVIOUS
<1>6. /\ jobs' = [jobs EXCEPT ![h] = job]
      /\ owner' = [p \in Badges |-> IF p \in pending THEN e ELSE owner[p]]
  BY <1>2, <1>5 DEF D!LinkPunches, D!Job
<1>7. owner' \in [Badges -> Employees \cup {None, D!Unknown}]
  BY <1>4, <1>6 DEF DirectoryInv, DirectoryTypes
<1>8. job \in DirectoryJob /\ Reads(job, employee, owner')
  BY <1>4, <1>5 DEF DirectoryJob, Reads
<1>9. \A g \in Handlers : g # h => OneJob(jobs[g], job) /\ OneJob(job, jobs[g])
  BY <1>1, <1>2, <1>3, <1>5 DEF OneJob
<1>10. None \notin Employees /\ D!Unknown \notin Employees \cup {None}
  BY BadgeAssumption
<1>11. ASSUME NEW g \in Handlers, g # h PROVE Reads(jobs[g], employee, owner')
  <2>1. jobs[g] \in DirectoryJob /\ Reads(jobs[g], employee, owner)
    BY DEF DirectoryInv, DirectoryTypes, JobsAgree
  <2>2. CASE jobs[g].op = "save" /\ jobs[g].at = "link"
    <3>1. jobs[g].e # e /\ jobs[g].e \in Employees /\ jobs[g].pending \in SUBSET Badges
      BY <1>1, <1>2, <1>3, <1>11, <2>1, <2>2, DirectoryJobs DEF OneJob
    <3>2. \A p \in jobs[g].pending : owner[p] = None /\ IdOf[p] = employee[jobs[g].e].id
      BY <2>1, <2>2 DEF Reads
    <3>3. ASSUME NEW p \in jobs[g].pending PROVE p \notin pending
      <4>1. IdOf[p] # None /\ IdOf[p] = employee[jobs[g].e].id
        BY <3>1, <3>2, BadgeAssumption
      <4>2. employee[e].id # IdOf[p]
        BY <1>4, <3>1, <4>1 DEF DirectoryInv, IdsAreOwn
      <4> QED BY <1>4, <4>2
    <3> QED BY <1>6, <2>1, <2>2, <3>1, <3>2, <3>3 DEF Reads
  <2>3. CASE jobs[g].op = "ingest"
    <3>1. jobs[g].p \in Badges
      BY <2>1, <2>3, DirectoryJobs
    <3>2. jobs[g].at = "store" => owner'[jobs[g].p] = D!Unknown
      BY <1>4, <1>6, <1>10, <2>1, <2>3, <3>1 DEF Reads
    <3> QED BY <2>1, <2>3, <3>2 DEF Reads
  <2>4. CASE ~(jobs[g].op = "save" /\ jobs[g].at = "link") /\ jobs[g].op # "ingest"
    BY <2>1, <2>4 DEF Reads
  <2> QED BY <2>2, <2>3, <2>4
<1>12. \A p \in Badges, f \in Employees :
         owner'[p] = None /\ employee[f].id = IdOf[p] =>
           owner[p] = None /\ (WillLink(jobs[h], f, p) => WillLink(job, f, p))
  <2> SUFFICES ASSUME NEW p \in Badges, NEW f \in Employees, owner'[p] = None
               PROVE  owner[p] = None /\ ~WillLink(jobs[h], f, p)
    OBVIOUS
  <2>1. p \notin pending /\ owner[p] = None
    BY <1>4, <1>6, <1>10
  <2> QED BY <1>1, <1>2, <2>1 DEF WillLink
<1>13. ASSUME NEW f \in Employees
       PROVE  \/ counted'[f] = Theirs(f)'
              \/ WillCount(job, f)
              \/ counted[f] # Theirs(f) /\ ~WillCount(jobs[h], f)
  <2>1. ~WillCount(jobs[h], f)
    BY <1>1 DEF WillCount
  <2>2. CASE f = e
    BY <1>5, <2>2 DEF WillCount
  <2>3. CASE f # e
    <3>1. \A p \in Badges : owner'[p] = f <=> owner[p] = f
      BY <1>4, <1>6, <1>10, <2>3
    <3>2. Theirs(f)' = Theirs(f)
      BY <3>1 DEF Theirs
    <3> QED BY <1>1, <2>1, <3>2
  <2> QED BY <2>2, <2>3
<1>14. counted' \in [Employees -> SUBSET Badges]
  BY <1>1 DEF DirectoryInv, DirectoryTypes
<1> QED BY <1>1, <1>6, <1>7, <1>8, <1>9, <1>11, <1>12, <1>13, <1>14, PunchesChange

LEMMA PunchesCounted ==
  ASSUME DirectoryInv, NEW h \in Handlers, D!ProcessPunches(h)
  PROVE  DirectoryInv'
<1>1. /\ jobs[h].op \in {"save", "ingest"} /\ jobs[h].at = "process"
      /\ UNCHANGED <<employee, owner>> /\ jobs' = [jobs EXCEPT ![h] = D!Idle]
  BY DEF D!ProcessPunches, D!Job
<1>2. PICK e : e = jobs[h].e
  OBVIOUS
<1>3. counted' = [counted EXCEPT ![e] = Theirs(e)]
  BY <1>1, <1>2 DEF D!ProcessPunches, D!Reprocessed, Theirs
<1>4. owner' \in [Badges -> Employees \cup {None, D!Unknown}] /\ D!Idle \in DirectoryJob
  BY <1>1 DEF DirectoryInv, DirectoryTypes, DirectoryJob
<1>5. /\ Reads(D!Idle, employee, owner')
      /\ \A g \in Handlers : g # h => OneJob(jobs[g], D!Idle) /\ OneJob(D!Idle, jobs[g])
  BY DEF Reads, OneJob, D!Idle
<1>6. \A g \in Handlers : g # h => Reads(jobs[g], employee, owner')
  BY <1>1 DEF DirectoryInv, JobsAgree
<1>7. \A p \in Badges, f \in Employees :
        owner'[p] = None /\ employee[f].id = IdOf[p] =>
          owner[p] = None /\ (WillLink(jobs[h], f, p) => WillLink(D!Idle, f, p))
  BY <1>1 DEF WillLink
<1>8. ASSUME NEW f \in Employees
      PROVE  \/ counted'[f] = Theirs(f)'
             \/ WillCount(D!Idle, f)
             \/ counted[f] # Theirs(f) /\ ~WillCount(jobs[h], f)
  <2>1. Theirs(f)' = Theirs(f)
    BY <1>1 DEF Theirs
  <2>2. counted \in [Employees -> SUBSET Badges]
    BY DEF DirectoryInv, DirectoryTypes
  <2>3. CASE f = e
    BY <1>3, <2>1, <2>2, <2>3
  <2>4. CASE f # e
    BY <1>2, <1>3, <2>1, <2>2, <2>4 DEF WillCount
  <2> QED BY <2>3, <2>4
<1>9. counted' \in [Employees -> SUBSET Badges]
  BY <1>3 DEF DirectoryInv, DirectoryTypes, Theirs
<1> QED BY <1>1, <1>4, <1>5, <1>6, <1>7, <1>8, <1>9, PunchesChange

LEMMA EmployeeRemoved ==
  ASSUME DirectoryInv, ~SaveRaces, NEW e \in Employees, D!Remove(e)
  PROVE  DirectoryInv'
<1>1. /\ employee' = [employee EXCEPT ![e] = [state |-> "deleted", id |-> None]]
      /\ UNCHANGED <<owner, counted, jobs>>
      /\ \A g \in Handlers : ~(jobs[g].op = "save" /\ jobs[g].e = e)
  BY DEF D!Remove, D!Saving
<1>2. /\ employee' \in [Employees -> [state : {"absent", "present", "deleted"}, id : AnyId]]
      /\ employee'[e].id = None /\ \A f \in Employees : f # e => employee'[f] = employee[f]
  BY <1>1 DEF DirectoryInv, DirectoryTypes, AnyId
<1>3. DirectoryTypes'
  BY <1>1, <1>2 DEF DirectoryInv, DirectoryTypes
<1>4. IdsAreOwn'
  BY <1>2 DEF DirectoryInv, IdsAreOwn
<1>5. JobsAgree'
  <2>1. ASSUME NEW g \in Handlers PROVE Reads(jobs[g], employee', owner)
    <3>1. jobs[g] \in DirectoryJob /\ Reads(jobs[g], employee, owner)
      BY DEF DirectoryInv, DirectoryTypes, JobsAgree
    <3>2. jobs[g].op = "save" => employee'[jobs[g].e] = employee[jobs[g].e]
      BY <1>1, <1>2, <3>1, DirectoryJobs
    <3>3. jobs[g].op = "ingest" /\ jobs[g].at = "store" => IdOf[jobs[g].p] # None
      BY <3>1, DirectoryJobs, BadgeAssumption
    <3> QED BY <1>2, <3>1, <3>2, <3>3 DEF Reads
  <2> QED BY <1>1, <2>1 DEF DirectoryInv, JobsAgree
<1>6. Linked'
  <2> SUFFICES ASSUME NEW p \in Badges, NEW f \in Employees, owner[p] = None, employee'[f].id = IdOf[p]
               PROVE  \E g \in Handlers : WillLink(jobs[g], f, p)
    BY <1>1 DEF Linked
  <2>1. employee[f].id = IdOf[p]
    BY <1>2, BadgeAssumption
  <2> QED BY <2>1 DEF DirectoryInv, Linked
<1>7. CountedRight'
  BY <1>1 DEF DirectoryInv, CountedRight, Theirs
<1> QED BY <1>3, <1>4, <1>5, <1>6, <1>7 DEF DirectoryInv

LEMMA DirectoryNext ==
  ASSUME DirectoryInv, ~IngestRaces, ~SaveRaces, D!Next
  PROVE  DirectoryInv'
BY SaveBegins, SaveCommits, UnmatchedFound, PunchesLinked, PunchesCounted, IngestBegins,
   IngestStores, EmployeeRemoved DEF D!Next, D!Handle

-----------------------------------------------------------------------------
(* Leave requests: what their handlers have read stays so.                 *)

Statuses == {"PENDING", "APPROVED", "REJECTED", "CANCELLED"}

RequestType == [kind : Kinds, status : Statuses, seen : Nat]

LeaveJob ==
  {Idle}
    \cup [op : {"create"}, at : {"check", "write"}, kind : Kinds, seen : Nat]
    \cup [op : {"review"}, id : Nat, decision : {"APPROVED", "REJECTED"},
          at : {"check", "write", "recompute"}]
    \cup [op : {"cancel"}, id : Nat, at : {"write", "recompute"}, wasApproved : BOOLEAN]

LeaveTypes ==
  requests \in Seq(RequestType) /\ jobs \in [Handlers -> LeaveJob] /\ today \in Nat

\* A job that is about to decide a request, or to cancel it.
Deciding(job) == job.op \in {"review", "cancel"} /\ job.at # "recompute"

\* The request is still as the job found it.
StillSo(job, rs) ==
  /\ job.op \in {"review", "cancel"} => job.id \in DOMAIN rs
  /\ job.op = "review" /\ job.at # "recompute" => rs[job.id].status = "PENDING"
  /\ job.op = "cancel" /\ job.at # "recompute" =>
       /\ rs[job.id].status \in {"PENDING", "APPROVED"}
       /\ job.wasApproved <=> rs[job.id].status = "APPROVED"

OneDecides(f, g) == Deciding(f) /\ Deciding(g) => f.id # g.id

DecisionsHold ==
  /\ \A h \in Handlers : StillSo(jobs[h], requests)
  /\ \A g, h \in Handlers : g # h => OneDecides(jobs[g], jobs[h])

LeaveInv == LeaveTypes /\ DecisionsHold

LEMMA LeaveJobs ==
  ASSUME NEW job \in LeaveJob
  PROVE  /\ job.op \in {"idle", "create", "review", "cancel"}
         /\ job = Idle <=> job.op = "idle"
         /\ job.op = "create" =>
              job.kind \in Kinds /\ job.at \in {"check", "write"} /\ job.seen \in Nat
         /\ job.op = "review" =>
              /\ job.id \in Nat /\ job.decision \in {"APPROVED", "REJECTED"}
              /\ job.at \in {"check", "write", "recompute"}
         /\ job.op = "cancel" =>
              job.id \in Nat /\ job.wasApproved \in BOOLEAN /\ job.at \in {"write", "recompute"}
BY DEF LeaveJob, Idle

LEMMA RequestChanged ==
  ASSUME NEW rs \in Seq(RequestType), NEW id \in DOMAIN rs, NEW status \in Statuses,
         NEW qs, qs = [rs EXCEPT ![id].status = status]
  PROVE  /\ qs \in Seq(RequestType) /\ DOMAIN qs = DOMAIN rs
         /\ qs[id].status = status /\ qs[id].kind = rs[id].kind /\ qs[id].seen = rs[id].seen
         /\ \A j \in DOMAIN rs : j # id => qs[j] = rs[j]
<1>1. rs[id] \in RequestType
  OBVIOUS
<1>2. PICK r : r = [rs[id] EXCEPT !.status = status]
  OBVIOUS
<1>3. r \in RequestType /\ r.status = status /\ r.kind = rs[id].kind /\ r.seen = rs[id].seen
  BY <1>1, <1>2 DEF RequestType
<1>4. qs = [rs EXCEPT ![id] = r]
  BY <1>2
<1> HIDE DEF RequestType
<1> QED BY <1>3, <1>4

LEMMA RequestFiled ==
  ASSUME NEW rs \in Seq(RequestType), NEW r \in RequestType, NEW qs, qs = Append(rs, r)
  PROVE  /\ qs \in Seq(RequestType)
         /\ \A j \in DOMAIN rs : j \in DOMAIN qs /\ qs[j] = rs[j]
         /\ \A j \in DOMAIN qs : j \in DOMAIN rs \/ (j = Len(rs) + 1 /\ qs[j] = r)
<1> HIDE DEF RequestType
<1> QED OBVIOUS

LEMMA LeaveInit == InitAll => LeaveInv
<1> SUFFICES ASSUME InitAll PROVE LeaveInv
  OBVIOUS
<1>1. requests = <<>> /\ jobs = [h \in Handlers |-> Idle] /\ today = FirstToday
  BY DEF InitAll, Init
<1>2. LeaveTypes
  BY <1>1, LeaveAssumption DEF LeaveTypes, LeaveJob
<1>3. DecisionsHold
  BY <1>1 DEF DecisionsHold, StillSo, OneDecides, Deciding, Idle
<1> QED BY <1>2, <1>3 DEF LeaveInv

\* What a step does to the requests and to the job of its handler.
LEMMA LeaveStep ==
  ASSUME LeaveInv, NEW h \in Handlers, NEW job \in LeaveJob, jobs' = [jobs EXCEPT ![h] = job],
         requests' \in Seq(RequestType), today' \in Nat,
         StillSo(job, requests'),
         \A g \in Handlers : g # h => StillSo(jobs[g], requests'),
         \A g \in Handlers : g # h => OneDecides(jobs[g], job) /\ OneDecides(job, jobs[g])
  PROVE  LeaveInv'
<1>1. /\ jobs' \in [Handlers -> LeaveJob] /\ jobs'[h] = job
      /\ \A g \in Handlers : g # h => jobs'[g] = jobs[g]
  BY DEF LeaveInv, LeaveTypes
<1>2. LeaveTypes'
  BY <1>1 DEF LeaveTypes
<1>3. DecisionsHold'
  <2>1. ASSUME NEW g \in Handlers PROVE StillSo(jobs'[g], requests')
    BY <1>1
  <2>2. ASSUME NEW f \in Handlers, NEW g \in Handlers, f # g PROVE OneDecides(jobs'[f], jobs'[g])
    BY <1>1, <2>2 DEF LeaveInv, DecisionsHold
  <2> QED BY <2>1, <2>2 DEF DecisionsHold
<1> QED BY <1>2, <1>3 DEF LeaveInv

\* A job that decides nothing may follow any other.
LEMMA UndecidedStep ==
  ASSUME LeaveInv, NEW h \in Handlers, NEW job \in LeaveJob, jobs' = [jobs EXCEPT ![h] = job],
         UNCHANGED <<requests, today>>, StillSo(job, requests), ~Deciding(job)
  PROVE  LeaveInv'
<1>1. requests' \in Seq(RequestType) /\ today' \in Nat
  BY DEF LeaveInv, LeaveTypes
<1>2. \A g \in Handlers : StillSo(jobs[g], requests')
  BY DEF LeaveInv, DecisionsHold
<1>3. \A g \in Handlers : OneDecides(jobs[g], job) /\ OneDecides(job, jobs[g])
  BY DEF OneDecides
<1> QED BY <1>1, <1>2, <1>3, LeaveStep

\* A request gets the status its job decided on; nobody else is deciding it.
LEMMA DecisionStep ==
  ASSUME LeaveInv, NEW h \in Handlers, Deciding(jobs[h]), NEW status \in Statuses,
         requests' = [requests EXCEPT ![jobs[h].id].status = status], UNCHANGED today,
         NEW job \in LeaveJob, jobs' = [jobs EXCEPT ![h] = job], ~Deciding(job),
         job.op \in {"review", "cancel"} => job.id = jobs[h].id
  PROVE  LeaveInv'
<1>1. PICK id : id = jobs[h].id
  OBVIOUS
<1>2. requests \in Seq(RequestType) /\ id \in DOMAIN requests
  BY <1>1 DEF LeaveInv, LeaveTypes, DecisionsHold, StillSo, Deciding
<1>3. /\ requests' \in Seq(RequestType) /\ DOMAIN requests' = DOMAIN requests
      /\ \A j \in DOMAIN requests : j # id => requests'[j] = requests[j]
  BY <1>1, <1>2, RequestChanged
<1>4. ASSUME NEW g \in Handlers, g # h PROVE StillSo(jobs[g], requests')
  <2>1. StillSo(jobs[g], requests) /\ OneDecides(jobs[g], jobs[h])
    BY <1>4 DEF LeaveInv, DecisionsHold
  <2>2. Deciding(jobs[g]) => jobs[g].id # id
    BY <1>1, <2>1 DEF OneDecides
  <2> QED BY <1>3, <2>1, <2>2 DEF StillSo, Deciding
<1>5. StillSo(job, requests')
  BY <1>1, <1>2, <1>3 DEF StillSo, Deciding
<1>6. \A g \in Handlers : OneDecides(jobs[g], job) /\ OneDecides(job, jobs[g])
  BY DEF OneDecides
<1>7. today' \in Nat
  BY DEF LeaveInv, LeaveTypes
<1> QED BY <1>3, <1>4, <1>5, <1>6, <1>7, LeaveStep

\* What each action of a handler does to its job, the requests and the records.
LEMMA CreateBegins ==
  ASSUME LeaveInv, NEW h \in Handlers, BeginCreate(h)
  PROVE  /\ jobs[h].op = "idle" /\ UNCHANGED <<requests, today, covered>>
         /\ \E k \in Kinds, at \in {"check", "write"} :
              /\ jobs' = [jobs EXCEPT ![h] = [op |-> "create", at |-> at, kind |-> k,
                                              seen |-> Len(requests)]]
              /\ \A id \in DOMAIN requests : requests[id].status \in Active =>
                   ~Overlap(requests[id].kind.span, k.span)
<1>1. jobs[h].op = "idle" /\ UNCHANGED <<requests, today, covered>>
  BY DEF BeginCreate, Idle
<1>2. PICK k \in Kinds :
        /\ \A id \in Ids : requests[id].status \in Active => ~Overlap(requests[id].kind.span, k.span)
        /\ jobs' = [jobs EXCEPT ![h] =
             [op |-> "create", at |-> IF k.type = "VACATION" THEN "check" ELSE "write", kind |-> k,
              seen |-> Len(requests)]]
  BY DEF BeginCreate, SetJob
<1>3. PICK at \in {"check", "write"} : at = IF k.type = "VACATION" THEN "check" ELSE "write"
  OBVIOUS
<1>4. /\ jobs' = [jobs EXCEPT ![h] = [op |-> "create", at |-> at, kind |-> k,
                                      seen |-> Len(requests)]]
      /\ \A id \in DOMAIN requests : requests[id].status \in Active => ~Overlap(requests[id].kind.span, k.span)
  BY <1>2, <1>3 DEF Ids
<1> QED BY <1>1, <1>4

LEMMA BalanceChecked ==
  ASSUME LeaveInv, NEW h \in Handlers, CheckBalance(h)
  PROVE  /\ jobs[h].op \in {"create", "review"} /\ jobs[h].at = "check"
         /\ UNCHANGED <<requests, today, covered>>
         /\ \E job \in LeaveJob :
              /\ jobs' = [jobs EXCEPT ![h] = job]
              /\ \/ job = Idle
                 \/ /\ jobs[h].op = "create" /\ job.op = "create" /\ job.kind = jobs[h].kind
                    /\ job.seen = jobs[h].seen
                 \/ /\ jobs[h].op = "review" /\ job.op = "review" /\ job.id = jobs[h].id
                    /\ job.at = "write"
<1>1. /\ jobs[h].op \in {"create", "review"} /\ jobs[h].at = "check"
      /\ UNCHANGED <<requests, today, covered>>
  BY DEF CheckBalance
<1>2. PICK job \in {Idle, [jobs[h] EXCEPT !.at = "write"]} : jobs' = [jobs EXCEPT ![h] = job]
  BY DEF CheckBalance, SetJob
<1>3. jobs[h] \in LeaveJob
  BY DEF LeaveInv, LeaveTypes
<1>4. CASE job = Idle
  BY <1>1, <1>2, <1>4 DEF LeaveJob
<1>5. CASE job # Idle /\ jobs[h].op = "create"
  <2>1. jobs[h] \in [op : {"create"}, at : {"check", "write"}, kind : Kinds, seen : Nat]
    BY <1>3, <1>5 DEF LeaveJob, Idle
  <2>2. /\ job \in [op : {"create"}, at : {"check", "write"}, kind : Kinds, seen : Nat]
        /\ job.kind = jobs[h].kind /\ job.seen = jobs[h].seen
    BY <1>2, <1>5, <2>1
  <2>3. job \in LeaveJob /\ job.op = "create"
    BY <2>2 DEF LeaveJob
  <2> QED BY <1>1, <1>2, <1>5, <2>2, <2>3
<1>6. CASE job # Idle /\ jobs[h].op = "review"
  <2>1. jobs[h] \in [op : {"review"}, id : Nat, decision : {"APPROVED", "REJECTED"},
                     at : {"check", "write", "recompute"}]
    BY <1>3, <1>6 DEF LeaveJob, Idle
  <2>2. /\ job \in [op : {"review"}, id : Nat, decision : {"APPROVED", "REJECTED"},
                    at : {"check", "write", "recompute"}]
        /\ job.id = jobs[h].id /\ job.at = "write"
    BY <1>2, <1>6, <2>1
  <2>3. job \in LeaveJob /\ job.op = "review"
    BY <2>2 DEF LeaveJob
  <2> QED BY <1>1, <1>2, <1>6, <2>2, <2>3
<1> QED BY <1>1, <1>2, <1>4, <1>5, <1>6

LEMMA DecisionBegins ==
  ASSUME LeaveInv, ~RequestRaces, NEW h \in Handlers, BeginReview(h) \/ BeginCancel(h)
  PROVE  /\ jobs[h].op = "idle" /\ UNCHANGED <<requests, today, covered>>
         /\ \E job \in LeaveJob :
              /\ jobs' = [jobs EXCEPT ![h] = job] /\ job.op \in {"review", "cancel"}
              /\ job.at # "recompute" /\ StillSo(job, requests)
              /\ \A g \in Handlers : g # h => OneDecides(jobs[g], job) /\ OneDecides(job, jobs[g])
<1>1. jobs[h].op = "idle" /\ UNCHANGED <<requests, today, covered>>
  BY DEF BeginReview, BeginCancel, Idle
<1>2. \A id \in DOMAIN requests : id \in Nat
  BY DEF LeaveInv, LeaveTypes
<1>3. ASSUME NEW id, MayHandle(id), NEW job, job.id = id
      PROVE  \A g \in Handlers : g # h => OneDecides(jobs[g], job) /\ OneDecides(job, jobs[g])
  <2>1. \A g \in Handlers : Deciding(jobs[g]) => jobs[g].id # id
    BY <1>3 DEF MayHandle, Busy, Deciding
  <2> QED BY <1>3, <2>1 DEF OneDecides
<1>4. CASE BeginReview(h)
  <2>1. PICK id \in DOMAIN requests, decision \in {"APPROVED", "REJECTED"}, at \in {"check", "write"} :
          /\ requests[id].status = "PENDING" /\ MayHandle(id)
          /\ jobs' = [jobs EXCEPT ![h] = [op |-> "review", id |-> id, decision |-> decision, at |-> at]]
    <3>1. PICK id \in DOMAIN requests, decision \in {"APPROVED", "REJECTED"} :
            /\ requests[id].status = "PENDING" /\ MayHandle(id)
            /\ jobs' = [jobs EXCEPT ![h] =
                 [op |-> "review", id |-> id, decision |-> decision,
                  at |-> IF decision = "APPROVED" /\ requests[id].kind.type = "VACATION"
                         THEN "check" ELSE "write"]]
      BY <1>4 DEF BeginReview, SetJob, Ids
    <3>2. PICK at \in {"check", "write"} :
            at = IF decision = "APPROVED" /\ requests[id].kind.type = "VACATION"
                 THEN "check" ELSE "write"
      OBVIOUS
    <3> QED BY <3>1, <3>2
  <2>2. PICK job : job = [op |-> "review", id |-> id, decision |-> decision, at |-> at]
    OBVIOUS
  <2>3. job \in LeaveJob /\ StillSo(job, requests)
    BY <1>2, <2>1, <2>2 DEF LeaveJob, StillSo
  <2>4. job.op = "review" /\ job.at # "recompute" /\ job.id = id
    BY <2>2
  <2> QED BY <1>1, <1>3, <2>1, <2>2, <2>3, <2>4
<1>5. CASE BeginCancel(h)
  <2>1. PICK id \in DOMAIN requests, was \in BOOLEAN :
          /\ requests[id].status \in {"PENDING", "APPROVED"} /\ MayHandle(id)
          /\ was <=> requests[id].status = "APPROVED"
          /\ jobs' = [jobs EXCEPT ![h] = [op |-> "cancel", id |-> id, at |-> "write", wasApproved |-> was]]
    <3>1. PICK id \in DOMAIN requests :
            /\ requests[id].status \in {"PENDING", "APPROVED"} /\ MayHandle(id)
            /\ jobs' = [jobs EXCEPT ![h] = [op |-> "cancel", id |-> id, at |-> "write",
                                            wasApproved |-> requests[id].status = "APPROVED"]]
      BY <1>5 DEF BeginCancel, SetJob, Ids, Active
    <3>2. PICK was \in BOOLEAN : was = (requests[id].status = "APPROVED")
      OBVIOUS
    <3> QED BY <3>1, <3>2
  <2>2. PICK job : job = [op |-> "cancel", id |-> id, at |-> "write", wasApproved |-> was]
    OBVIOUS
  <2>3. job \in LeaveJob /\ StillSo(job, requests)
    BY <1>2, <2>1, <2>2 DEF LeaveJob, StillSo
  <2>4. job.op = "cancel" /\ job.at # "recompute" /\ job.id = id
    BY <2>2
  <2> QED BY <1>1, <1>3, <2>1, <2>2, <2>3, <2>4
<1> QED BY <1>4, <1>5

LEMMA DecisionCommits ==
  ASSUME LeaveInv, NEW h \in Handlers, CommitReview(h) \/ CommitCancel(h)
  PROVE  /\ Deciding(jobs[h]) /\ UNCHANGED <<today, covered>>
         /\ requests[jobs[h].id].status \in Active
         /\ \E status \in Statuses, job \in LeaveJob :
              /\ requests' = [requests EXCEPT ![jobs[h].id].status = status]
              /\ jobs' = [jobs EXCEPT ![h] = job]
              /\ status = "APPROVED" => requests[jobs[h].id].status = "PENDING"
              /\ status \in {"APPROVED", "REJECTED", "CANCELLED"}
              /\ \/ /\ job.op \in {"review", "cancel"} /\ job.at = "recompute" /\ job.id = jobs[h].id
                 \/ /\ job = Idle /\ status # "APPROVED"
                    /\ requests[jobs[h].id].status # "APPROVED"
<1>1. jobs[h] \in LeaveJob /\ StillSo(jobs[h], requests)
  BY DEF LeaveInv, LeaveTypes, DecisionsHold
<1>2. CASE CommitReview(h)
  <2>1. /\ jobs[h].op = "review" /\ jobs[h].at = "write" /\ UNCHANGED <<today, covered>>
        /\ requests' = [requests EXCEPT ![jobs[h].id].status = jobs[h].decision]
        /\ jobs' = [jobs EXCEPT ![h] = IF jobs[h].decision = "APPROVED"
                                       THEN [jobs[h] EXCEPT !.at = "recompute"] ELSE Idle]
    BY <1>2 DEF CommitReview, SetJob
  <2>2. requests[jobs[h].id].status = "PENDING"
    BY <1>1, <2>1 DEF StillSo
  <2>3. jobs[h].decision \in {"APPROVED", "REJECTED"}
    BY <1>1, <2>1, LeaveJobs
  <2>4. /\ [jobs[h] EXCEPT !.at = "recompute"] \in LeaveJob
        /\ [jobs[h] EXCEPT !.at = "recompute"].op = "review"
        /\ [jobs[h] EXCEPT !.at = "recompute"].at = "recompute"
        /\ [jobs[h] EXCEPT !.at = "recompute"].id = jobs[h].id
    <3>1. jobs[h] \in [op : {"review"}, id : Nat, decision : {"APPROVED", "REJECTED"},
                       at : {"check", "write", "recompute"}]
      BY <1>1, <2>1 DEF LeaveJob, Idle
    <3> QED BY <3>1 DEF LeaveJob
  <2>5. Idle \in LeaveJob
    BY DEF LeaveJob
  <2>6. PICK status, job : /\ status = jobs[h].decision
                           /\ job = IF jobs[h].decision = "APPROVED"
                                    THEN [jobs[h] EXCEPT !.at = "recompute"] ELSE Idle
    OBVIOUS
  <2>7. status \in Statuses /\ status \in {"APPROVED", "REJECTED", "CANCELLED"} /\ job \in LeaveJob
    BY <2>3, <2>4, <2>5, <2>6 DEF Statuses
  <2> QED BY <2>1, <2>2, <2>4, <2>6, <2>7 DEF Deciding, Active
<1>3. CASE CommitCancel(h)
  <2>1. /\ jobs[h].op = "cancel" /\ jobs[h].at = "write" /\ UNCHANGED <<today, covered>>
        /\ requests' = [requests EXCEPT ![jobs[h].id].status = "CANCELLED"]
        /\ jobs' = [jobs EXCEPT ![h] = IF jobs[h].wasApproved
                                       THEN [jobs[h] EXCEPT !.at = "recompute"] ELSE Idle]
    BY <1>3 DEF CommitCancel, SetJob
  <2>2. /\ requests[jobs[h].id].status \in {"PENDING", "APPROVED"}
        /\ jobs[h].wasApproved <=> requests[jobs[h].id].status = "APPROVED"
    BY <1>1, <2>1 DEF StillSo
  <2>4. /\ [jobs[h] EXCEPT !.at = "recompute"] \in LeaveJob
        /\ [jobs[h] EXCEPT !.at = "recompute"].op = "cancel"
        /\ [jobs[h] EXCEPT !.at = "recompute"].at = "recompute"
        /\ [jobs[h] EXCEPT !.at = "recompute"].id = jobs[h].id
    <3>1. jobs[h] \in [op : {"cancel"}, id : Nat, at : {"write", "recompute"}, wasApproved : BOOLEAN]
      BY <1>1, <2>1 DEF LeaveJob, Idle
    <3> QED BY <3>1 DEF LeaveJob
  <2>5. Idle \in LeaveJob
    BY DEF LeaveJob
  <2>6. PICK job : job = IF jobs[h].wasApproved
                         THEN [jobs[h] EXCEPT !.at = "recompute"] ELSE Idle
    OBVIOUS
  <2>7. "CANCELLED" \in Statuses /\ job \in LeaveJob
    BY <2>4, <2>5, <2>6 DEF Statuses
  <2>8. \/ job.op \in {"review", "cancel"} /\ job.at = "recompute" /\ job.id = jobs[h].id
        \/ job = Idle /\ requests[jobs[h].id].status # "APPROVED"
    BY <2>2, <2>4, <2>6
  <2>9. Deciding(jobs[h]) /\ requests[jobs[h].id].status \in Active
    BY <2>1, <2>2 DEF Deciding, Active
  <2> QED BY <2>1, <2>6, <2>7, <2>8, <2>9
<1> QED BY <1>2, <1>3

LEMMA LeaveNext ==
  ASSUME LeaveInv, ~RequestRaces, Next
  PROVE  LeaveInv'
<1>1. Idle \in LeaveJob /\ ~Deciding(Idle) /\ StillSo(Idle, requests) /\ StillSo(Idle, requests')
  BY DEF LeaveJob, Deciding, StillSo, Idle
<1>2. ASSUME NEW h \in Handlers, BeginCreate(h) PROVE LeaveInv'
  <2>1. PICK k \in Kinds, at \in {"check", "write"} :
          jobs' = [jobs EXCEPT ![h] = [op |-> "create", at |-> at, kind |-> k,
                                       seen |-> Len(requests)]]
    BY <1>2, CreateBegins
  <2>2. PICK job : job = [op |-> "create", at |-> at, kind |-> k, seen |-> Len(requests)]
    OBVIOUS
  <2>3. job \in LeaveJob /\ StillSo(job, requests) /\ ~Deciding(job)
    <3>1. Len(requests) \in Nat
      BY DEF LeaveInv, LeaveTypes
    <3> QED BY <2>2, <3>1 DEF LeaveJob, StillSo, Deciding
  <2>4. UNCHANGED <<requests, today>>
    BY <1>2, CreateBegins
  <2> QED BY <2>1, <2>2, <2>3, <2>4, UndecidedStep
<1>3. ASSUME NEW h \in Handlers, CheckBalance(h) PROVE LeaveInv'
  <2>1. PICK job \in LeaveJob :
          /\ jobs' = [jobs EXCEPT ![h] = job]
          /\ \/ job = Idle
             \/ jobs[h].op = "create" /\ job.op = "create"
             \/ jobs[h].op = "review" /\ job.op = "review" /\ job.id = jobs[h].id /\ job.at = "write"
    BY <1>3, BalanceChecked
  <2>2. jobs[h].at = "check" /\ UNCHANGED <<requests, today>>
    BY <1>3, BalanceChecked
  <2>3. CASE ~Deciding(job)
    <3>1. StillSo(job, requests)
      BY <1>1, <2>1, <2>3 DEF StillSo, Deciding
    <3> QED BY <2>1, <2>2, <2>3, <3>1, UndecidedStep
  <2>4. CASE Deciding(job)
    <3>1. jobs[h].op = "review" /\ job.op = "review" /\ job.id = jobs[h].id
      BY <1>1, <2>1, <2>4 DEF Deciding
    <3>2. /\ StillSo(jobs[h], requests) /\ Deciding(jobs[h])
          /\ \A g \in Handlers : StillSo(jobs[g], requests)
          /\ \A g \in Handlers : g # h => OneDecides(jobs[g], jobs[h]) /\ OneDecides(jobs[h], jobs[g])
      BY <2>2, <3>1 DEF LeaveInv, DecisionsHold, Deciding
    <3>3. StillSo(job, requests)
      BY <2>2, <3>1, <3>2 DEF StillSo
    <3>4. \A g \in Handlers : g # h => OneDecides(jobs[g], job) /\ OneDecides(job, jobs[g])
      BY <3>1, <3>2 DEF OneDecides
    <3>5. /\ requests' = requests /\ requests' \in Seq(RequestType) /\ today' \in Nat
          /\ StillSo(job, requests') /\ \A g \in Handlers : StillSo(jobs[g], requests')
      BY <2>2, <3>2, <3>3 DEF LeaveInv, LeaveTypes
    <3> QED BY <2>1, <3>4, <3>5, LeaveStep
  <2> QED BY <2>3, <2>4
<1>4. ASSUME NEW h \in Handlers, CommitCreate(h) PROVE LeaveInv'
  <2>1. /\ jobs[h].op = "create" /\ UNCHANGED today /\ jobs' = [jobs EXCEPT ![h] = Idle]
        /\ requests' = Append(requests, [kind |-> jobs[h].kind, status |-> "PENDING", seen |-> jobs[h].seen])
    BY <1>4 DEF CommitCreate, SetJob
  <2>2. [kind |-> jobs[h].kind, status |-> "PENDING", seen |-> jobs[h].seen] \in RequestType
    <3>1. jobs[h] \in LeaveJob
      BY DEF LeaveInv, LeaveTypes
    <3> QED BY <2>1, <3>1, LeaveJobs DEF RequestType, Statuses
  <2>3. /\ requests' \in Seq(RequestType) /\ today' \in Nat
        /\ \A j \in DOMAIN requests : j \in DOMAIN requests' /\ requests'[j] = requests[j]
    BY <2>1, <2>2, RequestFiled DEF LeaveInv, LeaveTypes
  <2>4. \A g \in Handlers : StillSo(jobs[g], requests')
    <3> SUFFICES ASSUME NEW g \in Handlers PROVE StillSo(jobs[g], requests')
      OBVIOUS
    <3>1. StillSo(jobs[g], requests)
      BY DEF LeaveInv, DecisionsHold
    <3> QED BY <2>3, <3>1 DEF StillSo
  <2>5. \A g \in Handlers : OneDecides(jobs[g], Idle) /\ OneDecides(Idle, jobs[g])
    BY <1>1 DEF OneDecides
  <2> QED BY <1>1, <2>1, <2>3, <2>4, <2>5, LeaveStep
<1>5. ASSUME NEW h \in Handlers, BeginReview(h) \/ BeginCancel(h) PROVE LeaveInv'
  <2>1. PICK job \in LeaveJob :
          /\ jobs' = [jobs EXCEPT ![h] = job] /\ StillSo(job, requests)
          /\ \A g \in Handlers : g # h => OneDecides(jobs[g], job) /\ OneDecides(job, jobs[g])
    BY <1>5, DecisionBegins
  <2>2. UNCHANGED <<requests, today>>
    BY <1>5, DecisionBegins
  <2>3. /\ requests' \in Seq(RequestType) /\ today' \in Nat /\ StillSo(job, requests')
        /\ \A g \in Handlers : StillSo(jobs[g], requests')
    BY <2>1, <2>2 DEF LeaveInv, LeaveTypes, DecisionsHold
  <2> QED BY <2>1, <2>3, LeaveStep
<1>6. ASSUME NEW h \in Handlers, CommitReview(h) \/ CommitCancel(h) PROVE LeaveInv'
  <2>1. Deciding(jobs[h]) /\ UNCHANGED today
    BY <1>6, DecisionCommits
  <2>2. PICK status \in Statuses, job \in LeaveJob :
          /\ requests' = [requests EXCEPT ![jobs[h].id].status = status]
          /\ jobs' = [jobs EXCEPT ![h] = job]
          /\ \/ job.op \in {"review", "cancel"} /\ job.at = "recompute" /\ job.id = jobs[h].id
             \/ job = Idle
    BY <1>6, DecisionCommits
  <2>3. ~Deciding(job) /\ (job.op \in {"review", "cancel"} => job.id = jobs[h].id)
    BY <2>2 DEF Deciding, Idle
  <2> QED BY <2>1, <2>2, <2>3, DecisionStep
<1>7. ASSUME NEW h \in Handlers, RecomputeAffectedDays(h) \/ Abort(h) PROVE LeaveInv'
  <2>1. jobs' = [jobs EXCEPT ![h] = Idle] /\ UNCHANGED <<requests, today>>
    BY <1>7 DEF RecomputeAffectedDays, Abort, SetJob
  <2> QED BY <1>1, <2>1, UndecidedStep
<1>8. CASE NextDay \/ NoticeExpiry \/ ChangeTerms \/ \E days \in Adjustments : AddAdjustment(days)
  <2>1. UNCHANGED <<requests, jobs>> /\ (today' = today \/ today' = today + 1)
    BY <1>8 DEF NextDay, NoticeExpiry, ChangeTerms, AddAdjustment
  <2>2. LeaveTypes'
    BY <2>1 DEF LeaveInv, LeaveTypes
  <2>3. DecisionsHold'
    BY <2>1 DEF LeaveInv, DecisionsHold
  <2> QED BY <2>2, <2>3 DEF LeaveInv
<1> QED BY <1>2, <1>3, <1>4, <1>5, <1>6, <1>7, <1>8 DEF Next, Handle

-----------------------------------------------------------------------------
(* Requests that overlap were filed together: no check saw the other one.  *)

Disjoint(rs) ==
  \A i, j \in DOMAIN rs :
    i < j /\ rs[i].status \in Active /\ rs[j].status \in Active
      /\ Overlap(rs[i].kind.span, rs[j].kind.span) => rs[j].seen < i

\* What is being filed overlaps no active request its check could see.
Free(rs, job) ==
  /\ job.seen # 0 => job.seen \in DOMAIN rs
  /\ \A id \in DOMAIN rs :
       id <= job.seen /\ rs[id].status \in Active => ~Overlap(rs[id].kind.span, job.kind.span)

Apart ==
  /\ Disjoint(requests)
  /\ \A h \in Handlers : jobs[h].op = "create" => Free(requests, jobs[h])

LEMMA Disjointness == NoOverlap <=> Disjoint(requests)
<1>1. \A a, b : {a, b} \subseteq Active <=> a \in Active /\ b \in Active
  OBVIOUS
<1> HIDE DEF Overlap, Active
<1> QED BY <1>1 DEF NoOverlap, Disjoint, Ids

\* What is cancelled or decided leaves less to overlap with.
Fewer(rs, qs) ==
  /\ DOMAIN qs = DOMAIN rs
  /\ \A id \in DOMAIN rs :
       /\ qs[id].kind = rs[id].kind /\ qs[id].seen = rs[id].seen
       /\ qs[id].status \in Active => rs[id].status \in Active

LEMMA ApartKept ==
  ASSUME Apart, LeaveTypes, NEW h \in Handlers, NEW job, jobs' = [jobs EXCEPT ![h] = job],
         job.op = "create" =>
           jobs[h].op = "create" /\ job.kind = jobs[h].kind /\ job.seen = jobs[h].seen,
         Fewer(requests, requests')
  PROVE  Apart'
<1>1. jobs'[h] = job /\ \A g \in Handlers : g # h => jobs'[g] = jobs[g]
  BY DEF LeaveTypes
<1>2. Disjoint(requests')
  BY DEF Apart, Disjoint, Fewer
<1>3. ASSUME NEW g \in Handlers, jobs'[g].op = "create"
      PROVE  Free(requests', jobs'[g])
  <2>1. jobs[g].op = "create" /\ jobs'[g].kind = jobs[g].kind /\ jobs'[g].seen = jobs[g].seen
    BY <1>1, <1>3
  <2>2. Free(requests, jobs[g])
    BY <2>1 DEF Apart
  <2> QED BY <2>1, <2>2 DEF Free, Fewer
<1> QED BY <1>2, <1>3 DEF Apart

LEMMA ApartInit == InitAll => Apart
BY DEF InitAll, Init, Apart, Disjoint, Idle

LEMMA ApartNext ==
  ASSUME LeaveInv, Apart, ~RequestRaces, Next
  PROVE  Apart'
<1>1. LeaveTypes /\ Fewer(requests, requests) /\ Idle.op = "idle"
  BY DEF LeaveInv, Fewer, Idle
<1>2. ASSUME NEW h \in Handlers, BeginCreate(h) PROVE Apart'
  <2>1. PICK k \in Kinds, at \in {"check", "write"} :
          /\ jobs' = [jobs EXCEPT ![h] = [op |-> "create", at |-> at, kind |-> k,
                                          seen |-> Len(requests)]]
          /\ \A id \in DOMAIN requests : requests[id].status \in Active =>
               ~Overlap(requests[id].kind.span, k.span)
    BY <1>2, CreateBegins
  <2>2. UNCHANGED requests
    BY <1>2, CreateBegins
  <2>3. /\ jobs'[h].kind = k /\ jobs'[h].seen = Len(requests)
        /\ \A g \in Handlers : g # h => jobs'[g] = jobs[g]
    BY <1>1, <2>1 DEF LeaveTypes
  <2>4. Len(requests) # 0 => Len(requests) \in DOMAIN requests
    BY <1>1 DEF LeaveTypes
  <2>5. Free(requests, jobs'[h])
    BY <2>1, <2>3, <2>4 DEF Free
  <2> QED BY <2>2, <2>3, <2>5 DEF Apart
<1>3. ASSUME NEW h \in Handlers, CheckBalance(h) PROVE Apart'
  <2>1. PICK job \in LeaveJob :
          /\ jobs' = [jobs EXCEPT ![h] = job]
          /\ job.op = "create" =>
               jobs[h].op = "create" /\ job.kind = jobs[h].kind /\ job.seen = jobs[h].seen
    BY <1>1, <1>3, BalanceChecked
  <2>2. requests' = requests
    BY <1>3, BalanceChecked
  <2> QED BY <1>1, <2>1, <2>2, ApartKept
<1>4. ASSUME NEW h \in Handlers, CommitCreate(h) PROVE Apart'
  <2>1. /\ jobs[h].op = "create" /\ jobs' = [jobs EXCEPT ![h] = Idle]
        /\ requests' = Append(requests, [kind |-> jobs[h].kind, status |-> "PENDING", seen |-> jobs[h].seen])
    BY <1>4 DEF CommitCreate, SetJob
  <2>2. PICK r : r = [kind |-> jobs[h].kind, status |-> "PENDING", seen |-> jobs[h].seen]
    OBVIOUS
  <2>3. r \in RequestType
    <3>1. jobs[h] \in LeaveJob
      BY <1>1 DEF LeaveTypes
    <3> QED BY <2>1, <2>2, <3>1, LeaveJobs DEF RequestType, Statuses
  <2>4. /\ \A j \in DOMAIN requests : j \in DOMAIN requests' /\ requests'[j] = requests[j]
        /\ \A j \in DOMAIN requests' :
             j \in DOMAIN requests \/ (j = Len(requests) + 1 /\ requests'[j] = r)
    BY <1>1, <2>1, <2>2, <2>3, RequestFiled DEF LeaveTypes
  <2>5. Free(requests, r)
    BY <2>1, <2>2 DEF Apart, Free
  <2>6. \A j \in DOMAIN requests : j \in Nat /\ j <= Len(requests)
    BY <1>1 DEF LeaveTypes
  <2>7. Len(requests) \in Nat /\ r.seen \in Nat
    BY <1>1, <2>3 DEF LeaveTypes, RequestType
  <2>8. Disjoint(requests')
    <3> SUFFICES ASSUME NEW i \in DOMAIN requests', NEW j \in DOMAIN requests', i < j,
                        requests'[i].status \in Active, requests'[j].status \in Active,
                        Overlap(requests'[i].kind.span, requests'[j].kind.span)
                 PROVE  requests'[j].seen < i
      BY DEF Disjoint
    <3> HIDE DEF RequestType, Overlap, Active
    <3>1. i \in DOMAIN requests
      BY <2>4, <2>6, <2>7
    <3>2. requests'[i] = requests[i]
      BY <2>4, <3>1
    <3>3. CASE j \in DOMAIN requests
      <4>1. requests'[j] = requests[j]
        BY <2>4, <3>3
      <4> QED BY <3>1, <3>2, <3>3, <4>1 DEF Apart, Disjoint
    <3>4. CASE j \notin DOMAIN requests
      <4>1. requests'[j] = r
        BY <2>4, <3>4
      <4>2. ~(i <= r.seen)
        BY <2>5, <3>1, <3>2, <4>1 DEF Free
      <4> QED BY <2>6, <2>7, <3>1, <4>1, <4>2
    <3> QED BY <3>3, <3>4
  <2>9. ASSUME NEW g \in Handlers, jobs'[g].op = "create" PROVE Free(requests', jobs'[g])
    <3>1. jobs'[g] = jobs[g] /\ jobs[g].op = "create" /\ g # h
      BY <1>1, <2>1, <2>9 DEF LeaveTypes
    <3>2. Free(requests, jobs[g])
      BY <3>1 DEF Apart
    <3>3. ~(Len(requests) + 1 <= jobs[g].seen)
      <4>1. CASE jobs[g].seen = 0
        BY <2>7, <4>1
      <4>2. CASE jobs[g].seen # 0
        BY <2>6, <2>7, <3>2, <4>2 DEF Free
      <4> QED BY <4>1, <4>2
    <3>4. jobs[g].seen # 0 => jobs[g].seen \in DOMAIN requests'
      BY <2>4, <3>2 DEF Free
    <3>5. ASSUME NEW id \in DOMAIN requests', id <= jobs[g].seen, requests'[id].status \in Active
          PROVE  ~Overlap(requests'[id].kind.span, jobs[g].kind.span)
      <4>1. id \in DOMAIN requests
        BY <2>4, <3>3, <3>5
      <4> QED BY <2>4, <3>2, <3>5, <4>1 DEF Free
    <3> QED BY <3>1, <3>4, <3>5 DEF Free
  <2> QED BY <2>8, <2>9 DEF Apart
<1>5. ASSUME NEW h \in Handlers, BeginReview(h) \/ BeginCancel(h) PROVE Apart'
  <2>1. PICK job \in LeaveJob :
          jobs' = [jobs EXCEPT ![h] = job] /\ job.op \in {"review", "cancel"}
    BY <1>5, DecisionBegins
  <2>2. requests' = requests
    BY <1>5, DecisionBegins
  <2> QED BY <1>1, <2>1, <2>2, ApartKept
<1>6. ASSUME NEW h \in Handlers, CommitReview(h) \/ CommitCancel(h) PROVE Apart'
  <2>1. Deciding(jobs[h]) /\ requests[jobs[h].id].status \in Active
    BY <1>6, DecisionCommits
  <2>2. PICK status \in Statuses, job \in LeaveJob :
          /\ requests' = [requests EXCEPT ![jobs[h].id].status = status]
          /\ jobs' = [jobs EXCEPT ![h] = job]
          /\ job.op \in {"review", "cancel"} \/ job = Idle
    BY <1>6, DecisionCommits
  <2>3. PICK id : id = jobs[h].id
    OBVIOUS
  <2>4. requests \in Seq(RequestType) /\ id \in DOMAIN requests
    BY <2>1, <2>3 DEF LeaveInv, LeaveTypes, DecisionsHold, StillSo, Deciding
  <2>5. Fewer(requests, requests')
    BY <2>1, <2>2, <2>3, <2>4, RequestChanged DEF Fewer
  <2>6. job.op # "create"
    BY <1>1, <2>2
  <2> QED BY <1>1, <2>2, <2>5, <2>6, ApartKept
<1>7. ASSUME NEW h \in Handlers, RecomputeAffectedDays(h) \/ Abort(h) PROVE Apart'
  <2>1. jobs' = [jobs EXCEPT ![h] = Idle] /\ UNCHANGED requests
    BY <1>7 DEF RecomputeAffectedDays, Abort, SetJob
  <2> QED BY <1>1, <2>1, ApartKept
<1>8. CASE NextDay \/ NoticeExpiry \/ ChangeTerms \/ \E days \in Adjustments : AddAdjustment(days)
  <2>1. UNCHANGED <<requests, jobs>>
    BY <1>8 DEF NextDay, NoticeExpiry, ChangeTerms, AddAdjustment
  <2> QED BY <2>1 DEF Apart
<1> QED BY <1>2, <1>3, <1>4, <1>5, <1>6, <1>7, <1>8 DEF Next, Handle

-----------------------------------------------------------------------------
(* Past records show the leaves approved.                                  *)

OnLeaveIn(rs, d) ==
  \E id \in DOMAIN rs : rs[id].status = "APPROVED" /\ d \in DatesOf(rs[id].kind.span)

AffectedBy(span, t) ==
  {d \in Dates : FirstDate(span) - 1 <= d /\ d <= Least(span[2] \div DayParts, t)}

\* A decision whose recomputation, of that date among others, is on its way.
Recomputing(job, rs, t, d) ==
  /\ job.op \in {"review", "cancel"} /\ job.at = "recompute"
  /\ d \in AffectedBy(rs[job.id].kind.span, t)

Shown ==
  \A d \in Dates : d < today /\ d >= FirstToday
                     /\ (\A h \in Handlers : ~Recomputing(jobs[h], requests, today, d)) =>
    (d \in covered <=> OnLeaveIn(requests, d))

LEMMA ShownDays ==
  ASSUME LeaveInv
  PROVE  RecordsFollowLeave <=> Shown
<1>1. ASSUME NEW h \in Handlers, NEW d
      PROVE  Recomputing(jobs[h], requests, today, d)
               <=> /\ jobs[h] # Idle /\ jobs[h].at = "recompute"
                   /\ d \in AffectedDays(requests[jobs[h].id].kind.span)
  <2>1. jobs[h] \in LeaveJob
    BY DEF LeaveInv, LeaveTypes
  <2>2. jobs[h] # Idle /\ jobs[h].at = "recompute" => jobs[h].op \in {"review", "cancel"}
    BY <2>1, LeaveJobs
  <2>3. jobs[h].op \in {"review", "cancel"} => jobs[h] # Idle
    BY DEF Idle
  <2> QED BY <2>2, <2>3 DEF Recomputing, AffectedDays, AffectedBy
<1>2. \A d : OnLeave(d) <=> OnLeaveIn(requests, d)
  BY DEF OnLeave, OnLeaveIn, Ids
<1> QED BY <1>1, <1>2 DEF RecordsFollowLeave, Shown

\* The date a leave ends on is not before its final date.
LEMMA DateBefore ==
  ASSUME NEW x \in Int
  PROVE  (x - 1) \div DayParts <= x \div DayParts
<1> DEFINE p == (x - 1) \div DayParts
           q == x \div DayParts
<1>1. /\ p \in Int /\ q \in Int /\ DayParts \in Nat /\ DayParts > 0
      /\ DayParts * p <= x - 1 /\ x < DayParts * q + DayParts
  BY LeaveAssumption
<1> HIDE DEF p, q
<1>2. SUFFICES ASSUME p > q PROVE FALSE
  BY <1>1 DEF p, q
<1>3. (p - q - 1) \in Nat
  BY <1>1, <1>2
<1>4. DayParts * (p - q - 1) >= 0
  BY <1>1, <1>3
<1>5. DayParts * (p - q - 1) = DayParts * p - DayParts * q - DayParts
  BY <1>1
<1>6. DayParts * p \in Int /\ DayParts * q \in Int
  BY <1>1
<1> QED BY <1>1, <1>4, <1>5, <1>6

\* A past date of a leave is among those its decision has computed anew.
LEMMA LeaveIsAffected ==
  ASSUME NEW k \in Kinds, NEW t \in Int, NEW d \in Dates, d < t, d \in DatesOf(k.span)
  PROVE  d \in AffectedBy(k.span, t)
<1>1. PICK a \in Int, b \in Int : k.span = <<a, b>>
  BY LeaveAssumption
<1>2. DayParts \in Nat /\ DayParts > 0 /\ d \in Int
  BY LeaveAssumption DEF Dates
<1>3. PICK f \in Int, l \in Int, e \in Int :
        f = a \div DayParts /\ l = (b - 1) \div DayParts /\ e = b \div DayParts
  BY <1>2
<1>4. l <= e
  BY <1>3, DateBefore
<1>5. f <= d /\ d <= l
  BY <1>1, <1>2, <1>3 DEF DatesOf, FirstDate, FinalDate
<1>6. f - 1 <= d /\ d <= Least(e, t)
  BY <1>2, <1>4, <1>5 DEF Least
<1> QED BY <1>1, <1>3, <1>6 DEF AffectedBy, FirstDate

\* A decision, or none, and what it leaves to be computed anew.
LEMMA ShownStep ==
  ASSUME LeaveInv, Shown, NEW h \in Handlers, NEW job, jobs' = [jobs EXCEPT ![h] = job],
         UNCHANGED <<today, covered>>,
         \A g \in Handlers, d \in Dates :
           g # h /\ Recomputing(jobs[g], requests, today, d) => Recomputing(jobs[g], requests', today, d),
         \A d \in Dates : d < today /\ ~Recomputing(job, requests', today, d) =>
           /\ ~Recomputing(jobs[h], requests, today, d)
           /\ OnLeaveIn(requests', d) <=> OnLeaveIn(requests, d)
  PROVE  Shown'
<1>1. jobs'[h] = job /\ \A g \in Handlers : g # h => jobs'[g] = jobs[g]
  BY DEF LeaveInv, LeaveTypes
<1> SUFFICES ASSUME NEW d \in Dates, d < today, d >= FirstToday,
                    \A g \in Handlers : ~Recomputing(jobs'[g], requests', today, d)
             PROVE  d \in covered <=> OnLeaveIn(requests', d)
  BY DEF Shown
<1>2. ~Recomputing(job, requests', today, d)
  BY <1>1
<1>3. \A g \in Handlers : ~Recomputing(jobs[g], requests, today, d)
  BY <1>1, <1>2
<1> QED BY <1>2, <1>3 DEF Shown

LEMMA RecomputedDays ==
  ASSUME NEW dates \in SUBSET Dates, covered' = Recomputed(dates)
  PROVE  \A d \in Dates : d \in covered' <=>
           IF d \in dates THEN OnLeaveIn(requests, d) ELSE d \in covered
<1>1. \A d : OnLeave(d) <=> OnLeaveIn(requests, d)
  BY DEF OnLeave, OnLeaveIn, Ids
<1> QED BY <1>1 DEF Recomputed

LEMMA ShownInit == InitAll => Shown
BY LeaveAssumption DEF InitAll, Init, Shown, Dates

\* One request changed, and not what it says of the date.
LEMMA OneChanged ==
  ASSUME NEW rs, NEW qs, NEW id \in DOMAIN rs, NEW d, DOMAIN qs = DOMAIN rs,
         qs[id].kind = rs[id].kind, \A j \in DOMAIN rs : j # id => qs[j] = rs[j],
         \/ qs[id].status # "APPROVED" /\ rs[id].status # "APPROVED"
         \/ d \notin DatesOf(rs[id].kind.span)
  PROVE  OnLeaveIn(qs, d) <=> OnLeaveIn(rs, d)
<1>1. \A j \in DOMAIN rs :
        qs[j].status = "APPROVED" /\ d \in DatesOf(qs[j].kind.span)
          <=> rs[j].status = "APPROVED" /\ d \in DatesOf(rs[j].kind.span)
  <2> SUFFICES ASSUME NEW j \in DOMAIN rs
               PROVE  qs[j].status = "APPROVED" /\ d \in DatesOf(qs[j].kind.span)
                        <=> rs[j].status = "APPROVED" /\ d \in DatesOf(rs[j].kind.span)
    OBVIOUS
  <2> HIDE DEF DatesOf
  <2>1. CASE j = id
    BY <2>1
  <2>2. CASE j # id
    BY <2>2
  <2> QED BY <2>1, <2>2
<1> QED BY <1>1 DEF OnLeaveIn

LEMMA ShownNext ==
  ASSUME LeaveInv, Shown, ~RequestRaces, ~Crashes, Next
  PROVE  Shown'
<1>1. \A job : job.op \notin {"review", "cancel"} \/ job.at # "recompute" =>
        \A rs, t, d : ~Recomputing(job, rs, t, d)
  BY DEF Recomputing
<1>2. LeaveTypes /\ Idle.op = "idle"
  BY DEF LeaveInv, Idle
<1>3. ASSUME NEW h \in Handlers, BeginCreate(h) PROVE Shown'
  <2>1. PICK k \in Kinds, at \in {"check", "write"} :
          jobs' = [jobs EXCEPT ![h] = [op |-> "create", at |-> at, kind |-> k,
                                       seen |-> Len(requests)]]
    BY <1>3, CreateBegins
  <2>2. jobs[h].op = "idle" /\ requests' = requests /\ UNCHANGED <<today, covered>>
    BY <1>3, CreateBegins
  <2> QED BY <1>1, <2>1, <2>2, ShownStep
<1>4. ASSUME NEW h \in Handlers, CheckBalance(h) PROVE Shown'
  <2>1. jobs[h].at = "check" /\ requests' = requests /\ UNCHANGED <<today, covered>>
    BY <1>4, BalanceChecked
  <2>2. PICK job \in LeaveJob : jobs' = [jobs EXCEPT ![h] = job]
    BY <1>4, BalanceChecked
  <2> QED BY <1>1, <2>1, <2>2, ShownStep
<1>5. ASSUME NEW h \in Handlers, CommitCreate(h) PROVE Shown'
  <2>1. /\ jobs[h].op = "create" /\ jobs' = [jobs EXCEPT ![h] = Idle]
        /\ UNCHANGED <<today, covered>>
        /\ requests' = Append(requests, [kind |-> jobs[h].kind, status |-> "PENDING", seen |-> jobs[h].seen])
    BY <1>5 DEF CommitCreate, SetJob
  <2>2. PICK r : r = [kind |-> jobs[h].kind, status |-> "PENDING", seen |-> jobs[h].seen]
    OBVIOUS
  <2>3. r \in RequestType
    <3>1. jobs[h] \in LeaveJob
      BY <1>2 DEF LeaveTypes
    <3> QED BY <2>1, <2>2, <3>1, LeaveJobs DEF RequestType, Statuses
  <2>4. /\ \A j \in DOMAIN requests : j \in DOMAIN requests' /\ requests'[j] = requests[j]
        /\ \A j \in DOMAIN requests' : j \in DOMAIN requests \/ requests'[j] = r
    BY <1>2, <2>1, <2>2, <2>3, RequestFiled DEF LeaveTypes
  <2>5. \A d : OnLeaveIn(requests', d) <=> OnLeaveIn(requests, d)
    BY <2>2, <2>4 DEF OnLeaveIn
  <2>6. ASSUME NEW g \in Handlers, NEW d, Recomputing(jobs[g], requests, today, d)
        PROVE  Recomputing(jobs[g], requests', today, d)
    <3>1. jobs[g].id \in DOMAIN requests
      BY <2>6 DEF LeaveInv, DecisionsHold, StillSo, Recomputing
    <3> QED BY <2>4, <2>6, <3>1 DEF Recomputing
  <2> QED BY <1>1, <1>2, <2>1, <2>5, <2>6, ShownStep
<1>6. ASSUME NEW h \in Handlers, BeginReview(h) \/ BeginCancel(h) PROVE Shown'
  <2>1. jobs[h].op = "idle" /\ requests' = requests /\ UNCHANGED <<today, covered>>
    BY <1>6, DecisionBegins
  <2>2. PICK job \in LeaveJob : jobs' = [jobs EXCEPT ![h] = job]
    BY <1>6, DecisionBegins
  <2> QED BY <1>1, <2>1, <2>2, ShownStep
<1>7. ASSUME NEW h \in Handlers, CommitReview(h) \/ CommitCancel(h) PROVE Shown'
  <2>1. Deciding(jobs[h]) /\ UNCHANGED <<today, covered>>
    BY <1>7, DecisionCommits
  <2>2. PICK status \in Statuses, job \in LeaveJob :
          /\ requests' = [requests EXCEPT ![jobs[h].id].status = status]
          /\ jobs' = [jobs EXCEPT ![h] = job]
          /\ \/ job.op \in {"review", "cancel"} /\ job.at = "recompute" /\ job.id = jobs[h].id
             \/ status # "APPROVED" /\ requests[jobs[h].id].status # "APPROVED"
    BY <1>7, DecisionCommits
  <2>3. PICK id : id = jobs[h].id
    OBVIOUS
  <2>4. requests \in Seq(RequestType) /\ id \in DOMAIN requests /\ today \in Int
    BY <2>1, <2>3 DEF LeaveInv, LeaveTypes, DecisionsHold, StillSo, Deciding
  <2>5. /\ DOMAIN requests' = DOMAIN requests
        /\ requests'[id].status = status /\ requests'[id].kind = requests[id].kind
        /\ \A j \in DOMAIN requests : j # id => requests'[j] = requests[j]
    BY <2>2, <2>3, <2>4, RequestChanged
  <2>6. requests[id].kind \in Kinds
    <3>1. requests[id] \in RequestType
      BY <2>4
    <3> QED BY <3>1 DEF RequestType
  <2>7. \A g \in Handlers, d \in Dates :
          Recomputing(jobs[g], requests, today, d) => Recomputing(jobs[g], requests', today, d)
    <3> SUFFICES ASSUME NEW g \in Handlers, NEW d, Recomputing(jobs[g], requests, today, d)
                 PROVE  Recomputing(jobs[g], requests', today, d)
      OBVIOUS
    <3>1. jobs[g].id \in DOMAIN requests
      BY DEF LeaveInv, DecisionsHold, StillSo, Recomputing
    <3>2. requests'[jobs[g].id].kind = requests[jobs[g].id].kind
      BY <2>5, <3>1
    <3> QED BY <3>2 DEF Recomputing
  <2>8. ASSUME NEW d \in Dates, d < today, ~Recomputing(job, requests', today, d)
        PROVE  /\ ~Recomputing(jobs[h], requests, today, d)
               /\ OnLeaveIn(requests', d) <=> OnLeaveIn(requests, d)
    <3>1. ~Recomputing(jobs[h], requests, today, d)
      BY <1>1, <2>1 DEF Deciding
    <3>2. CASE status # "APPROVED" /\ requests[id].status # "APPROVED"
      BY <2>4, <2>5, <3>1, <3>2, OneChanged
    <3>3. CASE job.op \in {"review", "cancel"} /\ job.at = "recompute" /\ job.id = id
      <4>1. d \notin AffectedBy(requests[id].kind.span, today)
        BY <2>5, <2>8, <3>3 DEF Recomputing
      <4>2. d \notin DatesOf(requests[id].kind.span)
        BY <2>4, <2>6, <2>8, <4>1, LeaveIsAffected
      <4> QED BY <2>4, <2>5, <3>1, <4>2, OneChanged
    <3> QED BY <2>2, <2>3, <3>1, <3>2, <3>3
  <2> QED BY <2>1, <2>2, <2>7, <2>8, ShownStep
<1>8. ASSUME NEW h \in Handlers, RecomputeAffectedDays(h) PROVE Shown'
  <2>1. /\ jobs[h].op \in {"review", "cancel"} /\ jobs[h].at = "recompute"
        /\ covered' = Recomputed(AffectedDays(requests[jobs[h].id].kind.span))
        /\ jobs' = [jobs EXCEPT ![h] = Idle] /\ UNCHANGED <<requests, today>>
    BY <1>8 DEF RecomputeAffectedDays, SetJob
  <2>2. PICK dates \in SUBSET Dates :
          /\ dates = AffectedDays(requests[jobs[h].id].kind.span)
          /\ dates = AffectedBy(requests[jobs[h].id].kind.span, today)
    BY DEF AffectedDays, AffectedBy
  <2>3. \A d \in Dates : d \in covered' <=>
          IF d \in dates THEN OnLeaveIn(requests, d) ELSE d \in covered
    BY <2>1, <2>2, RecomputedDays
  <2>4. \A g \in Handlers : g # h => jobs'[g] = jobs[g]
    BY <1>2, <2>1 DEF LeaveTypes
  <2>5. \A d : Recomputing(jobs[h], requests, today, d) <=> d \in dates
    BY <2>1, <2>2 DEF Recomputing
  <2> SUFFICES ASSUME NEW d \in Dates, d < today, d >= FirstToday,
                      \A g \in Handlers : ~Recomputing(jobs'[g], requests, today, d)
               PROVE  d \in covered' <=> OnLeaveIn(requests, d)
    BY <2>1 DEF Shown
  <2>6. CASE d \in dates
    BY <2>3, <2>6
  <2>7. CASE d \notin dates
    <3>1. \A g \in Handlers : ~Recomputing(jobs[g], requests, today, d)
      BY <2>4, <2>5, <2>7
    <3>2. d \in covered <=> OnLeaveIn(requests, d)
      BY <3>1 DEF Shown
    <3> QED BY <2>3, <2>7, <3>2
  <2> QED BY <2>6, <2>7
<1>9. ASSUME NEW h \in Handlers, Abort(h) PROVE Shown'
  <2>1. /\ jobs[h].at # "recompute" /\ jobs' = [jobs EXCEPT ![h] = Idle]
        /\ requests' = requests /\ UNCHANGED <<today, covered>>
    BY <1>9 DEF Abort, SetJob
  <2> QED BY <1>1, <1>2, <2>1, ShownStep
<1>10. CASE NextDay
  <2>1. today' = today + 1 /\ covered' = Recomputed({today}) /\ UNCHANGED <<requests, jobs>>
    BY <1>10 DEF NextDay
  <2>2. today \in Int /\ \A d \in Dates : d \in Int
    BY <1>2 DEF LeaveTypes, Dates
  <2> SUFFICES ASSUME NEW d \in Dates, d < today + 1, d >= FirstToday,
                      \A g \in Handlers : ~Recomputing(jobs[g], requests, today + 1, d)
               PROVE  d \in covered' <=> OnLeaveIn(requests, d)
    BY <2>1 DEF Shown
  <2>3. \A e : OnLeave(e) <=> OnLeaveIn(requests, e)
    BY DEF OnLeave, OnLeaveIn, Ids
  <2>4. CASE d = today
    BY <2>1, <2>3, <2>4 DEF Recomputed
  <2>5. CASE d # today
    <3>1. d < today
      BY <2>2, <2>5
    <3>2. ASSUME NEW e \in Int PROVE d <= Least(e, today) => d <= Least(e, today + 1)
      BY <2>2, <3>2 DEF Least
    <3>3. ASSUME NEW g \in Handlers, Recomputing(jobs[g], requests, today, d) PROVE FALSE
      <4>1. PICK k \in Kinds : k = requests[jobs[g].id].kind
        <5>1. jobs[g].id \in DOMAIN requests
          BY <3>3 DEF LeaveInv, DecisionsHold, StillSo, Recomputing
        <5>2. requests[jobs[g].id] \in RequestType
          BY <1>2, <5>1 DEF LeaveTypes
        <5> QED BY <5>2 DEF RequestType
      <4>2. PICK e \in Int : e = k.span[2] \div DayParts
        BY LeaveAssumption
      <4>3. d \in AffectedBy(k.span, today)
        BY <3>3, <4>1 DEF Recomputing
      <4>4. d \in AffectedBy(k.span, today + 1)
        BY <3>2, <4>2, <4>3 DEF AffectedBy
      <4>5. Recomputing(jobs[g], requests, today + 1, d)
        BY <3>3, <4>1, <4>4 DEF Recomputing
      <4> QED BY <4>5
    <3>4. d \in covered <=> OnLeaveIn(requests, d)
      BY <3>1, <3>3 DEF Shown
    <3> QED BY <2>1, <2>5, <3>4 DEF Recomputed
  <2> QED BY <2>4, <2>5
<1>11. CASE NoticeExpiry \/ ChangeTerms \/ \E days \in Adjustments : AddAdjustment(days)
  <2>1. UNCHANGED <<requests, jobs, today, covered>>
    BY <1>11 DEF NoticeExpiry, ChangeTerms, AddAdjustment
  <2> QED BY <2>1 DEF Shown
<1> QED BY <1>3, <1>4, <1>5, <1>6, <1>7, <1>8, <1>9, <1>10, <1>11 DEF Next, Handle

-----------------------------------------------------------------------------
(* One behaviour is about one of them; the others stay as they began.      *)

OfDirectory ==
  IF focus = "directory" THEN DirectoryInv
  ELSE owner = [p \in Badges |-> D!Unknown] /\ counted = [e \in Employees |-> {}]

OfHistory ==
  IF focus = "assignments" THEN HistoryInv
  ELSE rows = {} /\ record = [d \in A!Past |-> A!ScheduleOn({}, d)]

OfLeave == focus = "leave" => LeaveInv

LEMMA DirectoryStep ==
  ASSUME OfDirectory, ~IngestRaces, ~SaveRaces, [NextAny]_allVars
  PROVE  OfDirectory'
<1>1. CASE focus = "directory" /\ D!Next
  <2>1. focus' = focus
    BY <1>1 DEF NextAny, allVars, D!Next, D!Handle
  <2> QED BY <1>1, <2>1, DirectoryNext DEF OfDirectory
<1>2. CASE UNCHANGED <<focus, employee, owner, counted, jobs>>
  BY <1>2 DEF OfDirectory, DirectoryInv, DirectoryTypes, IdsAreOwn, JobsAgree, Linked, CountedRight,
              Theirs
<1>3. CASE focus # "directory" /\ UNCHANGED <<focus, owner, counted>>
  BY <1>3 DEF OfDirectory
<1> QED BY <1>1, <1>2, <1>3 DEF NextAny, allVars, directory

LEMMA HistoryStep ==
  ASSUME OfHistory, ~UnassignRaces, ~UndoSwallowed, [NextAny]_allVars
  PROVE  OfHistory'
<1>1. CASE focus = "assignments" /\ A!Next /\ UNCHANGED focus
  BY <1>1, HistoryNext DEF OfHistory
<1>2. CASE UNCHANGED <<focus, rows, record, ops, jobs>>
  BY <1>2 DEF OfHistory, HistoryInv, HistoryTypes, OwnIds, UndoHolds, Followed, Adding
<1>3. CASE focus # "assignments" /\ UNCHANGED <<focus, rows, record>>
  BY <1>3 DEF OfHistory
<1> QED BY <1>1, <1>2, <1>3 DEF NextAny, allVars, history

LEMMA LeaveSteps ==
  ASSUME [NextAny]_allVars, focus = "leave"
  PROVE  focus' = focus /\ (Next \/ UNCHANGED <<requests, today, covered, jobs>>)
BY DEF NextAny, allVars, leave

LEMMA LeaveOnly ==
  ASSUME [NextAny]_allVars
  PROVE  focus' = focus
BY DEF NextAny, allVars

LEMMA LeaveHolds ==
  ASSUME OfLeave, ~RequestRaces, [NextAny]_allVars
  PROVE  OfLeave'
<1>1. CASE focus # "leave"
  BY <1>1, LeaveOnly DEF OfLeave
<1>2. CASE focus = "leave" /\ Next
  BY <1>2, LeaveSteps, LeaveNext DEF OfLeave
<1>3. CASE focus = "leave" /\ UNCHANGED <<requests, today, covered, jobs>>
  BY <1>3, LeaveSteps DEF OfLeave, LeaveInv, LeaveTypes, DecisionsHold
<1> QED BY <1>1, <1>2, <1>3, LeaveSteps

\* While an ingestion and a save, or two saves of one employee, do not overlap: when nothing is
\* under way, a punch made under an id somebody has belongs to somebody, and each employee's
\* records count exactly the punches that are theirs (linkUnmatchedPunches), for any number of
\* employees, ids, punches and handlers.
THEOREM NoPunchIsOrphaned ==
  ASSUME ~IngestRaces, ~SaveRaces
  PROVE  SpecAll => []PunchesFindTheirEmployee
<1>1. InitAll => OfDirectory
  BY DirectoryInit DEF InitAll, D!Init, OfDirectory
<1>2. OfDirectory /\ [NextAny]_allVars => OfDirectory'
  BY DirectoryStep
<1>3. OfDirectory => PunchesFindTheirEmployee
  <2> SUFFICES ASSUME OfDirectory, \A h \in Handlers : jobs[h] = D!Idle
               PROVE  /\ \A p \in Badges : D!Stored(p) /\ D!HolderOf(IdOf[p]) # None => owner[p] # None
                      /\ \A e \in Employees : counted[e] = {p \in Badges : owner[p] = e}
    BY DEF PunchesFindTheirEmployee, D!PunchesFindTheirEmployee
  <2>1. CASE focus # "directory"
    BY <2>1, BadgeAssumption DEF OfDirectory, D!Stored
  <2>2. CASE focus = "directory"
    <3>1. DirectoryInv /\ \A h \in Handlers : jobs[h].op = "idle"
      BY <2>2 DEF OfDirectory, D!Idle
    <3>2. ASSUME NEW p \in Badges, D!HolderOf(IdOf[p]) # None, owner[p] = None PROVE FALSE
      <4>1. PICK e \in Employees : employee[e].id = IdOf[p]
        BY <3>2 DEF D!HolderOf
      <4> QED BY <3>1, <3>2, <4>1 DEF DirectoryInv, Linked, WillLink
    <3>3. \A e \in Employees : counted[e] = Theirs(e)
      BY <3>1 DEF DirectoryInv, CountedRight, WillCount
    <3> QED BY <3>2, <3>3 DEF Theirs
  <2> QED BY <2>1, <2>2
<1> QED BY <1>1, <1>2, <1>3, PTL DEF SpecAll

\* While no assignment is undone beside another change, nor after a race has left one without a
\* day: every date from the first assignment on has exactly one schedule in force
\* (createAssignment, unassign), however assignments and set-ups interleave.
THEOREM OneInForce ==
  ASSUME ~UnassignRaces, ~UndoSwallowed
  PROVE  SpecAll => []OneScheduleADay
<1>1. InitAll => OfHistory
  BY HistoryInit DEF InitAll, A!Init, OfHistory
<1>2. OfHistory /\ [NextAny]_allVars => OfHistory'
  BY HistoryStep
<1>3. OfHistory => OneScheduleADay
  <2> SUFFICES ASSUME OfHistory, NEW d \in A!Dates, \E q \in rows : q.from <= d
               PROVE  A!Cardinality({r \in rows : A!InForce(r, d)}) = 1
    BY DEF OneScheduleADay, A!OneScheduleADay
  <2>0. \A S : A!Cardinality(S) = Cardinality(S)
    BY DEF A!Cardinality, Cardinality
  <2>1. HistoryInv /\ d \in Int
    BY DEF OfHistory, A!Dates
  <2>2. PICK r \in rows : A!InForce(r, d) /\ \A s \in rows : A!InForce(s, d) => s = r
    BY <2>1 DEF HistoryInv, OneAt
  <2>3. {s \in rows : A!InForce(s, d)} = {r}
    BY <2>2
  <2> QED BY <2>0, <2>3, FS_Singleton
<1> QED BY <1>1, <1>2, <1>3, PTL DEF SpecAll

\* Under the same circumstances, when nothing is under way each past date within reach was last
\* computed with the schedule the history has for it (recomputeRetroactively).
THEOREM PastFollowsSchedules ==
  ASSUME ~UnassignRaces, ~UndoSwallowed
  PROVE  SpecAll => []RecordsFollowHistory
<1>1. InitAll => OfHistory
  BY HistoryInit DEF InitAll, A!Init, OfHistory
<1>2. OfHistory /\ [NextAny]_allVars => OfHistory'
  BY HistoryStep
<1>3. OfHistory => RecordsFollowHistory
  <2> SUFFICES ASSUME OfHistory, \A h \in Handlers : jobs[h] = A!Idle,
                      NEW d \in A!Past, d >= EarliestDate
               PROVE  record[d] = A!ScheduleOn(rows, d)
    BY DEF RecordsFollowHistory, A!RecordsFollowHistory
  <2>1. CASE focus = "assignments"
    BY <2>1 DEF OfHistory, HistoryInv, Followed, A!Idle
  <2>2. CASE focus # "assignments"
    BY <2>2 DEF OfHistory
  <2> QED BY <2>1, <2>2
<1> QED BY <1>1, <1>2, <1>3, PTL DEF SpecAll

\* While a request is decided by one call at a time: however many requests are filed at once, two
\* active ones share a moment only if the later was checked before the earlier was stored
\* (create), and what is decided, cancelled or given up meanwhile adds nothing to that. With one
\* handler, or none filed meanwhile, active requests are apart. Half of LeavesStand.
THEOREM OverlapsAreFiledTogether ==
  ASSUME ~RequestRaces
  PROVE  SpecAll => [](focus = "leave" => NoOverlap)
<1>1. InitAll => OfLeave /\ Apart
  BY LeaveInit, ApartInit DEF OfLeave
<1>2. OfLeave /\ (focus = "leave" => Apart) /\ [NextAny]_allVars
        => OfLeave' /\ (focus = "leave" => Apart)'
  <2> SUFFICES ASSUME OfLeave, focus = "leave" => Apart, [NextAny]_allVars
               PROVE  OfLeave' /\ (focus = "leave" => Apart)'
    OBVIOUS
  <2>1. OfLeave'
    BY LeaveHolds
  <2>2. CASE focus # "leave"
    BY <2>1, <2>2, LeaveOnly
  <2>3. CASE focus = "leave" /\ Next
    BY <2>1, <2>3, ApartNext DEF OfLeave
  <2>4. CASE focus = "leave" /\ UNCHANGED <<requests, today, covered, jobs>>
    BY <2>1, <2>4 DEF Apart
  <2> QED BY <2>2, <2>3, <2>4, LeaveSteps
<1>3. (focus = "leave" => Apart) => (focus = "leave" => NoOverlap)
  BY Disjointness DEF Apart
<1> QED BY <1>1, <1>2, <1>3, PTL DEF SpecAll

\* While a request is decided by one call at a time and no process stops between a decision and
\* its recomputation, the record of a past date shows a leave exactly when an approved request
\* covers it, but for a decision whose recomputation is on its way (recomputeAffectedDays, the
\* finalizer), however filings, decisions, cancellations and nights interleave.
THEOREM RecordsShowLeaves ==
  ASSUME ~RequestRaces, ~Crashes
  PROVE  SpecAll => []LeavesRecorded
<1>1. InitAll => OfLeave /\ Shown
  BY LeaveInit, ShownInit DEF OfLeave
<1>2. OfLeave /\ (focus = "leave" => Shown) /\ [NextAny]_allVars
        => OfLeave' /\ (focus = "leave" => Shown)'
  <2> SUFFICES ASSUME OfLeave, focus = "leave" => Shown, [NextAny]_allVars
               PROVE  OfLeave' /\ (focus = "leave" => Shown)'
    OBVIOUS
  <2>1. OfLeave'
    BY LeaveHolds
  <2>2. CASE focus # "leave"
    BY <2>1, <2>2, LeaveOnly
  <2>3. CASE focus = "leave" /\ Next
    BY <2>1, <2>3, ShownNext DEF OfLeave
  <2>4. CASE focus = "leave" /\ UNCHANGED <<requests, today, covered, jobs>>
    BY <2>1, <2>4 DEF Shown
  <2> QED BY <2>2, <2>3, <2>4, LeaveSteps
<1>3. OfLeave /\ (focus = "leave" => Shown) => LeavesRecorded
  BY ShownDays DEF OfLeave, LeavesRecorded
<1> QED BY <1>1, <1>2, <1>3, PTL DEF SpecAll

-----------------------------------------------------------------------------
(* The catalogues: entries, who refers to them, weeks and shifts.          *)

\* What a caller is at.
Renames == [op : {"rename"}, entry : Entries, title : Titles]
Names == {<<t>> : t \in Titles}
Removes == [op : {"remove"}, entry : Entries, name : Names, stamp : Nat]
Gives == [op : {"assign"}, entry : Entries \cup {None}, who : Staff, new : BOOLEAN]
WeekRow == [day : Weekdays, save : Nat]
SavesWeek == [op : {"week"}, days : (SUBSET Weekdays) \ {{}}, seen : (SUBSET WeekRow) \cup {None},
              stamp : Nat]
SavesShift == [op : {"shift"}, field : C!Fields, value : BOOLEAN]
Calls == {C!Idle} \cup Renames \cup Removes \cup Gives \cup SavesWeek \cup SavesShift

Entry == [name : Seq(Titles \cup Nat), live : BOOLEAN]
Person == [live : BOOLEAN, of : Entries \cup {None}, wanted : Entries \cup {None}]
ShiftHours == [flexible : BOOLEAN, overnight : BOOLEAN]

\* An entry that is there, with a title of its own or, once removed, without.
Live(es, e) == es[e] # None /\ es[e].live

Titled(es) ==
    /\ es = [e \in Entries |-> es[e]]
    /\ \A e \in Entries : es[e] # None =>
          es[e] \in Entry /\ (es[e].live <=> es[e].name \in Names)

\* Nobody at work has somebody's entry.
Unused(people, e) == \A s \in Staff : people[s] # None /\ people[s].of = e => ~people[s].live

Employed(es, people) ==
    /\ people = [s \in Staff |-> people[s]]
    /\ \A s \in Staff : people[s] # None =>
          /\ people[s] \in Person
          /\ people[s].live => /\ people[s].of = people[s].wanted
                               /\ people[s].of # None => Live(es, people[s].of)

\* What one call has read still holds.
Holds(k, es, people, w, sh, job) ==
    /\ job \in Renames => Live(es, job.entry)
    /\ job \in Removes => k = "supervisor" \/ Unused(people, job.entry)
    /\ job \in Gives => /\ job.entry # None => Live(es, job.entry)
                        /\ ~job.new => people[job.who] # None
    /\ job \in SavesWeek /\ job.seen # None => job.seen = w
    /\ job \in SavesShift => C!Measurable([sh EXCEPT ![job.field] = job.value])

\* Two calls that do not overlap, one of them a removal; two of schedules, or of shifts.
Compatible(job, other) ==
    /\ job \in Removes /\ other \in Renames \cup Gives => job.entry # other.entry
    /\ job \in SavesWeek => other \notin SavesWeek
    /\ job \in SavesShift => other \notin SavesShift

\* The rows of a week are of one save.
OneSave(w) == w # {} /\ w \subseteq WeekRow /\ \A p, q \in w : p.save = q.save

CatalogueInv ==
    /\ begun \in Nat
    /\ call \in [Handlers -> Calls]
    /\ Titled(entries)
    /\ Employed(entries, staff)
    /\ OneSave(week)
    /\ hours \in ShiftHours /\ C!Measurable(hours)
    /\ \A c \in Handlers : Holds(kind, entries, staff, week, hours, call[c])
    /\ \A c, d \in Handlers : c # d => Compatible(call[c], call[d])

LEMMA KindsOfCalls ==
  ASSUME NEW job \in Calls
  PROVE  /\ job.op = "idle" <=> job = C!Idle
         /\ job.op = "rename" <=> job \in Renames
         /\ job.op = "remove" <=> job \in Removes
         /\ job.op = "assign" <=> job \in Gives
         /\ job.op = "week" <=> job \in SavesWeek
         /\ job.op = "shift" <=> job \in SavesShift
BY DEF Calls, C!Idle, Renames, Removes, Gives, SavesWeek, SavesShift

LEMMA IdleHolds ==
  /\ C!Idle \in Calls
  /\ \A k, es, people, w, sh : Holds(k, es, people, w, sh, C!Idle)
  /\ \A job \in Calls : Compatible(job, C!Idle) /\ Compatible(C!Idle, job)
<1>1. C!Idle \in Calls /\ C!Idle.op = "idle"
  BY DEF Calls, C!Idle
<1>2. C!Idle \notin Renames /\ C!Idle \notin Removes /\ C!Idle \notin Gives /\ C!Idle \notin SavesWeek
      /\ C!Idle \notin SavesShift
  BY <1>1, KindsOfCalls
<1> QED BY <1>1, <1>2 DEF Holds, Compatible

\* A call that begins is apart from those under way.
LEMMA BegunApart ==
  ASSUME ~AssignRaces, ~RenameRaces, ~WeekRaces, NEW job \in Calls, NEW other \in Calls,
         C!Apart(job, other)
  PROVE  Compatible(job, other) /\ Compatible(other, job)
<1>1. /\ ~C!Both(job, other, {"assign", "remove"})
      /\ ~C!Both(job, other, {"rename", "remove"})
      /\ job.op \in {"week", "shift"} => job.op # other.op
  BY DEF C!Apart
<1>2. job \in Removes /\ other \in Renames => job.entry # other.entry
  BY <1>1, KindsOfCalls DEF C!Both
<1>3. job \in Removes /\ other \in Gives => job.entry # other.entry
  BY <1>1, KindsOfCalls DEF C!Both
<1>4. other \in Removes /\ job \in Renames => job.entry # other.entry
  BY <1>1, KindsOfCalls DEF C!Both
<1>5. other \in Removes /\ job \in Gives => job.entry # other.entry
  BY <1>1, KindsOfCalls DEF C!Both
<1>6. /\ job \in SavesWeek => other \notin SavesWeek
      /\ job \in SavesShift => other \notin SavesShift
  BY <1>1, KindsOfCalls
<1> QED BY <1>2, <1>3, <1>4, <1>5, <1>6 DEF Compatible

\* A call begins: it only has to hold itself.
LEMMA CallBegins ==
  ASSUME ~AssignRaces, ~RenameRaces, ~WeekRaces, CatalogueInv, NEW c \in Handlers,
         NEW job \in Calls, C!Begin(c, job), UNCHANGED <<kind, entries, staff, week, hours>>,
         Holds(kind, entries, staff, week, hours, job)
  PROVE  CatalogueInv'
<1>1. /\ call' = [call EXCEPT ![c] = job] /\ begun' = begun + 1
      /\ \A d \in Handlers : C!Apart(job, call[d])
  BY DEF C!Begin
<1>2. /\ begun' \in Nat /\ call' \in [Handlers -> Calls] /\ call'[c] = job
      /\ \A d \in Handlers \ {c} : call'[d] = call[d] /\ call[d] \in Calls
  BY <1>1 DEF CatalogueInv
<1>3. \A d \in Handlers : Holds(kind, entries, staff, week, hours, call'[d])
  BY <1>2 DEF CatalogueInv
<1>4. \A d \in Handlers \ {c} : Compatible(job, call[d]) /\ Compatible(call[d], job)
  BY <1>1, <1>2, BegunApart
<1>5. ASSUME NEW d \in Handlers, NEW e \in Handlers, d # e PROVE Compatible(call'[d], call'[e])
  BY <1>2, <1>4, <1>5 DEF CatalogueInv
<1> QED BY <1>2, <1>3, <1>5 DEF CatalogueInv

\* A call ends: what it changed is right, and what the others have read still holds.
LEMMA CallEnds ==
  ASSUME CatalogueInv, NEW c \in Handlers, C!End(c),
         Titled(entries'), Employed(entries', staff'), OneSave(week'),
         hours' \in ShiftHours, C!Measurable(hours'),
         \A d \in Handlers \ {c} : Holds(kind, entries', staff', week', hours', call[d])
  PROVE  CatalogueInv'
<1>1. /\ call' = [call EXCEPT ![c] = C!Idle] /\ begun' = begun /\ kind' = kind
  BY DEF C!End
<1>2. /\ call' \in [Handlers -> Calls] /\ call'[c] = C!Idle
      /\ \A d \in Handlers \ {c} : call'[d] = call[d] /\ call[d] \in Calls
  BY <1>1, IdleHolds DEF CatalogueInv
<1>3. \A d \in Handlers : Holds(kind', entries', staff', week', hours', call'[d])
  BY <1>1, <1>2, IdleHolds
<1>4. ASSUME NEW d \in Handlers, NEW e \in Handlers, d # e PROVE Compatible(call'[d], call'[e])
  BY <1>2, <1>4, IdleHolds DEF CatalogueInv
<1> QED BY <1>1, <1>2, <1>3, <1>4 DEF CatalogueInv

LEMMA CatalogueInit == C!Init => CatalogueInv
<1> SUFFICES ASSUME C!Init PROVE CatalogueInv
  OBVIOUS
<1>1. OneSave(week)
  <2>1. PICK d : d \in Weekdays
    BY CatalogueAssumption
  <2>2. week = {[day |-> w, save |-> 0] : w \in Weekdays}
    BY DEF C!Init
  <2>3. \A p \in week : p \in WeekRow /\ p.save = 0
    BY <2>2 DEF WeekRow
  <2>4. [day |-> d, save |-> 0] \in week
    BY <2>1, <2>2
  <2> QED BY <2>3, <2>4 DEF OneSave
<1>2. hours \in ShiftHours /\ C!Measurable(hours)
  BY DEF C!Init, ShiftHours, C!Measurable
<1>3. call \in [Handlers -> Calls] /\ begun \in Nat
  BY IdleHolds DEF C!Init
<1>4. Titled(entries) /\ Employed(entries, staff)
  BY DEF C!Init, Titled, Employed
<1>5. /\ \A c \in Handlers : Holds(kind, entries, staff, week, hours, call[c])
      /\ \A c, d \in Handlers : c # d => Compatible(call[c], call[d])
  BY IdleHolds DEF C!Init
<1> QED BY <1>1, <1>2, <1>3, <1>4, <1>5 DEF CatalogueInv

\* Entries that were live still are, people refer to nothing new: what is read holds.
LEMMA StillHolds ==
  ASSUME NEW k, NEW es, NEW fs, NEW people, NEW others, NEW w, NEW sh, NEW job,
         Holds(k, es, people, w, sh, job),
         \A e \in Entries : Live(es, e) => Live(fs, e),
         \A e \in Entries : Unused(people, e) => Unused(others, e),
         \A s \in Staff : people[s] # None => others[s] # None
  PROVE  Holds(k, fs, others, w, sh, job)
BY DEF Holds, Renames, Removes, Gives

LEMMA EmployedStill ==
  ASSUME NEW es, NEW fs, NEW people, Employed(es, people),
         \A e \in Entries : Live(es, e) => Live(fs, e)
  PROVE  Employed(fs, people)
BY DEF Employed, Person

LEMMA CatalogueCreate ==
  ASSUME CatalogueInv, NEW e \in Entries, NEW t \in Titles, C!Create(e, t)
  PROVE  CatalogueInv'
<1>1. PICK row : row = [name |-> <<t>>, live |-> TRUE]
  OBVIOUS
<1>2. /\ entries[e] = None /\ entries' = [entries EXCEPT ![e] = row] /\ begun' = begun + 1
      /\ UNCHANGED <<kind, staff, week, hours, call>>
  BY <1>1 DEF C!Create
<1>3. row \in Entry /\ row.live /\ row.name \in Names
  BY <1>1 DEF Entry, Names
<1>4. /\ entries' = [f \in Entries |-> entries'[f]]
      /\ \A f \in Entries : entries'[f] = IF f = e THEN row ELSE entries[f]
  <2>1. entries = [f \in Entries |-> entries[f]]
    BY DEF CatalogueInv, Titled
  <2> QED BY <1>2, <2>1
<1>5. Titled(entries')
  BY <1>3, <1>4 DEF CatalogueInv, Titled
<1>6. \A f \in Entries : Live(entries, f) => Live(entries', f)
  BY <1>2, <1>4 DEF Live
<1>7. Employed(entries', staff)
  BY <1>6, EmployedStill DEF CatalogueInv
<1>8. \A c \in Handlers : Holds(kind, entries', staff, week, hours, call[c])
  BY <1>6, StillHolds DEF CatalogueInv
<1>9. begun' \in Nat
  BY <1>2 DEF CatalogueInv
<1> QED BY <1>2, <1>5, <1>7, <1>8, <1>9 DEF CatalogueInv

\* What one call changes, another has read nothing of, or finds as it was.
LEMMA HoldsOn ==
  ASSUME NEW k, NEW es, NEW fs, NEW people, NEW others, NEW w, NEW v, NEW sh, NEW th, NEW job,
         Holds(k, es, people, w, sh, job),
         job \in Renames \/ (job \in Gives /\ job.entry # None) =>
            (Live(es, job.entry) => Live(fs, job.entry)),
         job \in Removes => (Unused(people, job.entry) => Unused(others, job.entry)),
         \A s \in Staff : people[s] # None => others[s] # None,
         job \in SavesWeek => v = w,
         job \in SavesShift => th = sh
  PROVE  Holds(k, fs, others, v, th, job)
<1>1. job \in Renames => Live(fs, job.entry)
  BY DEF Holds
<1>2. job \in Removes => k = "supervisor" \/ Unused(others, job.entry)
  BY DEF Holds
<1>3. job \in Gives => /\ job.entry # None => Live(fs, job.entry)
                       /\ ~job.new => others[job.who] # None
  BY DEF Holds, Gives
<1>4. job \in SavesWeek /\ job.seen # None => job.seen = v
  BY DEF Holds
<1>5. job \in SavesShift => C!Measurable([th EXCEPT ![job.field] = job.value])
  BY DEF Holds
<1> QED BY <1>1, <1>2, <1>3, <1>4, <1>5 DEF Holds

LEMMA NotNone ==
  None \notin Entries /\ None \notin Entry /\ None \notin Person
BY CatalogueAssumption DEF Entry, Person

\* What begins holds.
LEMMA CatalogueBegins ==
  ASSUME ~AssignRaces, ~RenameRaces, ~WeekRaces, CatalogueInv, NEW c \in Handlers
  PROVE  /\ \A e \in Entries, t \in Titles : C!BeginRename(c, e, t) => CatalogueInv'
         /\ \A e \in Entries : C!BeginRemove(c, e) => CatalogueInv'
         /\ \A e \in Entries \cup {None}, s \in Staff : C!BeginAssign(c, s, e) => CatalogueInv'
         /\ \A days \in (SUBSET Weekdays) \ {{}} : C!BeginWeek(c, days) => CatalogueInv'
         /\ \A f \in C!Fields, value \in BOOLEAN : C!BeginShift(c, f, value) => CatalogueInv'
<1>1. ASSUME NEW e \in Entries, NEW t \in Titles, C!BeginRename(c, e, t) PROVE CatalogueInv'
  <2>1. PICK job : job = [op |-> "rename", entry |-> e, title |-> t]
    OBVIOUS
  <2>2. job \in Renames /\ job \in Calls /\ job.op = "rename" /\ job.entry = e
    BY <2>1 DEF Renames, Calls
  <2>3. Holds(kind, entries, staff, week, hours, job)
    BY <1>1, <2>2, KindsOfCalls DEF Holds, C!BeginRename, C!Live, Live
  <2>4. C!Begin(c, job) /\ UNCHANGED <<kind, entries, staff, week, hours>>
    BY <1>1, <2>1 DEF C!BeginRename
  <2> QED BY <2>2, <2>3, <2>4, CallBegins
<1>2. ASSUME NEW e \in Entries, C!BeginRemove(c, e) PROVE CatalogueInv'
  <2>1. PICK job : job = [op |-> "remove", entry |-> e, name |-> entries[e].name, stamp |-> begun + 1]
    OBVIOUS
  <2>2. entries[e] # None /\ entries[e].live /\ (C!InUse(e) => kind = "supervisor")
    BY <1>2 DEF C!BeginRemove, C!Live
  <2>3. entries[e].name \in Names /\ begun + 1 \in Nat
    BY <2>2 DEF CatalogueInv, Titled
  <2>4. job \in Removes /\ job \in Calls /\ job.op = "remove" /\ job.entry = e
    BY <2>1, <2>3 DEF Removes, Calls
  <2>5. kind = "supervisor" \/ Unused(staff, e)
    BY <2>2 DEF C!InUse, C!Users, Unused
  <2>6. Holds(kind, entries, staff, week, hours, job)
    BY <2>4, <2>5, KindsOfCalls DEF Holds
  <2>7. C!Begin(c, job) /\ UNCHANGED <<kind, entries, staff, week, hours>>
    BY <1>2, <2>1 DEF C!BeginRemove
  <2> QED BY <2>4, <2>6, <2>7, CallBegins
<1>3. ASSUME NEW e \in Entries \cup {None}, NEW s \in Staff, C!BeginAssign(c, s, e)
      PROVE  CatalogueInv'
  <2>1. PICK job : job = [op |-> "assign", entry |-> e, who |-> s, new |-> staff[s] = None]
    OBVIOUS
  <2>2. /\ job \in Gives /\ job \in Calls /\ job.op = "assign" /\ job.entry = e /\ job.who = s
        /\ job.new <=> staff[s] = None
    BY <2>1 DEF Gives, Calls
  <2>3. e # None => Live(entries, e)
    BY <1>3 DEF C!BeginAssign, C!Live, Live
  <2>4. Holds(kind, entries, staff, week, hours, job)
    BY <2>2, <2>3, KindsOfCalls DEF Holds
  <2>5. C!Begin(c, job) /\ UNCHANGED <<kind, entries, staff, week, hours>>
    BY <1>3, <2>1 DEF C!BeginAssign
  <2> QED BY <2>2, <2>4, <2>5, CallBegins
<1>4. ASSUME NEW days \in (SUBSET Weekdays) \ {{}}, C!BeginWeek(c, days) PROVE CatalogueInv'
  <2>1. PICK job : job = [op |-> "week", days |-> days, seen |-> None, stamp |-> begun + 1]
    OBVIOUS
  <2>2. begun + 1 \in Nat
    BY DEF CatalogueInv
  <2>3. job \in SavesWeek /\ job \in Calls /\ job.op = "week" /\ job.seen = None
    <3>1. None \in (SUBSET WeekRow) \cup {None}
      OBVIOUS
    <3>2. job \in SavesWeek
      BY <2>1, <2>2, <3>1 DEF SavesWeek
    <3> QED BY <2>1, <3>2 DEF Calls
  <2>4. Holds(kind, entries, staff, week, hours, job)
    BY <2>3, KindsOfCalls DEF Holds
  <2>5. C!Begin(c, job) /\ UNCHANGED <<kind, entries, staff, week, hours>>
    BY <1>4, <2>1 DEF C!BeginWeek
  <2> QED BY <2>3, <2>4, <2>5, CallBegins
<1>5. ASSUME NEW f \in C!Fields, NEW value \in BOOLEAN, C!BeginShift(c, f, value)
      PROVE  CatalogueInv'
  <2>1. PICK job : job = [op |-> "shift", field |-> f, value |-> value]
    OBVIOUS
  <2>2. job \in SavesShift /\ job \in Calls /\ job.op = "shift" /\ job.field = f /\ job.value = value
    BY <2>1 DEF SavesShift, Calls
  <2>3. C!Measurable([hours EXCEPT ![f] = value])
    BY <1>5 DEF C!BeginShift
  <2>4. Holds(kind, entries, staff, week, hours, job)
    BY <2>2, <2>3, KindsOfCalls DEF Holds
  <2>5. C!Begin(c, job) /\ UNCHANGED <<kind, entries, staff, week, hours>>
    BY <1>5, <2>1 DEF C!BeginShift
  <2> QED BY <2>2, <2>4, <2>5, CallBegins
<1> QED BY <1>1, <1>2, <1>3, <1>4, <1>5

LEMMA CatalogueRename ==
  ASSUME CatalogueInv, NEW c \in Handlers, C!Rename(c)
  PROVE  CatalogueInv'
<1>1. PICK job \in Calls : job = call[c]
  BY DEF CatalogueInv
<1>2. job \in Renames /\ C!End(c) /\ UNCHANGED <<kind, staff, week, hours>>
  BY <1>1, KindsOfCalls DEF C!Rename, C!End
<1>3. PICK e \in Entries, t \in Titles : e = job.entry /\ t = job.title
  BY <1>2 DEF Renames
<1>4. Live(entries, e) /\ entries[e] \in Entry
  BY <1>1, <1>2, <1>3 DEF CatalogueInv, Holds, Live, Titled
<1>5. PICK row : row = [name |-> <<t>>, live |-> entries[e].live]
  OBVIOUS
<1>6. row \in Entry /\ row.live /\ row.name \in Names /\ row # None
  <2>1. entries[e].live = TRUE
    BY <1>4 DEF Entry, Live
  <2>2. PICK name : name = <<t>> /\ row = [name |-> name, live |-> TRUE]
    BY <1>5, <2>1
  <2>3. name \in Seq(Titles \cup Nat) /\ name \in Names
    BY <2>2 DEF Names
  <2>4. row \in Entry
    BY <2>2, <2>3 DEF Entry
  <2> QED BY <2>1, <2>2, <2>3, <2>4, NotNone
<1>7. [entries[e] EXCEPT !.name = <<t>>] = row
  BY <1>4, <1>5 DEF Entry
<1>8. entries = [f \in Entries |-> entries[f]]
  BY DEF CatalogueInv, Titled
<1>9. \/ entries' = entries
      \/ /\ entries' = [f \in Entries |-> entries'[f]]
         /\ \A f \in Entries : entries'[f] = IF f = e THEN row ELSE entries[f]
  BY <1>1, <1>3, <1>7, <1>8 DEF C!Rename
<1>10. Titled(entries')
  BY <1>6, <1>9 DEF CatalogueInv, Titled
<1>11. \A f \in Entries : Live(entries, f) => Live(entries', f)
  BY <1>6, <1>9 DEF Live
<1>12. Employed(entries', staff)
  BY <1>11, EmployedStill DEF CatalogueInv
<1>13. \A d \in Handlers \ {c} : Holds(kind, entries', staff, week, hours, call[d])
  BY <1>11, StillHolds DEF CatalogueInv
<1> QED BY <1>2, <1>10, <1>12, <1>13, CallEnds DEF CatalogueInv

\* A removed entry has no title of those that others may have.
LEMMA Renounced ==
  ASSUME CatalogueInv, NEW c \in Handlers, call[c] \in Removes
  PROVE  C!Gone(c) \in Entry /\ ~C!Gone(c).live /\ C!Gone(c).name \notin Names
<1>1. PICK t \in Titles, n \in Nat : call[c].name = <<t>> /\ call[c].stamp = n
  BY DEF Removes, Names
<1>2. C!Gone(c) = [name |-> IF kind = "office" THEN Append(<<t>>, n) ELSE <<>>, live |-> FALSE]
  BY <1>1 DEF C!Gone, C!Freed
<1>3. PICK u : u = Append(<<t>>, n)
  OBVIOUS
<1>4. u \in Seq(Titles \cup Nat) /\ Len(u) = 2
  BY <1>3
<1>5. u \notin Names /\ <<>> \notin Names
  BY <1>4 DEF Names
<1>6. PICK name : /\ name = IF kind = "office" THEN u ELSE <<>>
                  /\ C!Gone(c) = [name |-> name, live |-> FALSE]
  BY <1>2, <1>3
<1>7. name \in Seq(Titles \cup Nat) /\ name \notin Names
  <2>1. CASE kind = "office"
    BY <1>4, <1>5, <1>6, <2>1
  <2>2. CASE kind # "office"
    BY <1>5, <1>6, <2>2
  <2> QED BY <2>1, <2>2
<1> QED BY <1>6, <1>7 DEF Entry

LEMMA CatalogueRemove ==
  ASSUME CatalogueInv, NEW c \in Handlers,
         C!RemoveOffice(c) \/ C!RemoveContract(c) \/ C!RemoveSupervisor(c)
  PROVE  CatalogueInv'
<1>1. PICK job \in Calls : job = call[c]
  BY DEF CatalogueInv
<1>2. job \in Removes /\ C!End(c) /\ UNCHANGED <<kind, week, hours>>
  BY <1>1, KindsOfCalls DEF C!RemoveOffice, C!RemoveContract, C!RemoveSupervisor, C!Removing, C!End
<1>3. PICK e \in Entries : e = job.entry
  BY <1>2 DEF Removes
<1>4. PICK row : row = C!Gone(c)
  OBVIOUS
<1>5. row \in Entry /\ ~row.live /\ row.name \notin Names
  BY <1>1, <1>2, <1>4, Renounced
<1>6. /\ entries' = [f \in Entries |-> entries'[f]]
      /\ \A f \in Entries : entries'[f] = IF f = e THEN row ELSE entries[f]
  <2>1. entries' = [entries EXCEPT ![e] = row]
    BY <1>1, <1>3, <1>4 DEF C!RemoveOffice, C!RemoveContract, C!RemoveSupervisor
  <2>2. entries = [f \in Entries |-> entries[f]]
    BY DEF CatalogueInv, Titled
  <2> QED BY <2>1, <2>2
<1>7. Titled(entries')
  BY <1>5, <1>6 DEF CatalogueInv, Titled
<1>8. \A f \in Entries \ {e} : Live(entries, f) => Live(entries', f)
  BY <1>6 DEF Live
<1>9. kind = "supervisor" \/ Unused(staff, e)
  BY <1>1, <1>2, <1>3 DEF CatalogueInv, Holds
\* Whoever has another entry is left alone.
<1>10. /\ staff' = [s \in Staff |-> staff'[s]]
       /\ \A s \in Staff : \/ staff'[s] = staff[s] /\ (staff[s] # None => staff[s].of # e \/ ~staff[s].live)
                           \/ /\ staff'[s] \in Person /\ staff[s] \in Person /\ staff[s] # None
                              /\ staff'[s].of = None /\ staff'[s].live = staff[s].live
                              /\ staff'[s].live => staff'[s].wanted = None
  <2>1. staff = [s \in Staff |-> staff[s]]
    BY DEF CatalogueInv, Employed
  <2>2. CASE C!RemoveOffice(c)
    <3>1. UNCHANGED staff /\ kind = "office"
      BY <2>2 DEF C!RemoveOffice
    <3> QED BY <1>9, <2>1, <3>1 DEF Unused
  <2>3. CASE C!RemoveContract(c)
    <3>1. staff' = [s \in Staff |-> IF s \in C!Users(e) THEN [staff[s] EXCEPT !.of = None] ELSE staff[s]]
      BY <1>1, <1>3, <2>3 DEF C!RemoveContract
    <3>2. Unused(staff, e)
      BY <1>9, <2>3 DEF C!RemoveContract
    <3>3. ASSUME NEW s \in C!Users(e)
          PROVE  /\ staff[s] \in Person /\ staff[s] # None /\ ~staff[s].live
                 /\ [staff[s] EXCEPT !.of = None] \in Person
                 /\ [staff[s] EXCEPT !.of = None].of = None
                 /\ [staff[s] EXCEPT !.of = None].live = staff[s].live
      <4>1. staff[s] \in Person /\ staff[s] # None /\ ~staff[s].live
        BY <3>2 DEF C!Users, CatalogueInv, Employed, Unused
      <4> QED BY <4>1 DEF Person
    <3>4. \A s \in Staff : s \notin C!Users(e) => (staff[s] # None => staff[s].of # e)
      BY DEF C!Users
    <3> QED BY <3>1, <3>3, <3>4
  <2>4. CASE C!RemoveSupervisor(c)
    <3>1. staff' = [s \in Staff |-> IF s \in C!Users(e)
                                    THEN [staff[s] EXCEPT !.of = None, !.wanted = None] ELSE staff[s]]
      BY <1>1, <1>3, <2>4 DEF C!RemoveSupervisor
    <3>2. ASSUME NEW s \in C!Users(e)
          PROVE  /\ staff[s] \in Person /\ staff[s] # None
                 /\ [staff[s] EXCEPT !.of = None, !.wanted = None] \in Person
                 /\ [staff[s] EXCEPT !.of = None, !.wanted = None].of = None
                 /\ [staff[s] EXCEPT !.of = None, !.wanted = None].wanted = None
                 /\ [staff[s] EXCEPT !.of = None, !.wanted = None].live = staff[s].live
      <4>1. staff[s] \in Person /\ staff[s] # None
        BY DEF C!Users, CatalogueInv, Employed
      <4> QED BY <4>1 DEF Person
    <3>3. \A s \in Staff : s \notin C!Users(e) => (staff[s] # None => staff[s].of # e)
      BY DEF C!Users
    <3> QED BY <3>1, <3>2, <3>3
  <2> QED BY <2>2, <2>3, <2>4
<1>11. Employed(entries', staff')
  <2> SUFFICES ASSUME NEW s \in Staff, staff'[s] # None
               PROVE  /\ staff'[s] \in Person
                      /\ staff'[s].live => /\ staff'[s].of = staff'[s].wanted
                                           /\ staff'[s].of # None => Live(entries', staff'[s].of)
    BY <1>10 DEF Employed
  <2>1. CASE staff'[s] = staff[s] /\ (staff[s] # None => staff[s].of # e \/ ~staff[s].live)
    <3>1. /\ staff[s] \in Person
          /\ staff[s].live => /\ staff[s].of = staff[s].wanted
                              /\ staff[s].of # None => Live(entries, staff[s].of)
      BY <2>1 DEF CatalogueInv, Employed
    <3>2. staff[s].of \in Entries \cup {None}
      BY <3>1 DEF Person
    <3> QED BY <1>8, <2>1, <3>1, <3>2
  <2>2. CASE /\ staff'[s] \in Person /\ staff'[s].of = None
             /\ staff'[s].live => staff'[s].wanted = None
    BY <2>2
  <2> QED BY <1>10, <2>1, <2>2
<1>12. ASSUME NEW d \in Handlers \ {c} PROVE Holds(kind, entries', staff', week, hours, call[d])
  <2>1. Holds(kind, entries, staff, week, hours, call[d]) /\ Compatible(job, call[d])
    BY <1>1 DEF CatalogueInv
  <2>2. call[d] \in Renames \/ (call[d] \in Gives /\ call[d].entry # None) =>
            (Live(entries, call[d].entry) => Live(entries', call[d].entry))
    <3>1. call[d] \in Renames \cup Gives => call[d].entry # e
      BY <1>2, <1>3, <2>1 DEF Compatible
    <3>2. call[d] \in Renames \/ (call[d] \in Gives /\ call[d].entry # None) => call[d].entry \in Entries
      BY DEF Renames, Gives
    <3> QED BY <1>8, <3>1, <3>2
  <2>3. call[d] \in Removes => (Unused(staff, call[d].entry) => Unused(staff', call[d].entry))
    <3>1. call[d] \in Removes => call[d].entry # None
      BY NotNone DEF Removes
    <3> QED BY <1>10, <3>1 DEF Unused
  <2>4. \A s \in Staff : staff[s] # None => staff'[s] # None
    BY <1>10, NotNone
  <2> QED BY <2>1, <2>2, <2>3, <2>4, HoldsOn
<1> QED BY <1>2, <1>7, <1>11, <1>12, CallEnds DEF CatalogueInv

LEMMA CatalogueAssign ==
  ASSUME CatalogueInv, NEW c \in Handlers, C!Assign(c)
  PROVE  CatalogueInv'
<1>1. PICK job \in Calls : job = call[c]
  BY DEF CatalogueInv
<1>2. job \in Gives /\ C!End(c) /\ UNCHANGED <<kind, entries, week, hours>>
  BY <1>1, KindsOfCalls DEF C!Assign, C!End
<1>3. PICK e \in Entries \cup {None}, s \in Staff : e = job.entry /\ s = job.who
  BY <1>2 DEF Gives
<1>4. (e # None => Live(entries, e)) /\ (~job.new => staff[s] # None) /\ job.new \in BOOLEAN
  BY <1>1, <1>2, <1>3 DEF CatalogueInv, Holds, Gives
<1>5. PICK person : person = [live |-> job.new \/ staff[s].live, of |-> e, wanted |-> e]
  OBVIOUS
<1>6. person \in Person /\ person # None /\ person.of = e /\ person.wanted = e
  <2>1. PICK b \in BOOLEAN : person = [live |-> b, of |-> e, wanted |-> e]
    <3>1. CASE job.new
      BY <1>5, <3>1
    <3>2. CASE ~job.new
      <4>1. staff[s] \in Person
        BY <1>4, <3>2 DEF CatalogueInv, Employed
      <4>2. staff[s].live \in BOOLEAN
        BY <4>1 DEF Person
      <4>3. person = [live |-> staff[s].live, of |-> e, wanted |-> e]
        BY <1>5, <3>2, <4>2
      <4> QED BY <4>2, <4>3
    <3> QED BY <1>4, <3>1, <3>2
  <2>2. person \in Person
    BY <2>1 DEF Person
  <2> QED BY <2>1, <2>2, NotNone
<1>7. staff = [q \in Staff |-> staff[q]]
  BY DEF CatalogueInv, Employed
<1>8. \/ staff' = staff
      \/ /\ staff' = [q \in Staff |-> staff'[q]]
         /\ \A q \in Staff : staff'[q] = IF q = s THEN person ELSE staff[q]
  BY <1>1, <1>3, <1>5, <1>7 DEF C!Assign
<1>9. Employed(entries, staff')
  BY <1>4, <1>6, <1>8 DEF CatalogueInv, Employed
<1>10. ASSUME NEW d \in Handlers \ {c} PROVE Holds(kind, entries, staff', week, hours, call[d])
  <2>1. Holds(kind, entries, staff, week, hours, call[d]) /\ Compatible(call[d], job)
    BY <1>1 DEF CatalogueInv
  <2>2. call[d] \in Removes => (Unused(staff, call[d].entry) => Unused(staff', call[d].entry))
    <3>1. call[d] \in Removes => call[d].entry # e
      BY <1>2, <1>3, <2>1 DEF Compatible
    <3> QED BY <1>6, <1>8, <3>1 DEF Unused
  <2>3. \A q \in Staff : staff[q] # None => staff'[q] # None
    BY <1>6, <1>8
  <2> QED BY <2>1, <2>2, <2>3, HoldsOn
<1> QED BY <1>2, <1>9, <1>10, CallEnds DEF CatalogueInv

LEMMA CatalogueLeaver ==
  ASSUME CatalogueInv, NEW s \in Staff, C!RemoveEmployee(s)
  PROVE  CatalogueInv'
<1>1. /\ staff[s] # None /\ staff' = [staff EXCEPT ![s].live = FALSE] /\ begun' = begun + 1
      /\ UNCHANGED <<kind, entries, week, hours, call>>
  BY DEF C!RemoveEmployee
<1>2. staff[s] \in Person
  BY <1>1 DEF CatalogueInv, Employed
<1>3. PICK person : person = [staff[s] EXCEPT !.live = FALSE]
  OBVIOUS
<1>4. person \in Person /\ ~person.live /\ person # None
  BY <1>2, <1>3, NotNone DEF Person
<1>5. /\ staff' = [q \in Staff |-> staff'[q]]
      /\ \A q \in Staff : staff'[q] = IF q = s THEN person ELSE staff[q]
  <2>1. staff = [q \in Staff |-> staff[q]]
    BY DEF CatalogueInv, Employed
  <2> QED BY <1>1, <1>3, <2>1
<1>6. Employed(entries, staff')
  BY <1>4, <1>5 DEF CatalogueInv, Employed
<1>7. \A e \in Entries : Unused(staff, e) => Unused(staff', e)
  BY <1>4, <1>5 DEF Unused
<1>8. \A q \in Staff : staff[q] # None => staff'[q] # None
  BY <1>4, <1>5
<1>9. \A c \in Handlers : Holds(kind, entries, staff', week, hours, call[c])
  BY <1>7, <1>8, StillHolds DEF CatalogueInv
<1>10. begun' \in Nat
  BY <1>1 DEF CatalogueInv
<1> QED BY <1>1, <1>6, <1>9, <1>10 DEF CatalogueInv

LEMMA CatalogueDeleteWeek ==
  ASSUME CatalogueInv, NEW c \in Handlers, C!DeleteWeek(c)
  PROVE  CatalogueInv'
<1>1. PICK job \in Calls : job = call[c]
  BY DEF CatalogueInv
<1>2. job \in SavesWeek /\ UNCHANGED <<kind, entries, staff, week, hours, begun>>
  BY <1>1, KindsOfCalls DEF C!DeleteWeek
<1>3. PICK next : next = [job EXCEPT !.seen = week]
  OBVIOUS
<1>4. next \in SavesWeek /\ next \in Calls /\ next.seen = week /\ next.op = "week"
  BY <1>2, <1>3 DEF SavesWeek, Calls, CatalogueInv, OneSave
<1>5. /\ call' \in [Handlers -> Calls] /\ call'[c] = next
      /\ \A d \in Handlers \ {c} : call'[d] = call[d] /\ call[d] \in Calls
  <2>1. call' = [call EXCEPT ![c] = next]
    BY <1>1, <1>3 DEF C!DeleteWeek
  <2> QED BY <1>4, <2>1 DEF CatalogueInv
<1>6. Holds(kind, entries, staff, week, hours, next)
  BY <1>4, KindsOfCalls DEF Holds
<1>7. \A d \in Handlers : Holds(kind, entries, staff, week, hours, call'[d])
  BY <1>5, <1>6 DEF CatalogueInv
<1>8. ASSUME NEW d \in Handlers \ {c} PROVE Compatible(next, call[d]) /\ Compatible(call[d], next)
  <2>1. Compatible(job, call[d]) /\ Compatible(call[d], job)
    BY <1>1 DEF CatalogueInv
  <2>2. call[d] \notin SavesWeek
    BY <1>2, <2>1 DEF Compatible
  <2>3. next \notin Renames /\ next \notin Removes /\ next \notin Gives /\ next \notin SavesShift
    BY <1>4, KindsOfCalls
  <2> QED BY <2>2, <2>3 DEF Compatible
<1>9. ASSUME NEW d \in Handlers, NEW e \in Handlers, d # e PROVE Compatible(call'[d], call'[e])
  BY <1>5, <1>8, <1>9 DEF CatalogueInv
<1> QED BY <1>2, <1>5, <1>7, <1>9 DEF CatalogueInv

LEMMA CatalogueWriteWeek ==
  ASSUME CatalogueInv, NEW c \in Handlers, C!WriteWeek(c)
  PROVE  CatalogueInv'
<1>1. PICK job \in Calls : job = call[c]
  BY DEF CatalogueInv
<1>2. job \in SavesWeek /\ job.seen # None /\ C!End(c) /\ UNCHANGED <<kind, entries, staff, hours>>
  BY <1>1, KindsOfCalls DEF C!WriteWeek, C!End
<1>3. job.seen = week /\ job.days \in (SUBSET Weekdays) \ {{}} /\ job.stamp \in Nat
  BY <1>1, <1>2 DEF CatalogueInv, Holds, SavesWeek
<1>4. PICK w : w = {[day |-> d, save |-> job.stamp] : d \in job.days}
  OBVIOUS
<1>5. week' = w
  <2>1. week \ job.seen = {}
    BY <1>3
  <2>2. PICK gone : gone = week \ call[c].seen
    OBVIOUS
  <2>3. gone = {} /\ {r.day : r \in gone} \cap call[c].days = {}
    BY <1>1, <2>1, <2>2
  <2>4. week' = gone \cup w
    BY <1>1, <1>4, <2>2, <2>3 DEF C!WriteWeek
  <2> QED BY <2>3, <2>4
<1>6. OneSave(w)
  <2>1. \A p \in w : p \in WeekRow /\ p.save = job.stamp
    BY <1>3, <1>4 DEF WeekRow
  <2>2. PICK d : d \in job.days
    <3>1. PICK days \in SUBSET Weekdays : days = job.days /\ days # {}
      BY <1>3
    <3> QED BY <3>1
  <2>3. [day |-> d, save |-> job.stamp] \in w
    BY <1>4, <2>2
  <2> QED BY <2>1, <2>3 DEF OneSave
<1>7. ASSUME NEW d \in Handlers \ {c} PROVE Holds(kind, entries, staff, w, hours, call[d])
  <2>1. Holds(kind, entries, staff, week, hours, call[d]) /\ call[d] \notin SavesWeek
    BY <1>1, <1>2 DEF CatalogueInv, Compatible
  <2> QED BY <2>1, HoldsOn
<1> QED BY <1>2, <1>5, <1>6, <1>7, CallEnds DEF CatalogueInv

LEMMA CatalogueWriteShift ==
  ASSUME CatalogueInv, NEW c \in Handlers, C!WriteShift(c)
  PROVE  CatalogueInv'
<1>1. PICK job \in Calls : job = call[c]
  BY DEF CatalogueInv
<1>2. job \in SavesShift /\ C!End(c) /\ UNCHANGED <<kind, entries, staff, week>>
  BY <1>1, KindsOfCalls DEF C!WriteShift, C!End
<1>3. PICK sh : sh = [hours EXCEPT ![job.field] = job.value]
  OBVIOUS
<1>4. hours' = sh
  BY <1>1, <1>3 DEF C!WriteShift
<1>5. C!Measurable(sh)
  BY <1>1, <1>2, <1>3 DEF CatalogueInv, Holds
<1>6. sh \in ShiftHours
  <2>1. hours \in ShiftHours /\ job.field \in {"flexible", "overnight"} /\ job.value \in BOOLEAN
    BY <1>2 DEF CatalogueInv, SavesShift, C!Fields
  <2> QED BY <1>3, <2>1 DEF ShiftHours
<1>7. ASSUME NEW d \in Handlers \ {c} PROVE Holds(kind, entries, staff, week, sh, call[d])
  <2>1. Holds(kind, entries, staff, week, hours, call[d]) /\ call[d] \notin SavesShift
    BY <1>1, <1>2 DEF CatalogueInv, Compatible
  <2> QED BY <2>1, HoldsOn
<1> QED BY <1>2, <1>4, <1>5, <1>6, <1>7, CallEnds DEF CatalogueInv

LEMMA CatalogueNext ==
  ASSUME ~AssignRaces, ~RenameRaces, ~WeekRaces, CatalogueInv, C!Next
  PROVE  CatalogueInv'
<1>1. CASE C!EditEntries
  BY <1>1, CatalogueCreate, CatalogueLeaver, CatalogueBegins, CatalogueRename, CatalogueAssign,
     CatalogueRemove DEF C!EditEntries
<1>2. CASE C!EditSchedules
  BY <1>2, CatalogueBegins, CatalogueDeleteWeek, CatalogueWriteWeek, CatalogueWriteShift
  DEF C!EditSchedules
<1> QED BY <1>1, <1>2 DEF C!Next

\* While no entry is removed beside its being given or renamed, and no two saves of a schedule or
\* of a shift overlap: an employee still has the department, position, contract type or supervisor
\* given last, and it is there; what was removed holds no name another may want; a weekly schedule
\* is what one save made it and each shift can be measured (remove, assertReferences,
\* updateSchedule, validateShift), however many other calls interleave.
THEOREM CataloguesKeepTheirWord ==
  ASSUME ~AssignRaces, ~RenameRaces, ~WeekRaces
  PROVE  SpecAll => []CataloguesStand
<1>1. InitAll => CatalogueInv
  BY CatalogueInit DEF InitAll
<1>2. CatalogueInv /\ [NextAny]_allVars => CatalogueInv'
  <2>1. CASE C!Next
    BY <2>1, CatalogueNext
  <2>2. CASE UNCHANGED catalogue
    BY <2>2 DEF catalogue, CatalogueInv
  <2>3. [NextAny]_allVars => C!Next \/ UNCHANGED catalogue
    BY DEF NextAny, allVars
  <2> QED BY <2>1, <2>2, <2>3
<1>3. CatalogueInv => CataloguesStand
  <2> SUFFICES ASSUME CatalogueInv PROVE CataloguesStand
    OBVIOUS
  <2>1. C!ReferencesStand
    BY DEF CatalogueInv, Employed, Live, C!Live, C!ReferencesStand
  <2>2. C!NamesComeBack
    BY DEF CatalogueInv, Titled, Names, C!NamesComeBack
  <2>3. C!SchedulesHold
    <3>1. PICK p \in week : TRUE
      BY DEF CatalogueInv, OneSave
    <3>2. {r.save : r \in week} = {p.save}
      BY DEF CatalogueInv, OneSave
    <3>3. Cardinality({p.save}) = 1
      BY FS_Singleton
    <3>4. \A S : C!Cardinality(S) = Cardinality(S)
      BY DEF C!Cardinality, Cardinality
    <3> QED BY <3>2, <3>3, <3>4 DEF CatalogueInv, C!SchedulesHold
  <2> QED BY <2>1, <2>2, <2>3 DEF CataloguesStand, C!CataloguesStand
<1> QED BY <1>1, <1>2, <1>3, PTL DEF SpecAll
=============================================================================
