---------------------- MODULE AttendanceRecordsProofs -----------------------
(***************************************************************************)
(* Proofs about AttendanceRecords, for any number of requests, jobs,        *)
(* reviews, punches, leaves and days: a proposal of overtime follows its    *)
(* record, a reviewed one is kept when no reviews race, and every record    *)
(* ends up as the facts say when neither two computations of one day nor    *)
(* plans race and every request goes on to its end.                         *)
(***************************************************************************)
EXTENDS AttendanceRecords, TLAPS

\* Computations are done by workers and decisions by reviewers; whoever is in no
\* computation has no day left to compute.
Placed ==
  \A h \in Handlers :
    /\ h \in Reviewers => job[h].pc \in {"idle", "deciding"}
    /\ h \in Workers => job[h].pc # "deciding"
    /\ job[h].pc \notin {"idle", "deciding"} => job[h].task # "review"
    /\ job[h].pc \in {"idle", "filling", "listing", "missing", "deciding"} =>
         job[h].queue = {}

\* The row lock: one transaction at a time has upserted the record of a day.
Exclusive ==
  \A g, h \in Workers :
    At(g, "closing") /\ At(h, "closing") /\ job[g].day = job[h].day => g = h

\* Beside an open transaction, the overtime row it has read is still there, or
\* still not; only a decision may have changed it.
Held ==
  \A h \in Workers : At(h, "closing") =>
    /\ job[h].old = None <=> overtime[job[h].day] = None
    /\ Reviewed(job[h].old) => Reviewed(overtime[job[h].day])
    /\ ~ReviewRaces => job[h].old = overtime[job[h].day]

\* One decision at a time on a day, and none made since it was found pending.
Undecided ==
  ~ReviewRaces =>
    /\ \A g, h \in Reviewers :
         At(g, "deciding") /\ At(h, "deciding") /\ job[g].day = job[h].day => g = h
    /\ \A h \in Reviewers : At(h, "deciding") => ~Reviewed(overtime[job[h].day])

IInv == TypeOK /\ Placed /\ Exclusive /\ Held /\ Undecided /\ OvertimeFollows

-----------------------------------------------------------------------------
(* What the handlers keep has its type.                                    *)

LEMMA DaysNat == Days \subseteq Nat /\ 0 \in Days /\ LastDay \in Days
BY DayAssumption DEF Days

LEMMA IdleJobType == IdleJob \in Job
BY DaysNat DEF IdleJob, Job

LEMMA FactsOnType == \A d : FactsOn(d) \subseteq Facts
BY DEF FactsOn

LEMMA MinutesType == ASSUME NEW r \in Record PROVE MinutesOf(r) \in Nat
BY OvertimeAssumption DEF Record, MinutesOf

LEMMA OutcomeType ==
  ASSUME TypeOK, NEW h \in Handlers
  PROVE  Outcome(h) \in Record /\ MinutesOf(Outcome(h)) \in Nat /\ Outcome(h) # None
<1>1. job[h] \in Job
  BY DEF TypeOK
<1>2. Outcome(h) \in Record
  BY <1>1 DEF Job, Record, Outcome
<1>3. QED
  BY <1>2, MinutesType, NoneAssumption

\* A job that goes on has its type, if its next step is one.
LEMMA KeepType ==
  ASSUME TypeOK, NEW h \in Handlers,
         NEW s \in {"idle", "loading", "reading", "filling", "missing"}
  PROVE  Keep(h, s) \in Job
<1>1. job[h] \in Job
  BY DEF TypeOK
<1>2. CASE s = "idle"
  BY <1>2, IdleJobType DEF Keep
<1>3. CASE s # "idle"
  <2>1. Keep(h, s) = [job[h] EXCEPT !.pc = s, !.seen = {}, !.final = FALSE, !.old = None,
                                    !.day = 0]
    BY <1>3 DEF Keep
  <2>2. QED
    BY <1>1, <2>1, DaysNat DEF Job
<1>4. QED
  BY <1>2, <1>3

\* Only the job of h changes.
LEMMA OneJob ==
  ASSUME TypeOK, NEW h \in Handlers, NEW j, job' = [job EXCEPT ![h] = j]
  PROVE  /\ job'[h] = j
         /\ \A g \in Handlers \ {h} : job'[g] = job[g]
         /\ j \in Job => job' \in [Handlers -> Job]
BY DEF TypeOK

\* A worker goes on, or ends, without a transaction and without writing overtime.
LEMMA QuietStep ==
  ASSUME IInv, NEW h \in Workers, NEW j \in Job, job' = [job EXCEPT ![h] = j],
         j.pc \notin {"closing", "deciding"},
         j.pc # "idle" => j.task # "review",
         j.pc \in {"idle", "filling", "listing", "missing"} => j.queue = {},
         UNCHANGED overtime,
         \A d \in Days : record'[d] = record[d] \/ record'[d] = None
  PROVE  /\ job' \in [Handlers -> Job]
         /\ Placed' /\ Exclusive' /\ Held' /\ Undecided' /\ OvertimeFollows'
<1>1. h \in Handlers /\ h \notin Reviewers
  BY HandlerAssumption DEF Handlers, Workers
<1>2. /\ job'[h] = j /\ job' \in [Handlers -> Job]
      /\ \A g \in Handlers \ {h} : job'[g] = job[g]
  BY <1>1, OneJob DEF IInv
<1>3. Placed'
  BY <1>1, <1>2 DEF IInv, Placed
<1>4. Exclusive' /\ Held'
  BY <1>1, <1>2 DEF IInv, Exclusive, Held, At, Handlers
<1>5. Undecided'
  BY <1>1, <1>2 DEF IInv, Undecided, At, Handlers
<1>6. OvertimeFollows'
  BY DEF IInv, OvertimeFollows
<1>7. QED
  BY <1>2, <1>3, <1>4, <1>5, <1>6

-----------------------------------------------------------------------------
(* Time and changes.                                                       *)

LEMMA Initially == Init => IInv
<1> SUFFICES ASSUME Init PROVE IInv
  OBVIOUS
<1>1. TypeOK
  BY DayAssumption, BoundAssumption, IdleJobType DEF Init, TypeOK, Days
<1>2. Placed /\ Exclusive /\ Held /\ Undecided
  BY HandlerAssumption
  DEF Init, Placed, Exclusive, Held, Undecided, At, IdleJob, Handlers, Workers
<1>3. OvertimeFollows
  BY DEF Init, OvertimeFollows
<1>4. QED
  BY <1>1, <1>2, <1>3 DEF IInv

LEMMA TimeStep == IInv /\ (NextDate \/ WindowEnds) => IInv'
<1> SUFFICES ASSUME IInv, NextDate \/ WindowEnds PROVE IInv'
  OBVIOUS
<1>1. UNCHANGED <<facts, special, record, overtime, rows, job, lastRun, spent>>
  BY DEF NextDate, WindowEnds
<1>2. today' \in Days /\ ended' \in 0..(LastDay + 1)
  BY DayAssumption DEF NextDate, WindowEnds, IInv, TypeOK, Days
<1>3. TypeOK'
  BY <1>1, <1>2 DEF IInv, TypeOK
<1>4. Placed' /\ Exclusive' /\ Held' /\ Undecided' /\ OvertimeFollows'
  BY <1>1 DEF IInv, Placed, Exclusive, Held, Undecided, OvertimeFollows, At
<1>5. QED
  BY <1>3, <1>4 DEF IInv

\* What a request goes on with once it has changed something.
Starts(h, task, queue) ==
  \E j \in Job : /\ job' = [job EXCEPT ![h] = j]
                 /\ j.pc = "loading" /\ j.task = task /\ j.queue = queue /\ j.asOf = 0

LEMMA ProcessStarts ==
  ASSUME NEW h \in Handlers, NEW d \in Days, ProcessEvents(h, d)
  PROVE  Starts(h, "events", {d})
<1> DEFINE j == [IdleJob EXCEPT !.pc = "loading", !.task = "events", !.queue = {d}, !.from = d]
<1>1. j \in Job /\ j.pc = "loading" /\ j.task = "events" /\ j.queue = {d} /\ j.asOf = 0
  BY DaysNat DEF IdleJob, Job
<1>2. job' = [job EXCEPT ![h] = j]
  BY DEF ProcessEvents
<1>3. QED
  BY <1>1, <1>2 DEF Starts

LEMMA RangeStarts ==
  ASSUME NEW h \in Handlers, NEW days \in SUBSET Days, RecomputeRange(h, days)
  PROVE  Starts(h, "range", days)
<1> DEFINE j == [IdleJob EXCEPT !.pc = "loading", !.queue = days]
<1>1. j \in Job /\ j.pc = "loading" /\ j.task = "range" /\ j.queue = days /\ j.asOf = 0
  BY DaysNat DEF IdleJob, Job
<1>2. job' = [job EXCEPT ![h] = j]
  BY DEF RecomputeRange
<1>3. QED
  BY <1>1, <1>2 DEF Starts

\* Whatever is changed, the request goes on with its days.
LEMMA ChangeEffect ==
  ASSUME IInv, NEW h \in Changers,
         \/ \E f \in Punches : StorePunch(h, f) \/ VoidEvent(h, f)
         \/ \E f \in Leaves : ReviewLeave(h, f)
         \/ \E d \in Days : ChangePlan(h, d)
         \/ RequestRecompute(h)
  PROVE  /\ UNCHANGED <<today, ended, record, overtime, rows, lastRun>>
         /\ At(h, "idle")
         /\ facts' \in [Facts -> {"absent", "live", "gone"}] /\ special' \in SUBSET Days
         /\ spent' \in [changes : 0..MaxChanges, faults : 0..MaxFaults]
         /\ \E task \in {"events", "range"}, queue \in SUBSET Days : Starts(h, task, queue)
<1>1. Change => spent' \in [changes : 0..MaxChanges, faults : 0..MaxFaults]
  BY BoundAssumption DEF Change, IInv, TypeOK
<1>2. /\ facts \in [Facts -> {"absent", "live", "gone"}] /\ special \in SUBSET Days
      /\ h \in Handlers
  BY DEF IInv, TypeOK, Handlers, Workers
<1>3. ASSUME NEW f \in Punches, StorePunch(h, f) \/ VoidEvent(h, f)
      PROVE  /\ UNCHANGED <<today, ended, special, record, overtime, rows, lastRun>>
             /\ At(h, "idle") /\ Change
             /\ facts' \in [Facts -> {"absent", "live", "gone"}]
             /\ \E queue \in SUBSET Days : Starts(h, "events", queue)
  <2>1. DayOf[f] \in Days /\ {DayOf[f]} \in SUBSET Days
    BY FactAssumption DEF Facts
  <2>2. ProcessEvents(h, DayOf[f])
    BY <1>3 DEF StorePunch, VoidEvent
  <2>3. Starts(h, "events", {DayOf[f]})
    BY <1>2, <2>1, <2>2, ProcessStarts
  <2>4. /\ UNCHANGED <<today, ended, special, record, overtime, rows, lastRun>>
        /\ At(h, "idle") /\ Change
    BY <1>3 DEF StorePunch, VoidEvent
  <2>5. facts' \in [Facts -> {"absent", "live", "gone"}]
    BY <1>2, <1>3 DEF StorePunch, VoidEvent
  <2>6. QED
    BY <2>1, <2>3, <2>4, <2>5
<1>4. ASSUME NEW f \in Leaves, ReviewLeave(h, f)
      PROVE  /\ UNCHANGED <<today, ended, special, record, overtime, rows, lastRun>>
             /\ At(h, "idle") /\ Change
             /\ facts' \in [Facts -> {"absent", "live", "gone"}]
             /\ \E queue \in SUBSET Days : RecomputeRange(h, queue)
  BY <1>2, <1>4 DEF ReviewLeave
<1>5. ASSUME NEW d \in Days, ChangePlan(h, d)
      PROVE  /\ UNCHANGED <<today, ended, facts, record, overtime, rows, lastRun>>
             /\ At(h, "idle") /\ Change /\ special' \in SUBSET Days
             /\ \E queue \in SUBSET Days : RecomputeRange(h, queue)
  BY <1>2, <1>5 DEF ChangePlan
<1>6. ASSUME RequestRecompute(h)
      PROVE  /\ UNCHANGED <<today, ended, facts, special, record, overtime, rows, lastRun>>
             /\ At(h, "idle") /\ Change
             /\ \E queue \in SUBSET Days : RecomputeRange(h, queue)
  <2>1. PICK from \in Days, to \in Days : RecomputeRange(h, from..to)
    BY <1>6 DEF RequestRecompute
  <2>2. from..to \in SUBSET Days
    BY DayAssumption DEF Days
  <2>3. \E queue \in SUBSET Days : RecomputeRange(h, queue)
    BY <2>1, <2>2
  <2>4. /\ UNCHANGED <<today, ended, facts, special, record, overtime, rows, lastRun>>
        /\ At(h, "idle") /\ Change
    BY <1>6 DEF RequestRecompute
  <2>5. QED
    BY <2>3, <2>4
<1>7. CASE \E f \in Punches : StorePunch(h, f) \/ VoidEvent(h, f)
  BY <1>1, <1>2, <1>3, <1>7
<1>8. CASE \E f \in Leaves : ReviewLeave(h, f)
  BY <1>1, <1>2, <1>4, <1>8, RangeStarts
<1>9. CASE \E d \in Days : ChangePlan(h, d)
  BY <1>1, <1>2, <1>5, <1>9, RangeStarts
<1>10. CASE RequestRecompute(h)
  BY <1>1, <1>2, <1>6, <1>10, RangeStarts
<1>11. QED
  BY <1>7, <1>8, <1>9, <1>10

LEMMA ChangeStep ==
  ASSUME IInv, NEW h \in Changers,
         \/ \E f \in Punches : StorePunch(h, f) \/ VoidEvent(h, f)
         \/ \E f \in Leaves : ReviewLeave(h, f)
         \/ \E d \in Days : ChangePlan(h, d)
         \/ RequestRecompute(h)
  PROVE  IInv'
<1>1. PICK task \in {"events", "range"}, j \in Job :
        /\ job' = [job EXCEPT ![h] = j] /\ j.pc = "loading" /\ j.task = task
  BY ChangeEffect DEF Starts
<1>2. /\ job' \in [Handlers -> Job]
      /\ Placed' /\ Exclusive' /\ Held' /\ Undecided' /\ OvertimeFollows'
  BY <1>1, ChangeEffect, QuietStep DEF Workers
<1>3. TypeOK'
  BY <1>2, ChangeEffect DEF IInv, TypeOK
<1>4. QED
  BY <1>2, <1>3 DEF IInv

-----------------------------------------------------------------------------
(* The steps of a computation.                                             *)

LEMMA AfterQueueValues ==
  /\ AfterQueue["events"] = "filling" /\ AfterQueue["range"] = "idle"
  /\ AfterQueue["finalize"] = "missing"
BY DEF AfterQueue

\* What a job computes with once it has loaded the calendar.
LEMMA LoadEffect ==
  ASSUME IInv, NEW h \in Workers, LoadCalendar(h)
  PROVE  \E j \in Job :
           /\ job' = [job EXCEPT ![h] = j]
           /\ j.queue = Due(h)
           /\ j.pc = IF Due(h) # {} THEN "reading" ELSE AfterQueue[job[h].task]
           /\ j.pc # "idle" => j.calendar = special /\ j.task = job[h].task
           /\ j.asOf \in {0, today, job[h].asOf}
<1> DEFINE next == IF Due(h) # {} THEN "reading" ELSE AfterQueue[job[h].task]
           j == [Keep(h, next) EXCEPT
                   !.queue = Due(h),
                   !.asOf = IF next # "idle" /\ job[h].task # "finalize" THEN today ELSE @,
                   !.calendar = IF next # "idle" THEN special ELSE @]
<1>1. /\ h \in Handlers /\ job[h] \in Job /\ today \in Days /\ special \in SUBSET Days
      /\ job[h].task \in {"events", "range", "finalize"}
  BY DEF Handlers, IInv, TypeOK, Job, Placed, LoadCalendar, At
<1>2. Due(h) \in SUBSET Days
  BY <1>1 DEF Due, Job
<1>3. next \in {"idle", "reading", "filling", "missing"}
  BY <1>1, AfterQueueValues
<1>4. Keep(h, next) \in Job
  BY <1>1, <1>3, KeepType DEF IInv
<1>5. /\ Keep(h, next).pc = next
      /\ next # "idle" => Keep(h, next).task = job[h].task /\ Keep(h, next).asOf = job[h].asOf
      /\ next = "idle" => Keep(h, next).asOf = 0
  <2>1. CASE next = "idle"
    BY <2>1 DEF Keep, IdleJob
  <2>2. CASE next # "idle"
    <3>1. Keep(h, next) = [job[h] EXCEPT !.pc = next, !.seen = {}, !.final = FALSE, !.old = None,
                                         !.day = 0]
      BY <2>2 DEF Keep
    <3>2. QED
      BY <1>1, <2>2, <3>1 DEF Job
  <2>3. QED
    BY <2>1, <2>2
<1>6. /\ j \in Job /\ j.queue = Due(h) /\ j.pc = next
      /\ next # "idle" => j.calendar = special /\ j.task = job[h].task
      /\ j.asOf \in {0, today, job[h].asOf}
  <2> HIDE DEF next
  <2>1. QED
    BY <1>1, <1>2, <1>4, <1>5 DEF Job
<1>7. job' = [job EXCEPT ![h] = j]
  BY DEF LoadCalendar
<1>8. QED
  BY <1>6, <1>7

LEMMA LoadStep == ASSUME IInv, NEW h \in Workers, LoadCalendar(h) PROVE IInv'
<1>1. PICK j \in Job :
        /\ job' = [job EXCEPT ![h] = j]
        /\ j.queue = Due(h)
        /\ j.pc = IF Due(h) # {} THEN "reading" ELSE AfterQueue[job[h].task]
        /\ j.pc # "idle" => j.task = job[h].task
  BY LoadEffect
<1>2. job[h].task \in {"events", "range", "finalize"}
  BY DEF Handlers, IInv, TypeOK, Job, Placed, LoadCalendar, At
<1>3. UNCHANGED <<today, ended, facts, special, record, overtime, rows, lastRun, spent>>
  BY DEF LoadCalendar
<1>4. /\ job' \in [Handlers -> Job]
      /\ Placed' /\ Exclusive' /\ Held' /\ Undecided' /\ OvertimeFollows'
  <2>1. /\ j.pc \notin {"closing", "deciding"}
        /\ j.pc # "idle" => j.task # "review"
        /\ j.pc \in {"idle", "filling", "listing", "missing"} => j.queue = {}
    BY <1>1, <1>2, AfterQueueValues
  <2>2. QED
    BY <1>1, <1>3, <2>1, QuietStep
<1>5. TypeOK'
  BY <1>3, <1>4 DEF IInv, TypeOK
<1>6. QED
  BY <1>4, <1>5 DEF IInv

LEMMA ReadEffect ==
  ASSUME IInv, NEW h \in Workers, ReadDay(h)
  PROVE  \E d \in job[h].queue, j \in Job :
           /\ job' = [job EXCEPT ![h] = j]
           /\ SameDay \/ \A g \in Workers : ~Computing(g, d)
           /\ j.pc = IF FactsOn(d) \cap Punches = {} /\ ended <= d THEN "dropping" ELSE "opening"
           /\ j.queue = job[h].queue \ {d} /\ j.day = d /\ j.seen = FactsOn(d)
           /\ j.final = (d < ended)
           /\ j.task = job[h].task /\ j.calendar = job[h].calendar /\ j.asOf = job[h].asOf
<1>1. PICK d \in job[h].queue :
        /\ SameDay \/ \A g \in Workers : ~Computing(g, d)
        /\ job' = [job EXCEPT
                     ![h].pc = IF FactsOn(d) \cap Punches = {} /\ ended <= d
                                 THEN "dropping" ELSE "opening",
                     ![h].queue = @ \ {d},
                     ![h].day = d,
                     ![h].seen = FactsOn(d),
                     ![h].final = d < ended]
  BY DEF ReadDay
<1> DEFINE next == IF FactsOn(d) \cap Punches = {} /\ ended <= d THEN "dropping" ELSE "opening"
           over == d < ended
           j == [job[h] EXCEPT !.pc = next, !.queue = @ \ {d}, !.day = d, !.seen = FactsOn(d),
                               !.final = over]
<1>2. h \in Handlers /\ job[h] \in Job /\ d \in Days
  BY DEF Handlers, IInv, TypeOK, Job
<1>3. job' = [job EXCEPT ![h] = j]
  BY <1>1, <1>2 DEF IInv, TypeOK
<1>4. next \in {"dropping", "opening"} /\ over \in BOOLEAN
  OBVIOUS
<1>5. /\ j \in Job
      /\ j.pc = next /\ j.queue = job[h].queue \ {d} /\ j.day = d /\ j.seen = FactsOn(d)
      /\ j.final = over
      /\ j.task = job[h].task /\ j.calendar = job[h].calendar /\ j.asOf = job[h].asOf
  <2> HIDE DEF next, over
  <2>1. QED
    BY <1>2, <1>4, FactsOnType DEF Job
<1>6. QED
  BY <1>1, <1>3, <1>5

LEMMA ReadStep == ASSUME IInv, NEW h \in Workers, ReadDay(h) PROVE IInv'
<1>1. PICK j \in Job :
        /\ job' = [job EXCEPT ![h] = j]
        /\ j.pc \in {"dropping", "opening"} /\ j.task = job[h].task
  BY ReadEffect
<1>2. job[h].task # "review"
  BY DEF Handlers, IInv, Placed, ReadDay, At
<1>3. UNCHANGED <<today, ended, facts, special, record, overtime, rows, lastRun, spent>>
  BY DEF ReadDay
<1>4. /\ job' \in [Handlers -> Job]
      /\ Placed' /\ Exclusive' /\ Held' /\ Undecided' /\ OvertimeFollows'
  BY <1>1, <1>2, <1>3, QuietStep
<1>5. TypeOK'
  BY <1>3, <1>4 DEF IInv, TypeOK
<1>6. QED
  BY <1>4, <1>5 DEF IInv

\* What a job goes on with after a day.
LEMMA NextEffect ==
  ASSUME IInv, NEW h \in Workers, job[h].pc \in {"dropping", "closing"},
         job' = [job EXCEPT ![h] = Keep(h, AfterDay(h))]
  PROVE  \E j \in Job :
           /\ job' = [job EXCEPT ![h] = j]
           /\ j.queue = job[h].queue
           /\ j.pc \in {"loading", "reading", "filling", "idle", "missing"}
           /\ j.pc \in {"loading", "reading"} <=> j.queue # {}
           /\ j.pc # "idle" => j.calendar = job[h].calendar /\ j.task = job[h].task
           /\ j.pc = "filling" => j.task = "events"
           /\ j.asOf \in {0, job[h].asOf}
<1> DEFINE j == Keep(h, AfterDay(h))
<1>1. /\ h \in Handlers /\ job[h] \in Job
      /\ job[h].task \in {"events", "range", "finalize"}
  BY DEF Handlers, IInv, TypeOK, Job, Placed
<1>2. /\ AfterDay(h) \in {"idle", "loading", "reading", "filling", "missing"}
      /\ AfterDay(h) \in {"loading", "reading"} <=> job[h].queue # {}
      /\ AfterDay(h) = "filling" => job[h].task = "events"
  BY <1>1, AfterQueueValues DEF AfterDay
<1>3. j \in Job
  BY <1>1, <1>2, KeepType DEF IInv
<1>4. CASE AfterDay(h) = "idle"
  <2>1. j = IdleJob /\ job[h].queue = {}
    BY <1>2, <1>4 DEF Keep
  <2>2. j.pc = "idle" /\ j.queue = {} /\ j.asOf = 0
    BY <2>1 DEF IdleJob
  <2>3. QED
    BY <1>3, <2>1, <2>2
<1>5. CASE AfterDay(h) # "idle"
  <2>1. j = [job[h] EXCEPT !.pc = AfterDay(h), !.seen = {}, !.final = FALSE, !.old = None,
                           !.day = 0]
    BY <1>5 DEF Keep
  <2>2. /\ j.pc = AfterDay(h) /\ j.queue = job[h].queue /\ j.calendar = job[h].calendar
        /\ j.task = job[h].task /\ j.asOf = job[h].asOf
    BY <1>1, <2>1 DEF Job
  <2>3. QED
    BY <1>2, <1>3, <2>2
<1>6. QED
  BY <1>4, <1>5

LEMMA DropStep == ASSUME IInv, NEW h \in Workers, DropProvisional(h) PROVE IInv'
<1>1. /\ At(h, "dropping") /\ job' = [job EXCEPT ![h] = Keep(h, AfterDay(h))]
      /\ record' = record \/ record' = [record EXCEPT ![job[h].day] = None]
      /\ UNCHANGED <<today, ended, facts, special, overtime, rows, lastRun, spent>>
  BY DEF DropProvisional
<1>2. PICK j \in Job :
        /\ job' = [job EXCEPT ![h] = j]
        /\ j.pc \in {"loading", "reading", "filling", "idle", "missing"}
        /\ j.pc \in {"loading", "reading"} <=> j.queue # {}
        /\ j.pc # "idle" => j.task = job[h].task
  BY <1>1, NextEffect DEF At
<1>3. job[h].task # "review"
  BY <1>1 DEF Handlers, IInv, Placed, At
<1>4. /\ \A d \in Days : record'[d] = record[d] \/ record'[d] = None
      /\ record' \in [Days -> Record \cup {None}]
  BY <1>1 DEF IInv, TypeOK
<1>5. /\ job' \in [Handlers -> Job]
      /\ Placed' /\ Exclusive' /\ Held' /\ Undecided' /\ OvertimeFollows'
  <2>1. /\ j.pc \notin {"closing", "deciding"}
        /\ j.pc # "idle" => j.task # "review"
        /\ j.pc \in {"idle", "filling", "listing", "missing"} => j.queue = {}
    BY <1>2, <1>3
  <2>2. QED
    BY <1>1, <1>2, <1>4, <2>1, QuietStep
<1>6. TypeOK'
  BY <1>1, <1>4, <1>5 DEF IInv, TypeOK
<1>7. QED
  BY <1>5, <1>6 DEF IInv

\* A job that has computed nothing more goes to its end.
LEMMA FinishEffect ==
  ASSUME NEW h, Finish(h)
  PROVE  /\ job' = [job EXCEPT ![h] = IdleJob] /\ IdleJob \in Job
         /\ IdleJob.pc = "idle" /\ IdleJob.queue = {} /\ IdleJob.asOf = 0
BY IdleJobType DEF Finish, IdleJob

LEMMA FillEffect ==
  ASSUME IInv, NEW h \in Workers, FillDaysSince(h)
  PROVE  /\ At(h, "filling")
         /\ UNCHANGED <<today, ended, facts, special, record, overtime, rows, lastRun, spent>>
         /\ \/ Finish(h)
            \/ \E j \in Job :
                 /\ job' = [job EXCEPT ![h] = j]
                 /\ j.pc = "reading" /\ j.task = "range" /\ j.calendar = job[h].calendar
                 /\ j.asOf = job[h].asOf /\ \A d \in j.queue : d < job[h].asOf
<1> DEFINE earliest == IF job[h].asOf > FillDays THEN job[h].asOf - FillDays ELSE 0
           missing  == {d \in Days : /\ job[h].from <= d /\ earliest <= d
                                     /\ UpToYesterday(job[h].asOf, d) /\ Hired <= d
                                     /\ record[d] = None}
           j == [job[h] EXCEPT !.pc = "reading", !.task = "range", !.queue = missing]
<1>1. h \in Handlers /\ job[h] \in Job /\ job \in [Handlers -> Job]
  BY DEF Handlers, IInv, TypeOK
<1>2. missing \in SUBSET Days /\ \A d \in missing : d < job[h].asOf
  BY DEF UpToYesterday
<1>3. \/ Finish(h)
      \/ job' = [job EXCEPT ![h].pc = "reading", ![h].task = "range", ![h].queue = missing]
  BY DEF FillDaysSince
<1>4. /\ At(h, "filling")
      /\ UNCHANGED <<today, ended, facts, special, record, overtime, rows, lastRun, spent>>
  BY DEF FillDaysSince
<1> HIDE DEF missing
<1>5. /\ j \in Job /\ j.pc = "reading" /\ j.task = "range" /\ j.calendar = job[h].calendar
      /\ j.asOf = job[h].asOf /\ j.queue = missing
  BY <1>1, <1>2 DEF Job
<1>6. Finish(h) \/ job' = [job EXCEPT ![h] = j]
  BY <1>1, <1>3
<1>7. QED
  BY <1>2, <1>4, <1>5, <1>6

LEMMA FillStep == ASSUME IInv, NEW h \in Workers, FillDaysSince(h) PROVE IInv'
<1>1. \E j \in Job :
        /\ job' = [job EXCEPT ![h] = j]
        /\ \/ j.pc = "reading" /\ j.task = "range"
           \/ j.pc = "idle" /\ j.queue = {}
  BY FillEffect, FinishEffect
<1>2. UNCHANGED <<today, ended, facts, special, record, overtime, rows, lastRun, spent>>
  BY FillEffect
<1>3. /\ job' \in [Handlers -> Job]
      /\ Placed' /\ Exclusive' /\ Held' /\ Undecided' /\ OvertimeFollows'
  BY <1>1, <1>2, QuietStep
<1>4. TypeOK'
  BY <1>2, <1>3 DEF IInv, TypeOK
<1>5. QED
  BY <1>3, <1>4 DEF IInv

-----------------------------------------------------------------------------
(* The hourly job, and the end of a handler.                               *)

LEMMA FinalizeEffect ==
  ASSUME IInv, NEW h \in Workers, Finalize(h)
  PROVE  /\ UNCHANGED <<today, ended, facts, special, record, overtime, rows, spent>>
         /\ lastRun' \in Days
         /\ job[h].pc \in {"idle", "listing", "missing"}
         /\ \E j \in Job :
              /\ job' = [job EXCEPT ![h] = j]
              /\ j.pc \in {"listing", "loading", "missing", "idle"}
              /\ j.pc # "loading" => j.queue = {}
              /\ j.pc # "idle" => j.task # "review"
              /\ j.asOf \in {0, today, job[h].asOf}
              /\ \A d \in j.queue : d <= job[h].asOf
<1>1. h \in Handlers /\ job[h] \in Job /\ job \in [Handlers -> Job]
  BY DEF Handlers, IInv, TypeOK
<1>2. today \in Days /\ lastRun \in Days /\ Days \subseteq Nat
  BY DaysNat DEF IInv, TypeOK
<1>3. CASE BeginFinalize(h)
  <2> DEFINE j == [IdleJob EXCEPT !.pc = "listing", !.task = "finalize", !.asOf = today]
  <2>1. j \in Job /\ j.pc = "listing" /\ j.queue = {} /\ j.asOf = today
        /\ j.task = "finalize"
    BY <1>2, DaysNat DEF IdleJob, Job
  <2>2. /\ job' = [job EXCEPT ![h] = j] /\ job[h].pc = "idle"
        /\ UNCHANGED <<today, ended, facts, special, record, overtime, rows, lastRun, spent>>
    BY <1>3 DEF BeginFinalize, At
  <2>3. QED
    BY <1>2, <2>1, <2>2
<1>4. CASE ListProvisional(h)
  <2> DEFINE first == FirstDay(job[h].asOf)
             open  == {d \in first..job[h].asOf : record[d] # None /\ ~record[d].final}
             next  == IF open = {} THEN "missing" ELSE "loading"
             j == [job[h] EXCEPT !.pc = next, !.queue = open, !.from = first]
  <2>1. job[h].asOf \in Days
    BY <1>1 DEF Job
  <2>2. first \in Days /\ \A d \in first..job[h].asOf : d \in Days /\ d <= job[h].asOf
    BY <2>1, DayAssumption DEF FirstDay, Days
  <2>3. open \in SUBSET Days /\ \A d \in open : d <= job[h].asOf
    BY <2>2
  <2>4. job[h].pc = "listing"
    BY <1>4 DEF ListProvisional, At
  <2>5. job[h].task # "review"
    BY <1>1, <2>4 DEF IInv, Placed
  <2>6. job' = [job EXCEPT ![h] = j]
    BY <1>1, <1>4 DEF ListProvisional
  <2>7. /\ next \in {"missing", "loading"}
        /\ next = "missing" => open = {}
    OBVIOUS
  <2> HIDE DEF first, open, next
  <2>8. /\ j \in Job /\ j.pc = next /\ j.queue = open /\ j.asOf = job[h].asOf
        /\ j.task # "review"
    BY <1>1, <2>2, <2>3, <2>5, <2>7 DEF Job
  <2>9. UNCHANGED <<today, ended, facts, special, record, overtime, rows, lastRun, spent>>
    BY <1>4 DEF ListProvisional
  <2>10. QED
    BY <1>2, <2>3, <2>4, <2>6, <2>7, <2>8, <2>9
<1>5. CASE FindMissing(h)
  <2> DEFINE d == job[h].from
             missing == record[d] = None /\ Hired <= d
             next  == IF missing THEN "loading" ELSE "missing"
             queue == IF missing THEN {d} ELSE {}
             j == [job[h] EXCEPT !.from = d + 1, !.pc = next, !.queue = queue]
  <2>1. job[h].asOf \in Days /\ d \in Days /\ d < job[h].asOf
    BY <1>1, <1>5 DEF Job, FindMissing, UpToYesterday
  <2>2. d + 1 \in Days /\ d <= job[h].asOf
    BY <2>1, DayAssumption DEF Days
  <2>3. job[h].pc = "missing"
    BY <1>5 DEF FindMissing, At
  <2>4. job[h].task # "review"
    BY <1>1, <2>3 DEF IInv, Placed
  <2>5. job' = [job EXCEPT ![h] = j]
    BY <1>1, <1>5 DEF FindMissing
  <2>6. /\ next \in {"missing", "loading"} /\ queue \in SUBSET Days
        /\ next = "missing" => queue = {}
        /\ \A e \in queue : e <= job[h].asOf
    BY <2>1, <2>2
  <2> HIDE DEF d, next, queue
  <2>7. /\ j \in Job /\ j.pc = next /\ j.queue = queue /\ j.asOf = job[h].asOf
        /\ j.task # "review"
    BY <1>1, <2>2, <2>4, <2>6 DEF Job
  <2>8. UNCHANGED <<today, ended, facts, special, record, overtime, rows, lastRun, spent>>
    BY <1>5 DEF FindMissing
  <2>9. QED
    BY <1>2, <2>3, <2>5, <2>6, <2>7, <2>8
<1>6. CASE EndFinalize(h)
  <2>1. /\ job[h].pc = "missing" /\ Finish(h) /\ lastRun' = job[h].asOf
        /\ UNCHANGED <<today, ended, facts, special, record, overtime, rows, spent>>
    BY <1>6 DEF EndFinalize, At
  <2>2. job[h].asOf \in Days
    BY <1>1 DEF Job
  <2>3. QED
    BY <2>1, <2>2, FinishEffect
<1>7. QED
  BY <1>3, <1>4, <1>5, <1>6 DEF Finalize

LEMMA FinalizeStep ==
  ASSUME IInv, NEW h \in Workers, Finalize(h) PROVE IInv'
<1>1. PICK j \in Job :
        /\ job' = [job EXCEPT ![h] = j]
        /\ j.pc \in {"listing", "loading", "missing", "idle"}
        /\ j.pc # "loading" => j.queue = {}
        /\ j.pc # "idle" => j.task # "review"
  BY FinalizeEffect
<1>2. /\ UNCHANGED <<today, ended, facts, special, record, overtime, rows, spent>>
      /\ lastRun' \in Days
  BY FinalizeEffect
<1>3. /\ job' \in [Handlers -> Job]
      /\ Placed' /\ Exclusive' /\ Held' /\ Undecided' /\ OvertimeFollows'
  BY <1>1, <1>2, QuietStep
<1>4. TypeOK'
  BY <1>2, <1>3 DEF IInv, TypeOK
<1>5. QED
  BY <1>3, <1>4 DEF IInv

LEMMA DieStep == ASSUME IInv, NEW h \in Mortal, Die(h) PROVE IInv'
<1>1. h \in Workers
  BY HandlerAssumption DEF Workers
<1>2. /\ UNCHANGED <<today, ended, facts, special, record, overtime, rows, lastRun>>
      /\ spent' \in [changes : 0..MaxChanges, faults : 0..MaxFaults]
      /\ Finish(h)
  BY BoundAssumption DEF Die, IInv, TypeOK
<1>3. /\ job' \in [Handlers -> Job]
      /\ Placed' /\ Exclusive' /\ Held' /\ Undecided' /\ OvertimeFollows'
  BY <1>1, <1>2, FinishEffect, QuietStep
<1>4. TypeOK'
  BY <1>2, <1>3 DEF IInv, TypeOK
<1>5. QED
  BY <1>3, <1>4 DEF IInv

-----------------------------------------------------------------------------
(* The transaction that saves a record and its overtime.                   *)

LEMMA OpenEffect ==
  ASSUME IInv, NEW h \in Workers, OpenTransaction(h)
  PROVE  /\ At(h, "opening") /\ ~Locked(job[h].day)
         /\ UNCHANGED <<today, ended, facts, special, record, overtime, rows, lastRun, spent>>
         /\ \E j \in Job :
              /\ job' = [job EXCEPT ![h] = j]
              /\ j.pc = "closing" /\ j.old = overtime[job[h].day] /\ j.day = job[h].day
              /\ j.queue = job[h].queue /\ j.seen = job[h].seen /\ j.final = job[h].final
              /\ j.task = job[h].task /\ j.calendar = job[h].calendar /\ j.asOf = job[h].asOf
<1> DEFINE j == [job[h] EXCEPT !.pc = "closing", !.old = overtime[job[h].day]]
<1>1. h \in Handlers /\ job[h] \in Job /\ job \in [Handlers -> Job]
  BY DEF Handlers, IInv, TypeOK
<1>2. overtime[job[h].day] \in Overtime \cup {None}
  BY <1>1 DEF IInv, TypeOK, Job
<1>3. /\ At(h, "opening") /\ ~Locked(job[h].day)
      /\ UNCHANGED <<today, ended, facts, special, record, overtime, rows, lastRun, spent>>
      /\ job' = [job EXCEPT ![h] = j]
  BY <1>1 DEF OpenTransaction
<1>4. /\ j \in Job /\ j.pc = "closing" /\ j.old = overtime[job[h].day] /\ j.day = job[h].day
      /\ j.queue = job[h].queue /\ j.seen = job[h].seen /\ j.final = job[h].final
      /\ j.task = job[h].task /\ j.calendar = job[h].calendar /\ j.asOf = job[h].asOf
  BY <1>1, <1>2 DEF Job
<1>5. QED
  BY <1>3, <1>4

LEMMA OpenStep == ASSUME IInv, NEW h \in Workers, OpenTransaction(h) PROVE IInv'
<1>1. PICK j \in Job :
        /\ job' = [job EXCEPT ![h] = j]
        /\ j.pc = "closing" /\ j.old = overtime[job[h].day] /\ j.day = job[h].day
        /\ j.task = job[h].task
  BY OpenEffect
<1>2. /\ At(h, "opening") /\ ~Locked(job[h].day)
      /\ UNCHANGED <<today, ended, facts, special, record, overtime, rows, lastRun, spent>>
  BY OpenEffect
<1>3. h \in Handlers /\ h \notin Reviewers /\ job[h] \in Job
  BY HandlerAssumption DEF Handlers, Workers, IInv, TypeOK
<1>4. /\ job'[h] = j /\ job' \in [Handlers -> Job]
      /\ \A g \in Handlers \ {h} : job'[g] = job[g]
  BY <1>1, <1>3, OneJob DEF IInv
<1>5. TypeOK'
  BY <1>2, <1>4 DEF IInv, TypeOK
<1>6. Placed'
  BY <1>1, <1>2, <1>3, <1>4 DEF IInv, Placed, At
<1>7. Exclusive'
  BY <1>1, <1>2, <1>4 DEF IInv, Exclusive, Locked, At, Handlers
<1>8. Held'
  BY <1>1, <1>2, <1>4 DEF IInv, Held, At, Handlers
<1>9. Undecided'
  BY <1>2, <1>3, <1>4 DEF IInv, Undecided, At, Handlers
<1>10. OvertimeFollows'
  BY <1>2 DEF IInv, OvertimeFollows
<1>11. QED
  BY <1>5, <1>6, <1>7, <1>8, <1>9, <1>10 DEF IInv

\* What a commit makes of the overtime row of its day, in place of the one its
\* transaction read.
LEMMA SyncEffect ==
  ASSUME IInv, NEW h \in Workers, CommitTransaction(h)
  PROVE  LET d == job[h].day
             minutes == MinutesOf(Outcome(h))
         IN  /\ overtime' \in [Days -> Overtime \cup {None}] /\ rows' \in Nat
             /\ \A e \in Days \ {d} : overtime'[e] = overtime[e]
             /\ minutes > 0 => overtime'[d] # None
             /\ Pending(overtime'[d]) => overtime'[d].minutes = minutes
             /\ Reviewed(job[h].old) => overtime'[d] = overtime[d]
             /\ ~ReviewRaces /\ Reviewed(overtime[d]) => overtime'[d] = overtime[d]
             /\ ~Reviewed(overtime[d]) => ~Reviewed(overtime'[d])
<1> DEFINE d == job[h].day
           old == job[h].old
           minutes == MinutesOf(Outcome(h))
<1>1. /\ h \in Handlers /\ d \in Days /\ old \in Overtime \cup {None}
      /\ minutes \in Nat
  BY OutcomeType DEF Handlers, IInv, TypeOK, Job
<1>2. /\ old = None <=> overtime[d] = None
      /\ Reviewed(old) => Reviewed(overtime[d])
      /\ ~ReviewRaces => old = overtime[d]
  BY DEF CommitTransaction, IInv, Held
<1>3. SyncOvertime(d, old, minutes)
  BY DEF CommitTransaction
<1>4. /\ overtime \in [Days -> Overtime \cup {None}] /\ rows \in Nat
      /\ \A o \in Overtime : o # None
  BY NoneAssumption DEF IInv, TypeOK
<1> HIDE DEF d, old, minutes
<1>5. CASE old = None /\ minutes > 0 /\ Propose(d, minutes)
  <2> DEFINE new == [id |-> rows, minutes |-> minutes, status |-> "PENDING"]
  <2>1. new \in Overtime /\ new # None /\ Pending(new) /\ ~Reviewed(new) /\ new.minutes = minutes
    BY <1>1, <1>4 DEF Overtime, Pending, Reviewed
  <2>2. overtime' = [overtime EXCEPT ![d] = new] /\ rows' = rows + 1
    BY <1>5 DEF Propose
  <2> HIDE DEF new
  <2>3. overtime'[d] = new /\ \A e \in Days \ {d} : overtime'[e] = overtime[e]
    BY <1>1, <1>4, <2>2
  <2>4. overtime' \in [Days -> Overtime \cup {None}] /\ rows' \in Nat
    BY <1>1, <1>4, <2>1, <2>2
  <2>5. ~Reviewed(old) /\ ~Reviewed(overtime[d])
    BY <1>2, <1>5 DEF Reviewed
  <2>6. QED
    BY <2>1, <2>3, <2>4, <2>5 DEF d, old, minutes
<1>6. CASE /\ Pending(old) /\ minutes > 0
           /\ overtime' = [overtime EXCEPT ![d].minutes = minutes]
           /\ UNCHANGED rows
  <2> DEFINE new == [overtime[d] EXCEPT !.minutes = minutes]
  <2>1. overtime[d] \in Overtime
    BY <1>1, <1>2, <1>4, <1>6 DEF Pending
  <2>2. /\ new \in Overtime /\ new # None /\ new.minutes = minutes
        /\ new.status = overtime[d].status
    BY <1>1, <1>4, <2>1 DEF Overtime
  <2>3. overtime' = [overtime EXCEPT ![d] = new]
    BY <1>1, <1>4, <1>6
  <2> HIDE DEF new
  <2>4. overtime'[d] = new /\ \A e \in Days \ {d} : overtime'[e] = overtime[e]
    BY <1>1, <1>4, <2>3
  <2>5. overtime' \in [Days -> Overtime \cup {None}] /\ rows' \in Nat
    BY <1>1, <1>4, <1>6, <2>2, <2>3
  <2>6. ~Reviewed(old) /\ (~ReviewRaces => ~Reviewed(overtime[d]))
    BY <1>2, <1>6 DEF Pending, Reviewed
  <2>7. Reviewed(new) <=> Reviewed(overtime[d])
    BY <1>4, <2>1, <2>2 DEF Reviewed
  <2>8. QED
    BY <2>2, <2>4, <2>5, <2>6, <2>7 DEF d, old, minutes
<1>7. CASE /\ Pending(old) /\ minutes = 0
           /\ overtime' = [overtime EXCEPT ![d] = None]
           /\ UNCHANGED rows
  <2>1. overtime'[d] = None /\ \A e \in Days \ {d} : overtime'[e] = overtime[e]
    BY <1>1, <1>4, <1>7
  <2>2. overtime' \in [Days -> Overtime \cup {None}] /\ rows' \in Nat
    BY <1>4, <1>7
  <2>3. ~Reviewed(old) /\ (~ReviewRaces => ~Reviewed(overtime[d]))
    BY <1>2, <1>7 DEF Pending, Reviewed
  <2>4. ~Pending(None) /\ ~Reviewed(None)
    BY DEF Pending, Reviewed
  <2>5. QED
    BY <1>7, <2>1, <2>2, <2>3, <2>4 DEF d, old, minutes
<1>8. CASE /\ Reviewed(old) \/ (old = None /\ minutes = 0)
           /\ UNCHANGED <<overtime, rows>>
  <2>1. Reviewed(old) => overtime[d] # None /\ ~Pending(overtime[d])
    BY <1>2 DEF Reviewed, Pending
  <2>2. old = None => ~Pending(overtime[d])
    BY <1>2 DEF Pending
  <2>3. QED
    BY <1>1, <1>4, <1>8, <2>1, <2>2 DEF d, old, minutes
<1>9. QED
  BY <1>3, <1>5, <1>6, <1>7, <1>8 DEF SyncOvertime

LEMMA CommitEffect ==
  ASSUME IInv, NEW h \in Workers, CommitTransaction(h)
  PROVE  /\ At(h, "closing") /\ job[h].day \in Days
         /\ job' = [job EXCEPT ![h] = Keep(h, AfterDay(h))]
         /\ record' = [record EXCEPT ![job[h].day] = Outcome(h)]
         /\ record' \in [Days -> Record \cup {None}]
         /\ record'[job[h].day] = Outcome(h)
         /\ \A e \in Days \ {job[h].day} : record'[e] = record[e]
         /\ UNCHANGED <<today, ended, facts, special, lastRun, spent>>
<1>1. h \in Handlers /\ job[h].day \in Days /\ record \in [Days -> Record \cup {None}]
  BY DEF Handlers, IInv, TypeOK, Job
<1>2. Outcome(h) \in Record
  BY <1>1, OutcomeType DEF IInv
<1>3. /\ At(h, "closing") /\ job' = [job EXCEPT ![h] = Keep(h, AfterDay(h))]
      /\ record' = [record EXCEPT ![job[h].day] = Outcome(h)]
      /\ UNCHANGED <<today, ended, facts, special, lastRun, spent>>
  BY DEF CommitTransaction
<1>4. QED
  BY <1>1, <1>2, <1>3

LEMMA CommitStep == ASSUME IInv, NEW h \in Workers, CommitTransaction(h) PROVE IInv'
<1> DEFINE d == job[h].day
<1>1. PICK j \in Job :
        /\ job' = [job EXCEPT ![h] = j]
        /\ j.queue = job[h].queue
        /\ j.pc \in {"loading", "reading", "filling", "idle", "missing"}
        /\ j.pc \in {"loading", "reading"} <=> j.queue # {}
        /\ j.pc # "idle" => j.task = job[h].task
  BY CommitEffect, NextEffect DEF At
<1>2. h \in Handlers /\ h \notin Reviewers /\ At(h, "closing") /\ d \in Days
  BY CommitEffect, HandlerAssumption DEF Handlers, Workers
<1>3. /\ job'[h] = j /\ job' \in [Handlers -> Job]
      /\ \A g \in Handlers \ {h} : job'[g] = job[g]
  BY <1>1, <1>2, OneJob DEF IInv
<1>4. /\ overtime' \in [Days -> Overtime \cup {None}] /\ rows' \in Nat
      /\ \A e \in Days \ {d} : overtime'[e] = overtime[e]
      /\ MinutesOf(Outcome(h)) > 0 => overtime'[d] # None
      /\ Pending(overtime'[d]) => overtime'[d].minutes = MinutesOf(Outcome(h))
      /\ ~Reviewed(overtime[d]) => ~Reviewed(overtime'[d])
  BY SyncEffect
<1>5. /\ record' \in [Days -> Record \cup {None}] /\ record'[d] = Outcome(h)
      /\ \A e \in Days \ {d} : record'[e] = record[e]
      /\ UNCHANGED <<today, ended, facts, special, lastRun, spent>>
  BY CommitEffect
<1> HIDE DEF d
<1>6. TypeOK'
  BY <1>3, <1>4, <1>5 DEF IInv, TypeOK
<1>7. Placed'
  BY <1>1, <1>2, <1>3 DEF IInv, Placed, At
<1>8. Exclusive'
  BY <1>1, <1>3 DEF IInv, Exclusive, At, Handlers
<1>9. Held'
  <2> SUFFICES ASSUME NEW g \in Workers, At(g, "closing")'
               PROVE  /\ job[g].day \in Days \ {d} /\ job'[g] = job[g] /\ At(g, "closing")
    BY <1>4 DEF IInv, Held
  <2>1. g \in Handlers \ {h} /\ At(g, "closing") /\ job'[g] = job[g]
    BY <1>1, <1>3 DEF At, Handlers
  <2>2. job[g].day \in Days
    BY <2>1 DEF IInv, TypeOK, Job
  <2>3. QED
    BY <1>2, <2>1, <2>2 DEF IInv, Exclusive, d
<1>10. Undecided'
  <2>1. \A g \in Reviewers : job'[g] = job[g] /\ job[g].day \in Days
    BY <1>2, <1>3 DEF Handlers, IInv, TypeOK, Job
  <2>2. \A e \in Days : ~Reviewed(overtime[e]) => ~Reviewed(overtime'[e])
    BY <1>2, <1>4
  <2>3. QED
    BY <2>1, <2>2 DEF IInv, Undecided, At
<1>11. OvertimeFollows'
  <2> SUFFICES ASSUME NEW e \in Days, record'[e] # None
               PROVE  /\ MinutesOf(record'[e]) > 0 => overtime'[e] # None
                      /\ Pending(overtime'[e]) => overtime'[e].minutes = MinutesOf(record'[e])
    BY DEF OvertimeFollows, MinutesOf
  <2>1. CASE e = d
    BY <1>4, <1>5, <2>1
  <2>2. CASE e # d
    BY <1>4, <1>5, <2>2 DEF IInv, OvertimeFollows
  <2>3. QED
    BY <2>1, <2>2
<1>12. QED
  BY <1>6, <1>7, <1>8, <1>9, <1>10, <1>11 DEF IInv

LEMMA RecomputeStep == ASSUME IInv, NEW h \in Workers, Recompute(h) PROVE IInv'
BY LoadStep, ReadStep, DropStep, OpenStep, CommitStep DEF Recompute

-----------------------------------------------------------------------------
(* Reviews.                                                                *)

LEMMA BeginReviewStep ==
  ASSUME IInv, NEW h \in Reviewers, NEW d \in Days, BeginReview(h, d) PROVE IInv'
<1> DEFINE j == [IdleJob EXCEPT !.pc = "deciding", !.task = "review", !.day = d,
                                !.old = overtime[d]]
<1>1. /\ At(h, "idle") /\ Pending(overtime[d])
      /\ ReviewRaces \/ \A g \in Reviewers : ~(At(g, "deciding") /\ job[g].day = d)
      /\ job' = [job EXCEPT ![h] = j]
      /\ UNCHANGED <<today, ended, facts, special, record, overtime, rows, lastRun, spent>>
  BY DEF BeginReview
<1>2. overtime[d] \in Overtime \cup {None}
  BY DEF IInv, TypeOK
<1>3. j \in Job /\ j.pc = "deciding" /\ j.day = d /\ j.queue = {}
  BY <1>2, DaysNat DEF IdleJob, Job
<1> HIDE DEF j
<1>4. h \in Handlers /\ h \notin Workers
  BY HandlerAssumption DEF Handlers, Workers
<1>5. /\ job'[h] = j /\ job' \in [Handlers -> Job]
      /\ \A g \in Handlers \ {h} : job'[g] = job[g]
  BY <1>1, <1>3, <1>4, OneJob DEF IInv
<1>6. TypeOK'
  BY <1>1, <1>5 DEF IInv, TypeOK
<1>7. Placed'
  BY <1>3, <1>4, <1>5 DEF IInv, Placed
<1>8. Exclusive' /\ Held'
  BY <1>1, <1>4, <1>5 DEF IInv, Exclusive, Held, At, Handlers
<1>9. Undecided'
  <2>1. ~Reviewed(overtime[d])
    BY <1>1 DEF Pending, Reviewed
  <2>2. QED
    BY <1>1, <1>3, <1>5, <2>1 DEF IInv, Undecided, At, Handlers
<1>10. OvertimeFollows'
  BY <1>1 DEF IInv, OvertimeFollows
<1>11. QED
  BY <1>6, <1>7, <1>8, <1>9, <1>10 DEF IInv

\* A decision changes the status of the row of its day, or nothing.
LEMMA DecideEffect ==
  ASSUME IInv, NEW h \in Reviewers, Decide(h)
  PROVE  /\ At(h, "deciding") /\ job[h].day \in Days /\ Finish(h)
         /\ ReviewRaces \/ ~Locked(job[h].day)
         /\ UNCHANGED <<today, ended, facts, special, record, rows, lastRun, spent>>
         /\ overtime' \in [Days -> Overtime \cup {None}]
         /\ \A e \in Days \ {job[h].day} : overtime'[e] = overtime[e]
         /\ \/ overtime'[job[h].day] = overtime[job[h].day]
            \/ /\ overtime[job[h].day] # None /\ overtime'[job[h].day] # None
               /\ ~Pending(overtime'[job[h].day]) /\ Reviewed(overtime'[job[h].day])
<1> DEFINE d == job[h].day
<1>1. d \in Days /\ overtime \in [Days -> Overtime \cup {None}]
  BY DEF Handlers, IInv, TypeOK, Job
<1>2. /\ At(h, "deciding") /\ Finish(h)
      /\ ReviewRaces \/ ~Locked(d)
      /\ UNCHANGED <<today, ended, facts, special, record, rows, lastRun, spent>>
      /\ \/ /\ overtime[d] # None
            /\ \E s \in {"APPROVED", "REJECTED"} : overtime' = [overtime EXCEPT ![d].status = s]
         \/ UNCHANGED overtime
  BY DEF Decide
<1> HIDE DEF d
<1>3. ASSUME NEW s \in {"APPROVED", "REJECTED"}, overtime[d] # None,
             overtime' = [overtime EXCEPT ![d].status = s]
      PROVE  /\ overtime' \in [Days -> Overtime \cup {None}]
             /\ \A e \in Days \ {d} : overtime'[e] = overtime[e]
             /\ overtime'[d] # None /\ ~Pending(overtime'[d]) /\ Reviewed(overtime'[d])
  <2> DEFINE new == [overtime[d] EXCEPT !.status = s]
  <2>1. overtime[d] \in Overtime
    BY <1>1, <1>3
  <2>2. new \in Overtime /\ new.status = s
    BY <2>1 DEF Overtime
  <2>3. overtime' = [overtime EXCEPT ![d] = new]
    BY <1>1, <1>3
  <2> HIDE DEF new
  <2>4. new # None /\ ~Pending(new) /\ Reviewed(new)
    BY <2>2, NoneAssumption DEF Pending, Reviewed
  <2>5. QED
    BY <1>1, <2>2, <2>3, <2>4
<1>4. /\ overtime' \in [Days -> Overtime \cup {None}]
      /\ \A e \in Days \ {d} : overtime'[e] = overtime[e]
      /\ overtime'[d] = overtime[d]
         \/ /\ overtime[d] # None /\ overtime'[d] # None
            /\ ~Pending(overtime'[d]) /\ Reviewed(overtime'[d])
  <2>1. CASE UNCHANGED overtime
    BY <1>1, <2>1
  <2>2. CASE ~UNCHANGED overtime
    <3>1. PICK s \in {"APPROVED", "REJECTED"} : overtime' = [overtime EXCEPT ![d].status = s]
      BY <1>2, <2>2
    <3>2. overtime[d] # None
      BY <1>2, <2>2
    <3>3. QED
      BY <1>3, <3>1, <3>2
  <2>3. QED
    BY <2>1, <2>2
<1>5. QED
  BY <1>1, <1>2, <1>4 DEF d

LEMMA DecideStep == ASSUME IInv, NEW h \in Reviewers, Decide(h) PROVE IInv'
<1> DEFINE d == job[h].day
<1>1. /\ At(h, "deciding") /\ d \in Days /\ Finish(h)
      /\ ReviewRaces \/ ~Locked(d)
      /\ UNCHANGED <<today, ended, facts, special, record, rows, lastRun, spent>>
      /\ overtime' \in [Days -> Overtime \cup {None}]
      /\ \A e \in Days \ {d} : overtime'[e] = overtime[e]
      /\ overtime'[d] = overtime[d]
         \/ /\ overtime[d] # None /\ overtime'[d] # None
            /\ ~Pending(overtime'[d]) /\ Reviewed(overtime'[d])
  BY DecideEffect
<1>2. h \in Handlers /\ h \notin Workers
  BY HandlerAssumption DEF Handlers, Workers
<1>3. /\ job'[h] = IdleJob /\ job' \in [Handlers -> Job]
      /\ \A g \in Handlers \ {h} : job'[g] = job[g]
  BY <1>1, <1>2, FinishEffect, OneJob DEF IInv
<1>4. IdleJob.pc = "idle" /\ IdleJob.queue = {}
  BY DEF IdleJob
<1>5. \A g \in Workers : job'[g] = job[g] /\ job[g].day \in Days
  BY <1>2, <1>3 DEF Handlers, IInv, TypeOK, Job
<1>6. TypeOK'
  BY <1>1, <1>3 DEF IInv, TypeOK
<1>7. Placed'
  BY <1>3, <1>4 DEF IInv, Placed
<1>8. Exclusive'
  BY <1>5 DEF IInv, Exclusive, At
<1>9. Held'
  <2> SUFFICES ASSUME NEW g \in Workers, At(g, "closing")
               PROVE  /\ job[g].old = None <=> overtime'[job[g].day] = None
                      /\ Reviewed(job[g].old) => Reviewed(overtime'[job[g].day])
                      /\ ~ReviewRaces => job[g].old = overtime'[job[g].day]
    BY <1>5 DEF Held, At
  <2>1. ~ReviewRaces => job[g].day # d
    BY <1>1 DEF Locked
  <2>2. /\ job[g].old = None <=> overtime[job[g].day] = None
        /\ Reviewed(job[g].old) => Reviewed(overtime[job[g].day])
        /\ ~ReviewRaces => job[g].old = overtime[job[g].day]
    BY DEF IInv, Held
  <2>3. QED
    BY <1>1, <1>5, <2>1, <2>2
<1>10. Undecided'
  <2> SUFFICES ASSUME ~ReviewRaces PROVE Undecided'
    BY DEF Undecided
  <2>1. \A g \in Reviewers : At(g, "deciding")' => g # h /\ At(g, "deciding") /\ job'[g] = job[g]
    BY <1>3, <1>4 DEF At, Handlers
  <2>2. \A g \in Reviewers : At(g, "deciding") /\ g # h => job[g].day \in Days \ {d}
    BY <1>1 DEF IInv, Undecided, TypeOK, Job, Handlers
  <2>3. QED
    BY <1>1, <2>1, <2>2 DEF IInv, Undecided, At
<1>11. OvertimeFollows'
  BY <1>1 DEF IInv, OvertimeFollows
<1>12. QED
  BY <1>6, <1>7, <1>8, <1>9, <1>10, <1>11 DEF IInv

-----------------------------------------------------------------------------
(* All steps, and what follows.                                            *)

LEMMA NextStep == IInv /\ [Next]_vars => IInv'
<1> SUFFICES ASSUME IInv, [Next]_vars PROVE IInv'
  OBVIOUS
<1>1. CASE NextDate \/ WindowEnds
  BY <1>1, TimeStep
<1>2. ASSUME NEW h \in Changers,
             \/ \E f \in Punches : StorePunch(h, f) \/ VoidEvent(h, f)
             \/ \E f \in Leaves : ReviewLeave(h, f)
             \/ \E d \in Days : ChangePlan(h, d)
             \/ RequestRecompute(h)
      PROVE  IInv'
  BY <1>2, ChangeStep
<1>3. ASSUME NEW h \in Changers, Recompute(h) \/ FillDaysSince(h) PROVE IInv'
  BY <1>3, RecomputeStep, FillStep DEF Workers
<1>4. ASSUME NEW h \in Finalizers, Finalize(h) \/ Recompute(h) PROVE IInv'
  BY <1>4, RecomputeStep, FinalizeStep DEF Workers
<1>5. ASSUME NEW h \in Reviewers, (\E d \in Days : BeginReview(h, d)) \/ Decide(h)
      PROVE  IInv'
  BY <1>5, BeginReviewStep, DecideStep
<1>6. ASSUME NEW h \in Mortal, Die(h) PROVE IInv'
  BY <1>6, DieStep
<1>7. CASE UNCHANGED vars
  <2>1. TypeOK'
    BY <1>7 DEF vars, IInv, TypeOK
  <2>2. Placed' /\ Exclusive' /\ Held' /\ Undecided' /\ OvertimeFollows'
    BY <1>7 DEF vars, IInv, Placed, Exclusive, Held, Undecided, OvertimeFollows, At
  <2>3. QED
    BY <2>1, <2>2 DEF IInv
<1>8. QED
  BY <1>1, <1>2, <1>3, <1>4, <1>5, <1>6, <1>7 DEF Next

LEMMA InvariantHolds == Spec => []IInv
BY Initially, NextStep, PTL DEF Spec

\* Rows and the variables of the handlers always have their types.
THEOREM TypeCorrect == Spec => []TypeOK
<1>1. IInv => TypeOK
  BY DEF IInv
<1>2. QED
  BY <1>1, InvariantHolds, PTL

\* The row lock of the transaction that saves a day: no two handlers are between
\* the upsert of one day's record and the commit.
THEOREM OneTransaction == Spec => []Exclusive
<1>1. IInv => Exclusive
  BY DEF IInv
<1>2. QED
  BY <1>1, InvariantHolds, PTL

\* syncOvertime keeps the overtime of a day beside its record whatever requests,
\* jobs and reviews run at once and whoever dies: a record with overtime has a
\* row, and a proposal nobody reviewed is that of its record.
THEOREM OvertimeFollowsRecord == Spec => []OvertimeFollows
<1>1. IInv => OvertimeFollows
  BY DEF IInv
<1>2. QED
  BY <1>1, InvariantHolds, PTL

\* When no review overlaps a recomputation's transaction or another review, what
\* somebody approved or rejected is never changed again.
THEOREM ReviewsAreKept == ASSUME ~ReviewRaces PROVE Spec => ReviewedKept
<1> DEFINE Kept == \A d \in Days : Reviewed(overtime[d]) => overtime'[d] = overtime[d]
<1>1. IInv /\ [Next]_vars => [Kept]_vars
  <2> SUFFICES ASSUME IInv, Next PROVE Kept
    OBVIOUS
  <2>1. CASE UNCHANGED overtime
    BY <2>1
  <2>2. ASSUME NEW h \in Workers, Recompute(h) PROVE Kept
    <3>1. CASE CommitTransaction(h)
      BY <3>1, SyncEffect
    <3>2. CASE ~CommitTransaction(h)
      BY <2>2, <3>2 DEF Recompute, LoadCalendar, ReadDay, DropProvisional, OpenTransaction
    <3>3. QED
      BY <3>1, <3>2
  <2>3. ASSUME NEW h \in Reviewers, Decide(h) PROVE Kept
    <3>1. ~Reviewed(overtime[job[h].day])
      BY <2>3, DecideEffect DEF IInv, Undecided
    <3>2. \A e \in Days \ {job[h].day} : overtime'[e] = overtime[e]
      BY <2>3, DecideEffect
    <3>3. QED
      BY <3>1, <3>2
  <2>4. \/ UNCHANGED overtime
        \/ \E h \in Workers : Recompute(h)
        \/ \E h \in Reviewers : Decide(h)
    <3>1. ASSUME NEW h \in Changers,
                 \/ \E f \in Punches : StorePunch(h, f) \/ VoidEvent(h, f)
                 \/ \E f \in Leaves : ReviewLeave(h, f)
                 \/ \E d \in Days : ChangePlan(h, d)
                 \/ RequestRecompute(h) \/ FillDaysSince(h)
          PROVE  UNCHANGED overtime
      BY <3>1, ChangeEffect DEF FillDaysSince
    <3>2. ASSUME NEW h \in Finalizers, Finalize(h) PROVE UNCHANGED overtime
      BY <3>2 DEF Finalize, BeginFinalize, ListProvisional, FindMissing, EndFinalize
    <3>3. QED
      BY <3>1, <3>2 DEF Next, Workers, NextDate, WindowEnds, BeginReview, Die
  <2>5. QED
    BY <2>1, <2>2, <2>3, <2>4
<1>2. QED
  BY <1>1, InvariantHolds, PTL DEF Spec, ReviewedKept

-----------------------------------------------------------------------------
(* Records follow the facts, when neither two computations of one day nor a *)
(* change of plans and a computation overlap and every request goes on.     *)

Orderly == ~SameDay /\ ~PlanRaces /\ Mortal \cap Changers = {}

\* One handler at a time computes a day.
Alone ==
  \A g, h \in Workers, d \in Days : Computing(g, d) /\ Computing(h, d) => g = h

\* Who holds a calendar holds the one in force.
Snapshot ==
  \A h \in Workers :
    job[h].pc \in {"reading", "dropping", "opening", "closing", "filling"} =>
      job[h].calendar = special

\* Only a day that ended gets a final record; a handler about to drop the record of
\* a day found it open.
Early ==
  /\ \A d \in Days : record[d] # None /\ record[d].final => d < ended
  /\ \A h \in Workers :
       /\ job[h].pc \in {"opening", "closing"} /\ job[h].final => job[h].day < ended
       /\ At(h, "dropping") => /\ job[h].seen \cap Punches = {}
                               /\ record[job[h].day] # None => ~record[job[h].day].final

\* No punch and no record is of a day to come, and nobody computes one.
Past ==
  /\ \A f \in Punches : facts[f] = "live" => DayOf[f] <= today
  /\ \A d \in Days : record[d] # None => d <= today
  /\ \A h \in Workers :
       /\ job[h].asOf <= today
       /\ \/ job[h].task = "events"
          \/ job[h].pc \in {"reading", "dropping", "opening", "closing"}
          => \A d \in job[h].queue : d <= today
       /\ job[h].pc \in {"dropping", "opening", "closing"} => job[h].day <= today

\* The handler computes day d from what the database says now.
Fresh(h, d) == job[h].seen = FactsOn(d) /\ (d \in job[h].calendar <=> d \in special)

\* The record of day d is that of what the database says now.
Current(d) ==
  IF record[d] = None THEN FactsOn(d) \cap Punches = {}
  ELSE record[d].facts = FactsOn(d) /\ record[d].special = (d \in special)

\* Some request still has to compute day d.
Owed(d) == \E c \in Changers : d \in job[c].queue

\* Once no request has to compute a day any more, whoever computes it works with
\* its facts of now, and its record is current but for a request computing it.
Settled ==
  \A d \in Hired..LastDay :
    \/ Owed(d)
    \/ /\ \A h \in Workers : Computing(h, d) => Fresh(h, d)
       /\ (\A c \in Changers : ~Computing(c, d)) => Current(d)

CInv == Alone /\ Snapshot /\ Early /\ Past /\ Settled


\* What a step leaves of the facts of a day.
LEMMA FactsStay ==
  /\ UNCHANGED facts => \A d : FactsOn(d)' = FactsOn(d)
  /\ UNCHANGED <<facts, special, record>> => \A d : Current(d)' = Current(d)
BY DEF FactsOn, Current

LEMMA InitiallySettled == Init => CInv
<1> SUFFICES ASSUME Init PROVE CInv
  OBVIOUS
<1>1. \A h \in Workers : job[h] = IdleJob
  BY DEF Init, Handlers
<1>2. /\ IdleJob.pc = "idle" /\ IdleJob.queue = {} /\ IdleJob.asOf = 0
      /\ IdleJob.task = "range"
  BY DEF IdleJob
<1>3. \A d : FactsOn(d) = {}
  BY DEF Init, FactsOn
<1>4. \A d : \A h \in Workers : ~Computing(h, d)
  BY <1>1, <1>2 DEF Computing
<1>5. Alone /\ Snapshot
  BY <1>1, <1>2, <1>4 DEF Alone, Snapshot
<1>6. Early /\ Past
  BY <1>1, <1>2 DEF Init, Early, Past, At, Facts
<1>7. Settled
  <2>1. \A d \in Days : Current(d)
    BY <1>3 DEF Init, Current
  <2>2. Hired..LastDay \subseteq Days
    BY DayAssumption DEF Days
  <2>3. QED
    BY <1>4, <2>1, <2>2 DEF Settled
<1>8. QED
  BY <1>5, <1>6, <1>7 DEF CInv

\* Steps that touch neither the facts, the records nor the job of a worker.
LEMMA OthersStep ==
  ASSUME CInv, \A g \in Workers : job'[g] = job[g],
         UNCHANGED <<today, ended, facts, special, record>>
  PROVE  CInv'
<1>1. Alone' /\ Snapshot'
  BY DEF CInv, Alone, Snapshot, Computing
<1>2. Early' /\ Past'
  BY DEF CInv, Early, Past, At
<1>3. Settled'
  BY FactsStay DEF CInv, Settled, Owed, Fresh, Computing, Workers
<1>4. QED
  BY <1>1, <1>2, <1>3 DEF CInv

LEMMA TimeSettles == IInv /\ CInv /\ (NextDate \/ WindowEnds) => CInv'
<1> SUFFICES ASSUME IInv, CInv, NextDate \/ WindowEnds PROVE CInv'
  OBVIOUS
<1>1. /\ UNCHANGED <<facts, special, record, overtime, rows, job, lastRun, spent>>
      /\ today' = today \/ today' = today + 1
      /\ ended' = ended \/ ended' = ended + 1
  BY DEF NextDate, WindowEnds
<1>2. /\ today \in Nat /\ ended \in Nat /\ Days \subseteq Nat
      /\ DayOf \in [Facts -> Days] /\ Punches \subseteq Facts
      /\ \A h \in Workers : job[h] \in Job
  BY DayAssumption, FactAssumption, DaysNat DEF IInv, TypeOK, Handlers, Facts
<1>3. Alone' /\ Snapshot'
  BY <1>1 DEF CInv, Alone, Snapshot, Computing
<1>4. Early'
  <2>1. \A n \in Days : n < ended => n < ended'
    BY <1>1, <1>2
  <2>2. \A h \in Workers : job[h].day \in Days
    BY <1>2 DEF Job
  <2>3. QED
    BY <1>1, <2>1, <2>2 DEF CInv, Early, At
<1>5. Past'
  <2>1. \A n \in Days : n <= today => n <= today'
    BY <1>1, <1>2
  <2>2. QED
    BY <1>1, <1>2, <2>1 DEF CInv, Past, Job
<1>6. Settled'
  BY <1>1, FactsStay DEF CInv, Settled, Owed, Fresh, Computing
<1>7. QED
  BY <1>3, <1>4, <1>5, <1>6 DEF CInv

\* A handler goes on without computing a day, and no request forgets one it owes.
LEMMA QuietSettles ==
  ASSUME IInv, CInv, NEW h \in Workers, NEW j \in Job, job' = [job EXCEPT ![h] = j],
         UNCHANGED <<today, ended, facts, special, record>>,
         j.pc \notin {"dropping", "opening", "closing"},
         j.pc \in {"reading", "filling"} => j.calendar = special,
         j.asOf <= today,
         j.task = "events" \/ j.pc = "reading" => \A d \in j.queue : d <= today,
         h \in Changers => /\ job[h].pc \notin {"dropping", "opening", "closing"}
                           /\ \A d \in job[h].queue :
                                Hired <= d /\ d <= today => d \in j.queue
  PROVE  CInv'
<1>1. h \in Handlers
  BY DEF Handlers
<1>2. /\ job'[h] = j
      /\ \A g \in Workers \ {h} : job'[g] = job[g]
  BY <1>1, OneJob DEF IInv, Handlers
<1>3. \A d : \A g \in Workers : Computing(g, d)' => g # h /\ Computing(g, d)
  BY <1>2 DEF Computing
<1>4. Alone' /\ Snapshot'
  BY <1>2, <1>3 DEF CInv, Alone, Snapshot
<1>5. Early'
  BY <1>2 DEF CInv, Early, At
<1>6. Past'
  BY <1>2 DEF CInv, Past
<1>7. Settled'
  <2> SUFFICES ASSUME NEW d \in Hired..LastDay, ~Owed(d)'
               PROVE  /\ \A g \in Workers : Computing(g, d)' => Fresh(g, d)'
                      /\ (\A c \in Changers : ~Computing(c, d)') => Current(d)'
    BY DEF Settled
  <2>1. d \in Days /\ d \in Nat /\ today \in Nat /\ Hired <= d
    BY DayAssumption, DaysNat DEF Days, IInv, TypeOK
  <2>2. \A g \in Workers \ {h} : Fresh(g, d)' = Fresh(g, d)
    BY <1>2, FactsStay DEF Fresh
  <2>3. CASE d <= today
    <3>1. ~Owed(d)
      BY <1>2, <2>1, <2>3 DEF Owed, Workers
    <3>2. \A c \in Changers : Computing(c, d) => Computing(c, d)'
      BY <1>2 DEF Computing, Workers
    <3>3. QED
      BY <1>2, <1>3, <2>2, <3>1, <3>2, FactsStay DEF CInv, Settled, Fresh
  <2>4. CASE d > today
    <3>1. record[d] = None /\ FactsOn(d) \cap Punches = {}
      BY <2>1, <2>4 DEF CInv, Past, FactsOn
    <3>2. \A g \in Workers : ~Computing(g, d)
      BY <2>1, <2>4 DEF CInv, Past, Computing
    <3>3. QED
      BY <1>3, <3>1, <3>2, FactsStay DEF Current
  <2>5. QED
    BY <2>1, <2>3, <2>4
<1>8. QED
  BY <1>4, <1>5, <1>6, <1>7 DEF CInv

\* What a change does to the days it does not go on with, and when plans change.
LEMMA ChangeReach ==
  ASSUME IInv, CInv, ~PlanRaces, NEW h \in Changers,
         \/ \E f \in Punches : StorePunch(h, f) \/ VoidEvent(h, f)
         \/ \E f \in Leaves : ReviewLeave(h, f)
         \/ \E d \in Days : ChangePlan(h, d)
         \/ RequestRecompute(h)
  PROVE  \E task \in {"events", "range"}, queue \in SUBSET Days :
           /\ Starts(h, task, queue)
           /\ task = "events" => \A d \in queue : d <= today
           /\ \A d \in Days \ queue : /\ FactsOn(d)' = FactsOn(d)
                                      /\ d \in special' <=> d \in special
           /\ UNCHANGED special \/ \A g \in Workers : At(g, "idle")
           /\ \A f \in Punches : facts'[f] = "live" => facts[f] = "live" \/ DayOf[f] <= today
<1>1. /\ h \in Handlers /\ Punches \subseteq Facts /\ Leaves \subseteq Facts
      /\ facts \in [Facts -> {"absent", "live", "gone"}]
  BY DEF Handlers, Workers, IInv, TypeOK, Facts
<1>2. \A f \in Facts : DayOf[f] \in Days
  BY FactAssumption
<1>3. CASE \E f \in Punches : StorePunch(h, f) \/ VoidEvent(h, f)
  <2>1. PICK f \in Punches : StorePunch(h, f) \/ VoidEvent(h, f)
    BY <1>3
  <2>2. DayOf[f] \in Days /\ f \in Facts
    BY <1>1, <1>2
  <2>3. Starts(h, "events", {DayOf[f]})
    BY <1>1, <2>1, <2>2, ProcessStarts DEF StorePunch, VoidEvent
  <2>4. DayOf[f] <= today
    BY <2>1 DEF StorePunch, VoidEvent, CInv, Past
  <2>5. /\ UNCHANGED special
        /\ \A e \in Facts \ {f} : facts'[e] = facts[e]
    BY <1>1, <2>1 DEF StorePunch, VoidEvent
  <2>6. \A d \in Days \ {DayOf[f]} : FactsOn(d)' = FactsOn(d)
    BY <2>5 DEF FactsOn
  <2>7. \A e \in Punches : facts'[e] = "live" => facts[e] = "live" \/ DayOf[e] <= today
    BY <1>1, <2>4, <2>5
  <2>8. QED
    BY <2>2, <2>3, <2>4, <2>5, <2>6, <2>7
<1>4. CASE \E f \in Leaves : ReviewLeave(h, f)
  <2>1. PICK f \in Leaves : ReviewLeave(h, f)
    BY <1>4
  <2> DEFINE queue == {d \in Days : d = DayOf[f] \/ d + 1 = DayOf[f]}
  <2>2. queue \in SUBSET Days /\ DayOf[f] \in queue /\ f \in Facts /\ f \notin Punches
    BY <1>1, <1>2, FactAssumption
  <2>3. RecomputeRange(h, queue)
    BY <2>1 DEF ReviewLeave
  <2>4. Starts(h, "range", queue)
    BY <1>1, <2>2, <2>3, RangeStarts
  <2>5. /\ UNCHANGED special
        /\ \A e \in Facts \ {f} : facts'[e] = facts[e]
    BY <1>1, <2>1 DEF ReviewLeave
  <2> HIDE DEF queue
  <2>6. \A d \in Days \ queue : FactsOn(d)' = FactsOn(d)
    BY <2>2, <2>5 DEF FactsOn
  <2>7. \A e \in Punches : facts'[e] = facts[e]
    BY <1>1, <2>2, <2>5
  <2>8. QED
    BY <2>2, <2>4, <2>5, <2>6, <2>7
<1>5. CASE \E d \in Days : ChangePlan(h, d)
  <2>1. PICK d \in Days : ChangePlan(h, d)
    BY <1>5
  <2>2. /\ RecomputeRange(h, {d}) /\ UNCHANGED facts
        /\ special' = IF d \in special THEN special \ {d} ELSE special \cup {d}
        /\ \A g \in Workers : At(g, "idle")
    BY <2>1 DEF ChangePlan
  <2>3. Starts(h, "range", {d}) /\ {d} \in SUBSET Days
    BY <1>1, <2>2, RangeStarts
  <2>4. \A e \in Days \ {d} : FactsOn(e)' = FactsOn(e) /\ (e \in special' <=> e \in special)
    BY <2>2, FactsStay
  <2>5. QED
    BY <2>2, <2>3, <2>4
<1>6. CASE RequestRecompute(h)
  <2>1. UNCHANGED <<facts, special>>
    BY <1>6 DEF RequestRecompute
  <2>2. PICK from \in Days, to \in Days : RecomputeRange(h, from..to)
    BY <1>6 DEF RequestRecompute
  <2> DEFINE queue == from..to
  <2>3. queue \in SUBSET Days
    BY DayAssumption DEF Days
  <2>4. Starts(h, "range", queue)
    BY <1>1, <2>2, <2>3, RangeStarts
  <2>5. \A d : FactsOn(d)' = FactsOn(d)
    BY <2>1, FactsStay
  <2> HIDE DEF queue
  <2>6. QED
    BY <2>1, <2>3, <2>4, <2>5
<1>7. QED
  BY <1>3, <1>4, <1>5, <1>6

LEMMA ChangeSettles ==
  ASSUME IInv, CInv, ~PlanRaces, NEW h \in Changers,
         \/ \E f \in Punches : StorePunch(h, f) \/ VoidEvent(h, f)
         \/ \E f \in Leaves : ReviewLeave(h, f)
         \/ \E d \in Days : ChangePlan(h, d)
         \/ RequestRecompute(h)
  PROVE  CInv'
<1>1. UNCHANGED <<today, ended, record>> /\ At(h, "idle")
  BY ChangeEffect
<1>2. PICK queue \in SUBSET Days, j \in Job :
        /\ job' = [job EXCEPT ![h] = j]
        /\ j.pc = "loading" /\ j.queue = queue /\ j.asOf = 0
        /\ j.task = "events" => \A d \in queue : d <= today
        /\ \A d \in Days \ queue : /\ FactsOn(d)' = FactsOn(d)
                                   /\ d \in special' <=> d \in special
        /\ UNCHANGED special \/ \A g \in Workers : At(g, "idle")
        /\ \A f \in Punches : facts'[f] = "live" => facts[f] = "live" \/ DayOf[f] <= today
  BY ChangeReach DEF Starts
<1>3. /\ job'[h] = j /\ h \in Workers /\ job[h].queue = {}
      /\ \A g \in Workers \ {h} : job'[g] = job[g]
  BY <1>1, <1>2, OneJob DEF IInv, Handlers, Workers, Placed, At
<1>4. \A d : \A g \in Workers : Computing(g, d)' <=> g # h /\ Computing(g, d)
  BY <1>1, <1>2, <1>3 DEF Computing, At
<1>5. Alone'
  BY <1>4 DEF CInv, Alone
<1>6. Snapshot'
  BY <1>2, <1>3 DEF CInv, Snapshot, At
<1>7. Early'
  BY <1>1, <1>2, <1>3 DEF CInv, Early, At
<1>8. Past'
  <2>1. 0 <= today
    BY DaysNat DEF IInv, TypeOK
  <2>2. QED
    BY <1>1, <1>2, <1>3, <2>1 DEF CInv, Past
<1>9. Settled'
  <2> SUFFICES ASSUME NEW d \in Hired..LastDay, ~Owed(d)'
               PROVE  /\ \A g \in Workers : Computing(g, d)' => Fresh(g, d)'
                      /\ (\A c \in Changers : ~Computing(c, d)') => Current(d)'
    BY DEF Settled
  <2>1. d \in Days
    BY DayAssumption DEF Days
  <2>2. d \notin queue
    BY <1>2, <1>3 DEF Owed
  <2>3. FactsOn(d)' = FactsOn(d) /\ (d \in special' <=> d \in special)
    BY <1>2, <2>1, <2>2
  <2>4. ~Owed(d)
    BY <1>3 DEF Owed, Workers
  <2>5. \A g \in Workers : Computing(g, d)' => Fresh(g, d)'
    BY <1>3, <1>4, <2>3, <2>4 DEF CInv, Settled, Fresh
  <2>6. Current(d)' <=> Current(d)
    BY <1>1, <2>3 DEF Current
  <2>7. (\A c \in Changers : ~Computing(c, d)') => \A c \in Changers : ~Computing(c, d)
    BY <1>1, <1>4 DEF Workers, Computing, At
  <2>8. QED
    BY <2>4, <2>5, <2>6, <2>7 DEF CInv, Settled
<1>10. QED
  BY <1>5, <1>6, <1>7, <1>8, <1>9 DEF CInv

LEMMA LoadSettles == ASSUME IInv, CInv, NEW h \in Workers, LoadCalendar(h) PROVE CInv'
<1>1. PICK j \in Job :
        /\ job' = [job EXCEPT ![h] = j]
        /\ j.queue = Due(h)
        /\ j.pc = IF Due(h) # {} THEN "reading" ELSE AfterQueue[job[h].task]
        /\ j.pc # "idle" => j.calendar = special /\ j.task = job[h].task
        /\ j.asOf \in {0, today, job[h].asOf}
  BY LoadEffect
<1>2. /\ At(h, "loading")
      /\ UNCHANGED <<today, ended, facts, special, record, overtime, rows, lastRun, spent>>
  BY DEF LoadCalendar
<1>3. /\ job[h].task \in {"events", "range", "finalize"}
      /\ today \in Nat /\ job[h].asOf <= today
  BY <1>2, DaysNat DEF Handlers, IInv, TypeOK, Job, Placed, At, CInv, Past
<1>4. \A d \in Due(h) : d <= today
  BY DEF Due, CInv, Past
<1>5. \A d \in job[h].queue : Hired <= d /\ d <= today => d \in Due(h)
  BY DEF Due
<1>6. /\ j.pc \notin {"dropping", "opening", "closing"}
      /\ j.pc = "idle" => j.queue = {}
      /\ j.asOf <= today
  BY <1>1, <1>3, AfterQueueValues
<1>7. QED
  BY <1>1, <1>2, <1>4, <1>5, <1>6, QuietSettles DEF At

LEMMA FillSettles == ASSUME IInv, CInv, NEW h \in Workers, FillDaysSince(h) PROVE CInv'
<1>1. /\ At(h, "filling")
      /\ UNCHANGED <<today, ended, facts, special, record, overtime, rows, lastRun, spent>>
  BY FillEffect
<1>2. /\ job[h] \in Job /\ job[h].queue = {} /\ job[h].calendar = special
      /\ job[h].asOf <= today /\ job[h].asOf \in Nat /\ today \in Nat
  BY <1>1, DaysNat DEF Handlers, IInv, TypeOK, Job, Placed, At, CInv, Past, Snapshot
<1>3. \E j \in Job :
        /\ job' = [job EXCEPT ![h] = j]
        /\ j.asOf <= today
        /\ \/ /\ j.pc = "reading" /\ j.calendar = special
              /\ \A d \in j.queue : d <= today
           \/ j.pc = "idle" /\ j.queue = {}
  <2>1. CASE Finish(h)
    BY <1>2, <2>1, FinishEffect
  <2>2. CASE ~Finish(h)
    <3>1. PICK j \in Job :
            /\ job' = [job EXCEPT ![h] = j]
            /\ j.pc = "reading" /\ j.calendar = job[h].calendar
            /\ j.asOf = job[h].asOf /\ \A d \in j.queue : d < job[h].asOf
      BY <2>2, FillEffect
    <3>2. \A d \in j.queue : d \in Nat
      BY DaysNat DEF Job
    <3>3. \A d \in j.queue : d <= today
      BY <1>2, <3>1, <3>2
    <3>4. QED
      BY <1>2, <3>1, <3>3
  <2>3. QED
    BY <2>1, <2>2
<1>4. QED
  BY <1>1, <1>2, <1>3, QuietSettles DEF At

LEMMA FinalizeSettles ==
  ASSUME IInv, CInv, NEW h \in Finalizers, Finalize(h) PROVE CInv'
<1>1. h \in Workers /\ h \notin Changers
  BY HandlerAssumption DEF Workers
<1>2. UNCHANGED <<today, ended, facts, special, record>>
  BY <1>1, FinalizeEffect
<1>3. PICK j \in Job : /\ job' = [job EXCEPT ![h] = j]
                       /\ j.pc \in {"listing", "loading", "missing", "idle"}
                       /\ j.asOf \in {0, today, job[h].asOf}
                       /\ \A d \in j.queue : d <= job[h].asOf
  BY <1>1, FinalizeEffect
<1>4. /\ today \in Nat /\ job[h].asOf <= today /\ job[h].asOf \in Nat
      /\ \A d \in j.queue : d \in Nat
  BY <1>1, DaysNat DEF Handlers, IInv, TypeOK, Job, CInv, Past
<1>5. j.asOf <= today
  BY <1>3, <1>4
<1>6. \A d \in j.queue : d <= today
  BY <1>3, <1>4
<1>7. QED
  BY <1>1, <1>2, <1>3, <1>5, <1>6, QuietSettles

LEMMA DieSettles ==
  ASSUME IInv, CInv, Mortal \cap Changers = {}, NEW h \in Mortal, Die(h) PROVE CInv'
<1>1. h \in Workers /\ h \notin Changers
  BY HandlerAssumption DEF Workers
<1>2. /\ UNCHANGED <<today, ended, facts, special, record>>
      /\ Finish(h)
  BY DEF Die
<1>3. 0 <= today
  BY DaysNat DEF IInv, TypeOK
<1>4. QED
  BY <1>1, <1>2, <1>3, FinishEffect, QuietSettles

LEMMA ReadSettles ==
  ASSUME IInv, CInv, ~SameDay, NEW h \in Workers, ReadDay(h) PROVE CInv'
<1>1. PICK d \in job[h].queue, j \in Job :
        /\ job' = [job EXCEPT ![h] = j]
        /\ \A g \in Workers : ~Computing(g, d)
        /\ j.pc = IF FactsOn(d) \cap Punches = {} /\ ended <= d THEN "dropping" ELSE "opening"
        /\ j.queue = job[h].queue \ {d} /\ j.day = d /\ j.seen = FactsOn(d)
        /\ j.final = (d < ended)
        /\ j.calendar = job[h].calendar /\ j.asOf = job[h].asOf
  BY ReadEffect
<1>2. UNCHANGED <<today, ended, facts, special, record>> /\ At(h, "reading")
  BY DEF ReadDay
<1>3. /\ job'[h] = j /\ job[h] \in Job /\ d \in Days /\ d \in Nat /\ ended \in Nat
      /\ \A g \in Workers \ {h} : job'[g] = job[g]
  BY <1>1, OneJob, DaysNat DEF IInv, TypeOK, Job, Handlers
<1>4. /\ d <= today /\ \A e \in job[h].queue : e <= today
      /\ job[h].calendar = special /\ job[h].asOf <= today
  BY <1>2 DEF At, CInv, Past, Snapshot
<1>5. /\ \A e : \A g \in Workers \ {h} : Computing(g, e)' <=> Computing(g, e)
      /\ \A e : Computing(h, e)' <=> e = d
      /\ \A e : ~Computing(h, e)
  BY <1>1, <1>2, <1>3 DEF Computing, At
<1>6. Alone'
  BY <1>1, <1>5 DEF CInv, Alone
<1>7. Snapshot'
  BY <1>1, <1>2, <1>3, <1>4 DEF CInv, Snapshot
<1>8. Early'
  <2>1. j.pc \in {"opening", "closing"} /\ j.final => j.day < ended
    BY <1>1
  <2>2. j.pc = "dropping" => j.seen \cap Punches = {} /\ ~(j.day < ended)
    BY <1>1, <1>3
  <2>3. record[d] # None /\ record[d].final => d < ended
    BY <1>3 DEF CInv, Early
  <2>4. QED
    BY <1>1, <1>2, <1>3, <2>1, <2>2, <2>3 DEF CInv, Early, At
<1>9. Past'
  BY <1>1, <1>2, <1>3, <1>4 DEF CInv, Past
<1>10. Settled'
  <2> SUFFICES ASSUME NEW e \in Hired..LastDay, ~Owed(e)'
               PROVE  /\ \A g \in Workers : Computing(g, e)' => Fresh(g, e)'
                      /\ (\A c \in Changers : ~Computing(c, e)') => Current(e)'
    BY DEF Settled
  <2>1. Current(e)' = Current(e) /\ FactsOn(e)' = FactsOn(e)
    BY <1>2, FactsStay
  <2>2. CASE e = d
    <3>1. Fresh(h, e)'
      BY <1>1, <1>2, <1>3, <1>4, <2>1, <2>2 DEF Fresh
    <3>2. ASSUME h \notin Changers PROVE Current(e)
      <4>1. ~Owed(e)
        BY <1>3, <3>2 DEF Owed, Workers
      <4>2. \A c \in Changers : ~Computing(c, e)
        BY <1>1, <2>2 DEF Workers
      <4>3. QED
        BY <4>1, <4>2 DEF CInv, Settled
    <3>3. QED
      BY <1>1, <1>5, <2>1, <2>2, <3>1, <3>2
  <2>3. CASE e # d
    <3>1. ~Owed(e)
      BY <1>1, <1>3, <2>3 DEF Owed, Workers
    <3>2. \A g \in Workers \ {h} : Fresh(g, e)' = Fresh(g, e)
      BY <1>2, <1>3, <2>1 DEF Fresh
    <3>3. \A c \in Changers : Computing(c, e)' <=> Computing(c, e)
      BY <1>5, <2>3 DEF Workers
    <3>4. QED
      BY <1>5, <2>1, <2>3, <3>1, <3>2, <3>3 DEF CInv, Settled
  <2>4. QED
    BY <2>2, <2>3
<1>11. QED
  BY <1>6, <1>7, <1>8, <1>9, <1>10 DEF CInv

LEMMA OpenSettles == ASSUME IInv, CInv, NEW h \in Workers, OpenTransaction(h) PROVE CInv'
<1>1. /\ At(h, "opening") /\ UNCHANGED <<today, ended, facts, special, record>>
      /\ \E j \in Job :
           /\ job' = [job EXCEPT ![h] = j]
           /\ j.pc = "closing" /\ j.day = job[h].day
           /\ j.queue = job[h].queue /\ j.seen = job[h].seen /\ j.final = job[h].final
           /\ j.task = job[h].task /\ j.calendar = job[h].calendar /\ j.asOf = job[h].asOf
  BY OpenEffect
<1>2. PICK j \in Job :
        /\ job' = [job EXCEPT ![h] = j]
        /\ j.pc = "closing" /\ j.day = job[h].day
        /\ j.queue = job[h].queue /\ j.seen = job[h].seen /\ j.final = job[h].final
        /\ j.task = job[h].task /\ j.calendar = job[h].calendar /\ j.asOf = job[h].asOf
  BY <1>1
<1>3. job'[h] = j /\ \A g \in Workers \ {h} : job'[g] = job[g]
  BY <1>2, OneJob DEF IInv, Handlers
<1>4. \A d : \A g \in Workers : Computing(g, d)' <=> Computing(g, d)
  BY <1>1, <1>2, <1>3 DEF Computing, At
<1>5. Alone' /\ Snapshot'
  BY <1>1, <1>2, <1>3, <1>4 DEF CInv, Alone, Snapshot, At
<1>6. Early' /\ Past'
  BY <1>1, <1>2, <1>3 DEF CInv, Early, Past, At
<1>7. Settled'
  <2> SUFFICES ASSUME NEW d \in Hired..LastDay, ~Owed(d)'
               PROVE  /\ \A g \in Workers : Computing(g, d)' => Fresh(g, d)'
                      /\ (\A c \in Changers : ~Computing(c, d)') => Current(d)'
    BY DEF Settled
  <2>1. ~Owed(d)
    BY <1>2, <1>3 DEF Owed, Workers
  <2>2. \A g \in Workers : Fresh(g, d)' = Fresh(g, d)
    BY <1>1, <1>2, <1>3, FactsStay DEF Fresh
  <2>3. Current(d)' = Current(d)
    BY <1>1, FactsStay
  <2>4. QED
    BY <1>4, <2>1, <2>2, <2>3 DEF CInv, Settled, Workers
<1>8. QED
  BY <1>5, <1>6, <1>7 DEF CInv

\* A handler is done with a day, and what it leaves as its record is current if
\* what it had read is.
LEMMA SavedSettles ==
  ASSUME IInv, CInv, NEW h \in Workers, job[h].pc \in {"dropping", "closing"},
         job' = [job EXCEPT ![h] = Keep(h, AfterDay(h))],
         UNCHANGED <<today, ended, facts, special>>,
         NEW d, d = job[h].day,
         \A e \in Days \ {d} : record'[e] = record[e],
         record'[d] # None /\ record'[d].final => d < ended,
         Fresh(h, d) => Current(d)'
  PROVE  CInv'
<1>1. PICK j \in Job :
        /\ job' = [job EXCEPT ![h] = j]
        /\ j.queue = job[h].queue
        /\ j.pc \in {"loading", "reading", "filling", "idle", "missing"}
        /\ j.pc # "idle" => j.calendar = job[h].calendar /\ j.task = job[h].task
        /\ j.asOf \in {0, job[h].asOf}
  BY NextEffect
<1>2. /\ job'[h] = j /\ d \in Days /\ Computing(h, d)
      /\ \A g \in Workers \ {h} : job'[g] = job[g]
  BY <1>1, OneJob DEF IInv, TypeOK, Job, Handlers, Computing
<1>3. /\ \A e : \A g \in Workers : Computing(g, e)' <=> g # h /\ Computing(g, e)
      /\ \A e \in Days \ {d} : ~Computing(h, e)
  BY <1>1, <1>2 DEF Computing
<1>4. \A g \in Workers \ {h} : ~Computing(g, d)
  BY <1>2 DEF CInv, Alone
<1>5. Alone'
  BY <1>3 DEF CInv, Alone
<1>6. Snapshot'
  BY <1>1, <1>2 DEF CInv, Snapshot
<1>7. Early'
  <2>1. \A e \in Days : record'[e] # None /\ record'[e].final => e < ended
    BY DEF CInv, Early
  <2>2. \A g \in Workers \ {h} :
          job[g].pc \in {"dropping", "opening", "closing"} => job[g].day \in Days \ {d}
    BY <1>4 DEF Computing, IInv, TypeOK, Job, Handlers
  <2>3. QED
    BY <1>1, <1>2, <2>1, <2>2 DEF CInv, Early, At
<1>8. Past'
  <2>1. /\ d <= today /\ \A e \in job[h].queue : e <= today
        /\ job[h].asOf <= today /\ 0 <= today
    BY DaysNat DEF CInv, Past, IInv, TypeOK
  <2>2. \A e \in Days : record'[e] # None => e <= today
    BY <2>1 DEF CInv, Past
  <2>3. j.asOf <= today
    BY <1>1, <2>1
  <2>4. QED
    BY <1>1, <1>2, <2>1, <2>2, <2>3 DEF CInv, Past
<1>9. Settled'
  <2> SUFFICES ASSUME NEW e \in Hired..LastDay, ~Owed(e)'
               PROVE  /\ \A g \in Workers : Computing(g, e)' => Fresh(g, e)'
                      /\ (\A c \in Changers : ~Computing(c, e)') => Current(e)'
    BY DEF Settled
  <2>1. e \in Days /\ ~Owed(e)
    BY <1>1, <1>2, DayAssumption DEF Owed, Workers, Days
  <2>2. CASE e = d
    <3>1. Fresh(h, d)
      BY <1>2, <2>1, <2>2 DEF CInv, Settled
    <3>2. Current(d)'
      BY <3>1
    <3>3. QED
      BY <1>3, <1>4, <2>2, <3>2
  <2>3. CASE e # d
    <3>1. Current(e)' = Current(e)
      BY <2>1, <2>3, FactsStay DEF Current
    <3>2. \A g \in Workers \ {h} : Fresh(g, e)' = Fresh(g, e)
      BY <1>2, FactsStay DEF Fresh
    <3>3. \A c \in Changers : Computing(c, e)' <=> Computing(c, e)
      BY <1>3, <2>1, <2>3 DEF Workers
    <3>4. QED
      BY <1>3, <2>1, <3>1, <3>2, <3>3 DEF CInv, Settled
  <2>4. QED
    BY <2>2, <2>3
<1>10. QED
  BY <1>5, <1>6, <1>7, <1>8, <1>9 DEF CInv

LEMMA DropSettles == ASSUME IInv, CInv, NEW h \in Workers, DropProvisional(h) PROVE CInv'
<1>1. PICK d : d = job[h].day
  OBVIOUS
<1>2. /\ At(h, "dropping") /\ job' = [job EXCEPT ![h] = Keep(h, AfterDay(h))]
      /\ record' = IF record[d] # None /\ ~record[d].final
                     THEN [record EXCEPT ![d] = None] ELSE record
      /\ UNCHANGED <<today, ended, facts, special>>
  BY <1>1 DEF DropProvisional
<1>3. d \in Days /\ record \in [Days -> Record \cup {None}]
  BY <1>1 DEF IInv, TypeOK, Job, Handlers
<1>4. /\ job[h].seen \cap Punches = {}
      /\ record[d] # None => ~record[d].final
  BY <1>1, <1>2 DEF CInv, Early
<1>5. record'[d] = None /\ \A e \in Days \ {d} : record'[e] = record[e]
  BY <1>2, <1>3, <1>4
<1>6. Fresh(h, d) => Current(d)'
  BY <1>2, <1>4, <1>5, FactsStay DEF Fresh, Current
<1>7. QED
  BY <1>1, <1>2, <1>5, <1>6, SavedSettles DEF At

LEMMA CommitSettles ==
  ASSUME IInv, CInv, NEW h \in Workers, CommitTransaction(h) PROVE CInv'
<1>1. PICK d : d = job[h].day
  OBVIOUS
<1>2. /\ At(h, "closing") /\ d \in Days
      /\ job' = [job EXCEPT ![h] = Keep(h, AfterDay(h))]
      /\ record'[d] = Outcome(h) /\ \A e \in Days \ {d} : record'[e] = record[e]
      /\ UNCHANGED <<today, ended, facts, special>>
  BY <1>1, CommitEffect
<1>3. Outcome(h) # None
  BY OutcomeType DEF IInv, Handlers
<1>4. /\ Outcome(h).facts = job[h].seen /\ Outcome(h).special = (d \in job[h].calendar)
      /\ Outcome(h).final = job[h].final
  BY <1>1 DEF Outcome
<1>5. job[h].final => d < ended
  BY <1>1, <1>2 DEF CInv, Early, At
<1>6. Fresh(h, d) => Current(d)'
  BY <1>2, <1>3, <1>4, FactsStay DEF Fresh, Current
<1>7. QED
  BY <1>1, <1>2, <1>3, <1>4, <1>5, <1>6, SavedSettles DEF At

LEMMA NextSettles == Orderly /\ IInv /\ CInv /\ [Next]_vars => CInv'
<1> SUFFICES ASSUME Orderly, IInv, CInv, [Next]_vars PROVE CInv'
  OBVIOUS
<1>1. CASE NextDate \/ WindowEnds
  BY <1>1, TimeSettles
<1>2. ASSUME NEW h \in Changers,
             \/ \E f \in Punches : StorePunch(h, f) \/ VoidEvent(h, f)
             \/ \E f \in Leaves : ReviewLeave(h, f)
             \/ \E d \in Days : ChangePlan(h, d)
             \/ RequestRecompute(h)
      PROVE  CInv'
  BY <1>2, ChangeSettles DEF Orderly
<1>3. ASSUME NEW h \in Workers, Recompute(h) PROVE CInv'
  BY <1>3, LoadSettles, ReadSettles, DropSettles, OpenSettles, CommitSettles
  DEF Recompute, Orderly
<1>4. ASSUME NEW h \in Changers, FillDaysSince(h) PROVE CInv'
  BY <1>4, FillSettles DEF Workers
<1>5. ASSUME NEW h \in Finalizers, Finalize(h) PROVE CInv'
  BY <1>5, FinalizeSettles
<1>6. ASSUME NEW h \in Reviewers, (\E d \in Days : BeginReview(h, d)) \/ Decide(h)
      PROVE  CInv'
  <2>1. UNCHANGED <<today, ended, facts, special, record>>
    BY <1>6 DEF BeginReview, Decide
  <2>2. \E j : job' = [job EXCEPT ![h] = j]
    BY <1>6 DEF BeginReview, Decide, Finish
  <2>3. \A g \in Workers : job'[g] = job[g]
    BY <2>2, HandlerAssumption DEF Workers, Handlers, IInv, TypeOK
  <2>4. QED
    BY <2>1, <2>3, OthersStep
<1>7. ASSUME NEW h \in Mortal, Die(h) PROVE CInv'
  BY <1>7, DieSettles DEF Orderly
<1>8. CASE UNCHANGED vars
  BY <1>8, OthersStep DEF vars
<1>9. QED
  BY <1>1, <1>2, <1>3, <1>4, <1>5, <1>6, <1>7, <1>8 DEF Next, Workers

\* The past is reproducible.  When two recomputations of one day do not overlap,
\* plans change between computations, and every request that changed something
\* goes on to compute its days (the hourly job may die anywhere), a day nobody is
\* about to compute has the record of the punches, leaves and schedule stored now:
\* processEvents, recomputeRange, completeDaysSince and finalizePendingDays leave no
\* day behind, whatever they find and in whatever order they interleave.
THEOREM PastIsReproducible == ASSUME Orderly PROVE Spec => []RecordsCurrent
<1>1. Init => CInv
  BY InitiallySettled
<1>2. IInv /\ CInv /\ [Next]_vars => CInv'
  BY NextSettles
<1>3. CInv => RecordsCurrent
  <2> SUFFICES ASSUME CInv, NEW d \in Hired..LastDay, ~Underway(d) PROVE Current(d)
    BY DEF RecordsCurrent, Current
  <2>1. ~Owed(d) /\ \A c \in Changers : ~Computing(c, d)
    BY DEF Owed, Underway, Workers
  <2>2. QED
    BY <2>1 DEF CInv, Settled
<1>4. QED
  BY <1>1, <1>2, <1>3, InvariantHolds, PTL DEF Spec
=============================================================================
