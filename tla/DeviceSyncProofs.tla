-------------------------- MODULE DeviceSyncProofs --------------------------
(***************************************************************************)
(* Theorems about DeviceSync, for any number of terminals, punches,        *)
(* handlers and edits.                                                     *)
(***************************************************************************)
EXTENDS DeviceSync, TLAPS

\* While a sync has not downloaded yet it knows its terminal: TypeOK alone is
\* not inductive, because an idle handler has none.
KnowsTerminal ==
  \A h \in Handlers :
    job[h].pc \in {"locking", "starting", "fetching", "storing"} =>
      job[h].terminal \in Terminals \/ h \in Flushes

TypeInv == TypeOK /\ KnowsTerminal

-----------------------------------------------------------------------------
\* A download returns punches, wherever it starts.
LEMMA ReadFromType ==
  ASSUME TypeOK, NEW t \in Terminals, NEW c \in Cursors
  PROVE  /\ ReadFrom(t, c) \in SUBSET Punches
         /\ CursorAtEnd(t) \in Cursors
         /\ StartOf(t, c) \in 0..Len(memory[t])
<1>1. memory[t] \in Seq(Punches) /\ generation[t] \in Nat
  BY DEF TypeOK
<1>2. Len(memory[t]) \in Nat
  BY <1>1
<1>3. CursorAtEnd(t) \in Cursors
  BY <1>1, <1>2 DEF CursorAtEnd, Cursors
<1>4. c.next \in Nat
  BY DEF Cursors
<1>5. StartOf(t, c) \in 0..Len(memory[t])
  BY <1>2, <1>4 DEF StartOf
<1>6. \A i \in (StartOf(t, c) + 1)..Len(memory[t]) : memory[t][i] \in Punches
  BY <1>1, <1>2, <1>5
<1>7. QED
  BY <1>3, <1>5, <1>6 DEF ReadFrom

LEMMA TypeInit == Init => TypeInv
<1> SUFFICES ASSUME Init PROVE TypeInv
  OBVIOUS
<1>1. IdleJob \in Job
  BY DEF IdleJob, Job, Steps, NoCursor, Cursors, Statuses
<1>2. device \in Device
  BY DEF Init, Device, Statuses, LockAges, NoCursor, Cursors
<1>3. memory \in [Terminals -> Seq(Punches)] /\ generation \in [Terminals -> Nat \ {0}]
  BY DEF Init
<1>4. live \in Terminals \cup {NoTerminal}
  BY <1>2 DEF Init, Device
<1>5. job \in [Handlers -> Job]
  BY <1>1 DEF Init
<1>6. spent \in [wipes : 0..MaxWipes, edits : 0..MaxEdits, faults : 0..MaxFaults]
  BY BoundAssumption DEF Init
<1>7. KnowsTerminal
  BY DEF Init, KnowsTerminal, IdleJob
<1>8. QED
  BY <1>2, <1>3, <1>4, <1>5, <1>6, <1>7 DEF Init, TypeInv, TypeOK

Spent == [wipes : 0..MaxWipes, edits : 0..MaxEdits, faults : 0..MaxFaults]

\* Each counter is tested against its bound before it is incremented.
LEMMA SpentType ==
  ASSUME TypeOK
  PROVE  /\ Fault => spent' \in Spent
         /\ \A h : MayCommit(h) => spent' \in Spent
         /\ \A t : ClearLogs(t) => spent' \in Spent
<1>1. /\ spent \in Spent
      /\ spent.faults \in 0..MaxFaults /\ spent.edits \in 0..MaxEdits
      /\ spent.wipes \in 0..MaxWipes
  BY DEF TypeOK, Spent
<1>2. ASSUME Fault PROVE spent' \in Spent
  <2>1. spent.faults + 1 \in 0..MaxFaults
    BY <1>1, <1>2, BoundAssumption DEF Fault
  <2>2. spent' = [spent EXCEPT !.faults = spent.faults + 1]
    BY <1>2 DEF Fault
  <2>3. QED
    BY <1>1, <2>1, <2>2 DEF Spent
<1>3. ASSUME NEW h, MayCommit(h) PROVE spent' \in Spent
  <2>1. spent.edits + 1 \in 0..MaxEdits
    BY <1>1, <1>3, BoundAssumption DEF MayCommit
  <2>2. spent' = [spent EXCEPT !.edits = spent.edits + 1]
    BY <1>3 DEF MayCommit
  <2>3. QED
    BY <1>1, <2>1, <2>2 DEF Spent
<1>4. ASSUME NEW t, ClearLogs(t) PROVE spent' \in Spent
  <2>1. spent.wipes + 1 \in 0..MaxWipes
    BY <1>1, <1>4, BoundAssumption DEF ClearLogs
  <2>2. spent' = [spent EXCEPT !.wipes = spent.wipes + 1]
    BY <1>4 DEF ClearLogs
  <2>3. QED
    BY <1>1, <2>1, <2>2 DEF Spent
<1>5. QED
  BY <1>2, <1>3, <1>4

\* What the terminals and the clock do.
LEMMA TypeWorld ==
  ASSUME TypeInv,
         \/ \E t \in Terminals : ClearLogs(t) \/ \E p \in Punches : Punch(t, p)
         \/ LockExpires
         \/ LoseBuffer
  PROVE  TypeInv'
<1>0. TypeOK
  BY DEF TypeInv
<1>1. ASSUME NEW t \in Terminals, ClearLogs(t)
      PROVE  TypeInv'
  <2>1. spent' \in Spent
    BY <1>0, <1>1, SpentType
  <2>2. memory' \in [Terminals -> Seq(Punches)]
    BY <1>1 DEF ClearLogs, TypeInv, TypeOK
  <2>3. generation' \in [Terminals -> Nat \ {0}]
    BY <1>1 DEF ClearLogs, TypeInv, TypeOK
  <2>4. QED
    BY <1>1, <2>1, <2>2, <2>3 DEF ClearLogs, Spent, TypeInv, TypeOK, KnowsTerminal
<1>2. ASSUME NEW t \in Terminals, NEW p \in Punches, Punch(t, p)
      PROVE  TypeInv'
  <2>1. Append(memory[t], p) \in Seq(Punches)
    BY DEF TypeInv, TypeOK
  <2>2. memory' \in [Terminals -> Seq(Punches)]
    BY <1>2, <2>1 DEF Punch, TypeInv, TypeOK
  <2>3. buffer' \in SUBSET Punches
    BY <1>2 DEF Punch, TypeInv, TypeOK
  <2>4. QED
    BY <1>2, <2>2, <2>3 DEF Punch, TypeInv, TypeOK, KnowsTerminal
<1>3. CASE LockExpires
  BY <1>3 DEF LockExpires, TypeInv, TypeOK, KnowsTerminal, Device, LockAges
<1>4. CASE LoseBuffer
  <2>1. spent' \in Spent
    BY <1>0, <1>4, SpentType DEF LoseBuffer
  <2>2. QED
    BY <1>4, <2>1 DEF LoseBuffer, Spent, TypeInv, TypeOK, KnowsTerminal
<1>5. QED
  BY <1>1, <1>2, <1>3, <1>4

\* The local variables of a handler that leaves them as they are.
LEMMA GotoType ==
  ASSUME TypeInv, NEW h \in Handlers, NEW s \in Steps
  PROVE  Goto(h, s) => job' \in [Handlers -> Job]
<1>1. job \in [Handlers -> Job] /\ job[h] \in Job
  BY DEF TypeInv, TypeOK
<1>2. [job[h] EXCEPT !.pc = s] \in Job
  BY <1>1 DEF Job
<1>3. Goto(h, s) => job' = [job EXCEPT ![h] = [job[h] EXCEPT !.pc = s]]
  BY <1>1 DEF Goto
<1>4. QED
  BY <1>1, <1>2, <1>3

LEMMA FinishType ==
  ASSUME TypeInv, NEW h \in Handlers, Finish(h)
  PROVE  job' \in [Handlers -> Job] /\ KnowsTerminal'
<1>1. IdleJob \in Job /\ IdleJob.pc = "idle"
  BY DEF IdleJob, Job, Steps, NoCursor, Cursors, Statuses
<1>2. QED
  BY <1>1 DEF Finish, TypeInv, TypeOK, KnowsTerminal

LEMMA TypeSync ==
  ASSUME TypeInv, NEW h \in Syncs, SyncStep(h)
  PROVE  TypeInv'
<1> USE DEF Handlers
<1>0. TypeOK /\ h \in Handlers /\ h \notin Flushes /\ job[h] \in Job
  BY HandlerAssumption DEF TypeInv, TypeOK
<1>1. CASE BeginSync(h)
  <2>1. job'[h] = [pc |-> "locking", terminal |-> device.terminal,
                   cursor |-> device.cursor, batch |-> {}, todo |-> {},
                   seen |-> "OFFLINE"]
    BY <1>0, <1>1 DEF BeginSync, TypeOK, IdleJob
  <2>2. device.terminal \in Terminals /\ device.cursor \in Cursors
    BY <1>0 DEF TypeOK, Device
  <2>3. job' \in [Handlers -> Job]
    <3>1. job'[h] \in Job
      BY <2>1, <2>2 DEF Job, Steps, Statuses
    <3>2. job' = [job EXCEPT ![h] = job'[h]]
      BY <1>0, <1>1 DEF BeginSync, TypeOK
    <3>3. QED
      BY <1>0, <3>1, <3>2 DEF TypeOK
  <2>4. KnowsTerminal'
    BY <1>0, <1>1, <2>1, <2>2 DEF BeginSync, TypeInv, TypeOK, KnowsTerminal
  <2>5. QED
    BY <1>0, <1>1, <2>3, <2>4 DEF BeginSync, TypeInv, TypeOK
<1>2. CASE AcquireLock(h)
  <2>1. job' \in [Handlers -> Job]
    BY <1>0, <1>2, GotoType DEF AcquireLock, Steps
  <2>2. device' \in Device
    BY <1>0, <1>2 DEF AcquireLock, TypeOK, Device, LockAges
  <2>3. KnowsTerminal'
    BY <1>0, <1>2 DEF AcquireLock, At, Goto, TypeInv, TypeOK, KnowsTerminal
  <2>4. QED
    BY <1>0, <1>2, <2>1, <2>2, <2>3 DEF AcquireLock, TypeInv, TypeOK
<1>3. CASE LockRefused(h)
  BY <1>0, <1>3, FinishType DEF LockRefused, TypeInv, TypeOK
<1>4. CASE MarkSyncing(h)
  <2>1. job' \in [Handlers -> Job]
    BY <1>0, <1>4, GotoType DEF MarkSyncing, Steps
  <2>2. device' \in Device
    BY <1>0, <1>4 DEF MarkSyncing, SetStatus, TypeOK, Device, Statuses
  <2>3. KnowsTerminal'
    BY <1>0, <1>4 DEF MarkSyncing, At, Goto, TypeInv, TypeOK, KnowsTerminal
  <2>4. QED
    BY <1>0, <1>4, <2>1, <2>2, <2>3 DEF MarkSyncing, TypeInv, TypeOK
<1>5. CASE Fetch(h)
  <2> DEFINE t == job[h].terminal
  <2>1. t \in Terminals /\ job[h].cursor \in Cursors
    BY <1>0, <1>5 DEF Fetch, At, TypeInv, KnowsTerminal, Job
  <2>2. /\ Accepted(ReadFrom(t, job[h].cursor)) \in SUBSET Punches
        /\ CursorAtEnd(t) \in Cursors
    BY <1>0, <2>1, ReadFromType DEF Accepted
  <2>3. job' \in [Handlers -> Job]
    BY <1>0, <1>5, <2>2 DEF Fetch, TypeOK, Job, Steps
  <2>4. KnowsTerminal'
    BY <1>0, <1>5, <2>1 DEF Fetch, TypeInv, TypeOK, KnowsTerminal, Job
  <2>5. live' \in Terminals \cup {NoTerminal}
    BY <1>0, <1>5 DEF Fetch, TypeOK
  <2>6. QED
    BY <1>0, <1>5, <2>3, <2>4, <2>5 DEF Fetch, TypeInv, TypeOK
<1>6. CASE Store(h)
  <2>1. job' \in [Handlers -> Job]
    BY <1>0, <1>6 DEF Store, TypeOK, Job, Steps
  <2>2. events' \in SUBSET Punches
    BY <1>0, <1>6 DEF Store, TypeOK, Job
  <2>3. KnowsTerminal'
    BY <1>0, <1>6 DEF Store, TypeInv, TypeOK, KnowsTerminal, Job
  <2>4. QED
    BY <1>0, <1>6, <2>1, <2>2, <2>3 DEF Store, TypeInv, TypeOK
<1>7. CASE Process(h)
  <2>1. job' \in [Handlers -> Job]
    BY <1>0, <1>7 DEF Process, TypeOK, Job, Steps
  <2>2. handed' \in SUBSET Punches
    BY <1>0, <1>7 DEF Process, TypeOK, Job
  <2>3. KnowsTerminal'
    BY <1>0, <1>7 DEF Process, TypeInv, TypeOK, KnowsTerminal, Job
  <2>4. QED
    BY <1>0, <1>7, <2>1, <2>2, <2>3 DEF Process, TypeInv, TypeOK
<1>8. CASE SaveCursor(h)
  <2>1. job' \in [Handlers -> Job]
    BY <1>0, <1>8, GotoType DEF SaveCursor, Steps
  <2>2. device' \in Device
    BY <1>0, <1>8 DEF SaveCursor, TypeOK, Device, Statuses, Job
  <2>3. KnowsTerminal'
    BY <1>0, <1>8 DEF SaveCursor, Goto, TypeInv, TypeOK, KnowsTerminal
  <2>4. QED
    BY <1>0, <1>8, <2>1, <2>2, <2>3 DEF SaveCursor, TypeInv, TypeOK
<1>9. CASE RecordFailure(h)
  <2>1. job' \in [Handlers -> Job]
    BY <1>0, <1>9, GotoType DEF RecordFailure, Steps
  <2>2. device' \in Device
    BY <1>0, <1>9 DEF RecordFailure, SetStatus, TypeOK, Device, Statuses
  <2>3. KnowsTerminal'
    BY <1>0, <1>9 DEF RecordFailure, Goto, TypeInv, TypeOK, KnowsTerminal
  <2>4. QED
    BY <1>0, <1>9, <2>1, <2>2, <2>3 DEF RecordFailure, TypeInv, TypeOK
<1>10. CASE Unlock(h)
  <2>1. device' \in Device
    BY <1>0, <1>10 DEF Unlock, TypeOK, Device, LockAges
  <2>2. QED
    BY <1>0, <1>10, <2>1, FinishType DEF Unlock, TypeInv, TypeOK
<1>11. QED
  BY <1>1, <1>2, <1>3, <1>4, <1>5, <1>6, <1>7, <1>8, <1>9, <1>10 DEF SyncStep

\* SyncFails and Die leave some of the rows unprocessed and reset the handler.
LEMMA TypeSyncFault ==
  ASSUME TypeInv, NEW h \in Syncs, SyncFails(h) \/ Die(h)
  PROVE  TypeInv'
<1> USE DEF Handlers
<1>0. TypeOK /\ h \in Handlers /\ job[h] \in Job
  BY DEF TypeInv, TypeOK
<1>1. handed' \in SUBSET Punches
  BY <1>0 DEF SyncFails, Die, TypeOK, Job
<1>2. spent' \in Spent
  BY <1>0, SpentType DEF SyncFails, Die
<1>3. job' \in [Handlers -> Job] /\ KnowsTerminal'
  <2>1. CASE Die(h)
    BY <1>0, <2>1, FinishType DEF Die
  <2>2. CASE SyncFails(h)
    <3>1. [IdleJob EXCEPT !.pc = "failing"] \in Job
      BY DEF IdleJob, Job, Steps, NoCursor, Cursors, Statuses
    <3>2. job' = [job EXCEPT ![h] = [IdleJob EXCEPT !.pc = "failing"]]
      BY <2>2 DEF SyncFails
    <3>3. [IdleJob EXCEPT !.pc = "failing"].pc = "failing"
      BY DEF IdleJob
    <3>4. QED
      BY <1>0, <3>1, <3>2, <3>3 DEF TypeInv, TypeOK, KnowsTerminal
  <2>3. QED
    BY <2>1, <2>2
<1>4. live' \in Terminals \cup {NoTerminal}
  BY <1>0 DEF SyncFails, Die, TypeOK
<1>5. QED
  BY <1>0, <1>1, <1>2, <1>3, <1>4 DEF SyncFails, Die, Spent, TypeInv, TypeOK

LEMMA TypeFlush ==
  ASSUME TypeInv, NEW h \in Flushes, FlushStep(h) \/ FlushFails(h)
  PROVE  TypeInv'
<1> USE DEF Handlers
<1>0. TypeOK /\ h \in Handlers /\ job[h] \in Job
  BY DEF TypeInv, TypeOK
<1>1. CASE BeginFlush(h)
  <2>1. job'[h] = [pc |-> "storing", terminal |-> NoTerminal, cursor |-> NoCursor,
                   batch |-> Accepted(buffer), todo |-> {}, seen |-> "OFFLINE"]
    BY <1>0, <1>1 DEF BeginFlush, TypeOK, IdleJob
  <2>2. job'[h] \in Job
    BY <1>0, <2>1 DEF Job, Steps, Statuses, NoCursor, Cursors, Accepted, TypeOK
  <2>3. job' = [job EXCEPT ![h] = job'[h]]
    BY <1>0, <1>1 DEF BeginFlush, TypeOK
  <2>4. KnowsTerminal'
    BY <1>0, <2>3 DEF TypeInv, TypeOK, KnowsTerminal
  <2>5. QED
    BY <1>0, <1>1, <2>2, <2>3, <2>4 DEF BeginFlush, TypeInv, TypeOK
<1>2. CASE Store(h)
  <2>1. job' \in [Handlers -> Job]
    BY <1>0, <1>2 DEF Store, TypeOK, Job, Steps
  <2>2. events' \in SUBSET Punches
    BY <1>0, <1>2 DEF Store, TypeOK, Job
  <2>3. KnowsTerminal'
    BY <1>0, <1>2 DEF Store, TypeInv, TypeOK, KnowsTerminal, Job
  <2>4. QED
    BY <1>0, <1>2, <2>1, <2>2, <2>3 DEF Store, TypeInv, TypeOK
<1>3. CASE Process(h)
  <2>1. job' \in [Handlers -> Job]
    BY <1>0, <1>3 DEF Process, TypeOK, Job, Steps
  <2>2. handed' \in SUBSET Punches
    BY <1>0, <1>3 DEF Process, TypeOK, Job
  <2>3. KnowsTerminal'
    BY <1>0, <1>3 DEF Process, TypeInv, TypeOK, KnowsTerminal, Job
  <2>4. QED
    BY <1>0, <1>3, <2>1, <2>2, <2>3 DEF Process, TypeInv, TypeOK
<1>4. CASE LookAtDevice(h)
  <2>1. job' \in [Handlers -> Job]
    BY <1>0, <1>4 DEF LookAtDevice, TypeOK, Job, Steps, Device
  <2>2. KnowsTerminal'
    BY <1>0, <1>4 DEF LookAtDevice, TypeInv, TypeOK, KnowsTerminal, Job
  <2>3. QED
    BY <1>0, <1>4, <2>1, <2>2 DEF LookAtDevice, TypeInv, TypeOK
<1>5. CASE MarkOnline(h)
  <2>1. device' \in Device
    BY <1>0, <1>5 DEF MarkOnline, SetStatus, TypeOK, Device, Statuses
  <2>2. QED
    BY <1>0, <1>5, <2>1, FinishType DEF MarkOnline, TypeInv, TypeOK
<1>6. CASE FlushFails(h)
  <2>1. handed' \in SUBSET Punches
    BY <1>0, <1>6 DEF FlushFails, TypeOK, Job
  <2>2. spent' \in Spent
    BY <1>0, <1>6, SpentType DEF FlushFails
  <2>3. QED
    BY <1>0, <1>6, <2>1, <2>2, FinishType DEF FlushFails, Spent, TypeInv, TypeOK
<1>7. QED
  BY <1>1, <1>2, <1>3, <1>4, <1>5, <1>6 DEF FlushStep

LEMMA TypeProbe ==
  ASSUME TypeInv, NEW h \in Probes \cup Admins,
         \/ BeginProbe(h) \/ EndProbe(h) \/ RestartRealtime(h)
  PROVE  TypeInv'
<1> USE DEF Handlers
<1>0. TypeOK /\ h \in Handlers /\ job[h] \in Job
  BY DEF TypeInv, TypeOK
<1>1. CASE BeginProbe(h)
  <2>1. job' \in [Handlers -> Job]
    BY <1>0, <1>1, GotoType DEF BeginProbe, Steps
  <2>2. KnowsTerminal'
    BY <1>0, <1>1 DEF BeginProbe, Goto, TypeInv, TypeOK, KnowsTerminal
  <2>3. QED
    BY <1>0, <1>1, <2>1, <2>2 DEF BeginProbe, TypeInv, TypeOK
<1>2. CASE EndProbe(h)
  <2>1. device' \in Device
    BY <1>0, <1>2 DEF EndProbe, SetStatus, TypeOK, Device, Statuses
  <2>2. job' \in [Handlers -> Job] /\ KnowsTerminal'
    <3>1. CASE Finish(h)
      BY <1>0, <3>1, FinishType
    <3>2. CASE job' = [job EXCEPT ![h].pc = "restarting",
                                  ![h].terminal = device.terminal]
      <4>1. job' \in [Handlers -> Job]
        BY <1>0, <3>2 DEF TypeOK, Job, Steps, Device
      <4>2. KnowsTerminal'
        BY <1>0, <3>2 DEF TypeInv, TypeOK, KnowsTerminal, Job
      <4>3. QED
        BY <4>1, <4>2
    <3>3. QED
      BY <1>2, <3>1, <3>2 DEF EndProbe
  <2>3. QED
    BY <1>0, <1>2, <2>1, <2>2 DEF EndProbe, TypeInv, TypeOK
<1>3. CASE RestartRealtime(h)
  <2>1. live' \in Terminals \cup {NoTerminal}
    BY <1>0, <1>3 DEF RestartRealtime, TypeOK, Job
  <2>2. QED
    BY <1>0, <1>3, <2>1, FinishType DEF RestartRealtime, TypeInv, TypeOK
<1>4. QED
  BY <1>1, <1>2, <1>3

LEMMA TypeAdmin ==
  ASSUME TypeInv, NEW h \in Admins, BeginEdit(h) \/ CommitEdit(h) \/ CommitRemoval(h)
  PROVE  TypeInv'
<1> USE DEF Handlers
<1>0. TypeOK /\ h \in Handlers /\ job[h] \in Job /\ device \in Device
  BY DEF TypeInv, TypeOK
<1>1. CASE BeginEdit(h)
  <2>1. PICK s \in {"editing", "removing"} :
          job' = [job EXCEPT ![h] = [IdleJob EXCEPT !.pc = s,
                                                    !.terminal = device.terminal,
                                                    !.seen = device.status]]
    BY <1>1 DEF BeginEdit
  <2>2. job'[h] = [pc |-> s, terminal |-> device.terminal, cursor |-> NoCursor,
                   batch |-> {}, todo |-> {}, seen |-> device.status]
    BY <1>0, <2>1 DEF TypeOK, IdleJob
  <2>3. job'[h] \in Job
    BY <1>0, <2>2 DEF Job, Steps, NoCursor, Cursors, Device
  <2>4. job' = [job EXCEPT ![h] = job'[h]]
    BY <1>0, <2>1 DEF TypeOK
  <2>5. KnowsTerminal'
    BY <1>0, <2>2, <2>4 DEF TypeInv, TypeOK, KnowsTerminal
  <2>6. QED
    BY <1>0, <1>1, <2>3, <2>4, <2>5 DEF BeginEdit, TypeInv, TypeOK
<1>2. CASE CommitEdit(h)
  <2>1. spent' \in Spent
    BY <1>0, <1>2, SpentType DEF CommitEdit
  <2>2. PICK address \in Terminals \cup {NoTerminal}, enabled \in {"on", "off", "keep"} :
          WriteEdit(h, address, enabled)
    BY <1>2 DEF CommitEdit
  <2> DEFINE newTerminal == address \notin {NoTerminal, job[h].terminal}
             status == StatusAfterEdit(job[h].seen, enabled, newTerminal)
             target == IF address = NoTerminal THEN device.terminal ELSE address
             restart == IF status = "DISABLED" THEN NoTerminal ELSE target
  <2>3. status \in Statuses
    BY <1>0 DEF StatusAfterEdit, Statuses, Device
  <2>4. target \in Terminals
    BY <1>0 DEF Device
  <2>5. CursorAfterEdit(newTerminal) \in Cursors
    BY <1>0 DEF CursorAfterEdit, NoCursor, Cursors, Device
  <2>6. device' = [device EXCEPT !.status = status, !.terminal = target,
                                 !.cursor = CursorAfterEdit(newTerminal)]
    BY <2>2 DEF WriteEdit
  <2>7. device' \in Device
    BY <1>0, <2>3, <2>4, <2>5, <2>6 DEF Device
  <2>8. wanted' \in BOOLEAN
    BY <1>0, <2>2 DEF TypeOK, WriteEdit
  <2>9. job' = [job EXCEPT ![h].pc = "restarting", ![h].terminal = restart]
    BY <2>2 DEF WriteEdit
  <2>10. job' \in [Handlers -> Job]
    BY <1>0, <2>4, <2>9 DEF TypeOK, Job, Steps
  <2>11. KnowsTerminal'
    BY <1>0, <2>9 DEF TypeInv, TypeOK, KnowsTerminal, Job
  <2>12. QED
    BY <1>0, <1>2, <2>1, <2>7, <2>8, <2>10, <2>11
       DEF CommitEdit, Spent, TypeInv, TypeOK
<1>3. CASE CommitRemoval(h)
  <2>1. spent' \in Spent
    BY <1>0, <1>3, SpentType DEF CommitRemoval
  <2>2. device' \in Device
    BY <1>0, <1>3 DEF CommitRemoval, Device, Statuses
  <2>3. job' \in [Handlers -> Job]
    BY <1>0, <1>3 DEF CommitRemoval, TypeOK, Job, Steps
  <2>4. KnowsTerminal'
    BY <1>0, <1>3 DEF CommitRemoval, TypeInv, TypeOK, KnowsTerminal, Job
  <2>5. QED
    BY <1>0, <1>3, <2>1, <2>2, <2>3, <2>4 DEF CommitRemoval, Spent, TypeInv, TypeOK
<1>4. QED
  BY <1>1, <1>2, <1>3

LEMMA TypeStep == TypeInv /\ [Next]_vars => TypeInv'
<1> SUFFICES ASSUME TypeInv, [Next]_vars PROVE TypeInv'
  OBVIOUS
<1>1. CASE UNCHANGED vars
  BY <1>1 DEF vars, TypeInv, TypeOK, KnowsTerminal
<1>2. CASE Next
  BY <1>2, TypeWorld, TypeSync, TypeSyncFault, TypeFlush, TypeProbe, TypeAdmin
     DEF Next, ProbeStep, AdminStep
<1>3. QED
  BY <1>1, <1>2

\* Every variable keeps its type in every reachable state.
THEOREM TypeCorrect == Spec => []TypeOK
<1>1. TypeInv => TypeOK
  BY DEF TypeInv
<1>2. QED
  BY <1>1, TypeInit, TypeStep, PTL DEF Spec

-----------------------------------------------------------------------------
(* The row lock.                                                           *)

\* A running sync holds a lock that has not expired: this is what makes the
\* conditional update of acquireLock exclude the others.
LockInv == OneSyncAtATime /\ (Syncing # {} => device.lock = "fresh")

\* A step that starts no sync and leaves the lock alone.
LEMMA LockFrame ==
  ASSUME LockInv, Syncing' \subseteq Syncing, device'.lock = device.lock
  PROVE  LockInv'
BY DEF LockInv, OneSyncAtATime

LEMMA LockStep ==
  ASSUME ~SlowSync, TypeOK, LockInv, [Next]_vars
  PROVE  LockInv'
<1> USE DEF Handlers
<1>0. job \in [Handlers -> Job] /\ device \in Device
  BY DEF TypeOK
<1>1. ASSUME NEW h \in Syncs, AcquireLock(h) PROVE LockInv'
  <2>1. Syncing = {}
    BY <1>1 DEF AcquireLock, LockInv
  <2>2. Syncing' \subseteq {h}
    BY <1>0, <1>1, <2>1 DEF AcquireLock, Goto, Syncing
  <2>3. device'.lock = "fresh"
    BY <1>0, <1>1 DEF AcquireLock, Device
  <2>4. QED
    BY <2>2, <2>3 DEF LockInv, OneSyncAtATime
<1>2. ASSUME NEW h \in Syncs, Unlock(h) PROVE LockInv'
  <2>1. h \in Syncing
    BY <1>2 DEF Unlock, At, Syncing, Critical
  <2>2. Syncing' = {}
    BY <1>0, <1>2, <2>1 DEF Unlock, Finish, IdleJob, Syncing, Critical, LockInv,
                           OneSyncAtATime
  <2>3. QED
    BY <2>2 DEF LockInv, OneSyncAtATime
<1>3. CASE LockExpires
  <2>1. Syncing = {} /\ Syncing' = Syncing
    BY <1>3 DEF LockExpires, Syncing
  <2>2. QED
    BY <2>1 DEF LockInv, OneSyncAtATime
<1>4. ASSUME NEW h \in Syncs, SyncStep(h) \/ SyncFails(h) \/ Die(h),
             ~AcquireLock(h), ~Unlock(h)
      PROVE  LockInv'
  <2>1. \A g \in Syncs \ {h} : job'[g] = job[g]
    BY <1>0, <1>4 DEF SyncStep, BeginSync, LockRefused, MarkSyncing, Fetch, Store,
         Process, SaveCursor, RecordFailure, SyncFails, Die, Goto, Finish
  <2>2. job'[h].pc \in Critical => job[h].pc \in Critical
    <3>1. CASE LockRefused(h) \/ Die(h)
      BY <1>0, <3>1 DEF LockRefused, Die, Finish, IdleJob, Critical
    <3>6. CASE BeginSync(h)
      <4>1. job'[h].pc = "locking"
        BY <1>0, <3>6 DEF BeginSync, IdleJob
      <4>2. QED
        BY <4>1 DEF Critical
    <3>2. CASE MarkSyncing(h) \/ SaveCursor(h) \/ RecordFailure(h)
      BY <1>0, <3>2 DEF MarkSyncing, SaveCursor, RecordFailure, At, Critical
    <3>3. CASE Fetch(h) \/ Store(h) \/ Process(h)
      BY <1>0, <3>3 DEF Fetch, Store, Process, At, Critical
    <3>4. CASE SyncFails(h)
      BY <1>0, <3>4 DEF SyncFails, Critical
    <3>5. QED
      BY <1>4, <3>1, <3>2, <3>3, <3>4, <3>6 DEF SyncStep
  <2>3. Syncing' \subseteq Syncing
    BY <2>1, <2>2 DEF Syncing
  <2>4. device'.lock = device.lock
    BY <1>0, <1>4 DEF SyncStep, BeginSync, LockRefused, MarkSyncing, Fetch, Store,
         Process, SaveCursor, RecordFailure, SyncFails, Die, SetStatus, Device
  <2>5. QED
    BY <2>3, <2>4, LockFrame
<1>5. ASSUME NEW h \in Flushes, FlushStep(h) \/ FlushFails(h)
      PROVE  LockInv'
  <2>1. h \notin Syncs
    BY HandlerAssumption
  <2>2. \A g \in Syncs : job'[g] = job[g]
    BY <1>0, <1>5, <2>1 DEF FlushStep, BeginFlush, Store, Process, LookAtDevice,
         MarkOnline, FlushFails, Finish
  <2>3. device'.lock = device.lock
    BY <1>0, <1>5 DEF FlushStep, BeginFlush, Store, Process, LookAtDevice,
         MarkOnline, FlushFails, SetStatus, Device
  <2>4. QED
    BY <2>2, <2>3, LockFrame DEF Syncing
<1>6. ASSUME NEW h \in Probes \cup Admins, ProbeStep(h) \/ AdminStep(h)
      PROVE  LockInv'
  <2>1. h \notin Syncs
    BY HandlerAssumption
  <2>2. \A g \in Syncs : job'[g] = job[g]
    BY <1>0, <1>6, <2>1 DEF ProbeStep, AdminStep, BeginProbe, EndProbe,
         RestartRealtime, BeginEdit, CommitEdit, WriteEdit, CommitRemoval, Goto,
         Finish
  <2>3. device'.lock = device.lock
    BY <1>0, <1>6 DEF ProbeStep, AdminStep, BeginProbe, EndProbe, RestartRealtime,
         BeginEdit, CommitEdit, WriteEdit, CommitRemoval, SetStatus, Device
  <2>4. QED
    BY <2>2, <2>3, LockFrame DEF Syncing
<1>7. CASE UNCHANGED <<job, device>>
  BY <1>7, LockFrame DEF Syncing
<1>8. CASE \E t \in Terminals : ClearLogs(t) \/ \E p \in Punches : Punch(t, p)
  BY <1>7, <1>8 DEF ClearLogs, Punch
<1>9. QED
  BY <1>1, <1>2, <1>3, <1>4, <1>5, <1>6, <1>7, <1>8 DEF Next, LoseBuffer, vars

\* While a sync never outlives the ten minutes of its lock, at most one sync of
\* the device runs, in whatever instance: the purpose of syncLockedAt.
THEOREM LockExclusion ==
  ASSUME ~SlowSync
  PROVE  Spec => []OneSyncAtATime
<1>1. Init => LockInv
  BY DEF Init, IdleJob, LockInv, OneSyncAtATime, Syncing, Critical, Handlers
<1>2. TypeOK /\ LockInv /\ [Next]_vars => LockInv'
  BY LockStep
<1>3. LockInv => OneSyncAtATime
  BY DEF LockInv
<1>4. QED
  BY <1>1, <1>2, <1>3, TypeCorrect, PTL DEF Spec

-----------------------------------------------------------------------------
(* No punch is skipped.                                                    *)

\* A cursor c for terminal t covers only punches of S and refused ones, whether
\* the memory it was taken from still exists or was wiped since.
Sound(t, c, S) ==
  /\ c.gen <= generation[t]
  /\ c.gen = generation[t] =>
       /\ c.next <= Len(memory[t])
       /\ \A i \in 1..c.next : memory[t][i] \in S \cup Rejected

Reading == {"locking", "starting", "fetching", "storing", "processing", "saving"}

\* The cursor a sync holds covers what is stored, plus, after the download, the
\* batch it is about to store; and it is about the terminal the row points at.
SyncInv(h) ==
  /\ job[h].pc # "storing" => job[h].batch = {}
  /\ job[h].pc \in Reading =>
       /\ job[h].terminal = device.terminal
       /\ Sound(device.terminal, job[h].cursor, events \cup job[h].batch)

\* An edit is decided against the address the row still has.
EditInv ==
  /\ \A g, h \in Admins : job[g].pc # "idle" /\ job[h].pc # "idle" => g = h
  /\ \A h \in Admins : job[h].pc = "editing" => job[h].terminal = device.terminal

CursorInv ==
  /\ Sound(device.terminal, device.cursor, events)
  /\ \A h \in Syncs : SyncInv(h)
  /\ EditInv

LEMMA SoundSkipsNothing ==
  ASSUME TypeOK, NEW t \in Terminals, NEW c \in Cursors, Sound(t, c, events)
  PROVE  \A i \in 1..Len(memory[t]) :
           memory[t][i] \in events \cup Rejected \cup ReadFrom(t, c)
<1> SUFFICES ASSUME NEW i \in 1..Len(memory[t])
             PROVE  memory[t][i] \in events \cup Rejected \cup ReadFrom(t, c)
  OBVIOUS
<1>1. Len(memory[t]) \in Nat /\ c.next \in Nat
  BY DEF TypeOK, Cursors
<1>2. CASE i <= StartOf(t, c)
  <2>1. c.gen = generation[t] /\ i \in 1..c.next
    BY <1>1, <1>2 DEF StartOf
  <2>2. QED
    BY <2>1 DEF Sound
<1>3. CASE ~(i <= StartOf(t, c))
  <2>1. StartOf(t, c) \in Nat
    BY <1>1 DEF StartOf
  <2>2. i \in (StartOf(t, c) + 1)..Len(memory[t])
    BY <1>1, <1>3, <2>1
  <2>3. QED
    BY <2>2 DEF ReadFrom
<1>4. QED
  BY <1>2, <1>3

\* After a download the cursor covers what was covered before plus the batch.
LEMMA SoundAfterFetch ==
  ASSUME TypeOK, NEW t \in Terminals, NEW c \in Cursors, NEW S, Sound(t, c, S)
  PROVE  Sound(t, CursorAtEnd(t), S \cup Accepted(ReadFrom(t, c)))
<1>1. Len(memory[t]) \in Nat /\ c.next \in Nat /\ generation[t] \in Nat
  BY DEF TypeOK, Cursors
<1>2. ASSUME NEW i \in 1..Len(memory[t])
      PROVE  memory[t][i] \in S \cup Accepted(ReadFrom(t, c)) \cup Rejected
  <2>1. CASE i <= StartOf(t, c)
    <3>1. c.gen = generation[t] /\ i \in 1..c.next
      BY <1>1, <2>1 DEF StartOf
    <3>2. QED
      BY <3>1 DEF Sound
  <2>2. CASE ~(i <= StartOf(t, c))
    <3>1. StartOf(t, c) \in Nat
      BY <1>1 DEF StartOf
    <3>2. i \in (StartOf(t, c) + 1)..Len(memory[t])
      BY <1>1, <2>2, <3>1
    <3>3. QED
      BY <3>2 DEF ReadFrom, Accepted
  <2>3. QED
    BY <2>1, <2>2
<1>3. CursorAtEnd(t).gen = generation[t] /\ CursorAtEnd(t).next = Len(memory[t])
  BY DEF CursorAtEnd
<1>4. QED
  BY <1>1, <1>2, <1>3 DEF Sound

\* Memories only grow within a generation, so soundness survives every step.
LEMMA SoundStable ==
  ASSUME TypeOK, [Next]_vars, NEW t \in Terminals, NEW c \in Cursors, NEW S
  PROVE  Sound(t, c, S) => Sound(t, c, S)'
<1>0. /\ c.gen \in Nat /\ c.next \in Nat /\ generation[t] \in Nat
      /\ memory[t] \in Seq(Punches)
  BY DEF TypeOK, Cursors
<1>1. CASE UNCHANGED <<memory, generation>>
  BY <1>1 DEF Sound
<1>2. ASSUME NEW u \in Terminals, ClearLogs(u), Sound(t, c, S)
      PROVE  Sound(t, c, S)'
  <2>1. CASE t = u
    <3>1. generation'[t] = generation[t] + 1
      BY <1>2, <2>1 DEF ClearLogs, TypeOK
    <3>2. QED
      BY <1>0, <1>2, <3>1 DEF Sound
  <2>2. CASE t # u
    <3>1. generation'[t] = generation[t] /\ memory'[t] = memory[t]
      BY <1>2, <2>2 DEF ClearLogs, TypeOK
    <3>2. QED
      BY <1>2, <3>1 DEF Sound
  <2>3. QED
    BY <2>1, <2>2
<1>3. ASSUME NEW u \in Terminals, NEW p \in Punches, Punch(u, p), Sound(t, c, S)
      PROVE  Sound(t, c, S)'
  <2>1. generation' = generation
    BY <1>3 DEF Punch
  <2>2. memory'[t] = memory[t] \/ memory'[t] = Append(memory[t], p)
    BY <1>3 DEF Punch, TypeOK
  <2>3. /\ Len(memory[t]) <= Len(memory'[t])
        /\ \A i \in 1..Len(memory[t]) : memory'[t][i] = memory[t][i]
    BY <1>0, <2>2
  <2>4. Len(memory[t]) \in Nat /\ Len(memory'[t]) \in Nat
    BY <1>0, <2>2
  <2>5. QED
    BY <1>0, <1>3, <2>1, <2>3, <2>4 DEF Sound
<1>4. CASE \E u \in Terminals : ClearLogs(u) \/ \E p \in Punches : Punch(u, p)
  BY <1>2, <1>3, <1>4
<1>5. ASSUME NEW h \in Handlers,
             \/ SyncStep(h) \/ SyncFails(h) \/ Die(h) \/ FlushStep(h)
             \/ FlushFails(h) \/ ProbeStep(h) \/ AdminStep(h)
      PROVE  UNCHANGED <<memory, generation>>
  <2>1. CASE SyncStep(h) \/ SyncFails(h) \/ Die(h)
    BY <2>1 DEF SyncStep, BeginSync, AcquireLock, LockRefused, MarkSyncing, Fetch,
         Store, Process, SaveCursor, RecordFailure, Unlock, SyncFails, Die
  <2>2. CASE FlushStep(h) \/ FlushFails(h)
    BY <2>2 DEF FlushStep, BeginFlush, Store, Process, LookAtDevice, MarkOnline,
         FlushFails
  <2>3. CASE ProbeStep(h) \/ AdminStep(h)
    BY <2>3 DEF ProbeStep, AdminStep, BeginProbe, EndProbe, RestartRealtime,
         BeginEdit, CommitEdit, CommitRemoval
  <2>4. QED
    BY <1>5, <2>1, <2>2, <2>3
<1>6. CASE LockExpires \/ LoseBuffer
  BY <1>1, <1>6 DEF LockExpires, LoseBuffer
<1>7. QED
  BY <1>1, <1>4, <1>5, <1>6 DEF Next, vars, Handlers

\* Soundness only improves as rows are stored.
LEMMA SoundMonotone ==
  ASSUME NEW t, NEW c, NEW S, NEW T, S \subseteq T, Sound(t, c, S)
  PROVE  Sound(t, c, T)
BY DEF Sound

\* What a step does to one sync and to the row, when it moves no cursor: the
\* sync keeps its variables or stops reading, and the row keeps its address.
LEMMA CursorFrame ==
  ASSUME TypeInv, CursorInv, [Next]_vars, events \subseteq events',
         device'.terminal = device.terminal, device'.cursor = device.cursor,
         EditInv',
         \A g \in Syncs :
           \/ job'[g] = job[g]
           \/ job'[g].pc \notin Reading /\ job'[g].batch = {}
           \/ SyncInv(g)'
  PROVE  CursorInv'
<1>0. TypeOK /\ TypeOK'
  BY TypeStep DEF TypeInv
<1>1. device.terminal \in Terminals /\ device.cursor \in Cursors
  BY <1>0 DEF TypeOK, Device
<1>2. Sound(device.terminal, device.cursor, events)'
  <2>1. Sound(device.terminal, device.cursor, events)
    BY DEF CursorInv
  <2> DEFINE t == device.terminal  c == device.cursor  S == events
  <2>2. \A R : \A u \in Terminals, k \in Cursors :
          Sound(u, k, R) => Sound(u, k, R)'
    BY <1>0, SoundStable
  <2>3. QED
    BY <1>1, <2>1, <2>2 DEF Sound
<1>3. ASSUME NEW g \in Syncs PROVE SyncInv(g)'
  <2>1. CASE job'[g] = job[g]
    <3>1. SyncInv(g)
      BY DEF CursorInv
    <3>2. job[g].cursor \in Cursors
      BY <1>0 DEF TypeOK, Job, Handlers
    <3>3. CASE job[g].pc \in Reading
      <4>1. Sound(device.terminal, job[g].cursor, events \cup job[g].batch)
        BY <3>1, <3>3 DEF SyncInv
      <4>2. \A R : \A u \in Terminals, k \in Cursors :
              Sound(u, k, R) => Sound(u, k, R)'
        BY <1>0, SoundStable
      <4>3. PICK u, k, R : u = device.terminal /\ k = job[g].cursor
                           /\ R = events \cup job[g].batch
        OBVIOUS
      <4>4. Sound(device.terminal, job[g].cursor, events \cup job[g].batch)'
        <5>1. Sound(u, k, R)'
          BY <1>1, <3>2, <4>1, <4>2, <4>3
        <5>2. u = device'.terminal /\ k = job'[g].cursor
              /\ R \subseteq events' \cup job'[g].batch
          BY <2>1, <4>3
        <5>3. QED
          BY <5>1, <5>2 DEF Sound
      <4>5. QED
        BY <2>1, <3>1, <3>3, <4>4 DEF SyncInv
    <3>4. CASE job[g].pc \notin Reading
      BY <2>1, <3>1, <3>4 DEF SyncInv, Reading
    <3>5. QED
      BY <3>3, <3>4
  <2>2. CASE job'[g].pc \notin Reading /\ job'[g].batch = {}
    BY <2>2 DEF SyncInv
  <2>3. QED
    BY <2>1, <2>2
<1>4. QED
  BY <1>2, <1>3 DEF CursorInv

\* Steps of a sync other than SaveCursor.
LEMMA CursorSync ==
  ASSUME TypeInv, CursorInv, NEW h \in Syncs,
         SyncStep(h) \/ SyncFails(h) \/ Die(h), ~SaveCursor(h)
  PROVE  CursorInv'
<1> USE DEF Handlers
<1>0. /\ TypeOK /\ job \in [Handlers -> Job] /\ device \in Device
      /\ h \notin Admins /\ h \notin Flushes /\ h \in Handlers
  BY HandlerAssumption DEF TypeInv, TypeOK
<1>1. Next
  BY DEF Next
<1>2. /\ events \subseteq events'
      /\ device'.terminal = device.terminal /\ device'.cursor = device.cursor
  BY <1>0 DEF SyncStep, BeginSync, AcquireLock, LockRefused, MarkSyncing, Fetch,
     Store, Process, SaveCursor, RecordFailure, Unlock, SyncFails, Die, SetStatus,
     Device
<1>3. \A g \in Handlers \ {h} : job'[g] = job[g]
  BY <1>0 DEF SyncStep, BeginSync, AcquireLock, LockRefused, MarkSyncing, Fetch,
     Store, Process, SaveCursor, RecordFailure, Unlock, SyncFails, Die, Goto, Finish
<1>4. EditInv'
  BY <1>0, <1>2, <1>3 DEF CursorInv, EditInv
<1>5. SyncInv(h)
  BY DEF CursorInv
<1>6. SyncInv(h)' \/ (job'[h].pc \notin Reading /\ job'[h].batch = {})
  <2>1. CASE BeginSync(h)
    <3>1. /\ job'[h].pc = "locking" /\ job'[h].terminal = device.terminal
          /\ job'[h].cursor = device.cursor /\ job'[h].batch = {}
      BY <1>0, <2>1 DEF BeginSync, IdleJob
    <3>2. UNCHANGED <<memory, generation, events>>
      BY <2>1 DEF BeginSync
    <3>3. Sound(device.terminal, device.cursor, events)
      BY DEF CursorInv
    <3>4. QED
      BY <1>2, <3>1, <3>2, <3>3 DEF SyncInv, Sound
  <2>2. CASE AcquireLock(h) \/ MarkSyncing(h)
    <3>1. /\ job[h].pc \in {"locking", "starting"}
          /\ UNCHANGED <<memory, generation, events>>
      BY <2>2 DEF AcquireLock, MarkSyncing, At
    <3>2. job[h] \in Job
      BY <1>0
    <3>3. /\ job'[h].terminal = job[h].terminal /\ job'[h].cursor = job[h].cursor
          /\ job'[h].batch = job[h].batch
          /\ job'[h].pc \in {"starting", "fetching"}
      <4>1. CASE AcquireLock(h)
        BY <1>0, <3>2, <4>1 DEF AcquireLock, Goto, Job
      <4>2. CASE MarkSyncing(h)
        BY <1>0, <3>2, <4>2 DEF MarkSyncing, Goto, Job
      <4>3. QED
        BY <2>2, <4>1, <4>2
    <3>4. QED
      BY <1>2, <1>5, <3>1, <3>3 DEF SyncInv, Reading, Sound
  <2>3. CASE LockRefused(h) \/ Die(h) \/ Unlock(h)
    BY <1>0, <2>3 DEF LockRefused, Die, Unlock, Finish, IdleJob, Reading
  <2>4. CASE Fetch(h)
    <3> DEFINE t == job[h].terminal  c == job[h].cursor
    <3>1. job[h].pc = "fetching"
      BY <2>4 DEF Fetch, At
    <3>2. /\ t = device.terminal /\ job[h].batch = {}
          /\ Sound(t, c, events)
      BY <1>5, <3>1 DEF SyncInv, Reading
    <3>3. t \in Terminals /\ c \in Cursors
      BY <1>0, <3>2 DEF Job, Device
    <3>4. Sound(t, CursorAtEnd(t), events \cup Accepted(ReadFrom(t, c)))
      BY <1>0, <3>2, <3>3, SoundAfterFetch
    <3>5. /\ job'[h].pc = "storing" /\ job'[h].terminal = t
          /\ job'[h].cursor = CursorAtEnd(t)
          /\ job'[h].batch = Accepted(ReadFrom(t, c))
          /\ UNCHANGED <<memory, generation, events>>
      BY <1>0, <2>4 DEF Fetch, Job
    <3>6. QED
      BY <1>2, <3>2, <3>4, <3>5 DEF SyncInv, Sound
  <2>5. CASE Store(h)
    <3>1. job[h].pc = "storing"
      BY <2>5 DEF Store, At
    <3>2. /\ job'[h].pc = "processing" /\ job'[h].terminal = job[h].terminal
          /\ job'[h].cursor = job[h].cursor /\ job'[h].batch = {}
          /\ events' = events \cup job[h].batch
          /\ UNCHANGED <<memory, generation>>
      BY <1>0, <2>5 DEF Store, Job
    <3>3. QED
      BY <1>2, <1>5, <3>1, <3>2 DEF SyncInv, Reading, Sound
  <2>6. CASE Process(h)
    <3>1. job[h].pc = "processing"
      BY <2>6 DEF Process, At
    <3>2. /\ job'[h].pc = "saving" /\ job'[h].terminal = job[h].terminal
          /\ job'[h].cursor = job[h].cursor /\ job'[h].batch = job[h].batch
          /\ UNCHANGED <<memory, generation, events>>
      BY <1>0, <2>6 DEF Process, Job
    <3>3. QED
      BY <1>2, <1>5, <3>1, <3>2 DEF SyncInv, Reading, Sound
  <2>7. CASE RecordFailure(h)
    <3>1. job[h].pc = "failing"
      BY <2>7 DEF RecordFailure, At
    <3>2. job'[h].pc = "unlocking" /\ job'[h].batch = job[h].batch
      BY <1>0, <2>7 DEF RecordFailure, Goto, Job
    <3>3. QED
      BY <1>5, <3>1, <3>2 DEF SyncInv, Reading
  <2>8. CASE SyncFails(h)
    <3>1. job'[h].pc = "failing" /\ job'[h].batch = {}
      BY <1>0, <2>8 DEF SyncFails, IdleJob
    <3>2. QED
      BY <3>1 DEF Reading
  <2>9. QED
    BY <2>1, <2>2, <2>3, <2>4, <2>5, <2>6, <2>7, <2>8 DEF SyncStep
<1>7. QED
  BY <1>1, <1>2, <1>3, <1>4, <1>6, CursorFrame

\* Saving the cursor: the one held is already covered by stored rows.
LEMMA CursorSave ==
  ASSUME TypeInv, CursorInv, NEW h \in Syncs, SaveCursor(h)
  PROVE  CursorInv'
<1> USE DEF Handlers
<1>0. /\ TypeOK /\ job \in [Handlers -> Job] /\ device \in Device
      /\ h \notin Admins /\ h \in Handlers
  BY HandlerAssumption DEF TypeInv, TypeOK
<1>1. job[h].pc = "saving" /\ SyncInv(h)
  BY DEF SaveCursor, At, CursorInv
<1>2. /\ device'.terminal = device.terminal /\ device'.cursor = job[h].cursor
      /\ UNCHANGED <<memory, generation, events>>
  BY <1>0 DEF SaveCursor, Device
<1>3. job[h].batch = {} /\ Sound(device.terminal, job[h].cursor, events)
  BY <1>1 DEF SyncInv, Reading
<1>4. /\ \A g \in Handlers \ {h} : job'[g] = job[g]
      /\ job'[h].pc = "unlocking" /\ job'[h].batch = {}
  BY <1>0, <1>3 DEF SaveCursor, Goto, Job
<1>5. Sound(device.terminal, device.cursor, events)'
  BY <1>2, <1>3 DEF Sound
<1>6. ASSUME NEW g \in Syncs PROVE SyncInv(g)'
  <2>1. CASE g = h
    BY <1>4, <2>1 DEF SyncInv, Reading
  <2>2. CASE g # h
    <3>1. job'[g] = job[g] /\ SyncInv(g)
      BY <1>4, <2>2 DEF CursorInv
    <3>2. QED
      BY <1>2, <3>1 DEF SyncInv, Sound
  <2>3. QED
    BY <2>1, <2>2
<1>7. EditInv'
  BY <1>0, <1>2, <1>4 DEF CursorInv, EditInv
<1>8. QED
  BY <1>5, <1>6, <1>7 DEF CursorInv

\* A push, a probe, a terminal or the clock: no sync and no cursor is involved.
LEMMA CursorOthers ==
  ASSUME TypeInv, CursorInv, Next,
         \/ \E t \in Terminals : ClearLogs(t) \/ \E p \in Punches : Punch(t, p)
         \/ \E h \in Flushes : FlushStep(h) \/ FlushFails(h)
         \/ \E h \in Probes : ProbeStep(h)
         \/ LockExpires
         \/ LoseBuffer
  PROVE  CursorInv'
<1> USE DEF Handlers
<1>0. job \in [Handlers -> Job] /\ device \in Device
  BY DEF TypeInv, TypeOK
<1>1. /\ device'.terminal = device.terminal /\ device'.cursor = device.cursor
      /\ events \subseteq events'
  BY <1>0 DEF ClearLogs, Punch, LockExpires, LoseBuffer, FlushStep, FlushFails,
     BeginFlush, Store, Process, LookAtDevice, MarkOnline, ProbeStep, BeginProbe,
     EndProbe, RestartRealtime, SetStatus, Device
<1>2. \A g \in Syncs \cup Admins : job'[g] = job[g]
  <2>1. ASSUME NEW h \in Flushes, FlushStep(h) \/ FlushFails(h)
        PROVE  \A g \in Syncs \cup Admins : job'[g] = job[g]
    <3>1. h \notin Syncs \cup Admins
      BY HandlerAssumption
    <3>2. QED
      BY <1>0, <2>1, <3>1 DEF FlushStep, FlushFails, BeginFlush, Store, Process,
         LookAtDevice, MarkOnline, Finish
  <2>2. ASSUME NEW h \in Probes, ProbeStep(h)
        PROVE  \A g \in Syncs \cup Admins : job'[g] = job[g]
    <3>1. h \notin Syncs \cup Admins
      BY HandlerAssumption
    <3>2. QED
      BY <1>0, <2>2, <3>1 DEF ProbeStep, BeginProbe, EndProbe, RestartRealtime,
         Goto, Finish
  <2>3. QED
    BY <2>1, <2>2 DEF ClearLogs, Punch, LockExpires, LoseBuffer
<1>3. EditInv'
  BY <1>1, <1>2 DEF CursorInv, EditInv
<1>4. QED
  BY <1>1, <1>2, <1>3, CursorFrame

\* An edit committed while nothing else runs.
LEMMA CursorAdmin ==
  ASSUME ~EditsWhileBusy, TypeInv, CursorInv, Next, NEW h \in Admins, AdminStep(h)
  PROVE  CursorInv'
<1> USE DEF Handlers
<1>0. /\ job \in [Handlers -> Job] /\ device \in Device /\ h \in Handlers
      /\ h \notin Syncs
  BY HandlerAssumption DEF TypeInv, TypeOK
<1>1. \A g \in Handlers \ {h} : job'[g] = job[g]
  BY <1>0 DEF AdminStep, BeginEdit, CommitEdit, WriteEdit, CommitRemoval,
     RestartRealtime, Finish
<1>2. CASE BeginEdit(h)
  <2>1. \A g \in Admins \ {h} : job[g].pc = "idle"
    BY <1>2 DEF BeginEdit, Quiet
  <2>2. job'[h].terminal = device.terminal
    BY <1>0, <1>2 DEF BeginEdit, IdleJob
  <2>3. EditInv'
    BY <1>1, <1>2, <2>1, <2>2 DEF BeginEdit, EditInv
  <2>4. QED
    BY <1>0, <1>1, <1>2, <2>3, CursorFrame DEF BeginEdit
<1>3. CASE CommitRemoval(h)
  <2>1. job[h].pc = "removing" /\ job'[h].pc = "restarting"
    BY <1>0, <1>3 DEF CommitRemoval, At
  <2>2. /\ device'.terminal = device.terminal /\ device'.cursor = device.cursor
        /\ events' = events
    BY <1>0, <1>3 DEF CommitRemoval, Device
  <2>3. EditInv'
    BY <1>0, <1>1, <2>1, <2>2 DEF CursorInv, EditInv
  <2>4. QED
    BY <1>0, <1>1, <2>2, <2>3, CursorFrame
<1>4. CASE RestartRealtime(h)
  <2>1. job'[h].pc = "idle"
    BY <1>0, <1>4 DEF RestartRealtime, Finish, IdleJob
  <2>2. EditInv'
    BY <1>0, <1>1, <1>4, <2>1 DEF RestartRealtime, CursorInv, EditInv
  <2>3. QED
    BY <1>0, <1>1, <1>4, <2>2, CursorFrame DEF RestartRealtime
<1>5. CASE CommitEdit(h)
  <2>1. PICK address \in Terminals \cup {NoTerminal}, enabled \in {"on", "off", "keep"} :
          WriteEdit(h, address, enabled)
    BY <1>5 DEF CommitEdit
  <2>2. /\ job[h].pc = "editing" /\ job[h].terminal = device.terminal
        /\ UNCHANGED <<memory, generation, events>>
        /\ \A g \in Handlers \ {h} : job[g].pc = "idle"
    BY <1>5 DEF CommitEdit, At, MayCommit, Quiet, CursorInv, EditInv
  <2> DEFINE newTerminal == address \notin {NoTerminal, job[h].terminal}
  <2>3. /\ device'.terminal = (IF address = NoTerminal THEN device.terminal ELSE address)
        /\ device'.cursor = CursorAfterEdit(newTerminal)
        /\ job'[h].pc = "restarting"
    BY <1>0, <2>1 DEF WriteEdit, Device
  <2>4. Sound(device.terminal, device.cursor, events)'
    <3>1. CASE newTerminal
      <4>1. device'.cursor = NoCursor /\ device'.terminal \in Terminals
        BY <2>3, <3>1 DEF CursorAfterEdit
      <4>2. generation'[device'.terminal] \in Nat \ {0}
        BY <2>2, <4>1 DEF TypeInv, TypeOK
      <4>3. QED
        BY <4>1, <4>2 DEF Sound, NoCursor
    <3>2. CASE ~newTerminal
      <4>1. device'.cursor = device.cursor /\ device'.terminal = device.terminal
        BY <2>2, <2>3, <3>2 DEF CursorAfterEdit
      <4>2. QED
        BY <2>2, <4>1 DEF CursorInv, Sound
    <3>3. QED
      BY <3>1, <3>2
  <2>5. ASSUME NEW g \in Syncs PROVE SyncInv(g)'
    <3>1. job'[g] = job[g] /\ job[g].pc = "idle" /\ SyncInv(g)
      BY <1>0, <1>1, <2>2 DEF CursorInv
    <3>2. QED
      BY <3>1 DEF SyncInv, Reading
  <2>6. EditInv'
    BY <1>0, <1>1, <2>2, <2>3 DEF EditInv
  <2>7. QED
    BY <2>4, <2>5, <2>6 DEF CursorInv
<1>6. QED
  BY <1>2, <1>3, <1>4, <1>5 DEF AdminStep

LEMMA CursorStep ==
  ASSUME ~EditsWhileBusy, TypeInv, CursorInv, [Next]_vars
  PROVE  CursorInv'
<1>1. CASE UNCHANGED vars
  BY <1>1, CursorFrame DEF vars, CursorInv, EditInv
<1>2. CASE Next
  BY <1>2, CursorSync, CursorSave, CursorOthers, CursorAdmin DEF Next
<1>3. QED
  BY <1>1, <1>2

LEMMA CursorInit == Init => CursorInv
<1> SUFFICES ASSUME Init PROVE CursorInv
  OBVIOUS
<1>1. \A h \in Handlers : job[h] = IdleJob
  BY DEF Init
<1>2. device.terminal \in Terminals /\ device.cursor = NoCursor
  BY DEF Init
<1>3. Sound(device.terminal, device.cursor, events)
  BY <1>2 DEF Init, Sound, NoCursor
<1>4. QED
  BY <1>1, <1>3 DEF CursorInv, SyncInv, EditInv, Reading, IdleJob, Handlers

\* Whatever the next sync will not download is stored or was refused, for any
\* number of concurrent syncs and pushes, crashes, failures, wiped memories and
\* expired locks, provided the row is edited only between other handlers.
THEOREM NoPunchSkipped ==
  ASSUME ~EditsWhileBusy
  PROVE  Spec => []NothingSkipped
<1>1. TypeInv /\ CursorInv => NothingSkipped
  <2> SUFFICES ASSUME TypeInv, CursorInv PROVE NothingSkipped
    OBVIOUS
  <2>1. TypeOK /\ device.terminal \in Terminals /\ device.cursor \in Cursors
    BY DEF TypeInv, TypeOK, Device
  <2>2. Sound(device.terminal, device.cursor, events)
    BY DEF CursorInv
  <2>3. QED
    BY <2>1, <2>2, SoundSkipsNothing DEF NothingSkipped
<1>2. TypeInv /\ CursorInv /\ [Next]_vars => CursorInv'
  BY CursorStep
<1>3. QED
  BY <1>1, <1>2, CursorInit, TypeInit, TypeStep, PTL DEF Spec

-----------------------------------------------------------------------------
(* A disabled device stays disabled, but for who looked before.            *)

\* What a step from a device switched off has to show.
StaysOff ==
  /\ Claims' \subseteq Claims
  /\ (device'.status = "DISABLED" /\ live' \in {live, NoTerminal}) \/ ClaimActs

\* A step of handler h alone: it must not come by a claim, and without one it
\* leaves the status alone and subscribes to nothing.
LEMMA StepOfOne ==
  ASSUME SwitchedOff, NEW h \in Handlers,
         \A g \in Handlers \ {h} : job'[g] = job[g],
         HasClaim(h)' => HasClaim(h),
         \/ device'.status = device.status /\ live' \in {live, NoTerminal}
         \/ HasClaim(h) /\ job'[h].pc # job[h].pc
  PROVE  StaysOff
<1>1. ASSUME NEW g \in Handlers, g \in Claims' PROVE g \in Claims
  <2>1. CASE g = h
    BY <1>1, <2>1 DEF Claims
  <2>2. CASE g # h
    <3>1. job'[g] = job[g]
      BY <2>2
    <3>2. HasClaim(g)' <=> HasClaim(g)
      BY <3>1 DEF HasClaim, At
    <3>3. QED
      BY <1>1, <3>2 DEF Claims
  <2>3. QED
    BY <2>1, <2>2
<1>2. Claims' \subseteq Claims
  BY <1>1 DEF Claims
<1>3. CASE device'.status = device.status /\ live' \in {live, NoTerminal}
  BY <1>2, <1>3 DEF StaysOff, SwitchedOff
<1>4. CASE HasClaim(h) /\ job'[h].pc # job[h].pc
  <2>1. h \in Claims /\ job'[h] # job[h]
    BY <1>4 DEF Claims
  <2>2. QED
    BY <1>2, <2>1 DEF StaysOff, ClaimActs
<1>5. QED
  BY <1>3, <1>4

\* A sync that is not over has looked at the row before; none begins now.
LEMMA OffSync ==
  ASSUME TypeInv, SwitchedOff, NEW h \in Syncs, SyncStep(h) \/ SyncFails(h) \/ Die(h)
  PROVE  StaysOff
<1> USE DEF Handlers
<1>0. job \in [Handlers -> Job] /\ device \in Device
  BY DEF TypeInv, TypeOK
<1>1. \A g \in Handlers \ {h} : job'[g] = job[g]
  BY <1>0 DEF SyncStep, BeginSync, AcquireLock, LockRefused, MarkSyncing,
     Fetch, Store, Process, SaveCursor, RecordFailure, Unlock, SyncFails, Die,
     Goto, Finish
<1>2. CASE job[h].pc \notin {"idle", "unlocking"}
  <2>1. HasClaim(h)
    BY <1>2 DEF HasClaim
  <2>2. job'[h].pc # job[h].pc
    <3>1. CASE SyncFails(h) \/ Die(h)
      BY <1>0, <1>2, <3>1 DEF SyncFails, Die, Finish, IdleJob, At
    <3>2. CASE BeginSync(h) \/ AcquireLock(h) \/ LockRefused(h) \/ MarkSyncing(h)
      BY <1>0, <1>2, <3>2 DEF BeginSync, AcquireLock, LockRefused, MarkSyncing, Goto,
         Finish, IdleJob, At, Job
    <3>3. CASE Fetch(h) \/ Store(h) \/ Process(h)
      BY <1>0, <1>2, <3>3 DEF Fetch, Store, Process, At, Job
    <3>4. CASE SaveCursor(h) \/ RecordFailure(h) \/ Unlock(h)
      BY <1>0, <1>2, <3>4 DEF SaveCursor, RecordFailure, Unlock, Goto, Finish, IdleJob, At,
         Job
    <3>5. QED
      BY <3>1, <3>2, <3>3, <3>4 DEF SyncStep
  <2>3. QED
    BY <1>1, <2>1, <2>2, StepOfOne
<1>3. CASE job[h].pc \in {"idle", "unlocking"}
  <2>1. Unlock(h) \/ Die(h)
    BY <1>3 DEF SyncStep, BeginSync, AcquireLock, LockRefused, MarkSyncing, Fetch,
       Store, Process, SaveCursor, RecordFailure, SyncFails, At, SwitchedOff
  <2>2. job'[h] = IdleJob /\ device'.status = device.status /\ live' = live
    BY <1>0, <2>1 DEF Unlock, Die, Finish, Device
  <2>3. ~HasClaim(h)'
    BY <2>2 DEF HasClaim, At, IdleJob
  <2>4. QED
    BY <1>1, <2>2, <2>3, StepOfOne
<1>4. QED
  BY <1>2, <1>3

\* A flush that has not looked yet sees the device off.
LEMMA OffFlush ==
  ASSUME TypeInv, SwitchedOff, NEW h \in Flushes, FlushStep(h) \/ FlushFails(h)
  PROVE  StaysOff
<1> USE DEF Handlers
<1>0. job \in [Handlers -> Job] /\ device \in Device
  BY DEF TypeInv, TypeOK
<1>1. h \notin Syncs
  BY HandlerAssumption
<1>2. \A g \in Handlers \ {h} : job'[g] = job[g]
  BY <1>0 DEF FlushStep, FlushFails, BeginFlush, Store, Process, LookAtDevice,
     MarkOnline, Finish
<1>3. CASE BeginFlush(h) \/ Store(h) \/ Process(h) \/ FlushFails(h)
  <2>1. device' = device /\ live' = live
    BY <1>3 DEF BeginFlush, Store, Process, FlushFails
  <2>2. job'[h].pc \in {"idle", "storing", "processing", "looking"}
    <3>1. CASE BeginFlush(h)
      BY <1>0, <3>1 DEF BeginFlush, IdleJob
    <3>2. CASE Store(h)
      BY <1>0, <3>2 DEF Store, Job
    <3>3. CASE Process(h)
      BY <1>0, <1>1, <3>3 DEF Process, Job
    <3>4. CASE FlushFails(h)
      BY <1>0, <3>4 DEF FlushFails, Finish, IdleJob
    <3>5. QED
      BY <1>3, <3>1, <3>2, <3>3, <3>4
  <2>3. ~HasClaim(h)'
    BY <1>1, <2>2 DEF HasClaim, At
  <2>4. QED
    BY <1>2, <2>1, <2>3, StepOfOne
<1>4. CASE LookAtDevice(h)
  <2>1. device' = device /\ live' = live
    BY <1>4 DEF LookAtDevice
  <2>2. job'[h].pc = "marking" /\ job'[h].seen = "DISABLED"
    BY <1>0, <1>4 DEF LookAtDevice, SwitchedOff, Job
  <2>3. ~HasClaim(h)'
    BY <1>1, <2>2 DEF HasClaim, At
  <2>4. QED
    BY <1>2, <2>1, <2>3, StepOfOne
<1>5. CASE MarkOnline(h)
  <2>1. At(h, "marking") /\ job'[h] = IdleJob /\ live' = live
    BY <1>0, <1>5 DEF MarkOnline, Finish
  <2>2. ~HasClaim(h)'
    BY <1>1, <2>1 DEF HasClaim, At, IdleJob
  <2>3. CASE job[h].seen \in {"ONLINE", "SYNCING", "DISABLED"}
    <3>1. device' = device
      BY <1>5, <2>3 DEF MarkOnline
    <3>2. QED
      BY <1>2, <2>1, <2>2, <3>1, StepOfOne
  <2>4. CASE job[h].seen \notin {"ONLINE", "SYNCING", "DISABLED"}
    <3>1. job[h].seen \in {"OFFLINE", "ERROR"}
      BY <1>0, <2>4 DEF Job, Statuses
    <3>2. HasClaim(h) /\ job'[h].pc # job[h].pc
      BY <2>1, <3>1 DEF HasClaim, At, IdleJob
    <3>3. QED
      BY <1>2, <2>2, <3>2, StepOfOne
  <2>5. QED
    BY <2>3, <2>4
<1>6. QED
  BY <1>3, <1>4, <1>5 DEF FlushStep

\* startRealtime on a row read after the device was disabled subscribes to nothing.
LEMMA OffRestart ==
  ASSUME TypeInv, SwitchedOff, NEW h \in Handlers, h \notin Syncs, RestartRealtime(h),
         \A g \in Handlers \ {h} : job'[g] = job[g]
  PROVE  StaysOff
<1>0. job \in [Handlers -> Job]
  BY DEF TypeInv, TypeOK
<1>1. At(h, "restarting") /\ job'[h] = IdleJob /\ device' = device
  BY <1>0 DEF RestartRealtime, Finish
<1>2. ~HasClaim(h)'
  BY <1>1 DEF HasClaim, At, IdleJob
<1>3. CASE job[h].terminal = NoTerminal
  <2>1. live' = NoTerminal
    BY <1>3 DEF RestartRealtime
  <2>2. QED
    BY <1>1, <1>2, <2>1, StepOfOne
<1>4. CASE job[h].terminal # NoTerminal
  <2>1. HasClaim(h) /\ job'[h].pc # job[h].pc
    BY <1>1, <1>4 DEF HasClaim, At, IdleJob
  <2>2. QED
    BY <1>2, <2>1, StepOfOne
<1>5. QED
  BY <1>3, <1>4

\* No probe begins; one that ends has looked before, or subscribes for having done so.
LEMMA OffProbe ==
  ASSUME TypeInv, SwitchedOff, NEW h \in Probes, ProbeStep(h)
  PROVE  StaysOff
<1> USE DEF Handlers
<1>0. job \in [Handlers -> Job] /\ device \in Device /\ live \in Terminals \cup {NoTerminal}
  BY DEF TypeInv, TypeOK
<1>1. h \notin Syncs
  BY HandlerAssumption
<1>2. \A g \in Handlers \ {h} : job'[g] = job[g]
  BY <1>0 DEF ProbeStep, BeginProbe, EndProbe, RestartRealtime, Goto, Finish
<1>3. ~BeginProbe(h)
  BY DEF BeginProbe, SwitchedOff
<1>4. CASE EndProbe(h)
  <2>1. HasClaim(h)
    BY <1>4 DEF EndProbe, HasClaim
  <2>2. job'[h].pc # job[h].pc
    BY <1>0, <1>4 DEF EndProbe, At, Finish, IdleJob, Job
  <2>3. QED
    BY <1>2, <2>1, <2>2, StepOfOne
<1>5. CASE RestartRealtime(h)
  <2>1. QED
    BY <1>1, <1>2, <1>5, OffRestart
<1>6. QED
  BY <1>3, <1>4, <1>5 DEF ProbeStep

\* An edit that begins sees the device off, and keeps it so unless it switches it on.
LEMMA OffAdmin ==
  ASSUME TypeInv, SwitchedOff, ~wanted', NEW h \in Admins, AdminStep(h)
  PROVE  StaysOff
<1> USE DEF Handlers
<1>0. job \in [Handlers -> Job] /\ device \in Device
  BY DEF TypeInv, TypeOK
<1>1. h \notin Syncs
  BY HandlerAssumption
<1>2. \A g \in Handlers \ {h} : job'[g] = job[g]
  BY <1>0 DEF AdminStep, BeginEdit, CommitEdit, WriteEdit, CommitRemoval,
     RestartRealtime, Finish
<1>3. CASE BeginEdit(h)
  <2>1. device' = device /\ live' = live
    BY <1>3 DEF BeginEdit
  <2>2. job'[h].pc \in {"editing", "removing"} /\ job'[h].seen = "DISABLED"
    BY <1>0, <1>3 DEF BeginEdit, IdleJob, SwitchedOff
  <2>3. ~HasClaim(h)'
    BY <1>1, <2>2 DEF HasClaim, At
  <2>4. QED
    BY <1>2, <2>1, <2>3, StepOfOne
<1>4. CASE CommitEdit(h)
  <2>1. PICK address \in Terminals \cup {NoTerminal}, enabled \in {"on", "off", "keep"} :
          WriteEdit(h, address, enabled)
    BY <1>4 DEF CommitEdit
  <2>2. At(h, "editing") /\ live' = live
    BY <1>4 DEF CommitEdit
  <2>3. PICK moved \in BOOLEAN : moved = (address \notin {NoTerminal, job[h].terminal})
    OBVIOUS
  <2>4. PICK status : status = StatusAfterEdit(job[h].seen, enabled, moved)
    OBVIOUS
  <2>5. device'.status = status
    BY <1>0, <2>1, <2>3, <2>4 DEF WriteEdit, Device
  <2>6. /\ job'[h].pc = "restarting"
        /\ status = "DISABLED" => job'[h].terminal = NoTerminal
    BY <1>0, <2>1, <2>3, <2>4 DEF WriteEdit, Job
  <2>7. enabled # "on"
    BY <2>1 DEF WriteEdit
  <2>8. CASE job[h].seen = "DISABLED"
    <3>1. status = "DISABLED"
      BY <2>4, <2>7, <2>8 DEF StatusAfterEdit, SwitchedOff
    <3>2. ~HasClaim(h)'
      BY <1>1, <2>6, <3>1 DEF HasClaim, At
    <3>3. device'.status = device.status
      BY <2>5, <3>1 DEF SwitchedOff
    <3>4. QED
      BY <1>2, <2>2, <3>2, <3>3, StepOfOne
  <2>9. CASE job[h].seen # "DISABLED"
    <3>1. HasClaim(h) /\ job'[h].pc # job[h].pc
      BY <2>2, <2>6, <2>9 DEF HasClaim, At
    <3>2. QED
      BY <1>2, <3>1, StepOfOne
  <2>10. QED
    BY <2>8, <2>9
<1>5. CASE CommitRemoval(h)
  <2>1. device'.status = device.status /\ live' = live
    BY <1>0, <1>5 DEF CommitRemoval, Device, SwitchedOff
  <2>2. job'[h].pc = "restarting" /\ job'[h].terminal = NoTerminal
    BY <1>0, <1>5 DEF CommitRemoval, Job
  <2>3. ~HasClaim(h)'
    BY <1>1, <2>2 DEF HasClaim, At
  <2>4. QED
    BY <1>2, <2>1, <2>3, StepOfOne
<1>6. CASE RestartRealtime(h)
  BY <1>1, <1>2, <1>6, OffRestart
<1>7. QED
  BY <1>3, <1>4, <1>5, <1>6 DEF AdminStep

LEMMA OffStep ==
  ASSUME TypeInv, [Next]_vars, SwitchedOff, ~wanted'
  PROVE  StaysOff
<1>1. CASE \/ \E t \in Terminals : ClearLogs(t) \/ \E p \in Punches : Punch(t, p)
           \/ LockExpires
           \/ LoseBuffer
           \/ UNCHANGED vars
  <2>1. job' = job /\ device'.status = device.status /\ live' \in {live, NoTerminal}
    BY <1>1 DEF ClearLogs, Punch, LockExpires, LoseBuffer, vars, TypeInv, TypeOK, Device
  <2>2. Claims' = Claims
    BY <2>1 DEF Claims, HasClaim, At
  <2>3. QED
    BY <2>1, <2>2 DEF StaysOff, SwitchedOff
<1>2. QED
  BY <1>1, OffSync, OffFlush, OffProbe, OffAdmin DEF Next

\* Whoever overlaps whom: while the device is off, the handlers that looked at its row
\* before are the only ones that can bring it back or subscribe it, and they only grow
\* fewer (the checks of sync, testConnection, flushRealtime, update and startRealtime).
THEOREM OnlyEarlierLooksRevive == Spec => DisabledStaysDisabled
<1>1. TypeInv /\ [Next]_vars => [SwitchedOff /\ ~wanted' => StaysOff]_vars
  BY OffStep
<1>2. [SwitchedOff /\ ~wanted' => StaysOff]_vars
        => [SwitchedOff /\ ~wanted' =>
              /\ Claims' \subseteq Claims
              /\ (device'.status = "DISABLED" /\ live' \in {live, NoTerminal}) \/ ClaimActs]_vars
  BY DEF StaysOff
<1>3. QED
  BY <1>1, <1>2, TypeInit, TypeStep, PTL DEF Spec, DisabledStaysDisabled

\* Nobody is left who looked at the row before it was switched off.
Settled == SwitchedOff /\ Claims = {} /\ live = NoTerminal

\* So a device that is off with nobody left who looked before is off, and not subscribed,
\* for as long as no administrator switches it on, whatever is pushed, polled, probed,
\* edited, wiped or fails from then on: "no sync, no realtime" (devices.dto.ts:170).
THEOREM DisabledIsFinal == Spec => [](Settled /\ []~wanted => []Settled)
<1>1. TypeInv /\ [Next]_vars /\ Settled /\ ~wanted' => Settled'
  <2> SUFFICES ASSUME TypeInv, [Next]_vars, Settled, ~wanted' PROVE Settled'
    OBVIOUS
  <2>1. StaysOff
    BY OffStep DEF Settled
  <2>2. Claims' = {} /\ ~ClaimActs
    BY <2>1 DEF StaysOff, ClaimActs, Settled
  <2>3. QED
    BY <2>1, <2>2 DEF StaysOff, Settled, SwitchedOff
<1>2. QED
  BY <1>1, TypeInit, TypeStep, PTL DEF Spec
-----------------------------------------------------------------------------
(* The ledger: what is stored was recorded by a terminal and is valid.     *)

\* A punch a handler is about to store, or that waits in the buffer or in a
\* terminal, was recorded; one in a batch also passed validation.
LedgerInv ==
  /\ \A t \in Terminals : \A i \in 1..Len(memory[t]) : memory[t][i] \in recorded
  /\ buffer \subseteq recorded
  /\ \A h \in Handlers : job[h].batch \subseteq recorded \ Rejected

\* A step that neither punches nor stores leaves the ledger alone, and brings
\* no punch into a batch, a buffer or a memory.
Unrelated ==
  /\ recorded' = recorded /\ events' = events
  /\ buffer' \subseteq buffer
  /\ \A t \in Terminals : memory'[t] = memory[t] \/ memory'[t] = <<>>
  /\ \A g \in Handlers : job'[g].batch \subseteq job[g].batch

LEMMA UnrelatedKeepsLedger ==
  ASSUME LedgerInv, Unrelated
  PROVE  LedgerInv' /\ UNCHANGED Ledger!lvars
<1>1. \A t \in Terminals : \A i \in 1..Len(memory'[t]) : memory'[t][i] \in recorded'
  <2> SUFFICES ASSUME NEW t \in Terminals
               PROVE  \A i \in 1..Len(memory'[t]) : memory'[t][i] \in recorded'
    OBVIOUS
  <2>1. CASE memory'[t] = memory[t]
    BY <2>1 DEF LedgerInv, Unrelated
  <2>2. CASE memory'[t] = <<>>
    BY <2>2
  <2>3. QED
    BY <2>1, <2>2 DEF Unrelated
<1>2. QED
  BY <1>1 DEF LedgerInv, Unrelated, Ledger!lvars

\* The steps of one handler that are not downloads, flushes or stores.
LEMMA HandlerUnrelated ==
  ASSUME TypeInv, NEW h \in Handlers,
         \/ BeginSync(h) \/ AcquireLock(h) \/ LockRefused(h) \/ MarkSyncing(h)
         \/ Process(h) \/ SaveCursor(h) \/ RecordFailure(h) \/ Unlock(h)
         \/ SyncFails(h) \/ Die(h) \/ LookAtDevice(h) \/ MarkOnline(h)
         \/ FlushFails(h) \/ ProbeStep(h) \/ AdminStep(h)
  PROVE  Unrelated
<1>1. /\ recorded' = recorded /\ events' = events
      /\ buffer' = buffer /\ memory' = memory
  BY DEF BeginSync, AcquireLock, LockRefused, MarkSyncing, Process, SaveCursor,
     RecordFailure, Unlock, SyncFails, Die, LookAtDevice, MarkOnline, FlushFails,
     ProbeStep, BeginProbe, EndProbe, RestartRealtime, AdminStep, BeginEdit,
     CommitEdit, CommitRemoval
<1>2. job \in [Handlers -> Job] /\ job[h] \in Job
  BY DEF TypeInv, TypeOK
<1>3. \A g \in Handlers \ {h} : job'[g] = job[g]
  BY <1>2 DEF BeginSync, AcquireLock, LockRefused, MarkSyncing, Process, SaveCursor,
     RecordFailure, Unlock, SyncFails, Die, LookAtDevice, MarkOnline, FlushFails,
     ProbeStep, BeginProbe, EndProbe, RestartRealtime, AdminStep, BeginEdit,
     CommitEdit, CommitRemoval, WriteEdit, Goto, Finish
<1>4. job'[h].batch \subseteq job[h].batch
  <2>1. ASSUME NEW s \in Steps, Goto(h, s) PROVE job'[h].batch = job[h].batch
    BY <1>2, <2>1 DEF Goto, Job
  <2>2. CASE Finish(h)
    BY <1>2, <2>2 DEF Finish, IdleJob
  <2>3. CASE AcquireLock(h) \/ MarkSyncing(h) \/ SaveCursor(h) \/ RecordFailure(h)
             \/ BeginProbe(h)
    BY <2>1, <2>3 DEF AcquireLock, MarkSyncing, SaveCursor, RecordFailure,
       BeginProbe, Steps
  <2>4. CASE LockRefused(h) \/ Unlock(h) \/ Die(h) \/ MarkOnline(h)
             \/ FlushFails(h) \/ RestartRealtime(h)
    BY <2>2, <2>4 DEF LockRefused, Unlock, Die, MarkOnline, FlushFails,
       RestartRealtime
  <2>5. CASE BeginSync(h) \/ SyncFails(h) \/ BeginEdit(h)
    BY <1>2, <2>5 DEF BeginSync, SyncFails, BeginEdit, IdleJob
  <2>6. CASE Process(h) \/ LookAtDevice(h)
    BY <1>2, <2>6 DEF Process, LookAtDevice, Job
  <2>7. CASE EndProbe(h)
    BY <1>2, <2>2, <2>7 DEF EndProbe, Job
  <2>8. CASE CommitEdit(h)
    <3>1. PICK address \in Terminals \cup {NoTerminal},
               enabled \in {"on", "off", "keep"} : WriteEdit(h, address, enabled)
      BY <2>8 DEF CommitEdit
    <3>2. QED
      BY <1>2, <3>1 DEF WriteEdit, Job
  <2>9. CASE CommitRemoval(h)
    BY <1>2, <2>9 DEF CommitRemoval, Job
  <2>10. QED
    BY <2>3, <2>4, <2>5, <2>6, <2>7, <2>8, <2>9 DEF ProbeStep, AdminStep
<1>5. QED
  BY <1>1, <1>3, <1>4 DEF Unrelated

LEMMA LedgerStep ==
  ASSUME TypeInv, LedgerInv, [Next]_vars
  PROVE  LedgerInv' /\ [Ledger!Next]_(Ledger!lvars)
<1>0. job \in [Handlers -> Job] /\ TypeOK
  BY DEF TypeInv, TypeOK
<1>1. ASSUME NEW t \in Terminals, NEW p \in Punches, Punch(t, p)
      PROVE  LedgerInv' /\ [Ledger!Next]_(Ledger!lvars)
  <2>1. Ledger!Record(p)
    BY <1>1 DEF Punch, Ledger!Record
  <2>2. memory \in [Terminals -> Seq(Punches)]
    BY <1>0 DEF TypeOK
  <2>3. \A u \in Terminals : \A i \in 1..Len(memory'[u]) : memory'[u][i] \in recorded'
    <3> SUFFICES ASSUME NEW u \in Terminals, NEW i \in 1..Len(memory'[u])
                 PROVE  memory'[u][i] \in recorded \cup {p}
      BY <1>1 DEF Punch
    <3>1. CASE u = t
      <4>1. memory'[u] = Append(memory[u], p)
        BY <1>1, <2>2, <3>1 DEF Punch
      <4>2. memory[u] \in Seq(Punches)
        BY <2>2
      <4>3. Len(memory'[u]) = Len(memory[u]) + 1 /\ Len(memory[u]) \in Nat
        BY <4>1, <4>2
      <4>4. CASE i = Len(memory[u]) + 1
        BY <4>1, <4>2, <4>4
      <4>5. CASE i \in 1..Len(memory[u])
        BY <4>1, <4>2, <4>5 DEF LedgerInv
      <4>6. QED
        BY <4>3, <4>4, <4>5
    <3>2. CASE u # t
      BY <1>1, <2>2, <3>2 DEF Punch, LedgerInv
    <3>3. QED
      BY <3>1, <3>2
  <2>4. buffer' \subseteq recorded' /\ job' = job /\ recorded \subseteq recorded'
    BY <1>1 DEF Punch, LedgerInv
  <2>5. QED
    BY <2>1, <2>3, <2>4 DEF LedgerInv, Ledger!Next
<1>2. ASSUME NEW h \in Syncs \cup Flushes, Store(h)
      PROVE  LedgerInv' /\ [Ledger!Next]_(Ledger!lvars)
  <2>0. h \in Handlers
    BY DEF Handlers
  <2>1. job[h].batch \subseteq recorded \ Rejected /\ job[h].batch \in SUBSET Punches
    BY <1>0, <2>0 DEF LedgerInv, Job
  <2>2. Ledger!Store(job[h].batch)
    BY <1>2, <2>1 DEF Store, Ledger!Store
  <2>3. /\ job'[h].batch = {} /\ \A g \in Handlers \ {h} : job'[g] = job[g]
        /\ recorded' = recorded /\ memory' = memory /\ buffer' = buffer
    BY <1>0, <1>2, <2>0 DEF Store, Job
  <2>4. \A g \in Handlers : job'[g].batch \subseteq recorded' \ Rejected
    BY <2>3 DEF LedgerInv
  <2>5. QED
    BY <2>1, <2>2, <2>3, <2>4 DEF LedgerInv, Ledger!Next
<1>3. ASSUME NEW h \in Syncs, Fetch(h)
      PROVE  LedgerInv' /\ [Ledger!Next]_(Ledger!lvars)
  <2>1. h \in Handlers /\ h \notin Flushes
    BY HandlerAssumption DEF Handlers
  <2>2. job[h].terminal \in Terminals /\ job[h].cursor \in Cursors
    BY <1>0, <1>3, <2>1 DEF Fetch, At, TypeInv, KnowsTerminal, Job
  <2>3. PICK R : R = ReadFrom(job[h].terminal, job[h].cursor)
    OBVIOUS
  <2>4. R \subseteq recorded
    <3>1. StartOf(job[h].terminal, job[h].cursor) \in 0..Len(memory[job[h].terminal])
      BY <1>0, <2>2, ReadFromType
    <3>2. Len(memory[job[h].terminal]) \in Nat
      BY <1>0, <2>2 DEF TypeOK
    <3>3. QED
      BY <2>2, <2>3, <3>1, <3>2 DEF ReadFrom, LedgerInv
  <2>5. /\ job'[h].batch = R \ Rejected /\ \A g \in Handlers \ {h} : job'[g] = job[g]
        /\ recorded' = recorded /\ memory' = memory /\ buffer' = buffer
        /\ events' = events
    BY <1>0, <1>3, <2>1, <2>3 DEF Fetch, Accepted, Job
  <2>6. QED
    BY <2>4, <2>5 DEF LedgerInv, Ledger!lvars
<1>4. ASSUME NEW h \in Flushes, BeginFlush(h)
      PROVE  LedgerInv' /\ [Ledger!Next]_(Ledger!lvars)
  <2>1. h \in Handlers
    BY DEF Handlers
  <2>2. /\ job'[h].batch = buffer \ Rejected
        /\ \A g \in Handlers \ {h} : job'[g] = job[g]
        /\ recorded' = recorded /\ memory' = memory /\ buffer' = {}
        /\ events' = events
    BY <1>0, <1>4, <2>1 DEF BeginFlush, Accepted, IdleJob
  <2>3. QED
    BY <2>2 DEF LedgerInv, Ledger!lvars
<1>5. ASSUME \/ \E t \in Terminals : ClearLogs(t)
             \/ LockExpires \/ LoseBuffer \/ UNCHANGED vars
      PROVE  Unrelated
  BY <1>0, <1>5 DEF ClearLogs, LockExpires, LoseBuffer, vars, Unrelated, TypeOK
<1>6. ASSUME NEW h \in Syncs, SyncStep(h) \/ SyncFails(h) \/ Die(h),
             ~Store(h), ~Fetch(h)
      PROVE  Unrelated
  BY <1>6, HandlerUnrelated DEF SyncStep, Handlers
<1>7. ASSUME NEW h \in Flushes, FlushStep(h) \/ FlushFails(h),
             ~Store(h), ~BeginFlush(h)
      PROVE  Unrelated
  BY <1>7, HandlerUnrelated DEF FlushStep, Handlers
<1>8. ASSUME NEW h \in Probes \cup Admins, ProbeStep(h) \/ AdminStep(h)
      PROVE  Unrelated
  BY <1>8, HandlerUnrelated DEF Handlers
<1>9. QED
  BY <1>1, <1>2, <1>3, <1>4, <1>5, <1>6, <1>7, <1>8, UnrelatedKeepsLedger DEF Next

\* Pull and push together implement the ledger: a punch is stored only after a
\* terminal recorded it and only if valid, and is never taken back, for every
\* interleaving of syncs, flushes, probes and edits, slow or not.
THEOREM ImplementsLedger == Spec => LedgerSpec
<1>1. Init => LedgerInv /\ Ledger!Init
  BY DEF Init, LedgerInv, IdleJob, Ledger!Init
<1>2. TypeInv /\ LedgerInv /\ [Next]_vars => LedgerInv' /\ [Ledger!Next]_(Ledger!lvars)
  BY LedgerStep
<1>3. QED
  BY <1>1, <1>2, TypeInit, TypeStep, PTL DEF Spec, LedgerSpec, Ledger!Spec

-----------------------------------------------------------------------------
(* What was stored is processed, unless a handler failed in between.       *)

\* Only a handler about to process holds inserted rows, and as long as nothing
\* failed every stored punch is processed or held so.
ProcessedInv ==
  /\ \A h \in Handlers : job[h].todo # {} => job[h].pc = "processing"
  /\ spent.faults = 0 =>
       \A p \in events : p \in handed \/ \E h \in Handlers : p \in job[h].todo

\* A handler that holds no row takes a step that stores and processes none.
LEMMA TodoFrame ==
  ASSUME TypeInv, ProcessedInv, NEW h \in Handlers, job[h].pc # "processing",
         \A g \in Handlers \ {h} : job'[g] = job[g],
         job'[h].todo \in {{}, job[h].todo},
         events' = events, handed' = handed, spent'.faults = spent.faults
  PROVE  ProcessedInv'
<1>1. job[h].todo = {} /\ job'[h].todo = {}
  BY DEF ProcessedInv
<1>2. \A g \in Handlers : job'[g].todo = job[g].todo
  BY <1>1
<1>3. \A g \in Handlers : job'[g].todo # {} => job'[g].pc = "processing"
  BY <1>1 DEF ProcessedInv
<1>4. QED
  BY <1>2, <1>3 DEF ProcessedInv

LEMMA TodoHandler ==
  ASSUME TypeInv, ProcessedInv, NEW h \in Handlers,
         \/ BeginSync(h) \/ AcquireLock(h) \/ LockRefused(h) \/ MarkSyncing(h) \/ Fetch(h)
         \/ SaveCursor(h) \/ RecordFailure(h) \/ Unlock(h) \/ BeginFlush(h)
         \/ LookAtDevice(h) \/ MarkOnline(h) \/ ProbeStep(h) \/ AdminStep(h)
  PROVE  ProcessedInv'
<1>1. events' = events /\ handed' = handed
  BY DEF BeginSync, AcquireLock, LockRefused, MarkSyncing, Fetch, SaveCursor, RecordFailure,
     Unlock, BeginFlush, LookAtDevice, MarkOnline, ProbeStep, BeginProbe, EndProbe,
     RestartRealtime, AdminStep, BeginEdit, CommitEdit, CommitRemoval
<1>2. spent'.faults = spent.faults
  <2>1. MayCommit(h) => spent'.faults = spent.faults
    BY DEF MayCommit, TypeInv, TypeOK
  <2>2. QED
    BY <2>1 DEF BeginSync, AcquireLock, LockRefused, MarkSyncing, Fetch, SaveCursor,
       RecordFailure, Unlock, BeginFlush, LookAtDevice, MarkOnline, ProbeStep, BeginProbe,
       EndProbe, RestartRealtime, AdminStep, BeginEdit, CommitEdit, CommitRemoval
<1>3. job[h].pc # "processing"
  BY DEF BeginSync, AcquireLock, LockRefused, MarkSyncing, Fetch, SaveCursor, RecordFailure,
     Unlock, BeginFlush, LookAtDevice, MarkOnline, ProbeStep, BeginProbe, EndProbe,
     RestartRealtime, AdminStep, BeginEdit, CommitEdit, CommitRemoval, At
<1>4. job \in [Handlers -> Job] /\ job[h] \in Job
  BY DEF TypeInv, TypeOK
<1>5. \A g \in Handlers \ {h} : job'[g] = job[g]
  BY <1>4 DEF BeginSync, AcquireLock, LockRefused, MarkSyncing, Fetch, SaveCursor,
     RecordFailure, Unlock, BeginFlush, LookAtDevice, MarkOnline, ProbeStep, BeginProbe,
     EndProbe, RestartRealtime, AdminStep, BeginEdit, CommitEdit, CommitRemoval, WriteEdit,
     Goto, Finish
<1>6. job'[h].todo \in {{}, job[h].todo}
  <2>1. \A s \in Steps : Goto(h, s) => job'[h].todo = job[h].todo
    BY <1>4 DEF Goto, Job
  <2>2. Finish(h) => job'[h].todo = {}
    BY <1>4 DEF Finish, IdleJob
  <2>3. CASE AcquireLock(h) \/ MarkSyncing(h) \/ SaveCursor(h) \/ RecordFailure(h)
             \/ BeginProbe(h)
    BY <2>1, <2>3 DEF AcquireLock, MarkSyncing, SaveCursor, RecordFailure, BeginProbe, Steps
  <2>4. CASE LockRefused(h) \/ Unlock(h) \/ MarkOnline(h) \/ RestartRealtime(h)
    BY <2>2, <2>4 DEF LockRefused, Unlock, MarkOnline, RestartRealtime
  <2>5. CASE BeginSync(h) \/ BeginEdit(h) \/ BeginFlush(h)
    BY <1>4, <2>5 DEF BeginSync, BeginEdit, BeginFlush, IdleJob
  <2>6. CASE Fetch(h) \/ LookAtDevice(h)
    BY <1>4, <2>6 DEF Fetch, LookAtDevice, Job
  <2>7. CASE EndProbe(h)
    BY <1>4, <2>2, <2>7 DEF EndProbe, Job
  <2>8. CASE CommitEdit(h)
    <3>1. PICK address \in Terminals \cup {NoTerminal},
               enabled \in {"on", "off", "keep"} : WriteEdit(h, address, enabled)
      BY <2>8 DEF CommitEdit
    <3>2. QED
      BY <1>4, <3>1 DEF WriteEdit, Job
  <2>9. CASE CommitRemoval(h)
    BY <1>4, <2>9 DEF CommitRemoval, Job
  <2>10. QED
    BY <2>3, <2>4, <2>5, <2>6, <2>7, <2>8, <2>9 DEF ProbeStep, AdminStep
<1>7. QED
  BY <1>1, <1>2, <1>3, <1>5, <1>6, TodoFrame

\* A failure ends the claim about processing; its handler holds nothing any more.
LEMMA TodoFault ==
  ASSUME TypeInv, ProcessedInv, NEW h \in Handlers,
         SyncFails(h) \/ Die(h) \/ FlushFails(h)
  PROVE  ProcessedInv'
<1>1. spent'.faults # 0
  <2>1. spent.faults \in Nat /\ spent' = [spent EXCEPT !.faults = spent.faults + 1]
    BY DEF SyncFails, Die, FlushFails, Fault, TypeInv, TypeOK
  <2>2. QED
    BY <2>1 DEF TypeInv, TypeOK
<1>2. job \in [Handlers -> Job]
  BY DEF TypeInv, TypeOK
<1>3. /\ job'[h].todo = {}
      /\ \A g \in Handlers \ {h} : job'[g] = job[g]
  BY <1>2 DEF SyncFails, Die, FlushFails, Finish, IdleJob
<1>4. QED
  BY <1>1, <1>3 DEF ProcessedInv

LEMMA ProcessedStep ==
  ASSUME TypeInv, ProcessedInv, [Next]_vars PROVE ProcessedInv'
<1>0. job \in [Handlers -> Job]
  BY DEF TypeInv, TypeOK
<1>1. ASSUME NEW h \in Handlers, Store(h) PROVE ProcessedInv'
  <2>1. /\ events' = events \cup job[h].batch /\ handed' = handed /\ spent' = spent
        /\ job[h].pc # "processing"
    BY <1>1 DEF Store, At
  <2>2. /\ job'[h].pc = "processing" /\ job'[h].todo = job[h].batch \ events
        /\ \A g \in Handlers \ {h} : job'[g] = job[g]
    BY <1>0, <1>1 DEF Store, Job
  <2>3. job[h].todo = {}
    BY <2>1 DEF ProcessedInv
  <2>4. ASSUME spent.faults = 0, NEW p \in events'
        PROVE  p \in handed' \/ \E g \in Handlers : p \in job'[g].todo
    <3>1. CASE p \in events
      <4>1. p \in handed \/ \E g \in Handlers \ {h} : p \in job[g].todo
        BY <2>3, <2>4, <3>1 DEF ProcessedInv
      <4>2. QED
        BY <2>1, <2>2, <4>1
    <3>2. CASE p \in job[h].batch \ events
      BY <2>2, <3>2
    <3>3. QED
      BY <2>1, <2>4, <3>1, <3>2
  <2>5. QED
    BY <2>1, <2>2, <2>4 DEF ProcessedInv
<1>2. ASSUME NEW h \in Handlers, Process(h) PROVE ProcessedInv'
  <2>1. /\ events' = events /\ handed' = handed \cup job[h].todo /\ spent' = spent
        /\ job'[h].todo = {}
        /\ \A g \in Handlers \ {h} : job'[g] = job[g]
    BY <1>0, <1>2 DEF Process, Job
  <2>2. \A p : p \in handed \/ (\E g \in Handlers : p \in job[g].todo) =>
               p \in handed' \/ (\E g \in Handlers : p \in job'[g].todo)
    BY <2>1
  <2>3. QED
    BY <2>1, <2>2 DEF ProcessedInv
<1>3. ASSUME \/ \E t \in Terminals : ClearLogs(t) \/ \E p \in Punches : Punch(t, p)
             \/ LockExpires \/ UNCHANGED vars
      PROVE  ProcessedInv'
  <2>1. events' = events /\ handed' = handed /\ job' = job
    BY <1>3 DEF ClearLogs, Punch, LockExpires, vars
  <2>2. spent'.faults = spent.faults
    BY <1>3 DEF ClearLogs, Punch, LockExpires, vars, TypeInv, TypeOK
  <2>3. QED
    BY <2>1, <2>2 DEF ProcessedInv
<1>4. CASE LoseBuffer
  <2>1. spent.faults \in Nat /\ spent' = [spent EXCEPT !.faults = spent.faults + 1]
        /\ job' = job
    BY <1>4 DEF LoseBuffer, Fault, TypeInv, TypeOK
  <2>2. spent'.faults # 0
    BY <2>1 DEF TypeInv, TypeOK
  <2>3. QED
    BY <2>1, <2>2 DEF ProcessedInv
<1>5. ASSUME NEW h \in Syncs, SyncStep(h) \/ SyncFails(h) \/ Die(h) PROVE ProcessedInv'
  BY <1>1, <1>2, <1>5, TodoHandler, TodoFault DEF SyncStep, Handlers
<1>6. ASSUME NEW h \in Flushes, FlushStep(h) \/ FlushFails(h) PROVE ProcessedInv'
  BY <1>1, <1>2, <1>6, TodoHandler, TodoFault DEF FlushStep, Handlers
<1>7. ASSUME NEW h \in Probes \cup Admins, ProbeStep(h) \/ AdminStep(h)
      PROVE  ProcessedInv'
  BY <1>7, TodoHandler DEF Handlers
<1>8. QED
  BY <1>3, <1>4, <1>5, <1>6, <1>7 DEF Next

\* Whatever path stored it first, a punch below the cursor of the row, which no later
\* sync is offered, has been or is about to be computed into its day, unless a handler
\* failed between the insert and the computation (the row edited between handlers).
THEOREM CoveredPunchesAreProcessed ==
  ASSUME ~EditsWhileBusy
  PROVE  Spec => []CoveredIsProcessed
<1>1. Init => ProcessedInv
  BY DEF Init, ProcessedInv, IdleJob
<1>2. TypeInv /\ ProcessedInv /\ [Next]_vars => ProcessedInv'
  BY ProcessedStep
<1>3. ProcessedInv /\ NothingSkipped => CoveredIsProcessed
  BY DEF ProcessedInv, NothingSkipped, CoveredIsProcessed
<1>4. Spec => []ProcessedInv
  BY <1>1, <1>2, TypeInit, TypeStep, PTL DEF Spec
<1>5. Spec => []NothingSkipped
  BY NoPunchSkipped
<1>6. QED
  BY <1>3, <1>4, <1>5, PTL
=============================================================================
