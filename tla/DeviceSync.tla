----------------------------- MODULE DeviceSync -----------------------------
(***************************************************************************)
(* Ingestion of the punches of one registered device: the pull path        *)
(* (DeviceSyncService.sync), the push path (bufferRealtime, flushRealtime), *)
(* the connectivity probe (DevicesService.testConnection) and the edits an  *)
(* administrator makes to the device row while the others are running.     *)
(*                                                                         *)
(* Every handler is an asynchronous function of the API, possibly running  *)
(* in different instances, so each database statement or terminal request  *)
(* it awaits is a step of its own and the steps of all handlers interleave. *)
(* A punch stands for its dedup key (device, user, second).                *)
(***************************************************************************)
EXTENDS Naturals, Sequences, FiniteSets

CONSTANTS
  Terminals,       \* the physical terminals the device row may point at
  NoTerminal,      \* no live subscription
  Punches,         \* dedup keys
  Rejected,        \* the punches the validation stage refuses
  Syncs,           \* concurrent calls of sync(): scheduler ticks and manual ones
  Flushes,         \* concurrent calls of flushRealtime()
  Probes,          \* concurrent calls of testConnection()
  Admins,          \* concurrent calls of update() and remove()
  MaxLog,          \* bound: records one terminal memory holds
  MaxWipes,        \* bound: times terminal memories are cleared
  MaxEdits,        \* bound: committed edits of the device row
  MaxFaults,       \* bound: exceptions, crashes and lost buffers
  SlowSync,        \* may a sync that is still running exceed STALE_LOCK_MS?
  EditsWhileBusy   \* may the row be edited while another handler is running?

ASSUME TerminalAssumption == Terminals # {} /\ NoTerminal \notin Terminals
ASSUME PunchAssumption == Rejected \subseteq Punches
ASSUME BoundAssumption ==
  MaxLog \in Nat /\ MaxWipes \in Nat /\ MaxEdits \in Nat /\ MaxFaults \in Nat
ASSUME SwitchAssumption == SlowSync \in BOOLEAN /\ EditsWhileBusy \in BOOLEAN
ASSUME HandlerAssumption ==
  /\ Syncs \cap (Flushes \cup Probes \cup Admins) = {}
  /\ Flushes \cap (Probes \cup Admins) = {}
  /\ Probes \cap Admins = {}

VARIABLES
  memory,       \* memory[t]: the attendance log of terminal t, oldest first
  generation,   \* generation[t]: times its memory was cleared, plus one
  device,       \* the row of table devices, and the lock column as an age
  live,         \* the terminal whose punches reach bufferRealtime
  buffer,       \* punches waiting for the 250 ms flush
  events,       \* the rows of attendance_events, by dedup key
  handed,       \* punches processEvents has been through with
  job,          \* job[h]: where handler h is, and its local variables
  spent,        \* how much of each bound is used
  recorded,     \* history: every punch a terminal ever recorded
  wanted        \* history: FALSE once an administrator disabled the device

vars == <<memory, generation, device, live, buffer, events, handed, job,
          spent, recorded, wanted>>

Handlers == Syncs \cup Flushes \cup Probes \cup Admins

-----------------------------------------------------------------------------
(* The data the handlers work on.                                          *)

Statuses == {"OFFLINE", "ONLINE", "SYNCING", "ERROR", "DISABLED"}
LockAges == {"free", "fresh", "stale"}

\* "<memoryGeneration>:<nextIndex>"; a null cursor parses as 0:0.
Cursors  == [gen : Nat, next : Nat]
NoCursor == [gen |-> 0, next |-> 0]

Device == [terminal : Terminals, status : Statuses, cursor : Cursors,
           lock : LockAges, deleted : BOOLEAN]

Steps == {"idle",
          "locking", "starting", "fetching", "storing", "processing", "saving",
          "failing", "unlocking",
          "looking", "marking",
          "probing", "editing", "removing", "restarting"}

Job == [pc : Steps, terminal : Terminals \cup {NoTerminal}, cursor : Cursors,
        batch : SUBSET Punches, todo : SUBSET Punches, seen : Statuses]

IdleJob == [pc |-> "idle", terminal |-> NoTerminal, cursor |-> NoCursor,
            batch |-> {}, todo |-> {}, seen |-> "OFFLINE"]

\* readFromIndex: where a read of t's memory resumes for a cursor.
StartOf(t, c) ==
  IF c.gen # generation[t] THEN 0
  ELSE IF c.next <= Len(memory[t]) THEN c.next ELSE Len(memory[t])

\* The punches a sync of terminal t with cursor c downloads.
ReadFrom(t, c) == {memory[t][i] : i \in (StartOf(t, c) + 1)..Len(memory[t])}

CursorAtEnd(t) == [gen |-> generation[t], next |-> Len(memory[t])]

\* Mutant: nothing is validated.
AcceptedUnchecked(logs) == logs

\* runIngestionPipeline: what validation keeps (a set: duplicates collapse).
Accepted(logs) == logs \ Rejected

\* A sync between the acquisition of the lock and its release.
Critical == {"starting", "fetching", "storing", "processing", "saving",
             "failing", "unlocking"}

Syncing == {h \in Syncs : job[h].pc \in Critical}

\* The bound EditsWhileBusy: unless it is set, an edit is read and committed only
\* when no other handler of the device is running.
Quiet(h) == EditsWhileBusy \/ \A g \in Handlers \ {h} : job[g].pc = "idle"

-----------------------------------------------------------------------------
Init ==
  /\ memory = [t \in Terminals |-> <<>>]
  /\ generation = [t \in Terminals |-> 1]
  /\ \E t \in Terminals :
       /\ device = [terminal |-> t, status |-> "OFFLINE", cursor |-> NoCursor,
                    lock |-> "free", deleted |-> FALSE]
       /\ live \in {NoTerminal, t}
  /\ buffer = {}
  /\ events = {}
  /\ handed = {}
  /\ job = [h \in Handlers |-> IdleJob]
  /\ spent = [wipes |-> 0, edits |-> 0, faults |-> 0]
  /\ recorded = {}
  /\ wanted = TRUE

\* Handler h is at step s.
At(h, s) == job[h].pc = s

Goto(h, s) == job' = [job EXCEPT ![h].pc = s]
Finish(h)  == job' = [job EXCEPT ![h] = IdleJob]

SetStatus(s) == device' = [device EXCEPT !.status = s]

\* One more exception, crash or loss.
Fault ==
  /\ spent.faults < MaxFaults
  /\ spent' = [spent EXCEPT !.faults = @ + 1]

-----------------------------------------------------------------------------
(* The terminals.                                                          *)

\* Somebody punches at terminal t. A live terminal may also push the punch.
Punch(t, p) ==
  /\ Len(memory[t]) < MaxLog
  /\ memory' = [memory EXCEPT ![t] = Append(@, p)]
  /\ recorded' = recorded \cup {p}
  /\ \/ buffer' = buffer
     \/ live = t /\ buffer' = buffer \cup {p}
  /\ UNCHANGED <<generation, device, live, events, handed, job, spent, wanted>>

\* An administrator clears the terminal's memory at the terminal.
ClearLogs(t) ==
  /\ spent.wipes < MaxWipes
  /\ memory' = [memory EXCEPT ![t] = <<>>]
  /\ generation' = [generation EXCEPT ![t] = @ + 1]
  /\ spent' = [spent EXCEPT !.wipes = @ + 1]
  /\ UNCHANGED <<device, live, buffer, events, handed, job, recorded, wanted>>

-----------------------------------------------------------------------------
(* Pull: sync().                                                           *)

\* getEntity: the row is read once; terminal and cursor come from this read.
BeginSync(h) ==
  /\ At(h, "idle")
  /\ ~device.deleted
  /\ device.status # "DISABLED"
  /\ job' = [job EXCEPT ![h] = [IdleJob EXCEPT !.pc = "locking",
                                               !.terminal = device.terminal,
                                               !.cursor = device.cursor]]
  /\ UNCHANGED <<memory, generation, device, live, buffer, events, handed,
                 spent, recorded, wanted>>

\* Mutant: a lock is never taken over.
AcquireLockIfFree(h) ==
  /\ At(h, "locking")
  /\ ~device.deleted
  /\ device.lock = "free"
  /\ device' = [device EXCEPT !.lock = "fresh"]
  /\ Goto(h, "starting")
  /\ UNCHANGED <<memory, generation, live, buffer, events, handed, spent,
                 recorded, wanted>>

\* acquireLock: the conditional update matched the row.
AcquireLock(h) ==
  /\ At(h, "locking")
  /\ ~device.deleted
  /\ device.lock # "fresh"
  /\ device' = [device EXCEPT !.lock = "fresh"]
  /\ Goto(h, "starting")
  /\ UNCHANGED <<memory, generation, live, buffer, events, handed, spent,
                 recorded, wanted>>

\* 409: the conditional update matched no row.
LockRefused(h) ==
  /\ At(h, "locking")
  /\ device.deleted \/ device.lock = "fresh"
  /\ Finish(h)
  /\ UNCHANGED <<memory, generation, device, live, buffer, events, handed,
                 spent, recorded, wanted>>

MarkSyncing(h) ==
  /\ At(h, "starting")
  /\ SetStatus("SYNCING")
  /\ Goto(h, "fetching")
  /\ UNCHANGED <<memory, generation, live, buffer, events, handed, spent,
                 recorded, wanted>>

\* Mutant: the cursor is saved as soon as the records are downloaded.
FetchSavingCursor(h) ==
  LET t == job[h].terminal IN
  /\ At(h, "fetching")
  /\ job' = [job EXCEPT ![h].pc = "storing",
                        ![h].batch = Accepted(ReadFrom(t, job[h].cursor)),
                        ![h].cursor = CursorAtEnd(t)]
  /\ device' = [device EXCEPT !.cursor = CursorAtEnd(t)]
  /\ live' \in {live, NoTerminal}
  /\ UNCHANGED <<memory, generation, buffer, events, handed, spent, recorded,
                 wanted>>

\* adapterFor rebuilds the adapter when the row changed since it was cached,
\* which drops its live subscription; then the new records are downloaded.
Fetch(h) ==
  LET t == job[h].terminal IN
  /\ At(h, "fetching")
  /\ job' = [job EXCEPT ![h].pc = "storing",
                        ![h].batch = Accepted(ReadFrom(t, job[h].cursor)),
                        ![h].cursor = CursorAtEnd(t)]
  /\ live' \in {live, NoTerminal}
  /\ UNCHANGED <<memory, generation, device, buffer, events, handed, spent,
                 recorded, wanted>>

\* setStatus(ONLINE) with the cursor of the download.
SaveCursor(h) ==
  /\ At(h, "saving")
  /\ h \in Syncs
  /\ device' = [device EXCEPT !.status = "ONLINE", !.cursor = job[h].cursor]
  /\ Goto(h, "unlocking")
  /\ UNCHANGED <<memory, generation, live, buffer, events, handed, spent,
                 recorded, wanted>>

\* catch: statusAfterFailure.
RecordFailure(h) ==
  /\ At(h, "failing")
  /\ \E s \in {"OFFLINE", "ERROR"} : SetStatus(s)
  /\ Goto(h, "unlocking")
  /\ UNCHANGED <<memory, generation, live, buffer, events, handed, spent,
                 recorded, wanted>>

\* finally: the lock is cleared whoever holds it.
Unlock(h) ==
  /\ At(h, "unlocking")
  /\ device' = [device EXCEPT !.lock = "free"]
  /\ Finish(h)
  /\ UNCHANGED <<memory, generation, live, buffer, events, handed, spent,
                 recorded, wanted>>

\* An exception inside the try block: before the download, before the rows are
\* stored, with only some of the days recomputed, or before the cursor is saved.
SyncFails(h) ==
  /\ h \in Syncs
  /\ job[h].pc \in {"fetching", "storing", "processing", "saving"}
  /\ Fault
  /\ \E done \in SUBSET job[h].todo : handed' = handed \cup done
  /\ job' = [job EXCEPT ![h] = [IdleJob EXCEPT !.pc = "failing"]]
  /\ live' \in {live, NoTerminal}
  /\ UNCHANGED <<memory, generation, device, buffer, events, recorded, wanted>>

\* Ten minutes pass since the lock was taken.
LockExpires ==
  /\ device.lock = "fresh"
  /\ SlowSync \/ Syncing = {}
  /\ device' = [device EXCEPT !.lock = "stale"]
  /\ UNCHANGED <<memory, generation, live, buffer, events, handed, job, spent,
                 recorded, wanted>>

-----------------------------------------------------------------------------
(* ingest(), shared by pull and push.                                      *)

\* createManyAndReturn with skipDuplicates: only the rows it inserted go on.
Store(h) ==
  /\ At(h, "storing")
  /\ events' = events \cup job[h].batch
  /\ job' = [job EXCEPT ![h].pc = "processing",
                        ![h].batch = {},
                        ![h].todo = job[h].batch \ events]
  /\ UNCHANGED <<memory, generation, device, live, buffer, handed, spent,
                 recorded, wanted>>

\* Mutant: pushed punches are stored but their days are not recomputed.
ProcessPulled(h) ==
  /\ At(h, "processing")
  /\ handed' = IF h \in Syncs THEN handed \cup job[h].todo ELSE handed
  /\ job' = [job EXCEPT ![h].pc = IF h \in Syncs THEN "saving" ELSE "looking",
                        ![h].todo = {}]
  /\ UNCHANGED <<memory, generation, device, live, buffer, events, spent,
                 recorded, wanted>>

\* processEvents and publishCreated on the inserted rows.
Process(h) ==
  /\ At(h, "processing")
  /\ handed' = handed \cup job[h].todo
  /\ job' = [job EXCEPT ![h].pc = IF h \in Syncs THEN "saving" ELSE "looking",
                        ![h].todo = {}]
  /\ UNCHANGED <<memory, generation, device, live, buffer, events, spent,
                 recorded, wanted>>

-----------------------------------------------------------------------------
(* Push: flushRealtime().                                                  *)

BeginFlush(h) ==
  /\ At(h, "idle")
  /\ buffer # {}
  /\ buffer' = {}
  /\ job' = [job EXCEPT ![h] = [IdleJob EXCEPT !.pc = "storing",
                                               !.batch = Accepted(buffer)]]
  /\ UNCHANGED <<memory, generation, device, live, events, handed, spent,
                 recorded, wanted>>

\* findUnique, before the decision below.
LookAtDevice(h) ==
  /\ At(h, "looking")
  /\ job' = [job EXCEPT ![h].pc = "marking", ![h].seen = device.status]
  /\ UNCHANGED <<memory, generation, device, live, buffer, events, handed,
                 spent, recorded, wanted>>

\* Mutant: a push brings a disabled device back.
MarkOnlineAlways(h) ==
  /\ At(h, "marking")
  /\ SetStatus("ONLINE")
  /\ Finish(h)
  /\ UNCHANGED <<memory, generation, live, buffer, events, handed, spent,
                 recorded, wanted>>

\* A pushing terminal is online, unless it is known to be busy or disabled.
MarkOnline(h) ==
  /\ At(h, "marking")
  /\ IF job[h].seen \in {"ONLINE", "SYNCING", "DISABLED"}
       THEN UNCHANGED device
       ELSE SetStatus("ONLINE")
  /\ Finish(h)
  /\ UNCHANGED <<memory, generation, live, buffer, events, handed, spent,
                 recorded, wanted>>

\* The catch block: logged, nothing else.
FlushFails(h) ==
  /\ h \in Flushes
  /\ ~At(h, "idle")
  /\ Fault
  /\ \E done \in SUBSET job[h].todo : handed' = handed \cup done
  /\ Finish(h)
  /\ UNCHANGED <<memory, generation, device, live, buffer, events, recorded,
                 wanted>>

-----------------------------------------------------------------------------
(* Probe: testConnection().                                                *)

BeginProbe(h) ==
  /\ At(h, "idle")
  /\ ~device.deleted
  /\ device.status # "DISABLED"
  /\ Goto(h, "probing")
  /\ live' \in {live, NoTerminal}
  /\ UNCHANGED <<memory, generation, device, buffer, events, handed, spent,
                 recorded, wanted>>

\* setStatus with the outcome; a reachable terminal is subscribed again.
EndProbe(h) ==
  /\ At(h, "probing")
  /\ \/ /\ SetStatus("ONLINE")
        /\ job' = [job EXCEPT ![h].pc = "restarting",
                              ![h].terminal = device.terminal]
     \/ /\ \E s \in {"OFFLINE", "ERROR"} : SetStatus(s)
        /\ Finish(h)
  /\ UNCHANGED <<memory, generation, live, buffer, events, handed, spent,
                 recorded, wanted>>

\* startRealtime on the row the handler holds; it may not connect.
RestartRealtime(h) ==
  /\ At(h, "restarting")
  /\ live' \in {NoTerminal, job[h].terminal}
  /\ Finish(h)
  /\ UNCHANGED <<memory, generation, device, buffer, events, handed, spent,
                 recorded, wanted>>

-----------------------------------------------------------------------------
(* Administration: update() and remove().                                  *)

\* getEntity; `enabled` and the new address are decided against this read.
BeginEdit(h) ==
  /\ At(h, "idle")
  /\ ~device.deleted
  /\ spent.edits < MaxEdits
  /\ Quiet(h)
  /\ \E s \in {"editing", "removing"} :
       job' = [job EXCEPT ![h] = [IdleJob EXCEPT !.pc = s,
                                                 !.terminal = device.terminal,
                                                 !.seen = device.status]]
  /\ UNCHANGED <<memory, generation, device, live, buffer, events, handed,
                 spent, recorded, wanted>>

MayCommit(h) ==
  /\ spent.edits < MaxEdits
  /\ Quiet(h)
  /\ spent' = [spent EXCEPT !.edits = @ + 1]

\* The status an update writes, given the one read before it.
StatusAfterEdit(seen, enabled, newTerminal) ==
  IF enabled = "off" THEN "DISABLED"
  ELSE IF enabled = "on" /\ seen = "DISABLED" THEN "OFFLINE"
  ELSE IF newTerminal /\ seen # "DISABLED" THEN "OFFLINE"
  ELSE device.status

\* What another terminal makes of the cursor: it starts over.
CursorAfterEdit(newTerminal) == IF newTerminal THEN NoCursor ELSE device.cursor

\* The body may name an address, switch the device on or off, or neither.
WriteEdit(h, address, enabled) ==
  LET newTerminal == address \notin {NoTerminal, job[h].terminal}
      status      == StatusAfterEdit(job[h].seen, enabled, newTerminal)
      target      == IF address = NoTerminal THEN device.terminal ELSE address
  IN
  /\ device' = [device EXCEPT !.status = status, !.terminal = target,
                              !.cursor = CursorAfterEdit(newTerminal)]
  /\ wanted' = (enabled = "on" \/ (enabled = "keep" /\ wanted))
  /\ job' = [job EXCEPT
               ![h].pc = "restarting",
               ![h].terminal = IF status = "DISABLED" THEN NoTerminal ELSE target]

CommitEdit(h) ==
  /\ At(h, "editing")
  /\ MayCommit(h)
  /\ \E address \in Terminals \cup {NoTerminal}, enabled \in {"on", "off", "keep"} :
       WriteEdit(h, address, enabled)
  /\ UNCHANGED <<memory, generation, live, buffer, events, handed, recorded>>

CommitRemoval(h) ==
  /\ At(h, "removing")
  /\ MayCommit(h)
  /\ device' = [device EXCEPT !.status = "DISABLED", !.deleted = TRUE]
  /\ wanted' = FALSE
  /\ job' = [job EXCEPT ![h].pc = "restarting", ![h].terminal = NoTerminal]
  /\ UNCHANGED <<memory, generation, live, buffer, events, handed, recorded>>

-----------------------------------------------------------------------------
(* The instance running a handler dies, or an exception escapes it: its    *)
(* local variables are gone, the row, its lock included, stays as it is.   *)

Die(h) ==
  /\ h \in Syncs
  /\ ~At(h, "idle")
  /\ Fault
  /\ \E done \in SUBSET job[h].todo : handed' = handed \cup done
  /\ Finish(h)
  /\ UNCHANGED <<memory, generation, device, live, buffer, events, recorded,
                 wanted>>

LoseBuffer ==
  /\ buffer # {}
  /\ Fault
  /\ buffer' = {}
  /\ live' = NoTerminal
  /\ UNCHANGED <<memory, generation, device, events, handed, job, recorded,
                 wanted>>

-----------------------------------------------------------------------------
SyncStep(h) ==
  \/ BeginSync(h) \/ AcquireLock(h) \/ LockRefused(h) \/ MarkSyncing(h)
  \/ Fetch(h) \/ Store(h) \/ Process(h) \/ SaveCursor(h)
  \/ RecordFailure(h) \/ Unlock(h)

FlushStep(h) ==
  \/ BeginFlush(h) \/ Store(h) \/ Process(h) \/ LookAtDevice(h) \/ MarkOnline(h)

ProbeStep(h) == BeginProbe(h) \/ EndProbe(h) \/ RestartRealtime(h)

AdminStep(h) ==
  BeginEdit(h) \/ CommitEdit(h) \/ CommitRemoval(h) \/ RestartRealtime(h)

Next ==
  \/ \E t \in Terminals : ClearLogs(t) \/ \E p \in Punches : Punch(t, p)
  \/ \E h \in Syncs : SyncStep(h) \/ SyncFails(h) \/ Die(h)
  \/ \E h \in Flushes : FlushStep(h) \/ FlushFails(h)
  \/ \E h \in Probes : ProbeStep(h)
  \/ \E h \in Admins : AdminStep(h)
  \/ LockExpires
  \/ LoseBuffer

Spec == Init /\ [][Next]_vars

(***************************************************************************)
(* Fairness: the scheduler keeps polling, started handlers keep running    *)
(* unless they fault, and time passes.  People punching, editing, probing  *)
(* or clearing memories owe nothing.                                       *)
(***************************************************************************)
Fairness ==
  /\ \A h \in Syncs : WF_vars(SyncStep(h))
  /\ \A h \in Flushes : WF_vars(FlushStep(h))
  /\ WF_vars(LockExpires)

FairSpec == Spec /\ Fairness

-----------------------------------------------------------------------------
(* Properties.                                                             *)

TypeOK ==
  /\ memory \in [Terminals -> Seq(Punches)]
  /\ generation \in [Terminals -> Nat \ {0}]
  /\ device \in Device
  /\ live \in Terminals \cup {NoTerminal}
  /\ buffer \in SUBSET Punches
  /\ events \in SUBSET Punches
  /\ handed \in SUBSET Punches
  /\ job \in [Handlers -> Job]
  /\ spent \in [wipes : 0..MaxWipes, edits : 0..MaxEdits, faults : 0..MaxFaults]
  /\ recorded \in SUBSET Punches
  /\ wanted \in BOOLEAN

\* No punch is lost: whatever the next sync of the device will not download
\* from its terminal is already stored, or was refused by validation.
NothingSkipped ==
  LET t == device.terminal IN
  \A i \in 1..Len(memory[t]) :
    memory[t][i] \in events \cup Rejected \cup ReadFrom(t, device.cursor)

\* The row lock: one sync of the device at a time, across instances.
OneSyncAtATime == \A g, h \in Syncing : g = h

\* A punch below the saved cursor is never offered again, so attendance processing
\* has been through with it, or a handler is about to: as long as none failed between
\* its insert and its recomputation, whichever path stored the punch first.
CoveredIsProcessed ==
  LET t == device.terminal IN
  spent.faults = 0 =>
    \A i \in 1..Len(memory[t]) :
      \/ memory[t][i] \in Rejected \cup handed \cup ReadFrom(t, device.cursor)
      \/ \E h \in Handlers : memory[t][i] \in job[h].todo

SwitchedOff == ~wanted /\ device.status = "DISABLED"

\* Handler h may still write a status, or subscribe, on the strength of a look at the row
\* as it was while it was enabled.
HasClaim(h) ==
  \/ h \in Syncs /\ job[h].pc \notin {"idle", "unlocking"}
  \/ At(h, "probing")
  \/ At(h, "marking") /\ job[h].seen \in {"OFFLINE", "ERROR"}
  \/ At(h, "editing") /\ job[h].seen # "DISABLED"
  \/ At(h, "restarting") /\ job[h].terminal # NoTerminal

Claims == {h \in Handlers : HasClaim(h)}

\* The claim of some handler is what this step acts on.
ClaimActs == \E h \in Claims : job'[h] # job[h]

\* "false = DISABLED (no sync, no realtime)" (devices.dto.ts:170), as far as the code keeps
\* it.  The status is written without looking again, so a handler under way brings back, or
\* subscribes, a device disabled after it looked.  But nobody joins those handlers while
\* the device is off, and nobody else brings it back or subscribes it: no push of a punch
\* buffered before, no sync or probe begun since, no edit that does not switch it on.
DisabledStaysDisabled ==
  [][SwitchedOff /\ ~wanted' =>
       /\ Claims' \subseteq Claims
       /\ (device'.status = "DISABLED" /\ live' \in {live, NoTerminal}) \/ ClaimActs]_vars

\* Stored punches stay, were recorded by a terminal, and passed validation.
Ledger == INSTANCE PunchLedger WITH
            recorded <- recorded, stored <- events

LedgerSpec == Ledger!Spec

\* Polling is the safety net: a valid punch in the memory of a device that
\* stays enabled is stored, however the push, the network and the instances
\* failed meanwhile, unless somebody wipes it or points the row elsewhere.
Pending(t, p) ==
  /\ \E i \in 1..Len(memory[t]) : memory[t][i] = p
  /\ p \notin Rejected
  /\ device.terminal = t
  /\ wanted

EventuallyStored ==
  \A t \in Terminals, p \in Punches : Pending(t, p) ~> p \in events \/ ~Pending(t, p)

=============================================================================
