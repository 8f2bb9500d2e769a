---------------------------- MODULE DeviceAdapters ----------------------------
(***************************************************************************)
(* The adapters of one terminal (device-connection.manager.ts) and the     *)
(* handlers that ask for them: syncs, probes, edits and the removal of the *)
(* row.  Asking for the adapter of a row that has changed since replaces   *)
(* the adapter, and whoever holds the old one goes on using it.  The       *)
(* terminal is the simulated one, with its faults (mock-device-simulator,  *)
(* mock-device.adapter).                                                   *)
(***************************************************************************)
EXTENDS Integers, Sequences, FiniteSets

CONSTANTS
    Handlers,
    Terminals,   \* addresses a simulated terminal answers at
    None,
    Attempts,    \* RETRY_ATTEMPTS
    MaxOps,      \* bound on handlers begun
    MaxFaults,   \* bound on faults injected
    Overlaps     \* a probe, an edit or a removal may begin while another goes on

VARIABLES
    row,        \* terminal, version (updatedAt), enabled (status is not DISABLED), deleted
    manager,    \* built: every adapter built, with its version, terminal, connected and
                \* listeners (live ones); cached: the one in the table, or None;
                \* sub: the one whose unsubscribe function is kept, or None
    terminals,  \* of each: online, faults (pendingFaults), dropAfter
    jobs,       \* what each handler is at
    ops, faults

vars == <<row, manager, terminals, jobs, ops, faults>>

Idle == [op |-> "idle"]

Job(h, job) == jobs' = [jobs EXCEPT ![h] = job]

Syncs == {h \in Handlers : jobs[h].op = "sync"}
Managing == {h \in Handlers : jobs[h].op \in {"probe", "edit", "remove", "start"}}

-----------------------------------------------------------------------------
(* The simulated terminal.                                                 *)

Working == [online |-> TRUE, faults |-> <<>>, dropAfter |-> None]

(* request: what becomes of one, and of the terminal.                      *)
Outcome(t) ==
    LET s == terminals[t] IN
    IF ~s.online THEN "CONNECTION"
    ELSE IF s.faults # <<>> THEN Head(s.faults)
    ELSE IF s.dropAfter = 0 THEN "CONNECTION"
    ELSE "ok"

AfterRequest(t) ==
    LET s == terminals[t] IN
    IF ~s.online THEN s
    ELSE IF s.faults # <<>> THEN [s EXCEPT !.faults = Tail(@)]
    ELSE IF s.dropAfter = None THEN s
    ELSE IF s.dropAfter = 0 THEN [s EXCEPT !.online = FALSE, !.dropAfter = None]
    ELSE [s EXCEPT !.dropAfter = @ - 1]

\* setOnline, failNext, dropConnectionAfter, clearFaults.
SetTerminal(t) ==
    /\ faults < MaxFaults
    /\ faults' = faults + 1
    /\ \E s \in {[terminals[t] EXCEPT !.online = ~@], Working}
             \cup {[terminals[t] EXCEPT !.faults = Append(@, kind)] :
                      kind \in {"TIMEOUT", "PROTOCOL", "CONNECTION"}}
             \cup {[terminals[t] EXCEPT !.dropAfter = n] : n \in 0..1} :
          terminals' = [terminals EXCEPT ![t] = s]
    /\ UNCHANGED <<row, manager, jobs, ops>>

-----------------------------------------------------------------------------
(* The adapters.                                                           *)

\* stopRealtime.
Stopped(m) ==
    [m EXCEPT !.sub = None,
              !.built = IF m.sub = None THEN @ ELSE [m.built EXCEPT ![m.sub].listeners = @ - 1]]

Disconnected(m) ==
    [m EXCEPT !.cached = None,
              !.built = IF m.cached = None THEN @ ELSE [m.built EXCEPT ![m.cached].connected = FALSE]]

\* Mutant: the subscription is not ended with its adapter.
ReleasedOnly(m) == Disconnected([m EXCEPT !.sub = None])

\* release.
Released(m) == Disconnected(Stopped(m))

(* adapterFor: the cached one if the row is the version it was built for.  *)
IsCurrent(m, r) == m.cached # None /\ m.built[m.cached].version = r.version

Built(r) == [version |-> r.version, terminal |-> r.terminal, connected |-> FALSE, listeners |-> 0]

AdapterFor(m, r) ==
    IF IsCurrent(m, r) THEN m
    ELSE [(IF m.cached = None THEN m ELSE Released(m)) EXCEPT
              !.built = Append(@, Built(r)), !.cached = Len(m.built) + 1]

\* The listener is added, and its removal kept in the place of any other.
Subscribed(m, a) ==
    [m EXCEPT !.built[a].listeners = @ + 1, !.sub = a]

Connected(m, a, connected) == [m EXCEPT !.built[a].connected = connected]

-----------------------------------------------------------------------------
Init ==
    /\ \E t \in Terminals : row = [terminal |-> t, version |-> 1, enabled |-> TRUE, deleted |-> FALSE]
    /\ manager = [built |-> <<>>, cached |-> None, sub |-> None]
    /\ terminals = [t \in Terminals |-> Working]
    /\ jobs = [h \in Handlers |-> Idle]
    /\ ops = 0 /\ faults = 0

Begin(h) == jobs[h] = Idle /\ ops < MaxOps /\ ops' = ops + 1

Alone == Overlaps \/ Managing = {}

\* An update of the row; its updatedAt is a new one.
Updated(r) == [r EXCEPT !.version = row.version + 1]

(* sync and testConnection read the row, and refuse a disabled one.        *)
BeginSync(h) ==
    /\ Begin(h) /\ ~row.deleted /\ row.enabled
    /\ Job(h, [op |-> "sync", at |-> "lock", row |-> row])
    /\ UNCHANGED <<row, manager, terminals, faults>>

BeginProbe(h) ==
    /\ Begin(h) /\ Alone /\ ~row.deleted /\ row.enabled
    /\ Job(h, [op |-> "probe", at |-> "adapt", row |-> row])
    /\ UNCHANGED <<row, manager, terminals, faults>>

\* acquireLock and setStatus(SYNCING), or 409.
Lock(h) ==
    /\ jobs[h].op = "sync" /\ jobs[h].at = "lock"
    /\ IF row.deleted \/ \E g \in Syncs : jobs[g].at # "lock"
       THEN Job(h, Idle) /\ UNCHANGED row
       ELSE /\ row' = Updated([row EXCEPT !.enabled = TRUE])
            /\ Job(h, [jobs[h] EXCEPT !.at = "adapt"])
    /\ UNCHANGED <<manager, terminals, ops, faults>>

Adapt(h) ==
    /\ jobs[h].op \in {"sync", "probe"} /\ jobs[h].at = "adapt"
    /\ manager' = AdapterFor(manager, jobs[h].row)
    /\ Job(h, [op |-> jobs[h].op, at |-> "begin", adapter |-> manager'.cached, attempt |-> 1])
    /\ UNCHANGED <<row, terminals, ops, faults>>

(* withRetry: a lost connection and a timeout are tried again by a sync; a *)
(* probe asks once.                                                        *)
AfterFailure(job, retryable) ==
    IF retryable /\ job.op = "sync" /\ job.attempt < Attempts
    THEN [job EXCEPT !.at = "begin", !.attempt = @ + 1]
    ELSE [op |-> job.op, at |-> "settle", ok |-> FALSE]

\* A sync also downloads, unless its adapter was disconnected meanwhile.
AfterAnswer(job) ==
    CASE job.at = "connect" -> [job EXCEPT !.at = "info"]
      [] job.at = "info" /\ job.op = "sync" ->
            IF manager.built[job.adapter].connected THEN [job EXCEPT !.at = "read"]
            ELSE AfterFailure(job, TRUE)
      [] OTHER -> [op |-> job.op, at |-> "settle", ok |-> TRUE]

BeginAttempt(h) ==
    /\ jobs[h].op \in {"sync", "probe"} /\ jobs[h].at = "begin"
    /\ Job(h, [jobs[h] EXCEPT !.at = IF manager.built[jobs[h].adapter].connected
                                      THEN "info" ELSE "connect"])
    /\ UNCHANGED <<row, manager, terminals, ops, faults>>

(* connect, getDeviceInfo, sync: each one a request to the terminal the    *)
(* adapter was built for.                                                  *)
Call(h) ==
    LET job == jobs[h]
        a == job.adapter
        t == manager.built[a].terminal
    IN
    /\ job.op \in {"sync", "probe"} /\ job.at \in {"connect", "info", "read"}
    /\ terminals' = [terminals EXCEPT ![t] = AfterRequest(t)]
    /\ manager' = CASE Outcome(t) = "ok" /\ job.at = "connect" -> Connected(manager, a, TRUE)
                     [] Outcome(t) = "CONNECTION" -> Connected(manager, a, FALSE)
                     [] OTHER -> manager
    /\ Job(h, IF Outcome(t) = "ok" THEN AfterAnswer(job)
              ELSE AfterFailure(job, Outcome(t) # "PROTOCOL"))
    /\ UNCHANGED <<row, ops, faults>>

\* setStatus with the outcome; a terminal that answered a probe is listened to.
Settle(h) ==
    /\ jobs[h].op \in {"sync", "probe"} /\ jobs[h].at = "settle"
    /\ row' = Updated([row EXCEPT !.enabled = TRUE])
    /\ Job(h, IF jobs[h].op = "probe" /\ jobs[h].ok
              THEN [op |-> "start", at |-> "stop", row |-> row'] ELSE Idle)
    /\ UNCHANGED <<manager, terminals, ops, faults>>

\* onApplicationBootstrap and create: the row as it is.
BeginStart(h) ==
    /\ Begin(h) /\ Alone /\ ~row.deleted /\ row.enabled
    /\ Job(h, [op |-> "start", at |-> "stop", row |-> row])
    /\ UNCHANGED <<row, manager, terminals, faults>>

(* startRealtime: what was there ends; the adapter of the row is connected *)
(* unless it is, and listened to.                                          *)
StartRealtime(h) ==
    LET r == jobs[h].row
        m == AdapterFor(Stopped(manager), r)
    IN
    /\ jobs[h].op = "start" /\ jobs[h].at = "stop"
    /\ IF r.deleted \/ ~r.enabled
       THEN manager' = Stopped(manager) /\ Job(h, Idle)
       ELSE IF m.built[m.cached].connected
       THEN manager' = Subscribed(m, m.cached) /\ Job(h, Idle)
       ELSE manager' = m /\ Job(h, [op |-> "start", at |-> "connect", adapter |-> m.cached])
    /\ UNCHANGED <<row, terminals, ops, faults>>

Listen(h) ==
    LET a == jobs[h].adapter
        t == manager.built[a].terminal
    IN
    /\ jobs[h].op = "start" /\ jobs[h].at = "connect"
    /\ terminals' = [terminals EXCEPT ![t] = AfterRequest(t)]
    /\ manager' = CASE Outcome(t) = "ok" -> Subscribed(Connected(manager, a, TRUE), a)
                     [] Outcome(t) = "CONNECTION" -> Connected(manager, a, FALSE)
                     [] OTHER -> manager
    /\ Job(h, Idle)
    /\ UNCHANGED <<row, ops, faults>>

(* update and remove: the row is committed, then the adapter released.     *)
Change(h) ==
    /\ Begin(h) /\ Alone /\ ~row.deleted
    /\ \/ \E t \in Terminals, enabled \in BOOLEAN :
             /\ row' = Updated([row EXCEPT !.terminal = t, !.enabled = enabled])
             /\ Job(h, [op |-> "edit", row |-> row'])
       \/ /\ row' = Updated([row EXCEPT !.enabled = FALSE, !.deleted = TRUE])
          /\ Job(h, [op |-> "remove"])
    /\ UNCHANGED <<manager, terminals, faults>>

ReleaseChanged(h) ==
    /\ jobs[h].op \in {"edit", "remove"}
    /\ manager' = Released(manager)
    /\ Job(h, IF jobs[h].op = "remove" THEN Idle
              ELSE [op |-> "start", at |-> "stop", row |-> jobs[h].row])
    /\ UNCHANGED <<row, terminals, ops, faults>>

Handle(h) ==
    \/ BeginSync(h) \/ BeginProbe(h) \/ Lock(h) \/ Adapt(h) \/ BeginAttempt(h) \/ Call(h)
    \/ Settle(h) \/ BeginStart(h) \/ StartRealtime(h) \/ Listen(h)
    \/ Change(h) \/ ReleaseChanged(h)

Next == (\E h \in Handlers : Handle(h)) \/ \E t \in Terminals : SetTerminal(t)

Spec == Init /\ [][Next]_vars

-----------------------------------------------------------------------------
(* Properties.                                                             *)

\* Adapters through which a punch reaches bufferRealtime (onAttendanceLog).
Pushing ==
    {a \in DOMAIN manager.built :
        /\ manager.built[a].connected /\ manager.built[a].listeners > 0
        /\ terminals[manager.built[a].terminal].online}

(* Once no change of the row waits for its release, a live punch is pushed *)
(* once, and only by the terminal the row names, while the row is there    *)
(* and enabled: however syncs replaced adapters meanwhile, none that was   *)
(* listened to is forgotten (release, stopRealtime).                       *)
PushesAreWanted ==
    (\A h \in Handlers : jobs[h].op \notin {"edit", "remove"}) =>
        \A a \in Pushing :
            /\ Pushing = {a} /\ manager.built[a].listeners = 1
            /\ manager.built[a].terminal = row.terminal /\ row.enabled /\ ~row.deleted
=============================================================================
