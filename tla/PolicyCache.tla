----------------------------- MODULE PolicyCache -----------------------------
(***************************************************************************)
(* The attendance policy and its cache (settings.service.ts).  A load      *)
(* reads the row and caches it after an await; an update merges its patch  *)
(* into the policy it loaded, stores the whole of it, and drops the cache  *)
(* once the transaction is over.                                           *)
(***************************************************************************)
EXTENDS Naturals

CONSTANTS
    Handlers,
    Rules, Values,
    Default,       \* DEFAULT_ATTENDANCE_POLICY, one value for each rule
    None,
    MaxUpdates,    \* bound on updates
    UpdateRaces    \* a load or another update may overlap an update

VARIABLES
    stored,   \* the row POLICY_KEY
    cache,    \* cache, or None
    jobs,     \* what each handler is at
    asked,    \* history: the last value each rule was set to
    updates

vars == <<stored, cache, jobs, asked, updates>>

Idle == [op |-> "idle"]

Job(h, job) == jobs' = [jobs EXCEPT ![h] = job]

Busy(kind) == \E h \in Handlers : jobs[h].op = kind

Init ==
    /\ stored = Default /\ asked = Default
    /\ cache = None
    /\ jobs = [h \in Handlers |-> Idle]
    /\ updates = 0

(* load, by any computation that needs the policy: the row, unless cached. *)
Load(h) ==
    /\ jobs[h] = Idle /\ cache = None
    /\ UpdateRaces \/ ~Busy("update")
    /\ Job(h, [op |-> "load", seen |-> stored])
    /\ UNCHANGED <<stored, cache, asked, updates>>

KeepLoaded(h) ==
    /\ jobs[h].op = "load"
    /\ cache' = jobs[h].seen
    /\ Job(h, Idle)
    /\ UNCHANGED <<stored, asked, updates>>

(* updateAttendancePolicy: the policy it starts from, cached or read.      *)
BeginUpdate(h) ==
    /\ jobs[h] = Idle /\ updates < MaxUpdates
    /\ UpdateRaces \/ \A g \in Handlers : jobs[g] = Idle
    /\ \E r \in Rules, v \in Values :
          Job(h, [op |-> "update", at |-> IF cache = None THEN "read" ELSE "merge", rule |-> r,
                  value |-> v, current |-> IF cache = None THEN stored ELSE cache])
    /\ updates' = updates + 1
    /\ UNCHANGED <<stored, cache, asked>>

KeepRead(h) ==
    /\ jobs[h].op = "update" /\ jobs[h].at = "read"
    /\ cache' = jobs[h].current
    /\ Job(h, [jobs[h] EXCEPT !.at = "merge"])
    /\ UNCHANGED <<stored, asked, updates>>

Store(h) ==
    /\ jobs[h].op = "update" /\ jobs[h].at = "merge"
    /\ stored' = [jobs[h].current EXCEPT ![jobs[h].rule] = jobs[h].value]
    /\ asked' = [asked EXCEPT ![jobs[h].rule] = jobs[h].value]
    /\ Job(h, [op |-> "update", at |-> "forget"])
    /\ UNCHANGED <<cache, updates>>

\* Mutant: the cache is left to expire.
ForgetNothing(h) ==
    /\ jobs[h].op = "update" /\ jobs[h].at = "forget"
    /\ Job(h, Idle)
    /\ UNCHANGED <<stored, cache, asked, updates>>

Forget(h) ==
    /\ jobs[h].op = "update" /\ jobs[h].at = "forget"
    /\ cache' = None
    /\ Job(h, Idle)
    /\ UNCHANGED <<stored, asked, updates>>

\* CACHE_TTL_MS has passed.
Expire ==
    /\ cache # None
    /\ cache' = None
    /\ UNCHANGED <<stored, jobs, asked, updates>>

Handle(h) == Load(h) \/ KeepLoaded(h) \/ BeginUpdate(h) \/ KeepRead(h) \/ Store(h) \/ Forget(h)

Next == (\E h \in Handlers : Handle(h)) \/ Expire

Spec == Init /\ [][Next]_vars

(* Every rule has the last value it was set to: an update stores the whole *)
(* policy, and does not put back what an earlier one changed.              *)
NoSettingLost == stored = asked
=============================================================================
