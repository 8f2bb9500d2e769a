----------------------------- MODULE MCPlatform ------------------------------
(***************************************************************************)
(* Model-checking instance of what the server is built on: the policy it   *)
(* caches, with the form that sets it, and its dealings with terminals     *)
(* below and around DeviceSync, which are the adapters it is given, the    *)
(* downloads of two vendors, the packets of one, the digest session and    *)
(* the requests of the other, the times both report, and what people are   *)
(* told of outages.  The components share nothing, so a behaviour is about *)
(* one of them, chosen at the start.                                       *)
(***************************************************************************)
EXTENDS Integers, Sequences, FiniteSets, TLC

CONSTANTS
    None, Handlers,
    Rules, Values, Default, MaxUpdates, UpdateRaces,
    MaxSaves, Refetches, Returns,
    Chunk, Attempts, MaxPunches, MaxWipes, MaxFaults, MaxSyncs,
    Minors, PageSize, Lookback, Overlap, EndMargin, LastTime, MaxEvents, MaxResets,
    Crossings, HardResets,
    Devices, Retention, LastStamp, Overlaps, LongOutages,
    Terminals, MaxOps, MaxMishaps,
    Offerings, MaxCalls, MaxRenewals, Shares,
    Fleet, LargePage, SmallPage, MaxPages, MaxRecords, MaxTasks,
    Base, Payloads, MaxPackets, MaxLines,
    Zones, Days, FirstHour, LastHour, MaxReadings

VARIABLES
    focus,  \* which of them this behaviour is about
    stored, cache, loads, wanted, updates,
    memory, made, asked, wire, queue, attempt, link, cursor, got, used,
    clock, events, serial, numbered, resets, mark, search, fetched, missing,
    jobs, stamp, device, notices, told,
    row, manager, terminals, handling, ops, faults,
    challenge, count, terminal, requests, begun, renewals,
    recorder, adapter, task, report, saved, spent,
    lines, client, taken, left,
    hour, zone, punches,
    company, pages, chosen, saves

policy == <<stored, cache, loads, wanted, updates>>
zk == <<memory, made, asked, wire, queue, attempt, link, cursor, got, used>>
hik == <<clock, events, serial, numbered, resets, mark, search, fetched, missing>>
incidents == <<jobs, stamp, device, notices, told>>
adapters == <<row, manager, terminals, handling, ops, faults>>
digest == <<challenge, count, terminal, requests, begun, renewals>>
calls == <<recorder, adapter, task, report, saved, spent>>
frames == <<lines, client, taken, left>>
readings == <<hour, zone, punches>>
form == <<company, pages, chosen, saves>>
vars == <<focus, policy, zk, hik, incidents, adapters, digest, calls, frames, readings, form>>

P == INSTANCE PolicyCache WITH jobs <- loads, asked <- wanted
Z == INSTANCE ZkTerminal
H == INSTANCE HikvisionSearch WITH made <- numbered
I == INSTANCE DeviceIncidents WITH clock <- stamp, LastTime <- LastStamp
A == INSTANCE DeviceAdapters WITH jobs <- handling, MaxFaults <- MaxMishaps
D == INSTANCE DigestSession WITH calls <- requests, Callers <- Handlers
C == INSTANCE HikvisionCalls WITH terminal <- recorder, mark <- saved, PageSize <- LargePage
F == INSTANCE ZkFrames
R == INSTANCE DeviceReadings WITH memory <- punches, MaxRecords <- MaxReadings
W == INSTANCE PolicyForm WITH policy <- company, Tabs <- Handlers

\* What is none of the values it is told from: time stamps and status changes.
ASSUME NoneAssumption ==
    /\ Retention \in Nat /\ None \notin Nat /\ None \notin {"DEVICE_DOWN", "DEVICE_RECOVERED"}
    /\ None \notin [at : {"update", "lookup"}, device : Devices,
                    status : {"SYNCING", "ONLINE", "OFFLINE"},
                    before : Nat \cup {None}, seen : Nat \cup {None}]
    /\ None \notin [at : {"send"}, device : Devices, type : {"DEVICE_DOWN", "DEVICE_RECOVERED"}]

\* A packet holds some record.
ASSUME ChunkAssumption == Chunk \in Nat \ {0}

\* The kinds searched differ; and None is neither a cursor nor a search.
ASSUME SearchAssumption ==
    /\ PageSize \in Nat \ {0} /\ LastTime \in Nat \ {0}
    /\ Lookback \in Nat /\ Overlap \in Nat /\ EndMargin \in Nat
    /\ Len(Minors) \in Nat /\ DOMAIN Minors = 1..Len(Minors)
    /\ \A i, j \in DOMAIN Minors : Minors[i] = Minors[j] => i = j
    /\ None \notin [serial : Nat, time : Nat]
    /\ None \notin [from : Int, to : Int, kind : Nat, position : Nat, due : SUBSET Nat,
                    found : SUBSET [id : Nat, serial : Nat, time : Nat,
                                    minor : {Minors[i] : i \in DOMAIN Minors}]]

\* Dates follow one another without repeating, and hold whatever a clock shows.
ASSUME ReadingsAssumption ==
    /\ None \notin Int
    /\ Days \in Seq([year : 2000..2099, month : 1..12, day : 1..31])
    /\ \A i, j \in DOMAIN Days : Days[i] = Days[j] => i = j
    /\ Zones \subseteq [before : Int, after : Int, at : Int]
    /\ FirstHour \in Nat /\ LastHour \in Nat /\ FirstHour <= LastHour
    /\ \A z \in Zones : \A offset \in {z.before, z.after} :
              FirstHour + offset >= 0 /\ LastHour + offset < 24 * Len(Days)

\* A packet carries some bytes; half of the values of a byte have the upper bit.
ASSUME FrameAssumption ==
    /\ Base \in Nat \ {0} /\ Base % 2 = 0
    /\ Payloads \subseteq Seq(0..(Base - 1)) /\ <<>> \notin Payloads
    /\ None \notin Seq(0..(Base - 1))

\* The pages a terminal is asked for, and what is none of what is under way.
ASSUME CallsAssumption ==
    /\ SmallPage \in Nat \ {0} /\ LargePage \in Nat /\ SmallPage <= LargePage
    /\ MaxPages \in Nat \ {0} /\ Attempts \in Nat \ {0}
    /\ Fleet \subseteq [users : Nat, events : Seq(STRING), cap : Nat \ {0}, limit : Nat \cup {None},
                       counts : BOOLEAN, known : BOOLEAN]
    /\ Minors \in Seq(STRING)
    /\ \A i \in DOMAIN Minors :
          Minors[i] \notin {"users", "any", "deviceInfo", "time", "userCount", "eventCount"}
    /\ None \notin {"identity", "users", "download", "incremental", "events"}
    /\ None \notin [step : {"connect", "identity", "users", "download", "incremental", "events"},
                    attempt : Nat, cursor : Nat, request : Nat, position : Nat, pages : Nat,
                    found : SUBSET Nat, due : SUBSET Nat]

Foci == {"policy", "form", "zk", "hik", "incidents", "adapters", "digest", "calls", "frames",
         "readings"}

Init ==
    /\ focus \in Foci
    /\ P!Init /\ Z!Init /\ H!Init /\ I!Init /\ A!Init /\ D!Init /\ C!Init /\ F!Init
    /\ R!Init /\ W!Init
    \* One terminal is like the other.
    /\ row.terminal = CHOOSE t \in Terminals : TRUE
    \* What a behaviour is not about starts in one way.
    /\ focus # "digest" =>
          /\ terminal.offers = CHOOSE offers \in Offerings : TRUE
          /\ terminal.strict /\ terminal.known
    /\ focus # "calls" => recorder = CHOOSE t \in Fleet : TRUE
    /\ focus # "readings" => zone = CHOOSE z \in Zones : TRUE
    /\ focus # "form" => company = Default

Next ==
    \/ focus = "policy" /\ P!Next
       /\ UNCHANGED <<focus, zk, hik, incidents, adapters, digest, calls, frames, readings, form>>
    \/ focus = "zk" /\ Z!Next
       /\ UNCHANGED <<focus, policy, hik, incidents, adapters, digest, calls, frames, readings,
                      form>>
    \/ focus = "hik" /\ H!Next
       /\ UNCHANGED <<focus, policy, zk, incidents, adapters, digest, calls, frames, readings,
                      form>>
    \/ focus = "incidents" /\ I!Next
       /\ UNCHANGED <<focus, policy, zk, hik, adapters, digest, calls, frames, readings, form>>
    \/ focus = "adapters" /\ A!Next
       /\ UNCHANGED <<focus, policy, zk, hik, incidents, digest, calls, frames, readings, form>>
    \/ focus = "digest" /\ D!Next
       /\ UNCHANGED <<focus, policy, zk, hik, incidents, adapters, calls, frames, readings, form>>
    \/ focus = "calls" /\ C!Next
       /\ UNCHANGED <<focus, policy, zk, hik, incidents, adapters, digest, frames, readings, form>>
    \/ focus = "frames" /\ F!Next
       /\ UNCHANGED <<focus, policy, zk, hik, incidents, adapters, digest, calls, readings, form>>
    \/ focus = "readings" /\ R!Next
       /\ UNCHANGED <<focus, policy, zk, hik, incidents, adapters, digest, calls, frames, form>>
    \/ focus = "form" /\ W!Next
       /\ UNCHANGED <<focus, policy, zk, hik, incidents, adapters, digest, calls, frames, readings>>

Spec == Init /\ [][Next]_vars

Alike == Permutations(Handlers) \cup Permutations(Devices)

\* Every rule starts with the same value.
OneValue == CHOOSE f \in [Rules -> Values] : \A r, s \in Rules : f[r] = f[s]

TwoKinds == <<"face", "card">>

\* Digest of either kind, or no challenge that is answered.
Offers == {{"MD5"}, {"SHA-256", "MD5", "Basic"}, {"Basic", "other"}}

\* Terminals that hold some users and events: with or without the endpoints that count, that cut
\* pages at a cap or refuse them above a limit, one without small enough pages, and one whose
\* password is not the one configured.
Terminal(users, kinds, cap, limit, counts, known) ==
    [users |-> users, events |-> kinds, cap |-> cap, limit |-> limit, counts |-> counts,
     known |-> known]

SixSorts ==
    {Terminal(3, <<"face", "card", "other">>, 3, None, TRUE, TRUE),
     Terminal(4, <<"card", "face", "card">>, 2, None, FALSE, TRUE),
     Terminal(3, <<"face", "face">>, 3, 2, TRUE, TRUE),
     Terminal(1, <<"card">>, 3, 1, TRUE, TRUE),
     Terminal(4, <<>>, 1, None, FALSE, TRUE),
     Terminal(0, <<>>, 3, None, TRUE, FALSE)}

\* Changes of the clocks, west and east, at the turn of the year.
Changes ==
    {[before |-> b, after |-> b + d, at |-> 48] : b \in {-5, 0, 9}, d \in {-1, 1}}

TurnOfTheYear ==
    LET Date(y, m, d) == [year |-> y, month |-> m, day |-> d]
    IN  <<Date(2026, 12, 30), Date(2026, 12, 31), Date(2027, 1, 1), Date(2027, 1, 2)>>

FewBytes == {<<0, 1>>, <<1, 1, 1>>}

(* The properties of each, stated and explained in their modules:          *)
(* neither an update of the policy nor the form undoes an earlier one,     *)
NoSettingLost == P!NoSettingLost /\ W!NobodyUndone
(* a ZKTeco download passes over no record,                                *)
NothingPassedOver == Z!NothingPassedOver
(* a Hikvision search misses no event,                                     *)
NothingMissed == H!NothingMissed
(* an outage is announced once, and its end,                               *)
OutagesAreTold == I!OutagesAreTold
(* a live punch is pushed once, by the terminal of the row,                *)
PushesAreWanted == A!PushesAreWanted
(* only a wrong password is refused as one,                                *)
RefusedForCause == D!RefusedForCause
(* an operation on a Hikvision terminal returns all there was to return,   *)
TerminalIsRead == C!TerminalIsRead
(* packets are taken whole and as they were sent,                          *)
AnswersArrive == F!AnswersArrive
(* and the times terminals show are those of the punches.                  *)
ReadingsAreKept == R!ReadingsAreKept
=============================================================================
