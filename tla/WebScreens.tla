------------------------------ MODULE WebScreens ------------------------------
(***************************************************************************)
(* What one tab of the web client shows: the queries of its screens, which *)
(* keep what the server answered (TanStack Query), the saves its forms     *)
(* send and the queries each save has asked again, and the pushes of the   *)
(* server and what they refresh (realtime.ts).                             *)
(*                                                                         *)
(* The queries are independent of each other, so a behaviour watches one.  *)
(* What the server keeps is a set of topics; a change is a number, and an  *)
(* answer is the set of the changes it shows.  Names that a screen shows   *)
(* of something else are left out, but where the client refreshes them.    *)
(* Whatever other tabs save without a push is left out too.                *)
(***************************************************************************)
EXTENDS Naturals, Sequences, FiniteSets

CONSTANTS
    None,
    MaxChanges,     \* bound on saves and punches
    QuickReturns,   \* a screen may be opened again before its data is old (staleTime)
    SlowLoads       \* an answer that no save asks again may be overtaken by one

VARIABLES
    watched,    \* the query
    changes,    \* changes of what it reads: who made each
    begun,      \* saves and punches begun
    save,       \* the save this tab sent: its kind and how far it is, or None
    started,    \* kinds of saves whose days are still being computed in the background
    punch,      \* the batch of punches the server handles: how far it is, or None
    notice,     \* the notification the server sends: how far it is, or None
    pushes,     \* events on their way to this tab
    entry       \* of the query: data (or None), open, invalid, fresh, fetch and
                \* the answer on its way

vars == <<watched, changes, begun, save, started, punch, notice, pushes, entry>>

server == <<changes, save, started, punch, notice>>

-----------------------------------------------------------------------------
(* What each screen reads, and the keys its query is invalidated by.       *)

Days == {"records", "overtime"}
Calendar == {"assignments", "schedules", "shifts", "holidays"}

DashboardReads ==
    {"staff", "records", "leaves", "approved", "punches", "overtime", "devices", "policy"} \cup Calendar
PresenceReads == {"staff", "punches", "approved", "policy"} \cup Calendar
BalanceReads == {"terms", "contracts", "leaves", "adjustments", "staff",
                 "assignments", "schedules", "holidays"}
EmployeesReads == {"staff", "terms", "names", "contractNames", "links"}

Reads ==
    [dashboard |-> DashboardReads, presence |-> PresenceReads,
     events |-> {"punches"}, records |-> {"records"}, report |-> Days \cup {"staff"},
     employees |-> EmployeesReads, catalog |-> {"catalog", "staff"},
     contracts |-> {"contracts", "unusedContracts", "terms"}, balance |-> BalanceReads,
     users |-> {"users", "links"}, leave |-> {"leaves"}, overtime |-> {"overtime"},
     history |-> {"assignments"}, schedules |-> {"schedules", "shifts"}, shifts |-> {"shifts"},
     holidays |-> {"holidays"}, settings |-> {"policy"}, features |-> {"policy"},
     devices |-> {"devices"}, logs |-> {"logs"}, bell |-> {"notices"}, list |-> {"notices"}]

Queries == DOMAIN Reads

Attendance == {"presence", "events", "records"}
Notifications == {"bell", "list"}

-----------------------------------------------------------------------------
(* The saves.  Each changes something, then days that are computed anew,   *)
(* before it is answered or (later) in the background; then the client has *)
(* the queries it names asked again.                                       *)

Save(first, days, pushed, refreshed) ==
    [first |-> first, days |-> days, later |-> {}, pushed |-> pushed, refreshed |-> refreshed]

SaveEmployee ==
    Save({"staff", "terms", "assignments"}, {"punches"} \cup Days, <<"record">>,
         {"employees", "balance", "catalog", "contracts", "history", "dashboard"})
PickContract == Save({"terms"}, {}, <<>>, {"balance", "employees"})
Adjust == Save({"adjustments"}, {}, <<>>, {"balance"})
SaveCatalog == Save({"catalog", "names"}, {}, <<>>, {"catalog", "employees"})
RemoveCatalog == Save({"catalog"}, {}, <<>>, {"catalog"})
SaveContract == Save({"contracts", "contractNames"}, {}, <<>>, {"contracts", "balance"})
RemoveContract == Save({"unusedContracts"}, {}, <<>>, {"contracts"})

ReviewLeave == Save({"leaves", "approved"}, Days, <<>>, {"leave", "dashboard", "balance"})
RequestLeave == Save({"leaves"}, {}, <<>>, {"leave", "balance"})
ReviewOvertime == Save({"overtime"}, {}, <<>>, {"overtime"})

ChangeHoliday ==
    [Save({"holidays"}, {}, <<>>, {"holidays", "balance"} \cup Attendance) EXCEPT !.later = Days]
SaveShift == Save({"shifts"}, {}, <<>>, {"shifts", "schedules"})
SaveSchedule == Save({"schedules"}, {}, <<>>, {"schedules"})

\* Assigning a schedule, or undoing the latest.
ScheduleChanged == Save({"assignments"}, Days, <<>>, {"history", "balance", "dashboard"} \cup Attendance)
SetUp ==
    Save({"shifts", "schedules", "policy", "assignments"}, Days, <<>>,
         {"shifts", "schedules", "settings", "features", "employees", "dashboard", "report"} \cup Attendance)

SavePolicy == Save({"policy"}, {}, <<>>, {"features"})
Recompute == Save({}, Days, <<>>, {"dashboard", "report"} \cup Attendance)

SaveAccount == Save({"users", "links"}, {}, <<>>, {"users", "employees"})
ToggleAccount == Save({"users", "links"}, {}, <<>>, {"users"})

CreateDevice == Save({"devices"}, {}, <<>>, {"devices"})
EditDevice == Save({"devices"}, {}, <<"status">>, {"devices"})
TestDevice == Save({"devices"}, {}, <<"status">>, {"devices", "logs", "dashboard"})
SyncDevice == Save({"devices", "logs"}, {}, <<"status", "sync">>, {"devices", "logs", "dashboard"})

ManualPunch == Save({"punches"}, Days, <<"record", "event">>, Attendance)
VoidPunch == Save({"punches"}, Days, <<"record">>, Attendance)

ReadNotices == Save({"notices"}, {}, <<>>, Notifications)

Saves ==
    [saveEmployee |-> SaveEmployee, pickContract |-> PickContract, adjust |-> Adjust,
     saveCatalog |-> SaveCatalog, removeCatalog |-> RemoveCatalog,
     saveContract |-> SaveContract, removeContract |-> RemoveContract,
     reviewLeave |-> ReviewLeave, requestLeave |-> RequestLeave, reviewOvertime |-> ReviewOvertime,
     changeHoliday |-> ChangeHoliday, saveShift |-> SaveShift, saveSchedule |-> SaveSchedule,
     scheduleChanged |-> ScheduleChanged, setUp |-> SetUp,
     savePolicy |-> SavePolicy, recompute |-> Recompute,
     saveAccount |-> SaveAccount, toggleAccount |-> ToggleAccount,
     createDevice |-> CreateDevice, editDevice |-> EditDevice, testDevice |-> TestDevice,
     syncDevice |-> SyncDevice, manualPunch |-> ManualPunch, voidPunch |-> VoidPunch,
     readNotices |-> ReadNotices]

-----------------------------------------------------------------------------
(* The query.                                                              *)

Asked(e) == [e EXCEPT !.fetch = "asked", !.answer = {}]

(* invalidateQueries: a query on screen is asked again, instead of a       *)
(* request under way unless that one is its first.                         *)
Invalidated(e) ==
    LET marked == [e EXCEPT !.invalid = TRUE] IN
    IF e.open /\ (e.fetch = "none" \/ e.data # None) THEN Asked(marked) ELSE marked

Refreshed(e, queries) == IF watched \in queries THEN Invalidated(e) ELSE e

\* setQueryData: what is set is no longer marked, and new unless its age is given.
Set(e, shown, fresh) == [e EXCEPT !.data = @ \cup shown, !.invalid = FALSE, !.fresh = fresh]

Shown(by) == {i \in DOMAIN changes : changes[i] = by}

Open ==
    /\ ~entry.open
    /\ QuickReturns \/ ~entry.fresh
    /\ entry' = LET e == [entry EXCEPT !.open = TRUE] IN
                IF e.fetch = "none" /\ (e.data = None \/ e.invalid \/ ~e.fresh) THEN Asked(e) ELSE e
    /\ UNCHANGED <<watched, begun, pushes, server>>

Close ==
    /\ entry.open /\ (SlowLoads \/ entry.fetch # "answered")
    /\ entry' = [entry EXCEPT !.open = FALSE]
    /\ UNCHANGED <<watched, begun, pushes, server>>

\* staleTime.
Age ==
    /\ entry.fresh
    /\ entry' = [entry EXCEPT !.fresh = FALSE]
    /\ UNCHANGED <<watched, begun, pushes, server>>

\* refetchInterval.
Poll ==
    /\ watched \in {"dashboard", "presence"} /\ entry.open /\ entry.fetch = "none"
    /\ entry' = Asked(entry)
    /\ UNCHANGED <<watched, begun, pushes, server>>

Arrived(e, answer) ==
    [e EXCEPT !.data = answer, !.invalid = FALSE, !.fresh = TRUE, !.fetch = "none", !.answer = {}]

\* No refresh asks a first load, or the query of a closed screen, again.
NotAskedAgain == entry.data = None \/ ~entry.open \/ watched = "settings"

Answer ==
    /\ entry.fetch = "asked"
    /\ entry' = IF ~SlowLoads /\ NotAskedAgain
                THEN Arrived(entry, DOMAIN changes)
                ELSE [entry EXCEPT !.fetch = "answered", !.answer = DOMAIN changes]
    /\ UNCHANGED <<watched, begun, pushes, server>>

Arrive ==
    /\ entry.fetch = "answered"
    /\ entry' = Arrived(entry, entry.answer)
    /\ UNCHANGED <<watched, begun, pushes, server>>

-----------------------------------------------------------------------------
(* The server.                                                             *)

\* A commit, if the query reads any of what it changes.
Changed(topics, by) ==
    changes' = IF topics \cap Reads[watched] = {} THEN changes ELSE Append(changes, by)

\* The rest is nothing to the query that is watched.
Concerns(s) ==
    (s.first \cup s.days \cup s.later) \cap Reads[watched] # {} \/ watched \in s.refreshed

\* The form of the policy is shown with what it edits.
BeginSave(kind) ==
    /\ save = None /\ begun < MaxChanges /\ Concerns(Saves[kind])
    /\ kind = "savePolicy" /\ watched = "settings" => entry.data # None
    /\ begun' = begun + 1
    /\ Changed(Saves[kind].first, kind)
    /\ save' = [kind |-> kind, at |-> "days"]
    /\ UNCHANGED <<watched, started, punch, notice, pushes, entry>>

\* The days it computes anew, and what is pushed.
ComputeDays ==
    /\ save # None /\ save.at = "days"
    /\ LET s == Saves[save.kind] IN
          /\ Changed(s.days, save.kind)
          /\ pushes' = pushes \o s.pushed
          /\ started' = IF s.later = {} THEN started ELSE started \cup {save.kind}
    /\ save' = [save EXCEPT !.at = "answer"]
    /\ UNCHANGED <<watched, begun, punch, notice, entry>>

ComputeLater(kind) ==
    /\ kind \in started
    /\ Changed(Saves[kind].later, kind)
    /\ started' = started \ {kind}
    /\ UNCHANGED <<watched, begun, save, punch, notice, pushes, entry>>

(* onSuccess.  The policy that was saved is shown at once.                 *)
Answered ==
    /\ save # None /\ save.at = "answer"
    /\ entry' = LET e == IF save.kind = "savePolicy" /\ watched = "settings"
                         THEN Set(entry, Shown("savePolicy"), TRUE) ELSE entry
                IN Refreshed(e, Saves[save.kind].refreshed)
    /\ save' = None
    /\ UNCHANGED <<watched, changes, begun, started, punch, notice, pushes>>

\* Mutant: the punches are published before their days are computed.
PunchStepsHasty == <<"store", "event", "record">>

\* A batch from a terminal: stored, computed (and pushed), published.
PunchSteps == <<"store", "record", "event">>

Punched ==
    /\ punch = None /\ begun < MaxChanges
    /\ watched \in Attendance \/ Reads[watched] \cap ({"punches"} \cup Days) # {}
    /\ begun' = begun + 1 /\ punch' = 1
    /\ UNCHANGED <<watched, changes, save, started, notice, pushes, entry>>

PunchStep ==
    /\ punch # None
    /\ LET step == PunchSteps[punch] IN
          /\ CASE step = "store" -> Changed({"punches"}, "punch")
               [] step = "record" -> Changed(Days, "days")
               [] step = "event" -> UNCHANGED changes
          /\ pushes' = IF step = "store" THEN pushes ELSE Append(pushes, step)
    /\ punch' = IF punch = Len(PunchSteps) THEN None ELSE punch + 1
    /\ UNCHANGED <<watched, begun, save, started, notice, entry>>

\* A notification for the user of this tab: stored, then pushed.
Notify ==
    /\ notice = None /\ begun < MaxChanges /\ watched \in Notifications
    /\ begun' = begun + 1 /\ notice' = "push"
    /\ Changed({"notices"}, "notice")
    /\ UNCHANGED <<watched, save, started, punch, pushes, entry>>

PushNotice ==
    /\ notice = "push"
    /\ notice' = None /\ pushes' = Append(pushes, "notice")
    /\ UNCHANGED <<watched, changes, begun, save, started, punch, entry>>

-----------------------------------------------------------------------------
(* useRealtime.                                                            *)

(* The dashboard lists the punch at once and keeps its age; the totals and *)
(* the days, without which it does not show the change, it does not learn. *)
EventCreated(e) ==
    IF watched = "dashboard"
    THEN IF e.data = None THEN e ELSE Set(e, {}, e.fresh)
    ELSE Refreshed(e, Attendance)

OnPush(e, event) ==
    CASE event = "event" -> EventCreated(e)
      [] event = "record" -> Refreshed(e, {"dashboard"})
      [] event = "status" -> Refreshed(e, {"devices", "dashboard"})
      [] event = "sync" -> Refreshed(e, {"devices", "dashboard", "logs"})
      [] event = "notice" -> Refreshed(e, Notifications)

Deliver ==
    /\ pushes # <<>>
    /\ entry' = OnPush(entry, Head(pushes))
    /\ pushes' = Tail(pushes)
    /\ UNCHANGED <<watched, changes, begun, save, started, punch, notice>>

-----------------------------------------------------------------------------
Closed == [data |-> None, open |-> FALSE, invalid |-> FALSE, fresh |-> FALSE,
           fetch |-> "none", answer |-> {}]

Init ==
    /\ watched \in Queries
    /\ changes = <<>> /\ begun = 0
    /\ save = None /\ started = {} /\ punch = None /\ notice = None
    /\ pushes = <<>>
    /\ entry = Closed

Next ==
    \/ Open \/ Close \/ Age \/ Poll \/ Answer \/ Arrive
    \/ \E kind \in DOMAIN Saves : BeginSave(kind) \/ ComputeLater(kind)
    \/ ComputeDays \/ Answered
    \/ Punched \/ PunchStep \/ Notify \/ PushNotice \/ Deliver

Spec == Init /\ [][Next]_vars

-----------------------------------------------------------------------------
(* Properties.                                                             *)

\* Nothing is under way.
Quiet == save = None /\ started = {} /\ punch = None /\ notice = None
         /\ pushes = <<>> /\ entry.fetch = "none"

(* Changes the client lets a screen learn of only when it is asked again:  *)
(* of a save, the queries that neither the save nor a push refreshes, and  *)
(* the records of a holiday, which are refreshed before they are computed. *)
Overlooked ==
    [saveEmployee |-> {"events", "records", "presence", "overtime", "report"},
     pickContract |-> {"contracts"}, saveContract |-> {"employees"},
     reviewLeave |-> {"presence", "records", "overtime", "report"},
     requestLeave |-> {"dashboard"},
     reviewOvertime |-> {"dashboard", "report"},
     changeHoliday |-> {"records", "dashboard", "overtime", "report"},
     saveShift |-> {"dashboard", "presence"},
     saveSchedule |-> {"dashboard", "presence", "balance"},
     scheduleChanged |-> {"overtime", "report"},
     setUp |-> {"history", "balance", "overtime"},
     savePolicy |-> {"dashboard", "presence"},
     recompute |-> {"overtime"},
     toggleAccount |-> {"employees"},
     createDevice |-> {"dashboard"},
     manualPunch |-> {"overtime", "report"}, voidPunch |-> {"overtime", "report"},
     days |-> {"overtime", "report"}]

OverlooksIt(by) == by \in DOMAIN Overlooked /\ watched \in Overlooked[by]

(* When nothing is under way, a screen shows every change this tab made    *)
(* and every punch and notification the server pushed, but those that the  *)
(* client is known to overlook: each form refreshes what its save changes, *)
(* a refresh is not lost to an answer that was under way, and the server   *)
(* pushes only what has been stored (useRealtime, onSuccess).              *)
ScreensFollow ==
    Quiet /\ entry.open =>
        \A i \in DOMAIN changes : OverlooksIt(changes[i]) \/ i \in entry.data
===============================================================================
