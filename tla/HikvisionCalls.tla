---------------------------- MODULE HikvisionCalls ----------------------------
(***************************************************************************)
(* What is asked of a Hikvision terminal, request by request               *)
(* (hikvision.adapter.ts, isapi-client.ts): the synchronizations and       *)
(* connection tests of the platform, and the diagnostic of device:probe    *)
(* (probe.ts), which goes through every operation and reports each.  The   *)
(* terminal is fake-device.ts: its lists come in pages, which it cuts at   *)
(* its cap or refuses above its limit, and a request may be lost or        *)
(* answered with an error.  Events have serial numbers and lie inside the  *)
(* window asked for (HikvisionSearch has clocks and windows, DigestSession *)
(* the authentication of each request); the drift of the clock and the     *)
(* dates of punches, which only add warnings, are left out.                *)
(***************************************************************************)
EXTENDS Integers, Sequences, FiniteSets

CONSTANTS
    None,
    Minors,       \* the kinds of event that are punches, in the order they are searched
    PageSize,     \* DEFAULT_PAGE_SIZE
    SmallPage,    \* SMALL_PAGE_SIZE
    MaxPages,     \* MAX_PAGES
    Attempts,     \* RETRY_ATTEMPTS
    Fleet,        \* terminals there may be
    MaxFaults,    \* bound on requests lost or answered with an error
    MaxRecords,   \* bound on events recorded meanwhile
    MaxTasks      \* bound on tasks

VARIABLES
    terminal,  \* users, events (their kinds, by serial number), cap, limit (or None), counts
               \* (it has the endpoints that count), known (the password is right)
    adapter,   \* connected, pageSize
    task,      \* what is under way, or None
    report,    \* of it, or of the last one: by whom; of each operation that has ended, its step,
               \* status, what it had to return and what it did; and how many requests were
               \* lost, answered with an error and refused
    mark,      \* the cursor the platform has saved: a serial number
    spent      \* faults, records and tasks so far

vars == <<terminal, adapter, task, report, mark, spent>>

NewAdapter == [connected |-> FALSE, pageSize |-> PageSize]
NewReport(by) == [by |-> by, entries |-> <<>>, lost |-> 0, garbled |-> 0, refused |-> 0]

Init ==
    /\ terminal \in Fleet
    /\ adapter = NewAdapter
    /\ task = None /\ report = NewReport("test") /\ mark = 0
    /\ spent = [faults |-> 0, records |-> 0, tasks |-> 0]

-----------------------------------------------------------------------------
(* The terminal.                                                           *)

Serials == DOMAIN terminal.events

\* How many numbers of a set come before one, and the set as a sequence.
Below(n, numbers) == Cardinality({m \in numbers : m < n})
InOrder(numbers) ==
    [i \in 1..Cardinality(numbers) |-> CHOOSE n \in numbers : Below(n, numbers) = i - 1]

\* What a search has to list, in order.
Wanted(request) ==
    IF request = "users" THEN 1..terminal.users
    ELSE {n \in Serials : request \in {"any", terminal.events[n]}}

Listed(request) == InOrder(Wanted(request))

\* rejects: a page above its limit.
TooLarge == terminal.limit # None /\ adapter.pageSize > terminal.limit

Least(a, b) == IF a < b THEN a ELSE b

(* page, from where the client is.                                         *)
PageAt(request, position) ==
    LET listed == Listed(request)
        last == Least(position + Least(adapter.pageSize, terminal.cap), Len(listed))
    IN  [items |-> SubSeq(listed, position + 1, last), more |-> last < Len(listed)]

Record ==
    /\ spent.records < MaxRecords
    /\ \E i \in DOMAIN Minors : terminal' = [terminal EXCEPT !.events = Append(@, Minors[i])]
    /\ spent' = [spent EXCEPT !.records = @ + 1]
    /\ UNCHANGED <<adapter, task, report, mark>>

-----------------------------------------------------------------------------
(* The operations of the adapter, as the requests they make.               *)

Downloads == {"download", "incremental"}

Plan(step) ==
    CASE step = "connect" -> <<"deviceInfo">>
      [] step = "identity" -> <<"deviceInfo", "time", "userCount", "eventCount">>
      [] step = "users" -> <<"users">>
      [] step \in Downloads -> <<"time">> \o Minors
      [] step = "events" -> <<"any">>

\* optionalCount: an error counts as none.
Optional == {"userCount", "eventCount"}

Kinds == {Minors[i] : i \in DOMAIN Minors}
Searches == {"users", "any"} \cup Kinds

Request == Plan(task.step)[task.request]

\* selectNew, for numbered events.
Due(step, cursor) ==
    CASE step = "users" -> 1..terminal.users
      [] step = "events" -> Serials
      [] step \in Downloads ->
            {n \in Serials : n > cursor /\ terminal.events[n] \in Kinds}
      [] OTHER -> {}

At(step, attempt, cursor) ==
    [step |-> step, attempt |-> attempt, cursor |-> cursor,
     request |-> 1, position |-> 0, pages |-> 0, found |-> {}, due |-> Due(step, cursor)]

Begin(by) ==
    /\ task = None /\ spent.tasks < MaxTasks
    /\ \E fresh \in BOOLEAN :
          /\ by = "probe" => fresh
          /\ adapter' = IF fresh THEN NewAdapter ELSE adapter
    /\ task' = At("connect", 1, IF by = "sync" THEN mark ELSE 0)
    /\ report' = NewReport(by)
    /\ spent' = [spent EXCEPT !.tasks = @ + 1]
    /\ UNCHANGED <<terminal, mark>>

-----------------------------------------------------------------------------
(* How an operation ends, and what follows it.                             *)

Entry(step, status) == [step |-> step, status |-> status, due |-> {}, got |-> {}]

(* What of an operation's result is new.                                   *)
Got(found) ==
    IF task.step \in Downloads THEN {n \in found : n > task.cursor} ELSE found

Status(got) ==
    CASE task.step \in {"users", "download"} -> IF got = {} THEN "warn" ELSE "ok"
      [] task.step = "incremental" -> IF got = {} THEN "ok" ELSE "warn"
      [] task.step = "events" ->
            IF got # {} /\ \A n \in got : terminal.events[n] \in Kinds THEN "ok" ELSE "warn"
      [] OTHER -> "ok"

\* advance, after a download.
Advanced(got) ==
    IF task.step \notin Downloads \/ got = {} THEN task.cursor
    ELSE CHOOSE n \in got : \A k \in got : k <= n

Steps == <<"connect", "identity", "clock", "users", "download", "incremental", "events">>

\* skipRest.
Skipped(entries) ==
    LET rest == InOrder({k \in DOMAIN Steps : \A i \in DOMAIN entries : entries[i].step # Steps[k]})
    IN  [i \in DOMAIN rest |-> Entry(Steps[rest[i]], "skipped")]

(* probeDevice: the step after this one.                                   *)
ProbeNext == [connect |-> "identity", identity |-> "users", users |-> "download",
              download |-> "incremental", incremental |-> "events", events |-> None]

(* sync and testConnection.                                                *)
PlatformNext ==
    [connect |-> "identity", identity |-> IF report.by = "sync" THEN "incremental" ELSE None,
     incremental |-> None]

\* identity tells the clock as well.
Noted(entry) ==
    report.entries \o
    (IF report.by = "probe" /\ entry.step = "identity"
     THEN <<Entry("clock", IF entry.status = "ok" THEN "ok" ELSE "skipped"), entry>>
     ELSE <<entry>>)

\* A probe skips what is left, and disconnects.
End(entries, kept, still) ==
    /\ task' = None
    /\ report' = [kept EXCEPT !.entries =
                     IF report.by = "probe" THEN entries \o Skipped(entries) ELSE entries]
    /\ adapter' = [still EXCEPT !.connected = @ /\ report.by # "probe"]

GoOn(next, entries, cursor, kept, still) ==
    IF next = None THEN End(entries, kept, still)
    ELSE /\ task' = At(next, task.attempt, cursor)
         /\ report' = [kept EXCEPT !.entries = entries]
         /\ adapter' = still

Succeed(found, kept, still) ==
    LET got == Got(found)
        entry == [step |-> task.step, status |-> Status(got), due |-> task.due, got |-> got]
        following == IF report.by = "probe" THEN ProbeNext ELSE PlatformNext
    IN  /\ GoOn(following[task.step], Noted(entry), Advanced(got), kept, still)
        /\ mark' = IF report.by = "sync" /\ task.step = "incremental" THEN Advanced(got) ELSE mark

(* A probe goes on unless it could not connect or download; withRetry      *)
(* starts again, from the connection on, if the error may pass.            *)
Fail(retryable, kept, still) ==
    LET entries == Noted(Entry(task.step, "fail")) IN
    /\ IF report.by = "probe" /\ task.step \notin {"connect", "download"}
       THEN GoOn(ProbeNext[task.step], entries, task.cursor, kept, still)
       ELSE IF report.by = "sync" /\ retryable /\ task.attempt < Attempts
       THEN /\ task' = At("connect", task.attempt + 1, task.cursor)
            /\ report' = [kept EXCEPT !.entries = <<>>]
            /\ adapter' = still
       ELSE End(entries, kept, still)
    /\ mark' = mark

-----------------------------------------------------------------------------
(* A request.                                                              *)

\* connect, when it is; assertConnected, when it is not.
Connected ==
    /\ task # None /\ task.step = "connect" /\ adapter.connected
    /\ Succeed({}, report, adapter)
    /\ UNCHANGED <<terminal, spent>>

NotConnected ==
    /\ task # None /\ task.step # "connect" /\ ~adapter.connected
    /\ Fail(TRUE, report, adapter)
    /\ UNCHANGED <<terminal, spent>>

Asking == task # None /\ (task.step = "connect" <=> ~adapter.connected)

\* On to the next request of the operation, with what was found.
Onward(found) ==
    IF task.request < Len(Plan(task.step))
    THEN /\ task' = [task EXCEPT !.request = @ + 1, !.position = 0, !.pages = 0, !.found = found]
         /\ UNCHANGED <<adapter, report, mark>>
    ELSE Succeed(found, report, [adapter EXCEPT !.connected = TRUE])

Answered ==
    /\ Asking /\ terminal.known /\ Request \notin Searches
    /\ Onward(task.found)
    /\ UNCHANGED <<terminal, spent>>

\* Mutant: pages are taken to be as large as they were asked for.
PositionByPage(page) == task.position + adapter.pageSize

NextPosition(page) == task.position + Len(page.items)

(* paginate: from the number of items so far, until the last page.         *)
Page ==
    /\ Asking /\ terminal.known /\ Request \in Searches /\ ~TooLarge
    /\ LET page == PageAt(Request, task.position)
           found == task.found \cup {page.items[i] : i \in DOMAIN page.items}
       IN  IF ~page.more \/ page.items = <<>> THEN Onward(found)
           ELSE IF task.pages + 1 = MaxPages THEN Fail(FALSE, report, adapter)
           ELSE /\ task' = [task EXCEPT !.position = NextPosition(page), !.pages = @ + 1,
                                        !.found = found]
                /\ UNCHANGED <<adapter, report, mark>>
    /\ UNCHANGED <<terminal, spent>>

(* fetchSizedPage: the same page, asked again smaller; or an error.        *)
Refit ==
    /\ Asking /\ terminal.known /\ Request \in Searches /\ TooLarge
    /\ IF adapter.pageSize > SmallPage
       THEN adapter' = [adapter EXCEPT !.pageSize = SmallPage] /\ UNCHANGED <<task, report, mark>>
       ELSE Fail(FALSE, report, adapter)
    /\ UNCHANGED <<terminal, spent>>

Refused ==
    /\ Asking /\ ~terminal.known
    /\ Fail(FALSE, [report EXCEPT !.refused = @ + 1], adapter)
    /\ UNCHANGED <<terminal, spent>>

Fault == spent.faults < MaxFaults /\ spent' = [spent EXCEPT !.faults = @ + 1]

(* run: the terminal does not answer, and is to be connected to again.     *)
Lost ==
    /\ Asking /\ Fault
    /\ Fail(TRUE, [report EXCEPT !.lost = @ + 1], [adapter EXCEPT !.connected = FALSE])
    /\ UNCHANGED terminal

(* checkStatus, parseJson: an answer nobody understands.                   *)
Garbled ==
    /\ Asking /\ Fault
    /\ IF Request \in Optional THEN Onward(task.found)
       ELSE Fail(FALSE, [report EXCEPT !.garbled = @ + 1], adapter)
    /\ UNCHANGED terminal

Next ==
    \/ \E by \in {"probe", "sync", "test"} : Begin(by)
    \/ Connected \/ NotConnected \/ Answered \/ Page \/ Refit \/ Refused \/ Lost \/ Garbled
    \/ Record

Spec == Init /\ [][Next]_vars

-----------------------------------------------------------------------------
(* Properties.                                                             *)

Statuses == {report.entries[i].status : i \in DOMAIN report.entries}

\* The terminal takes small pages, and MAX_PAGES of them hold its lists.
Servable ==
    /\ terminal.limit # None => terminal.limit >= SmallPage
    /\ \A request \in Searches :
          Len(Listed(request)) <= MaxPages * Least(SmallPage, terminal.cap)

(* An operation that does not fail returns all the terminal held when it   *)
(* began, however the terminal cuts its pages.                             *)
NothingLeftOut ==
    \A i \in DOMAIN report.entries :
        LET entry == report.entries[i] IN
        entry.status \in {"ok", "warn"} => entry.due \subseteq entry.got

(* A probe reports each step once.                                         *)
Complete ==
    report.by = "probe" =>
        \A k \in DOMAIN Steps :
            Cardinality({i \in DOMAIN report.entries : report.entries[i].step = Steps[k]}) = 1

(* Without troubles every step is made; a synchronization ends well        *)
(* although all of its attempts but one lose a request.                    *)
TroublesSurvived ==
    /\ terminal.known /\ Servable
    /\ report.garbled = 0 /\ report.lost < (IF report.by = "sync" THEN Attempts ELSE 1)
    => Statuses \cap {"fail", "skipped"} = {}

(* What a reader of a probe, or of the log of a synchronization, relies on *)
(* (probe.ts:5-11, isapi-client.ts:21-23): that what did not fail is       *)
(* whole, that every step is there, that it fails for a reason, and that a *)
(* wrong password is tried once, since the terminal locks the account.     *)
TerminalIsRead ==
    /\ NothingLeftOut
    /\ report.refused <= 1
    /\ (task = None /\ report.entries # <<>>) => Complete /\ TroublesSurvived
=============================================================================
