# AsistControl: specification, model checking and proofs

AsistControl is an attendance-control platform: biometric terminals record
punches, the API (NestJS, `src/apps/api/src`) downloads them, turns the punches
of each employee into one attendance record per working day, and runs the HR
processes on top (leave, vacations, overtime, schedules, notifications); a web
client (`src/apps/web/src`) is the screen of all that. This directory holds its
TLA+ specifications, the TLC instances that check them, and theorems about them
checked by TLAPS.

Check an instance with `tlc -config DeviceSync_ingestion.cfg MCDeviceSync` (any
`.cfg`, with the module `PROJECT.json` gives for it) and the proofs with
`tlapm DeviceSyncProofs.tla` (or any other `*Proofs.tla`).

## 1. Inventory

The API may run in several instances over one PostgreSQL database (READ
COMMITTED). Handlers are asynchronous functions: every `await` of a statement or
of a terminal request is a point where every other handler may run. What makes
the system hard is therefore almost always *a value read in one statement and
used in a later one*; in the web client it is *an answer shown after what it says has
changed*.

| Component | State it keeps | Operations | Hard behaviour | What makes it correct | Module |
|---|---|---|---|---|---|
| device-sync | `devices.sync_locked_at`, `last_sync_cursor`, `status`; `attendance_events`; push buffer | `sync`, `ingest`, `flushRealtime`, polling tick | two syncs, pull against push, crash with the lock held, faults between insert and recompute | no punch skipped, one sync at a time, stored once, eventually stored | `DeviceSync`, `PunchLedger` |
| devices | the device row | `create`, `update`, `remove`, `testConnection`, `setStatus` | edits while a sync runs, stale reads | a disabled device stays disabled, a new terminal starts over | `DeviceSync` |
| device connections | adapter table keyed by row version, live subscriptions | `adapterFor`, `startRealtime`, `release` | a new row version drops the adapter and its subscription | one subscription at most, of the terminal the row names | `DeviceAdapters` |
| ZKTeco adapter | command queue, socket, receive buffer, cursor | connect, commands, bulk read, `sync` | late answers, dropped sockets, cut and damaged packets, wiped memory | an answer is its command's, no record passed over | `ZkTerminal`, `ZkFrames` |
| Hikvision adapter | page size, digest challenge, cursor | paged searches, counts, users, `sync`, probe | clock set back, pages refused, lost requests, expired nonces | no event missed, what did not fail is whole, refused only for cause | `HikvisionSearch`, `HikvisionCalls`, `DigestSession` |
| times of terminals | none (pure) | packing, parsing, zone conversion | the hours a clock change skips or repeats | a punch keeps the time the terminal showed | `DeviceReadings` |
| attendance processing | `attendance_records`, `overtime_records` | `processEvents`, `recomputeRange`, `recompute`, finalizer | concurrent recomputations from different reads | the record is that of the current facts; every day gets closed | `AttendanceRecords` |
| attendance service | manual events, voided events | create, void, preview, recompute | a preview that sees less than the computation | a voided punch stops counting; the preview comes true | `AttendanceRecords`, `DayAttribution` |
| attendance domain | none (pure) | windows, attribution, pairing, figures, presence | night shifts, stray punches, unpunched lunches, leaves | one punch, one day; record and board tell the same day | `WorkDays`, `DayAttribution`, `DayFigures`, `AttendanceDay` |
| overtime review | `overtime_records.status` | `review` | two reviewers, review against recompute | one decision per record | `AttendanceRecords` |
| schedules, holidays | assignments with date ranges | assign, set up, undo, holidays | overlapping operations, moved punches | one schedule a day, records follow it | `Assignments`, `DayAttribution` |
| leave requests | `leave_requests`, vacation debits | `create`, `review`, `cancel` | balance checked before and after others changed it | no overlap, no overdrawn balance, records follow | `LeaveRequests` |
| vacations | accruals, adjustments, expiries | balance, adjust, expiry, notices | order of use and expiry | days add up; a loss is announced first | `VacationRules`, `LeaveRequests` |
| employees | employees, biometric ids | create, update, remove | an id enrolled while its punches arrive | every punch finds its employee | `Directory` |
| catalogues, weekly schedules, shifts | departments, positions, contract types, supervisors, schedules | create, rename, assign, remove, save | counted first, removed later | nobody refers to what is gone | `Catalogues` |
| notifications | `notifications`, preferences | incidents, leave and vacation events | a notice looked for and sent in two steps | one notice per outage and one for its end; the right people | `DeviceIncidents`, `Audiences` |
| email dispatcher | `email_deliveries` | claim, send, retry, give up | crash between send and bookkeeping, stale claims | sent once but for failures, bounded attempts, an outcome | `EmailOutbox` |
| sessions | `sessions` (refresh token families), the cookie | login, refresh, logout, passwords | rotation by two tabs, lost answers | an old password keeps nobody in; no false alarm of theft | `Sessions` |
| users, roles, scope | `users`, claims of tokens | create, update, deactivate | judged before it is written | somebody can administer; a scoped account has its employee | `Accounts` |
| realtime gateway | rooms of each socket | connect, emit | rooms follow claims, recipients follow the database | a punch is heard by who may see it | `Audiences` |
| settings | the policy row, its cache | load, `updateAttendancePolicy` | cached before, dropped after | no setting is undone | `PolicyCache`, `PolicyForm` |
| dashboard, reports | none | month documents, summaries, counts | the same day added up by different code | the documents agree | `MonthDocuments` |
| controllers, guards | none | routes and their permissions | decided again by the client | the screen offers what the API accepts | `WebAccess` |
| web client | query cache, drafts, panels | screens, forms, pushes | an answer overtaken by a save or a push | a screen shows what was saved and pushed | `WebScreens`, `WebAccess`, `PolicyForm` |
| audit, health, configuration, CLI, seed | rows | - | none beyond single statements | - | - |

How they interact: terminals → adapters → device-sync → (events) → processing →
records → reports, board, dashboard; employees, schedules, leave and settings change
the facts or the rules of processing and ask for recomputation; processing,
device-sync and leave announce over the gateway and by notification, and the dispatcher
mails the notifications; everything a person does passes the guards with the claims of a
session.

## 2. Plan

| Step | Modules | State |
|---|---|---|
| 1 | `PunchLedger` (what ingestion promises) and `DeviceSync`, which implements it | modelled, proved |
| 2 | `AttendanceRecords`: recomputation, overtime and its review, the hourly job | modelled, proved |
| 3 | `EmailOutbox`: claim, send, retry over several instances | modelled, proved |
| 4 | `WorkDays` (operators) and `DayAttribution` | modelled, proved |
| 5 | `LeaveRequests` with `VacationRules`; `Assignments`; `Directory`; `Catalogues` | modelled; all but the balances proved |
| 6 | `DayFigures` (operators), `AttendanceDay` over it and `MonthDocuments` over that | modelled |
| 7 | `Sessions`; `Accounts`, and `Audiences` over it | modelled, proved |
| 8 | `ZkTerminal`, `ZkFrames`; `HikvisionSearch`, `HikvisionCalls`, `DigestSession`; `DeviceReadings` | modelled, proved |
| 9 | `DeviceAdapters`, `DeviceIncidents` | modelled, proved |
| 10 | `PolicyCache`, `PolicyForm`; `WebScreens`; `WebAccess` | modelled, proved |
| 11 | the generated work days of the simulator (`mock-device-simulator.ts:138`) | open |

Modules that are proved about have no RECURSIVE operator, their parameters are CONSTANTS
with named assumptions, and their proofs are in modules of their own.

How the modules are composed. `DeviceSync` instantiates `PunchLedger`, which it
implements; `DayAttribution` extends `WorkDays`, `LeaveRequests` extends
`VacationRules`, `AttendanceDay` extends `DayFigures`, `MonthDocuments` extends
`AttendanceDay`, and `Audiences` extends `Accounts`. The instances `MCDays`, `MCPeople`,
`MCPlatform` and `MCOffice` hold several components each: components that share no state
need no product of their states, so a behaviour of such an instance is about one of
them, which the variable `focus` says; the others stay in one initial state.

## 3. What is modelled

### DeviceSync

One registered device: its row, the terminals the row may point at, the event
table and the handlers that work on it.

| State | Code |
|---|---|
| `memory`, `generation` | the attendance memory of a terminal and how often it was wiped (`MockDeviceSimulator`) |
| `device` | the row of `devices`: address, status, cursor, lock, soft deletion. The lock column is an age: `free` (null), `fresh`, `stale` (older than `STALE_LOCK_MS`) |
| `live`, `buffer` | the live subscription of the connection manager and the 250 ms buffer of `bufferRealtime` |
| `events` | rows of `attendance_events` by dedup key |
| `handed` | punches whose day `processEvents` has recomputed |
| `job[h]` | where an asynchronous call is and the local variables it has read |
| `recorded`, `wanted` | history: what the terminals recorded, what the administrators asked for |
| `spent` | what is used of the bounds |

Each `await` is a step: `BeginSync` (getEntity), `AcquireLock`/`LockRefused` (the
conditional update), `MarkSyncing`, `Fetch`, `Store` (createManyAndReturn),
`Process`, `SaveCursor`, `Unlock`; `SyncFails` and `RecordFailure` are the catch block,
`Die` a crash or an exception outside the try block. The push path shares `Store` and
`Process`; `LookAtDevice` and `MarkOnline` are the two statements of its status
decision. `BeginProbe`/`EndProbe`/`RestartRealtime` are `testConnection`; `BeginEdit`
and `CommitEdit`/`CommitRemoval` are the read and the transaction of `update` and
`remove`, with `RestartRealtime` for what follows. A punch is its dedup key, so a
punch recorded twice in one second is one element. The terminal is the simulator of
`packages/biometric-core`, the adapter whose cursor (`generation:next index`) the
architecture documents.

`PunchLedger` is what ingestion promises whatever the path: only recorded punches
are stored, valid ones only, and nothing stored is lost. `DeviceSync` implements it
with `recorded <- recorded, stored <- events`.

### AttendanceRecords

One employee. The code keeps *facts* (punches, leave) and derives *records* from them;
the figures of a record are a function of its inputs, so the model keeps the inputs
(`facts`, `special`: whether another schedule or a holiday applied, `final`).

| State | Code |
|---|---|
| `today`, `ended` | the local date; the days whose punch window is over (before midnight or, for a night shift, the day after) |
| `facts`, `special` | `attendance_events` not voided, approved leave; schedules and holidays |
| `record`, `overtime`, `rows` | `attendance_records`, `overtime_records`, and the identity of the next overtime row |
| `job[h]` | a request, the hourly job of an instance or a review, and what it has read |
| `lastRun` | history: the last completed run of the hourly job |

| Actions | Code |
|---|---|
| `StorePunch`, `VoidEvent`, `ReviewLeave`, `ChangePlan`, `RequestRecompute` | the commit of a change, after which the same handler recomputes: manual punches and voids, leave, schedules and holidays, `POST /attendance/recompute` |
| `LoadCalendar`, `ReadDay`, `DropProvisional` | `loadCalendar`, the reads of `recomputeWith` and the branch for a day with nothing to save |
| `OpenTransaction`, `CommitTransaction` | the transaction: the upsert locks the record until the commit, the overtime row is read without a lock and written by its key (`SyncOvertime`) |
| `FillDaysSince` | `completeDaysSince` |
| `BeginFinalize`, `ListProvisional`, `FindMissing`, `EndFinalize` | `finalizePendingDays`, once an hour |
| `BeginReview`, `Decide` | `review`: the read that refuses, the update by id |
| `Die` | a crash or an exception of one of the handlers in `Mortal`: the transaction rolls back, the queue is forgotten |

### EmailOutbox

| State | Code |
|---|---|
| `delivery` | `email_deliveries`: status, attempts, next attempt, creation, `lockedAt` |
| `read`, `optedOut` | the notification was read in the app; the user is inactive or has switched the email off |
| `job[w]` | the run of an instance: its `now`, what is left of its batch, the email in hand |
| `tried`, `accepted` | history: how often the transport was called, how often the server took the message |
| `clock` | in dispatch intervals; every instance starts one run per interval unless its last one is still going |

`BeginRun`, `Expire`, `ListDue`, `Claim`, `Look`, then `Send`, `Reject` or `LoseAnswer`
(the server took the message, the answer did not arrive), then `FinishSkipped`, `FinishSent`,
`FinishUnsent` or `FinishSentFails` (the statement fails inside the try block, whose catch
block takes it for a failed send); `Die` leaves a claim behind. `Expire` is one
statement over all pending emails, the ones in another instance's hands included.

### WorkDays and DayAttribution

`WorkDays` is `work-day.ts` and `WorkCalendar` as operators: `StartOf`/`EndOf`
(`resolveShift`), `From`/`To` (`buildWorkDay`), `WorkDateOf` (`assignWorkDate` over the
date before, its own and the next), `Loaded` (`reachOf`), `Counted`/`Strays` (`split`).
Instants are integers and all dates have the same length, so a zone with daylight
saving time is left out.

`DayAttribution` has the rows of `employee_schedules`, the holidays, the punches and, by
day, which punches its record counts or reports. Every operation is followed by the
recomputation its handler makes, with the snapshot `load` takes for that range:

| Actions | Recomputed by the code |
|---|---|
| `StorePunch`, `VoidPunch` | the day the punch belongs to (`processEvents`) |
| `CreateHoliday`, `RemoveHoliday` | that date, unless it is to come (`recomputeDateIfPast`) |
| `Assign`, `Unassign` | from the start of the assignment to today, at most `MAX_RETROACTIVE_DAYS` back |
| `RequestRecompute` | the dates asked for |

`since[d]` is history: the dates within two of `d` whose shift or holiday changed after
the record of `d` was last computed. Operations follow one another here;
overlapping ones are the subject of `AttendanceRecords` and `Assignments`. `Preview` is
`previewDay` of a manual punch, which loads fewer dates than the computation that follows
(`PreviewComesTrue`).

### People: Directory, Catalogues, Assignments

Handlers read and check first, and write in a later statement. Each module has the jobs of
its handlers (`jobs`, `call`: what each has read) beside the rows.

| Module | State | Actions and code |
|---|---|---|
| `Directory` | `employee` (state, id), `owner` of each stored punch, `counted` by the records | `BeginSave`, `CommitSave` (create, update), `FindUnmatched`, `LinkPunches`, `ProcessPunches` (`linkUnmatchedPunches`), `Remove`; `BeginIngest`, `StorePunch`: the part of an ingestion that finds whose a punch is |
| `Catalogues` | `kind` of the entries, `rows`, `staff` (what each was given), `week`, `shift` | `Create`, `BeginRename`/`Rename`, `BeginRemove` with `RemoveOffice`, `RemoveContract`, `RemoveSupervisor` (the three ways a removal deals with who refers to the entry), `BeginAssign`/`Assign`, `RemoveEmployee`; `BeginWeek`, `DeleteWeek`, `WriteWeek` and `BeginShift`, `WriteShift` (the saves of a weekly schedule and of a shift). Departments and positions behave alike and are one kind; a removed name gets a suffix |
| `Assignments` | `rows` of `employee_schedules`, `record`: the schedule each past date was computed with | `AssignCheck`/`AssignCommit`, `SetupRead`/`SetupAssign` (`setupWorkday`, one assignment in the state read before), `UnassignCheck`/`UnassignCommit`, `Recompute` (the retroactive recomputation of each) |

### VacationRules and LeaveRequests

`VacationRules` is `vacations/domain` as operators over a calendar of any month lengths:
what is earned by year, by month or by calendar year, what a span costs, in which order
days are taken and expire, and `NextExpiry`. Amounts are integers in units of a share of a day;
rounding to two decimals is left out.

| State of `LeaveRequests` | Code |
|---|---|
| `requests`, `adjustments`, `terms` | `leave_requests`, vacation adjustments, the contract in force |
| `covered` | dates whose record shows a leave |
| `jobs` | `create`, `review`, `cancel`: what each has read |
| `forecast` | history: what the last notice foresaw |

`BeginCreate`/`CheckBalance`/`CommitCreate`, `BeginReview`/`CommitReview`,
`BeginCancel`/`CommitCancel`, each with `RecomputeAffectedDays` or, if the process stops,
`Abort`; `AddAdjustment`, `ChangeTerms`, `NoticeExpiry` (the daily notice) and `NextDay`.

### A day and its documents: DayFigures, AttendanceDay, MonthDocuments

`DayFigures` has `calculateAttendance`, `readPunches` and `presenceAt` as operators: double
presses, pairs by order or by key, the unpunched lunch, lateness, early exit, missing time,
overtime by either basis, and the state of the board. `AttendanceDay` lets one day go by:
`Tick`, `Press` (a punch, computed at once), `AddManual`, `VoidEvent`, `ApproveLeave`,
`FinalizeDay`; `inside` is history: when the board had the person in. `MonthDocuments` adds no action:
it is what the month that is signed (`attendance-month.ts` and what its workbook and
PDF print of a line), the payroll summary, the time card of the screen and the dashboard make of that
day. Instants are integers; two punches are never at the same one.

### Settings: PolicyCache and PolicyForm

| Module | State | Actions and code |
|---|---|---|
| `PolicyCache` | `stored` (the row), `cache`, `asked` (history: the last value each rule was set to) | `Load`/`KeepLoaded`, `BeginUpdate`/`KeepRead`/`Store`/`Forget` (`updateAttendancePolicy`: load, merge, store, drop the cache), `Expire` |
| `PolicyForm` | `policy`; by tab the draft, the cached answer and what is under way; `chosen` (history) | `Open`, `Leave`, `Evict`, `Ask`/`Arrive` (query), `Edit`, `Discard`, `Submit`/`Apply`/`Saved` (`SettingsPage.tsx`) |

### Terminals: ZkTerminal, ZkFrames, HikvisionSearch, HikvisionCalls, DigestSession, DeviceReadings

Terminals are what the repository's own fake devices are.

| Module | State | Actions and code |
|---|---|---|
| `ZkTerminal` | `memory`, `asked`, `wire`, the client's `queue`, `link` (what the adapter thinks, the socket), `attempt`, `cursor` | `BeginSync`, `StartAttempt`, `FailUnconnected`, `FailConnect` (`sync` under `withRetry`), `Transmit`, `Receive`, `Timeout`, `Drop`, `FailQueued` (`zkteco-client.ts`), `Punch`, `Wipe`, `Answer`, `Ignore` (the terminal) |
| `ZkFrames` | `lines` (connections: packets sent, bytes not delivered), `client` (socket, buffer, waiting), `taken` | `Open`, `Receive`, `Deliver` (a piece of the stream of any length), `Timeout`, `Close`, `Reply`, `ReplyCorrupted`, `Hangup`; header, length and checksum as operators (`protocol.ts`) |
| `HikvisionSearch` | `clock`, `events`, `serial`, `mark` (the cursor), `search`, `fetched` | `BeginSearch`, `FetchPage`, `Finish`, `Abandon` (`sync`), `Record`, `Tick`, `SetBack`, `Wipe` (the terminal) |
| `HikvisionCalls` | `terminal` (cap, limit, endpoints, password), `adapter` (connected, page size), `task`, `report` | `Begin` (a probe, a sync, a connection test), `Connected`/`NotConnected`, `Answered`, `Page`, `Refit` (a smaller page), `Refused`, `Lost`, `Garbled`, `Record` |
| `DigestSession` | `challenge`, `count`, `terminal` (offers, nonce, counts taken), `calls` | `Begin`, `Answer`, `Accepted`, `Challenged`, `Rejected`, `Fail` (`request`, `send`), `ExpireNonce` |
| `DeviceReadings` | `hour`, `zone`, `memory` (what terminals of either vendor have of each punch) | `Pass`, `Punch`; the packed time, the written time with and without its offset, and the zone conversions of `device-time.ts` as operators |

### Around the terminals: DeviceAdapters, DeviceIncidents

`DeviceAdapters`: `row` (terminal, version, enabled), `manager` (every adapter built, the one
in the table, the subscription kept), `terminals` with the simulator's faults. A handler
goes through `Lock`, `Adapt` (`adapterFor`), `BeginAttempt`/`Call` (`withRetry`), `Settle`,
`BeginStart`/`StartRealtime`/`Listen`, `Change` and `ReleaseChanged`; `SetTerminal` is the
network. `DeviceIncidents`: `BeginStatus`, `UpdateRow`, `LookUp`, `Send` are `setStatus` and
`deviceStatusChanged` statement by statement, `Contact` is a live punch, `PurgeExpired`
the nightly purge; `told` is history. With `LongOutages` an outage may outlast the retention
of its own notice.

### Accounts and sessions: Sessions, Accounts, Audiences

| Module | State | Actions and code |
|---|---|---|
| `Sessions` | `account`, `sessions`, `tokens` issued, the `cookie`, `access` token and `calls` of each tab | `LoginVerify`/`LoginCreate`/`LoginStore`, `RefreshRead`/`Rotate`, `Logout`, `PasswordVerify`/`PasswordReplace`; `Receive`, `Lose`, `Forget` (`web/src/lib/api.ts`); `ResetPassword`, `SetActive`, `RemoveEmployee` |
| `Accounts` | `accounts` (role, active, employee), `staff` (supervisor), `tokens` (claims), `edit` (what updates have read) | `SignIn`, `CreateUser`, `BeginUpdate`/`CommitUpdate`, `CreateAdmin`, `SetSupervisor`, `RemoveEmployee` |
| `Audiences` | `sockets` (claims), `requests`, `notify` | `Connect`, `Disconnect` (rooms), `Request`, `Review`, `Cancel`, `Send` (recipients when the notice is sent) |

### The web client: WebScreens, WebAccess

`WebScreens` is one tab with one query at a time (`watched`): `entry` is its cache entry
(data, mark, fetch, the answer on its way), a change is a number and an answer is the set
of changes it shows. Tables name, for each query, what it reads and, for each form, what its save
changes and which queries it asks again (`Saves`); `Overlooked` lists what the client is known not
to ask again. `BeginSave`, `ComputeDays`, `ComputeLater`, `Answered` are a save and its background
computation; `Punched`/`PunchStep` and `Notify`/`PushNotice` what the server stores and
pushes, `Deliver` what `realtime.ts` does with a push; `Open`, `Close`, `Age`, `Poll`, `Answer`,
`Arrive` are TanStack Query.

`WebAccess` has two tables, each a set of definitions named after the code: the routes of every controller with
the permission its decorator requires (`Api`), and what each page, panel and form asks for or
offers and behind which permission (`Pages`). `row` is the account, `session` what the browser holds of it. `Go`,
`OpenPanel`, `ClosePanel` are the user's; `SignIn`, `SignOut`, `Refresh`, `Reload`,
`ChangePassword` those of the session; `ChangeAccount` and `ResetPassword` an administrator's.

## 4. Runs

| Run | What it shows | Bounds |
|---|---|---|
| `ingestion` | two syncs and a push over a memory that may be wiped, one record validation refuses and one fault at any step: nothing valid is skipped, stored punches end up in a recomputation, the ledger is implemented, and everything recorded and still in a memory is eventually stored | 1 terminal, 1 record per memory, 2 punches, 1 wipe, 1 fault |
| `edits` | edits, removals, a sync, a flush and a probe in any order, overlaps included: while a device is off no handler joins those that looked at it before, only these bring it back or subscribe it, and each stops being able to once its critical section, flush or probe ends | 1 administrator, 2 terminals of 1 record (interchangeable), 1 punch, 2 edits |
| `records` | with two requests and the job over three days, the job possibly dying once, every record ends up as the facts say, when days and plans do not race | 1 punch, 1 leave, 2 changes, 1 crash of the job |
| `claims` | two instances, two emails, refusals up to the last attempt and one failure anywhere: number of sends and finality | batches of 1, one retry, 5 units of time |
| `delivery` | one refusal and one failure do not lose an email that is still wanted | 1 email, two retries, 11 units of time |
| `days` | schedules assigned and undone, holidays and punches with shifts across midnight, inside one another, of no fixed hours, and dates without one; and the hourly job alone closes every day that ends, with one crash at any step | attribution: 3 days in units of two hours, 3 changes, retroactive limit 1; closing: 6 days, look-back 3, completed runs at most 2 days apart |
| `people` | employees and their punches, catalogues, the schedule history, leave requests, and the figures of a day with its documents | two handlers; 2 employees, 1 id, 3 saves; 5 calls on 2 entries; 4 dates, 4 operations; 2 requests over 3 days of a calendar of two-month years; 5 kinds of day, 4 punches, 1 correction |
| `platform` | the policy with its cache and its form, both vendors' terminals from packets to cursors, the adapters, the outages | see the `.cfg`: 2 handlers or tabs, 4 records or events, 3 packets on 2 connections, 1 wipe or reset, 1 or 2 faults, 2 or 3 syncs, six sorts of Hikvision terminal, six zones |
| `office` | a browser of two tabs with its sessions, accounts with sockets and recipients, overtime reviewed while days are recomputed, screens and what they ask | 3 tokens, 2 changes of the account, 1 lost answer; 2 users, 2 employees, 2 edits, 1 request; 4 changes of a day; 2 saves or punches; 2 changes of a role |
| `lostupdate`, `moved`, `drafts` | the disagreements of section 6 | the smallest that show them |

Why these bounds are enough to be of interest. Two syncs suffice for a lock (a
third only repeats the second); a memory of one record gives a cursor below, at and above the
memory after it was wiped. Two recomputations and one change between their reads and
writes give every order of read and write of one day; three days give a provisional,
a missing and a final one at once. In the closing part of `days` the look-back is long enough for
the job to be late, and `MaxGap` is one day less than the look-back, which is what the
code tolerates: with as many days as the look-back a day is lost. An email needs one
retry for its last attempt to differ from its first; the expiry falls into the
run because `MaxAge` is shorter than `MaxTime`. In `days` a unit is two hours, the windows open
two units before a shift and close three after it, which makes the
windows of an office day and of the guard before it overlap with ties.
Two handlers give every order of a check of one, a commit of the other and a commit of the
first, which is what the modules of `people` and `office` are about; three tokens give a
rotation of a rotated one. A bulk read of a ZKTeco terminal has packets of two records, so
that four records need two, and three syncs give one before, one across and one after a
wipe. A Hikvision search of one event a page is crossed by whatever is recorded. The
instances of `VacationRules` have years of two months, so that accruals by month, by year
and by calendar year expire within the days of a run.

Switches say which circumstance a passing run excludes: `SlowSync`, `EditsWhileBusy` (but in `edits`), `SameDay`,
`PlanRaces`, `ReviewRaces`, `Mortal`, `SlowRun`, `IngestRaces`, `SaveRaces`, `WeekRaces`,
`AssignRaces`, `RenameRaces`, `UndoSwallowed`, `UnassignRaces`, `RequestRaces`,
`Straddling`, `Crashes`, `LoginRaces`, `UpdateRaces`, `Refetches`, `Returns`, `Crossings`,
`HardResets`, `Overlaps`, `LongOutages`, `Shares`, `EditRaces`, `StaleTokens`,
`RemovesAdmins`, `QuickReturns`, `SlowLoads`, `Demotions`. What happens with each of them is
section 6: they name what the code does not guard against, not what was inconvenient to
model.

Handlers run for ever, people may stop acting and the bounds end a behaviour, so
deadlock is not checked.

Fairness. `ingestion`: each sync and flush call that can take a step does (the
scheduler's interval, the 250 ms timer and the event loop; both loops catch every
exception), and the lock ages. `days` (the closing part): started handlers go on, the hourly job runs
(`attendance.scheduler.ts`), days pass and windows end. `delivery`: time passes and every
instance goes on with its runs (`setInterval`; SMTP and the database have timeouts). Nobody
ever has to punch, edit, probe, review or read.

## 5. Proofs

All theorems hold for every value of the constants that satisfies the named assumptions:
any number of handlers, terminals, people, punches, dates and failures, where a run has two
or three. A hypothesis on a switch (`~SlowSync`) is a circumstance of section 6, in which the
code does not keep the property: TLC finds it violated with the switch on.

An invariant is seldom inductive, so each proof strengthens it. What is added nearly always
says the same thing about this code: *what a handler has read is still so* when it writes,
and *somebody is about to make up for* what is not so yet.

`DeviceSyncProofs`:

* `TypeCorrect`: strengthened with *a sync that has not downloaded yet knows its
  terminal*.
* `LockExclusion` (assuming `~SlowSync`): inductive because a fresh lock exists whenever
  a sync is in its critical section, and it can only age when none is.
* `NoPunchSkipped` (assuming `~EditsWhileBusy`): for the cursor in the row and for the
  cursor each handler carries, every record below it is stored, refused, or in that
  handler's batch; a sync's terminal is the row's terminal while it runs.
* `CoveredPunchesAreProcessed` (assuming `~EditsWhileBusy`): on top of that, `ProcessedInv`
  says that a stored punch is in the hands of the handler that stored it until its day is
  computed, or a fault came between the two.
* `OnlyEarlierLooksRevive` (`DisabledStaysDisabled`) and `DisabledIsFinal`, with no assumption on
  overlaps: a handler has a *claim* on the row while it may still write its status or subscribe
  the device from a look it took earlier (`HasClaim`). Every handler looks at the row before it
  claims it, so while the device is off claims only end (`OffSync`, `OffFlush`, `OffRestart`,
  `OffProbe`, `OffAdmin`), and a step that writes anything but `DISABLED` is a claim being used
  (`StepOfOne`). `DisabledIsFinal`: off, without claims and without a subscription it stays so
  until an edit wants it again.
* `ImplementsLedger`: every step is a step of `PunchLedger` or leaves it alone, by the
  invariant *memories, buffer and batches hold only recorded punches, batches only valid
  ones*. No assumption on overlap, slowness or edits.

`AttendanceRecordsProofs`. `IInv` joins types, *where a job stands fits what it does*
(`Placed`), one open transaction per day (`Exclusive`), *the overtime row a transaction has
read is still there, or still not* (`Held`), *one decision at a time, of a row still pending*
(`Undecided`) and `OvertimeFollows` itself, which needs `Held`: the upsert locks the record
and not the overtime row.

* `TypeCorrect`, `OneTransaction`, `OvertimeFollowsRecord`: no assumption, whatever overlaps and dies.
* `ReviewsAreKept` (assuming `~ReviewRaces`): from `Held` and `Undecided`.
* `PastIsReproducible` (assuming `Orderly`: neither two computations of one day nor a change
  of plans and a computation overlap, and requests do not die; the hourly job may): `CInv`
  adds who computes a day (`Alone`), that a calendar in hand is the one in force
  (`Snapshot`), that a record is final only once its day ended (`Early`), that nobody computes
  a day to come (`Past`), and `Settled`: a day that no request still has to
  compute has a current record, or somebody computes it from what is stored now.

`EmailOutboxProofs`, all
assuming `~SlowRun`. The invariant joins types, *a run is at most `Stale` old*
(`Prompt`), *an email in hand bears the claim of the run that holds it, or was
settled* (`Held`), exclusion itself, and the accounts: what was
tried and accepted is what the row, the run in hand and the failures add up to
(`Counted`, `Tries`, `Accepts`), with the age of an email in hand (`Young`). From it
follow `ClaimExcludes`, `LeavesOnce`, `BoundedAttempts`, `NeverTooLate` and
`OutcomesAreFinal`.

`DayAttributionProofs`, first the operators of `WorkDays`, for any length of day, windows,
templates and calendar:

* `OwnersInOrder`: of two punches the later one never belongs to an earlier day. If it
  did, the earlier day's window would also hold the first punch, which chose the
  other day because it was nearer; distances grow no faster than time passes, so the
  second punch would have been nearer to it as well, unless its window was over, which
  contradicts the order of the ends of the two shifts.
* `OwnerIsLocal`, `DayIsLocal` (lemmas): the owner of a punch depends on the three dates
  around it, what a day owns on the two dates on either side of it.

Then `DayAttribution`, any schedules, dates, limit and number of changes. The inductive
invariant is `TypeOK`, `History` (rows start on different dates, each ends before the next one
starts, and from the first on there is no gap), `Fresh` (a record whose
surroundings did not change is the one the calendar gives now) and `DayReached` (within the limit
no day itself changed without being recomputed). `History` is needed because
undoing an assignment reopens the row before it: that this row is the one in force the day
before is what keeps the history whole.

* `TypeCorrect`, `OneSchedule`, `PunchesInOrder`, `StaleOnlyBesideChanges`. The last one also
  says that a snapshot with two dates of margin decides as the whole calendar would.
* `NearestOwnsThePunch` (assuming `WindowsReachOneDate`): every date whose shift claims a punch is
  next to the date of the punch or that date itself (`ClaimedAround`), so the nearest of the
  three that are asked is the nearest of all. The policy allows no more than twelve hours before a
  shift; that a shift and what is allowed after it end with the next date is what `days`
  has too and `After = 5` breaks (section 6).

`PeopleProofs`, about four components of `MCPeople`; a behaviour is about one of them, and
the others stay as they began, which their properties accept:

* `NoPunchIsOrphaned` (assuming `~IngestRaces`, `~SaveRaces`): `DirectoryInv` is types, *an id
  is one employee's, who is there to have it* (`IdsAreOwn`), what the jobs have read
  (`JobsAgree`), *an unmatched punch whose id somebody has is about to be linked* (`Linked`)
  and *whose punches are not counted is about to be computed* (`CountedRight`).
* `OneInForce`, `PastFollowsSchedules` (assuming `~UnassignRaces`, `~UndoSwallowed`):
  `HistoryInv` is types, one row in force from the first on (`OneAt`), ids used once
  (`OwnIds`), what an undo has checked (`UndoHolds`) and *a past day computed with another
  schedule is about to be recomputed* (`Followed`). Assignments may be checked and committed
  in any order, and a row may be left without a day. Undoing the latest row keeps
  `OneAt` because the row in force on the day before it is the latest of the others, which is the
  one the code reopens.
* `OverlapsAreFiledTogether` (assuming `~RequestRaces`), half of `LeavesStand`: filings race
  freely. What is being filed overlaps no active request among those its check saw (`Apart`), a
  decision only frees time, and what was stored since the check is what the later of two
  overlapping requests has not seen.
* `RecordsShowLeaves` (assuming `~RequestRaces`, `~Crashes`): a decision holds what it read of
  its request (`DecisionsHold`), so the dates whose leave changes are those its
  job will recompute (`LeaveIsAffected`).
* `CataloguesKeepTheirWord` (assuming `~AssignRaces`, `~RenameRaces`, `~WeekRaces`): what every
  call under way has read still holds (`Holds`): an entry about to be renamed or given is
  there, one about to be removed is nobody's at work, the rows a save deletes are the
  schedule's, the shift it checked is the one stored. What keeps it so is that calls
  under way do not disturb each other (`Compatible`), which creations, employees leaving and
  the other interleavings of renames, assignments and removals do not either.

`PlatformProofs`, about `MCPlatform`:

* `NoUpdateUndone` (assuming `~UpdateRaces`, `~Refetches`, `~Returns`): the cache is the row
  unless an update is about to drop it (`PolicyInv`), and a draft differs from the answer it
  was filled from in the rules edited only (`FormInv`), so a save sends nothing else.
* `OutagesAreAnnounced` (assuming `~Overlaps`, `~LongOutages`): the types of the notices of a
  terminal alternate, an announced outage has its notice, and the one status change under way
  agrees with the row and the notices (`IncidentInv`).
* `EventsAreDownloaded` (assuming `~Crossings`, `~HardResets`), for any events, pages, kinds,
  lookback, overlap, margin and resets. `HikInv` says what a cursor promises (`CursorOf`): an event
  not downloaded lies within the overlap, and has a higher number, or some event not downloaded
  *betrays* that the counter restarted; that a search that begins reaches to every event not
  downloaded (`InReach`); and what a search under way has found (`Covers`): all of the kinds it
  went past, and of the present one all that comes before its position, the place of an event being how
  many come before it; events beyond its end were recorded after all it can find. Trying to prove it found what `HardResets` must stand for. A wipe *during*
  a search: the synchronization finds events of both counts, keeps the old number and later passes
  over an event of the new count (three events could not show that, `platform` has four). A
  clock set back by more than the hour by which a search ends after it, with events still to be
  downloaded: they come with a number below that of the next cursor. A first synchronization
  later than the lookback, and then a clock set back.
* `AnswersAreThoseSent` (assuming `~Overlaps`): the bytes sent on a connection are the frames of
  the payloads, one after the other (`Frames`), and the buffer with the bytes still to come is what
  follows the frames taken (`Remains`), however the stream is cut. Beneath are lemmas about the
  checksum, which is a recursive function: the sum exists for every length, sequences that differ in
  the last byte have sums that differ by less than a word, and such sums have different
  checksums (`DamageShows`), so a damaged packet is never taken for one.

* `WhatDidNotFailIsWhole`: no assumption but the kinds of values `CallsAssumption` names; any
  terminals, sizes of page, kinds of event, requests lost, garbled or refused, and events
  recorded meanwhile. An operation under way has found all it is due of the requests it went past,
  and of the present one the items up to its position, which come in an order that later events only
  continue; and it has gone through no more pages than it found items for, at the fewest a page
  of that terminal holds (`Part`), so running out of pages means that the terminal is not one of
  those that can be read. A report whose steps are not all well then shows why (`Fine`), a probe has
  reported each step before the one it is at once (`Reported`), and a synchronization has
  lost as many requests as it has used up attempts (`CallsInv`). TLC checked this invariant on the
  terminals of `platform` before it was proved.

`AdapterProofs`, about `MCPlatform` too:

* `OnePushPerPunch` (assuming `~Overlaps`, which bounds probes, edits and removals; syncs
  overlap as they like): a version of the row is of one terminal, wherever it is still
  remembered; at most one handler listens, edits or removes; what each handler knows of
  the row and of the adapters fits (`Fits`), and with nobody about to change that, the one
  listener is of the terminal the row names (`Wanted`). TLC checked this invariant over the whole
  state space of the adapters in `platform` before it was proved.
* `NoRecordIsPassedOver`: no assumption on faults, overlaps or what late answers are
  taken for, and any size of packet. Only the fingerprint of the last record protects the cursor
  against a memory wiped and filled again, so the invariant (`ZkInv`) is about data
  wherever it is: records are numbered without gaps in the memory, inside a packet and from a
  data packet to the next one on the wire; what the command under way has read goes
  on with the next packet; and a cursor at record *n* of *k* says that the *k* records up to *n*
  were returned. A late answer read by the wrong command is a download all the same, or
  none.
* `RefusedOnlyForCause` (assuming `~Shares`): a terminal that takes each count once has one
  call at a time, the counts it took are of the nonce the client has and at most the client's
  count, and a call nobody disturbed still holds what it knows of the terminal (`DigestInv`).
* `TimesShownAreKept`: no assumption but the dates and offsets `ReadingsAssumption` names. Packing a
  time into an integer and unpacking it is the identity for any date of the century (`PackedDays`);
  whatever is read without an offset is an instant at which the clock shows the same, also in
  the hours a change skips or repeats.

`OfficeProofs`, about `MCOffice`, whose every step is a step of one component:

* `ReplacedPasswordsTakeHold` (assuming `~LoginRaces`): versions of the password grow, and
  what a login or an exchange has read still holds while its session lives (`PasswordInv`).
* `NobodyIsTakenForAThief`: while no answer was lost and no call overlapped another, one call
  waits at most, it exchanges the cookie, and the cookie or the grant on its way is what
  the session was last given (`InOrder`).
* `SomebodyStaysInCharge` (assuming `~EditRaces`, `~StaleTokens`, `~RemovesAdmins`): tokens
  follow the accounts and the one edit under way demotes a super administrator only beside
  another (`AccountsInv`).
* `TheRightPeopleHear`: no assumption. Rooms and recipients are computed from different rows,
  role by role, and come to the same people.
* `NothingOfferedIsRefused` (assuming `~Demotions`): the page on screen and its open panels
  are ones the session may open (`Stands`), through logins, refreshes, forced passwords and
  navigation. That their requests are accepted is then a lemma per page, for every role that
  may see it.
* `ScreensShowWhatWasSaved` (assuming `~QuickReturns`, `~SlowLoads`, and that the model value `None`
  is no set): an open screen is being asked again, or is about to be by the save, the punch,
  the notice or a push under way (`Awaits`), or every change is shown, waits in the answer, or
  is one its save is known to overlook (`Known`). What makes this inductive is that an answer waits
  only where a refresh would ask again (`Loads`). That each of the 26 saves refreshes, pushes to
  or is known to overlook every query that reads what it changes is a lemma over all of them
  (`SavesFollow`).

Properties proved here whose small instances are not among the runs, to make room for
others: `TypeCorrect` of the modules, `LockExclusion`, `OneTransaction`, `ClaimExcludes`,
`BoundedAttempts`, `NeverTooLate`, `OneSchedule` and `PunchesInOrder`. `NoOverlap` is checked as
part of `LeavesStand`. It compares what a filing saw with what was stored before it by a history
field (`seen`, the number of requests at its check) that no action reads.

Model-checked only: in `people` `NeverOverdrawn` (the other half of
`LeavesStand`), `LossesAreForeseen`, `PresenceIsWorkingTime`, `LeaveNeverHurts` and
`ReportsAgree`; in `days` `PreviewComesTrue`. Liveness
(`EventuallyStored`, `DaysAreClosed`, `Delivered`) is out of the prover's reach and stays with
TLC, and so does what folds over sequences compute for every input (`VacationRules`,
`DayFigures`): the library states induction with an operator as a parameter, which the provers
do not instantiate. Induction over sets they do: `LeastOf` (a set of numbers has a least one) and
`AllOf` of `PlatformProofs` are derived from the well-foundedness of the finite subsets, and
carry the proofs about places in a search and about the checksum.

## 6. Where the code and its documentation part

* `lostupdate`: two recomputations of one day overlap and the one that read first saves
  last (`attendance-processing.service.ts:310`); the record stays at the older facts.
* `moved`: a holiday takes the night shift of its date away; the punch of the next morning
  leaves the night's record, and the record of the date it belongs to now is not
  recomputed (`work-schedules.service.ts:476`). It is on no record, or on two once the
  holiday is removed.
* `drafts`: the form of the rules is filled once and compared with what is cached by the time it
  is saved (`SettingsPage.tsx:258`), so a rule another person changed meanwhile is sent back
  as it was, which the comment at line 268 says does not happen.

Further limits of the code. Those with a switch or a bound are reproduced by changing it in the
run; the others were met while modelling and are stated in the modules or left out of them.

Punches and days:

| Change | What fails | Where |
|---|---|---|
| `SlowSync` in `ingestion` | two syncs at a time: the lock of a sync still running after ten minutes is taken over | `device-sync.service.ts:23` |
| none: `edits` has it | a sync, a flush or a probe that looked at a device before it was disabled brings it back ("false = DISABLED (no sync, no realtime)", `devices.dto.ts:170`). `DisabledStaysDisabled` bounds it to those handlers | `device-sync.service.ts:79`, `101`, `109`, `233` |
| `EditsWhileBusy` in `ingestion` | `NothingSkipped`: a sync writes the old terminal's cursor over a row pointed at another one, which the comment at `devices.service.ts:111-114` sets out to prevent | `device-sync.service.ts:104` |
| `CoveredIsProcessed` without its condition on faults | a fault between insert and recomputation: the rows are duplicates the next time and their day is not recomputed, which the comment at line 251 does not expect | `device-sync.service.ts:251` |
| - | a punch refused as `FUTURE_TIMESTAMP` lies below the cursor and is not offered again | `ingestion-pipeline.ts:86` |
| `PlanRaces` in `records` | `RecordsCurrent`: a range is computed with a calendar that has changed since | `attendance-processing.service.ts:101` |
| a request among `Mortal` in `records` | `RecordsCurrent`: a crash between a change and its recomputation is not made up for | `attendance.service.ts:221` |
| `ReviewRaces` in `office` | `ReviewedKept`: a recomputation or a second review overwrites a decision | `attendance-processing.service.ts:390`, `overtime.service.ts:79` |
| `MaxGap = 3` in `days` | `DaysAreClosed`: after an outage as long as the look-back a day stays without a record | `attendance-processing.service.ts:239` |
| `After = 5` in `days` | `NearestOfAll`: the window of a shift that ends late reaches the second next date, and only the dates next to a punch are asked | `work-calendar.service.ts:65` |
| - | editing a shift or a weekly schedule recomputes nothing | `work-schedules.service.ts:77` |
| - | days outside the employment are computed when punches fall on them, although the form says such a punch "no cuenta" | `ManualPunchForm.tsx:256` |
| a day whose window ends before its shift | `LeaveNeverHurts`: a leave on a day still open may charge an early exit | `attendance-calculator.ts:280` |

Figures and documents (left out of the properties): punches of one instant are read in the order of the
database; adjacent leaves are not merged, and a leave inside the shift does not reduce lateness;
with keys (`DEVICE_TYPE`) a day whose first stretch lacks an entry is printed without hours
although its hours are in the total (`NoEntry`); a day of a single exit is absent on the
dashboard and incomplete in its record; the dashboard does not move the arrival hour by a
morning leave, as the board does; the month document leaves removed employees out, unlike the comment at
`reports.service.ts:153`.

People:

| Change | What fails | Where |
|---|---|---|
| `IngestRaces`, `SaveRaces` | `PunchesFindTheirEmployee`: a punch stays unmatched for ever | `employees.service.ts:193` |
| `AssignRaces` | `CataloguesStand`: an employee is left with a removed department, or silently without contract type | `contract-types.service.ts:114` |
| `RenameRaces` | a removed row keeps a plain name nobody can use again | `departments.service.ts` |
| `WeekRaces` | two saves of a weekly schedule add up; two partial updates make an overnight flexible shift | `work-schedules.service.ts:523` |
| `UndoSwallowed`, `UnassignRaces` | `OneScheduleADay`: an undo beside another edit leaves a gap or an overlap | `work-schedules.service.ts:286` |
| none: `people` has it | two overlapping requests filed at once are both accepted; `LeavesStand` excepts only those the later of which was checked before the earlier was stored | `leave-requests.service.ts:146` |
| `RequestRaces` | `LeavesStand`, `LeavesRecorded`: a request is approved and cancelled | `leave-requests.service.ts` |
| `Crashes` | `LeavesRecorded`: the days are not recomputed | `leave-requests.service.ts` |
| `Straddling`; a longer `Horizon` | `LeavesStand`; `LossesAreForeseen` | `vacation-expiry.ts:68` |
| `LoginRaces` | `PasswordsTakeHold`: a login that verified the old password opens a session after it was replaced | `auth.service.ts` |
| a second lost answer or overlapping calls | reuse is detected and the session ends, although `web/src/lib/api.ts:59-61` says it stands | `auth.service.ts:123` |
| `EditRaces` | `AccountsStayUsable`: two super administrators demote each other | `users.service.ts:105` |
| `StaleTokens` | a token keeps the role it was issued for until it expires | `jwt-auth.guard.ts:29` |
| `RemovesAdmins` | removing the employee of the last super administrator deactivates the account; `create-admin` makes another | `employees.service.ts` |

Removing an employee deactivates the account without revoking its sessions, so that
reactivating it revives them.

Terminals:

| Change | What fails | Where |
|---|---|---|
| `SlowRun` in `claims` | `SentOnce`: a claim bears the time its run started, so a run longer than `STALE_CLAIM_MS` makes claims that are stale at once | `notification-email.dispatcher.ts:105` |
| `UpdateRaces` | `NoSettingLost`: two updates, or an update and a load, undo one another | `settings.service.ts:77` |
| `Returns` | `NoSettingLost`: the page reopened while its save is under way | `SettingsPage.tsx:258` |
| `Overlaps` (`ZkFrames`) | `AnswersArrive`: two connects at once leave a second socket on the same buffer | `zkteco-client.ts` |
| `Crossings`, `HardResets` | `NothingMissed`: an event recorded behind the search; a counter restarted unseen or during a search; a clock set back by more than `SEARCH_END_MARGIN_MS` before a download (against `docs/device-integration.md:42`) | `hikvision.adapter.ts:381` |
| `Shares` | `RefusedForCause`: overlapping calls on a terminal that takes each count once | `isapi-client.ts:69` |
| `Overlaps` (`DeviceAdapters`) | `PushesAreWanted`: two listeners | `device-connection.manager.ts` |
| `Overlaps`, `LongOutages` (`DeviceIncidents`) | `OutagesAreTold`: announced twice, or a recovery never, its notice purged before (against `notifications.service.ts:149-153`) | `notifications.service.ts:158` |

After a dropped socket a ZKTeco adapter still thinks it is connected and `connect` returns
early (`zkteco.adapter.ts:89`), so a retry fails, against `device-sync.service.ts:275`. A damaged
packet stays in the buffer until the connection is made anew. Eighteen users of the
28-byte format are read as records of 72 bytes (`protocol.ts:175`). A reading in
the repeated hour is ambiguous unless it has an offset, and two-digit years wrap in 2100. One lost request of a Hikvision probe fails all
that follows as not connected; a terminal with a limit below `SMALL_PAGE_SIZE`, or a list longer
than `MAX_PAGES`, fails for good. Every sync changes the version of the row, so the next one
rebuilds the adapter and drops the live subscription until a probe, an edit or a
restart makes it again (against `README.md:37`). A sync with a stale row makes an
adapter for a removed device.

The web client:

| Change | What fails | Where |
|---|---|---|
| `QuickReturns` | `ScreensFollow`: `event.created` clears the mark `record.updated` left, against the comment there | `realtime.ts:49` |
| `SlowLoads` | `ScreensFollow`: an answer overtaken by a save whose form does not refresh the query | `realtime.ts:51` |
| entries of `Overlooked` | `ScreensFollow`: saves that leave a screen old until it is asked again (15 s or the minute poll) | the `onSuccess` of each form |
| `Demotions` | `NothingForbidden`: a session refreshed with a lower role keeps its page and panels, whose requests are refused (against `lib/accounts.ts:16`) | `App.tsx:57` |

A reconnected socket does not catch up on what was pushed meanwhile, and the gateway verifies a
token at the connection only (`realtime.ts:45`).

## 7. Not modelled

Logging, audit rows, sync logs (nothing reads them back); validation of request bodies
(DTOs), whose refusals change nothing; layout, words and styles of screens, PDF and
workbook files; failed logins, throttling and the expiry of sessions; the handshake
with a ZKTeco communication key and the users of terminals; the drift of clocks a probe
warns of; the generated work days of the simulator and the endpoints that inject them; configuration, health,
migrations, seed and the command line but for `create-admin`; the adapter registry (a table)
and `forEachLimit`, whose callers do not depend on the order of the items. Time zones
with daylight saving are in `DeviceReadings` and not in `DayAttribution`, where every date
has the same length. `PROJECT.json` says for each component what is left out.
