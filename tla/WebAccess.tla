------------------------------ MODULE WebAccess ------------------------------
(***************************************************************************)
(* What the screens of the web client ask of the API, and what the API     *)
(* answers to whom.  Permissions are decided twice: the API from the role  *)
(* in the token, route by route; the client from the role in its session,  *)
(* when a page is opened (the route guard), when a panel is opened, and    *)
(* every time a button or a query is drawn.  Roles change while people     *)
(* work, and a session takes the new role only when it is refreshed: the   *)
(* page and the panels opened before stay.                                 *)
(***************************************************************************)
EXTENDS Naturals, FiniteSets

CONSTANTS
    None,
    MaxChanges,  \* bound: changes of the role, resets of the password
    Demotions    \* may a session that loses a permission be refreshed behind a page?

VARIABLES
    row,      \* the account: role, linked to an employee, password to be replaced
    stands,   \* does the refresh token in the cookie stand?
    session,  \* what the browser holds of the account, or None
    page,     \* the page shown, None without a session
    open,     \* panels and forms open on it
    changes

vars == <<row, stands, session, page, open, changes>>

Roles == {"SUPER_ADMIN", "ADMIN", "HR", "SUPERVISOR", "EMPLOYEE"}
ScopedRoles == {"SUPERVISOR", "EMPLOYEE"}
PrivilegedRoles == {"SUPER_ADMIN", "ADMIN"}

-----------------------------------------------------------------------------
(* What an account may do: the permissions of its role; two powers are not *)
(* in that table, the accounts of administrators and what is asked for     *)
(* one's own employee.                                                     *)

SupervisorPermissions ==
    {"dashboard:read", "employees:read", "attendance:read", "leave:read", "leave:request",
     "leave:approve", "overtime:read", "overtime:approve"}

HrPermissions ==
    SupervisorPermissions \cup
    {"employees:write", "organization:read", "organization:write", "schedules:read",
     "schedules:write", "attendance:write", "devices:read", "reports:read", "settings:read"}

RolePermissions(role) ==
    CASE role \in PrivilegedRoles ->
           HrPermissions \cup {"devices:write", "devices:sync", "users:read", "users:write",
                               "audit:read", "settings:write"}
      [] role = "HR" -> HrPermissions
      [] role = "SUPERVISOR" -> SupervisorPermissions
      [] role = "EMPLOYEE" -> {"attendance:read", "leave:read", "leave:request", "overtime:read"}

Powers(s) ==
    RolePermissions(s.role)
      \cup (IF s.role = "SUPER_ADMIN" THEN {"administrators"} ELSE {})
      \cup (IF s.linked THEN {"own employee"} ELSE {})

-----------------------------------------------------------------------------
(* The API: the routes of each controller, with what they require.         *)

Needing(powers, routes) == [needs : {powers}, route : routes]

\* Reading and writing a catalogue of the organization.
Catalogue(list, change) ==
    Needing({"organization:read"}, {list}) \cup Needing({"organization:write"}, {change})

AttendanceApi ==
    Needing({"attendance:read"}, {"list records", "list punches"})
      \cup Needing({"dashboard:read"}, {"presence board"})
      \cup Needing({"attendance:write"},
                   {"punch by hand", "preview punches", "void punch", "recompute days"})

AuditApi == Needing({"audit:read"}, {"list audit"})

\* Whose password somebody else chose may use these alone.
AuthApi == Needing({}, {"sign out", "change password", "own profile"})

ContractTypesApi == Catalogue("list contract types", "write contract type")

DashboardApi == Needing({"dashboard:read"}, {"day summary"})

DepartmentsApi == Catalogue("list departments", "write department")

PositionsApi == Catalogue("list positions", "write position")

DeviceSyncApi ==
    Needing({"devices:sync"}, {"sync device"}) \cup Needing({"devices:read"}, {"list syncs"})

DevicesApi ==
    Needing({"devices:read"}, {"list devices", "list drivers"})
      \cup Needing({"devices:write"}, {"write device", "simulate"})
      \cup Needing({"devices:sync"}, {"test connection"})

EmployeesApi ==
    Needing({"employees:read"}, {"list employees"})
      \cup Needing({"employees:write"}, {"write employee"})

LeaveApi ==
    Needing({"leave:read"}, {"list leaves"})
      \cup Needing({"leave:request", "own employee"}, {"request leave"})
      \cup Needing({"leave:approve"}, {"review leave"})

NotificationsApi ==
    Needing({}, {"count unread", "list notices", "mark read", "notice preferences"})

OvertimeApi ==
    Needing({"overtime:read"}, {"list overtime"})
      \cup Needing({"overtime:approve"}, {"review overtime"})

ReportsApi == Needing({"reports:read"}, {"report"})

SettingsApi ==
    Needing({"settings:read"}, {"read settings"}) \cup Needing({}, {"features"})
      \cup Needing({"settings:write"}, {"write policy"})

UsersApi ==
    Needing({"users:read"}, {"list accounts"})
      \cup Needing({"users:write"}, {"write account", "reset password"})
      \cup Needing({"users:write", "administrators"}, {"write administrator", "reset administrator"})

VacationsApi ==
    Needing({"leave:read"}, {"vacation balance"})
      \cup Needing({"employees:write"}, {"adjust vacation"})

SchedulesApi ==
    Needing({"schedules:read"},
            {"list shifts", "list schedules", "list holidays", "schedules of employee"})
      \cup Needing({"schedules:write"},
                   {"write shift", "write schedule", "write holiday", "assign schedule",
                    "undo assignment"})
      \cup Needing({"schedules:write", "settings:write"}, {"set up company"})

Api == AttendanceApi \cup AuditApi \cup AuthApi \cup ContractTypesApi \cup DashboardApi
         \cup DepartmentsApi \cup PositionsApi \cup DeviceSyncApi \cup DevicesApi
         \cup EmployeesApi \cup LeaveApi \cup NotificationsApi \cup OvertimeApi
         \cup ReportsApi \cup SettingsApi \cup UsersApi \cup VacationsApi \cup SchedulesApi

\* Every required permission must be held; behind a password somebody else
\* chose, only the routes that allow it answer.
Accepts(s, route) ==
    \E r \in IF s.pending THEN AuthApi ELSE Api :
       r.route = route /\ r.needs \subseteq Powers(s)

-----------------------------------------------------------------------------
(* The client: what a page or an open panel asks or offers to ask of the   *)
(* API, and which power it looks at, every time it is drawn, before it does. *)

Within(panel, powers, asks) == {[panel |-> panel, looks |-> powers, asks |-> asks]}

\* On the page itself.
Shows(powers, asks) == Within("page", powers, asks)

\* A panel, and the power its button looks at when it is drawn.
Panel(name, powers) == {[panel |-> name, looks |-> powers]}

DashboardPage ==
    [guard |-> {"dashboard:read"}, panels |-> {},
     parts |-> Shows({}, {"day summary", "features"})]

PresencePage ==
    [guard |-> {"dashboard:read"}, panels |-> {}, parts |-> Shows({}, {"presence board"})]

\* As a mutant: the table asks for the employees whoever looks at it.
EverybodysRecordsTable == Shows({}, {"list records", "list employees"})

\* The table of records offers a choice of employees to those who may list them.
RecordsTable == Shows({}, {"list records"}) \cup Shows({"employees:read"}, {"list employees"})

EventsTable == Shows({}, {"list punches"}) \cup Shows({"attendance:write"}, {"void punch"})

ManualPunchForm == Within("manual", {}, {"list employees", "preview punches", "punch by hand"})

AttendancePage ==
    [guard |-> {"attendance:read"},
     panels |-> Panel("manual", {"attendance:write"}),
     parts |-> RecordsTable \cup EventsTable \cup ManualPunchForm]

\* A new employee may be given a schedule at once.
EmployeeForm ==
    Within("form", {}, {"list departments", "list positions", "list contract types",
                        "list employees", "write employee"})
      \cup Within("form", {"schedules:read"}, {"list schedules"})

ContractPicker == Within("vacations", {"employees:write"}, {"list contract types", "write employee"})

AdjustmentForm == Within("vacations", {"employees:write"}, {"adjust vacation"})

VacationBalanceCard ==
    Within("vacations", {}, {"vacation balance"}) \cup ContractPicker \cup AdjustmentForm

AssignForm == Within("schedule", {"schedules:write"}, {"assign schedule"})

UndoLatest == Within("schedule", {"schedules:write"}, {"undo assignment"})

EmployeeScheduleCard ==
    Within("schedule", {}, {"schedules of employee", "list schedules"})
      \cup AssignForm \cup UndoLatest

EmployeesPage ==
    [guard |-> {"employees:read"},
     panels |-> Panel("form", {"employees:write"}) \cup Panel("vacations", {"leave:read"})
                  \cup Panel("schedule", {"schedules:read"}),
     parts |-> Shows({}, {"list employees"}) \cup EmployeeForm \cup VacationBalanceCard
                 \cup EmployeeScheduleCard]

\* Departments and positions alike.
CatalogCard ==
    Shows({}, {"list departments", "list positions"})
      \cup Shows({"organization:write"}, {"write department", "write position"})

CatalogForm == Within("form", {}, {"write department", "write position"})

OrganizationPage ==
    [guard |-> {"organization:read"},
     panels |-> Panel("form", {"organization:write"}),
     parts |-> CatalogCard \cup CatalogForm]

ContractTypeForm == Within("form", {}, {"write contract type"})

ContractTypesPage ==
    [guard |-> {"organization:read"},
     panels |-> Panel("form", {"organization:write"}),
     parts |-> Shows({}, {"list contract types"})
                 \cup Shows({"organization:write"}, {"write contract type"})
                 \cup ContractTypeForm]

SetupForm == Shows({"schedules:write", "settings:write"}, {"set up company"})

QuickSetupCard ==
    Shows({"schedules:write", "settings:write"}, {"list schedules", "features"}) \cup SetupForm

HolidayForm == Shows({"schedules:write"}, {"write holiday", "features"})

HolidaysCard ==
    Shows({}, {"list holidays"}) \cup Shows({"schedules:write"}, {"write holiday"})
      \cup HolidayForm

ShiftForm == Within("shift", {}, {"features", "write shift"})

ShiftsCard == Shows({}, {"list shifts"}) \cup ShiftForm

ScheduleForm == Within("week", {}, {"list shifts", "write schedule"})

WeeklySchedulesCard == Shows({}, {"list schedules"}) \cup ScheduleForm

SchedulesPage ==
    [guard |-> {"schedules:read"},
     panels |-> Panel("shift", {"schedules:write"}) \cup Panel("week", {"schedules:write"}),
     parts |-> Shows({}, {"list shifts"}) \cup QuickSetupCard \cup HolidaysCard
                 \cup ShiftsCard \cup WeeklySchedulesCard]

DeviceForm == Within("form", {}, {"list drivers", "write device"})

SimulatorPanel == Shows({"devices:write"}, {"simulate"})

DeviceCard ==
    Shows({"devices:sync"}, {"test connection", "sync device"}) \cup SimulatorPanel

DevicesPage ==
    [guard |-> {"devices:read"},
     panels |-> Panel("form", {"devices:write"}),
     parts |-> Shows({}, {"list devices", "list syncs"}) \cup DeviceCard \cup DeviceForm]

LeaveTable == Shows({}, {"list leaves"}) \cup Shows({"leave:approve"}, {"review leave"})

OvertimeTable ==
    Shows({}, {"list overtime"}) \cup Shows({"overtime:approve"}, {"review overtime"})

LeaveForm == Within("leave", {}, {"request leave"})

\* The balance and the form are for one's own employee.
RequestsPage ==
    [guard |-> {"leave:read"},
     panels |-> Panel("leave", {"leave:request", "own employee"}),
     parts |-> Shows({}, {"features"}) \cup Shows({"own employee"}, {"vacation balance"})
                 \cup LeaveTable \cup OvertimeTable \cup LeaveForm]

ReportsPage ==
    [guard |-> {"reports:read"}, panels |-> {}, parts |-> Shows({}, {"report", "features"})]

EmployeePicker(panel) == Within(panel, {}, {"list employees"})

\* The roles offered are those the person may grant.
AccountForm(panel, asks) == Within(panel, {}, asks) \cup EmployeePicker(panel)

\* The rows of administrators, and their roles, are a super administrator's.
ManagesAdministrators == {"users:write", "administrators"}

AccountRow ==
    Shows({"users:write"}, {"write account"})
      \cup Shows(ManagesAdministrators, {"write administrator"})

ResetPasswordForm ==
    Within("reset", {}, {"reset password"}) \cup Within("admin reset", {}, {"reset administrator"})

UsersPage ==
    [guard |-> {"users:read"},
     panels |-> Panel("account", {"users:write"}) \cup Panel("reset", {"users:write"})
                  \cup Panel("administrator", ManagesAdministrators)
                  \cup Panel("admin reset", ManagesAdministrators),
     parts |-> Shows({}, {"list accounts"}) \cup AccountRow \cup ResetPasswordForm
                 \cup AccountForm("account", {"write account"})
                 \cup AccountForm("administrator", {"write administrator"})]

AuditPage == [guard |-> {"audit:read"}, panels |-> {}, parts |-> Shows({}, {"list audit"})]

PolicyForm == Shows({}, {"list shifts"}) \cup Shows({"settings:write"}, {"write policy"})

RecomputeCard == Shows({"attendance:write"}, {"recompute days"})

SettingsPage ==
    [guard |-> {"settings:read"}, panels |-> {},
     parts |-> Shows({}, {"read settings"}) \cup PolicyForm \cup RecomputeCard]

ChangePasswordForm == Shows({}, {"change password"})

AccountPage == [guard |-> {}, panels |-> {}, parts |-> ChangePasswordForm]

Pages ==
    [dashboard |-> DashboardPage, presence |-> PresencePage, attendance |-> AttendancePage,
     employees |-> EmployeesPage, organization |-> OrganizationPage,
     contracts |-> ContractTypesPage, schedules |-> SchedulesPage, devices |-> DevicesPage,
     requests |-> RequestsPage, reports |-> ReportsPage, users |-> UsersPage,
     audit |-> AuditPage, settings |-> SettingsPage, account |-> AccountPage]

\* The bell stands beside every page; its list and switches are in a panel of
\* their own, which anybody may open.
EmailPreference == Within("bell", {}, {"notice preferences"})

NotificationBell ==
    Shows({}, {"count unread"}) \cup Within("bell", {}, {"list notices", "mark read"})
      \cup EmailPreference

\* Behind a password somebody else chose there is one form and the way out.
PasswordChangeRequiredPage == {"change password", "sign out"}

-----------------------------------------------------------------------------
(* A browser and the account it is signed in with.                         *)

Accounts == {a \in [role : Roles, linked : BOOLEAN, pending : BOOLEAN] :
               a.role \in ScopedRoles => a.linked}

Init ==
    /\ row \in Accounts /\ stands = FALSE
    /\ session = None /\ page = None /\ open = {} /\ changes = 0

\* Whoever may not see the dashboard starts at their attendance.
Home(s) == IF "dashboard:read" \in Powers(s) THEN "dashboard" ELSE "attendance"

\* The guard of a route is evaluated when one goes there, not again behind it.
Landing(s, p) == IF Pages[p].guard \subseteq Powers(s) THEN p ELSE Home(s)

\* The session s is drawn at the address of page p, with nothing open.
Enter(s, p) ==
    /\ session' = s
    /\ page' = IF s.pending THEN "password" ELSE Landing(s, p)
    /\ open' = {}

Leave == session' = None /\ page' = None /\ open' = {}

SignIn ==
    /\ session = None
    /\ stands' = TRUE
    /\ Enter(row, "dashboard")
    /\ UNCHANGED <<row, changes>>

SignOut ==
    /\ session # None
    /\ stands' = FALSE
    /\ Leave
    /\ UNCHANGED <<row, changes>>

\* A menu entry, a link, a notice.
Go(p) ==
    /\ page \in DOMAIN Pages
    /\ page' = Landing(session, p)
    /\ open' = {}
    /\ UNCHANGED <<row, stands, session, changes>>

\* That some forms of a page close one another is left out.
OpenPanel ==
    /\ page \in DOMAIN Pages
    /\ \E x \in Pages[page].panels \cup Panel("bell", {}) :
         x.looks \subseteq Powers(session) /\ open' = open \cup {x.panel}
    /\ UNCHANGED <<row, stands, session, page, changes>>

ClosePanel ==
    /\ \E x \in open : open' = open \ {x}
    /\ UNCHANGED <<row, stands, session, page, changes>>

\* A request answered 401 exchanges the refresh token for a new session: what
\* is drawn follows it, the page and the open panels stay.
Refresh ==
    /\ session # None
    /\ IF ~stands THEN Leave
       ELSE IF session.pending \/ row.pending THEN \E p \in DOMAIN Pages : Enter(row, p)
       ELSE /\ Demotions \/ Powers(session) \subseteq Powers(row)
            /\ session' = row
            /\ UNCHANGED <<page, open>>
    /\ UNCHANGED <<row, stands, changes>>

\* A page loaded anew asks for the session first.
Reload ==
    /\ IF stands THEN \E p \in DOMAIN Pages : Enter(row, p) ELSE Leave
    /\ UNCHANGED <<row, stands, changes>>

\* The other sessions are closed, this one stays; its mark goes with the next
\* refresh.
ChangePassword ==
    /\ page \in {"password", "account"}
    /\ row' = [row EXCEPT !.pending = FALSE]
    /\ UNCHANGED <<stands, session, page, open, changes>>

\* An administrator gives the account another role or employee; sessions stay.
ChangeAccount ==
    /\ changes < MaxChanges /\ changes' = changes + 1
    /\ row' \in {a \in Accounts : a.pending = row.pending}
    /\ UNCHANGED <<stands, session, page, open>>

\* An administrator chooses a password; the sessions are closed.
ResetPassword ==
    /\ changes < MaxChanges /\ changes' = changes + 1
    /\ row' = [row EXCEPT !.pending = TRUE]
    /\ stands' = FALSE
    /\ UNCHANGED <<session, page, open>>

Next ==
    \/ SignIn \/ SignOut \/ (\E p \in DOMAIN Pages : Go(p)) \/ OpenPanel \/ ClosePanel
    \/ Refresh \/ Reload \/ ChangePassword \/ ChangeAccount \/ ResetPassword

Spec == Init /\ [][Next]_vars

-----------------------------------------------------------------------------
\* What the present screen asks or offers to ask.
Asked ==
    IF page = "password" THEN PasswordChangeRequiredPage
    ELSE UNION {p.asks : p \in {x \in Pages[page].parts \cup NotificationBell :
                                  /\ x.panel \in open \cup {"page"}
                                  /\ x.looks \subseteq Powers(session)}}

(* "The UI offers only what the API will accept" (lib/accounts.ts:16):     *)
(* whatever the account became and whichever panels are open, nothing the  *)
(* screen asks or offers is refused to the session it is drawn for.        *)
NothingForbidden == session # None => \A route \in Asked : Accepts(session, route)

=============================================================================
