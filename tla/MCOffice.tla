------------------------------- MODULE MCOffice ------------------------------
(***************************************************************************)
(* Model-checking instance of what people do with the server: the sessions *)
(* of a browser, the accounts and who hears and reviews what, the review   *)
(* of overtime while days are recomputed (the instance of                  *)
(* AttendanceRecords that this module extends), what the screens of an     *)
(* account ask of the API, and the screens that show all that.  The        *)
(* components share nothing here, so a behaviour is about one of them,     *)
(* chosen at the start, and the same interchangeable values serve as       *)
(* changers, tabs and users, and as punches and employees.                 *)
(***************************************************************************)
EXTENDS MCAttendanceRecords, Integers, Sequences

CONSTANTS
    Tabs, MaxTokens, MaxAccountChanges, MaxMishaps, LoginRaces,
    Users, Employees, Kept, MaxEdits, MaxRequests, EditRaces, StaleTokens, RemovesAdmins,
    MaxScreenChanges, QuickReturns, SlowLoads,
    MaxRoleChanges, Demotions

VARIABLES
    focus,  \* which of them this behaviour is about
    account, sessions, tokens, cookie, access, calls, mishaps, changes,
    accounts, staff, claims, edit, edits, sockets, requests, notify,
    watched, shownChanges, saved, save, started, punch, notice, pushes, entry,
    row, stands, session, page, open, roleChanges

browser == <<account, sessions, tokens, cookie, access, calls, mishaps, changes>>
people == <<accounts, staff, claims, edit, edits, sockets, requests, notify>>
screens == <<watched, shownChanges, saved, save, started, punch, notice, pushes, entry>>
offered == <<row, stands, session, page, open, roleChanges>>
allVars == <<focus, vars, browser, people, screens, offered>>

S == INSTANCE Sessions WITH MaxChanges <- MaxAccountChanges
U == INSTANCE Audiences WITH tokens <- claims
W == INSTANCE WebScreens WITH changes <- shownChanges, begun <- saved,
                              MaxChanges <- MaxScreenChanges
P == INSTANCE WebAccess WITH changes <- roleChanges, MaxChanges <- MaxRoleChanges

ASSUME NoneIsNoAccount ==
    None \notin [role : U!Roles, active : BOOLEAN, employee : Employees \cup {None}]

ASSUME NoneIsNoSave ==
    None \notin Nat /\ None # "push" /\ None \notin [kind : DOMAIN W!Saves, at : {"days", "answer"}]

InitAll ==
    /\ focus \in {"review", "sessions", "rooms", "reviews", "screens", "access"}
    /\ Init /\ S!Init /\ U!Init /\ W!Init /\ P!Init
    \* What a behaviour is not about starts in one way.
    /\ focus \notin {"rooms", "reviews"} => \A e \in Employees : staff[e].supervisor = None
    /\ focus # "screens" => watched = "bell"
    /\ focus # "access" => row = [role |-> "HR", linked |-> FALSE, pending |-> FALSE]

NextAny ==
    \/ focus = "review" /\ Next /\ UNCHANGED <<focus, browser, people, screens, offered>>
    \/ focus = "sessions" /\ S!Next /\ UNCHANGED <<focus, vars, people, screens, offered>>
    \/ /\ \/ focus = "rooms" /\ (U!Manage \/ U!HandleSockets)
          \/ focus = "reviews" /\ (U!Manage \/ U!HandleRequests)
       /\ UNCHANGED <<focus, vars, browser, screens, offered>>
    \/ focus = "screens" /\ W!Next /\ UNCHANGED <<focus, vars, browser, people, offered>>
    \/ focus = "access" /\ P!Next /\ UNCHANGED <<focus, vars, browser, people, screens>>

SpecAll == InitAll /\ [][NextAny]_allVars

(* The properties beside those of AttendanceRecords, explained in their    *)
(* modules: a replaced password keeps nobody signed in, and one that       *)
(* somebody else chose must be replaced,                                   *)
PasswordsTakeHold == S!OldPasswordsAreOut /\ S!PendingIsFlagged
(* who calls once at a time is not signed out as a thief,                  *)
NoFalseAlarm == S!NoFalseAlarm
(* accounts stay usable,                                                   *)
AccountsStayUsable == U!AccountsStayUsable
(* a punch is heard by who may see it, a request is told to who may review *)
(* it,                                                                     *)
RightPeopleHear == U!HeardIsSeen /\ U!ReviewersAreTold
(* a screen asks for nothing the API refuses to its session,               *)
NothingForbidden == P!NothingForbidden
(* and a screen shows what its tab saved and the server pushed.            *)
ScreensFollow == W!ScreensFollow
=============================================================================
