------------------------------ MODULE Audiences -------------------------------
(***************************************************************************)
(* Who is told of what, beside who may see and do it: the sockets and      *)
(* their rooms (realtime.gateway, realtime.service), the recipients of     *)
(* notifications (notifications.service), and what the services let a user *)
(* do about a request (leave-requests.service, access-scope.service).      *)
(***************************************************************************)
EXTENDS Accounts

CONSTANTS MaxRequests   \* bound on leave requests not cancelled and notifications to be sent

VARIABLES
    sockets,    \* of each user: the claims its socket was let in with, or None
    requests,   \* leave requests not cancelled: employee, by, pending
    notify      \* notifications still to be sent: type, request, and by whom it was reviewed

vars == <<accountVars, sockets, requests, notify>>

-----------------------------------------------------------------------------
(* Sockets.                                                                *)

\* handleConnection: the rooms of the claims.
RoomsOf(u, claims) ==
    {<<"user", u>>}
      \cup (IF HasPermission(claims.role, "devices:read") THEN {<<"devices">>} ELSE {})
      \cup (IF claims.role \in Unscoped THEN {<<"attendance:all">>}
            ELSE IF claims.employee = None THEN {}
            ELSE {<<"attendance:employee", claims.employee>>}
                   \cup (IF claims.role = "SUPERVISOR"
                         THEN {<<"attendance:supervisor", claims.employee>>} ELSE {}))

Connect(u) ==
    /\ tokens[u] # None /\ sockets[u] = None
    /\ sockets' = [sockets EXCEPT ![u] = tokens[u]]
    /\ UNCHANGED <<accountVars, requests, notify>>

Disconnect(u) ==
    /\ sockets[u] # None
    /\ sockets' = [sockets EXCEPT ![u] = None]
    /\ UNCHANGED <<accountVars, requests, notify>>

Hearing(rooms) ==
    {u \in Users : sockets[u] # None /\ RoomsOf(u, sockets[u]) \cap rooms # {}}

\* Mutant: a punch goes to the employee and to whoever sees all.
AudienceWithoutSupervisor(e) ==
    {<<"attendance:all">>} \cup (IF e = None THEN {} ELSE {<<"attendance:employee", e>>})

(* emitAttendance.                                                         *)
Audience(e) ==
    {<<"attendance:all">>}
      \cup (IF e = None THEN {} ELSE {<<"attendance:employee", e>>}
              \cup (IF staff[e].supervisor = None THEN {}
                    ELSE {<<"attendance:supervisor", staff[e].supervisor>>}))

(* publishCreated, attendanceRecordUpdated: who hears of a punch of e, or  *)
(* of nobody known.                                                        *)
Hears(e) == Hearing(Audience(e))

-----------------------------------------------------------------------------
(* Leave requests.                                                         *)

\* create: for oneself or, within the scope, for another.
Request(u, e) ==
    LET r == [employee |-> e, by |-> u, pending |-> TRUE] IN
    /\ Cardinality(requests) + Cardinality(notify) < MaxRequests
    /\ MayCall(u, "leave:request") /\ e \in Scope(tokens[u])
    /\ requests' = requests \cup {r}
    /\ notify' = notify \cup {[type |-> "LEAVE_REQUESTED", request |-> r, reviewer |-> None]}
    /\ UNCHANGED <<accountVars, sockets>>

\* What review asks of the reviewer.
MayReview(claims, r) ==
    /\ HasPermission(claims.role, "leave:approve")
    /\ r.employee \in Scope(claims)
    /\ r.employee # claims.employee

Review(u, r) ==
    /\ r \in requests /\ tokens[u] # None /\ MayReview(tokens[u], r) /\ r.pending
    /\ Cardinality(notify) < MaxRequests
    /\ requests' = (requests \ {r}) \cup {[r EXCEPT !.pending = FALSE]}
    /\ notify' = notify \cup {[type |-> "LEAVE_REVIEWED", request |-> r, reviewer |-> u]}
    /\ UNCHANGED <<accountVars, sockets>>

\* cancel: by who asked for it, or by whoever sees everybody.
Cancel(u, r) ==
    /\ r \in requests /\ MayCall(u, "leave:request") /\ r.employee \in Scope(tokens[u])
    /\ r.by = u \/ tokens[u].role \in Unscoped
    /\ requests' = requests \ {r}
    /\ UNCHANGED <<accountVars, sockets, notify>>

-----------------------------------------------------------------------------
(* Notifications.                                                          *)

AccountOf(e) == {u \in Users : Exists(u) /\ accounts[u].employee = e}

\* Mutant: the scoped reviewers are not looked for.
ReviewersUnscoped(r) ==
    {u \in Users : Active(u) /\ accounts[u].role \in RolesWith("leave:approve") \ ScopedRoles}

(* leaveRequested: who may review, everybody's or their own reports'.      *)
ReviewersOf(r) ==
    LET roles == RolesWith("leave:approve")
        supervisor == staff[r.employee].supervisor
    IN {u \in Users :
           /\ Active(u)
           /\ \/ accounts[u].role \in roles \ ScopedRoles
              \/ /\ accounts[u].role \in roles \cap ScopedRoles
                 /\ supervisor # None /\ accounts[u].employee = supervisor}

Recipients(n) ==
    LET employee == n.request.employee IN
    IF n.type = "LEAVE_REQUESTED"
    THEN ReviewersOf(n.request) \ (AccountOf(employee) \cup {n.request.by})
    ELSE (AccountOf(employee) \cup {n.request.by}) \ {n.reviewer}

Send(n) ==
    /\ n \in notify
    /\ notify' = notify \ {n}
    /\ UNCHANGED <<accountVars, sockets, requests>>

-----------------------------------------------------------------------------
Init ==
    /\ AccountsInit
    /\ sockets = [u \in Users |-> None]
    /\ requests = {} /\ notify = {}

Manage == ManageAccounts /\ UNCHANGED <<sockets, requests, notify>>

HandleSockets == \E u \in Users : Connect(u) \/ Disconnect(u)

HandleRequests ==
    \/ \E u \in Users :
          \/ \E e \in Employees : Request(u, e)
          \/ \E r \in requests : Review(u, r) \/ Cancel(u, r)
    \/ \E n \in notify : Send(n)

Next == Manage \/ HandleSockets \/ HandleRequests

Spec == Init /\ [][Next]_vars

-----------------------------------------------------------------------------
(* Properties.                                                             *)

\* Whether a bearer of these claims finds a punch in the lists (relationWhere).
Sees(claims, e) ==
    claims.role \in Unscoped \/ (e # None /\ e \in Scope(claims))

(* A punch is heard live by exactly those connected who, with the role and *)
(* the employee they connected with, find it in their lists: the rooms of  *)
(* the gateway and the scope of the queries agree.                         *)
HeardIsSeen ==
    \A e \in Employees \cup {None} :
        Hears(e) = {u \in Users : sockets[u] # None /\ Sees(sockets[u], e)}

(* Everybody who could decide a new request is told of it, but who filed   *)
(* it, and nobody else is: the recipients follow the roles and the reports *)
(* as they are when it is sent, as the check of a review does              *)
(* (leaveRequested, review).                                               *)
ReviewersAreTold ==
    \A n \in notify :
        n.type = "LEAVE_REQUESTED" =>
            Recipients(n) = {u \in Users : Active(u) /\ MayReview(ClaimsOf(accounts[u]), n.request)}
                              \ {n.request.by}
=============================================================================
