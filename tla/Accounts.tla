------------------------------- MODULE Accounts -------------------------------
(***************************************************************************)
(* Who may do what: the accounts (users.service, create-admin), the        *)
(* employees they are linked to (employees.service), the roles and their   *)
(* permissions (rbac.ts), the scope of a role (access-scope.service), and  *)
(* the access tokens, which keep the role and the employee they were       *)
(* issued for (jwt-auth.guard).                                            *)
(***************************************************************************)
EXTENDS Naturals, FiniteSets

CONSTANTS
    Users, Employees, None,
    Kept,           \* what an update does not mention
    MaxEdits,       \* bound on edits of accounts and employees
    EditRaces,      \* an update of an account may begin while another goes on
    StaleTokens,    \* a token may outlive the role it was issued for
    RemovesAdmins   \* the employee of a super administrator may be removed

VARIABLES
    accounts,   \* of each user: role, active, employee; or None
    staff,      \* of each employee: supervisor (or None), deleted
    tokens,     \* of each user: the claims of an access token, or None
    edit,       \* the updates between their read and their write
    edits

accountVars == <<accounts, staff, tokens, edit, edits>>

-----------------------------------------------------------------------------
(* Roles.                                                                  *)

Roles == {"SUPER_ADMIN", "ADMIN", "HR", "SUPERVISOR", "EMPLOYEE"}
Unscoped == {"SUPER_ADMIN", "ADMIN", "HR"}
ScopedRoles == {"SUPERVISOR", "EMPLOYEE"}
PrivilegedRoles == {"SUPER_ADMIN", "ADMIN"}

\* ROLE_PERMISSIONS, of the permissions the operations below ask for.
Withheld(role) ==
    CASE role \in PrivilegedRoles -> {}
      [] role = "HR" -> {"users:write", "devices:sync"}
      [] role = "SUPERVISOR" -> {"users:write", "employees:write", "devices:sync", "devices:read"}
      [] role = "EMPLOYEE" -> {"users:write", "employees:write", "devices:sync", "devices:read",
                               "leave:approve", "overtime:approve", "dashboard:read"}

HasPermission(role, permission) == permission \notin Withheld(role)

RolesWith(permission) == {role \in Roles : HasPermission(role, permission)}

(* employeeWhere: the employees a bearer of these claims may see.          *)
Scope(claims) ==
    CASE claims.role \in Unscoped -> Employees
      [] claims.role = "SUPERVISOR" ->
            {e \in Employees : claims.employee # None
                               /\ claims.employee \in {e, staff[e].supervisor}}
      [] OTHER -> {e \in Employees : e = claims.employee}

-----------------------------------------------------------------------------
(* Tokens.  That one expires is left out: who holds it need not use it.    *)

Exists(u) == accounts[u] # None

Active(u) == Exists(u) /\ accounts[u].active

ClaimsOf(account) == [role |-> account.role, employee |-> account.employee]

Claims(role, employee) == [role |-> role, employee |-> employee]

\* Who calls, with a permission the guard finds in the claims.
MayCall(u, permission) ==
    tokens[u] # None /\ HasPermission(tokens[u].role, permission)

\* What an edit leaves of the tokens in use.
Reissued ==
    [u \in Users |->
        IF StaleTokens \/ tokens[u] = None THEN tokens[u]
        ELSE IF accounts'[u].active THEN ClaimsOf(accounts'[u]) ELSE None]

\* A login or a refresh.
SignIn(u) ==
    /\ Active(u) /\ tokens[u] # ClaimsOf(accounts[u])
    /\ tokens' = [tokens EXCEPT ![u] = ClaimsOf(accounts[u])]
    /\ UNCHANGED <<accounts, staff, edit, edits>>

-----------------------------------------------------------------------------
(* Accounts.                                                               *)

\* assertCanGrant.
CanGrant(u, role) == role \in PrivilegedRoles => tokens[u].role = "SUPER_ADMIN"

\* assertScopedRoleHasEmployee.
Linked(role, employee) == role \in ScopedRoles => employee # None

\* The employee of an account is unique to it.
Unlinked(u, employee) ==
    employee # None => \A v \in Users \ {u} : Exists(v) => accounts[v].employee # employee

Edited == edits < MaxEdits /\ edits' = edits + 1

CreateUser(by, u, role, employee) ==
    /\ Edited /\ ~Exists(u)
    /\ MayCall(by, "users:write") /\ CanGrant(by, role)
    /\ Linked(role, employee) /\ Unlinked(u, employee)
    /\ accounts' = [accounts EXCEPT ![u] = [role |-> role, active |-> TRUE, employee |-> employee]]
    /\ UNCHANGED <<staff, tokens, edit>>

Applied(dto, account) ==
    [role |-> IF dto.role = Kept THEN account.role ELSE dto.role,
     active |-> IF dto.active = Kept THEN account.active ELSE dto.active,
     employee |-> IF dto.employee = Kept THEN account.employee ELSE dto.employee]

\* Mutant: a removed link is taken for an absent one.
EndsUpCoalescing(dto, account) ==
    Applied(IF dto.employee = None THEN [dto EXCEPT !.employee = Kept] ELSE dto, account)

(* The account as it would end up.                                         *)
EndsUp(dto, account) == Applied(dto, account)

\* Nobody changes their own role or deactivates themselves.
OthersOnly(by, u, dto) == by = u => dto.role = Kept /\ dto.active # FALSE

(* update: judged on the account as read, and written as asked.            *)
BeginUpdate(by, u, dto) ==
    /\ Edited /\ Exists(u) /\ (EditRaces \/ edit = {})
    /\ MayCall(by, "users:write") /\ OthersOnly(by, u, dto)
    /\ CanGrant(by, accounts[u].role)
    /\ dto.role # Kept => CanGrant(by, dto.role)
    /\ LET after == EndsUp(dto, accounts[u]) IN Linked(after.role, after.employee)
    /\ edit' = edit \cup {[user |-> u, dto |-> dto]}
    /\ UNCHANGED <<accounts, staff, tokens>>

\* A link somebody else has by now is refused by the database.
CommitUpdate(job) ==
    LET written == [accounts EXCEPT ![job.user] = Applied(job.dto, @)] IN
    /\ job \in edit
    /\ edit' = edit \ {job}
    /\ accounts' = IF Unlinked(job.user, written[job.user].employee) THEN written ELSE accounts
    /\ tokens' = Reissued
    /\ UNCHANGED <<staff, edits>>

(* create-admin, on the server: the first super administrator, or a lost   *)
(* one brought back.                                                       *)
CreateAdmin(u) ==
    /\ \/ /\ ~\E v \in Users : Active(v) /\ accounts[v].role = "SUPER_ADMIN"
          /\ ~Exists(u)
          /\ accounts' = [accounts EXCEPT ![u] =
                            [role |-> "SUPER_ADMIN", active |-> TRUE, employee |-> None]]
       \/ /\ Exists(u) /\ accounts[u].role = "SUPER_ADMIN" /\ ~accounts[u].active
          /\ accounts' = [accounts EXCEPT ![u].active = TRUE]
    /\ UNCHANGED <<staff, tokens, edit, edits>>

-----------------------------------------------------------------------------
(* Employees.                                                              *)

\* update: a supervisor is another employee, and there.
SetSupervisor(by, e, s) ==
    /\ Edited /\ MayCall(by, "employees:write")
    /\ ~staff[e].deleted /\ s # e /\ s # staff[e].supervisor
    /\ s # None => ~staff[s].deleted
    /\ staff' = [staff EXCEPT ![e].supervisor = s]
    /\ UNCHANGED <<accounts, tokens, edit>>

(* remove: the account of the employee is deactivated, their reports have  *)
(* no supervisor.                                                          *)
RemoveEmployee(by, e) ==
    /\ Edited /\ MayCall(by, "employees:write") /\ ~staff[e].deleted
    /\ RemovesAdmins \/ \A u \in Users :
          Exists(u) /\ accounts[u].employee = e => accounts[u].role # "SUPER_ADMIN"
    /\ staff' = [d \in Employees |->
          IF d = e THEN [staff[e] EXCEPT !.deleted = TRUE]
          ELSE IF staff[d].supervisor = e THEN [staff[d] EXCEPT !.supervisor = None]
          ELSE staff[d]]
    /\ accounts' = [u \in Users |->
          IF Exists(u) /\ accounts[u].employee = e THEN [accounts[u] EXCEPT !.active = FALSE]
          ELSE accounts[u]]
    /\ tokens' = Reissued
    /\ UNCHANGED edit

-----------------------------------------------------------------------------
Dto == [role : Roles \cup {Kept}, active : BOOLEAN \cup {Kept}, employee : Employees \cup {None, Kept}]

ManageAccounts ==
    \/ \E u \in Users : SignIn(u) \/ CreateAdmin(u)
    \/ \E job \in edit : CommitUpdate(job)
    \/ \E by \in Users :
          \/ \E u \in Users, role \in Roles, e \in Employees \cup {None} : CreateUser(by, u, role, e)
          \/ \E u \in Users, dto \in Dto : BeginUpdate(by, u, dto)
          \/ \E e \in Employees, s \in Employees \cup {None} : SetSupervisor(by, e, s)
          \/ \E e \in Employees : RemoveEmployee(by, e)

\* Nobody has an account; employees were imported with their supervisors.
AccountsInit ==
    /\ accounts = [u \in Users |-> None]
    /\ \E f \in [Employees -> Employees \cup {None}] :
          /\ \A e \in Employees : f[e] # e
          /\ staff = [e \in Employees |-> [supervisor |-> f[e], deleted |-> FALSE]]
    /\ tokens = [u \in Users |-> None]
    /\ edit = {} /\ edits = 0

-----------------------------------------------------------------------------
(* Properties.                                                             *)

(* Accounts stay usable: once there is one, somebody active is a super     *)
(* administrator, without whom no administrator can be managed, and whom   *)
(* nobody may change but another who stays (update); and an account whose  *)
(* role is scoped to its employee has one (assertScopedRoleHasEmployee).   *)
AccountsStayUsable ==
    /\ (\E u \in Users : Exists(u)) =>
          \E u \in Users : Active(u) /\ accounts[u].role = "SUPER_ADMIN"
    /\ \A u \in Users : Exists(u) => Linked(accounts[u].role, accounts[u].employee)
=============================================================================
