------------------------------- MODULE Sessions -------------------------------
(***************************************************************************)
(* The sessions of one account (auth.service.ts, auth.controller.ts), what *)
(* administrators do to the account meanwhile (users.service.ts, the       *)
(* removal of its employee, create-admin), and the browser that holds the  *)
(* refresh cookie and exchanges it (web/src/lib/api.ts).                   *)
(*                                                                         *)
(* Refresh tokens are numbered in the order they are issued.  A call of a  *)
(* tab runs in the server as separate reads and writes; its answer may     *)
(* arrive later, or never.                                                 *)
(***************************************************************************)
EXTENDS Integers, Sequences, FiniteSets

CONSTANTS
    Tabs,          \* tabs of the browser, which share the cookie
    None,
    MaxTokens,     \* bound on refresh tokens issued
    MaxChanges,    \* bound on changes of the account
    MaxMishaps,    \* bound on answers that never arrive and calls that overlap another
    LoginRaces     \* the account may change while a login verifies a password

VARIABLES
    account,   \* password (a version), must (mustChangePassword), active
    sessions,  \* rows: current (hash of the refresh token), revoked, reused (why), and the
               \* password each was opened with or changed to
    tokens,    \* every refresh token issued: its session, the token it was exchanged from,
               \* whether its access token is flagged, the password in force then
    cookie,    \* the refresh cookie of the browser
    access,    \* the session of the access token each tab holds
    calls,     \* the call each tab waits for
    mishaps,   \* lost answers and overlapping calls so far
    changes

vars == <<account, sessions, tokens, cookie, access, calls, mishaps, changes>>

Idle == [op |-> "idle"]

Sids == DOMAIN sessions
Issued == DOMAIN tokens

Live(sid) == ~sessions[sid].revoked

-----------------------------------------------------------------------------
Init ==
    /\ account = [password |-> 1, must |-> TRUE, active |-> TRUE]
    /\ sessions = <<>> /\ tokens = <<>>
    /\ cookie = None
    /\ access = [t \in Tabs |-> None]
    /\ calls = [t \in Tabs |-> Idle]
    /\ mishaps = 0 /\ changes = 0

Call(t, call) == calls' = [calls EXCEPT ![t] = call]

\* A call begins, alone or while another is under way.
Begin(t) ==
    /\ calls[t] = Idle
    /\ IF \A u \in Tabs : calls[u] = Idle
       THEN UNCHANGED mishaps
       ELSE mishaps < MaxMishaps /\ mishaps' = mishaps + 1

Revoked(sids) ==
    [s \in Sids |-> IF s \in sids THEN [sessions[s] EXCEPT !.revoked = TRUE] ELSE sessions[s]]

-----------------------------------------------------------------------------
Token(sid, from, flagged) ==
    [sid |-> sid, from |-> from, flagged |-> flagged, under |-> account.password]

Granted(sid) == [op |-> "answer", ok |-> TRUE, token |-> Len(tokens) + 1, sid |-> sid]
Refused == [op |-> "answer", ok |-> FALSE]

(* login: the password is verified, the row is created with a placeholder, *)
(* then the tokens are signed and the hash of the refresh token stored.    *)
LoginVerify(t) ==
    /\ Begin(t) /\ access[t] = None /\ account.active
    /\ Call(t, [op |-> "login", at |-> "create", read |-> account])
    /\ UNCHANGED <<account, sessions, tokens, cookie, access, changes>>

LoginCreate(t) ==
    /\ calls[t].op = "login" /\ calls[t].at = "create"
    /\ Len(tokens) < MaxTokens
    /\ sessions' = Append(sessions, [current |-> None, revoked |-> FALSE, reused |-> FALSE,
                                     password |-> calls[t].read.password])
    /\ Call(t, [op |-> "login", at |-> "store", sid |-> Len(sessions) + 1,
                flagged |-> calls[t].read.must])
    /\ UNCHANGED <<account, tokens, cookie, access, mishaps, changes>>

LoginStore(t) ==
    /\ calls[t].op = "login" /\ calls[t].at = "store"
    /\ Len(tokens) < MaxTokens
    /\ LET sid == calls[t].sid IN
       /\ tokens' = Append(tokens, Token(sid, None, calls[t].flagged))
       /\ sessions' = [sessions EXCEPT ![sid].current = Len(tokens) + 1]
       /\ Call(t, Granted(sid))
    /\ UNCHANGED <<account, cookie, access, mishaps, changes>>

(***************************************************************************)
(* refresh: the session and its user are read, new tokens signed from what *)
(* was read, and the hash replaced if it still is that of the token        *)
(* presented; otherwise the session is revoked.                            *)
(***************************************************************************)
RefreshRead(t) ==
    /\ Begin(t) /\ cookie # None
    /\ LET sid == tokens[cookie].sid IN
       Call(t, IF Live(sid) /\ account.active
               THEN [op |-> "refresh", token |-> cookie, sid |-> sid, flagged |-> account.must]
               ELSE Refused)
    /\ UNCHANGED <<account, sessions, tokens, cookie, access, changes>>

RotateIf(t, unchanged) ==
    /\ calls[t].op = "refresh" /\ Len(tokens) < MaxTokens
    /\ LET sid == calls[t].sid IN
       IF unchanged
       THEN /\ tokens' = Append(tokens, Token(sid, calls[t].token, calls[t].flagged))
            /\ sessions' = [sessions EXCEPT ![sid].current = Len(tokens) + 1]
            /\ Call(t, Granted(sid))
       ELSE /\ sessions' = [Revoked({sid}) EXCEPT ![sid].reused = @ \/ Live(sid)]
            /\ Call(t, Refused)
            /\ UNCHANGED tokens
    /\ UNCHANGED <<account, cookie, access, mishaps, changes>>

\* Mutant: a session revoked since it was read is rotated all the same.
RotateRevoked(t) == RotateIf(t, sessions[calls[t].sid].current = calls[t].token)

Rotate(t) ==
    RotateIf(t, Live(calls[t].sid) /\ sessions[calls[t].sid].current = calls[t].token)

(* logout ends the session of the access token, whichever its cookie is.   *)
Logout(t) ==
    /\ Begin(t) /\ access[t] # None
    /\ sessions' = Revoked({access[t]})
    /\ Call(t, Refused)
    /\ UNCHANGED <<account, tokens, cookie, access, changes>>

-----------------------------------------------------------------------------
Quiet == LoginRaces \/ \A t \in Tabs : calls[t].op # "login"

(* changePassword: the current one is verified, then replaced if it still  *)
(* is the one verified; every other session ends.                          *)
PasswordVerify(t) ==
    /\ Begin(t) /\ access[t] # None /\ account.active
    /\ Call(t, [op |-> "password", read |-> account.password, sid |-> access[t]])
    /\ UNCHANGED <<account, sessions, tokens, cookie, access, changes>>

ReplaceAndRevoke(t, sids) ==
    /\ calls[t].op = "password" /\ changes < MaxChanges /\ Quiet
    /\ IF account.password = calls[t].read
       THEN /\ account' = [account EXCEPT !.password = changes + 2, !.must = FALSE]
            /\ sessions' = [Revoked(sids) EXCEPT ![calls[t].sid].password = changes + 2]
            /\ changes' = changes + 1
       ELSE UNCHANGED <<account, sessions, changes>>
    /\ Call(t, Idle)
    /\ UNCHANGED <<tokens, cookie, access, mishaps>>

\* Mutant: whoever is signed in elsewhere stays.
PasswordReplaceOnly(t) == ReplaceAndRevoke(t, {})

PasswordReplace(t) == ReplaceAndRevoke(t, Sids \ {calls[t].sid})

-----------------------------------------------------------------------------
(* What administrators do: each is one transaction.                        *)

\* users.resetPassword and create-admin --reset, which also reactivates.
ResetPassword(reactivate) ==
    /\ changes < MaxChanges /\ Quiet
    /\ account' = [password |-> changes + 2, must |-> TRUE,
                   active |-> account.active \/ reactivate]
    /\ sessions' = Revoked(Sids)
    /\ changes' = changes + 1
    /\ UNCHANGED <<tokens, cookie, access, calls, mishaps>>

\* users.update of isActive.
SetActive(active) ==
    /\ changes < MaxChanges /\ Quiet /\ account.active # active
    /\ account' = [account EXCEPT !.active = active]
    /\ sessions' = IF active THEN sessions ELSE Revoked(Sids)
    /\ changes' = changes + 1
    /\ UNCHANGED <<tokens, cookie, access, calls, mishaps>>

\* employees.remove: the account of the employee stops, its sessions are left.
RemoveEmployee ==
    /\ changes < MaxChanges /\ Quiet /\ account.active
    /\ account' = [account EXCEPT !.active = FALSE]
    /\ changes' = changes + 1
    /\ UNCHANGED <<sessions, tokens, cookie, access, calls, mishaps>>

-----------------------------------------------------------------------------
(* The browser.  An answer sets or clears the cookie and the access token  *)
(* of the tab that waited.                                                 *)
ReceiveWith(t, new) ==
    /\ calls[t].op = "answer"
    /\ cookie' = new
    /\ access' = [access EXCEPT ![t] = IF calls[t].ok THEN calls[t].sid ELSE None]
    /\ Call(t, Idle)
    /\ UNCHANGED <<account, sessions, tokens, mishaps, changes>>

\* Mutant: the answer does not set the cookie anew.
ReceiveAccessOnly(t) == ReceiveWith(t, IF calls[t].ok /\ cookie = None THEN calls[t].token ELSE cookie)

Receive(t) == ReceiveWith(t, IF calls[t].ok THEN calls[t].token ELSE None)

\* No answer: the tab keeps what it has (keepSessionForNow) and may ask again.
Lose(t) ==
    /\ calls[t].op = "answer" /\ mishaps < MaxMishaps
    /\ mishaps' = mishaps + 1
    /\ Call(t, Idle)
    /\ UNCHANGED <<account, sessions, tokens, cookie, access, changes>>

\* The access token runs out, or the page is loaded anew.
Forget(t) ==
    /\ calls[t] = Idle /\ access[t] # None
    /\ access' = [access EXCEPT ![t] = None]
    /\ UNCHANGED <<account, sessions, tokens, cookie, calls, mishaps, changes>>

Serve(t) ==
    \/ LoginVerify(t) \/ LoginCreate(t) \/ LoginStore(t)
    \/ RefreshRead(t) \/ Rotate(t)
    \/ Logout(t)
    \/ PasswordVerify(t) \/ PasswordReplace(t)
    \/ Receive(t) \/ Lose(t) \/ Forget(t)

Next ==
    \/ \E t \in Tabs : Serve(t)
    \/ \E b \in BOOLEAN : ResetPassword(b) \/ SetActive(b)
    \/ RemoveEmployee

Spec == Init /\ [][Next]_vars

-----------------------------------------------------------------------------
(* Properties.                                                             *)

(* A session lives only while the password it was opened with, or changed  *)
(* the password to, is the one in force: a password no longer valid keeps  *)
(* nobody signed in.                                                       *)
OldPasswordsAreOut ==
    \A s \in Sids : Live(s) => sessions[s].password = account.password

(* No access token handed out since somebody else chose the password lacks *)
(* the flag that stops everything but replacing it (issue, resetPassword). *)
PendingIsFlagged ==
    account.must => \A k \in Issued : tokens[k].under = account.password => tokens[k].flagged

(* The detection of reuse ends no session of somebody whose calls do not   *)
(* overlap and whose answers arrive (refreshSession, refresh).             *)
NoFalseAlarm == mishaps = 0 => \A s \in Sids : ~sessions[s].reused

=============================================================================
