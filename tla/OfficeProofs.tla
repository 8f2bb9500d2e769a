---------------------------- MODULE OfficeProofs -----------------------------
(***************************************************************************)
(* Proofs about the components that MCOffice instantiates.  Each component *)
(* has an inductive invariant of its own, proved for its Init and Next; a  *)
(* step of MCOffice is a step of one of them and leaves the variables of   *)
(* the others alone, so the invariants hold of MCOffice too.               *)
(***************************************************************************)
EXTENDS MCOffice, TLAPS

-----------------------------------------------------------------------------
(* Sessions: the types.                                                    *)

Account == [password : Nat, must : BOOLEAN, active : BOOLEAN]
Row == [current : Nat \cup {None}, revoked : BOOLEAN, reused : BOOLEAN, password : Nat]
Issue == [sid : Nat, from : Nat \cup {None}, flagged : BOOLEAN, under : Nat]

\* What a tab may wait for.
Verified == [op : {"login"}, at : {"create"}, read : Account]
Created == [op : {"login"}, at : {"store"}, sid : S!Sids, flagged : BOOLEAN]
Exchange == [op : {"refresh"}, token : S!Issued, sid : S!Sids, flagged : BOOLEAN]
Replacing == [op : {"password"}, read : Nat, sid : S!Sids]
Grant == [op : {"answer"}, ok : {TRUE}, token : S!Issued, sid : S!Sids]

Awaited ==
    {S!Idle, S!Refused} \cup Verified \cup Created \cup Exchange \cup Replacing \cup Grant

SessionTypes ==
    /\ account \in Account
    /\ sessions \in Seq(Row)
    /\ tokens \in Seq(Issue)
    /\ \A k \in S!Issued : tokens[k].sid \in S!Sids
    /\ cookie \in S!Issued \cup {None}
    /\ access \in [Tabs -> S!Sids \cup {None}]
    /\ calls \in [Tabs -> Awaited]
    /\ mishaps \in Nat /\ changes \in Nat

\* What a tab waits for is told by its fields.
LEMMA AwaitedKinds ==
  ASSUME NEW c \in Awaited
  PROVE  /\ c.op = "idle" <=> c = S!Idle
         /\ c.op = "login" => c \in Verified \/ c \in Created
         /\ c.op = "login" /\ c.at = "create" => c \in Verified
         /\ c.op = "login" /\ c.at = "store" => c \in Created
         /\ c.op = "refresh" => c \in Exchange
         /\ c.op = "password" => c \in Replacing
         /\ c.op = "answer" => c \in Grant \cup {S!Refused}
         /\ c.op = "answer" /\ c.ok => c \in Grant
<1>1. /\ S!Idle.op = "idle" /\ S!Refused.op = "answer" /\ S!Refused.ok = FALSE
      /\ \A d \in Verified : d.op = "login" /\ d.at = "create"
      /\ \A d \in Created : d.op = "login" /\ d.at = "store"
      /\ \A d \in Exchange : d.op = "refresh"
      /\ \A d \in Replacing : d.op = "password"
      /\ \A d \in Grant : d.op = "answer"
  BY DEF Verified, Created, Exchange, Replacing, Grant, S!Idle, S!Refused
<1>2. \/ c = S!Idle \/ c = S!Refused
      \/ c \in Verified \/ c \in Created \/ c \in Exchange \/ c \in Replacing \/ c \in Grant
  BY DEF Awaited
<1> QED BY <1>1, <1>2

\* Sessions and tokens are only ever added, so nothing awaited stops being so.
LEMMA AwaitedGrows ==
  ASSUME S!Sids \subseteq S!Sids', S!Issued \subseteq S!Issued'
  PROVE  Awaited \subseteq Awaited'
BY DEF Awaited, Verified, Created, Exchange, Replacing, Grant, S!Idle, S!Refused

\* Every step leaves the sessions a sequence of rows, of which none is gone.
LEMMA RowsStay ==
  ASSUME SessionTypes, NEW f \in [S!Sids -> Row], sessions' = f
  PROVE  sessions' \in Seq(Row) /\ S!Sids' = S!Sids
BY DEF SessionTypes, S!Sids

LEMMA RowSet ==
  /\ SessionTypes => sessions \in [S!Sids -> Row]
  /\ \A f \in [S!Sids -> Row], s \in S!Sids, n \in Nat :
        /\ [f EXCEPT ![s].current = n] \in [S!Sids -> Row]
        /\ [f EXCEPT ![s].password = n] \in [S!Sids -> Row]
<1>1. SessionTypes => sessions \in [S!Sids -> Row]
  BY DEF SessionTypes, S!Sids
<1>2. \A r \in Row, n \in Nat : [r EXCEPT !.current = n] \in Row /\ [r EXCEPT !.password = n] \in Row
  BY DEF Row
<1>3. \A f \in [S!Sids -> Row], s \in S!Sids, n \in Nat :
        /\ [f EXCEPT ![s] = [f[s] EXCEPT !.current = n]] \in [S!Sids -> Row]
        /\ [f EXCEPT ![s] = [f[s] EXCEPT !.password = n]] \in [S!Sids -> Row]
  BY <1>2
<1> QED BY <1>1, <1>3

LEMMA RowsAdded ==
  ASSUME SessionTypes, NEW r \in Row, sessions' = Append(sessions, r)
  PROVE  /\ sessions' \in Seq(Row) /\ S!Sids' = S!Sids \cup {Len(sessions) + 1}
         /\ \A s \in S!Sids : sessions'[s] = sessions[s]
         /\ sessions'[Len(sessions) + 1] = r
BY DEF SessionTypes, S!Sids

LEMMA TokensAdded ==
  ASSUME SessionTypes, NEW i \in Issue, tokens' = Append(tokens, i)
  PROVE  /\ tokens' \in Seq(Issue) /\ S!Issued' = S!Issued \cup {Len(tokens) + 1}
         /\ \A k \in S!Issued : tokens'[k] = tokens[k]
         /\ tokens'[Len(tokens) + 1] = i
BY DEF SessionTypes, S!Issued

LEMMA RevokedRows ==
  ASSUME SessionTypes, NEW sids
  PROVE  /\ S!Revoked(sids) \in [S!Sids -> Row]
         /\ \A s \in S!Sids : S!Revoked(sids)[s] =
               IF s \in sids THEN [sessions[s] EXCEPT !.revoked = TRUE] ELSE sessions[s]
<1>1. \A s \in S!Sids : sessions[s] \in Row
  BY DEF SessionTypes, S!Sids
<1> QED BY <1>1 DEF S!Revoked, Row

\* A step that adds no row and no token, and makes tab t wait for something of these.
LEMMA CallTypes ==
  ASSUME SessionTypes, NEW t \in Tabs, NEW c, S!Call(t, c), c \in Awaited',
         S!Sids \subseteq S!Sids', S!Issued \subseteq S!Issued'
  PROVE  calls' \in [Tabs -> Awaited']
<1>1. Awaited \subseteq Awaited'
  BY AwaitedGrows
<1> QED BY <1>1 DEF SessionTypes, S!Call

LEMMA SessionTypesInit == S!Init => SessionTypes
BY DEF S!Init, SessionTypes, Account, Awaited, S!Sids, S!Issued

LEMMA LoginTypes ==
  ASSUME SessionTypes, NEW t \in Tabs,
         S!LoginVerify(t) \/ S!LoginCreate(t) \/ S!LoginStore(t)
  PROVE  SessionTypes'
<1> calls[t] \in Awaited
  BY DEF SessionTypes
<1>1. CASE S!LoginVerify(t)
  <2>1. S!Sids' = S!Sids /\ S!Issued' = S!Issued
    BY <1>1 DEF S!LoginVerify, S!Sids, S!Issued
  <2>2. [op |-> "login", at |-> "create", read |-> account] \in Awaited'
    BY DEF SessionTypes, Awaited, Verified
  <2>3. calls' \in [Tabs -> Awaited']
    BY <1>1, <2>1, <2>2, CallTypes DEF S!LoginVerify
  <2> QED BY <1>1, <2>1, <2>3 DEF S!LoginVerify, S!Begin, SessionTypes
<1>2. CASE S!LoginCreate(t)
  <2> DEFINE r == [current |-> None, revoked |-> FALSE, reused |-> FALSE,
                   password |-> calls[t].read.password]
  <2>1. calls[t] \in Verified
    BY <1>2, AwaitedKinds DEF S!LoginCreate
  <2>2. r \in Row
    BY <2>1 DEF Verified, Account, Row
  <2>3. /\ sessions' \in Seq(Row) /\ S!Sids' = S!Sids \cup {Len(sessions) + 1}
        /\ S!Issued' = S!Issued
    BY <1>2, <2>2, RowsAdded DEF S!LoginCreate, S!Issued
  <2>4. [op |-> "login", at |-> "store", sid |-> Len(sessions) + 1,
         flagged |-> calls[t].read.must] \in Awaited'
    BY <2>1, <2>3 DEF Awaited, Created, Verified, Account
  <2>5. calls' \in [Tabs -> Awaited']
    BY <1>2, <2>3, <2>4, CallTypes DEF S!LoginCreate
  <2> QED BY <1>2, <2>3, <2>5 DEF S!LoginCreate, SessionTypes
<1>3. CASE S!LoginStore(t)
  <2>1. calls[t] \in Created
    BY <1>3, AwaitedKinds DEF S!LoginStore
  <2> DEFINE sid == calls[t].sid
             i == S!Token(sid, None, calls[t].flagged)
  <2>2. sid \in S!Sids /\ sid \in Nat /\ Len(tokens) + 1 \in Nat
    BY <2>1 DEF Created, SessionTypes, S!Sids
  <2>3. i \in Issue /\ i.sid = sid
    BY <2>1, <2>2 DEF SessionTypes, S!Token, Issue, Created, Account
  <2>4. /\ tokens' \in Seq(Issue) /\ S!Issued' = S!Issued \cup {Len(tokens) + 1}
        /\ \A k \in S!Issued : tokens'[k] = tokens[k]
        /\ tokens'[Len(tokens) + 1] = i
    BY <1>3, <2>3, TokensAdded DEF S!LoginStore
  <2>5. sessions' \in Seq(Row) /\ S!Sids' = S!Sids
    BY <1>3, <2>2, RowsStay, RowSet DEF S!LoginStore
  <2>6. S!Granted(sid) \in Awaited'
    BY <2>2, <2>4, <2>5 DEF S!Granted, Awaited, Grant
  <2>7. calls' \in [Tabs -> Awaited']
    BY <1>3, <2>4, <2>5, <2>6, CallTypes DEF S!LoginStore
  <2>8. \A k \in S!Issued' : tokens'[k].sid \in S!Sids'
    BY <2>2, <2>3, <2>4, <2>5 DEF SessionTypes
  <2> QED BY <1>3, <2>4, <2>5, <2>7, <2>8 DEF S!LoginStore, SessionTypes
<1> QED BY <1>1, <1>2, <1>3

LEMMA RefreshTypes ==
  ASSUME SessionTypes, NEW t \in Tabs, S!RefreshRead(t) \/ S!Rotate(t)
  PROVE  SessionTypes'
<1> calls[t] \in Awaited
  BY DEF SessionTypes
<1>1. CASE S!RefreshRead(t)
  <2>1. S!Sids' = S!Sids /\ S!Issued' = S!Issued
    BY <1>1 DEF S!RefreshRead, S!Sids, S!Issued
  <2>2. cookie \in S!Issued /\ tokens[cookie].sid \in S!Sids
    BY <1>1 DEF S!RefreshRead, SessionTypes
  <2>3. /\ S!Refused \in Awaited'
        /\ [op |-> "refresh", token |-> cookie, sid |-> tokens[cookie].sid,
            flagged |-> account.must] \in Awaited'
    BY <2>1, <2>2 DEF SessionTypes, Account, Awaited, Exchange
  <2>4. calls' \in [Tabs -> Awaited']
    BY <1>1, <2>1, <2>3, CallTypes DEF S!RefreshRead
  <2> QED BY <1>1, <2>1, <2>4 DEF S!RefreshRead, S!Begin, SessionTypes
<1>2. CASE S!Rotate(t)
  <2> DEFINE sid == calls[t].sid
             i == S!Token(sid, calls[t].token, calls[t].flagged)
  <2>1. calls[t] \in Exchange
    BY <1>2, AwaitedKinds DEF S!Rotate, S!RotateIf
  <2>2. sid \in S!Sids /\ sid \in Nat /\ Len(tokens) + 1 \in Nat /\ calls[t].token \in Nat
    BY <2>1 DEF Exchange, SessionTypes, S!Sids, S!Issued
  <2>3. CASE /\ tokens' = Append(tokens, i)
             /\ sessions' = [sessions EXCEPT ![sid].current = Len(tokens) + 1]
             /\ S!Call(t, S!Granted(sid))
    <3>1. i \in Issue /\ i.sid = sid
      BY <2>1, <2>2 DEF SessionTypes, S!Token, Issue, Exchange, Account
    <3>2. /\ tokens' \in Seq(Issue) /\ S!Issued' = S!Issued \cup {Len(tokens) + 1}
          /\ \A k \in S!Issued : tokens'[k] = tokens[k]
          /\ tokens'[Len(tokens) + 1] = i
      BY <2>3, <3>1, TokensAdded
    <3>3. sessions' \in Seq(Row) /\ S!Sids' = S!Sids
      BY <2>2, <2>3, RowsStay, RowSet
    <3>4. S!Granted(sid) \in Awaited'
      BY <2>2, <3>2, <3>3 DEF S!Granted, Awaited, Grant
    <3>5. calls' \in [Tabs -> Awaited']
      BY <2>3, <3>2, <3>3, <3>4, CallTypes
    <3>6. \A k \in S!Issued' : tokens'[k].sid \in S!Sids'
      BY <2>2, <3>1, <3>2, <3>3 DEF SessionTypes
    <3> QED BY <1>2, <3>2, <3>3, <3>5, <3>6 DEF S!Rotate, S!RotateIf, SessionTypes
  <2>4. CASE /\ sessions' = [S!Revoked({sid}) EXCEPT ![sid].reused = @ \/ S!Live(sid)]
             /\ S!Call(t, S!Refused)
             /\ UNCHANGED tokens
    <3>1. \A r \in Row : [r EXCEPT !.reused = @ \/ S!Live(sid)] \in Row
      BY DEF Row
    <3>2. PICK g \in [S!Sids -> Row] : g = S!Revoked({sid})
      BY RevokedRows
    <3>3. PICK f : f = [g EXCEPT ![sid].reused = @ \/ S!Live(sid)]
      OBVIOUS
    <3>4. f \in [S!Sids -> Row]
      BY <2>2, <3>1, <3>2, <3>3
    <3>5. sessions' = f
      BY <2>4, <3>2, <3>3
    <3>6. sessions' \in Seq(Row) /\ S!Sids' = S!Sids /\ S!Issued' = S!Issued
      BY <2>4, <3>4, <3>5, RowsStay DEF S!Issued
    <3>7. calls' \in [Tabs -> Awaited']
      BY <2>4, <3>6, CallTypes DEF Awaited
    <3> QED BY <1>2, <2>4, <3>6, <3>7 DEF S!Rotate, S!RotateIf, SessionTypes
  <2> QED BY <1>2, <2>3, <2>4 DEF S!Rotate, S!RotateIf
<1> QED BY <1>1, <1>2

LEMMA PasswordTypes ==
  ASSUME SessionTypes, NEW t \in Tabs,
         S!Logout(t) \/ S!PasswordVerify(t) \/ S!PasswordReplace(t)
  PROVE  SessionTypes'
<1> calls[t] \in Awaited /\ S!Idle \in Awaited' /\ S!Refused \in Awaited'
  BY DEF SessionTypes, Awaited
<1>1. CASE S!Logout(t)
  <2>1. sessions' \in Seq(Row) /\ S!Sids' = S!Sids /\ S!Issued' = S!Issued
    BY <1>1, RevokedRows, RowsStay DEF S!Logout, S!Issued
  <2>2. calls' \in [Tabs -> Awaited']
    BY <1>1, <2>1, CallTypes DEF S!Logout
  <2> QED BY <1>1, <2>1, <2>2 DEF S!Logout, S!Begin, SessionTypes
<1>2. CASE S!PasswordVerify(t)
  <2>1. S!Sids' = S!Sids /\ S!Issued' = S!Issued
    BY <1>2 DEF S!PasswordVerify, S!Sids, S!Issued
  <2>2. [op |-> "password", read |-> account.password, sid |-> access[t]] \in Awaited'
    BY <1>2, <2>1 DEF S!PasswordVerify, SessionTypes, Account, Awaited, Replacing
  <2>3. calls' \in [Tabs -> Awaited']
    BY <1>2, <2>1, <2>2, CallTypes DEF S!PasswordVerify
  <2> QED BY <1>2, <2>1, <2>3 DEF S!PasswordVerify, S!Begin, SessionTypes
<1>3. CASE S!PasswordReplace(t)
  <2>1. calls[t] \in Replacing /\ calls[t].sid \in S!Sids /\ changes + 2 \in Nat /\ changes + 1 \in Nat
    BY <1>3, AwaitedKinds DEF S!PasswordReplace, S!ReplaceAndRevoke, Replacing, SessionTypes
  <2>2. S!Issued' = S!Issued
    BY <1>3 DEF S!PasswordReplace, S!ReplaceAndRevoke, S!Issued
  <2>3. sessions' \in Seq(Row) /\ S!Sids' = S!Sids
    <3>1. CASE UNCHANGED sessions
      BY <3>1 DEF SessionTypes, S!Sids
    <3>2. CASE sessions' = [S!Revoked(S!Sids \ {calls[t].sid}) EXCEPT
                               ![calls[t].sid].password = changes + 2]
      <4> DEFINE f == [S!Revoked(S!Sids \ {calls[t].sid}) EXCEPT ![calls[t].sid].password = changes + 2]
      <4>1. S!Revoked(S!Sids \ {calls[t].sid}) \in [S!Sids -> Row]
        BY RevokedRows
      <4>2. \A g \in [S!Sids -> Row] :
               [g EXCEPT ![calls[t].sid].password = changes + 2] \in [S!Sids -> Row]
        BY <2>1, RowSet
      <4>3. f \in [S!Sids -> Row]
        BY <4>1, <4>2
      <4> QED BY <3>2, <4>3, RowsStay
    <3> QED BY <1>3, <3>1, <3>2 DEF S!PasswordReplace, S!ReplaceAndRevoke
  <2>4. calls' \in [Tabs -> Awaited']
    BY <1>3, <2>2, <2>3, CallTypes DEF S!PasswordReplace, S!ReplaceAndRevoke
  <2>5. account' \in Account /\ changes' \in Nat
    BY <1>3, <2>1 DEF S!PasswordReplace, S!ReplaceAndRevoke, SessionTypes, Account
  <2> QED BY <1>3, <2>2, <2>3, <2>4, <2>5
          DEF S!PasswordReplace, S!ReplaceAndRevoke, SessionTypes
<1> QED BY <1>1, <1>2, <1>3

LEMMA BrowserTypes ==
  ASSUME SessionTypes, NEW t \in Tabs, S!Receive(t) \/ S!Lose(t) \/ S!Forget(t)
  PROVE  SessionTypes'
<1>1. calls[t] \in Awaited /\ S!Idle \in Awaited'
  BY DEF SessionTypes, Awaited
<1>2. S!Sids' = S!Sids /\ S!Issued' = S!Issued
  BY DEF S!Receive, S!ReceiveWith, S!Lose, S!Forget, S!Sids, S!Issued
<1>3. CASE S!Receive(t)
  <2>1. calls' \in [Tabs -> Awaited']
    BY <1>1, <1>2, <1>3, CallTypes DEF S!Receive, S!ReceiveWith
  <2>2. calls[t].op = "answer" /\ (calls[t].ok => calls[t] \in Grant)
    BY <1>1, <1>3, AwaitedKinds DEF S!Receive, S!ReceiveWith
  <2> QED BY <1>2, <1>3, <2>1, <2>2 DEF S!Receive, S!ReceiveWith, SessionTypes, Grant
<1>4. CASE S!Lose(t)
  <2>1. calls' \in [Tabs -> Awaited']
    BY <1>1, <1>2, <1>4, CallTypes DEF S!Lose
  <2> QED BY <1>2, <1>4, <2>1 DEF S!Lose, SessionTypes
<1>5. CASE S!Forget(t)
  BY <1>2, <1>5, AwaitedGrows DEF S!Forget, SessionTypes
<1> QED BY <1>3, <1>4, <1>5

LEMMA AdministratorTypes ==
  ASSUME SessionTypes,
         (\E b \in BOOLEAN : S!ResetPassword(b) \/ S!SetActive(b)) \/ S!RemoveEmployee
  PROVE  SessionTypes'
<1>1. S!Issued' = S!Issued /\ changes + 2 \in Nat /\ changes + 1 \in Nat
  BY DEF S!ResetPassword, S!SetActive, S!RemoveEmployee, S!Issued, SessionTypes
<1>2. sessions' \in Seq(Row) /\ S!Sids' = S!Sids
  <2>1. CASE UNCHANGED sessions
    BY <2>1 DEF SessionTypes, S!Sids
  <2>2. CASE sessions' = S!Revoked(S!Sids)
    <3>1. S!Revoked(S!Sids) \in [S!Sids -> Row]
      BY RevokedRows
    <3> QED BY <2>2, <3>1, RowsStay
  <2> QED BY <2>1, <2>2 DEF S!ResetPassword, S!SetActive, S!RemoveEmployee
<1>3. account' \in Account /\ changes' \in Nat
  <2>1. changes' \in Nat
    BY <1>1 DEF S!ResetPassword, S!SetActive, S!RemoveEmployee, SessionTypes
  <2>2. ASSUME NEW b \in BOOLEAN, S!ResetPassword(b) PROVE account' \in Account
    <3>1. (account.active \/ b) \in BOOLEAN
      OBVIOUS
    <3> QED BY <1>1, <2>2, <3>1 DEF S!ResetPassword, Account
  <2>3. ASSUME NEW b \in BOOLEAN, S!SetActive(b) PROVE account' \in Account
    BY <2>3 DEF S!SetActive, SessionTypes, Account
  <2>4. S!RemoveEmployee => account' \in Account
    BY DEF S!RemoveEmployee, SessionTypes, Account
  <2> QED BY <2>1, <2>2, <2>3, <2>4
<1>4. Awaited' = Awaited
  BY <1>1, <1>2 DEF Awaited, Verified, Created, Exchange, Replacing, Grant, S!Idle, S!Refused
<1>5. UNCHANGED <<tokens, cookie, access, calls, mishaps>>
  BY DEF S!ResetPassword, S!SetActive, S!RemoveEmployee
<1> QED BY <1>1, <1>2, <1>3, <1>4, <1>5 DEF SessionTypes

LEMMA SessionTypesNext == SessionTypes /\ [S!Next]_browser => SessionTypes'
<1> SUFFICES ASSUME SessionTypes, [S!Next]_browser PROVE SessionTypes'
  OBVIOUS
<1>1. CASE UNCHANGED browser
  BY <1>1 DEF browser, SessionTypes, S!Sids, S!Issued, Awaited, Verified, Created, Exchange,
              Replacing, Grant, S!Idle, S!Refused
<1>2. CASE \E t \in Tabs : S!Serve(t)
  BY <1>2, LoginTypes, RefreshTypes, PasswordTypes, BrowserTypes DEF S!Serve
<1> QED BY <1>1, <1>2, AdministratorTypes DEF S!Next

-----------------------------------------------------------------------------
(* Sessions: passwords.                                                    *)

\* Nothing about the account changes while a login is under way, so what it read holds.
LoginIsFresh ==
    \A t \in Tabs : calls[t].op = "login" =>
        /\ calls[t].at = "create" => calls[t].read = account
        /\ calls[t].at = "store" => calls[t].flagged = account.must

\* The flag an exchange read holds as long as its session lives: only a reset raises it,
\* which ends every session.
ExchangeIsFlagged ==
    \A t \in Tabs : calls[t].op = "refresh" /\ S!Live(calls[t].sid) /\ account.must
        => calls[t].flagged

\* Versions of the password grow, so a new one is that of no token.
Versions ==
    /\ account.password <= changes + 1
    /\ \A k \in S!Issued : tokens[k].under <= changes + 1

PasswordInv ==
    SessionTypes /\ LoginIsFresh /\ ExchangeIsFlagged /\ Versions
      /\ S!OldPasswordsAreOut /\ S!PendingIsFlagged

LEMMA PasswordInit == S!Init => PasswordInv
<1> SUFFICES ASSUME S!Init PROVE PasswordInv
  OBVIOUS
<1>1. SessionTypes
  BY SessionTypesInit
<1>2. /\ \A t \in Tabs : calls[t].op = "idle"
      /\ S!Sids = {} /\ S!Issued = {} /\ account.password <= changes + 1
  BY DEF S!Init, S!Idle, S!Sids, S!Issued
<1> QED BY <1>1, <1>2
        DEF PasswordInv, LoginIsFresh, ExchangeIsFlagged, Versions, S!OldPasswordsAreOut,
            S!PendingIsFlagged

\* The calls that change neither the account nor the tokens, and at most end sessions.
LEMMA QuietCall ==
  ASSUME PasswordInv, SessionTypes', NEW t \in Tabs, NEW c, S!Call(t, c),
         UNCHANGED <<account, changes, tokens>>, S!Sids' = S!Sids,
         \A s \in S!Sids : /\ S!Live(s)' => S!Live(s)
                           /\ sessions'[s].password = sessions[s].password,
         c.op = "login" => /\ c.at = "create" => c.read = account
                           /\ c.at = "store" => c.flagged = account.must,
         c.op = "refresh" => (account.must => c.flagged)
  PROVE  PasswordInv'
<1>1. calls'[t] = c /\ \A u \in Tabs \ {t} : calls'[u] = calls[u] /\ calls[u] \in Awaited
  BY DEF S!Call, PasswordInv, SessionTypes
<1>2. LoginIsFresh'
  BY <1>1 DEF PasswordInv, LoginIsFresh
<1>3. \A u \in Tabs \ {t} : calls[u].op = "refresh" => calls[u].sid \in S!Sids
  BY <1>1, AwaitedKinds DEF Exchange
<1>4. ExchangeIsFlagged'
  BY <1>1, <1>3 DEF PasswordInv, ExchangeIsFlagged
<1>5. S!Issued' = S!Issued
  BY DEF S!Issued
<1>6. Versions' /\ S!OldPasswordsAreOut' /\ S!PendingIsFlagged'
  BY <1>5 DEF PasswordInv, Versions, S!OldPasswordsAreOut, S!PendingIsFlagged
<1> QED BY <1>2, <1>4, <1>6 DEF PasswordInv

\* The calls that store a refresh token: it carries the flag in force.
LEMMA TokenStored ==
  ASSUME PasswordInv, SessionTypes', NEW t \in Tabs, NEW sid \in S!Sids, NEW from, NEW flagged,
         S!Token(sid, from, flagged) \in Issue, account.must => flagged,
         tokens' = Append(tokens, S!Token(sid, from, flagged)),
         sessions' = [sessions EXCEPT ![sid].current = Len(tokens) + 1],
         S!Call(t, S!Granted(sid)), UNCHANGED <<account, changes>>
  PROVE  PasswordInv'
<1>0. SessionTypes
  BY DEF PasswordInv
<1>1. /\ calls'[t].op = "answer"
      /\ \A u \in Tabs \ {t} : calls'[u] = calls[u] /\ calls[u] \in Awaited
  BY <1>0 DEF S!Call, S!Granted, SessionTypes
<1>2. LoginIsFresh'
  BY <1>1 DEF PasswordInv, LoginIsFresh
<1>3. S!Sids' = S!Sids /\ \A s \in S!Sids : /\ sessions'[s].revoked = sessions[s].revoked
                                            /\ sessions'[s].password = sessions[s].password
  <2>1. sessions \in [S!Sids -> Row]
    BY <1>0, RowSet
  <2>2. \A n : \A r \in Row : /\ [r EXCEPT !.current = n].revoked = r.revoked
                          /\ [r EXCEPT !.current = n].password = r.password
    BY DEF Row
  <2> QED BY <2>1, <2>2 DEF S!Sids
<1>4. \A u \in Tabs \ {t} : calls[u].op = "refresh" => calls[u].sid \in S!Sids
  BY <1>1, AwaitedKinds DEF Exchange
<1>5. ExchangeIsFlagged'
  <2> SUFFICES ASSUME NEW u \in Tabs, calls'[u].op = "refresh", S!Live(calls[u].sid)', account'.must
               PROVE  calls'[u].flagged
    BY DEF ExchangeIsFlagged
  <2>1. calls'[u] = calls[u] /\ calls[u].sid \in S!Sids
    BY <1>1, <1>4
  <2>2. S!Live(calls[u].sid)
    BY <1>3, <2>1 DEF S!Live
  <2> QED BY <2>1, <2>2 DEF PasswordInv, ExchangeIsFlagged
<1>6. /\ S!Issued' = S!Issued \cup {Len(tokens) + 1}
      /\ \A k \in S!Issued : tokens'[k] = tokens[k]
      /\ tokens'[Len(tokens) + 1] = S!Token(sid, from, flagged)
  BY <1>0, TokensAdded
<1>7. /\ S!Token(sid, from, flagged).under = account.password
      /\ S!Token(sid, from, flagged).flagged = flagged
  BY DEF S!Token
<1>8. \A k \in S!Issued' :
         IF k \in S!Issued THEN tokens'[k] = tokens[k]
         ELSE tokens'[k].under = account.password /\ tokens'[k].flagged = flagged
  BY <1>6, <1>7
<1>9. Versions'
  BY <1>8 DEF PasswordInv, Versions
<1>10. S!PendingIsFlagged'
  BY <1>8 DEF PasswordInv, S!PendingIsFlagged
<1>11. S!OldPasswordsAreOut'
  BY <1>3 DEF PasswordInv, S!OldPasswordsAreOut, S!Live
<1> QED BY <1>2, <1>5, <1>9, <1>10, <1>11 DEF PasswordInv

\* A revoked row is the row but for that.
LEMMA RevokedRow ==
  ASSUME SessionTypes, NEW sids, NEW s \in S!Sids
  PROVE  /\ S!Revoked(sids)[s].revoked <=> ~S!Live(s) \/ s \in sids
         /\ S!Revoked(sids)[s].password = sessions[s].password
         /\ S!Revoked(sids)[s].current = sessions[s].current
         /\ S!Revoked(sids)[s].reused = sessions[s].reused
<1>1. \A r \in Row : /\ [r EXCEPT !.revoked = TRUE].revoked
                     /\ [r EXCEPT !.revoked = TRUE].password = r.password
                     /\ [r EXCEPT !.revoked = TRUE].current = r.current
                     /\ [r EXCEPT !.revoked = TRUE].reused = r.reused
  BY DEF Row
<1>2. sessions[s] \in Row
  BY RowSet
<1>3. S!Revoked(sids)[s] = IF s \in sids THEN [sessions[s] EXCEPT !.revoked = TRUE] ELSE sessions[s]
  BY RevokedRows
<1>4. CASE s \in sids
  BY <1>1, <1>2, <1>3, <1>4 DEF S!Live
<1>5. CASE s \notin sids
  BY <1>3, <1>5 DEF S!Live
<1> QED BY <1>4, <1>5

LEMMA RevokedEnds ==
  ASSUME SessionTypes, NEW sids, sessions' = S!Revoked(sids)
  PROVE  \A s \in S!Sids : /\ S!Live(s)' <=> S!Live(s) /\ s \notin sids
                           /\ sessions'[s].password = sessions[s].password
                           /\ sessions'[s].current = sessions[s].current
                           /\ sessions'[s].reused = sessions[s].reused
<1> SUFFICES ASSUME NEW s \in S!Sids
             PROVE  /\ S!Live(s)' <=> S!Live(s) /\ s \notin sids
                    /\ sessions'[s].password = sessions[s].password
                    /\ sessions'[s].current = sessions[s].current
                    /\ sessions'[s].reused = sessions[s].reused
  OBVIOUS
<1>1. S!Live(s)' <=> ~S!Revoked(sids)[s].revoked
  BY DEF S!Live
<1> QED BY <1>1, RevokedRow

LEMMA LoginPasswords ==
  ASSUME PasswordInv, SessionTypes', NEW t \in Tabs,
         S!LoginVerify(t) \/ S!LoginCreate(t) \/ S!LoginStore(t)
  PROVE  PasswordInv'
<1> SessionTypes /\ calls[t] \in Awaited
  BY DEF PasswordInv, SessionTypes
<1>1. CASE S!LoginVerify(t)
  <2> DEFINE c == [op |-> "login", at |-> "create", read |-> account]
  <2>1. c.op = "login" /\ c.at = "create" /\ c.read = account
    OBVIOUS
  <2>2. S!Call(t, c) /\ UNCHANGED <<account, changes, tokens, sessions>>
    BY <1>1 DEF S!LoginVerify
  <2> HIDE DEF c
  <2> QED BY <2>1, <2>2, QuietCall DEF S!Sids, S!Live
<1>2. CASE S!LoginCreate(t)
  <2> DEFINE r == [current |-> None, revoked |-> FALSE, reused |-> FALSE,
                   password |-> calls[t].read.password]
  <2>1. calls[t] \in Verified /\ calls[t].read = account
    BY <1>2, AwaitedKinds DEF S!LoginCreate, PasswordInv, LoginIsFresh
  <2>2. r \in Row /\ r.password = account.password
    BY <2>1 DEF Verified, Account, Row
  <2>3. /\ S!Sids' = S!Sids \cup {Len(sessions) + 1}
        /\ \A s \in S!Sids : sessions'[s] = sessions[s]
        /\ sessions'[Len(sessions) + 1] = r
    BY <1>2, <2>2, RowsAdded DEF S!LoginCreate
  <2>4. /\ calls'[t].op = "login" /\ calls'[t].at = "store" /\ calls'[t].flagged = account.must
        /\ \A u \in Tabs \ {t} : calls'[u] = calls[u] /\ calls[u] \in Awaited
    BY <1>2, <2>1 DEF S!LoginCreate, S!Call, SessionTypes
  <2>5. UNCHANGED <<account, changes, tokens>> /\ S!Issued' = S!Issued
    BY <1>2 DEF S!LoginCreate, S!Issued
  <2>6. \A u \in Tabs \ {t} : calls[u].op = "refresh" => calls[u].sid \in S!Sids
    BY <2>4, AwaitedKinds DEF Exchange
  <2>7. LoginIsFresh'
    BY <2>4, <2>5 DEF PasswordInv, LoginIsFresh
  <2>8. ExchangeIsFlagged'
    BY <2>3, <2>4, <2>5, <2>6 DEF PasswordInv, ExchangeIsFlagged, S!Live
  <2>9. Versions' /\ S!PendingIsFlagged'
    BY <2>5 DEF PasswordInv, Versions, S!PendingIsFlagged
  <2>10. S!OldPasswordsAreOut'
    BY <2>2, <2>3, <2>5 DEF PasswordInv, S!OldPasswordsAreOut, S!Live
  <2> QED BY <2>7, <2>8, <2>9, <2>10 DEF PasswordInv
<1>3. CASE S!LoginStore(t)
  <2>1. calls[t] \in Created /\ calls[t].flagged = account.must
    BY <1>3, AwaitedKinds DEF S!LoginStore, PasswordInv, LoginIsFresh
  <2>2. calls[t].sid \in S!Sids /\ S!Token(calls[t].sid, None, calls[t].flagged) \in Issue
    BY <2>1 DEF Created, SessionTypes, S!Sids, S!Token, Issue, Account
  <2> QED BY <1>3, <2>1, <2>2, TokenStored DEF S!LoginStore
<1> QED BY <1>1, <1>2, <1>3

LEMMA RefreshPasswords ==
  ASSUME PasswordInv, SessionTypes', NEW t \in Tabs, S!RefreshRead(t) \/ S!Rotate(t)
  PROVE  PasswordInv'
<1> SessionTypes /\ calls[t] \in Awaited
  BY DEF PasswordInv, SessionTypes
<1> S!Refused.op = "answer"
  BY DEF S!Refused
<1>1. CASE S!RefreshRead(t)
  <2>1. UNCHANGED <<account, changes, tokens, sessions>>
    BY <1>1 DEF S!RefreshRead
  <2>2. PICK c : S!Call(t, c) /\ c.op \in {"refresh", "answer"} /\ (c.op = "refresh" => c.flagged = account.must)
    BY <1>1 DEF S!RefreshRead
  <2> QED BY <2>1, <2>2, QuietCall DEF S!Sids, S!Live
<1>2. CASE S!Rotate(t)
  <2> DEFINE sid == calls[t].sid
  <2>1. calls[t] \in Exchange /\ calls[t].op = "refresh"
    BY <1>2, AwaitedKinds DEF S!Rotate, S!RotateIf
  <2>2. sid \in S!Sids
    BY <2>1 DEF Exchange
  <2>3. CASE S!Live(sid) /\ sessions[sid].current = calls[t].token
    <3>1. account.must => calls[t].flagged
      BY <2>1, <2>3 DEF PasswordInv, ExchangeIsFlagged
    <3>2. S!Token(sid, calls[t].token, calls[t].flagged) \in Issue
      <4>1. sid \in Nat /\ calls[t].token \in Nat
        BY <2>1, <2>2 DEF Exchange, SessionTypes, S!Sids, S!Issued
      <4> QED BY <2>1, <4>1 DEF SessionTypes, S!Token, Issue, Exchange, Account
    <3> QED BY <1>2, <2>2, <2>3, <3>1, <3>2, TokenStored DEF S!Rotate, S!RotateIf
  <2>4. CASE ~(S!Live(sid) /\ sessions[sid].current = calls[t].token)
    <3>1. /\ sessions' = [S!Revoked({sid}) EXCEPT ![sid].reused = @ \/ S!Live(sid)]
          /\ S!Call(t, S!Refused)
          /\ UNCHANGED <<account, changes, tokens>>
      BY <1>2, <2>4 DEF S!Rotate, S!RotateIf
    <3> DEFINE f == S!Revoked({sid})
    <3>2. /\ f \in [S!Sids -> Row]
          /\ \A s \in S!Sids : (~f[s].revoked => S!Live(s)) /\ f[s].password = sessions[s].password
      BY RevokedRow, RevokedRows
    <3> HIDE DEF f
    <3>3. \A b : \A r \in Row : /\ [r EXCEPT !.reused = b].revoked = r.revoked
                            /\ [r EXCEPT !.reused = b].password = r.password
      BY DEF Row
    <3>4. sessions' = [f EXCEPT ![sid] = [f[sid] EXCEPT !.reused = @ \/ S!Live(sid)]]
      BY <3>1 DEF f
    <3>5. /\ DOMAIN sessions' = S!Sids
          /\ \A s \in S!Sids : /\ sessions'[s].revoked = f[s].revoked
                               /\ sessions'[s].password = f[s].password
      BY <3>2, <3>3, <3>4
    <3>6. S!Sids' = S!Sids
      BY <3>5 DEF S!Sids
    <3>7. \A s \in S!Sids : /\ S!Live(s)' => S!Live(s)
                            /\ sessions'[s].password = sessions[s].password
      BY <3>2, <3>5 DEF S!Live
    <3> QED BY <3>1, <3>6, <3>7, QuietCall
  <2> QED BY <2>3, <2>4
<1> QED BY <1>1, <1>2

LEMMA ReplacePasswords ==
  ASSUME PasswordInv, SessionTypes', ~LoginRaces, NEW t \in Tabs,
         S!Logout(t) \/ S!PasswordVerify(t) \/ S!PasswordReplace(t)
  PROVE  PasswordInv'
<1> SessionTypes /\ calls[t] \in Awaited
  BY DEF PasswordInv, SessionTypes
<1> S!Refused.op = "answer" /\ S!Idle.op = "idle"
  BY DEF S!Refused, S!Idle
<1>1. CASE S!Logout(t)
  <2>1. S!Sids' = S!Sids
    BY <1>1, RevokedRows, RowsStay DEF S!Logout
  <2> QED BY <1>1, <2>1, RevokedEnds, QuietCall DEF S!Logout
<1>2. CASE S!PasswordVerify(t)
  <2>1. UNCHANGED <<account, changes, tokens, sessions>>
    BY <1>2 DEF S!PasswordVerify
  <2>2. PICK c : S!Call(t, c) /\ c.op = "password"
    BY <1>2 DEF S!PasswordVerify
  <2> QED BY <2>1, <2>2, QuietCall DEF S!Sids, S!Live
<1>3. CASE S!PasswordReplace(t) /\ account.password # calls[t].read
  <2>1. UNCHANGED <<account, changes, tokens, sessions>> /\ S!Call(t, S!Idle)
    BY <1>3 DEF S!PasswordReplace, S!ReplaceAndRevoke
  <2> QED BY <2>1, QuietCall DEF S!Sids, S!Live
<1>4. CASE S!PasswordReplace(t) /\ account.password = calls[t].read
  <2> DEFINE sid == calls[t].sid
             f == S!Revoked(S!Sids \ {sid})
  <2>1. /\ account' = [account EXCEPT !.password = changes + 2, !.must = FALSE]
        /\ sessions' = [f EXCEPT ![sid].password = changes + 2]
        /\ changes' = changes + 1 /\ tokens' = tokens
        /\ S!Call(t, S!Idle) /\ S!Quiet
    BY <1>4 DEF S!PasswordReplace, S!ReplaceAndRevoke
  <2>2. account'.password = changes + 2 /\ ~account'.must
    BY <2>1 DEF SessionTypes, Account
  <2>3. \A u \in Tabs : calls'[u].op # "login"
    BY <2>1 DEF S!Quiet, S!Call, SessionTypes
  <2>4. LoginIsFresh' /\ ExchangeIsFlagged' /\ S!PendingIsFlagged'
    BY <2>2, <2>3 DEF LoginIsFresh, ExchangeIsFlagged, S!PendingIsFlagged
  <2>5. Versions'
    <3>1. changes \in Nat /\ \A k \in S!Issued : tokens[k] \in Issue /\ tokens[k].under \in Nat
      <4>1. \A k \in S!Issued : tokens[k] \in Issue
        BY DEF SessionTypes, S!Issued
      <4> QED BY <4>1 DEF SessionTypes, Issue
    <3> QED BY <2>1, <2>2, <3>1 DEF PasswordInv, Versions, S!Issued
  <2>6. S!OldPasswordsAreOut'
    <3>1. /\ f \in [S!Sids -> Row]
          /\ \A s \in S!Sids \ {sid} : f[s].revoked
      BY RevokedRow, RevokedRows
    <3> HIDE DEF f
    <3>2. sessions' = [f EXCEPT ![sid] = [f[sid] EXCEPT !.password = changes + 2]]
      BY <2>1
    <3>3. \A n : \A r \in Row : [r EXCEPT !.password = n].password = n
      BY DEF Row
    <3>4. /\ DOMAIN sessions' = S!Sids
          /\ \A s \in S!Sids : sessions'[s].revoked \/ sessions'[s].password = changes + 2
      BY <3>1, <3>2, <3>3
    <3> QED BY <2>2, <3>4 DEF S!OldPasswordsAreOut, S!Live, S!Sids
  <2> QED BY <2>4, <2>5, <2>6 DEF PasswordInv
<1> QED BY <1>1, <1>2, <1>3, <1>4

LEMMA BrowserPasswords ==
  ASSUME PasswordInv, SessionTypes', NEW t \in Tabs, S!Receive(t) \/ S!Lose(t) \/ S!Forget(t)
  PROVE  PasswordInv'
<1>1. S!Idle.op = "idle" /\ UNCHANGED <<account, changes, tokens, sessions>>
  BY DEF S!Idle, S!Receive, S!ReceiveWith, S!Lose, S!Forget
<1>2. CASE S!Call(t, S!Idle)
  BY <1>1, <1>2, QuietCall DEF S!Sids, S!Live
<1>3. CASE UNCHANGED calls
  BY <1>1, <1>3 DEF PasswordInv, LoginIsFresh, ExchangeIsFlagged, Versions,
                    S!OldPasswordsAreOut, S!PendingIsFlagged, S!Sids, S!Issued, S!Live
<1> QED BY <1>2, <1>3 DEF S!Receive, S!ReceiveWith, S!Lose, S!Forget

LEMMA AdministratorPasswords ==
  ASSUME PasswordInv, SessionTypes', ~LoginRaces,
         (\E b \in BOOLEAN : S!ResetPassword(b) \/ S!SetActive(b)) \/ S!RemoveEmployee
  PROVE  PasswordInv'
<1> SessionTypes
  BY DEF PasswordInv
<1>1. /\ \A u \in Tabs : calls[u].op # "login"
      /\ UNCHANGED <<tokens, calls>> /\ changes' = changes + 1 /\ changes \in Nat
  BY DEF S!ResetPassword, S!SetActive, S!RemoveEmployee, S!Quiet, SessionTypes
<1>2. LoginIsFresh'
  BY <1>1 DEF LoginIsFresh
<1>3. \A k \in S!Issued : tokens[k].under \in Nat /\ tokens[k].under <= changes + 1
  <2>1. \A k \in S!Issued : tokens[k] \in Issue
    BY DEF SessionTypes, S!Issued
  <2> QED BY <2>1 DEF PasswordInv, Versions, Issue
<1>4. \A u \in Tabs : calls[u].op = "refresh" => calls[u].sid \in S!Sids
  BY AwaitedKinds DEF Exchange, SessionTypes
<1>5. ASSUME NEW b \in BOOLEAN, S!ResetPassword(b) PROVE PasswordInv'
  <2>1. account'.password = changes + 2 /\ S!Issued' = S!Issued
    BY <1>5 DEF S!ResetPassword, S!Issued
  <2>2. S!Sids' = S!Sids /\ \A s \in S!Sids : ~S!Live(s)'
    <3>1. sessions' = S!Revoked(S!Sids)
      BY <1>5 DEF S!ResetPassword
    <3> QED BY <3>1, RevokedRows, RowsStay, RevokedEnds
  <2>3. Versions' /\ S!PendingIsFlagged'
    BY <1>1, <1>3, <2>1 DEF Versions, S!PendingIsFlagged
  <2>4. ExchangeIsFlagged' /\ S!OldPasswordsAreOut'
    BY <1>1, <1>4, <2>2 DEF ExchangeIsFlagged, S!OldPasswordsAreOut
  <2> QED BY <1>2, <2>3, <2>4 DEF PasswordInv
<1>6. ASSUME (\E b \in BOOLEAN : S!SetActive(b)) \/ S!RemoveEmployee PROVE PasswordInv'
  <2>1. account'.password = account.password /\ account'.must = account.must
    BY <1>6 DEF S!SetActive, S!RemoveEmployee, SessionTypes, Account
  <2>2. S!Sids' = S!Sids /\ \A s \in S!Sids : /\ S!Live(s)' => S!Live(s)
                                              /\ sessions'[s].password = sessions[s].password
    <3>1. CASE sessions' = sessions
      BY <3>1 DEF S!Sids, S!Live
    <3>2. CASE sessions' = S!Revoked(S!Sids)
      BY <3>2, RevokedRows, RowsStay, RevokedEnds
    <3> QED BY <1>6, <3>1, <3>2 DEF S!SetActive, S!RemoveEmployee
  <2>3. Versions' /\ S!PendingIsFlagged'
    <3>1. account.password \in Nat
      BY DEF SessionTypes, Account
    <3> QED BY <1>1, <1>3, <2>1, <3>1 DEF PasswordInv, Versions, S!PendingIsFlagged, S!Issued
  <2>4. ExchangeIsFlagged'
    BY <1>1, <1>4, <2>1, <2>2 DEF PasswordInv, ExchangeIsFlagged
  <2>5. S!OldPasswordsAreOut'
    BY <2>1, <2>2 DEF PasswordInv, S!OldPasswordsAreOut
  <2> QED BY <1>2, <2>3, <2>4, <2>5 DEF PasswordInv
<1> QED BY <1>5, <1>6

LEMMA PasswordNext ==
  ASSUME ~LoginRaces
  PROVE  PasswordInv /\ [S!Next]_browser => PasswordInv'
<1> SUFFICES ASSUME PasswordInv, [S!Next]_browser PROVE PasswordInv'
  OBVIOUS
<1>1. SessionTypes'
  BY SessionTypesNext DEF PasswordInv
<1>2. CASE UNCHANGED browser
  BY <1>1, <1>2 DEF browser, PasswordInv, LoginIsFresh, ExchangeIsFlagged, Versions,
                    S!OldPasswordsAreOut, S!PendingIsFlagged, S!Sids, S!Issued, S!Live
<1>3. CASE \E t \in Tabs : S!Serve(t)
  BY <1>1, <1>3, LoginPasswords, RefreshPasswords, ReplacePasswords, BrowserPasswords
     DEF S!Serve
<1> QED BY <1>1, <1>2, <1>3, AdministratorPasswords DEF S!Next

-----------------------------------------------------------------------------
(* Sessions: reuse.                                                        *)

\* While no answer was lost and no call overlapped another, one tab at most waits; what it
\* exchanges is the cookie; and the cookie, or the token on its way to replace it, is the one
\* its session was last given.
OneWaits ==
    \A t, u \in Tabs : calls[t] # S!Idle /\ calls[u] # S!Idle => t = u

ExchangesTheCookie ==
    \A t \in Tabs : calls[t].op = "refresh" =>
        cookie # None /\ calls[t].token = cookie /\ calls[t].sid = tokens[cookie].sid

GrantIsCurrent ==
    \A t \in Tabs : calls[t].op = "answer" /\ calls[t].ok =>
        /\ tokens[calls[t].token].sid = calls[t].sid
        /\ sessions[calls[t].sid].current = calls[t].token

CookieIsCurrent ==
    \/ cookie = None
    \/ sessions[tokens[cookie].sid].current = cookie
    \/ \E t \in Tabs : calls[t].op = "answer"

InOrder == OneWaits /\ ExchangesTheCookie /\ GrantIsCurrent /\ CookieIsCurrent

AlarmInv == SessionTypes /\ (mishaps = 0 => InOrder) /\ S!NoFalseAlarm

LEMMA AlarmInit == S!Init => AlarmInv
<1> SUFFICES ASSUME S!Init PROVE AlarmInv
  OBVIOUS
<1>1. \A t \in Tabs : calls[t] = S!Idle /\ calls[t].op = "idle"
  BY DEF S!Init, S!Idle
<1>2. S!Sids = {} /\ cookie = None
  BY DEF S!Init, S!Sids
<1> QED BY <1>1, <1>2, SessionTypesInit
        DEF AlarmInv, InOrder, OneWaits, ExchangesTheCookie, GrantIsCurrent, CookieIsCurrent,
            S!NoFalseAlarm

\* Without mishaps the tab that begins or ends a call is the only one that waits.
LEMMA OnlyOneWaits ==
  ASSUME AlarmInv, mishaps' = 0, NEW t \in Tabs,
         S!Begin(t) \/ (calls[t].op # "idle" /\ UNCHANGED mishaps)
  PROVE  InOrder /\ \A u \in Tabs \ {t} : calls[u] = S!Idle
<1>1. mishaps = 0 /\ InOrder
  BY DEF S!Begin, AlarmInv, SessionTypes
<1>2. CASE S!Begin(t)
  BY <1>1, <1>2 DEF S!Begin
<1>3. CASE calls[t].op # "idle"
  BY <1>1, <1>3 DEF InOrder, OneWaits, S!Idle
<1> QED BY <1>1, <1>2, <1>3

\* So what it waits for next is all that matters.
LEMMA OneCall ==
  ASSUME SessionTypes, NEW t \in Tabs, \A u \in Tabs \ {t} : calls[u] = S!Idle,
         NEW c, S!Call(t, c),
         c.op = "refresh" => cookie' # None /\ c.token = cookie' /\ c.sid = tokens'[cookie'].sid,
         c.op = "answer" /\ c.ok => /\ tokens'[c.token].sid = c.sid
                                    /\ sessions'[c.sid].current = c.token,
         \/ cookie' = None
         \/ sessions'[tokens'[cookie'].sid].current = cookie'
         \/ c.op = "answer"
  PROVE  InOrder'
<1>1. calls'[t] = c /\ \A u \in Tabs \ {t} : calls'[u] = S!Idle /\ calls'[u].op = "idle"
  BY DEF S!Call, SessionTypes, S!Idle
<1>2. OneWaits'
  BY <1>1 DEF OneWaits, S!Idle
<1>3. ExchangesTheCookie'
  BY <1>1 DEF ExchangesTheCookie
<1>4. GrantIsCurrent'
  BY <1>1 DEF GrantIsCurrent
<1>5. CookieIsCurrent'
  BY <1>1 DEF CookieIsCurrent
<1> QED BY <1>2, <1>3, <1>4, <1>5 DEF InOrder

\* The cookie is current whenever no answer is on its way.
LEMMA CookieHolds ==
  ASSUME SessionTypes, InOrder, NEW t \in Tabs, \A u \in Tabs \ {t} : calls[u] = S!Idle,
         calls[t].op # "answer", cookie # None
  PROVE  /\ cookie \in S!Issued /\ tokens[cookie].sid \in S!Sids
         /\ sessions[tokens[cookie].sid].current = cookie
<1>1. \A u \in Tabs : calls[u].op # "answer"
  BY DEF S!Idle
<1> QED BY <1>1 DEF InOrder, CookieIsCurrent, SessionTypes

\* A token that is stored and handed out is the current one of its session.
LEMMA Handed ==
  ASSUME SessionTypes, NEW t \in Tabs, \A u \in Tabs \ {t} : calls[u] = S!Idle,
         NEW sid \in S!Sids, NEW from, NEW flagged, S!Token(sid, from, flagged) \in Issue,
         tokens' = Append(tokens, S!Token(sid, from, flagged)),
         sessions' = [sessions EXCEPT ![sid].current = Len(tokens) + 1],
         S!Call(t, S!Granted(sid)), \A s \in S!Sids : ~sessions[s].reused
  PROVE  InOrder' /\ \A s \in S!Sids' : ~sessions'[s].reused
<1>1. tokens'[Len(tokens) + 1].sid = sid
  BY TokensAdded DEF S!Token
<1>2. /\ sessions'[sid].current = Len(tokens) + 1
      /\ S!Sids' = S!Sids
      /\ \A s \in S!Sids : sessions'[s].reused = sessions[s].reused
  <2>1. sessions \in [S!Sids -> Row]
    BY RowSet
  <2> DEFINE n == Len(tokens) + 1
  <2>2. \A r \in Row : /\ [r EXCEPT !.current = n].current = n
                       /\ [r EXCEPT !.current = n].reused = r.reused
    BY DEF Row
  <2> QED BY <2>1, <2>2 DEF S!Sids
<1>3. S!Granted(sid).op = "answer" /\ S!Granted(sid).token = Len(tokens) + 1 /\ S!Granted(sid).sid = sid
  BY DEF S!Granted
<1>4. InOrder'
  BY <1>1, <1>2, <1>3, OneCall
<1> QED BY <1>2, <1>4

LEMMA LoginAlarm ==
  ASSUME AlarmInv, SessionTypes', mishaps' = 0, NEW t \in Tabs,
         S!LoginVerify(t) \/ S!LoginCreate(t) \/ S!LoginStore(t)
  PROVE  InOrder' /\ \A s \in S!Sids' : ~sessions'[s].reused
<1> SessionTypes /\ calls[t] \in Awaited
  BY DEF AlarmInv, SessionTypes
<1>1. InOrder /\ \A u \in Tabs \ {t} : calls[u] = S!Idle
  BY OnlyOneWaits DEF S!LoginVerify, S!LoginCreate, S!LoginStore
<1>2. \A s \in S!Sids : ~sessions[s].reused
  <2>1. mishaps = 0
    BY DEF S!LoginVerify, S!LoginCreate, S!LoginStore, S!Begin, SessionTypes
  <2> QED BY <2>1 DEF AlarmInv, S!NoFalseAlarm
<1>3. CASE S!LoginVerify(t)
  <2>1. UNCHANGED <<cookie, tokens, sessions>> /\ calls[t].op # "answer"
    BY <1>3 DEF S!LoginVerify, S!Begin, S!Idle
  <2>2. PICK c : S!Call(t, c) /\ c.op = "login"
    BY <1>3 DEF S!LoginVerify
  <2>3. InOrder'
    BY <1>1, <2>1, <2>2, CookieHolds, OneCall
  <2> QED BY <1>2, <2>1, <2>3 DEF S!Sids
<1>4. CASE S!LoginCreate(t)
  <2> DEFINE r == [current |-> None, revoked |-> FALSE, reused |-> FALSE,
                   password |-> calls[t].read.password]
  <2>1. UNCHANGED <<cookie, tokens>> /\ calls[t].op # "answer"
    BY <1>4 DEF S!LoginCreate
  <2>2. r \in Row /\ ~r.reused
    <3>1. calls[t] \in Verified
      BY <1>4, AwaitedKinds DEF S!LoginCreate
    <3> QED BY <3>1 DEF Verified, Account, Row
  <2>3. /\ S!Sids' = S!Sids \cup {Len(sessions) + 1}
        /\ \A s \in S!Sids : sessions'[s] = sessions[s]
        /\ sessions'[Len(sessions) + 1] = r
    BY <1>4, <2>2, RowsAdded DEF S!LoginCreate
  <2>4. PICK c : S!Call(t, c) /\ c.op = "login"
    BY <1>4 DEF S!LoginCreate
  <2>5. cookie # None => sessions'[tokens[cookie].sid].current = cookie
    BY <1>1, <2>1, <2>3, CookieHolds
  <2>6. InOrder'
    BY <1>1, <2>1, <2>4, <2>5, OneCall
  <2> QED BY <1>2, <2>2, <2>3, <2>6
<1>5. CASE S!LoginStore(t)
  <2>1. calls[t] \in Created
    BY <1>5, AwaitedKinds DEF S!LoginStore
  <2>2. calls[t].sid \in S!Sids /\ S!Token(calls[t].sid, None, calls[t].flagged) \in Issue
    BY <2>1 DEF Created, SessionTypes, S!Sids, S!Token, Issue, Account
  <2> QED BY <1>1, <1>2, <1>5, <2>2, Handed DEF S!LoginStore
<1> QED BY <1>3, <1>4, <1>5

LEMMA RefreshAlarm ==
  ASSUME AlarmInv, SessionTypes', mishaps' = 0, NEW t \in Tabs, S!RefreshRead(t) \/ S!Rotate(t)
  PROVE  InOrder' /\ \A s \in S!Sids' : ~sessions'[s].reused
<1> SessionTypes /\ calls[t] \in Awaited
  BY DEF AlarmInv, SessionTypes
<1> S!Refused.op = "answer" /\ S!Refused.ok = FALSE
  BY DEF S!Refused
<1>1. InOrder /\ \A u \in Tabs \ {t} : calls[u] = S!Idle
  BY OnlyOneWaits DEF S!RefreshRead, S!Rotate, S!RotateIf
<1>2. \A s \in S!Sids : ~sessions[s].reused
  <2>1. mishaps = 0
    BY DEF S!RefreshRead, S!Rotate, S!RotateIf, S!Begin, SessionTypes
  <2> QED BY <2>1 DEF AlarmInv, S!NoFalseAlarm
<1>3. CASE S!RefreshRead(t)
  <2>1. UNCHANGED <<cookie, tokens, sessions>> /\ calls[t].op # "answer" /\ cookie # None
    BY <1>3 DEF S!RefreshRead, S!Begin, S!Idle
  <2>2. PICK c : /\ S!Call(t, c)
                 /\ \/ c.op = "refresh" /\ c.token = cookie /\ c.sid = tokens[cookie].sid
                    \/ c.op = "answer" /\ ~c.ok
    BY <1>3 DEF S!RefreshRead
  <2>3. InOrder'
    BY <1>1, <2>1, <2>2, CookieHolds, OneCall
  <2> QED BY <1>2, <2>1, <2>3 DEF S!Sids
<1>4. CASE S!Rotate(t)
  <2> DEFINE sid == calls[t].sid
  <2>1. calls[t] \in Exchange /\ calls[t].op = "refresh"
    BY <1>4, AwaitedKinds DEF S!Rotate, S!RotateIf
  <2>2. sid \in S!Sids /\ sid \in Nat /\ calls[t].token \in Nat
    BY <2>1 DEF Exchange, SessionTypes, S!Sids, S!Issued
  <2>3. cookie # None /\ calls[t].token = cookie /\ sid = tokens[cookie].sid
    BY <1>1, <2>1 DEF InOrder, ExchangesTheCookie
  <2>4. sessions[sid].current = calls[t].token
    BY <1>1, <2>1, <2>3, CookieHolds
  <2>5. CASE S!Live(sid)
    <3>1. S!Token(sid, calls[t].token, calls[t].flagged) \in Issue
      BY <2>1, <2>2 DEF SessionTypes, S!Token, Issue, Exchange, Account
    <3> QED BY <1>1, <1>2, <1>4, <2>2, <2>4, <2>5, <3>1, Handed DEF S!Rotate, S!RotateIf
  <2>6. CASE ~S!Live(sid)
    <3>1. /\ sessions' = [S!Revoked({sid}) EXCEPT ![sid].reused = @ \/ S!Live(sid)]
          /\ S!Call(t, S!Refused)
          /\ UNCHANGED <<cookie, tokens>>
      BY <1>4, <2>6 DEF S!Rotate, S!RotateIf
    <3> DEFINE f == S!Revoked({sid})
    <3>2. /\ f \in [S!Sids -> Row]
          /\ \A s \in S!Sids : ~f[s].reused
      BY <1>2, RevokedRow, RevokedRows
    <3> HIDE DEF f
    <3>3. \A b : \A r \in Row : [r EXCEPT !.reused = b].reused = b
      BY DEF Row
    <3>4. sessions' = [f EXCEPT ![sid] = [f[sid] EXCEPT !.reused = f[sid].reused \/ S!Live(sid)]]
      BY <3>1 DEF f
    <3>5. /\ DOMAIN sessions' = S!Sids
          /\ \A s \in S!Sids : ~sessions'[s].reused
      BY <2>2, <2>6, <3>2, <3>3, <3>4
    <3>6. InOrder'
      BY <1>1, <3>1, OneCall
    <3> QED BY <3>5, <3>6 DEF S!Sids
  <2> QED BY <2>5, <2>6
<1> QED BY <1>3, <1>4

LEMMA ReplaceAlarm ==
  ASSUME AlarmInv, SessionTypes', mishaps' = 0, NEW t \in Tabs,
         S!Logout(t) \/ S!PasswordVerify(t) \/ S!PasswordReplace(t)
  PROVE  InOrder' /\ \A s \in S!Sids' : ~sessions'[s].reused
<1> SessionTypes /\ calls[t] \in Awaited
  BY DEF AlarmInv, SessionTypes
<1> /\ S!Refused.op = "answer" /\ S!Refused.ok = FALSE
    /\ S!Idle.op = "idle"
  BY DEF S!Refused, S!Idle
<1>1. InOrder /\ \A u \in Tabs \ {t} : calls[u] = S!Idle
  BY OnlyOneWaits DEF S!Logout, S!PasswordVerify, S!PasswordReplace, S!ReplaceAndRevoke
<1>2. \A s \in S!Sids : ~sessions[s].reused
  <2>1. mishaps = 0
    BY DEF S!Logout, S!PasswordVerify, S!PasswordReplace, S!ReplaceAndRevoke, S!Begin, SessionTypes
  <2> QED BY <2>1 DEF AlarmInv, S!NoFalseAlarm
<1>3. UNCHANGED <<cookie, tokens>> /\ calls[t].op # "answer"
  BY DEF S!Logout, S!PasswordVerify, S!PasswordReplace, S!ReplaceAndRevoke, S!Begin
\* Its session is the same but for what ends it or its password.
<1>4. /\ S!Sids' = S!Sids
      /\ \A s \in S!Sids : /\ sessions'[s].current = sessions[s].current
                           /\ sessions'[s].reused = sessions[s].reused
  <2>1. CASE S!Logout(t)
    <3>1. sessions' = S!Revoked({access[t]})
      BY <2>1 DEF S!Logout
    <3>2. S!Sids' = S!Sids
      BY <3>1, RevokedRows, RowsStay
    <3> QED BY <3>1, <3>2, RevokedRow
  <2>2. CASE UNCHANGED sessions
    BY <2>2 DEF S!Sids
  <2>3. CASE S!PasswordReplace(t) /\ account.password = calls[t].read
    <3> DEFINE sid == calls[t].sid
               f == S!Revoked(S!Sids \ {sid})
    <3>1. calls[t] \in Replacing
      BY <2>3, AwaitedKinds DEF S!PasswordReplace, S!ReplaceAndRevoke
    <3>2. sid \in S!Sids
      BY <3>1 DEF Replacing
    <3>3. /\ f \in [S!Sids -> Row]
          /\ \A s \in S!Sids : f[s].current = sessions[s].current /\ f[s].reused = sessions[s].reused
      BY RevokedRow, RevokedRows
    <3>4. sessions' = [f EXCEPT ![sid].password = changes + 2]
      BY <2>3 DEF S!PasswordReplace, S!ReplaceAndRevoke
    <3> HIDE DEF f
    <3>5. sessions' = [f EXCEPT ![sid] = [f[sid] EXCEPT !.password = changes + 2]]
      BY <3>4
    <3>6. \A n : \A r \in Row : /\ [r EXCEPT !.password = n].current = r.current
                            /\ [r EXCEPT !.password = n].reused = r.reused
      BY DEF Row
    <3>7. /\ DOMAIN sessions' = S!Sids
          /\ \A s \in S!Sids : /\ sessions'[s].current = f[s].current
                               /\ sessions'[s].reused = f[s].reused
      BY <3>2, <3>3, <3>5, <3>6
    <3> QED BY <3>3, <3>7 DEF S!Sids
  <2> QED BY <2>1, <2>2, <2>3 DEF S!PasswordVerify, S!PasswordReplace, S!ReplaceAndRevoke
<1>5. PICK c : S!Call(t, c) /\ c.op # "refresh" /\ (c.op = "answer" => ~c.ok)
  BY DEF S!Logout, S!PasswordVerify, S!PasswordReplace, S!ReplaceAndRevoke
<1>6. cookie # None => sessions'[tokens[cookie].sid].current = cookie
  BY <1>1, <1>3, <1>4, CookieHolds
<1>7. InOrder'
  BY <1>1, <1>3, <1>5, <1>6, OneCall
<1> QED BY <1>2, <1>4, <1>7

LEMMA BrowserAlarm ==
  ASSUME AlarmInv, SessionTypes', mishaps' = 0, NEW t \in Tabs,
         S!Receive(t) \/ S!Lose(t) \/ S!Forget(t)
  PROVE  InOrder' /\ \A s \in S!Sids' : ~sessions'[s].reused
<1> SessionTypes /\ calls[t] \in Awaited
  BY DEF AlarmInv, SessionTypes
<1> S!Idle.op = "idle"
  BY DEF S!Idle
<1>1. ~S!Lose(t) /\ mishaps = 0
  BY DEF S!Lose, S!Receive, S!ReceiveWith, S!Forget, SessionTypes
<1>2. InOrder /\ \A s \in S!Sids' : ~sessions'[s].reused
  BY <1>1 DEF AlarmInv, S!NoFalseAlarm, S!Receive, S!ReceiveWith, S!Forget, S!Sids
<1>3. CASE S!Receive(t)
  <2>1. \A u \in Tabs \ {t} : calls[u] = S!Idle
    BY <1>3, OnlyOneWaits DEF S!Receive, S!ReceiveWith
  <2>2. UNCHANGED <<tokens, sessions>> /\ S!Call(t, S!Idle)
    BY <1>3 DEF S!Receive, S!ReceiveWith
  <2>3. cookie' = None \/ sessions[tokens[cookie'].sid].current = cookie'
    BY <1>2, <1>3 DEF S!Receive, S!ReceiveWith, InOrder, GrantIsCurrent
  <2>4. InOrder'
    BY <2>1, <2>2, <2>3, OneCall
  <2> QED BY <1>2, <2>4
<1>4. CASE S!Forget(t)
  BY <1>2, <1>4 DEF S!Forget, InOrder, OneWaits, ExchangesTheCookie, GrantIsCurrent,
                    CookieIsCurrent
<1> QED BY <1>1, <1>3, <1>4

LEMMA AdministratorAlarm ==
  ASSUME AlarmInv, SessionTypes', mishaps' = 0,
         (\E b \in BOOLEAN : S!ResetPassword(b) \/ S!SetActive(b)) \/ S!RemoveEmployee
  PROVE  InOrder' /\ \A s \in S!Sids' : ~sessions'[s].reused
<1> SessionTypes
  BY DEF AlarmInv
<1>1. UNCHANGED <<tokens, cookie, calls, mishaps>>
  BY DEF S!ResetPassword, S!SetActive, S!RemoveEmployee
<1>2. InOrder /\ \A s \in S!Sids : ~sessions[s].reused
  BY <1>1 DEF AlarmInv, S!NoFalseAlarm
<1>3. /\ S!Sids' = S!Sids
      /\ \A s \in S!Sids : /\ sessions'[s].current = sessions[s].current
                           /\ sessions'[s].reused = sessions[s].reused
  <2>1. CASE UNCHANGED sessions
    BY <2>1 DEF S!Sids
  <2>2. CASE sessions' = S!Revoked(S!Sids)
    <3>1. S!Sids' = S!Sids
      BY <2>2, RevokedRows, RowsStay
    <3> QED BY <2>2, <3>1, RevokedRow
  <2> QED BY <2>1, <2>2 DEF S!ResetPassword, S!SetActive, S!RemoveEmployee
<1>4. \A t \in Tabs : calls[t].op = "answer" /\ calls[t].ok => calls[t].sid \in S!Sids
  BY AwaitedKinds DEF Grant, SessionTypes
<1>5. cookie # None => tokens[cookie].sid \in S!Sids
  BY DEF SessionTypes
<1>6. InOrder'
  BY <1>1, <1>2, <1>3, <1>4, <1>5 DEF InOrder, OneWaits, ExchangesTheCookie, GrantIsCurrent,
                                      CookieIsCurrent
<1> QED BY <1>2, <1>3, <1>6

LEMMA AlarmNext == AlarmInv /\ [S!Next]_browser => AlarmInv'
<1> SUFFICES ASSUME AlarmInv, [S!Next]_browser PROVE AlarmInv'
  OBVIOUS
<1>1. SessionTypes'
  BY SessionTypesNext DEF AlarmInv
<1>2. SUFFICES ASSUME mishaps' = 0 PROVE InOrder' /\ \A s \in S!Sids' : ~sessions'[s].reused
  BY <1>1 DEF AlarmInv, S!NoFalseAlarm
<1>3. CASE UNCHANGED browser
  BY <1>2, <1>3 DEF browser, AlarmInv, InOrder, OneWaits, ExchangesTheCookie, GrantIsCurrent,
                    CookieIsCurrent, S!NoFalseAlarm, S!Sids
<1>4. CASE \E t \in Tabs : S!Serve(t)
  BY <1>1, <1>2, <1>4, LoginAlarm, RefreshAlarm, ReplaceAlarm, BrowserAlarm DEF S!Serve
<1> QED BY <1>1, <1>2, <1>3, <1>4, AdministratorAlarm DEF S!Next

-----------------------------------------------------------------------------
(* Sessions: the theorems.                                                 *)

\* A step of MCOffice is a step of the sessions or leaves them alone.
LEMMA SessionsStep == [NextAny]_allVars => [S!Next]_browser
BY DEF NextAny, allVars

\* Neither a login, nor an exchange, nor a change of the password that runs beside a reset, a
\* deactivation or another change leaves a session alive on a password no longer in force
\* (changePassword, resetPassword, refreshSession), and no token handed out under a password
\* somebody else chose lacks the flag that stops everything but replacing it (issue), as long
\* as the account does not change between the reads and the writes of one login.
THEOREM ReplacedPasswordsTakeHold ==
  ASSUME ~LoginRaces
  PROVE  SpecAll => []PasswordsTakeHold
<1>1. InitAll => PasswordInv
  BY PasswordInit DEF InitAll
<1>2. PasswordInv /\ [NextAny]_allVars => PasswordInv'
  BY PasswordNext, SessionsStep
<1>3. PasswordInv => PasswordsTakeHold
  BY DEF PasswordInv, PasswordsTakeHold
<1> QED BY <1>1, <1>2, <1>3, PTL DEF SpecAll

\* While every answer arrives and no call overlaps another, whatever logins, exchanges,
\* logouts, changes of the password and interventions of administrators follow one another in
\* however many tabs, no session is ended as stolen (refreshSession).
THEOREM NobodyIsTakenForAThief == SpecAll => []NoFalseAlarm
<1>1. InitAll => AlarmInv
  BY AlarmInit DEF InitAll
<1>2. AlarmInv /\ [NextAny]_allVars => AlarmInv'
  BY AlarmNext, SessionsStep
<1>3. AlarmInv => NoFalseAlarm
  BY DEF AlarmInv, NoFalseAlarm
<1> QED BY <1>1, <1>2, <1>3, PTL DEF SpecAll

-----------------------------------------------------------------------------
(* Accounts and audiences: the types.                                      *)

Accounted == [role : U!Roles, active : BOOLEAN, employee : Employees \cup {None}]
Claimed == [role : U!Roles, employee : Employees \cup {None}]
Requested == [employee : Employees, by : Users, pending : BOOLEAN]
Notified == [type : {"LEAVE_REQUESTED", "LEAVE_REVIEWED"}, request : Requested,
             reviewer : Users \cup {None}]

PeopleTypes ==
    /\ accounts \in [Users -> Accounted \cup {None}]
    /\ staff \in [Employees -> [supervisor : Employees \cup {None}, deleted : BOOLEAN]]
    /\ claims \in [Users -> Claimed \cup {None}]
    /\ edit \subseteq [user : Users, dto : U!Dto]
    /\ sockets \in [Users -> Claimed \cup {None}]
    /\ requests \subseteq Requested
    /\ notify \subseteq Notified

\* What an update makes of an account is one, on the same employee and role unless it says so.
LEMMA AppliedAccount ==
  ASSUME NEW a \in Accounted, NEW dto \in U!Dto
  PROVE  /\ U!Applied(dto, a) \in Accounted
         /\ U!Applied(dto, a).role = IF dto.role = Kept THEN a.role ELSE dto.role
         /\ U!Applied(dto, a).active = IF dto.active = Kept THEN a.active ELSE dto.active
         /\ U!Applied(dto, a).employee = IF dto.employee = Kept THEN a.employee ELSE dto.employee
BY DEF U!Applied, U!Dto, Accounted

LEMMA ClaimsTyped ==
  ASSUME NEW a \in Accounted
  PROVE  /\ U!ClaimsOf(a) \in Claimed
         /\ U!ClaimsOf(a).role = a.role /\ U!ClaimsOf(a).employee = a.employee
BY DEF U!ClaimsOf, Accounted, Claimed

\* An edit reissues the tokens in use from accounts that are.
LEMMA ReissuedClaims ==
  ASSUME PeopleTypes, accounts' \in [Users -> Accounted \cup {None}],
         \A u \in Users : U!Exists(u) => U!Exists(u)',
         \A u \in Users : claims[u] # None => U!Exists(u),
         claims' = U!Reissued, ~StaleTokens
  PROVE  /\ claims' \in [Users -> Claimed \cup {None}]
         /\ \A u \in Users : claims'[u] # None =>
               U!Exists(u)' /\ accounts'[u].active /\ claims'[u] = U!ClaimsOf(accounts'[u])
<1>1. \A u \in Users : accounts'[u] # None => U!ClaimsOf(accounts'[u]) \in Claimed
  BY ClaimsTyped
<1>2. \A u \in Users : claims[u] # None => accounts'[u] # None
  BY DEF U!Exists
<1>3. claims' = [u \in Users |->
        IF claims[u] = None THEN None
        ELSE IF accounts'[u].active THEN U!ClaimsOf(accounts'[u]) ELSE None]
  BY DEF U!Reissued
<1> QED BY <1>1, <1>2, <1>3 DEF U!Exists

-----------------------------------------------------------------------------
(* Accounts: they stay usable.                                             *)

\* Tokens follow the accounts (StaleTokens = FALSE).
TokensFollow ==
    \A u \in Users : claims[u] # None =>
        U!Exists(u) /\ accounts[u].active /\ claims[u] = U!ClaimsOf(accounts[u])

\* An active super administrator.
InCharge(u) == U!Exists(u) /\ accounts[u].active /\ accounts[u].role = "SUPER_ADMIN"

\* The one update under way was judged on the account as it still is, but for its being active:
\* it leaves it linked, and a super administrator is demoted or stopped only beside another.
EditsAreSound ==
    /\ \A i, j \in edit : i = j
    /\ \A j \in edit :
          /\ U!Exists(j.user)
          /\ LET after == U!Applied(j.dto, accounts[j.user])
             IN  U!Linked(after.role, after.employee)
          /\ accounts[j.user].role = "SUPER_ADMIN" =>
                \/ j.dto.role = Kept /\ j.dto.active # FALSE
                \/ \E v \in Users \ {j.user} : InCharge(v)

AccountsInv == PeopleTypes /\ TokensFollow /\ EditsAreSound /\ U!AccountsStayUsable

\* NoneIsNoAccount: an account that is there is not taken for one that is not.
LEMMA AccountThere ==
  ASSUME NEW u \in Users, accounts \in [Users -> Accounted \cup {None}]
  PROVE  U!Exists(u) <=> accounts[u] \in Accounted
BY NoneIsNoAccount DEF U!Exists, Accounted

LEMMA AccountsInitially == U!Init => AccountsInv
<1> SUFFICES ASSUME U!Init PROVE AccountsInv
  OBVIOUS
<1>1. PeopleTypes
  BY DEF U!Init, U!AccountsInit, PeopleTypes
<1>2. \A u \in Users : ~U!Exists(u) /\ claims[u] = None
  BY DEF U!Init, U!AccountsInit, U!Exists
<1>3. edit = {}
  BY DEF U!Init, U!AccountsInit
<1> QED BY <1>1, <1>2, <1>3 DEF AccountsInv, TokensFollow, EditsAreSound, U!AccountsStayUsable

\* What is said of the accounts survives a step that leaves them, the tokens and the updates.
LEMMA AccountsAlone ==
  ASSUME AccountsInv, PeopleTypes', UNCHANGED <<accounts, claims, edit>>
  PROVE  AccountsInv'
BY DEF AccountsInv, TokensFollow, EditsAreSound, U!AccountsStayUsable, U!Exists, U!Active, InCharge

LEMMA SignInStep ==
  ASSUME AccountsInv, NEW u \in Users, U!SignIn(u), UNCHANGED <<sockets, requests, notify>>
  PROVE  AccountsInv'
<1>1. /\ PeopleTypes /\ UNCHANGED <<accounts, staff, edit>> /\ U!Exists(u) /\ accounts[u].active
      /\ claims' = [claims EXCEPT ![u] = U!ClaimsOf(accounts[u])]
  BY DEF U!SignIn, U!Active, AccountsInv
<1>2. U!ClaimsOf(accounts[u]) \in Claimed
  BY <1>1, AccountThere, ClaimsTyped DEF PeopleTypes
<1>3. PeopleTypes'
  BY <1>1, <1>2 DEF PeopleTypes
<1>4. TokensFollow'
  BY <1>1 DEF AccountsInv, TokensFollow, PeopleTypes, U!Exists
<1>5. EditsAreSound' /\ U!AccountsStayUsable'
  BY <1>1 DEF AccountsInv, EditsAreSound, U!AccountsStayUsable, U!Exists, U!Active, InCharge
<1> QED BY <1>3, <1>4, <1>5 DEF AccountsInv

\* Somebody is in charge while anybody may call.
LEMMA CallerHasAdmin ==
  ASSUME AccountsInv, NEW by \in Users, NEW permission, U!MayCall(by, permission)
  PROVE  /\ U!Exists(by) /\ accounts[by].active /\ accounts[by].role = claims[by].role
         /\ \E v \in Users : InCharge(v)
<1>1. U!Exists(by) /\ accounts[by].active /\ claims[by] = U!ClaimsOf(accounts[by])
  BY DEF U!MayCall, AccountsInv, TokensFollow
<1> QED BY <1>1 DEF AccountsInv, U!AccountsStayUsable, U!Active, InCharge, U!ClaimsOf

\* A new account leaves all others as they are.
LEMMA AccountAdded ==
  ASSUME AccountsInv, NEW u \in Users, ~U!Exists(u), NEW a \in Accounted,
         accounts' = [accounts EXCEPT ![u] = a], UNCHANGED <<staff, claims, edit>>,
         UNCHANGED <<sockets, requests, notify>>,
         U!Linked(a.role, a.employee),
         (\E v \in Users : InCharge(v)) \/ (a.role = "SUPER_ADMIN" /\ a.active)
  PROVE  AccountsInv'
<1>1. PeopleTypes'
  BY DEF AccountsInv, PeopleTypes
<1>2. /\ U!Exists(u)' /\ accounts'[u] = a
      /\ \A v \in Users \ {u} : accounts'[v] = accounts[v] /\ (U!Exists(v)' <=> U!Exists(v))
  BY <1>1, AccountThere DEF AccountsInv, PeopleTypes, U!Exists
<1>3. TokensFollow'
  BY <1>2 DEF AccountsInv, TokensFollow, U!Exists
<1>4. \A v \in Users : InCharge(v) => v # u /\ InCharge(v)'
  BY <1>2 DEF InCharge
<1>5. \A j \in edit : j.user \in Users /\ j.user # u
  BY DEF AccountsInv, EditsAreSound, PeopleTypes
<1>6. EditsAreSound'
  <2>1. \A i, j \in edit' : i = j
    BY DEF AccountsInv, EditsAreSound
  <2> SUFFICES ASSUME NEW j \in edit
               PROVE  /\ U!Exists(j.user)'
                      /\ LET after == U!Applied(j.dto, accounts[j.user])'
                         IN  U!Linked(after.role, after.employee)
                      /\ accounts'[j.user].role = "SUPER_ADMIN" =>
                            \/ j.dto.role = Kept /\ j.dto.active # FALSE
                            \/ \E v \in Users \ {j.user} : InCharge(v)'
    BY <2>1 DEF EditsAreSound
  <2>2. accounts'[j.user] = accounts[j.user] /\ U!Exists(j.user)' /\ U!Exists(j.user)
    BY <1>2, <1>5 DEF AccountsInv, EditsAreSound
  <2>3. U!Applied(j.dto, accounts[j.user])' = U!Applied(j.dto, accounts[j.user])
    BY <2>2 DEF U!Applied
  <2>4. LET after == U!Applied(j.dto, accounts[j.user])'
        IN  U!Linked(after.role, after.employee)
    BY <2>3 DEF AccountsInv, EditsAreSound
  <2>5. accounts[j.user].role = "SUPER_ADMIN" =>
            \/ j.dto.role = Kept /\ j.dto.active # FALSE
            \/ \E v \in Users \ {j.user} : InCharge(v)
    BY DEF AccountsInv, EditsAreSound
  <2> QED BY <1>4, <2>2, <2>4, <2>5
<1>7. \E v \in Users : InCharge(v)'
  BY <1>2, <1>4 DEF InCharge
<1>8. U!AccountsStayUsable'
  BY <1>2, <1>7 DEF AccountsInv, U!AccountsStayUsable, U!Active, InCharge
<1> QED BY <1>1, <1>3, <1>6, <1>8 DEF AccountsInv

LEMMA CreateStep ==
  ASSUME AccountsInv, NEW by \in Users, NEW u \in Users, NEW role \in U!Roles,
         NEW e \in Employees \cup {None},
         U!CreateUser(by, u, role, e), UNCHANGED <<sockets, requests, notify>>
  PROVE  AccountsInv'
<1> DEFINE a == [role |-> role, active |-> TRUE, employee |-> e]
<1>1. a \in Accounted /\ a.role = role /\ a.employee = e
  BY DEF Accounted
<1>2. /\ ~U!Exists(u) /\ accounts' = [accounts EXCEPT ![u] = a] /\ U!Linked(role, e)
      /\ UNCHANGED <<staff, claims, edit>> /\ U!MayCall(by, "users:write")
  BY DEF U!CreateUser
<1>3. \E v \in Users : InCharge(v)
  BY <1>2, CallerHasAdmin
<1> HIDE DEF a
<1> QED BY <1>1, <1>2, <1>3, AccountAdded

\* A step that only stops or revives accounts, none of them one in charge, and leaves the
\* tokens as the accounts want them.
LEMMA OnlyActivity ==
  ASSUME AccountsInv, PeopleTypes', TokensFollow', UNCHANGED edit,
         \A v \in Users : /\ U!Exists(v)' <=> U!Exists(v)
                          /\ accounts'[v].role = accounts[v].role
                          /\ accounts'[v].employee = accounts[v].employee,
         \A v \in Users : InCharge(v) => InCharge(v)'
  PROVE  AccountsInv'
<1>1. \A j \in edit : /\ j.user \in Users /\ j.dto \in U!Dto /\ U!Exists(j.user)
                      /\ accounts[j.user] \in Accounted /\ accounts'[j.user] \in Accounted
  <2> SUFFICES ASSUME NEW j \in edit
               PROVE  /\ j.user \in Users /\ j.dto \in U!Dto /\ U!Exists(j.user)
                      /\ accounts[j.user] \in Accounted /\ accounts'[j.user] \in Accounted
    OBVIOUS
  <2>1. j.user \in Users /\ j.dto \in U!Dto /\ U!Exists(j.user)
    BY DEF AccountsInv, EditsAreSound, PeopleTypes
  <2>2. /\ accounts[j.user] # None /\ accounts'[j.user] # None
        /\ accounts[j.user] \in Accounted \cup {None} /\ accounts'[j.user] \in Accounted \cup {None}
    BY <2>1 DEF U!Exists, AccountsInv, PeopleTypes
  <2> QED BY <2>1, <2>2
<1>2. \A j \in edit : LET before == U!Applied(j.dto, accounts[j.user])
                          after == U!Applied(j.dto, accounts'[j.user])
                      IN  after.role = before.role /\ after.employee = before.employee
  BY <1>1, AppliedAccount
<1>3. EditsAreSound'
  BY <1>1, <1>2 DEF AccountsInv, EditsAreSound
<1>4. U!AccountsStayUsable'
  BY DEF AccountsInv, U!AccountsStayUsable, U!Active, InCharge
<1> QED BY <1>3, <1>4 DEF AccountsInv

LEMMA CreateAdminStep ==
  ASSUME AccountsInv, NEW u \in Users, U!CreateAdmin(u), UNCHANGED <<sockets, requests, notify>>
  PROVE  AccountsInv'
<1> DEFINE a == [role |-> "SUPER_ADMIN", active |-> TRUE, employee |-> None]
<1>1. CASE ~U!Exists(u)
  <2>1. a \in Accounted /\ a.role = "SUPER_ADMIN" /\ a.active /\ U!Linked(a.role, a.employee)
    BY DEF Accounted, U!Roles, U!Linked, U!ScopedRoles
  <2>2. accounts' = [accounts EXCEPT ![u] = a] /\ UNCHANGED <<staff, claims, edit>>
    BY <1>1 DEF U!CreateAdmin
  <2> HIDE DEF a
  <2> QED BY <1>1, <2>1, <2>2, AccountAdded
<1>2. CASE U!Exists(u)
  <2>1. /\ accounts[u].role = "SUPER_ADMIN" /\ ~accounts[u].active
        /\ accounts' = [accounts EXCEPT ![u].active = TRUE]
        /\ UNCHANGED <<staff, claims, edit>>
    BY <1>2 DEF U!CreateAdmin
  <2>2. accounts[u] \in Accounted
    BY <1>2, AccountThere DEF AccountsInv, PeopleTypes
  <2>3. /\ accounts'[u] \in Accounted /\ accounts'[u].role = accounts[u].role
        /\ accounts'[u].employee = accounts[u].employee /\ accounts'[u].active
        /\ \A v \in Users \ {u} : accounts'[v] = accounts[v]
    BY <2>1, <2>2 DEF AccountsInv, PeopleTypes, Accounted
  <2>4. PeopleTypes'
    BY <2>1, <2>2 DEF AccountsInv, PeopleTypes, Accounted
  <2>5. U!Exists(u)' /\ claims[u] = None
    <3>1. U!Exists(u)'
      BY <2>3, NoneIsNoAccount DEF U!Exists, Accounted
    <3> QED BY <2>1, <3>1 DEF AccountsInv, TokensFollow
  <2>6. TokensFollow'
    BY <2>1, <2>3, <2>5 DEF AccountsInv, TokensFollow, U!Exists
  <2>7. \A v \in Users : /\ U!Exists(v)' <=> U!Exists(v)
                         /\ accounts'[v].role = accounts[v].role
                         /\ accounts'[v].employee = accounts[v].employee
                         /\ InCharge(v) => InCharge(v)'
    BY <1>2, <2>3, <2>5 DEF U!Exists, InCharge
  <2> QED BY <2>1, <2>4, <2>6, <2>7, OnlyActivity
<1> QED BY <1>1, <1>2

LEMMA BeginUpdateStep ==
  ASSUME AccountsInv, ~EditRaces, NEW by \in Users, NEW u \in Users, NEW dto \in U!Dto,
         U!BeginUpdate(by, u, dto), UNCHANGED <<sockets, requests, notify>>
  PROVE  AccountsInv'
<1> DEFINE upd == [user |-> u, dto |-> dto]
<1>1. /\ U!Exists(u) /\ edit = {} /\ edit' = {upd} /\ UNCHANGED <<accounts, staff, claims>>
      /\ U!MayCall(by, "users:write") /\ U!OthersOnly(by, u, dto)
      /\ U!CanGrant(by, accounts[u].role)
      /\ LET after == U!Applied(dto, accounts[u]) IN U!Linked(after.role, after.employee)
  BY DEF U!BeginUpdate, U!EndsUp
<1>2. PeopleTypes' /\ TokensFollow'
  BY <1>1 DEF AccountsInv, PeopleTypes, TokensFollow, U!Exists
<1>3. U!AccountsStayUsable'
  BY <1>1 DEF AccountsInv, U!AccountsStayUsable, U!Exists, U!Active
<1>4. accounts[u].role = "SUPER_ADMIN" =>
         \/ dto.role = Kept /\ dto.active # FALSE
         \/ \E v \in Users \ {u} : InCharge(v)
  <2>1. CASE by = u
    BY <1>1, <2>1 DEF U!OthersOnly
  <2>2. CASE by # u /\ accounts[u].role = "SUPER_ADMIN"
    <3>1. accounts[by].role = "SUPER_ADMIN" /\ U!Exists(by) /\ accounts[by].active
      BY <1>1, <2>2, CallerHasAdmin DEF U!CanGrant, U!PrivilegedRoles
    <3> QED BY <2>2, <3>1 DEF InCharge
  <2> QED BY <2>1, <2>2
<1>5. EditsAreSound'
  <2>1. U!Applied(dto, accounts[u])' = U!Applied(dto, accounts[u])
    BY <1>1 DEF U!Applied
  <2>2. /\ U!Exists(u)' /\ \A v \in Users : InCharge(v)' <=> InCharge(v)
        /\ LET after == U!Applied(dto, accounts[u])' IN U!Linked(after.role, after.employee)
    BY <1>1, <2>1 DEF U!Exists, InCharge
  <2>3. upd.user = u /\ upd.dto = dto
    OBVIOUS
  <2> HIDE DEF upd
  <2> QED BY <1>1, <1>4, <2>2, <2>3 DEF EditsAreSound
<1> QED BY <1>2, <1>3, <1>5 DEF AccountsInv

LEMMA CommitUpdateStep ==
  ASSUME AccountsInv, ~StaleTokens, NEW upd \in edit, U!CommitUpdate(upd),
         UNCHANGED <<sockets, requests, notify>>
  PROVE  AccountsInv'
<1> DEFINE u == upd.user
           old == accounts[u]
           new == U!Applied(upd.dto, old)
<1>1. /\ u \in Users /\ upd.dto \in U!Dto /\ U!Exists(u) /\ old \in Accounted
      /\ U!Linked(new.role, new.employee)
  <2>1. u \in Users /\ upd.dto \in U!Dto /\ U!Exists(u)
    BY DEF AccountsInv, EditsAreSound, PeopleTypes
  <2> QED BY <2>1, AccountThere DEF AccountsInv, EditsAreSound, PeopleTypes
<1>2. /\ new \in Accounted
      /\ new.role = IF upd.dto.role = Kept THEN old.role ELSE upd.dto.role
      /\ new.active = IF upd.dto.active = Kept THEN old.active ELSE upd.dto.active
  BY <1>1, AppliedAccount
<1>3. edit' = {} /\ claims' = U!Reissued /\ UNCHANGED staff
  BY DEF U!CommitUpdate, AccountsInv, EditsAreSound
<1>4. accounts' \in {accounts, [accounts EXCEPT ![u] = new]}
  BY DEF U!CommitUpdate
<1> HIDE DEF new
<1>5. /\ accounts' \in [Users -> Accounted \cup {None}]
      /\ \A v \in Users : U!Exists(v)' <=> U!Exists(v)
  BY <1>1, <1>2, <1>4, NoneIsNoAccount DEF AccountsInv, PeopleTypes, U!Exists, Accounted
<1>6. \A v \in Users : claims[v] # None => U!Exists(v)
  BY DEF AccountsInv, TokensFollow
<1>7. /\ claims' \in [Users -> Claimed \cup {None}]
      /\ \A v \in Users : claims'[v] # None =>
            U!Exists(v)' /\ accounts'[v].active /\ claims'[v] = U!ClaimsOf(accounts'[v])
  BY <1>3, <1>5, <1>6, ReissuedClaims DEF AccountsInv
<1>8. PeopleTypes' /\ TokensFollow' /\ EditsAreSound'
  <2>1. PeopleTypes'
    BY <1>3, <1>5, <1>7 DEF AccountsInv, PeopleTypes
  <2>2. TokensFollow'
    BY <1>7 DEF TokensFollow
  <2>3. EditsAreSound'
    BY <1>3 DEF EditsAreSound
  <2> QED BY <2>1, <2>2, <2>3
<1>9. \E v \in Users : InCharge(v)'
  <2>1. PICK v \in Users : InCharge(v)
    BY <1>1 DEF AccountsInv, U!AccountsStayUsable, U!Active, InCharge
  <2>2. CASE accounts' = accounts
    BY <1>5, <2>1, <2>2 DEF InCharge
  <2>3. CASE accounts' = [accounts EXCEPT ![u] = new]
    <3>1. /\ \A w \in Users \ {u} : InCharge(w) => InCharge(w)'
          /\ U!Exists(u)' /\ accounts'[u] = new
      BY <1>1, <1>5, <2>3 DEF InCharge, AccountsInv, PeopleTypes
    <3>2. CASE \E w \in Users \ {u} : InCharge(w)
      BY <3>1, <3>2
    <3>3. CASE ~\E w \in Users \ {u} : InCharge(w)
      <4>1. InCharge(u)
        BY <2>1, <3>3
      <4>2. upd.dto.role = Kept /\ upd.dto.active # FALSE
        BY <3>3, <4>1 DEF InCharge, AccountsInv, EditsAreSound
      <4>3. upd.dto.active \in BOOLEAN \cup {Kept}
        BY <1>1 DEF U!Dto
      <4>4. new.role = "SUPER_ADMIN" /\ new.active
        BY <1>2, <4>1, <4>2, <4>3 DEF InCharge
      <4> QED BY <1>1, <3>1, <4>4 DEF InCharge
    <3> QED BY <3>2, <3>3
  <2> QED BY <1>4, <2>2, <2>3
<1>10. \A v \in Users : U!Exists(v)' => U!Linked(accounts'[v].role, accounts'[v].employee)
  <2>1. \A v \in Users : U!Exists(v) => U!Linked(accounts[v].role, accounts[v].employee)
    BY DEF AccountsInv, U!AccountsStayUsable
  <2>2. U!Linked(new.role, new.employee)
    BY <1>1 DEF new
  <2> QED BY <1>1, <1>4, <1>5, <2>1, <2>2 DEF AccountsInv, PeopleTypes
<1>11. U!AccountsStayUsable'
  BY <1>9, <1>10 DEF U!AccountsStayUsable, U!Active, InCharge
<1> QED BY <1>8, <1>11 DEF AccountsInv

LEMMA SetSupervisorStep ==
  ASSUME AccountsInv, NEW by \in Users, NEW e \in Employees, NEW s \in Employees \cup {None},
         U!SetSupervisor(by, e, s), UNCHANGED <<sockets, requests, notify>>
  PROVE  AccountsInv'
<1>1. UNCHANGED <<accounts, claims, edit>> /\ staff' = [staff EXCEPT ![e].supervisor = s]
  BY DEF U!SetSupervisor
<1>2. PeopleTypes'
  BY <1>1 DEF AccountsInv, PeopleTypes
<1> QED BY <1>1, <1>2, AccountsAlone

LEMMA RemoveEmployeeStep ==
  ASSUME AccountsInv, ~StaleTokens, ~RemovesAdmins, NEW by \in Users, NEW e \in Employees,
         U!RemoveEmployee(by, e), UNCHANGED <<sockets, requests, notify>>
  PROVE  AccountsInv'
<1> PeopleTypes
  BY DEF AccountsInv
<1>1. /\ claims' = U!Reissued /\ UNCHANGED edit
      /\ \A u \in Users : U!Exists(u) /\ accounts[u].employee = e => accounts[u].role # "SUPER_ADMIN"
      /\ accounts' = [u \in Users |->
            IF U!Exists(u) /\ accounts[u].employee = e THEN [accounts[u] EXCEPT !.active = FALSE]
            ELSE accounts[u]]
      /\ staff' = [d \in Employees |->
            IF d = e THEN [staff[e] EXCEPT !.deleted = TRUE]
            ELSE IF staff[d].supervisor = e THEN [staff[d] EXCEPT !.supervisor = None]
            ELSE staff[d]]
  BY DEF U!RemoveEmployee
<1>2. \A a \in Accounted : /\ [a EXCEPT !.active = FALSE] \in Accounted
                           /\ [a EXCEPT !.active = FALSE].role = a.role
                           /\ [a EXCEPT !.active = FALSE].employee = a.employee
  BY DEF Accounted
<1>3. \A u \in Users : /\ accounts'[u] \in Accounted \cup {None}
                       /\ U!Exists(u)' <=> U!Exists(u)
                       /\ accounts'[u].role = accounts[u].role
                       /\ accounts'[u].employee = accounts[u].employee
                       /\ InCharge(u) => accounts'[u] = accounts[u]
  <2> SUFFICES ASSUME NEW u \in Users
               PROVE  /\ accounts'[u] \in Accounted \cup {None}
                      /\ U!Exists(u)' <=> U!Exists(u)
                      /\ accounts'[u].role = accounts[u].role
                      /\ accounts'[u].employee = accounts[u].employee
                      /\ InCharge(u) => accounts'[u] = accounts[u]
    OBVIOUS
  <2>1. CASE U!Exists(u) /\ accounts[u].employee = e
    <3>1. accounts[u] \in Accounted /\ accounts'[u] = [accounts[u] EXCEPT !.active = FALSE]
      BY <1>1, <2>1, AccountThere DEF PeopleTypes
    <3>2. accounts'[u] \in Accounted /\ accounts'[u] # None
      BY <1>2, <3>1, NoneIsNoAccount DEF Accounted
    <3> QED BY <1>1, <1>2, <2>1, <3>1, <3>2 DEF U!Exists, InCharge
  <2>2. CASE ~(U!Exists(u) /\ accounts[u].employee = e)
    BY <1>1, <2>2 DEF U!Exists, PeopleTypes
  <2> QED BY <2>1, <2>2
<1>4. accounts' \in [Users -> Accounted \cup {None}]
  BY <1>1, <1>3
<1>5. \A v \in Users : claims[v] # None => U!Exists(v)
  BY DEF AccountsInv, TokensFollow
<1>6. /\ claims' \in [Users -> Claimed \cup {None}]
      /\ \A v \in Users : claims'[v] # None =>
            U!Exists(v)' /\ accounts'[v].active /\ claims'[v] = U!ClaimsOf(accounts'[v])
  BY <1>1, <1>3, <1>4, <1>5, ReissuedClaims
<1>7. staff' \in [Employees -> [supervisor : Employees \cup {None}, deleted : BOOLEAN]]
  BY <1>1 DEF PeopleTypes
<1>8. PeopleTypes' /\ TokensFollow'
  <2>1. PeopleTypes'
    BY <1>1, <1>4, <1>6, <1>7 DEF PeopleTypes
  <2>2. TokensFollow'
    BY <1>6 DEF TokensFollow
  <2> QED BY <2>1, <2>2
<1>9. \A u \in Users : InCharge(u) => InCharge(u)'
  BY <1>3 DEF InCharge
<1> QED BY <1>1, <1>3, <1>8, <1>9, OnlyActivity

LEMMA ManageStep ==
  ASSUME AccountsInv, ~EditRaces, ~StaleTokens, ~RemovesAdmins, U!Manage
  PROVE  AccountsInv'
<1>1. UNCHANGED <<sockets, requests, notify>>
  BY DEF U!Manage
<1>2. CASE \E u \in Users : U!SignIn(u) \/ U!CreateAdmin(u)
  BY <1>1, <1>2, SignInStep, CreateAdminStep
<1>3. CASE \E upd \in edit : U!CommitUpdate(upd)
  BY <1>1, <1>3, CommitUpdateStep
<1>4. CASE \E by \in Users, u \in Users, role \in U!Roles, e \in Employees \cup {None} :
              U!CreateUser(by, u, role, e)
  BY <1>1, <1>4, CreateStep
<1>5. CASE \E by \in Users, u \in Users, dto \in U!Dto : U!BeginUpdate(by, u, dto)
  BY <1>1, <1>5, BeginUpdateStep
<1>6. CASE \E by \in Users, e \in Employees, s \in Employees \cup {None} : U!SetSupervisor(by, e, s)
  BY <1>1, <1>6, SetSupervisorStep
<1>7. CASE \E by \in Users, e \in Employees : U!RemoveEmployee(by, e)
  BY <1>1, <1>7, RemoveEmployeeStep
<1> QED BY <1>2, <1>3, <1>4, <1>5, <1>6, <1>7 DEF U!Manage, U!ManageAccounts

-----------------------------------------------------------------------------
(* Audiences: the types, whatever races and however stale a token is.      *)

\* Accounts never go, so whoever updates or bears one finds it.
Present ==
    /\ PeopleTypes
    /\ \A j \in edit : U!Exists(j.user)
    /\ \A u \in Users : claims[u] # None => U!Exists(u)

LEMMA PresentInit == U!Init => Present
BY DEF U!Init, U!AccountsInit, PeopleTypes, Present

LEMMA ReissuedTypes ==
  ASSUME Present, accounts' \in [Users -> Accounted \cup {None}],
         \A u \in Users : U!Exists(u) => U!Exists(u)', claims' = U!Reissued
  PROVE  /\ claims' \in [Users -> Claimed \cup {None}]
         /\ \A u \in Users : claims'[u] # None => U!Exists(u)'
<1> SUFFICES ASSUME NEW u \in Users
             PROVE  claims'[u] \in Claimed \cup {None} /\ (claims'[u] # None => U!Exists(u)')
  BY DEF U!Reissued
<1>1. CASE claims[u] = None
  BY <1>1 DEF U!Reissued
<1>2. CASE claims[u] # None
  <2>1. U!Exists(u)' /\ accounts'[u] \in Accounted
    BY <1>2 DEF Present, U!Exists
  <2>2. U!ClaimsOf(accounts'[u]) \in Claimed
    BY <2>1, ClaimsTyped
  <2>3. claims'[u] \in {claims[u], None, U!ClaimsOf(accounts'[u])}
    BY DEF U!Reissued
  <2>4. claims[u] \in Claimed \cup {None}
    BY DEF Present, PeopleTypes
  <2> QED BY <2>1, <2>2, <2>3, <2>4
<1> QED BY <1>1, <1>2

LEMMA ManageTypes ==
  ASSUME Present, U!Manage
  PROVE  Present'
<1> PeopleTypes /\ UNCHANGED <<sockets, requests, notify>>
  BY DEF Present, U!Manage
<1>1. ASSUME NEW u \in Users, U!SignIn(u) PROVE Present'
  <2>1. U!Exists(u) /\ U!ClaimsOf(accounts[u]) \in Claimed
    BY <1>1, AccountThere, ClaimsTyped DEF U!SignIn, U!Active, PeopleTypes
  <2>2. PeopleTypes'
    BY <1>1, <2>1 DEF U!SignIn, PeopleTypes
  <2> QED BY <1>1, <2>1, <2>2 DEF U!SignIn, Present, PeopleTypes, U!Exists
<1>2. ASSUME NEW u \in Users, NEW a \in Accounted, accounts' = [accounts EXCEPT ![u] = a],
             UNCHANGED <<staff, claims, edit>>
      PROVE  Present'
  <2>1. \A v \in Users : U!Exists(v) => U!Exists(v)'
    BY <1>2, NoneIsNoAccount DEF U!Exists, PeopleTypes, Accounted
  <2>2. PeopleTypes'
    BY <1>2 DEF PeopleTypes
  <2>3. \A j \in edit : j.user \in Users
    BY DEF PeopleTypes
  <2> QED BY <1>2, <2>1, <2>2, <2>3 DEF Present
<1>3. ASSUME NEW by \in Users, NEW u \in Users, NEW role \in U!Roles,
             NEW e \in Employees \cup {None}, U!CreateUser(by, u, role, e)
      PROVE  Present'
  <2>1. [role |-> role, active |-> TRUE, employee |-> e] \in Accounted
    BY DEF Accounted
  <2> QED BY <1>2, <1>3, <2>1 DEF U!CreateUser
<1>4. ASSUME NEW u \in Users, U!CreateAdmin(u) PROVE Present'
  <2>1. [role |-> "SUPER_ADMIN", active |-> TRUE, employee |-> None] \in Accounted
    BY DEF Accounted, U!Roles
  <2>2. U!Exists(u) => [accounts[u] EXCEPT !.active = TRUE] \in Accounted
    BY AccountThere DEF PeopleTypes, Accounted
  <2>3. CASE ~U!Exists(u)
    BY <1>2, <1>4, <2>1, <2>3 DEF U!CreateAdmin
  <2>4. CASE U!Exists(u)
    <3>1. accounts' = [accounts EXCEPT ![u] = [accounts[u] EXCEPT !.active = TRUE]]
      BY <1>4, <2>4 DEF U!CreateAdmin
    <3> QED BY <1>2, <1>4, <2>2, <2>4, <3>1 DEF U!CreateAdmin
  <2> QED BY <2>3, <2>4
<1>5. ASSUME NEW by \in Users, NEW u \in Users, NEW dto \in U!Dto, U!BeginUpdate(by, u, dto)
      PROVE  Present'
  BY <1>5 DEF U!BeginUpdate, Present, PeopleTypes, U!Exists
<1>6. ASSUME NEW upd \in edit, U!CommitUpdate(upd) PROVE Present'
  <2> DEFINE u == upd.user
             new == U!Applied(upd.dto, accounts[u])
  <2>1. /\ u \in Users /\ new \in Accounted
        /\ accounts' \in {accounts, [accounts EXCEPT ![u] = new]}
    <3>1. u \in Users /\ upd.dto \in U!Dto /\ accounts[u] \in Accounted
      BY AccountThere DEF Present, PeopleTypes
    <3>2. new \in Accounted
      BY <3>1, AppliedAccount
    <3> QED BY <1>6, <3>1, <3>2 DEF U!CommitUpdate
  <2> HIDE DEF new
  <2>2. /\ accounts' \in [Users -> Accounted \cup {None}]
        /\ \A v \in Users : U!Exists(v) => U!Exists(v)'
    BY <2>1, NoneIsNoAccount DEF U!Exists, PeopleTypes, Accounted
  <2>3. claims' = U!Reissued /\ edit' \subseteq edit /\ UNCHANGED staff
    BY <1>6 DEF U!CommitUpdate
  <2>4. PeopleTypes'
    BY <2>2, <2>3, ReissuedTypes DEF PeopleTypes
  <2>5. \A j \in edit : j.user \in Users
    BY DEF PeopleTypes
  <2> QED BY <2>2, <2>3, <2>4, <2>5, ReissuedTypes DEF Present
<1>7. ASSUME NEW by \in Users, NEW e \in Employees, NEW s \in Employees \cup {None},
             U!SetSupervisor(by, e, s)
      PROVE  Present'
  <2>1. UNCHANGED <<accounts, claims, edit>> /\ staff' = [staff EXCEPT ![e].supervisor = s]
    BY <1>7 DEF U!SetSupervisor
  <2> QED BY <2>1 DEF Present, PeopleTypes, U!Exists
<1>8. ASSUME NEW by \in Users, NEW e \in Employees, U!RemoveEmployee(by, e) PROVE Present'
  <2>1. /\ claims' = U!Reissued /\ UNCHANGED edit
        /\ staff' \in [Employees -> [supervisor : Employees \cup {None}, deleted : BOOLEAN]]
    BY <1>8 DEF U!RemoveEmployee, PeopleTypes
  <2>2. accounts' = [u \in Users |->
            IF U!Exists(u) /\ accounts[u].employee = e THEN [accounts[u] EXCEPT !.active = FALSE]
            ELSE accounts[u]]
    BY <1>8 DEF U!RemoveEmployee
  <2>3. \A a \in Accounted : [a EXCEPT !.active = FALSE] \in Accounted
    BY DEF Accounted
  <2>4. \A u \in Users : /\ accounts'[u] \in Accounted \cup {None}
                         /\ U!Exists(u) => U!Exists(u)'
    BY <2>2, <2>3, NoneIsNoAccount DEF PeopleTypes, U!Exists, Accounted
  <2>5. accounts' \in [Users -> Accounted \cup {None}]
    BY <2>2, <2>4
  <2>6. PeopleTypes'
    BY <2>1, <2>4, <2>5, ReissuedTypes DEF PeopleTypes
  <2>7. \A j \in edit : j.user \in Users
    BY DEF PeopleTypes
  <2> QED BY <2>1, <2>4, <2>5, <2>6, <2>7, ReissuedTypes DEF Present
<1> QED BY <1>1, <1>3, <1>4, <1>5, <1>6, <1>7, <1>8 DEF U!Manage, U!ManageAccounts

LEMMA HandleTypes ==
  ASSUME Present, U!HandleSockets \/ U!HandleRequests
  PROVE  Present' /\ UNCHANGED <<accounts, staff, claims, edit>>
<1> PeopleTypes
  BY DEF Present
<1>1. UNCHANGED <<accounts, staff, claims, edit>>
  BY DEF U!HandleSockets, U!HandleRequests, U!Connect, U!Disconnect, U!Request, U!Review,
         U!Cancel, U!Send, U!accountVars
<1>2. SUFFICES PeopleTypes'
  BY <1>1 DEF Present, U!Exists
<1>3. CASE U!HandleSockets
  <2>1. PICK u \in Users : U!Connect(u) \/ U!Disconnect(u)
    BY <1>3 DEF U!HandleSockets
  <2>2. /\ sockets' \in {[sockets EXCEPT ![u] = claims[u]], [sockets EXCEPT ![u] = None]}
        /\ UNCHANGED <<requests, notify>>
    BY <2>1 DEF U!Connect, U!Disconnect
  <2>3. sockets' \in [Users -> Claimed \cup {None}]
    BY <2>2 DEF PeopleTypes
  <2> QED BY <1>1, <2>2, <2>3 DEF PeopleTypes
<1>4. ASSUME NEW u \in Users, NEW e \in Employees, U!Request(u, e) PROVE PeopleTypes'
  <2>1. PICK r : r = [employee |-> e, by |-> u, pending |-> TRUE]
    OBVIOUS
  <2>2. r \in Requested
    BY <2>1 DEF Requested
  <2>3. [type |-> "LEAVE_REQUESTED", request |-> r, reviewer |-> None] \in Notified
    BY <2>2 DEF Notified
  <2>4. /\ requests' = requests \cup {r}
        /\ notify' = notify \cup {[type |-> "LEAVE_REQUESTED", request |-> r, reviewer |-> None]}
        /\ UNCHANGED sockets
    BY <1>4, <2>1 DEF U!Request
  <2>5. /\ requests' \subseteq Requested
        /\ notify' \subseteq Notified
    BY <2>2, <2>3, <2>4 DEF PeopleTypes
  <2> QED BY <1>1, <2>4, <2>5 DEF PeopleTypes
<1>5. ASSUME NEW u \in Users, NEW r \in requests, U!Review(u, r) PROVE PeopleTypes'
  <2>1. r \in Requested
    BY DEF PeopleTypes
  <2>2. PICK s \in Requested : s = [r EXCEPT !.pending = FALSE]
    BY <2>1 DEF Requested
  <2>3. [type |-> "LEAVE_REVIEWED", request |-> r, reviewer |-> u] \in Notified
    BY <2>1 DEF Notified
  <2>4. /\ requests' = (requests \ {r}) \cup {s}
        /\ notify' = notify \cup {[type |-> "LEAVE_REVIEWED", request |-> r, reviewer |-> u]}
        /\ UNCHANGED sockets
    BY <1>5, <2>2 DEF U!Review
  <2>5. /\ requests' \subseteq Requested
        /\ notify' \subseteq Notified
    BY <2>1, <2>3, <2>4 DEF PeopleTypes
  <2> QED BY <1>1, <2>4, <2>5 DEF PeopleTypes
<1>6. ASSUME NEW u \in Users, NEW r \in requests, U!Cancel(u, r) PROVE PeopleTypes'
  BY <1>1, <1>6 DEF U!Cancel, PeopleTypes
<1>7. ASSUME NEW n \in notify, U!Send(n) PROVE PeopleTypes'
  BY <1>1, <1>7 DEF U!Send, PeopleTypes
<1> QED BY <1>2, <1>3, <1>4, <1>5, <1>6, <1>7 DEF U!HandleRequests

\* A step of MCOffice is one of the people or leaves them alone.
LEMMA PeopleStep ==
  [NextAny]_allVars => U!Manage \/ U!HandleSockets \/ U!HandleRequests \/ UNCHANGED people
BY DEF NextAny, allVars

LEMMA PresentNext == Present /\ [NextAny]_allVars => Present'
<1>1. Present /\ UNCHANGED people => Present'
  BY DEF people, Present, PeopleTypes, U!Exists
<1> QED BY <1>1, PeopleStep, ManageTypes, HandleTypes

LEMMA AccountsNext ==
  ASSUME ~EditRaces, ~StaleTokens, ~RemovesAdmins
  PROVE  Present /\ AccountsInv /\ [NextAny]_allVars => AccountsInv'
<1> SUFFICES ASSUME Present, AccountsInv, [NextAny]_allVars PROVE AccountsInv'
  OBVIOUS
<1>1. PeopleTypes'
  BY PresentNext DEF Present
<1>2. UNCHANGED people => UNCHANGED <<accounts, claims, edit>>
  BY DEF people
<1> QED BY <1>1, <1>2, PeopleStep, ManageStep, HandleTypes, AccountsAlone

\* Edits judged on current claims, one update of an account at a time and no removal of an
\* administrator's employee: after any number of them, with any number of accounts, employees
\* and roles, there is still an active super administrator (users.update, assertCanGrant, the
\* rule against changing oneself), and every scoped account has its employee.
THEOREM SomebodyStaysInCharge ==
  ASSUME ~EditRaces, ~StaleTokens, ~RemovesAdmins
  PROVE  SpecAll => []AccountsStayUsable
<1>1. InitAll => Present /\ AccountsInv
  BY PresentInit, AccountsInitially DEF InitAll
<1>2. Present /\ AccountsInv /\ [NextAny]_allVars => Present' /\ AccountsInv'
  BY PresentNext, AccountsNext
<1>3. Present /\ AccountsInv => AccountsStayUsable
  BY DEF AccountsInv, AccountsStayUsable
<1> QED BY <1>1, <1>2, <1>3, PTL DEF SpecAll

-----------------------------------------------------------------------------
(* Audiences: who hears, and who is told.                                  *)

\* The scope of each role.
LEMMA ScopeOf ==
  ASSUME PeopleTypes, NEW c \in Claimed
  PROVE  /\ c.role \in U!Unscoped => U!Scope(c) = Employees
         /\ c.role = "SUPERVISOR" => U!Scope(c) =
               {e \in Employees : c.employee # None /\ c.employee \in {e, staff[e].supervisor}}
         /\ c.role = "EMPLOYEE" => U!Scope(c) = {e \in Employees : e = c.employee}
         /\ c.role \in U!Unscoped \cup {"SUPERVISOR", "EMPLOYEE"}
         /\ {"SUPERVISOR", "EMPLOYEE"} \cap U!Unscoped = {}
BY DEF U!Scope, U!Unscoped, Claimed, U!Roles

\* The rooms of a socket that are about attendance.
LEMMA AttendanceRooms ==
  ASSUME NEW u \in Users, NEW c \in Claimed
  PROVE  /\ <<"attendance:all">> \in U!RoomsOf(u, c) <=> c.role \in U!Unscoped
         /\ \A e : <<"attendance:employee", e>> \in U!RoomsOf(u, c) <=>
                      c.role \notin U!Unscoped /\ c.employee # None /\ e = c.employee
         /\ \A e : <<"attendance:supervisor", e>> \in U!RoomsOf(u, c) <=>
                      c.role = "SUPERVISOR" /\ c.employee # None /\ e = c.employee
<1>1. /\ <<"attendance:all">> \notin {<<"user", u>>, <<"devices">>}
      /\ \A e, f : <<"attendance:all">> \notin {<<"attendance:employee", e>>, <<"attendance:supervisor", f>>}
      /\ \A e : <<"attendance:employee", e>> \notin {<<"user", u>>, <<"devices">>, <<"attendance:all">>}
      /\ \A e : <<"attendance:supervisor", e>> \notin {<<"user", u>>, <<"devices">>, <<"attendance:all">>}
      /\ \A e, f : <<"attendance:employee", e>> # <<"attendance:supervisor", f>>
      /\ \A e, f : <<"attendance:employee", e>> = <<"attendance:employee", f>> <=> e = f
      /\ \A e, f : <<"attendance:supervisor", e>> = <<"attendance:supervisor", f>> <=> e = f
  OBVIOUS
<1>2. "SUPERVISOR" \notin U!Unscoped
  BY DEF U!Unscoped
<1> QED BY <1>1, <1>2 DEF U!RoomsOf

\* Of one socket.
LEMMA SocketHearsWhatItSees ==
  ASSUME PeopleTypes, NEW u \in Users, NEW c \in Claimed, NEW e \in Employees \cup {None}
  PROVE  U!RoomsOf(u, c) \cap U!Audience(e) # {} <=> U!Sees(c, e)
<1> DEFINE all == <<"attendance:all">>
           own(d) == <<"attendance:employee", d>>
           reports(d) == <<"attendance:supervisor", d>>
           rooms == U!RoomsOf(u, c)
           there == U!Audience(e)
           above == staff[e].supervisor
<1>1. U!Audience(None) = {all}
  BY DEF U!Audience
<1>2. e # None =>
         there = {all, own(e)} \cup (IF above = None THEN {} ELSE {reports(above)})
  BY DEF U!Audience
<1>3. /\ all \in rooms <=> c.role \in U!Unscoped
      /\ own(e) \in rooms <=> c.role \notin U!Unscoped /\ c.employee # None /\ e = c.employee
      /\ reports(above) \in rooms <=> c.role = "SUPERVISOR" /\ c.employee # None /\ above = c.employee
  BY AttendanceRooms
<1> HIDE DEF all, own, reports, rooms, there, above
<1>4. rooms \cap there # {} <=>
         \/ all \in rooms
         \/ e # None /\ own(e) \in rooms
         \/ e # None /\ above # None /\ reports(above) \in rooms
  BY <1>1, <1>2 DEF there
<1>5. c.role \in U!Unscoped => (rooms \cap there # {} <=> U!Sees(c, e))
  BY <1>3, <1>4 DEF U!Sees
<1>6. CASE c.role = "SUPERVISOR"
  <2>1. e \in U!Scope(c) <=>
           e \in Employees /\ c.employee # None /\ c.employee \in {e, above}
    BY <1>6, ScopeOf DEF above
  <2>2. c.role \notin U!Unscoped
    BY <1>6, ScopeOf
  <2>3. rooms \cap there # {} <=>
           e # None /\ c.employee # None /\ (e = c.employee \/ above = c.employee)
    BY <1>3, <1>4, <1>6, <2>2
  <2>4. U!Sees(c, e) <=> e # None /\ e \in U!Scope(c)
    BY <2>2 DEF U!Sees
  <2> QED BY <2>1, <2>3, <2>4 DEF rooms, there
<1>7. CASE c.role = "EMPLOYEE"
  <2>1. e \in U!Scope(c) <=> e \in Employees /\ e = c.employee
    BY <1>7, ScopeOf
  <2>2. c.role \notin U!Unscoped
    BY <1>7, ScopeOf
  <2>3. rooms \cap there # {} <=> e # None /\ c.employee # None /\ e = c.employee
    BY <1>3, <1>4, <1>7, <2>2
  <2>4. U!Sees(c, e) <=> e # None /\ e \in U!Scope(c)
    BY <2>2 DEF U!Sees
  <2> QED BY <2>1, <2>3, <2>4 DEF rooms, there
<1> QED BY <1>5, <1>6, <1>7, ScopeOf DEF rooms, there

LEMMA HeardSeen == PeopleTypes => U!HeardIsSeen
<1> SUFFICES ASSUME PeopleTypes, NEW e \in Employees \cup {None}
             PROVE  U!Hears(e) = {u \in Users : sockets[u] # None /\ U!Sees(sockets[u], e)}
  BY DEF U!HeardIsSeen
<1>1. ASSUME NEW u \in Users, sockets[u] # None
      PROVE  U!RoomsOf(u, sockets[u]) \cap U!Audience(e) # {} <=> U!Sees(sockets[u], e)
  <2>1. sockets[u] \in Claimed
    BY <1>1 DEF PeopleTypes
  <2> QED BY <2>1, SocketHearsWhatItSees
<1> QED BY <1>1 DEF U!Hears, U!Hearing

\* Who holds the permission of a review.
LEMMA Approvers ==
  /\ \A role \in U!Roles : U!HasPermission(role, "leave:approve") <=> role # "EMPLOYEE"
  /\ U!RolesWith("leave:approve") = U!Unscoped \cup {"SUPERVISOR"}
  /\ U!RolesWith("leave:approve") \ U!ScopedRoles = U!Unscoped
  /\ U!RolesWith("leave:approve") \cap U!ScopedRoles = {"SUPERVISOR"}
<1>1. \A role \in U!Roles : U!HasPermission(role, "leave:approve") <=> role # "EMPLOYEE"
  BY DEF U!HasPermission, U!Withheld, U!Roles, U!PrivilegedRoles
<1>2. U!RolesWith("leave:approve") = U!Unscoped \cup {"SUPERVISOR"}
  BY <1>1 DEF U!RolesWith, U!Roles, U!Unscoped
<1> QED BY <1>1, <1>2 DEF U!ScopedRoles, U!Unscoped

\* Of one request and one account: it is told of it unless it is its employee's or filed it.
LEMMA ReviewerIsTold ==
  ASSUME PeopleTypes, NEW r \in Requested, NEW u \in Users, U!Active(u)
  PROVE  u \in U!ReviewersOf(r) \ U!AccountOf(r.employee)
            <=> U!MayReview(U!ClaimsOf(accounts[u]), r)
<1> DEFINE c == U!ClaimsOf(accounts[u])
           above == staff[r.employee].supervisor
<1>1. U!Exists(u) /\ accounts[u] \in Accounted
  BY AccountThere DEF U!Active, PeopleTypes
<1>2. c \in Claimed /\ c.role = accounts[u].role /\ c.employee = accounts[u].employee
  BY <1>1, ClaimsTyped
<1>3. u \in U!AccountOf(r.employee) <=> accounts[u].employee = r.employee
  BY <1>1 DEF U!AccountOf
<1>4. u \in U!ReviewersOf(r) <=>
         \/ accounts[u].role \in U!Unscoped
         \/ /\ accounts[u].role = "SUPERVISOR"
            /\ above # None /\ accounts[u].employee = above
  BY Approvers DEF U!ReviewersOf
<1>5. r.employee \in Employees
  BY DEF Requested
<1>6. c.role \in U!Roles
  BY <1>2 DEF Claimed
<1> HIDE DEF c
<1>7. U!MayReview(c, r) <=>
         c.role # "EMPLOYEE" /\ r.employee \in U!Scope(c) /\ r.employee # c.employee
  BY <1>6, Approvers DEF U!MayReview
<1>8. CASE c.role \in U!Unscoped
  BY <1>2, <1>3, <1>4, <1>5, <1>7, <1>8, ScopeOf DEF c
<1>9. CASE c.role = "SUPERVISOR"
  <2>1. r.employee \in U!Scope(c) <=> c.employee # None /\ c.employee \in {r.employee, above}
    BY <1>2, <1>5, <1>9, ScopeOf
  <2>2. c.role \notin U!Unscoped
    BY <1>2, <1>9, ScopeOf
  <2> HIDE DEF above
  <2> QED BY <1>2, <1>3, <1>4, <1>7, <1>9, <2>1, <2>2 DEF c
<1>10. CASE c.role = "EMPLOYEE"
  <2>1. c.role \notin U!Unscoped
    BY <1>2, <1>10, ScopeOf
  <2> QED BY <1>2, <1>4, <1>7, <1>10, <2>1 DEF c
<1> QED BY <1>2, <1>8, <1>9, <1>10, ScopeOf

LEMMA ReviewersTold == PeopleTypes => U!ReviewersAreTold
<1> SUFFICES ASSUME PeopleTypes, NEW n \in notify, n.type = "LEAVE_REQUESTED"
             PROVE  U!Recipients(n) =
                      {u \in Users : U!Active(u) /\ U!MayReview(U!ClaimsOf(accounts[u]), n.request)}
                        \ {n.request.by}
  BY DEF U!ReviewersAreTold
<1>1. n.request \in Requested
  BY DEF PeopleTypes, Notified
<1>2. U!Recipients(n) = U!ReviewersOf(n.request) \ (U!AccountOf(n.request.employee) \cup {n.request.by})
  BY DEF U!Recipients
<1>3. \A u \in U!ReviewersOf(n.request) : u \in Users /\ U!Active(u)
  BY DEF U!ReviewersOf
<1>4. \A u \in Users : U!Active(u) =>
         (u \in U!ReviewersOf(n.request) \ U!AccountOf(n.request.employee)
            <=> U!MayReview(U!ClaimsOf(accounts[u]), n.request))
  BY <1>1, ReviewerIsTold
<1> QED BY <1>2, <1>3, <1>4

\* Whatever races and however stale a token is, with any accounts, employees and supervisors: a
\* punch is heard by exactly those connected who find it in their lists (handleConnection,
\* emitAttendance against relationWhere), and a new request is told to exactly those who may
\* decide it at that moment, but who filed it (leaveRequested against review).
THEOREM TheRightPeopleHear == SpecAll => []RightPeopleHear
<1>1. InitAll => Present
  BY PresentInit DEF InitAll
<1>2. Present => RightPeopleHear
  BY HeardSeen, ReviewersTold DEF Present, RightPeopleHear
<1> QED BY <1>1, <1>2, PresentNext, PTL DEF SpecAll

-----------------------------------------------------------------------------
(* Screens and permissions: what the API accepts.                          *)

\* Whose session s has these powers, and no password to replace, is answered on these routes.
Answers(s, powers, routes) ==
    ~s.pending /\ powers \subseteq P!Powers(s) => \A route \in routes : P!Accepts(s, route)

LEMMA Serves ==
  ASSUME NEW powers, NEW routes, P!Needing(powers, routes) \subseteq P!Api, NEW s
  PROVE  Answers(s, powers, routes)
<1> SUFFICES ASSUME ~s.pending, powers \subseteq P!Powers(s), NEW route \in routes
             PROVE  P!Accepts(s, route)
  BY DEF Answers
<1>1. PICK r : r = [needs |-> powers, route |-> route]
  OBVIOUS
<1>2. r \in P!Needing(powers, routes)
  BY <1>1 DEF P!Needing
<1>3. r \in P!Api /\ r.route = route /\ r.needs \subseteq P!Powers(s)
  BY <1>1, <1>2
<1> QED BY <1>3 DEF P!Accepts

LEMMA AttendanceRoutes ==
  ASSUME NEW s
  PROVE  /\ Answers(s, {"attendance:read"}, {"list records", "list punches"})
         /\ Answers(s, {"dashboard:read"}, {"presence board"})
         /\ Answers(s, {"attendance:write"},
                    {"punch by hand", "preview punches", "void punch", "recompute days"})
BY Serves DEF P!AttendanceApi, P!Api

LEMMA OrganizationRoutes ==
  ASSUME NEW s
  PROVE  /\ Answers(s, {"organization:read"}, {"list departments"})
         /\ Answers(s, {"organization:write"}, {"write department"})
         /\ Answers(s, {"organization:read"}, {"list positions"})
         /\ Answers(s, {"organization:write"}, {"write position"})
         /\ Answers(s, {"organization:read"}, {"list contract types"})
         /\ Answers(s, {"organization:write"}, {"write contract type"})
BY Serves DEF P!DepartmentsApi, P!PositionsApi, P!ContractTypesApi, P!Catalogue, P!Api

LEMMA EmployeeRoutes ==
  ASSUME NEW s
  PROVE  /\ Answers(s, {"employees:read"}, {"list employees"})
         /\ Answers(s, {"employees:write"}, {"write employee"})
         /\ Answers(s, {"leave:read"}, {"vacation balance"})
         /\ Answers(s, {"employees:write"}, {"adjust vacation"})
BY Serves DEF P!EmployeesApi, P!VacationsApi, P!Api

LEMMA DeviceRoutes ==
  ASSUME NEW s
  PROVE  /\ Answers(s, {"devices:sync"}, {"sync device"})
         /\ Answers(s, {"devices:read"}, {"list syncs"})
         /\ Answers(s, {"devices:read"}, {"list devices", "list drivers"})
         /\ Answers(s, {"devices:write"}, {"write device", "simulate"})
         /\ Answers(s, {"devices:sync"}, {"test connection"})
BY Serves DEF P!DeviceSyncApi, P!DevicesApi, P!Api

LEMMA RequestRoutes ==
  ASSUME NEW s
  PROVE  /\ Answers(s, {"leave:read"}, {"list leaves"})
         /\ Answers(s, {"leave:request", "own employee"}, {"request leave"})
         /\ Answers(s, {"leave:approve"}, {"review leave"})
         /\ Answers(s, {"overtime:read"}, {"list overtime"})
         /\ Answers(s, {"overtime:approve"}, {"review overtime"})
BY Serves DEF P!LeaveApi, P!OvertimeApi, P!Api

LEMMA ScheduleRoutes ==
  ASSUME NEW s
  PROVE  /\ Answers(s, {"schedules:read"},
                    {"list shifts", "list schedules", "list holidays", "schedules of employee"})
         /\ Answers(s, {"schedules:write"},
                    {"write shift", "write schedule", "write holiday", "assign schedule",
                     "undo assignment"})
         /\ Answers(s, {"schedules:write", "settings:write"}, {"set up company"})
BY Serves DEF P!SchedulesApi, P!Api

LEMMA AccountRoutes ==
  ASSUME NEW s
  PROVE  /\ Answers(s, {"users:read"}, {"list accounts"})
         /\ Answers(s, {"users:write"}, {"write account", "reset password"})
         /\ Answers(s, {"users:write", "administrators"},
                    {"write administrator", "reset administrator"})
         /\ Answers(s, {"audit:read"}, {"list audit"})
BY Serves DEF P!UsersApi, P!AuditApi, P!Api

LEMMA OtherRoutes ==
  ASSUME NEW s
  PROVE  /\ Answers(s, {}, {"sign out", "change password", "own profile"})
         /\ Answers(s, {}, {"count unread", "list notices", "mark read", "notice preferences"})
         /\ Answers(s, {"dashboard:read"}, {"day summary"})
         /\ Answers(s, {"reports:read"}, {"report"})
         /\ Answers(s, {"settings:read"}, {"read settings"})
         /\ Answers(s, {}, {"features"})
         /\ Answers(s, {"settings:write"}, {"write policy"})
BY Serves DEF P!AuthApi, P!NotificationsApi, P!DashboardApi, P!ReportsApi, P!SettingsApi, P!Api

LEMMA PendingRoutes ==
  ASSUME NEW s, s.pending, NEW route \in {"sign out", "change password", "own profile"}
  PROVE  P!Accepts(s, route)
<1>1. PICK r : r = [needs |-> {}, route |-> route]
  OBVIOUS
<1>2. r \in P!AuthApi /\ r.route = route /\ r.needs \subseteq P!Powers(s)
  BY <1>1 DEF P!AuthApi, P!Needing
<1> QED BY <1>2 DEF P!Accepts

-----------------------------------------------------------------------------
(* Which powers come together.                                             *)

\* What everybody has, then supervisors, those who administer people, and administrators.
AllHave(s) == {"attendance:read", "leave:read", "leave:request", "overtime:read"} \subseteq P!Powers(s)

Supervises(s) == P!SupervisorPermissions \subseteq P!Powers(s)

Staffs(s) == P!HrPermissions \subseteq P!Powers(s)

Administers(s) ==
    {"devices:write", "devices:sync", "users:read", "users:write", "audit:read", "settings:write"}
        \cup P!HrPermissions \subseteq P!Powers(s)

LEMMA PowersOfRoles ==
  ASSUME NEW s \in P!Accounts
  PROVE  /\ AllHave(s)
         /\ \/ Administers(s)
            \/ s.role = "HR" /\ Staffs(s)
            \/ s.role = "SUPERVISOR" /\ Supervises(s)
            \/ s.role = "EMPLOYEE"
<1>1. s.role \in P!Roles
  BY DEF P!Accounts
<1>2. P!RolePermissions(s.role) \subseteq P!Powers(s)
  BY DEF P!Powers
<1>3. CASE s.role \in P!PrivilegedRoles
  <2>1. P!RolePermissions(s.role) = P!HrPermissions \cup
          {"devices:write", "devices:sync", "users:read", "users:write", "audit:read", "settings:write"}
    BY <1>3 DEF P!RolePermissions, P!PrivilegedRoles
  <2>2. Administers(s)
    BY <1>2, <2>1 DEF Administers
  <2> QED BY <1>2, <2>1, <2>2 DEF AllHave, P!HrPermissions, P!SupervisorPermissions
<1>4. CASE s.role = "HR"
  <2>1. P!RolePermissions(s.role) = P!HrPermissions
    BY <1>4 DEF P!RolePermissions, P!PrivilegedRoles
  <2> QED BY <1>2, <1>4, <2>1 DEF AllHave, Staffs, P!HrPermissions, P!SupervisorPermissions
<1>5. CASE s.role = "SUPERVISOR"
  <2>1. P!RolePermissions(s.role) = P!SupervisorPermissions
    BY <1>5 DEF P!RolePermissions, P!PrivilegedRoles
  <2> QED BY <1>2, <1>5, <2>1 DEF AllHave, Supervises, P!SupervisorPermissions
<1>6. CASE s.role = "EMPLOYEE"
  <2>1. P!RolePermissions(s.role) = {"attendance:read", "leave:read", "leave:request", "overtime:read"}
    BY <1>6 DEF P!RolePermissions, P!PrivilegedRoles
  <2> QED BY <1>2, <1>6, <2>1 DEF AllHave
<1> QED BY <1>1, <1>3, <1>4, <1>5, <1>6 DEF P!Roles, P!PrivilegedRoles

\* Whoever may write attendance or people, or read the organization, has all that HR has.
LEMMA Staffing ==
  ASSUME NEW s \in P!Accounts,
         \/ "attendance:write" \in P!Powers(s) \/ "employees:write" \in P!Powers(s)
         \/ "organization:read" \in P!Powers(s) \/ "schedules:read" \in P!Powers(s)
         \/ "schedules:write" \in P!Powers(s) \/ "organization:write" \in P!Powers(s)
         \/ "devices:read" \in P!Powers(s) \/ "settings:read" \in P!Powers(s)
  PROVE  Staffs(s)
<1>1. CASE s.role = "SUPERVISOR"
  BY <1>1 DEF P!Powers, P!RolePermissions, P!PrivilegedRoles, P!SupervisorPermissions
<1>2. CASE s.role = "EMPLOYEE"
  BY <1>2 DEF P!Powers, P!RolePermissions, P!PrivilegedRoles
<1> QED BY <1>1, <1>2, PowersOfRoles DEF Staffs, Administers

LEMMA Administering ==
  ASSUME NEW s \in P!Accounts,
         \/ "users:read" \in P!Powers(s) \/ "users:write" \in P!Powers(s)
         \/ "devices:write" \in P!Powers(s) \/ "devices:sync" \in P!Powers(s)
         \/ "settings:write" \in P!Powers(s)
  PROVE  Administers(s)
<1>1. CASE s.role = "HR"
  BY <1>1 DEF P!Powers, P!RolePermissions, P!PrivilegedRoles, P!HrPermissions, P!SupervisorPermissions
<1>2. CASE s.role = "SUPERVISOR"
  BY <1>2 DEF P!Powers, P!RolePermissions, P!PrivilegedRoles, P!SupervisorPermissions
<1>3. CASE s.role = "EMPLOYEE"
  BY <1>3 DEF P!Powers, P!RolePermissions, P!PrivilegedRoles
<1> QED BY <1>1, <1>2, <1>3, PowersOfRoles

-----------------------------------------------------------------------------
(* What each page asks.                                                    *)

\* The panel is open, so that its button was drawn for whom s is.
Opened(s, panels, name) ==
    name = "page" \/ \E x \in panels : x.panel = name /\ x.looks \subseteq P!Powers(s)

\* Whatever of these parts is shown to s asks for what s is given.
Fits(s, panels, parts) ==
    \A x \in parts : Opened(s, panels, x.panel) /\ x.looks \subseteq P!Powers(s) =>
        \A route \in x.asks : P!Accepts(s, route)

LEMMA FitsBoth ==
  ASSUME NEW s, NEW panels, NEW A, Fits(s, panels, A), NEW B, Fits(s, panels, B)
  PROVE  Fits(s, panels, A \cup B)
BY DEF Fits

LEMMA FitsWithin ==
  ASSUME NEW s, NEW panels, NEW name, NEW powers, NEW asks,
         Opened(s, panels, name) /\ powers \subseteq P!Powers(s) =>
             \A route \in asks : P!Accepts(s, route)
  PROVE  Fits(s, panels, P!Within(name, powers, asks))
BY DEF Fits, P!Within

LEMMA FitsPage ==
  ASSUME NEW s, NEW panels, NEW powers, NEW asks,
         powers \subseteq P!Powers(s) => \A route \in asks : P!Accepts(s, route)
  PROVE  Fits(s, panels, P!Shows(powers, asks))
BY FitsWithin DEF P!Shows

LEMMA BellFits ==
  ASSUME NEW s, ~s.pending, NEW panels
  PROVE  Fits(s, panels, P!NotificationBell)
<1>1. Fits(s, panels, P!Shows({}, {"count unread"}))
  BY FitsPage, OtherRoutes DEF Answers
<1>2. Fits(s, panels, P!Within("bell", {}, {"list notices", "mark read"}))
  BY FitsWithin, OtherRoutes DEF Answers
<1>3. Fits(s, panels, P!EmailPreference)
  BY FitsWithin, OtherRoutes DEF Answers, P!EmailPreference
<1> QED BY <1>1, <1>2, <1>3, FitsBoth DEF P!NotificationBell

\* The panels of a page, and the bell's.
Panels(p) == p.panels \cup P!Panel("bell", {})

LEMMA OfPanel ==
  ASSUME NEW name, NEW powers, NEW x \in P!Panel(name, powers)
  PROVE  x.panel = name /\ x.looks = powers
BY DEF P!Panel

LEMMA OverviewFits ==
  ASSUME NEW s \in P!Accounts, ~s.pending, "dashboard:read" \in P!Powers(s), NEW panels
  PROVE  Fits(s, panels, P!DashboardPage.parts) /\ Fits(s, panels, P!PresencePage.parts)
<1>1. Fits(s, panels, P!Shows({}, {"day summary", "features"}))
  BY FitsPage, OtherRoutes DEF Answers
<1>2. Fits(s, panels, P!Shows({}, {"presence board"}))
  BY FitsPage, AttendanceRoutes DEF Answers
<1> QED BY <1>1, <1>2 DEF P!DashboardPage, P!PresencePage

LEMMA AttendanceFits ==
  ASSUME NEW s \in P!Accounts, ~s.pending, "attendance:read" \in P!Powers(s)
  PROVE  Fits(s, Panels(P!AttendancePage), P!AttendancePage.parts)
<1>1. PICK panels : panels = Panels(P!AttendancePage)
  OBVIOUS
<1>2. Fits(s, panels, P!RecordsTable)
  <2>1. Fits(s, panels, P!Shows({}, {"list records"}))
    BY FitsPage, AttendanceRoutes DEF Answers
  <2>2. Fits(s, panels, P!Shows({"employees:read"}, {"list employees"}))
    BY FitsPage, EmployeeRoutes DEF Answers
  <2> QED BY <2>1, <2>2, FitsBoth DEF P!RecordsTable
<1>3. Fits(s, panels, P!EventsTable)
  <2>1. Fits(s, panels, P!Shows({}, {"list punches"}))
    BY FitsPage, AttendanceRoutes DEF Answers
  <2>2. Fits(s, panels, P!Shows({"attendance:write"}, {"void punch"}))
    BY FitsPage, AttendanceRoutes DEF Answers
  <2> QED BY <2>1, <2>2, FitsBoth DEF P!EventsTable
<1>4. Fits(s, panels, P!ManualPunchForm)
  <2>1. Opened(s, panels, "manual") => "attendance:write" \in P!Powers(s)
    BY <1>1 DEF Opened, Panels, P!Panel, P!AttendancePage
  <2>2. "attendance:write" \in P!Powers(s) => "employees:read" \in P!Powers(s)
    BY Staffing DEF Staffs, P!HrPermissions, P!SupervisorPermissions
  <2> QED BY <2>1, <2>2, FitsWithin, AttendanceRoutes, EmployeeRoutes DEF Answers, P!ManualPunchForm
<1> QED BY <1>1, <1>2, <1>3, <1>4, FitsBoth DEF P!AttendancePage

LEMMA EmployeesFits ==
  ASSUME NEW s \in P!Accounts, ~s.pending, "employees:read" \in P!Powers(s)
  PROVE  Fits(s, Panels(P!EmployeesPage), P!EmployeesPage.parts)
<1>1. PICK panels : panels = Panels(P!EmployeesPage)
  OBVIOUS
<1>2. /\ Opened(s, panels, "form") => "employees:write" \in P!Powers(s)
      /\ Opened(s, panels, "vacations") => "leave:read" \in P!Powers(s)
      /\ Opened(s, panels, "schedule") => "schedules:read" \in P!Powers(s)
  BY <1>1 DEF Opened, Panels, P!Panel, P!EmployeesPage
<1>3. "employees:write" \in P!Powers(s) => "organization:read" \in P!Powers(s)
  BY Staffing DEF Staffs, P!HrPermissions
<1>4. Fits(s, panels, P!Shows({}, {"list employees"}))
  BY FitsPage, EmployeeRoutes DEF Answers
<1>5. Fits(s, panels, P!EmployeeForm)
  <2>1. Fits(s, panels, P!Within("form", {}, {"list departments", "list positions",
                 "list contract types", "list employees", "write employee"}))
    BY <1>2, <1>3, FitsWithin, OrganizationRoutes, EmployeeRoutes DEF Answers
  <2>2. Fits(s, panels, P!Within("form", {"schedules:read"}, {"list schedules"}))
    BY FitsWithin, ScheduleRoutes DEF Answers
  <2> QED BY <2>1, <2>2, FitsBoth DEF P!EmployeeForm
<1>6. Fits(s, panels, P!VacationBalanceCard)
  <2>1. Fits(s, panels, P!Within("vacations", {}, {"vacation balance"}))
    BY <1>2, FitsWithin, EmployeeRoutes DEF Answers
  <2>2. Fits(s, panels, P!ContractPicker)
    BY <1>3, FitsWithin, OrganizationRoutes, EmployeeRoutes DEF Answers, P!ContractPicker
  <2>3. Fits(s, panels, P!AdjustmentForm)
    BY FitsWithin, EmployeeRoutes DEF Answers, P!AdjustmentForm
  <2> QED BY <2>1, <2>2, <2>3, FitsBoth DEF P!VacationBalanceCard
<1>7. Fits(s, panels, P!EmployeeScheduleCard)
  <2>1. Fits(s, panels, P!Within("schedule", {}, {"schedules of employee", "list schedules"}))
    BY <1>2, FitsWithin, ScheduleRoutes DEF Answers
  <2>2. Fits(s, panels, P!AssignForm)
    BY FitsWithin, ScheduleRoutes DEF Answers, P!AssignForm
  <2>3. Fits(s, panels, P!UndoLatest)
    BY FitsWithin, ScheduleRoutes DEF Answers, P!UndoLatest
  <2> QED BY <2>1, <2>2, <2>3, FitsBoth DEF P!EmployeeScheduleCard
<1> QED BY <1>1, <1>4, <1>5, <1>6, <1>7, FitsBoth DEF P!EmployeesPage

LEMMA OrganizationFits ==
  ASSUME NEW s \in P!Accounts, ~s.pending, "organization:read" \in P!Powers(s)
  PROVE  /\ Fits(s, Panels(P!OrganizationPage), P!OrganizationPage.parts)
         /\ Fits(s, Panels(P!ContractTypesPage), P!ContractTypesPage.parts)
<1>1. PICK panels : panels = Panels(P!OrganizationPage)
  OBVIOUS
<1>2. panels = Panels(P!ContractTypesPage)
  BY <1>1 DEF Panels, P!OrganizationPage, P!ContractTypesPage
<1>3. Opened(s, panels, "form") => "organization:write" \in P!Powers(s)
  BY <1>1 DEF Opened, Panels, P!Panel, P!OrganizationPage
<1>4. Fits(s, panels, P!CatalogCard)
  <2>1. Fits(s, panels, P!Shows({}, {"list departments", "list positions"}))
    BY FitsPage, OrganizationRoutes DEF Answers
  <2>2. Fits(s, panels, P!Shows({"organization:write"}, {"write department", "write position"}))
    BY FitsPage, OrganizationRoutes DEF Answers
  <2> QED BY <2>1, <2>2, FitsBoth DEF P!CatalogCard
<1>5. Fits(s, panels, P!CatalogForm)
  BY <1>3, FitsWithin, OrganizationRoutes DEF Answers, P!CatalogForm
<1>6. Fits(s, panels, P!Shows({}, {"list contract types"}))
  BY FitsPage, OrganizationRoutes DEF Answers
<1>7. Fits(s, panels, P!Shows({"organization:write"}, {"write contract type"}))
  BY FitsPage, OrganizationRoutes DEF Answers
<1>8. Fits(s, panels, P!ContractTypeForm)
  BY <1>3, FitsWithin, OrganizationRoutes DEF Answers, P!ContractTypeForm
<1>9. Fits(s, panels, P!OrganizationPage.parts)
  BY <1>4, <1>5, FitsBoth DEF P!OrganizationPage
<1>10. Fits(s, panels, P!ContractTypesPage.parts)
  BY <1>6, <1>7, <1>8, FitsBoth DEF P!ContractTypesPage
<1> QED BY <1>1, <1>2, <1>9, <1>10

LEMMA SchedulesFits ==
  ASSUME NEW s \in P!Accounts, ~s.pending, "schedules:read" \in P!Powers(s)
  PROVE  Fits(s, Panels(P!SchedulesPage), P!SchedulesPage.parts)
<1>1. PICK panels : panels = Panels(P!SchedulesPage)
  OBVIOUS
<1>2. /\ Opened(s, panels, "shift") => "schedules:write" \in P!Powers(s)
      /\ Opened(s, panels, "week") => "schedules:write" \in P!Powers(s)
  BY <1>1 DEF Opened, Panels, P!Panel, P!SchedulesPage
<1>3. Fits(s, panels, P!Shows({}, {"list shifts"}))
  BY FitsPage, ScheduleRoutes DEF Answers
<1>4. Fits(s, panels, P!QuickSetupCard)
  <2>1. Fits(s, panels, P!Shows({"schedules:write", "settings:write"},
                                {"list schedules", "features"}))
    BY FitsPage, ScheduleRoutes, OtherRoutes DEF Answers
  <2>2. Fits(s, panels, P!SetupForm)
    BY FitsPage, ScheduleRoutes DEF Answers, P!SetupForm
  <2> QED BY <2>1, <2>2, FitsBoth DEF P!QuickSetupCard
<1>5. Fits(s, panels, P!HolidaysCard)
  <2>1. Fits(s, panels, P!Shows({}, {"list holidays"}))
    BY FitsPage, ScheduleRoutes DEF Answers
  <2>2. Fits(s, panels, P!Shows({"schedules:write"}, {"write holiday"}))
    BY FitsPage, ScheduleRoutes DEF Answers
  <2>3. Fits(s, panels, P!HolidayForm)
    BY FitsPage, ScheduleRoutes, OtherRoutes DEF Answers, P!HolidayForm
  <2> QED BY <2>1, <2>2, <2>3, FitsBoth DEF P!HolidaysCard
<1>6. Fits(s, panels, P!ShiftsCard)
  <2>1. Fits(s, panels, P!ShiftForm)
    BY <1>2, FitsWithin, ScheduleRoutes, OtherRoutes DEF Answers, P!ShiftForm
  <2> QED BY <1>3, <2>1, FitsBoth DEF P!ShiftsCard
<1>7. Fits(s, panels, P!WeeklySchedulesCard)
  <2>1. Fits(s, panels, P!Shows({}, {"list schedules"}))
    BY FitsPage, ScheduleRoutes DEF Answers
  <2>2. Fits(s, panels, P!ScheduleForm)
    BY <1>2, FitsWithin, ScheduleRoutes DEF Answers, P!ScheduleForm
  <2> QED BY <2>1, <2>2, FitsBoth DEF P!WeeklySchedulesCard
<1> QED BY <1>1, <1>3, <1>4, <1>5, <1>6, <1>7, FitsBoth DEF P!SchedulesPage

LEMMA DevicesFits ==
  ASSUME NEW s \in P!Accounts, ~s.pending, "devices:read" \in P!Powers(s)
  PROVE  Fits(s, Panels(P!DevicesPage), P!DevicesPage.parts)
<1>1. PICK panels : panels = Panels(P!DevicesPage)
  OBVIOUS
<1>2. Opened(s, panels, "form") => "devices:write" \in P!Powers(s)
  BY <1>1 DEF Opened, Panels, P!Panel, P!DevicesPage
<1>3. Fits(s, panels, P!Shows({}, {"list devices", "list syncs"}))
  BY FitsPage, DeviceRoutes DEF Answers
<1>4. Fits(s, panels, P!DeviceCard)
  <2>1. Fits(s, panels, P!Shows({"devices:sync"}, {"test connection", "sync device"}))
    BY FitsPage, DeviceRoutes DEF Answers
  <2>2. Fits(s, panels, P!SimulatorPanel)
    BY FitsPage, DeviceRoutes DEF Answers, P!SimulatorPanel
  <2> QED BY <2>1, <2>2, FitsBoth DEF P!DeviceCard
<1>5. Fits(s, panels, P!DeviceForm)
  BY <1>2, FitsWithin, DeviceRoutes DEF Answers, P!DeviceForm
<1> QED BY <1>1, <1>3, <1>4, <1>5, FitsBoth DEF P!DevicesPage

LEMMA RequestsFits ==
  ASSUME NEW s \in P!Accounts, ~s.pending
  PROVE  Fits(s, Panels(P!RequestsPage), P!RequestsPage.parts)
<1>1. PICK panels : panels = Panels(P!RequestsPage)
  OBVIOUS
<1>2. Opened(s, panels, "leave") => {"leave:request", "own employee"} \subseteq P!Powers(s)
  <2>1. panels = P!Panel("leave", {"leave:request", "own employee"}) \cup P!Panel("bell", {})
    BY <1>1 DEF Panels, P!RequestsPage
  <2>2. ASSUME NEW x \in panels, x.panel = "leave"
        PROVE  x.looks = {"leave:request", "own employee"}
    <3>1. CASE x \in P!Panel("leave", {"leave:request", "own employee"})
      BY <3>1, OfPanel
    <3>2. CASE x \in P!Panel("bell", {})
      BY <2>2, <3>2, OfPanel
    <3> QED BY <2>1, <3>1, <3>2
  <2> QED BY <2>2 DEF Opened
<1>3. "leave:read" \in P!Powers(s) /\ "overtime:read" \in P!Powers(s)
  BY PowersOfRoles DEF AllHave
<1>4. Fits(s, panels, P!Shows({}, {"features"}))
  BY FitsPage, OtherRoutes DEF Answers
<1>5. Fits(s, panels, P!Shows({"own employee"}, {"vacation balance"}))
  BY <1>3, FitsPage, EmployeeRoutes DEF Answers
<1>6. Fits(s, panels, P!LeaveTable)
  <2>1. Fits(s, panels, P!Shows({}, {"list leaves"}))
    BY <1>3, FitsPage, RequestRoutes DEF Answers
  <2>2. Fits(s, panels, P!Shows({"leave:approve"}, {"review leave"}))
    BY FitsPage, RequestRoutes DEF Answers
  <2> QED BY <2>1, <2>2, FitsBoth DEF P!LeaveTable
<1>7. Fits(s, panels, P!OvertimeTable)
  <2>1. Fits(s, panels, P!Shows({}, {"list overtime"}))
    BY <1>3, FitsPage, RequestRoutes DEF Answers
  <2>2. Fits(s, panels, P!Shows({"overtime:approve"}, {"review overtime"}))
    BY FitsPage, RequestRoutes DEF Answers
  <2> QED BY <2>1, <2>2, FitsBoth DEF P!OvertimeTable
<1>8. Fits(s, panels, P!LeaveForm)
  BY <1>2, FitsWithin, RequestRoutes DEF Answers, P!LeaveForm
<1> QED BY <1>1, <1>4, <1>5, <1>6, <1>7, <1>8, FitsBoth DEF P!RequestsPage

LEMMA UsersFits ==
  ASSUME NEW s \in P!Accounts, ~s.pending, "users:read" \in P!Powers(s)
  PROVE  Fits(s, Panels(P!UsersPage), P!UsersPage.parts)
<1>1. PICK panels : panels = Panels(P!UsersPage)
  OBVIOUS
<1>2. /\ Opened(s, panels, "account") => "users:write" \in P!Powers(s)
      /\ Opened(s, panels, "reset") => "users:write" \in P!Powers(s)
      /\ Opened(s, panels, "administrator") => {"users:write", "administrators"} \subseteq P!Powers(s)
      /\ Opened(s, panels, "admin reset") => {"users:write", "administrators"} \subseteq P!Powers(s)
  <2>1. panels = P!Panel("account", {"users:write"}) \cup P!Panel("reset", {"users:write"})
                   \cup P!Panel("administrator", P!ManagesAdministrators)
                   \cup P!Panel("admin reset", P!ManagesAdministrators) \cup P!Panel("bell", {})
    BY <1>1 DEF Panels, P!UsersPage
  <2>2. ASSUME NEW x \in panels
        PROVE  /\ x.panel \in {"account", "reset"} => x.looks = {"users:write"}
               /\ x.panel \in {"administrator", "admin reset"} =>
                     x.looks = P!ManagesAdministrators
    <3>1. CASE x \in P!Panel("account", {"users:write"})
      BY <3>1, OfPanel
    <3>2. CASE x \in P!Panel("reset", {"users:write"})
      BY <3>2, OfPanel
    <3>3. CASE x \in P!Panel("administrator", P!ManagesAdministrators)
      BY <3>3, OfPanel
    <3>4. CASE x \in P!Panel("admin reset", P!ManagesAdministrators)
      BY <3>4, OfPanel
    <3>5. CASE x \in P!Panel("bell", {})
      BY <3>5, OfPanel
    <3> QED BY <2>1, <3>1, <3>2, <3>3, <3>4, <3>5
  <2> QED BY <2>2 DEF Opened, P!ManagesAdministrators
<1>3. "employees:read" \in P!Powers(s)
  BY Administering DEF Administers, P!HrPermissions, P!SupervisorPermissions
<1>4. Fits(s, panels, P!Shows({}, {"list accounts"}))
  BY FitsPage, AccountRoutes DEF Answers
<1>5. Fits(s, panels, P!AccountRow)
  <2>1. Fits(s, panels, P!Shows({"users:write"}, {"write account"}))
    BY FitsPage, AccountRoutes DEF Answers
  <2>2. Fits(s, panels, P!Shows(P!ManagesAdministrators, {"write administrator"}))
    BY FitsPage, AccountRoutes DEF Answers, P!ManagesAdministrators
  <2> QED BY <2>1, <2>2, FitsBoth DEF P!AccountRow
<1>6. Fits(s, panels, P!ResetPasswordForm)
  <2>1. Fits(s, panels, P!Within("reset", {}, {"reset password"}))
    BY <1>2, FitsWithin, AccountRoutes DEF Answers
  <2>2. Fits(s, panels, P!Within("admin reset", {}, {"reset administrator"}))
    BY <1>2, FitsWithin, AccountRoutes DEF Answers
  <2> QED BY <2>1, <2>2, FitsBoth DEF P!ResetPasswordForm
<1>7. ASSUME NEW name PROVE Fits(s, panels, P!EmployeePicker(name))
  BY <1>3, FitsWithin, EmployeeRoutes DEF Answers, P!EmployeePicker
<1>8. Fits(s, panels, P!AccountForm("account", {"write account"}))
  <2>1. Fits(s, panels, P!Within("account", {}, {"write account"}))
    BY <1>2, FitsWithin, AccountRoutes DEF Answers
  <2> QED BY <1>7, <2>1, FitsBoth DEF P!AccountForm
<1>9. Fits(s, panels, P!AccountForm("administrator", {"write administrator"}))
  <2>1. Fits(s, panels, P!Within("administrator", {}, {"write administrator"}))
    BY <1>2, FitsWithin, AccountRoutes DEF Answers
  <2> QED BY <1>7, <2>1, FitsBoth DEF P!AccountForm
<1> QED BY <1>1, <1>4, <1>5, <1>6, <1>8, <1>9, FitsBoth DEF P!UsersPage

LEMMA SettingsFits ==
  ASSUME NEW s \in P!Accounts, ~s.pending, "settings:read" \in P!Powers(s), NEW panels
  PROVE  Fits(s, panels, P!SettingsPage.parts)
<1>1. "schedules:read" \in P!Powers(s)
  BY Staffing DEF Staffs, P!HrPermissions
<1>2. Fits(s, panels, P!Shows({}, {"read settings"}))
  BY FitsPage, OtherRoutes DEF Answers
<1>3. Fits(s, panels, P!PolicyForm)
  <2>1. Fits(s, panels, P!Shows({}, {"list shifts"}))
    BY <1>1, FitsPage, ScheduleRoutes DEF Answers
  <2>2. Fits(s, panels, P!Shows({"settings:write"}, {"write policy"}))
    BY FitsPage, OtherRoutes DEF Answers
  <2> QED BY <2>1, <2>2, FitsBoth DEF P!PolicyForm
<1>4. Fits(s, panels, P!RecomputeCard)
  BY FitsPage, AttendanceRoutes DEF Answers, P!RecomputeCard
<1> QED BY <1>2, <1>3, <1>4, FitsBoth DEF P!SettingsPage

LEMMA RestFits ==
  ASSUME NEW s \in P!Accounts, ~s.pending, NEW panels
  PROVE  /\ "reports:read" \in P!Powers(s) => Fits(s, panels, P!ReportsPage.parts)
         /\ "audit:read" \in P!Powers(s) => Fits(s, panels, P!AuditPage.parts)
         /\ Fits(s, panels, P!AccountPage.parts)
<1>1. "reports:read" \in P!Powers(s) => Fits(s, panels, P!Shows({}, {"report", "features"}))
  BY FitsPage, OtherRoutes DEF Answers
<1>2. "audit:read" \in P!Powers(s) => Fits(s, panels, P!Shows({}, {"list audit"}))
  BY FitsPage, AccountRoutes DEF Answers
<1>3. Fits(s, panels, P!ChangePasswordForm)
  BY FitsPage, OtherRoutes DEF Answers, P!ChangePasswordForm
<1> QED BY <1>1, <1>2, <1>3 DEF P!ReportsPage, P!AuditPage, P!AccountPage

\* A page that s may open asks for what s is given.
LEMMA PageFits ==
  ASSUME NEW s \in P!Accounts, ~s.pending, NEW p \in DOMAIN P!Pages,
         P!Pages[p].guard \subseteq P!Powers(s)
  PROVE  Fits(s, Panels(P!Pages[p]), P!Pages[p].parts \cup P!NotificationBell)
<1>1. DOMAIN P!Pages = {"dashboard", "presence", "attendance", "employees", "organization",
                        "contracts", "schedules", "devices", "requests", "reports", "users",
                        "audit", "settings", "account"}
  BY DEF P!Pages
<1>2. SUFFICES Fits(s, Panels(P!Pages[p]), P!Pages[p].parts)
  BY BellFits, FitsBoth
<1>3. CASE p \in {"dashboard", "presence"}
  <2>1. P!Pages["dashboard"] = P!DashboardPage /\ P!Pages["presence"] = P!PresencePage
    BY DEF P!Pages
  <2>2. P!DashboardPage.guard = {"dashboard:read"} /\ P!PresencePage.guard = {"dashboard:read"}
    BY DEF P!DashboardPage, P!PresencePage
  <2> QED BY <1>3, <2>1, <2>2, OverviewFits
<1>4. CASE p = "attendance"
  <2>1. P!Pages[p] = P!AttendancePage
    BY <1>4 DEF P!Pages
  <2>2. P!AttendancePage.guard = {"attendance:read"}
    BY DEF P!AttendancePage
  <2> QED BY <2>1, <2>2, AttendanceFits
<1>5. CASE p = "employees"
  <2>1. P!Pages[p] = P!EmployeesPage
    BY <1>5 DEF P!Pages
  <2>2. P!EmployeesPage.guard = {"employees:read"}
    BY DEF P!EmployeesPage
  <2> QED BY <2>1, <2>2, EmployeesFits
<1>6. CASE p \in {"organization", "contracts"}
  <2>1. P!Pages["organization"] = P!OrganizationPage /\ P!Pages["contracts"] = P!ContractTypesPage
    BY DEF P!Pages
  <2>2. P!OrganizationPage.guard = {"organization:read"} /\ P!ContractTypesPage.guard = {"organization:read"}
    BY DEF P!OrganizationPage, P!ContractTypesPage
  <2> QED BY <1>6, <2>1, <2>2, OrganizationFits
<1>7. CASE p = "schedules"
  <2>1. P!Pages[p] = P!SchedulesPage
    BY <1>7 DEF P!Pages
  <2>2. P!SchedulesPage.guard = {"schedules:read"}
    BY DEF P!SchedulesPage
  <2> QED BY <2>1, <2>2, SchedulesFits
<1>8. CASE p = "devices"
  <2>1. P!Pages[p] = P!DevicesPage
    BY <1>8 DEF P!Pages
  <2>2. P!DevicesPage.guard = {"devices:read"}
    BY DEF P!DevicesPage
  <2> QED BY <2>1, <2>2, DevicesFits
<1>9. CASE p = "requests"
  <2>1. P!Pages[p] = P!RequestsPage
    BY <1>9 DEF P!Pages
  <2> QED BY <2>1, RequestsFits
<1>10. CASE p = "users"
  <2>1. P!Pages[p] = P!UsersPage
    BY <1>10 DEF P!Pages
  <2>2. P!UsersPage.guard = {"users:read"}
    BY DEF P!UsersPage
  <2> QED BY <2>1, <2>2, UsersFits
<1>11. CASE p = "settings"
  <2>1. P!Pages[p] = P!SettingsPage
    BY <1>11 DEF P!Pages
  <2>2. P!SettingsPage.guard = {"settings:read"}
    BY DEF P!SettingsPage
  <2> QED BY <2>1, <2>2, SettingsFits
<1>12. CASE p \in {"reports", "audit", "account"}
  <2>1. /\ P!Pages["reports"] = P!ReportsPage /\ P!Pages["audit"] = P!AuditPage
        /\ P!Pages["account"] = P!AccountPage
    BY DEF P!Pages
  <2>2. P!ReportsPage.guard = {"reports:read"} /\ P!AuditPage.guard = {"audit:read"}
    BY DEF P!ReportsPage, P!AuditPage
  <2> QED BY <1>12, <2>1, <2>2, RestFits
<1> QED BY <1>1, <1>3, <1>4, <1>5, <1>6, <1>7, <1>8, <1>9, <1>10, <1>11, <1>12

-----------------------------------------------------------------------------
(* Screens and permissions: the session behind the page.                   *)

\* The page s is at is one s may open, or the form of the password s has to replace; every
\* open panel is one s may open.
Stands(s, p, panels) ==
    /\ s \in P!Accounts
    /\ IF s.pending THEN p = "password"
       ELSE /\ p \in DOMAIN P!Pages
            /\ P!Pages[p].guard \subseteq P!Powers(s)
            /\ \A x \in panels : \E q \in Panels(P!Pages[p]) :
                  q.panel = x /\ q.looks \subseteq P!Powers(s)

AccessInv ==
    /\ row \in P!Accounts
    /\ session # None => Stands(session, page, open)

LEMMA Landings ==
  ASSUME NEW s \in P!Accounts, NEW p \in DOMAIN P!Pages
  PROVE  /\ P!Landing(s, p) \in DOMAIN P!Pages
         /\ P!Pages[P!Landing(s, p)].guard \subseteq P!Powers(s)
<1>1. /\ "dashboard" \in DOMAIN P!Pages /\ "attendance" \in DOMAIN P!Pages
      /\ P!Pages["dashboard"] = P!DashboardPage /\ P!Pages["attendance"] = P!AttendancePage
  BY DEF P!Pages
<1>2. P!DashboardPage.guard = {"dashboard:read"} /\ P!AttendancePage.guard = {"attendance:read"}
  BY DEF P!DashboardPage, P!AttendancePage
<1>3. "attendance:read" \in P!Powers(s)
  BY PowersOfRoles DEF AllHave
<1>4. P!Home(s) \in DOMAIN P!Pages /\ P!Pages[P!Home(s)].guard \subseteq P!Powers(s)
  BY <1>1, <1>2, <1>3 DEF P!Home
<1> QED BY <1>4 DEF P!Landing

LEMMA Entering ==
  ASSUME NEW s \in P!Accounts, NEW p \in DOMAIN P!Pages, P!Enter(s, p)
  PROVE  Stands(session', page', open')
BY Landings DEF P!Enter, Stands

LEMMA NoPasswordPage == "password" \notin DOMAIN P!Pages /\ "dashboard" \in DOMAIN P!Pages
BY DEF P!Pages

LEMMA AccessInitially == InitAll => AccessInv
BY DEF InitAll, P!Init, AccessInv

LEMMA AccessStep ==
  ASSUME ~Demotions, AccessInv, P!Next
  PROVE  AccessInv'
<1>1. CASE P!SignIn
  BY <1>1, Entering, NoPasswordPage DEF P!SignIn, AccessInv
<1>2. CASE P!SignOut
  BY <1>2 DEF P!SignOut, P!Leave, AccessInv
<1>3. ASSUME NEW p \in DOMAIN P!Pages, P!Go(p) PROVE AccessInv'
  <2>1. UNCHANGED <<row, session>> /\ page' = P!Landing(session, p) /\ open' = {} /\ page # "password"
    BY <1>3, NoPasswordPage DEF P!Go
  <2>2. session # None => Stands(session, page', open')
    BY <2>1, Landings DEF AccessInv, Stands
  <2> QED BY <2>1, <2>2 DEF AccessInv
<1>4. CASE P!OpenPanel
  <2>1. UNCHANGED <<row, session, page>> /\ page # "password"
    BY <1>4, NoPasswordPage DEF P!OpenPanel
  <2>2. PICK x \in Panels(P!Pages[page]) : x.looks \subseteq P!Powers(session) /\ open' = open \cup {x.panel}
    BY <1>4 DEF P!OpenPanel, Panels
  <2>3. session # None => Stands(session, page, open')
    BY <2>1, <2>2 DEF AccessInv, Stands
  <2> QED BY <2>1, <2>3 DEF AccessInv
<1>5. CASE P!ClosePanel
  <2>1. UNCHANGED <<row, session, page>> /\ open' \subseteq open
    BY <1>5 DEF P!ClosePanel
  <2>2. session # None => Stands(session, page, open')
    BY <2>1 DEF AccessInv, Stands
  <2> QED BY <2>1, <2>2 DEF AccessInv
<1>6. CASE P!Refresh
  <2>1. row' = row /\ session # None
    BY <1>6 DEF P!Refresh
  <2>2. CASE ~stands
    BY <1>6, <2>1, <2>2 DEF P!Refresh, P!Leave, AccessInv
  <2>3. CASE stands /\ (session.pending \/ row.pending)
    BY <1>6, <2>1, <2>3, Entering DEF P!Refresh, AccessInv
  <2>4. CASE stands /\ ~session.pending /\ ~row.pending
    <3>1. P!Powers(session) \subseteq P!Powers(row) /\ session' = row /\ UNCHANGED <<page, open>>
      BY <1>6, <2>4 DEF P!Refresh
    <3>2. Stands(row, page, open)
      BY <2>1, <2>4, <3>1 DEF AccessInv, Stands
    <3> QED BY <2>1, <3>1, <3>2 DEF AccessInv
  <2> QED BY <2>2, <2>3, <2>4
<1>7. CASE P!Reload
  BY <1>7, Entering DEF P!Reload, P!Leave, AccessInv
<1>8. CASE P!ChangePassword \/ P!ResetPassword
  <2>1. PICK b \in BOOLEAN : row' = [row EXCEPT !.pending = b]
    BY <1>8 DEF P!ChangePassword, P!ResetPassword
  <2>2. row' \in P!Accounts
    BY <2>1 DEF AccessInv, P!Accounts
  <2>3. UNCHANGED <<session, page, open>>
    BY <1>8 DEF P!ChangePassword, P!ResetPassword
  <2> QED BY <2>2, <2>3 DEF AccessInv
<1>9. CASE P!ChangeAccount
  BY <1>9 DEF P!ChangeAccount, AccessInv
<1> QED BY <1>1, <1>2, <1>3, <1>4, <1>5, <1>6, <1>7, <1>8, <1>9 DEF P!Next

LEMMA NothingRefused == AccessInv => NothingForbidden
<1> SUFFICES ASSUME AccessInv, session # None, NEW route \in P!Asked
             PROVE  P!Accepts(session, route)
  BY DEF NothingForbidden, P!NothingForbidden
<1>1. Stands(session, page, open)
  BY DEF AccessInv
<1>2. CASE page = "password"
  <2>1. session.pending
    BY <1>1, <1>2, NoPasswordPage DEF Stands
  <2>2. route \in {"change password", "sign out"}
    BY <1>2 DEF P!Asked, P!PasswordChangeRequiredPage
  <2> QED BY <2>1, <2>2, PendingRoutes
<1>3. CASE page # "password"
  <2>1. /\ session \in P!Accounts /\ ~session.pending /\ page \in DOMAIN P!Pages
        /\ P!Pages[page].guard \subseteq P!Powers(session)
        /\ \A x \in open : Opened(session, Panels(P!Pages[page]), x)
    BY <1>1, <1>3 DEF Stands, Opened
  <2>2. PICK x \in P!Pages[page].parts \cup P!NotificationBell :
           /\ x.panel \in open \cup {"page"} /\ x.looks \subseteq P!Powers(session)
           /\ route \in x.asks
    BY <1>3 DEF P!Asked
  <2>3. Opened(session, Panels(P!Pages[page]), x.panel)
    BY <2>1, <2>2 DEF Opened
  <2>4. Fits(session, Panels(P!Pages[page]), P!Pages[page].parts \cup P!NotificationBell)
    BY <2>1, PageFits
  <2> QED BY <2>2, <2>3, <2>4 DEF Fits
<1> QED BY <1>2, <1>3

\* While no session loses a permission behind an open page: whatever became of the account, and
\* whichever page and panels were opened before, nothing that is drawn or asked is refused to the
\* session it is drawn for (accounts.ts, the route guards, the controllers' permissions).
THEOREM NothingOfferedIsRefused ==
  ASSUME ~Demotions
  PROVE  SpecAll => []NothingForbidden
<1>1. InitAll => AccessInv
  BY AccessInitially
<1>2. AccessInv /\ [NextAny]_allVars => AccessInv'
  <2>1. CASE P!Next
    BY <2>1, AccessStep
  <2>2. CASE UNCHANGED offered
    BY <2>2 DEF offered, AccessInv
  <2>3. [NextAny]_allVars => P!Next \/ UNCHANGED offered
    BY DEF NextAny, allVars
  <2> QED BY <2>1, <2>2, <2>3
<1>3. AccessInv => NothingForbidden
  BY NothingRefused
<1> QED BY <1>1, <1>2, <1>3, PTL DEF SpecAll

-----------------------------------------------------------------------------
(* The screens: who reads what.                                            *)

LEMMA Readers ==
  ASSUME NEW q \in W!Queries
  PROVE  /\ "staff" \in W!Reads[q] =>
              q \in {"dashboard", "presence", "report", "employees", "catalog", "balance"}
         /\ "terms" \in W!Reads[q] => q \in {"balance", "employees", "contracts"}
         /\ "assignments" \in W!Reads[q] => q \in {"dashboard", "presence", "balance", "history"}
         /\ "punches" \in W!Reads[q] => q \in {"dashboard", "presence", "events"}
         /\ "records" \in W!Reads[q] => q \in {"dashboard", "records", "report"}
         /\ "overtime" \in W!Reads[q] => q \in {"dashboard", "report", "overtime"}
         /\ "adjustments" \in W!Reads[q] => q = "balance"
         /\ "catalog" \in W!Reads[q] => q = "catalog"
         /\ "names" \in W!Reads[q] => q = "employees"
         /\ "contracts" \in W!Reads[q] => q \in {"contracts", "balance"}
         /\ "contractNames" \in W!Reads[q] => q = "employees"
         /\ "unusedContracts" \in W!Reads[q] => q = "contracts"
         /\ "leaves" \in W!Reads[q] => q \in {"dashboard", "balance", "leave"}
         /\ "approved" \in W!Reads[q] => q \in {"dashboard", "presence"}
         /\ "holidays" \in W!Reads[q] => q \in {"dashboard", "presence", "balance", "holidays"}
         /\ "shifts" \in W!Reads[q] => q \in {"dashboard", "presence", "schedules", "shifts"}
         /\ "schedules" \in W!Reads[q] => q \in {"dashboard", "presence", "balance", "schedules"}
         /\ "policy" \in W!Reads[q] => q \in {"dashboard", "presence", "settings", "features"}
         /\ "users" \in W!Reads[q] => q = "users"
         /\ "links" \in W!Reads[q] => q \in {"employees", "users"}
         /\ "devices" \in W!Reads[q] => q \in {"dashboard", "devices"}
         /\ "logs" \in W!Reads[q] => q = "logs"
         /\ "notices" \in W!Reads[q] => q \in W!Notifications
<1>1. CASE q = "dashboard"
  <2>1. W!Reads[q] = W!DashboardReads
    BY <1>1 DEF W!Reads
  <2> QED BY <1>1, <2>1 DEF W!DashboardReads, W!Calendar
<1>2. CASE q = "presence"
  <2>1. W!Reads[q] = W!PresenceReads
    BY <1>2 DEF W!Reads
  <2> QED BY <1>2, <2>1 DEF W!PresenceReads, W!Calendar
<1>3. CASE q = "employees"
  <2>1. W!Reads[q] = W!EmployeesReads
    BY <1>3 DEF W!Reads
  <2> QED BY <1>3, <2>1 DEF W!EmployeesReads
<1>4. CASE q = "balance"
  <2>1. W!Reads[q] = W!BalanceReads
    BY <1>4 DEF W!Reads
  <2> QED BY <1>4, <2>1 DEF W!BalanceReads
<1>5. CASE q = "report"
  <2>1. W!Reads[q] = {"records", "overtime", "staff"}
    BY <1>5 DEF W!Reads, W!Days
  <2> QED BY <1>5, <2>1
<1>6. CASE q \in {"events", "records", "overtime", "history", "leave"}
  <2>1. W!Reads[q] \subseteq {"punches", "records", "overtime", "assignments", "leaves"}
    BY <1>6 DEF W!Reads
  <2>2. /\ W!Reads["events"] = {"punches"} /\ W!Reads["records"] = {"records"}
        /\ W!Reads["overtime"] = {"overtime"} /\ W!Reads["history"] = {"assignments"}
        /\ W!Reads["leave"] = {"leaves"}
    BY DEF W!Reads
  <2> QED BY <1>6, <2>1, <2>2
<1>7. CASE q \in {"catalog", "contracts", "users"}
  <2>1. /\ W!Reads["catalog"] = {"catalog", "staff"}
        /\ W!Reads["contracts"] = {"contracts", "unusedContracts", "terms"}
        /\ W!Reads["users"] = {"users", "links"}
    BY DEF W!Reads
  <2> QED BY <1>7, <2>1
<1>8. CASE q \in {"schedules", "shifts", "holidays", "settings", "features"}
  <2>1. /\ W!Reads["schedules"] = {"schedules", "shifts"} /\ W!Reads["shifts"] = {"shifts"}
        /\ W!Reads["holidays"] = {"holidays"}
        /\ W!Reads["settings"] = {"policy"} /\ W!Reads["features"] = {"policy"}
    BY DEF W!Reads
  <2> QED BY <1>8, <2>1
<1>9. CASE q \in {"devices", "logs", "bell", "list"}
  <2>1. /\ W!Reads["devices"] = {"devices"} /\ W!Reads["logs"] = {"logs"}
        /\ W!Reads["bell"] = {"notices"} /\ W!Reads["list"] = {"notices"}
    BY DEF W!Reads
  <2> QED BY <1>9, <2>1 DEF W!Notifications
<1>10. q \in {"dashboard", "presence", "events", "records", "report", "employees", "catalog",
              "contracts", "balance", "users", "leave", "overtime", "history", "schedules",
              "shifts", "holidays", "settings", "features", "devices", "logs", "bell", "list"}
  BY DEF W!Queries, W!Reads
<1> QED BY <1>1, <1>2, <1>3, <1>4, <1>5, <1>6, <1>7, <1>8, <1>9, <1>10

-----------------------------------------------------------------------------
(* The screens: what a save changes is refreshed, pushed, or overlooked.   *)

Events == {"event", "record", "status", "sync", "notice"}

\* A push that has the query asked again.
Heard(q, event) ==
    \/ event = "event" /\ q \in W!Attendance
    \/ event = "record" /\ q = "dashboard"
    \/ event = "status" /\ q \in {"devices", "dashboard"}
    \/ event = "sync" /\ q \in {"devices", "dashboard", "logs"}
    \/ event = "notice" /\ q \in W!Notifications

\* Such a push is among them.
Coming(q, ps) == \E k \in 1..Len(ps) : Heard(q, ps[k])

Missed(q, by) == by \in DOMAIN W!Overlooked /\ q \in W!Overlooked[by]

\* Whoever reads what a save changes learns of it, or is known not to.
Follows(q, kind) ==
    \/ q \in W!Saves[kind].refreshed
    \/ Coming(q, W!Saves[kind].pushed)
    \/ Missed(q, kind)
    \/ kind = "savePolicy" /\ q = "settings"

Touches(q, topics) == topics \cap W!Reads[q] # {}

LEMMA Pushing ==
  /\ \A q : ~Coming(q, <<>>)
  /\ \A q, e : Coming(q, <<e>>) <=> Heard(q, e)
  /\ \A q, d, e : Coming(q, <<d, e>>) <=> Heard(q, d) \/ Heard(q, e)
<1>1. \A q, e : Coming(q, <<e>>) <=> Heard(q, e)
  <2> SUFFICES ASSUME NEW q, NEW e PROVE Coming(q, <<e>>) <=> Heard(q, e)
    OBVIOUS
  <2>1. PICK s : s = <<e>>
    OBVIOUS
  <2>2. Len(s) = 1 /\ s[1] = e
    BY <2>1
  <2> QED BY <2>1, <2>2 DEF Coming
<1>2. \A q, d, e : Coming(q, <<d, e>>) <=> Heard(q, d) \/ Heard(q, e)
  <2> SUFFICES ASSUME NEW q, NEW d, NEW e
               PROVE  Coming(q, <<d, e>>) <=> Heard(q, d) \/ Heard(q, e)
    OBVIOUS
  <2>1. PICK s : s = <<d, e>>
    OBVIOUS
  <2>2. Len(s) = 2 /\ s[1] = d /\ s[2] = e /\ 1 \in 1..2 /\ 2 \in 1..2
    BY <2>1
  <2>3. \A k \in 1..2 : k = 1 \/ k = 2
    OBVIOUS
  <2> QED BY <2>1, <2>2, <2>3 DEF Coming
<1> QED BY <1>1, <1>2 DEF Coming

\* The saves of what people and their terms are.
LEMMA PeopleFollow ==
  ASSUME NEW q \in W!Queries,
         NEW kind \in {"saveEmployee", "pickContract", "adjust", "saveCatalog", "removeCatalog",
                       "saveContract", "removeContract"},
         Touches(q, W!Saves[kind].first) \/ Touches(q, W!Saves[kind].days)
  PROVE  Follows(q, kind)
<1>1. CASE kind = "saveEmployee"
  <2>1. /\ W!Saves[kind].first = {"staff", "terms", "assignments"}
        /\ W!Saves[kind].days = {"punches", "records", "overtime"}
        /\ W!Saves[kind].refreshed = {"employees", "balance", "catalog", "contracts", "history", "dashboard"}
    BY <1>1 DEF W!Saves, W!SaveEmployee, W!Save, W!Days
  <2>2. kind \in DOMAIN W!Overlooked
        /\ W!Overlooked[kind] = {"events", "records", "presence", "overtime", "report"}
    BY <1>1 DEF W!Overlooked
  <2> QED BY <2>1, <2>2, Readers DEF Follows, Missed, Touches
<1>2. CASE kind \in {"pickContract", "adjust"}
  <2>1. /\ W!Saves["pickContract"].first = {"terms"} /\ W!Saves["pickContract"].days = {}
        /\ W!Saves["pickContract"].refreshed = {"balance", "employees"}
        /\ W!Saves["adjust"].first = {"adjustments"} /\ W!Saves["adjust"].days = {}
        /\ W!Saves["adjust"].refreshed = {"balance"}
    BY DEF W!Saves, W!PickContract, W!Adjust, W!Save
  <2>2. "pickContract" \in DOMAIN W!Overlooked /\ W!Overlooked["pickContract"] = {"contracts"}
    BY DEF W!Overlooked
  <2> QED BY <1>2, <2>1, <2>2, Readers DEF Follows, Missed, Touches
<1>3. CASE kind \in {"saveCatalog", "removeCatalog"}
  <2>1. /\ W!Saves["saveCatalog"].first = {"catalog", "names"} /\ W!Saves["saveCatalog"].days = {}
        /\ W!Saves["saveCatalog"].refreshed = {"catalog", "employees"}
        /\ W!Saves["removeCatalog"].first = {"catalog"} /\ W!Saves["removeCatalog"].days = {}
        /\ W!Saves["removeCatalog"].refreshed = {"catalog"}
    BY DEF W!Saves, W!SaveCatalog, W!RemoveCatalog, W!Save
  <2> QED BY <1>3, <2>1, Readers DEF Follows, Touches
<1>4. CASE kind \in {"saveContract", "removeContract"}
  <2>1. /\ W!Saves["saveContract"].first = {"contracts", "contractNames"}
        /\ W!Saves["saveContract"].days = {}
        /\ W!Saves["saveContract"].refreshed = {"contracts", "balance"}
        /\ W!Saves["removeContract"].first = {"unusedContracts"}
        /\ W!Saves["removeContract"].days = {}
        /\ W!Saves["removeContract"].refreshed = {"contracts"}
    BY DEF W!Saves, W!SaveContract, W!RemoveContract, W!Save
  <2>2. "saveContract" \in DOMAIN W!Overlooked /\ W!Overlooked["saveContract"] = {"employees"}
    BY DEF W!Overlooked
  <2> QED BY <1>4, <2>1, <2>2, Readers DEF Follows, Missed, Touches
<1> QED BY <1>1, <1>2, <1>3, <1>4

\* Those of leaves, overtime and schedules.
LEMMA PlansFollow ==
  ASSUME NEW q \in W!Queries,
         NEW kind \in {"reviewLeave", "requestLeave", "reviewOvertime", "changeHoliday", "saveShift",
                       "saveSchedule", "scheduleChanged", "setUp"},
         \/ Touches(q, W!Saves[kind].first) \/ Touches(q, W!Saves[kind].days)
  PROVE  Follows(q, kind)
<1>1. CASE kind \in {"reviewLeave", "requestLeave", "reviewOvertime"}
  <2>1. /\ W!Saves["reviewLeave"].first = {"leaves", "approved"}
        /\ W!Saves["reviewLeave"].days = {"records", "overtime"}
        /\ W!Saves["reviewLeave"].refreshed = {"leave", "dashboard", "balance"}
    BY DEF W!Saves, W!ReviewLeave, W!Save, W!Days
  <2>2. /\ W!Saves["requestLeave"].first = {"leaves"} /\ W!Saves["requestLeave"].days = {}
        /\ W!Saves["requestLeave"].refreshed = {"leave", "balance"}
        /\ W!Saves["reviewOvertime"].first = {"overtime"} /\ W!Saves["reviewOvertime"].days = {}
        /\ W!Saves["reviewOvertime"].refreshed = {"overtime"}
    BY DEF W!Saves, W!RequestLeave, W!ReviewOvertime, W!Save
  <2>3. /\ {"reviewLeave", "requestLeave", "reviewOvertime"} \subseteq DOMAIN W!Overlooked
        /\ W!Overlooked["reviewLeave"] = {"presence", "records", "overtime", "report"}
        /\ W!Overlooked["requestLeave"] = {"dashboard"}
        /\ W!Overlooked["reviewOvertime"] = {"dashboard", "report"}
    BY DEF W!Overlooked
  <2> QED BY <1>1, <2>1, <2>2, <2>3, Readers DEF Follows, Missed, Touches
<1>2. CASE kind = "changeHoliday"
  <2>1. /\ W!Saves[kind].first = {"holidays"} /\ W!Saves[kind].days = {}
        /\ W!Saves[kind].refreshed = {"holidays", "balance"} \cup W!Attendance
    BY <1>2 DEF W!Saves, W!ChangeHoliday, W!Save
  <2>2. kind \in DOMAIN W!Overlooked
        /\ W!Overlooked[kind] = {"records", "dashboard", "overtime", "report"}
    BY <1>2 DEF W!Overlooked
  <2> QED BY <2>1, <2>2, Readers DEF Follows, Missed, Touches, W!Attendance
<1>3. CASE kind \in {"saveShift", "saveSchedule"}
  <2>1. /\ W!Saves["saveShift"].first = {"shifts"} /\ W!Saves["saveShift"].days = {}
        /\ W!Saves["saveShift"].refreshed = {"shifts", "schedules"}
        /\ W!Saves["saveSchedule"].first = {"schedules"} /\ W!Saves["saveSchedule"].days = {}
        /\ W!Saves["saveSchedule"].refreshed = {"schedules"}
    BY DEF W!Saves, W!SaveShift, W!SaveSchedule, W!Save
  <2>2. /\ {"saveShift", "saveSchedule"} \subseteq DOMAIN W!Overlooked
        /\ W!Overlooked["saveShift"] = {"dashboard", "presence"}
        /\ W!Overlooked["saveSchedule"] = {"dashboard", "presence", "balance"}
    BY DEF W!Overlooked
  <2> QED BY <1>3, <2>1, <2>2, Readers DEF Follows, Missed, Touches
<1>4. CASE kind = "scheduleChanged"
  <2>1. /\ W!Saves[kind].first = {"assignments"} /\ W!Saves[kind].days = {"records", "overtime"}
        /\ W!Saves[kind].refreshed = {"history", "balance", "dashboard"} \cup W!Attendance
    BY <1>4 DEF W!Saves, W!ScheduleChanged, W!Save, W!Days
  <2>2. kind \in DOMAIN W!Overlooked /\ W!Overlooked[kind] = {"overtime", "report"}
    BY <1>4 DEF W!Overlooked
  <2> QED BY <2>1, <2>2, Readers DEF Follows, Missed, Touches, W!Attendance
<1>5. CASE kind = "setUp"
  <2>1. /\ W!Saves[kind].first = {"shifts", "schedules", "policy", "assignments"}
        /\ W!Saves[kind].days = {"records", "overtime"}
        /\ W!Saves[kind].refreshed = {"shifts", "schedules", "settings", "features", "employees",
                                      "dashboard", "report"} \cup W!Attendance
    BY <1>5 DEF W!Saves, W!SetUp, W!Save, W!Days
  <2>2. kind \in DOMAIN W!Overlooked /\ W!Overlooked[kind] = {"history", "balance", "overtime"}
    BY <1>5 DEF W!Overlooked
  <2> QED BY <2>1, <2>2, Readers DEF Follows, Missed, Touches, W!Attendance
<1> QED BY <1>1, <1>2, <1>3, <1>4, <1>5

\* Those of the policy, accounts, terminals, punches and notices.
LEMMA OthersFollow ==
  ASSUME NEW q \in W!Queries,
         NEW kind \in {"savePolicy", "recompute", "saveAccount", "toggleAccount", "createDevice",
                       "editDevice", "testDevice", "syncDevice", "manualPunch", "voidPunch",
                       "readNotices"},
         Touches(q, W!Saves[kind].first) \/ Touches(q, W!Saves[kind].days)
  PROVE  Follows(q, kind)
<1>1. CASE kind \in {"savePolicy", "recompute"}
  <2>1. /\ W!Saves["savePolicy"].first = {"policy"} /\ W!Saves["savePolicy"].days = {}
        /\ W!Saves["savePolicy"].refreshed = {"features"}
        /\ W!Saves["recompute"].first = {}
        /\ W!Saves["recompute"].days = {"records", "overtime"}
        /\ W!Saves["recompute"].refreshed = {"dashboard", "report"} \cup W!Attendance
    BY DEF W!Saves, W!SavePolicy, W!Recompute, W!Save, W!Days
  <2>2. /\ {"savePolicy", "recompute"} \subseteq DOMAIN W!Overlooked
        /\ W!Overlooked["savePolicy"] = {"dashboard", "presence"}
        /\ W!Overlooked["recompute"] = {"overtime"}
    BY DEF W!Overlooked
  <2> QED BY <1>1, <2>1, <2>2, Readers DEF Follows, Missed, Touches, W!Attendance
<1>2. CASE kind \in {"saveAccount", "toggleAccount", "readNotices"}
  <2>1. /\ W!Saves["saveAccount"].first = {"users", "links"} /\ W!Saves["saveAccount"].days = {}
        /\ W!Saves["saveAccount"].refreshed = {"users", "employees"}
        /\ W!Saves["toggleAccount"].first = {"users", "links"} /\ W!Saves["toggleAccount"].days = {}
        /\ W!Saves["toggleAccount"].refreshed = {"users"}
        /\ W!Saves["readNotices"].first = {"notices"} /\ W!Saves["readNotices"].days = {}
        /\ W!Saves["readNotices"].refreshed = W!Notifications
    BY DEF W!Saves, W!SaveAccount, W!ToggleAccount, W!ReadNotices, W!Save
  <2>2. "toggleAccount" \in DOMAIN W!Overlooked /\ W!Overlooked["toggleAccount"] = {"employees"}
    BY DEF W!Overlooked
  <2> QED BY <1>2, <2>1, <2>2, Readers DEF Follows, Missed, Touches
<1>3. CASE kind \in {"createDevice", "editDevice"}
  <2>1. /\ W!Saves["createDevice"].first = {"devices"} /\ W!Saves["createDevice"].days = {}
        /\ W!Saves["createDevice"].refreshed = {"devices"}
        /\ W!Saves["editDevice"].first = {"devices"} /\ W!Saves["editDevice"].days = {}
        /\ W!Saves["editDevice"].refreshed = {"devices"}
        /\ W!Saves["editDevice"].pushed = <<"status">>
    BY DEF W!Saves, W!CreateDevice, W!EditDevice, W!Save
  <2>2. "createDevice" \in DOMAIN W!Overlooked /\ W!Overlooked["createDevice"] = {"dashboard"}
    BY DEF W!Overlooked
  <2>3. Coming("dashboard", W!Saves["editDevice"].pushed)
    BY <2>1, Pushing DEF Heard
  <2> QED BY <1>3, <2>1, <2>2, <2>3, Readers DEF Follows, Missed, Touches
<1>4. CASE kind \in {"testDevice", "syncDevice"}
  <2>1. /\ W!Saves["testDevice"].first = {"devices"} /\ W!Saves["testDevice"].days = {}
        /\ W!Saves["testDevice"].refreshed = {"devices", "logs", "dashboard"}
        /\ W!Saves["syncDevice"].first = {"devices", "logs"} /\ W!Saves["syncDevice"].days = {}
        /\ W!Saves["syncDevice"].refreshed = {"devices", "logs", "dashboard"}
    BY DEF W!Saves, W!TestDevice, W!SyncDevice, W!Save
  <2> QED BY <1>4, <2>1, Readers DEF Follows, Touches
<1>5. CASE kind \in {"manualPunch", "voidPunch"}
  <2>1. /\ W!Saves["manualPunch"].first = {"punches"}
        /\ W!Saves["manualPunch"].days = {"records", "overtime"}
        /\ W!Saves["manualPunch"].refreshed = W!Attendance
        /\ W!Saves["manualPunch"].pushed = <<"record", "event">>
    BY DEF W!Saves, W!ManualPunch, W!Save, W!Days
  <2>2. /\ W!Saves["voidPunch"].first = {"punches"}
        /\ W!Saves["voidPunch"].days = {"records", "overtime"}
        /\ W!Saves["voidPunch"].refreshed = W!Attendance
        /\ W!Saves["voidPunch"].pushed = <<"record">>
    BY DEF W!Saves, W!VoidPunch, W!Save, W!Days
  <2>3. /\ {"manualPunch", "voidPunch"} \subseteq DOMAIN W!Overlooked
        /\ W!Overlooked["manualPunch"] = {"overtime", "report"}
        /\ W!Overlooked["voidPunch"] = {"overtime", "report"}
    BY DEF W!Overlooked
  <2>4. /\ Coming("dashboard", W!Saves["manualPunch"].pushed)
        /\ Coming("dashboard", W!Saves["voidPunch"].pushed)
    BY <2>1, <2>2, Pushing DEF Heard
  <2> QED BY <1>5, <2>1, <2>2, <2>3, <2>4, Readers DEF Follows, Missed, Touches, W!Attendance
<1> QED BY <1>1, <1>2, <1>3, <1>4, <1>5

LEMMA SavesFollow ==
  ASSUME NEW q \in W!Queries, NEW kind \in DOMAIN W!Saves,
         Touches(q, W!Saves[kind].first) \/ Touches(q, W!Saves[kind].days)
  PROVE  Follows(q, kind)
<1>1. kind \in {"saveEmployee", "pickContract", "adjust", "saveCatalog", "removeCatalog",
                "saveContract", "removeContract", "reviewLeave", "requestLeave", "reviewOvertime",
                "changeHoliday", "saveShift", "saveSchedule", "scheduleChanged", "setUp",
                "savePolicy", "recompute", "saveAccount", "toggleAccount", "createDevice",
                "editDevice", "testDevice", "syncDevice", "manualPunch", "voidPunch", "readNotices"}
  BY DEF W!Saves
<1> QED BY <1>1, PeopleFollow, PlansFollow, OthersFollow

-----------------------------------------------------------------------------
(* The screens: an answer that is old is about to be replaced.             *)

\* A model value is no set; TLC, which keeps the two apart, cannot be asked so.
NoneIsNoAnswer == None \notin SUBSET Nat

EntryType ==
    [data : (SUBSET Nat) \cup {None}, open : BOOLEAN, invalid : BOOLEAN, fresh : BOOLEAN,
     fetch : {"none", "asked", "answered"}, answer : SUBSET Nat]

\* An answer waits to be taken only where a refresh would ask again instead.
Loads(q, e) ==
    /\ e \in EntryType
    /\ e.fetch = "answered" => e.open /\ e.data # None /\ q # "settings"

\* The screen shows the change, or will once the answer that waits is taken.
Has(e, i) == IF e.fetch = "answered" THEN i \in e.answer ELSE i \in e.data

SavesPolicy(s) == s # None /\ s.kind = "savePolicy"

\* The query is being asked, or will be: by the save or the pushes that are under way.
Awaits(q, e, s, p, n, ps) ==
    \/ e.fetch = "asked"
    \/ Coming(q, ps)
    \/ s # None /\ q \in W!Saves[s.kind].refreshed
    \/ s # None /\ s.at = "days" /\ Coming(q, W!Saves[s.kind].pushed)
    \/ p # None /\ (q \in W!Attendance \/ (p <= 2 /\ q = "dashboard"))
    \/ n = "push" /\ q \in W!Notifications

\* A change by whom is shown, or overlooked, or of the policy that its form is about to show.
Known(q, by, e, s, i) == Missed(q, by) \/ Has(e, i) \/ (q = "settings" /\ by = "savePolicy" /\ SavesPolicy(s))

Makers == DOMAIN W!Saves \cup {"punch", "days", "notice"}

SavesType == [kind : DOMAIN W!Saves, at : {"days", "answer"}]

ScreensInv ==
    /\ watched \in W!Queries
    /\ shownChanges \in Seq(Makers)
    /\ save # None => save \in SavesType
    /\ started \subseteq {"changeHoliday"}
    /\ punch # None => punch \in 1..3
    /\ pushes \in Seq(Events)
    /\ Loads(watched, entry)
    /\ watched = "settings" /\ SavesPolicy(save) => entry.data # None
    /\ entry.open => \/ Awaits(watched, entry, save, punch, notice, pushes)
                     \/ \A i \in DOMAIN shownChanges : Known(watched, shownChanges[i], entry, save, i)

LEMMA ScreensInit == W!Init => ScreensInv
<1> SUFFICES ASSUME W!Init PROVE ScreensInv
  OBVIOUS
<1>1. entry \in EntryType /\ ~entry.open /\ entry.fetch = "none"
  BY DEF W!Init, W!Closed, EntryType
<1> QED BY <1>1 DEF W!Init, ScreensInv, Loads, SavesPolicy

\* A step of the query, of which nothing is lost that it had.
LEMMA QueryStep ==
  ASSUME ScreensInv, UNCHANGED <<watched, shownChanges, save, started, punch, notice, pushes>>,
         Loads(watched, entry'), entry.data # None => entry'.data # None,
         entry'.open => \/ entry'.fetch = "asked"
                        \/ \A i \in DOMAIN shownChanges : Has(entry', i)
                        \/ /\ entry.open /\ entry.fetch # "asked"
                           /\ \A i \in DOMAIN shownChanges : Has(entry, i) => Has(entry', i)
  PROVE  ScreensInv'
<1>1. entry'.open => \/ Awaits(watched, entry', save, punch, notice, pushes)
                     \/ \A i \in DOMAIN shownChanges : Known(watched, shownChanges[i], entry', save, i)
  <2> SUFFICES ASSUME entry'.open
               PROVE  \/ Awaits(watched, entry', save, punch, notice, pushes)
                      \/ \A i \in DOMAIN shownChanges : Known(watched, shownChanges[i], entry', save, i)
    OBVIOUS
  <2>1. CASE entry'.fetch = "asked"
    BY <2>1 DEF Awaits
  <2>2. CASE \A i \in DOMAIN shownChanges : Has(entry', i)
    BY <2>2 DEF Known
  <2>3. CASE /\ entry.open /\ entry.fetch # "asked"
             /\ \A i \in DOMAIN shownChanges : Has(entry, i) => Has(entry', i)
    <3>1. CASE Awaits(watched, entry, save, punch, notice, pushes)
      BY <2>3, <3>1 DEF Awaits
    <3>2. CASE \A i \in DOMAIN shownChanges : Known(watched, shownChanges[i], entry, save, i)
      BY <2>3, <3>2 DEF Known
    <3> QED BY <2>3, <3>1, <3>2 DEF ScreensInv
  <2> QED BY <2>1, <2>2, <2>3
<1> QED BY <1>1 DEF ScreensInv

\* Being asked.
LEMMA AskedIs ==
  ASSUME NEW e \in EntryType
  PROVE  /\ W!Asked(e) \in EntryType /\ W!Asked(e).fetch = "asked"
         /\ W!Asked(e).open = e.open /\ W!Asked(e).data = e.data
BY DEF W!Asked, EntryType

LEMMA InvalidatedIs ==
  ASSUME NEW q, NEW e, Loads(q, e)
  PROVE  /\ Loads(q, W!Invalidated(e))
         /\ W!Invalidated(e).open = e.open /\ W!Invalidated(e).data = e.data
         /\ e.open => W!Invalidated(e).fetch = "asked"
<1>1. PICK f : f = [e EXCEPT !.invalid = TRUE]
  OBVIOUS
<1>2. e \in EntryType /\ f \in EntryType /\ f.open = e.open /\ f.data = e.data /\ f.fetch = e.fetch
  BY <1>1 DEF Loads, EntryType
<1>3. W!Invalidated(e) = IF e.open /\ (e.fetch = "none" \/ e.data # None) THEN W!Asked(f) ELSE f
  BY <1>1 DEF W!Invalidated
<1>4. CASE e.open /\ (e.fetch = "none" \/ e.data # None)
  <2>1. W!Invalidated(e) = W!Asked(f)
    BY <1>3, <1>4
  <2> QED BY <1>2, <2>1, AskedIs DEF Loads
<1>5. CASE ~(e.open /\ (e.fetch = "none" \/ e.data # None))
  <2>1. W!Invalidated(e) = f
    BY <1>3, <1>5
  <2>2. e.open => e.fetch = "asked"
    <3>1. e.fetch \in {"none", "asked", "answered"}
      BY <1>2 DEF EntryType
    <3> QED BY <1>5, <3>1 DEF Loads
  <2> QED BY <1>2, <2>1, <2>2 DEF Loads
<1> QED BY <1>4, <1>5

LEMMA QuerySteps ==
  ASSUME ~QuickReturns, ~SlowLoads, NoneIsNoAnswer, ScreensInv,
         W!Open \/ W!Close \/ W!Age \/ W!Poll \/ W!Answer \/ W!Arrive
  PROVE  ScreensInv'
<1>1. /\ UNCHANGED <<watched, shownChanges, save, started, punch, notice, pushes>>
      /\ Loads(watched, entry) /\ entry \in EntryType
  BY DEF W!Open, W!Close, W!Age, W!Poll, W!Answer, W!Arrive, W!server, ScreensInv, Loads
<1>2. entry.fetch \in {"none", "asked", "answered"}
  BY <1>1 DEF EntryType
<1>3. CASE W!Open
  <2>1. PICK e : e = [entry EXCEPT !.open = TRUE]
    OBVIOUS
  <2>2. e \in EntryType /\ e.open /\ e.fetch = entry.fetch /\ e.data = entry.data /\ e.fresh = entry.fresh
    BY <1>1, <2>1 DEF EntryType
  <2>3. entry.fetch # "answered" /\ ~entry.fresh
    BY <1>1, <1>3 DEF W!Open, Loads
  <2>4. entry' = IF e.fetch = "none" /\ (e.data = None \/ e.invalid \/ ~e.fresh) THEN W!Asked(e) ELSE e
    BY <1>3, <2>1 DEF W!Open
  <2>5. CASE entry.fetch = "none"
    <3>1. entry' = W!Asked(e)
      BY <2>2, <2>3, <2>4, <2>5
    <3>2. Loads(watched, entry') /\ entry'.data = entry.data /\ entry'.fetch = "asked"
      BY <2>2, <3>1, AskedIs DEF Loads
    <3> QED BY <1>1, <3>2, QueryStep
  <2>6. CASE entry.fetch = "asked"
    <3>1. entry' = e
      BY <2>2, <2>4, <2>6
    <3>2. Loads(watched, entry') /\ entry'.data = entry.data /\ entry'.fetch = "asked"
      BY <2>2, <2>6, <3>1 DEF Loads
    <3> QED BY <1>1, <3>2, QueryStep
  <2> QED BY <1>2, <2>3, <2>5, <2>6
<1>4. CASE W!Close
  <2>1. entry' = [entry EXCEPT !.open = FALSE] /\ entry.fetch # "answered"
    BY <1>4 DEF W!Close
  <2>2. /\ entry' \in EntryType /\ ~entry'.open /\ entry'.fetch = entry.fetch
        /\ entry'.data = entry.data
    BY <1>1, <2>1 DEF EntryType
  <2>3. Loads(watched, entry')
    BY <2>1, <2>2 DEF Loads
  <2> QED BY <1>1, <2>2, <2>3, QueryStep
<1>5. CASE W!Age
  <2>1. entry' = [entry EXCEPT !.fresh = FALSE]
    BY <1>5 DEF W!Age
  <2>2. /\ entry' \in EntryType /\ entry'.open = entry.open /\ entry'.fetch = entry.fetch
        /\ entry'.data = entry.data /\ entry'.answer = entry.answer
    BY <1>1, <2>1 DEF EntryType
  <2>3. Loads(watched, entry') /\ \A i : Has(entry', i) <=> Has(entry, i)
    BY <1>1, <2>2 DEF Loads, Has
  <2> QED BY <1>1, <2>2, <2>3, QueryStep
<1>6. CASE W!Poll
  <2>1. entry' = W!Asked(entry)
    BY <1>6 DEF W!Poll
  <2>2. Loads(watched, entry') /\ entry'.data = entry.data /\ entry'.fetch = "asked"
    BY <1>1, <2>1, AskedIs DEF Loads
  <2> QED BY <1>1, <2>2, QueryStep
<1>7. DOMAIN shownChanges \in SUBSET Nat
  BY DEF ScreensInv
\* What arrives is what the query has.
<1>8. ASSUME NEW answer \in SUBSET Nat
      PROVE  LET f == W!Arrived(entry, answer) IN
             /\ Loads(watched, f) /\ f.data # None /\ f.open = entry.open
             /\ \A i : Has(f, i) <=> i \in answer
  <2>1. PICK f : f = W!Arrived(entry, answer)
    OBVIOUS
  <2>2. f \in EntryType /\ f.fetch = "none" /\ f.data = answer /\ f.open = entry.open
    BY <1>1, <2>1 DEF W!Arrived, EntryType
  <2> QED BY <2>1, <2>2 DEF Loads, Has, NoneIsNoAnswer
<1>9. CASE W!Answer /\ W!NotAskedAgain
  <2>1. entry' = W!Arrived(entry, DOMAIN shownChanges)
    BY <1>9 DEF W!Answer
  <2> QED BY <1>1, <1>7, <1>8, <2>1, QueryStep
<1>10. CASE W!Answer /\ ~W!NotAskedAgain
  <2>1. /\ entry' = [entry EXCEPT !.fetch = "answered", !.answer = DOMAIN shownChanges]
        /\ entry.data # None /\ entry.open /\ watched # "settings"
    BY <1>10 DEF W!Answer, W!NotAskedAgain
  <2>2. /\ entry' \in EntryType /\ entry'.open /\ entry'.fetch = "answered"
        /\ entry'.data = entry.data /\ entry'.answer = DOMAIN shownChanges
    BY <1>1, <1>7, <2>1 DEF EntryType
  <2>3. Loads(watched, entry') /\ \A i \in DOMAIN shownChanges : Has(entry', i)
    BY <2>1, <2>2 DEF Loads, Has
  <2> QED BY <1>1, <2>2, <2>3, QueryStep
<1>11. CASE W!Arrive
  <2>1. entry' = W!Arrived(entry, entry.answer) /\ entry.fetch = "answered" /\ entry.open
    BY <1>1, <1>11 DEF W!Arrive, Loads
  <2>2. entry.answer \in SUBSET Nat
    BY <1>1 DEF EntryType
  <2>3. \A i : Has(entry, i) <=> i \in entry.answer
    BY <2>1 DEF Has
  <2> QED BY <1>1, <1>8, <2>1, <2>2, <2>3, QueryStep
<1> QED BY <1>3, <1>4, <1>5, <1>6, <1>9, <1>10, <1>11

-----------------------------------------------------------------------------
(* The screens: the server changes, computes and pushes.                   *)

\* One more change, or none; what has the query asked again goes on or is handed over, and
\* whoever reads the change learns of it.
LEMMA ServerStep ==
  ASSUME ScreensInv, UNCHANGED <<watched, entry>>, NEW by \in Makers,
         shownChanges' = shownChanges \/ shownChanges' = Append(shownChanges, by),
         save' # None => save' \in SavesType,
         started' \subseteq {"changeHoliday"},
         punch' # None => punch' \in 1..3,
         pushes' \in Seq(Events),
         SavesPolicy(save) => SavesPolicy(save'),
         watched = "settings" /\ SavesPolicy(save') => entry.data # None,
         Awaits(watched, entry, save, punch, notice, pushes)
            => Awaits(watched, entry, save', punch', notice', pushes'),
         shownChanges' # shownChanges =>
            \/ Awaits(watched, entry, save', punch', notice', pushes')
            \/ Missed(watched, by)
            \/ watched = "settings" /\ by = "savePolicy" /\ SavesPolicy(save')
  PROVE  ScreensInv'
<1>1. /\ shownChanges \in Seq(Makers) /\ shownChanges' \in Seq(Makers)
  <2>1. shownChanges \in Seq(Makers)
    BY DEF ScreensInv
  <2>2. Append(shownChanges, by) \in Seq(Makers)
    BY <2>1
  <2> QED BY <2>1, <2>2
<1>2. ASSUME entry.open, ~Awaits(watched, entry, save', punch', notice', pushes'),
             NEW i \in DOMAIN shownChanges'
      PROVE  Known(watched, shownChanges'[i], entry, save', i)
  <2>1. \A j \in DOMAIN shownChanges : Known(watched, shownChanges[j], entry, save, j)
    BY <1>2 DEF ScreensInv
  <2>2. CASE i \in DOMAIN shownChanges
    <3>1. shownChanges'[i] = shownChanges[i]
      BY <1>1, <2>2
    <3> QED BY <2>1, <2>2, <3>1 DEF Known
  <2>3. CASE i \notin DOMAIN shownChanges
    <3>1. shownChanges'[i] = by /\ shownChanges' # shownChanges
      BY <1>1, <1>2, <2>3
    <3> QED BY <1>2, <3>1 DEF Known
  <2> QED BY <2>2, <2>3
<1> QED BY <1>1, <1>2 DEF ScreensInv

LEMMA ComingMore ==
  ASSUME NEW q, NEW ps \in Seq(Events), NEW qs \in Seq(Events)
  PROVE  Coming(q, ps \o qs) <=> Coming(q, ps) \/ Coming(q, qs)
<1>1. PICK rs : rs = ps \o qs
  OBVIOUS
<1>2. /\ Len(ps) \in Nat /\ Len(qs) \in Nat /\ Len(rs) = Len(ps) + Len(qs)
      /\ \A k \in 1..Len(ps) : k \in 1..Len(rs) /\ rs[k] = ps[k]
      /\ \A k \in 1..Len(qs) : Len(ps) + k \in 1..Len(rs) /\ rs[Len(ps) + k] = qs[k]
  BY <1>1
<1>3. ASSUME NEW k \in 1..Len(rs)
      PROVE  (k \in 1..Len(ps) /\ rs[k] = ps[k])
             \/ (k - Len(ps) \in 1..Len(qs) /\ rs[k] = qs[k - Len(ps)])
  BY <1>1, <1>2
<1>4. Coming(q, rs) => Coming(q, ps) \/ Coming(q, qs)
  BY <1>3 DEF Coming
<1>5. Coming(q, ps) => Coming(q, rs)
  BY <1>2 DEF Coming
<1>6. Coming(q, qs) => Coming(q, rs)
  BY <1>2 DEF Coming
<1> QED BY <1>1, <1>4, <1>5, <1>6

LEMMA ComingLast ==
  ASSUME NEW q, NEW ps \in Seq(Events), NEW event \in Events
  PROVE  /\ Append(ps, event) \in Seq(Events)
         /\ Coming(q, Append(ps, event)) <=> Coming(q, ps) \/ Heard(q, event)
<1>1. PICK one : one = <<event>>
  OBVIOUS
<1>2. one \in Seq(Events) /\ Append(ps, event) = ps \o one
  BY <1>1
<1>3. Coming(q, ps \o one) <=> Coming(q, ps) \/ Coming(q, one)
  BY <1>2, ComingMore
<1>4. Coming(q, one) <=> Heard(q, event)
  BY <1>1, Pushing
<1>5. Append(ps, event) \in Seq(Events)
  OBVIOUS
<1> QED BY <1>2, <1>3, <1>4, <1>5

LEMMA ComingFirst ==
  ASSUME NEW q, NEW ps \in Seq(Events), ps # <<>>
  PROVE  /\ Head(ps) \in Events /\ Tail(ps) \in Seq(Events)
         /\ Coming(q, ps) <=> Heard(q, Head(ps)) \/ Coming(q, Tail(ps))
<1>1. Head(ps) \in Events /\ Tail(ps) \in Seq(Events) /\ Head(ps) = ps[1] /\ Len(ps) \in Nat
      /\ Len(ps) > 0
  OBVIOUS
<1>2. PICK one : one = <<Head(ps)>>
  OBVIOUS
<1>3. one \in Seq(Events) /\ ps = one \o Tail(ps)
  BY <1>1, <1>2
<1>4. Coming(q, one \o Tail(ps)) <=> Coming(q, one) \/ Coming(q, Tail(ps))
  BY <1>1, <1>3, ComingMore
<1>5. Coming(q, one) <=> Heard(q, Head(ps))
  BY <1>2, Pushing
<1> QED BY <1>1, <1>3, <1>4, <1>5

LEMMA PushedEvents == \A kind \in DOMAIN W!Saves : W!Saves[kind].pushed \in Seq(Events)
<1>1. \A kind \in DOMAIN W!Saves :
         W!Saves[kind].pushed \in {<<>>, <<"record">>, <<"record", "event">>, <<"status">>,
                                   <<"status", "sync">>}
  BY DEF W!Saves, W!Save, W!SaveEmployee, W!PickContract, W!Adjust, W!SaveCatalog, W!RemoveCatalog,
         W!SaveContract, W!RemoveContract, W!ReviewLeave, W!RequestLeave, W!ReviewOvertime,
         W!ChangeHoliday, W!SaveShift, W!SaveSchedule, W!ScheduleChanged, W!SetUp, W!SavePolicy,
         W!Recompute, W!SaveAccount, W!ToggleAccount, W!CreateDevice, W!EditDevice, W!TestDevice,
         W!SyncDevice, W!ManualPunch, W!VoidPunch, W!ReadNotices
<1>2. {<<>>, <<"record">>, <<"record", "event">>, <<"status">>, <<"status", "sync">>}
         \subseteq Seq(Events)
  BY DEF Events
<1> QED BY <1>1, <1>2

\* Only a holiday has days computed after its answer, and whoever reads them is known to miss it.
LEMMA OnlyHolidaysLater ==
  /\ \A kind \in DOMAIN W!Saves : W!Saves[kind].later # {} => kind = "changeHoliday"
  /\ \A q \in W!Queries : Touches(q, W!Saves["changeHoliday"].later) => Missed(q, "changeHoliday")
<1>1. ASSUME NEW kind \in DOMAIN W!Saves, kind # "changeHoliday" PROVE W!Saves[kind].later = {}
  BY <1>1 DEF W!Saves, W!Save, W!SaveEmployee, W!PickContract, W!Adjust, W!SaveCatalog,
         W!RemoveCatalog, W!SaveContract, W!RemoveContract, W!ReviewLeave, W!RequestLeave,
         W!ReviewOvertime, W!SaveShift, W!SaveSchedule, W!ScheduleChanged, W!SetUp, W!SavePolicy,
         W!Recompute, W!SaveAccount, W!ToggleAccount, W!CreateDevice, W!EditDevice, W!TestDevice,
         W!SyncDevice, W!ManualPunch, W!VoidPunch, W!ReadNotices
<1>2. W!Saves["changeHoliday"].later = {"records", "overtime"}
  BY DEF W!Saves, W!ChangeHoliday, W!Save, W!Days
<1>3. "changeHoliday" \in DOMAIN W!Overlooked
      /\ W!Overlooked["changeHoliday"] = {"records", "dashboard", "overtime", "report"}
  BY DEF W!Overlooked
<1>4. \A q \in W!Queries : Touches(q, W!Saves["changeHoliday"].later) => Missed(q, "changeHoliday")
  BY <1>2, <1>3, Readers DEF Touches, Missed
<1> QED BY <1>1, <1>4

LEMMA SaveSteps ==
  ASSUME ScreensInv
  PROVE  /\ \A kind \in DOMAIN W!Saves : W!BeginSave(kind) => ScreensInv'
         /\ \A kind \in DOMAIN W!Saves : W!ComputeLater(kind) => ScreensInv'
         /\ W!ComputeDays => ScreensInv'
<1>1. ASSUME NEW kind \in DOMAIN W!Saves, W!BeginSave(kind) PROVE ScreensInv'
  <2>1. PICK s : s = [kind |-> kind, at |-> "days"]
    OBVIOUS
  <2>2. s \in SavesType /\ s.kind = kind /\ s.at = "days"
    BY <2>1 DEF SavesType
  <2>3. s # None
    BY <2>2, NoneIsNoSave DEF SavesType
  <2>4. /\ save = None /\ save' = s /\ UNCHANGED <<watched, started, punch, notice, pushes, entry>>
        /\ shownChanges' = IF ~Touches(watched, W!Saves[kind].first) THEN shownChanges
                           ELSE Append(shownChanges, kind)
        /\ kind = "savePolicy" /\ watched = "settings" => entry.data # None
    BY <1>1, <2>1 DEF W!BeginSave, W!Changed, Touches
  <2>5. Touches(watched, W!Saves[kind].first) => Follows(watched, kind)
    BY SavesFollow DEF ScreensInv
  <2>6. Awaits(watched, entry, save, punch, notice, pushes)
            => Awaits(watched, entry, s, punch, notice, pushes)
    BY <2>4 DEF Awaits
  <2>7. Follows(watched, kind) => \/ Awaits(watched, entry, s, punch, notice, pushes)
                                  \/ Missed(watched, kind)
                                  \/ watched = "settings" /\ kind = "savePolicy" /\ SavesPolicy(s)
    BY <2>2, <2>3 DEF Follows, Awaits, SavesPolicy
  <2>8. kind \in Makers /\ ~SavesPolicy(save) /\ (SavesPolicy(s) => kind = "savePolicy")
    BY <2>2, <2>4 DEF Makers, SavesPolicy
  <2>9. /\ started' \subseteq {"changeHoliday"} /\ (punch' # None => punch' \in 1..3)
        /\ pushes' \in Seq(Events)
    BY <2>4 DEF ScreensInv
  <2> QED BY <2>2, <2>4, <2>5, <2>6, <2>7, <2>8, <2>9, ServerStep
<1>2. ASSUME NEW kind \in DOMAIN W!Saves, W!ComputeLater(kind) PROVE ScreensInv'
  <2>1. kind = "changeHoliday"
    BY <1>2 DEF W!ComputeLater, ScreensInv
  <2>2. /\ UNCHANGED <<watched, save, punch, notice, pushes, entry>>
        /\ started' = started \ {kind}
        /\ shownChanges' = IF ~Touches(watched, W!Saves[kind].later) THEN shownChanges
                           ELSE Append(shownChanges, kind)
    BY <1>2 DEF W!ComputeLater, W!Changed, Touches
  <2>3. Touches(watched, W!Saves[kind].later) => Missed(watched, kind)
    BY <2>1, OnlyHolidaysLater DEF ScreensInv
  <2>4. kind \in Makers
    BY DEF Makers
  <2>5. /\ save' # None => save' \in SavesType
        /\ started' \subseteq {"changeHoliday"} /\ (punch' # None => punch' \in 1..3)
        /\ pushes' \in Seq(Events)
        /\ watched = "settings" /\ SavesPolicy(save') => entry.data # None
    BY <2>2 DEF ScreensInv
  <2> QED BY <2>2, <2>3, <2>4, <2>5, ServerStep
<1>3. ASSUME W!ComputeDays PROVE ScreensInv'
  <2>1. PICK kind \in DOMAIN W!Saves : kind = save.kind
    BY <1>3 DEF W!ComputeDays, ScreensInv, SavesType
  <2>2. PICK s : s = [save EXCEPT !.at = "answer"]
    OBVIOUS
  <2>3. save # None /\ save \in SavesType /\ save.at = "days"
    BY <1>3 DEF W!ComputeDays, ScreensInv
  <2>4. s \in SavesType /\ s.kind = kind /\ s.at = "answer"
    BY <2>1, <2>2, <2>3 DEF SavesType
  <2>5. s # None
    BY <2>4, NoneIsNoSave DEF SavesType
  <2>6. /\ save' = s /\ UNCHANGED <<watched, punch, notice, entry>>
        /\ pushes' = pushes \o W!Saves[kind].pushed
        /\ started' = IF W!Saves[kind].later = {} THEN started ELSE started \cup {kind}
        /\ shownChanges' = IF ~Touches(watched, W!Saves[kind].days) THEN shownChanges
                           ELSE Append(shownChanges, kind)
    BY <1>3, <2>1, <2>2 DEF W!ComputeDays, W!Changed, Touches
  <2>7. /\ pushes' \in Seq(Events)
        /\ Coming(watched, pushes') <=> Coming(watched, pushes) \/ Coming(watched, W!Saves[kind].pushed)
    <3>1. PICK ps \in Seq(Events) : ps = pushes
      BY DEF ScreensInv
    <3>2. PICK qs \in Seq(Events) : qs = W!Saves[kind].pushed
      BY PushedEvents
    <3>3. ps \o qs \in Seq(Events)
      BY <3>1, <3>2
    <3>4. Coming(watched, ps \o qs) <=> Coming(watched, ps) \/ Coming(watched, qs)
      BY ComingMore
    <3>5. pushes' = ps \o qs
      BY <2>6, <3>1, <3>2
    <3> QED BY <3>1, <3>2, <3>3, <3>4, <3>5
  <2>8. started' \subseteq {"changeHoliday"}
    BY <2>6, OnlyHolidaysLater DEF ScreensInv
  <2>9. Awaits(watched, entry, save, punch, notice, pushes)
            => Awaits(watched, entry, s, punch, notice, pushes')
    BY <2>1, <2>4, <2>5, <2>7 DEF Awaits
  <2>10. Follows(watched, kind) => \/ Awaits(watched, entry, s, punch, notice, pushes')
                                   \/ Missed(watched, kind)
                                   \/ watched = "settings" /\ kind = "savePolicy" /\ SavesPolicy(s)
    BY <2>4, <2>5, <2>7 DEF Follows, Awaits, SavesPolicy
  <2>11. Touches(watched, W!Saves[kind].days) => Follows(watched, kind)
    BY SavesFollow DEF ScreensInv
  <2>12. kind \in Makers /\ (SavesPolicy(s) <=> SavesPolicy(save))
    BY <2>1, <2>3, <2>4, <2>5 DEF Makers, SavesPolicy
  <2>13. /\ punch' # None => punch' \in 1..3
         /\ watched = "settings" /\ SavesPolicy(s) => entry.data # None
    BY <2>6, <2>12 DEF ScreensInv
  <2> QED BY <2>4, <2>6, <2>7, <2>8, <2>9, <2>10, <2>11, <2>12, <2>13, ServerStep
<1> QED BY <1>1, <1>2, <1>3

LEMMA PunchAndNoticeSteps ==
  ASSUME ScreensInv, W!Punched \/ W!PunchStep \/ W!Notify \/ W!PushNotice
  PROVE  ScreensInv'
<1>1. /\ UNCHANGED <<watched, save, started, entry>>
      /\ save' # None => save' \in SavesType
      /\ started' \subseteq {"changeHoliday"}
      /\ SavesPolicy(save) => SavesPolicy(save')
      /\ watched = "settings" /\ SavesPolicy(save') => entry.data # None
      /\ pushes \in Seq(Events) /\ (punch # None => punch \in 1..3)
  BY DEF W!Punched, W!PunchStep, W!Notify, W!PushNotice, ScreensInv
<1>2. {"punch", "days", "notice"} \subseteq Makers
  BY DEF Makers
<1>3. CASE W!Punched
  <2>1. /\ punch = None /\ punch' = 1 /\ UNCHANGED <<shownChanges, notice, pushes>>
    BY <1>3 DEF W!Punched
  <2>2. Awaits(watched, entry, save, punch, notice, pushes)
            => Awaits(watched, entry, save', punch', notice', pushes')
    BY <1>1, <2>1 DEF Awaits
  <2> QED BY <1>1, <1>2, <2>1, <2>2, ServerStep
<1>4. CASE W!PunchStep
  <2>1. /\ punch \in 1..3 /\ UNCHANGED notice
        /\ punch' = IF punch = 3 THEN None ELSE punch + 1
    BY <1>1, <1>4 DEF W!PunchStep, W!PunchSteps
  <2>2. CASE punch = 1
    <3>1. /\ punch' = 2 /\ pushes' = pushes
          /\ shownChanges' = IF ~Touches(watched, {"punches"}) THEN shownChanges
                             ELSE Append(shownChanges, "punch")
      BY <1>4, <2>1, <2>2 DEF W!PunchStep, W!PunchSteps, W!Changed, Touches
    <3>2. Awaits(watched, entry, save, punch, notice, pushes)
              => Awaits(watched, entry, save', punch', notice', pushes')
      BY <1>1, <2>1, <2>2, <3>1, NoneIsNoSave DEF Awaits
    <3>3. Touches(watched, {"punches"}) => Awaits(watched, entry, save', punch', notice', pushes')
      BY <3>1, Readers, NoneIsNoSave DEF Touches, Awaits, ScreensInv, W!Attendance
    <3> QED BY <1>1, <1>2, <2>1, <3>1, <3>2, <3>3, ServerStep
  <2>3. CASE punch = 2
    <3>1. /\ punch' = 3 /\ pushes' = Append(pushes, "record")
          /\ shownChanges' = IF ~Touches(watched, W!Days) THEN shownChanges
                             ELSE Append(shownChanges, "days")
      BY <1>4, <2>1, <2>3 DEF W!PunchStep, W!PunchSteps, W!Changed, Touches
    <3>2. /\ pushes' \in Seq(Events)
          /\ Coming(watched, pushes') <=> Coming(watched, pushes) \/ watched = "dashboard"
      BY <1>1, <3>1, ComingLast DEF Events, Heard
    <3>3. Awaits(watched, entry, save, punch, notice, pushes)
              => Awaits(watched, entry, save', punch', notice', pushes')
      BY <1>1, <2>1, <2>3, <3>1, <3>2, NoneIsNoSave DEF Awaits
    <3>4. Touches(watched, W!Days) => Awaits(watched, entry, save', punch', notice', pushes')
                                     \/ Missed(watched, "days")
      <4>1. "days" \in DOMAIN W!Overlooked /\ W!Overlooked["days"] = {"overtime", "report"}
        BY DEF W!Overlooked
      <4>2. Touches(watched, W!Days) => watched \in {"dashboard", "records", "report", "overtime"}
        BY Readers DEF Touches, W!Days, ScreensInv
      <4>3. watched \in {"overtime", "report"} => Missed(watched, "days")
        BY <4>1 DEF Missed
      <4>4. watched \in {"dashboard", "records"} => Awaits(watched, entry, save', punch', notice', pushes')
        BY <3>1, <3>2, NoneIsNoSave DEF Awaits, W!Attendance
      <4> QED BY <4>2, <4>3, <4>4
    <3> QED BY <1>1, <1>2, <2>1, <3>1, <3>2, <3>3, <3>4, ServerStep
  <2>4. CASE punch = 3
    <3>1. punch' = None /\ pushes' = Append(pushes, "event") /\ UNCHANGED shownChanges
      BY <1>4, <2>1, <2>4 DEF W!PunchStep, W!PunchSteps
    <3>2. /\ pushes' \in Seq(Events)
          /\ Coming(watched, pushes') <=> Coming(watched, pushes) \/ watched \in W!Attendance
      BY <1>1, <3>1, ComingLast DEF Events, Heard
    <3>3. Awaits(watched, entry, save, punch, notice, pushes)
              => Awaits(watched, entry, save', punch', notice', pushes')
      BY <1>1, <2>1, <2>4, <3>1, <3>2 DEF Awaits
    <3> QED BY <1>1, <1>2, <2>1, <3>1, <3>2, <3>3, ServerStep
  <2> QED BY <2>1, <2>2, <2>3, <2>4
<1>5. CASE W!Notify
  <2>1. /\ watched \in W!Notifications /\ notice' = "push" /\ UNCHANGED <<punch, pushes>>
        /\ shownChanges' = shownChanges \/ shownChanges' = Append(shownChanges, "notice")
    BY <1>5 DEF W!Notify, W!Changed
  <2>2. Awaits(watched, entry, save', punch', notice', pushes')
    BY <2>1 DEF Awaits
  <2> QED BY <1>1, <1>2, <2>1, <2>2, ServerStep
<1>6. CASE W!PushNotice
  <2>1. /\ notice = "push" /\ pushes' = Append(pushes, "notice") /\ UNCHANGED <<punch, shownChanges>>
    BY <1>6 DEF W!PushNotice
  <2>2. /\ pushes' \in Seq(Events)
        /\ Coming(watched, pushes') <=> Coming(watched, pushes) \/ watched \in W!Notifications
    BY <1>1, <2>1, ComingLast DEF Events, Heard
  <2>3. Awaits(watched, entry, save, punch, notice, pushes)
            => Awaits(watched, entry, save', punch', notice', pushes')
    BY <1>1, <2>1, <2>2 DEF Awaits
  <2> QED BY <1>1, <1>2, <2>1, <2>2, <2>3, ServerStep
<1> QED BY <1>3, <1>4, <1>5, <1>6

-----------------------------------------------------------------------------
(* The screens: a save is answered, a push delivered.                      *)

\* What is set is shown, beside what was.
LEMMA SetIs ==
  ASSUME NoneIsNoAnswer, NEW q, NEW e, Loads(q, e), e.data # None, NEW shown \in SUBSET Nat,
         NEW f \in EntryType, f.data = e.data \cup shown, f.open = e.open, f.fetch = e.fetch,
         f.answer = e.answer
  PROVE  /\ Loads(q, f) /\ f.data # None
         /\ \A i : Has(e, i) => Has(f, i)
         /\ e.fetch # "answered" => \A i \in shown : Has(f, i)
<1>1. f.data \in SUBSET Nat
  BY DEF Loads, EntryType
<1>2. f.data # None
  BY <1>1 DEF NoneIsNoAnswer
<1>3. Loads(q, f) /\ \A i : Has(e, i) => Has(f, i)
  BY <1>2 DEF Loads, Has
<1>4. e.fetch # "answered" => \A i \in shown : Has(f, i)
  BY DEF Has
<1> QED BY <1>2, <1>3, <1>4

LEMMA AnsweredStep ==
  ASSUME NoneIsNoAnswer, ScreensInv, W!Answered
  PROVE  ScreensInv'
<1>1. /\ save # None /\ save \in SavesType /\ save.at = "answer" /\ save' = None
      /\ UNCHANGED <<watched, shownChanges, started, punch, notice, pushes>>
      /\ Loads(watched, entry)
  BY DEF W!Answered, ScreensInv
<1>2. PICK kind \in DOMAIN W!Saves : kind = save.kind
  BY <1>1 DEF SavesType
<1>3. PICK e : e = IF kind = "savePolicy" /\ watched = "settings"
                   THEN W!Set(entry, W!Shown("savePolicy"), TRUE) ELSE entry
  OBVIOUS
<1>4. entry' = IF watched \in W!Saves[kind].refreshed THEN W!Invalidated(e) ELSE e
  BY <1>2, <1>3 DEF W!Answered, W!Refreshed
<1>5. DOMAIN shownChanges \in SUBSET Nat
  BY DEF ScreensInv
<1>6. /\ Loads(watched, e) /\ e.open = entry.open /\ e.fetch = entry.fetch
      /\ \A i : Has(entry, i) => Has(e, i)
  <2>1. CASE kind = "savePolicy" /\ watched = "settings"
    <3>1. entry.data # None
      BY <1>1, <1>2, <2>1 DEF ScreensInv, SavesPolicy
    <3>2. W!Shown("savePolicy") \in SUBSET Nat
      BY <1>5 DEF W!Shown
    <3>3. e = W!Set(entry, W!Shown("savePolicy"), TRUE)
      BY <1>3, <2>1
    <3>4. /\ e \in EntryType /\ e.data = entry.data \cup W!Shown("savePolicy") /\ e.open = entry.open
          /\ e.fetch = entry.fetch /\ e.answer = entry.answer
      BY <1>1, <3>1, <3>2, <3>3 DEF W!Set, Loads, EntryType
    <3> QED BY <1>1, <3>1, <3>2, <3>4, SetIs
  <2>2. CASE ~(kind = "savePolicy" /\ watched = "settings")
    BY <1>1, <1>3, <2>2
  <2> QED BY <2>1, <2>2
<1>7. Loads(watched, entry') /\ entry'.open = entry.open
  BY <1>4, <1>6, InvalidatedIs
<1>8. ASSUME entry.open
      PROVE  \/ Awaits(watched, entry', None, punch, notice, pushes)
             \/ \A i \in DOMAIN shownChanges : Known(watched, shownChanges[i], entry', None, i)
  <2>1. CASE watched \in W!Saves[kind].refreshed
    <3>1. entry'.fetch = "asked"
      BY <1>4, <1>6, <1>8, <2>1, InvalidatedIs
    <3> QED BY <3>1 DEF Awaits
  <2>2. CASE watched \notin W!Saves[kind].refreshed
    <3>1. entry' = e
      BY <1>4, <2>2
    <3>2. CASE Awaits(watched, entry, save, punch, notice, pushes)
      BY <1>1, <1>2, <1>6, <2>2, <3>1, <3>2 DEF Awaits
    <3>3. CASE \A i \in DOMAIN shownChanges : Known(watched, shownChanges[i], entry, save, i)
      <4> SUFFICES ASSUME NEW i \in DOMAIN shownChanges
                   PROVE  Known(watched, shownChanges[i], entry', None, i)
        OBVIOUS
      <4>1. CASE Missed(watched, shownChanges[i]) \/ Has(entry, i)
        BY <1>6, <3>1, <4>1 DEF Known
      <4>2. CASE watched = "settings" /\ shownChanges[i] = "savePolicy" /\ SavesPolicy(save)
        <5>1. kind = "savePolicy" /\ e = W!Set(entry, W!Shown("savePolicy"), TRUE)
          BY <1>2, <1>3, <4>2 DEF SavesPolicy
        <5>2. entry.data # None /\ entry.fetch # "answered"
          BY <4>2 DEF ScreensInv, Loads
        <5>3. W!Shown("savePolicy") \in SUBSET Nat /\ i \in W!Shown("savePolicy")
          BY <1>5, <4>2 DEF W!Shown
        <5>4. e.data = entry.data \cup W!Shown("savePolicy") /\ e.fetch # "answered"
          BY <1>1, <1>6, <5>1, <5>2 DEF W!Set, Loads, EntryType
        <5>5. Has(e, i)
          BY <5>3, <5>4 DEF Has
        <5> QED BY <3>1, <5>5 DEF Known
      <4> QED BY <3>3, <4>1, <4>2 DEF Known
    <3> QED BY <1>8, <3>2, <3>3 DEF ScreensInv
  <2> QED BY <2>1, <2>2
<1>9. ~SavesPolicy(None)
  BY DEF SavesPolicy
<1> QED BY <1>1, <1>7, <1>8, <1>9 DEF ScreensInv

LEMMA DeliverStep ==
  ASSUME NoneIsNoAnswer, ScreensInv, W!Deliver
  PROVE  ScreensInv'
<1>1. PICK event : event = Head(pushes)
  OBVIOUS
<1>2. /\ pushes \in Seq(Events) /\ pushes # <<>> /\ pushes' = Tail(pushes)
      /\ entry' = W!OnPush(entry, event)
      /\ UNCHANGED <<watched, shownChanges, save, started, punch, notice>>
      /\ Loads(watched, entry)
  BY <1>1 DEF W!Deliver, ScreensInv
<1>3. /\ event \in Events /\ pushes' \in Seq(Events)
      /\ Coming(watched, pushes) <=> Heard(watched, event) \/ Coming(watched, pushes')
  BY <1>1, <1>2, ComingFirst
\* It is asked again, or it shows at least what it did.
<1>4. /\ Loads(watched, entry') /\ entry'.open = entry.open
      /\ entry.data # None => entry'.data # None
      /\ Heard(watched, event) /\ entry.open => entry'.fetch = "asked"
      /\ \/ entry.open => entry'.fetch = "asked"
         \/ entry'.fetch = entry.fetch /\ \A i : Has(entry, i) => Has(entry', i)
  <2>1. CASE Heard(watched, event)
    <3>1. entry' = W!Invalidated(entry)
      <4>1. watched = "dashboard" => watched \notin W!Attendance
        BY DEF W!Attendance
      <4> QED BY <1>2, <1>3, <2>1, <4>1 DEF W!OnPush, W!EventCreated, W!Refreshed, Heard, Events
    <3> QED BY <1>2, <3>1, InvalidatedIs
  <2>2. CASE ~Heard(watched, event) /\ ~(event = "event" /\ watched = "dashboard" /\ entry.data # None)
    <3>1. entry' = entry
      BY <1>2, <1>3, <2>2 DEF W!OnPush, W!EventCreated, W!Refreshed, Heard, Events
    <3> QED BY <1>2, <2>2, <3>1
  <2>3. CASE ~Heard(watched, event) /\ event = "event" /\ watched = "dashboard" /\ entry.data # None
    <3>1. entry' = W!Set(entry, {}, entry.fresh)
      BY <1>2, <2>3 DEF W!OnPush, W!EventCreated
    <3>2. entry \in EntryType /\ entry.data \in SUBSET Nat
      BY <1>2, <2>3 DEF Loads, EntryType
    <3>3. /\ entry' \in EntryType /\ entry'.data = entry.data \cup {} /\ entry'.open = entry.open
          /\ entry'.fetch = entry.fetch /\ entry'.answer = entry.answer
      BY <3>1, <3>2 DEF W!Set, EntryType
    <3>4. {} \in SUBSET Nat
      OBVIOUS
    <3>5. PICK f : f = entry'
      OBVIOUS
    <3>6. Loads(watched, f) /\ f.data # None /\ \A i : Has(entry, i) => Has(f, i)
      BY <1>2, <2>3, <3>3, <3>4, <3>5, SetIs
    <3> QED BY <1>2, <2>3, <3>3, <3>5, <3>6
  <2> QED BY <2>1, <2>2, <2>3
<1>5. ASSUME entry'.open
      PROVE  \/ Awaits(watched, entry', save, punch, notice, pushes')
             \/ \A i \in DOMAIN shownChanges : Known(watched, shownChanges[i], entry', save, i)
  <2>1. CASE entry'.fetch = "asked"
    BY <2>1 DEF Awaits
  <2>2. CASE entry'.fetch # "asked"
    <3>1. ~Heard(watched, event) /\ entry'.fetch = entry.fetch /\ \A i : Has(entry, i) => Has(entry', i)
      BY <1>4, <1>5, <2>2
    <3>2. Awaits(watched, entry, save, punch, notice, pushes)
              => Awaits(watched, entry', save, punch, notice, pushes')
      BY <1>3, <3>1 DEF Awaits
    <3>3. \A i \in DOMAIN shownChanges : Known(watched, shownChanges[i], entry, save, i)
                                         => Known(watched, shownChanges[i], entry', save, i)
      BY <3>1 DEF Known
    <3> QED BY <1>4, <1>5, <3>2, <3>3 DEF ScreensInv
  <2> QED BY <2>1, <2>2
<1> QED BY <1>2, <1>3, <1>4, <1>5 DEF ScreensInv

\* While a screen is opened again only once its data is old, and a load that a save overtakes is one
\* the save asks again: as soon as nothing is under way, an open screen shows every change that was
\* saved, punched or notified, but for those each save is known to overlook (useRealtime, and the
\* onSuccess of every form).
THEOREM ScreensShowWhatWasSaved ==
  ASSUME ~QuickReturns, ~SlowLoads, NoneIsNoAnswer
  PROVE  SpecAll => []ScreensFollow
<1>1. InitAll => ScreensInv
  BY ScreensInit DEF InitAll
<1>2. ScreensInv /\ [NextAny]_allVars => ScreensInv'
  <2>1. CASE W!Next
    BY <2>1, QuerySteps, SaveSteps, AnsweredStep, PunchAndNoticeSteps, DeliverStep DEF W!Next
  <2>2. CASE UNCHANGED screens
    BY <2>2 DEF screens, ScreensInv
  <2>3. [NextAny]_allVars => W!Next \/ UNCHANGED screens
    BY DEF NextAny, allVars
  <2> QED BY <2>1, <2>2, <2>3
<1>3. ScreensInv => ScreensFollow
  <2> SUFFICES ASSUME ScreensInv, W!Quiet, entry.open, NEW i \in DOMAIN shownChanges
               PROVE  W!OverlooksIt(shownChanges[i]) \/ i \in entry.data
    BY DEF ScreensFollow, W!ScreensFollow
  <2>1. save = None /\ punch = None /\ notice = None /\ pushes = <<>> /\ entry.fetch = "none"
    BY DEF W!Quiet
  <2>2. ~Awaits(watched, entry, save, punch, notice, pushes)
    BY <2>1, Pushing, NoneIsNoSave DEF Awaits
  <2>3. Known(watched, shownChanges[i], entry, save, i)
    BY <2>2 DEF ScreensInv
  <2> QED BY <2>1, <2>3 DEF Known, Has, Missed, SavesPolicy, W!OverlooksIt
<1> QED BY <1>1, <1>2, <1>3, PTL DEF SpecAll
=============================================================================
