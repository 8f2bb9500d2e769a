---------------------------- MODULE AdapterProofs -----------------------------
(***************************************************************************)
(* What MCPlatform checks of the adapters of a small instance, proved of   *)
(* any: a live punch is pushed once, by the terminal of the row, the       *)
(* downloads of a ZKTeco terminal pass over no record, a digest session    *)
(* refuses only a wrong password, and the times terminals show are those   *)
(* of the punches.  As in PlatformProofs, an invariant is kept by the      *)
(* steps of its component (DeviceAdapters, ZkTerminal, DigestSession,      *)
(* DeviceReadings), and any other step of MCPlatform leaves its variables  *)
(* be.                                                                     *)
(***************************************************************************)
EXTENDS MCPlatform, TLAPS

-----------------------------------------------------------------------------
(* The adapters of a terminal.                                             *)

TerminalRow == [terminal : Terminals, version : Nat, enabled : BOOLEAN, deleted : BOOLEAN]
Adapter == [version : Nat, terminal : Terminals, connected : BOOLEAN, listeners : Nat]
Manager == [built : Seq(Adapter), cached : Nat \cup {None}, sub : Nat \cup {None}]

\* What a handler is at: with the row it read or wrote, or the adapter it was given.
Reading == [op : {"sync", "probe"}, at : {"lock", "adapt"}, row : TerminalRow]
Asking == [op : {"sync", "probe"}, at : {"begin", "connect", "info", "read"}, adapter : Nat,
           attempt : Nat]
Settling == [op : {"sync", "probe"}, at : {"settle"}, ok : BOOLEAN]
Starting == [op : {"start"}, at : {"stop"}, row : TerminalRow]
Listening == [op : {"start"}, at : {"connect"}, adapter : Nat]
Editing == [op : {"edit"}, row : TerminalRow]
Other == [op : {"idle", "remove"}]
Tasks == Reading \cup Asking \cup Settling \cup Starting \cup Listening \cup Editing \cup Other

Manages(job) == job.op \in {"probe", "edit", "remove", "start"}
Pends(job) == job.op \in {"edit", "remove"}

\* Of a manager, only the adapter whose subscription is kept is listened to, and once.
Sound(m) ==
    /\ m \in Manager
    /\ m.cached # None => m.cached \in 1..Len(m.built)
    /\ m.sub # None => m.sub \in 1..Len(m.built)
    /\ \A a \in 1..Len(m.built) : m.built[a].listeners = IF a = m.sub THEN 1 ELSE 0

\* x is what the row was at one of its versions: f tells the terminal of each.
Names(f, r, x) == x.version <= r.version /\ x.terminal = f[x.version]

\* Since it read the row, nobody moved the terminal, disabled or removed it.
Later(q, r) == q.terminal = r.terminal /\ (r.enabled => q.enabled) /\ (q.deleted => r.deleted)

Wanted(m, r) == m.sub # None => m.built[m.sub].terminal = r.terminal /\ r.enabled /\ ~r.deleted

Fits(job, m, r) ==
    /\ job \in Asking \cup Listening => job.adapter \in 1..Len(m.built)
    /\ job \in Starting \cup Editing => Later(r, job.row)
    /\ job \in Listening =>
          m.sub = None /\ m.built[job.adapter].terminal = r.terminal /\ r.enabled /\ ~r.deleted

\* The row a handler holds is one of those.
Recalls(f, r, job) == job \in Reading \cup Starting \cup Editing => Names(f, r, job.row)

\* What a manager has built, another one still has: at the same address, of the same version.
Extends(n, m) ==
    /\ Len(m.built) <= Len(n.built)
    /\ \A a \in 1..Len(m.built) : /\ n.built[a].version = m.built[a].version
                                  /\ n.built[a].terminal = m.built[a].terminal

Indices == Nat \cup {None}

LEMMA ManagerParts ==
  ASSUME NEW m \in Manager
  PROVE  m.built \in Seq(Adapter) /\ m.cached \in Indices /\ m.sub \in Indices
BY DEF Manager, Indices

LEMMA NoIndex == None \in Indices /\ \A n \in Nat : n \in Indices /\ n # None
BY NoneAssumption DEF Indices

LEMMA Built ==
  ASSUME NEW m, Sound(m)
  PROVE  /\ m \in Manager /\ m.built \in Seq(Adapter) /\ Len(m.built) \in Nat
         /\ \A a \in 1..Len(m.built) : m.built[a] \in Adapter /\ a \in Nat /\ a # None
         /\ m.cached \in Indices /\ m.sub \in Indices
         /\ m.cached # None => m.cached \in 1..Len(m.built)
         /\ m.sub # None => m.sub \in 1..Len(m.built)
<1>1. m \in Manager
  BY DEF Sound
<1>2. m.built \in Seq(Adapter) /\ m.cached \in Indices /\ m.sub \in Indices
  BY <1>1, ManagerParts
<1>3. \A a \in 1..Len(m.built) : m.built[a] \in Adapter /\ a \in Nat
  BY <1>2
<1> QED BY <1>1, <1>2, <1>3, NoIndex DEF Sound

\* One adapter changes in whether it is connected and how often it is listened to.
LEMMA OneAdapter ==
  ASSUME NEW bs \in Seq(Adapter), NEW a \in 1..Len(bs), NEW b \in Adapter,
         NEW cs, cs = [bs EXCEPT ![a] = b]
  PROVE  /\ cs \in Seq(Adapter) /\ Len(cs) = Len(bs) /\ cs[a] = b
         /\ \A d \in 1..Len(bs) \ {a} : cs[d] = bs[d]
OBVIOUS

\* The fields of an adapter that changes in one of them.
LEMMA AdapterFields ==
  ASSUME NEW b \in Adapter
  PROVE  /\ b.listeners \in Nat /\ b.version \in Nat /\ b.terminal \in Terminals
         /\ \A c \in BOOLEAN : LET d == [b EXCEPT !.connected = c] IN
               /\ d \in Adapter /\ d.version = b.version /\ d.terminal = b.terminal
               /\ d.listeners = b.listeners
         /\ \A k \in Nat : LET d == [b EXCEPT !.listeners = k] IN
               d \in Adapter /\ d.version = b.version /\ d.terminal = b.terminal /\ d.listeners = k
BY DEF Adapter

LEMMA StoppedSound ==
  ASSUME NEW m, Sound(m)
  PROVE  LET n == A!Stopped(m)
         IN  Sound(n) /\ Extends(n, m) /\ Len(n.built) = Len(m.built) /\ n.sub = None
             /\ n.cached = m.cached
<1>1. PICK n : n = A!Stopped(m)
  OBVIOUS
<1>2. /\ m \in Manager /\ m.built \in Seq(Adapter) /\ Len(m.built) \in Nat
      /\ m.cached \in Indices /\ m.sub \in Indices /\ None \in Indices
  BY Built, NoIndex
<1>3. CASE m.sub = None
  <2>1. n = [m EXCEPT !.sub = None, !.built = m.built]
    BY <1>1, <1>3 DEF A!Stopped
  <2>2. n \in Manager /\ n.built = m.built /\ n.cached = m.cached /\ n.sub = None
    BY <1>2, <2>1, NoIndex DEF Manager, Indices
  <2>3. Sound(n)
    BY <1>3, <2>2 DEF Sound
  <2> QED BY <1>1, <1>2, <2>2, <2>3 DEF Extends
<1>4. CASE m.sub # None
  <2>1. PICK a \in 1..Len(m.built) : a = m.sub
    BY <1>4 DEF Sound
  <2>2. m.built[a] \in Adapter /\ m.built[a].listeners = 1
    BY <2>1, Built DEF Sound
  <2>3. PICK b : b = [m.built[a] EXCEPT !.listeners = 0]
    OBVIOUS
  <2>4. /\ b \in Adapter /\ b.listeners = 0
        /\ b.version = m.built[a].version /\ b.terminal = m.built[a].terminal
    BY <2>2, <2>3, AdapterFields
  <2>5. PICK bs : bs = [m.built EXCEPT ![a] = b]
    OBVIOUS
  <2>6. /\ bs \in Seq(Adapter) /\ Len(bs) = Len(m.built) /\ bs[a] = b
        /\ \A d \in 1..Len(m.built) \ {a} : bs[d] = m.built[d]
    BY <1>2, <2>4, <2>5, OneAdapter
  <2>7. bs = [m.built EXCEPT ![m.sub].listeners = @ - 1]
    BY <2>1, <2>2, <2>3, <2>5
  <2>8. n = [m EXCEPT !.sub = None, !.built = bs]
    BY <1>1, <1>4, <2>7 DEF A!Stopped
  <2>9. n \in Manager /\ n.built = bs /\ n.cached = m.cached /\ n.sub = None
    BY <1>2, <2>6, <2>8, NoIndex DEF Manager, Indices
  <2>10. \A d \in 1..Len(bs) : bs[d].listeners = 0
    BY <2>1, <2>4, <2>6 DEF Sound
  <2>11. \A d \in 1..Len(bs) : d # None
    BY <2>6, Built
  <2>12. m.cached # None => m.cached \in 1..Len(bs)
    BY <2>6, Built
  <2>13. Sound(n)
    BY <2>9, <2>10, <2>11, <2>12 DEF Sound
  <2>14. Extends(n, m)
    BY <1>2, <2>4, <2>6, <2>9 DEF Extends
  <2> QED BY <1>1, <2>6, <2>9, <2>13, <2>14
<1> QED BY <1>3, <1>4

LEMMA DisconnectedSound ==
  ASSUME NEW m, Sound(m)
  PROVE  LET n == A!Disconnected(m)
         IN  Sound(n) /\ Extends(n, m) /\ Len(n.built) = Len(m.built) /\ n.sub = m.sub
             /\ n.cached = None
<1>1. PICK n : n = A!Disconnected(m)
  OBVIOUS
<1>2. /\ m \in Manager /\ m.built \in Seq(Adapter) /\ Len(m.built) \in Nat
      /\ m.cached \in Indices /\ m.sub \in Indices /\ None \in Indices
  BY Built, NoIndex
<1>3. CASE m.cached = None
  <2>1. n = [m EXCEPT !.cached = None, !.built = m.built]
    BY <1>1, <1>3 DEF A!Disconnected
  <2>2. n \in Manager /\ n.built = m.built /\ n.cached = None /\ n.sub = m.sub
    BY <1>2, <2>1, NoIndex DEF Manager, Indices
  <2>3. Sound(n)
    BY <2>2 DEF Sound
  <2> QED BY <1>1, <1>2, <2>2, <2>3 DEF Extends
<1>4. CASE m.cached # None
  <2>1. PICK a \in 1..Len(m.built) : a = m.cached
    BY <1>4 DEF Sound
  <2>2. m.built[a] \in Adapter
    BY Built
  <2>3. PICK b : b = [m.built[a] EXCEPT !.connected = FALSE]
    OBVIOUS
  <2>4. /\ b \in Adapter /\ b.listeners = m.built[a].listeners
        /\ b.version = m.built[a].version /\ b.terminal = m.built[a].terminal
    BY <2>2, <2>3, AdapterFields
  <2>5. PICK bs : bs = [m.built EXCEPT ![a] = b]
    OBVIOUS
  <2>6. /\ bs \in Seq(Adapter) /\ Len(bs) = Len(m.built) /\ bs[a] = b
        /\ \A d \in 1..Len(m.built) \ {a} : bs[d] = m.built[d]
    BY <1>2, <2>4, <2>5, OneAdapter
  <2>7. bs = [m.built EXCEPT ![m.cached].connected = FALSE]
    BY <2>1, <2>3, <2>5
  <2>8. n = [m EXCEPT !.cached = None, !.built = bs]
    BY <1>1, <1>4, <2>7 DEF A!Disconnected
  <2>9. n \in Manager /\ n.built = bs /\ n.cached = None /\ n.sub = m.sub
    BY <1>2, <2>6, <2>8, NoIndex DEF Manager, Indices
  <2>10. \A d \in 1..Len(bs) : bs[d].listeners = m.built[d].listeners
    BY <2>4, <2>6
  <2>11. Sound(n)
    BY <2>6, <2>9, <2>10 DEF Sound
  <2>12. Extends(n, m)
    BY <1>2, <2>4, <2>6, <2>9 DEF Extends
  <2> QED BY <1>1, <2>6, <2>9, <2>11, <2>12
<1> QED BY <1>3, <1>4
LEMMA ReleasedSound ==
  ASSUME NEW m, Sound(m)
  PROVE  LET n == A!Released(m)
         IN  Sound(n) /\ Extends(n, m) /\ Len(n.built) = Len(m.built) /\ n.sub = None
             /\ n.cached = None
<1>1. PICK k : k = A!Stopped(m)
  OBVIOUS
<1>2. Sound(k) /\ Extends(k, m) /\ Len(k.built) = Len(m.built) /\ k.sub = None
  BY <1>1, StoppedSound
<1>3. PICK n : n = A!Disconnected(k)
  OBVIOUS
<1>4. Sound(n) /\ Extends(n, k) /\ Len(n.built) = Len(k.built) /\ n.sub = None /\ n.cached = None
  BY <1>2, <1>3, DisconnectedSound
<1>5. Extends(n, m)
  BY <1>2, <1>4 DEF Extends
<1> QED BY <1>1, <1>2, <1>3, <1>4, <1>5 DEF A!Released

\* Every adapter built was built for a version the row has had.
Named(f, r, m) == Names(f, r, r) /\ \A a \in 1..Len(m.built) : Names(f, r, m.built[a])

LEMMA NamedStill ==
  ASSUME NEW m, Sound(m), NEW n, Sound(n), Extends(n, m), Len(n.built) = Len(m.built),
         NEW f, NEW r, Named(f, r, m)
  PROVE  Named(f, r, n)
<1>1. Len(m.built) \in Nat /\ Len(n.built) \in Nat
  BY Built
<1> QED BY <1>1 DEF Named, Names, Extends

\* The adapter given for a row is at its address, whatever was cached.
LEMMA AdapterForSound ==
  ASSUME NEW m, Sound(m), NEW f, NEW r, Named(f, r, m), NEW q \in TerminalRow, Names(f, r, q)
  PROVE  LET n == A!AdapterFor(m, q)
         IN  /\ Sound(n) /\ Extends(n, m) /\ Named(f, r, n) /\ n.sub \in {m.sub, None}
             /\ n.cached \in 1..Len(n.built) /\ n.built[n.cached].terminal = q.terminal
<1>1. PICK n : n = A!AdapterFor(m, q)
  OBVIOUS
<1>2. /\ m.built \in Seq(Adapter) /\ Len(m.built) \in Nat
      /\ m.cached # None => m.cached \in 1..Len(m.built)
  BY Built
<1>3. CASE A!IsCurrent(m, q)
  <2>1. n = m
    BY <1>1, <1>3 DEF A!AdapterFor
  <2>2. m.cached \in 1..Len(m.built) /\ m.built[m.cached].version = q.version
    BY <1>2, <1>3 DEF A!IsCurrent
  <2>3. m.built[m.cached].terminal = q.terminal
    BY <2>2 DEF Named, Names
  <2>4. Extends(m, m)
    BY <1>2 DEF Extends
  <2> QED BY <1>1, <2>1, <2>2, <2>3, <2>4
<1>4. CASE ~A!IsCurrent(m, q)
  <2>1. PICK k : k = IF m.cached = None THEN m ELSE A!Released(m)
    OBVIOUS
  <2>2. Sound(k) /\ Extends(k, m) /\ Len(k.built) = Len(m.built) /\ k.sub \in {m.sub, None}
    <3>1. Extends(m, m)
      BY <1>2 DEF Extends
    <3> QED BY <2>1, <3>1, ReleasedSound
  <2>3. Named(f, r, k)
    BY <2>2, NamedStill
  <2>4. PICK b : b = A!Built(q)
    OBVIOUS
  <2>5. b \in Adapter /\ b.version = q.version /\ b.terminal = q.terminal /\ b.listeners = 0
    BY <2>4 DEF A!Built, Adapter, TerminalRow
  <2>6. /\ k \in Manager /\ k.built \in Seq(Adapter) /\ Len(k.built) \in Nat /\ k.sub \in Indices
        /\ k.sub # None => k.sub \in 1..Len(k.built)
    BY <2>2, Built
  <2>7. PICK bs : bs = Append(k.built, b)
    OBVIOUS
  <2>8. /\ bs \in Seq(Adapter) /\ Len(bs) = Len(k.built) + 1 /\ bs[Len(k.built) + 1] = b
        /\ \A a \in 1..Len(k.built) : bs[a] = k.built[a]
    BY <2>5, <2>6, <2>7
  <2>9. PICK c \in Nat : c = Len(k.built) + 1
    BY <2>6
  <2>10. c \in Indices /\ c # None
    BY NoIndex
  <2>11. n = [k EXCEPT !.built = bs, !.cached = c]
    BY <1>1, <1>4, <2>1, <2>2, <2>4, <2>7, <2>9 DEF A!AdapterFor
  <2>12. n \in Manager /\ n.built = bs /\ n.cached = c /\ n.sub = k.sub
    BY <2>6, <2>8, <2>10, <2>11, NoIndex DEF Manager, Indices
  <2>13. n.cached \in 1..Len(n.built)
    BY <2>6, <2>8, <2>9, <2>12
  <2>14. \A a \in 1..Len(n.built) : n.built[a].listeners = IF a = n.sub THEN 1 ELSE 0
    <3> SUFFICES ASSUME NEW a \in 1..Len(n.built)
                 PROVE  n.built[a].listeners = IF a = n.sub THEN 1 ELSE 0
      OBVIOUS
    <3>1. CASE a \in 1..Len(k.built)
      BY <2>2, <2>8, <2>12, <3>1 DEF Sound
    <3>2. CASE a = c
      BY <2>5, <2>6, <2>8, <2>9, <2>10, <2>12, <3>2
    <3> QED BY <2>6, <2>8, <2>9, <2>12, <3>1, <3>2
  <2>15. n.sub # None => n.sub \in 1..Len(n.built)
    BY <2>6, <2>8, <2>12
  <2>16. Sound(n)
    BY <2>12, <2>13, <2>14, <2>15 DEF Sound
  <2>17. Extends(n, m)
    BY <1>2, <2>2, <2>8, <2>12 DEF Extends
  <2>18. Named(f, r, n)
    <3>1. Names(f, r, b)
      BY <2>5 DEF Names
    <3> QED BY <2>3, <2>6, <2>8, <2>9, <2>12, <3>1 DEF Named
  <2> QED BY <1>1, <2>2, <2>5, <2>8, <2>9, <2>12, <2>13, <2>16, <2>17, <2>18
<1> QED BY <1>3, <1>4

\* The listener of an adapter is added where no other is kept.
LEMMA SubscribedSound ==
  ASSUME NEW m, Sound(m), NEW a \in 1..Len(m.built), m.sub = None
  PROVE  LET n == A!Subscribed(m, a)
         IN  Sound(n) /\ Extends(n, m) /\ Len(n.built) = Len(m.built) /\ n.sub = a
<1>1. PICK n : n = A!Subscribed(m, a)
  OBVIOUS
<1>2. /\ m \in Manager /\ m.built \in Seq(Adapter) /\ Len(m.built) \in Nat
      /\ m.built[a] \in Adapter /\ a \in Indices /\ a # None
  BY Built, NoIndex
<1>3. m.built[a].listeners = 0
  BY <1>2 DEF Sound
<1>4. PICK b : b = [m.built[a] EXCEPT !.listeners = 1]
  OBVIOUS
<1>5. /\ b \in Adapter /\ b.listeners = 1
      /\ b.version = m.built[a].version /\ b.terminal = m.built[a].terminal
  <2>1. m.built[a] \in Adapter /\ 1 \in Nat
    BY <1>2
  <2> QED BY <1>4, <2>1, AdapterFields
<1>6. PICK bs : bs = [m.built EXCEPT ![a] = b]
  OBVIOUS
<1>7. /\ bs \in Seq(Adapter) /\ Len(bs) = Len(m.built) /\ bs[a] = b
      /\ \A d \in 1..Len(m.built) \ {a} : bs[d] = m.built[d]
  BY <1>2, <1>5, <1>6, OneAdapter
<1>8. n = [m EXCEPT !.built = bs, !.sub = a]
  BY <1>1, <1>3, <1>4, <1>6 DEF A!Subscribed
<1>9. n \in Manager /\ n.built = bs /\ n.cached = m.cached /\ n.sub = a
  BY <1>2, <1>7, <1>8, NoIndex DEF Manager, Indices
<1>10. \A d \in 1..Len(bs) : bs[d].listeners = IF d = a THEN 1 ELSE 0
  <2>1. \A d \in 1..Len(m.built) : m.built[d].listeners = 0
    <3>1. \A d \in 1..Len(m.built) : d # None
      BY Built
    <3> QED BY <3>1 DEF Sound
  <2> QED BY <1>5, <1>7, <2>1
<1>11. m.cached # None => m.cached \in 1..Len(bs)
  BY <1>7, Built
<1>12. Sound(n)
  BY <1>7, <1>9, <1>10, <1>11 DEF Sound
<1>13. Extends(n, m)
  BY <1>2, <1>5, <1>7, <1>9 DEF Extends
<1> QED BY <1>1, <1>7, <1>9, <1>12, <1>13

LEMMA ConnectedSound ==
  ASSUME NEW m, Sound(m), NEW a \in 1..Len(m.built), NEW connected \in BOOLEAN
  PROVE  LET n == A!Connected(m, a, connected)
         IN  Sound(n) /\ Extends(n, m) /\ Len(n.built) = Len(m.built) /\ n.sub = m.sub
             /\ n.cached = m.cached
<1>1. PICK n : n = A!Connected(m, a, connected)
  OBVIOUS
<1>2. /\ m \in Manager /\ m.built \in Seq(Adapter) /\ Len(m.built) \in Nat
      /\ m.built[a] \in Adapter /\ m.cached \in Indices /\ m.sub \in Indices
  BY Built
<1>3. PICK b : b = [m.built[a] EXCEPT !.connected = connected]
  OBVIOUS
<1>4. /\ b \in Adapter /\ b.listeners = m.built[a].listeners
      /\ b.version = m.built[a].version /\ b.terminal = m.built[a].terminal
  BY <1>2, <1>3, AdapterFields
<1>5. PICK bs : bs = [m.built EXCEPT ![a] = b]
  OBVIOUS
<1>6. /\ bs \in Seq(Adapter) /\ Len(bs) = Len(m.built) /\ bs[a] = b
      /\ \A d \in 1..Len(m.built) \ {a} : bs[d] = m.built[d]
  BY <1>2, <1>4, <1>5, OneAdapter
<1>7. n = [m EXCEPT !.built = bs]
  BY <1>1, <1>3, <1>5 DEF A!Connected
<1>8. n \in Manager /\ n.built = bs /\ n.cached = m.cached /\ n.sub = m.sub
  BY <1>2, <1>6, <1>7, NoIndex DEF Manager, Indices
<1>9. \A d \in 1..Len(bs) : bs[d].listeners = m.built[d].listeners
  BY <1>4, <1>6
<1>10. Sound(n)
  BY <1>6, <1>8, <1>9 DEF Sound
<1>11. Extends(n, m)
  BY <1>2, <1>4, <1>6, <1>8 DEF Extends
<1> QED BY <1>1, <1>6, <1>8, <1>10, <1>11
\* Every row in the hands of the handlers is one of those.
Recalled(f, r, js) == \A h \in Handlers : Recalls(f, r, js[h])

\* What f tells of the versions up to r, e tells up to q.
Outlives(f, r, e, q) == \A x \in TerminalRow : Names(f, r, x) => Names(e, q, x)

\* A handler goes on to listen, edit or remove only if it did, or nobody else does.
MayTake(job, js, h) ==
    Manages(job) => Manages(js[h]) \/ \A g \in Handlers : ~Manages(js[g])

AdapterInv ==
    /\ row \in TerminalRow /\ Sound(manager) /\ handling \in [Handlers -> Tasks]
    \* A version of the row is of one terminal, in whatever hands it is.
    /\ \E f \in [Nat -> Terminals] :
          /\ Named(f, row, manager)
          /\ Recalled(f, row, handling)
    \* Handlers that listen, edit or remove do not overlap; syncs come and go.
    /\ \A g, h \in Handlers : Manages(handling[g]) /\ Manages(handling[h]) => g = h
    /\ \A h \in Handlers : Fits(handling[h], manager, row)
    /\ (\A h \in Handlers : ~Pends(handling[h])) => Wanted(manager, row)

LEMMA TaskKinds ==
  /\ \A t \in Tasks : t.op \in {"sync", "probe"} /\ t.at \in {"lock", "adapt"} => t \in Reading
  /\ \A t \in Tasks : t.op \in {"sync", "probe"} /\ t.at \in {"begin", "connect", "info", "read"} =>
        t \in Asking
  /\ \A t \in Tasks : t.op \in {"sync", "probe"} /\ t.at = "settle" => t \in Settling
  /\ \A t \in Tasks : t.op = "start" /\ t.at = "stop" => t \in Starting
  /\ \A t \in Tasks : t.op = "start" /\ t.at = "connect" => t \in Listening
  /\ \A t \in Tasks : t.op = "edit" => t \in Editing
  /\ \A t \in Tasks : t \in Starting \cup Editing \cup Listening => Manages(t)
  /\ \A t \in Tasks : Pends(t) => Manages(t)
BY DEF Tasks, Reading, Asking, Settling, Starting, Listening, Editing, Other, Manages, Pends

LEMMA KindsApart ==
  /\ \A t \in Reading \cup Settling \cup Other : t \notin Asking \cup Listening \cup Starting \cup Editing
  /\ \A t \in Asking : t \notin Listening /\ t \notin Reading \cup Starting \cup Editing
  /\ \A t \in Listening : t \notin Reading \cup Starting \cup Editing /\ t \notin Asking
  /\ \A t \in Starting \cup Editing : t \notin Asking \cup Listening
  /\ \A t \in Settling \cup Other : t \notin Reading
BY DEF Reading, Asking, Settling, Starting, Listening, Editing, Other

\* What is built and read stays what the row was.
LEMMA RecallsStill ==
  ASSUME NEW t, NEW f, NEW r, NEW g, NEW q, Recalls(f, r, t),
         Outlives(f, r, g, q), t \in Tasks
  PROVE  Recalls(g, q, t)
<1>1. t \in Reading \cup Starting \cup Editing => t.row \in TerminalRow
  BY DEF Reading, Starting, Editing
<1> QED BY <1>1 DEF Recalls, Outlives

LEMMA FitsStill ==
  ASSUME NEW t \in Tasks, NEW m, NEW n, NEW r, NEW q, Sound(m), Sound(n), Fits(t, m, r),
         Extends(n, m),
         \/ ~Manages(t)
         \/ n.sub \in {m.sub, None} /\ Later(q, r)
  PROVE  Fits(t, n, q)
<1>1. Len(m.built) \in Nat /\ Len(n.built) \in Nat
  BY Built
<1>2. t \in Asking \cup Listening => t.adapter \in 1..Len(n.built)
  BY <1>1 DEF Fits, Extends
<1>3. t \in Starting \cup Editing => Later(q, t.row)
  BY TaskKinds DEF Fits, Later
<1>4. t \in Listening =>
         n.sub = None /\ n.built[t.adapter].terminal = q.terminal /\ q.enabled /\ ~q.deleted
  <2> SUFFICES ASSUME t \in Listening
               PROVE  n.sub = None /\ n.built[t.adapter].terminal = q.terminal /\ q.enabled
                      /\ ~q.deleted
    OBVIOUS
  <2>1. n.sub \in {m.sub, None} /\ Later(q, r)
    BY TaskKinds
  <2>2. /\ t.adapter \in 1..Len(m.built) /\ m.sub = None
        /\ m.built[t.adapter].terminal = r.terminal /\ r.enabled /\ ~r.deleted
    BY DEF Fits
  <2> QED BY <2>1, <2>2 DEF Extends, Later
<1> QED BY <1>2, <1>3, <1>4 DEF Fits

\* The row is written: its new version is of the terminal it now names.
LEMMA NewVersion ==
  ASSUME NEW r \in TerminalRow, NEW q \in TerminalRow, q.version = r.version + 1,
         NEW f \in [Nat -> Terminals], NEW m, Sound(m), Named(f, r, m)
  PROVE  \E g \in [Nat -> Terminals] :
            /\ Named(g, q, m)
            /\ Outlives(f, r, g, q)
            /\ Names(g, q, q)
<1>1. r.version \in Nat /\ q.version \in Nat /\ q.terminal \in Terminals
  BY DEF TerminalRow
<1>2. PICK g : g = [f EXCEPT ![q.version] = q.terminal]
  OBVIOUS
<1>3. g \in [Nat -> Terminals] /\ g[q.version] = q.terminal
      /\ \A k \in Nat : k <= r.version => g[k] = f[k]
  BY <1>1, <1>2
<1>4. Outlives(f, r, g, q)
  <2>1. \A x \in TerminalRow : x.version \in Nat
    BY DEF TerminalRow
  <2> QED BY <1>1, <1>3, <2>1 DEF Names, Outlives
<1>5. Names(g, q, q)
  BY <1>1, <1>3 DEF Names
<1>6. \A a \in 1..Len(m.built) : Names(g, q, m.built[a])
  <2>1. \A a \in 1..Len(m.built) : m.built[a].version \in Nat
    BY Built DEF Adapter
  <2>2. \A a \in 1..Len(m.built) : Names(f, r, m.built[a])
    BY DEF Named
  <2> QED BY <1>1, <1>3, <2>1, <2>2 DEF Names
<1> QED BY <1>3, <1>4, <1>5, <1>6 DEF Named

\* A subscription that was wanted stays wanted.
LEMMA WantedStill ==
  ASSUME NEW m, NEW n, NEW r, NEW q, Sound(m), Extends(n, m), Wanted(m, r),
         n.sub \in {m.sub, None}, Later(q, r)
  PROVE  Wanted(n, q)
<1>1. m.sub # None => m.sub \in 1..Len(m.built)
  BY Built
<1> QED BY <1>1 DEF Wanted, Later, Extends

\* One handler goes on to another task, with what the manager and the row become.
LEMMA OneTask ==
  ASSUME AdapterInv, NEW h \in Handlers, NEW t \in Tasks, NEW n, NEW q \in TerminalRow,
         handling' = [handling EXCEPT ![h] = t], manager' = n, row' = q,
         Sound(n), Extends(n, manager), Fits(t, n, q),
         NEW f \in [Nat -> Terminals], Recalled(f, row, handling),
         NEW e \in [Nat -> Terminals], Outlives(f, row, e, q),
         Named(e, q, n), Recalls(e, q, t),
         MayTake(t, handling, h),
         \/ \A g \in Handlers \ {h} : ~Manages(handling[g])
         \/ n.sub \in {manager.sub, None} /\ Later(q, row),
         (\A g \in Handlers : ~Pends(handling'[g])) => Wanted(n, q)
  PROVE  AdapterInv'
<1>1. handling \in [Handlers -> Tasks]
  BY DEF AdapterInv
<1>2. handling'[h] = t /\ \A g \in Handlers \ {h} : handling'[g] = handling[g]
  BY <1>1
<1>3. handling' \in [Handlers -> Tasks]
  BY <1>1
<1>4. \A g \in Handlers : Recalls(e, q, handling'[g])
  BY <1>1, <1>2, RecallsStill DEF Recalled
<1>5. \A g \in Handlers : Fits(handling'[g], n, q)
  <2>1. ASSUME NEW g \in Handlers \ {h}
        PROVE  Fits(handling[g], n, q)
    <3>1. handling[g] \in Tasks /\ Sound(manager) /\ Fits(handling[g], manager, row)
      BY <1>1 DEF AdapterInv
    <3>2. \/ ~Manages(handling[g])
          \/ n.sub \in {manager.sub, None} /\ Later(q, row)
      OBVIOUS
    <3> QED BY <3>1, <3>2, FitsStill
  <2> QED BY <1>2, <2>1
<1>6. \A g, k \in Handlers : Manages(handling'[g]) /\ Manages(handling'[k]) => g = k
  <2>1. \A g, k \in Handlers : Manages(handling[g]) /\ Manages(handling[k]) => g = k
    BY DEF AdapterInv
  <2> QED BY <1>2, <2>1 DEF MayTake
<1>7. \E d \in [Nat -> Terminals] : Named(d, q, n) /\ Recalled(d, q, handling')
  BY <1>4 DEF Recalled
<1>8. /\ row' \in TerminalRow /\ Sound(manager')
      /\ \E d \in [Nat -> Terminals] :
            /\ Named(d, row', manager')
            /\ Recalled(d, row', handling')
      /\ \A g \in Handlers : Fits(handling'[g], manager', row')
      /\ (\A g \in Handlers : ~Pends(handling'[g])) => Wanted(manager', row')
  BY <1>5, <1>7
<1> QED BY <1>3, <1>6, <1>8 DEF AdapterInv
\* A task that neither listens nor changes the row: the row keeps its terminal, and a
\* subscription may only end.
LEMMA OrdinaryTask ==
  ASSUME AdapterInv, NEW h \in Handlers, NEW t \in Tasks, NEW n, NEW q \in TerminalRow,
         handling' = [handling EXCEPT ![h] = t], manager' = n, row' = q,
         Sound(n), Extends(n, manager), n.sub \in {manager.sub, None}, Later(q, row), Fits(t, n, q),
         NEW f \in [Nat -> Terminals], Recalled(f, row, handling),
         NEW e \in [Nat -> Terminals], Outlives(f, row, e, q),
         Named(e, q, n), Recalls(e, q, t),
         MayTake(t, handling, h),
         ~Pends(handling[h])
  PROVE  AdapterInv'
<1>1. handling \in [Handlers -> Tasks] /\ Sound(manager)
      /\ ((\A g \in Handlers : ~Pends(handling[g])) => Wanted(manager, row))
  BY DEF AdapterInv
<1>2. \A g \in Handlers \ {h} : handling'[g] = handling[g]
  BY <1>1
<1>3. (\A g \in Handlers : ~Pends(handling'[g])) => Wanted(n, q)
  <2> SUFFICES ASSUME \A g \in Handlers : ~Pends(handling'[g])
               PROVE  Wanted(n, q)
    OBVIOUS
  <2>1. \A g \in Handlers : ~Pends(handling[g])
    BY <1>2
  <2>2. Wanted(manager, row)
    BY <1>1, <2>1
  <2> QED BY <1>1, <2>2, WantedStill
<1> QED BY <1>3, OneTask

\* The row as it is.
LEMMA SameRow ==
  ASSUME AdapterInv
  PROVE  /\ row \in TerminalRow /\ Later(row, row) /\ Sound(manager) /\ Extends(manager, manager)
         /\ handling \in [Handlers -> Tasks]
         /\ \E f \in [Nat -> Terminals] :
               /\ Named(f, row, manager) /\ Names(f, row, row)
               /\ Recalled(f, row, handling)
<1>1. Sound(manager) /\ row \in TerminalRow /\ handling \in [Handlers -> Tasks]
  BY DEF AdapterInv
<1>2. Len(manager.built) \in Nat
  BY <1>1, Built
<1> QED BY <1>1, <1>2 DEF AdapterInv, Extends, Later, Named

\* The row with a new version.
LEMMA NewRow ==
  ASSUME row \in TerminalRow, NEW r \in TerminalRow, NEW q, q = A!Updated(r)
  PROVE  /\ q \in TerminalRow /\ q.version = row.version + 1 /\ q.terminal = r.terminal
         /\ q.enabled = r.enabled /\ q.deleted = r.deleted
<1>1. PICK k : k = row.version + 1
  OBVIOUS
<1>2. k \in Nat
  BY <1>1 DEF TerminalRow
<1>3. q = [r EXCEPT !.version = k]
  BY <1>1 DEF A!Updated
<1> QED BY <1>1, <1>2, <1>3 DEF TerminalRow

LEMMA AloneManages ==
  ASSUME handling \in [Handlers -> Tasks], A!Alone, ~Overlaps
  PROVE  \A g \in Handlers : ~Manages(handling[g])
BY DEF A!Alone, A!Managing, Manages

\* A task begun with the row as it is.
LEMMA BeginTask ==
  ASSUME AdapterInv, NEW h \in Handlers, handling[h] = A!Idle,
         NEW t \in Reading \cup Starting, t.row = row, handling' = [handling EXCEPT ![h] = t],
         UNCHANGED <<manager, row>>,
         Manages(t) => \A g \in Handlers : ~Manages(handling[g])
  PROVE  AdapterInv'
<1>1. PICK f \in [Nat -> Terminals] :
          /\ Named(f, row, manager) /\ Names(f, row, row)
          /\ Recalled(f, row, handling)
  BY SameRow
<1>2. row \in TerminalRow /\ Later(row, row) /\ Sound(manager) /\ Extends(manager, manager)
  BY SameRow
<1>3. t \in Tasks
  BY DEF Tasks
<1>4. Fits(t, manager, row)
  BY <1>2, KindsApart DEF Fits
<1>5. Recalls(f, row, t)
  BY <1>1 DEF Recalls
<1>6. ~Pends(handling[h])
  BY DEF A!Idle, Pends
<1>7. PICK n, q : n = manager /\ q = row
  OBVIOUS
<1>8. /\ q \in TerminalRow /\ manager' = n /\ row' = q /\ Sound(n) /\ Extends(n, manager)
      /\ n.sub \in {manager.sub, None} /\ Later(q, row) /\ Fits(t, n, q)
      /\ Named(f, q, n) /\ Recalls(f, q, t) /\ Outlives(f, row, f, q)
  BY <1>1, <1>2, <1>4, <1>5, <1>7 DEF Outlives
<1>9. MayTake(t, handling, h)
  BY DEF MayTake
<1> QED BY <1>1, <1>3, <1>6, <1>8, <1>9, OrdinaryTask

LEMMA BeginSteps ==
  ASSUME ~Overlaps, AdapterInv, NEW h \in Handlers,
         A!BeginSync(h) \/ A!BeginProbe(h) \/ A!BeginStart(h)
  PROVE  AdapterInv'
<1>1. row \in TerminalRow /\ handling \in [Handlers -> Tasks]
  BY SameRow
<1>2. CASE A!BeginSync(h)
  <2>1. PICK t : t = [op |-> "sync", at |-> "lock", row |-> row]
    OBVIOUS
  <2>2. t \in Reading /\ t.row = row /\ ~Manages(t)
    BY <1>1, <2>1 DEF Reading, Manages
  <2>3. /\ handling[h] = A!Idle /\ handling' = [handling EXCEPT ![h] = t]
        /\ UNCHANGED <<manager, row>>
    BY <1>2, <2>1 DEF A!BeginSync, A!Begin, A!Job
  <2> QED BY <2>2, <2>3, BeginTask
<1>3. CASE A!BeginProbe(h)
  <2>1. PICK t : t = [op |-> "probe", at |-> "adapt", row |-> row]
    OBVIOUS
  <2>2. t \in Reading /\ t.row = row
    BY <1>1, <2>1 DEF Reading
  <2>3. /\ handling[h] = A!Idle /\ handling' = [handling EXCEPT ![h] = t]
        /\ UNCHANGED <<manager, row>> /\ A!Alone
    BY <1>3, <2>1 DEF A!BeginProbe, A!Begin, A!Job
  <2>4. \A g \in Handlers : ~Manages(handling[g])
    BY <1>1, <2>3, AloneManages
  <2> QED BY <2>2, <2>3, <2>4, BeginTask
<1>4. CASE A!BeginStart(h)
  <2>1. PICK t : t = [op |-> "start", at |-> "stop", row |-> row]
    OBVIOUS
  <2>2. t \in Starting /\ t.row = row
    BY <1>1, <2>1 DEF Starting
  <2>3. /\ handling[h] = A!Idle /\ handling' = [handling EXCEPT ![h] = t]
        /\ UNCHANGED <<manager, row>> /\ A!Alone
    BY <1>4, <2>1 DEF A!BeginStart, A!Begin, A!Job
  <2>4. \A g \in Handlers : ~Manages(handling[g])
    BY <1>1, <2>3, AloneManages
  <2> QED BY <2>2, <2>3, <2>4, BeginTask
<1> QED BY <1>2, <1>3, <1>4
\* The row is written by a handler that goes on with the row it read, with the new one, or with
\* none.
LEMMA WriteTask ==
  ASSUME AdapterInv, NEW h \in Handlers, ~Pends(handling[h]),
         NEW t \in Tasks, t \notin Asking \cup Listening, handling' = [handling EXCEPT ![h] = t],
         NEW q, q = A!Updated([row EXCEPT !.enabled = TRUE]), row' = q, UNCHANGED manager,
         t \in Starting \cup Editing => t.row = q,
         t \in Reading => handling[h] \in Reading /\ t.row = handling[h].row,
         Manages(t) => Manages(handling[h])
  PROVE  AdapterInv'
<1>1. /\ row \in TerminalRow /\ Sound(manager) /\ Extends(manager, manager)
      /\ handling \in [Handlers -> Tasks]
  BY SameRow
<1>2. PICK f \in [Nat -> Terminals] :
          /\ Named(f, row, manager) /\ Names(f, row, row)
          /\ Recalled(f, row, handling)
  BY SameRow
<1>3. PICK r : r = [row EXCEPT !.enabled = TRUE]
  OBVIOUS
<1>4. /\ r \in TerminalRow /\ r.terminal = row.terminal /\ r.enabled = TRUE
      /\ r.deleted = row.deleted
  BY <1>1, <1>3 DEF TerminalRow
<1>5. q = A!Updated(r)
  BY <1>3
<1>6. /\ q \in TerminalRow /\ q.version = row.version + 1
      /\ q.terminal = row.terminal /\ q.enabled = TRUE /\ q.deleted = row.deleted
  BY <1>1, <1>4, <1>5, NewRow
<1>7. Later(q, row) /\ Later(q, q)
  BY <1>6 DEF Later
<1>8. PICK e \in [Nat -> Terminals] :
          /\ Named(e, q, manager) /\ Names(e, q, q)
          /\ Outlives(f, row, e, q)
  BY <1>1, <1>2, <1>6, NewVersion
<1>9. Recalls(e, q, t)
  <2>1. CASE t \in Reading
    <3>1. handling[h] \in Reading /\ t.row = handling[h].row /\ t.row \in TerminalRow
      BY <2>1 DEF Reading
    <3>2. Names(f, row, t.row)
      BY <1>2, <3>1 DEF Recalls, Recalled
    <3> QED BY <1>8, <3>1, <3>2 DEF Recalls, Outlives
  <2>2. CASE t \in Starting \cup Editing
    BY <1>8, <2>2 DEF Recalls
  <2> QED BY <2>1, <2>2 DEF Recalls
<1>10. Fits(t, manager, q)
  BY <1>7 DEF Fits
<1>11. PICK n : n = manager
  OBVIOUS
<1>12. /\ manager' = n /\ Sound(n) /\ Extends(n, manager) /\ n.sub \in {manager.sub, None}
       /\ Fits(t, n, q) /\ Named(e, q, n)
  BY <1>1, <1>8, <1>10, <1>11
<1>13. Recalled(f, row, handling)
  BY <1>2
<1>14. Outlives(f, row, e, q)
  BY <1>8
<1>15. MayTake(t, handling, h)
  BY DEF MayTake
<1>16. q \in TerminalRow /\ Later(q, row) /\ row' = q
  BY <1>6, <1>7
<1> QED BY <1>9, <1>12, <1>13, <1>14, <1>15, <1>16, OrdinaryTask

\* What a handler goes on to while the row stays and the adapters keep what they were built for.
LEMMA QuietTask ==
  ASSUME AdapterInv, NEW h \in Handlers, ~Pends(handling[h]),
         NEW t \in Tasks, handling' = [handling EXCEPT ![h] = t],
         NEW n, manager' = n, Sound(n), Extends(n, manager), Len(n.built) = Len(manager.built),
         n.sub \in {manager.sub, None}, UNCHANGED row,
         t \in Asking => t.adapter \in 1..Len(n.built),
         t \in Asking \cup Settling \cup Other,
         Manages(t) => Manages(handling[h])
  PROVE  AdapterInv'
<1>1. PICK f \in [Nat -> Terminals] :
          /\ Named(f, row, manager) /\ Names(f, row, row)
          /\ Recalled(f, row, handling)
  BY SameRow
<1>2. row \in TerminalRow /\ Later(row, row) /\ Sound(manager)
  BY SameRow
<1>3. Named(f, row, n)
  BY <1>1, <1>2, NamedStill
<1>4. t \notin Listening /\ t \notin Starting \cup Editing /\ t \notin Reading
  BY KindsApart
<1>5. Fits(t, n, row) /\ Recalls(f, row, t)
  BY <1>4 DEF Fits, Recalls
<1>6. PICK q : q = row
  OBVIOUS
<1>7. /\ q \in TerminalRow /\ row' = q /\ Later(q, row) /\ Fits(t, n, q) /\ Named(f, q, n)
      /\ Recalls(f, q, t) /\ Outlives(f, row, f, q)
  BY <1>2, <1>3, <1>5, <1>6 DEF Outlives
<1>8. MayTake(t, handling, h)
  BY DEF MayTake
<1> QED BY <1>1, <1>7, <1>8, OrdinaryTask

LEMMA IdleTask == A!Idle \in Tasks /\ A!Idle \in Other /\ ~Manages(A!Idle)
BY DEF A!Idle, Tasks, Other, Manages

LEMMA LockStep ==
  ASSUME AdapterInv, NEW h \in Handlers, A!Lock(h)
  PROVE  AdapterInv'
<1>1. /\ row \in TerminalRow /\ Sound(manager) /\ Extends(manager, manager)
      /\ handling \in [Handlers -> Tasks]
  BY SameRow
<1>2. handling[h] \in Tasks /\ handling[h].op = "sync" /\ handling[h].at = "lock"
  BY <1>1 DEF A!Lock
<1>3. handling[h] \in Reading /\ ~Pends(handling[h])
  BY <1>2, TaskKinds DEF Pends
<1>4. CASE row.deleted \/ \E g \in A!Syncs : handling[g].at # "lock"
  <2>1. handling' = [handling EXCEPT ![h] = A!Idle] /\ UNCHANGED <<row, manager>>
    BY <1>4 DEF A!Lock, A!Job
  <2>2. A!Idle \notin Asking
    BY IdleTask, KindsApart
  <2> QED BY <1>1, <1>3, <2>1, <2>2, IdleTask, QuietTask
<1>5. CASE ~(row.deleted \/ \E g \in A!Syncs : handling[g].at # "lock")
  <2>1. PICK t : t = [handling[h] EXCEPT !.at = "adapt"]
    OBVIOUS
  <2>2. t \in Reading /\ t.op = "sync" /\ t.row = handling[h].row
    BY <1>2, <1>3, <2>1 DEF Reading
  <2>3. t \in Tasks /\ ~Manages(t) /\ t \notin Asking \cup Listening /\ t \notin Starting \cup Editing
    BY <2>2, KindsApart DEF Tasks, Manages
  <2>4. PICK q : q = A!Updated([row EXCEPT !.enabled = TRUE])
    OBVIOUS
  <2>5. /\ handling' = [handling EXCEPT ![h] = t] /\ row' = q /\ UNCHANGED manager
    BY <1>5, <2>1, <2>4 DEF A!Lock, A!Job
  <2> QED BY <1>3, <2>2, <2>3, <2>4, <2>5, WriteTask
<1> QED BY <1>4, <1>5

LEMMA SettleStep ==
  ASSUME AdapterInv, NEW h \in Handlers, A!Settle(h)
  PROVE  AdapterInv'
<1>1. /\ row \in TerminalRow /\ handling \in [Handlers -> Tasks]
  BY SameRow
<1>2. ~Pends(handling[h]) /\ (handling[h].op = "probe" => Manages(handling[h]))
  BY DEF A!Settle, Pends, Manages
<1>3. PICK r : r = [row EXCEPT !.enabled = TRUE]
  OBVIOUS
<1>4. r \in TerminalRow
  BY <1>1, <1>3 DEF TerminalRow
<1>5. PICK q : q = A!Updated(r)
  OBVIOUS
<1>6. q \in TerminalRow /\ q = A!Updated([row EXCEPT !.enabled = TRUE])
  BY <1>1, <1>3, <1>4, <1>5, NewRow
<1>7. row' = q /\ UNCHANGED manager
  BY <1>6 DEF A!Settle
<1>8. CASE handling[h].op = "probe" /\ handling[h].ok
  <2>1. PICK t : t = [op |-> "start", at |-> "stop", row |-> q]
    OBVIOUS
  <2>2. t \in Starting /\ t.row = q
    BY <1>6, <2>1 DEF Starting
  <2>3. t \in Tasks /\ t \notin Asking \cup Listening /\ t \notin Reading
    BY <2>2, KindsApart DEF Tasks
  <2>4. handling' = [handling EXCEPT ![h] = t]
    BY <1>7, <1>8, <2>1 DEF A!Settle, A!Job
  <2> QED BY <1>2, <1>6, <1>7, <1>8, <2>2, <2>3, <2>4, WriteTask
<1>9. CASE ~(handling[h].op = "probe" /\ handling[h].ok)
  <2>1. PICK t : t = A!Idle
    OBVIOUS
  <2>2. t \in Tasks /\ ~Manages(t) /\ t \notin Asking \cup Listening
        /\ t \notin Starting \cup Editing /\ t \notin Reading
    BY <2>1, IdleTask, KindsApart
  <2>3. handling' = [handling EXCEPT ![h] = t]
    BY <1>9, <2>1 DEF A!Settle, A!Job
  <2> QED BY <1>2, <1>6, <1>7, <2>2, <2>3, WriteTask
<1> QED BY <1>8, <1>9
LEMMA AdaptStep ==
  ASSUME AdapterInv, NEW h \in Handlers, A!Adapt(h)
  PROVE  AdapterInv'
<1>1. /\ row \in TerminalRow /\ Later(row, row) /\ Sound(manager)
      /\ handling \in [Handlers -> Tasks]
  BY SameRow
<1>2. PICK f \in [Nat -> Terminals] :
          /\ Named(f, row, manager) /\ Names(f, row, row)
          /\ Recalled(f, row, handling)
  BY SameRow
<1>3. /\ handling[h] \in Tasks /\ handling[h].op \in {"sync", "probe"} /\ handling[h].at = "adapt"
      /\ UNCHANGED row
  BY <1>1 DEF A!Adapt
<1>4. handling[h] \in Reading /\ ~Pends(handling[h])
  BY <1>3, TaskKinds DEF Pends
<1>5. PICK r : r = handling[h].row
  OBVIOUS
<1>6. r \in TerminalRow /\ Names(f, row, r)
  BY <1>2, <1>4, <1>5 DEF Reading, Recalls, Recalled
<1>7. PICK n : n = A!AdapterFor(manager, r)
  OBVIOUS
<1>8. /\ Sound(n) /\ Extends(n, manager) /\ Named(f, row, n) /\ n.sub \in {manager.sub, None}
      /\ n.cached \in 1..Len(n.built)
  BY <1>1, <1>2, <1>6, <1>7, AdapterForSound
<1>9. PICK t : t = [op |-> handling[h].op, at |-> "begin", adapter |-> n.cached, attempt |-> 1]
  OBVIOUS
<1>10. manager' = n /\ handling' = [handling EXCEPT ![h] = t]
  BY <1>5, <1>7, <1>9 DEF A!Adapt, A!Job
<1>11. t \in Asking /\ t.op = handling[h].op /\ t.adapter = n.cached
  <2>1. n.cached \in Nat
    BY <1>8, Built
  <2> QED BY <1>3, <1>9, <2>1 DEF Asking
<1>12. t \in Tasks /\ t \notin Listening /\ t \notin Reading \cup Starting \cup Editing
  BY <1>11, KindsApart DEF Tasks
<1>13. MayTake(t, handling, h)
  BY <1>11 DEF Manages, MayTake
<1>14. Fits(t, n, row) /\ Recalls(f, row, t)
  BY <1>8, <1>11, <1>12 DEF Fits, Recalls
<1>15. PICK q : q = row
  OBVIOUS
<1>16. /\ q \in TerminalRow /\ row' = q /\ Later(q, row) /\ Fits(t, n, q) /\ Named(f, q, n)
       /\ Recalls(f, q, t) /\ Outlives(f, row, f, q)
  BY <1>1, <1>3, <1>8, <1>14, <1>15 DEF Outlives
<1> QED BY <1>2, <1>4, <1>8, <1>10, <1>12, <1>13, <1>16, OrdinaryTask

\* Where a sync or a probe is after an answer or a failure.
GoesOn(t, s) ==
    /\ s.op = t.op
    /\ s \in Asking \cup Settling
    /\ s \in Asking => s.adapter = t.adapter

LEMMA GoesOnAfter ==
  ASSUME NEW t \in Asking, NEW retryable \in BOOLEAN
  PROVE  /\ GoesOn(t, A!AfterFailure(t, retryable))
         /\ t.at \in {"connect", "info", "read"} => GoesOn(t, A!AfterAnswer(t))
<1>1. /\ t.op \in {"sync", "probe"} /\ t.attempt + 1 \in Nat
      /\ t.at \in {"begin", "connect", "info", "read"}
  BY DEF Asking
<1>2. ASSUME NEW ok \in BOOLEAN, NEW s, s = [op |-> t.op, at |-> "settle", ok |-> ok]
      PROVE  GoesOn(t, s)
  <2>1. s \in Settling /\ s.op = t.op
    BY <1>1, <1>2 DEF Settling
  <2>2. s \notin Asking
    BY <2>1, KindsApart
  <2> QED BY <2>1, <2>2 DEF GoesOn
<1>3. ASSUME NEW again \in BOOLEAN
      PROVE  GoesOn(t, A!AfterFailure(t, again))
  <2>1. CASE again /\ t.op = "sync" /\ t.attempt < Attempts
    <3>1. A!AfterFailure(t, again) = [t EXCEPT !.at = "begin", !.attempt = t.attempt + 1]
      BY <2>1 DEF A!AfterFailure
    <3>2. PICK k \in Nat : k = t.attempt + 1
      BY <1>1
    <3>3. PICK s : s = [t EXCEPT !.at = "begin", !.attempt = k]
      OBVIOUS
    <3>4. s \in Asking /\ s.op = t.op /\ s.adapter = t.adapter
      BY <3>3 DEF Asking
    <3> QED BY <3>1, <3>2, <3>3, <3>4 DEF GoesOn
  <2>2. CASE ~(again /\ t.op = "sync" /\ t.attempt < Attempts)
    <3>1. A!AfterFailure(t, again) = [op |-> t.op, at |-> "settle", ok |-> FALSE]
      BY <2>2 DEF A!AfterFailure
    <3> QED BY <1>2, <3>1
  <2> QED BY <2>1, <2>2
<1>4. ASSUME NEW at \in {"info", "read"}
      PROVE  GoesOn(t, [t EXCEPT !.at = at])
  <2>1. PICK s : s = [t EXCEPT !.at = at]
    OBVIOUS
  <2>2. s \in Asking /\ s.op = t.op /\ s.adapter = t.adapter
    BY <2>1 DEF Asking
  <2> QED BY <2>1, <2>2 DEF GoesOn
<1>5. ASSUME t.at \in {"connect", "info", "read"}
      PROVE  GoesOn(t, A!AfterAnswer(t))
  <2>1. CASE t.at = "connect"
    <3>1. A!AfterAnswer(t) = [t EXCEPT !.at = "info"]
      BY <2>1 DEF A!AfterAnswer
    <3> QED BY <1>4, <3>1
  <2>2. CASE t.at = "info" /\ t.op = "sync" /\ manager.built[t.adapter].connected
    <3>1. A!AfterAnswer(t) = [t EXCEPT !.at = "read"]
      BY <2>2 DEF A!AfterAnswer
    <3> QED BY <1>4, <3>1
  <2>3. CASE t.at = "info" /\ t.op = "sync" /\ ~manager.built[t.adapter].connected
    <3>1. A!AfterAnswer(t) = A!AfterFailure(t, TRUE)
      BY <2>3 DEF A!AfterAnswer
    <3> QED BY <1>3, <3>1
  <2>4. CASE t.at # "connect" /\ ~(t.at = "info" /\ t.op = "sync")
    <3>1. A!AfterAnswer(t) = [op |-> t.op, at |-> "settle", ok |-> TRUE]
      BY <2>4 DEF A!AfterAnswer
    <3> QED BY <1>2, <3>1
  <2> QED BY <2>1, <2>2, <2>3, <2>4
<1> QED BY <1>3, <1>5

\* A sync or a probe that asked its adapter goes on.
LEMMA AskedTask ==
  ASSUME AdapterInv, NEW h \in Handlers, handling[h] \in Asking,
         NEW t, GoesOn(handling[h], t), handling' = [handling EXCEPT ![h] = t],
         NEW n, manager' = n, Sound(n), Extends(n, manager), Len(n.built) = Len(manager.built),
         n.sub = manager.sub, UNCHANGED row
  PROVE  AdapterInv'
<1>1. handling[h] \in Tasks /\ Fits(handling[h], manager, row)
  BY DEF AdapterInv
<1>2. t \in Asking => t.adapter \in 1..Len(n.built)
  BY <1>1 DEF GoesOn, Fits
<1>3. t \in Tasks /\ t \in Asking \cup Settling \cup Other
  BY DEF GoesOn, Tasks
<1>4. (Manages(t) => Manages(handling[h])) /\ ~Pends(handling[h])
  BY DEF GoesOn, Manages, Pends, Asking
<1>5. n.sub \in {manager.sub, None}
  OBVIOUS
<1> QED BY <1>2, <1>3, <1>4, <1>5, QuietTask

LEMMA BeginAttemptStep ==
  ASSUME AdapterInv, NEW h \in Handlers, A!BeginAttempt(h)
  PROVE  AdapterInv'
<1>1. Sound(manager) /\ Extends(manager, manager) /\ handling \in [Handlers -> Tasks]
  BY SameRow
<1>2. handling[h] \in Asking /\ UNCHANGED <<row, manager>>
  BY <1>1, TaskKinds DEF A!BeginAttempt
<1>3. PICK at \in {"info", "connect"} :
         at = IF manager.built[handling[h].adapter].connected THEN "info" ELSE "connect"
  OBVIOUS
<1>4. PICK t : t = [handling[h] EXCEPT !.at = at]
  OBVIOUS
<1>5. t \in Asking /\ t.op = handling[h].op /\ t.adapter = handling[h].adapter
  BY <1>2, <1>4 DEF Asking
<1>6. handling' = [handling EXCEPT ![h] = t]
  BY <1>3, <1>4 DEF A!BeginAttempt, A!Job
<1>7. GoesOn(handling[h], t)
  BY <1>5 DEF GoesOn
<1>8. PICK n : n = manager
  OBVIOUS
<1> QED BY <1>1, <1>2, <1>6, <1>7, <1>8, AskedTask

LEMMA CallStep ==
  ASSUME AdapterInv, NEW h \in Handlers, A!Call(h)
  PROVE  AdapterInv'
<1>1. Sound(manager) /\ Extends(manager, manager) /\ handling \in [Handlers -> Tasks]
  BY SameRow
<1>2. PICK job : job = handling[h]
  OBVIOUS
<1>3. job \in Asking /\ job.at \in {"connect", "info", "read"} /\ UNCHANGED row
  BY <1>1, <1>2, TaskKinds DEF A!Call
<1>4. job.adapter \in 1..Len(manager.built)
  BY <1>2, <1>3 DEF AdapterInv, Fits
<1>5. PICK o : o = A!Outcome(manager.built[job.adapter].terminal)
  OBVIOUS
<1>6. PICK t : t = IF o = "ok" THEN A!AfterAnswer(job) ELSE A!AfterFailure(job, o # "PROTOCOL")
  OBVIOUS
<1>7. handling' = [handling EXCEPT ![h] = t]
  BY <1>2, <1>5, <1>6 DEF A!Call, A!Job
<1>8. GoesOn(job, t)
  BY <1>3, <1>6, GoesOnAfter
<1>9. manager' = CASE o = "ok" /\ job.at = "connect" -> A!Connected(manager, job.adapter, TRUE)
                   [] o = "CONNECTION" -> A!Connected(manager, job.adapter, FALSE)
                   [] OTHER -> manager
  BY <1>2, <1>5 DEF A!Call
<1>10. PICK n : /\ n = manager \/ \E c \in BOOLEAN : n = A!Connected(manager, job.adapter, c)
                /\ manager' = n
  BY <1>9
<1>11. /\ Sound(n) /\ Extends(n, manager) /\ Len(n.built) = Len(manager.built)
       /\ n.sub = manager.sub
  BY <1>1, <1>4, <1>10, ConnectedSound
<1> QED BY <1>2, <1>3, <1>7, <1>8, <1>10, <1>11, AskedTask
\* A handler that goes on to listen, or that ends with the listening begun: no other listens,
\* edits or removes, and the row it read is still what the row says.
LEMMA ListeningTask ==
  ASSUME AdapterInv, NEW h \in Handlers, Manages(handling[h]), ~Pends(handling[h]),
         NEW t \in Tasks, t \in Listening \cup Other, ~Pends(t), handling' = [handling EXCEPT ![h] = t],
         NEW n, manager' = n, Sound(n), Extends(n, manager), UNCHANGED row, Fits(t, n, row),
         NEW f \in [Nat -> Terminals], Recalled(f, row, handling),
         Named(f, row, n), Wanted(n, row)
  PROVE  AdapterInv'
<1>1. row \in TerminalRow
  BY SameRow
<1>2. \A g \in Handlers \ {h} : ~Manages(handling[g])
  BY DEF AdapterInv
<1>3. Recalls(f, row, t)
  BY KindsApart DEF Recalls
<1>4. PICK q : q = row
  OBVIOUS
<1>5. /\ q \in TerminalRow /\ row' = q /\ Fits(t, n, q) /\ Named(f, q, n) /\ Recalls(f, q, t)
      /\ Outlives(f, row, f, q)
      /\ (\A g \in Handlers : ~Pends(handling'[g])) => Wanted(n, q)
  BY <1>1, <1>3, <1>4 DEF Outlives
<1>6. MayTake(t, handling, h)
  BY DEF MayTake
<1> QED BY <1>2, <1>5, <1>6, OneTask

LEMMA StartRealtimeStep ==
  ASSUME AdapterInv, NEW h \in Handlers, A!StartRealtime(h)
  PROVE  AdapterInv'
<1>1. row \in TerminalRow /\ Sound(manager) /\ handling \in [Handlers -> Tasks]
  BY SameRow
<1>2. PICK f \in [Nat -> Terminals] :
          /\ Named(f, row, manager) /\ Names(f, row, row)
          /\ Recalled(f, row, handling)
  BY SameRow
<1>3. /\ handling[h].op = "start" /\ handling[h] \in Starting /\ UNCHANGED row
  BY <1>1, TaskKinds DEF A!StartRealtime
<1>4. Manages(handling[h]) /\ ~Pends(handling[h])
  BY <1>3 DEF Manages, Pends
<1>5. PICK r : r = handling[h].row
  OBVIOUS
<1>6. /\ r \in TerminalRow /\ Names(f, row, r)
      /\ row.terminal = r.terminal /\ (r.enabled => row.enabled) /\ (row.deleted => r.deleted)
  <2>1. Fits(handling[h], manager, row)
    BY DEF AdapterInv
  <2> QED BY <1>2, <1>3, <1>5, <2>1 DEF Starting, Recalls, Recalled, Fits, Later
<1>7. PICK s : s = A!Stopped(manager)
  OBVIOUS
<1>8. /\ Sound(s) /\ Extends(s, manager) /\ Len(s.built) = Len(manager.built) /\ s.sub = None
      /\ Named(f, row, s)
  BY <1>1, <1>2, <1>7, StoppedSound, NamedStill
<1>9. CASE r.deleted \/ ~r.enabled
  <2>1. PICK t : t = A!Idle
    OBVIOUS
  <2>2. manager' = s /\ handling' = [handling EXCEPT ![h] = t]
    BY <1>5, <1>7, <1>9, <2>1 DEF A!StartRealtime, A!Job
  <2>3. t \in Tasks /\ t \in Listening \cup Other /\ ~Pends(t)
    BY <2>1, IdleTask DEF A!Idle, Pends
  <2>4. t \notin Asking \cup Listening /\ t \notin Starting \cup Editing
    BY <2>1, IdleTask, KindsApart
  <2>5. Fits(t, s, row) /\ Wanted(s, row)
    BY <1>8, <2>4 DEF Fits, Wanted
  <2> QED BY <1>2, <1>3, <1>4, <1>8, <2>2, <2>3, <2>5, ListeningTask
<1>10. CASE r.enabled /\ ~r.deleted
  <2>1. PICK m : m = A!AdapterFor(s, r)
    OBVIOUS
  <2>2. /\ Sound(m) /\ Extends(m, s) /\ Named(f, row, m) /\ m.sub = None
        /\ m.cached \in 1..Len(m.built) /\ m.built[m.cached].terminal = r.terminal
    BY <1>6, <1>8, <2>1, AdapterForSound
  <2>3. Extends(m, manager)
    BY <1>8, <2>2 DEF Extends
  <2>4. row.enabled /\ ~row.deleted /\ m.built[m.cached].terminal = row.terminal
    BY <1>6, <1>10, <2>2 DEF TerminalRow
  <2>5. CASE m.built[m.cached].connected
    <3>1. PICK t : t = A!Idle
      OBVIOUS
    <3>2. PICK n : n = A!Subscribed(m, m.cached)
      OBVIOUS
    <3>3. manager' = n /\ handling' = [handling EXCEPT ![h] = t]
      BY <1>5, <1>7, <1>10, <2>1, <2>5, <3>1, <3>2 DEF A!StartRealtime, A!Job
    <3>4. t \in Tasks /\ t \in Listening \cup Other /\ ~Pends(t)
      BY <3>1, IdleTask DEF A!Idle, Pends
    <3>5. t \notin Asking \cup Listening /\ t \notin Starting \cup Editing
      BY <3>1, IdleTask, KindsApart
    <3>6. Sound(n) /\ Extends(n, m) /\ Len(n.built) = Len(m.built) /\ n.sub = m.cached
      BY <2>2, <3>2, SubscribedSound
    <3>7. Named(f, row, n)
      BY <2>2, <3>6, NamedStill
    <3>8. Extends(n, manager)
      <4>1. Len(manager.built) \in Nat /\ Len(m.built) \in Nat /\ Len(n.built) \in Nat
        BY <1>1, <2>2, <3>6, Built
      <4> QED BY <2>3, <3>6, <4>1 DEF Extends
    <3>9. n.built[m.cached].terminal = row.terminal
      BY <2>2, <2>4, <3>6 DEF Extends
    <3>10. Fits(t, n, row) /\ Wanted(n, row)
      BY <2>4, <3>5, <3>6, <3>9 DEF Fits, Wanted
    <3> QED BY <1>2, <1>3, <1>4, <3>3, <3>4, <3>6, <3>7, <3>8, <3>10, ListeningTask
  <2>6. CASE ~m.built[m.cached].connected
    <3>1. PICK t : t = [op |-> "start", at |-> "connect", adapter |-> m.cached]
      OBVIOUS
    <3>2. manager' = m /\ handling' = [handling EXCEPT ![h] = t]
      BY <1>5, <1>7, <1>10, <2>1, <2>6, <3>1 DEF A!StartRealtime, A!Job
    <3>3. t \in Listening /\ t.adapter = m.cached /\ t.op = "start"
      <4>1. m.cached \in Nat
        BY <2>2, Built
      <4> QED BY <3>1, <4>1 DEF Listening
    <3>4. t \in Tasks /\ ~Pends(t) /\ t \notin Starting \cup Editing
      BY <3>3, KindsApart DEF Tasks, Pends
    <3>5. Fits(t, m, row) /\ Wanted(m, row)
      BY <2>2, <2>4, <3>3, <3>4 DEF Fits, Wanted
    <3> QED BY <1>2, <1>3, <1>4, <2>2, <2>3, <3>2, <3>3, <3>4, <3>5, ListeningTask
  <2> QED BY <2>5, <2>6
<1> QED BY <1>6, <1>9, <1>10 DEF TerminalRow

LEMMA ListenStep ==
  ASSUME AdapterInv, NEW h \in Handlers, A!Listen(h)
  PROVE  AdapterInv'
<1>1. row \in TerminalRow /\ Sound(manager) /\ handling \in [Handlers -> Tasks]
      /\ Extends(manager, manager)
  BY SameRow
<1>2. PICK f \in [Nat -> Terminals] :
          /\ Named(f, row, manager) /\ Names(f, row, row)
          /\ Recalled(f, row, handling)
  BY SameRow
<1>3. handling[h].op = "start" /\ handling[h] \in Listening /\ UNCHANGED row
  BY <1>1, TaskKinds DEF A!Listen
<1>4. Manages(handling[h]) /\ ~Pends(handling[h])
  BY <1>3 DEF Manages, Pends
<1>5. PICK a : a = handling[h].adapter
  OBVIOUS
<1>6. /\ a \in 1..Len(manager.built) /\ manager.sub = None
      /\ manager.built[a].terminal = row.terminal /\ row.enabled /\ ~row.deleted
  <2>1. Fits(handling[h], manager, row)
    BY DEF AdapterInv
  <2> QED BY <1>3, <1>5, <2>1 DEF Fits
<1>7. PICK t : t = A!Idle
  OBVIOUS
<1>8. handling' = [handling EXCEPT ![h] = t]
  BY <1>7 DEF A!Listen, A!Job
<1>9. t \in Tasks /\ t \in Listening \cup Other /\ ~Pends(t)
  BY <1>7, IdleTask DEF A!Idle, Pends
<1>10. t \notin Asking \cup Listening /\ t \notin Starting \cup Editing
  BY <1>7, IdleTask, KindsApart
<1>11. PICK o : o = A!Outcome(manager.built[a].terminal)
  OBVIOUS
<1>12. manager' = CASE o = "ok" -> A!Subscribed(A!Connected(manager, a, TRUE), a)
                    [] o = "CONNECTION" -> A!Connected(manager, a, FALSE)
                    [] OTHER -> manager
  BY <1>5, <1>11 DEF A!Listen
<1>13. CASE o = "ok"
  <2>1. PICK m : m = A!Connected(manager, a, TRUE)
    OBVIOUS
  <2>2. /\ Sound(m) /\ Extends(m, manager) /\ Len(m.built) = Len(manager.built) /\ m.sub = None
    BY <1>1, <1>6, <2>1, ConnectedSound
  <2>3. PICK n : n = A!Subscribed(m, a)
    OBVIOUS
  <2>4. Sound(n) /\ Extends(n, m) /\ Len(n.built) = Len(m.built) /\ n.sub = a
    BY <1>6, <2>2, <2>3, SubscribedSound
  <2>5. manager' = n
    BY <1>12, <1>13, <2>1, <2>3
  <2>6. Named(f, row, n)
    BY <1>1, <1>2, <2>2, <2>4, NamedStill
  <2>7. Extends(n, manager)
    BY <2>2, <2>4 DEF Extends
  <2>8. n.built[a].terminal = row.terminal
    BY <1>6, <2>7 DEF Extends
  <2>9. Fits(t, n, row) /\ Wanted(n, row)
    BY <1>6, <1>10, <2>4, <2>8 DEF Fits, Wanted
  <2> QED BY <1>2, <1>3, <1>4, <1>8, <1>9, <2>4, <2>5, <2>6, <2>7, <2>9, ListeningTask
<1>14. CASE o # "ok"
  <2>1. PICK n : /\ n = manager \/ n = A!Connected(manager, a, FALSE)
                 /\ manager' = n
    BY <1>12, <1>14
  <2>2. Sound(n) /\ Extends(n, manager) /\ Len(n.built) = Len(manager.built) /\ n.sub = None
    BY <1>1, <1>6, <2>1, ConnectedSound
  <2>3. Named(f, row, n)
    BY <1>1, <1>2, <2>2, NamedStill
  <2>4. Fits(t, n, row) /\ Wanted(n, row)
    BY <1>10, <2>2 DEF Fits, Wanted
  <2> QED BY <1>2, <1>3, <1>4, <1>8, <1>9, <2>1, <2>2, <2>3, <2>4, ListeningTask
<1> QED BY <1>13, <1>14

LEMMA ChangeStep ==
  ASSUME ~Overlaps, AdapterInv, NEW h \in Handlers, A!Change(h)
  PROVE  AdapterInv'
<1>1. /\ row \in TerminalRow /\ Sound(manager) /\ handling \in [Handlers -> Tasks]
      /\ Extends(manager, manager)
  BY SameRow
<1>2. PICK f \in [Nat -> Terminals] :
          /\ Named(f, row, manager) /\ Names(f, row, row)
          /\ Recalled(f, row, handling)
  BY SameRow
<1>3. \A g \in Handlers : ~Manages(handling[g])
  BY <1>1, AloneManages DEF A!Change
<1>4. \E r \in TerminalRow : \E q, t :
          /\ q = A!Updated(r) /\ row' = q /\ handling' = [handling EXCEPT ![h] = t]
          /\ t = [op |-> "edit", row |-> q] \/ t = [op |-> "remove"]
  <2>1. CASE \E a \in Terminals, enabled \in BOOLEAN :
                /\ row' = A!Updated([row EXCEPT !.terminal = a, !.enabled = enabled])
                /\ A!Job(h, [op |-> "edit", row |-> row'])
    <3>1. PICK a \in Terminals, enabled \in BOOLEAN :
                /\ row' = A!Updated([row EXCEPT !.terminal = a, !.enabled = enabled])
                /\ A!Job(h, [op |-> "edit", row |-> row'])
      BY <2>1
    <3>2. PICK r : r = [row EXCEPT !.terminal = a, !.enabled = enabled]
      OBVIOUS
    <3>3. r \in TerminalRow
      BY <1>1, <3>2 DEF TerminalRow
    <3>4. PICK q : q = A!Updated(r)
      OBVIOUS
    <3>5. row' = q
      BY <3>1, <3>2, <3>4
    <3>6. handling' = [handling EXCEPT ![h] = [op |-> "edit", row |-> q]]
      BY <3>1, <3>5 DEF A!Job
    <3> QED BY <3>3, <3>4, <3>5, <3>6
  <2>2. CASE /\ row' = A!Updated([row EXCEPT !.enabled = FALSE, !.deleted = TRUE])
             /\ A!Job(h, [op |-> "remove"])
    <3>1. PICK r : r = [row EXCEPT !.enabled = FALSE, !.deleted = TRUE]
      OBVIOUS
    <3>2. r \in TerminalRow
      BY <1>1, <3>1 DEF TerminalRow
    <3>3. PICK q : q = A!Updated(r)
      OBVIOUS
    <3>4. row' = q
      BY <2>2, <3>1, <3>3
    <3>5. handling' = [handling EXCEPT ![h] = [op |-> "remove"]]
      BY <2>2 DEF A!Job
    <3> QED BY <3>2, <3>3, <3>4, <3>5
  <2> QED BY <2>1, <2>2 DEF A!Change
<1> PICK r \in TerminalRow : \E q, t :
          /\ q = A!Updated(r) /\ row' = q /\ handling' = [handling EXCEPT ![h] = t]
          /\ t = [op |-> "edit", row |-> q] \/ t = [op |-> "remove"]
  BY <1>4
<1>5. PICK q, t :
          /\ q = A!Updated(r) /\ row' = q /\ handling' = [handling EXCEPT ![h] = t]
          /\ t = [op |-> "edit", row |-> q] \/ t = [op |-> "remove"]
  OBVIOUS
<1>6. q \in TerminalRow /\ q.version = row.version + 1
  BY <1>1, <1>5, NewRow
<1>7. PICK e \in [Nat -> Terminals] :
          /\ Named(e, q, manager) /\ Names(e, q, q)
          /\ Outlives(f, row, e, q)
  BY <1>1, <1>2, <1>6, NewVersion
<1>8. /\ t \in Editing \cup Other /\ t \in Tasks /\ Pends(t)
      /\ t \in Starting \cup Editing => t.row = q
      /\ t \notin Asking \cup Listening /\ t \notin Reading
  <2>1. CASE t = [op |-> "edit", row |-> q]
    <3>1. t \in Editing /\ t.row = q /\ t.op = "edit"
      BY <1>6, <2>1 DEF Editing
    <3>2. t \notin Asking \cup Listening /\ t \notin Reading
      BY <3>1, KindsApart
    <3> QED BY <3>1, <3>2 DEF Tasks, Pends
  <2>2. CASE t = [op |-> "remove"]
    <3>1. t \in Other /\ t.op = "remove"
      BY <2>2 DEF Other
    <3>2. t \notin Asking \cup Listening /\ t \notin Starting \cup Editing /\ t \notin Reading
      BY <3>1, KindsApart
    <3> QED BY <3>1, <3>2 DEF Tasks, Pends
  <2> QED BY <1>5, <2>1, <2>2
<1>9. Fits(t, manager, q) /\ Recalls(e, q, t)
  BY <1>7, <1>8 DEF Fits, Recalls, Later
<1>10. ~(\A g \in Handlers : ~Pends(handling'[g]))
  <2>1. handling'[h] = t
    BY <1>1, <1>5
  <2> QED BY <1>8, <2>1
<1>11. PICK n : n = manager
  OBVIOUS
<1>12. manager' = n /\ Sound(n) /\ Extends(n, manager) /\ Fits(t, n, q) /\ Named(e, q, n)
  BY <1>1, <1>7, <1>9, <1>11 DEF A!Change
<1>13. Recalled(f, row, handling)
  BY <1>2
<1>14. Outlives(f, row, e, q)
  BY <1>7
<1>15. MayTake(t, handling, h)
  BY <1>3 DEF MayTake
<1>16. row' = q /\ handling' = [handling EXCEPT ![h] = t] /\ t \in Tasks
  BY <1>5, <1>8
<1> QED BY <1>3, <1>6, <1>9, <1>10, <1>12, <1>13, <1>14, <1>15, <1>16, OneTask

LEMMA ReleaseChangedStep ==
  ASSUME AdapterInv, NEW h \in Handlers, A!ReleaseChanged(h)
  PROVE  AdapterInv'
<1>1. row \in TerminalRow /\ Sound(manager) /\ handling \in [Handlers -> Tasks]
  BY SameRow
<1>2. PICK f \in [Nat -> Terminals] :
          /\ Named(f, row, manager) /\ Names(f, row, row)
          /\ Recalled(f, row, handling)
  BY SameRow
<1>3. handling[h] \in Tasks /\ handling[h].op \in {"edit", "remove"} /\ UNCHANGED row
  BY <1>1 DEF A!ReleaseChanged
<1>4. Manages(handling[h])
  BY <1>3 DEF Manages
<1>5. PICK n : n = A!Released(manager)
  OBVIOUS
<1>6. /\ Sound(n) /\ Extends(n, manager) /\ Len(n.built) = Len(manager.built) /\ n.sub = None
      /\ manager' = n
  BY <1>1, <1>5, ReleasedSound DEF A!ReleaseChanged
<1>7. Named(f, row, n) /\ Wanted(n, row)
  BY <1>1, <1>2, <1>6, NamedStill DEF Wanted
<1>8. \A g \in Handlers \ {h} : ~Manages(handling[g])
  BY <1>4 DEF AdapterInv
<1>9. PICK q : q = row
  OBVIOUS
<1>10. /\ q \in TerminalRow /\ row' = q /\ Named(f, q, n) /\ Wanted(n, q)
       /\ Outlives(f, row, f, q)
  BY <1>1, <1>3, <1>7, <1>9 DEF Outlives
<1>11. CASE handling[h].op = "remove"
  <2>1. PICK t : t = A!Idle
    OBVIOUS
  <2>2. t \in Tasks /\ ~Manages(t) /\ t \notin Asking \cup Listening
        /\ t \notin Starting \cup Editing /\ t \notin Reading
    BY <2>1, IdleTask, KindsApart
  <2>3. Fits(t, n, q) /\ Recalls(f, q, t)
    BY <2>2 DEF Fits, Recalls
  <2>4. handling' = [handling EXCEPT ![h] = t]
    BY <1>11, <2>1 DEF A!ReleaseChanged, A!Job
  <2>5. MayTake(t, handling, h)
    BY <1>4 DEF MayTake
  <2> QED BY <1>2, <1>6, <1>8, <1>10, <2>2, <2>3, <2>4, <2>5, OneTask
<1>12. CASE handling[h].op = "edit"
  <2>1. handling[h] \in Editing
    BY <1>3, <1>12, TaskKinds
  <2>2. PICK r : r = handling[h].row
    OBVIOUS
  <2>3. r \in TerminalRow /\ Later(row, r) /\ Names(f, row, r)
    <3>1. Fits(handling[h], manager, row)
      BY DEF AdapterInv
    <3> QED BY <1>2, <2>1, <2>2, <3>1 DEF Editing, Recalls, Recalled, Fits
  <2>4. PICK t : t = [op |-> "start", at |-> "stop", row |-> r]
    OBVIOUS
  <2>5. t \in Starting /\ t.row = r
    BY <2>3, <2>4 DEF Starting
  <2>6. t \in Tasks /\ t \notin Asking \cup Listening
    BY <2>5, KindsApart DEF Tasks
  <2>7. Fits(t, n, q) /\ Recalls(f, q, t)
    BY <1>9, <2>3, <2>5, <2>6 DEF Fits, Recalls
  <2>8. handling' = [handling EXCEPT ![h] = t]
    BY <1>12, <2>2, <2>4 DEF A!ReleaseChanged, A!Job
  <2>9. MayTake(t, handling, h)
    BY <1>4 DEF MayTake
  <2> QED BY <1>2, <1>6, <1>8, <1>10, <2>6, <2>7, <2>8, <2>9, OneTask
<1> QED BY <1>3, <1>11, <1>12

LEMMA AdapterInit == A!Init => AdapterInv
<1> SUFFICES ASSUME A!Init PROVE AdapterInv
  OBVIOUS
<1>1. PICK a \in Terminals :
          row = [terminal |-> a, version |-> 1, enabled |-> TRUE, deleted |-> FALSE]
  BY DEF A!Init
<1>2. row \in TerminalRow /\ row.terminal = a /\ row.version = 1
  BY <1>1 DEF TerminalRow
<1>3. /\ manager \in Manager /\ manager.built = <<>> /\ manager.cached = None
      /\ manager.sub = None
  BY DEF A!Init, Manager
<1>4. Sound(manager)
  BY <1>3 DEF Sound
<1>5. handling = [h \in Handlers |-> A!Idle]
  BY DEF A!Init
<1>6. \A h \in Handlers : handling[h] \in Tasks /\ handling[h] \in Other /\ ~Manages(handling[h])
  BY <1>5, IdleTask
<1>7. PICK f : f = [k \in Nat |-> a]
  OBVIOUS
<1>8. f \in [Nat -> Terminals] /\ Named(f, row, manager)
  BY <1>2, <1>3, <1>7 DEF Named, Names
<1>9. Recalled(f, row, handling) /\ \A h \in Handlers : Fits(handling[h], manager, row)
  BY <1>6, KindsApart DEF Recalled, Recalls, Fits
<1>10. Wanted(manager, row)
  BY <1>3 DEF Wanted
<1>11. handling \in [Handlers -> Tasks]
  BY <1>5, IdleTask
<1> QED BY <1>2, <1>4, <1>6, <1>8, <1>9, <1>10, <1>11 DEF AdapterInv

LEMMA AdapterAlone == AdapterInv /\ UNCHANGED adapters => AdapterInv'
<1> SUFFICES ASSUME AdapterInv, UNCHANGED adapters PROVE AdapterInv'
  OBVIOUS
<1>1. row' = row /\ manager' = manager /\ handling' = handling
  BY DEF adapters
<1> QED BY <1>1 DEF AdapterInv

LEMMA AdapterStep == ~Overlaps /\ AdapterInv /\ A!Next => AdapterInv'
<1> SUFFICES ASSUME ~Overlaps, AdapterInv, A!Next PROVE AdapterInv'
  OBVIOUS
<1>1. ASSUME NEW h \in Handlers, A!Handle(h) PROVE AdapterInv'
  BY <1>1, BeginSteps, LockStep, AdaptStep, BeginAttemptStep, CallStep, SettleStep,
     StartRealtimeStep, ListenStep, ChangeStep, ReleaseChangedStep DEF A!Handle
<1>2. ASSUME NEW t \in Terminals, A!SetTerminal(t) PROVE AdapterInv'
  <2>1. row' = row /\ manager' = manager /\ handling' = handling
    BY <1>2 DEF A!SetTerminal
  <2> QED BY <2>1 DEF AdapterInv
<1> QED BY <1>1, <1>2 DEF A!Next

LEMMA PushesFollow == AdapterInv => PushesAreWanted
<1> SUFFICES ASSUME AdapterInv, \A h \in Handlers : handling[h].op \notin {"edit", "remove"},
                    NEW a \in A!Pushing
             PROVE  /\ A!Pushing = {a} /\ manager.built[a].listeners = 1
                    /\ manager.built[a].terminal = row.terminal /\ row.enabled /\ ~row.deleted
  BY DEF PushesAreWanted, A!PushesAreWanted
<1>1. Sound(manager) /\ Wanted(manager, row)
  BY DEF AdapterInv, Pends
<1>2. DOMAIN manager.built = 1..Len(manager.built)
  BY <1>1, Built
<1>3. \A b \in A!Pushing : b = manager.sub /\ manager.built[b].listeners = 1 /\ b # None
  <2> SUFFICES ASSUME NEW b \in A!Pushing
               PROVE  b = manager.sub /\ manager.built[b].listeners = 1 /\ b # None
    OBVIOUS
  <2>1. b \in 1..Len(manager.built) /\ manager.built[b].listeners > 0
    BY <1>2 DEF A!Pushing
  <2>2. manager.built[b].listeners = IF b = manager.sub THEN 1 ELSE 0
    BY <1>1, <2>1 DEF Sound
  <2> QED BY <1>1, <2>1, <2>2, Built
<1>4. A!Pushing = {a}
  BY <1>3
<1> QED BY <1>1, <1>3, <1>4 DEF Wanted

\* While probes, edits and removals follow one another: whatever syncs go on besides, with
\* whatever faults of the terminal, a live punch is pushed once and only by the terminal the row
\* names, and no replaced adapter keeps a listener (release, stopRealtime, startRealtime).
THEOREM OnePushPerPunch ==
  ASSUME ~Overlaps
  PROVE  Spec => []PushesAreWanted
<1>1. Init => AdapterInv
  BY AdapterInit DEF Init
<1>2. AdapterInv /\ [Next]_vars => AdapterInv'
  BY AdapterStep, AdapterAlone DEF Next, vars
<1>3. AdapterInv => PushesAreWanted
  BY PushesFollow
<1> QED BY <1>1, <1>2, <1>3, PTL DEF Spec

-----------------------------------------------------------------------------
(* The downloads of a ZKTeco terminal.                                     *)

\* Records as the terminal numbers them, none left out.
Consecutive(s) == s \in Seq(Nat) /\ \A i \in 1..Len(s) : s[i] = s[1] + i - 1

\* The first record of t is the one after the last of s.
Continues(s, t) == t[1] = s[Len(s)] + 1

Packets ==
    [kind : {"PREPARE_DATA"}, data : Nat] \cup [kind : {"DATA"}, data : Seq(Nat)] \cup {Z!Ack}

\* Packets with data hold consecutive records, and one that follows another continues it.
Wired(w) ==
    /\ w \in Seq(Packets)
    /\ \A i \in 1..Len(w) : w[i].kind = "DATA" => Consecutive(w[i].data) /\ w[i].data # <<>>
    /\ \A i \in 1..(Len(w) - 1) :
          w[i].kind = "DATA" /\ w[i + 1].kind = "DATA" => Continues(w[i].data, w[i + 1].data)

Begun == [size : Nat, data : Seq(Nat), at : {"data", "trailer"}]
Commands == [name : {"option", "sizes", "log"}, attempt : Nat, sent : BOOLEAN,
             reading : Begun \cup {None}]
Tries == [n : Nat, at : {"start", "info"}, left : SUBSET Z!Info]

\* No command has read anything.
Unread(q) == \A i \in 1..Len(q) : q[i].reading = None

\* What the command under way has read is consecutive, and goes on with the next packet.
Reads(q, w) ==
    /\ \A i \in 1..Len(q) : i > 1 => q[i].reading = None
    /\ q # <<>> /\ q[1].reading # None =>
          /\ Consecutive(q[1].reading.data)
          /\ q[1].reading.data # <<>> /\ w # <<>> /\ w[1].kind = "DATA" =>
                Continues(q[1].reading.data, w[1].data)

\* Everything up to the cursor has been returned.
Returned(c, g) ==
    c # None =>
        /\ c.count \in Nat
        /\ c.count > 0 => c.print \in Nat
        /\ \A k \in 1..c.count : c.print - c.count + k \in g

ZkInv ==
    /\ made \in Nat /\ Consecutive(memory)
    /\ memory # <<>> => memory[Len(memory)] = made
    /\ Wired(wire)
    /\ queue \in Seq(Commands)
    /\ attempt # None => attempt \in Tries
    /\ Reads(queue, wire)
    /\ Returned(cursor, got)

LEMMA Joined ==
  ASSUME NEW s, NEW t, Consecutive(s), Consecutive(t), t # <<>>, s # <<>> => Continues(s, t)
  PROVE  Consecutive(s \o t) /\ s \o t # <<>> /\ (s \o t)[Len(s \o t)] = t[Len(t)]
<1>1. s \in Seq(Nat) /\ t \in Seq(Nat) /\ s \o t \in Seq(Nat) /\ Len(s \o t) = Len(s) + Len(t)
      /\ Len(s) \in Nat /\ Len(t) \in Nat /\ Len(t) > 0
  BY DEF Consecutive
<1>2. \A i \in 1..Len(s \o t) : (s \o t)[i] = IF i <= Len(s) THEN s[i] ELSE t[i - Len(s)]
  BY <1>1
<1>3. CASE s = <<>>
  BY <1>1, <1>2, <1>3 DEF Consecutive
<1>4. CASE s # <<>>
  <2>1. Len(s) > 0 /\ t[1] = s[Len(s)] + 1 /\ s[Len(s)] = s[1] + Len(s) - 1 /\ s[1] \in Nat
    BY <1>1, <1>4 DEF Consecutive, Continues
  <2>2. ASSUME NEW i \in 1..Len(s \o t) PROVE (s \o t)[i] = s[1] + i - 1
    <3>1. CASE i <= Len(s)
      <4>1. (s \o t)[i] = s[i] /\ i \in 1..Len(s)
        BY <1>1, <1>2, <3>1
      <4> QED BY <4>1 DEF Consecutive
    <3>2. CASE i > Len(s)
      <4>1. (s \o t)[i] = t[i - Len(s)] /\ i - Len(s) \in 1..Len(t) /\ i \in Nat
        BY <1>1, <1>2, <3>2
      <4>2. t[i - Len(s)] = t[1] + (i - Len(s)) - 1
        BY <4>1 DEF Consecutive
      <4>3. t[1] = s[1] + Len(s)
        BY <1>1, <2>1
      <4>4. (s \o t)[i] = (s[1] + Len(s)) + (i - Len(s)) - 1
        BY <4>1, <4>2, <4>3
      <4>5. (s[1] + Len(s)) + (i - Len(s)) - 1 = s[1] + i - 1
        <5>1. \A a, n, k \in Int : (a + n) + (k - n) - 1 = a + k - 1
          OBVIOUS
        <5>2. s[1] \in Int /\ Len(s) \in Int /\ i \in Int
          BY <1>1, <2>1, <4>1
        <5> QED BY <5>1, <5>2
      <4> QED BY <4>4, <4>5
    <3> QED BY <1>1, <3>1, <3>2
  <2>3. (s \o t)[1] = s[1]
    BY <1>1, <1>2, <2>1
  <2> QED BY <1>1, <1>2, <2>2, <2>3 DEF Consecutive
<1> QED BY <1>3, <1>4

LEMMA Part ==
  ASSUME NEW s, Consecutive(s), NEW m \in Nat, NEW n \in Nat, 1 <= m, m <= n, n <= Len(s)
  PROVE  LET t == SubSeq(s, m, n) IN
         /\ Consecutive(t) /\ t # <<>> /\ Len(t) = n - m + 1
         /\ \A i \in 1..Len(t) : t[i] = s[m + i - 1]
         /\ t[1] = s[m] /\ t[Len(t)] = s[n]
<1>1. s \in Seq(Nat) /\ Len(s) \in Nat /\ \A i \in 1..Len(s) : s[i] = s[1] + i - 1
  BY DEF Consecutive
<1>2. PICK t : t = SubSeq(s, m, n)
  OBVIOUS
<1>3. t \in Seq(Nat) /\ Len(t) = n - m + 1 /\ \A i \in 1..Len(t) : t[i] = s[m + i - 1]
  BY <1>1, <1>2
<1>4. t[1] = s[m] /\ t[Len(t)] = s[n] /\ t # <<>> /\ s[1] \in Nat
  <2>1. Len(t) \in Nat /\ 1 \in 1..Len(t) /\ Len(t) \in 1..Len(t) /\ m + 1 - 1 = m /\ m + Len(t) - 1 = n
    BY <1>3
  <2>2. t[1] = s[m + 1 - 1] /\ t[Len(t)] = s[m + Len(t) - 1]
    BY <1>3, <2>1
  <2>3. s[1] \in Nat
    BY <1>1
  <2>4. t # <<>>
    BY <2>1
  <2> QED BY <2>1, <2>2, <2>3, <2>4
<1>5. ASSUME NEW i \in 1..Len(t) PROVE t[i] = t[1] + i - 1
  <2>1. m + i - 1 \in 1..Len(s) /\ m \in 1..Len(s) /\ i \in Nat
    BY <1>1, <1>3
  <2>2. s[m + i - 1] = s[1] + (m + i - 1) - 1 /\ s[m] = s[1] + m - 1
    BY <1>1, <2>1
  <2>3. t[i] = s[1] + (m + i - 1) - 1 /\ t[1] = s[1] + m - 1
    BY <1>3, <1>4, <2>2
  <2> QED BY <1>4, <2>1, <2>3
<1>6. Consecutive(t)
  BY <1>3, <1>5 DEF Consecutive
<1> QED BY <1>2, <1>3, <1>4, <1>6

LEMMA WiredJoined ==
  ASSUME NEW u, NEW w, Wired(u), Wired(w), w # <<>> => w[1].kind # "DATA" \/ u = <<>> \/ u[Len(u)].kind # "DATA"
  PROVE  Wired(u \o w)
<1>1. u \in Seq(Packets) /\ w \in Seq(Packets) /\ u \o w \in Seq(Packets)
      /\ Len(u \o w) = Len(u) + Len(w) /\ Len(u) \in Nat /\ Len(w) \in Nat
  BY DEF Wired
<1>2. \A i \in 1..Len(u \o w) : (u \o w)[i] = IF i <= Len(u) THEN u[i] ELSE w[i - Len(u)]
  BY <1>1
<1>3. ASSUME NEW i \in 1..Len(u \o w), (u \o w)[i].kind = "DATA"
      PROVE  Consecutive((u \o w)[i].data) /\ (u \o w)[i].data # <<>>
  <2>1. CASE i <= Len(u)
    <3>1. i \in 1..Len(u) /\ (u \o w)[i] = u[i]
      BY <1>1, <1>2, <2>1
    <3> QED BY <1>3, <3>1 DEF Wired
  <2>2. CASE i > Len(u)
    <3>1. i - Len(u) \in 1..Len(w) /\ (u \o w)[i] = w[i - Len(u)]
      BY <1>1, <1>2, <2>2
    <3> QED BY <1>3, <3>1 DEF Wired
  <2> QED BY <1>1, <2>1, <2>2
<1>4. ASSUME NEW i \in 1..(Len(u \o w) - 1), (u \o w)[i].kind = "DATA", (u \o w)[i + 1].kind = "DATA"
      PROVE  Continues((u \o w)[i].data, (u \o w)[i + 1].data)
  <2>1. CASE i < Len(u)
    <3>1. (u \o w)[i] = u[i] /\ (u \o w)[i + 1] = u[i + 1] /\ i \in 1..(Len(u) - 1)
      BY <1>1, <1>2, <2>1
    <3> QED BY <1>4, <3>1 DEF Wired
  <2>2. CASE i = Len(u)
    <3>1. (u \o w)[i] = u[i] /\ (u \o w)[i + 1] = w[1] /\ w # <<>> /\ u # <<>>
      BY <1>1, <1>2, <2>2
    <3> QED BY <1>4, <2>2, <3>1
  <2>3. CASE i > Len(u)
    <3>1. (u \o w)[i] = w[i - Len(u)] /\ (u \o w)[i + 1] = w[i - Len(u) + 1] /\ i - Len(u) \in 1..(Len(w) - 1)
      BY <1>1, <1>2, <2>3
    <3> QED BY <1>4, <3>1 DEF Wired
  <2> QED BY <1>1, <2>1, <2>2, <2>3
<1> QED BY <1>1, <1>3, <1>4 DEF Wired

LEMMA WiredTail ==
  ASSUME NEW w, Wired(w), w # <<>>
  PROVE  /\ Wired(Tail(w)) /\ Head(w) = w[1] /\ w[1] \in Packets
         /\ w[1].kind = "DATA" => Consecutive(w[1].data) /\ w[1].data # <<>>
         /\ Tail(w) # <<>> /\ w[1].kind = "DATA" /\ Tail(w)[1].kind = "DATA" =>
               Continues(w[1].data, Tail(w)[1].data)
<1>1. PICK t : t = Tail(w)
  OBVIOUS
<1>2. /\ w \in Seq(Packets) /\ t \in Seq(Packets) /\ Len(w) \in Nat /\ Len(w) > 0
      /\ Len(t) = Len(w) - 1 /\ \A i \in 1..Len(t) : t[i] = w[i + 1]
  BY <1>1 DEF Wired
<1>3. \A i \in 1..Len(t) : i + 1 \in 1..Len(w) /\ t[i] = w[i + 1]
  BY <1>2
<1>4. \A i \in 1..(Len(t) - 1) : i + 1 \in 1..(Len(w) - 1) /\ t[i] = w[i + 1] /\ t[i + 1] = w[i + 1 + 1]
  BY <1>2
<1>5. Wired(t)
  BY <1>2, <1>3, <1>4 DEF Wired
<1>6. Head(w) = w[1] /\ w[1] \in Packets /\ 1 \in 1..Len(w)
  BY <1>2
<1>7. t # <<>> => 1 \in 1..(Len(w) - 1) /\ t[1] = w[1 + 1]
  BY <1>2
<1> QED BY <1>1, <1>5, <1>6, <1>7 DEF Wired

\* Which records a packet of a bulk answer holds.
LEMMA Chunks ==
  ASSUME NEW L \in Nat, NEW i \in 1..((L + Chunk - 1) \div Chunk)
  PROVE  /\ (i - 1) * Chunk \in Nat /\ i * Chunk \in Nat /\ i * Chunk = (i - 1) * Chunk + Chunk
         /\ (i - 1) * Chunk < L
<1>1. Chunk \in Nat /\ Chunk > 0
  BY ChunkAssumption
<1>2. PICK n : n = (L + Chunk - 1) \div Chunk
  OBVIOUS
<1>3. n \in Nat /\ n * Chunk <= L + Chunk - 1
  BY <1>1, <1>2
<1>4. i \in Nat /\ i >= 1 /\ i <= n
  BY <1>2, <1>3
<1>5. (i - 1) * Chunk \in Nat /\ i * Chunk \in Nat /\ i * Chunk = (i - 1) * Chunk + Chunk
  BY <1>1, <1>4
<1>6. i * Chunk <= n * Chunk
  BY <1>1, <1>3, <1>4
<1> QED BY <1>1, <1>3, <1>5, <1>6

LEMMA BulkWired ==
  ASSUME Consecutive(memory)
  PROVE  Wired(Z!Bulk) /\ Z!Bulk # <<>> /\ Z!Bulk[1].kind # "DATA"
<1> DEFINE L == Len(memory)
           n == (L + Chunk - 1) \div Chunk
           first(i) == (i - 1) * Chunk + 1
           last(i) == IF i * Chunk < L THEN i * Chunk ELSE L
           chunks == [i \in 1..n |-> [kind |-> "DATA", data |-> SubSeq(memory, first(i), last(i))]]
           before == <<[kind |-> "PREPARE_DATA", data |-> L]>>
           after == <<Z!Ack>>
<1>1. L \in Nat /\ Chunk \in Nat /\ Chunk > 0 /\ n \in Nat
  <2>1. L \in Nat /\ Chunk \in Nat /\ Chunk > 0
    BY ChunkAssumption DEF Consecutive
  <2> HIDE DEF L
  <2> QED BY <2>1
<1>2. ASSUME NEW i \in 1..n
      PROVE  /\ first(i) \in Nat /\ last(i) \in Nat /\ 1 <= first(i) /\ first(i) <= last(i)
             /\ last(i) <= L
             /\ i + 1 \in 1..n => first(i + 1) = last(i) + 1
  <2>1. /\ (i - 1) * Chunk \in Nat /\ i * Chunk \in Nat /\ i * Chunk = (i - 1) * Chunk + Chunk
        /\ (i - 1) * Chunk < L
    BY <1>1, <1>2, Chunks
  <2>2. i + 1 \in 1..n => (i + 1 - 1) * Chunk < L
    BY <1>1, Chunks
  <2>3. (i + 1) - 1 = i
    BY <1>1
  <2> QED BY <1>1, <2>1, <2>2, <2>3
<1>3. ASSUME NEW i \in 1..n
      PROVE  /\ Consecutive(chunks[i].data) /\ chunks[i].data # <<>> /\ chunks[i].kind = "DATA" /\ chunks[i] \in Packets
             /\ chunks[i].data[1] = memory[first(i)]
             /\ chunks[i].data[Len(chunks[i].data)] = memory[last(i)]
  <2>1. chunks[i] = [kind |-> "DATA", data |-> SubSeq(memory, first(i), last(i))]
    OBVIOUS
  <2>2. PICK d : d = SubSeq(memory, first(i), last(i))
    OBVIOUS
  <2>3. Consecutive(d) /\ d # <<>> /\ d[1] = memory[first(i)] /\ d[Len(d)] = memory[last(i)]
    <3> HIDE DEF first, last
    <3> QED BY <1>1, <1>2, <2>2, Part
  <2>4. chunks[i].kind = "DATA" /\ chunks[i].data = d
    BY <2>1, <2>2
  <2>5. chunks[i] \in Packets
    <3> HIDE DEF first, last, chunks
    <3> QED BY <2>1, <2>2, <2>3 DEF Consecutive, Packets
  <2> QED BY <2>3, <2>4, <2>5
<1>4. chunks \in Seq(Packets) /\ Len(chunks) = n
  <2>1. chunks = [i \in 1..n |-> chunks[i]]
    OBVIOUS
  <2>2. \A i \in 1..n : chunks[i] \in Packets
    BY <1>3
  <2> HIDE DEF n, chunks
  <2> QED BY <1>1, <2>1, <2>2
<1> HIDE DEF chunks
<1>5. ASSUME NEW i \in 1..(n - 1) PROVE Continues(chunks[i].data, chunks[i + 1].data)
  <2>1. i \in 1..n /\ i + 1 \in 1..n /\ i \in Nat
    BY <1>1
  <2>2. first(i + 1) = last(i) + 1 /\ last(i) \in Nat /\ first(i) >= 1 /\ first(i) <= last(i)
        /\ first(i + 1) <= L /\ last(i) <= L /\ first(i) \in Nat
    <3>1. first(i + 1) <= last(i + 1) /\ last(i + 1) <= L /\ last(i + 1) \in Nat
      BY <1>2, <2>1
    <3> HIDE DEF first, last, n, L
    <3> QED BY <1>1, <1>2, <2>1, <3>1
  <2>3. chunks[i + 1].data[1] = memory[first(i + 1)] /\ chunks[i].data[Len(chunks[i].data)] = memory[last(i)]
    BY <1>3, <2>1
  <2> HIDE DEF first, last, n
  <2>4. memory[last(i) + 1] = memory[last(i)] + 1
    <3>1. \A k \in 1..L : memory[k] = memory[1] + k - 1
      BY DEF Consecutive
    <3>2. memory[1] \in Nat /\ last(i) \in 1..L /\ last(i) + 1 \in 1..L
      BY <1>1, <2>2 DEF Consecutive
    <3> QED BY <3>1, <3>2, <2>2
  <2> QED BY <2>2, <2>3, <2>4 DEF Continues
<1>6. Wired(chunks)
  BY <1>3, <1>4, <1>5 DEF Wired
<1>7. Wired(before) /\ before # <<>> /\ before[1].kind # "DATA" /\ before[Len(before)].kind # "DATA"
  <2>1. before[1] \in Packets /\ before[1].kind # "DATA" /\ Len(before) = 1
    BY <1>1 DEF Packets
  <2> QED BY <2>1 DEF Wired
<1>8. Wired(after) /\ after[1].kind # "DATA"
  <2>1. after[1] \in Packets /\ after[1].kind # "DATA" /\ Len(after) = 1
    BY DEF Packets, Z!Ack
  <2> QED BY <2>1 DEF Wired
<1> HIDE DEF before, after
<1>9. Wired(before \o chunks)
  BY <1>6, <1>7, WiredJoined
<1>10. Wired((before \o chunks) \o after)
  BY <1>8, <1>9, WiredJoined
<1>11. Z!Bulk = (before \o chunks) \o after
  BY DEF Z!Bulk, before, chunks, after
<1>12. Len((before \o chunks) \o after) > 0 /\ ((before \o chunks) \o after)[1] = before[1]
  <2>1. before \in Seq(Packets) /\ chunks \in Seq(Packets) /\ after \in Seq(Packets) /\ Len(before) > 0
    BY <1>6, <1>7, <1>8 DEF Wired
  <2> QED BY <2>1
<1> QED BY <1>7, <1>10, <1>11, <1>12

LEMMA Typed ==
  /\ \A c \in Commands : /\ c.name \in {"option", "sizes", "log"} /\ c.attempt \in Nat
                          /\ c.reading \in Begun \cup {None}
  /\ \A c \in Commands, r \in Begun : /\ [c EXCEPT !.reading = r] \in Commands
                                       /\ [c EXCEPT !.reading = r].reading = r
  /\ \A c \in Commands : /\ [c EXCEPT !.sent = TRUE] \in Commands
                          /\ [c EXCEPT !.sent = TRUE].reading = c.reading
  /\ \A name \in {"option", "sizes", "log"}, n \in Nat :
        Z!Command(name, n) \in Commands /\ Z!Command(name, n).reading = None
BY DEF Commands, Z!Command

LEMMA UnreadReads ==
  ASSUME NEW q, Unread(q), q \in Seq(Commands), NEW w
  PROVE  Reads(q, w)
BY DEF Unread, Reads

\* The first command gone, the others have read nothing.
LEMMA QueueTail ==
  ASSUME NEW q, q \in Seq(Commands), q # <<>>, NEW w, Reads(q, w)
  PROVE  Tail(q) \in Seq(Commands) /\ Unread(Tail(q)) /\ Head(q) = q[1] /\ q[1] \in Commands
<1>1. PICK t : t = Tail(q)
  OBVIOUS
<1>2. /\ t \in Seq(Commands) /\ Len(q) \in Nat /\ Len(q) > 0 /\ Len(t) = Len(q) - 1
      /\ \A i \in 1..Len(t) : t[i] = q[i + 1]
  BY <1>1
<1>3. \A i \in 1..Len(t) : i + 1 \in 1..Len(q) /\ i + 1 > 1 /\ t[i] = q[i + 1]
  BY <1>2
<1>4. Unread(t)
  BY <1>3 DEF Reads, Unread
<1> QED BY <1>1, <1>2, <1>4

\* The first command replaced by another.
LEMMA QueueHead ==
  ASSUME NEW q, q \in Seq(Commands), q # <<>>, NEW v, Reads(q, v), NEW c \in Commands, NEW w,
         c.reading # None =>
            /\ Consecutive(c.reading.data)
            /\ c.reading.data # <<>> /\ w # <<>> /\ w[1].kind = "DATA" =>
                  Continues(c.reading.data, w[1].data)
  PROVE  <<c>> \o Tail(q) \in Seq(Commands) /\ Reads(<<c>> \o Tail(q), w)
<1>1. PICK t : t = Tail(q)
  OBVIOUS
<1>2. t \in Seq(Commands) /\ Unread(t)
  BY <1>1, QueueTail
<1>3. PICK p : p = <<c>> \o t
  OBVIOUS
<1>4. /\ p \in Seq(Commands) /\ Len(p) = Len(t) + 1 /\ p[1] = c /\ Len(t) \in Nat
      /\ \A i \in 1..Len(p) : i > 1 => p[i] = t[i - 1] /\ i - 1 \in 1..Len(t)
  BY <1>2, <1>3
<1>5. \A i \in 1..Len(p) : i > 1 => p[i].reading = None
  BY <1>2, <1>4 DEF Unread
<1>6. Reads(p, w)
  BY <1>4, <1>5 DEF Reads
<1> QED BY <1>1, <1>3, <1>4, <1>6

LEMMA QueueMore ==
  ASSUME NEW q, q \in Seq(Commands), NEW t, t \in Seq(Commands), Unread(t)
  PROVE  /\ q \o t \in Seq(Commands)
         /\ Unread(q) => Unread(q \o t)
         /\ \A w : Reads(q, w) => Reads(q \o t, w)
<1>1. PICK p : p = q \o t
  OBVIOUS
<1>2. /\ p \in Seq(Commands) /\ Len(p) = Len(q) + Len(t) /\ Len(q) \in Nat /\ Len(t) \in Nat
      /\ \A i \in 1..Len(p) : IF i <= Len(q) THEN p[i] = q[i] /\ i \in 1..Len(q)
                              ELSE p[i] = t[i - Len(q)] /\ i - Len(q) \in 1..Len(t)
  BY <1>1
<1>3. Unread(q) => Unread(p)
  BY <1>2 DEF Unread
<1>4. ASSUME NEW w, Reads(q, w) PROVE Reads(p, w)
  <2>1. CASE q = <<>>
    <3>1. p = t
      BY <1>1, <2>1
    <3> QED BY <3>1, UnreadReads
  <2>2. CASE q # <<>>
    <3>1. p[1] = q[1] /\ p # <<>>
      BY <1>2, <2>2
    <3>2. \A i \in 1..Len(p) : i > 1 => p[i].reading = None
      BY <1>2, <1>4 DEF Reads, Unread
    <3> QED BY <1>4, <2>2, <3>1, <3>2 DEF Reads
  <2> QED BY <2>1, <2>2
<1> QED BY <1>1, <1>2, <1>3, <1>4

\* A download returns what the cursor then passes over, or did before.
LEMMA Download ==
  ASSUME NEW all, Consecutive(all), Returned(cursor, got), Z!Downloaded(all)
  PROVE  Returned(cursor', got')
<1>1. all \in Seq(Nat) /\ Len(all) \in Nat /\ \A i \in 1..Len(all) : all[i] = all[1] + i - 1 /\ all[i] \in Nat
  BY DEF Consecutive
<1>2. cursor'.count = Len(all) /\ (all # <<>> => cursor'.print = all[Len(all)])
  BY DEF Z!Downloaded, Z!Last
<1>3. Len(all) > 0 => all # <<>> /\ Len(all) \in 1..Len(all) /\ 1 \in 1..Len(all)
  BY <1>1
<1>4. ASSUME NEW k \in 1..Len(all) PROVE all[k] \in got'
  <2>1. CASE ~Z!Continuable(all)
    <3>1. got' = got \cup Z!ToSet(all)
      BY <2>1 DEF Z!Downloaded
    <3>2. all[k] \in Z!ToSet(all)
      BY <1>1 DEF Z!ToSet
    <3> QED BY <3>1, <3>2
  <2>2. CASE Z!Continuable(all)
    <3>1. /\ cursor # None /\ cursor.count \in Nat /\ cursor.count <= Len(all)
          /\ cursor.count > 0 => all[cursor.count] = cursor.print /\ cursor.print \in Nat
          /\ \A i \in 1..cursor.count : cursor.print - cursor.count + i \in got
      BY <2>2 DEF Z!Continuable, Returned
    <3>2. CASE k <= cursor.count
      <4>1. cursor.count > 0 /\ cursor.count \in 1..Len(all) /\ k \in 1..cursor.count
        BY <1>1, <3>1, <3>2
      <4>2. cursor.print = all[1] + cursor.count - 1 /\ all[k] = all[1] + k - 1
        BY <1>1, <3>1, <4>1
      <4>3. cursor.print - cursor.count + k = all[k]
        <5>1. \A a, n, i \in Int : (a + n - 1) - n + i = a + i - 1
          OBVIOUS
        <5>2. all[1] \in Int /\ cursor.count \in Int /\ k \in Int
          <6>1. Len(all) > 0 /\ k \in Int
            BY <1>1
          <6>2. 1 \in 1..Len(all)
            BY <1>3, <6>1
          <6>3. all[1] \in Nat
            BY <1>1, <6>2
          <6> QED BY <3>1, <6>1, <6>3
        <5>3. (all[1] + cursor.count - 1) - cursor.count + k = all[1] + k - 1
          BY <5>1, <5>2
        <5> QED BY <4>2, <5>3
      <4>4. got \subseteq got'
        BY DEF Z!Downloaded
      <4> QED BY <3>1, <4>1, <4>3, <4>4
    <3>3. CASE k > cursor.count
      <4>1. PICK t : t = SubSeq(all, cursor.count + 1, Len(all))
        OBVIOUS
      <4>2. got' = got \cup Z!ToSet(t)
        BY <2>2, <4>1 DEF Z!Downloaded
      <4>3. Len(t) = Len(all) - cursor.count /\ k - cursor.count \in 1..Len(t)
            /\ t \in Seq(Nat)
            /\ t[k - cursor.count] = all[cursor.count + 1 + (k - cursor.count) - 1]
        <5>1. PICK m, n : m = cursor.count + 1 /\ n = Len(all)
          OBVIOUS
        <5>2. m \in Nat /\ n \in Nat /\ 1 <= m /\ m <= n /\ n <= Len(all)
          BY <1>1, <3>1, <3>3, <5>1
        <5>3. /\ Consecutive(t) /\ Len(t) = n - m + 1
              /\ \A i \in 1..Len(t) : t[i] = all[m + i - 1]
          <6>1. t = SubSeq(all, m, n)
            BY <4>1, <5>1
          <6> QED BY <5>2, <6>1, Part
        <5>4. Len(t) = Len(all) - cursor.count /\ k - cursor.count \in 1..Len(t)
          <6>1. Len(t) = Len(all) - (cursor.count + 1) + 1
            BY <5>1, <5>3
          <6>2. k \in Nat /\ k <= Len(all) /\ k > cursor.count
            BY <1>1, <3>3
          <6>3. PICK c, n1 : c = cursor.count /\ n1 = Len(all)
            OBVIOUS
          <6>4. n1 - (c + 1) + 1 = n1 - c /\ k - c \in 1..(n1 - c)
            BY <1>1, <3>1, <6>2, <6>3
          <6> QED BY <6>1, <6>3, <6>4
        <5> QED BY <5>1, <5>3, <5>4 DEF Consecutive
      <4>4. cursor.count + 1 + (k - cursor.count) - 1 = k
        BY <1>1, <3>1
      <4>5. all[k] \in Z!ToSet(t)
        BY <4>3, <4>4 DEF Z!ToSet
      <4> QED BY <4>2, <4>5
    <3> QED BY <1>1, <3>1, <3>2, <3>3
  <2> QED BY <2>1, <2>2
<1>5. ASSUME NEW k \in 1..cursor'.count PROVE cursor'.print - cursor'.count + k \in got'
  <2>1. Len(all) > 0 /\ k \in 1..Len(all)
    BY <1>1, <1>2
  <2>2. cursor'.print = all[1] + Len(all) - 1 /\ all[k] = all[1] + k - 1 /\ all[1] \in Nat
    BY <1>1, <1>2, <1>3, <2>1
  <2>3. cursor'.print - cursor'.count + k = all[k]
    BY <1>1, <1>2, <2>1, <2>2
  <2> QED BY <1>4, <2>1, <2>3
<1> QED BY <1>1, <1>2, <1>3, <1>5 DEF Returned

\* A command that has its answer leaves the queue, and leaves no other one half read.
LEMMA Answered ==
  ASSUME ZkInv, NEW data, Consecutive(data), queue # <<>>, Z!Succeeded(data)
  PROVE  /\ queue' \in Seq(Commands) /\ Unread(queue')
         /\ attempt' # None => attempt' \in Tries
         /\ Returned(cursor', got')
<1>1. Tail(queue) \in Seq(Commands) /\ Unread(Tail(queue)) /\ Head(queue) \in Commands
  BY QueueTail DEF ZkInv
<1>2. CASE ~Z!Mine(Head(queue))
  BY <1>1, <1>2 DEF Z!Succeeded, Z!outcome, ZkInv
<1>3. CASE Z!Mine(Head(queue)) /\ Head(queue).name = "log"
  <2>1. queue' = Tail(queue) /\ Z!Downloaded(data)
    BY <1>3 DEF Z!Succeeded
  <2>2. Returned(cursor', got')
    BY <2>1, Download DEF ZkInv
  <2>3. attempt' = None
    BY <2>1 DEF Z!Downloaded
  <2> QED BY <1>1, <2>1, <2>2, <2>3
<1>4. CASE Z!Mine(Head(queue)) /\ Head(queue).name # "log"
  <2>1. PICK rest : rest = attempt.left \ {Head(queue).name}
    OBVIOUS
  <2>2. PICK more : more = IF rest = {} THEN <<Z!Command("log", attempt.n)>> ELSE <<>>
    OBVIOUS
  <2>3. /\ attempt' = [attempt EXCEPT !.left = rest] /\ queue' = Tail(queue) \o more
        /\ UNCHANGED <<cursor, got>>
    BY <1>4, <2>1, <2>2 DEF Z!Succeeded, Z!outcome
  <2>4. attempt \in Tries
    BY <1>4 DEF Z!Mine, ZkInv
  <2>5. attempt' \in Tries
    BY <2>1, <2>3, <2>4 DEF Tries
  <2>6. more \in Seq(Commands) /\ Unread(more)
    <3>1. PICK c : c = Z!Command("log", attempt.n)
      OBVIOUS
    <3>2. c \in Commands /\ c.reading = None
      BY <2>4, <3>1, Typed DEF Tries
    <3> QED BY <2>2, <3>1, <3>2 DEF Unread
  <2> QED BY <1>1, <2>3, <2>5, <2>6, QueueMore DEF ZkInv
<1> QED BY <1>2, <1>3, <1>4

LEMMA Trying ==
  ASSUME attempt \in Tries, NEW retryable \in BOOLEAN
  PROVE  Z!NextAttempt(retryable) # None => Z!NextAttempt(retryable) \in Tries
BY DEF Z!NextAttempt, Tries

\* A command that fails does too.
LEMMA Refused ==
  ASSUME ZkInv, NEW retryable \in BOOLEAN, queue # <<>>, Z!Failed(retryable), UNCHANGED Z!outcome
  PROVE  /\ queue' \in Seq(Commands) /\ Unread(queue')
         /\ attempt' # None => attempt' \in Tries
         /\ Returned(cursor', got')
<1>1. Tail(queue) \in Seq(Commands) /\ Unread(Tail(queue))
  BY QueueTail DEF ZkInv
<1>2. attempt' # None => attempt' \in Tries
  BY Trying DEF Z!Failed, Z!Mine, ZkInv
<1> QED BY <1>1, <1>2 DEF Z!Failed, Z!outcome, ZkInv

LEMMA ZkInit == Z!Init => ZkInv
BY DEF Z!Init, ZkInv, Consecutive, Wired, Reads, Returned

LEMMA ZkAlone == ZkInv /\ UNCHANGED zk => ZkInv'
BY DEF zk, ZkInv

LEMMA ZkStep ==
  ASSUME ZkInv, Z!Next
  PROVE  ZkInv'
<1>1. ASSUME Z!Punch PROVE ZkInv'
  <2>1. made' = made + 1 /\ memory' = Append(memory, made + 1) /\ UNCHANGED <<wire, queue, attempt, cursor, got>>
    BY <1>1 DEF Z!Punch, Z!socket, Z!outcome
  <2>2. memory \in Seq(Nat) /\ Len(memory) \in Nat /\ made \in Nat
    BY DEF ZkInv, Consecutive
  <2>3. PICK t : t = <<made + 1>>
    OBVIOUS
  <2>4. Consecutive(t) /\ t # <<>> /\ t[1] = made + 1 /\ memory' = memory \o t /\ Len(t) = 1
    <3>1. t \in Seq(Nat) /\ t # <<>> /\ t[1] = made + 1 /\ Len(t) = 1 /\ memory' = memory \o t
      <4>1. PICK next : next = made + 1 /\ next \in Nat
        BY <2>2
      <4>2. t \in Seq(Nat) /\ t # <<>> /\ t[1] = next /\ Len(t) = 1
        BY <2>3, <4>1
      <4>3. memory' = Append(memory, next)
        BY <2>1, <4>1
      <4>4. Append(memory, next) = memory \o <<next>>
        BY <2>2, <4>1
      <4> QED BY <2>3, <4>1, <4>2, <4>3, <4>4
    <3>2. \A i \in 1..Len(t) : t[i] = t[1] + i - 1
      <4>1. \A i \in 1..1 : i = 1
        OBVIOUS
      <4>2. t[1] = t[1] + 1 - 1
        BY <2>2, <3>1
      <4> QED BY <3>1, <4>1, <4>2
    <3> QED BY <3>1, <3>2 DEF Consecutive
  <2>5. memory # <<>> => Continues(memory, t)
    BY <2>2, <2>4 DEF Continues, ZkInv
  <2>6. /\ Consecutive(memory \o t) /\ (memory \o t)[Len(memory \o t)] = t[Len(t)]
    BY <2>4, <2>5, Joined DEF ZkInv
  <2>7. Consecutive(memory') /\ memory'[Len(memory')] = made' /\ made' \in Nat
    <3>1. t[Len(t)] = made + 1 /\ made' = made + 1 /\ made' \in Nat
      BY <2>1, <2>2, <2>4
    <3>2. memory' = memory \o t
      BY <2>4
    <3> QED BY <2>6, <3>1, <3>2
  <2> QED BY <2>1, <2>7 DEF ZkInv
<1>2. ASSUME Z!Wipe PROVE ZkInv'
  <2>1. Consecutive(<<>>)
    BY DEF Consecutive
  <2> QED BY <1>2, <2>1 DEF Z!Wipe, Z!socket, Z!outcome, ZkInv
<1>3. ASSUME Z!Answer PROVE ZkInv'
  <2>1. PICK more : more = IF Head(asked) = "log" THEN Z!Bulk ELSE <<Z!Ack>>
    OBVIOUS
  <2>2. wire' = wire \o more /\ UNCHANGED <<memory, made, queue, attempt, cursor, got>>
    BY <1>3, <2>1 DEF Z!Answer, Z!terminal, Z!outcome
  <2>3. Wired(more) /\ more # <<>> /\ more[1].kind # "DATA"
    <3>1. PICK t : t = <<Z!Ack>>
      OBVIOUS
    <3>2. t[1] \in Packets /\ t[1].kind # "DATA" /\ Len(t) = 1
      BY <3>1 DEF Packets, Z!Ack
    <3>3. Wired(t)
      BY <3>1, <3>2 DEF Wired
    <3>4. Wired(Z!Bulk) /\ Z!Bulk # <<>> /\ Z!Bulk[1].kind # "DATA"
      BY BulkWired DEF ZkInv
    <3> QED BY <2>1, <3>1, <3>2, <3>3, <3>4
  <2>4. Wired(wire')
    BY <2>2, <2>3, WiredJoined DEF ZkInv
  <2>5. IF wire = <<>> THEN wire'[1].kind # "DATA" ELSE wire'[1] = wire[1]
    <3>1. wire \in Seq(Packets) /\ more \in Seq(Packets)
      BY <2>3 DEF ZkInv, Wired
    <3> QED BY <2>2, <2>3, <3>1
  <2>6. Reads(queue, wire')
    BY <2>5 DEF ZkInv, Reads
  <2> QED BY <2>2, <2>4, <2>6 DEF ZkInv
<1>4. ASSUME Z!Ignore PROVE ZkInv'
  BY <1>4 DEF Z!Ignore, Z!terminal, Z!outcome, ZkInv
<1>5. ASSUME Z!BeginSync PROVE ZkInv'
  <2>1. /\ wire' = <<>> /\ queue' = <<>> /\ attempt' \in Tries
        /\ UNCHANGED <<memory, made, cursor, got>>
    BY <1>5 DEF Z!BeginSync, Z!terminal, Z!outcome, Tries
  <2>2. Wired(<<>>) /\ Reads(<<>>, <<>>)
    BY DEF Wired, Reads
  <2> QED BY <2>1, <2>2 DEF ZkInv
<1>6. ASSUME Z!StartAttempt PROVE ZkInv'
  <2>1. attempt \in Tries /\ attempt.n \in Nat
    BY <1>6 DEF Z!StartAttempt, ZkInv, Tries
  <2>2. PICK more : more = <<Z!Command("option", attempt.n), Z!Command("sizes", attempt.n)>>
    OBVIOUS
  <2>3. /\ wire' = wire \/ wire' = <<>>
        /\ queue' = queue \o more /\ attempt' = [attempt EXCEPT !.at = "info", !.left = Z!Info]
        /\ UNCHANGED <<memory, made, cursor, got>>
    BY <1>6, <2>2 DEF Z!StartAttempt, Z!terminal, Z!outcome, Z!socket
  <2>4. attempt' \in Tries
    BY <2>1, <2>3 DEF Tries
  <2>5. more \in Seq(Commands) /\ Unread(more)
    <3>1. PICK c, d : c = Z!Command("option", attempt.n) /\ d = Z!Command("sizes", attempt.n)
      OBVIOUS
    <3>2. c \in Commands /\ c.reading = None /\ d \in Commands /\ d.reading = None
      BY <2>1, <3>1, Typed
    <3>3. more = <<c, d>> /\ Len(more) = 2
      BY <2>2, <3>1
    <3> QED BY <3>2, <3>3 DEF Unread
  <2>6. Reads(queue, wire')
    BY <2>3 DEF ZkInv, Reads
  <2>7. queue' \in Seq(Commands) /\ Reads(queue', wire')
    BY <2>3, <2>5, <2>6, QueueMore DEF ZkInv
  <2>8. Wired(wire')
    <3>1. Wired(<<>>)
      BY DEF Wired
    <3> QED BY <2>3, <3>1 DEF ZkInv
  <2> QED BY <2>3, <2>4, <2>7, <2>8 DEF ZkInv
<1>7. ASSUME Z!FailUnconnected \/ Z!FailConnect PROVE ZkInv'
  <2>1. /\ UNCHANGED <<memory, made, wire, queue, cursor, got>> /\ attempt' = Z!NextAttempt(TRUE)
        /\ attempt # None
    BY <1>7 DEF Z!FailUnconnected, Z!FailConnect, Z!terminal, Z!socket, Z!outcome
  <2> QED BY <2>1, Trying DEF ZkInv
<1>8. ASSUME Z!Transmit PROVE ZkInv'
  <2>1. PICK c : c = [Head(queue) EXCEPT !.sent = TRUE]
    OBVIOUS
  <2>2. /\ queue # <<>> /\ queue' = <<c>> \o Tail(queue)
        /\ UNCHANGED <<memory, made, wire, attempt, cursor, got>>
    BY <1>8, <2>1 DEF Z!Transmit, Z!terminal, Z!outcome
  <2>3. Head(queue) = queue[1] /\ queue[1] \in Commands
    BY <2>2, QueueTail DEF ZkInv
  <2>4. c \in Commands /\ c.reading = queue[1].reading
    BY <2>1, <2>3, Typed
  <2>5. queue' \in Seq(Commands) /\ Reads(queue', wire)
    <3>1. c.reading # None =>
            /\ Consecutive(c.reading.data)
            /\ c.reading.data # <<>> /\ wire # <<>> /\ wire[1].kind = "DATA" =>
                  Continues(c.reading.data, wire[1].data)
      BY <2>2, <2>4 DEF ZkInv, Reads
    <3> QED BY <2>2, <2>4, <3>1, QueueHead DEF ZkInv
  <2> QED BY <2>2, <2>5 DEF ZkInv
<1>9. ASSUME Z!Receive PROVE ZkInv'
  <2>1. /\ queue # <<>> /\ wire # <<>> /\ wire' = Tail(wire) /\ UNCHANGED <<memory, made>>
    BY <1>9 DEF Z!Receive, Z!Waiting, Z!terminal
  <2>2. PICK packet, reading : packet = Head(wire) /\ reading = Head(queue).reading
    OBVIOUS
  <2>3. /\ Wired(wire') /\ packet = wire[1] /\ packet \in Packets
        /\ packet.kind = "DATA" => Consecutive(packet.data) /\ packet.data # <<>>
        /\ wire' # <<>> /\ packet.kind = "DATA" /\ wire'[1].kind = "DATA" =>
              Continues(packet.data, wire'[1].data)
    BY <2>1, <2>2, WiredTail DEF ZkInv
  <2>4. Head(queue) = queue[1] /\ queue[1] \in Commands /\ reading \in Begun \cup {None}
    <3>1. Head(queue) = queue[1] /\ queue[1] \in Commands
      BY <2>1, QueueTail DEF ZkInv
    <3> QED BY <2>2, <3>1, Typed
  <2>5. reading # None =>
          /\ reading \in Begun /\ Consecutive(reading.data)
          /\ reading.data # <<>> /\ packet.kind = "DATA" => Continues(reading.data, packet.data)
    BY <2>1, <2>2, <2>3, <2>4 DEF ZkInv, Reads
  <2>6. SUFFICES /\ queue' \in Seq(Commands) /\ Reads(queue', wire')
                 /\ attempt' # None => attempt' \in Tries
                 /\ Returned(cursor', got')
    BY <2>1, <2>3 DEF ZkInv
  <2>7. Consecutive(<<>>)
    BY DEF Consecutive
  <2>8. ASSUME NEW data, Consecutive(data), Z!Succeeded(data)
        PROVE  /\ queue' \in Seq(Commands) /\ Reads(queue', wire')
               /\ attempt' # None => attempt' \in Tries
               /\ Returned(cursor', got')
    <3>1. /\ queue' \in Seq(Commands) /\ Unread(queue')
          /\ attempt' # None => attempt' \in Tries
          /\ Returned(cursor', got')
      BY <2>1, <2>8, Answered
    <3> QED BY <3>1, UnreadReads
  <2>9. ASSUME NEW size \in Nat, NEW data, Consecutive(data),
               data # <<>> /\ wire' # <<>> /\ wire'[1].kind = "DATA" => Continues(data, wire'[1].data),
               Z!Gathered(size, data)
        PROVE  /\ queue' \in Seq(Commands) /\ Reads(queue', wire')
               /\ attempt' # None => attempt' \in Tries
               /\ Returned(cursor', got')
    <3>1. PICK r : r = [size |-> size, data |-> data, at |-> IF Len(data) < size THEN "data" ELSE "trailer"]
      OBVIOUS
    <3>2. r \in Begun /\ r.data = data
      BY <2>9, <3>1 DEF Begun, Consecutive
    <3>3. PICK c : c = [Head(queue) EXCEPT !.reading = r]
      OBVIOUS
    <3>4. c \in Commands /\ c.reading = r
      BY <2>4, <3>2, <3>3, Typed
    <3>5. queue' = <<c>> \o Tail(queue) /\ UNCHANGED <<attempt, cursor, got>>
      BY <2>9, <3>1, <3>3 DEF Z!Gathered, Z!Reading, Z!outcome
    <3>6. c.reading # None =>
            /\ Consecutive(c.reading.data)
            /\ c.reading.data # <<>> /\ wire' # <<>> /\ wire'[1].kind = "DATA" =>
                  Continues(c.reading.data, wire'[1].data)
      BY <2>9, <3>2, <3>4
    <3>7. queue' \in Seq(Commands) /\ Reads(queue', wire')
      <4>1. PICK w : w = wire'
        OBVIOUS
      <4> QED BY <2>1, <3>4, <3>5, <3>6, <4>1, QueueHead DEF ZkInv
    <3> QED BY <3>5, <3>7 DEF ZkInv
  <2>10. CASE Head(queue).name = "option"
    <3>1. Z!Succeeded(<<>>)
      BY <1>9, <2>10 DEF Z!Receive
    <3> QED BY <2>7, <2>8, <3>1
  <2>11. CASE Head(queue).name # "option" /\ reading = None
    <3>1. CASE packet.kind = "PREPARE_DATA"
      <4>1. Z!Gathered(packet.data, <<>>)
        BY <1>9, <2>2, <2>11, <3>1 DEF Z!Receive
      <4>2. packet.data \in Nat
        BY <2>3, <3>1 DEF Packets, Z!Ack
      <4> QED BY <2>7, <2>9, <4>1, <4>2
    <3>2. CASE packet.kind # "PREPARE_DATA"
      <4>1. Z!Succeeded(packet.data)
        BY <1>9, <2>2, <2>11, <3>2 DEF Z!Receive
      <4>2. Consecutive(packet.data)
        BY <2>3, <2>7, <3>2 DEF Packets, Z!Ack
      <4> QED BY <2>8, <4>1, <4>2
    <3> QED BY <3>1, <3>2
  <2>12. CASE Head(queue).name # "option" /\ reading # None
    <3>1. CASE reading.at = "trailer" \/ packet.kind = "ACK_OK"
      <4>1. Z!Succeeded(reading.data)
        BY <1>9, <2>2, <2>12, <3>1 DEF Z!Receive
      <4> QED BY <2>5, <2>8, <2>12, <4>1
    <3>2. CASE ~(reading.at = "trailer" \/ packet.kind = "ACK_OK") /\ packet.kind = "DATA"
      <4>1. PICK data : data = reading.data \o packet.data
        OBVIOUS
      <4>2. Z!Gathered(reading.size, data)
        BY <1>9, <2>2, <2>12, <3>2, <4>1 DEF Z!Receive
      <4>3. reading.size \in Nat
        BY <2>5, <2>12 DEF Begun
      <4>4. Consecutive(data) /\ data # <<>> /\ data[Len(data)] = packet.data[Len(packet.data)]
        BY <2>3, <2>5, <2>12, <3>2, <4>1, Joined
      <4>5. wire' # <<>> /\ wire'[1].kind = "DATA" => Continues(data, wire'[1].data)
        BY <2>3, <3>2, <4>4 DEF Continues
      <4> QED BY <2>9, <4>2, <4>3, <4>4, <4>5
    <3>3. CASE ~(reading.at = "trailer" \/ packet.kind = "ACK_OK") /\ packet.kind # "DATA"
      <4>1. Z!Failed(FALSE) /\ UNCHANGED Z!outcome
        BY <1>9, <2>2, <2>12, <3>3 DEF Z!Receive
      <4>2. /\ queue' \in Seq(Commands) /\ Unread(queue')
            /\ attempt' # None => attempt' \in Tries
            /\ Returned(cursor', got')
        BY <2>1, <4>1, Refused
      <4> QED BY <4>2, UnreadReads
    <3> QED BY <3>1, <3>2, <3>3
  <2> QED BY <2>10, <2>11, <2>12
<1>10. ASSUME Z!Timeout \/ Z!FailQueued PROVE ZkInv'
  <2>1. queue # <<>> /\ UNCHANGED <<memory, made, wire>> /\ Z!Unanswered
    BY <1>10 DEF Z!Timeout, Z!FailQueued, Z!Waiting, Z!terminal, Z!socket
  <2>2. /\ queue' \in Seq(Commands) /\ Unread(queue')
        /\ attempt' # None => attempt' \in Tries
        /\ Returned(cursor', got')
    <3>1. CASE Head(queue).reading # None /\ Head(queue).reading.at = "trailer"
      <4>1. PICK data : data = Head(queue).reading.data
        OBVIOUS
      <4>2. Z!Succeeded(data)
        BY <2>1, <3>1, <4>1 DEF Z!Unanswered
      <4>3. Consecutive(data)
        <5>1. Head(queue) = queue[1]
          BY <2>1, QueueTail DEF ZkInv
        <5> QED BY <2>1, <3>1, <4>1, <5>1 DEF ZkInv, Reads
      <4> QED BY <2>1, <4>2, <4>3, Answered
    <3>2. CASE ~(Head(queue).reading # None /\ Head(queue).reading.at = "trailer")
      <4>1. Z!Failed(TRUE) /\ UNCHANGED Z!outcome
        BY <2>1, <3>2 DEF Z!Unanswered
      <4> QED BY <2>1, <4>1, Refused
    <3> QED BY <3>1, <3>2
  <2>3. Reads(queue', wire')
    BY <2>2, UnreadReads
  <2> QED BY <2>1, <2>2, <2>3 DEF ZkInv
<1>11. ASSUME Z!Drop PROVE ZkInv'
  BY <1>11 DEF Z!Drop, Z!terminal, Z!outcome, ZkInv
<1> QED BY <1>1, <1>2, <1>3, <1>4, <1>5, <1>6, <1>7, <1>8, <1>9, <1>10, <1>11 DEF Z!Next

LEMMA ZkPassesNothing == ZkInv => Z!NothingPassedOver
<1> SUFFICES ASSUME ZkInv, Z!Continuable(memory), NEW i \in 1..cursor.count
             PROVE  memory[i] \in got
  BY DEF Z!NothingPassedOver
<1>1. /\ cursor.count \in Nat /\ cursor.count <= Len(memory)
      /\ cursor.count > 0 => memory[cursor.count] = cursor.print
      /\ \A k \in 1..cursor.count : cursor.print - cursor.count + k \in got
  BY DEF ZkInv, Returned, Z!Continuable
<1>2. Len(memory) \in Nat /\ i \in 1..Len(memory) /\ cursor.count \in 1..Len(memory) /\ cursor.count > 0
  <2>1. Len(memory) \in Nat
    BY DEF ZkInv, Consecutive
  <2> QED BY <1>1, <2>1
<1>3. /\ memory[i] = memory[1] + i - 1 /\ cursor.print = memory[1] + cursor.count - 1
      /\ memory[1] \in Nat
  <2>1. /\ memory[i] = memory[1] + i - 1 /\ memory[cursor.count] = memory[1] + cursor.count - 1
        /\ memory[1] \in Nat
    <3>1. 1 \in 1..Len(memory)
      BY <1>2
    <3>2. memory \in Seq(Nat) /\ \A k \in 1..Len(memory) : memory[k] = memory[1] + k - 1
      BY DEF ZkInv, Consecutive
    <3>3. memory[1] \in Nat
      BY <3>1, <3>2
    <3> QED BY <1>2, <3>2, <3>3
  <2> QED BY <1>1, <1>2, <2>1
<1>4. cursor.print - cursor.count + i = memory[i]
  BY <1>1, <1>2, <1>3
<1> QED BY <1>1, <1>4

\* No record is passed over, in any behaviour of the platform.
THEOREM NoRecordIsPassedOver == Spec => []NothingPassedOver
<1>1. Init => ZkInv
  BY ZkInit DEF Init
<1>2. ZkInv /\ [Next]_vars => ZkInv'
  <2>1. CASE focus = "zk" /\ Z!Next
    BY <2>1, ZkStep
  <2>2. CASE UNCHANGED zk
    BY <2>2, ZkAlone
  <2>3. [Next]_vars => (focus = "zk" /\ Z!Next) \/ UNCHANGED zk
    BY DEF Next, vars
  <2> QED BY <2>1, <2>2, <2>3
<1>3. ZkInv => NothingPassedOver
  BY ZkPassesNothing DEF NothingPassedOver
<1> QED BY <1>1, <1>2, <1>3, PTL DEF Spec

-----------------------------------------------------------------------------
(* The digest session.                                                     *)

Nonces == Nat \cup {None}

OnItsWay ==
    [at : {"sent"}, try : {1, 2}, header : [nonce : Nonces, nc : Nat], disturbed : BOOLEAN]
Replied == [at : {"answered"}, try : {1, 2}, ok : BOOLEAN, nonce : Nat, disturbed : BOOLEAN]
Ended ==
    [at : {"done"}, outcome : {"ok", "not offered", "refused", "failed"}, disturbed : BOOLEAN]
Requests == {D!Idle} \cup OnItsWay \cup Replied \cup Ended

DigestTypes ==
    /\ challenge \in Nonces /\ count \in Nat
    /\ terminal \in [offers : Offerings, strict : BOOLEAN, nonce : Nat, taken : SUBSET Nat,
                     known : BOOLEAN]
    /\ requests \in [Handlers -> Requests]

Under(call) == call.at \in {"sent", "answered"}

\* What an undisturbed call knows of the terminal still holds.
Current(call, t) ==
    /\ call.at = "sent" /\ call.try = 2 /\ ~call.disturbed =>
          call.header.nonce = t.nonce /\ (t.strict => call.header.nc \notin t.taken)
    /\ call.at = "answered" /\ ~call.disturbed => call.nonce = t.nonce
    /\ call.at = "answered" /\ call.try = 2 /\ ~call.disturbed /\ ~call.ok => ~t.known

\* A call on a terminal that takes each count once goes with what the client has cached.
Counted(call, nonce, nc, t) ==
    /\ call.at = "sent" =>
          call.header = D!Header(nonce, nc) /\ (t.taken # {} => nc \notin t.taken)
    /\ call.at = "answered" /\ ~call.ok => t.taken = {}

\* The counts a strict terminal took are of the nonce cached, and were used.
DigestInv ==
    /\ DigestTypes
    /\ \A c \in Handlers : Current(requests[c], terminal)
    /\ terminal.strict =>
          /\ \A b, c \in Handlers : Under(requests[b]) /\ Under(requests[c]) => b = c
          /\ \A c \in Handlers : Counted(requests[c], challenge, count, terminal)
          /\ terminal.taken # {} =>
                terminal.known /\ challenge = terminal.nonce /\ \A n \in terminal.taken : n <= count

LEMMA RequestKinds ==
  ASSUME NEW call \in Requests
  PROVE  /\ call.at \in {"idle", "sent", "answered", "done"}
         /\ call.at = "idle" => call = D!Idle
         /\ call.at = "sent" => call \in OnItsWay
         /\ call.at = "answered" => call \in Replied
         /\ call.at = "done" => call \in Ended
<1>1. call = D!Idle => call.at = "idle"
  BY DEF D!Idle
<1>2. call \in OnItsWay => call.at = "sent"
  BY DEF OnItsWay
<1>3. call \in Replied => call.at = "answered"
  BY DEF Replied
<1>4. call \in Ended => call.at = "done"
  BY DEF Ended
<1> QED BY <1>1, <1>2, <1>3, <1>4 DEF Requests

LEMMA DigestInit == ASSUME D!Init PROVE DigestInv
<1>1. \A c \in Handlers : requests[c] = D!Idle /\ requests[c].at = "idle"
  BY DEF D!Init, D!Idle
<1>2. DigestTypes
  <2>1. requests \in [Handlers -> Requests]
    BY DEF D!Init, Requests
  <2> QED BY <2>1 DEF D!Init, DigestTypes, Nonces
<1>3. terminal.taken = {}
  BY DEF D!Init
<1> QED BY <1>1, <1>2, <1>3 DEF DigestInv, Current, Counted, Under

LEMMA DigestAlone == DigestInv /\ UNCHANGED digest => DigestInv'
BY DEF digest, DigestInv, DigestTypes

\* One call goes on.
LEMMA DigestStep ==
  ASSUME DigestInv, NEW c \in Handlers, NEW call \in Requests, D!Call(c, call),
         challenge' \in Nonces, count' \in Nat,
         terminal' \in [offers : Offerings, strict : BOOLEAN, nonce : Nat, taken : SUBSET Nat,
                        known : BOOLEAN],
         terminal'.nonce = terminal.nonce, terminal'.known = terminal.known,
         terminal'.strict = terminal.strict,
         terminal'.taken # terminal.taken => terminal.known,
         Current(call, terminal'),
         terminal.strict =>
            /\ Under(call) => Under(requests[c]) \/ D!InProgress = {}
            /\ terminal'.taken # terminal.taken \/ challenge' # challenge \/ count' # count
                  => Under(requests[c]) \/ D!InProgress = {}
            /\ Counted(call, challenge', count', terminal')
            /\ terminal'.taken # {} =>
                  challenge' = terminal.nonce /\ \A n \in terminal'.taken : n <= count'
  PROVE  DigestInv'
<1>1. /\ requests' \in [Handlers -> Requests] /\ requests'[c] = call
      /\ \A b \in Handlers \ {c} : requests'[b] = requests[b]
  BY DEF D!Call, DigestInv, DigestTypes
<1>2. DigestTypes'
  BY <1>1 DEF DigestTypes
<1>3. ASSUME NEW b \in Handlers PROVE Current(requests'[b], terminal')
  <2>1. CASE b = c
    BY <1>1, <2>1
  <2>2. CASE b # c
    <3>1. requests'[b] = requests[b] /\ Current(requests[b], terminal)
      BY <1>1, <2>2 DEF DigestInv
    <3>2. terminal.strict /\ Under(requests[b]) => terminal'.taken = terminal.taken
      <4> SUFFICES ASSUME terminal.strict, Under(requests[b]), terminal'.taken # terminal.taken
                   PROVE  FALSE
        OBVIOUS
      <4>1. Under(requests[c]) \/ D!InProgress = {}
        OBVIOUS
      <4>2. b \in D!InProgress
        BY DEF D!InProgress, Under
      <4> QED BY <2>2, <4>1, <4>2 DEF DigestInv
    <3> QED BY <3>1, <3>2 DEF Current, Under
  <2> QED BY <2>1, <2>2
<1>4. ASSUME terminal.strict
      PROVE  /\ \A a, b \in Handlers : Under(requests'[a]) /\ Under(requests'[b]) => a = b
             /\ \A b \in Handlers : Counted(requests'[b], challenge', count', terminal')
             /\ terminal'.taken # {} =>
                   /\ terminal'.known /\ challenge' = terminal'.nonce
                   /\ \A n \in terminal'.taken : n <= count'
  <2>1. ASSUME Under(call), NEW b \in Handlers \ {c}, Under(requests[b]) PROVE FALSE
    <3>1. b \in D!InProgress
      BY <2>1 DEF D!InProgress, Under
    <3> QED BY <1>4, <2>1, <3>1 DEF DigestInv
  <2>2. \A a, b \in Handlers : Under(requests'[a]) /\ Under(requests'[b]) => a = b
    BY <1>1, <1>4, <2>1 DEF DigestInv
  <2>3. ASSUME NEW b \in Handlers PROVE Counted(requests'[b], challenge', count', terminal')
    <3>1. CASE b = c
      BY <1>1, <1>4, <3>1
    <3>2. CASE b # c /\ ~Under(requests[b])
      BY <1>1, <3>2 DEF Under, Counted
    <3>3. CASE b # c /\ Under(requests[b])
      <4>1. b \in D!InProgress
        BY <3>3 DEF D!InProgress, Under
      <4>2. terminal'.taken = terminal.taken /\ challenge' = challenge /\ count' = count
        BY <1>4, <3>3, <4>1 DEF DigestInv
      <4>3. Counted(requests[b], challenge, count, terminal) /\ requests'[b] = requests[b]
        BY <1>1, <1>4, <3>3 DEF DigestInv
      <4> QED BY <4>2, <4>3 DEF Counted
    <3> QED BY <3>1, <3>2, <3>3
  <2>4. terminal'.taken # {} => terminal'.known
    BY <1>4 DEF DigestInv
  <2> QED BY <1>4, <2>2, <2>3, <2>4
<1> QED BY <1>2, <1>3, <1>4 DEF DigestInv

\* What the cases need of a call that is under way.
LEMMA CallIs ==
  ASSUME DigestInv, NEW c \in Handlers
  PROVE  /\ requests[c] \in Requests /\ Current(requests[c], terminal)
         /\ Under(requests[c]) => requests[c].disturbed \in BOOLEAN
         /\ requests[c].at = "sent" =>
               /\ requests[c].try \in {1, 2}
               /\ requests[c].header \in [nonce : Nonces, nc : Nat]
         /\ requests[c].at = "answered" =>
               requests[c].try \in {1, 2} /\ requests[c].ok \in BOOLEAN /\ requests[c].nonce \in Nat
<1>1. requests[c] \in Requests /\ Current(requests[c], terminal)
  BY DEF DigestInv, DigestTypes
<1>2. requests[c].at = "sent" => requests[c] \in OnItsWay
  BY <1>1, RequestKinds
<1>3. requests[c].at = "answered" => requests[c] \in Replied
  BY <1>1, RequestKinds
<1> QED BY <1>1, <1>2, <1>3 DEF Under, OnItsWay, Replied

LEMMA BeginCall ==
  ASSUME ~Shares, DigestInv, NEW c \in Handlers, D!Begin(c)
  PROVE  DigestInv'
<1>1. /\ UNCHANGED <<challenge, terminal>> /\ challenge \in Nonces /\ count \in Nat
      /\ count' = IF challenge = None THEN count ELSE count + 1
      /\ terminal.strict => D!InProgress = {}
      /\ terminal \in [offers : Offerings, strict : BOOLEAN, nonce : Nat, taken : SUBSET Nat,
                       known : BOOLEAN]
  BY DEF D!Begin, D!NextCount, DigestInv, DigestTypes
<1>2. PICK header : header = D!Header(challenge, count')
  OBVIOUS
<1>3. PICK call : call = [at |-> "sent", try |-> 1, header |-> header, disturbed |-> FALSE]
  OBVIOUS
<1>4. D!Call(c, call)
  BY <1>2, <1>3 DEF D!Begin
<1>5. header \in [nonce : Nonces, nc : Nat] /\ count' \in Nat
  BY <1>1, <1>2 DEF D!Header
<1>6. call \in Requests /\ call.at = "sent" /\ call.try = 1 /\ call.header = header
  BY <1>3, <1>5 DEF OnItsWay, Requests
<1>7. terminal.strict /\ terminal.taken # {} =>
         /\ challenge = terminal.nonce /\ count' = count + 1 /\ \A n \in terminal.taken : n <= count
  BY <1>1, NoneAssumption DEF DigestInv
<1>8. terminal.strict => Counted(call, challenge', count', terminal')
  <2>1. terminal.taken \subseteq Nat
    BY <1>1
  <2>2. terminal.strict /\ terminal.taken # {} => count' \notin terminal.taken
    BY <1>1, <1>7, <2>1
  <2> QED BY <1>1, <1>2, <1>6, <2>2 DEF Counted
<1>9. terminal.strict /\ terminal'.taken # {} =>
         challenge' = terminal.nonce /\ \A n \in terminal'.taken : n <= count'
  <2>1. terminal.taken \subseteq Nat
    BY <1>1
  <2> QED BY <1>1, <1>7, <2>1
<1>10. Current(call, terminal')
  BY <1>6 DEF Current
<1> QED BY <1>1, <1>4, <1>5, <1>6, <1>8, <1>9, <1>10, DigestStep

LEMMA AnswerCall ==
  ASSUME DigestInv, NEW c \in Handlers, D!Answer(c)
  PROVE  DigestInv'
<1>1. PICK old \in OnItsWay : old = requests[c]
  BY CallIs, RequestKinds DEF D!Answer
<1>2. PICK valid \in BOOLEAN : valid = D!Valid(old.header)
  BY <1>1 DEF D!Valid
<1>3. PICK call : call = [at |-> "answered", try |-> old.try, ok |-> valid, nonce |-> terminal.nonce,
                          disturbed |-> old.disturbed]
  OBVIOUS
<1>4. /\ D!Call(c, call) /\ UNCHANGED <<challenge, count>>
      /\ terminal' = IF valid THEN [terminal EXCEPT !.taken = @ \cup {old.header.nc}] ELSE terminal
  BY <1>1, <1>2, <1>3 DEF D!Answer
<1>5. PICK t \in [offers : Offerings, strict : BOOLEAN, nonce : Nat, taken : SUBSET Nat,
                  known : BOOLEAN] : t = terminal
  BY DEF DigestInv, DigestTypes
<1>6. /\ old.at = "sent" /\ old.try \in {1, 2} /\ old.disturbed \in BOOLEAN
      /\ old.header.nc \in Nat
  BY DEF OnItsWay
<1>7. /\ terminal' \in [offers : Offerings, strict : BOOLEAN, nonce : Nat, taken : SUBSET Nat,
                        known : BOOLEAN]
      /\ terminal'.nonce = t.nonce /\ terminal'.known = t.known /\ terminal'.strict = t.strict
      /\ terminal'.taken = IF valid THEN t.taken \cup {old.header.nc} ELSE t.taken
  BY <1>4, <1>5, <1>6
<1>8. /\ call \in Requests /\ call.at = "answered" /\ call.try = old.try /\ call.ok = valid
      /\ call.nonce = t.nonce /\ call.disturbed = old.disturbed
  BY <1>2, <1>3, <1>5, <1>6 DEF Replied, Requests
<1>9. valid <=> /\ old.header.nonce = t.nonce /\ t.known
                /\ t.strict => old.header.nc \notin t.taken
  BY <1>2, <1>5 DEF D!Valid
<1>10. Current(call, terminal')
  <2>1. Current(old, t)
    BY <1>1, <1>5, CallIs
  <2>2. old.try = 2 /\ ~old.disturbed /\ ~valid => ~t.known
    BY <1>6, <1>9, <2>1 DEF Current
  <2> QED BY <1>6, <1>7, <1>8, <2>2 DEF Current
<1>11. t.strict => /\ Counted(old, challenge, count, t)
                   /\ t.taken # {} => challenge = t.nonce /\ t.known /\ \A n \in t.taken : n <= count
  BY <1>1, <1>5 DEF DigestInv
<1>12. t.strict => /\ old.header.nonce = challenge /\ old.header.nc = count
                   /\ t.taken # {} => count \notin t.taken
  BY <1>6, <1>11 DEF Counted, D!Header
<1>13. t.strict => Counted(call, challenge', count', terminal')
  BY <1>4, <1>7, <1>8, <1>9, <1>11, <1>12 DEF Counted
<1>14. t.strict /\ terminal'.taken # {} =>
          challenge' = t.nonce /\ \A n \in terminal'.taken : n <= count'
  <2>1. count \in Nat
    BY DEF DigestInv, DigestTypes
  <2> QED BY <1>4, <1>7, <1>9, <1>11, <1>12, <2>1
<1>15. Under(requests[c]) /\ (terminal'.taken # terminal.taken => terminal.known)
  BY <1>1, <1>5, <1>6, <1>7, <1>9 DEF Under
<1>16. challenge' \in Nonces /\ count' \in Nat
  BY <1>4 DEF DigestInv, DigestTypes
<1> QED BY <1>4, <1>5, <1>7, <1>8, <1>10, <1>13, <1>14, <1>15, <1>16, DigestStep

\* The end of a call, whatever is left cached.
LEMMA EndCall ==
  ASSUME DigestInv, NEW c \in Handlers, Under(requests[c]),
         NEW outcome \in {"ok", "not offered", "refused", "failed"},
         D!Call(c, D!Done(requests[c], outcome)), UNCHANGED <<count, terminal>>,
         \/ challenge' = challenge
         \/ challenge' = None /\ (terminal.strict => terminal.taken = {})
  PROVE  DigestInv'
<1>1. PICK call : call = D!Done(requests[c], outcome)
  OBVIOUS
<1>2. requests[c].disturbed \in BOOLEAN
  BY CallIs
<1>3. /\ call \in Requests /\ ~Under(call) /\ Current(call, terminal')
      /\ Counted(call, challenge', count', terminal')
  <2>1. call \in Ended /\ call.at = "done"
    BY <1>1, <1>2 DEF D!Done, Ended
  <2> QED BY <2>1 DEF Requests, Under, Current, Counted
<1>4. challenge' \in Nonces /\ count' \in Nat
  BY DEF DigestInv, DigestTypes, Nonces
<1>5. terminal' \in [offers : Offerings, strict : BOOLEAN, nonce : Nat, taken : SUBSET Nat,
                     known : BOOLEAN]
  BY DEF DigestInv, DigestTypes
<1>6. terminal.strict /\ terminal'.taken # {} =>
         challenge' = terminal.nonce /\ \A n \in terminal'.taken : n <= count'
  BY DEF DigestInv
<1>7. terminal.strict => Counted(call, challenge', count', terminal')
  BY <1>3
<1> QED BY <1>1, <1>3, <1>4, <1>5, <1>6, <1>7, DigestStep

LEMMA EndSteps ==
  ASSUME DigestInv, NEW c \in Handlers, D!Accepted(c) \/ D!Rejected(c) \/ D!Fail(c)
  PROVE  DigestInv'
<1>1. CASE D!Accepted(c)
  <2>1. Under(requests[c])
    BY <1>1 DEF D!Accepted, Under
  <2> QED BY <1>1, <2>1, EndCall DEF D!Accepted
<1>2. CASE D!Fail(c)
  <2>1. Under(requests[c])
    BY <1>2 DEF D!Fail, D!InProgress, Under
  <2> QED BY <1>2, <2>1, EndCall DEF D!Fail
<1>3. CASE D!Rejected(c)
  <2>1. Under(requests[c])
    BY <1>3 DEF D!Rejected, Under
  <2>2. terminal.strict => terminal.taken = {}
    BY <1>3 DEF D!Rejected, DigestInv, Counted
  <2> QED BY <1>3, <2>1, <2>2, EndCall DEF D!Rejected
<1> QED BY <1>1, <1>2, <1>3

LEMMA ChallengedCall ==
  ASSUME DigestInv, NEW c \in Handlers, D!Challenged(c)
  PROVE  DigestInv'
<1>1. PICK old \in Replied : old = requests[c]
  BY CallIs, RequestKinds DEF D!Challenged
<1>2. Under(requests[c]) /\ old.at = "answered" /\ ~old.ok
  BY <1>1 DEF D!Challenged, Under, Replied
<1>3. CASE D!Strongest(terminal.offers) \in {None, "Basic"}
  <2>1. D!Call(c, D!Done(requests[c], "not offered")) /\ UNCHANGED <<challenge, count, terminal>>
    BY <1>3 DEF D!Challenged
  <2> QED BY <1>2, <2>1, EndCall
<1>4. CASE D!Strongest(terminal.offers) \notin {None, "Basic"}
  <2>1. PICK call : call = [at |-> "sent", try |-> 2, header |-> D!Header(old.nonce, 1),
                            disturbed |-> old.disturbed]
    OBVIOUS
  <2>2. D!Call(c, call) /\ challenge' = old.nonce /\ count' = 1 /\ UNCHANGED terminal
    BY <1>1, <1>4, <2>1 DEF D!Challenged
  <2>3. old.nonce \in Nat /\ old.disturbed \in BOOLEAN
    BY DEF Replied
  <2>4. D!Header(old.nonce, 1) \in [nonce : Nonces, nc : Nat]
    BY <2>3 DEF D!Header, Nonces
  <2>5. /\ call \in Requests /\ call.at = "sent" /\ call.try = 2 /\ call.disturbed = old.disturbed
        /\ call.header = D!Header(old.nonce, 1)
    BY <2>1, <2>3, <2>4 DEF OnItsWay, Requests
  <2>6. terminal.strict => terminal.taken = {}
    BY <1>1, <1>2 DEF DigestInv, Counted
  <2>7. Current(call, terminal')
    <3>1. ~old.disturbed => old.nonce = terminal.nonce
      BY <1>1, <1>2, CallIs DEF Current
    <3> QED BY <2>2, <2>5, <2>6, <3>1 DEF Current, D!Header
  <2>8. terminal.strict => Counted(call, challenge', count', terminal')
    BY <2>2, <2>5, <2>6 DEF Counted
  <2>9. terminal' \in [offers : Offerings, strict : BOOLEAN, nonce : Nat, taken : SUBSET Nat,
                       known : BOOLEAN]
    BY <2>2 DEF DigestInv, DigestTypes
  <2> QED BY <1>2, <2>2, <2>3, <2>5, <2>6, <2>7, <2>8, <2>9, DigestStep DEF Nonces
<1> QED BY <1>3, <1>4

LEMMA ExpireStep ==
  ASSUME DigestInv, NEW known \in BOOLEAN, D!ExpireNonce(known)
  PROVE  DigestInv'
<1>1. PICK t \in [offers : Offerings, strict : BOOLEAN, nonce : Nat, taken : SUBSET Nat,
                  known : BOOLEAN] : t = terminal
  BY DEF DigestInv, DigestTypes
<1>2. /\ UNCHANGED <<challenge, count>>
      /\ terminal' \in [offers : Offerings, strict : BOOLEAN, nonce : Nat, taken : SUBSET Nat,
                        known : BOOLEAN]
      /\ terminal'.nonce = t.nonce + 1 /\ terminal'.known = known /\ terminal'.taken = {}
      /\ terminal'.strict = t.strict
  <2>1. terminal' = [t EXCEPT !.nonce = @ + 1, !.known = known, !.taken = {}]
    BY <1>1 DEF D!ExpireNonce
  <2>2. PICK new : new = [t EXCEPT !.nonce = @ + 1, !.known = known, !.taken = {}]
    OBVIOUS
  <2>3. /\ new \in [offers : Offerings, strict : BOOLEAN, nonce : Nat, taken : SUBSET Nat,
                     known : BOOLEAN]
        /\ new.nonce = t.nonce + 1 /\ new.known = known /\ new.taken = {} /\ new.strict = t.strict
    <3>1. new \in [offers : Offerings, strict : BOOLEAN, nonce : Nat, taken : SUBSET Nat,
                   known : BOOLEAN]
      <4>1. /\ t.offers \in Offerings /\ t.strict \in BOOLEAN /\ t.nonce + 1 \in Nat
            /\ t = [offers |-> t.offers, strict |-> t.strict, nonce |-> t.nonce,
                    taken |-> t.taken, known |-> t.known]
        OBVIOUS
      <4>2. new = [offers |-> t.offers, strict |-> t.strict, nonce |-> t.nonce + 1,
                   taken |-> {}, known |-> known]
        BY <2>2, <4>1
      <4>3. {} \in SUBSET Nat
        OBVIOUS
      <4> QED BY <4>1, <4>2, <4>3
    <3>2. new.nonce = t.nonce + 1 /\ new.known = known
      BY <2>2
    <3>3. new.taken = {} /\ new.strict = t.strict
      BY <2>2
    <3> QED BY <3>1, <3>2, <3>3
  <2> QED BY <2>1, <2>2, <2>3 DEF D!ExpireNonce
<1>3. ASSUME NEW c \in Handlers
      PROVE  /\ requests'[c] \in Requests
             /\ requests'[c].at = requests[c].at
             /\ requests[c].at = "sent" => requests'[c].header = requests[c].header
             /\ requests[c].at = "sent" => requests'[c].try = requests[c].try
             /\ Under(requests[c]) /\ D!Committed(requests[c]) => requests'[c].disturbed
  <2>1. requests'[c] = IF Under(requests[c]) /\ (D!Committed(requests[c]) \/ known # t.known)
                       THEN [requests[c] EXCEPT !.disturbed = TRUE] ELSE requests[c]
    BY <1>1 DEF D!ExpireNonce, D!InProgress, Under
  <2>2. requests[c] \in Requests
    BY CallIs
  <2>3. CASE requests[c].at = "sent"
    <3>1. PICK old \in OnItsWay : old = requests[c]
      BY <2>2, <2>3, RequestKinds
    <3>2. PICK new : new = [old EXCEPT !.disturbed = TRUE]
      OBVIOUS
    <3>3. /\ new \in OnItsWay /\ new.at = old.at /\ new.header = old.header /\ new.try = old.try
          /\ new.disturbed
      BY <3>2 DEF OnItsWay
    <3> QED BY <2>1, <2>2, <3>1, <3>2, <3>3 DEF Requests
  <2>4. CASE requests[c].at = "answered"
    <3>1. PICK old \in Replied : old = requests[c]
      BY <2>2, <2>4, RequestKinds
    <3>2. PICK new : new = [old EXCEPT !.disturbed = TRUE]
      OBVIOUS
    <3>3. new \in Replied /\ new.at = old.at /\ new.disturbed
      BY <3>2 DEF Replied
    <3> QED BY <2>1, <2>2, <2>4, <3>1, <3>2, <3>3 DEF Requests
  <2>5. CASE ~Under(requests[c])
    BY <2>1, <2>2, <2>5 DEF Under
  <2> QED BY <2>3, <2>4, <2>5 DEF Under
<1>4. requests' \in [Handlers -> Requests]
  <2>1. requests' = [c \in Handlers |-> requests'[c]]
    BY DEF D!ExpireNonce
  <2> QED BY <1>3, <2>1
<1>5. DigestTypes'
  BY <1>2, <1>4 DEF DigestInv, DigestTypes
<1>6. \A c \in Handlers : Current(requests'[c], terminal')
  <2> SUFFICES ASSUME NEW c \in Handlers PROVE Current(requests'[c], terminal')
    OBVIOUS
  <2> QED BY <1>3 DEF Current, Under, D!Committed
<1>7. terminal'.strict => \A c \in Handlers : Counted(requests'[c], challenge', count', terminal')
  <2> SUFFICES ASSUME t.strict, NEW c \in Handlers
               PROVE  Counted(requests'[c], challenge', count', terminal')
    BY <1>2
  <2>1. Counted(requests[c], challenge, count, terminal)
    BY <1>1 DEF DigestInv
  <2> QED BY <1>2, <1>3, <2>1 DEF Counted
<1>8. terminal'.strict => \A b, c \in Handlers : Under(requests'[b]) /\ Under(requests'[c]) => b = c
  BY <1>1, <1>2, <1>3 DEF DigestInv, Under
<1> QED BY <1>2, <1>5, <1>6, <1>7, <1>8 DEF DigestInv

\* While no two calls overlap on a terminal that takes each count once: a call is told that its
\* password is wrong only if it is, or the nonce was replaced under its second try, for any number
\* of callers, expired nonces, changed passwords, timeouts and lost answers (request, send).
THEOREM RefusedOnlyForCause ==
  ASSUME ~Shares
  PROVE  Spec => RefusedForCause
<1>1. Init => DigestInv
  BY DigestInit DEF Init
<1>2. DigestInv /\ [Next]_vars => DigestInv'
  <2>1. [Next]_vars => D!Next \/ UNCHANGED digest
    BY DEF Next, vars
  <2>2. ASSUME DigestInv, D!Next PROVE DigestInv'
    BY <2>2, BeginCall, AnswerCall, EndSteps, ChallengedCall, ExpireStep DEF D!Next, D!Handle
  <2> QED BY <2>1, <2>2, DigestAlone
<1>3. ASSUME DigestInv, NEW c \in Handlers, D!Rejected(c)
      PROVE  requests[c].disturbed \/ ~terminal.known
  BY <1>3, CallIs DEF D!Rejected, Current
<1>4. DigestInv /\ [Next]_vars =>
         [\A c \in Handlers : D!Rejected(c) => requests[c].disturbed \/ ~terminal.known]_D!vars
  BY <1>3
<1> QED BY <1>1, <1>2, <1>4, PTL DEF Spec, RefusedForCause, D!RefusedForCause

-----------------------------------------------------------------------------
(* The times terminals report.                                             *)

Dates == [year : 2000..2099, month : 1..12, day : 1..31]
Locals == [date : Dates, hour : 0..23]

\* What a terminal wrote of a punch at an instant: packed, or as text with or without its offset.
Reported(at, driver, dated) ==
    LET local == R!FromUTC(R!Wall(at)) IN
    IF driver = "ZKTECO" THEN R!EncodeTime(local)
    ELSE [local |-> local, offset |-> IF dated THEN R!Offset(at) ELSE None]

\* Who told it, and whether with its offset.
PunchKinds == {<<"ZKTECO", FALSE>>, <<"HIKVISION", TRUE>>, <<"HIKVISION", FALSE>>}

PunchesMade ==
    {[at |-> at, driver |-> kind[1], told |-> kind[2], value |-> Reported(at, kind[1], kind[2])] :
        at \in FirstHour..LastHour, kind \in PunchKinds}

ReadingInv ==
    /\ hour \in FirstHour..LastHour /\ zone \in Zones
    /\ punches \in Seq(PunchesMade)

\* The days and the seconds a time is packed into, and what is unpacked from them.
PackedDays(year, month, day) == year * 12 * 31 + month * 31 + day
PackedTime(days, h) == days * 86400 + h * 3600
DaysIn(value) == value \div 86400
HourIn(value) == (value \div 3600) % 24
YearIn(days) == (days \div 31) \div 12
MonthIn(days) == (days \div 31) % 12
DayIn(days) == days % 31

LEMMA SecondsOf ==
  ASSUME NEW days \in Int, NEW h \in 0..23
  PROVE  DaysIn(PackedTime(days, h)) = days /\ HourIn(PackedTime(days, h)) = h
<1>1. PackedTime(days, h) \div 86400 = days
  BY SMT DEF PackedTime
<1>2. PackedTime(days, h) \div 3600 = days * 24 + h
  BY SMT DEF PackedTime
<1>3. (days * 24 + h) % 24 = h
  BY SMT
<1> QED BY <1>1, <1>2, <1>3, SMT DEF DaysIn, HourIn

LEMMA DaysOf ==
  ASSUME NEW year \in Int, NEW month \in 0..11, NEW day \in 0..30
  PROVE  /\ PackedDays(year, month, day) \in Int
         /\ YearIn(PackedDays(year, month, day)) = year
         /\ MonthIn(PackedDays(year, month, day)) = month
         /\ DayIn(PackedDays(year, month, day)) = day
<1>1. PackedDays(year, month, day) \div 31 = year * 12 + month
  BY SMT DEF PackedDays
<1>2. (year * 12 + month) \div 12 = year
  BY SMT
<1>3. (year * 12 + month) % 12 = month
  BY SMT
<1>4. PackedDays(year, month, day) % 31 = day
  BY SMT DEF PackedDays
<1>5. PackedDays(year, month, day) \in Int
  BY SMT DEF PackedDays
<1> QED BY <1>1, <1>2, <1>3, <1>4, <1>5, SMT DEF YearIn, MonthIn, DayIn

\* What a terminal packs into a number, it is unpacked from it.
LEMMA Unpacked ==
  ASSUME NEW local \in Locals
  PROVE  R!DecodeTime(R!EncodeTime(local)) = local
<1>1. /\ local = [date |-> local.date, hour |-> local.hour]
      /\ local.date \in Dates /\ local.hour \in 0..23
  BY DEF Locals
<1>2. PICK date \in Dates, h \in 0..23 : local = [date |-> date, hour |-> h]
  BY <1>1
<1>3. /\ date = [year |-> date.year, month |-> date.month, day |-> date.day]
      /\ date.year \in 2000..2099 /\ date.month \in 1..12 /\ date.day \in 1..31
  BY DEF Dates
<1>4. PICK y \in 0..99 : y = date.year % 100 /\ y + 2000 = date.year
  BY <1>3
<1>5. PICK m \in 0..11 : m = date.month - 1 /\ m + 1 = date.month
  BY <1>3
<1>6. PICK d \in 0..30 : d = date.day - 1 /\ d + 1 = date.day
  BY <1>3
<1>7. PICK value : value = PackedTime(PackedDays(y, m, d), h)
  OBVIOUS
<1>8. R!EncodeTime(local) = value
  <2>1. local.date = date /\ local.hour = h
    BY <1>2
  <2>2. R!EncodeTime(local)
           = PackedTime(PackedDays(date.year % 100, date.month - 1, date.day - 1), h)
    BY <2>1 DEF R!EncodeTime, PackedTime, PackedDays
  <2> QED BY <1>4, <1>5, <1>6, <1>7, <2>2
<1>9. R!DecodeTime(value) =
         [date |-> [year |-> YearIn(DaysIn(value)) + 2000, month |-> MonthIn(DaysIn(value)) + 1,
                    day |-> DayIn(DaysIn(value)) + 1],
          hour |-> HourIn(value)]
  BY DEF R!DecodeTime, YearIn, MonthIn, DayIn, DaysIn, HourIn
<1>10. /\ YearIn(DaysIn(value)) = y /\ MonthIn(DaysIn(value)) = m /\ DayIn(DaysIn(value)) = d
      /\ HourIn(value) = h
  <2>1. PICK days : days = PackedDays(y, m, d)
    OBVIOUS
  <2>2. y \in Int /\ m \in 0..11 /\ d \in 0..30
    OBVIOUS
  <2>3. /\ PackedDays(y, m, d) \in Int /\ YearIn(PackedDays(y, m, d)) = y
        /\ MonthIn(PackedDays(y, m, d)) = m /\ DayIn(PackedDays(y, m, d)) = d
    BY <2>2, DaysOf
  <2>4. days \in Int /\ YearIn(days) = y /\ MonthIn(days) = m /\ DayIn(days) = d
    BY <2>1, <2>3
  <2>5. value = PackedTime(days, h)
    BY <1>7, <2>1
  <2>6. DaysIn(PackedTime(days, h)) = days /\ HourIn(PackedTime(days, h)) = h
    BY <2>4, SecondsOf
  <2> QED BY <2>4, <2>5, <2>6
<1> QED BY <1>2, <1>3, <1>4, <1>5, <1>6, <1>8, <1>9, <1>10

\* What a clock shows is a date of Days and an hour, and tells the hours since the first.
LEMMA ShownTime ==
  ASSUME NEW n \in 0..(24 * Len(Days) - 1)
  PROVE  R!FromUTC(n) \in Locals /\ R!AsUTC(R!FromUTC(n)) = n
<1>1. PICK length \in Nat : length = Len(Days)
  BY ReadingsAssumption
<1>2. n \in Int /\ 0 <= n /\ n < 24 * length
  BY <1>1
<1>3. PICK q \in Int : q = n \div 24
  BY <1>2
<1>4. PICK r \in 0..23 : r = n % 24 /\ n = 24 * q + r
  <2>1. n % 24 \in 0..23 /\ n = 24 * (n \div 24) + (n % 24)
    BY <1>2, SMT
  <2> QED BY <1>3, <2>1
<1>5. PICK i \in 1..length : i = q + 1
  <2>1. 0 <= q /\ q < length
    BY <1>2, <1>4
  <2> QED BY <2>1
<1>6. Days \in Seq(Dates) /\ \A k, j \in DOMAIN Days : Days[k] = Days[j] => k = j
  BY ReadingsAssumption DEF Dates
<1>7. Days[i] \in Dates /\ DOMAIN Days = 1..Len(Days) /\ i = q + 1 /\ i \in DOMAIN Days
  BY <1>1, <1>5, <1>6
<1>8. R!FromUTC(n) = [date |-> Days[i], hour |-> r]
  BY <1>3, <1>4, <1>7 DEF R!FromUTC
<1>9. (CHOOSE j \in DOMAIN Days : Days[j] = Days[i]) = i
  BY <1>7, <1>6
<1>10. R!AsUTC(R!FromUTC(n)) = 24 * (i - 1) + r
  <2>1. R!FromUTC(n).date = Days[i] /\ R!FromUTC(n).hour = r
    BY <1>8
  <2> QED BY <1>9, <2>1 DEF R!AsUTC
<1>11. R!FromUTC(n) \in Locals
  BY <1>7, <1>8 DEF Locals
<1>12. 24 * (i - 1) + r = n
  BY <1>4, <1>7
<1> QED BY <1>10, <1>11, <1>12

\* What a clock of the zone shows is turned into an instant at which it shows that.
LEMMA Found ==
  ASSUME zone \in Zones, NEW instant \in Int
  PROVE  /\ R!ToInstant(R!Wall(instant)) \in Int
         /\ R!Wall(R!ToInstant(R!Wall(instant))) = R!Wall(instant)
<1>1. zone.before \in Int /\ zone.after \in Int /\ zone.at \in Int
  BY ReadingsAssumption
<1> QED BY <1>1 DEF R!ToInstant, R!Wall, R!Offset

LEMMA FoundInOrder ==
  ASSUME zone \in Zones, NEW a \in Int, NEW b \in Int, R!Wall(a) < R!Wall(b)
  PROVE  R!ToInstant(R!Wall(a)) < R!ToInstant(R!Wall(b))
<1>1. zone.before \in Int /\ zone.after \in Int /\ zone.at \in Int
  BY ReadingsAssumption
<1> QED BY <1>1 DEF R!ToInstant, R!Wall, R!Offset

LEMMA Walls ==
  ASSUME zone \in Zones, NEW instant \in FirstHour..LastHour
  PROVE  /\ instant \in Int /\ R!Offset(instant) \in Int
         /\ R!Wall(instant) = instant + R!Offset(instant)
         /\ R!FromUTC(R!Wall(instant)) \in Locals
         /\ R!AsUTC(R!FromUTC(R!Wall(instant))) = R!Wall(instant)
<1>1. zone.before \in Int /\ zone.after \in Int /\ zone.at \in Int
  BY ReadingsAssumption
<1>2. R!Wall(instant) \in 0..(24 * Len(Days) - 1)
  <2>1. R!Offset(instant) \in {zone.before, zone.after}
    BY DEF R!Offset
  <2>2. FirstHour + R!Offset(instant) >= 0 /\ LastHour + R!Offset(instant) < 24 * Len(Days)
    BY <2>1, ReadingsAssumption
  <2>3. Len(Days) \in Nat
    BY ReadingsAssumption
  <2> QED BY <1>1, <2>1, <2>2, <2>3, ReadingsAssumption DEF R!Wall
<1>3. instant \in Int /\ R!Offset(instant) \in Int
  BY <1>1, ReadingsAssumption DEF R!Offset
<1>4. R!Wall(instant) = instant + R!Offset(instant)
  BY DEF R!Wall
<1>5. PICK n \in 0..(24 * Len(Days) - 1) : n = R!Wall(instant)
  BY <1>2
<1> QED BY <1>3, <1>4, <1>5, ShownTime

\* What was written at an instant is read as one at which the clock shows the same.
LEMMA ReadAgain ==
  ASSUME zone \in Zones, NEW p \in PunchesMade
  PROVE  /\ p.at \in FirstHour..LastHour /\ p.told \in BOOLEAN
         /\ R!Timestamp(p) = IF p.told THEN p.at ELSE R!ToInstant(R!Wall(p.at))
<1>1. PICK at \in FirstHour..LastHour, kind \in PunchKinds :
         p = [at |-> at, driver |-> kind[1], told |-> kind[2],
              value |-> Reported(at, kind[1], kind[2])]
  BY DEF PunchesMade
<1>2. \/ kind = <<"ZKTECO", FALSE>>
      \/ kind = <<"HIKVISION", TRUE>>
      \/ kind = <<"HIKVISION", FALSE>>
  BY DEF PunchKinds
<1>3. PICK driver, dated :
         /\ kind[1] = driver /\ kind[2] = dated
         /\ \/ driver = "ZKTECO" /\ dated = FALSE
            \/ driver = "HIKVISION" /\ dated = TRUE
            \/ driver = "HIKVISION" /\ dated = FALSE
  <2>1. CASE kind = <<"ZKTECO", FALSE>>
    BY <2>1
  <2>2. CASE kind = <<"HIKVISION", TRUE>>
    BY <2>2
  <2>3. CASE kind = <<"HIKVISION", FALSE>>
    BY <2>3
  <2> QED BY <1>2, <2>1, <2>2, <2>3
<1>4. driver \in {"ZKTECO", "HIKVISION"} /\ dated \in BOOLEAN /\ (driver = "ZKTECO" => ~dated)
  BY <1>3
<1>5. p.at = at /\ p.driver = driver /\ p.told = dated /\ p.value = Reported(at, driver, dated)
  BY <1>1, <1>3, <1>4
<1>6. PICK local \in Locals : local = R!FromUTC(R!Wall(at))
  BY Walls
<1>7. R!LocalTimeToInstant(local) = R!ToInstant(R!Wall(at))
  BY <1>6, Walls DEF R!LocalTimeToInstant
<1>8. CASE driver = "ZKTECO"
  <2>1. p.value = R!EncodeTime(local) /\ ~dated
    BY <1>5, <1>6, <1>8, <1>4 DEF Reported
  <2>2. R!DecodeTime(p.value) = local
    BY <2>1, Unpacked
  <2>3. R!Timestamp(p) = R!LocalTimeToInstant(local)
    BY <1>5, <1>8, <2>2 DEF R!Timestamp
  <2> QED BY <1>4, <1>5, <1>7, <2>1, <2>3
<1>9. CASE driver # "ZKTECO"
  <2>1. p.value = [local |-> local, offset |-> IF dated THEN R!Offset(at) ELSE None]
    BY <1>5, <1>6, <1>9 DEF Reported
  <2>2. R!Timestamp(p) = R!ParseIsapiTime(p.value)
    BY <1>5, <1>9 DEF R!Timestamp
  <2>3. CASE dated
    <3>1. p.value.local = local /\ p.value.offset = R!Offset(at) /\ p.value.offset # None
      BY <2>1, <2>3, Walls, ReadingsAssumption
    <3>2. R!Timestamp(p) = R!Wall(at) - R!Offset(at)
      BY <1>6, <2>2, <3>1, Walls DEF R!ParseIsapiTime
    <3>3. R!Timestamp(p) = at
      BY <3>2, Walls
    <3> QED BY <1>4, <1>5, <2>3, <3>3
  <2>4. CASE ~dated
    <3>1. p.value.local = local /\ p.value.offset = None
      BY <2>1, <2>4
    <3> QED BY <1>4, <1>5, <1>7, <2>2, <2>4, <3>1 DEF R!ParseIsapiTime
  <2> QED BY <2>3, <2>4
<1> QED BY <1>5, <1>8, <1>9

LEMMA ReadingInit == R!Init => ReadingInv
BY ReadingsAssumption DEF R!Init, ReadingInv

LEMMA SameReports ==
  ASSUME zone' = zone
  PROVE  PunchesMade' = PunchesMade
BY DEF PunchesMade, Reported, R!Wall, R!Offset

LEMMA ReadingAlone == ReadingInv /\ UNCHANGED readings => ReadingInv'
BY SameReports DEF readings, ReadingInv

LEMMA ReadingStep == ReadingInv /\ R!Next => ReadingInv'
<1> SUFFICES ASSUME ReadingInv, R!Next PROVE ReadingInv'
  OBVIOUS
<1>1. CASE R!Pass
  <2>1. PunchesMade' = PunchesMade
    BY <1>1, SameReports DEF R!Pass
  <2> QED BY <1>1, <2>1, ReadingsAssumption DEF R!Pass, ReadingInv
<1>2. CASE R!Punch
  <2>1. PunchesMade' = PunchesMade
    BY <1>2, SameReports DEF R!Punch
  <2>2. PICK driver \in {"ZKTECO", "HIKVISION"}, dated \in BOOLEAN :
           /\ driver = "ZKTECO" => ~dated
           /\ punches' = Append(punches, [at |-> hour, driver |-> driver, told |-> dated,
                                          value |-> R!Written(driver, dated)])
    BY <1>2 DEF R!Punch
  <2>3. R!Written(driver, dated) = Reported(hour, driver, dated)
    BY DEF R!Written, Reported, R!FormatLocalIso
  <2>4. PICK kind \in PunchKinds : kind = <<driver, dated>>
    BY <2>2 DEF PunchKinds
  <2>5. kind[1] = driver /\ kind[2] = dated
    BY <2>4
  <2>6. [at |-> hour, driver |-> driver, told |-> dated, value |-> R!Written(driver, dated)]
            \in PunchesMade
    BY <2>3, <2>5 DEF PunchesMade, ReadingInv
  <2> QED BY <1>2, <2>1, <2>2, <2>6 DEF R!Punch, ReadingInv
<1> QED BY <1>1, <1>2 DEF R!Next

LEMMA ReadingsKept == ReadingInv => ReadingsAreKept
<1> SUFFICES ASSUME ReadingInv PROVE ReadingsAreKept
  OBVIOUS
<1>1. zone \in Zones /\ FirstHour \in Int /\ LastHour \in Int
  BY ReadingsAssumption DEF ReadingInv
<1>2. \A i \in DOMAIN punches : punches[i] \in PunchesMade
  BY DEF ReadingInv
<1>3. ASSUME NEW i \in DOMAIN punches
      PROVE  /\ R!Wall(R!Timestamp(punches[i])) = R!Wall(punches[i].at)
             /\ punches[i].told => R!Timestamp(punches[i]) = punches[i].at
  <2>1. PICK p \in PunchesMade : p = punches[i]
    BY <1>2
  <2>2. p.at \in Int
    BY <1>1, ReadAgain
  <2> QED BY <1>1, <2>1, <2>2, ReadAgain, Found
<1>4. ASSUME NEW i \in DOMAIN punches, NEW j \in DOMAIN punches,
             ~punches[i].told, ~punches[j].told,
             R!Wall(punches[i].at) < R!Wall(punches[j].at)
      PROVE  R!Timestamp(punches[i]) < R!Timestamp(punches[j])
  <2>1. PICK p \in PunchesMade : p = punches[i]
    BY <1>2
  <2>2. PICK q \in PunchesMade : q = punches[j]
    BY <1>2
  <2>3. p.at \in Int /\ q.at \in Int
    BY <1>1, ReadAgain
  <2>4. R!ToInstant(R!Wall(p.at)) < R!ToInstant(R!Wall(q.at))
    BY <1>1, <1>4, <2>1, <2>2, <2>3, FoundInOrder
  <2> QED BY <1>1, <1>4, <2>1, <2>2, <2>4, ReadAgain
<1>5. R!ParseIsapiTime(R!FormatLocalIso(hour)) = hour
  <2>1. hour \in FirstHour..LastHour
    BY DEF ReadingInv
  <2>2. PICK text : text = R!FormatLocalIso(hour)
    OBVIOUS
  <2>3. text.local = R!FromUTC(R!Wall(hour)) /\ text.offset = R!Offset(hour)
    BY <2>2 DEF R!FormatLocalIso
  <2>4. text.offset # None
    BY <1>1, <2>1, <2>3, Walls, ReadingsAssumption
  <2>5. R!ParseIsapiTime(text) = R!Wall(hour) - R!Offset(hour)
    BY <1>1, <2>1, <2>3, <2>4, Walls DEF R!ParseIsapiTime
  <2> QED BY <1>1, <2>1, <2>2, <2>5, Walls
<1> QED BY <1>3, <1>4, <1>5 DEF ReadingsAreKept, R!ReadingsAreKept

\* Whatever zones the devices are in and whenever their clocks change: a punch is dated at an
\* instant at which the clock showed what the terminal showed, the very one if it told its offset,
\* punches keep the order shown, and the bound of a search is the instant it was made of.
THEOREM TimesShownAreKept == Spec => []ReadingsAreKept
<1>1. Init => ReadingInv
  BY ReadingInit DEF Init
<1>2. ReadingInv /\ [Next]_vars => ReadingInv'
  BY ReadingStep, ReadingAlone DEF Next, vars
<1> QED BY <1>1, <1>2, ReadingsKept, PTL DEF Spec
==============================================================================
