----------------------------- MODULE PlatformProofs ----------------------------
(***************************************************************************)
(* What MCPlatform checks of a small instance, proved of any: that neither *)
(* an update of the policy nor its form undoes what somebody chose, that   *)
(* outages are announced once and so are their ends, that the search of a  *)
(* Hikvision terminal misses no event, that what one returned without      *)
(* failing is whole, and that the packets of a ZKTeco terminal are taken   *)
(* as they were sent.  A behaviour of MCPlatform is about one component,   *)
(* so each proof has three parts: the invariant and the step of its        *)
(* component, and that any other step leaves its variables alone.          *)
(***************************************************************************)
EXTENDS MCPlatform, FiniteSetTheorems, SequenceTheorems, TLAPS

-----------------------------------------------------------------------------
(* The policy of the server and its cache.                                 *)

\* An update that sets a rule to a value, and starts from the policy `from'.
Update(at, rule, value, from) ==
    [op |-> "update", at |-> at, rule |-> rule, value |-> value, current |-> from]

\* A policy that somebody holds is the stored one, but between the write of an update and the
\* end of its transaction; while an update is under way nobody else has begun.
PolicyInv ==
    /\ loads = [h \in Handlers |-> loads[h]]
    /\ wanted = stored
    /\ \A h \in Handlers :
          /\ loads[h].op = "load" => loads[h].seen = stored
          /\ loads[h].op = "update" =>
                /\ loads[h].at # "forget" =>
                      loads[h] = Update(loads[h].at, loads[h].rule, loads[h].value, stored)
                /\ \A g \in Handlers \ {h} : loads[g] = P!Idle
    /\ cache # None =>
          cache = stored \/ \E h \in Handlers : loads[h].op = "update" /\ loads[h].at = "forget"

LEMMA PolicyInit == P!Init => PolicyInv
BY DEF P!Init, P!Idle, PolicyInv

LEMMA PolicyAlone == PolicyInv /\ UNCHANGED policy => PolicyInv'
BY DEF policy, PolicyInv

LEMMA PolicyStep ==
  ASSUME ~UpdateRaces, PolicyInv, P!Next
  PROVE  PolicyInv'
<1>1. P!Idle.op = "idle"
  BY DEF P!Idle
<1>2. ASSUME NEW h \in Handlers, NEW job, P!Job(h, job)
      PROVE  /\ loads' = [g \in Handlers |-> loads'[g]]
             /\ loads'[h] = job
             /\ \A g \in Handlers \ {h} : loads'[g] = loads[g]
  BY <1>2 DEF P!Job, PolicyInv
<1>3. ASSUME NEW h \in Handlers, P!Load(h) PROVE PolicyInv'
  <2>1. PICK job : job = [op |-> "load", seen |-> stored] /\ P!Job(h, job)
    BY <1>3 DEF P!Load
  <2>2. /\ UNCHANGED <<stored, cache, wanted>> /\ cache = None
        /\ \A g \in Handlers : loads[g].op # "update"
    BY <1>3 DEF P!Load, P!Busy
  <2>3. job.op = "load" /\ job.seen = stored
    BY <2>1
  <2> QED BY <1>2, <2>1, <2>2, <2>3 DEF PolicyInv
<1>4. ASSUME NEW h \in Handlers, P!KeepLoaded(h) PROVE PolicyInv'
  <2>1. P!Job(h, P!Idle) /\ UNCHANGED <<stored, wanted>> /\ cache' = stored
    BY <1>4 DEF P!KeepLoaded, PolicyInv
  <2> QED BY <1>1, <1>2, <2>1 DEF PolicyInv
<1>5. ASSUME NEW h \in Handlers, P!BeginUpdate(h) PROVE PolicyInv'
  <2>1. /\ UNCHANGED <<stored, cache, wanted>>
        /\ \A g \in Handlers : loads[g] = P!Idle
    BY <1>5 DEF P!BeginUpdate
  <2>2. cache # None => cache = stored
    BY <1>1, <2>1 DEF PolicyInv
  <2>3. PICK at \in {"read", "merge"}, r \in Rules, v \in Values : P!Job(h, Update(at, r, v, stored))
    BY <1>5, <2>2 DEF P!BeginUpdate, Update
  <2>4. PICK job : job = Update(at, r, v, stored)
    OBVIOUS
  <2>5. job.op = "update" /\ job.at = at /\ job.rule = r /\ job.value = v
    BY <2>4 DEF Update
  <2>6. job = Update(job.at, job.rule, job.value, stored')
    BY <2>1, <2>4, <2>5 DEF Update
  <2> QED BY <1>1, <1>2, <2>1, <2>2, <2>3, <2>4, <2>5, <2>6 DEF PolicyInv
<1>6. ASSUME NEW h \in Handlers, P!KeepRead(h) PROVE PolicyInv'
  <2>1. /\ loads[h].op = "update" /\ loads[h] = Update("read", loads[h].rule, loads[h].value, stored)
        /\ \A g \in Handlers \ {h} : loads[g] = P!Idle
    BY <1>6 DEF P!KeepRead, PolicyInv
  <2>2. PICK job : job = Update("merge", loads[h].rule, loads[h].value, stored)
    OBVIOUS
  <2>3. job = [loads[h] EXCEPT !.at = "merge"] /\ loads[h].current = stored
    BY <2>1, <2>2 DEF Update
  <2>4. P!Job(h, job) /\ cache' = stored /\ UNCHANGED <<stored, wanted>>
    BY <1>6, <2>3 DEF P!KeepRead
  <2>5. /\ job.op = "update" /\ job.at # "forget"
        /\ job = Update(job.at, job.rule, job.value, stored')
    BY <2>2, <2>4 DEF Update
  <2> QED BY <1>1, <1>2, <2>1, <2>4, <2>5 DEF PolicyInv
<1>7. ASSUME NEW h \in Handlers, P!Store(h) PROVE PolicyInv'
  <2>1. stored' = wanted' /\ UNCHANGED cache
    <3>1. loads[h].current = stored
      BY <1>7 DEF P!Store, PolicyInv, Update
    <3> QED BY <1>7, <3>1 DEF P!Store, PolicyInv
  <2>2. PICK job : job = [op |-> "update", at |-> "forget"] /\ P!Job(h, job)
    BY <1>7 DEF P!Store
  <2>3. job.op = "update" /\ job.at = "forget"
    BY <2>2
  <2>4. \A g \in Handlers \ {h} : loads[g] = P!Idle
    BY <1>7 DEF P!Store, PolicyInv
  <2> QED BY <1>1, <1>2, <2>1, <2>2, <2>3, <2>4 DEF PolicyInv
<1>8. ASSUME NEW h \in Handlers, P!Forget(h) PROVE PolicyInv'
  <2>1. P!Job(h, P!Idle) /\ UNCHANGED <<stored, wanted>> /\ cache' = None
    BY <1>8 DEF P!Forget
  <2> QED BY <1>1, <1>2, <2>1 DEF PolicyInv
<1>9. P!Expire => PolicyInv'
  BY DEF P!Expire, PolicyInv
<1> QED BY <1>3, <1>4, <1>5, <1>6, <1>7, <1>8, <1>9 DEF P!Next, P!Handle

-----------------------------------------------------------------------------
(* The form of the policy.                                                 *)

\* What a tab sends, or None.
Sent == [patch : UNION {[rs -> Values] : rs \in SUBSET Rules}, meant : SUBSET Rules,
         reply : W!Policies \cup {None}, here : BOOLEAN]

Shown == [open : BOOLEAN, cached : W!Policies \cup {None}, draft : W!Policies \cup {None},
          touched : SUBSET Rules, answer : W!Policies \cup {None}, sent : Sent \cup {None}]

\* A draft differs from what is cached in the rules that were edited, and a save is of those: an
\* answer arrives only where there is none, and a save answered late finds its page closed.
Honest(p) ==
    /\ p.draft # None => /\ p.open /\ p.cached # None
                         /\ \A r \in Rules \ p.touched : p.draft[r] = p.cached[r]
    /\ p.answer # None => p.cached = None
    /\ p.sent # None => /\ p.cached # None /\ DOMAIN p.sent.patch \subseteq p.sent.meant
                        /\ p.sent.here = p.open

FormInv ==
    /\ company = chosen
    /\ company \in W!Policies
    /\ pages \in [Handlers -> Shown]
    /\ \A t \in Handlers : Honest(pages[t])

LEMMA FormInit == W!Init => FormInv
BY DEF W!Init, W!Policies, FormInv, Shown, Honest

LEMMA FormAlone == FormInv /\ UNCHANGED form => FormInv'
BY DEF form, FormInv

\* A page of a tab is exchanged for another one.
LEMMA OnePage ==
  ASSUME FormInv, NEW t \in Handlers, NEW q \in Shown, W!Page(t, q), Honest(q),
         company' = chosen', company' \in W!Policies
  PROVE  FormInv'
BY DEF W!Page, FormInv

LEMMA FormStep ==
  ASSUME ~Refetches, ~Returns, FormInv, W!Next
  PROVE  FormInv'
<1>1. PICK t \in Handlers :
         \/ W!Open(t) \/ W!Leave(t) \/ W!Evict(t) \/ W!Ask(t) \/ W!Arrive(t)
         \/ W!Edit(t) \/ W!Discard(t) \/ W!Submit(t) \/ W!Apply(t) \/ W!Saved(t)
  BY DEF W!Next
<1>2. PICK p \in Shown : p = pages[t] /\ Honest(p)
  BY DEF FormInv
<1>3. UNCHANGED <<company, chosen>> => company' = chosen' /\ company' \in W!Policies
  BY DEF FormInv
<1>4. CASE W!Open(t)
  <2>1. PICK q : q = [p EXCEPT !.open = TRUE, !.draft = p.cached]
    OBVIOUS
  <2>2. W!Page(t, q) /\ ~p.open /\ p.sent = None /\ UNCHANGED <<company, chosen>>
    BY <1>2, <1>4, <2>1 DEF W!Open
  <2>3. q \in Shown /\ Honest(q)
    BY <1>2, <2>1, <2>2 DEF Shown, Honest
  <2> QED BY <1>3, <2>2, <2>3, OnePage
<1>5. CASE W!Leave(t)
  <2>1. PICK q : q = [p EXCEPT !.open = FALSE, !.draft = None, !.touched = {},
                             !.sent = IF @ = None THEN None ELSE [@ EXCEPT !.here = FALSE]]
    OBVIOUS
  <2>2. W!Page(t, q) /\ UNCHANGED <<company, chosen>>
    BY <1>2, <1>5, <2>1 DEF W!Leave
  <2>3. \A s \in Sent : /\ [s EXCEPT !.here = FALSE] \in Sent
                        /\ [s EXCEPT !.here = FALSE].patch = s.patch
                        /\ [s EXCEPT !.here = FALSE].meant = s.meant
                        /\ [s EXCEPT !.here = FALSE].here = FALSE
    BY DEF Sent
  <2>4. q.sent = IF p.sent = None THEN None ELSE [p.sent EXCEPT !.here = FALSE]
    BY <2>1 DEF Shown
  <2>5. /\ q.open = FALSE /\ q.draft = None /\ q.touched = {}
        /\ q.cached = p.cached /\ q.answer = p.answer /\ q.sent \in Sent \cup {None}
    BY <2>1, <2>3, <2>4 DEF Shown
  <2>6. q \in Shown
    BY <2>1, <2>3 DEF Shown
  <2>7. q.sent # None => p.sent \in Sent /\ p.sent # None
    BY <2>4 DEF Shown
  <2>8. q.sent # None => q.sent.patch = p.sent.patch /\ q.sent.meant = p.sent.meant
                         /\ q.sent.here = FALSE
    BY <2>3, <2>4, <2>7
  <2>9. Honest(q)
    BY <1>2, <2>5, <2>7, <2>8 DEF Honest
  <2> QED BY <1>3, <2>2, <2>6, <2>9, OnePage
<1>6. CASE W!Evict(t)
  <2>1. PICK q : q = [p EXCEPT !.cached = None]
    OBVIOUS
  <2>2. W!Page(t, q) /\ ~p.open /\ p.answer = None /\ p.sent = None /\ UNCHANGED <<company, chosen>>
    BY <1>2, <1>6, <2>1 DEF W!Evict
  <2>3. q \in Shown /\ Honest(q)
    BY <1>2, <2>1, <2>2 DEF Shown, Honest
  <2> QED BY <1>3, <2>2, <2>3, OnePage
<1>7. CASE W!Ask(t)
  <2>1. PICK q : q = [p EXCEPT !.answer = company]
    OBVIOUS
  <2>2. W!Page(t, q) /\ p.cached = None /\ UNCHANGED <<company, chosen>>
    BY <1>2, <1>7, <2>1 DEF W!Ask
  <2>3. q \in Shown /\ Honest(q)
    BY <1>2, <2>1, <2>2 DEF FormInv, Shown, Honest
  <2> QED BY <1>3, <2>2, <2>3, OnePage
<1>8. CASE W!Arrive(t)
  <2>1. PICK q : q = [p EXCEPT !.cached = p.answer, !.answer = None,
                             !.draft = IF p.open /\ @ = None THEN p.answer ELSE @]
    OBVIOUS
  <2>2. W!Page(t, q) /\ p.answer # None /\ UNCHANGED <<company, chosen>>
    BY <1>2, <1>8, <2>1 DEF W!Arrive
  <2>3. p.cached = None /\ p.draft = None /\ p.sent = None
    BY <1>2, <2>2 DEF Honest
  <2>4. q \in Shown /\ Honest(q)
    BY <2>1, <2>2, <2>3 DEF Shown, Honest
  <2> QED BY <1>3, <2>2, <2>4, OnePage
<1>9. CASE W!Edit(t)
  <2>1. PICK r \in Rules, v \in Values : W!Page(t, [p EXCEPT !.draft[r] = v, !.touched = @ \cup {r}])
    BY <1>2, <1>9 DEF W!Edit
  <2>2. PICK q : q = [p EXCEPT !.draft[r] = v, !.touched = @ \cup {r}]
    OBVIOUS
  <2>3. p.draft # None /\ p.draft \in [Rules -> Values] /\ UNCHANGED <<company, chosen>>
    BY <1>2, <1>9 DEF W!Edit, Shown, W!Policies
  <2>4. [p.draft EXCEPT ![r] = v] \in W!Policies
    BY <2>3 DEF W!Policies
  <2>5. q = [p EXCEPT !.draft = [p.draft EXCEPT ![r] = v], !.touched = p.touched \cup {r}]
    BY <2>2
  <2>6. q \in Shown
    BY <2>4, <2>5 DEF Shown
  <2>7. /\ q.draft = [p.draft EXCEPT ![r] = v] /\ q.touched = p.touched \cup {r}
        /\ q.open = p.open /\ q.cached = p.cached /\ q.answer = p.answer /\ q.sent = p.sent
    BY <2>5 DEF Shown
  <2>8. \A s \in Rules \ {r} : q.draft[s] = p.draft[s]
    BY <2>3, <2>7
  <2>9. Honest(q)
    BY <1>2, <2>3, <2>7, <2>8 DEF Honest
  <2> QED BY <1>3, <2>1, <2>2, <2>3, <2>6, <2>9, OnePage
<1>10. CASE W!Discard(t)
  <2>1. PICK q : q = [p EXCEPT !.draft = p.cached, !.touched = {}]
    OBVIOUS
  <2>2. W!Page(t, q) /\ p.draft # None /\ UNCHANGED <<company, chosen>>
    BY <1>2, <1>10, <2>1 DEF W!Discard
  <2>3. q \in Shown /\ Honest(q)
    BY <1>2, <2>1, <2>2 DEF Shown, Honest
  <2> QED BY <1>3, <2>2, <2>3, OnePage
<1>11. CASE W!Submit(t)
  <2>1. W!Changed(t) = {r \in Rules : p.draft[r] # p.cached[r]}
    BY <1>2 DEF W!Changed
  <2>2. PICK patch : patch = [r \in W!Changed(t) |-> p.draft[r]]
    OBVIOUS
  <2>3. PICK s : s = [patch |-> patch, meant |-> p.touched, reply |-> None, here |-> TRUE]
    OBVIOUS
  <2>4. PICK q : q = [p EXCEPT !.sent = s]
    OBVIOUS
  <2>5. W!Page(t, q) /\ p.draft # None /\ UNCHANGED <<company, chosen>>
    BY <1>2, <1>11, <2>2, <2>3, <2>4 DEF W!Submit
  <2>6. p.draft \in [Rules -> Values] /\ p.open /\ p.cached # None
    BY <1>2, <2>5 DEF Shown, W!Policies, Honest
  <2>7. DOMAIN patch = W!Changed(t) /\ W!Changed(t) \subseteq p.touched
    BY <1>2, <2>1, <2>2, <2>5 DEF Honest
  <2>8. patch \in [W!Changed(t) -> Values] /\ W!Changed(t) \in SUBSET Rules
    BY <2>1, <2>2, <2>6
  <2>9. p.touched \in SUBSET Rules
    BY DEF Shown
  <2>10. s \in Sent
    BY <2>3, <2>8, <2>9 DEF Sent
  <2>11. q \in Shown
    BY <2>4, <2>10 DEF Shown
  <2>12. /\ s.patch = patch /\ s.meant = p.touched /\ s.here = TRUE
         /\ q.sent = s /\ q.open = p.open /\ q.cached = p.cached /\ q.draft = p.draft
         /\ q.touched = p.touched /\ q.answer = p.answer
    BY <2>3, <2>4 DEF Shown
  <2>13. Honest(q)
    BY <1>2, <2>6, <2>7, <2>12 DEF Honest
  <2> QED BY <1>3, <2>5, <2>11, <2>13, OnePage
<1>12. CASE W!Apply(t)
  <2>1. p.sent # None /\ p.sent \in Sent
    BY <1>2, <1>12 DEF W!Apply, Shown
  <2>2. DOMAIN p.sent.patch \cap p.sent.meant = DOMAIN p.sent.patch
    BY <1>2, <2>1 DEF Honest
  <2>3. /\ company' = [r \in Rules |-> IF r \in DOMAIN p.sent.patch THEN p.sent.patch[r] ELSE company[r]]
        /\ chosen' = [r \in Rules |-> IF r \in DOMAIN p.sent.patch THEN p.sent.patch[r] ELSE chosen[r]]
        /\ W!Page(t, [p EXCEPT !.sent.reply = company'])
    BY <1>2, <1>12, <2>2 DEF W!Apply
  <2>4. \A r \in DOMAIN p.sent.patch : p.sent.patch[r] \in Values
    BY <2>1 DEF Sent
  <2>5. company' = chosen' /\ company' \in W!Policies
    BY <2>3, <2>4 DEF FormInv, W!Policies
  <2>6. PICK new \in W!Policies : new = company'
    BY <2>5
  <2>7. PICK s : s = [p.sent EXCEPT !.reply = new]
    OBVIOUS
  <2>8. /\ s \in Sent /\ s.patch = p.sent.patch /\ s.meant = p.sent.meant /\ s.here = p.sent.here
    BY <2>1, <2>7 DEF Sent
  <2>9. PICK q : q = [p EXCEPT !.sent = s]
    OBVIOUS
  <2>10. W!Page(t, q)
    BY <2>3, <2>6, <2>7, <2>9
  <2>11. q \in Shown
    BY <2>8, <2>9 DEF Shown
  <2>12. /\ q.sent = s /\ q.open = p.open /\ q.cached = p.cached /\ q.draft = p.draft
         /\ q.touched = p.touched /\ q.answer = p.answer
    BY <2>9 DEF Shown
  <2>13. Honest(q)
    BY <1>2, <2>1, <2>8, <2>12 DEF Honest
  <2> QED BY <2>5, <2>10, <2>11, <2>13, OnePage
<1>13. CASE W!Saved(t)
  <2>1. p.sent # None /\ p.sent.reply # None /\ UNCHANGED <<company, chosen>>
    BY <1>2, <1>13 DEF W!Saved
  <2>2. PICK new \in W!Policies : new = p.sent.reply /\ new # None
    BY <2>1 DEF Shown, Sent
  <2>3. PICK q : q = [p EXCEPT !.cached = new, !.sent = None,
                               !.draft = IF p.sent.here THEN new ELSE p.draft,
                               !.touched = IF p.sent.here THEN {} ELSE p.touched]
    OBVIOUS
  <2>4. W!Page(t, q)
    BY <1>2, <1>13, <2>2, <2>3 DEF W!Saved
  <2>5. q \in Shown
    BY <2>3 DEF Shown
  <2>6. /\ q.cached = new /\ q.sent = None /\ q.open = p.open /\ q.answer = p.answer
        /\ q.draft = (IF p.open THEN new ELSE p.draft)
        /\ p.open \/ p.draft = None
        /\ p.answer = None
    BY <1>2, <2>1, <2>3 DEF Shown, Honest
  <2>7. Honest(q)
    BY <2>2, <2>6 DEF Honest
  <2> QED BY <1>3, <2>1, <2>4, <2>5, <2>7, OnePage
<1> QED BY <1>1, <1>4, <1>5, <1>6, <1>7, <1>8, <1>9, <1>10, <1>11, <1>12, <1>13

-----------------------------------------------------------------------------
(* What people are told of outages.                                        *)

Statuses == {"SYNCING", "ONLINE", "OFFLINE"}
Kinds == {"DEVICE_DOWN", "DEVICE_RECOVERED"}
Stamps == Nat \cup {None}

Change == [at : {"update", "lookup"}, device : Devices, status : Statuses, before : Stamps,
           seen : Stamps]
Telling == [at : {"send"}, device : Devices, type : Kinds]
Notice == [type : Kinds, device : Devices, at : Nat]
DeviceRow == [status : Statuses, lastSeen : Stamps]

IncidentTypes ==
    /\ stamp \in Nat
    /\ jobs \in [Handlers -> Change \cup Telling \cup {None}]
    /\ device \in [Devices -> DeviceRow]
    /\ notices \subseteq Notice
    /\ told \in [Devices -> Seq(Kinds)]

\* Of one terminal d: the types of the notices about it are ts, ns are the notices still there.
Announced(ts) == ts # <<>> /\ ts[Len(ts)] = "DEVICE_DOWN"

Alternate(ts) ==
    \A i \in 1..Len(ts) : ts[i] = IF i % 2 = 1 THEN "DEVICE_DOWN" ELSE "DEVICE_RECOVERED"

Known(ns, d, since) ==
    since # None /\ \E n \in ns : n.type = "DEVICE_DOWN" /\ n.device = d /\ n.at >= since

Before(ns, d, since) == since # None /\ \A n \in ns : n.device = d => n.at < since

Kept(ns, d, since) == \E n \in ns : n.type = "DEVICE_DOWN" /\ n.device = d /\ n.at >= since

\* Whether an outage is announced can be told from the notices since a contact.
Agrees(ts, ns, d, since) == Announced(ts) <=> Known(ns, d, since)

\* What a status change under way knows of the row of its terminal.
Follows(job, r, ts, ns) ==
    LET d == job.device IN
    /\ job.at = "update" =>
          /\ job.before = r.lastSeen /\ Agrees(ts, ns, d, job.before)
          /\ IF job.status = "ONLINE" THEN Before(ns, d, job.seen) ELSE job.seen = None
    /\ job.at = "lookup" =>
          /\ job.seen = r.lastSeen /\ job.status = r.status
          /\ IF job.status = "ONLINE" THEN Before(ns, d, job.seen) /\ Agrees(ts, ns, d, job.before)
             ELSE Agrees(ts, ns, d, job.seen)
    /\ job.at = "send" =>
          IF job.type = "DEVICE_DOWN"
          THEN r.status # "ONLINE" /\ r.lastSeen # None /\ ~Announced(ts)
          ELSE Before(ns, d, r.lastSeen) /\ Announced(ts)

Settled(r, ts, ns, d) ==
    /\ Agrees(ts, ns, d, r.lastSeen)
    /\ r.status = "ONLINE" => ~Announced(ts)

\* Nothing is later than now; the notice of an announced outage is not purged; there is one
\* status change of a terminal at a time, and without one its notices follow its row.
IncidentInv ==
    /\ IncidentTypes
    /\ \A d \in Devices : device[d].lastSeen # None => device[d].lastSeen <= stamp
    /\ \A h \in Handlers :
          jobs[h] \in Change /\ jobs[h].seen # None => jobs[h].seen <= stamp
    /\ \A n \in notices : n.at <= stamp
    /\ \A d \in Devices :
          Alternate(told[d]) /\ (Announced(told[d]) => Kept(notices, d, stamp - Retention))
    /\ \A g, h \in Handlers :
          jobs[g] # None /\ jobs[h] # None /\ jobs[g].device = jobs[h].device => g = h
    /\ \A h \in Handlers : jobs[h] # None =>
          Follows(jobs[h], device[jobs[h].device], told[jobs[h].device], notices)
    /\ \A d \in Devices : (\A h \in Handlers : jobs[h] # None => jobs[h].device # d) =>
          Settled(device[d], told[d], notices, d)

LEMMA IncidentInit == I!Init => IncidentInv
<1> SUFFICES ASSUME I!Init PROVE IncidentInv
  OBVIOUS
<1>1. IncidentTypes
  BY DEF I!Init, IncidentTypes, DeviceRow, Statuses, Stamps, Notice
<1>2. /\ \A d \in Devices : device[d].lastSeen = None /\ device[d].status = "OFFLINE" /\ told[d] = <<>>
      /\ \A h \in Handlers : jobs[h] = None
      /\ notices = {}
  BY DEF I!Init
<1>3. None \notin Change
  BY NoneAssumption DEF Change, Statuses, Stamps
<1> QED BY <1>1, <1>2, <1>3
        DEF IncidentInv, Alternate, Announced, Settled, Agrees, Known, Kinds

LEMMA IncidentAlone == IncidentInv /\ UNCHANGED incidents => IncidentInv'
BY DEF incidents, IncidentInv, IncidentTypes

\* A notice of another terminal, or older than every contact that matters, changes nothing.
LEMMA OtherNotice ==
  ASSUME NEW ns, NEW n, NEW d, n.device # d
  PROVE  /\ \A ts, since : Agrees(ts, ns \cup {n}, d, since) <=> Agrees(ts, ns, d, since)
         /\ \A since : Before(ns \cup {n}, d, since) <=> Before(ns, d, since)
         /\ \A since : Kept(ns, d, since) => Kept(ns \cup {n}, d, since)
BY DEF Agrees, Known, Before, Kept

\* The purge, while it keeps a notice of an announced outage.
LEMMA PurgedNotices ==
  ASSUME NEW ns \in SUBSET Notice, NEW k \in Int, NEW d, NEW ts,
         Announced(ts) => Kept(ns, d, k)
  PROVE  LET kept == {n \in ns : n.at >= k}
         IN  /\ \A since \in Stamps : Agrees(ts, ns, d, since) => Agrees(ts, kept, d, since)
             /\ \A since \in Stamps : Before(ns, d, since) => Before(kept, d, since)
             /\ Announced(ts) => Kept(kept, d, k)
<1> DEFINE kept == {n \in ns : n.at >= k}
<1>1. \A n \in ns : n.at \in Nat
  BY DEF Notice
<1>2. ASSUME NEW since \in Stamps, Agrees(ts, ns, d, since) PROVE Agrees(ts, kept, d, since)
  <2>1. CASE ~Announced(ts)
    BY <1>2, <2>1 DEF Agrees, Known
  <2>2. CASE Announced(ts)
    <3>1. since # None /\ since \in Nat
      BY <1>2, <2>2 DEF Agrees, Known, Stamps
    <3>2. PICK m \in ns : m.type = "DEVICE_DOWN" /\ m.device = d /\ m.at >= since
      BY <1>2, <2>2 DEF Agrees, Known
    <3>3. PICK n \in ns : n.type = "DEVICE_DOWN" /\ n.device = d /\ n.at >= k
      BY <2>2 DEF Kept
    <3>4. m.at \in Nat /\ n.at \in Nat
      BY <1>1
    <3>5. CASE n.at >= since
      BY <2>2, <3>1, <3>3, <3>5 DEF Agrees, Known
    <3>6. CASE ~(n.at >= since)
      <4>1. m.at >= k
        BY <3>1, <3>2, <3>3, <3>4, <3>6
      <4> QED BY <2>2, <3>1, <3>2, <4>1 DEF Agrees, Known
    <3> QED BY <3>5, <3>6
  <2> QED BY <2>1, <2>2
<1>3. \A since \in Stamps : Before(ns, d, since) => Before(kept, d, since)
  BY DEF Before
<1>4. Announced(ts) => Kept(kept, d, k)
  BY DEF Kept
<1> QED BY <1>2, <1>3, <1>4

\* A step that is about one terminal: the others' notices, rows and status changes stay.
LEMMA OneTerminal ==
  ASSUME IncidentInv, IncidentTypes', NEW d \in Devices, stamp' >= stamp,
         notices' = notices \/ \E n \in Notice :
            n.device = d /\ n.at <= stamp' /\ notices' = notices \cup {n},
         \A e \in Devices : Announced(told[e]) => Kept(notices, e, stamp' - Retention),
         \A e \in Devices \ {d} : device'[e] = device[e] /\ told'[e] = told[e],
         \A h \in Handlers : jobs[h] # None /\ jobs[h].device # d => jobs'[h] = jobs[h],
         \A h \in Handlers : jobs'[h] # None /\ jobs'[h].device # d => jobs'[h] = jobs[h],
         device'[d].lastSeen # None => device'[d].lastSeen <= stamp',
         Alternate(told'[d]), Announced(told'[d]) => Kept(notices', d, stamp' - Retention),
         \A g, h \in Handlers : jobs'[g] # None /\ jobs'[g].device = d
                                /\ jobs'[h] # None /\ jobs'[h].device = d => g = h,
         \A h \in Handlers : jobs'[h] # None /\ jobs'[h].device = d =>
            /\ Follows(jobs'[h], device'[d], told'[d], notices')
            /\ jobs'[h] \in Change /\ jobs'[h].seen # None => jobs'[h].seen <= stamp',
         (\A h \in Handlers : jobs'[h] # None => jobs'[h].device # d) =>
            Settled(device'[d], told'[d], notices', d)
  PROVE  IncidentInv'
<1> IncidentTypes /\ None \notin Change
  BY NoneAssumption DEF IncidentInv, Change, Statuses, Stamps
<1>1. ASSUME NEW e \in Devices \ {d}
      PROVE  /\ \A ts, since : Agrees(ts, notices', e, since) <=> Agrees(ts, notices, e, since)
             /\ \A since : Before(notices', e, since) <=> Before(notices, e, since)
             /\ \A since : Kept(notices, e, since) => Kept(notices', e, since)
  <2>1. CASE notices' = notices
    BY <2>1
  <2>2. CASE notices' # notices
    <3>1. PICK n \in Notice : n.device = d /\ notices' = notices \cup {n}
      BY <2>2
    <3>2. n.device # e
      BY <3>1
    <3> QED BY <3>1, <3>2, OtherNotice
  <2> QED BY <2>1, <2>2
<1>2. \A e \in Devices : device'[e].lastSeen # None => device'[e].lastSeen <= stamp'
  <2> SUFFICES ASSUME NEW e \in Devices \ {d}, device[e].lastSeen # None
               PROVE  device[e].lastSeen <= stamp'
    OBVIOUS
  <2>1. stamp \in Nat /\ stamp' \in Nat /\ device[e].lastSeen \in Nat
    BY DEF IncidentTypes, DeviceRow, Stamps
  <2>2. device[e].lastSeen <= stamp
    BY DEF IncidentInv
  <2> QED BY <2>1, <2>2
<1>3. \A h \in Handlers : jobs'[h] \in Change /\ jobs'[h].seen # None => jobs'[h].seen <= stamp'
  <2> SUFFICES ASSUME NEW h \in Handlers, jobs'[h] \in Change, jobs'[h].seen # None,
                      jobs'[h].device # d
               PROVE  jobs'[h].seen <= stamp'
    OBVIOUS
  <2>1. jobs'[h] = jobs[h] /\ jobs[h].seen \in Nat
    BY DEF Change, Stamps
  <2> QED BY <2>1 DEF IncidentInv, IncidentTypes
<1>4. \A n \in notices' : n.at <= stamp'
  <2>1. \A n \in notices : n.at \in Nat /\ n.at <= stamp
    BY DEF IncidentInv, IncidentTypes, Notice
  <2> QED BY <2>1 DEF IncidentTypes
<1>5. \A e \in Devices :
         Alternate(told'[e]) /\ (Announced(told'[e]) => Kept(notices', e, stamp' - Retention))
  BY <1>1 DEF IncidentInv
<1>6. \A g, h \in Handlers :
         jobs'[g] # None /\ jobs'[h] # None /\ jobs'[g].device = jobs'[h].device => g = h
  BY DEF IncidentInv
<1>7. \A h \in Handlers : jobs'[h] # None =>
         Follows(jobs'[h], device'[jobs'[h].device], told'[jobs'[h].device], notices')
  <2> SUFFICES ASSUME NEW h \in Handlers, jobs'[h] # None, jobs'[h].device # d
               PROVE  Follows(jobs'[h], device'[jobs'[h].device], told'[jobs'[h].device], notices')
    OBVIOUS
  <2>1. PICK e \in Devices \ {d} : e = jobs[h].device
    BY DEF IncidentTypes, Change, Telling
  <2>2. Follows(jobs[h], device[e], told[e], notices)
    BY <2>1 DEF IncidentInv
  <2>3. Follows(jobs[h], device[e], told[e], notices')
    BY <1>1, <2>1, <2>2 DEF Follows
  <2> QED BY <2>1, <2>3
<1>8. \A e \in Devices : (\A h \in Handlers : jobs'[h] # None => jobs'[h].device # e) =>
         Settled(device'[e], told'[e], notices', e)
  <2> SUFFICES ASSUME NEW e \in Devices \ {d},
                      \A h \in Handlers : jobs'[h] # None => jobs'[h].device # e
               PROVE  Settled(device'[e], told'[e], notices', e)
    OBVIOUS
  <2>1. \A h \in Handlers : jobs[h] # None => jobs[h].device # e
    OBVIOUS
  <2>2. Settled(device[e], told[e], notices, e)
    BY <2>1 DEF IncidentInv
  <2> QED BY <1>1, <2>2 DEF Settled
<1> QED BY <1>2, <1>3, <1>4, <1>5, <1>6, <1>7, <1>8 DEF IncidentInv

\* What Stamp allows while no outage outlasts its notice.
LEMMA StampedInTime ==
  ASSUME ~LongOutages, IncidentInv, I!Stamp
  PROVE  /\ stamp' = stamp + 1 /\ stamp' \in Nat /\ stamp' > stamp
         /\ \A e \in Devices : Announced(told[e]) => Kept(notices, e, stamp' - Retention)
         /\ \A n \in notices : n.at < stamp'
<1>1. stamp \in Nat /\ stamp' = stamp + 1
  BY DEF I!Stamp, IncidentInv, IncidentTypes
<1>2. \A n \in notices : n.at \in Nat /\ n.at <= stamp
  BY DEF IncidentInv, IncidentTypes, Notice
<1> QED BY <1>1, <1>2 DEF I!Stamp, I!Announced, Announced, Kept

LEMMA KeptStill ==
  IncidentInv => \A e \in Devices : Announced(told[e]) => Kept(notices, e, stamp - Retention)
BY DEF IncidentInv

LEMMA JobKinds ==
  ASSUME NEW job \in Change \cup Telling
  PROVE  /\ job # None /\ job.device \in Devices
         /\ job.at = "send" => job \in Telling /\ job.type \in Kinds
         /\ job.at # "send" => job \in Change
         /\ job \in Change => job.at \in {"update", "lookup"} /\ job.status \in Statuses
                              /\ job.before \in Stamps /\ job.seen \in Stamps
BY NoneAssumption DEF Change, Telling, Statuses, Stamps, Kinds

LEMMA BeginStatusStep ==
  ASSUME ~Overlaps, ~LongOutages, IncidentInv, NEW h \in Handlers, NEW d \in Devices,
         NEW status \in Statuses, I!BeginStatus(h, d, status)
  PROVE  IncidentInv'
<1> IncidentTypes
  BY DEF IncidentInv
<1>1. /\ stamp' \in Nat /\ stamp' > stamp
      /\ \A e \in Devices : Announced(told[e]) => Kept(notices, e, stamp' - Retention)
      /\ \A n \in notices : n.at < stamp'
  BY StampedInTime DEF I!BeginStatus
<1>2. PICK job : job = [at |-> "update", device |-> d, status |-> status, before |-> device[d].lastSeen,
                        seen |-> IF status = "ONLINE" THEN stamp' ELSE None]
  OBVIOUS
<1>3. job \in Change
  BY <1>1, <1>2 DEF Change, Stamps, IncidentTypes, DeviceRow
<1>4. jobs[h] = None /\ jobs' = [jobs EXCEPT ![h] = job] /\ UNCHANGED <<device, notices, told>>
  BY <1>2 DEF I!BeginStatus
<1>5. \A g \in Handlers : jobs[g] # None => jobs[g].device # d
  BY DEF I!BeginStatus, I!Busy
<1>6. jobs'[h] = job /\ \A g \in Handlers \ {h} : jobs'[g] = jobs[g]
  BY <1>4 DEF IncidentTypes
<1>7. IncidentTypes'
  BY <1>1, <1>3, <1>4 DEF IncidentTypes
<1>8. job # None /\ job.device = d
  BY <1>2, <1>3, JobKinds
<1>9. Settled(device[d], told[d], notices, d) /\ Alternate(told[d])
  BY <1>5 DEF IncidentInv
<1>10. /\ job.at = "update" /\ job.status = status /\ job.before = device[d].lastSeen
       /\ job.seen = IF status = "ONLINE" THEN stamp' ELSE None
  BY <1>2
<1>11. stamp' # None
  BY <1>1, NoneAssumption
<1>12. Follows(job, device[d], told[d], notices)
  BY <1>1, <1>8, <1>9, <1>10, <1>11 DEF Follows, Settled, Before
<1>13. device[d].lastSeen # None => device[d].lastSeen <= stamp'
  BY <1>1 DEF IncidentInv, IncidentTypes, DeviceRow, Stamps
<1>14. stamp' >= stamp /\ notices' = notices
  BY <1>1, <1>4 DEF IncidentTypes
<1>15. Announced(told'[d]) => Kept(notices', d, stamp' - Retention)
  BY <1>1, <1>4
<1>16. /\ \A g \in Handlers : jobs[g] # None /\ jobs[g].device # d => jobs'[g] = jobs[g]
       /\ \A g \in Handlers : jobs'[g] # None /\ jobs'[g].device # d => jobs'[g] = jobs[g]
       /\ \A g \in Handlers : jobs'[g] # None /\ jobs'[g].device = d => g = h
  BY <1>4, <1>5, <1>6, <1>8
<1>17. job.seen # None => job.seen <= stamp'
  BY <1>1, <1>10
<1>18. ~\A g \in Handlers : jobs'[g] # None => jobs'[g].device # d
  BY <1>6, <1>8
<1> QED BY <1>1, <1>4, <1>6, <1>7, <1>9, <1>12, <1>13, <1>14, <1>15, <1>16, <1>17, <1>18, OneTerminal

LEMMA ContactStep ==
  ASSUME ~Overlaps, ~LongOutages, IncidentInv, NEW d \in Devices, I!Contact(d)
  PROVE  IncidentInv'
<1> IncidentTypes
  BY DEF IncidentInv
<1>1. /\ stamp' \in Nat /\ stamp' > stamp
      /\ \A e \in Devices : Announced(told[e]) => Kept(notices, e, stamp' - Retention)
      /\ \A n \in notices : n.at < stamp'
  BY StampedInTime DEF I!Contact
<1>2. /\ device[d].status = "ONLINE" /\ device' = [device EXCEPT ![d].lastSeen = stamp']
      /\ UNCHANGED <<jobs, notices, told>>
      /\ \A g \in Handlers : jobs[g] # None => jobs[g].device # d
  BY DEF I!Contact, I!Busy
<1>3. PICK r \in DeviceRow : r = [device[d] EXCEPT !.lastSeen = stamp']
  BY <1>1 DEF IncidentTypes, DeviceRow, Stamps
<1>4. r.lastSeen = stamp' /\ r.status = "ONLINE"
  BY <1>2, <1>3 DEF IncidentTypes, DeviceRow
<1>5. device' = [device EXCEPT ![d] = r]
  BY <1>2, <1>3
<1>6. device'[d] = r /\ \A e \in Devices \ {d} : device'[e] = device[e]
  BY <1>5 DEF IncidentTypes
<1>7. IncidentTypes'
  BY <1>1, <1>2, <1>5 DEF IncidentTypes
<1>8. Settled(device[d], told[d], notices, d) /\ Alternate(told[d])
  BY <1>2 DEF IncidentInv
<1>9. ~Announced(told[d]) /\ ~Known(notices, d, stamp')
  <2>1. \A n \in notices : ~(n.at >= stamp')
    BY <1>1 DEF IncidentTypes, Notice
  <2> QED BY <1>2, <1>8, <2>1 DEF Settled, Known
<1>10. Settled(r, told[d], notices, d)
  BY <1>4, <1>9 DEF Settled, Agrees
<1>11. stamp' >= stamp /\ notices' = notices /\ device'[d].lastSeen <= stamp'
  BY <1>1, <1>2, <1>4, <1>6 DEF IncidentTypes
<1>12. Announced(told'[d]) => Kept(notices', d, stamp' - Retention)
  BY <1>1, <1>2
<1> QED BY <1>1, <1>2, <1>6, <1>7, <1>8, <1>10, <1>11, <1>12, OneTerminal

\* A status change of d by h goes on, or ends.
LEMMA OneJob ==
  ASSUME IncidentInv, NEW h \in Handlers, jobs[h] # None,
         NEW job \in Change \cup Telling \cup {None}, jobs' = [jobs EXCEPT ![h] = job],
         job # None => job.device = jobs[h].device
  PROVE  LET d == jobs[h].device
         IN  /\ d \in Devices /\ jobs[h] \in Change \cup Telling /\ jobs'[h] = job
             /\ jobs' \in [Handlers -> Change \cup Telling \cup {None}]
             /\ \A g \in Handlers : jobs[g] # None /\ jobs[g].device # d => jobs'[g] = jobs[g]
             /\ \A g \in Handlers : jobs'[g] # None /\ jobs'[g].device # d => jobs'[g] = jobs[g]
             /\ \A g \in Handlers : jobs'[g] # None /\ jobs'[g].device = d => g = h
<1> IncidentTypes
  BY DEF IncidentInv
<1>1. jobs'[h] = job /\ \A g \in Handlers \ {h} : jobs'[g] = jobs[g]
  BY DEF IncidentTypes
<1>2. jobs[h] \in Change \cup Telling
  BY DEF IncidentTypes
<1>3. jobs' \in [Handlers -> Change \cup Telling \cup {None}]
  BY DEF IncidentTypes
<1>4. \A g \in Handlers \ {h} : jobs[g] # None => jobs[g].device # jobs[h].device
  BY DEF IncidentInv
<1> QED BY <1>1, <1>2, <1>3, <1>4, JobKinds

LEMMA UpdateRowStep ==
  ASSUME IncidentInv, NEW h \in Handlers, I!UpdateRow(h)
  PROVE  IncidentInv'
<1> IncidentTypes
  BY DEF IncidentInv
<1>1. jobs[h] # None /\ jobs[h].at = "update" /\ jobs[h] \in Change
  BY JobKinds DEF I!UpdateRow, IncidentTypes
<1>2. PICK job \in Change : job = jobs[h] /\ job.at = "update"
  BY <1>1
<1>3. PICK d \in Devices : d = job.device
  BY JobKinds
<1>4. PICK r : r = [status |-> job.status,
                    lastSeen |-> IF job.seen # None THEN job.seen ELSE device[d].lastSeen]
  OBVIOUS
<1>5. job.status \in Statuses /\ job.seen \in Stamps /\ job.before \in Stamps
  BY JobKinds
<1>6. /\ r \in DeviceRow /\ r.status = job.status
      /\ r.lastSeen = IF job.seen # None THEN job.seen ELSE device[d].lastSeen
  BY <1>4, <1>5 DEF IncidentTypes, DeviceRow
<1>7. PICK new : new = [job EXCEPT !.at = "lookup", !.seen = r.lastSeen]
  OBVIOUS
<1>8. /\ new \in Change /\ new.at = "lookup" /\ new.seen = r.lastSeen /\ new.device = d
      /\ new.status = job.status /\ new.before = job.before
  BY <1>3, <1>6, <1>7 DEF Change, DeviceRow
<1>9. /\ device' = [device EXCEPT ![d] = r] /\ jobs' = [jobs EXCEPT ![h] = new]
      /\ UNCHANGED <<stamp, notices, told>>
  BY <1>2, <1>3, <1>4, <1>7 DEF I!UpdateRow
<1>10. /\ jobs'[h] = new
       /\ jobs' \in [Handlers -> Change \cup Telling \cup {None}]
       /\ \A g \in Handlers : jobs[g] # None /\ jobs[g].device # d => jobs'[g] = jobs[g]
       /\ \A g \in Handlers : jobs'[g] # None /\ jobs'[g].device # d => jobs'[g] = jobs[g]
       /\ \A g \in Handlers : jobs'[g] # None /\ jobs'[g].device = d => g = h
  <2>1. new \in Change \cup Telling \cup {None} /\ (new # None => new.device = jobs[h].device)
    BY <1>2, <1>3, <1>8
  <2>2. jobs[h] # None /\ jobs[h].device = d
    BY <1>1, <1>2, <1>3
  <2>3. jobs' = [jobs EXCEPT ![h] = new]
    BY <1>9
  <2> QED BY <2>1, <2>2, <2>3, OneJob
<1>11. device'[d] = r /\ \A e \in Devices \ {d} : device'[e] = device[e]
  BY <1>9 DEF IncidentTypes
<1>12. IncidentTypes'
  BY <1>6, <1>9, <1>10 DEF IncidentTypes
<1>13. Follows(job, device[d], told[d], notices) /\ Alternate(told[d])
  BY <1>1, <1>2, <1>3 DEF IncidentInv
<1>14. Follows(new, r, told[d], notices)
  BY <1>2, <1>3, <1>6, <1>8, <1>13 DEF Follows, Before
<1>15. r.lastSeen # None => r.lastSeen <= stamp'
  BY <1>1, <1>2, <1>6, <1>9 DEF IncidentInv
<1>16. stamp' >= stamp /\ notices' = notices /\ \A e \in Devices \ {d} : told'[e] = told[e]
  BY <1>9 DEF IncidentTypes
<1>17. /\ \A e \in Devices : Announced(told[e]) => Kept(notices, e, stamp' - Retention)
       /\ Announced(told'[d]) => Kept(notices', d, stamp' - Retention)
  BY <1>9, KeptStill
<1>18. new # None /\ ~\A g \in Handlers : jobs'[g] # None => jobs'[g].device # d
  BY <1>8, <1>10, JobKinds
<1> QED BY <1>8, <1>9, <1>10, <1>11, <1>12, <1>13, <1>14, <1>15, <1>16, <1>17, <1>18, OneTerminal

LEMMA LookUpStep ==
  ASSUME IncidentInv, NEW h \in Handlers, I!LookUp(h)
  PROVE  IncidentInv'
<1> IncidentTypes
  BY DEF IncidentInv
<1>1. jobs[h] # None /\ jobs[h].at = "lookup" /\ jobs[h] \in Change
  BY JobKinds DEF I!LookUp, IncidentTypes
<1>2. PICK job \in Change : job = jobs[h] /\ job.at = "lookup"
  BY <1>1
<1>3. PICK d \in Devices : d = job.device
  BY JobKinds
<1>4. job.status \in Statuses /\ job.seen \in Stamps /\ job.before \in Stamps
  BY JobKinds
<1>5. PICK type : type = I!ToAnnounce(job)
  OBVIOUS
<1>6. PICK new : new = IF type = None THEN None ELSE [at |-> "send", device |-> d, type |-> type]
  OBVIOUS
<1>7. jobs' = [jobs EXCEPT ![h] = new] /\ UNCHANGED <<stamp, device, notices, told>>
  BY <1>2, <1>3, <1>5, <1>6 DEF I!LookUp
<1>8. /\ Follows(job, device[d], told[d], notices) /\ Alternate(told[d])
      /\ device[d].lastSeen # None => device[d].lastSeen <= stamp
  BY <1>1, <1>2, <1>3 DEF IncidentInv
<1>9. \A since : I!DownReportedSince(d, since) <=> Kept(notices, d, since)
  BY DEF I!DownReportedSince, Kept
<1>10. \A since : Known(notices, d, since) <=> since # None /\ Kept(notices, d, since)
  BY DEF Known, Kept
<1>11. \/ type = None /\ Settled(device[d], told[d], notices, d)
       \/ /\ type = "DEVICE_DOWN" /\ device[d].status # "ONLINE" /\ device[d].lastSeen # None
          /\ ~Announced(told[d])
       \/ /\ type = "DEVICE_RECOVERED" /\ Before(notices, d, device[d].lastSeen)
          /\ Announced(told[d])
  <2>1. /\ job.seen = device[d].lastSeen /\ job.status = device[d].status
        /\ IF job.status = "ONLINE" THEN /\ Before(notices, d, job.seen)
                                         /\ Agrees(told[d], notices, d, job.before)
           ELSE Agrees(told[d], notices, d, job.seen)
    BY <1>2, <1>3, <1>8 DEF Follows
  <2>2. CASE job.status = "OFFLINE"
    <3>1. type = IF job.seen # None /\ ~Kept(notices, d, job.seen) THEN "DEVICE_DOWN" ELSE None
      BY <1>3, <1>5, <1>9, <2>2 DEF I!ToAnnounce, I!Failures
    <3> QED BY <1>10, <2>1, <2>2, <3>1 DEF Agrees, Settled
  <2>3. CASE job.status = "ONLINE"
    <3>1. type = IF job.before # None /\ Kept(notices, d, job.before) THEN "DEVICE_RECOVERED" ELSE None
      BY <1>3, <1>5, <1>9, <2>3 DEF I!ToAnnounce, I!Failures
    <3>2. ~Known(notices, d, device[d].lastSeen)
      <4>1. job.seen # None /\ job.seen \in Nat
        BY <1>4, <2>1, <2>3 DEF Before, Stamps
      <4>2. \A n \in notices : n.at \in Nat
        BY DEF IncidentTypes, Notice
      <4> QED BY <2>1, <2>3, <4>1, <4>2 DEF Before, Known
    <3> QED BY <1>10, <2>1, <2>3, <3>1, <3>2 DEF Agrees, Settled
  <2>4. CASE job.status = "SYNCING"
    <3>1. type = None
      BY <1>5, <2>4 DEF I!ToAnnounce, I!Failures
    <3> QED BY <2>1, <2>4, <3>1 DEF Settled
  <2> QED BY <1>4, <2>2, <2>3, <2>4 DEF Statuses
<1>12. stamp' >= stamp /\ stamp' = stamp /\ notices' = notices /\ told' = told /\ device' = device
  BY <1>7 DEF IncidentTypes
<1>13. /\ \A e \in Devices : Announced(told[e]) => Kept(notices, e, stamp' - Retention)
       /\ Announced(told'[d]) => Kept(notices', d, stamp' - Retention)
  BY <1>7, KeptStill
<1>14. CASE type = None
  <2>1. /\ jobs'[h] = None
        /\ jobs' \in [Handlers -> Change \cup Telling \cup {None}]
        /\ \A g \in Handlers : jobs[g] # None /\ jobs[g].device # d => jobs'[g] = jobs[g]
        /\ \A g \in Handlers : jobs'[g] # None /\ jobs'[g].device # d => jobs'[g] = jobs[g]
        /\ \A g \in Handlers : jobs'[g] # None /\ jobs'[g].device = d => g = h
    BY <1>1, <1>2, <1>3, <1>6, <1>7, <1>14, OneJob
  <2>2. Settled(device[d], told[d], notices, d)
    BY <1>11, <1>14, NoneAssumption
  <2>3. IncidentTypes'
    BY <1>7, <2>1 DEF IncidentTypes
  <2> QED BY <1>8, <1>12, <1>13, <2>1, <2>2, <2>3, OneTerminal
<1>15. CASE type # None
  <2>1. new = [at |-> "send", device |-> d, type |-> type] /\ type \in Kinds
    BY <1>6, <1>11, <1>15 DEF Kinds
  <2>2. new \in Telling /\ new.at = "send" /\ new.device = d /\ new.type = type
    BY <2>1 DEF Telling
  <2>3. new # None /\ new \notin Change
    BY <2>2, JobKinds
  <2>4. /\ jobs'[h] = new
        /\ jobs' \in [Handlers -> Change \cup Telling \cup {None}]
        /\ \A g \in Handlers : jobs[g] # None /\ jobs[g].device # d => jobs'[g] = jobs[g]
        /\ \A g \in Handlers : jobs'[g] # None /\ jobs'[g].device # d => jobs'[g] = jobs[g]
        /\ \A g \in Handlers : jobs'[g] # None /\ jobs'[g].device = d => g = h
    <3>1. new \in Change \cup Telling \cup {None} /\ (new # None => new.device = jobs[h].device)
      BY <1>2, <1>3, <2>2
    <3>2. jobs[h] # None /\ jobs[h].device = d
      BY <1>1, <1>2, <1>3
    <3>3. jobs' = [jobs EXCEPT ![h] = new]
      BY <1>7
    <3> QED BY <3>1, <3>2, <3>3, OneJob
  <2>5. Follows(new, device[d], told[d], notices)
    BY <1>11, <1>15, <2>2 DEF Follows
  <2>6. IncidentTypes'
    BY <1>7, <2>4 DEF IncidentTypes
  <2>7. ~\A g \in Handlers : jobs'[g] # None => jobs'[g].device # d
    BY <2>2, <2>3, <2>4
  <2> QED BY <1>8, <1>12, <1>13, <2>2, <2>3, <2>4, <2>5, <2>6, <2>7, OneTerminal
<1> QED BY <1>14, <1>15

\* One more notice keeps the notices alternating.
LEMMA NoticeAppended ==
  ASSUME NEW ts \in Seq(Kinds), Alternate(ts), NEW type \in Kinds,
         type = "DEVICE_DOWN" <=> ~Announced(ts)
  PROVE  /\ Alternate(Append(ts, type)) /\ Append(ts, type) \in Seq(Kinds)
         /\ Announced(Append(ts, type)) <=> type = "DEVICE_DOWN"
<1> DEFINE us == Append(ts, type)
           n == Len(ts)
<1>1. /\ n \in Nat /\ Len(us) = n + 1 /\ us \in Seq(Kinds)
      /\ us[n + 1] = type /\ \A i \in 1..n : us[i] = ts[i]
  OBVIOUS
<1>2. Announced(ts) <=> n % 2 = 1
  <2>1. CASE ts = <<>>
    BY <2>1 DEF Announced
  <2>2. CASE ts # <<>>
    <3>1. n \in 1..n
      BY <2>2
    <3> QED BY <2>2, <3>1 DEF Announced, Alternate
  <2> QED BY <2>1, <2>2
<1>3. (n + 1) % 2 = 1 <=> n % 2 # 1
  BY <1>1
<1>4. type = IF (n + 1) % 2 = 1 THEN "DEVICE_DOWN" ELSE "DEVICE_RECOVERED"
  BY <1>2, <1>3 DEF Kinds
<1> HIDE DEF n, us
<1>5. \A i \in 1..Len(us) : i = n + 1 \/ i \in 1..n
  BY <1>1
<1>6. Alternate(us)
  <2> SUFFICES ASSUME NEW i \in 1..Len(us)
               PROVE  us[i] = IF i % 2 = 1 THEN "DEVICE_DOWN" ELSE "DEVICE_RECOVERED"
    BY DEF Alternate
  <2>1. CASE i = n + 1
    BY <1>1, <1>4, <2>1
  <2>2. CASE i \in 1..n
    BY <1>1, <2>2 DEF Alternate, n
  <2> QED BY <1>5, <2>1, <2>2
<1>7. Announced(us) <=> type = "DEVICE_DOWN"
  <2>1. us # <<>>
    BY <1>1
  <2> QED BY <1>1, <2>1 DEF Announced
<1> QED BY <1>1, <1>6, <1>7 DEF us

LEMMA SendStep ==
  ASSUME ~LongOutages, IncidentInv, NEW h \in Handlers, I!Send(h)
  PROVE  IncidentInv'
<1> IncidentTypes
  BY DEF IncidentInv
<1>1. jobs[h] # None /\ jobs[h].at = "send" /\ jobs[h] \in Telling
  BY JobKinds DEF I!Send, IncidentTypes
<1>2. PICK job \in Telling : job = jobs[h] /\ job.at = "send"
  BY <1>1
<1>3. PICK d \in Devices : d = job.device
  BY JobKinds
<1>4. job.type \in Kinds
  BY DEF Telling
<1>5. /\ stamp' \in Nat /\ stamp' > stamp
      /\ \A e \in Devices : Announced(told[e]) => Kept(notices, e, stamp' - Retention)
      /\ \A n \in notices : n.at < stamp'
  BY StampedInTime DEF I!Send
<1>6. PICK n : n = [type |-> job.type, device |-> d, at |-> stamp']
  OBVIOUS
<1>7. n \in Notice /\ n.type = job.type /\ n.device = d /\ n.at = stamp'
  BY <1>4, <1>5, <1>6 DEF Notice
<1>8. /\ notices' = notices \cup {n} /\ told' = [told EXCEPT ![d] = Append(told[d], job.type)]
      /\ jobs' = [jobs EXCEPT ![h] = None] /\ UNCHANGED device
  BY <1>2, <1>3, <1>6 DEF I!Send
<1>9. /\ Follows(job, device[d], told[d], notices) /\ Alternate(told[d])
      /\ device[d].lastSeen # None => device[d].lastSeen <= stamp
  BY <1>1, <1>2, <1>3 DEF IncidentInv
<1>10. /\ told[d] \in Seq(Kinds) /\ stamp \in Nat
       /\ device[d].lastSeen # None => device[d].lastSeen \in Nat
  BY DEF IncidentTypes, DeviceRow, Stamps
<1>11. IF job.type = "DEVICE_DOWN"
       THEN device[d].status # "ONLINE" /\ device[d].lastSeen # None /\ ~Announced(told[d])
       ELSE Before(notices, d, device[d].lastSeen) /\ Announced(told[d])
  BY <1>2, <1>3, <1>9 DEF Follows
<1>12. PICK ts : ts = Append(told[d], job.type)
  OBVIOUS
<1>13. /\ Alternate(ts) /\ ts \in Seq(Kinds)
       /\ Announced(ts) <=> job.type = "DEVICE_DOWN"
  <2>1. job.type = "DEVICE_DOWN" <=> ~Announced(told[d])
    BY <1>4, <1>11 DEF Kinds
  <2> QED BY <1>4, <1>9, <1>10, <1>12, <2>1, NoticeAppended
<1>14. told'[d] = ts /\ \A e \in Devices \ {d} : told'[e] = told[e]
  BY <1>8, <1>12 DEF IncidentTypes
<1>15. /\ jobs'[h] = None
       /\ jobs' \in [Handlers -> Change \cup Telling \cup {None}]
       /\ \A g \in Handlers : jobs[g] # None /\ jobs[g].device # d => jobs'[g] = jobs[g]
       /\ \A g \in Handlers : jobs'[g] # None /\ jobs'[g].device # d => jobs'[g] = jobs[g]
       /\ \A g \in Handlers : jobs'[g] # None /\ jobs'[g].device = d => g = h
  BY <1>1, <1>2, <1>3, <1>8, OneJob
<1>16. IncidentTypes'
  BY <1>5, <1>7, <1>8, <1>12, <1>13, <1>15 DEF IncidentTypes
<1>17. device[d].lastSeen # None => device[d].lastSeen <= stamp'
  BY <1>5, <1>9, <1>10
<1>18. Announced(ts) => Kept(notices', d, stamp' - Retention)
  <2>1. stamp' >= stamp' - Retention
    BY <1>5, NoneAssumption
  <2> QED BY <1>7, <1>8, <1>13, <2>1 DEF Kept
<1>19. Settled(device[d], ts, notices', d)
  <2>1. CASE job.type = "DEVICE_DOWN"
    <3>1. Known(notices', d, device[d].lastSeen)
      BY <1>5, <1>7, <1>8, <1>10, <1>11, <1>17, <2>1 DEF Known
    <3> QED BY <1>11, <1>13, <2>1, <3>1 DEF Settled, Agrees
  <2>2. CASE job.type = "DEVICE_RECOVERED"
    <3>1. ~Known(notices, d, device[d].lastSeen)
      <4>1. \A m \in notices : m.at \in Nat
        BY DEF IncidentTypes, Notice
      <4> QED BY <1>10, <1>11, <2>2, <4>1 DEF Before, Known
    <3>2. ~Known(notices', d, device[d].lastSeen)
      BY <1>7, <1>8, <2>2, <3>1 DEF Known
    <3> QED BY <1>13, <2>2, <3>2 DEF Settled, Agrees
  <2> QED BY <1>4, <2>1, <2>2 DEF Kinds
<1>20. /\ stamp' >= stamp /\ n.at <= stamp'
       /\ \A e \in Devices \ {d} : device'[e] = device[e]
       /\ device'[d] = device[d]
  BY <1>5, <1>7, <1>8, <1>10
<1>21. \E m \in Notice : m.device = d /\ m.at <= stamp' /\ notices' = notices \cup {m}
  BY <1>7, <1>8, <1>20
<1>22. /\ Alternate(told'[d])
       /\ Announced(told'[d]) => Kept(notices', d, stamp' - Retention)
       /\ Settled(device'[d], told'[d], notices', d)
       /\ device'[d].lastSeen # None => device'[d].lastSeen <= stamp'
  BY <1>13, <1>14, <1>17, <1>18, <1>19, <1>20
<1>23. \A g \in Handlers : ~(jobs'[g] # None /\ jobs'[g].device = d)
  BY <1>15
<1> QED BY <1>5, <1>14, <1>15, <1>16, <1>20, <1>21, <1>22, <1>23, OneTerminal

LEMMA PurgeStep ==
  ASSUME IncidentInv, I!PurgeExpired
  PROVE  IncidentInv'
<1> IncidentTypes
  BY DEF IncidentInv
<1>1. PICK k \in Int : k = stamp - Retention
  BY NoneAssumption DEF IncidentTypes
<1>2. notices' = {n \in notices : n.at >= k} /\ UNCHANGED <<jobs, stamp, device, told>>
  BY <1>1 DEF I!PurgeExpired
<1>3. \A d \in Devices :
         /\ \A since \in Stamps : Agrees(told[d], notices, d, since) => Agrees(told[d], notices', d, since)
         /\ \A since \in Stamps : Before(notices, d, since) => Before(notices', d, since)
         /\ Announced(told[d]) => Kept(notices', d, k)
  <2>1. \A d \in Devices : Announced(told[d]) => Kept(notices, d, k)
    BY <1>1, KeptStill
  <2>2. notices \in SUBSET Notice
    BY DEF IncidentTypes
  <2> QED BY <1>2, <2>1, <2>2, PurgedNotices
<1>4. IncidentTypes' /\ \A n \in notices' : n \in notices
  BY <1>2 DEF IncidentTypes
<1>5. \A h \in Handlers : jobs[h] # None =>
         Follows(jobs[h], device[jobs[h].device], told[jobs[h].device], notices')
  <2> SUFFICES ASSUME NEW h \in Handlers, jobs[h] # None
               PROVE  Follows(jobs[h], device[jobs[h].device], told[jobs[h].device], notices')
    OBVIOUS
  <2>1. PICK job \in Change \cup Telling : job = jobs[h]
    BY DEF IncidentTypes
  <2>2. PICK d \in Devices : d = job.device
    BY JobKinds
  <2>3. Follows(job, device[d], told[d], notices)
    BY <2>1, <2>2 DEF IncidentInv
  <2>4. device[d].lastSeen \in Stamps
    BY DEF IncidentTypes, DeviceRow
  <2>5. Follows(job, device[d], told[d], notices')
    <3>1. CASE job \in Change
      <4>1. job.before \in Stamps /\ job.seen \in Stamps /\ job.at # "send"
        BY <3>1, JobKinds
      <4> QED BY <1>3, <2>2, <2>3, <4>1 DEF Follows
    <3>2. CASE job \in Telling
      <4>1. job.at = "send"
        BY <3>2 DEF Telling
      <4> QED BY <1>3, <2>2, <2>3, <2>4, <4>1 DEF Follows
    <3> QED BY <3>1, <3>2
  <2> QED BY <2>1, <2>2, <2>5
<1>6. \A d \in Devices : (\A h \in Handlers : jobs[h] # None => jobs[h].device # d) =>
         Settled(device[d], told[d], notices', d)
  <2>1. \A d \in Devices : device[d].lastSeen \in Stamps
    BY DEF IncidentTypes, DeviceRow
  <2> QED BY <1>3, <2>1 DEF IncidentInv, Settled
<1> QED BY <1>1, <1>2, <1>3, <1>4, <1>5, <1>6 DEF IncidentInv

LEMMA IncidentStep ==
  ASSUME ~Overlaps, ~LongOutages, IncidentInv, I!Next
  PROVE  IncidentInv'
BY BeginStatusStep, UpdateRowStep, LookUpStep, SendStep, ContactStep, PurgeStep
   DEF I!Next, Statuses

-----------------------------------------------------------------------------
\* A step of MCPlatform is one of the component or leaves it alone.
LEMMA ComponentSteps ==
  [Next]_vars => /\ P!Next \/ UNCHANGED policy
                 /\ W!Next \/ UNCHANGED form
                 /\ I!Next \/ UNCHANGED incidents
BY DEF Next, vars

\* While no load and no other update overlaps an update, every rule keeps the last value it was
\* set to, whatever was cached when (updateAttendancePolicy stores the whole policy it loaded);
\* and while the page asks for the rules once and is not opened again under a save, tabs that
\* save drafts taken at different times undo no rule that others chose (SettingsPage).
THEOREM NoUpdateUndone ==
  ASSUME ~UpdateRaces, ~Refetches, ~Returns
  PROVE  Spec => []NoSettingLost
<1>1. Init => PolicyInv /\ FormInv
  BY PolicyInit, FormInit DEF Init
<1>2. PolicyInv /\ FormInv /\ [Next]_vars => PolicyInv' /\ FormInv'
  BY ComponentSteps, PolicyStep, PolicyAlone, FormStep, FormAlone
<1>3. PolicyInv /\ FormInv => NoSettingLost
  BY DEF PolicyInv, FormInv, NoSettingLost, P!NoSettingLost, W!NobodyUndone
<1> QED BY <1>1, <1>2, <1>3, PTL DEF Spec

\* While the status changes of one terminal follow one another and no outage outlasts the
\* retention of its notice: however many terminals fail, answer and punch in whatever order, and
\* whenever the night deletes notices, each outage is announced once and so is its end
\* (deviceStatusChanged tells it from lastSeenAt and the notices alone).
THEOREM OutagesAreAnnounced ==
  ASSUME ~Overlaps, ~LongOutages
  PROVE  Spec => []OutagesAreTold
<1>1. Init => IncidentInv
  BY IncidentInit DEF Init
<1>2. IncidentInv /\ [Next]_vars => IncidentInv'
  BY ComponentSteps, IncidentStep, IncidentAlone
<1>3. IncidentInv => OutagesAreTold
  <2> SUFFICES ASSUME IncidentInv, NEW d \in Devices
               PROVE  /\ Alternate(told[d])
                      /\ device[d].status = "ONLINE" /\ ~I!Busy(d) => ~I!Announced(d)
    BY DEF OutagesAreTold, I!OutagesAreTold, Alternate
  <2> QED BY DEF IncidentInv, I!Busy, Settled, I!Announced, Announced
<1> QED BY <1>1, <1>2, <1>3, PTL DEF Spec
-----------------------------------------------------------------------------
(* The search of the events of a Hikvision terminal.                       *)

Moments == 1..LastTime
MinorKinds == {Minors[i] : i \in DOMAIN Minors}
Logged == [id : Nat, serial : Nat \ {0}, time : Moments, minor : MinorKinds]
Marks == [serial : Nat, time : Moments]
Searches == [from : Int, to : Int, kind : Nat, position : Nat, found : SUBSET Logged,
             due : SUBSET Nat]

\* The events not downloaded yet, and one that tells that the counter restarted.
New(es, done) == {e \in es : e.id \notin done}
Betrays(e, m) == e.serial < m.serial /\ e.time > m.time

\* What the cursor does not cover will be asked for and selected: it lies within the overlap, and
\* has a higher number, or the counter has restarted and is betrayed.
CursorOf(es, done, m, now, n) ==
    /\ now >= m.time => \A e \in New(es, done) : e.time >= m.time - Overlap
    /\ \A e \in New(es, done) :
          e.serial > m.serial \/ (e.time > m.time /\ \E w \in New(es, done) : Betrays(w, m))
    /\ n < m.serial =>
          /\ now > m.time
          /\ (n = 0 /\ m.serial > 1) \/ \E w \in New(es, done) : Betrays(w, m)

\* A search that begins reaches back to them, and its end is not before them.
InReach(es, done, now) ==
    \A e \in New(es, done) : now - Lookback <= e.time /\ e.time <= now + EndMargin

\* What the terminal answers, of what it holds, to a search for a kind.
Asked(es, s, minor) == {e \in es : e.minor = minor /\ s.from <= e.time /\ e.time <= s.to}

\* A search under way has found all there is of the kinds it went past, and of the present kind
\* all that comes before its position; what lies beyond its end was recorded after all it can find.
Covers(s, es, done, now) ==
    /\ s.from <= now
    /\ \A e \in New(es, done) : s.from <= e.time /\ (e.id \in s.due => e.time <= s.to)
    /\ \A e \in New(es, done), f \in es : s.to < e.time /\ f.time <= s.to => f.serial < e.serial
    /\ s.due \subseteq H!Ids(es) /\ s.found \subseteq es /\ \A f \in s.found : f.time <= s.to
    /\ s.kind \in 1..(Len(Minors) + 1)
    /\ \A k \in 1..Len(Minors) : k < s.kind => Asked(es, s, Minors[k]) \subseteq s.found
    /\ s.kind <= Len(Minors) =>
          /\ s.position <= Cardinality(Asked(es, s, Minors[s.kind]))
          /\ \A e \in Asked(es, s, Minors[s.kind]) :
                H!Place(e, Asked(es, s, Minors[s.kind])) < s.position => e \in s.found

HikTypes ==
    /\ clock \in Moments /\ serial \in Nat /\ numbered \in Nat /\ fetched \in SUBSET Nat
    /\ events \in SUBSET Logged /\ IsFiniteSet(events)
    /\ \A e \in events : e.id < numbered /\ e.serial <= serial
    /\ \A n \in fetched : n < numbered
    /\ mark \in Marks \cup {None} /\ search \in Searches \cup {None}

HikInv ==
    /\ HikTypes
    /\ InReach(events, fetched, clock)
    /\ mark # None => CursorOf(events, fetched, mark, clock, serial)
    /\ search # None => Covers(search, events, fetched, clock)
    /\ missing = {}

-----------------------------------------------------------------------------

LEMMA HikNone == None \notin Marks /\ None \notin Searches
<1>1. Marks \subseteq [serial : Nat, time : Nat]
  BY SearchAssumption DEF Marks, Moments
<1>2. Logged \subseteq [id : Nat, serial : Nat, time : Nat, minor : MinorKinds]
  BY SearchAssumption DEF Logged, Moments
<1>3. Searches \subseteq
         [from : Int, to : Int, kind : Nat, position : Nat, due : SUBSET Nat,
          found : SUBSET [id : Nat, serial : Nat, time : Nat, minor : MinorKinds]]
  BY <1>2 DEF Searches
<1> QED BY <1>1, <1>3, SearchAssumption DEF MinorKinds

LEMMA LoggedIs ==
  ASSUME NEW e \in Logged
  PROVE  /\ e.id \in Nat /\ e.serial \in Nat \ {0} /\ e.time \in Moments /\ e.minor \in MinorKinds
         /\ e.time \in Int
BY SearchAssumption DEF Logged, Moments

LEMMA SearchIs ==
  ASSUME NEW s \in Searches
  PROVE  /\ s.from \in Int /\ s.to \in Int /\ s.kind \in Nat /\ s.position \in Nat
         /\ s.found \in SUBSET Logged /\ s.due \in SUBSET Nat
BY DEF Searches

LEMMA SameCardinality == \A S : H!Cardinality(S) = Cardinality(S)
BY DEF H!Cardinality, Cardinality

\* An event comes at one of the places there are.
LEMMA PlaceIs ==
  ASSUME NEW q, IsFiniteSet(q), NEW e
  PROVE  H!Place(e, q) \in Nat /\ (e \in q /\ e \in Logged => H!Place(e, q) < Cardinality(q))
<1>1. PICK before \in SUBSET q : before = {f \in q : H!Earlier(f, e)}
  OBVIOUS
<1>2. /\ Cardinality(before) \in Nat /\ Cardinality(q) \in Nat
      /\ Cardinality(before) <= Cardinality(q)
      /\ Cardinality(q) = Cardinality(before) => q = before
  BY FS_Subset, FS_CardinalityType
<1>3. H!Place(e, q) = Cardinality(before)
  BY <1>1, SameCardinality DEF H!Place
<1>4. e \in Logged /\ e \in q => e \notin before
  BY <1>1, LoggedIs DEF H!Earlier
<1> QED BY <1>2, <1>3, <1>4

LEMMA HikInit == H!Init => HikInv
<1> SUFFICES ASSUME H!Init PROVE HikInv
  OBVIOUS
<1>1. clock \in Moments
  BY SearchAssumption DEF H!Init, Moments
<1>2. IsFiniteSet(events)
  BY FS_EmptySet DEF H!Init
<1> QED BY <1>1, <1>2 DEF H!Init, HikInv, HikTypes, InReach, New

LEMMA HikAlone == HikInv /\ UNCHANGED hik => HikInv'
BY DEF hik, HikInv, HikTypes

LEMMA HikTick ==
  ASSUME ~HardResets, HikInv, H!Tick
  PROVE  HikInv'
<1>1. /\ clock' = clock + 1 /\ clock < LastTime
      /\ UNCHANGED <<events, serial, numbered, mark, search, fetched, missing>>
      /\ \A e \in New(events, fetched) :
            /\ e.time >= clock + 1 - Lookback
            /\ mark # None => e.time >= clock + 1 - Overlap
  BY DEF H!Tick, New
<1>2. clock' \in Moments /\ clock \in Int
  BY <1>1, SearchAssumption DEF HikInv, HikTypes, Moments
<1>3. HikTypes'
  BY <1>1, <1>2 DEF HikInv, HikTypes
<1>4. ASSUME mark # None PROVE CursorOf(events, fetched, mark, clock', serial)
  <2>1. PICK m \in Marks : m = mark
    BY <1>4 DEF HikInv, HikTypes
  <2>2. m.time \in Int /\ Overlap \in Int
    BY SearchAssumption DEF Marks, Moments
  <2>3. CursorOf(events, fetched, m, clock, serial)
    BY <1>4, <2>1 DEF HikInv
  <2>4. ASSUME clock' >= m.time, NEW e \in New(events, fetched) PROVE e.time >= m.time - Overlap
    <3>1. e.time \in Int
      BY LoggedIs DEF HikInv, HikTypes, New
    <3>2. CASE clock >= m.time
      BY <2>3, <3>2 DEF CursorOf
    <3>3. CASE clock < m.time
      <4>1. e.time >= clock + 1 - Overlap
        BY <1>1, <1>4, <2>4
      <4> QED BY <1>1, <1>2, <2>2, <2>4, <3>1, <3>3, <4>1
    <3> QED BY <1>2, <2>2, <3>2, <3>3
  <2>5. clock > m.time => clock' > m.time
    BY <1>1, <1>2, <2>2
  <2> QED BY <2>1, <2>3, <2>4, <2>5 DEF CursorOf
<1>5. ASSUME search # None PROVE Covers(search, events, fetched, clock')
  <2>1. PICK s \in Searches : s = search
    BY <1>5 DEF HikInv, HikTypes
  <2>2. s.from <= clock => s.from <= clock'
    BY <1>1, <1>2, SearchIs
  <2> QED BY <1>5, <2>1, <2>2 DEF HikInv, Covers
<1>6. InReach(events, fetched, clock')
  <2>1. \A e \in New(events, fetched) : e.time \in Int
    BY LoggedIs DEF HikInv, HikTypes, New
  <2>2. InReach(events, fetched, clock)
    BY DEF HikInv
  <2> QED BY <1>1, <1>2, <2>1, <2>2, SearchAssumption DEF InReach
<1> QED BY <1>1, <1>3, <1>4, <1>5, <1>6 DEF HikInv

LEMMA HikSetBack ==
  ASSUME ~HardResets, HikInv, H!SetBack
  PROVE  HikInv'
<1>1. PICK t \in 1..(clock - 1) :
         clock' = t /\ \A e \in New(events, fetched) : e.time <= t + EndMargin
  BY DEF H!SetBack, New
<1>2. /\ search = None /\ (mark # None => serial >= mark.serial)
      /\ UNCHANGED <<events, serial, numbered, mark, search, fetched, missing>>
  BY DEF H!SetBack
<1>3. clock' \in Moments /\ clock' < clock /\ clock \in Int /\ clock' \in Int
  BY <1>1, SearchAssumption DEF HikInv, HikTypes, Moments
<1>4. HikTypes'
  BY <1>2, <1>3 DEF HikInv, HikTypes
<1>5. ASSUME mark # None PROVE CursorOf(events, fetched, mark, clock', serial)
  <2>1. PICK m \in Marks : m = mark
    BY <1>5 DEF HikInv, HikTypes
  <2>2. m.time \in Int /\ m.serial \in Int /\ serial \in Int
    BY SearchAssumption DEF Marks, Moments, HikInv, HikTypes
  <2>3. CursorOf(events, fetched, m, clock, serial)
    BY <1>5, <2>1 DEF HikInv
  <2>4. clock' >= m.time => clock >= m.time
    BY <1>3, <2>2
  <2>5. ~(serial < m.serial)
    BY <1>2, <1>5, <2>1, <2>2
  <2> QED BY <2>1, <2>3, <2>4, <2>5 DEF CursorOf
<1>6. InReach(events, fetched, clock')
  <2>1. \A e \in New(events, fetched) : e.time \in Int
    BY LoggedIs DEF HikInv, HikTypes, New
  <2>2. InReach(events, fetched, clock)
    BY DEF HikInv
  <2> QED BY <1>1, <1>3, <2>1, <2>2, SearchAssumption DEF InReach
<1> QED BY <1>2, <1>4, <1>5, <1>6 DEF HikInv

LEMMA HikWipe ==
  ASSUME ~HardResets, HikInv, H!Wipe
  PROVE  HikInv'
<1>1. /\ clock' = clock + 1 /\ clock < LastTime
      /\ events' = {} /\ serial' = 0 /\ search = None /\ search' = None
      /\ UNCHANGED <<numbered, mark, fetched, missing>>
      /\ mark # None => mark.serial > 1 /\ mark.time <= clock
  BY DEF H!Wipe
<1>2. clock' \in Moments /\ clock \in Int
  BY <1>1, SearchAssumption DEF HikInv, HikTypes, Moments
<1>3. HikTypes'
  BY <1>1, <1>2, FS_EmptySet DEF HikInv, HikTypes
<1>4. ASSUME mark # None PROVE CursorOf({}, fetched, mark, clock', 0)
  <2>1. PICK m \in Marks : m = mark
    BY <1>4 DEF HikInv, HikTypes
  <2>2. m.time \in Int /\ m.serial > 1
    BY <1>1, <1>4, <2>1, SearchAssumption DEF Marks, Moments
  <2>3. clock' > m.time
    BY <1>1, <1>2, <1>4, <2>1, <2>2
  <2>4. New({}, fetched) = {}
    BY DEF New
  <2> QED BY <2>1, <2>2, <2>3, <2>4 DEF CursorOf
<1>5. InReach({}, fetched, clock')
  BY DEF InReach, New
<1> QED BY <1>1, <1>3, <1>4, <1>5 DEF HikInv

LEMMA HikBegin ==
  ASSUME HikInv, H!BeginSearch
  PROVE  HikInv'
<1>1. PICK s : s = [from |-> H!From(clock), to |-> clock + EndMargin, kind |-> 1, position |-> 0,
                    found |-> {}, due |-> H!Ids({e \in events : e.time >= clock - Lookback})]
  OBVIOUS
<1>2. search' = s /\ UNCHANGED <<clock, events, serial, numbered, mark, fetched, missing>>
  BY <1>1 DEF H!BeginSearch
<1>3. clock \in Int /\ Lookback \in Nat /\ EndMargin \in Nat /\ Overlap \in Nat
  BY SearchAssumption DEF HikInv, HikTypes, Moments
<1>4. /\ H!From(clock) \in Int /\ H!From(clock) <= clock
      /\ \A e \in New(events, fetched) : H!From(clock) <= e.time
  <2>1. \A e \in New(events, fetched) : e.time \in Int /\ clock - Lookback <= e.time
    BY LoggedIs DEF HikInv, HikTypes, New, InReach
  <2>2. CASE mark = None
    BY <1>3, <2>1, <2>2 DEF H!From
  <2>3. CASE mark # None
    <3>1. PICK m \in Marks : m = mark
      BY <2>3 DEF HikInv, HikTypes
    <3>2. m.time \in Int
      BY SearchAssumption DEF Marks, Moments
    <3>3. clock >= m.time => \A e \in New(events, fetched) : e.time >= m.time - Overlap
      BY <2>3, <3>1 DEF HikInv, CursorOf
    <3>4. CASE clock < m.time
      BY <1>3, <2>1, <3>1, <3>4 DEF H!From
    <3>5. CASE ~(clock < m.time)
      <4>1. H!From(clock) = H!Later(clock - Lookback, m.time - Overlap)
        BY <2>3, <3>1, <3>5 DEF H!From
      <4>2. clock >= m.time
        BY <1>3, <3>2, <3>5
      <4> QED BY <1>3, <2>1, <3>2, <3>3, <4>1, <4>2 DEF H!Later
    <3> QED BY <3>4, <3>5
  <2> QED BY <2>2, <2>3
<1>5. /\ clock + EndMargin \in Int
      /\ \A e \in New(events, fetched) : e.time <= clock + EndMargin /\ ~(clock + EndMargin < e.time)
  <2>1. \A e \in New(events, fetched) : e.time \in Int
    BY LoggedIs DEF HikInv, HikTypes, New
  <2> QED BY <1>3, <2>1 DEF HikInv, InReach
<1>6. H!Ids({e \in events : e.time >= clock - Lookback}) \subseteq H!Ids(events)
      /\ H!Ids(events) \subseteq Nat
  BY LoggedIs DEF H!Ids, HikInv, HikTypes
<1>7. /\ s \in Searches /\ s.from = H!From(clock) /\ s.to = clock + EndMargin /\ s.kind = 1
      /\ s.position = 0 /\ s.found = {} /\ s.due \subseteq H!Ids(events)
  BY <1>1, <1>4, <1>5, <1>6 DEF Searches
<1>8. HikTypes'
  BY <1>2, <1>7 DEF HikInv, HikTypes
<1>9. Covers(s, events, fetched, clock)
  <2>1. s.kind \in 1..(Len(Minors) + 1) /\ \A k \in 1..Len(Minors) : ~(k < s.kind)
    BY <1>7, SearchAssumption
  <2>2. ASSUME NEW minor
        PROVE  /\ 0 <= Cardinality(Asked(events, s, minor))
               /\ \A e : ~(H!Place(e, Asked(events, s, minor)) < 0)
    <3>1. IsFiniteSet(Asked(events, s, minor))
      BY FS_Subset DEF HikInv, HikTypes, Asked
    <3>2. ASSUME NEW e PROVE ~(H!Place(e, Asked(events, s, minor)) < 0)
      BY <3>1, PlaceIs
    <3> QED BY <3>1, <3>2, FS_CardinalityType
  <2> QED BY <1>4, <1>5, <1>7, <2>1, <2>2 DEF Covers
<1> QED BY <1>2, <1>7, <1>8, <1>9, HikNone DEF HikInv

\* The last event of all comes after the others, which keep their places.
LEMMA PlaceStill ==
  ASSUME NEW q, NEW x, x \notin q, \A e \in q : ~H!Earlier(x, e) /\ H!Earlier(e, x),
         ~H!Earlier(x, x)
  PROVE  /\ \A e \in q : H!Place(e, q \cup {x}) = H!Place(e, q)
         /\ H!Place(x, q \cup {x}) = Cardinality(q)
<1>1. ASSUME NEW e \in q PROVE {f \in q \cup {x} : H!Earlier(f, e)} = {f \in q : H!Earlier(f, e)}
  OBVIOUS
<1>2. {f \in q \cup {x} : H!Earlier(f, x)} = q
  OBVIOUS
<1> QED BY <1>1, <1>2, SameCardinality DEF H!Place

LEMMA HikRecord ==
  ASSUME ~Crossings, HikInv, H!Record
  PROVE  HikInv'
<1>1. PICK i \in DOMAIN Minors :
         /\ search # None => i >= search.kind /\ \A e \in events : e.time <= clock
         /\ events' = events \cup {[id |-> numbered, serial |-> serial + 1, time |-> clock,
                                    minor |-> Minors[i]]}
  BY DEF H!Record
<1>2. PICK x : x = [id |-> numbered, serial |-> serial + 1, time |-> clock, minor |-> Minors[i]]
  OBVIOUS
<1>3. /\ numbered' = numbered + 1 /\ serial' = serial + 1 /\ events' = events \cup {x}
      /\ UNCHANGED <<clock, mark, search, fetched, missing>>
  BY <1>1, <1>2 DEF H!Record
<1>4. numbered \in Nat /\ serial \in Nat /\ clock \in Moments /\ clock \in Int
  BY SearchAssumption DEF HikInv, HikTypes, Moments
<1>5. /\ x \in Logged /\ x.id = numbered /\ x.serial = serial + 1 /\ x.time = clock
      /\ x.minor = Minors[i]
  <2>1. serial + 1 \in Nat \ {0} /\ Minors[i] \in MinorKinds
    BY <1>4 DEF MinorKinds
  <2> QED BY <1>2, <1>4, <2>1 DEF Logged
<1>6. x \notin events /\ x.id \notin fetched
  BY <1>4, <1>5 DEF HikInv, HikTypes
<1>7. HikTypes'
  <2>1. IsFiniteSet(events \cup {x})
    BY FS_AddElement DEF HikInv, HikTypes
  <2>2. \A e \in events \cup {x} : e.id < numbered + 1 /\ e.serial <= serial + 1
    <3> SUFFICES ASSUME NEW e \in events \cup {x}
                 PROVE  e.id < numbered + 1 /\ e.serial <= serial + 1
      OBVIOUS
    <3>1. CASE e = x
      BY <1>4, <1>5, <3>1
    <3>2. CASE e \in events
      <4>1. e.id < numbered /\ e.serial <= serial /\ e.id \in Nat /\ e.serial \in Nat
        BY <3>2, LoggedIs DEF HikInv, HikTypes
      <4> QED BY <1>4, <4>1
    <3> QED BY <3>1, <3>2
  <2>3. \A n \in fetched : n < numbered + 1
    BY <1>4 DEF HikInv, HikTypes
  <2> QED BY <1>3, <1>4, <1>5, <2>1, <2>2, <2>3 DEF HikInv, HikTypes
<1>8. New(events', fetched) = New(events, fetched) \cup {x}
  BY <1>3, <1>6 DEF New
<1>9. ASSUME mark # None PROVE CursorOf(events', fetched, mark, clock, serial')
  <2>1. PICK m \in Marks : m = mark
    BY <1>9 DEF HikInv, HikTypes
  <2>2. m.time \in Int /\ m.serial \in Nat /\ Overlap \in Nat
    BY SearchAssumption DEF Marks, Moments
  <2>3. CursorOf(events, fetched, m, clock, serial)
    BY <1>9, <2>1 DEF HikInv
  <2>4. clock >= m.time => x.time >= m.time - Overlap
    BY <1>4, <1>5, <2>2
  <2>5. serial < m.serial =>
           /\ clock > m.time
           /\ Betrays(x, m) \/ \E w \in New(events, fetched) : Betrays(w, m)
    BY <1>4, <1>5, <2>2, <2>3 DEF CursorOf, Betrays
  <2>6. x.serial > m.serial \/ serial < m.serial
    BY <1>4, <1>5, <2>2
  <2>7. serial' < m.serial => serial < m.serial
    BY <1>3, <1>4, <2>2
  <2> QED BY <1>5, <1>8, <2>1, <2>3, <2>4, <2>5, <2>6, <2>7 DEF CursorOf
<1>10. ASSUME search # None PROVE Covers(search, events', fetched, clock)
  <2>1. PICK s \in Searches : s = search
    BY <1>10 DEF HikInv, HikTypes
  <2>2. Covers(s, events, fetched, clock)
    BY <1>10, <2>1 DEF HikInv
  <2>3. i >= s.kind /\ i \in 1..Len(Minors) /\ i \in Int /\ s.kind \in Int /\ Len(Minors) \in Nat
    BY <1>1, <1>10, <2>1, SearchIs, SearchAssumption
  <2>4. /\ \A e \in New(events', fetched) : s.from <= e.time /\ (e.id \in s.due => e.time <= s.to)
        /\ \A e \in New(events', fetched), f \in events' :
              s.to < e.time /\ f.time <= s.to => f.serial < e.serial
    <3>1. x.id \notin s.due
      <4>1. \A e \in events : e.id < numbered /\ e.id \in Nat
        BY LoggedIs DEF HikInv, HikTypes
      <4> QED BY <1>4, <1>5, <2>2, <4>1 DEF Covers, H!Ids
    <3>2. \A f \in events : f.serial < x.serial
      <4>1. \A f \in events : f.serial <= serial /\ f.serial \in Nat
        BY LoggedIs DEF HikInv, HikTypes
      <4> QED BY <1>4, <1>5, <4>1
    <3>3. \A e \in events : ~(s.to < e.time /\ x.time <= s.to)
      <4>1. \A e \in events : e.time <= clock /\ e.time \in Int
        BY <1>1, <1>10, LoggedIs DEF HikInv, HikTypes
      <4> QED BY <1>4, <1>5, <4>1, SearchIs
    <3>4. ~(s.to < x.time /\ x.time <= s.to)
      BY <1>4, <1>5, SearchIs
    <3> QED BY <1>3, <1>5, <1>8, <2>2, <3>1, <3>2, <3>3, <3>4 DEF Covers, New
  <2>5. s.due \subseteq H!Ids(events') /\ s.found \subseteq events' /\ \A f \in s.found : f.time <= s.to
    BY <1>3, <2>2 DEF Covers, H!Ids
  <2>6. \A minor : minor # Minors[i] => Asked(events', s, minor) = Asked(events, s, minor)
    BY <1>3, <1>5 DEF Asked
  <2>7. ASSUME NEW k \in 1..Len(Minors), k < s.kind PROVE Asked(events', s, Minors[k]) \subseteq s.found
    <3>1. Minors[k] # Minors[i]
      BY <2>3, <2>7, SearchAssumption
    <3> QED BY <2>2, <2>6, <2>7, <3>1 DEF Covers
  <2>8. PICK q : q = Asked(events, s, Minors[s.kind])
    OBVIOUS
  <2>9. /\ s.position <= Cardinality(q) /\ s.position \in Int
        /\ \A e \in q : H!Place(e, q) < s.position => e \in s.found
    BY <2>2, <2>3, <2>8, SearchIs DEF Covers
  <2>10. /\ s.position <= Cardinality(Asked(events', s, Minors[s.kind]))
         /\ \A e \in Asked(events', s, Minors[s.kind]) :
               H!Place(e, Asked(events', s, Minors[s.kind])) < s.position => e \in s.found
    <3>1. CASE Minors[s.kind] # Minors[i]
      BY <2>6, <2>8, <2>9, <3>1
    <3>2. CASE ~(x.time <= s.to)
      <4>1. Asked(events', s, Minors[s.kind]) = q
        BY <1>3, <2>8, <3>2 DEF Asked
      <4> QED BY <2>9, <4>1
    <3>3. CASE Minors[s.kind] = Minors[i] /\ x.time <= s.to
      <4>1. Asked(events', s, Minors[s.kind]) = q \cup {x}
        <5>1. s.from <= x.time
          BY <1>5, <2>2 DEF Covers
        <5> QED BY <1>3, <1>5, <2>8, <3>3, <5>1 DEF Asked
      <4>2. IsFiniteSet(q) /\ x \notin q /\ q \subseteq events
        BY <1>6, <2>8, FS_Subset DEF HikInv, HikTypes, Asked
      <4>3. \A e \in q : ~H!Earlier(x, e) /\ H!Earlier(e, x)
        <5> SUFFICES ASSUME NEW e \in q PROVE ~H!Earlier(x, e) /\ H!Earlier(e, x)
          OBVIOUS
        <5>1. e.time <= clock /\ e.id < numbered /\ e.time \in Int /\ e.id \in Nat
          BY <1>1, <1>10, <4>2, LoggedIs DEF HikInv, HikTypes
        <5> QED BY <1>4, <1>5, <5>1 DEF H!Earlier
      <4>4. ~H!Earlier(x, x)
        BY <1>4, <1>5 DEF H!Earlier
      <4>5. /\ \A e \in q : H!Place(e, q \cup {x}) = H!Place(e, q)
            /\ H!Place(x, q \cup {x}) = Cardinality(q)
        BY <4>2, <4>3, <4>4, PlaceStill
      <4>6. Cardinality(q) \in Nat /\ Cardinality(q \cup {x}) = Cardinality(q) + 1
        BY <4>2, FS_CardinalityType, FS_AddElement
      <4>7. ~(H!Place(x, q \cup {x}) < s.position)
        BY <2>9, <4>5, <4>6
      <4>8. s.position <= Cardinality(q \cup {x})
        BY <2>9, <4>6
      <4> QED BY <2>9, <4>1, <4>5, <4>7, <4>8
    <3> QED BY <3>1, <3>2, <3>3
  <2> QED BY <2>1, <2>2, <2>4, <2>5, <2>7, <2>10 DEF Covers
<1>11. InReach(events', fetched, clock)
  <2>1. clock - Lookback <= x.time /\ x.time <= clock + EndMargin
    BY <1>4, <1>5, SearchAssumption
  <2>2. InReach(events, fetched, clock)
    BY DEF HikInv
  <2> QED BY <1>8, <2>1, <2>2 DEF InReach
<1> QED BY <1>3, <1>7, <1>9, <1>10, <1>11 DEF HikInv

LEMMA HikFetchPage ==
  ASSUME HikInv, H!FetchPage
  PROVE  HikInv'
<1>1. PICK s \in Searches : s = search /\ search # None
  BY DEF H!FetchPage, HikInv, HikTypes
<1>2. Covers(s, events, fetched, clock)
  BY <1>1 DEF HikInv
<1>3. s.kind \in 1..Len(Minors) /\ Len(Minors) \in Nat
  BY <1>1, <1>2, SearchIs, SearchAssumption DEF H!FetchPage, Covers
<1>4. PICK q \in SUBSET events : q = Asked(events, s, Minors[s.kind])
  BY DEF Asked
<1>5. PICK next \in Int : next = s.position + PageSize
  BY SearchIs, SearchAssumption
<1>6. PICK page \in SUBSET q :
         page = {e \in q : s.position <= H!Place(e, q) /\ H!Place(e, q) < next}
  OBVIOUS
<1>7. PICK more \in BOOLEAN : (more <=> next < Cardinality(q))
  <2>1. (next < Cardinality(q)) \in BOOLEAN
    OBVIOUS
  <2> QED BY <2>1, Zenon
<1>8. /\ search' = [s EXCEPT !.found = @ \cup page, !.position = IF more THEN next ELSE 0,
                             !.kind = IF more THEN @ ELSE @ + 1]
      /\ UNCHANGED <<clock, events, serial, numbered, mark, fetched, missing>>
  <2>1. H!Matching(Minors[s.kind]) = q
    BY <1>1, <1>4 DEF H!Matching, Asked
  <2> QED BY <1>1, <1>5, <1>6, <1>7, <2>1, SameCardinality DEF H!FetchPage
<1>9. PICK t : t = [s EXCEPT !.found = @ \cup page, !.position = IF more THEN next ELSE 0,
                             !.kind = IF more THEN @ ELSE @ + 1]
  OBVIOUS
<1>10. IsFiniteSet(q) /\ q \subseteq Logged /\ page \subseteq Logged
  BY FS_Subset DEF HikInv, HikTypes
<1>11. next \in Nat /\ s.position \in Nat /\ PageSize \in Nat /\ s.kind \in Nat
  BY <1>5, SearchIs, SearchAssumption
<1>12. /\ t \in Searches /\ t.from = s.from /\ t.to = s.to /\ t.due = s.due
       /\ t.found = s.found \cup page /\ t.position = (IF more THEN next ELSE 0)
       /\ t.kind = IF more THEN s.kind ELSE s.kind + 1
  <2>1. s.found \cup page \in SUBSET Logged
    BY <1>10, SearchIs
  <2>2. (IF more THEN next ELSE 0) \in Nat /\ (IF more THEN s.kind ELSE s.kind + 1) \in Nat
    BY <1>11
  <2>3. t = [from |-> s.from, to |-> s.to, due |-> s.due, found |-> s.found \cup page,
             position |-> IF more THEN next ELSE 0, kind |-> IF more THEN s.kind ELSE s.kind + 1]
    BY <1>9 DEF Searches
  <2> QED BY <2>1, <2>2, <2>3, SearchIs DEF Searches
<1>13. \A minor : Asked(events, t, minor) = Asked(events, s, minor)
  BY <1>12 DEF Asked
<1>14. \A e \in q : H!Place(e, q) \in Nat /\ H!Place(e, q) < Cardinality(q) /\ Cardinality(q) \in Nat
  BY <1>10, PlaceIs, FS_CardinalityType
<1>15. \A e \in q : H!Place(e, q) < s.position => e \in s.found
  BY <1>2, <1>3, <1>4 DEF Covers
<1>16. ASSUME NEW e \in q, H!Place(e, q) < next PROVE e \in t.found
  BY <1>6, <1>11, <1>12, <1>14, <1>15, <1>16
<1>17. Covers(t, events, fetched, clock)
  <2>1. /\ t.from <= clock
        /\ \A e \in New(events, fetched) : t.from <= e.time /\ (e.id \in t.due => e.time <= t.to)
        /\ \A e \in New(events, fetched), f \in events :
              t.to < e.time /\ f.time <= t.to => f.serial < e.serial
        /\ \A f \in t.found : f.time <= t.to
        /\ t.due \subseteq H!Ids(events) /\ t.found \subseteq events
    <3>1. \A f \in page : f.time <= s.to
      BY <1>4, <1>6 DEF Asked
    <3> QED BY <1>2, <1>12, <3>1 DEF Covers
  <2>2. \A k \in 1..Len(Minors) : k < s.kind => Asked(events, t, Minors[k]) \subseteq t.found
    BY <1>2, <1>12, <1>13 DEF Covers
  <2>3. CASE more
    <3>1. next <= Cardinality(q)
      BY <1>7, <1>10, <1>11, <2>3, FS_CardinalityType
    <3>2. t.kind = s.kind /\ t.position = next
      BY <1>12, <2>3
    <3>3. Asked(events, t, Minors[t.kind]) = q
      BY <1>4, <1>13, <3>2
    <3> QED BY <1>3, <1>16, <2>1, <2>2, <3>1, <3>2, <3>3 DEF Covers
  <2>4. CASE ~more
    <3>1. q \subseteq t.found
      <4>1. \A e \in q : H!Place(e, q) < next
        BY <1>7, <1>11, <1>14, <2>4
      <4> QED BY <1>16, <4>1
    <3>2. t.kind = s.kind + 1 /\ t.position = 0
      BY <1>12, <2>4
    <3>3. \A k \in 1..Len(Minors) : k < t.kind => k < s.kind \/ k = s.kind
      BY <1>3, <3>2
    <3>4. \A k \in 1..Len(Minors) : k < t.kind => Asked(events, t, Minors[k]) \subseteq t.found
      BY <1>4, <1>13, <2>2, <3>1, <3>3
    <3>5. t.kind \in 1..(Len(Minors) + 1)
      BY <1>3, <3>2
    <3>6. ASSUME NEW r, r = Asked(events, t, Minors[t.kind])
          PROVE  0 <= Cardinality(r) /\ \A e \in r : ~(H!Place(e, r) < 0)
      <4>1. IsFiniteSet(r)
        BY <3>6, FS_Subset DEF HikInv, HikTypes, Asked
      <4> QED BY <4>1, FS_CardinalityType, PlaceIs
    <3> QED BY <2>1, <3>2, <3>4, <3>5, <3>6 DEF Covers
  <2> QED BY <2>3, <2>4
<1>18. HikTypes'
  BY <1>8, <1>9, <1>12 DEF HikInv, HikTypes
<1> QED BY <1>1, <1>8, <1>9, <1>12, <1>17, <1>18, HikNone DEF HikInv

\* A set of numbers has a least one.
LEMMA LeastOf ==
  ASSUME NEW T, T \subseteq Nat, T # {}
  PROVE  \E x \in T : \A y \in T : x <= y
<1>1. PICK heads : heads = {T \cap (0..n) : n \in T}
  OBVIOUS
<1>2. heads \subseteq FiniteSubsetsOf(Nat) /\ heads # {}
  <2>1. ASSUME NEW n \in T PROVE T \cap (0..n) \in FiniteSubsetsOf(Nat)
    <3>1. IsFiniteSet(0..n)
      BY FS_Interval
    <3>2. IsFiniteSet(T \cap (0..n))
      BY <3>1, FS_Subset
    <3> QED BY <3>2 DEF FiniteSubsetsOf
  <2> QED BY <1>1, <2>1
<1>3. PICK head \in heads : \A other \in heads : <<other, head>> \notin StrictSubsetOrdering(Nat)
  BY <1>2, FS_StrictSubsetOrderingWellFounded, WFMin
<1>4. PICK x \in T : head = T \cap (0..x)
  BY <1>1
<1>5. ASSUME NEW y \in T, y < x PROVE FALSE
  <2>1. PICK other \in heads : other = T \cap (0..y)
    BY <1>1
  <2>2. head \in SUBSET Nat /\ other \in SUBSET Nat /\ other \subseteq head /\ x \in head /\ x \notin other
    BY <1>4, <1>5, <2>1
  <2>3. <<other, head>> \in StrictSubsetOrdering(Nat)
    BY <2>2 DEF StrictSubsetOrdering
  <2> QED BY <1>3, <2>3
<1> QED BY <1>5

\* The greatest of some numbers that are bounded.
LEMMA HighestIs ==
  ASSUME NEW T \in SUBSET Nat, T # {}, NEW bound \in Nat, \A x \in T : x <= bound
  PROVE  H!Highest(T) \in T /\ \A x \in T : x <= H!Highest(T)
<1>1. PICK gaps : gaps = {bound - x : x \in T}
  OBVIOUS
<1>2. gaps \subseteq Nat /\ gaps # {}
  <2>1. \A x \in T : bound - x \in Nat
    OBVIOUS
  <2>2. PICK x \in T : TRUE
    OBVIOUS
  <2>3. bound - x \in gaps
    BY <1>1, <2>2
  <2> QED BY <1>1, <2>1, <2>3
<1>3. PICK y \in gaps : \A z \in gaps : y <= z
  BY <1>2, LeastOf
<1>4. PICK v \in T : y = bound - v
  BY <1>1, <1>3
<1>5. \A w \in T : w <= v
  <2> SUFFICES ASSUME NEW w \in T PROVE w <= v
    OBVIOUS
  <2>1. bound - w \in gaps
    BY <1>1
  <2> QED BY <1>3, <1>4, <2>1
<1> QED BY <1>5 DEF H!Highest

\* What is left undone when a search ends: nothing.
LEMMA HikFinish ==
  ASSUME HikInv, H!Finish
  PROVE  HikInv'
<1>1. PICK s \in Searches : s = search /\ search # None
  BY DEF H!Finish, HikInv, HikTypes
<1>2. PICK selected : selected = H!SelectNew(s.found)
  OBVIOUS
<1>3. /\ s.kind > Len(Minors)
      /\ fetched' = fetched \cup H!Ids(selected)
      /\ mark' = H!Advanced(s.found) /\ missing' = s.due \ fetched' /\ search' = None
      /\ UNCHANGED <<clock, events, serial, numbered>>
  BY <1>1, <1>2 DEF H!Finish
<1>4. Covers(s, events, fetched, clock)
  BY <1>1 DEF HikInv
<1>5. /\ selected \subseteq s.found /\ s.found \subseteq events /\ events \subseteq Logged
      /\ IsFiniteSet(events)
  BY <1>2, <1>4 DEF H!SelectNew, Covers, HikInv, HikTypes
<1>6. \A e \in New(events, fetched) : e.time <= s.to => e \in s.found
  <2> SUFFICES ASSUME NEW e \in New(events, fetched), e.time <= s.to PROVE e \in s.found
    OBVIOUS
  <2>1. e \in events /\ e \in Logged
    BY <1>5 DEF New
  <2>2. PICK k \in 1..Len(Minors) : e.minor = Minors[k]
    BY <2>1, LoggedIs, SearchAssumption DEF MinorKinds
  <2>3. k < s.kind
    BY <1>3, <2>2, SearchIs, SearchAssumption
  <2>4. e \in Asked(events, s, Minors[k])
    BY <1>4, <2>1, <2>2 DEF Asked, Covers
  <2> QED BY <1>4, <2>2, <2>3, <2>4 DEF Covers
<1>7. \A e \in New(events, fetched) :
         e.time \in Int /\ e.serial \in Int
         /\ (~(e.time <= s.to) => \A f \in s.found : f.serial < e.serial /\ f.time < e.time)
  <2> SUFFICES ASSUME NEW e \in New(events, fetched)
               PROVE  e.time \in Int /\ e.serial \in Int
                      /\ (~(e.time <= s.to) => \A f \in s.found : f.serial < e.serial /\ f.time < e.time)
    OBVIOUS
  <2>1. e.time \in Int /\ e.serial \in Int /\ s.to \in Int
    BY <1>5, LoggedIs, SearchIs DEF New
  <2>2. \A f \in s.found : f \in events /\ f.time <= s.to /\ f.time \in Int
    BY <1>4, <1>5, LoggedIs DEF Covers
  <2>3. s.to < e.time => \A f \in s.found : f.serial < e.serial
    BY <1>4, <2>2 DEF Covers
  <2> QED BY <2>1, <2>2, <2>3
<1>8. ASSUME NEW m \in Marks, m = mark, ~H!Restarted(s.found)
      PROVE  /\ \A e \in New(events, fetched) : e.time <= s.to => e.serial > m.serial
             /\ selected # {} => \A w \in New(events, fetched) : ~Betrays(w, m)
  <2>1. \A w \in s.found : ~Betrays(w, m)
    BY <1>8, HikNone DEF H!Restarted, Betrays
  <2>2. CursorOf(events, fetched, m, clock, serial)
    BY <1>8, HikNone DEF HikInv
  <2>3. m.serial \in Int
    BY DEF Marks
  <2>4. ASSUME NEW e \in New(events, fetched), e.time <= s.to PROVE e.serial > m.serial
    <3>1. e \in s.found /\ e.serial \in Int
      BY <1>6, <1>7, <2>4
    <3> SUFFICES ASSUME e.time > m.time, NEW w \in New(events, fetched), Betrays(w, m)
                 PROVE  e.serial > m.serial
      BY <2>2 DEF CursorOf
    <3>2. w \notin s.found /\ w.serial \in Int
      BY <1>7, <2>1
    <3>3. e.serial < w.serial /\ w.serial < m.serial
      BY <1>6, <1>7, <3>1, <3>2 DEF Betrays
    <3>4. e.serial < m.serial
      BY <2>3, <3>1, <3>2, <3>3
    <3> QED BY <2>1, <3>1, <3>4 DEF Betrays
  <2>5. ASSUME selected # {}, NEW w \in New(events, fetched), Betrays(w, m) PROVE FALSE
    <3>1. PICK f \in s.found : f.serial > m.serial
      BY <1>2, <1>8, <2>5, HikNone DEF H!SelectNew
    <3>2. f.serial < w.serial /\ w.serial < m.serial /\ w.serial \in Int
      BY <1>6, <1>7, <2>1, <2>5 DEF Betrays
    <3>3. f.serial \in Int
      BY <1>5, LoggedIs
    <3> QED BY <2>3, <3>1, <3>2, <3>3
  <2> QED BY <2>4, <2>5
<1>9. \A e \in New(events, fetched') : e \in New(events, fetched) /\ ~(e.time <= s.to)
  <2>1. ASSUME NEW e \in New(events, fetched), e.time <= s.to PROVE e \in selected
    <3>1. CASE mark = None \/ H!Restarted(s.found)
      BY <1>2, <1>6, <2>1, <3>1 DEF H!SelectNew
    <3>2. CASE mark # None /\ ~H!Restarted(s.found)
      <4>1. PICK m \in Marks : m = mark
        BY <3>2 DEF HikInv, HikTypes
      <4>2. selected = {f \in s.found : f.serial > m.serial}
        BY <1>2, <3>2, <4>1 DEF H!SelectNew
      <4> QED BY <1>6, <1>8, <2>1, <3>2, <4>1, <4>2
    <3> QED BY <3>1, <3>2
  <2> QED BY <1>3, <2>1 DEF New, H!Ids
<1>10. missing' = {}
  <2>1. ASSUME NEW n \in s.due, n \notin fetched' PROVE FALSE
    <3>1. PICK e \in events : e.id = n
      BY <1>4, <2>1 DEF Covers, H!Ids
    <3>2. e \in New(events, fetched')
      BY <2>1, <3>1 DEF New
    <3> QED BY <1>4, <1>9, <2>1, <3>1, <3>2 DEF Covers
  <2> QED BY <1>3, <2>1
<1>11. fetched' \in SUBSET Nat /\ \A n \in fetched' : n < numbered
  <2>1. \A e \in selected : e.id \in Nat /\ e.id < numbered
    BY <1>5, LoggedIs DEF HikInv, HikTypes
  <2> QED BY <1>3, <2>1 DEF H!Ids, HikInv, HikTypes
<1>12. InReach(events, fetched', clock)
  BY <1>9 DEF HikInv, InReach
<1>13. serial \in Nat /\ clock \in Int
  BY SearchAssumption DEF HikInv, HikTypes, Moments
<1>14. CASE selected = {}
  <2>1. mark' = mark
    BY <1>2, <1>3, <1>14 DEF H!Advanced
  <2>2. fetched' = fetched
    BY <1>3, <1>14 DEF H!Ids
  <2>3. mark' \in Marks \cup {None}
    BY <2>1 DEF HikInv, HikTypes
  <2> QED BY <1>3, <1>10, <1>11, <1>12, <2>1, <2>2, <2>3 DEF HikInv, HikTypes
<1>15. CASE selected # {}
  <2>1. PICK serials \in SUBSET Nat : serials = {e.serial : e \in selected} /\ serials # {}
    <3>1. \A e \in selected : e.serial \in Nat
      BY <1>5, LoggedIs
    <3>2. PICK e \in selected : TRUE
      BY <1>15
    <3>3. e.serial \in {g.serial : g \in selected}
      OBVIOUS
    <3>4. {g.serial : g \in selected} \in SUBSET Nat
      BY <3>1
    <3> QED BY <3>3, <3>4
  <2>2. PICK times \in SUBSET Nat : times = {e.time : e \in selected} /\ times # {}
    <3>1. \A e \in selected : e.time \in Nat
      BY <1>5, LoggedIs, SearchAssumption DEF Moments
    <3>2. PICK e \in selected : TRUE
      BY <1>15
    <3>3. e.time \in {g.time : g \in selected}
      OBVIOUS
    <3>4. {g.time : g \in selected} \in SUBSET Nat
      BY <3>1
    <3> QED BY <3>3, <3>4
  <2>3. PICK highest \in Nat : highest = H!Highest(serials)
    <3>1. \A n \in serials : n <= serial
      BY <1>5, <2>1 DEF HikInv, HikTypes
    <3> QED BY <1>13, <2>1, <3>1, HighestIs
  <2>4. highest <= serial /\ highest \in serials
    <3>1. \A n \in serials : n <= serial
      BY <1>5, <2>1 DEF HikInv, HikTypes
    <3> QED BY <1>13, <2>1, <2>3, <3>1, HighestIs
  <2>5. PICK newest \in Moments : newest = H!Highest(times) /\ newest \in times
    <3>1. \A t \in times : t \in Moments /\ t <= LastTime
      BY <1>5, <2>2, LoggedIs, SearchAssumption DEF Moments
    <3>2. H!Highest(times) \in times
      BY <2>2, <3>1, HighestIs, SearchAssumption
    <3> QED BY <3>1, <3>2
  <2>6. /\ mark' = IF mark = None THEN [serial |-> highest, time |-> newest]
                   ELSE [serial |-> IF H!Restarted(s.found) THEN highest
                                    ELSE H!Later(mark.serial, highest),
                         time |-> H!Later(mark.time, newest)]
    BY <1>2, <1>3, <1>15, <2>1, <2>2, <2>3, <2>5 DEF H!Advanced
  <2>7. PICK f \in s.found, g \in s.found : highest = f.serial /\ newest = g.time
    <3>1. PICK f \in selected : highest = f.serial
      BY <2>1, <2>4
    <3>2. PICK g \in selected : newest = g.time
      BY <2>2, <2>5
    <3> QED BY <1>5, <3>1, <3>2
  <2>8. \A e \in New(events, fetched') : e \in New(events, fetched) /\ highest < e.serial /\ newest < e.time
    BY <1>7, <1>9, <2>7
  <2>9. PICK n \in Nat, t \in Moments :
           /\ mark' = [serial |-> n, time |-> t] /\ ~(serial < n)
           /\ \A e \in New(events, fetched') : n < e.serial
           /\ clock >= t => \A e \in New(events, fetched') : e.time >= t - Overlap
    <3>1. newest \in Int /\ Overlap \in Nat /\ \A e \in New(events, fetched') : e.time \in Int
      BY <1>7, <2>8, SearchAssumption DEF Moments
    <3>2. CASE mark = None
      BY <1>13, <2>4, <2>6, <2>8, <3>1, <3>2
    <3>3. CASE mark # None
      <4>1. PICK m \in Marks : m = mark
        BY <3>3 DEF HikInv, HikTypes
      <4>2. m.serial \in Nat /\ m.time \in Moments /\ m.time \in Int
        BY <4>1, SearchAssumption DEF Marks, Moments
      <4>3. CursorOf(events, fetched, m, clock, serial)
        BY <3>3, <4>1 DEF HikInv
      <4>4. PICK t \in Moments : t = H!Later(m.time, newest)
        BY <4>2 DEF H!Later
      <4>5. clock >= t => \A e \in New(events, fetched') : e.time >= t - Overlap
        <5>1. CASE m.time > newest
          BY <1>13, <2>8, <4>2, <4>3, <4>4, <5>1 DEF H!Later, CursorOf
        <5>2. CASE ~(m.time > newest)
          BY <2>8, <3>1, <4>4, <5>2 DEF H!Later
        <5> QED BY <5>1, <5>2
      <4>6. CASE H!Restarted(s.found)
        BY <1>13, <2>4, <2>6, <2>8, <3>3, <4>1, <4>4, <4>5, <4>6
      <4>7. CASE ~H!Restarted(s.found)
        <5>1. \A w \in New(events, fetched) : ~Betrays(w, m)
          BY <1>8, <1>15, <4>1, <4>7
        <5>2. ~(serial < m.serial)
          <6>1. serial # 0
            BY <1>5, <1>13, <2>1, <2>4, LoggedIs
          <6> QED BY <4>3, <5>1, <6>1 DEF CursorOf
        <5>3. \A e \in New(events, fetched') : m.serial < e.serial
          BY <2>8, <4>3, <5>1, <4>2, <1>7 DEF CursorOf
        <5>4. PICK n \in Nat : n = H!Later(m.serial, highest)
          BY <4>2 DEF H!Later
        <5>5. ~(serial < n) /\ \A e \in New(events, fetched') : n < e.serial
          BY <1>13, <2>4, <2>8, <4>2, <5>2, <5>3, <5>4 DEF H!Later
        <5> QED BY <2>6, <3>3, <4>1, <4>4, <4>5, <4>7, <5>4, <5>5
      <4> QED BY <4>6, <4>7
    <3> QED BY <3>2, <3>3
  <2>10. mark' \in Marks /\ mark'.serial = n /\ mark'.time = t
    BY <2>9 DEF Marks
  <2>11. CursorOf(events, fetched', mark', clock, serial)
    <3>1. \A e \in New(events, fetched') : e.serial > n
      BY <1>7, <2>8, <2>9
    <3> QED BY <2>9, <2>10, <3>1 DEF CursorOf
  <2> QED BY <1>3, <1>10, <1>11, <1>12, <2>10, <2>11 DEF HikInv, HikTypes
<1> QED BY <1>14, <1>15

\* While no event crosses a search that has gone past it, the clock and the counter change only
\* where the cursor can tell and the terminal is polled: whatever the lookback, the overlap, the
\* margin and the sizes of pages, however often the clock is set back, the memory is wiped and a
\* synchronization fails, one that ends has returned every event the terminal held when it began
\* that is not older than the lookback (sync, selectNew, advance).
THEOREM EventsAreDownloaded ==
  ASSUME ~Crossings, ~HardResets
  PROVE  Spec => []NothingMissed
<1>1. Init => HikInv
  BY HikInit DEF Init
<1>2. HikInv /\ [Next]_vars => HikInv'
  <2>1. [Next]_vars => H!Next \/ UNCHANGED hik
    BY DEF Next, vars
  <2>2. ASSUME HikInv, H!Abandon PROVE HikInv'
    BY <2>2 DEF H!Abandon, HikInv, HikTypes
  <2>3. ASSUME HikInv, H!Next PROVE HikInv'
    BY <2>2, <2>3, HikTick, HikRecord, HikSetBack, HikWipe, HikBegin, HikFetchPage, HikFinish
       DEF H!Next
  <2> QED BY <2>1, <2>3, HikAlone
<1>3. HikInv => NothingMissed
  BY DEF HikInv, NothingMissed, H!NothingMissed
<1> QED BY <1>1, <1>2, <1>3, PTL DEF Spec

-----------------------------------------------------------------------------
(* The packets of a ZKTeco terminal.                                       *)

Bytes == 0..(Base - 1)

LEMMA BaseIs == Base \in Nat /\ Base > 1 /\ F!Word = Base * Base /\ F!Word \in Nat /\ F!Word > 2
<1>1. Base \in Nat /\ Base > 1
  BY FrameAssumption
<1>2. \A b \in Nat : b > 1 => b * b \in Nat /\ b * b > 2
  BY SMT
<1> QED BY <1>1, <1>2 DEF F!Word

\* What a set holds of 0 and of the successor of each of its numbers, it holds of all.
LEMMA AllOf ==
  ASSUME NEW T, 0 \in T, \A n \in Nat : n \in T => n + 1 \in T
  PROVE  Nat \subseteq T
<1> SUFFICES ASSUME Nat \ T # {} PROVE FALSE
  OBVIOUS
<1>1. PICK x \in Nat \ T : \A y \in Nat \ T : x <= y
  BY LeastOf
<1>2. x # 0 /\ x - 1 \in Nat
  BY <1>1
<1>3. x - 1 \in T
  BY <1>1, <1>2
<1> QED BY <1>2, <1>3

\* What the byte at a place adds to the sum.
Weight(n) == IF n % 2 = 1 THEN 1 ELSE Base
Added(bytes, n) == IF n % 2 = 1 THEN bytes[n] ELSE Base * bytes[n]

LEMMA AddedIs ==
  ASSUME NEW bytes \in Seq(Bytes), NEW n \in 1..Len(bytes)
  PROVE  Added(bytes, n) \in Nat
<1>1. Base \in Nat /\ bytes[n] \in Nat
  BY BaseIs DEF Bytes
<1>2. \A b, c \in Nat : b * c \in Nat
  BY SMT
<1> QED BY <1>1, <1>2 DEF Added

\* The sums of the first bytes.
Sums(g, bytes, m) ==
    /\ g \in [0..m -> Nat] /\ g[0] = 0
    /\ \A n \in 1..m : g[n] = g[n - 1] + Added(bytes, n)

LEMMA SumsExist ==
  ASSUME NEW bytes \in Seq(Bytes)
  PROVE  \E g : Sums(g, bytes, Len(bytes))
<1>1. PICK T : T = {m \in Nat : m <= Len(bytes) => \E g : Sums(g, bytes, m)}
  OBVIOUS
<1>2. 0 \in T
  <2>1. Sums([n \in 0..0 |-> 0], bytes, 0)
    BY DEF Sums
  <2> QED BY <1>1, <2>1
<1>3. ASSUME NEW m \in Nat, m \in T PROVE m + 1 \in T
  <2> SUFFICES ASSUME m + 1 <= Len(bytes) PROVE \E g : Sums(g, bytes, m + 1)
    BY <1>1
  <2>1. PICK g : Sums(g, bytes, m)
    BY <1>1, <1>3
  <2>2. PICK more \in Nat : more = Added(bytes, m + 1)
    BY AddedIs
  <2>3. PICK h : h = [n \in 0..(m + 1) |-> IF n <= m THEN g[n] ELSE g[m] + more]
    OBVIOUS
  <2>4. h \in [0..(m + 1) -> Nat] /\ h[0] = 0
    BY <2>1, <2>3 DEF Sums
  <2>5. ASSUME NEW n \in 1..(m + 1) PROVE h[n] = h[n - 1] + Added(bytes, n)
    <3>1. CASE n <= m
      BY <2>1, <2>3, <3>1 DEF Sums
    <3>2. CASE n = m + 1
      BY <2>1, <2>2, <2>3, <3>2 DEF Sums
    <3> QED BY <3>1, <3>2
  <2> QED BY <2>4, <2>5 DEF Sums
<1>4. Nat \subseteq T
  BY <1>2, <1>3, AllOf
<1> QED BY <1>1, <1>4

\* They are the function SumOf is defined by.
LEMMA SumIs ==
  ASSUME NEW bytes \in Seq(Bytes)
  PROVE  \E g : Sums(g, bytes, Len(bytes)) /\ F!SumOf(bytes) = g[Len(bytes)]
<1>1. PICK f :
         /\ F!SumOf(bytes) = f[Len(bytes)]
         /\ f = [n \in 0..Len(bytes) |->
                   IF n = 0 THEN 0
                   ELSE f[n - 1] + (IF n % 2 = 1 THEN bytes[n] ELSE Base * bytes[n])]
  <2>1. PICK g : Sums(g, bytes, Len(bytes))
    BY SumsExist
  <2>2. g = [n \in 0..Len(bytes) |->
               IF n = 0 THEN 0
               ELSE g[n - 1] + (IF n % 2 = 1 THEN bytes[n] ELSE Base * bytes[n])]
    BY <2>1 DEF Sums, Added
  <2> QED BY <2>2 DEF F!SumOf
<1>2. PICK L \in Nat : L = Len(bytes)
  OBVIOUS
<1>3. PICK T : T = {n \in Nat : n <= L => f[n] \in Nat}
  OBVIOUS
<1>4. 0 \in T
  BY <1>1, <1>3
<1>5. ASSUME NEW n \in Nat, n \in T PROVE n + 1 \in T
  <2> SUFFICES ASSUME n + 1 <= L PROVE f[n + 1] \in Nat
    BY <1>3
  <2>1. f[n] \in Nat /\ Added(bytes, n + 1) \in Nat
    BY <1>2, <1>3, <1>5, AddedIs
  <2>2. f[n + 1] = f[n] + Added(bytes, n + 1)
    BY <1>1, <1>2 DEF Added
  <2> QED BY <2>1, <2>2
<1>6. Nat \subseteq T
  BY <1>4, <1>5, AllOf
<1>7. f \in [0..L -> Nat]
  BY <1>1, <1>2, <1>3, <1>6
<1>8. ASSUME NEW n \in 1..L PROVE f[n] = f[n - 1] + Added(bytes, n)
  BY <1>1, <1>2 DEF Added
<1>9. f[0] = 0
  BY <1>1, <1>2
<1> QED BY <1>1, <1>2, <1>7, <1>8, <1>9 DEF Sums

\* Of sequences that differ at most in the last byte, the sums differ by what that byte adds.
LEMMA SumsDiffer ==
  ASSUME NEW a \in Seq(Bytes), NEW b \in Seq(Bytes), NEW L \in Nat \ {0},
         Len(a) = L, Len(b) = L, \A n \in 1..(L - 1) : a[n] = b[n]
  PROVE  /\ F!SumOf(a) \in Nat /\ F!SumOf(b) \in Nat
         /\ F!SumOf(a) - F!SumOf(b) = Added(a, L) - Added(b, L)
<1>1. PICK g : Sums(g, a, L) /\ F!SumOf(a) = g[L]
  BY SumIs
<1>2. PICK h : Sums(h, b, L) /\ F!SumOf(b) = h[L]
  BY SumIs
<1>3. PICK T : T = {n \in Nat : n < L => g[n] = h[n]}
  OBVIOUS
<1>4. 0 \in T
  BY <1>1, <1>2, <1>3 DEF Sums
<1>5. ASSUME NEW n \in Nat, n \in T PROVE n + 1 \in T
  <2> SUFFICES ASSUME n + 1 < L PROVE g[n + 1] = h[n + 1]
    BY <1>3
  <2>1. g[n] = h[n]
    BY <1>3, <1>5
  <2>2. Added(a, n + 1) = Added(b, n + 1)
    BY DEF Added
  <2>3. g[n + 1] = g[n] + Added(a, n + 1) /\ h[n + 1] = h[n] + Added(b, n + 1)
    BY <1>1, <1>2 DEF Sums
  <2> QED BY <2>1, <2>2, <2>3
<1>6. Nat \subseteq T
  BY <1>4, <1>5, AllOf
<1>7. g[L - 1] = h[L - 1]
  BY <1>3, <1>6
<1>8. g[L] = g[L - 1] + Added(a, L) /\ h[L] = h[L - 1] + Added(b, L)
  BY <1>1, <1>2 DEF Sums
<1>9. g[L - 1] \in Nat /\ g[L] \in Nat /\ h[L] \in Nat
  BY <1>1, <1>2 DEF Sums
<1>10. Added(a, L) \in Nat /\ Added(b, L) \in Nat
  BY AddedIs
<1> QED BY <1>1, <1>2, <1>7, <1>8, <1>9, <1>10

-----------------------------------------------------------------------------
(* What a checksum tells apart.                                            *)

LEMMA Quotient ==
  ASSUME NEW n \in Nat, NEW m \in Nat \ {0}
  PROVE  n \div m \in Nat /\ n % m \in 0..(m - 1) /\ (n % m) + m * (n \div m) = n
BY SMT

LEMMA Remainder ==
  ASSUME NEW n \in Nat, NEW m \in Nat \ {0}
  PROVE  n % m \in Nat
BY SMT

LEMMA Apart ==
  ASSUME NEW m \in Nat, NEW q \in Int, NEW r \in Int, q < r
  PROVE  m * q + m <= m * r
BY SMT

\* Numbers less than m apart leave different remainders.
LEMMA RemaindersDiffer ==
  ASSUME NEW m \in Nat \ {0}, NEW a \in Nat, NEW b \in Nat, a < b, b - a < m
  PROVE  a % m # b % m
<1>1. a \div m \in Nat /\ a % m \in Nat /\ (a % m) + m * (a \div m) = a
  BY Quotient
<1>2. b \div m \in Nat /\ b % m \in Nat /\ (b % m) + m * (b \div m) = b
  BY Quotient
<1>3. PICK q \in Nat, x \in Nat : x = a % m /\ x + m * q = a
  BY <1>1
<1>4. PICK r \in Nat, y \in Nat : y = b % m /\ y + m * r = b
  BY <1>2
<1> SUFFICES ASSUME x = y PROVE FALSE
  BY <1>3, <1>4
<1>5. m * q \in Nat /\ m * r \in Nat
  BY SMT
<1>6. q < r => m * q + m <= m * r
  BY Apart
<1>7. r < q => m * r + m <= m * q
  BY Apart
<1>8. q # r
  BY <1>3, <1>4
<1> QED BY <1>3, <1>4, <1>5, <1>6, <1>7, <1>8

LEMMA ChecksumIs ==
  ASSUME NEW bytes \in Seq(Bytes)
  PROVE  F!Checksum(bytes) \in Nat /\ F!SumOf(bytes) \in Nat
<1>1. PICK word \in Nat : word = F!Word /\ word > 2
  BY BaseIs
<1>2. PICK sum \in Nat : sum = F!SumOf(bytes)
  BY SumIs DEF Sums
<1>3. sum # 0 => (sum - 1) % (word - 1) \in 0..(word - 2)
  BY <1>1, Quotient
<1>4. F!Checksum(bytes) = (word - 1) - (IF sum = 0 THEN 0 ELSE 1 + ((sum - 1) % (word - 1)))
  BY <1>1, <1>2 DEF F!Checksum
<1> QED BY <1>1, <1>2, <1>3, <1>4

LEMMA SumsShow ==
  ASSUME NEW a \in Seq(Bytes), NEW b \in Seq(Bytes), F!SumOf(a) < F!SumOf(b),
         F!SumOf(b) - F!SumOf(a) < F!Word - 1
  PROVE  F!Checksum(a) # F!Checksum(b)
<1>1. PICK m \in Nat \ {0} : m = F!Word - 1
  BY BaseIs
<1>2. PICK s \in Nat : s = F!SumOf(a)
  BY ChecksumIs
<1>3. PICK t \in Nat : t = F!SumOf(b)
  BY ChecksumIs
<1>4. s < t /\ t - s < m
  BY <1>1, <1>2, <1>3
<1>5. PICK u \in Nat : u = t - 1
  BY <1>4
<1>6. u % m \in Nat
  BY Remainder
<1>7. F!Checksum(b) = m - (1 + (u % m))
  <2>1. F!SumOf(b) # 0 /\ u = F!SumOf(b) - 1
    BY <1>2, <1>3, <1>4, <1>5
  <2> QED BY <1>1, <2>1, Zenon DEF F!Checksum
<1>8. CASE s = 0
  <2>1. F!Checksum(a) = m
    BY <1>1, <1>2, <1>8 DEF F!Checksum
  <2> QED BY <1>1, <1>6, <1>7, <2>1
<1>9. CASE s # 0
  <2>1. PICK v \in Nat : v = s - 1
    BY <1>9
  <2>2. v % m \in Nat
    BY Remainder
  <2>3. F!Checksum(a) = m - (1 + (v % m))
    <3>1. F!SumOf(a) # 0 /\ v = F!SumOf(a) - 1
      BY <1>2, <1>9, <2>1
    <3> QED BY <1>1, <3>1, Zenon DEF F!Checksum
  <2>4. v < u /\ u - v < m
    BY <1>4, <1>5, <2>1
  <2>5. v % m # u % m
    BY <1>1, <2>4, RemaindersDiffer
  <2> QED BY <1>1, <1>6, <1>7, <2>2, <2>3, <2>5
<1> QED BY <1>8, <1>9

\* What inverting a byte does to the sum.
LEMMA Inverted ==
  ASSUME NEW c \in Bytes
  PROVE  /\ (Base - 1) - c \in Bytes /\ (Base - 1) - c # c
         /\ \A w \in {1, Base} : \A d \in Int :
               d = w * ((Base - 1) - c) - w * c => d # 0 /\ -(F!Word - 1) < d /\ d < F!Word - 1
<1>1. PICK b \in Nat : b = Base /\ b > 1 /\ b % 2 = 0 /\ F!Word = b * b
  BY BaseIs, FrameAssumption
<1>2. PICK e \in Int : e = (b - 1) - c
  BY <1>1 DEF Bytes
<1>3. c \in 0..(b - 1) /\ e \in 0..(b - 1) /\ e # c
  BY <1>1, <1>2 DEF Bytes
<1>4. /\ e - c # 0 /\ e - c <= b - 1 /\ -(b - 1) <= e - c
      /\ b - 1 < b * b - 1
  <2>1. b < b * b
    BY <1>1
  <2> QED BY <1>1, <1>3, <2>1
<1>5. PICK f \in Int : f = e - c
  BY <1>3
<1>6. b * e - b * c = b * f
  BY <1>1, <1>3, <1>5
<1>7. b * f # 0 /\ b * f <= b * (b - 1) /\ -(b * (b - 1)) <= b * f
  BY <1>1, <1>4, <1>5
<1>8. b * (b - 1) = b * b - b
  BY <1>1
<1>9. b * f \in Int /\ b * b \in Int
  BY <1>1
<1>10. e - c = f /\ 1 * e - 1 * c = f
  BY <1>3, <1>5
<1> QED
  BY <1>1, <1>2, <1>3, <1>4, <1>5, <1>6, <1>7, <1>8, <1>9, <1>10 DEF Bytes

\* A packet whose last byte was inverted has another checksum.
LEMMA DamageShows ==
  ASSUME NEW p \in Payloads, NEW q, q = [p EXCEPT ![Len(p)] = (Base - 1) - @]
  PROVE  /\ q \in Seq(Bytes) /\ Len(q) = Len(p) /\ Len(p) \in Nat \ {0} /\ p \in Seq(Bytes)
         /\ F!Checksum(q) # F!Checksum(p)
<1>1. p \in Seq(Bytes) /\ p # <<>>
  BY FrameAssumption DEF Bytes
<1>2. PICK L \in Nat \ {0} : L = Len(p)
  BY <1>1
<1>3. PICK c \in Bytes : c = p[L]
  BY <1>1, <1>2
<1>4. PICK e \in Bytes : e = (Base - 1) - c /\ e # c
  BY Inverted
<1>5. q = [p EXCEPT ![L] = e]
  BY <1>2, <1>3, <1>4
<1>6. q \in Seq(Bytes) /\ Len(q) = L /\ q[L] = e /\ \A n \in 1..(L - 1) : q[n] = p[n]
  BY <1>1, <1>2, <1>5
<1>7. /\ F!SumOf(q) \in Nat /\ F!SumOf(p) \in Nat
      /\ F!SumOf(q) - F!SumOf(p) = Added(q, L) - Added(p, L)
  BY <1>1, <1>2, <1>6, SumsDiffer
<1>8. PICK w \in {1, Base} : Added(q, L) = w * e /\ Added(p, L) = w * c
  <2>1. 1 * e = e /\ 1 * c = c
    BY DEF Bytes
  <2> QED BY <1>3, <1>6, <2>1 DEF Added
<1>9. Added(q, L) \in Nat /\ Added(p, L) \in Nat
  <2>1. L \in 1..Len(q) /\ L \in 1..Len(p)
    BY <1>2, <1>6
  <2> QED BY <1>1, <1>6, <2>1, AddedIs
<1>10. PICK d \in Int : d = Added(q, L) - Added(p, L)
  BY <1>9
<1>11. d = w * ((Base - 1) - c) - w * c
  BY <1>4, <1>8, <1>10
<1>12. d # 0 /\ -(F!Word - 1) < d /\ d < F!Word - 1
  BY <1>11, Inverted
<1>13. PICK s \in Nat : s = F!SumOf(q)
  BY <1>7
<1>14. PICK t \in Nat : t = F!SumOf(p)
  BY <1>7
<1>15. s - t = d /\ F!Word \in Nat
  BY <1>7, <1>10, <1>13, <1>14, BaseIs
<1>16. CASE s < t
  <2>1. t - s < F!Word - 1
    BY <1>12, <1>15
  <2> QED BY <1>1, <1>2, <1>6, <1>13, <1>14, <1>16, <2>1, SumsShow
<1>17. CASE t < s
  <2>1. s - t < F!Word - 1
    BY <1>12, <1>15
  <2> QED BY <1>1, <1>2, <1>6, <1>13, <1>14, <1>17, <2>1, SumsShow
<1>18. s # t
  BY <1>12, <1>15
<1> QED BY <1>1, <1>2, <1>6, <1>16, <1>17, <1>18

-----------------------------------------------------------------------------
(* Frames and their decoding.                                              *)

\* A frame with a checksum around a body.
Carries(frame, check, body) ==
    /\ body \in Seq(Bytes) /\ frame \in Seq(Nat)
    /\ Len(frame) = 4 + Len(body)
    /\ frame[1] = F!Magic /\ frame[2] = 2 + Len(body)
    /\ frame[3] + Base * frame[4] = check
    /\ \A i \in 1..Len(body) : frame[4 + i] = body[i]

\* What the terminal sends of a payload, and what it sends when it damages one (None).
FramesOf(s) ==
    {F!Frame(p) : p \in {p \in Payloads : s = p}} \cup
    {F!Corrupted(F!Frame(p)) : p \in {p \in Payloads : s = None}}

LEMMA FrameIs ==
  ASSUME NEW p \in Payloads
  PROVE  Carries(F!Frame(p), F!Checksum(p), p)
<1>1. p \in Seq(Bytes) /\ p \in Seq(Nat)
  <2>1. p \in Seq(Bytes) /\ Bytes \subseteq Nat
    BY FrameAssumption DEF Bytes
  <2> QED BY <2>1, SeqMonotonic
<1>2. PICK check \in Nat : check = F!Checksum(p)
  BY <1>1, ChecksumIs
<1>3. Base \in Nat \ {0} /\ F!Magic \in Nat
  BY BaseIs DEF F!Magic
<1>4. check % Base \in Nat /\ check \div Base \in Nat
      /\ (check % Base) + Base * (check \div Base) = check
  BY <1>3, Quotient
<1>5. PICK low \in Nat, high \in Nat :
         low = check % Base /\ high = check \div Base /\ low + Base * high = check
  BY <1>4
<1>6. PICK head : head = <<F!Magic, 2 + Len(p), low, high>>
  OBVIOUS
<1>7. F!Frame(p) = head \o p
  BY <1>2, <1>5, <1>6, Zenon DEF F!Frame
<1>8. /\ head \in Seq(Nat) /\ Len(head) = 4
      /\ head[1] = F!Magic /\ head[2] = 2 + Len(p) /\ head[3] = low /\ head[4] = high
  BY <1>1, <1>3, <1>6
<1>9. PICK frame : frame = head \o p
  OBVIOUS
<1>10. /\ frame \in Seq(Nat) /\ Len(frame) = Len(head) + Len(p)
       /\ \A i \in 1..Len(head) + Len(p) :
             frame[i] = IF i <= Len(head) THEN head[i] ELSE p[i - Len(head)]
  BY <1>1, <1>8, <1>9, ConcatProperties
<1>11. PICK n \in Nat : n = Len(p)
  BY <1>1
<1>12. /\ frame \in Seq(Nat) /\ Len(frame) = 4 + n
       /\ \A i \in 1..(4 + n) : frame[i] = IF i <= 4 THEN head[i] ELSE p[i - 4]
  BY <1>8, <1>10, <1>11
<1>13. \A i \in 1..n : frame[4 + i] = p[i]
  <2> SUFFICES ASSUME NEW i \in 1..n PROVE frame[4 + i] = p[i]
    OBVIOUS
  <2>1. 4 + i \in 1..(4 + n) /\ ~(4 + i <= 4) /\ (4 + i) - 4 = i
    OBVIOUS
  <2> QED BY <1>12, <2>1
<1>14. frame[1] = F!Magic /\ frame[2] = 2 + n /\ frame[3] = low /\ frame[4] = high
  <2>1. frame[1] = head[1] /\ frame[2] = head[2] /\ frame[3] = head[3] /\ frame[4] = head[4]
    BY <1>12
  <2> QED BY <1>8, <1>11, <2>1
<1>15. frame[3] + Base * frame[4] = F!Checksum(p)
  BY <1>2, <1>5, <1>14
<1> QED BY <1>1, <1>7, <1>9, <1>11, <1>12, <1>13, <1>14, <1>15 DEF Carries

LEMMA CorruptedIs ==
  ASSUME NEW p \in Payloads
  PROVE  \E q \in Seq(Bytes) :
            /\ Carries(F!Corrupted(F!Frame(p)), F!Checksum(p), q)
            /\ F!Checksum(q) # F!Checksum(p)
<1>1. PICK frame : frame = F!Frame(p) /\ Carries(frame, F!Checksum(p), p)
  BY FrameIs
<1>2. PICK q : q = [p EXCEPT ![Len(p)] = (Base - 1) - @]
  OBVIOUS
<1>3. /\ q \in Seq(Bytes) /\ Len(q) = Len(p) /\ Len(p) \in Nat \ {0} /\ p \in Seq(Bytes)
      /\ F!Checksum(q) # F!Checksum(p)
  BY <1>2, DamageShows
<1>4. PICK n \in Nat \ {0} : n = Len(p)
  BY <1>3
<1>5. PICK byte \in Nat : byte = (Base - 1) - p[n] /\ q[n] = byte /\ \A i \in 1..(n - 1) : q[i] = p[i]
  <2>1. p[n] \in Bytes /\ q[n] \in Bytes
    BY <1>3, <1>4
  <2>2. q[n] = (Base - 1) - p[n] /\ \A i \in 1..(n - 1) : q[i] = p[i]
    <3>1. PICK c \in Bytes : c = (Base - 1) - p[n]
      BY <2>1, Inverted
    <3>2. q = [p EXCEPT ![n] = c]
      BY <1>2, <1>4, <3>1
    <3>3. n \in 1..Len(p)
      BY <1>4
    <3>4. \A i \in 1..Len(p) : q[i] = IF i = n THEN c ELSE p[i]
      BY <1>3, <3>2, <3>3, ExceptSeq
    <3> QED BY <1>4, <3>1, <3>3, <3>4
  <2>3. Bytes \subseteq Nat
    BY DEF Bytes
  <2> QED BY <2>1, <2>2, <2>3
<1>6. frame[4 + n] = p[n] /\ Len(frame) = 4 + n /\ frame \in Seq(Nat)
  BY <1>1, <1>4 DEF Carries
<1>7. PICK damaged : damaged = [frame EXCEPT ![4 + n] = byte]
  OBVIOUS
<1>8. F!Corrupted(frame) = damaged
  BY <1>5, <1>6, <1>7 DEF F!Corrupted
<1>9. /\ damaged \in Seq(Nat) /\ Len(damaged) = 4 + n /\ damaged[4 + n] = byte
      /\ \A i \in 1..(3 + n) : damaged[i] = frame[i]
  BY <1>6, <1>7, ExceptSeq
<1>10. \A i \in 1..n : damaged[4 + i] = q[i]
  <2> SUFFICES ASSUME NEW i \in 1..n PROVE damaged[4 + i] = q[i]
    OBVIOUS
  <2>1. CASE i = n
    BY <1>5, <1>9, <2>1
  <2>2. CASE i # n
    <3>1. i \in 1..(n - 1) /\ 4 + i \in 1..(3 + n) /\ i \in 1..Len(p)
      BY <1>4, <2>2
    <3>2. damaged[4 + i] = frame[4 + i] /\ frame[4 + i] = p[i] /\ q[i] = p[i]
      BY <1>1, <1>5, <1>9, <3>1 DEF Carries
    <3> QED BY <3>2
  <2> QED BY <2>1, <2>2
<1>11. damaged[1] = frame[1] /\ damaged[2] = frame[2] /\ damaged[3] = frame[3] /\ damaged[4] = frame[4]
  BY <1>4, <1>9
<1>12. Carries(damaged, F!Checksum(p), q)
  BY <1>1, <1>3, <1>4, <1>9, <1>10, <1>11 DEF Carries
<1> QED BY <1>1, <1>3, <1>8, <1>12

\* A frame is decoded when it is there whole, and told from a damaged one.
LEMMA DecodedIs ==
  ASSUME NEW frame, NEW check, NEW body, Carries(frame, check, body),
         NEW buffer \in Seq(Nat),
         \A i \in 1..Len(buffer) : i <= Len(frame) => buffer[i] = frame[i]
  PROVE  F!Decoded(buffer) =
            IF Len(buffer) < Len(frame) THEN F!Partial
            ELSE IF check # F!Checksum(body) THEN F!Invalid
            ELSE [kind |-> "packet", payload |-> body, consumed |-> Len(frame)]
<1>1. PICK size \in Nat : size = Len(body)
  BY DEF Carries
<1>2. PICK there \in Nat : there = Len(buffer)
  OBVIOUS
<1>3. Len(frame) = 4 + size
  BY <1>1 DEF Carries
<1>4. CASE there < 2
  BY <1>2, <1>3, <1>4 DEF F!Decoded, F!Header
<1>5. CASE there >= 2
  <2>1. buffer[1] = F!Magic /\ buffer[2] = 2 + size
    BY <1>1, <1>2, <1>3, <1>5 DEF Carries
  <2>2. 2 + buffer[2] = 4 + size
    BY <2>1
  <2>3. CASE there < 4 + size
    BY <1>2, <1>3, <1>5, <2>1, <2>2, <2>3 DEF F!Decoded, F!Header
  <2>4. CASE there >= 4 + size
    <3>1. buffer[3] = frame[3] /\ buffer[4] = frame[4]
      BY <1>2, <1>3, <2>4
    <3>2. PICK part : part = SubSeq(buffer, 5, 4 + size)
      OBVIOUS
    <3>3. \A i \in 5..(4 + size) : buffer[i] = body[i - 4] /\ buffer[i] \in Bytes
      <4> SUFFICES ASSUME NEW i \in 5..(4 + size)
                   PROVE  buffer[i] = body[i - 4] /\ buffer[i] \in Bytes
        OBVIOUS
      <4>1. PICK k \in 1..size : i = 4 + k
        BY <1>1
      <4>2. buffer[i] = frame[i]
        BY <1>2, <1>3, <2>4
      <4>3. k \in 1..Len(body)
        BY <1>1
      <4>4. frame[4 + k] = body[k] /\ body[k] \in Bytes
        BY <4>3, ElementOfSeq DEF Carries
      <4>5. i - 4 = k
        BY <4>1
      <4> QED BY <4>1, <4>2, <4>4, <4>5
    <3>4. /\ part \in Seq(Bytes) /\ Len(part) = size
          /\ \A i \in 1..size : part[i] = buffer[5 + i - 1]
      BY <1>1, <3>2, <3>3, SubSeqProperties
    <3>5. \A i \in 1..size : part[i] = body[i]
      BY <1>1, <3>3, <3>4
    <3>6. part = body
      BY <1>1, <3>4, <3>5, SeqEqual DEF Carries
    <3>7. buffer[3] + Base * buffer[4] = check
      BY <3>1 DEF Carries
    <3>8. F!Header + buffer[2] = Len(frame) /\ F!Header + 3 = 5
      BY <1>3, <2>2 DEF F!Header
    <3>9. SubSeq(buffer, F!Header + 3, Len(frame)) = body
      BY <1>3, <3>2, <3>6, <3>8
    <3>10. ~(Len(buffer) < F!Header) /\ ~(Len(buffer) < Len(frame))
      BY <1>2, <1>3, <1>5, <2>4 DEF F!Header
    <3> QED BY <2>1, <3>7, <3>8, <3>9, <3>10, Zenon DEF F!Decoded
  <2> QED BY <1>1, <1>2, <2>3, <2>4
<1> QED BY <1>2, <1>4, <1>5

-----------------------------------------------------------------------------
(* The stream of a connection, and where the client is in it.              *)

OnWire == Payloads \cup {None}

\* A stream is the frames of what was sent, one after the other; `ends' are where they end.
Frames(stream, ends, sent) ==
    /\ stream \in Seq(Nat) /\ ends \in [0..Len(sent) -> Nat]
    /\ ends[0] = 0 /\ ends[Len(sent)] = Len(stream)
    /\ \A k \in 1..Len(sent) :
          /\ ends[k] <= Len(stream)
          /\ \E frame \in FramesOf(sent[k]) :
                /\ ends[k] = ends[k - 1] + Len(frame)
                /\ \A i \in 1..Len(frame) : stream[ends[k - 1] + i] = frame[i]

\* What has not been taken is what follows the first n frames; all of it while the line is up.
Remains(rest, sent, n, up) ==
    \E stream, ends :
        /\ Frames(stream, ends, sent)
        /\ ends[n] + Len(rest) <= Len(stream)
        /\ up => ends[n] + Len(rest) = Len(stream)
        /\ \A i \in 1..Len(rest) : rest[i] = stream[ends[n] + i]

LEMMA FramesAre ==
  ASSUME NEW s \in OnWire, NEW frame \in FramesOf(s)
  PROVE  /\ frame \in Seq(Nat) /\ Len(frame) \in Nat
         /\ \E check, body :
               /\ Carries(frame, check, body)
               /\ check = F!Checksum(body) => s \in Payloads /\ body = s
<1> SUFFICES \E check, body :
               /\ Carries(frame, check, body)
               /\ check = F!Checksum(body) => s \in Payloads /\ body = s
  <2> SUFFICES ASSUME NEW check, NEW body, Carries(frame, check, body)
               PROVE  frame \in Seq(Nat) /\ Len(frame) \in Nat
    OBVIOUS
  <2>1. frame \in Seq(Nat)
    BY DEF Carries
  <2> QED BY <2>1
<1>1. CASE \E p \in Payloads : s = p /\ frame = F!Frame(p)
  <2>1. PICK p \in Payloads : s = p /\ frame = F!Frame(p)
    BY <1>1
  <2>2. Carries(frame, F!Checksum(p), p)
    BY <2>1, FrameIs
  <2> QED BY <2>1, <2>2
<1>2. CASE \E p \in Payloads : s = None /\ frame = F!Corrupted(F!Frame(p))
  <2>1. PICK p \in Payloads : s = None /\ frame = F!Corrupted(F!Frame(p))
    BY <1>2
  <2>2. PICK q \in Seq(Bytes) :
           Carries(frame, F!Checksum(p), q) /\ F!Checksum(q) # F!Checksum(p)
    BY <2>1, CorruptedIs
  <2> QED BY <2>1, <2>2
<1> QED BY <1>1, <1>2 DEF FramesOf

LEMMA EndsAre ==
  ASSUME NEW stream, NEW ends, NEW sent \in Seq(OnWire), Frames(stream, ends, sent),
         NEW n \in 0..Len(sent)
  PROVE  ends[n] \in Nat /\ stream \in Seq(Nat) /\ Len(stream) \in Nat
<1>1. stream \in Seq(Nat) /\ ends \in [0..Len(sent) -> Nat]
  BY DEF Frames
<1> QED BY <1>1

LEMMA RemainsOf ==
  ASSUME NEW rest, NEW sent, NEW n, NEW stream, NEW ends, Frames(stream, ends, sent),
         ends[n] + Len(rest) <= Len(stream), ends[n] + Len(rest) = Len(stream),
         \A i \in 1..Len(rest) : rest[i] = stream[ends[n] + i]
  PROVE  Remains(rest, sent, n, TRUE)
BY Zenon DEF Remains

LEMMA RemainsPart ==
  ASSUME NEW rest, NEW sent, NEW n, NEW stream, NEW ends, Frames(stream, ends, sent),
         ends[n] + Len(rest) <= Len(stream),
         \A i \in 1..Len(rest) : rest[i] = stream[ends[n] + i]
  PROVE  Remains(rest, sent, n, FALSE)
BY Zenon DEF Remains

LEMMA RemainStart ==
  ASSUME NEW up
  PROVE  Remains(<<>>, <<>>, 0, up)
<1>1. PICK ends : ends = [k \in 0..0 |-> 0]
  OBVIOUS
<1>2. PICK nothing : nothing = <<>>
  OBVIOUS
<1>3. nothing \in Seq(Nat) /\ Len(nothing) = 0 /\ ends \in [0..0 -> Nat] /\ ends[0] = 0
  BY <1>1, <1>2
<1>4. Frames(nothing, ends, nothing)
  BY <1>3 DEF Frames
<1>5. Remains(nothing, nothing, 0, up)
  BY <1>3, <1>4 DEF Remains
<1> QED BY <1>2, <1>5

\* A line that drops leaves what has arrived.
LEMMA RemainCut ==
  ASSUME NEW sent \in Seq(OnWire), NEW n \in 0..Len(sent), NEW rest \in Seq(Nat), NEW up,
         Remains(rest, sent, n, up),
         NEW less \in Seq(Nat), Len(less) <= Len(rest),
         \A i \in 1..Len(less) : less[i] = rest[i]
  PROVE  Remains(less, sent, n, FALSE)
<1>1. PICK stream, ends :
         /\ Frames(stream, ends, sent)
         /\ ends[n] + Len(rest) <= Len(stream)
         /\ \A i \in 1..Len(rest) : rest[i] = stream[ends[n] + i]
  BY DEF Remains
<1>2. ends[n] \in Nat /\ Len(stream) \in Nat
  BY <1>1, EndsAre
<1>3. ends[n] + Len(less) <= Len(stream)
  BY <1>1, <1>2
<1>4. \A i \in 1..Len(less) : less[i] = stream[ends[n] + i]
  BY <1>1
<1> QED BY <1>1, <1>3, <1>4, RemainsPart

\* The first frame of what follows, and what follows it.
LEMMA RemainNext ==
  ASSUME NEW sent \in Seq(OnWire), NEW n \in 0..Len(sent), NEW rest \in Seq(Nat), NEW up,
         Remains(rest, sent, n, up), Len(rest) > 0
  PROVE  /\ n + 1 \in 1..Len(sent)
         /\ \E frame \in FramesOf(sent[n + 1]) :
               /\ \A i \in 1..Len(rest) : i <= Len(frame) => rest[i] = frame[i]
               /\ \A after \in Seq(Nat) :
                     /\ Len(rest) = Len(frame) + Len(after)
                     /\ \A i \in 1..Len(after) : after[i] = rest[Len(frame) + i]
                     => Remains(after, sent, n + 1, up)
<1>1. PICK stream, ends :
         /\ Frames(stream, ends, sent)
         /\ ends[n] + Len(rest) <= Len(stream)
         /\ up => ends[n] + Len(rest) = Len(stream)
         /\ \A i \in 1..Len(rest) : rest[i] = stream[ends[n] + i]
  BY DEF Remains
<1>2. ends[n] \in Nat /\ Len(stream) \in Nat /\ Len(sent) \in Nat /\ Len(rest) \in Nat
  BY <1>1, EndsAre
<1>3. ends[Len(sent)] = Len(stream)
  BY <1>1 DEF Frames
<1>4. n # Len(sent)
  BY <1>1, <1>2, <1>3
<1>5. n + 1 \in 1..Len(sent) /\ (n + 1) - 1 = n
  BY <1>2, <1>4
<1>6. PICK frame \in FramesOf(sent[n + 1]) :
         /\ ends[n + 1] = ends[n] + Len(frame)
         /\ \A i \in 1..Len(frame) : stream[ends[n] + i] = frame[i]
  BY <1>1, <1>5 DEF Frames
<1>7. sent[n + 1] \in OnWire
  BY <1>5
<1>8. Len(frame) \in Nat
  BY <1>7, FramesAre
<1>9. ASSUME NEW i \in 1..Len(rest), i <= Len(frame)
      PROVE  rest[i] = frame[i]
  <2>1. i \in 1..Len(frame)
    BY <1>8, <1>9
  <2> QED BY <1>1, <1>6, <2>1
<1>10. ASSUME NEW after \in Seq(Nat), Len(rest) = Len(frame) + Len(after),
              \A i \in 1..Len(after) : after[i] = rest[Len(frame) + i]
       PROVE  Remains(after, sent, n + 1, up)
  <2>1. PICK m \in Nat : m = Len(after)
    OBVIOUS
  <2>2. ends[n + 1] + m = ends[n] + Len(rest)
    <3>1. ends[n + 1] = ends[n] + Len(frame) /\ Len(rest) = Len(frame) + m
      BY <1>6, <1>10, <2>1
    <3>2. ends[n] \in Nat /\ Len(frame) \in Nat
      BY <1>2, <1>8
    <3> QED BY <3>1, <3>2
  <2>3. ASSUME NEW i \in 1..m PROVE after[i] = stream[ends[n + 1] + i]
    <3>1. Len(frame) + i \in 1..Len(rest)
      BY <1>8, <1>10, <2>1
    <3>2. rest[Len(frame) + i] = stream[ends[n] + (Len(frame) + i)]
      BY <1>1, <3>1
    <3>3. ends[n] + (Len(frame) + i) = ends[n + 1] + i
      BY <1>2, <1>6, <1>8
    <3> QED BY <1>10, <2>1, <3>2, <3>3
  <2> QED BY <1>1, <2>1, <2>2, <2>3 DEF Remains
<1> QED BY <1>5, <1>9, <1>10

\* A frame more at the end of the stream.
LEMMA RemainSent ==
  ASSUME NEW sent \in Seq(OnWire), NEW n \in 0..Len(sent), NEW rest \in Seq(Nat),
         Remains(rest, sent, n, TRUE), NEW s \in OnWire, NEW frame \in FramesOf(s)
  PROVE  Remains(rest \o frame, Append(sent, s), n, TRUE)
<1>1. PICK stream, ends :
         /\ Frames(stream, ends, sent)
         /\ ends[n] + Len(rest) = Len(stream)
         /\ \A i \in 1..Len(rest) : rest[i] = stream[ends[n] + i]
  BY DEF Remains
<1>2. PICK size \in Nat : size = Len(sent)
  OBVIOUS
<1>3. PICK long \in Nat : long = Len(stream)
  BY <1>1 DEF Frames
<1>4. frame \in Seq(Nat)
  BY FramesAre
<1>5. PICK wide \in Nat : wide = Len(frame)
  BY <1>4
<1>6. PICK longer : longer = stream \o frame
  OBVIOUS
<1>7. PICK more : more = [k \in 0..(size + 1) |-> IF k <= size THEN ends[k] ELSE long + wide]
  OBVIOUS
<1>8. PICK both : both = Append(sent, s)
  OBVIOUS
<1>9. /\ both \in Seq(OnWire) /\ Len(both) = size + 1 /\ both[size + 1] = s
      /\ \A k \in 1..size : both[k] = sent[k]
  BY <1>2, <1>8
<1>10. /\ longer \in Seq(Nat) /\ Len(longer) = long + wide
       /\ \A i \in 1..(long + wide) : longer[i] = IF i <= long THEN stream[i] ELSE frame[i - long]
  <2>1. stream \in Seq(Nat)
    BY <1>1 DEF Frames
  <2> QED BY <1>3, <1>4, <1>5, <1>6, <2>1, ConcatProperties
<1>11. ends \in [0..size -> Nat] /\ ends[0] = 0 /\ ends[size] = long
  BY <1>1, <1>2, <1>3 DEF Frames
<1>12. more \in [0..(size + 1) -> Nat] /\ more[0] = 0 /\ more[size + 1] = long + wide
  BY <1>7, <1>11
<1>13. \A i \in 1..wide : longer[long + i] = frame[i]
  <2> SUFFICES ASSUME NEW i \in 1..wide PROVE longer[long + i] = frame[i]
    OBVIOUS
  <2>1. long + i \in 1..(long + wide) /\ ~(long + i <= long) /\ (long + i) - long = i
    OBVIOUS
  <2> QED BY <1>10, <2>1
<1>14. ASSUME NEW k \in 1..(size + 1)
       PROVE  /\ more[k] <= long + wide
              /\ \E f \in FramesOf(both[k]) :
                    /\ more[k] = more[k - 1] + Len(f)
                    /\ \A i \in 1..Len(f) : longer[more[k - 1] + i] = f[i]
  <2>1. CASE k = size + 1
    <3>1. more[k] = long + wide /\ more[k - 1] = long /\ both[k] = s
      BY <1>7, <1>9, <1>11, <2>1
    <3> QED BY <1>5, <1>13, <3>1
  <2>2. CASE k <= size
    <3>1. k \in 1..Len(sent)
      BY <1>2, <2>2
    <3>2. PICK f \in FramesOf(sent[k]) :
             /\ ends[k] <= long /\ ends[k] = ends[k - 1] + Len(f)
             /\ \A i \in 1..Len(f) : stream[ends[k - 1] + i] = f[i]
      BY <1>1, <1>3, <3>1 DEF Frames
    <3>3. PICK a \in Nat : a = ends[k - 1]
      BY <1>2, <1>11, <3>1
    <3>4. more[k] = ends[k] /\ more[k - 1] = a /\ both[k] = sent[k]
      BY <1>7, <1>9, <2>2, <3>3
    <3>5. Len(f) \in Nat
      <4>1. sent[k] \in OnWire
        BY <3>1
      <4> QED BY <3>2, <4>1, FramesAre
    <3>6. ASSUME NEW i \in 1..Len(f) PROVE longer[a + i] = f[i]
      <4>1. a + i \in 1..(long + wide) /\ a + i <= long
        BY <3>2, <3>3, <3>5
      <4>2. longer[a + i] = stream[a + i]
        BY <1>10, <4>1
      <4> QED BY <3>2, <3>3, <4>2
    <3>7. more[k] <= long + wide
      BY <1>11, <2>2, <3>2, <3>4
    <3> QED BY <3>2, <3>3, <3>4, <3>6, <3>7
  <2> QED BY <2>1, <2>2
<1>15. Frames(longer, more, both)
  BY <1>9, <1>10, <1>12, <1>14 DEF Frames
<1>16. PICK r \in Nat : r = Len(rest)
  OBVIOUS
<1>17. PICK b \in Nat : b = ends[n] /\ more[n] = b
  <2>1. n \in 0..size
    BY <1>2
  <2>2. ends[n] \in Nat /\ more[n] = ends[n]
    BY <1>7, <1>11, <2>1
  <2> QED BY <2>2
<1>18. PICK all : all = rest \o frame
  OBVIOUS
<1>19. /\ all \in Seq(Nat) /\ Len(all) = r + wide
       /\ \A i \in 1..(r + wide) : all[i] = IF i <= r THEN rest[i] ELSE frame[i - r]
  BY <1>4, <1>5, <1>16, <1>18, ConcatProperties
<1>20. b + r = long
  BY <1>1, <1>3, <1>16, <1>17
<1>21. ASSUME NEW i \in 1..(r + wide) PROVE all[i] = longer[b + i]
  <2>1. b + i \in 1..(long + wide) /\ (b + i) - long = i - r /\ (i <= r <=> b + i <= long)
    BY <1>20
  <2>2. CASE i <= r
    <3>1. i \in 1..Len(rest)
      BY <1>16, <2>2
    <3>2. all[i] = rest[i]
      BY <1>19, <2>2
    <3>3. rest[i] = stream[b + i]
      BY <1>1, <1>17, <3>1
    <3>4. longer[b + i] = stream[b + i]
      BY <1>10, <2>1, <2>2
    <3> QED BY <3>2, <3>3, <3>4
  <2>3. CASE ~(i <= r)
    BY <1>10, <1>19, <2>1, <2>3
  <2> QED BY <2>2, <2>3
<1>22. b + (r + wide) = long + wide
  BY <1>20
<1>23. Remains(all, both, n, TRUE)
  <2>1. more[n] + Len(all) = Len(longer) /\ Len(longer) \in Nat
    BY <1>10, <1>17, <1>19, <1>22
  <2>2. more[n] + Len(all) <= Len(longer)
    BY <2>1
  <2>3. \A i \in 1..Len(all) : all[i] = longer[more[n] + i]
    BY <1>17, <1>19, <1>21
  <2> QED BY <1>15, <2>1, <2>2, <2>3, RemainsOf
<1> QED BY <1>8, <1>18, <1>23

-----------------------------------------------------------------------------
(* The client.                                                             *)

Lines == [up : BOOLEAN, sent : Seq(OnWire), wire : Seq(Nat)]
Clients == [line : Nat \cup {None}, buffer : Seq(Nat), waiting : BOOLEAN]

\* A client that has taken so many payloads of a line and holds a buffer has the first ones, and
\* goes on where they end: with the buffer, and with what is still to come.
Intact(line, buffer, payloads) ==
    /\ Len(payloads) <= Len(line.sent) /\ \A k \in 1..Len(payloads) : payloads[k] = line.sent[k]
    /\ ~line.up => line.wire = <<>>
    /\ Remains(buffer \o line.wire, line.sent, Len(payloads), line.up)

FrameInv ==
    /\ lines \in Seq(Lines) /\ client \in Clients /\ taken \in Seq(Payloads)
    /\ \A l \in DOMAIN lines : lines[l].up => l = client.line
    /\ client.line = None => ~client.waiting
    /\ client.line # None =>
          /\ client.line \in DOMAIN lines
          /\ Intact(lines[client.line], client.buffer, taken)
    /\ client.waiting => F!Decoded(client.buffer).kind = "partial"

LEMMA Regrouped == \A a, b, c \in Seq(Nat) : (a \o b) \o c = a \o (b \o c)
<1> SUFFICES ASSUME NEW a \in Seq(Nat), NEW b \in Seq(Nat), NEW c \in Seq(Nat)
             PROVE  (a \o b) \o c = a \o (b \o c)
  OBVIOUS
<1> QED BY ConcatAssociative

LEMMA LineIs ==
  ASSUME NEW line \in Lines
  PROVE  line.up \in BOOLEAN /\ line.sent \in Seq(OnWire) /\ line.wire \in Seq(Nat)
BY DEF Lines

LEMMA ClientIs ==
  ASSUME NEW c \in Clients
  PROVE  c.line \in Nat \cup {None} /\ c.buffer \in Seq(Nat) /\ c.waiting \in BOOLEAN
BY DEF Clients

\* So many bytes moved from the wire to the buffer.
Moved(line, buffer, n, after, more) ==
    /\ n \in 1..Len(line.wire) /\ more = buffer \o SubSeq(line.wire, 1, n)
    /\ after = [line EXCEPT !.wire = SubSeq(@, n + 1, Len(@))]

LEMMA Arrives ==
  ASSUME NEW line \in Lines, NEW buffer \in Seq(Nat), NEW payloads \in Seq(Payloads),
         Intact(line, buffer, payloads), line.up,
         NEW n, NEW after, NEW more, Moved(line, buffer, n, after, more)
  PROVE  /\ after \in Lines /\ after.up /\ more \in Seq(Nat)
         /\ Intact(after, more, payloads)
<1>1. PICK w \in Seq(Nat) : w = line.wire
  BY LineIs
<1>2. PICK size \in Nat : size = Len(w) /\ n \in 1..size
  <2>1. Len(w) \in Nat /\ n \in 1..Len(w)
    BY <1>1, LenProperties DEF Moved
  <2> QED BY <2>1
<1>3. \A i \in 1..size : w[i] \in Nat
  BY <1>2, ElementOfSeq
<1>4. PICK u \in Seq(Nat) : u = SubSeq(w, 1, n)
  <2>1. \A i \in 1..n : w[i] \in Nat
    BY <1>2, <1>3
  <2>2. 1 \in Int /\ n \in Int
    BY <1>2
  <2>3. SubSeq(w, 1, n) \in Seq(Nat)
    BY <2>1, <2>2, SubSeqProperties
  <2> QED BY <2>3
<1>5. PICK v \in Seq(Nat) : v = SubSeq(w, n + 1, size)
  <2>1. \A i \in (n + 1)..size : w[i] \in Nat
    BY <1>2, <1>3
  <2>2. n + 1 \in Int /\ size \in Int
    BY <1>2
  <2>3. SubSeq(w, n + 1, size) \in Seq(Nat)
    BY <2>1, <2>2, SubSeqProperties
  <2> QED BY <2>3
<1>6. u \o v = w
  <2>1. SubSeq(w, 1, n) \o SubSeq(w, n + 1, size) = SubSeq(w, 1, size)
    <3>1. 1 \in 1..Len(w)+1 /\ n \in 1-1..Len(w) /\ size \in n..Len(w)
      BY <1>2
    <3> QED BY <3>1, ConcatAdjacentSubSeq
  <2>2. SubSeq(w, 1, size) = w
    BY <1>2, SubSeqFull
  <2> QED BY <1>4, <1>5, <2>1, <2>2
<1>7. more = buffer \o u
  BY <1>1, <1>4 DEF Moved
<1>8. more \in Seq(Nat) /\ more \o v = buffer \o w
  <2>1. buffer \o u \in Seq(Nat)
    BY ConcatProperties
  <2>2. (buffer \o u) \o v = buffer \o (u \o v)
    BY <1>4, <1>5, Regrouped
  <2> QED BY <1>6, <1>7, <2>1, <2>2, Zenon
<1>9. after = [line EXCEPT !.wire = v]
  BY <1>1, <1>2, <1>5 DEF Moved
<1>10. after \in Lines /\ after.up = line.up /\ after.sent = line.sent /\ after.wire = v
  BY <1>9 DEF Lines
<1> QED BY <1>1, <1>8, <1>10 DEF Intact

\* A packet taken from the buffer is the next one that was sent.
LEMMA Takes ==
  ASSUME NEW line \in Lines, NEW buffer \in Seq(Nat), NEW payloads \in Seq(Payloads),
         Intact(line, buffer, payloads), NEW decoded, decoded = F!Decoded(buffer),
         decoded.kind = "packet"
  PROVE  /\ decoded.payload \in Payloads
         /\ SubSeq(buffer, decoded.consumed + 1, Len(buffer)) \in Seq(Nat)
         /\ Intact(line, SubSeq(buffer, decoded.consumed + 1, Len(buffer)),
                   Append(payloads, decoded.payload))
<1>1. PICK sent \in Seq(OnWire) : sent = line.sent
  BY LineIs
<1>2. PICK w \in Seq(Nat) : w = line.wire
  BY LineIs
<1>3. PICK n \in Nat : n = Len(payloads)
  OBVIOUS
<1>4. PICK rest \in Seq(Nat) : rest = buffer \o w
  BY ConcatProperties
<1>5. PICK b \in Nat : b = Len(buffer)
  OBVIOUS
<1>6. /\ Len(rest) = b + Len(w) /\ Len(w) \in Nat
      /\ \A i \in 1..(b + Len(w)) : rest[i] = IF i <= b THEN buffer[i] ELSE w[i - b]
  BY <1>4, <1>5, ConcatProperties
<1>7. n \in 0..Len(sent) /\ Remains(rest, sent, n, line.up)
      /\ \A k \in 1..n : payloads[k] = sent[k]
  BY <1>1, <1>2, <1>3, <1>4 DEF Intact
<1>8. b > 0
  <2> SUFFICES ASSUME b = 0 PROVE FALSE
    BY <1>5
  <2>1. F!Decoded(buffer) = F!Partial
    BY <1>5 DEF F!Decoded, F!Header
  <2> QED BY <2>1 DEF F!Partial
<1>9. Len(rest) > 0
  BY <1>6, <1>8
<1>10. n + 1 \in 1..Len(sent)
  BY <1>7, <1>9, RemainNext
<1>11. PICK frame \in FramesOf(sent[n + 1]) :
          /\ \A i \in 1..Len(rest) : i <= Len(frame) => rest[i] = frame[i]
          /\ \A after \in Seq(Nat) :
                /\ Len(rest) = Len(frame) + Len(after)
                /\ \A i \in 1..Len(after) : after[i] = rest[Len(frame) + i]
                => Remains(after, sent, n + 1, line.up)
  BY <1>7, <1>9, RemainNext
<1>12. sent[n + 1] \in OnWire
  BY <1>10
<1>13. PICK f \in Nat : f = Len(frame)
  BY <1>12, FramesAre
<1>14. PICK check, body :
          /\ Carries(frame, check, body)
          /\ check = F!Checksum(body) => sent[n + 1] \in Payloads /\ body = sent[n + 1]
  BY <1>12, FramesAre
<1>15. ASSUME NEW i \in 1..Len(buffer), i <= Len(frame) PROVE buffer[i] = frame[i]
  <2>1. i \in 1..b /\ i \in 1..(b + Len(w)) /\ i \in 1..Len(rest) /\ i <= b
    BY <1>5, <1>6
  <2>2. rest[i] = buffer[i] /\ rest[i] = frame[i]
    BY <1>6, <1>11, <1>15, <2>1
  <2> QED BY <2>2
<1>16. decoded = IF b < f THEN F!Partial
                 ELSE IF check # F!Checksum(body) THEN F!Invalid
                 ELSE [kind |-> "packet", payload |-> body, consumed |-> f]
  BY <1>5, <1>13, <1>14, <1>15, DecodedIs
<1>17. ~(b < f) /\ check = F!Checksum(body)
  BY <1>16 DEF F!Partial, F!Invalid
<1>18. decoded.payload = sent[n + 1] /\ decoded.consumed = f /\ sent[n + 1] \in Payloads
  BY <1>14, <1>16, <1>17
<1>19. PICK kept : kept = SubSeq(buffer, f + 1, b)
  OBVIOUS
<1>20. /\ kept \in Seq(Nat) /\ Len(kept) = b - f
       /\ \A i \in 1..(b - f) : kept[i] = buffer[f + i]
  <2>1. \A i \in (f + 1)..b : buffer[i] \in Nat
    BY <1>5, <1>13, ElementOfSeq
  <2>2. /\ kept \in Seq(Nat)
        /\ Len(kept) = IF f + 1 <= b THEN b - (f + 1) + 1 ELSE 0
        /\ \A i \in 1..(b - (f + 1) + 1) : kept[i] = buffer[(f + 1) + i - 1]
    BY <1>19, <2>1, SubSeqProperties
  <2>3. b - (f + 1) + 1 = b - f /\ (f + 1 <= b \/ b - f = 0)
    BY <1>17
  <2>4. \A i \in 1..(b - f) : (f + 1) + i - 1 = f + i
    OBVIOUS
  <2> QED BY <2>2, <2>3, <2>4
<1>21. PICK after \in Seq(Nat) : after = kept \o w
  BY <1>20, ConcatProperties
<1>22. PICK m \in Nat : m = Len(w)
  BY <1>6
<1>23. /\ Len(after) = (b - f) + m
       /\ \A i \in 1..((b - f) + m) : after[i] = IF i <= b - f THEN kept[i] ELSE w[i - (b - f)]
  <2>1. /\ Len(after) = Len(kept) + Len(w)
        /\ \A i \in 1..Len(kept) + Len(w) :
              after[i] = IF i <= Len(kept) THEN kept[i] ELSE w[i - Len(kept)]
    BY <1>20, <1>21, ConcatProperties
  <2>2. Len(kept) = b - f /\ Len(w) = m
    BY <1>20, <1>22
  <2> QED BY <2>1, <2>2, Zenon
<1>24. Len(rest) = f + ((b - f) + m)
  <2>1. Len(rest) = b + m
    BY <1>6, <1>22
  <2> QED BY <2>1
<1>25. ASSUME NEW i \in 1..((b - f) + m) PROVE after[i] = rest[f + i]
  <2>1. f + i \in 1..(b + m) /\ (f + i <= b <=> i <= b - f) /\ (f + i) - b = i - (b - f)
    OBVIOUS
  <2>2. rest[f + i] = IF f + i <= b THEN buffer[f + i] ELSE w[(f + i) - b]
    BY <1>6, <1>22, <2>1
  <2>3. CASE i <= b - f
    <3>1. kept[i] = buffer[f + i]
      BY <1>20, <2>3
    <3> QED BY <1>23, <2>1, <2>2, <2>3, <3>1
  <2>4. CASE ~(i <= b - f)
    BY <1>23, <2>1, <2>2, <2>4
  <2> QED BY <2>3, <2>4
<1>26. Remains(after, sent, n + 1, line.up)
  <2>1. Len(rest) = Len(frame) + Len(after)
    BY <1>13, <1>23, <1>24
  <2>2. \A i \in 1..Len(after) : after[i] = rest[Len(frame) + i]
    BY <1>13, <1>23, <1>25
  <2> QED BY <1>11, <2>1, <2>2
<1>27. PICK more : more = Append(payloads, decoded.payload)
  OBVIOUS
<1>28. Len(more) = n + 1 /\ more[n + 1] = decoded.payload /\ \A k \in 1..n : more[k] = payloads[k]
  BY <1>3, <1>18, <1>27
<1>29. n + 1 <= Len(sent) /\ \A k \in 1..(n + 1) : more[k] = sent[k]
  <2>1. n + 1 <= Len(sent)
    BY <1>10
  <2>2. ASSUME NEW k \in 1..(n + 1) PROVE more[k] = sent[k]
    <3>1. CASE k = n + 1
      BY <1>18, <1>28, <3>1
    <3>2. CASE k # n + 1
      <4>1. k \in 1..n
        BY <3>2
      <4> QED BY <1>7, <1>28, <4>1
    <3> QED BY <3>1, <3>2
  <2> QED BY <2>1, <2>2
<1>30. Intact(line, kept, more)
  <2>1. ~line.up => line.wire = <<>>
    BY DEF Intact
  <2> QED BY <1>1, <1>2, <1>21, <1>26, <1>28, <1>29, <2>1 DEF Intact
<1> QED BY <1>5, <1>18, <1>19, <1>20, <1>27, <1>30

\* Another packet, whole or damaged, is sent behind the others.
LEMMA Sends ==
  ASSUME NEW line \in Lines, NEW buffer \in Seq(Nat), NEW payloads \in Seq(Payloads),
         Intact(line, buffer, payloads), line.up,
         NEW s \in OnWire, NEW frame \in FramesOf(s),
         NEW after, after = [line EXCEPT !.sent = Append(@, s), !.wire = @ \o frame]
  PROVE  after \in Lines /\ after.up /\ Intact(after, buffer, payloads)
<1>1. PICK sent \in Seq(OnWire) : sent = line.sent
  BY LineIs
<1>2. PICK w \in Seq(Nat) : w = line.wire
  BY LineIs
<1>3. PICK n \in Nat : n = Len(payloads)
  OBVIOUS
<1>4. frame \in Seq(Nat)
  BY FramesAre
<1>5. after = [line EXCEPT !.sent = Append(sent, s), !.wire = w \o frame]
  BY <1>1, <1>2
<1>6. w \o frame \in Seq(Nat) /\ Append(sent, s) \in Seq(OnWire)
  BY <1>4, ConcatProperties
<1>7. /\ after \in Lines /\ after.up = line.up
      /\ after.sent = Append(sent, s) /\ after.wire = w \o frame
  BY <1>5, <1>6 DEF Lines
<1>8. n \in 0..Len(sent) /\ Remains(buffer \o w, sent, n, TRUE) /\ buffer \o w \in Seq(Nat)
  <2>1. line.up = TRUE
    BY LineIs
  <2>2. buffer \o w \in Seq(Nat)
    BY ConcatProperties
  <2>3. n <= Len(sent) /\ Remains(buffer \o w, sent, n, line.up)
    BY <1>1, <1>2, <1>3 DEF Intact
  <2>4. n \in 0..Len(sent)
    BY <2>3
  <2> QED BY <2>1, <2>2, <2>3, <2>4
<1>9. Remains((buffer \o w) \o frame, Append(sent, s), n, TRUE)
  BY <1>8, RemainSent
<1>10. (buffer \o w) \o frame = buffer \o (w \o frame)
  BY <1>2, <1>4, Regrouped
<1>11. PICK more : more = Append(sent, s)
  OBVIOUS
<1>12. n <= Len(more) /\ \A k \in 1..n : payloads[k] = more[k]
  <2>1. Len(more) = Len(sent) + 1 /\ \A k \in 1..Len(sent) : more[k] = sent[k]
    BY <1>11
  <2>2. \A k \in 1..n : payloads[k] = sent[k]
    BY <1>1, <1>3 DEF Intact
  <2> QED BY <1>8, <2>1, <2>2
<1>13. after.up = TRUE
  BY <1>7, LineIs
<1> QED BY <1>3, <1>7, <1>9, <1>10, <1>11, <1>12, <1>13 DEF Intact

\* A line that drops takes with it what was on its way.
LEMMA Drops ==
  ASSUME NEW line \in Lines, NEW buffer \in Seq(Nat), NEW payloads \in Seq(Payloads),
         Intact(line, buffer, payloads),
         NEW after, after = [line EXCEPT !.up = FALSE, !.wire = <<>>]
  PROVE  after \in Lines /\ ~after.up /\ Intact(after, buffer, payloads)
<1>1. PICK sent \in Seq(OnWire) : sent = line.sent
  BY LineIs
<1>2. PICK w \in Seq(Nat) : w = line.wire
  BY LineIs
<1>3. PICK n \in Nat : n = Len(payloads)
  OBVIOUS
<1>4. after \in Lines /\ after.up = FALSE /\ after.sent = sent /\ after.wire = <<>>
  <2>1. <<>> \in Seq(Nat)
    BY EmptySeq
  <2>2. after = [up |-> FALSE, sent |-> sent, wire |-> <<>>]
    BY <1>1 DEF Lines
  <2> QED BY <1>1, <2>1, <2>2 DEF Lines
<1>5. PICK rest \in Seq(Nat) : rest = buffer \o w
  BY ConcatProperties
<1>6. Len(buffer) <= Len(rest) /\ \A i \in 1..Len(buffer) : buffer[i] = rest[i]
  BY <1>5, ConcatProperties
<1>7. n \in 0..Len(sent) /\ Remains(rest, sent, n, line.up)
  BY <1>1, <1>2, <1>3, <1>5 DEF Intact
<1>8. Remains(buffer, sent, n, FALSE)
  BY <1>6, <1>7, RemainCut
<1>9. buffer \o <<>> = buffer
  BY ConcatEmptySeq
<1>10. n <= Len(sent) /\ \A k \in 1..n : payloads[k] = sent[k]
  BY <1>1, <1>3 DEF Intact
<1> QED BY <1>3, <1>4, <1>8, <1>9, <1>10 DEF Intact

-----------------------------------------------------------------------------

\* The invariant, field by field.
LEMMA FrameFacts ==
  ASSUME FrameInv
  PROVE  /\ lines \in Seq(Lines) /\ taken \in Seq(Payloads) /\ Len(lines) \in Nat
         /\ DOMAIN lines = 1..Len(lines)
         /\ client = [line |-> client.line, buffer |-> client.buffer, waiting |-> client.waiting]
         /\ client.line \in Nat \cup {None} /\ client.buffer \in Seq(Nat)
         /\ client.waiting \in BOOLEAN
         /\ \A l \in DOMAIN lines : lines[l] \in Lines /\ (lines[l].up => l = client.line)
         /\ None \notin Nat
<1>1. lines \in Seq(Lines) /\ taken \in Seq(Payloads) /\ client \in Clients
  BY DEF FrameInv
<1>2. DOMAIN lines = 1..Len(lines) /\ Len(lines) \in Nat /\ \A l \in DOMAIN lines : lines[l] \in Lines
  BY <1>1
<1>3. \A l \in DOMAIN lines : lines[l].up => l = client.line
  BY DEF FrameInv
<1>4. client = [line |-> client.line, buffer |-> client.buffer, waiting |-> client.waiting]
  BY <1>1 DEF Clients
<1> QED BY <1>1, <1>2, <1>3, <1>4, ClientIs, NoneAssumption

LEMMA ClientBy ==
  ASSUME NEW c \in Clients, NEW b, NEW w, NEW d,
         \/ d = [c EXCEPT !.buffer = b, !.waiting = w]
         \/ d = [c EXCEPT !.waiting = w, !.buffer = b]
  PROVE  d = [line |-> c.line, buffer |-> b, waiting |-> w]
<1>1. c = [line |-> c.line, buffer |-> c.buffer, waiting |-> c.waiting]
  BY DEF Clients
<1>2. CASE d = [c EXCEPT !.buffer = b, !.waiting = w]
  BY <1>1, <1>2
<1>3. CASE d = [c EXCEPT !.waiting = w, !.buffer = b]
  BY <1>1, <1>3
<1> QED BY <1>2, <1>3

\* A line and what the client knows of it, changed together.
LEMMA FrameBy ==
  ASSUME FrameInv, client.line # None,
         NEW line \in Lines, line.up => lines[client.line].up,
         lines' = [lines EXCEPT ![client.line] = line],
         NEW buffer \in Seq(Nat), NEW waits \in BOOLEAN,
         client' = [line |-> client.line, buffer |-> buffer, waiting |-> waits],
         taken' \in Seq(Payloads), Intact(line, buffer, taken'),
         waits => F!Decoded(buffer).kind = "partial"
  PROVE  FrameInv'
<1>1. PICK n \in Nat : n = client.line /\ n \in DOMAIN lines
  BY FrameFacts DEF FrameInv
<1>2. lines' = [lines EXCEPT ![n] = line]
  BY <1>1
<1>3. lines' \in Seq(Lines) /\ DOMAIN lines' = DOMAIN lines
      /\ \A l \in DOMAIN lines : lines'[l] = IF l = n THEN line ELSE lines[l]
  BY <1>1, <1>2, FrameFacts
<1>4. client'.line = n /\ client'.buffer = buffer /\ client'.waiting = waits
  BY <1>1
<1>5. client' \in Clients
  BY <1>1 DEF Clients
<1>6. \A l \in DOMAIN lines' : lines'[l].up => l = client'.line
  BY <1>1, <1>3, <1>4, FrameFacts
<1>7. lines'[client'.line] = line
  BY <1>1, <1>3, <1>4
<1>8. client'.line # None
  BY <1>4, FrameFacts
<1> QED BY <1>1, <1>3, <1>4, <1>5, <1>6, <1>7, <1>8 DEF FrameInv

\* Somebody who waits looks at what has come.
LEMMA FrameDrained ==
  ASSUME FrameInv, client.line # None,
         NEW line \in Lines, line.up => lines[client.line].up,
         lines' = [lines EXCEPT ![client.line] = line],
         NEW buffer \in Seq(Nat), Intact(line, buffer, taken), F!Drain(buffer)
  PROVE  FrameInv'
<1>1. PICK decoded : decoded = F!Decoded(buffer)
  OBVIOUS
<1>2. PICK n : n = client.line
  OBVIOUS
<1>3. client \in Clients
  BY DEF FrameInv
<1>4. taken \in Seq(Payloads)
  BY FrameFacts
<1>5. CASE decoded.kind = "partial"
  <2>1. client' = [client EXCEPT !.buffer = buffer, !.waiting = TRUE] /\ taken' = taken
    BY <1>1, <1>5 DEF F!Drain
  <2>2. client' = [line |-> n, buffer |-> buffer, waiting |-> TRUE]
    BY <1>2, <1>3, <2>1, ClientBy
  <2> QED BY <1>1, <1>2, <1>4, <1>5, <2>1, <2>2, FrameBy
<1>6. CASE decoded.kind = "invalid"
  <2>1. client' = [client EXCEPT !.buffer = buffer, !.waiting = FALSE] /\ taken' = taken
    BY <1>1, <1>6 DEF F!Drain
  <2>2. client' = [line |-> n, buffer |-> buffer, waiting |-> FALSE]
    BY <1>2, <1>3, <2>1, ClientBy
  <2> QED BY <1>2, <1>4, <2>1, <2>2, FrameBy
<1>7. CASE decoded.kind = "packet"
  <2>1. PICK rest : rest = SubSeq(buffer, decoded.consumed + 1, Len(buffer))
    OBVIOUS
  <2>2. client' = [client EXCEPT !.waiting = FALSE, !.buffer = rest]
        /\ taken' = Append(taken, decoded.payload)
    BY <1>1, <1>7, <2>1 DEF F!Drain
  <2>3. client' = [line |-> n, buffer |-> rest, waiting |-> FALSE]
    BY <1>2, <1>3, <2>2, ClientBy
  <2>4. decoded.payload \in Payloads /\ rest \in Seq(Nat) /\ Intact(line, rest, taken')
    BY <1>1, <1>4, <1>7, <2>1, <2>2, Takes
  <2>5. taken' \in Seq(Payloads)
    BY <1>4, <2>2, <2>4
  <2> QED BY <1>2, <2>3, <2>4, <2>5, FrameBy
<1>8. decoded.kind \in {"partial", "invalid", "packet"}
  BY <1>1 DEF F!Decoded, F!Partial, F!Invalid
<1> QED BY <1>5, <1>6, <1>7, <1>8

LEMMA FrameReceive == ASSUME FrameInv, F!Receive PROVE FrameInv'
<1>1. client.line # None /\ F!Drain(client.buffer) /\ lines' = lines
  BY DEF F!Receive
<1>2. PICK n : n = client.line /\ n \in DOMAIN lines
  BY <1>1 DEF FrameInv
<1>3. PICK line : line = lines[n]
  OBVIOUS
<1>4. line \in Lines /\ Intact(line, client.buffer, taken) /\ client.buffer \in Seq(Nat)
  BY <1>1, <1>2, <1>3, FrameFacts DEF FrameInv
<1>5. lines' = [lines EXCEPT ![client.line] = line]
  BY <1>1, <1>2, <1>3, FrameFacts
<1>6. line.up => lines[client.line].up
  BY <1>2, <1>3
<1> QED BY <1>1, <1>4, <1>5, <1>6, FrameDrained

LEMMA FrameDeliver == ASSUME FrameInv, F!Deliver PROVE FrameInv'
<1>1. PICK l \in DOMAIN lines :
         \E n \in 1..Len(lines[l].wire) :
            LET buffer == client.buffer \o SubSeq(lines[l].wire, 1, n) IN
            /\ lines[l].up
            /\ lines' = [lines EXCEPT ![l].wire = SubSeq(@, n + 1, Len(@))]
            /\ IF client.waiting THEN F!Drain(buffer)
               ELSE client' = [client EXCEPT !.buffer = buffer] /\ UNCHANGED taken
  BY DEF F!Deliver
<1>2. PICK n \in 1..Len(lines[l].wire) :
         LET buffer == client.buffer \o SubSeq(lines[l].wire, 1, n) IN
         /\ lines[l].up
         /\ lines' = [lines EXCEPT ![l].wire = SubSeq(@, n + 1, Len(@))]
         /\ IF client.waiting THEN F!Drain(buffer)
            ELSE client' = [client EXCEPT !.buffer = buffer] /\ UNCHANGED taken
  BY <1>1
<1>3. PICK buffer : buffer = client.buffer \o SubSeq(lines[l].wire, 1, n)
  OBVIOUS
<1>4. /\ lines[l].up
      /\ lines' = [lines EXCEPT ![l].wire = SubSeq(@, n + 1, Len(@))]
      /\ client.waiting => F!Drain(buffer)
      /\ ~client.waiting => client' = [client EXCEPT !.buffer = buffer] /\ taken' = taken
  BY <1>2, <1>3
<1>5. l = client.line /\ l # None /\ lines[l] \in Lines
  BY <1>4, FrameFacts
<1>6. PICK line : line = lines[l]
  OBVIOUS
<1>7. PICK after : after = [line EXCEPT !.wire = SubSeq(@, n + 1, Len(@))]
  OBVIOUS
<1>8. lines' = [lines EXCEPT ![client.line] = after]
  BY <1>4, <1>5, <1>6, <1>7
<1>9. Intact(line, client.buffer, taken) /\ client.buffer \in Seq(Nat) /\ taken \in Seq(Payloads)
  BY <1>5, <1>6, FrameFacts DEF FrameInv
<1>10. n \in 1..Len(line.wire) /\ line \in Lines /\ line.up
       /\ buffer = client.buffer \o SubSeq(line.wire, 1, n)
  BY <1>3, <1>4, <1>5, <1>6
<1>11. /\ after \in Lines /\ after.up /\ buffer \in Seq(Nat)
       /\ Intact(after, buffer, taken)
  <2>1. Moved(line, client.buffer, n, after, buffer)
    BY <1>7, <1>10, Zenon DEF Moved
  <2> QED BY <1>9, <1>10, <2>1, Arrives
<1>12. after.up => lines[client.line].up
  BY <1>4, <1>5
<1>13. CASE client.waiting
  BY <1>4, <1>5, <1>8, <1>11, <1>12, <1>13, FrameDrained
<1>14. CASE ~client.waiting
  <2>1. client' = [client EXCEPT !.buffer = buffer] /\ taken' = taken
    BY <1>4, <1>14
  <2>2. client' = [line |-> client.line, buffer |-> buffer, waiting |-> FALSE]
    BY <1>14, <2>1, FrameFacts
  <2>3. taken' \in Seq(Payloads) /\ Intact(after, buffer, taken')
    BY <1>9, <1>11, <2>1
  <2> QED BY <1>5, <1>8, <1>11, <1>12, <2>2, <2>3, FrameBy
<1> QED BY <1>13, <1>14

LEMMA FrameOpen == ASSUME ~Overlaps, FrameInv, F!Open PROVE FrameInv'
<1>1. PICK line : line = [up |-> TRUE, sent |-> <<>>, wire |-> <<>>]
  OBVIOUS
<1>2. PICK n \in Nat : n = Len(lines) + 1 /\ n \in Nat \ {0}
  BY FrameFacts
<1>3. /\ client.line = None /\ lines' = Append(lines, line)
      /\ client' = [client EXCEPT !.line = n, !.buffer = <<>>] /\ taken' = <<>>
  BY <1>1, <1>2 DEF F!Open
<1>4. <<>> \in Seq(Nat) /\ <<>> \in Seq(OnWire) /\ <<>> \in Seq(Payloads)
  BY EmptySeq
<1>5. line \in Lines
  BY <1>1, <1>4 DEF Lines
<1>6. ~client.waiting
  BY <1>3 DEF FrameInv
<1>7. client' = [line |-> n, buffer |-> <<>>, waiting |-> client.waiting]
  BY <1>3, FrameFacts
<1>8. client' \in Clients
  BY <1>4, <1>7, FrameFacts DEF Clients
<1>9. /\ lines' \in Seq(Lines) /\ DOMAIN lines' = 1..n /\ lines'[n] = line
      /\ \A l \in 1..n : l # n => l \in DOMAIN lines /\ lines'[l] = lines[l]
  BY <1>2, <1>3, <1>5, FrameFacts
<1>10. \A l \in DOMAIN lines' : lines'[l].up => l = n
  BY <1>3, <1>9, FrameFacts
<1>11. Intact(line, <<>>, <<>>)
  <2>1. <<>> \o <<>> = <<>> /\ Len(<<>>) = 0
    BY <1>4, ConcatEmptySeq, EmptySeq
  <2>2. Remains(<<>>, <<>>, 0, line.up)
    BY RemainStart
  <2>3. line.wire = <<>> /\ line.sent = <<>>
    BY <1>1
  <2> QED BY <2>1, <2>2, <2>3 DEF Intact
<1>12. client'.line = n /\ client'.buffer = <<>> /\ ~client'.waiting
  BY <1>6, <1>7
<1>13. n # None /\ n \in DOMAIN lines'
  BY <1>2, <1>9, FrameFacts
<1> QED BY <1>3, <1>4, <1>8, <1>9, <1>10, <1>11, <1>12, <1>13 DEF FrameInv

LEMMA FrameClose == ASSUME FrameInv, F!Close PROVE FrameInv'
<1>1. PICK n : n = client.line /\ n \in DOMAIN lines /\ n # None
  BY DEF F!Close, FrameInv
<1>2. /\ lines' = [lines EXCEPT ![n].up = FALSE] /\ taken' = taken
      /\ client' = [client EXCEPT !.line = None, !.waiting = FALSE]
  BY <1>1 DEF F!Close
<1>3. PICK line : line = [lines[n] EXCEPT !.up = FALSE]
  OBVIOUS
<1>4. line \in Lines /\ ~line.up
  BY <1>1, <1>3, FrameFacts DEF Lines
<1>5. lines' = [lines EXCEPT ![n] = line]
  BY <1>2, <1>3
<1>6. /\ lines' \in Seq(Lines) /\ DOMAIN lines' = DOMAIN lines
      /\ \A l \in DOMAIN lines : lines'[l] = IF l = n THEN line ELSE lines[l]
  BY <1>1, <1>4, <1>5, FrameFacts
<1>7. \A l \in DOMAIN lines' : ~lines'[l].up
  BY <1>1, <1>4, <1>6, FrameFacts
<1>8. client' = [line |-> None, buffer |-> client.buffer, waiting |-> FALSE]
  BY <1>2, FrameFacts
<1>9. client' \in Clients
  BY <1>8, FrameFacts DEF Clients
<1>10. client'.line = None /\ ~client'.waiting
  BY <1>8
<1>11. taken' \in Seq(Payloads)
  BY <1>2, FrameFacts
<1> QED BY <1>6, <1>7, <1>9, <1>10, <1>11 DEF FrameInv

LEMMA FrameTimeout == ASSUME FrameInv, F!Timeout PROVE FrameInv'
<1>1. /\ client' = [client EXCEPT !.waiting = FALSE] /\ lines' = lines /\ taken' = taken
      /\ client.waiting
  BY DEF F!Timeout
<1>2. client' = [line |-> client.line, buffer |-> client.buffer, waiting |-> FALSE]
  BY <1>1, FrameFacts
<1>3. client' \in Clients
  BY <1>2, FrameFacts DEF Clients
<1>4. client'.line = client.line /\ client'.buffer = client.buffer /\ ~client'.waiting
  BY <1>2
<1> QED BY <1>1, <1>3, <1>4 DEF FrameInv

\* A packet sent on a line that is up.
LEMMA FrameSent ==
  ASSUME FrameInv, NEW l \in DOMAIN lines, lines[l].up, NEW s \in OnWire,
         NEW frame \in FramesOf(s), F!Send(l, frame, s), UNCHANGED <<client, taken>>
  PROVE  FrameInv'
<1>1. l = client.line /\ l # None /\ lines[l] \in Lines
  BY FrameFacts
<1>2. PICK line : line = lines[l]
  OBVIOUS
<1>3. PICK after : after = [line EXCEPT !.sent = Append(@, s), !.wire = @ \o frame]
  OBVIOUS
<1>4. lines' = [lines EXCEPT ![client.line] = after]
  BY <1>1, <1>2, <1>3 DEF F!Send
<1>5. Intact(line, client.buffer, taken) /\ client.buffer \in Seq(Nat) /\ taken \in Seq(Payloads)
  BY <1>1, <1>2, FrameFacts DEF FrameInv
<1>6. after \in Lines /\ after.up /\ Intact(after, client.buffer, taken)
  <2>1. line \in Lines /\ line.up
    BY <1>1, <1>2
  <2> QED BY <1>3, <1>5, <2>1, Sends, Zenon
<1>7. client' = [line |-> client.line, buffer |-> client.buffer, waiting |-> client.waiting]
  BY FrameFacts
<1>8. client.waiting => F!Decoded(client.buffer).kind = "partial"
  BY DEF FrameInv
<1>9. after.up => lines[client.line].up
  BY <1>1
<1>10. taken' = taken /\ client.waiting \in BOOLEAN
  BY FrameFacts
<1> QED BY <1>1, <1>4, <1>5, <1>6, <1>7, <1>8, <1>9, <1>10, FrameBy

LEMMA FrameHangup == ASSUME FrameInv, F!Hangup PROVE FrameInv'
<1>1. PICK l \in DOMAIN lines :
         lines[l].up /\ lines' = [lines EXCEPT ![l].up = FALSE, ![l].wire = <<>>]
  BY DEF F!Hangup
<1>2. l = client.line /\ l # None /\ lines[l] \in Lines
  BY <1>1, FrameFacts
<1>3. PICK line : line = lines[l]
  OBVIOUS
<1>4. PICK after : after = [line EXCEPT !.up = FALSE, !.wire = <<>>]
  OBVIOUS
<1>5. lines' = [lines EXCEPT ![client.line] = after]
  BY <1>1, <1>2, <1>3, <1>4, FrameFacts
<1>6. Intact(line, client.buffer, taken) /\ client.buffer \in Seq(Nat) /\ taken \in Seq(Payloads)
  BY <1>2, <1>3, FrameFacts DEF FrameInv
<1>7. after \in Lines /\ ~after.up /\ Intact(after, client.buffer, taken)
  BY <1>2, <1>3, <1>4, <1>6, Drops
<1>8. client' = [line |-> client.line, buffer |-> client.buffer, waiting |-> FALSE]
  BY FrameFacts DEF F!Hangup
<1>9. taken' = taken
  BY DEF F!Hangup
<1> QED BY <1>2, <1>5, <1>6, <1>7, <1>8, <1>9, FrameBy

LEMMA FrameStep == ASSUME ~Overlaps, FrameInv, F!Next PROVE FrameInv'
<1>1. CASE F!Reply
  <2>1. PICK l \in DOMAIN lines, payload \in Payloads :
           lines[l].up /\ F!Send(l, F!Frame(payload), payload)
    BY <1>1 DEF F!Reply
  <2>2. UNCHANGED <<client, taken>>
    BY <1>1 DEF F!Reply
  <2>3. F!Frame(payload) \in FramesOf(payload) /\ payload \in OnWire
    BY DEF FramesOf, OnWire
  <2> QED BY <2>1, <2>2, <2>3, FrameSent
<1>2. CASE F!ReplyCorrupted
  <2>1. PICK l \in DOMAIN lines, payload \in Payloads :
           lines[l].up /\ F!Send(l, F!Corrupted(F!Frame(payload)), None)
    BY <1>2 DEF F!ReplyCorrupted
  <2>2. UNCHANGED <<client, taken>>
    BY <1>2 DEF F!ReplyCorrupted
  <2>3. F!Corrupted(F!Frame(payload)) \in FramesOf(None) /\ None \in OnWire
    BY DEF FramesOf, OnWire
  <2> QED BY <2>1, <2>2, <2>3, FrameSent
<1> QED
  BY <1>1, <1>2, FrameReceive, FrameDeliver, FrameOpen, FrameClose, FrameTimeout, FrameHangup
  DEF F!Next

LEMMA FrameInit == F!Init => FrameInv
<1> SUFFICES ASSUME F!Init PROVE FrameInv
  OBVIOUS
<1>1. /\ lines = <<>> /\ taken = <<>>
      /\ client = [line |-> None, buffer |-> <<>>, waiting |-> FALSE]
  BY DEF F!Init
<1>2. lines \in Seq(Lines) /\ taken \in Seq(Payloads) /\ <<>> \in Seq(Nat)
  BY <1>1, EmptySeq
<1>3. client \in Clients /\ client.line = None /\ ~client.waiting
  BY <1>1, <1>2 DEF Clients
<1>4. DOMAIN lines = {}
  BY <1>1
<1> QED BY <1>2, <1>3, <1>4 DEF FrameInv

LEMMA FrameAlone == ASSUME FrameInv, UNCHANGED frames PROVE FrameInv'
BY DEF frames, FrameInv

LEMMA FrameKept == FrameInv => AnswersArrive
<1> SUFFICES ASSUME FrameInv PROVE AnswersArrive
  OBVIOUS
<1>1. client.waiting => F!Decoded(client.buffer).kind = "partial"
  BY DEF FrameInv
<1>2. ASSUME client.line # None
      PROVE  LET sent == lines[client.line].sent IN
             /\ Len(taken) <= Len(sent)
             /\ \A k \in DOMAIN taken : taken[k] = sent[k]
  <2>1. DOMAIN taken = 1..Len(taken)
    BY FrameFacts
  <2> QED BY <1>2, <2>1 DEF FrameInv, Intact
<1> QED BY <1>1, <1>2 DEF AnswersArrive, F!AnswersArrive

(* One connection at a time: whatever arrives how, times out or is damaged,*)
(* callers get the packets the terminal sent, in order and as it sent them,*)
(* and nobody waits for one that is there (zkteco-client.ts).              *)
THEOREM AnswersAreThoseSent == ASSUME ~Overlaps PROVE Spec => []AnswersArrive
<1>1. Init => FrameInv
  BY FrameInit DEF Init
<1>2. FrameInv /\ [Next]_vars => FrameInv'
  BY FrameStep, FrameAlone DEF Next, vars
<1> QED BY <1>1, <1>2, FrameKept, PTL DEF Spec

-----------------------------------------------------------------------------
(* What is asked of a Hikvision terminal.                                  *)

\* How many come before one grows with it, and is less than there are.
LEMMA BelowGrows ==
  ASSUME NEW S \in SUBSET Nat, IsFiniteSet(S)
  PROVE  /\ \A x \in S : C!Below(x, S) \in 0..(Cardinality(S) - 1)
         /\ \A x, y \in S : x < y => C!Below(x, S) < C!Below(y, S)
<1>1. \A T : C!Cardinality(T) = Cardinality(T)
  BY DEF C!Cardinality, Cardinality
<1>2. \A x : C!Below(x, S) = Cardinality({m \in S : m < x})
  BY <1>1 DEF C!Below
<1>3. \A x : IsFiniteSet({m \in S : m < x}) /\ Cardinality({m \in S : m < x}) \in Nat
  <2> SUFFICES ASSUME NEW x
               PROVE  IsFiniteSet({m \in S : m < x}) /\ Cardinality({m \in S : m < x}) \in Nat
    OBVIOUS
  <2>1. {m \in S : m < x} \in SUBSET S
    OBVIOUS
  <2> QED BY <2>1, FS_Subset, FS_CardinalityType
<1>4. ASSUME NEW x \in S PROVE C!Below(x, S) \in 0..(Cardinality(S) - 1)
  <2>1. {m \in S : m < x} \in SUBSET S /\ {m \in S : m < x} # S
    BY <1>4
  <2>2. Cardinality({m \in S : m < x}) <= Cardinality(S)
        /\ Cardinality({m \in S : m < x}) # Cardinality(S)
    BY <2>1, FS_Subset
  <2> QED BY <1>2, <1>3, <2>2, FS_CardinalityType
<1>5. ASSUME NEW x \in S, NEW y \in S, x < y PROVE C!Below(x, S) < C!Below(y, S)
  <2>1. PICK lower : lower = {m \in S : m < x}
    OBVIOUS
  <2>2. PICK upper : upper = {m \in S : m < y}
    OBVIOUS
  <2>3. lower \in SUBSET upper /\ x \in upper /\ x \notin lower
    <3>1. x \in Nat /\ y \in Nat /\ \A m \in S : m \in Nat
      OBVIOUS
    <3>2. \A m \in S : m < x => m < y
      BY <1>5, <3>1
    <3>3. \A m \in lower : m \in upper
      BY <2>1, <2>2, <3>2
    <3>4. x \in upper /\ x \notin lower
      BY <1>5, <2>1, <2>2, <3>1
    <3> QED BY <3>3, <3>4
  <2>4. IsFiniteSet(upper) /\ Cardinality(upper) \in Nat /\ Cardinality(lower) \in Nat
    BY <1>3, <2>1, <2>2
  <2>5. Cardinality(lower) <= Cardinality(upper) /\ Cardinality(lower) # Cardinality(upper)
    BY <2>3, <2>4, FS_Subset
  <2> QED BY <1>2, <2>1, <2>2, <2>4, <2>5
<1> QED BY <1>4, <1>5

\* A finite set of numbers in order: each of them at one place, after as many as come before it.
LEMMA InOrderIs ==
  ASSUME NEW S \in SUBSET Nat, IsFiniteSet(S)
  PROVE  /\ C!InOrder(S) \in Seq(S) /\ Len(C!InOrder(S)) = Cardinality(S) /\ Cardinality(S) \in Nat
         /\ \A i \in 1..Cardinality(S) :
               C!InOrder(S)[i] \in S /\ C!Below(C!InOrder(S)[i], S) = i - 1
         /\ \A x \in S : \E i \in 1..Cardinality(S) : C!InOrder(S)[i] = x
         /\ \A i, j \in 1..Cardinality(S) : C!InOrder(S)[i] = C!InOrder(S)[j] => i = j
<1>1. PICK n \in Nat : n = Cardinality(S)
  BY FS_CardinalityType
<1>2. PICK f : f = [x \in S |-> C!Below(x, S)]
  OBVIOUS
<1>3. f \in [S -> 0..(n - 1)] /\ \A x, y \in S : x # y => f[x] # f[y]
  <2>1. \A x, y \in S : x # y => x < y \/ y < x
    OBVIOUS
  <2>2. \A x \in S : f[x] = C!Below(x, S) /\ C!Below(x, S) \in 0..(n - 1)
    BY <1>1, <1>2, BelowGrows
  <2>3. \A x, y \in S : x < y => f[x] < f[y]
    BY <2>2, BelowGrows
  <2>4. \A x \in S : f[x] \in Int
    BY <2>2
  <2> QED BY <1>2, <2>1, <2>2, <2>3, <2>4
<1>4. \A k \in 0..(n - 1) : \E x \in S : f[x] = k
  <2>1. IsFiniteSet(0..(n - 1)) /\ Cardinality(0..(n - 1)) = n
    BY FS_Interval
  <2>2. f \in Injection(S, 0..(n - 1))
    BY <1>3 DEF Injection, IsInjective
  <2>3. f \in Surjection(S, 0..(n - 1))
    BY <1>1, <2>1, <2>2, FS_Injection
  <2> QED BY <2>3 DEF Surjection
<1>5. \A T : C!Cardinality(T) = Cardinality(T)
  BY DEF C!Cardinality, Cardinality
<1>6. PICK q : q = C!InOrder(S)
  OBVIOUS
<1>7. q = [i \in 1..n |-> CHOOSE x \in S : C!Below(x, S) = i - 1]
  BY <1>1, <1>5, <1>6 DEF C!InOrder
<1>8. \A i \in 1..n : q[i] \in S /\ C!Below(q[i], S) = i - 1
  <2> SUFFICES ASSUME NEW i \in 1..n PROVE q[i] \in S /\ C!Below(q[i], S) = i - 1
    OBVIOUS
  <2>1. PICK x \in S : f[x] = i - 1
    BY <1>4
  <2>2. C!Below(x, S) = i - 1
    BY <1>2, <2>1
  <2> QED BY <1>7, <2>2
<1>9. ASSUME NEW x \in S PROVE \E i \in 1..n : q[i] = x
  <2>1. PICK i \in 1..n : i = f[x] + 1
    BY <1>3
  <2>2. f[q[i]] = i - 1 /\ q[i] \in S
    BY <1>2, <1>8
  <2>3. f[q[i]] = f[x]
    BY <1>3, <2>1, <2>2
  <2> QED BY <1>3, <2>2, <2>3
<1>10. \A i, j \in 1..n : q[i] = q[j] => i = j
  BY <1>8
<1>11. q \in Seq(S) /\ Len(q) = n
  BY <1>7, <1>8
<1> QED BY <1>1, <1>6, <1>8, <1>9, <1>10, <1>11

\* A number above all others comes last, and the others keep their places.
LEMMA InOrderGrows ==
  ASSUME NEW S \in SUBSET Nat, IsFiniteSet(S), NEW x \in Nat, \A y \in S : y < x
  PROVE  /\ Cardinality(S \cup {x}) = Cardinality(S) + 1
         /\ \A i \in 1..Cardinality(S) : C!InOrder(S \cup {x})[i] = C!InOrder(S)[i]
<1>1. PICK T \in SUBSET Nat : T = S \cup {x}
  OBVIOUS
<1>2. IsFiniteSet(T) /\ Cardinality(T) = Cardinality(S) + 1 /\ Cardinality(S) \in Nat
  <2>1. x \notin S
    OBVIOUS
  <2> QED BY <1>1, <2>1, FS_AddElement, FS_CardinalityType
<1>3. \A y \in S : C!Below(y, T) = C!Below(y, S)
  <2> SUFFICES ASSUME NEW y \in S PROVE C!Below(y, T) = C!Below(y, S)
    OBVIOUS
  <2>1. {m \in T : m < y} = {m \in S : m < y}
    BY <1>1
  <2> QED BY <2>1 DEF C!Below
<1>4. ASSUME NEW i \in 1..Cardinality(S) PROVE C!InOrder(T)[i] = C!InOrder(S)[i]
  <2>1. PICK y \in S : y = C!InOrder(S)[i] /\ C!Below(y, S) = i - 1
    BY InOrderIs
  <2>2. PICK j \in 1..Cardinality(T) : C!InOrder(T)[j] = y
    BY <1>1, <1>2, InOrderIs
  <2>3. C!Below(y, T) = j - 1
    BY <1>2, <2>2, InOrderIs
  <2>4. i = j
    BY <1>2, <1>3, <2>1, <2>3
  <2> QED BY <2>1, <2>2, <2>4
<1> QED BY <1>1, <1>2, <1>4

-----------------------------------------------------------------------------
StepNames == {"connect", "identity", "users", "download", "incremental", "events"}
RowNames == StepNames \cup {"clock"}

Recorders == [users : Nat, events : Seq(STRING), cap : Nat \ {0}, limit : Nat \cup {None},
              counts : BOOLEAN, known : BOOLEAN]
HikAdapters == [connected : BOOLEAN, pageSize : {LargePage, SmallPage}]
Tasks == [step : StepNames, attempt : Nat, cursor : Nat, request : Nat, position : Nat,
          pages : Nat, found : SUBSET Nat, due : SUBSET Nat]
Rows == [step : RowNames, status : {"ok", "warn", "fail", "skipped"}, due : SUBSET Nat,
         got : SUBSET Nat]
Reports == [by : {"probe", "sync", "test"}, entries : Seq(Rows), lost : Nat, garbled : Nat,
            refused : Nat]

\* What a terminal has to list, and whether it can be read in small pages.
Asks(t, request) ==
    IF request = "users" THEN 1..t.users
    ELSE {n \in DOMAIN t.events : request \in {"any", t.events[n]}}
Share(t) == IF SmallPage < t.cap THEN SmallPage ELSE t.cap
Serves(t) ==
    /\ t.limit # None => t.limit >= SmallPage
    /\ \A request \in C!Searches : Cardinality(Asks(t, request)) <= MaxPages * Share(t)

\* Nothing went wrong that a report may show.
Fine(t, p) ==
    t.known /\ Serves(t) /\ p.garbled = 0 /\ p.lost < (IF p.by = "sync" THEN Attempts ELSE 1)

Whole(entries) ==
    \A i \in DOMAIN entries :
        entries[i].status \in {"ok", "warn"} => entries[i].due \subseteq entries[i].got
Well(entries) == \A i \in DOMAIN entries : entries[i].status \in {"ok", "warn"}

\* The steps reported are these, each once.
Reported(entries, names) ==
    /\ \A i \in DOMAIN entries : entries[i].step \in names
    /\ \A name \in names : \E i \in DOMAIN entries : entries[i].step = name
    /\ \A i, j \in DOMAIN entries : entries[i].step = entries[j].step => i = j

\* What a probe has reported when it comes to a step.
Earlier(step) ==
    CASE step = "connect" -> {}
      [] step = "identity" -> {"connect"}
      [] step = "users" -> {"connect", "identity", "clock"}
      [] step = "download" -> {"connect", "identity", "clock", "users"}
      [] step = "incremental" -> {"connect", "identity", "clock", "users", "download"}
      [] step = "events" -> RowNames \ {"events"}

\* An operation has found what it had to return and went past; and has asked for no more pages
\* than it found items for.
Part(k, t) ==
    /\ k.request \in 1..Len(C!Plan(k.step))
    /\ \A n \in k.due :
          /\ k.step # "users" => n \in DOMAIN t.events
          /\ k.step \in C!Downloads => n > k.cursor
          /\ \E r \in 1..Len(C!Plan(k.step)) :
                C!Plan(k.step)[r] \in C!Searches /\ n \in Asks(t, C!Plan(k.step)[r])
    /\ k.step \in C!Downloads => k.found \subseteq DOMAIN t.events
    /\ \A r \in 1..(k.request - 1) :
          C!Plan(k.step)[r] \in C!Searches => k.due \cap Asks(t, C!Plan(k.step)[r]) \subseteq k.found
    /\ C!Plan(k.step)[k.request] \in C!Searches =>
          LET list == C!InOrder(Asks(t, C!Plan(k.step)[k.request])) IN
          /\ k.position <= Len(list) /\ \A i \in 1..k.position : list[i] \in k.found
          /\ k.pages < MaxPages /\ k.pages * Share(t) <= k.position

\* A task goes on with a password that is right once connected, has reported what came before, and
\* has used up an attempt for each request a synchronization lost.
Underway(k, t, a, p) ==
    /\ p.refused = 0 /\ (~t.known => k.step = "connect")
    /\ k.step # "connect" /\ ~a.connected => p.by = "probe" /\ p.lost >= 1
    /\ p.by = "probe" => Reported(p.entries, Earlier(k.step))
    /\ p.by = "sync" => /\ k.step \in {"connect", "identity", "incremental"}
                        /\ k.attempt <= Attempts /\ p.lost = k.attempt - 1
    /\ p.by = "test" => k.step \in {"connect", "identity"}
    /\ Part(k, t)

\* What did not fail is whole; what is not well has a reason the report or the terminal shows; and
\* a probe that is over has reported every step.
CallsState(t, a, k, p, c) ==
    /\ t \in Recorders /\ a \in HikAdapters /\ k \in Tasks \cup {None} /\ p \in Reports /\ c \in Nat
    /\ ~t.known => ~a.connected
    /\ Whole(p.entries) /\ (Fine(t, p) => Well(p.entries)) /\ p.refused <= 1
    /\ k = None /\ p.entries # <<>> /\ p.by = "probe" => Reported(p.entries, RowNames)
    /\ k # None => Underway(k, t, a, p)

CallsInv == CallsState(recorder, adapter, task, report, saved)

LEMMA AsksIs ==
  ASSUME NEW t \in Recorders, NEW request
  PROVE  Asks(t, request) \in SUBSET Nat /\ IsFiniteSet(Asks(t, request))
<1>1. t.users \in Nat /\ t.events \in Seq(STRING)
  BY DEF Recorders
<1>2. IsFiniteSet(1..t.users) /\ 1..t.users \in SUBSET Nat
  <2>1. PICK n \in Nat : n = t.users
    BY <1>1
  <2>2. IsFiniteSet(1..n)
    BY FS_Interval
  <2> QED BY <2>1, <2>2
<1>3. IsFiniteSet(DOMAIN t.events) /\ DOMAIN t.events \in SUBSET Nat
  <2>1. PICK n \in Nat : DOMAIN t.events = 1..n
    BY <1>1
  <2> QED BY <2>1, FS_Interval
<1>4. CASE request = "users"
  BY <1>2, <1>4 DEF Asks
<1>5. CASE request # "users"
  <2>1. Asks(t, request) \in SUBSET (DOMAIN t.events)
    BY <1>5 DEF Asks
  <2> QED BY <1>3, <2>1, FS_Subset
<1> QED BY <1>4, <1>5

\* The requests of an operation.
LEMMA PlanIs ==
  /\ C!Plan("connect") = <<"deviceInfo">>
  /\ C!Plan("identity") = <<"deviceInfo", "time", "userCount", "eventCount">>
  /\ C!Plan("users") = <<"users">> /\ C!Plan("events") = <<"any">>
  /\ \A step \in C!Downloads :
        /\ Len(C!Plan(step)) = 1 + Len(Minors) /\ C!Plan(step)[1] = "time"
        /\ \A r \in 1..Len(Minors) : C!Plan(step)[r + 1] = Minors[r]
<1>1. Minors \in Seq(STRING \cup {"time"}) /\ <<"time">> \in Seq(STRING \cup {"time"})
  <2>1. Minors \in Seq(STRING)
    BY CallsAssumption
  <2> QED BY <2>1
<1>2. \A step \in C!Downloads : C!Plan(step) = <<"time">> \o Minors
  BY DEF C!Plan, C!Downloads
<1>3. /\ Len(<<"time">> \o Minors) = 1 + Len(Minors) /\ (<<"time">> \o Minors)[1] = "time"
      /\ \A r \in 1..Len(Minors) : (<<"time">> \o Minors)[r + 1] = Minors[r]
  BY <1>1
<1> QED BY <1>2, <1>3 DEF C!Plan, C!Downloads

LEMMA SearchesAre ==
  /\ "users" \in C!Searches /\ "any" \in C!Searches
  /\ \A i \in 1..Len(Minors) : Minors[i] \in C!Searches /\ Minors[i] # "users" /\ Minors[i] # "any"
  /\ "deviceInfo" \notin C!Searches /\ "time" \notin C!Searches
  /\ "userCount" \notin C!Searches /\ "eventCount" \notin C!Searches
  /\ Len(Minors) \in Nat /\ DOMAIN Minors = 1..Len(Minors)
BY CallsAssumption, SearchAssumption DEF C!Searches, C!Kinds

LEMMA DueIs ==
  ASSUME recorder \in Recorders, NEW step \in StepNames, NEW past \in Nat
  PROVE  /\ C!Due(step, past) \in SUBSET Nat
         /\ \A n \in C!Due(step, past) :
               /\ step # "users" => n \in DOMAIN recorder.events
               /\ step \in C!Downloads => n > past
               /\ \E r \in 1..Len(C!Plan(step)) :
                     C!Plan(step)[r] \in C!Searches /\ n \in Asks(recorder, C!Plan(step)[r])
<1>1. recorder.users \in Nat /\ recorder.events \in Seq(STRING)
  BY DEF Recorders
<1>2. DOMAIN recorder.events \subseteq Nat
  BY <1>1
<1>3. CASE step = "users"
  <2>1. C!Due(step, past) = 1..recorder.users
    BY <1>3 DEF C!Due, C!Downloads
  <2>2. C!Plan(step) = <<"users">> /\ "users" \in C!Searches /\ step \notin C!Downloads
    BY <1>3, PlanIs, SearchesAre DEF C!Downloads
  <2>3. Asks(recorder, "users") = 1..recorder.users
    BY DEF Asks
  <2>4. 1 \in 1..Len(C!Plan(step)) /\ C!Plan(step)[1] = "users"
    BY <2>2
  <2> QED BY <1>1, <1>3, <2>1, <2>2, <2>3, <2>4
<1>4. CASE step = "events"
  <2>1. C!Due(step, past) = DOMAIN recorder.events
    BY <1>4 DEF C!Due, C!Serials, C!Downloads
  <2>2. C!Plan(step) = <<"any">> /\ "any" \in C!Searches /\ step \notin C!Downloads
    BY <1>4, PlanIs, SearchesAre DEF C!Downloads
  <2>3. Asks(recorder, "any") = DOMAIN recorder.events
    BY DEF Asks
  <2>4. 1 \in 1..Len(C!Plan(step)) /\ C!Plan(step)[1] = "any"
    BY <2>2
  <2> QED BY <1>2, <2>1, <2>2, <2>3, <2>4
<1>5. CASE step \in C!Downloads
  <2>1. C!Due(step, past) =
           {n \in DOMAIN recorder.events : n > past /\ recorder.events[n] \in C!Kinds}
    BY <1>5 DEF C!Due, C!Serials, C!Downloads
  <2>2. ASSUME NEW n \in DOMAIN recorder.events, recorder.events[n] \in C!Kinds
        PROVE  \E r \in 1..Len(C!Plan(step)) :
                  C!Plan(step)[r] \in C!Searches /\ n \in Asks(recorder, C!Plan(step)[r])
    <3>1. PICK i \in 1..Len(Minors) : Minors[i] = recorder.events[n]
      BY <2>2, SearchesAre DEF C!Kinds
    <3>2. PICK r \in 1..Len(C!Plan(step)) : r = i + 1
      BY <1>5, PlanIs, SearchesAre
    <3>3. C!Plan(step)[r] = Minors[i]
      BY <1>5, <3>2, PlanIs
    <3>4. n \in Asks(recorder, Minors[i]) /\ Minors[i] \in C!Searches
      BY <3>1, SearchesAre DEF Asks
    <3> QED BY <3>3, <3>4
  <2> QED BY <1>2, <1>5, <2>1, <2>2 DEF C!Downloads
<1>6. CASE step \in {"connect", "identity"}
  BY <1>6 DEF C!Due, C!Downloads
<1> QED BY <1>3, <1>4, <1>5, <1>6 DEF StepNames, C!Downloads

\* An operation that begins has found nothing and has its first request to make.
LEMMA AtIs ==
  ASSUME recorder \in Recorders, NEW step \in StepNames, NEW n \in Nat, NEW past \in Nat
  PROVE  \E k \in Tasks : /\ k = C!At(step, n, past) /\ k # None /\ Part(k, recorder)
                          /\ k.step = step /\ k.attempt = n /\ k.cursor = past
<1>1. PICK due \in SUBSET Nat :
         /\ due = C!Due(step, past)
         /\ \A m \in due :
               /\ step # "users" => m \in DOMAIN recorder.events
               /\ step \in C!Downloads => m > past
               /\ \E r \in 1..Len(C!Plan(step)) :
                     C!Plan(step)[r] \in C!Searches /\ m \in Asks(recorder, C!Plan(step)[r])
  BY DueIs
<1>2. PICK k : k = [step |-> step, attempt |-> n, cursor |-> past, request |-> 1, position |-> 0,
                    pages |-> 0, found |-> {}, due |-> due]
  OBVIOUS
<1>3. k = C!At(step, n, past)
  BY <1>1, <1>2 DEF C!At
<1>4. /\ k \in Tasks /\ k.step = step /\ k.attempt = n /\ k.cursor = past /\ k.request = 1
      /\ k.position = 0 /\ k.pages = 0 /\ k.found = {} /\ k.due = due
  BY <1>2 DEF Tasks
<1>5. k # None
  BY <1>4, CallsAssumption DEF Tasks, StepNames
<1>6. 1 \in 1..Len(C!Plan(step))
  BY PlanIs, SearchesAre DEF StepNames, C!Downloads
<1>7. /\ 0 < MaxPages /\ 0 * Share(recorder) <= 0
      /\ \A request : 0 <= Len(C!InOrder(Asks(recorder, request)))
  <2>1. \A request : Len(C!InOrder(Asks(recorder, request))) \in Nat
    BY AsksIs, InOrderIs
  <2>2. Share(recorder) \in Nat
    BY CallsAssumption DEF Recorders, Share
  <2> QED BY <2>1, <2>2, CallsAssumption
<1>8. Part(k, recorder)
  BY <1>1, <1>4, <1>6, <1>7 DEF Part
<1> QED BY <1>3, <1>4, <1>5, <1>8

\* The cursor after a download is a number of what was downloaded.
LEMMA CursorIs ==
  ASSUME task \in Tasks, NEW news \in SUBSET Nat, NEW bound \in Nat,
         task.step \in C!Downloads => \A n \in news : n <= bound
  PROVE  C!Advanced(news) \in Nat
<1>1. task.cursor \in Nat
  BY DEF Tasks
<1>2. CASE task.step \notin C!Downloads \/ news = {}
  BY <1>1, <1>2 DEF C!Advanced
<1>3. CASE ~(task.step \notin C!Downloads \/ news = {})
  <2>1. H!Highest(news) \in news
    BY <1>3, HighestIs
  <2>2. C!Advanced(news) = H!Highest(news)
    BY <1>3 DEF C!Advanced, H!Highest
  <2> QED BY <2>1, <2>2
<1> QED BY <1>2, <1>3

LEMMA StepsAre ==
  /\ DOMAIN C!Steps = 1..7 /\ \A k \in 1..7 : C!Steps[k] \in RowNames
  /\ \A name \in RowNames : \E k \in 1..7 : C!Steps[k] = name
  /\ \A k, j \in 1..7 : C!Steps[k] = C!Steps[j] => k = j
<1>1. \A k \in 1..7 : k = 1 \/ k = 2 \/ k = 3 \/ k = 4 \/ k = 5 \/ k = 6 \/ k = 7
  OBVIOUS
<1>2. /\ C!Steps[1] = "connect" /\ C!Steps[2] = "identity" /\ C!Steps[3] = "clock"
      /\ C!Steps[4] = "users" /\ C!Steps[5] = "download" /\ C!Steps[6] = "incremental"
      /\ C!Steps[7] = "events" /\ DOMAIN C!Steps = 1..7
  BY DEF C!Steps
<1>3. \A k, j \in 1..7 : C!Steps[k] = C!Steps[j] => k = j
  BY <1>1, <1>2
<1>4. \A k \in 1..7 : C!Steps[k] \in RowNames
  BY <1>1, <1>2 DEF RowNames, StepNames
<1>5. \A name \in RowNames : \E k \in 1..7 : C!Steps[k] = name
  BY <1>2 DEF RowNames, StepNames
<1> QED BY <1>2, <1>3, <1>4, <1>5

\* A report with the steps that are missing has each of them once.
LEMMA SkippedIs ==
  ASSUME NEW rows \in Seq(Rows), \A i, j \in DOMAIN rows : rows[i].step = rows[j].step => i = j
  PROVE  \E rest \in Seq(Rows) :
            /\ rest = C!Skipped(rows) /\ \A i \in DOMAIN rest : rest[i].status = "skipped"
            /\ Reported(rows \o rest, RowNames)
            /\ (\A name \in RowNames : \E i \in DOMAIN rows : rows[i].step = name) => rest = <<>>
<1>1. PICK missed \in SUBSET (1..7) :
         missed = {k \in 1..7 : \A i \in DOMAIN rows : rows[i].step # C!Steps[k]}
  OBVIOUS
<1>2. missed \in SUBSET Nat /\ IsFiniteSet(missed)
  <2>1. PICK most \in Nat : most = 7
    OBVIOUS
  <2>2. IsFiniteSet(1..most)
    BY FS_Interval
  <2>3. missed \in SUBSET (1..most)
    BY <2>1
  <2>4. missed \in SUBSET Nat
    BY <2>3
  <2> QED BY <2>2, <2>3, <2>4, FS_Subset
<1>3. PICK q : q = C!InOrder(missed)
  OBVIOUS
<1>4. PICK n \in Nat :
         /\ n = Len(q) /\ DOMAIN q = 1..n /\ \A i \in 1..n : q[i] \in missed
         /\ \A k \in missed : \E i \in 1..n : q[i] = k
         /\ \A i, j \in 1..n : q[i] = q[j] => i = j
         /\ missed = {} => n = 0
  <2>1. missed = {} => Cardinality(missed) = 0
    BY FS_EmptySet
  <2>2. /\ q \in Seq(missed) /\ Len(q) = Cardinality(missed) /\ Cardinality(missed) \in Nat
        /\ \A k \in missed : \E i \in 1..Cardinality(missed) : q[i] = k
        /\ \A i, j \in 1..Cardinality(missed) : q[i] = q[j] => i = j
    BY <1>2, <1>3, InOrderIs
  <2>3. PICK n \in Nat : n = Len(q)
    BY <2>2
  <2>4. DOMAIN q = 1..n /\ \A i \in 1..n : q[i] \in missed
    BY <2>2, <2>3
  <2> QED BY <2>1, <2>2, <2>3, <2>4
<1>5. PICK rest : rest = [i \in 1..n |-> C!Entry(C!Steps[q[i]], "skipped")]
  OBVIOUS
<1>6. rest = C!Skipped(rows)
  BY <1>1, <1>3, <1>4, <1>5, StepsAre DEF C!Skipped
<1>7. \A i \in 1..n : /\ rest[i] \in Rows /\ rest[i].status = "skipped"
                      /\ rest[i].step = C!Steps[q[i]] /\ q[i] \in 1..7
  <2> SUFFICES ASSUME NEW i \in 1..n
               PROVE  /\ rest[i] \in Rows /\ rest[i].status = "skipped"
                      /\ rest[i].step = C!Steps[q[i]] /\ q[i] \in 1..7
    OBVIOUS
  <2>1. q[i] \in 1..7
    BY <1>1, <1>4
  <2>2. rest[i] = [step |-> C!Steps[q[i]], status |-> "skipped", due |-> {}, got |-> {}]
    BY <1>5 DEF C!Entry
  <2>3. C!Steps[q[i]] \in RowNames
    BY <2>1, StepsAre
  <2> QED BY <2>1, <2>2, <2>3 DEF Rows
<1>8. rest \in Seq(Rows) /\ Len(rest) = n /\ DOMAIN rest = 1..n
  BY <1>5, <1>7
<1>9. PICK m \in Nat : m = Len(rows) /\ DOMAIN rows = 1..m
  OBVIOUS
<1>10. PICK all : all = rows \o rest
  OBVIOUS
<1>11. /\ DOMAIN all = 1..(m + n)
       /\ \A i \in 1..m : all[i] = rows[i]
       /\ \A i \in 1..n : all[m + i] = rest[i]
  <2>1. all \in Seq(Rows) /\ Len(all) = Len(rows) + Len(rest)
    BY <1>8, <1>10, ConcatProperties
  <2>2. DOMAIN all = 1..(m + n)
    BY <1>8, <1>9, <2>1
  <2>3. \A i \in 1..(m + n) : all[i] = IF i <= m THEN rows[i] ELSE rest[i - m]
    BY <1>8, <1>9, <1>10, ConcatProperties
  <2>4. \A i \in 1..n : m + i \in 1..(m + n) /\ ~(m + i <= m) /\ (m + i) - m = i
    OBVIOUS
  <2>5. \A i \in 1..m : i \in 1..(m + n) /\ i <= m
    OBVIOUS
  <2> QED BY <2>2, <2>3, <2>4, <2>5
<1>12. \A i \in 1..(m + n) : i \in 1..m \/ \E j \in 1..n : i = m + j
  <2> SUFFICES ASSUME NEW i \in 1..(m + n), i \notin 1..m PROVE \E j \in 1..n : i = m + j
    OBVIOUS
  <2>1. i - m \in 1..n /\ i = m + (i - m)
    OBVIOUS
  <2> QED BY <2>1
<1>13. \A i \in DOMAIN rows : rows[i].step \in RowNames
  <2>1. \A i \in DOMAIN rows : rows[i] \in Rows
    OBVIOUS
  <2> QED BY <2>1 DEF Rows
<1>14. ASSUME NEW i \in 1..(m + n) PROVE all[i].step \in RowNames
  <2>1. CASE i \in 1..m
    BY <1>9, <1>11, <1>13, <2>1
  <2>2. CASE i \notin 1..m
    <3>1. PICK j \in 1..n : i = m + j
      BY <1>12, <2>2
    <3>2. all[i].step = C!Steps[q[j]] /\ q[j] \in 1..7
      BY <1>7, <1>11, <3>1
    <3> QED BY <3>2, StepsAre
  <2> QED BY <2>1, <2>2
<1>15. ASSUME NEW name \in RowNames PROVE \E i \in 1..(m + n) : all[i].step = name
  <2>1. PICK k \in 1..7 : C!Steps[k] = name
    BY StepsAre
  <2>2. CASE k \in missed
    <3>1. PICK i \in 1..n : q[i] = k
      BY <1>4, <2>2
    <3>2. m + i \in 1..(m + n)
      BY <1>4, <1>9
    <3>3. all[m + i].step = name
      BY <1>7, <1>11, <2>1, <3>1
    <3> QED BY <3>2, <3>3
  <2>3. CASE k \notin missed
    <3>1. PICK i \in 1..m : rows[i].step = name
      BY <1>1, <1>9, <2>1, <2>3
    <3> QED BY <1>11, <3>1
  <2> QED BY <2>2, <2>3
<1>16. ASSUME NEW i \in 1..m, NEW j \in 1..n PROVE all[i].step # all[m + j].step
  <2>1. all[i].step = rows[i].step /\ all[m + j].step = C!Steps[q[j]] /\ q[j] \in missed
    BY <1>4, <1>7, <1>11
  <2> QED BY <1>1, <1>9, <2>1
<1>17. ASSUME NEW i \in 1..(m + n), NEW j \in 1..(m + n), all[i].step = all[j].step PROVE i = j
  <2>1. CASE i \in 1..m /\ j \in 1..m
    BY <1>9, <1>11, <1>17, <2>1
  <2>2. CASE i \in 1..m /\ j \notin 1..m
    BY <1>12, <1>16, <1>17, <2>2
  <2>3. CASE i \notin 1..m /\ j \in 1..m
    BY <1>12, <1>16, <1>17, <2>3
  <2>4. CASE i \notin 1..m /\ j \notin 1..m
    <3>1. PICK a \in 1..n, b \in 1..n : i = m + a /\ j = m + b
      BY <1>12, <2>4
    <3>2. C!Steps[q[a]] = C!Steps[q[b]] /\ q[a] \in 1..7 /\ q[b] \in 1..7
      BY <1>7, <1>11, <1>17, <3>1
    <3>3. q[a] = q[b]
      BY <3>2, StepsAre
    <3> QED BY <1>4, <3>1, <3>3
  <2> QED BY <2>1, <2>2, <2>3, <2>4
<1>18. Reported(all, RowNames)
  BY <1>11, <1>14, <1>15, <1>17 DEF Reported
<1>19. ASSUME \A name \in RowNames : \E i \in DOMAIN rows : rows[i].step = name PROVE rest = <<>>
  <2>1. missed = {}
    BY <1>1, <1>19, StepsAre
  <2> QED BY <1>4, <1>8, <2>1
<1> QED BY <1>6, <1>7, <1>8, <1>10, <1>18, <1>19

\* An entry is added to a report.
LEMMA EntryAdded ==
  ASSUME NEW rows \in Seq(Rows), NEW entry \in Rows
  PROVE  \E all \in Seq(Rows) :
            /\ all = rows \o <<entry>>
            /\ Whole(rows) /\ (entry.status \in {"ok", "warn"} => entry.due \subseteq entry.got)
               => Whole(all)
            /\ Well(rows) /\ entry.status \in {"ok", "warn"} => Well(all)
            /\ \A names : Reported(rows, names) /\ entry.step \notin names
                          => Reported(all, names \cup {entry.step})
<1>1. PICK m \in Nat : m = Len(rows) /\ DOMAIN rows = 1..m
  OBVIOUS
<1>2. PICK all : all = rows \o <<entry>>
  OBVIOUS
<1>3. <<entry>> \in Seq(Rows) /\ Len(<<entry>>) = 1 /\ <<entry>>[1] = entry
  OBVIOUS
<1>4. all \in Seq(Rows) /\ Len(all) = m + 1
  BY <1>1, <1>2, <1>3, ConcatProperties
<1>5. DOMAIN all = 1..(m + 1)
  BY <1>1, <1>4
<1>6. \A i \in 1..(m + 1) : all[i] = IF i <= m THEN rows[i] ELSE <<entry>>[i - m]
  BY <1>1, <1>2, <1>3, ConcatProperties
<1>7. /\ \A i \in 1..m : i \in 1..(m + 1) /\ i <= m
      /\ \A i \in 1..(m + 1) : i \in 1..m \/ i = m + 1
      /\ m + 1 \in 1..(m + 1) /\ ~(m + 1 <= m) /\ (m + 1) - m = 1 /\ m + 1 \notin 1..m
  OBVIOUS
<1>8. (\A i \in 1..m : all[i] = rows[i]) /\ all[m + 1] = entry
  BY <1>3, <1>6, <1>7
<1>9. ASSUME Whole(rows), entry.status \in {"ok", "warn"} => entry.due \subseteq entry.got
      PROVE  Whole(all)
  BY <1>1, <1>5, <1>7, <1>8, <1>9 DEF Whole
<1>10. ASSUME Well(rows), entry.status \in {"ok", "warn"} PROVE Well(all)
  BY <1>1, <1>5, <1>7, <1>8, <1>10 DEF Well
<1>11. ASSUME NEW names, Reported(rows, names), entry.step \notin names
       PROVE  Reported(all, names \cup {entry.step})
  <2>1. \A i \in 1..m : rows[i].step \in names
    BY <1>1, <1>11 DEF Reported
  <2>2. \A i \in DOMAIN all : all[i].step \in names \cup {entry.step}
    BY <1>5, <1>7, <1>8, <2>1
  <2>3. \A name \in names \cup {entry.step} : \E i \in DOMAIN all : all[i].step = name
    <3> SUFFICES ASSUME NEW name \in names \cup {entry.step}
                 PROVE  \E i \in DOMAIN all : all[i].step = name
      OBVIOUS
    <3>1. CASE name \in names
      <4>1. PICK i \in 1..m : rows[i].step = name
        BY <1>1, <1>11, <3>1 DEF Reported
      <4> QED BY <1>5, <1>7, <1>8, <4>1
    <3>2. CASE name = entry.step
      BY <1>5, <1>7, <1>8, <3>2
    <3> QED BY <3>1, <3>2
  <2>4. ASSUME NEW i \in DOMAIN all, NEW j \in DOMAIN all, all[i].step = all[j].step
        PROVE  i = j
    <3>1. CASE i \in 1..m /\ j \in 1..m
      <4>1. rows[i].step = rows[j].step
        BY <1>8, <2>4, <3>1
      <4> QED BY <1>1, <1>11, <3>1, <4>1 DEF Reported
    <3>2. CASE i \in 1..m /\ j = m + 1
      BY <1>8, <1>11, <2>1, <2>4, <3>2
    <3>3. CASE i = m + 1 /\ j \in 1..m
      BY <1>8, <1>11, <2>1, <2>4, <3>3
    <3> QED BY <1>5, <1>7, <3>1, <3>2, <3>3
  <2> QED BY <2>2, <2>3, <2>4 DEF Reported
<1> QED BY <1>2, <1>4, <1>9, <1>10, <1>11

\* What is reported of an operation when it has ended.
LEMMA NotedIs ==
  ASSUME CallsInv, task # None, NEW entry \in Rows, entry.step = task.step,
         entry.status \in {"ok", "warn"} => entry.due \subseteq entry.got
  PROVE  \E all \in Seq(Rows) :
            /\ all = C!Noted(entry) /\ Whole(all)
            /\ Well(report.entries) /\ entry.status = "ok" => Well(all)
            /\ Well(report.entries) /\ task.step # "identity" /\ entry.status = "warn" => Well(all)
            /\ report.by = "probe" =>
                  /\ task.step # "events" => Reported(all, Earlier(C!ProbeNext[task.step]))
                  /\ task.step = "events" => Reported(all, RowNames)
<1>1. /\ report \in Reports /\ task \in Tasks /\ Whole(report.entries)
      /\ report.by = "probe" => Reported(report.entries, Earlier(task.step))
  BY DEF CallsInv, CallsState, Underway
<1>2. report.entries \in Seq(Rows) /\ task.step \in StepNames
  BY <1>1 DEF Reports, Tasks
<1>3. CASE report.by = "probe" /\ task.step = "identity"
  <2>1. PICK clockEntry \in Rows :
           /\ clockEntry = C!Entry("clock", IF entry.status = "ok" THEN "ok" ELSE "skipped")
           /\ clockEntry.step = "clock" /\ clockEntry.due = {}
           /\ entry.status = "ok" => clockEntry.status = "ok"
    <3>1. PICK status : status = IF entry.status = "ok" THEN "ok" ELSE "skipped"
      OBVIOUS
    <3>2. C!Entry("clock", status) = [step |-> "clock", status |-> status, due |-> {}, got |-> {}]
      BY DEF C!Entry
    <3>3. C!Entry("clock", status) \in Rows
      BY <3>1, <3>2 DEF Rows, RowNames
    <3> QED BY <3>1, <3>2, <3>3
  <2>2. PICK some \in Seq(Rows) :
           /\ some = report.entries \o <<clockEntry>> /\ Whole(some)
           /\ Well(report.entries) /\ entry.status = "ok" => Well(some)
           /\ Reported(some, {"connect"} \cup {"clock"})
    <3>1. Reported(report.entries, {"connect"})
      BY <1>1, <1>3 DEF Earlier
    <3>2. "clock" \notin {"connect"}
      OBVIOUS
    <3>3. PICK some \in Seq(Rows) :
             /\ some = report.entries \o <<clockEntry>>
             /\ Whole(report.entries)
                /\ (clockEntry.status \in {"ok", "warn"} => clockEntry.due \subseteq clockEntry.got)
                => Whole(some)
             /\ Well(report.entries) /\ clockEntry.status \in {"ok", "warn"} => Well(some)
             /\ \A names : Reported(report.entries, names) /\ clockEntry.step \notin names
                           => Reported(some, names \cup {clockEntry.step})
      BY <1>2, EntryAdded
    <3>4. Reported(some, {"connect"} \cup {"clock"})
      BY <2>1, <3>1, <3>2, <3>3
    <3> QED BY <1>1, <2>1, <3>3, <3>4
  <2>3. PICK all \in Seq(Rows) :
           /\ all = some \o <<entry>>
           /\ Whole(some) /\ (entry.status \in {"ok", "warn"} => entry.due \subseteq entry.got)
              => Whole(all)
           /\ Well(some) /\ entry.status \in {"ok", "warn"} => Well(all)
           /\ \A names : Reported(some, names) /\ entry.step \notin names
                         => Reported(all, names \cup {entry.step})
    BY EntryAdded
  <2>4. all = C!Noted(entry)
    <3>1. C!Noted(entry) = report.entries \o <<clockEntry, entry>>
      BY <1>3, <2>1 DEF C!Noted
    <3>2. (report.entries \o <<clockEntry>>) \o <<entry>> = report.entries \o <<clockEntry, entry>>
      <4>1. <<clockEntry>> \in Seq(Rows) /\ <<entry>> \in Seq(Rows)
        OBVIOUS
      <4>2. (report.entries \o <<clockEntry>>) \o <<entry>>
            = report.entries \o (<<clockEntry>> \o <<entry>>)
        BY <1>2, <4>1, ConcatAssociative
      <4>3. <<clockEntry>> \o <<entry>> = <<clockEntry, entry>>
        <5>1. /\ <<clockEntry>> \o <<entry>> \in Seq(Rows) /\ Len(<<clockEntry>> \o <<entry>>) = 2
              /\ \A i \in 1..2 : (<<clockEntry>> \o <<entry>>)[i]
                                = IF i <= 1 THEN <<clockEntry>>[i] ELSE <<entry>>[i - 1]
          BY <4>1, ConcatProperties
        <5>2. <<clockEntry, entry>> \in Seq(Rows) /\ Len(<<clockEntry, entry>>) = 2
          OBVIOUS
        <5>3. \A i \in 1..2 : (<<clockEntry>> \o <<entry>>)[i] = <<clockEntry, entry>>[i]
          BY <5>1
        <5> QED BY <5>1, <5>2, <5>3, SeqEqual
      <4> QED BY <4>2, <4>3
    <3> QED BY <2>2, <2>3, <3>1, <3>2
  <2>5. Reported(all, Earlier("users"))
    <3>1. "identity" \notin {"connect"} \cup {"clock"}
      OBVIOUS
    <3>2. Reported(all, ({"connect"} \cup {"clock"}) \cup {"identity"})
      BY <1>3, <2>2, <2>3, <3>1
    <3>3. ({"connect"} \cup {"clock"}) \cup {"identity"} = Earlier("users")
      BY DEF Earlier
    <3> QED BY <3>2, <3>3
  <2>6. C!ProbeNext[task.step] = "users"
    BY <1>3 DEF C!ProbeNext
  <2> QED BY <1>3, <2>2, <2>3, <2>4, <2>5, <2>6
<1>4. CASE ~(report.by = "probe" /\ task.step = "identity")
  <2>1. PICK all \in Seq(Rows) :
           /\ all = report.entries \o <<entry>>
           /\ Whole(report.entries)
              /\ (entry.status \in {"ok", "warn"} => entry.due \subseteq entry.got) => Whole(all)
           /\ Well(report.entries) /\ entry.status \in {"ok", "warn"} => Well(all)
           /\ \A names : Reported(report.entries, names) /\ entry.step \notin names
                         => Reported(all, names \cup {entry.step})
    BY <1>2, EntryAdded
  <2>2. all = C!Noted(entry)
    BY <1>4, <2>1 DEF C!Noted
  <2>3. ASSUME report.by = "probe", task.step = "connect" PROVE Reported(all, Earlier("identity"))
    <3>1. Reported(all, {} \cup {"connect"})
      BY <1>1, <2>1, <2>3 DEF Earlier
    <3>2. {} \cup {"connect"} = Earlier("identity")
      BY DEF Earlier
    <3> QED BY <3>1, <3>2
  <2>4. ASSUME report.by = "probe", task.step = "users" PROVE Reported(all, Earlier("download"))
    <3>1. Reported(report.entries, Earlier("users")) /\ "users" \notin Earlier("users")
      BY <1>1, <2>4 DEF Earlier
    <3>2. Reported(all, Earlier("users") \cup {"users"})
      BY <2>1, <2>4, <3>1
    <3>3. Earlier("users") \cup {"users"} = Earlier("download")
      BY DEF Earlier
    <3> QED BY <3>2, <3>3
  <2>5. ASSUME report.by = "probe", task.step = "download" PROVE Reported(all, Earlier("incremental"))
    <3>1. Reported(report.entries, Earlier("download")) /\ "download" \notin Earlier("download")
      BY <1>1, <2>5 DEF Earlier
    <3>2. Reported(all, Earlier("download") \cup {"download"})
      BY <2>1, <2>5, <3>1
    <3>3. Earlier("download") \cup {"download"} = Earlier("incremental")
      BY DEF Earlier
    <3> QED BY <3>2, <3>3
  <2>6. ASSUME report.by = "probe", task.step = "incremental" PROVE Reported(all, Earlier("events"))
    <3>1. /\ Reported(report.entries, Earlier("incremental"))
          /\ "incremental" \notin Earlier("incremental")
      BY <1>1, <2>6 DEF Earlier
    <3>2. Reported(all, Earlier("incremental") \cup {"incremental"})
      BY <2>1, <2>6, <3>1
    <3>3. Earlier("incremental") \cup {"incremental"} = Earlier("events")
      BY DEF Earlier, RowNames, StepNames
    <3> QED BY <3>2, <3>3
  <2>7. ASSUME report.by = "probe", task.step = "events" PROVE Reported(all, RowNames)
    <3>1. Reported(report.entries, Earlier("events")) /\ "events" \notin Earlier("events")
      BY <1>1, <2>7 DEF Earlier
    <3>2. Reported(all, Earlier("events") \cup {"events"})
      BY <2>1, <2>7, <3>1
    <3>3. Earlier("events") \cup {"events"} = RowNames
      BY DEF Earlier, RowNames, StepNames
    <3> QED BY <3>2, <3>3
  <2>8. /\ C!ProbeNext["connect"] = "identity" /\ C!ProbeNext["users"] = "download"
        /\ C!ProbeNext["download"] = "incremental" /\ C!ProbeNext["incremental"] = "events"
    BY DEF C!ProbeNext
  <2>9. report.by = "probe" =>
           /\ task.step # "events" => Reported(all, Earlier(C!ProbeNext[task.step]))
           /\ task.step = "events" => Reported(all, RowNames)
    <3> SUFFICES ASSUME report.by = "probe"
                 PROVE  /\ task.step # "events" => Reported(all, Earlier(C!ProbeNext[task.step]))
                        /\ task.step = "events" => Reported(all, RowNames)
      OBVIOUS
    <3>1. task.step \in {"connect", "users", "download", "incremental", "events"}
      BY <1>2, <1>4 DEF StepNames
    <3>2. task.step = "connect" => Reported(all, Earlier(C!ProbeNext[task.step]))
      BY <2>3, <2>8
    <3>3. task.step = "users" => Reported(all, Earlier(C!ProbeNext[task.step]))
      BY <2>4, <2>8
    <3>4. task.step = "download" => Reported(all, Earlier(C!ProbeNext[task.step]))
      BY <2>5, <2>8
    <3>5. task.step = "incremental" => Reported(all, Earlier(C!ProbeNext[task.step]))
      BY <2>6, <2>8
    <3> QED BY <2>7, <3>1, <3>2, <3>3, <3>4, <3>5
  <2> QED BY <1>1, <2>1, <2>2, <2>9
<1> QED BY <1>3, <1>4

\* What a report shows when a task goes on or ends.
Sound(rows, kept) ==
    /\ rows \in Seq(Rows) /\ kept \in Reports /\ kept.by = report.by /\ kept.refused <= 1
    /\ Whole(rows) /\ (Fine(recorder, kept) => Well(rows))

\* A task that ends with such a report: nothing missing if nothing went wrong, and every step there.
LEMMA EndKeeps ==
  ASSUME CallsInv, recorder' = recorder, saved' \in Nat,
         NEW rows, NEW kept, Sound(rows, kept), NEW still \in HikAdapters,
         ~recorder.known => ~still.connected,
         report.by = "probe" =>
            /\ \A i, j \in DOMAIN rows : rows[i].step = rows[j].step => i = j
            /\ Fine(recorder, kept) => Reported(rows, RowNames),
         C!End(rows, kept, still)
  PROVE  CallsInv'
<1>1. rows \in Seq(Rows) /\ kept \in Reports /\ kept.by = report.by /\ kept.refused <= 1
  BY DEF Sound
<1>2. PICK all \in Seq(Rows) :
         /\ all = IF report.by = "probe" THEN rows \o C!Skipped(rows) ELSE rows
         /\ Whole(all) /\ (Fine(recorder, kept) => Well(all))
         /\ report.by = "probe" => Reported(all, RowNames)
  <2>1. CASE report.by # "probe"
    BY <1>1, <2>1 DEF Sound
  <2>2. CASE report.by = "probe"
    <3>1. PICK rest \in Seq(Rows) :
             /\ rest = C!Skipped(rows) /\ \A i \in DOMAIN rest : rest[i].status = "skipped"
             /\ Reported(rows \o rest, RowNames)
             /\ (\A name \in RowNames : \E i \in DOMAIN rows : rows[i].step = name) => rest = <<>>
      BY <1>1, <2>2, SkippedIs
    <3>2. PICK all \in Seq(Rows) : all = rows \o rest
      BY <1>1, <3>1, ConcatProperties
    <3>3. \A i \in DOMAIN all : \/ \E j \in DOMAIN rows : all[i] = rows[j]
                                \/ \E j \in DOMAIN rest : all[i] = rest[j]
      <4> SUFFICES ASSUME NEW i \in DOMAIN all
                   PROVE  \/ \E j \in DOMAIN rows : all[i] = rows[j]
                          \/ \E j \in DOMAIN rest : all[i] = rest[j]
        OBVIOUS
      <4>1. PICK m \in Nat, n \in Nat :
               /\ m = Len(rows) /\ DOMAIN rows = 1..m /\ n = Len(rest) /\ DOMAIN rest = 1..n
        BY <1>1, <3>1
      <4>2. Len(all) = m + n /\ DOMAIN all = 1..Len(all)
        BY <1>1, <3>1, <3>2, <4>1, ConcatProperties
      <4>3. all[i] = IF i <= m THEN rows[i] ELSE rest[i - m]
        BY <1>1, <3>1, <3>2, <4>1, <4>2, ConcatProperties
      <4>4. i \in Nat /\ i >= 1 /\ i <= m + n
        BY <4>1, <4>2
      <4>5. CASE i <= m
        BY <4>1, <4>3, <4>4, <4>5
      <4>6. CASE ~(i <= m)
        <5>1. i - m \in 1..n
          BY <4>1, <4>4, <4>6
        <5> QED BY <4>1, <4>3, <4>6, <5>1
      <4> QED BY <4>5, <4>6
    <3>4. Whole(all)
      <4>1. Whole(rows)
        BY DEF Sound
      <4>2. \A i \in DOMAIN rest : rest[i].status \notin {"ok", "warn"}
        BY <3>1
      <4> QED BY <3>3, <4>1, <4>2 DEF Whole
    <3>5. Fine(recorder, kept) => Well(all)
      <4> SUFFICES ASSUME Fine(recorder, kept) PROVE Well(all)
        OBVIOUS
      <4>1. Well(rows) /\ rest = <<>>
        BY <2>2, <3>1 DEF Sound, Reported
      <4>2. all = rows
        BY <1>1, <3>2, <4>1, ConcatEmptySeq
      <4> QED BY <4>1, <4>2
    <3> QED BY <2>2, <3>1, <3>2, <3>4, <3>5
  <2> QED BY <2>1, <2>2
<1>3. PICK p \in Reports :
         /\ p = [kept EXCEPT !.entries = all]
         /\ p.by = report.by /\ p.entries = all /\ p.refused <= 1
         /\ p.lost = kept.lost /\ p.garbled = kept.garbled
  <2>1. PICK p : p = [kept EXCEPT !.entries = all]
    OBVIOUS
  <2>2. /\ p \in Reports /\ p.by = kept.by /\ p.entries = all /\ p.refused = kept.refused
        /\ p.lost = kept.lost /\ p.garbled = kept.garbled
    BY <1>1, <1>2, <2>1 DEF Reports
  <2> QED BY <1>1, <2>1, <2>2
<1>4. report' = p /\ task' = None
  BY <1>2, <1>3 DEF C!End
<1>5. PICK a \in HikAdapters :
         a = [still EXCEPT !.connected = @ /\ report.by # "probe"] /\ (a.connected => still.connected)
  <2>1. PICK a : a = [still EXCEPT !.connected = @ /\ report.by # "probe"]
    OBVIOUS
  <2>2. a \in HikAdapters /\ a.connected = (still.connected /\ report.by # "probe")
    BY <2>1 DEF HikAdapters
  <2> QED BY <2>1, <2>2
<1>6. adapter' = a
  BY <1>5 DEF C!End
<1>7. Fine(recorder, p) => Well(p.entries)
  BY <1>1, <1>2, <1>3 DEF Fine
<1>8. recorder \in Recorders
  BY DEF CallsInv, CallsState
<1>9. CallsState(recorder, a, None, p, saved')
  BY <1>2, <1>3, <1>5, <1>7, <1>8 DEF CallsState
<1> QED BY <1>4, <1>6, <1>9 DEF CallsInv

\* A task that goes on with another operation.
LEMMA GoOnKeeps ==
  ASSUME CallsInv, task # None, recorder' = recorder, saved' \in Nat, recorder.known,
         NEW rows, NEW kept, Sound(rows, kept), kept.refused = 0, NEW still \in HikAdapters,
         NEW next \in StepNames \ {"connect"}, NEW past \in Nat,
         ~still.connected => report.by = "probe" /\ kept.lost >= 1,
         report.by = "probe" => Reported(rows, Earlier(next)),
         report.by = "sync" => next \in {"identity", "incremental"} /\ kept.lost = task.attempt - 1,
         report.by = "test" => next = "identity",
         C!GoOn(next, rows, past, kept, still)
  PROVE  CallsInv'
<1>1. rows \in Seq(Rows) /\ kept \in Reports /\ kept.by = report.by
  BY DEF Sound
<1>2. /\ recorder \in Recorders /\ task \in Tasks /\ task.attempt \in Nat
      /\ report.by = "sync" => task.attempt <= Attempts
  BY DEF CallsInv, CallsState, Underway, Tasks
<1>3. next # None
  BY CallsAssumption DEF StepNames
<1>4. PICK k \in Tasks : /\ k = C!At(next, task.attempt, past) /\ k # None /\ Part(k, recorder)
                         /\ k.step = next /\ k.attempt = task.attempt /\ k.cursor = past
  BY <1>2, AtIs
<1>5. PICK p \in Reports :
         /\ p = [kept EXCEPT !.entries = rows]
         /\ p.by = report.by /\ p.entries = rows /\ p.refused = 0
         /\ p.lost = kept.lost /\ p.garbled = kept.garbled
  <2>1. PICK p : p = [kept EXCEPT !.entries = rows]
    OBVIOUS
  <2>2. /\ p \in Reports /\ p.by = kept.by /\ p.entries = rows /\ p.refused = kept.refused
        /\ p.lost = kept.lost /\ p.garbled = kept.garbled
    BY <1>1, <2>1 DEF Reports
  <2> QED BY <1>1, <2>1, <2>2
<1>6. task' = k /\ report' = p /\ adapter' = still
  BY <1>3, <1>4, <1>5 DEF C!GoOn
<1>7. Whole(p.entries) /\ (Fine(recorder, p) => Well(p.entries))
  BY <1>1, <1>5 DEF Sound, Fine
<1>8. Underway(k, recorder, still, p)
  BY <1>2, <1>4, <1>5 DEF Underway
<1>9. CallsState(recorder, still, k, p, saved')
  BY <1>2, <1>4, <1>5, <1>7, <1>8 DEF CallsState
<1> QED BY <1>6, <1>9 DEF CallsInv

LEMMA ProbeNextIs ==
  /\ \A step \in StepNames \ {"events"} : C!ProbeNext[step] \in StepNames \ {"connect"}
  /\ C!ProbeNext["events"] = None
BY DEF C!ProbeNext, StepNames

\* An operation that found what it had to return.
LEMMA SucceedKeeps ==
  ASSUME CallsInv, task # None, recorder' = recorder, recorder.known,
         NEW found \in SUBSET Nat, task.step \in C!Downloads => found \subseteq DOMAIN recorder.events,
         task.due \subseteq C!Got(found), NEW still \in HikAdapters, still.connected,
         C!Succeed(found, report, still)
  PROVE  CallsInv'
<1>1. /\ recorder \in Recorders /\ task \in Tasks /\ task.step \in StepNames
      /\ task.due \in SUBSET Nat /\ report \in Reports /\ saved \in Nat
      /\ report.by \in {"probe", "sync", "test"} /\ Underway(task, recorder, adapter, report)
  BY DEF CallsInv, CallsState, Tasks, Reports
<1>2. PICK news \in SUBSET Nat :
         news = C!Got(found) /\ (task.step \in C!Downloads => news \subseteq DOMAIN recorder.events)
  BY DEF C!Got
<1>3. PICK past \in Nat : past = C!Advanced(news)
  <2>1. PICK bound \in Nat : DOMAIN recorder.events = 1..bound
    BY <1>1 DEF Recorders
  <2>2. task.step \in C!Downloads => \A n \in news : n <= bound
    BY <1>2, <2>1
  <2> QED BY <1>1, <2>1, <2>2, CursorIs
<1>4. PICK status \in {"ok", "warn"} :
         status = C!Status(news) /\ (task.step = "identity" => status = "ok")
  BY <1>1 DEF C!Status, StepNames
<1>5. PICK entry \in Rows :
         /\ entry = [step |-> task.step, status |-> C!Status(news), due |-> task.due, got |-> news]
         /\ entry.step = task.step /\ entry.status = status /\ entry.due \subseteq entry.got
  <2>1. PICK entry : entry = [step |-> task.step, status |-> status, due |-> task.due, got |-> news]
    OBVIOUS
  <2>2. entry \in Rows
    BY <1>1, <2>1 DEF Rows, RowNames
  <2> QED BY <1>2, <1>4, <2>1, <2>2
<1>6. PICK rows \in Seq(Rows) :
         /\ rows = C!Noted(entry) /\ Whole(rows)
         /\ Well(report.entries) /\ entry.status = "ok" => Well(rows)
         /\ Well(report.entries) /\ task.step # "identity" /\ entry.status = "warn" => Well(rows)
         /\ report.by = "probe" =>
               /\ task.step # "events" => Reported(rows, Earlier(C!ProbeNext[task.step]))
               /\ task.step = "events" => Reported(rows, RowNames)
  BY <1>5, NotedIs
<1>7. Sound(rows, report)
  <2>1. Fine(recorder, report) => Well(report.entries)
    BY DEF CallsInv, CallsState
  <2>2. Fine(recorder, report) => Well(rows)
    BY <1>4, <1>5, <1>6, <2>1
  <2> QED BY <1>1, <1>6, <2>2 DEF Sound, Underway
<1>8. saved' \in Nat
  BY <1>1, <1>2, <1>3 DEF C!Succeed
<1>9. PICK following : following = IF report.by = "probe" THEN C!ProbeNext ELSE C!PlatformNext
  OBVIOUS
<1>10. C!GoOn(following[task.step], rows, past, report, still)
  BY <1>2, <1>3, <1>5, <1>6, <1>9 DEF C!Succeed
<1>11. CASE following[task.step] = None
  <2>1. C!End(rows, report, still)
    BY <1>10, <1>11 DEF C!GoOn
  <2>2. report.by = "probe" => task.step = "events"
    <3>1. None \notin StepNames \ {"connect"}
      BY CallsAssumption DEF StepNames
    <3> QED BY <1>1, <1>9, <1>11, <3>1, ProbeNextIs
  <2>3. report.by = "probe" => Reported(rows, RowNames)
    BY <1>6, <2>2
  <2>4. report.by = "probe" => \A i, j \in DOMAIN rows : rows[i].step = rows[j].step => i = j
    BY <2>3 DEF Reported
  <2> QED BY <1>7, <1>8, <2>1, <2>3, <2>4, EndKeeps
<1>12. CASE following[task.step] # None
  <2>1. PICK next : next = following[task.step]
    OBVIOUS
  <2>2. next \in StepNames \ {"connect"} /\ (report.by = "probe" => Reported(rows, Earlier(next)))
        /\ (report.by = "sync" => next \in {"identity", "incremental"})
        /\ (report.by = "test" => next = "identity")
    <3>1. CASE report.by = "probe"
      <4>1. task.step # "events"
        BY <1>9, <1>12, <3>1, ProbeNextIs
      <4> QED BY <1>1, <1>6, <1>9, <2>1, <3>1, <4>1, ProbeNextIs
    <3>2. CASE report.by = "sync"
      <4>1. task.step \in {"connect", "identity", "incremental"}
        BY <1>1, <3>2 DEF Underway
      <4>2. /\ C!PlatformNext["connect"] = "identity" /\ C!PlatformNext["identity"] = "incremental"
            /\ C!PlatformNext["incremental"] = None
        BY <3>2 DEF C!PlatformNext
      <4> QED BY <1>9, <1>12, <2>1, <3>2, <4>1, <4>2 DEF StepNames
    <3>3. CASE report.by = "test"
      <4>1. task.step \in {"connect", "identity"}
        BY <1>1, <3>3 DEF Underway
      <4>2. C!PlatformNext["connect"] = "identity" /\ C!PlatformNext["identity"] = None
        BY <3>3 DEF C!PlatformNext
      <4> QED BY <1>9, <1>12, <2>1, <3>3, <4>1, <4>2 DEF StepNames
    <3> QED BY <1>1, <3>1, <3>2, <3>3
  <2>3. report.refused = 0 /\ (report.by = "sync" => report.lost = task.attempt - 1)
    BY <1>1 DEF Underway
  <2>4. C!GoOn(next, rows, past, report, still)
    BY <1>10, <2>1
  <2> QED BY <1>3, <1>7, <1>8, <2>2, <2>3, <2>4, GoOnKeeps
<1> QED BY <1>11, <1>12

\* An operation that fails for a reason: the steps that follow are made or skipped, or all start
\* again.
LEMMA FailKeeps ==
  ASSUME CallsInv, task # None, recorder' = recorder,
         NEW kept \in Reports, kept.by = report.by, NEW still \in HikAdapters,
         NEW retryable \in BOOLEAN, ~recorder.known => ~still.connected, kept.refused <= 1,
         kept.refused = 0 \/ (~retryable /\ task.step = "connect"),
         Fine(recorder, kept) => report.by = "sync" /\ retryable /\ task.attempt < Attempts,
         report.by = "sync" /\ retryable => kept.lost = task.attempt,
         task.step # "connect" /\ ~still.connected => kept.lost >= 1,
         C!Fail(retryable, kept, still)
  PROVE  CallsInv'
<1>1. /\ recorder \in Recorders /\ task \in Tasks /\ task.step \in StepNames
      /\ task.attempt \in Nat /\ task.cursor \in Nat /\ saved \in Nat
      /\ report.by \in {"probe", "sync", "test"} /\ Underway(task, recorder, adapter, report)
  BY DEF CallsInv, CallsState, Tasks, Reports
<1>2. PICK entry \in Rows :
         entry = C!Entry(task.step, "fail") /\ entry.step = task.step /\ entry.status = "fail"
  <2>1. PICK entry : entry = [step |-> task.step, status |-> "fail", due |-> {}, got |-> {}]
    OBVIOUS
  <2>2. entry \in Rows
    BY <1>1, <2>1 DEF Rows, RowNames
  <2> QED BY <2>1, <2>2 DEF C!Entry
<1>3. PICK rows \in Seq(Rows) :
         /\ rows = C!Noted(entry) /\ Whole(rows)
         /\ report.by = "probe" =>
               /\ task.step # "events" => Reported(rows, Earlier(C!ProbeNext[task.step]))
               /\ task.step = "events" => Reported(rows, RowNames)
  BY <1>2, NotedIs
<1>4. saved' \in Nat
  BY <1>1 DEF C!Fail
<1>5. ~Fine(recorder, kept) => Sound(rows, kept)
  BY <1>3 DEF Sound
<1>6. report.by = "probe" => \A i, j \in DOMAIN rows : rows[i].step = rows[j].step => i = j
  BY <1>3 DEF Reported
<1>7. CASE report.by = "probe" /\ task.step \notin {"connect", "download"}
  <2>1. C!GoOn(C!ProbeNext[task.step], rows, task.cursor, kept, still)
    BY <1>2, <1>3, <1>7 DEF C!Fail
  <2>2. ~Fine(recorder, kept) /\ kept.refused = 0 /\ recorder.known
    BY <1>1, <1>7 DEF Underway
  <2>3. CASE task.step = "events"
    <3>1. C!End(rows, kept, still)
      BY <2>1, <2>3, ProbeNextIs DEF C!GoOn
    <3> QED BY <1>4, <1>5, <1>6, <2>2, <3>1, EndKeeps
  <2>4. CASE task.step # "events"
    <3>1. PICK next \in StepNames \ {"connect"} : next = C!ProbeNext[task.step]
      BY <1>1, <2>4, ProbeNextIs
    <3>2. Reported(rows, Earlier(next)) /\ C!GoOn(next, rows, task.cursor, kept, still)
      BY <1>3, <1>7, <2>1, <2>4, <3>1
    <3>3. ~still.connected => report.by = "probe" /\ kept.lost >= 1
      BY <1>7
    <3> QED BY <1>1, <1>4, <1>5, <1>7, <2>2, <3>2, <3>3, GoOnKeeps
  <2> QED BY <2>3, <2>4
<1>8. CASE /\ ~(report.by = "probe" /\ task.step \notin {"connect", "download"})
           /\ report.by = "sync" /\ retryable /\ task.attempt < Attempts
  <2>1. PICK k \in Tasks :
           /\ k = C!At("connect", task.attempt + 1, task.cursor) /\ k # None /\ Part(k, recorder)
           /\ k.step = "connect" /\ k.attempt = task.attempt + 1 /\ k.cursor = task.cursor
    BY <1>1, AtIs DEF StepNames
  <2>2. PICK p \in Reports :
           /\ p = [kept EXCEPT !.entries = <<>>]
           /\ p.by = report.by /\ p.entries = <<>> /\ p.refused = kept.refused /\ p.lost = kept.lost
    <3>1. PICK p : p = [kept EXCEPT !.entries = <<>>]
      OBVIOUS
    <3>2. <<>> \in Seq(Rows)
      OBVIOUS
    <3>3. /\ p.by = kept.by /\ p.entries = <<>> /\ p.refused = kept.refused /\ p.lost = kept.lost
          /\ p.garbled = kept.garbled
      BY <3>1 DEF Reports
    <3>4. p \in Reports
      BY <3>1, <3>2 DEF Reports
    <3> QED BY <3>1, <3>3, <3>4
  <2>3. task' = k /\ report' = p /\ adapter' = still
    BY <1>8, <2>1, <2>2 DEF C!Fail
  <2>4. Whole(p.entries) /\ Well(p.entries)
    BY <2>2 DEF Whole, Well
  <2>5. Attempts \in Nat /\ kept.refused = 0
    BY <1>8, CallsAssumption
  <2>6. Underway(k, recorder, still, p)
    BY <1>1, <1>8, <2>1, <2>2, <2>5 DEF Underway
  <2>7. CallsState(recorder, still, k, p, saved')
    BY <1>1, <1>4, <2>1, <2>2, <2>4, <2>5, <2>6 DEF CallsState
  <2> QED BY <2>3, <2>7 DEF CallsInv
<1>9. CASE /\ ~(report.by = "probe" /\ task.step \notin {"connect", "download"})
           /\ ~(report.by = "sync" /\ retryable /\ task.attempt < Attempts)
  <2>1. C!End(rows, kept, still)
    BY <1>2, <1>3, <1>9 DEF C!Fail
  <2>2. ~Fine(recorder, kept)
    BY <1>9
  <2> QED BY <1>4, <1>5, <1>6, <2>1, <2>2, EndKeeps
<1> QED BY <1>7, <1>8, <1>9

\* An operation goes on to its next request, or has made its last one.
LEMMA OnwardKeeps ==
  ASSUME CallsInv, task # None, recorder' = recorder, recorder.known,
         task.step = "connect" <=> ~adapter.connected,
         NEW found \in SUBSET Nat, task.found \subseteq found,
         task.step \in C!Downloads => found \subseteq DOMAIN recorder.events,
         C!Request \in C!Searches => task.due \cap Asks(recorder, C!Request) \subseteq found,
         C!Onward(found)
  PROVE  CallsInv'
<1>1. /\ recorder \in Recorders /\ adapter \in HikAdapters /\ task \in Tasks /\ report \in Reports
      /\ saved \in Nat /\ task.request \in Nat /\ task.due \in SUBSET Nat
      /\ Underway(task, recorder, adapter, report) /\ Part(task, recorder)
  BY DEF CallsInv, CallsState, Tasks, Underway
<1>2. PICK last \in Nat : last = Len(C!Plan(task.step)) /\ task.request \in 1..last
  <2>1. Len(C!Plan(task.step)) \in Nat
    BY <1>1, PlanIs, SearchesAre DEF Tasks, StepNames, C!Downloads
  <2> QED BY <1>1, <2>1 DEF Part
<1>3. PICK request : request = C!Plan(task.step)[task.request] /\ request = C!Request
  BY DEF C!Request
<1>4. \A r \in 1..task.request : C!Plan(task.step)[r] \in C!Searches
                                 => task.due \cap Asks(recorder, C!Plan(task.step)[r]) \subseteq found
  <2> SUFFICES ASSUME NEW r \in 1..task.request, C!Plan(task.step)[r] \in C!Searches
               PROVE  task.due \cap Asks(recorder, C!Plan(task.step)[r]) \subseteq found
    OBVIOUS
  <2>1. CASE r = task.request
    BY <1>3, <2>1
  <2>2. CASE r # task.request
    <3>1. r \in 1..(task.request - 1)
      BY <1>1, <2>2
    <3>2. task.due \cap Asks(recorder, C!Plan(task.step)[r]) \subseteq task.found
      BY <1>1, <3>1 DEF Part
    <3> QED BY <3>2
  <2> QED BY <2>1, <2>2
<1>5. CASE task.request < last
  <2>1. PICK k : k = [task EXCEPT !.request = @ + 1, !.position = 0, !.pages = 0, !.found = found]
    OBVIOUS
  <2>2. /\ task' = k /\ adapter' = adapter /\ report' = report /\ saved' = saved
    BY <1>2, <1>5, <2>1 DEF C!Onward
  <2>3. /\ k \in Tasks /\ k.step = task.step /\ k.attempt = task.attempt /\ k.cursor = task.cursor
        /\ k.request = task.request + 1 /\ k.position = 0 /\ k.pages = 0 /\ k.found = found
        /\ k.due = task.due
    <3>1. task.request + 1 \in Nat /\ 0 \in Nat
      BY <1>1
    <3>2. k \in Tasks
      BY <1>1, <2>1, <3>1 DEF Tasks
    <3>3. /\ k.step = task.step /\ k.attempt = task.attempt /\ k.cursor = task.cursor
          /\ k.due = task.due
      BY <1>1, <2>1 DEF Tasks
    <3>4. k.request = task.request + 1 /\ k.position = 0 /\ k.pages = 0 /\ k.found = found
      BY <1>1, <2>1 DEF Tasks
    <3> QED BY <3>2, <3>3, <3>4
  <2>4. Part(k, recorder)
    <3>1. k.request \in 1..Len(C!Plan(k.step)) /\ k.request - 1 = task.request
      BY <1>1, <1>2, <1>5, <2>3
    <3>2. \A n \in k.due :
             /\ k.step # "users" => n \in DOMAIN recorder.events
             /\ k.step \in C!Downloads => n > k.cursor
             /\ \E r \in 1..Len(C!Plan(k.step)) :
                   C!Plan(k.step)[r] \in C!Searches /\ n \in Asks(recorder, C!Plan(k.step)[r])
      BY <1>1, <2>3 DEF Part
    <3>3. k.step \in C!Downloads => k.found \subseteq DOMAIN recorder.events
      BY <2>3
    <3>4. \A r \in 1..(k.request - 1) : C!Plan(k.step)[r] \in C!Searches
                                        => k.due \cap Asks(recorder, C!Plan(k.step)[r]) \subseteq k.found
      BY <1>4, <2>3, <3>1
    <3>5. PICK list : list = C!InOrder(Asks(recorder, C!Plan(k.step)[k.request]))
      OBVIOUS
    <3>6. Len(list) \in Nat
      BY <1>1, <3>5, AsksIs, InOrderIs
    <3>7. PICK share \in Nat : share = Share(recorder)
      BY <1>1, CallsAssumption DEF Recorders, Share
    <3>8. /\ k.position <= Len(list) /\ \A i \in 1..k.position : list[i] \in k.found
          /\ k.pages < MaxPages /\ k.pages * share <= k.position
      BY <2>3, <3>6, <3>7, CallsAssumption
    <3> QED BY <3>1, <3>2, <3>3, <3>4, <3>5, <3>7, <3>8 DEF Part
  <2>5. Underway(k, recorder, adapter, report)
    <3>1. report.refused = 0 /\ (~recorder.known => k.step = "connect")
          /\ (k.step # "connect" /\ ~adapter.connected => report.by = "probe" /\ report.lost >= 1)
      BY <1>1, <2>3 DEF Underway
    <3>2. report.by = "probe" => Reported(report.entries, Earlier(k.step))
      BY <1>1, <2>3 DEF Underway
    <3>3. /\ report.by = "sync" => /\ k.step \in {"connect", "identity", "incremental"}
                                   /\ k.attempt <= Attempts /\ report.lost = k.attempt - 1
          /\ report.by = "test" => k.step \in {"connect", "identity"}
      BY <1>1, <2>3 DEF Underway
    <3> QED BY <2>4, <3>1, <3>2, <3>3 DEF Underway
  <2>6. k # None
    BY <2>3, CallsAssumption DEF Tasks, StepNames
  <2>7. CallsState(recorder, adapter, k, report, saved)
    BY <2>3, <2>5, <2>6 DEF CallsInv, CallsState
  <2> QED BY <2>2, <2>7 DEF CallsInv
<1>6. CASE ~(task.request < last)
  <2>1. PICK still \in HikAdapters : still = [adapter EXCEPT !.connected = TRUE] /\ still.connected
    <3>1. PICK still : still = [adapter EXCEPT !.connected = TRUE]
      OBVIOUS
    <3>2. still \in HikAdapters /\ still.connected
      BY <1>1, <3>1 DEF HikAdapters
    <3> QED BY <3>1, <3>2
  <2>2. C!Succeed(found, report, still)
    BY <1>2, <1>6, <2>1 DEF C!Onward
  <2>3. task.due \subseteq C!Got(found)
    <3> SUFFICES ASSUME NEW n \in task.due PROVE n \in C!Got(found)
      OBVIOUS
    <3>1. PICK r \in 1..last : C!Plan(task.step)[r] \in C!Searches
                               /\ n \in Asks(recorder, C!Plan(task.step)[r])
      BY <1>1, <1>2 DEF Part
    <3>2. task.request = last
      BY <1>2, <1>6
    <3>3. n \in found
      BY <1>4, <3>1, <3>2
    <3>4. task.step \in C!Downloads => n > task.cursor
      BY <1>1 DEF Part
    <3> QED BY <3>3, <3>4 DEF C!Got
  <2> QED BY <2>1, <2>2, <2>3, SucceedKeeps
<1> QED BY <1>5, <1>6

\* A task begins with the connection.
LEMMA BeginKeeps ==
  ASSUME CallsInv, NEW by \in {"probe", "sync", "test"}, C!Begin(by)
  PROVE  CallsInv'
<1>1. /\ recorder \in Recorders /\ recorder' = recorder /\ adapter \in HikAdapters /\ saved \in Nat
      /\ saved' = saved /\ (~recorder.known => ~adapter.connected)
  BY DEF CallsInv, CallsState, C!Begin
<1>2. PICK a \in HikAdapters : a = adapter' /\ (~recorder.known => ~a.connected)
  <2>1. C!NewAdapter = [connected |-> FALSE, pageSize |-> LargePage]
    BY DEF C!NewAdapter
  <2>2. C!NewAdapter \in HikAdapters /\ ~C!NewAdapter.connected
    BY <2>1 DEF HikAdapters
  <2>3. adapter' \in {C!NewAdapter, adapter}
    BY DEF C!Begin
  <2> QED BY <1>1, <2>2, <2>3
<1>3. PICK past \in Nat : past = IF by = "sync" THEN saved ELSE 0
  BY <1>1
<1>4. PICK k \in Tasks : /\ k = C!At("connect", 1, past) /\ k # None /\ Part(k, recorder)
                         /\ k.step = "connect" /\ k.attempt = 1 /\ k.cursor = past
  BY <1>1, AtIs DEF StepNames
<1>5. PICK p \in Reports :
         /\ p = [by |-> by, entries |-> <<>>, lost |-> 0, garbled |-> 0, refused |-> 0]
         /\ p.by = by /\ p.entries = <<>> /\ p.refused = 0 /\ p.lost = 0
  <2>1. PICK p : p = [by |-> by, entries |-> <<>>, lost |-> 0, garbled |-> 0, refused |-> 0]
    OBVIOUS
  <2>2. <<>> \in Seq(Rows)
    OBVIOUS
  <2>3. p \in Reports
    BY <2>1, <2>2 DEF Reports
  <2> QED BY <2>1, <2>3
<1>6. task' = k /\ report' = p
  BY <1>3, <1>4, <1>5 DEF C!Begin, C!NewReport
<1>7. Whole(p.entries) /\ Well(p.entries) /\ Reported(p.entries, Earlier("connect"))
  BY <1>5 DEF Whole, Well, Reported, Earlier
<1>8. Attempts \in Nat /\ 1 <= Attempts
  BY CallsAssumption
<1>9. Underway(k, recorder, a, p)
  BY <1>4, <1>5, <1>7, <1>8 DEF Underway
<1>10. CallsState(recorder, a, k, p, saved)
  BY <1>1, <1>2, <1>4, <1>5, <1>7, <1>9 DEF CallsState
<1> QED BY <1>1, <1>2, <1>6, <1>10 DEF CallsInv

\* What is the case while a request is made.
LEMMA AskingIs ==
  ASSUME CallsInv, task # None
  PROVE  /\ recorder \in Recorders /\ adapter \in HikAdapters /\ task \in Tasks
         /\ task.step \in StepNames /\ report \in Reports /\ saved \in Nat
         /\ report.by \in {"probe", "sync", "test"}
         /\ report.lost \in Nat /\ report.garbled \in Nat /\ task.attempt \in Nat
         /\ report.refused = 0 /\ (~recorder.known => task.step = "connect" /\ ~adapter.connected)
         /\ task.step # "connect" /\ ~adapter.connected => report.by = "probe" /\ report.lost >= 1
         /\ report.by = "sync" => report.lost = task.attempt - 1 /\ task.attempt <= Attempts
         /\ Part(task, recorder) /\ task.found \in SUBSET Nat /\ task.position \in Nat
         /\ task.pages \in Nat
BY DEF CallsInv, CallsState, Underway, Tasks, Reports

\* A connection that is there already.
LEMMA ConnectedKeeps ==
  ASSUME CallsInv, C!Connected
  PROVE  CallsInv'
<1>1. /\ task # None /\ task.step = "connect" /\ adapter.connected /\ recorder' = recorder
      /\ C!Succeed({}, report, adapter)
  BY DEF C!Connected
<1>2. recorder \in Recorders /\ adapter \in HikAdapters /\ recorder.known /\ Part(task, recorder)
  BY <1>1, AskingIs
<1>3. task.due = {}
  <2>1. C!Plan("connect") = <<"deviceInfo">> /\ "deviceInfo" \notin C!Searches
    BY PlanIs, SearchesAre
  <2>2. \A r \in 1..Len(<<"deviceInfo">>) : <<"deviceInfo">>[r] = "deviceInfo"
    OBVIOUS
  <2>3. \A n \in task.due : \E r \in 1..Len(C!Plan("connect")) : C!Plan("connect")[r] \in C!Searches
    BY <1>1, <1>2 DEF Part
  <2> QED BY <2>1, <2>2, <2>3
<1> QED BY <1>1, <1>2, <1>3, SucceedKeeps

\* A probe whose terminal is not connected to.
LEMMA NotConnectedKeeps ==
  ASSUME CallsInv, C!NotConnected
  PROVE  CallsInv'
<1>1. /\ task # None /\ task.step # "connect" /\ ~adapter.connected /\ recorder' = recorder
      /\ C!Fail(TRUE, report, adapter)
  BY DEF C!NotConnected
<1>2. report.by = "probe" /\ report.lost >= 1 /\ report.lost \in Nat
  BY <1>1, AskingIs
<1>3. ~Fine(recorder, report)
  BY <1>2 DEF Fine
<1>4. TRUE \in BOOLEAN /\ report \in Reports /\ adapter \in HikAdapters /\ report.refused = 0
  BY <1>1, AskingIs
<1>5. /\ report.by = report.by /\ (~recorder.known => ~adapter.connected) /\ report.refused <= 1
      /\ report.refused = 0 \/ (~TRUE /\ task.step = "connect")
      /\ Fine(recorder, report) => report.by = "sync" /\ TRUE /\ task.attempt < Attempts
      /\ report.by = "sync" /\ TRUE => report.lost = task.attempt
      /\ task.step # "connect" /\ ~adapter.connected => report.lost >= 1
  BY <1>1, <1>2, <1>3, <1>4
<1> QED BY <1>1, <1>4, <1>5, FailKeeps

LEMMA AnsweredKeeps ==
  ASSUME CallsInv, C!Answered
  PROVE  CallsInv'
<1>1. /\ task # None /\ (task.step = "connect" <=> ~adapter.connected) /\ recorder' = recorder
      /\ recorder.known /\ C!Request \notin C!Searches /\ C!Onward(task.found)
  BY DEF C!Answered, C!Asking
<1>2. /\ task.found \in SUBSET Nat
      /\ task.step \in C!Downloads => task.found \subseteq DOMAIN recorder.events
  BY <1>1, AskingIs DEF Part
<1> QED BY <1>1, <1>2, OnwardKeeps

\* A page that is too large is asked for again, as small as any terminal that can be read takes it.
LEMMA RefitKeeps ==
  ASSUME CallsInv, C!Refit
  PROVE  CallsInv'
<1>1. /\ task # None /\ (task.step = "connect" <=> ~adapter.connected) /\ recorder' = recorder
      /\ recorder.limit # None /\ adapter.pageSize > recorder.limit
  BY DEF C!Refit, C!Asking, C!TooLarge
<1>2. /\ recorder \in Recorders /\ adapter \in HikAdapters /\ report \in Reports
      /\ report.refused = 0 /\ (~recorder.known => ~adapter.connected)
  BY <1>1, AskingIs
<1>3. CASE adapter.pageSize > SmallPage
  <2>1. PICK a \in HikAdapters :
           a = [adapter EXCEPT !.pageSize = SmallPage] /\ a.connected = adapter.connected
    <3>1. PICK a : a = [adapter EXCEPT !.pageSize = SmallPage]
      OBVIOUS
    <3>2. a \in HikAdapters /\ a.connected = adapter.connected
      BY <1>2, <3>1 DEF HikAdapters
    <3> QED BY <3>1, <3>2
  <2>2. adapter' = a /\ task' = task /\ report' = report /\ saved' = saved
    BY <1>3, <2>1 DEF C!Refit
  <2>3. CallsState(recorder, a, task, report, saved)
    BY <2>1 DEF CallsInv, CallsState, Underway
  <2> QED BY <1>1, <2>2, <2>3 DEF CallsInv
<1>4. CASE ~(adapter.pageSize > SmallPage)
  <2>1. C!Fail(FALSE, report, adapter)
    BY <1>4 DEF C!Refit
  <2>2. ~Serves(recorder)
    <3>1. recorder.limit \in Nat /\ adapter.pageSize \in Nat /\ SmallPage \in Nat
      BY <1>1, <1>2, CallsAssumption DEF Recorders, HikAdapters
    <3>2. recorder.limit < SmallPage
      BY <1>1, <1>4, <3>1
    <3> QED BY <1>1, <3>1, <3>2 DEF Serves
  <2>3. ~Fine(recorder, report) /\ FALSE \in BOOLEAN
    BY <2>2 DEF Fine
  <2>4. /\ report.by = report.by /\ (~recorder.known => ~adapter.connected) /\ report.refused <= 1
        /\ report.refused = 0 \/ (~FALSE /\ task.step = "connect")
        /\ Fine(recorder, report) => report.by = "sync" /\ FALSE /\ task.attempt < Attempts
        /\ report.by = "sync" /\ FALSE => report.lost = task.attempt
        /\ task.step # "connect" /\ ~adapter.connected => report.lost >= 1
    BY <1>1, <1>2, <2>3
  <2> QED BY <1>1, <1>2, <2>1, <2>3, <2>4, FailKeeps
<1> QED BY <1>3, <1>4

LEMMA RefusedKeeps ==
  ASSUME CallsInv, C!Refused
  PROVE  CallsInv'
<1>1. task # None /\ ~recorder.known /\ recorder' = recorder
  BY DEF C!Refused, C!Asking
<1>2. /\ adapter \in HikAdapters /\ report \in Reports /\ report.refused = 0
      /\ task.step = "connect" /\ ~adapter.connected
  BY <1>1, AskingIs
<1>3. PICK kept : kept = [report EXCEPT !.refused = @ + 1]
  OBVIOUS
<1>4. kept \in Reports /\ kept.by = report.by /\ kept.refused = 1
  BY <1>2, <1>3 DEF Reports
<1>5. C!Fail(FALSE, kept, adapter)
  BY <1>3 DEF C!Refused
<1>6. /\ FALSE \in BOOLEAN /\ kept.by = report.by /\ (~recorder.known => ~adapter.connected)
      /\ kept.refused <= 1 /\ (kept.refused = 0 \/ (~FALSE /\ task.step = "connect"))
      /\ Fine(recorder, kept) => report.by = "sync" /\ FALSE /\ task.attempt < Attempts
      /\ report.by = "sync" /\ FALSE => kept.lost = task.attempt
      /\ task.step # "connect" /\ ~adapter.connected => kept.lost >= 1
  BY <1>1, <1>2, <1>4 DEF Fine
<1> QED BY <1>1, <1>2, <1>4, <1>5, <1>6, FailKeeps

\* A synchronization makes up for lost requests while it has attempts left.
LEMMA LostKeeps ==
  ASSUME CallsInv, C!Lost
  PROVE  CallsInv'
<1>1. task # None /\ recorder' = recorder
  BY DEF C!Lost, C!Asking
<1>2. /\ adapter \in HikAdapters /\ report \in Reports /\ report.refused = 0
      /\ report.lost \in Nat /\ task.attempt \in Nat
      /\ report.by = "sync" => report.lost = task.attempt - 1
  BY <1>1, AskingIs
<1>3. PICK kept : kept = [report EXCEPT !.lost = @ + 1]
  OBVIOUS
<1>4. kept \in Reports /\ kept.by = report.by /\ kept.refused = 0 /\ kept.lost = report.lost + 1
  <2>1. report.lost + 1 \in Nat
    BY <1>2
  <2> QED BY <1>2, <1>3, <2>1 DEF Reports
<1>5. PICK still : still = [adapter EXCEPT !.connected = FALSE]
  OBVIOUS
<1>6. still \in HikAdapters /\ ~still.connected
  BY <1>2, <1>5 DEF HikAdapters
<1>7. C!Fail(TRUE, kept, still)
  BY <1>3, <1>5 DEF C!Lost
<1>8. Fine(recorder, kept) => report.by = "sync" /\ task.attempt < Attempts
  <2> SUFFICES ASSUME Fine(recorder, kept) PROVE report.by = "sync" /\ task.attempt < Attempts
    OBVIOUS
  <2>1. kept.lost < (IF report.by = "sync" THEN Attempts ELSE 1)
    BY <1>4 DEF Fine
  <2> QED BY <1>2, <1>4, <2>1, CallsAssumption
<1>9. /\ kept.lost >= 1 /\ kept.refused <= 1
      /\ report.by = "sync" => kept.lost = task.attempt
  BY <1>2, <1>4
<1>10. /\ TRUE \in BOOLEAN /\ kept.by = report.by /\ (~recorder.known => ~still.connected)
       /\ kept.refused <= 1 /\ (kept.refused = 0 \/ (~TRUE /\ task.step = "connect"))
       /\ Fine(recorder, kept) => report.by = "sync" /\ TRUE /\ task.attempt < Attempts
       /\ report.by = "sync" /\ TRUE => kept.lost = task.attempt
       /\ task.step # "connect" /\ ~still.connected => kept.lost >= 1
  BY <1>4, <1>6, <1>8, <1>9
<1> QED BY <1>1, <1>4, <1>6, <1>7, <1>10, FailKeeps

\* An answer nobody understands ends the operation, unless it could do without.
LEMMA GarbledKeeps ==
  ASSUME CallsInv, C!Garbled
  PROVE  CallsInv'
<1>1. task # None /\ (task.step = "connect" <=> ~adapter.connected) /\ recorder' = recorder
  BY DEF C!Garbled, C!Asking
<1>2. /\ adapter \in HikAdapters /\ report \in Reports /\ report.refused = 0
      /\ report.garbled \in Nat /\ (~recorder.known => task.step = "connect" /\ ~adapter.connected)
      /\ task.found \in SUBSET Nat /\ Part(task, recorder)
  BY <1>1, AskingIs
<1>3. CASE C!Request \in C!Optional
  <2>1. C!Onward(task.found)
    BY <1>3 DEF C!Garbled
  <2>2. C!Request \notin C!Searches
    BY <1>3, SearchesAre DEF C!Optional
  <2>3. task.step # "connect"
    <3> SUFFICES ASSUME task.step = "connect" PROVE FALSE
      OBVIOUS
    <3>1. C!Plan("connect") = <<"deviceInfo">> /\ "deviceInfo" \notin C!Optional
      BY PlanIs DEF C!Optional
    <3>2. \A r \in 1..Len(<<"deviceInfo">>) : <<"deviceInfo">>[r] = "deviceInfo"
      OBVIOUS
    <3>3. C!Request = C!Plan("connect")[task.request] /\ task.request \in 1..Len(C!Plan("connect"))
      BY <1>2 DEF C!Request, Part
    <3> QED BY <1>3, <3>1, <3>2, <3>3
  <2>4. task.step \in C!Downloads => task.found \subseteq DOMAIN recorder.events
    BY <1>2 DEF Part
  <2> QED BY <1>1, <1>2, <2>1, <2>2, <2>3, <2>4, OnwardKeeps
<1>4. CASE C!Request \notin C!Optional
  <2>1. PICK kept : kept = [report EXCEPT !.garbled = @ + 1]
    OBVIOUS
  <2>2. kept \in Reports /\ kept.by = report.by /\ kept.refused = 0 /\ kept.garbled # 0
    <3>1. report.garbled + 1 \in Nat /\ report.garbled + 1 # 0
      BY <1>2
    <3> QED BY <1>2, <2>1, <3>1 DEF Reports
  <2>3. C!Fail(FALSE, kept, adapter)
    BY <1>4, <2>1 DEF C!Garbled
  <2>4. /\ FALSE \in BOOLEAN /\ kept.by = report.by /\ (~recorder.known => ~adapter.connected)
        /\ kept.refused <= 1 /\ (kept.refused = 0 \/ (~FALSE /\ task.step = "connect"))
        /\ Fine(recorder, kept) => report.by = "sync" /\ FALSE /\ task.attempt < Attempts
        /\ report.by = "sync" /\ FALSE => kept.lost = task.attempt
        /\ task.step # "connect" /\ ~adapter.connected => kept.lost >= 1
    BY <1>1, <1>2, <2>2 DEF Fine
  <2> QED BY <1>1, <1>2, <2>2, <2>3, <2>4, FailKeeps
<1> QED BY <1>3, <1>4

\* The numbers on a page of a list are those from one position to another, which advances unless
\* the list ends there.
Lies(items, list, position, size, last) ==
    /\ Len(items) = last - position /\ (last < Len(list) => last = position + size)
    /\ \A i \in DOMAIN items : \E j \in (position + 1)..last : items[i] = list[j]
    /\ \A j \in (position + 1)..last : \E i \in DOMAIN items : items[i] = list[j]
    /\ items = <<>> => last = Len(list)

LEMMA PageIs ==
  ASSUME NEW list \in Seq(Nat), NEW position \in 0..Len(list), NEW size \in Nat \ {0},
         NEW last, last = C!Least(position + size, Len(list)),
         NEW items, items = SubSeq(list, position + 1, last)
  PROVE  Lies(items, list, position, size, last)
<1>1. last = C!Least(position + size, Len(list))
  OBVIOUS
<1>2. PICK n \in Nat : n = Len(list) /\ position \in 0..n
  OBVIOUS
<1>3. last \in position..n /\ (last < n => last = position + size) /\ position \in Nat /\ last \in Nat
  BY <1>1, <1>2 DEF C!Least
<1>4. items = SubSeq(list, position + 1, last)
  OBVIOUS
<1>5. /\ items \in Seq(Nat) /\ Len(items) = last - position
      /\ \A i \in 1..(last - position) : items[i] = list[position + i]
  <2>1. \A i \in (position + 1)..last : list[i] \in Nat
    BY <1>2, <1>3
  <2>2. position + 1 <= last + 1 /\ position + 1 \in Int /\ last \in Int
    BY <1>3
  <2>3. items \in Seq(Nat)
    BY <1>4, <2>1, <2>2, SubSeqProperties
  <2>4. /\ Len(items) = IF position + 1 <= last THEN (last - (position + 1)) + 1 ELSE 0
        /\ \A i \in 1..((last - (position + 1)) + 1) : items[i] = list[((position + 1) + i) - 1]
    BY <1>4, <2>1, <2>2, SubSeqProperties
  <2>5. (last - (position + 1)) + 1 = last - position /\ (~(position + 1 <= last) => last - position = 0)
    BY <1>3
  <2>6. \A i \in 1..(last - position) : ((position + 1) + i) - 1 = position + i
    BY <1>3
  <2>7. Len(items) = last - position
    BY <2>4, <2>5
  <2> QED BY <2>3, <2>4, <2>5, <2>6, <2>7
<1>6. DOMAIN items = 1..(last - position)
  BY <1>5
<1>7. /\ \A i \in DOMAIN items : \E j \in (position + 1)..last : items[i] = list[j]
      /\ \A j \in (position + 1)..last : \E i \in DOMAIN items : items[i] = list[j]
  <2>1. ASSUME NEW i \in DOMAIN items
        PROVE  \E j \in (position + 1)..last : items[i] = list[j]
    <3>1. i \in 1..(last - position) /\ position + i \in (position + 1)..last
      BY <1>3, <1>6
    <3> QED BY <1>5, <3>1
  <2>2. ASSUME NEW j \in (position + 1)..last
        PROVE  \E i \in DOMAIN items : items[i] = list[j]
    <3>1. PICK i \in 1..(last - position) : position + i = j
      <4>1. j - position \in 1..(last - position) /\ position + (j - position) = j
        BY <1>3
      <4> QED BY <4>1
    <3> QED BY <1>5, <1>6, <3>1
  <2> QED BY <2>1, <2>2
<1>8. items = <<>> => last = n
  <2> SUFFICES ASSUME items = <<>> PROVE last = n
    OBVIOUS
  <2>1. last - position = 0
    BY <1>5
  <2> QED BY <1>2, <1>3, <2>1
<1>9. (last < Len(list) => last = position + size) /\ (items = <<>> => last = Len(list))
  BY <1>2, <1>3, <1>8
<1>10. Len(items) = last - position
  BY <1>5
<1> QED BY <1>7, <1>9, <1>10 DEF Lies

LEMMA PageKeeps ==
  ASSUME CallsInv, C!Page
  PROVE  CallsInv'
<1>1. /\ task # None /\ (task.step = "connect" <=> ~adapter.connected) /\ recorder' = recorder
      /\ recorder.known /\ C!Request \in C!Searches
  BY DEF C!Page, C!Asking
<1>2. /\ recorder \in Recorders /\ adapter \in HikAdapters /\ task \in Tasks /\ report \in Reports
      /\ task.step \in StepNames /\ report.refused = 0 /\ Part(task, recorder)
      /\ task.found \in SUBSET Nat /\ task.position \in Nat /\ task.pages \in Nat
  BY <1>1, AskingIs
<1>3. PICK wants \in SUBSET Nat : wants = Asks(recorder, C!Request) /\ IsFiniteSet(wants)
  BY <1>2, AsksIs
<1>4. PICK n \in Nat : n = Cardinality(wants)
  BY <1>3, InOrderIs
<1>5. PICK list \in Seq(Nat) :
         /\ list = C!InOrder(wants) /\ list = C!Listed(C!Request) /\ Len(list) = n
         /\ \A i \in 1..n : list[i] \in wants
         /\ \A x \in wants : \E i \in 1..n : list[i] = x
  <2>1. C!Wanted(C!Request) = wants
    BY <1>3 DEF C!Wanted, C!Serials, Asks
  <2>2. /\ C!InOrder(wants) \in Seq(wants) /\ Len(C!InOrder(wants)) = n
        /\ \A i \in 1..n : C!InOrder(wants)[i] \in wants
        /\ \A x \in wants : \E i \in 1..n : C!InOrder(wants)[i] = x
    BY <1>3, <1>4, InOrderIs
  <2>3. C!InOrder(wants) \in Seq(Nat)
    BY <1>3, <2>2
  <2> QED BY <2>1, <2>2, <2>3 DEF C!Listed
<1>6. PICK size \in Nat \ {0} : size = C!Least(adapter.pageSize, recorder.cap)
                                /\ Share(recorder) <= size
  BY <1>2, CallsAssumption DEF C!Least, Share, Recorders, HikAdapters
<1>7. PICK share \in Nat : share = Share(recorder) /\ share <= size
  BY <1>2, <1>6, CallsAssumption DEF Share, Recorders
<1>8. PICK position \in 0..n :
         /\ position = task.position /\ \A i \in 1..position : list[i] \in task.found
         /\ task.pages < MaxPages /\ task.pages * share <= position
  <2>1. C!Plan(task.step)[task.request] = C!Request
    BY DEF C!Request
  <2>2. C!InOrder(Asks(recorder, C!Plan(task.step)[task.request])) = list
    BY <1>3, <1>5, <2>1
  <2>3. /\ task.position <= Len(list) /\ \A i \in 1..task.position : list[i] \in task.found
        /\ task.pages < MaxPages /\ task.pages * share <= task.position
    BY <1>1, <1>2, <1>7, <2>1, <2>2 DEF Part
  <2>4. task.position \in 0..n
    BY <1>2, <1>5, <2>3
  <2> QED BY <2>3, <2>4
<1>9. PICK last \in position..n : last = C!Least(position + size, n)
  BY <1>4, <1>6 DEF C!Least
<1>10. PICK items : items = SubSeq(list, position + 1, last)
  OBVIOUS
<1>11. /\ Len(items) = last - position /\ (last < n => last = position + size)
       /\ {items[i] : i \in DOMAIN items} = {list[j] : j \in (position + 1)..last}
       /\ items = <<>> => last = n
  <2>1. /\ list \in Seq(Nat) /\ position \in 0..Len(list) /\ size \in Nat \ {0}
        /\ last = C!Least(position + size, Len(list))
    BY <1>5, <1>6, <1>8, <1>9
  <2>2. Lies(items, list, position, size, last)
    BY <1>10, <2>1, PageIs
  <2>3. /\ Len(items) = last - position /\ (last < n => last = position + size)
        /\ items = <<>> => last = n
    BY <1>5, <2>2 DEF Lies
  <2>4. {items[i] : i \in DOMAIN items} = {list[j] : j \in (position + 1)..last}
    BY <2>2 DEF Lies
  <2> QED BY <2>3, <2>4
<1>12. PICK page : /\ page = C!PageAt(C!Request, task.position)
                   /\ page.items = items /\ page.more = (last < n)
  <2>1. C!Least(task.position + C!Least(adapter.pageSize, recorder.cap), Len(C!Listed(C!Request)))
        = last
    BY <1>5, <1>6, <1>8, <1>9
  <2>2. C!PageAt(C!Request, task.position) = [items |-> items, more |-> last < n]
    BY <1>5, <1>8, <1>10, <2>1 DEF C!PageAt
  <2> QED BY <2>2
<1>13. PICK found : found = task.found \cup {page.items[i] : i \in DOMAIN page.items}
  OBVIOUS
<1>14. found = task.found \cup {list[j] : j \in (position + 1)..last}
  BY <1>11, <1>12, <1>13
<1>15. /\ found \in SUBSET Nat /\ task.found \subseteq found
       /\ \A i \in 1..last : list[i] \in found
       /\ task.step \in C!Downloads => found \subseteq DOMAIN recorder.events
  <2>1. \A i \in (position + 1)..last : i \in 1..n
    BY <1>4, <1>8, <1>9
  <2>2. \A i \in 1..last : i \in 1..position \/ i \in (position + 1)..last
    BY <1>4, <1>8, <1>9
  <2>3. \A i \in 1..last : list[i] \in found
    BY <1>8, <1>14, <2>2
  <2>4. {list[j] : j \in (position + 1)..last} \subseteq wants
    BY <1>5, <2>1
  <2>5. ASSUME task.step \in C!Downloads PROVE found \subseteq DOMAIN recorder.events
    <3>1. PICK r \in 1..Len(Minors) : C!Request = Minors[r]
      <4>1. task.request \in 1..(1 + Len(Minors)) /\ Len(Minors) \in Nat
            /\ C!Plan(task.step)[1] = "time"
        BY <1>2, <2>5, PlanIs, SearchesAre DEF Part
      <4>2. task.request # 1
        BY <1>1, <4>1, SearchesAre DEF C!Request
      <4>3. PICK r \in 1..Len(Minors) : task.request = r + 1
        <5>1. task.request - 1 \in 1..Len(Minors) /\ task.request = (task.request - 1) + 1
          BY <4>1, <4>2
        <5> QED BY <5>1
      <4> QED BY <2>5, <4>3, PlanIs DEF C!Request
    <3>2. wants \subseteq DOMAIN recorder.events
      BY <1>3, <3>1, SearchesAre DEF Asks
    <3>3. task.found \subseteq DOMAIN recorder.events
      BY <1>2, <2>5 DEF Part
    <3> QED BY <1>14, <2>4, <3>2, <3>3
  <2> QED BY <1>2, <1>3, <1>14, <2>3, <2>4, <2>5
<1>16. CASE ~(last < n) \/ items = <<>>
  <2>1. C!Onward(found)
    BY <1>12, <1>13, <1>16 DEF C!Page
  <2>2. last = n
    BY <1>4, <1>9, <1>11, <1>16
  <2>3. wants \subseteq found
    BY <1>5, <1>15, <2>2
  <2> QED BY <1>1, <1>3, <1>15, <2>1, <2>3, OnwardKeeps
<1>17. CASE last < n /\ items # <<>>
  <2>1. last = position + size
    BY <1>11, <1>17
  <2>2. (task.pages + 1) * share = task.pages * share + share
    BY <1>2
  <2>3. task.pages * share \in Nat
    BY <1>2
  <2>4. (task.pages + 1) * share <= last
    BY <1>6, <1>7, <1>8, <2>1, <2>2, <2>3
  <2>5. CASE task.pages + 1 = MaxPages
    <3>1. C!Fail(FALSE, report, adapter)
      BY <1>12, <1>17, <2>5 DEF C!Page
    <3>2. ~(Cardinality(Asks(recorder, C!Request)) <= MaxPages * Share(recorder))
      <4>1. MaxPages * share < n
        BY <1>4, <1>9, <1>17, <2>2, <2>3, <2>4, <2>5
      <4>2. PICK most \in Nat : most = MaxPages * share
        BY <1>7, CallsAssumption
      <4>3. ~(n <= most)
        BY <4>1, <4>2
      <4> QED BY <1>3, <1>4, <1>7, <4>2, <4>3
    <3>3. ~Fine(recorder, report) /\ FALSE \in BOOLEAN
      BY <1>1, <3>2 DEF Fine, Serves
    <3>4. /\ report.by = report.by /\ (~recorder.known => ~adapter.connected) /\ report.refused <= 1
          /\ report.refused = 0 \/ (~FALSE /\ task.step = "connect")
          /\ Fine(recorder, report) => report.by = "sync" /\ FALSE /\ task.attempt < Attempts
          /\ report.by = "sync" /\ FALSE => report.lost = task.attempt
          /\ task.step # "connect" /\ ~adapter.connected => report.lost >= 1
      BY <1>1, <1>2, <3>3
    <3> QED BY <1>1, <1>2, <3>1, <3>3, <3>4, FailKeeps
  <2>6. CASE task.pages + 1 # MaxPages
    <3>1. PICK k : k = [task EXCEPT !.position = C!NextPosition(page), !.pages = @ + 1,
                                    !.found = found]
      OBVIOUS
    <3>2. task' = k /\ adapter' = adapter /\ report' = report /\ saved' = saved
      BY <1>12, <1>13, <1>17, <2>6, <3>1 DEF C!Page
    <3>3. C!NextPosition(page) = last /\ last \in Nat
      BY <1>8, <1>9, <1>11, <1>12 DEF C!NextPosition
    <3>4. k \in Tasks
      <4>1. task.pages + 1 \in Nat
        BY <1>2
      <4> QED BY <1>2, <1>15, <3>1, <3>3, <4>1 DEF Tasks
    <3>5. /\ k.step = task.step /\ k.attempt = task.attempt /\ k.cursor = task.cursor
          /\ k.request = task.request /\ k.due = task.due
      BY <1>2, <3>1 DEF Tasks
    <3>6. k.position = last /\ k.pages = task.pages + 1 /\ k.found = found
      BY <1>2, <3>1, <3>3 DEF Tasks
    <3>7. Part(k, recorder)
      <4>1. /\ k.request \in 1..Len(C!Plan(k.step))
            /\ \A m \in k.due :
                  /\ k.step # "users" => m \in DOMAIN recorder.events
                  /\ k.step \in C!Downloads => m > k.cursor
                  /\ \E r \in 1..Len(C!Plan(k.step)) :
                        C!Plan(k.step)[r] \in C!Searches /\ m \in Asks(recorder, C!Plan(k.step)[r])
        BY <1>2, <3>5 DEF Part
      <4>2. k.step \in C!Downloads => k.found \subseteq DOMAIN recorder.events
        BY <1>15, <3>5, <3>6
      <4>3. \A r \in 1..(k.request - 1) : C!Plan(k.step)[r] \in C!Searches
               => k.due \cap Asks(recorder, C!Plan(k.step)[r]) \subseteq k.found
        <5>1. \A r \in 1..(task.request - 1) : C!Plan(task.step)[r] \in C!Searches
                 => task.due \cap Asks(recorder, C!Plan(task.step)[r]) \subseteq task.found
          BY <1>2 DEF Part
        <5> QED BY <1>15, <3>5, <3>6, <5>1
      <4>4. C!InOrder(Asks(recorder, C!Plan(k.step)[k.request])) = list
        BY <1>3, <1>5, <3>5 DEF C!Request
      <4>5. task.pages + 1 < MaxPages /\ last <= n
        <5>1. task.pages \in Nat /\ MaxPages \in Nat /\ task.pages < MaxPages
          BY <1>2, <1>8, CallsAssumption
        <5>2. task.pages + 1 < MaxPages
          BY <2>6, <5>1
        <5>3. last <= n
          BY <1>4, <1>9
        <5> QED BY <5>2, <5>3
      <4>6. /\ k.position <= Len(list) /\ \A i \in 1..k.position : list[i] \in k.found
            /\ k.pages < MaxPages /\ k.pages * share <= k.position
        BY <1>5, <1>15, <2>4, <3>6, <4>5
      <4> QED BY <1>7, <4>1, <4>2, <4>3, <4>4, <4>6 DEF Part
    <3>8. k # None
      BY <3>4, CallsAssumption DEF Tasks, StepNames
    <3>9. CallsState(recorder, adapter, k, report, saved)
      BY <1>1, <3>4, <3>5, <3>7, <3>8 DEF CallsInv, CallsState, Underway
    <3> QED BY <1>1, <3>2, <3>9 DEF CallsInv
  <2> QED BY <2>5, <2>6
<1> QED BY <1>16, <1>17

\* A terminal that has one event more lists it last.
Grown(t, u) ==
    /\ u \in Recorders /\ u.known = t.known /\ Share(u) = Share(t) /\ (Serves(u) => Serves(t))
    /\ DOMAIN t.events \subseteq DOMAIN u.events
    /\ \A x : /\ Asks(t, x) \subseteq Asks(u, x)
              /\ \A n \in Asks(u, x) : x = "users" \/ n \in DOMAIN t.events => n \in Asks(t, x)
              /\ Len(C!InOrder(Asks(t, x))) <= Len(C!InOrder(Asks(u, x)))
              /\ \A i \in 1..Len(C!InOrder(Asks(t, x))) :
                    C!InOrder(Asks(u, x))[i] = C!InOrder(Asks(t, x))[i]

LEMMA MoreIs ==
  ASSUME NEW t \in Recorders, NEW kind \in STRING,
         NEW u, u = [t EXCEPT !.events = Append(@, kind)]
  PROVE  Grown(t, u)
<1>1. t.events \in Seq(STRING)
  BY DEF Recorders
<1>2. PICK n \in Nat : n = Len(t.events) /\ DOMAIN t.events = 1..n
  BY <1>1
<1>3. PICK all \in Seq(STRING) :
         /\ all = Append(t.events, kind) /\ DOMAIN all = 1..(n + 1)
         /\ \A i \in 1..n : all[i] = t.events[i]
  <2>1. PICK all : all = Append(t.events, kind)
    OBVIOUS
  <2>2. /\ all \in Seq(STRING) /\ Len(all) = Len(t.events) + 1
        /\ \A i \in 1..Len(t.events) : all[i] = t.events[i]
    BY <1>1, <2>1, AppendProperties
  <2>3. DOMAIN all = 1..(n + 1)
    BY <1>2, <2>2
  <2> QED BY <1>2, <2>1, <2>2, <2>3
<1>4. /\ u \in Recorders /\ u.known = t.known /\ u.users = t.users /\ u.cap = t.cap
      /\ u.limit = t.limit /\ u.events = all
  <2>1. u = [t EXCEPT !.events = all]
    BY <1>3
  <2> QED BY <1>3, <2>1 DEF Recorders
<1>5. Share(u) = Share(t)
  BY <1>4 DEF Share
<1>6. DOMAIN t.events \subseteq DOMAIN u.events
  BY <1>2, <1>3, <1>4
<1>7. ASSUME NEW x
      PROVE  /\ Asks(t, x) \subseteq Asks(u, x) /\ Asks(u, x) \subseteq Asks(t, x) \cup {n + 1}
             /\ \A m \in Asks(u, x) : x = "users" \/ m \in DOMAIN t.events => m \in Asks(t, x)
             /\ x # "users" => \A m \in Asks(t, x) : m < n + 1
  <2>1. CASE x = "users"
    BY <1>4, <2>1 DEF Asks
  <2>2. CASE x # "users"
    <3>1. /\ Asks(t, x) = {m \in 1..n : x \in {"any", t.events[m]}}
          /\ Asks(u, x) = {m \in 1..(n + 1) : x \in {"any", all[m]}}
      BY <1>2, <1>3, <1>4, <2>2 DEF Asks
    <3>2. \A m \in 1..n : m \in 1..(n + 1) /\ m < n + 1
      BY <1>2
    <3>3. \A m \in 1..(n + 1) : m \in 1..n \/ m = n + 1
      BY <1>2
    <3>4. Asks(t, x) \subseteq Asks(u, x) /\ (\A m \in Asks(t, x) : m < n + 1)
      BY <1>3, <3>1, <3>2
    <3>5. \A m \in Asks(u, x) : m \in 1..n => m \in Asks(t, x)
      BY <1>3, <3>1
    <3>6. Asks(u, x) \subseteq Asks(t, x) \cup {n + 1}
      BY <3>1, <3>3, <3>5
    <3> QED BY <1>2, <2>2, <3>4, <3>5, <3>6
  <2> QED BY <2>1, <2>2
<1>8. ASSUME NEW x
      PROVE  /\ Len(C!InOrder(Asks(t, x))) <= Len(C!InOrder(Asks(u, x)))
             /\ Cardinality(Asks(t, x)) <= Cardinality(Asks(u, x))
             /\ \A i \in 1..Len(C!InOrder(Asks(t, x))) :
                   C!InOrder(Asks(u, x))[i] = C!InOrder(Asks(t, x))[i]
  <2>1. PICK old \in SUBSET Nat : old = Asks(t, x) /\ IsFiniteSet(old)
    BY AsksIs
  <2>2. PICK new \in SUBSET Nat : new = Asks(u, x) /\ IsFiniteSet(new)
    BY <1>4, AsksIs
  <2>3. /\ Len(C!InOrder(old)) = Cardinality(old) /\ Cardinality(old) \in Nat
        /\ Len(C!InOrder(new)) = Cardinality(new) /\ Cardinality(new) \in Nat
    BY <2>1, <2>2, InOrderIs
  <2>4. PICK before, after : before = C!InOrder(old) /\ after = C!InOrder(new)
    OBVIOUS
  <2>5. /\ Len(before) <= Len(after) /\ Cardinality(old) <= Cardinality(new)
        /\ \A i \in 1..Len(before) : after[i] = before[i]
    <3>1. CASE new = old
      BY <2>3, <2>4, <3>1
    <3>2. CASE new # old
      <4>1. x # "users"
        <5>1. old \subseteq new /\ (x = "users" => new \subseteq old)
          BY <1>7, <2>1, <2>2
        <5> QED BY <3>2, <5>1
      <4>2. new = old \cup {n + 1} /\ (\A m \in old : m < n + 1) /\ n + 1 \in Nat
        BY <1>2, <1>7, <2>1, <2>2, <3>2, <4>1
      <4>3. /\ Cardinality(new) = Cardinality(old) + 1
            /\ \A i \in 1..Cardinality(old) : C!InOrder(new)[i] = C!InOrder(old)[i]
        BY <2>1, <4>2, InOrderGrows
      <4> QED BY <2>3, <2>4, <4>3
    <3> QED BY <3>1, <3>2
  <2> QED BY <2>1, <2>2, <2>4, <2>5
<1>9. Serves(u) => Serves(t)
  <2> SUFFICES ASSUME Serves(u) PROVE Serves(t)
    OBVIOUS
  <2>1. ASSUME NEW request \in C!Searches
        PROVE  Cardinality(Asks(t, request)) <= MaxPages * Share(t)
    <3>1. PICK m \in Nat, k \in Nat : m = Cardinality(Asks(t, request)) /\ k = Cardinality(Asks(u, request))
      <4>1. Asks(t, request) \in SUBSET Nat /\ IsFiniteSet(Asks(t, request))
            /\ Asks(u, request) \in SUBSET Nat /\ IsFiniteSet(Asks(u, request))
        BY <1>4, AsksIs
      <4> QED BY <4>1, FS_CardinalityType
    <3>2. PICK share \in Nat : share = Share(t)
      BY CallsAssumption DEF Share, Recorders
    <3>3. PICK most \in Nat : most = MaxPages * share
      BY <3>2, CallsAssumption
    <3>4. k <= most
      BY <1>5, <3>1, <3>2, <3>3 DEF Serves
    <3>5. m <= k
      BY <1>8, <3>1
    <3>6. m <= most
      BY <3>1, <3>3, <3>4, <3>5
    <3> QED BY <3>1, <3>2, <3>3, <3>6
  <2>2. t.limit # None => t.limit >= SmallPage
    BY <1>4 DEF Serves
  <2> QED BY <2>1, <2>2 DEF Serves
<1> QED BY <1>4, <1>5, <1>6, <1>7, <1>8, <1>9 DEF Grown

\* An event that is recorded meanwhile is not due, and moves nothing that was listed.
LEMMA RecordKeeps ==
  ASSUME CallsInv, C!Record
  PROVE  CallsInv'
<1>1. /\ recorder \in Recorders /\ adapter' = adapter /\ task' = task /\ report' = report
      /\ saved' = saved
  BY DEF C!Record, CallsInv, CallsState
<1>2. PICK kind \in STRING : recorder' = [recorder EXCEPT !.events = Append(@, kind)]
  <2>1. PICK i \in DOMAIN Minors : recorder' = [recorder EXCEPT !.events = Append(@, Minors[i])]
    BY DEF C!Record
  <2>2. Minors[i] \in STRING
    BY CallsAssumption
  <2> QED BY <2>1, <2>2
<1>3. PICK u : u = [recorder EXCEPT !.events = Append(@, kind)]
  OBVIOUS
<1>4. recorder' = u
  BY <1>2, <1>3
<1>5. Grown(recorder, u)
  BY <1>1, <1>2, <1>3, MoreIs
<1>6. /\ u \in Recorders /\ u.known = recorder.known /\ Share(u) = Share(recorder)
      /\ Serves(u) => Serves(recorder)
      /\ DOMAIN recorder.events \subseteq DOMAIN u.events
  BY <1>5 DEF Grown
<1>7. \A x : /\ Asks(recorder, x) \subseteq Asks(u, x)
             /\ \A n \in Asks(u, x) : x = "users" \/ n \in DOMAIN recorder.events
                                      => n \in Asks(recorder, x)
             /\ Len(C!InOrder(Asks(recorder, x))) <= Len(C!InOrder(Asks(u, x)))
             /\ \A i \in 1..Len(C!InOrder(Asks(recorder, x))) :
                   C!InOrder(Asks(u, x))[i] = C!InOrder(Asks(recorder, x))[i]
  BY <1>5 DEF Grown
<1>8. Fine(u, report) => Well(report.entries)
  BY <1>6 DEF CallsInv, CallsState, Fine
<1>9. ASSUME task # None PROVE Part(task, u)
  <2>1. /\ Part(task, recorder) /\ task.step \in StepNames /\ task.position \in Nat
        /\ task.due \in SUBSET Nat
    BY <1>9, AskingIs DEF Tasks
  <2>2. \A n \in task.due :
           /\ task.step # "users" => n \in DOMAIN u.events
           /\ task.step \in C!Downloads => n > task.cursor
           /\ \E r \in 1..Len(C!Plan(task.step)) :
                 C!Plan(task.step)[r] \in C!Searches /\ n \in Asks(u, C!Plan(task.step)[r])
    BY <1>6, <1>7, <2>1 DEF Part
  <2>3. task.step \in C!Downloads => task.found \subseteq DOMAIN u.events
    BY <1>6, <2>1 DEF Part
  <2>4. \A r \in 1..Len(C!Plan(task.step)) : task.step = "users" => C!Plan(task.step)[r] = "users"
    BY PlanIs
  <2>5. ASSUME NEW r \in 1..(task.request - 1), C!Plan(task.step)[r] \in C!Searches
        PROVE  task.due \cap Asks(u, C!Plan(task.step)[r]) \subseteq task.found
    <3>1. r \in 1..Len(C!Plan(task.step))
      <4>1. task.request \in 1..Len(C!Plan(task.step)) /\ task.request \in Nat
        BY <1>9, <2>1, AskingIs DEF Part, Tasks
      <4>2. Len(C!Plan(task.step)) \in Nat
        BY <2>1, PlanIs, SearchesAre DEF StepNames, C!Downloads
      <4> QED BY <4>1, <4>2
    <3>2. task.due \cap Asks(recorder, C!Plan(task.step)[r]) \subseteq task.found
      BY <2>1, <2>5 DEF Part
    <3>3. \A n \in task.due : n \in Asks(u, C!Plan(task.step)[r])
                              => n \in Asks(recorder, C!Plan(task.step)[r])
      <4>1. \A n \in task.due : task.step # "users" => n \in DOMAIN recorder.events
        BY <2>1 DEF Part
      <4> QED BY <1>7, <2>4, <3>1, <4>1
    <3> QED BY <3>2, <3>3
  <2>6. ASSUME C!Plan(task.step)[task.request] \in C!Searches
        PROVE  LET list == C!InOrder(Asks(u, C!Plan(task.step)[task.request])) IN
               /\ task.position <= Len(list) /\ \A i \in 1..task.position : list[i] \in task.found
               /\ task.pages < MaxPages /\ task.pages * Share(u) <= task.position
    <3>1. PICK x : x = C!Plan(task.step)[task.request]
      OBVIOUS
    <3>2. PICK old, new : old = C!InOrder(Asks(recorder, x)) /\ new = C!InOrder(Asks(u, x))
      OBVIOUS
    <3>3. /\ task.position <= Len(old) /\ \A i \in 1..task.position : old[i] \in task.found
          /\ task.pages < MaxPages /\ task.pages * Share(recorder) <= task.position
      BY <2>1, <2>6, <3>1, <3>2 DEF Part
    <3>4. Len(old) \in Nat /\ Len(new) \in Nat
      <4>1. Asks(recorder, x) \in SUBSET Nat /\ IsFiniteSet(Asks(recorder, x))
            /\ Asks(u, x) \in SUBSET Nat /\ IsFiniteSet(Asks(u, x))
        BY <1>1, <1>6, AsksIs
      <4> QED BY <3>2, <4>1, InOrderIs
    <3>5. Len(old) <= Len(new) /\ \A i \in 1..Len(old) : new[i] = old[i]
      BY <1>7, <3>2
    <3>6. task.position <= Len(new) /\ \A i \in 1..task.position : new[i] \in task.found
      <4>1. \A i \in 1..task.position : i \in 1..Len(old)
        BY <2>1, <3>3, <3>4
      <4> QED BY <2>1, <3>3, <3>4, <3>5, <4>1
    <3> QED BY <1>6, <3>1, <3>2, <3>3, <3>6
  <2>7. task.request \in 1..Len(C!Plan(task.step))
    BY <2>1 DEF Part
  <2> QED BY <2>2, <2>3, <2>5, <2>6, <2>7 DEF Part
<1>10. task # None => Underway(task, u, adapter, report)
  BY <1>6, <1>9 DEF CallsInv, CallsState, Underway
<1>11. CallsState(u, adapter, task, report, saved)
  BY <1>6, <1>8, <1>10 DEF CallsInv, CallsState
<1> QED BY <1>1, <1>4, <1>11 DEF CallsInv

LEMMA CallsStep == ASSUME CallsInv, C!Next PROVE CallsInv'
<1>1. CASE \E by \in {"probe", "sync", "test"} : C!Begin(by)
  BY <1>1, BeginKeeps
<1> QED
  BY <1>1, ConnectedKeeps, NotConnectedKeeps, AnsweredKeeps, PageKeeps, RefitKeeps, RefusedKeeps,
     LostKeeps, GarbledKeeps, RecordKeeps
  DEF C!Next

LEMMA CallsInit == C!Init => CallsInv
<1> SUFFICES ASSUME C!Init PROVE CallsInv
  OBVIOUS
<1>1. /\ recorder \in Fleet /\ task = None /\ saved = 0
      /\ adapter = [connected |-> FALSE, pageSize |-> LargePage]
      /\ report = [by |-> "test", entries |-> <<>>, lost |-> 0, garbled |-> 0, refused |-> 0]
  BY DEF C!Init, C!NewAdapter, C!NewReport
<1>2. recorder \in Recorders
  BY <1>1, CallsAssumption DEF Recorders
<1>3. adapter \in HikAdapters /\ ~adapter.connected
  BY <1>1 DEF HikAdapters
<1>4. <<>> \in Seq(Rows)
  OBVIOUS
<1>5. report \in Reports /\ report.by = "test" /\ report.entries = <<>> /\ report.refused = 0
  BY <1>1, <1>4 DEF Reports
<1>6. Whole(report.entries) /\ Well(report.entries)
  BY <1>5 DEF Whole, Well
<1>7. CallsState(recorder, adapter, task, report, saved)
  BY <1>1, <1>2, <1>3, <1>5, <1>6 DEF CallsState
<1> QED BY <1>7 DEF CallsInv

LEMMA CallsAlone == ASSUME CallsInv, UNCHANGED calls PROVE CallsInv'
BY DEF calls, CallsInv

LEMMA CallsKept == CallsInv => TerminalIsRead
<1> SUFFICES ASSUME CallsInv PROVE TerminalIsRead
  OBVIOUS
<1>1. /\ recorder \in Recorders /\ report \in Reports /\ report.refused <= 1
      /\ Whole(report.entries) /\ (Fine(recorder, report) => Well(report.entries))
      /\ task = None /\ report.entries # <<>> /\ report.by = "probe"
         => Reported(report.entries, RowNames)
  BY DEF CallsInv, CallsState
<1>2. C!NothingLeftOut
  BY <1>1 DEF Whole, C!NothingLeftOut
<1>3. ASSUME task = None, report.entries # <<>> PROVE C!Complete
  <2> SUFFICES ASSUME report.by = "probe", NEW k \in DOMAIN C!Steps
               PROVE  C!Cardinality({i \in DOMAIN report.entries :
                                       report.entries[i].step = C!Steps[k]}) = 1
    BY DEF C!Complete
  <2>1. Reported(report.entries, RowNames)
    BY <1>1, <1>3
  <2>2. C!Steps[k] \in RowNames
    BY StepsAre
  <2>3. PICK i \in DOMAIN report.entries : report.entries[i].step = C!Steps[k]
    BY <2>1, <2>2 DEF Reported
  <2>4. \A j \in DOMAIN report.entries : report.entries[j].step = C!Steps[k] => j = i
    BY <2>1, <2>3 DEF Reported
  <2>5. {j \in DOMAIN report.entries : report.entries[j].step = C!Steps[k]} = {i}
    BY <2>3, <2>4
  <2>6. C!Cardinality({i}) = Cardinality({i})
    BY DEF C!Cardinality, Cardinality
  <2> QED BY <2>5, <2>6, FS_Singleton
<1>4. C!TroublesSurvived
  <2> SUFFICES ASSUME recorder.known, C!Servable, report.garbled = 0,
                      report.lost < (IF report.by = "sync" THEN Attempts ELSE 1)
               PROVE  C!Statuses \cap {"fail", "skipped"} = {}
    BY DEF C!TroublesSurvived
  <2>1. ASSUME NEW request \in C!Searches
        PROVE  Cardinality(Asks(recorder, request)) <= MaxPages * Share(recorder)
    <3>1. PICK wants \in SUBSET Nat : wants = Asks(recorder, request) /\ IsFiniteSet(wants)
      BY <1>1, AsksIs
    <3>2. C!Wanted(request) = wants
      BY <3>1 DEF C!Wanted, C!Serials, Asks
    <3>3. Len(C!Listed(request)) = Cardinality(wants)
      BY <3>1, <3>2, InOrderIs DEF C!Listed
    <3>4. C!Least(SmallPage, recorder.cap) = Share(recorder)
      <4>1. SmallPage \in Nat /\ recorder.cap \in Nat
        BY <1>1, CallsAssumption DEF Recorders
      <4> QED BY <4>1 DEF C!Least, Share
    <3>5. Len(C!Listed(request)) <= MaxPages * C!Least(SmallPage, recorder.cap)
      BY DEF C!Servable
    <3> QED BY <3>1, <3>3, <3>4, <3>5
  <2>2. recorder.limit # None => recorder.limit >= SmallPage
    BY DEF C!Servable
  <2>3. Fine(recorder, report)
    BY <2>1, <2>2 DEF Fine, Serves
  <2>4. \A i \in DOMAIN report.entries : report.entries[i].status \in {"ok", "warn"}
    BY <1>1, <2>3 DEF Well
  <2> QED BY <2>4 DEF C!Statuses
<1> QED BY <1>1, <1>2, <1>3, <1>4 DEF TerminalIsRead, C!TerminalIsRead

(* Whatever is lost, garbled or recorded meanwhile, and however a terminal *)
(* cuts its pages, an operation that does not fail returns all there was   *)
(* to return; a probe reports every step once; what fails, fails for a     *)
(* reason; and a password is refused at most once (hikvision.adapter.ts,   *)
(* isapi-client.ts, probe.ts).                                             *)
THEOREM WhatDidNotFailIsWhole == Spec => []TerminalIsRead
<1>1. Init => CallsInv
  BY CallsInit DEF Init
<1>2. CallsInv /\ [Next]_vars => CallsInv'
  BY CallsStep, CallsAlone DEF Next, vars
<1> QED BY <1>1, <1>2, CallsKept, PTL DEF Spec
=============================================================================
