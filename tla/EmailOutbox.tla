---------------------------- MODULE EmailOutbox -----------------------------
(***************************************************************************)
(* The email outbox of the notifications: several API instances claim the  *)
(* pending deliveries one by one, send them over SMTP and record the        *)
(* outcome.  A run is a loop of awaits; every statement of it is a step,   *)
(* and the claim of a crashed instance is taken over once it is stale.     *)
(*                                                                         *)
(* The clock counts dispatch intervals: every instance starts a run in each *)
(* of them, unless its previous run is still going on.                     *)
(***************************************************************************)
EXTENDS Naturals, Sequences, FiniteSets

CONSTANTS
  None,           \* no row, no lock
  Emails,         \* deliveries (one per notification)
  Workers,        \* API instances
  Backoff,        \* BACKOFF_MINUTES: the waits after each failed send
  Stale,          \* STALE_CLAIM_MS
  MaxAge,         \* EMAIL_MAX_AGE_MS
  BatchSize,      \* BATCH_SIZE
  MaxTime,        \* bound: the clock
  MaxRejections,  \* bound: sends the server refuses
  MaxFailures,    \* bound: crashes, lost answers and failed statements
  SlowRun         \* may a run last longer than Stale?

ASSUME TimeAssumption ==
  /\ Backoff \in Seq(Nat) /\ Stale \in Nat /\ MaxAge \in Nat /\ MaxTime \in Nat
ASSUME BatchAssumption == BatchSize \in Nat \ {0}
ASSUME BoundAssumption == MaxRejections \in Nat /\ MaxFailures \in Nat
ASSUME SlowRunAssumption == SlowRun \in BOOLEAN

VARIABLES
  clock,
  delivery,   \* email_deliveries, by email
  read,       \* notifications read in the app
  optedOut,   \* the user is inactive, or turned this email off
  job,        \* job[w]: where the run of instance w is, and its local variables
  tried,      \* history: how often an email was handed to the transport
  accepted,   \* history: how often the server took it
  spent       \* how much of each bound is used

vars == <<clock, delivery, read, optedOut, job, tried, accepted, spent>>

-----------------------------------------------------------------------------
Statuses == {"PENDING", "SENT", "SKIPPED", "FAILED"}

MAX_EMAIL_ATTEMPTS == Len(Backoff) + 1

Delivery == [status : Statuses, attempts : 0..MAX_EMAIL_ATTEMPTS, next : Nat,
             created : Nat, lockedAt : Nat \cup {None}]

ASSUME NoneAssumption == None \notin Nat \cup Delivery

Job == [pc : {"idle", "expiring", "listing", "claiming", "looking", "skipping",
              "sending", "sent", "unsent"},
        now : Nat, due : SUBSET Emails, email : Emails \cup {None}, attempts : Nat]

At(w, s) == job[w].pc = s

Is(e, s) == delivery[e] # None /\ delivery[e].status = s

Pending(e) == Is(e, "PENDING")

\* The states of a run between a claim that matched and its finish().
Holding(w) == job[w].pc \in {"looking", "skipping", "sending", "sent", "unsent"}

Init ==
  /\ clock = 1
  /\ delivery = [e \in Emails |-> None]
  /\ read = {} /\ optedOut = FALSE
  /\ job = [w \in Workers |-> [pc |-> "idle", now |-> 0, due |-> {}, email |-> None,
                               attempts |-> 0]]
  /\ tried = [e \in Emails |-> 0]
  /\ accepted = [e \in Emails |-> 0]
  /\ spent = [rejections |-> 0, failures |-> 0]

-----------------------------------------------------------------------------
(* The surroundings: time, notifications, people.                          *)

Tick ==
  /\ clock < MaxTime
  /\ \A w \in Workers :
       IF At(w, "idle") THEN job[w].now = clock
       ELSE SlowRun \/ clock + 1 <= job[w].now + Stale
  /\ clock' = clock + 1
  /\ UNCHANGED <<delivery, read, optedOut, job, tried, accepted, spent>>

\* A notification and its delivery are stored in one transaction.
Queue(e) ==
  /\ delivery[e] = None
  /\ clock + MaxAge < MaxTime
  /\ delivery' = [delivery EXCEPT ![e] = [status |-> "PENDING", attempts |-> 0,
                                          next |-> clock, created |-> clock,
                                          lockedAt |-> None]]
  /\ UNCHANGED <<clock, read, optedOut, job, tried, accepted, spent>>

MarkRead(e) ==
  /\ delivery[e] # None
  /\ read' = read \cup {e}
  /\ UNCHANGED <<clock, delivery, optedOut, job, tried, accepted, spent>>

UpdatePreferences ==
  /\ optedOut' = ~optedOut
  /\ UNCHANGED <<clock, delivery, read, job, tried, accepted, spent>>

-----------------------------------------------------------------------------
(* A run: run() and dispatch().                                            *)

BeginRun(w) ==
  /\ At(w, "idle")
  /\ job[w].now < clock
  /\ job' = [job EXCEPT ![w].pc = "expiring", ![w].now = clock]
  /\ UNCHANGED <<clock, delivery, read, optedOut, tried, accepted, spent>>

\* Mutant: whatever its status.
TooOldAnyStatus(e, now) == delivery[e] # None /\ delivery[e].created + MaxAge < now

TooOld(e, now) == Pending(e) /\ delivery[e].created + MaxAge < now

\* One statement; also deliveries another instance is sending right now.
Expire(w) ==
  /\ At(w, "expiring")
  /\ delivery' = [e \in Emails |->
                    IF TooOld(e, job[w].now)
                      THEN [delivery[e] EXCEPT !.status = "SKIPPED", !.lockedAt = None]
                      ELSE delivery[e]]
  /\ job' = [job EXCEPT ![w].pc = "listing"]
  /\ UNCHANGED <<clock, read, optedOut, tried, accepted, spent>>

\* Mutant: a claim is never taken over.
ClaimableIfFree(e, now) == Pending(e) /\ delivery[e].next <= now /\ delivery[e].lockedAt = None

\* claimable, with the `now` of the run.
Claimable(e, now) ==
  /\ Pending(e) /\ delivery[e].next <= now
  /\ delivery[e].lockedAt # None => delivery[e].lockedAt + Stale < now

\* A batch of the due ones, the longest waiting first.
Batches(now) ==
  LET all == {e \in Emails : Claimable(e, now)} IN
  {due \in SUBSET all :
     /\ Cardinality(due) = IF Cardinality(all) < BatchSize THEN Cardinality(all) ELSE BatchSize
     /\ \A e \in due, f \in all \ due : delivery[e].next <= delivery[f].next}

\* The run goes on with the next of its batch, or ends.
NextOf(w, due) ==
  [job[w] EXCEPT !.pc = IF due = {} THEN "idle" ELSE "claiming", !.due = due,
                 !.email = None, !.attempts = 0]

ListDue(w) ==
  /\ At(w, "listing")
  /\ \E due \in Batches(job[w].now) : job' = [job EXCEPT ![w] = NextOf(w, due)]
  /\ UNCHANGED <<clock, delivery, read, optedOut, tried, accepted, spent>>

\* The conditional update that is the lock: it stamps the start of the run.
Claim(w) ==
  /\ At(w, "claiming")
  /\ \E e \in job[w].due :
       IF Claimable(e, job[w].now)
         THEN /\ delivery' = [delivery EXCEPT ![e].lockedAt = job[w].now]
              /\ job' = [job EXCEPT ![w].pc = "looking", ![w].email = e,
                                    ![w].due = @ \ {e}]
         ELSE /\ job' = [job EXCEPT ![w] = NextOf(w, job[w].due \ {e})]
              /\ UNCHANGED delivery
  /\ UNCHANGED <<clock, read, optedOut, tried, accepted, spent>>

\* The delivery, its notification and the recipient are read once.
Look(w) ==
  LET e == job[w].email IN
  /\ At(w, "looking")
  /\ job' = [job EXCEPT ![w].pc = IF e \in read \/ optedOut THEN "skipping" ELSE "sending",
                        ![w].attempts = delivery[e].attempts]
  /\ UNCHANGED <<clock, delivery, read, optedOut, tried, accepted, spent>>

\* transport.send: the server takes the message and says so,
Send(w) ==
  /\ At(w, "sending")
  /\ job' = [job EXCEPT ![w].pc = "sent", ![w].attempts = @ + 1]
  /\ tried' = [tried EXCEPT ![job[w].email] = @ + 1]
  /\ accepted' = [accepted EXCEPT ![job[w].email] = @ + 1]
  /\ UNCHANGED <<clock, delivery, read, optedOut, spent>>

\* refuses it or cannot be reached,
Reject(w) ==
  /\ At(w, "sending")
  /\ spent.rejections < MaxRejections
  /\ spent' = [spent EXCEPT !.rejections = @ + 1]
  /\ job' = [job EXCEPT ![w].pc = "unsent", ![w].attempts = @ + 1]
  /\ tried' = [tried EXCEPT ![job[w].email] = @ + 1]
  /\ UNCHANGED <<clock, delivery, read, optedOut, accepted>>

\* or takes it and its answer is lost.
LoseAnswer(w) ==
  /\ At(w, "sending")
  /\ spent.failures < MaxFailures
  /\ spent' = [spent EXCEPT !.failures = @ + 1]
  /\ job' = [job EXCEPT ![w].pc = "unsent", ![w].attempts = @ + 1]
  /\ tried' = [tried EXCEPT ![job[w].email] = @ + 1]
  /\ accepted' = [accepted EXCEPT ![job[w].email] = @ + 1]
  /\ UNCHANGED <<clock, delivery, read, optedOut>>

\* finish(): an update by id, which releases the claim.
Finish(w, row) ==
  /\ delivery' = [delivery EXCEPT ![job[w].email] = [row EXCEPT !.lockedAt = None]]
  /\ job' = [job EXCEPT ![w] = NextOf(w, job[w].due)]
  /\ UNCHANGED <<clock, read, optedOut, tried, accepted, spent>>

FinishSkipped(w) ==
  /\ At(w, "skipping")
  /\ Finish(w, [delivery[job[w].email] EXCEPT !.status = "SKIPPED"])

\* Mutant: the status is left out of the update.
FinishSentPending(w) ==
  /\ At(w, "sent")
  /\ Finish(w, [delivery[job[w].email] EXCEPT !.attempts = job[w].attempts])

FinishSent(w) ==
  /\ At(w, "sent")
  /\ Finish(w, [delivery[job[w].email] EXCEPT !.status = "SENT", !.attempts = job[w].attempts])

\* The statement fails inside the try block: the catch block takes it for a
\* failed send.
FinishSentFails(w) ==
  /\ At(w, "sent")
  /\ spent.failures < MaxFailures
  /\ spent' = [spent EXCEPT !.failures = @ + 1]
  /\ job' = [job EXCEPT ![w].pc = "unsent"]
  /\ UNCHANGED <<clock, delivery, read, optedOut, tried, accepted>>

\* nextAttemptAfter: the next wait, or the end.  A retry leaves the status alone.
AfterFailure(row, attempts, now) ==
  IF attempts < MAX_EMAIL_ATTEMPTS
    THEN [row EXCEPT !.attempts = attempts, !.next = now + Backoff[attempts]]
    ELSE [row EXCEPT !.status = "FAILED", !.attempts = attempts]

FinishUnsent(w) ==
  /\ At(w, "unsent")
  /\ Finish(w, AfterFailure(delivery[job[w].email], job[w].attempts, job[w].now))

\* The instance dies, or a statement outside the try block fails: the run ends,
\* a claim stays.
Die(w) ==
  /\ ~At(w, "idle")
  /\ spent.failures < MaxFailures
  /\ spent' = [spent EXCEPT !.failures = @ + 1]
  /\ job' = [job EXCEPT ![w] = NextOf(w, {})]
  /\ UNCHANGED <<clock, delivery, read, optedOut, tried, accepted>>

-----------------------------------------------------------------------------
Dispatch(w) ==
  \/ BeginRun(w) \/ Expire(w) \/ ListDue(w) \/ Claim(w) \/ Look(w)
  \/ Send(w) \/ Reject(w) \/ LoseAnswer(w)
  \/ FinishSkipped(w) \/ FinishSent(w) \/ FinishSentFails(w) \/ FinishUnsent(w)

Next ==
  \/ Tick \/ UpdatePreferences
  \/ \E e \in Emails : Queue(e) \/ MarkRead(e)
  \/ \E w \in Workers : Dispatch(w) \/ Die(w)

Spec == Init /\ [][Next]_vars

\* setInterval keeps starting runs, and a run goes on (SMTP and the database have
\* timeouts).
Fairness == WF_vars(Tick) /\ \A w \in Workers : WF_vars(Dispatch(w))

FairSpec == Spec /\ Fairness

-----------------------------------------------------------------------------
(* Properties.                                                             *)

TypeOK ==
  /\ clock \in Nat
  /\ delivery \in [Emails -> Delivery \cup {None}]
  /\ read \in SUBSET Emails /\ optedOut \in BOOLEAN
  /\ job \in [Workers -> Job]
  /\ tried \in [Emails -> Nat] /\ accepted \in [Emails -> Nat]
  /\ spent \in [rejections : Nat, failures : Nat]

\* The claim is the lock: two instances never have the same email in hand, also
\* when one takes over the claim of a crashed one.
OneSender ==
  \A v, w \in Workers :
    Holding(v) /\ Holding(w) /\ job[v].email = job[w].email => v = w

\* Every email leaves once, save for one more per crash, lost answer or failed
\* statement.
SentOnce == \A e \in Emails : accepted[e] <= 1 + spent.failures

\* After the fifth failure it is over: the attempts the server sees are at most
\* MAX_EMAIL_ATTEMPTS, save for those of runs that died before counting them.
AttemptsBounded == \A e \in Emails : tried[e] <= MAX_EMAIL_ATTEMPTS + spent.failures

\* What was sent or given up stays so, whatever other runs still do.
OutcomeIsFinal ==
  [][\A e \in Emails, s \in {"SENT", "FAILED"} : Is(e, s) => Is(e, s)']_vars

\* No email of a moment long past: one in hand is at most a run older than MaxAge.
NotTooLate ==
  \A w \in Workers :
    At(w, "sending") => clock <= delivery[job[w].email].created + MaxAge + Stale

\* Fewer failures than attempts do not lose an email its user still wants.
Delivered ==
  []~optedOut => \A e \in Emails : Pending(e) ~> (Is(e, "SENT") \/ e \in read)
=============================================================================
