------------------------- MODULE EmailOutboxProofs --------------------------
(***************************************************************************)
(* Proofs about EmailOutbox, for any number of instances and emails, any    *)
(* backoff and any number of faults: when no run outlives its claims, the   *)
(* claim excludes, every email leaves once, its attempts are bounded and    *)
(* its outcome is final.                                                   *)
(***************************************************************************)
EXTENDS EmailOutbox, SequenceTheorems, TLAPS

\* A run that is going on started no more than Stale ago.
Prompt ==
  \A w \in Workers :
    /\ job[w].now <= clock
    /\ ~At(w, "idle") => clock <= job[w].now + Stale

\* What an instance has in hand is queued, and is either claimed since the start
\* of its run or was skipped meanwhile for its age.
Held ==
  \A w \in Workers : Holding(w) =>
    /\ job[w].email \in Emails
    /\ delivery[job[w].email] # None
    /\ \/ delivery[job[w].email].status = "SKIPPED"
       \/ /\ delivery[job[w].email].status = "PENDING"
          /\ delivery[job[w].email].lockedAt = job[w].now

\* Attempts are left to an email that is not sent or given up, and a run counts
\* on from the number it read.
Counted ==
  /\ \A e \in Emails : delivery[e] # None =>
       (delivery[e].status \in {"PENDING", "SKIPPED"} => delivery[e].attempts < MAX_EMAIL_ATTEMPTS)
  /\ \A w \in Workers :
       /\ At(w, "sending") => job[w].attempts = delivery[job[w].email].attempts
       /\ (At(w, "sent") \/ At(w, "unsent")) =>
            job[w].attempts = delivery[job[w].email].attempts + 1

\* Some instance has handed e to the transport and not recorded it yet.
Unrecorded(e) == \E w \in Workers : job[w].pc \in {"sent", "unsent"} /\ job[w].email = e

\* Some instance knows that the server took e, and has not recorded it yet.
Unreported(e) == \E w \in Workers : At(w, "sent") /\ job[w].email = e

Tries ==
  \A e \in Emails :
    /\ delivery[e] = None => tried[e] = 0
    /\ delivery[e] # None =>
         /\ Unrecorded(e)  => tried[e] <= delivery[e].attempts + 1 + spent.failures
         /\ ~Unrecorded(e) => tried[e] <= delivery[e].attempts + spent.failures

Accepts ==
  \A e \in Emails :
    /\ accepted[e] <= 1 + spent.failures
    /\ ~Is(e, "SENT") /\ ~Unreported(e) => accepted[e] <= spent.failures

\* After its expiry step, a run finds nothing pending that was too old when it began.
Young ==
  \A w \in Workers :
    /\ ~(At(w, "idle") \/ At(w, "expiring")) =>
         \A e \in Emails : Pending(e) => job[w].now <= delivery[e].created + MaxAge
    /\ Holding(w) => job[w].now <= delivery[job[w].email].created + MaxAge

IInv == TypeOK /\ Prompt /\ Held /\ OneSender /\ Counted /\ Tries /\ Accepts /\ Young

Spent == [rejections : Nat, failures : Nat]

-----------------------------------------------------------------------------
\* The number of attempts is a positive number.
LEMMA MaxAttempts == MAX_EMAIL_ATTEMPTS \in Nat \ {0}
BY TimeAssumption, LenProperties DEF MAX_EMAIL_ATTEMPTS

\* The invariant holds initially.
LEMMA Initially == Init => IInv
<1> SUFFICES ASSUME Init PROVE IInv
  OBVIOUS
<1>1. TypeOK
  BY DEF Init, TypeOK, Job
<1>2. Prompt /\ Held /\ OneSender /\ Counted /\ Young
  BY DEF Init, Prompt, Held, OneSender, Counted, Young, Holding, At
<1>3. Tries /\ Accepts
  BY DEF Init, Tries, Accepts
<1>4. QED
  BY <1>1, <1>2, <1>3 DEF IInv

\* Facts of the state that every step uses.
LEMMA Facts ==
  ASSUME IInv
  PROVE  /\ TypeOK
         /\ \A w \in Workers : job[w] \in Job
         /\ \A e \in Emails : delivery[e] # None => delivery[e] \in Delivery
BY DEF IInv, TypeOK

-----------------------------------------------------------------------------
(* Time, notifications and people.                                         *)

LEMMA TickStep == IInv /\ ~SlowRun /\ Tick => IInv'
<1> SUFFICES ASSUME IInv, ~SlowRun, Tick PROVE IInv'
  OBVIOUS
<1>1. /\ clock' = clock + 1 /\ clock \in Nat
      /\ UNCHANGED <<delivery, read, optedOut, job, tried, accepted, spent>>
  BY DEF Tick, IInv, TypeOK
<1>2. TypeOK'
  BY <1>1 DEF IInv, TypeOK
<1>3. Prompt'
  BY <1>1, Facts DEF IInv, Tick, Job, Prompt, At
<1>4. Held' /\ OneSender' /\ Counted'
  BY <1>1 DEF IInv, Held, OneSender, Counted, Holding, At
<1>5. Tries' /\ Accepts' /\ Young'
  BY <1>1 DEF IInv, Tries, Accepts, Young, Unrecorded, Unreported, Is, Pending, Holding, At
<1>6. QED
  BY <1>2, <1>3, <1>4, <1>5 DEF IInv

LEMMA PeopleStep ==
  IInv /\ (UpdatePreferences \/ \E e \in Emails : MarkRead(e)) => IInv'
<1> SUFFICES ASSUME IInv, UpdatePreferences \/ \E e \in Emails : MarkRead(e) PROVE IInv'
  OBVIOUS
<1>1. /\ UNCHANGED <<clock, delivery, job, tried, accepted, spent>>
      /\ read' \in SUBSET Emails /\ optedOut' \in BOOLEAN
  BY DEF UpdatePreferences, MarkRead, IInv, TypeOK
<1>2. TypeOK'
  BY <1>1 DEF IInv, TypeOK
<1>3. Prompt' /\ Held' /\ OneSender' /\ Counted'
  BY <1>1 DEF IInv, Prompt, Held, OneSender, Counted, Holding, At
<1>4. Tries' /\ Accepts' /\ Young'
  BY <1>1 DEF IInv, Tries, Accepts, Young, Unrecorded, Unreported, Is, Pending, Holding, At
<1>5. QED
  BY <1>2, <1>3, <1>4 DEF IInv

LEMMA QueueStep == ASSUME NEW e \in Emails, IInv, Queue(e) PROVE IInv'
<1> DEFINE row == [status |-> "PENDING", attempts |-> 0, next |-> clock, created |-> clock,
                   lockedAt |-> None]
<1>1. /\ delivery[e] = None /\ delivery' = [delivery EXCEPT ![e] = row]
      /\ UNCHANGED <<clock, read, optedOut, job, tried, accepted, spent>>
  BY DEF Queue
<1>2. row \in Delivery /\ row # None
  BY MaxAttempts, NoneAssumption, Facts DEF TypeOK, Delivery, Statuses
<1>3. delivery'[e] = row /\ \A f \in Emails \ {e} : delivery'[f] = delivery[f]
  BY <1>1, Facts DEF TypeOK
<1>4. row.status = "PENDING" /\ row.attempts = 0 /\ row.created = clock
  OBVIOUS
<1>5. \A w \in Workers : Holding(w) => job[w].email \in Emails \ {e}
  BY <1>1 DEF IInv, Held
<1> HIDE DEF row
<1>6. TypeOK'
  BY <1>1, <1>2 DEF IInv, TypeOK
<1>7. Prompt' /\ OneSender'
  BY <1>1 DEF IInv, Prompt, OneSender, Holding, At
<1>8. Held'
  BY <1>1, <1>3, <1>5 DEF IInv, Held, Holding
<1>9. Counted'
  BY <1>1, <1>2, <1>3, <1>4, <1>5, MaxAttempts DEF IInv, Counted, Holding, At
<1>10. Tries'
  BY <1>1, <1>2, <1>3, <1>4, <1>5, Facts DEF IInv, TypeOK, Spent, Tries, Unrecorded, Holding
<1>11. Accepts'
  BY <1>1, <1>2, <1>3, <1>4 DEF IInv, Accepts, Unreported, Is, At
<1>12. Young'
  <2>1. \A w \in Workers : job[w].now <= row.created + MaxAge
    BY <1>4, Facts, TimeAssumption DEF IInv, TypeOK, Job, Prompt
  <2>2. QED
    BY <1>1, <1>2, <1>3, <1>5, <2>1 DEF IInv, Young, Pending, Is, Holding, At
<1>13. QED
  BY <1>6, <1>7, <1>8, <1>9, <1>10, <1>11, <1>12 DEF IInv

-----------------------------------------------------------------------------
(* Steps of a run that touch no delivery.                                  *)

\* What becomes of the run of w, when deliveries and histories stay as they are
\* and it takes nothing into its hands.
LEMMA RunStep ==
  ASSUME IInv, NEW w \in Workers, NEW new \in Job,
         job' = [job EXCEPT ![w] = new],
         UNCHANGED <<clock, delivery, read, optedOut, tried, accepted>>,
         spent' \in Spent,
         spent'.failures = spent.failures \/ spent'.failures = spent.failures + 1,
         new.now <= clock,
         new.pc # "idle" => clock <= new.now + Stale,
         new.pc \in {"looking", "skipping", "sending", "sent", "unsent"} =>
           Holding(w) /\ new.email = job[w].email /\ new.now = job[w].now,
         new.pc = "sending" => new.attempts = delivery[new.email].attempts,
         new.pc \in {"sent", "unsent"} =>
           new.attempts = delivery[new.email].attempts + 1 /\ job[w].pc \in {"sent", "unsent"},
         job[w].pc \in {"sent", "unsent"} /\ new.pc \notin {"sent", "unsent"} =>
           spent'.failures = spent.failures + 1,
         new.pc = "sent" => job[w].pc = "sent",
         job[w].pc = "sent" /\ new.pc # "sent" => spent'.failures = spent.failures + 1,
         new.pc \notin {"idle", "expiring"} =>
           job[w].pc \notin {"idle", "expiring"} /\ new.now = job[w].now
  PROVE  IInv'
<1>1. job'[w] = new /\ \A v \in Workers \ {w} : job'[v] = job[v]
  BY Facts DEF TypeOK
<1>2. TypeOK'
  BY Facts DEF TypeOK, Spent
<1>3. Prompt'
  BY <1>1 DEF IInv, Prompt, At
<1>4. Held'
  BY <1>1 DEF IInv, Held, Holding
<1>5. OneSender'
  BY <1>1 DEF IInv, OneSender, Holding
<1>6. Counted'
  BY <1>1 DEF IInv, Counted, At
<1>7. Tries'
  <2> SUFFICES ASSUME NEW e \in Emails, delivery[e] # None
               PROVE  /\ Unrecorded(e)' => tried[e] <= delivery[e].attempts + 1 + spent'.failures
                      /\ ~Unrecorded(e)' => tried[e] <= delivery[e].attempts + spent'.failures
    BY DEF IInv, Tries
  <2>1. /\ tried[e] \in Nat /\ delivery[e].attempts \in Nat /\ spent.failures \in Nat
        /\ spent'.failures \in Nat
    BY Facts, MaxAttempts DEF TypeOK, Spent, Delivery
  <2>2. Unrecorded(e)' => Unrecorded(e)
    BY <1>1 DEF Unrecorded
  <2>3. Unrecorded(e) /\ ~Unrecorded(e)' => spent'.failures = spent.failures + 1
    BY <1>1 DEF Unrecorded, Holding
  <2>4. QED
    BY <2>1, <2>2, <2>3 DEF IInv, Tries
<1>8. Accepts'
  <2> SUFFICES ASSUME NEW e \in Emails
               PROVE  /\ accepted[e] <= 1 + spent'.failures
                      /\ ~Is(e, "SENT") /\ ~Unreported(e)' => accepted[e] <= spent'.failures
    BY DEF IInv, Accepts, Is
  <2>1. accepted[e] \in Nat /\ spent.failures \in Nat /\ spent'.failures \in Nat
    BY Facts DEF TypeOK, Spent
  <2>2. Unreported(e) /\ ~Unreported(e)' => spent'.failures = spent.failures + 1
    BY <1>1 DEF Unreported, At, Holding
  <2>3. QED
    BY <2>1, <2>2 DEF IInv, Accepts
<1>9. Young'
  BY <1>1 DEF IInv, Young, Pending, Is, Holding, At
<1>10. QED
  BY <1>2, <1>3, <1>4, <1>5, <1>6, <1>7, <1>8, <1>9 DEF IInv

LEMMA BeginRunStep == ASSUME NEW w \in Workers, IInv, BeginRun(w) PROVE IInv'
<1> DEFINE new == [job[w] EXCEPT !.pc = "expiring", !.now = clock]
<1>1. job[w] \in Job /\ clock \in Nat /\ spent \in Spent /\ Stale \in Nat
  BY Facts, TimeAssumption DEF TypeOK, Spent
<1>2. new \in Job /\ new.pc = "expiring" /\ new.now = clock
  BY <1>1 DEF Job
<1>3. /\ job' = [job EXCEPT ![w] = new] /\ job[w].pc = "idle"
      /\ UNCHANGED <<clock, delivery, read, optedOut, tried, accepted, spent>>
  BY DEF BeginRun, At
<1>4. new.now <= clock /\ clock <= new.now + Stale
  BY <1>1, <1>2
<1> HIDE DEF new
<1>5. QED
  BY <1>1, <1>2, <1>3, <1>4, RunStep

\* The next of a batch, or the end: nothing in hand.
LEMMA NextOfType ==
  ASSUME IInv, NEW w \in Workers, NEW due \in SUBSET Emails
  PROVE  /\ NextOf(w, due) \in Job
         /\ NextOf(w, due).pc \in {"idle", "claiming"}
         /\ NextOf(w, due).now = job[w].now
BY Facts DEF NextOf, Job

LEMMA ListDueStep == ASSUME NEW w \in Workers, IInv, ListDue(w) PROVE IInv'
<1>1. job[w] \in Job /\ spent \in Spent /\ job[w].pc = "listing"
  BY Facts DEF TypeOK, Spent, ListDue, At
<1>2. PICK due \in SUBSET Emails : job' = [job EXCEPT ![w] = NextOf(w, due)]
  BY DEF ListDue, Batches, Claimable
<1>3. UNCHANGED <<clock, delivery, read, optedOut, tried, accepted, spent>>
  BY DEF ListDue
<1>4. job[w].now <= clock /\ clock <= job[w].now + Stale
  BY <1>1 DEF IInv, Prompt, At
<1>5. QED
  BY <1>1, <1>2, <1>3, <1>4, NextOfType, RunStep

LEMMA LookStep == ASSUME NEW w \in Workers, IInv, Look(w) PROVE IInv'
<1> DEFINE e == job[w].email
           new == [job[w] EXCEPT !.pc = IF e \in read \/ optedOut THEN "skipping" ELSE "sending",
                                 !.attempts = delivery[e].attempts]
<1>1. job[w] \in Job /\ spent \in Spent /\ job[w].pc = "looking"
  BY Facts DEF TypeOK, Spent, Look, At
<1>2. delivery[e].attempts \in Nat
  BY <1>1, Facts, MaxAttempts DEF IInv, Held, Holding, Delivery
<1>3. /\ new \in Job /\ new.pc \in {"skipping", "sending"} /\ new.now = job[w].now
      /\ new.email = e /\ new.attempts = delivery[e].attempts
  BY <1>1, <1>2 DEF Job
<1>4. /\ job' = [job EXCEPT ![w] = new]
      /\ UNCHANGED <<clock, delivery, read, optedOut, tried, accepted, spent>>
  BY DEF Look
<1>5. job[w].now <= clock /\ clock <= job[w].now + Stale
  BY <1>1 DEF IInv, Prompt, At
<1> HIDE DEF new
<1>6. QED
  BY <1>1, <1>3, <1>4, <1>5, RunStep DEF Holding

LEMMA FinishSentFailsStep == ASSUME NEW w \in Workers, IInv, FinishSentFails(w) PROVE IInv'
<1> DEFINE new == [job[w] EXCEPT !.pc = "unsent"]
<1>1. job[w] \in Job /\ job[w].pc = "sent"
  BY Facts DEF FinishSentFails, At
<1>2. /\ new \in Job /\ new.pc = "unsent" /\ new.now = job[w].now
      /\ new.email = job[w].email /\ new.attempts = job[w].attempts
  BY <1>1 DEF Job
<1>3. /\ job' = [job EXCEPT ![w] = new]
      /\ spent' \in Spent /\ spent'.failures = spent.failures + 1
      /\ UNCHANGED <<clock, delivery, read, optedOut, tried, accepted>>
  BY Facts DEF FinishSentFails, TypeOK, Spent
<1>4. /\ job[w].now <= clock /\ clock <= job[w].now + Stale
      /\ new.attempts = delivery[new.email].attempts + 1
  BY <1>1, <1>2 DEF IInv, Prompt, Counted, At
<1> HIDE DEF new
<1>5. QED
  BY <1>1, <1>2, <1>3, <1>4, RunStep DEF Holding

LEMMA DieStep == ASSUME NEW w \in Workers, IInv, Die(w) PROVE IInv'
<1> DEFINE new == NextOf(w, {})
<1>1. new \in Job /\ new.pc = "idle" /\ new.now = job[w].now
  <2>1. {} \in SUBSET Emails
    OBVIOUS
  <2>2. new \in Job /\ new.now = job[w].now
    BY <2>1, NextOfType
  <2>3. new.pc = "idle"
    BY Facts DEF NextOf, Job
  <2>4. QED
    BY <2>2, <2>3
<1>2. /\ job' = [job EXCEPT ![w] = new]
      /\ spent' \in Spent /\ spent'.failures = spent.failures + 1
      /\ UNCHANGED <<clock, delivery, read, optedOut, tried, accepted>>
  BY Facts DEF Die, TypeOK, Spent
<1>3. job[w].now <= clock
  BY DEF IInv, Prompt
<1> HIDE DEF new
<1>4. QED
  BY <1>1, <1>2, <1>3, RunStep

-----------------------------------------------------------------------------
(* The claim.                                                              *)

LEMMA ClaimStep == ASSUME NEW w \in Workers, IInv, Claim(w) PROVE IInv'
<1>1. /\ job[w] \in Job /\ spent \in Spent /\ job[w].pc = "claiming"
      /\ UNCHANGED <<clock, read, optedOut, tried, accepted, spent>>
  BY Facts DEF TypeOK, Spent, Claim, At
<1>2. job[w].now <= clock /\ clock <= job[w].now + Stale
  BY <1>1 DEF IInv, Prompt, At
<1>3. PICK e \in job[w].due :
        IF Claimable(e, job[w].now)
          THEN /\ delivery' = [delivery EXCEPT ![e].lockedAt = job[w].now]
               /\ job' = [job EXCEPT ![w].pc = "looking", ![w].email = e, ![w].due = @ \ {e}]
          ELSE /\ job' = [job EXCEPT ![w] = NextOf(w, job[w].due \ {e})]
               /\ UNCHANGED delivery
  BY DEF Claim
<1>4. e \in Emails /\ job[w].due \ {e} \in SUBSET Emails
  BY <1>1 DEF Job
<1>5. CASE ~Claimable(e, job[w].now)
  BY <1>1, <1>2, <1>3, <1>4, <1>5, NextOfType, RunStep
<1>6. CASE Claimable(e, job[w].now)
  <2> DEFINE row == [delivery[e] EXCEPT !.lockedAt = job[w].now]
             new == [job[w] EXCEPT !.pc = "looking", !.email = e, !.due = @ \ {e}]
  <2>1. /\ delivery[e] \in Delivery /\ delivery[e].status = "PENDING"
        /\ delivery[e].lockedAt # None => delivery[e].lockedAt + Stale < job[w].now
    BY <1>4, <1>6, Facts DEF Claimable, Pending, Is
  <2>2. /\ row \in Delivery /\ row # None /\ row.status = "PENDING"
        /\ row.attempts = delivery[e].attempts /\ row.created = delivery[e].created
        /\ row.lockedAt = job[w].now
    BY <2>1, <1>1, NoneAssumption DEF Delivery, Job
  <2>3. new \in Job /\ new.pc = "looking" /\ new.email = e /\ new.now = job[w].now
    BY <1>1, <1>4 DEF Job
  <2>4. delivery' = [delivery EXCEPT ![e] = row] /\ job' = [job EXCEPT ![w] = new]
    BY <1>3, <1>6
  <2> HIDE DEF row, new
  <2>5. /\ job'[w] = new /\ \A v \in Workers \ {w} : job'[v] = job[v]
        /\ delivery'[e] = row /\ \A f \in Emails \ {e} : delivery'[f] = delivery[f]
    BY <2>4, <1>4, Facts DEF TypeOK
  <2>6. \A v \in Workers : Holding(v) => job[v].email # e
    <3> SUFFICES ASSUME NEW v \in Workers, Holding(v), job[v].email = e PROVE FALSE
      OBVIOUS
    <3>1. delivery[e].lockedAt = job[v].now /\ clock <= job[v].now + Stale
      BY <2>1 DEF IInv, Held, Prompt, Holding, At
    <3>2. job[v].now \in Nat /\ job[w].now \in Nat /\ clock \in Nat
      BY Facts DEF TypeOK, Job
    <3>3. QED
      BY <1>2, <2>1, <3>1, <3>2, NoneAssumption, TimeAssumption
  <2>7. TypeOK'
    BY <1>1, <2>2, <2>3, <2>4, Facts DEF TypeOK
  <2>8. Prompt'
    BY <1>1, <1>2, <2>3, <2>5 DEF IInv, Prompt, At
  <2>9. Held'
    BY <1>4, <2>2, <2>3, <2>5, <2>6 DEF IInv, Held, Holding
  <2>10. OneSender'
    BY <2>3, <2>5, <2>6 DEF IInv, OneSender, Holding
  <2>11. Counted'
    <3>1. \A v \in Workers : At(v, "sending") \/ At(v, "sent") \/ At(v, "unsent") =>
            job[v].email \in Emails \ {e}
      BY <2>6 DEF IInv, Held, Holding, At
    <3>2. QED
      BY <2>1, <2>2, <2>3, <2>5, <3>1, NoneAssumption DEF IInv, Counted, At
  <2>12. Tries'
    <3>1. \A f \in Emails : Unrecorded(f)' <=> Unrecorded(f)
      BY <1>1, <2>3, <2>5 DEF Unrecorded
    <3>2. delivery[e] # None
      BY <2>1, NoneAssumption
    <3>3. QED
      BY <1>1, <2>2, <2>5, <3>1, <3>2 DEF IInv, Tries
  <2>13. Accepts'
    <3>1. \A f \in Emails : Unreported(f)' <=> Unreported(f)
      BY <1>1, <2>3, <2>5 DEF Unreported, At
    <3>2. \A f \in Emails : Is(f, "SENT")' <=> Is(f, "SENT")
      BY <2>1, <2>2, <2>5 DEF Is
    <3>3. QED
      BY <1>1, <3>1, <3>2 DEF IInv, Accepts
  <2>14. Young'
    <3>1. Pending(e)
      BY <1>6 DEF Claimable
    <3>2. \A f \in Emails : Pending(f)' => Pending(f) /\ delivery'[f].created = delivery[f].created
      BY <2>2, <2>5, <3>1 DEF Pending, Is
    <3>3. \A v \in Workers : Holding(v) => job[v].email \in Emails \ {e}
      BY <2>6 DEF IInv, Held
    <3>4. job[w].now <= delivery[e].created + MaxAge
      BY <1>1, <1>4, <3>1 DEF IInv, Young, At
    <3>5. QED
      BY <1>1, <2>2, <2>3, <2>5, <3>2, <3>3, <3>4 DEF IInv, Young, Holding, At
  <2>15. QED
    BY <2>7, <2>8, <2>9, <2>10, <2>11, <2>12, <2>13, <2>14 DEF IInv
<1>7. QED
  BY <1>5, <1>6

-----------------------------------------------------------------------------
(* An email handed to the transport.                                       *)

\* Whatever the server answers, the try is counted, and an email it took is known
\* to be sent unless the answer was lost.
LEMMA HandOverStep ==
  ASSUME IInv, NEW w \in Workers, NEW e, e = job[w].email, At(w, "sending"), NEW s \in {"sent", "unsent"},
         job' = [job EXCEPT ![w].pc = s, ![w].attempts = @ + 1],
         tried' = [tried EXCEPT ![e] = @ + 1],
         \/ accepted' = accepted
         \/ /\ accepted' = [accepted EXCEPT ![e] = @ + 1]
            /\ s = "sent" \/ spent'.failures = spent.failures + 1,
         spent' \in Spent,
         spent'.failures = spent.failures \/ spent'.failures = spent.failures + 1,
         UNCHANGED <<clock, delivery, read, optedOut>>
  PROVE  IInv'
<1> DEFINE new == [job[w] EXCEPT !.pc = s, !.attempts = @ + 1]
<1>1. /\ job[w] \in Job /\ job[w].pc = "sending" /\ e \in Emails /\ delivery[e] \in Delivery
      /\ delivery[e].status \in {"PENDING", "SKIPPED"}
      /\ job[w].attempts = delivery[e].attempts
  BY Facts DEF IInv, Held, Holding, Counted, At
<1>2. /\ new \in Job /\ new.pc = s /\ new.email = e /\ new.now = job[w].now
      /\ new.attempts = delivery[e].attempts + 1
  <2>1. job[w].attempts + 1 \in Nat
    BY <1>1 DEF Job
  <2>2. new = [job[w] EXCEPT !.pc = s, !.attempts = job[w].attempts + 1]
    OBVIOUS
  <2> HIDE DEF new
  <2>3. QED
    BY <1>1, <2>1, <2>2 DEF Job
<1>3. job'[w] = new /\ \A v \in Workers \ {w} : job'[v] = job[v]
  BY Facts DEF TypeOK
<1>4. job' \in [Workers -> Job]
  BY <1>2, Facts DEF TypeOK
<1> HIDE DEF new
<1>5. \A v \in Workers \ {w} : Holding(v) => job[v].email # e
  BY <1>1 DEF IInv, OneSender, Holding
<1>6. TypeOK'
  <2>1. tried' \in [Emails -> Nat] /\ accepted' \in [Emails -> Nat]
    BY <1>1, Facts DEF TypeOK
  <2>2. QED
    BY <1>4, <2>1, Facts DEF TypeOK, Spent
<1>6a. \A v \in Workers : /\ job'[v].now = job[v].now /\ job'[v].email = job[v].email
                          /\ Holding(v)' <=> Holding(v)
  BY <1>1, <1>2, <1>3 DEF Holding
<1>6b. new.pc \in {"sent", "unsent"}
  BY <1>2
<1>7. Prompt' /\ Held' /\ OneSender'
  <2>1. \A v \in Workers : At(v, "idle")' => At(v, "idle")
    BY <1>3, <1>6b DEF At
  <2>2. \A v \in Workers : At(v, "idle") => At(v, "idle")'
    BY <1>1, <1>3 DEF At
  <2>3. Prompt'
    BY <1>6a, <2>1, <2>2 DEF IInv, Prompt
  <2>4. Held'
    BY <1>6a DEF IInv, Held
  <2>5. OneSender'
    BY <1>6a DEF IInv, OneSender
  <2>6. QED
    BY <2>3, <2>4, <2>5
<1>8. Counted'
  <2>1. \A f \in Emails : delivery[f] # None =>
          (delivery[f].status \in {"PENDING", "SKIPPED"} => delivery[f].attempts < MAX_EMAIL_ATTEMPTS)
    BY DEF IInv, Counted
  <2>2. \A v \in Workers \ {w} :
          /\ At(v, "sending")' => job'[v].attempts = delivery[job'[v].email].attempts
          /\ (At(v, "sent") \/ At(v, "unsent"))' =>
               job'[v].attempts = delivery[job'[v].email].attempts + 1
    BY <1>3 DEF IInv, Counted, At
  <2>3. ~At(w, "sending")' /\ job'[w].attempts = delivery[job'[w].email].attempts + 1
    BY <1>2, <1>3, <1>6b DEF At
  <2>4. QED
    BY <2>1, <2>2, <2>3 DEF Counted
<1>9. Tries'
  <2>1. tried \in [Emails -> Nat] /\ spent.failures \in Nat /\ spent'.failures \in Nat
    BY Facts DEF TypeOK, Spent
  <2>2. ~Unrecorded(e) /\ Unrecorded(e)'
    BY <1>1, <1>2, <1>3, <1>5 DEF Unrecorded, Holding
  <2>3. \A f \in Emails \ {e} : (Unrecorded(f)' <=> Unrecorded(f)) /\ tried'[f] = tried[f]
    BY <1>1, <1>2, <1>3, <2>1 DEF Unrecorded
  <2>4. tried'[e] = tried[e] + 1 /\ tried[e] <= delivery[e].attempts + spent.failures
    BY <1>1, <2>1, <2>2, NoneAssumption DEF IInv, Tries
  <2>5. \A f \in Emails : delivery[f] # None => delivery[f].attempts \in Nat
    BY Facts, MaxAttempts DEF Delivery
  <2>6. delivery[e] # None
    BY <1>1, NoneAssumption
  <2>7. tried'[e] <= delivery[e].attempts + 1 + spent'.failures
    BY <1>1, <2>1, <2>4, <2>5, <2>6
  <2>8. ASSUME NEW f \in Emails \ {e}
        PROVE  /\ delivery[f] = None => tried'[f] = 0
               /\ delivery[f] # None =>
                    /\ Unrecorded(f)'  => tried'[f] <= delivery[f].attempts + 1 + spent'.failures
                    /\ ~Unrecorded(f)' => tried'[f] <= delivery[f].attempts + spent'.failures
    BY <2>1, <2>3, <2>5 DEF IInv, Tries
  <2>9. QED
    BY <2>2, <2>6, <2>7, <2>8 DEF Tries
<1>10. Accepts'
  <2>1. accepted \in [Emails -> Nat] /\ spent.failures \in Nat /\ spent'.failures \in Nat
    BY Facts DEF TypeOK, Spent
  <2>2. \A f \in Emails \ {e} : (Unreported(f)' <=> Unreported(f)) /\ accepted'[f] = accepted[f]
    BY <1>1, <1>2, <1>3, <2>1 DEF Unreported, At
  <2>3. ~Unreported(e) /\ ~Is(e, "SENT")
    BY <1>1, <1>5 DEF Unreported, Is, At, Holding
  <2>4. accepted[e] <= spent.failures
    BY <1>1, <2>3 DEF IInv, Accepts
  <2>5. s = "sent" => Unreported(e)'
    BY <1>2, <1>3 DEF Unreported, At
  <2>6. /\ accepted'[e] <= 1 + spent'.failures
        /\ ~Unreported(e)' => accepted'[e] <= spent'.failures
    BY <1>1, <2>1, <2>4, <2>5
  <2>7. ASSUME NEW f \in Emails \ {e}
        PROVE  /\ accepted'[f] <= 1 + spent'.failures
               /\ ~Is(f, "SENT") /\ ~Unreported(f)' => accepted'[f] <= spent'.failures
    BY <2>1, <2>2 DEF IInv, Accepts
  <2>8. QED
    BY <2>6, <2>7 DEF Accepts, Is
<1>11. Young'
  <2>1. \A v \in Workers : ~(At(v, "idle") \/ At(v, "expiring"))' =>
                              ~(At(v, "idle") \/ At(v, "expiring"))
    BY <1>1, <1>3 DEF At
  <2>2. \A f \in Emails : Pending(f)' <=> Pending(f)
    BY DEF Pending, Is
  <2>3. QED
    BY <1>6a, <2>1, <2>2 DEF IInv, Young
<1>12. QED
  BY <1>6, <1>7, <1>8, <1>9, <1>10, <1>11 DEF IInv

LEMMA TransportStep ==
  ASSUME NEW w \in Workers, IInv, Send(w) \/ Reject(w) \/ LoseAnswer(w) PROVE IInv'
<1>1. CASE Send(w)
  BY <1>1, Facts, HandOverStep DEF Send, TypeOK, Spent
<1>2. CASE Reject(w)
  <2>1. spent' \in Spent /\ spent'.failures = spent.failures
    BY <1>2, Facts DEF Reject, TypeOK, Spent
  <2>2. QED
    BY <1>2, <2>1, HandOverStep DEF Reject
<1>3. CASE LoseAnswer(w)
  <2>1. spent' \in Spent /\ spent'.failures = spent.failures + 1
    BY <1>3, Facts DEF LoseAnswer, TypeOK, Spent
  <2>2. QED
    BY <1>3, <2>1, HandOverStep DEF LoseAnswer
<1>4. QED
  BY <1>1, <1>2, <1>3

-----------------------------------------------------------------------------
(* An outcome recorded, and deliveries expired.                            *)

\* What finish() writes: a row that is still counted, and SENT for an email the
\* server is known to have.
LEMMA FinishStep ==
  ASSUME IInv, NEW w \in Workers, NEW e, e = job[w].email, Holding(w), NEW row \in Delivery, Finish(w, row),
         row.created = delivery[e].created,
         row.status = "PENDING" => delivery[e].status = "PENDING",
         row.status \in {"PENDING", "SKIPPED"} => row.attempts < MAX_EMAIL_ATTEMPTS,
         job[w].pc \in {"sent", "unsent"} => row.attempts = delivery[e].attempts + 1,
         job[w].pc \notin {"sent", "unsent"} => row.attempts = delivery[e].attempts,
         job[w].pc = "sent" => row.status = "SENT"
  PROVE  IInv'
<1> DEFINE free == [row EXCEPT !.lockedAt = None]
           new == NextOf(w, job[w].due)
<1>1. /\ job[w] \in Job /\ e \in Emails /\ delivery[e] \in Delivery /\ delivery[e] # None
      /\ delivery[e].status \in {"PENDING", "SKIPPED"}
  BY Facts DEF IInv, Held
<1>2. /\ free \in Delivery /\ free # None /\ free.status = row.status
      /\ free.attempts = row.attempts /\ free.created = row.created
  BY NoneAssumption DEF Delivery
<1>3. new \in Job /\ new.pc \in {"idle", "claiming"} /\ new.now = job[w].now
  BY <1>1, NextOfType DEF Job
<1>4. /\ delivery' = [delivery EXCEPT ![e] = free] /\ job' = [job EXCEPT ![w] = new]
      /\ UNCHANGED <<clock, read, optedOut, tried, accepted, spent>>
  BY DEF Finish
<1> HIDE DEF free, new
<1>5. /\ job'[w] = new /\ \A v \in Workers \ {w} : job'[v] = job[v]
      /\ delivery'[e] = free /\ \A f \in Emails \ {e} : delivery'[f] = delivery[f]
  BY <1>1, <1>4, Facts DEF TypeOK
<1>6. \A v \in Workers \ {w} : Holding(v) => job[v].email \in Emails \ {e}
  BY DEF IInv, OneSender, Held
<1>7. TypeOK'
  BY <1>2, <1>3, <1>4, Facts DEF TypeOK
<1>8. Prompt'
  BY <1>3, <1>4, <1>5 DEF IInv, Prompt, Holding, At
<1>9. Held'
  BY <1>3, <1>5, <1>6 DEF IInv, Held, Holding
<1>10. OneSender'
  BY <1>3, <1>5 DEF IInv, OneSender, Holding
<1>11. Counted'
  <2>1. \A v \in Workers \ {w} : At(v, "sending") \/ At(v, "sent") \/ At(v, "unsent") =>
          job[v].email \in Emails \ {e}
    BY <1>6 DEF Holding, At
  <2>2. QED
    BY <1>1, <1>2, <1>3, <1>5, <2>1 DEF IInv, Counted, At
<1>12. Tries'
  <2>1. \A f \in Emails \ {e} : Unrecorded(f)' <=> Unrecorded(f)
    BY <1>3, <1>5 DEF Unrecorded
  <2>2. ~Unrecorded(e)'
    BY <1>3, <1>5, <1>6 DEF Unrecorded, Holding
  <2>3. Unrecorded(e) <=> job[w].pc \in {"sent", "unsent"}
    BY <1>6 DEF Unrecorded, Holding
  <2>4. /\ tried[e] \in Nat /\ spent.failures \in Nat
        /\ delivery[e].attempts \in Nat /\ row.attempts \in Nat
    BY <1>1, Facts, MaxAttempts DEF TypeOK, Spent, Delivery
  <2>5. tried[e] <= row.attempts + spent.failures
    BY <1>1, <2>3, <2>4 DEF IInv, Tries
  <2>6. QED
    BY <1>2, <1>4, <1>5, <2>1, <2>2, <2>5 DEF IInv, Tries
<1>13. Accepts'
  <2>1. \A f \in Emails \ {e} : /\ Unreported(f)' <=> Unreported(f)
                                /\ Is(f, "SENT")' <=> Is(f, "SENT")
    BY <1>3, <1>5 DEF Unreported, Is, At
  <2>2. ~Is(e, "SENT") /\ (Unreported(e) => job[w].pc = "sent")
    BY <1>1, <1>6 DEF Unreported, Is, At, Holding
  <2>3. ~Is(e, "SENT")' => job[w].pc # "sent"
    BY <1>2, <1>5 DEF Is
  <2>4. ~Is(e, "SENT")' => accepted[e] <= spent.failures
    BY <1>1, <2>2, <2>3 DEF IInv, Accepts
  <2>5. QED
    BY <1>4, <2>1, <2>4 DEF IInv, Accepts
<1>14. Young'
  <2>1. \A f \in Emails : Pending(f)' => Pending(f) /\ delivery'[f].created = delivery[f].created
    BY <1>1, <1>2, <1>5 DEF Pending, Is
  <2>2. \A v \in Workers \ {w} : Holding(v) => delivery'[job[v].email] = delivery[job[v].email]
    BY <1>5, <1>6
  <2>3. QED
    BY <1>3, <1>5, <2>1, <2>2 DEF IInv, Young, Holding, At
<1>15. QED
  BY <1>7, <1>8, <1>9, <1>10, <1>11, <1>12, <1>13, <1>14 DEF IInv

LEMMA OutcomeStep ==
  ASSUME NEW w \in Workers, IInv, FinishSkipped(w) \/ FinishSent(w) \/ FinishUnsent(w)
  PROVE  IInv'
<1> DEFINE e == job[w].email
<1>1. /\ job[w] \in Job /\ e \in Emails /\ delivery[e] \in Delivery
      /\ delivery[e].status \in {"PENDING", "SKIPPED"} /\ Holding(w)
      /\ delivery[e].attempts \in Nat /\ delivery[e].attempts < MAX_EMAIL_ATTEMPTS
  BY Facts, MaxAttempts
     DEF IInv, Held, Holding, Counted, Delivery, FinishSkipped, FinishSent, FinishUnsent, At
<1>2. CASE FinishSkipped(w)
  <2> DEFINE row == [delivery[e] EXCEPT !.status = "SKIPPED"]
  <2>1. /\ row \in Delivery /\ row.created = delivery[e].created /\ row.status = "SKIPPED"
        /\ row.attempts = delivery[e].attempts
    BY <1>1 DEF Delivery, Statuses
  <2>2. Finish(w, row) /\ job[w].pc = "skipping"
    BY <1>2 DEF FinishSkipped, At
  <2> HIDE DEF row
  <2>3. QED
    BY <1>1, <2>1, <2>2, FinishStep
<1>3. CASE FinishSent(w)
  <2> DEFINE row == [delivery[e] EXCEPT !.status = "SENT", !.attempts = job[w].attempts]
  <2>1. job[w].pc = "sent" /\ Finish(w, row) /\ job[w].attempts = delivery[e].attempts + 1
    BY <1>3 DEF FinishSent, IInv, Counted, At
  <2>2. /\ row \in Delivery /\ row.created = delivery[e].created /\ row.status = "SENT"
        /\ row.attempts = delivery[e].attempts + 1
    <3>1. job[w].attempts \in 0..MAX_EMAIL_ATTEMPTS
      BY <1>1, <2>1, MaxAttempts
    <3>2. QED
      BY <1>1, <2>1, <3>1 DEF Delivery, Statuses
  <2> HIDE DEF row
  <2>3. QED
    BY <1>1, <2>1, <2>2, FinishStep
<1>4. CASE FinishUnsent(w)
  <2> DEFINE row == AfterFailure(delivery[e], job[w].attempts, job[w].now)
  <2>1. job[w].pc = "unsent" /\ Finish(w, row) /\ job[w].attempts = delivery[e].attempts + 1
    BY <1>4 DEF FinishUnsent, IInv, Counted, At
  <2>2. job[w].attempts \in 1..MAX_EMAIL_ATTEMPTS
    BY <1>1, <2>1, MaxAttempts
  <2>3. CASE job[w].attempts < MAX_EMAIL_ATTEMPTS
    <3>1. Backoff[job[w].attempts] \in Nat
      <4>1. job[w].attempts \in 1..Len(Backoff)
        BY <2>2, <2>3, TimeAssumption, LenProperties DEF MAX_EMAIL_ATTEMPTS
      <4>2. QED
        BY <4>1, TimeAssumption
    <3>2. job[w].now + Backoff[job[w].attempts] \in Nat
      BY <1>1, <3>1 DEF Job
    <3>3. /\ row \in Delivery /\ row.created = delivery[e].created
          /\ row.status = delivery[e].status /\ row.attempts = delivery[e].attempts + 1
      <4>1. row = [delivery[e] EXCEPT !.attempts = job[w].attempts,
                                      !.next = job[w].now + Backoff[job[w].attempts]]
        BY <2>3 DEF AfterFailure
      <4>2. job[w].attempts \in 0..MAX_EMAIL_ATTEMPTS
        BY <2>2, MaxAttempts
      <4> HIDE DEF row
      <4>3. QED
        BY <1>1, <2>1, <3>2, <4>1, <4>2 DEF Delivery
    <3> HIDE DEF row
    <3>4. QED
      BY <1>1, <2>1, <2>3, <3>3, FinishStep
  <2>4. CASE ~(job[w].attempts < MAX_EMAIL_ATTEMPTS)
    <3>1. /\ row \in Delivery /\ row.created = delivery[e].created
          /\ row.status = "FAILED" /\ row.attempts = delivery[e].attempts + 1
      <4>1. row = [delivery[e] EXCEPT !.status = "FAILED", !.attempts = job[w].attempts]
        BY <2>4 DEF AfterFailure
      <4>2. job[w].attempts \in 0..MAX_EMAIL_ATTEMPTS
        BY <2>2, MaxAttempts
      <4> HIDE DEF row
      <4>3. QED
        BY <1>1, <2>1, <4>1, <4>2 DEF Delivery, Statuses
    <3> HIDE DEF row
    <3>2. QED
      BY <1>1, <2>1, <3>1, FinishStep
  <2>5. QED
    BY <2>3, <2>4
<1>5. QED
  BY <1>2, <1>3, <1>4

LEMMA ExpireStep == ASSUME NEW w \in Workers, IInv, Expire(w) PROVE IInv'
<1> DEFINE new == [job[w] EXCEPT !.pc = "listing"]
           gone(e) == [delivery[e] EXCEPT !.status = "SKIPPED", !.lockedAt = None]
<1>1. /\ job[w] \in Job /\ job[w].pc = "expiring"
      /\ UNCHANGED <<clock, read, optedOut, tried, accepted, spent>>
  BY Facts DEF Expire, At
<1>2. new \in Job /\ new.pc = "listing" /\ new.now = job[w].now
  BY <1>1 DEF Job
<1>3. job' = [job EXCEPT ![w] = new]
  BY DEF Expire
<1>4. \A e \in Emails : delivery'[e] = IF TooOld(e, job[w].now) THEN gone(e) ELSE delivery[e]
  BY DEF Expire
<1>5. \A e \in Emails : TooOld(e, job[w].now) =>
        /\ gone(e) \in Delivery /\ gone(e) # None
        /\ gone(e).status = "SKIPPED"
        /\ gone(e).attempts = delivery[e].attempts /\ gone(e).created = delivery[e].created
        /\ delivery[e] # None /\ delivery[e].status = "PENDING"
  BY Facts, NoneAssumption DEF TooOld, Pending, Is, Delivery, Statuses
<1>6. \A e \in Emails : ~TooOld(e, job[w].now) /\ Pending(e) =>
                          job[w].now <= delivery[e].created + MaxAge
  BY <1>1, Facts, TimeAssumption DEF TooOld, Pending, Is, Delivery, Job
<1>7. delivery' \in [Emails -> Delivery \cup {None}]
  <2>1. delivery' = [e \in Emails |-> IF TooOld(e, job[w].now) THEN gone(e) ELSE delivery[e]]
    BY DEF Expire
  <2> HIDE DEF gone
  <2>2. QED
    BY <1>5, <2>1, Facts DEF TypeOK
\* All that the rest needs to know of the deliveries.
<1>8. \A e \in Emails :
        /\ delivery'[e] = None <=> delivery[e] = None
        /\ delivery[e] # None => /\ delivery'[e].created = delivery[e].created
                                 /\ delivery'[e].attempts = delivery[e].attempts
        /\ \/ delivery'[e] = delivery[e]
           \/ delivery[e].status = "PENDING" /\ delivery'[e].status = "SKIPPED"
        /\ Pending(e)' => Pending(e) /\ job[w].now <= delivery'[e].created + MaxAge
  <2> HIDE DEF gone
  <2> SUFFICES ASSUME NEW e \in Emails
               PROVE  /\ delivery'[e] = None <=> delivery[e] = None
                      /\ delivery[e] # None => /\ delivery'[e].created = delivery[e].created
                                               /\ delivery'[e].attempts = delivery[e].attempts
                      /\ \/ delivery'[e] = delivery[e]
                         \/ delivery[e].status = "PENDING" /\ delivery'[e].status = "SKIPPED"
                      /\ Pending(e)' => Pending(e) /\ job[w].now <= delivery'[e].created + MaxAge
    OBVIOUS
  <2>1. CASE TooOld(e, job[w].now)
    BY <1>4, <1>5, <2>1 DEF Pending, Is
  <2>2. CASE ~TooOld(e, job[w].now)
    BY <1>4, <1>6, <2>2 DEF Pending, Is
  <2>3. QED
    BY <2>1, <2>2
<1> HIDE DEF new, gone
<1>9. job'[w] = new /\ \A v \in Workers \ {w} : job'[v] = job[v]
  BY <1>3, Facts DEF TypeOK
<1>10. TypeOK'
  BY <1>1, <1>2, <1>3, <1>7, Facts DEF TypeOK
<1>11. Prompt' /\ OneSender'
  BY <1>1, <1>2, <1>9 DEF IInv, Prompt, OneSender, Holding, At
<1>12. Held'
  <2>1. \A v \in Workers : Holding(v)' => v # w /\ Holding(v) /\ job'[v] = job[v]
    BY <1>2, <1>9 DEF Holding
  <2>2. QED
    BY <1>8, <2>1 DEF IInv, Held
<1>13. Counted'
  <2>1. \A e \in Emails : delivery'[e] # None =>
          (delivery'[e].status \in {"PENDING", "SKIPPED"} => delivery'[e].attempts < MAX_EMAIL_ATTEMPTS)
    BY <1>8 DEF IInv, Counted
  <2>2. \A v \in Workers : (At(v, "sending") \/ At(v, "sent") \/ At(v, "unsent"))' =>
          /\ v # w /\ job'[v] = job[v] /\ Holding(v)
          /\ job[v].email \in Emails /\ delivery[job[v].email] # None
    BY <1>2, <1>9 DEF IInv, Held, Holding, At
  <2>3. QED
    BY <1>8, <2>1, <2>2 DEF IInv, Counted, At
<1>14. Tries'
  <2>1. \A e \in Emails : Unrecorded(e)' <=> Unrecorded(e)
    BY <1>1, <1>2, <1>9 DEF Unrecorded
  <2>2. QED
    BY <1>1, <1>8, <2>1 DEF IInv, Tries
<1>15. Accepts'
  <2>1. \A e \in Emails : Unreported(e)' <=> Unreported(e)
    BY <1>1, <1>2, <1>9 DEF Unreported, At
  <2>2. \A e \in Emails : Is(e, "SENT")' <=> Is(e, "SENT")
    BY <1>8 DEF Is
  <2>3. QED
    BY <1>1, <2>1, <2>2 DEF IInv, Accepts
<1>16. Young'
  <2>1. \A v \in Workers : Holding(v)' => /\ v # w /\ Holding(v) /\ job'[v] = job[v]
                                          /\ job[v].email \in Emails
                                          /\ delivery[job[v].email] # None
    BY <1>2, <1>9 DEF IInv, Held, Holding
  <2>2. \A v \in Workers : Holding(v)' => job'[v].now <= delivery'[job'[v].email].created + MaxAge
    BY <1>8, <2>1 DEF IInv, Young
  <2>3. ASSUME NEW v \in Workers, ~(At(v, "idle") \/ At(v, "expiring"))', NEW e \in Emails, Pending(e)'
        PROVE  job'[v].now <= delivery'[e].created + MaxAge
    <3>1. CASE v = w
      BY <1>2, <1>8, <1>9, <2>3, <3>1
    <3>2. CASE v # w
      BY <1>8, <1>9, <2>3, <3>2 DEF IInv, Young, Pending, Is, At
    <3>3. QED
      BY <3>1, <3>2
  <2>4. QED
    BY <2>2, <2>3 DEF Young
<1>17. QED
  BY <1>10, <1>11, <1>12, <1>13, <1>14, <1>15, <1>16 DEF IInv

-----------------------------------------------------------------------------
(* The theorems.                                                           *)

LEMMA Inductive == IInv /\ ~SlowRun /\ [Next]_vars => IInv'
<1> SUFFICES ASSUME IInv, ~SlowRun, [Next]_vars PROVE IInv'
  OBVIOUS
<1>1. CASE UNCHANGED vars
  BY <1>1 DEF vars, IInv, TypeOK, Prompt, Held, OneSender, Counted, Tries, Accepts, Young,
              Unrecorded, Unreported, Pending, Is, Holding, At
<1>2. CASE Tick \/ UpdatePreferences \/ \E e \in Emails : Queue(e) \/ MarkRead(e)
  BY <1>2, TickStep, PeopleStep, QueueStep
<1>3. ASSUME NEW w \in Workers, Dispatch(w) \/ Die(w) PROVE IInv'
  BY <1>3, BeginRunStep, ExpireStep, ListDueStep, ClaimStep, LookStep, TransportStep,
     OutcomeStep, FinishSentFailsStep, DieStep DEF Dispatch
<1>4. QED
  BY <1>1, <1>2, <1>3 DEF Next

\* Every variable keeps its type, and with it no delivery counts more attempts than
\* there are waits: the bound of nextAttemptAfter holds across instances.
THEOREM TypeCorrect == ASSUME ~SlowRun PROVE Spec => []TypeOK
<1>1. IInv => TypeOK
  BY DEF IInv
<1>2. IInv /\ [Next]_vars => IInv'
  BY Inductive
<1>3. QED
  BY Initially, <1>1, <1>2, PTL DEF Spec

\* The claim of dispatch() excludes: an email is in the hands of one instance, take-overs
\* of crashed instances included.
THEOREM ClaimExcludes == ASSUME ~SlowRun PROVE Spec => []OneSender
<1>1. IInv => OneSender
  BY DEF IInv
<1>2. IInv /\ [Next]_vars => IInv'
  BY Inductive
<1>3. QED
  BY Initially, <1>1, <1>2, PTL DEF Spec

\* An email leaves once, and once more at most per crash, lost answer or failed
\* statement, for any number of instances.
THEOREM LeavesOnce == ASSUME ~SlowRun PROVE Spec => []SentOnce
<1>1. IInv => SentOnce
  BY DEF IInv, Accepts, SentOnce
<1>2. IInv /\ [Next]_vars => IInv'
  BY Inductive
<1>3. QED
  BY Initially, <1>1, <1>2, PTL DEF Spec

\* The mail server sees no more attempts than the backoff allows, save for those of runs
\* that died before counting them.
THEOREM BoundedAttempts == ASSUME ~SlowRun PROVE Spec => []AttemptsBounded
<1>1. IInv => AttemptsBounded
  <2> SUFFICES ASSUME IInv, NEW e \in Emails
               PROVE  tried[e] <= MAX_EMAIL_ATTEMPTS + spent.failures
    BY DEF AttemptsBounded
  <2>1. tried[e] \in Nat /\ spent.failures \in Nat /\ MAX_EMAIL_ATTEMPTS \in Nat
    BY Facts, MaxAttempts DEF TypeOK, Spent
  <2>2. CASE delivery[e] = None
    BY <2>1, <2>2 DEF IInv, Tries
  <2>3. CASE delivery[e] # None
    <3>1. delivery[e].attempts \in 0..MAX_EMAIL_ATTEMPTS
      BY <2>3, Facts DEF Delivery
    <3>2. CASE ~Unrecorded(e)
      BY <2>1, <2>3, <3>1, <3>2 DEF IInv, Tries
    <3>3. CASE Unrecorded(e)
      <4>1. delivery[e].attempts < MAX_EMAIL_ATTEMPTS
        BY <3>3 DEF IInv, Held, Counted, Unrecorded, Holding
      <4>2. QED
        BY <2>1, <2>3, <3>1, <3>3, <4>1 DEF IInv, Tries
    <3>4. QED
      BY <3>2, <3>3
  <2>4. QED
    BY <2>2, <2>3
<1>2. IInv /\ [Next]_vars => IInv'
  BY Inductive
<1>3. QED
  BY Initially, <1>1, <1>2, PTL DEF Spec

\* No run hands over an email of a moment long past.
THEOREM NeverTooLate == ASSUME ~SlowRun PROVE Spec => []NotTooLate
<1>1. IInv => NotTooLate
  <2> SUFFICES ASSUME IInv, NEW w \in Workers, At(w, "sending")
               PROVE  clock <= delivery[job[w].email].created + MaxAge + Stale
    BY DEF NotTooLate
  <2>1. /\ clock <= job[w].now + Stale
        /\ job[w].now <= delivery[job[w].email].created + MaxAge
    BY DEF IInv, Prompt, Young, Holding, At
  <2>2. /\ clock \in Nat /\ job[w].now \in Nat /\ delivery[job[w].email].created \in Nat
        /\ Stale \in Nat /\ MaxAge \in Nat
    BY Facts, TimeAssumption DEF IInv, TypeOK, Job, Held, Holding, At, Delivery
  <2>3. QED
    BY <2>1, <2>2
<1>2. IInv /\ [Next]_vars => IInv'
  BY Inductive
<1>3. QED
  BY Initially, <1>1, <1>2, PTL DEF Spec

\* What was sent or given up stays so, whatever other instances still do.
THEOREM OutcomesAreFinal == ASSUME ~SlowRun PROVE Spec => OutcomeIsFinal
<1> DEFINE Final == \A e \in Emails, s \in {"SENT", "FAILED"} : Is(e, s) => Is(e, s)'
<1>1. ASSUME IInv, Next PROVE Final
  <2>1. CASE UNCHANGED delivery
    BY <2>1 DEF Is
  <2>2. ASSUME NEW e \in Emails, Queue(e) PROVE Final
    BY <1>1, <2>2, Facts DEF Queue, Is, TypeOK
  <2>3. ASSUME NEW w \in Workers, Expire(w) PROVE Final
    BY <1>1, <2>3 DEF Expire, TooOld, Pending, Is
  <2>4. ASSUME NEW w \in Workers, Claim(w) PROVE Final
    <3>1. PICK e \in job[w].due :
            \/ Claimable(e, job[w].now) /\ delivery' = [delivery EXCEPT ![e].lockedAt = job[w].now]
            \/ UNCHANGED delivery
      BY <2>4 DEF Claim
    <3>2. CASE UNCHANGED delivery
      BY <3>2 DEF Is
    <3>3. CASE Claimable(e, job[w].now) /\ delivery' = [delivery EXCEPT ![e].lockedAt = job[w].now]
      <4>1. \A f \in Emails \ {e} : delivery'[f] = delivery[f]
        BY <1>1, <3>3, Facts DEF TypeOK
      <4>2. \A s \in {"SENT", "FAILED"} : ~Is(e, s)
        BY <3>3 DEF Claimable, Pending, Is
      <4>3. QED
        BY <4>1, <4>2 DEF Is
    <3>4. QED
      BY <3>1, <3>2, <3>3
  <2>5. ASSUME NEW w \in Workers, NEW row, Holding(w), Finish(w, row) PROVE Final
    <3>1. PICK e \in Emails : e = job[w].email /\ ~Is(e, "SENT") /\ ~Is(e, "FAILED")
      BY <1>1, <2>5 DEF IInv, Held, Is
    <3>2. \A f \in Emails \ {e} : delivery'[f] = delivery[f]
      BY <1>1, <2>5, <3>1, Facts DEF TypeOK, Finish
    <3>3. QED
      BY <3>1, <3>2 DEF Is
  <2>6. ASSUME NEW w \in Workers, FinishSkipped(w) \/ FinishSent(w) \/ FinishUnsent(w) PROVE Final
    BY <2>5, <2>6 DEF FinishSkipped, FinishSent, FinishUnsent, Holding, At
  <2>7. ASSUME NEW w \in Workers, Dispatch(w) \/ Die(w) PROVE Final
    <3>1. CASE Expire(w) \/ Claim(w) \/ FinishSkipped(w) \/ FinishSent(w) \/ FinishUnsent(w)
      BY <2>3, <2>4, <2>6, <3>1
    <3>2. CASE BeginRun(w) \/ ListDue(w) \/ Look(w) \/ Send(w) \/ Reject(w) \/ LoseAnswer(w)
               \/ FinishSentFails(w) \/ Die(w)
      BY <2>1, <3>2 DEF BeginRun, ListDue, Look, Send, Reject, LoseAnswer, FinishSentFails, Die
    <3>3. QED
      BY <2>7, <3>1, <3>2 DEF Dispatch
  <2>8. QED
    BY <1>1, <2>1, <2>2, <2>7 DEF Next, Tick, UpdatePreferences, MarkRead
<1>2. IInv /\ [Next]_vars => [Final]_vars
  BY <1>1
<1>3. IInv /\ [Next]_vars => IInv'
  BY Inductive
<1>4. QED
  BY Initially, <1>2, <1>3, PTL DEF Spec, OutcomeIsFinal

=============================================================================
