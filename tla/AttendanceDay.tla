---------------------------- MODULE AttendanceDay ----------------------------
(***************************************************************************)
(* One work day of one employee as it goes by: punches arrive and are      *)
(* computed at once, HR corrects them, leaves are approved, the presence   *)
(* board shows where the person is (presence.service.ts), and the record   *)
(* is closed after the window of the day (attendance-processing.service).  *)
(* AttendanceRecords has those computations overlap and fail; here each is *)
(* one step, and the question is what they say.  No two punches are at the *)
(* same instant: the database would decide which comes first.              *)
(***************************************************************************)
EXTENDS DayFigures

CONSTANTS
    Situations,      \* the days and the policies they are judged by
    Keys,            \* what may be pressed where the key is read
    LeaveIntervals,  \* leaves that may be approved
    MaxPunches,      \* bound on punches
    MaxCorrections   \* bound on manual and voided punches and leaves

VARIABLES
    situation,    \* day and policy
    now,
    punches,      \* those that count
    leaves,       \* the approved ones
    record,       \* figures, or None
    inside,       \* history: the instants at which the board had the person in
    corrections,
    corrected     \* history: some punch was not computed as it happened

dayVars == <<situation, now, punches, leaves, record, inside, corrections, corrected>>

Day == situation.day
Policy == situation.policy

Free(t) == \A p \in punches : p.at # t

\* When a punch may have been forgotten.
Empty == {t \in Day.from..now : t < Day.to /\ Free(t)}

\* The key is stored, but only this pairing reads it.
Pressable == IF Policy.pairing = "DEVICE_TYPE" THEN Keys ELSE {"UNKNOWN"}

\* recomputeWith: an open day without punches has no record.
Recompute ==
    LET figures == CalculateAttendance(Day, Policy, punches', leaves', now)
    IN  record' = IF punches' = {} /\ ~figures.final THEN None ELSE figures

Correction == corrections < MaxCorrections /\ corrections' = corrections + 1

-----------------------------------------------------------------------------
Init ==
    /\ situation \in Situations
    /\ now = situation.day.from
    /\ punches = {} /\ leaves = {} /\ inside = {}
    /\ record = None
    /\ corrections = 0 /\ corrected = FALSE

(* A moment passes; the board was looked at.                               *)
Tick ==
    /\ now < Day.to
    /\ now' = now + 1
    /\ inside' = IF PresenceAt(Day, Policy, punches, leaves, now) = "IN"
                 THEN inside \cup {now} ELSE inside
    /\ UNCHANGED <<situation, punches, leaves, record, corrections, corrected>>

Press(key) ==
    /\ now < Day.to /\ Cardinality(punches) < MaxPunches /\ Free(now)
    /\ punches' = punches \cup {[at |-> now, key |-> key]}
    /\ UNCHANGED <<situation, now, leaves, inside, corrections, corrected>>
    /\ Recompute

(* createManualEvents: one forgotten punch or two, saved together.         *)
AddManual(times, key) ==
    /\ Correction /\ Cardinality(punches) + Cardinality(times) <= MaxPunches
    /\ times \subseteq Empty
    /\ punches' = punches \cup {[at |-> t, key |-> key] : t \in times}
    /\ corrected' = TRUE
    /\ UNCHANGED <<situation, now, leaves, inside>>
    /\ Recompute

VoidEvent(p) ==
    /\ Correction
    /\ punches' = punches \ {p}
    /\ corrected' = TRUE
    /\ UNCHANGED <<situation, now, leaves, inside>>
    /\ Recompute

(* Approved leaves do not overlap; those of a past or running day compute  *)
(* it anew.                                                                *)
ApproveLeave(l) ==
    /\ Correction
    /\ \A other \in leaves : l.end <= other.start \/ other.end <= l.start
    /\ leaves' = leaves \cup {l}
    /\ UNCHANGED <<situation, now, punches, inside, corrected>>
    /\ Recompute

(* finalizePendingDays.                                                    *)
FinalizeDay ==
    /\ now >= Day.to
    /\ UNCHANGED <<situation, now, punches, leaves, inside, corrections, corrected>>
    /\ Recompute

Next ==
    \/ Tick
    \/ \E key \in Pressable : Press(key)
    \/ \E s, t \in Empty, key \in Pressable : s <= t /\ AddManual({s, t}, key)
    \/ \E p \in punches : VoidEvent(p)
    \/ \E l \in LeaveIntervals : ApproveLeave(l)
    \/ FinalizeDay

Spec == Init /\ [][Next]_dayVars

-----------------------------------------------------------------------------
(* Properties.                                                             *)

(* The record and the presence board tell the same day.  When no punch of  *)
(* a closed day is missing and none was corrected, the time worked is the  *)
(* time the board had the person in, and the break is the rest of the time *)
(* between the first entry and the last exit; only an unpunched lunch      *)
(* moves from one to the other, and no more of it than the pauses left.    *)
PresenceIsWorkingTime ==
    (record # None /\ record.final /\ ~record.missing /\ ~corrected /\ punches # {}) =>
        LET in == Cardinality(inside)
            out == record.lastOut - record.firstIn - in
            lunch == IF HasBreak(Day.shift) THEN Day.shift.breakEnd - Day.shift.breakStart ELSE 0
        IN  \E moved \in {0} \cup {Greatest(0, lunch - out)} :
               /\ record.worked = (in - moved) \div Minute
               /\ record.break = (out + moved) \div Minute

Closed(r) == r # None /\ r.final

(* Approving a leave for a closed day never makes anybody look worse: it   *)
(* adds no lateness, no early exit and no missing hours, and takes away no *)
(* overtime.                                                               *)
LeaveNeverHurts ==
    [][(leaves' # leaves /\ Closed(record) /\ Closed(record')) =>
          /\ record'.late <= record.late
          /\ record'.early <= record.early
          /\ record'.short <= record.short
          /\ record'.overtime = record.overtime
          /\ record'.status = "ABSENT" => record.status = "ABSENT"]_dayVars
=============================================================================
