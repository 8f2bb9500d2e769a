-------------------------------- MODULE MCDays -------------------------------
(***************************************************************************)
(* Model-checking instance of the days of one employee: which punches they *)
(* own as schedules and holidays change (DayAttribution, extended), and    *)
(* that the hourly job closes them (AttendanceRecords, with nobody but the *)
(* job).  The two share nothing here, so a behaviour is about one of them, *)
(* chosen at the start.                                                    *)
(***************************************************************************)
EXTENDS MCDayAttribution

CONSTANTS
    Punches, Leaves, DayOf, OvertimeOf, LastDay, Hired, Lookback, FillDays, MaxGap,
    Changers, Finalizers, Reviewers, MaxFaults, Mortal, SameDay, PlanRaces, ReviewRaces

VARIABLES
    focus,  \* which of them this behaviour is about
    today, ended, facts, special, closed, overtime, overtimeRows, job, lastRun, spent

closing == <<today, ended, facts, special, closed, overtime, overtimeRows, job, lastRun, spent>>
allVars == <<focus, vars, closing>>

A == INSTANCE AttendanceRecords WITH record <- closed, rows <- overtimeRows

InitAll == focus \in {"attribution", "closing"} /\ Init /\ A!Init

Attributing == focus = "attribution" /\ UNCHANGED <<focus, closing>>
Closing == focus = "closing" /\ UNCHANGED <<focus, vars>>

NextAny ==
    \/ Next /\ Attributing
    \/ A!Next /\ Closing

\* The fairness of AttendanceRecords, for a behaviour about it.
Fairness ==
    /\ \A h \in Finalizers : WF_allVars(Closing /\ (A!Finalize(h) \/ A!Recompute(h)))
    /\ WF_allVars(Closing /\ A!NextDate) /\ WF_allVars(Closing /\ A!WindowEnds)

SpecAll == InitAll /\ [][NextAny]_allVars /\ Fairness

NoFacts == [f \in {} |-> 0]

NoOvertime == [x \in {{}} \X BOOLEAN |-> 0]

(* The property beside those of DayAttribution, explained in its module:   *)
(* a day that has ended gets its final record.                             *)
DaysAreClosed == focus = "closing" => A!DaysAreClosed
=============================================================================
