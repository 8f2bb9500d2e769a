------------------------ MODULE MCAttendanceRecords -------------------------
(* Model-checking instances of AttendanceRecords: the constants are in the *)
(* .cfg files, except the two functions.                                   *)
EXTENDS AttendanceRecords, TLC

\* Punches and leaves all belong to the first day.
FirstDayOnly == [f \in Facts |-> 0]

\* A pair of punches is a minute of overtime, two on a special day.
PairsAreOvertime ==
  [x \in (SUBSET Facts) \X BOOLEAN |->
     IF Cardinality(x[1] \cap Punches) < 2 THEN 0 ELSE IF x[2] THEN 2 ELSE 1]

Symmetry == Permutations(Changers) \cup Permutations(Punches)
=============================================================================
