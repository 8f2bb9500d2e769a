---------------------------- MODULE PunchLedger -----------------------------
(***************************************************************************)
(* What ingestion promises, whatever path a punch takes: a punch is stored *)
(* only after a terminal recorded it, only if it is valid, at most once    *)
(* (a set), and for good.                                                  *)
(***************************************************************************)
CONSTANTS Punches, Rejected

VARIABLES recorded, stored

lvars == <<recorded, stored>>

Init == recorded = {} /\ stored = {}

Record(p) ==
  /\ recorded' = recorded \cup {p}
  /\ UNCHANGED stored

Store(S) ==
  /\ S \subseteq recorded \ Rejected
  /\ stored' = stored \cup S
  /\ UNCHANGED recorded

Next ==
  \/ \E p \in Punches : Record(p)
  \/ \E S \in SUBSET Punches : Store(S)

Spec == Init /\ [][Next]_lvars
=============================================================================
