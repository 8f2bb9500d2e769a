--------------------------- MODULE MCEmailOutbox ----------------------------
(* Model-checking instances of EmailOutbox: the constants are in the .cfg   *)
(* files, except the sequences.                                            *)
EXTENDS EmailOutbox, TLC

OneRetry == <<1>>
TwoRetries == <<1, 2>>

Symmetry == Permutations(Emails) \cup Permutations(Workers)
=============================================================================
