---------------------------- MODULE MCDeviceSync ----------------------------
(* Model-checking instances of DeviceSync: the constants are in the .cfg   *)
(* files. Handlers of one kind run the same code, and punches and          *)
(* terminals are compared for equality only, so each may be permuted.      *)
EXTENDS DeviceSync, TLC

Symmetry ==
  Permutations(Syncs) \cup Permutations(Admins) \cup Permutations(Terminals)
    \cup Permutations(Punches \ Rejected)
=============================================================================
