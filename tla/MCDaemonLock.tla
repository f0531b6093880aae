---------------------------- MODULE MCDaemonLock ----------------------------
(* TLC instances of DaemonLock. *)
EXTENDS DaemonLock, TLC

CONSTANTS d1, d2, d3

DaemonSymmetry == Permutations({d1, d2, d3})
=============================================================================
