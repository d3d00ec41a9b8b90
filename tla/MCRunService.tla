---------------------------- MODULE MCRunService ----------------------------
(* RunService for TLC: the constants get their values in the .cfg files. *)
EXTENDS RunService, TLC

CONSTANTS r1, r2, r3

Symmetric == Permutations(Runs \ Unregistered) \cup Permutations(Workers)
=============================================================================
