----------------------------- MODULE MCEventBus -----------------------------
(* EventBus for TLC: the constants get their values in MCEventBus.cfg. *)
EXTENDS EventBus, TLC

Symmetric == Permutations(Calls)
=============================================================================
