---------------------------- MODULE RunLifecycle ----------------------------
(***************************************************************************)
(* What the run service promises a client about one run's agent: it is     *)
(* executed at most once.  A run is queued once, starts executing at most  *)
(* once, and once it is over (finished, failed, cancelled before it was    *)
(* picked up, interrupted by a crash or evicted) nothing starts it again.  *)
(* Module RunService is shown to implement this specification.             *)
(***************************************************************************)
CONSTANT Runs

VARIABLE phase  \* how far each run has got

Phase == {"new", "queued", "executing", "over"}

Init == phase = [r \in Runs |-> "new"]

Move(r, from, to) == phase[r] = from /\ phase' = [phase EXCEPT ![r] = to]

Accept(r) == Move(r, "new", "queued")

Begin(r) == Move(r, "queued", "executing")

End(r) == Move(r, "executing", "over")

\* A queued run that ends without its agent having been called.
Drop(r) == Move(r, "queued", "over")

\* The process stops: every execution in progress is interrupted.
Halt == phase' = [r \in Runs |-> IF phase[r] = "executing" THEN "over" ELSE phase[r]]

Next ==
    \/ \E r \in Runs : Accept(r) \/ Begin(r) \/ End(r) \/ Drop(r)
    \/ Halt

Spec == Init /\ [][Next]_phase
=============================================================================
