--------------------------- MODULE PlatformServices ---------------------------
(***************************************************************************)
(* The in-process services an agent finds in its process: the TTL store,   *)
(* the tool manager and the metrics.  They share no state and none calls   *)
(* another, so a behaviour exercises one of them.                          *)
(***************************************************************************)
EXTENDS TtlStore, ToolManager, Metrics

VARIABLE service
vars == <<service, stateVars, toolVars, metricVars>>

Init == service \in {"state", "tools", "metrics"} /\ TtlInit /\ ToolInit /\ MetricsInit

Using(s) == service = s /\ UNCHANGED service
StateStep == Using("state") /\ TtlNext /\ UNCHANGED <<toolVars, metricVars>>
ToolStep == Using("tools") /\ ToolNext /\ UNCHANGED <<stateVars, metricVars>>
MetricsStep == Using("metrics") /\ MetricsNext /\ UNCHANGED <<stateVars, toolVars>>
Next == StateStep \/ ToolStep \/ MetricsStep

(* The event loop runs a task that is due, and time passes.  Nothing       *)
(* obliges a handler to end or a caller to invoke.                         *)
TimePasses == Using("tools") /\ TickTools /\ UNCHANGED <<stateVars, metricVars>>
Polls(c) == Using("tools") /\ Poll(c) /\ UNCHANGED <<stateVars, metricVars>>
Fairness == WF_vars(TimePasses) /\ \A c \in Callers : WF_vars(Polls(c))

Spec == Init /\ [][Next]_vars /\ Fairness
==============================================================================
