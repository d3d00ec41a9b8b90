------------------------------- MODULE Metrics -------------------------------
(***************************************************************************)
(* MetricsRegistry and Histogram of intelliqx_observability/metrics.py,    *)
(* used by several threads.  A registry maps a name to a metric object; a  *)
(* thread keeps the objects it was given, as every agent keeps its         *)
(* registry.  Objects are numbered; 0 is None.                             *)
(***************************************************************************)
EXTENDS Integers, Sequences, FiniteSets, SequencesExt

CONSTANTS Threads, Samples,
          MaxObservations, MaxResets  \* bounds

ASSUME MetricsAssumption == Samples \subseteq Int  \* what is observed are numbers

VARIABLES singleton,   \* the process-wide registry
          registries,  \* for each registry its metric object, 0 before it is asked for
          samples,     \* for each metric object the values observed
          threads,     \* where each thread is and the objects it holds
          reset,       \* where reset_metrics() is and the registry it clears
          resets,      \* history: how often each registry was cleared
          noted        \* history: observations since then through objects asked for since then
metricVars == <<singleton, registries, samples, threads, reset, resets, noted>>

NoReset == [at |-> "start", registry |-> 0]

MetricsInit ==
  /\ singleton = 0 /\ registries = <<>> /\ samples = <<>> /\ resets = <<>> /\ noted = <<>>
  /\ threads = [th \in Threads |-> [at |-> "start", registry |-> 0, metric |-> 0, since |-> 0]]
  /\ reset = NoReset

(* get_metrics() takes no lock: it looks, creates, and returns what the    *)
(* global holds by then.                                                   *)
Look(th) ==
  /\ threads[th].at = "start"
  /\ threads' = [threads EXCEPT ![th].at = IF singleton = 0 THEN "create" ELSE "return"]
  /\ UNCHANGED <<singleton, registries, samples, reset, resets, noted>>
Create(th) ==
  /\ threads[th].at = "create"
  /\ registries' = Append(registries, 0) /\ resets' = Append(resets, 0) /\ noted' = Append(noted, 0)
  /\ singleton' = Len(registries')
  /\ threads' = [threads EXCEPT ![th].at = "return"]
  /\ UNCHANGED <<samples, reset>>
ReturnRegistry(th) ==
  /\ threads[th].at = "return"
  /\ threads' = [threads EXCEPT ![th].at = IF singleton = 0 THEN "failed" ELSE "holds", ![th].registry = singleton]
  /\ UNCHANGED <<singleton, registries, samples, reset, resets, noted>>

\* How much has been done, for the bounds.
Observed == FoldLeft(LAMBDA n, s : n + Len(s), 0, samples)
Cleared == FoldLeft(LAMBDA n, k : n + k, 0, resets)

(* MetricsRegistry.histogram(): get or create, under the registry's lock.  *)
AlwaysAbsent(r) == TRUE
IsAbsent(r) == registries[r] = 0
Histogram(th) ==
  LET r == threads[th].registry
  IN  /\ threads[th].at = "holds"
      /\ IF IsAbsent(r)
         THEN samples' = Append(samples, <<>>) /\ registries' = [registries EXCEPT ![r] = Len(samples')]
         ELSE UNCHANGED <<samples, registries>>
      /\ threads' = [threads EXCEPT ![th].metric = registries'[r], ![th].since = resets[r]]
      /\ UNCHANGED <<singleton, reset, resets, noted>>

Observe(th, value) ==
  LET m == threads[th].metric
      r == threads[th].registry
  IN  /\ m # 0 /\ Observed < MaxObservations
      /\ samples' = [samples EXCEPT ![m] = Append(@, value)]
      /\ noted' = [noted EXCEPT ![r] = IF threads[th].since = resets[r] THEN @ + 1 ELSE @]
      /\ UNCHANGED <<singleton, registries, threads, reset, resets>>

(* reset_metrics() takes no lock either: it looks, reads the global again, *)
(* clears what it read, under that registry's lock, and forgets whatever   *)
(* there is by then.  Threads keep registries and metrics.  One task at a  *)
(* time resets.                                                            *)
LookForReset ==
  /\ reset.at = "start" /\ Cleared < MaxResets
  /\ reset' = [reset EXCEPT !.at = IF singleton = 0 THEN "forget" ELSE "read"]
  /\ UNCHANGED <<singleton, registries, samples, threads, resets, noted>>
ReadForReset ==
  /\ reset.at = "read"
  /\ reset' = [at |-> "clear", registry |-> singleton]
  /\ UNCHANGED <<singleton, registries, samples, threads, resets, noted>>
ClearRegistry ==
  LET r == reset.registry
  IN  /\ reset.at = "clear"
      /\ registries' = [registries EXCEPT ![r] = 0]
      /\ resets' = [resets EXCEPT ![r] = @ + 1]
      /\ noted' = [noted EXCEPT ![r] = 0]
      /\ reset' = [at |-> "forget", registry |-> 0]
      /\ UNCHANGED <<singleton, samples, threads>>
Forget ==
  /\ reset.at = "forget"
  /\ singleton' = 0 /\ reset' = NoReset
  /\ UNCHANGED <<registries, samples, threads, resets, noted>>

MetricsNext ==
  \/ \E th \in Threads : Look(th) \/ Create(th) \/ ReturnRegistry(th) \/ Histogram(th) \/ \E v \in Samples : Observe(th, v)
  \/ LookForReset \/ ReadForReset \/ ClearRegistry \/ Forget
------------------------------------------------------------------------------
(* Where sorted(), which is stable, puts the i-th sample.                  *)
Place(s, i) == Cardinality({j \in DOMAIN s : s[j] < s[i] \/ (s[j] = s[i] /\ j =< i)})

(* Histogram.snapshot(), which holds the histogram's lock: the percentile  *)
(* at p is the sample at the index int(p * n), clamped, of the sorted      *)
(* samples.  MetricsRegistry.snapshot() asks each metric for its snapshot. *)
Percentile(p, s) ==
  LET index == IF (p * Len(s)) \div 100 < Len(s) THEN (p * Len(s)) \div 100 ELSE Len(s) - 1
  IN  s[CHOOSE i \in DOMAIN s : Place(s, i) = index + 1]
Snapshot(r) ==
  LET s == IF registries[r] = 0 THEN <<>> ELSE samples[registries[r]]
  IN  [count |-> Len(s), pct |-> [p \in {50, 95, 99} |-> IF s = <<>> THEN 0 ELSE Percentile(p, s)]]

(* A registry's snapshot accounts for every observation made through it    *)
(* since it was cleared, whatever threads raced to make it, and each       *)
(* percentile divides these: at least p percent are at most that value, at *)
(* most p percent below it.                                                *)
CountAccounts(r) == Snapshot(r).count = noted[r]
PercentilesDivide(r) ==
  LET shown == Snapshot(r)
      Share(Test(_)) == 100 * Cardinality({i \in DOMAIN samples[registries[r]] : Test(samples[registries[r]][i])})
  IN  shown.count > 0 => \A p \in DOMAIN shown.pct :
        /\ Share(LAMBDA v : v =< shown.pct[p]) >= p * shown.count
        /\ Share(LAMBDA v : v < shown.pct[p]) =< p * shown.count
SnapshotAccounts == \A r \in DOMAIN registries : CountAccounts(r) /\ PercentilesDivide(r)
==============================================================================
