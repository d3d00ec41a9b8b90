---------------------------- MODULE GraphAnalysis ----------------------------
(***************************************************************************)
(* The analysis agents and the queries of GraphIndex they ask.  A report   *)
(* keeps the ids, edges and verdicts an agent gives and leaves out texts,  *)
(* scores and the order of its lists.  All agents read attributes of a     *)
(* node through find_node() or a map of their own that keeps the first     *)
(* layer's node of an id.                                                  *)
(***************************************************************************)
EXTENDS LayerBuilders

CONSTANTS MaxFallbackEntryPoints, \* MAX_FALLBACK_ENTRY_POINTS, 5 in the code
          MaxSensitiveFlows,      \* MAX_SENSITIVE_FLOWS, 50 in the code
          MinCacheFanIn,          \* MIN_CACHE_FAN_IN, 3 in the code
          HighCacheFanIn,         \* HIGH_CACHE_FAN_IN, 5 in the code
          MinParallelSuccessors,  \* MIN_PARALLEL_SUCCESSORS, 3 in the code
          MinBottleneckScore,     \* MIN_BOTTLENECK_SCORE, 8 in the code
          MediumCoupling          \* MEDIUM_THRESHOLD, 7 in the code

(* node_ids() of a layer's DiGraph, and its degrees. *)
LayerNodes(lg) == GraphNodes(DOMAIN lg.nodes, lg.edges)
FanIn(lg, n) == Cardinality(Predecessors(lg.edges, n))
FanOut(lg, n) == Cardinality(Successors(lg.edges, n))
Uncalled(lg) == {n \in LayerNodes(lg) : FanIn(lg, n) = 0}
Arcs(lg) == {<<e[1], e[2]>> : e \in lg.edges}

(* What list(S)[:n] may hold, of a set in the order of its hashes. *)
UpTo(S, n) == IF Cardinality(S) =< n THEN {S} ELSE {T \in SUBSET S : Cardinality(T) = n}

(* For the mutation checks: the last layer that has the id. *)
LastLayerOf(g, id) == SelectLastInSeq(LayerOrder, LAMBDA l : id \in DOMAIN g[l].nodes)

(* find_node(), build_boundary_map() and build_node_layer_map() take the   *)
(* first layer that has the id; 0 if none has.                             *)
FirstLayerOf(g, id) == SelectInSeq(LayerOrder, LAMBDA l : id \in DOMAIN g[l].nodes)
FindNode(g, id) == g[LayerOrder[FirstLayerOf(g, id)]].nodes[id]
BoundaryOf(g, id) == IF FirstLayerOf(g, id) = 0 THEN "none" ELSE FindNode(g, id).boundary
------------------------------------------------------------------------------
(* find_entry_points() of the flow agent: ids nothing calls, or the first  *)
(* of a largest strongly connected component.  The set of its choices.     *)
FallbackEntryPoints(lg) ==
  LET nodes == LayerNodes(lg)
      reach == [n \in nodes |-> Descendants(lg.edges, n)]
      components == {{n} \cup {m \in reach[n] : n \in reach[m]} : n \in nodes}
      largest == {C \in components : \A D \in components : Cardinality(D) =< Cardinality(C)}
  IN  UNION {UpTo(C, MaxFallbackEntryPoints) : C \in largest}

FlowEntryPoints(lg) ==
  IF Uncalled(lg) # {} \/ LayerNodes(lg) = {} THEN {Uncalled(lg)} ELSE FallbackEntryPoints(lg)

Reached(lg, entries) == entries \cup UNION {Descendants(lg.edges, n) : n \in entries}

(* FlowAnalysisAgent.analyze() for one choice of entry points.             *)
FlowReport(g, entries) ==
  LET calls == g["call"]
      reachable == Reached(calls, entries)
  IN  [entries |-> entries,
       reachable |-> reachable,
       dead |-> LayerNodes(calls) \ reachable,
       bottlenecks |-> {n \in LayerNodes(calls) : FanIn(calls, n) + FanOut(calls, n) >= MinBottleneckScore},
       dag |-> IsAcyclic(LayerNodes(calls), Arcs(calls))]

(* find_caching_opportunities(): what has no side effects, or very many    *)
(* callers.  find_node() gives the node of the call layer.                 *)
CachingOpportunities(g) ==
  LET calls == g["call"]
      often == {n \in LayerNodes(calls) : FanIn(calls, n) >= MinCacheFanIn /\ FirstLayerOf(g, n) # 0}
      pure == {n \in often : FindNode(g, n).effects = {}}
  IN  [pure |-> pure, bounded |-> {n \in often \ pure : FanIn(calls, n) >= HighCacheFanIn}]

(* find_parallelization_opportunities(): the successors of a node that     *)
(* reach no other successor.                                               *)
ParallelizationOpportunities(g) ==
  LET edges == g["call"].edges
      Independent(n) == LET S == Successors(edges, n)
                        IN  {s \in S : Descendants(edges, s) \cap (S \ {s}) = {}}
  IN  {[node |-> n, independent |-> Independent(n)] :
         n \in {m \in LayerNodes(g["call"]) : Cardinality(Independent(m)) >= MinParallelSuccessors}}

(* PerformanceAgent.analyze() without the critical paths. *)
PerformanceReport(g) ==
  [caching |-> CachingOpportunities(g),
   parallel |-> ParallelizationOpportunities(g),
   expensive |-> {n \in LayerNodes(g["call"]) : FindNode(g, n).order \in 4 .. 6}]
------------------------------------------------------------------------------
(* detect_layering_violations(): edges between nodes whose first layers    *)
(* differ.                                                                 *)
LayeringViolations(g) ==
  {e \in EdgeKeys(g) :
     /\ FirstLayerOf(g, e[1]) # 0 /\ FirstLayerOf(g, e[2]) # 0
     /\ FirstLayerOf(g, e[1]) # FirstLayerOf(g, e[2])
     /\ e[3] \in {"call", "data", "import"}}

(* ArchitectureAgent.analyze() without the communities. *)
ArchitectureReport(g) ==
  LET calls == g["call"]
      nodes == LayerNodes(calls)
  IN  [coupling |-> {n \in nodes : FanIn(calls, n) + FanOut(calls, n) >= MediumCoupling},
       violations |-> LayeringViolations(g),
       cycles |-> SimpleCycles(Arcs(calls), nodes),
       orphans |-> {n \in nodes : FanIn(calls, n) = 0 /\ FanOut(calls, n) = 0}]
------------------------------------------------------------------------------
Trusted == {"authenticated", "authorized", "admin"}

(* trace_sensitive_data_flows(): from a source with a sensitive name or a  *)
(* trusted boundary to all it reaches; a graph without nodes is passed     *)
(* over for the security layer.  The report keeps the first flows.         *)
SensitiveFlows(g) ==
  LET lg == IF DOMAIN g["data_flow"].nodes = {} THEN g["security"] ELSE g["data_flow"]
      sources == {n \in Uncalled(lg) : /\ FirstLayerOf(g, n) # 0
                                       /\ \/ Says(n[2], "keyword")
                                          \/ FindNode(g, n).boundary \in Trusted}
      Crosses(s, t) == BoundaryOf(g, s) # BoundaryOf(g, t) /\ BoundaryOf(g, s) # "none"
  IN  UNION {{[source |-> s, target |-> t, crosses |-> Crosses(s, t)] : t \in Descendants(lg.edges, s)}
               : s \in sources}

(* crossing_risk() *)
CrossingRisk(s, t) ==
  CASE s \in {"none", "external"} /\ t \in Trusted -> "high"
    [] s = "admin" /\ t # "admin" -> "high"
    [] s = "internal" /\ t = "external" -> "medium"
    [] OTHER -> "low"

(* detect_trust_boundary_crossings() *)
BoundaryCrossings(g) ==
  {[source |-> e[1], target |-> e[2], from |-> BoundaryOf(g, e[1]), to |-> BoundaryOf(g, e[2]),
    risk |-> CrossingRisk(BoundaryOf(g, e[1]), BoundaryOf(g, e[2]))]
     : e \in {f \in g["security"].edges : BoundaryOf(g, f[1]) # BoundaryOf(g, f[2])}}

(* _scan_per_node(): code with a sensitive word for a name and no boundary.*)
(* The detectors that look at parameters and return types are left out.    *)
Exposures(g) == {n \in LayerNodes(g["call"]) : BoundaryOf(g, n) = "none" /\ Says(n[2], "word")}

(* _scan_per_edge(): data that unclassified code feeds into a boundary. *)
UntrustedFeeds(g) ==
  {e \in g["data_flow"].edges : /\ BoundaryOf(g, e[1]) = "none"
                                /\ BoundaryOf(g, e[2]) \notin {"none", "external"}
                                /\ ~Says(e[1][2], "sanitize")}

(* SecurityAgent.analyze(), for one choice of the flows it keeps. *)
SecurityReport(g, flows) ==
  [flows |-> flows,
   crossings |-> BoundaryCrossings(g),
   exposures |-> Exposures(g),
   untrusted |-> UntrustedFeeds(g),
   classified |-> [b \in Trusted \cup {"internal", "external"} |->
                     {n \in NodeIds(g) : BoundaryOf(g, n) = b}]]
==============================================================================
