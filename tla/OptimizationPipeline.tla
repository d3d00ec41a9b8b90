------------------------- MODULE OptimizationPipeline -------------------------
(***************************************************************************)
(* OptimizationPipeline.run(): four passes over a software graph, each     *)
(* followed by the verification agent, which reverts a pass that does not  *)
(* preserve the behaviour, and the report of parallel branches at the end. *)
(* The passes look at the working graph and, through the index, at the     *)
(* graph as it was put in.  The properties say what the user may rely on:  *)
(* the optimised graph reaches exactly what the input reached.             *)
(***************************************************************************)
EXTENDS SoftwareGraph

CONSTANTS Entries,            \* entry_points
          Inputs,             \* the graphs optimize_graph() is called with
          MediumChange,       \* RISK_MEDIUM_CHANGE_THRESHOLD
          MaxTraceBranching,  \* MAX_TRACE_BRANCHING
          MaxTraceDepth       \* DEFAULT_TRACE_MAX_DEPTH

(* What the layer builders return: the edges of a layer join its nodes.    *)
EdgesJoinNodes(g) == \A l \in Layers : g[l].edges \subseteq (DOMAIN g[l].nodes) \X (DOMAIN g[l].nodes)

ASSUME PipelineAssumption ==
  /\ Entries \subseteq Ids
  /\ Ids \cap Parts = {}
  /\ \A g \in Inputs : IsSoftwareGraph(g) /\ NodeIds(g) \subseteq Ids /\ EdgesJoinNodes(g)
  /\ MaxTraceBranching \in Nat /\ MaxTraceBranching >= 1
  /\ MaxTraceDepth \in Nat /\ MaxTraceDepth >= 2

VARIABLES input,      \* self.graph, and the graph behind self.graph_index
          working,    \* the graph the passes have made so far
          reports,    \* the verdict and the risk level of each report
          branches,   \* parallel_branches, {} before they are computed
          maxRisk,    \* max_risk_level of the summary
          truncated   \* history: a pass was verified against a truncated search of its input

vars == <<input, working, reports, branches, maxRisk, truncated>>

RiskLevel == {"low", "medium", "high", "critical"}
RISK_ORDER == [low |-> 0, medium |-> 1, high |-> 2, critical |-> 3]
------------------------------------------------------------------------------
(* For the mutation checks: what is dead is decided layer by layer. *)
RemoveDeadNodesPerLayer(original, g) ==
  LET Dead(lg) == DOMAIN lg.nodes \ UNION {{n} \cup Descendants(lg.edges, n) : n \in Entries}
      Cleared(lg) == [nodes |-> Restrict(lg.nodes, DOMAIN lg.nodes \ Dead(lg)),
                      edges |-> {e \in lg.edges : e[1] \notin Dead(lg) /\ e[2] \notin Dead(lg)}]
  IN  [l \in Layers |-> Cleared(g[l])]

(* remove_dead_nodes(): the dead ids come from the index. *)
RemoveDeadNodes(original, g) ==
  LET dead == FindDeadNodes(original, Entries)
      Cleared(lg) ==
        LET gone == dead \cap DOMAIN lg.nodes
        IN  [nodes |-> Restrict(lg.nodes, DOMAIN lg.nodes \ gone),
             edges |-> {e \in lg.edges : e[1] \notin gone /\ e[2] \notin gone}]
  IN  [l \in Layers |-> Cleared(g[l])]

IsSimpleNode(node) == node.order =< 5 /\ ~node.effects

(* inline_trivial_nodes(): a simple node with one successor in the index's *)
(* layer goes, and the edges into it lead to its successor, unless they    *)
(* come from another such node.                                            *)
InlineTrivialNodes(original, g) ==
  LET Candidates(l) == {n \in DOMAIN g[l].nodes :
                          /\ Cardinality(Successors(original[l].edges, n)) = 1
                          /\ IsSimpleNode(g[l].nodes[n])}
      Inlined(lg, cand) ==
        [nodes |-> Restrict(lg.nodes, DOMAIN lg.nodes \ cand),
         edges |-> {e \in lg.edges : e[1] \notin cand /\ e[2] \notin cand}
                     \cup UNION {(Predecessors(lg.edges, c) \ cand) \X Successors(lg.edges, c) : c \in cand}]
  IN  [l \in Layers |-> Inlined(g[l], Candidates(l))]

(* COMPLEXITY_SPLIT_THRESHOLD *)
IsHeavy(node) == node.order \in {5, 6}

(* reduce_complexity(): a heavy node becomes a chain of two linear ones;   *)
(* the edges out of it leave from the first part and the edges into it     *)
(* lead to the second.                                                     *)
ReduceComplexity(g) ==
  LET Split(lg) ==
        LET splits == {n \in DOMAIN lg.nodes : IsHeavy(lg.nodes[n])}
            parts == splits \X {0, 1}
            Source(n) == IF n \in splits THEN <<n, 0>> ELSE n
            Target(n) == IF n \in splits THEN <<n, 1>> ELSE n
        IN  [nodes |-> [n \in (DOMAIN lg.nodes \ splits) \cup parts |->
                          IF n \in parts THEN [lg.nodes[n[1]] EXCEPT !.order = 2] ELSE lg.nodes[n]],
             edges |-> {<<Source(e[1]), Target(e[2])>> : e \in lg.edges}
                         \cup {<<<<n, 0>>, <<n, 1>>>> : n \in splits}]
  IN  [l \in Layers |-> Split(g[l])]

(* For the mutation checks: nodes without an estimate are passed over. *)
CycleBreakEdgesEstimated(lg, cycle) ==
  LET ranked == {e \in cycle : e[1] \in DOMAIN lg.nodes /\ lg.nodes[e[1]].order < 7}
  IN  {e \in ranked : \A f \in ranked : lg.nodes[f[1]].order =< lg.nodes[e[1]].order}

(* select_cycle_break_edge(): an edge whose source has the highest         *)
(* complexity; which of several depends on where the cycle was entered.    *)
CycleBreakEdges(lg, cycle) ==
  LET ranked == {e \in cycle : e[1] \in DOMAIN lg.nodes}
  IN  {e \in ranked : \A f \in ranked : lg.nodes[f[1]].order =< lg.nodes[e[1]].order}

(* clean_dependency_cycles(): every simple cycle of every component of two *)
(* or more nodes loses one edge.  The set of graphs it may return.         *)
CleanDependencyCycles(g) ==
  LET Cycles(lg) == {c \in UNION {SimpleCycles(lg.edges, C) :
                                    C \in CyclicComponents(GraphNodes(DOMAIN lg.nodes, lg.edges), lg.edges)} :
                       CycleBreakEdges(lg, c) # {}}
      Cleaned(lg) ==
        LET cycles == Cycles(lg)
            picks == {f \in [cycles -> lg.edges] : \A c \in cycles : f[c] \in CycleBreakEdges(lg, c)}
        IN  {[lg EXCEPT !.edges = @ \ Range(f)] : f \in picks}
      options == [l \in Layers |-> Cleaned(g[l])]
  IN  {h \in [Layers -> UNION Range(options)] : \A l \in Layers : h[l] \in options[l]}
------------------------------------------------------------------------------
(* What reachable_from() gives the search at each id. *)
ReachableFrom(g) == [n \in NodeIds(g) |-> Descendants(EdgeKeys(g), n) \cap NodeIds(g)]

(* The ids of a search that lead to more ids than it follows.              *)
Overfull(g) ==
  LET next == ReachableFrom(g)
      searched == UNION {{n} \cup next[n] : n \in Entries \cap NodeIds(g)}
  IN  {n \in searched : Cardinality(next[n]) > MaxTraceBranching}

(* successors[:MAX_TRACE_BRANCHING]: the first ones of a set, in an order  *)
(* that depends on the hashes and on how the set was filled.               *)
FirstSuccessors(g) ==
  LET overfull == Overfull(g)
      next == ReachableFrom(g)
      Firsts == {S \in SUBSET NodeIds(g) : Cardinality(S) = MaxTraceBranching}
  IN  {first \in [overfull -> Firsts] : \A n \in overfull : first[n] \subseteq next[n]}

(* For the mutation checks: the walks follow single edges. *)
BuildTraceSetAlongEdges(g, first) ==
  LET valid == NodeIds(g)
      next == [n \in valid |-> Successors(EdgeKeys(g), n) \cap valid]
      Traces[path \in Seq(valid) \ {<<>>}] ==
        LET current == path[Len(path)]
        IN  IF next[current] = {} \/ \E i \in 1 .. Len(path) - 1 : path[i] = current
            THEN {path}
            ELSE UNION {Traces[Append(path, s)] : s \in next[current]}
  IN  UNION {Traces[<<n>>] : n \in Entries \cap valid}

(* build_trace_set(): from each entry point, walks along reachable_from()  *)
(* that end at an id without successors, at the first id that repeats, or  *)
(* at the depth limit; of an overfull id only the first successors.        *)
BuildTraceSet(g, first) ==
  LET valid == NodeIds(g)
      reachable == ReachableFrom(g)
      next == [n \in valid |-> IF n \in DOMAIN first THEN first[n] ELSE reachable[n]]
      Traces[path \in Seq(valid) \ {<<>>}] ==
        LET current == path[Len(path)]
        IN  IF \/ next[current] = {}
               \/ Len(path) > MaxTraceDepth
               \/ \E i \in 1 .. Len(path) - 1 : path[i] = current
            THEN {path}
            ELSE UNION {Traces[Append(path, s)] : s \in next[current]}
  IN  UNION {Traces[<<n>>] : n \in Entries \cap valid}

(* For the mutation checks: only the removed nodes are looked at. *)
VerifyNodesOnly(before, after, firstBefore, firstAfter) ==
  (NodeIds(before) \ NodeIds(after)) \cap LiveIds(before, Entries) = {}

(* VerificationAgent.verify(): no trace is lost and no live node is gone. *)
Verify(before, after, firstBefore, firstAfter) ==
  /\ BuildTraceSet(before, firstBefore) \subseteq BuildTraceSet(after, firstAfter)
  /\ (NodeIds(before) \ NodeIds(after)) \cap LiveIds(before, Entries) = {}

(* assess_risk(), with the counts of verify(): a set and what it became.   *)
AssessRisk(before, after, preserved) ==
  LET Changes(S, T) == Cardinality(S \ T) + Cardinality(T \ S)
      total == Changes(NodeIds(before), NodeIds(after)) + Changes(EdgeKeys(before), EdgeKeys(after))
  IN  IF (NodeIds(before) \ NodeIds(after)) \cap LiveIds(before, Entries) # {} THEN "critical"
      ELSE IF ~preserved THEN "high"
      ELSE IF total > MediumChange THEN "medium" ELSE "low"

(* apply_pass(): the result of the pass if it is verified, else the graph. *)
ApplyPass(result, firstBefore, firstAfter) ==
  LET ok == Verify(working, result, firstBefore, firstAfter)
  IN  /\ working' = IF ok THEN result ELSE working
      /\ reports' = Append(reports, [preserved |-> ok, risk |-> AssessRisk(working, result, ok)])
      /\ truncated' = (truncated \/ Overfull(working) # {})

(* A pass whose two graphs are searched in whatever order their sets have; *)
(* one that changes nothing leaves the order as it was.                    *)
ApplyReordering(result) ==
  \E before \in FirstSuccessors(working), after \in FirstSuccessors(result) :
    /\ result = working => after = before
    /\ ApplyPass(result, before, after)

(* For the mutation checks: the level of the last report. *)
LastRisk(rs) == rs[Len(rs)].risk

(* max() over the risk levels of the reports, which are strings.           *)
HighestRisk(rs) ==
  LET text == [critical |-> 0, high |-> 1, low |-> 2, medium |-> 3]
      risks == {rs[i].risk : i \in 1 .. Len(rs)}
  IN  CHOOSE r \in risks : \A q \in risks : text[q] =< text[r]
------------------------------------------------------------------------------
(* For the mutation checks: one placed predecessor is enough. *)
ParallelLevelsEager(nodes, edges) ==
  LET Below[at \in (SUBSET AllIds) \X (SUBSET AllIds)] ==
        LET level == at[1]
            placed == at[2] \cup level
        IN  IF level = {} THEN {}
            ELSE {level} \cup Below[<<(UNION {Successors(edges, n) : n \in level}) \ placed, placed>>]
  IN  Below[<<{n \in nodes : Predecessors(edges, n) = {}}, {}>>]

(* parallel_levels(): the roots, then again and again the successors of a  *)
(* level whose predecessors have all been placed.                          *)
ParallelLevels(nodes, edges) ==
  LET Below[at \in (SUBSET AllIds) \X (SUBSET AllIds)] ==
        LET level == at[1]
            placed == at[2] \cup level
            below == {s \in (UNION {Successors(edges, n) : n \in level}) \ placed :
                        Predecessors(edges, s) \subseteq placed}
        IN  IF level = {} THEN {} ELSE {level} \cup Below[<<below, placed>>]
  IN  Below[<<{n \in nodes : Predecessors(edges, n) = {}}, {}>>]

(* parallelize_independent_branches(): of the layers as the index knows    *)
(* them, the levels of an acyclic one and the components of a cyclic one.  *)
ParallelBranches(original) ==
  LET Nodes(l) == GraphNodes(DOMAIN original[l].nodes, original[l].edges)
      Branches(l) ==
        (IF IsAcyclic(Nodes(l), original[l].edges) THEN ParallelLevels(Nodes(l), original[l].edges) ELSE {})
          \cup CyclicComponents(Nodes(l), original[l].edges)
  IN  {B \in UNION {Branches(l) : l \in Layers} : Cardinality(B) >= 2}
------------------------------------------------------------------------------
Init == /\ input \in Inputs
        /\ working = input
        /\ reports = <<>>
        /\ branches = {}
        /\ maxRisk = "low"
        /\ truncated = FALSE

(* Live ids keep their edges, in the order they had, so both searches take *)
(* the same first successors.                                              *)
DeadCodeRemoval == /\ Len(reports) = 0
                   /\ \E first \in FirstSuccessors(working) :
                        ApplyPass(RemoveDeadNodes(input, working), first, first)
                   /\ UNCHANGED <<input, branches, maxRisk>>

InlineTrivial == /\ Len(reports) = 1
                 /\ ApplyReordering(InlineTrivialNodes(input, working))
                 /\ UNCHANGED <<input, branches, maxRisk>>

Reduce == /\ Len(reports) = 2
          /\ ApplyReordering(ReduceComplexity(working))
          /\ UNCHANGED <<input, branches, maxRisk>>

(* For the mutation checks: the last report is appended twice. *)
CleanCyclesReportedTwice ==
  /\ Len(reports) = 3
  /\ \E result \in CleanDependencyCycles(working) :
       \E before \in FirstSuccessors(working), after \in FirstSuccessors(result) :
       LET ok == Verify(working, result, before, after)
           report == [preserved |-> ok, risk |-> AssessRisk(working, result, ok)]
       IN  /\ working' = IF ok THEN result ELSE working
           /\ reports' = reports \o <<report, report>>
  /\ branches' = ParallelBranches(input)
  /\ maxRisk' = HighestRisk(reports')
  /\ truncated' = (truncated \/ Overfull(working) # {})
  /\ UNCHANGED input

(* The last pass, then the report of branches and the summary. *)
CleanCycles == /\ Len(reports) = 3
               /\ \E result \in CleanDependencyCycles(working) : ApplyReordering(result)
               /\ branches' = ParallelBranches(input)
               /\ maxRisk' = HighestRisk(reports')
               /\ UNCHANGED input

Next == DeadCodeRemoval \/ InlineTrivial \/ Reduce \/ CleanCycles

Spec == Init /\ [][Next]_vars
------------------------------------------------------------------------------
(* The working graph is a software graph, and there is one report per pass. *)
TypeOK ==
  /\ IsSoftwareGraph(working)
  /\ reports \in Seq([preserved : BOOLEAN, risk : RiskLevel]) /\ Len(reports) =< 4
  /\ maxRisk \in RiskLevel
  /\ branches \subseteq SUBSET Ids

(* The entry points lead to the same ids of the input as they did, and so  *)
(* does every id on the way.  This is what a comparison of the exact trace *)
(* sets before and after, of which the comment on dfs_traces() speaks,     *)
(* makes sure of, as a pass that fails it is reverted.  It need not hold   *)
(* where an id reaches more than MAX_TRACE_BRANCHING others.               *)
SameReach ==
  LET live == LiveIds(input, Entries) \cap NodeIds(input)
  IN  /\ live \subseteq NodeIds(working)
      /\ \A n \in live :
           Descendants(EdgeKeys(working), n) \cap Ids = Descendants(EdgeKeys(input), n)

(* What run() may rely on after any number of passes: from every id the    *)
(* entry points reach, the working graph reaches the same ids of the input *)
(* as the input does, and all of them are still nodes, as long as no pass  *)
(* was given a graph whose search is truncated.  Inlining, the split and   *)
(* the broken cycles each change the edges; only the verification keeps a  *)
(* change that cuts a path out of the result.                              *)
BehaviourPreserved == ~truncated => SameReach

(* The first pass is never reverted, and no later one brings back an id    *)
(* that no entry point reaches.                                            *)
DeadCodeGone ==
  reports # <<>> =>
    /\ reports[1].preserved
    /\ NodeIds(working) \cap Ids \subseteq LiveIds(input, Entries)

(* When the last pass is kept, no layer has a cycle of two or more nodes   *)
(* left, however the ties between its edges were broken.                   *)
CyclesCleaned ==
  (Len(reports) = 4 /\ reports[4].preserved) =>
    \A l \in Layers : CyclicComponents(GraphNodes({}, working[l].edges), working[l].edges) = {}

(* What the comparison of traces amounts to: every live id reaches at      *)
(* least what it reached, and an id that reached nothing still does not.   *)
SameOrMoreReach(before, after) ==
  LET Reach(g, n) == Descendants(EdgeKeys(g), n) \cap NodeIds(g)
      live == UNION {{n} \cup Reach(before, n) : n \in Entries \cap NodeIds(before)}
  IN  /\ Entries \cap NodeIds(before) \subseteq NodeIds(after)
      /\ \A n \in live : Reach(before, n) \subseteq Reach(after, n)
      /\ \A n \in live : Reach(before, n) = {} => Reach(after, n) = {}

(* What the next pass may return. *)
NextResults ==
  CASE Len(reports) = 0 -> {RemoveDeadNodes(input, working)}
    [] Len(reports) = 1 -> {InlineTrivialNodes(input, working)}
    [] Len(reports) = 2 -> {ReduceComplexity(working)}
    [] Len(reports) = 3 -> CleanDependencyCycles(working)
    [] OTHER -> {}

(* Whatever the next pass returns, the trace test of verify() accepts      *)
(* nothing but SameOrMoreReach if the search of the working graph is not   *)
(* truncated, though the search of the result may be, and at any depth     *)
(* limit; if neither is truncated it accepts exactly that.  Enumerating    *)
(* traces over the closure of a graph is an expensive way of comparing     *)
(* reachability, and up to the branching limit leaves no gap.              *)
TraceTestExact ==
  \A result \in NextResults :
    \A before \in FirstSuccessors(working), after \in FirstSuccessors(result) :
      LET accepted == BuildTraceSet(working, before) \subseteq BuildTraceSet(result, after)
      IN  Overfull(working) = {} =>
            /\ accepted => SameOrMoreReach(working, result)
            /\ Overfull(result) = {} => (SameOrMoreReach(working, result) => accepted)

(* The number of edges of the longest path that ends in n. *)
Depth(edges, n) ==
  LET D[m \in AllIds] == IF Predecessors(edges, m) = {} THEN 0
                         ELSE 1 + Max({D[k] : k \in Predecessors(edges, m)})
  IN  D[n]

(* The reported branches, against a definition without iteration: in a     *)
(* layer without cycles, ids are in one branch exactly when the longest    *)
(* paths that end in them are equally long, so that none precedes another; *)
(* in a cyclic layer, exactly when each reaches the others.                *)
BranchesAreLevels ==
  LET Together(l, m, n) ==
        IF \E k \in Ids : k \in UNION {{s} \cup Descendants(input[l].edges, s) : s \in Successors(input[l].edges, k)}
        THEN m \in Descendants(input[l].edges, n) /\ n \in Descendants(input[l].edges, m)
        ELSE Depth(input[l].edges, m) = Depth(input[l].edges, n)
      Branch(l, n) == {n} \cup {m \in DOMAIN input[l].nodes : Together(l, m, n)}
      expected == UNION {{Branch(l, n) : n \in DOMAIN input[l].nodes} : l \in Layers}
  IN  Len(reports) = 4 => branches = expected \ {{n} : n \in Ids}

(* No pass whose result is in the optimised graph was riskier than the    *)
(* summary says: run() compares the levels as strings, where "critical"    *)
(* and "high" come below "low", and is right about the passes it kept only *)
(* because those two levels are given to passes that are reverted.         *)
KeptRiskReported ==
  Len(reports) = 4 =>
    \A i \in 1 .. 4 : reports[i].preserved => RISK_ORDER[reports[i].risk] =< RISK_ORDER[maxRisk]
==============================================================================
