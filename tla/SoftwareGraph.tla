---------------------------- MODULE SoftwareGraph ----------------------------
(***************************************************************************)
(* The layered software graph (SGIR) and the queries of GraphIndex that    *)
(* its optimiser uses.  A layer is                                         *)
(*     [nodes |-> id -> [order, effects], edges |-> set of <<source,       *)
(*      target>>]                                                          *)
(* Of a node's attributes only the ones a pass looks at are kept: the rank *)
(* of its complexity and whether it has side effects or failure modes.     *)
(* Parallel edges between two nodes are one edge, as in the DiGraphs of    *)
(* the index.  An edge may name an id that is no node of its layer.        *)
(***************************************************************************)
EXTENDS Integers, Sequences, FiniteSets, FiniteSetsExt, Functions, Digraphs

CONSTANTS Ids,     \* ids of the nodes of the graphs that are put in
          Layers   \* the layers of a graph

ASSUME GraphAssumption == IsFiniteSet(Ids)

Parts == Ids \X {0, 1}     \* ids made by split_node(): "<id>__part0", "<id>__part1"
AllIds == Ids \cup Parts
Complexity == 0 .. 7       \* COMPLEXITY_ORDER; 7 is "unknown"
Attributes == [order : Complexity, effects : BOOLEAN]

IsLayerGraph(lg) ==
  /\ lg = [nodes |-> lg.nodes, edges |-> lg.edges]
  /\ DOMAIN lg.nodes \subseteq AllIds
  /\ lg.nodes \in [DOMAIN lg.nodes -> Attributes]
  /\ lg.edges \subseteq AllIds \X AllIds

IsSoftwareGraph(g) == DOMAIN g = Layers /\ \A l \in Layers : IsLayerGraph(g[l])

(* node_ids() and edge_keys(): every id and every edge of any layer. *)
NodeIds(g) == UNION {DOMAIN g[l].nodes : l \in Layers}
EdgeKeys(g) == UNION {g[l].edges : l \in Layers}

(* The nodes of a DiGraph: adding an edge adds its ends. *)
GraphNodes(nodes, edges) == nodes \cup {e[1] : e \in edges} \cup {e[2] : e \in edges}

(* reachable_from(), by nx.descendants(): what is reachable from n, without *)
(* n itself.                                                               *)
Descendants(edges, n) == Closure(edges, AllIds)[{n}] \ {n}

(* The ids that some entry point reaches, itself included. *)
LiveIds(g, entries) ==
  LET edges == EdgeKeys(g)
      known == entries \cap GraphNodes(NodeIds(g), edges)
  IN  known \cup UNION {Descendants(edges, n) : n \in known}

(* find_dead_nodes() on the merged graph. *)
FindDeadNodes(g, entries) == GraphNodes(NodeIds(g), EdgeKeys(g)) \ LiveIds(g, entries)

(* Simple paths that extend p, and the simple cycles among the ids S, each *)
(* as the set of its edges: nx.simple_cycles() lists a cycle once, from an *)
(* arbitrary node of it.                                                   *)
SimpleCycles(edges, S) ==
  LET Extensions[p \in Seq(S) \ {<<>>}] ==
        {p} \cup UNION {Extensions[Append(p, s)] : s \in (Successors(edges, p[Len(p)]) \cap S) \ Range(p)}
      EdgesOf(p) == {<<p[i], p[(i % Len(p)) + 1]>> : i \in 1 .. Len(p)}
      paths == UNION {Extensions[<<n>>] : n \in S}
  IN  {EdgesOf(p) : p \in {q \in paths : <<q[Len(q)], q[1]>> \in edges}}

(* strongly_connected_components() with at least two nodes. *)
CyclicComponents(nodes, edges) ==
  LET reach == [n \in nodes |-> Descendants(edges, n)]
      Component(n) == {n} \cup {m \in reach[n] : n \in reach[m]}
  IN  {C \in {Component(n) : n \in nodes} : Cardinality(C) >= 2}

IsAcyclic(nodes, edges) ==
  /\ CyclicComponents(nodes, edges) = {}
  /\ \A n \in nodes : <<n, n>> \notin edges
==============================================================================
