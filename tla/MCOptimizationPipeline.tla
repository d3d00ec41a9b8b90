------------------------ MODULE MCOptimizationPipeline ------------------------
EXTENDS OptimizationPipeline, TLC
CONSTANTS main, f, g, h, leaves, call, states

(* A node of the call layer is linear or cubic, the cubic one with side    *)
(* effects; nodes of the state layer have no estimate.                     *)
Linear == [order |-> 2, effects |-> FALSE]
Kinds == (call :> {Linear, [order |-> 5, effects |-> TRUE]})
           @@ (states :> {[order |-> 7, effects |-> FALSE]})
Edges(N) == {e \in N \X N : e[1] # e[2]}
MaxEdges == (call :> 6) @@ (states :> 3)
EdgeSets(l, N) == {E \in SUBSET Edges(N) : Cardinality(E) =< MaxEdges[l]}
InputLayers(l) == UNION {[nodes : [N -> Kinds[l]], edges : EdgeSets(l, N)] : N \in SUBSET {main, f, g}}
SmallInputs == {(call :> c) @@ (states :> s) : c \in InputLayers(call), s \in InputLayers(states)}

(* Graphs that exceed the limit of successors: main calls leaves, f and g  *)
(* may be called by it and by one another, and nothing calls h.  A state   *)
(* layer may repeat a call of main: when the call layer's node is split,   *)
(* main reaches more ids than before.                                      *)
States(N) == [nodes |-> [n \in {main} \cup N |-> [order |-> 7, effects |-> FALSE]], edges |-> {main} \X N]
FanLayers == {[nodes |-> [n \in leaves \cup {f, g, h} |-> Linear] @@ nodes,
               edges |-> ({main} \X (leaves \cup called)) \cup inner] :
                nodes \in [{main} -> Kinds[call]], called \in SUBSET {f, g},
                inner \in SUBSET {<<f, g>>, <<g, f>>, <<h, f>>}}
FanInputs == {(call :> c) @@ (states :> States(N)) : c \in FanLayers, N \in {{}, {f}}}
MCInputs == SmallInputs \cup FanInputs
Symmetry == Permutations({f, g})
===============================================================================
