------------------------------ MODULE Digraphs ------------------------------
(***************************************************************************)
(* Directed graphs as networkx knows them: the neighbours of a node and    *)
(* what can be reached.  An edge is a tuple that begins with its source    *)
(* and its target.                                                         *)
(***************************************************************************)

Successors(edges, n) == {e[2] : e \in {f \in edges : f[1] = n}}
Predecessors(edges, n) == {e[1] : e \in {f \in edges : f[2] = n}}

(* For each set of ids, it and everything that is reachable from it.       *)
Closure(edges, ids) ==
  LET Closed[S \in SUBSET ids] ==
        LET T == S \cup UNION {Successors(edges, m) : m \in S}
        IN  IF T = S THEN S ELSE Closed[T]
  IN  Closed
=============================================================================
