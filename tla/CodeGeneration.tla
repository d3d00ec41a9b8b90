---------------------------- MODULE CodeGeneration ----------------------------
(***************************************************************************)
(* PythonBackend.generate(): the files written for a software graph.  A    *)
(* section of a file is the node it is made from, with the layer the node  *)
(* comes from, since the backend collects nodes layer by layer and does    *)
(* not notice repetitions.  A file without sections is a "pass".           *)
(***************************************************************************)
EXTENDS LayerBuilders

CONSTANT PyFile   \* name -> path of the file named after it

(* nodes_by_type *)
NodesOfType(g, types) ==
  UNION {{<<l, id>> : id \in {n \in DOMAIN g[l].nodes : g[l].nodes[n].type \in types}} : l \in Layers}
NodeOf(g, section) == g[section[1]].nodes[section[2]]

(* node_by_id: the last layer that has the id. *)
LastNode(g, id) == g[LayerOrder[SelectLastInSeq(LayerOrder, LAMBDA l : id \in DOMAIN g[l].nodes)]].nodes[id]

(* children_of_parent and parents_of_child: edges between known nodes. *)
KnownEdges(g) == {e \in EdgeKeys(g) : e[1] \in NodeIds(g) /\ e[2] \in NodeIds(g)}
ParentsOf(g, id) == Predecessors(KnownEdges(g), id)
ChildrenOf(g, id, sections) == {s \in sections : s[2] \in Successors(KnownEdges(g), id)}

(* is_under_modules(): by an edge, or by being in the same file. *)
IsUnderModules(g, section, modules) ==
  \/ ParentsOf(g, section[2]) \cap {m[2] : m \in modules} # {}
  \/ /\ NodeOf(g, section).file # NoFile
     /\ \E m \in modules : NodeOf(g, m).file = NodeOf(g, section).file

(* node_to_file_path() *)
ModulePath(g, module) ==
  IF NodeOf(g, module).file # NoFile THEN NodeOf(g, module).file ELSE PyFile[module[2][2]]

(* get_inheritance(): the classes with an edge to this one. *)
Inheritance(g, section) == {p \in ParentsOf(g, section[2]) : LastNode(g, p).type = "class"}

(* generate_class() without methods, generate_function(), and              *)
(* generate_datamodel(): one section each.                                 *)
Section(g, s) == [node |-> s[2], layer |-> s[1], type |-> NodeOf(g, s).type, bases |-> Inheritance(g, s)]
Sections(g, sections) == {Section(g, s) : s \in sections}

(* For the mutation checks: what is under no module is written only if     *)
(* there are none.                                                         *)
GenerateModulesOnly(g) ==
  LET modules == NodesOfType(g, {"module"})
      code == NodesOfType(g, {"class", "function", "datamodel"})
      Module(p) == CHOOSE m \in modules : ModulePath(g, m) = p
  IN  IF modules = {} /\ NodesOfType(g, {"package"}) = {}
      THEN [p \in {PyFile[Repo]} |-> Sections(g, code)]
      ELSE [p \in {ModulePath(g, m) : m \in modules} |-> Sections(g, ChildrenOf(g, Module(p)[2], code))]

(* generate(): a file for each module with its children, then one for the  *)
(* nodes that are under no module, unless a module has taken its path.     *)
(* Methods are never written: the second file is given none of them.       *)
(* The __init__ files of packages hold nothing and are left out.           *)
Generate(g) ==
  LET modules == NodesOfType(g, {"module"})
      code == NodesOfType(g, {"class", "function", "datamodel"})
      paths == {ModulePath(g, m) : m \in modules}
      Module(p) == CHOOSE m \in modules : ModulePath(g, m) = p
      orphans == {s \in code : ~IsUnderModules(g, s, modules)}
      single == IF orphans = {} THEN {} ELSE {PyFile[Repo]} \ paths
  IN  IF modules = {} /\ NodesOfType(g, {"package"}) = {}
      THEN [p \in {PyFile[Repo]} |-> Sections(g, code)]
      ELSE [p \in paths \cup single |->
              IF p \in paths THEN Sections(g, ChildrenOf(g, Module(p)[2], code))
              ELSE Sections(g, orphans)]
===============================================================================
