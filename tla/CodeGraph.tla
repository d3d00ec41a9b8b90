------------------------------ MODULE CodeGraph ------------------------------
(***************************************************************************)
(* The graph pipeline from source text to reports and generated code, as   *)
(* run_sgir_pipeline() drives it: parse the repository, build the layers,  *)
(* run the agents, generate code from the graph, find the dead nodes from  *)
(* entry points of the call layer.  The properties relate what comes out   *)
(* of the last steps to what was written in the first.                     *)
(***************************************************************************)
EXTENDS PythonParser, GraphAnalysis, CodeGeneration

CONSTANTS MaxEntryPoints,  \* entry points the scan starts from, 25 in the code
          MaxScanNodes     \* nodes it starts from if there are none, 5

VARIABLES graph,    \* the software graph, <<>> before it is built
          reports,  \* the agents' reports, <<>> before they run
          dead,     \* [entries, nodes] of the dead code scan, <<>> before
          code      \* path -> sections, <<>> before generation

graphVars == <<graph, reports, dead, code>>
vars == <<parserVars, graphVars>>

(* What the ids that a builder makes up begin with; no file has such a path.*)
MadeUpPrefixes == {"module", "repo", "resource", "security", "sensitive", "deploy", "build", "config"}

ASSUME CodeGraphAssumption ==
  /\ MadeUpPrefixes \cap Files = {} /\ NoFile \notin Files
  /\ Names \cup {Repo} \subseteq DOMAIN PyFile
  /\ Names \subseteq DOMAIN Matches
  /\ Dotted \subseteq Names
  /\ Ids = (Files \cup MadeUpPrefixes) \X (Names \cup Files \cup {Repo} \cup BuildSystems \cup UNION Range(AuthPattern))

Init ==
  /\ ParserInit
  /\ graph = <<>> /\ reports = <<>> /\ dead = <<>> /\ code = <<>>

Parse == ParserNext /\ UNCHANGED graphVars

(* build_software_graph() *)
BuildSoftwareGraph ==
  /\ ~Parsing
  /\ graph = <<>>
  /\ \E pick \in AuthPicks : graph' = BuildAll(entities, pick)
  /\ UNCHANGED <<parserVars, reports, dead, code>>

(* The agents, one after the other over one index. *)
RunAgents ==
  /\ graph # <<>> /\ reports = <<>>
  /\ \E entries \in FlowEntryPoints(graph["call"]), flows \in UpTo(SensitiveFlows(graph), MaxSensitiveFlows) :
       reports' = [flow |-> FlowReport(graph, entries),
                   performance |-> PerformanceReport(graph),
                   architecture |-> ArchitectureReport(graph),
                   security |-> SecurityReport(graph, flows)]
  /\ UNCHANGED <<parserVars, graph, dead, code>>

GenerateCode ==
  /\ reports # <<>> /\ code = <<>>
  /\ code' = Generate(graph)
  /\ UNCHANGED <<parserVars, graph, reports, dead>>

(* For the mutation checks: what is called and calls nothing. *)
CallRootsSwapped(g) ==
  {n \in DOMAIN g["call"].nodes : FanOut(g["call"], n) = 0 /\ FanIn(g["call"], n) > 0}

(* What calls something and is not called. *)
CallRoots(g) ==
  {n \in DOMAIN g["call"].nodes : FanIn(g["call"], n) = 0 /\ FanOut(g["call"], n) > 0}

(* list(entry_points) or list(node_ids)[:5] *)
EntryPoints(g) ==
  IF CallRoots(g) # {} THEN UpTo(CallRoots(g), MaxEntryPoints)
  ELSE UpTo(DOMAIN g["call"].nodes, MaxScanNodes)

(* remove_dead_nodes() as the scan at the end calls it, if there are calls *)
(* at all; here only what it finds.                                        *)
ScanDeadCode ==
  /\ code # <<>> /\ dead = <<>>
  /\ \/ /\ graph["call"].edges = {}
        /\ dead' = [entries |-> {}, nodes |-> {}]
     \/ /\ graph["call"].edges # {}
        /\ \E entries \in EntryPoints(graph) :
             dead' = [entries |-> entries, nodes |-> FindDeadNodes(graph, entries)]
  /\ UNCHANGED <<parserVars, graph, reports, code>>

Next == Parse \/ BuildSoftwareGraph \/ RunAgents \/ GenerateCode \/ ScanDeadCode

Spec == Init /\ [][Next]_vars
------------------------------------------------------------------------------
(* What the text says, read off without a visitor: the definitions around  *)
(* the k-th visit, the innermost of some of them, and the definitions and  *)
(* imports in the order they are written.                                  *)
Around(t, k) == {j \in 1 .. k - 1 : Opens(t, j) /\ \A m \in j .. k - 1 : Depth(t, m) >= Depth(t, j)}
Functions(t, S) == {j \in S : t[j].do = "def"}
Written(t) == {j \in DOMAIN t : Opens(t, j) \/ t[j].do = "import"}
EntityAt(t, j) == Cardinality({i \in Written(t) : i =< j})
IsInnermost(j, S) == j \in S /\ \A i \in S : i =< j

TypeOK ==
  /\ file \in 1 .. Len(Walk) + 1
  /\ \A e \in Range(own) \cup Range(entities) : e \in Entity
  /\ \A s \in Range(scopes) : s \in Scope /\ own[s.target].name = s.name
  /\ errors \subseteq source.broken
  /\ graph # <<>> => DOMAIN graph = Layers

(* A call belongs to the innermost function around it, through a class if *)
(* need be, a name to the innermost definition, and to no other; a method  *)
(* is what stands directly in a class, and knows that class by name.       *)
EntitiesAsWritten ==
  (Parsing /\ Path \notin source.broken /\ at = Len(Text) + 1) =>
    \A j \in Written(Text) :
      LET e == own[EntityAt(Text, j)]
          In(k) == IsInnermost(j, Around(Text, k))
          CallIn(k) == IsInnermost(j, Functions(Text, Around(Text, k)))
          Used(k) == IF Text[k].do = "import" THEN {Text[k].head} \ {NoName} ELSE {Text[k].name}
      IN  /\ e.name = Text[j].name
          /\ e.calls = {Text[k].name : k \in {m \in DOMAIN Text : Text[m].do = "call" /\ CallIn(m)}}
          /\ e.references = UNION {Used(k) : k \in {m \in DOMAIN Text : Text[m].do \in {"call", "name", "import"} /\ In(m)}}
          /\ e.kind = "method" <=> /\ Text[j].do = "def"
                                   /\ \E i \in Around(Text, j) : IsInnermost(i, Around(Text, j)) /\ Text[i].do = "class"
          /\ e.kind = "method" => \E i \in Around(Text, j) : IsInnermost(i, Around(Text, j)) /\ e.parent = Text[i].name

(* Every edge of a layer joins two nodes of that layer, so no query meets  *)
(* an id without a node.                                                   *)
EdgesHaveEnds ==
  graph # <<>> => \A l \in Layers : \A e \in graph[l].edges : {e[1], e[2]} \subseteq DOMAIN graph[l].nodes

(* What a live function calls is not reported dead, provided only one      *)
(* entity has that name: name resolution is by name alone.                 *)
CalledIsLive ==
  dead # <<>> =>
    \A e \in OfKinds(entities, Runnable), f \in Range(entities) :
      /\ f.kind # "import" /\ f.name \in e.calls
      /\ \A h \in Range(entities) : h.kind # "import" /\ h.name = f.name => CodeId(h) = CodeId(f)
      /\ CodeId(e) \notin dead.nodes
      => CodeId(f) \notin dead.nodes

(* The dead code scan and the flow agent choose entry points and graphs of *)
(* their own.  What the scan finds dead is dead or an orphan in the        *)
(* reports, or is there only for functions that nothing calls and that the *)
(* scan did not take, because it takes no more than MaxEntryPoints.        *)
DeadScansAgree ==
  (dead # <<>> /\ CallRoots(graph) # {}) =>
    dead.nodes \cap LayerNodes(graph["call"])
      \subseteq reports.flow.dead \cup reports.architecture.orphans
                   \cup Reached(graph["call"], CallRoots(graph) \ dead.entries)

(* The call layer comes first and knows no boundary and no side effects,   *)
(* so every agent takes code for unclassified and pure: each access to a   *)
(* security concern is a crossing out of "none", nothing untrusted is ever *)
(* found in the data flow, and all frequently called code counts as pure.  *)
(* The layering violations are the accesses to sensitive data.             *)
AgentsSeeTheCallLayer ==
  reports # <<>> =>
    /\ {<<c.source, c.target>> : c \in reports.security.crossings} = Arcs(graph["security"])
    /\ \A c \in reports.security.crossings : c.from = "none"
    /\ reports.security.untrusted = {}
    /\ reports.performance.caching.bounded = {}
    /\ reports.architecture.violations = {e \in graph["security"].edges : e[2][1] = "sensitive"}

WrittenIds == UNION {{s.node : s \in code[p]} : p \in DOMAIN code}

(* A class of a file that imports nothing is written, though there are     *)
(* modules that claim other files, unless an imported module has the name  *)
(* of the repository and so the path of the file for all that is left.     *)
ImportFreeGenerated ==
  code # <<>> =>
    LET importing == {e.file : e \in OfKinds(entities, {"import"})}
        taken == PyFile[Repo] \in importing \cup {PyFile[n] : n \in (UNION {e.imports : e \in Range(entities)}) \ Dotted}
    IN  ~taken => \A e \in OfKinds(entities, {"class"}) : e.file \notin importing => CodeId(e) \in WrittenIds

(* What the fallback of is_under_modules() to the same file takes for      *)
(* granted: a node that is under a module is written with that module, so  *)
(* every function and class of the call layer is written somewhere.        *)
EveryNodeGenerated ==
  code # <<>> =>
    \A id \in DOMAIN graph["call"].nodes : graph["call"].nodes[id].type \in {"class", "function"} => id \in WrittenIds
==============================================================================
