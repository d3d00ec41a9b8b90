---------------------------- MODULE LayerBuilders ----------------------------
(***************************************************************************)
(* The eight layer builders, and build_all(): the software graph of a      *)
(* sequence of parsed entities.  An id is a pair: <<file, name>> of a code *)
(* entity, or <<prefix, name>> of a node that a builder makes up.  A node  *)
(* keeps its type, its boundary, its file and its side effects; an edge is *)
(* <<source, target, type>>.                                               *)
(*                                                                         *)
(* Two entities of one file with the same name have the same id, whatever  *)
(* their scope; the first one makes the node, and all of them make edges.  *)
(*                                                                         *)
(* The builders look for patterns inside names: Matches says which of      *)
(* their pattern sets a name matches.                                      *)
(***************************************************************************)
EXTENDS SoftwareGraph, Tables, SequencesExt

CONSTANTS Repo,          \* repository.name
          BuildSystems,  \* repository.build_systems
          Dotted,        \* the names with a dot in them
          NoFile,        \* no source location
          Matches,       \* name -> the pattern sets it matches
          AuthPattern    \* name matching "auth" -> the patterns it contains

LayerOrder == <<"call", "data_flow", "control_flow", "dependency", "state_transition",
                "resource", "security", "deployment">>

ASSUME LayersAssumption ==
  /\ Layers = Range(LayerOrder)
  /\ \A n \in DOMAIN Matches : "auth" \in Matches[n] => n \in DOMAIN AuthPattern
  /\ {} \notin Range(AuthPattern)

Says(name, patterns) == patterns \in Matches[name]
AnySays(names, patterns) == \E n \in names : Says(n, patterns)

Callable == {"function", "method", "class"}
Runnable == {"function", "method"}

CodeId(e) == <<e.file, e.name>>
OfKinds(entities, kinds) == {e \in Range(entities) : e.kind \in kinds}
CodeIds(entities, kinds) == {CodeId(e) : e \in OfKinds(entities, kinds)}
FirstEntity(entities, kinds, id) ==
  entities[SelectInSeq(entities, LAMBDA e : e.kind \in kinds /\ CodeId(e) = id)]

(* An SGIRNode; the complexity of an entity is never estimated, so its     *)
(* rank is that of "unknown".                                              *)
Node(type, boundary, path, effects) ==
  [type |-> type, boundary |-> boundary, file |-> path, effects |-> effects, order |-> 7]
MadeUp(type, boundary) == Node(type, boundary, NoFile, {})

(* The nodes most builders begin with, one for each id of the kinds; the   *)
(* boundary and the effects are functions of the entity.                   *)
CodeNodes(entities, kinds, boundary, effects) ==
  [id \in CodeIds(entities, kinds) |->
     LET e == FirstEntity(entities, kinds, id)
     IN  Node(e.kind, boundary[e], e.file, effects[e])]

NoBoundary(entities) == [e \in Range(entities) |-> "none"]
NoEffects(entities) == [e \in Range(entities) |-> {}]

EdgesFrom(source, targets, type) == {<<source, t, type>> : t \in targets}
------------------------------------------------------------------------------
(* For the mutation checks: the first entity of the name, an import maybe. *)
FindAnyTarget(name, entities, ids) ==
  LET i == SelectInSeq(entities, LAMBDA e : e.name = name)
  IN  IF i = 0 THEN {} ELSE {CodeId(entities[i])}

(* find_call_target(): the first entity of that name that is a node, in    *)
(* whichever file.  The second attempt, <parent>.<name>, finds nothing: no *)
(* entity that can be called has a dot in its name.                        *)
FindCallTarget(name, entities, ids) ==
  LET i == SelectInSeq(entities, LAMBDA e : e.name = name /\ CodeId(e) \in ids)
  IN  IF i = 0 THEN {} ELSE {CodeId(entities[i])}

(* For the mutation checks: classes cannot be called. *)
CallGraphOfFunctions(entities) ==
  LET ids == CodeIds(entities, Runnable)
      Targets(e) == UNION {FindCallTarget(c, entities, ids) : c \in e.calls}
  IN  [nodes |-> CodeNodes(entities, Runnable, NoBoundary(entities), NoEffects(entities)),
       edges |-> UNION {EdgesFrom(CodeId(e), Targets(e) \ {CodeId(e)}, "call")
                          : e \in OfKinds(entities, Runnable)}]

(* Functions, methods and classes, and the calls between them. *)
CallGraph(entities) ==
  LET ids == CodeIds(entities, Callable)
      Targets(e) == UNION {FindCallTarget(c, entities, ids) : c \in e.calls}
  IN  [nodes |-> CodeNodes(entities, Callable, NoBoundary(entities), NoEffects(entities)),
       edges |-> UNION {EdgesFrom(CodeId(e), Targets(e) \ {CodeId(e)}, "call")
                          : e \in OfKinds(entities, Callable)}]

(* A reference leads to every function or method of that name. *)
DataFlow(entities) ==
  LET Targets(e) == {id \in CodeIds(entities, Runnable) : id[2] \in e.references}
  IN  [nodes |-> CodeNodes(entities, Runnable, NoBoundary(entities), NoEffects(entities)),
       edges |-> UNION {EdgesFrom(CodeId(e), Targets(e) \ {CodeId(e)}, "data")
                          : e \in OfKinds(entities, Runnable)}]

(* resolve_ids(): every node of that name. *)
ResolveIds(name, ids) == {id \in ids : id[2] = name}

RouteDecorators(e) == {d \in e.decorators : Says(d, "route")}

(* detect_side_effects() *)
DetectSideEffects(e) == (IF e.suspends THEN {"suspends"} ELSE {}) \cup RouteDecorators(e)

(* A class contains the methods of every class of its name; a decorated    *)
(* entry point leads to whatever it may call.                              *)
ControlFlow(entities) ==
  LET ids == CodeIds(entities, Callable)
      Methods(c) == {CodeId(m) : m \in {n \in OfKinds(entities, {"method"}) : n.parent = c.name}}
      Targets(e) == UNION {ResolveIds(c, ids) : c \in e.calls}
  IN  [nodes |-> CodeNodes(entities, Callable, NoBoundary(entities),
                           [e \in Range(entities) |-> DetectSideEffects(e)]),
       edges |-> UNION ({EdgesFrom(CodeId(c), Methods(c), "control") : c \in OfKinds(entities, {"class"})}
                          \cup {EdgesFrom(CodeId(e), Targets(e) \ {CodeId(e)}, "control")
                                  : e \in {f \in OfKinds(entities, Runnable) : RouteDecorators(f) # {}}})]

(* A file that imports is a module, and so is what it imports; the         *)
(* repository depends on them all.                                         *)
DependencyGraph(entities) ==
  LET imports == OfKinds(entities, {"import"})
      files == {<<"module", e.file>> : e \in imports}
      imported == {<<"module", n>> : n \in UNION {e.imports : e \in imports}}
      repo == <<"repo", Repo>>
      Type(id) == IF id = repo \/ (id \notin files /\ id[2] \in Dotted) THEN "package" ELSE "module"
  IN  [nodes |-> [id \in files \cup imported \cup {repo} |->
                    Node(Type(id), "none", IF id \in files THEN id[2] ELSE NoFile, {})],
       edges |-> EdgesFrom(repo, files \cup imported, "dependency")
                   \cup UNION {EdgesFrom(<<"module", e.file>>, {<<"module", n>> : n \in e.imports}, "import")
                                : e \in imports}]
------------------------------------------------------------------------------
IsLifecycle(m) == Says(m.name, "lifecycle") \/ AnySays(m.decorators, "lifecycle")
IsEvent(m) == ~IsLifecycle(m) /\ (Says(m.name, "event") \/ AnySays(m.decorators, "event"))

(* Methods are grouped by the name of their class, the groups in the order *)
(* of their first method; the lifecycle methods of a group come before its *)
(* event handlers.                                                         *)
ClassMethods(entities) == {i \in DOMAIN entities : entities[i].kind = "method"}
GroupOf(entities, i) ==
  SelectInSeq(entities, LAMBDA e : e.kind = "method" /\ e.parent = entities[i].parent)
Precedes(entities, i, j) ==
  LET Rank(k) == IF IsLifecycle(entities[k]) THEN 0 ELSE 1
  IN  \/ GroupOf(entities, i) < GroupOf(entities, j)
      \/ /\ GroupOf(entities, i) = GroupOf(entities, j)
         /\ Rank(i) < Rank(j) \/ (Rank(i) = Rank(j) /\ i < j)

(* find_class_id(): the first class of that name, in whichever file. *)
FindClassId(name, entities) ==
  LET i == SelectInSeq(entities, LAMBDA e : e.kind = "class" /\ e.name = name)
  IN  IF i = 0 THEN {} ELSE {CodeId(entities[i])}

(* Classes, their lifecycle methods in a chain, and event handlers, which  *)
(* lead to the nodes made before them.                                     *)
StateTransition(entities) ==
  LET classes == CodeIds(entities, {"class"})
      cycle == {i \in ClassMethods(entities) : IsLifecycle(entities[i])}
      events == {i \in ClassMethods(entities) : IsEvent(entities[i])}
      Id(i) == CodeId(entities[i])
      Known(i) == classes \cup {Id(j) : j \in {k \in cycle \cup events : k = i \/ Precedes(entities, k, i)}}
      First(id) == CHOOSE i \in cycle \cup events :
                     Id(i) = id /\ \A j \in cycle \cup events : (Id(j) = id /\ j # i) => Precedes(entities, i, j)
      Type(id) == IF First(id) \in cycle THEN "method" ELSE "event_handler"
      Follows(i, j) == /\ GroupOf(entities, i) = GroupOf(entities, j)
                       /\ i < j
                       /\ \A k \in cycle : ~(GroupOf(entities, k) = GroupOf(entities, i) /\ i < k /\ k < j)
      Class(i) == <<entities[i].file, entities[i].parent>>
      Called(i) == UNION {ResolveIds(c, Known(i)) : c \in entities[i].calls}
      Bases(e) == UNION {FindClassId(b, entities) : b \in e.bases}
  IN  [nodes |-> [id \in classes \cup {Id(i) : i \in cycle \cup events} |->
                    IF id \in classes THEN Node("class", "none", id[1], {})
                    ELSE Node(Type(id), "none", id[1], {})],
       edges |-> {<<Class(i), Id(i), "state_transition">> : i \in {k \in cycle : Class(k) \in classes}}
                   \cup {<<Id(p[1]), Id(p[2]), "state_transition">> : p \in {q \in cycle \X cycle : Follows(q[1], q[2])}}
                   \cup (UNION {EdgesFrom(Id(i), Called(i) \ {Id(i)}, "event") : i \in events})
                   \cup UNION {EdgesFrom(CodeId(e), Bases(e), "inherit") : e \in OfKinds(entities, {"class"})}]
------------------------------------------------------------------------------
(* detect_io_operations() *)
IoOperations(e) == {n \in e.calls \cup e.references : Says(n, "io")}

(* Only the first entity of an id gets edges to the resources it uses. *)
ResourceGraph(entities) ==
  LET nodes == CodeNodes(entities, Runnable, NoBoundary(entities),
                         [e \in Range(entities) |-> IoOperations(e)])
      used == UNION {nodes[id].effects : id \in DOMAIN nodes}
      Type(n) == IF Says(n, "external") THEN "network" ELSE "database"
  IN  [nodes |-> Extended(nodes, [id \in {<<"resource", n>> : n \in used} |-> MadeUp("service", "none")]),
       edges |-> UNION {{<<id, <<"resource", n>>, Type(n)>> : n \in nodes[id].effects} : id \in DOMAIN nodes}]

SecurityNames(e) == e.calls \cup e.references \cup e.decorators

(* classify_security_boundary(): the first of these patterns decides. *)
BoundaryOrder == <<<<"admin", "admin">>, <<"auth", "authenticated">>,
                   <<"internal", "internal">>, <<"public", "external">>>>
ClassifyBoundary(e) ==
  LET i == SelectInSeq(BoundaryOrder, LAMBDA b : AnySays(SecurityNames(e), b[1]))
  IN  IF i = 0 THEN "none" ELSE BoundaryOrder[i][2]

(* AUTH_PATTERNS is a set, and a name is given the first pattern that it   *)
(* contains in the order in which this process iterates the set.           *)
AuthPicks ==
  LET patterns == UNION Range(AuthPattern)
  IN  {pick \in [DOMAIN AuthPattern -> patterns] :
         \E rank \in Injection(patterns, 1 .. Cardinality(patterns)) :
           \A n \in DOMAIN AuthPattern :
             /\ pick[n] \in AuthPattern[n]
             /\ \A p \in AuthPattern[n] : rank[pick[n]] =< rank[p]}

(* detect_auth_patterns() *)
AuthPatterns(e, pick) == {pick[n] : n \in {m \in SecurityNames(e) : Says(m, "auth")}}
SensitiveNames(e) == {n \in e.references : Says(n, "sensitive")}

SecurityGraph(entities, pick) ==
  LET code == OfKinds(entities, Callable)
      patterns == {<<"security", p>> : p \in UNION {AuthPatterns(e, pick) : e \in code}}
      data == {<<"sensitive", n>> : n \in UNION {SensitiveNames(e) : e \in code}}
      nodes == CodeNodes(entities, Callable, [e \in Range(entities) |-> ClassifyBoundary(e)],
                                             [e \in Range(entities) |-> AuthPatterns(e, pick)])
      made == Extended([id \in patterns |-> MadeUp("middleware", "authenticated")],
                       [id \in data |-> MadeUp("datamodel", "internal")])
  IN  [nodes |-> Extended(nodes, made),
       edges |-> UNION {EdgesFrom(CodeId(e), {<<"security", p>> : p \in AuthPatterns(e, pick)}, "event")
                          \cup EdgesFrom(CodeId(e), {<<"sensitive", n>> : n \in SensitiveNames(e)}, "data")
                          : e \in code}]

(* The repository with its build systems, configuration and endpoints. *)
DeploymentGraph(entities) ==
  LET repo == <<"deploy", Repo>>
      builds == {<<"build", b>> : b \in BuildSystems}
      configs == {i \in DOMAIN entities : Says(entities[i].name, "config")}
      First(id) == entities[SelectInSeq(entities, LAMBDA e : e.name = id[2])]
      configIds == {<<"config", entities[i].name>> : i \in configs}
      endpoints == {CodeId(e) : e \in {f \in OfKinds(entities, Runnable) : AnySays(f.decorators, "deploy")}}
      made == Extended([id \in {repo} |-> MadeUp("service", "none")],
                       [id \in builds |-> MadeUp("config", "none")])
      found == Extended([id \in configIds |-> Node("config", "none", First(id).file, {})],
                        [id \in endpoints |-> Node("endpoint", "none", id[1], {})])
  IN  [nodes |-> Extended(made, found),
       edges |-> EdgesFrom(repo, builds \cup configIds \cup endpoints, "dependency")]

(* build_all(), in the order create_default_registry() registers them. *)
BuildAll(entities, pick) ==
  [call |-> CallGraph(entities), data_flow |-> DataFlow(entities),
   control_flow |-> ControlFlow(entities), dependency |-> DependencyGraph(entities),
   state_transition |-> StateTransition(entities), resource |-> ResourceGraph(entities),
   security |-> SecurityGraph(entities, pick), deployment |-> DeploymentGraph(entities)]
==============================================================================
