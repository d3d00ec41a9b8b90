--------------------------- MODULE CodeGraphProofs ---------------------------
(***************************************************************************)
(* What the graph pipeline promises for every repository: of any files,    *)
(* names and syntax trees, and whatever patterns the names match.          *)
(***************************************************************************)
EXTENDS CodeGraph, FiniteLemmas, SequenceTheorems

-------------------------------------------------------------------------------
(* The inductive invariant *)

\* The visitor: there is a scope for every definition that is open, and each scope knows
\* its entity.
ParserInv ==
  /\ source \in Sources
  /\ file \in 1 .. Len(Walk) + 1
  /\ at \in Nat \ {0}
  /\ own \in Seq(Entity) /\ entities \in Seq(Entity)
  /\ errors \subseteq source.broken
  /\ scopes \in Seq(Scope)
  /\ \A i \in DOMAIN scopes : scopes[i].target \in DOMAIN own /\ own[scopes[i].target].name = scopes[i].name
  /\ Parsing => IF Path \in source.broken THEN scopes = <<>> /\ at = 1
                ELSE at =< Len(Text) + 1 /\ Len(scopes) = Depth(Text, at - 1)

\* The pipeline: what each stage leaves was made from what the stages before it left.
ReportsOf(g, entries, flows) ==
  [flow |-> FlowReport(g, entries), performance |-> PerformanceReport(g),
   architecture |-> ArchitectureReport(g), security |-> SecurityReport(g, flows)]
FromEntries(g, found) == \E entries \in EntryPoints(g) : found = [entries |-> entries, nodes |-> FindDeadNodes(g, entries)]
Scanned(g, found) ==
  \/ g["call"].edges = {} /\ found = [entries |-> {}, nodes |-> {}]
  \/ FromEntries(g, found)
PipelineInv ==
  /\ graph # <<>> => ~Parsing /\ \E pick \in AuthPicks : graph = BuildAll(entities, pick)
  /\ reports # <<>> => /\ graph # <<>>
                       /\ \E entries \in FlowEntryPoints(graph["call"]), flows \in UpTo(SensitiveFlows(graph), MaxSensitiveFlows) : reports = ReportsOf(graph, entries, flows)
  /\ code # <<>> => reports # <<>> /\ code = Generate(graph)
  /\ dead # <<>> => code # <<>> /\ Scanned(graph, dead)

IInv == ParserInv /\ PipelineInv

-------------------------------------------------------------------------------
(* Selecting from sequences *)

LEMMA SelectFirst ==
  ASSUME NEW s, Len(s) \in Nat, NEW P \in SUBSET (1 .. Len(s)), P # {}
  PROVE  Min(P) \in P
<1>1. P \in SUBSET Nat
  OBVIOUS
<1> QED BY <1>1, MinOfNats

LEMMA InRange ==
  ASSUME NEW s \in Seq(Entity)
  PROVE  /\ Len(s) \in Nat /\ DOMAIN s = 1 .. Len(s)
         /\ \A i \in 1 .. Len(s) : s[i] \in Range(s)
         /\ \A e \in Range(s) : \E i \in 1 .. Len(s) : s[i] = e
BY DEF Range

LEMMA FirstEntityIs ==
  ASSUME NEW s \in Seq(Entity), NEW kinds, NEW id \in CodeIds(s, kinds)
  PROVE  FirstEntity(s, kinds, id) \in OfKinds(s, kinds) /\ CodeId(FirstEntity(s, kinds, id)) = id
<1> DEFINE P == {i \in 1 .. Len(s) : s[i].kind \in kinds /\ CodeId(s[i]) = id}
<1>1. P \in SUBSET (1 .. Len(s)) /\ Len(s) \in Nat
  BY InRange
<1>2. P # {}
  BY InRange DEF CodeIds, OfKinds
<1>3. FirstEntity(s, kinds, id) = s[Min(P)]
  BY <1>2 DEF FirstEntity, SelectInSeq
<1>4. Min(P) \in P
  <2> HIDE DEF P
  <2> QED BY <1>1, <1>2, SelectFirst
<1> QED BY <1>1, <1>3, <1>4, InRange DEF OfKinds

LEMMA FindCallTargetIs ==
  ASSUME NEW s \in Seq(Entity), NEW name, NEW ids
  PROVE  /\ FindCallTarget(name, s, ids) \subseteq ids
         /\ (\E e \in Range(s) : e.name = name /\ CodeId(e) \in ids) =>
              \E e \in Range(s) : e.name = name /\ CodeId(e) \in ids /\ FindCallTarget(name, s, ids) = {CodeId(e)}
<1> DEFINE P == {i \in 1 .. Len(s) : s[i].name = name /\ CodeId(s[i]) \in ids}
<1>1. P \in SUBSET (1 .. Len(s)) /\ Len(s) \in Nat
  BY InRange
<1>2. FindCallTarget(name, s, ids) = IF P = {} THEN {} ELSE {CodeId(s[Min(P)])}
  <2>1. SelectInSeq(s, LAMBDA e : e.name = name /\ CodeId(e) \in ids) = IF P # {} THEN Min(P) ELSE 0
    BY DEF SelectInSeq
  <2>2. P # {} => Min(P) # 0
    <3> HIDE DEF P
    <3> QED BY <1>1, SelectFirst
  <2> QED BY <2>1, <2>2 DEF FindCallTarget
<1>3. P # {} => Min(P) \in P
  <2> HIDE DEF P
  <2> QED BY <1>1, SelectFirst
<1>4. (\E e \in Range(s) : e.name = name /\ CodeId(e) \in ids) => P # {}
  BY InRange
<1>5. P # {} => CodeId(s[Min(P)]) \in ids /\ s[Min(P)].name = name /\ s[Min(P)] \in Range(s)
  BY <1>1, <1>3, InRange
<1> QED BY <1>2, <1>4, <1>5

-------------------------------------------------------------------------------
(* Edges and the nodes they join *)

HasEnds(lg) == \A e \in lg.edges : e[1] \in DOMAIN lg.nodes /\ e[2] \in DOMAIN lg.nodes

LEMMA EdgesFromAre ==
  ASSUME NEW x, NEW targets, NEW type, NEW e \in EdgesFrom(x, targets, type)
  PROVE  e[1] = x /\ e[2] \in targets /\ e[3] = type
BY DEF EdgesFrom

LEMMA CodeNodesAre ==
  ASSUME NEW s \in Seq(Entity), NEW kinds, NEW boundary, NEW effects
  PROVE  /\ DOMAIN CodeNodes(s, kinds, boundary, effects) = CodeIds(s, kinds)
         /\ \A e \in OfKinds(s, kinds) : CodeId(e) \in CodeIds(s, kinds)
BY DEF CodeNodes, CodeIds

LEMMA MoreKindsMoreIds ==
  ASSUME NEW s \in Seq(Entity), NEW few, NEW more, few \subseteq more
  PROVE  /\ OfKinds(s, few) \subseteq OfKinds(s, more) /\ CodeIds(s, few) \subseteq CodeIds(s, more)
         /\ \A e \in OfKinds(s, few) : CodeId(e) \in CodeIds(s, more)
BY DEF OfKinds, CodeIds

LEMMA CallGraphHasEnds ==
  ASSUME NEW s \in Seq(Entity)
  PROVE  HasEnds(CallGraph(s))
<1> DEFINE ids == CodeIds(s, Callable)
           Targets(e) == UNION {FindCallTarget(c, s, ids) : c \in e.calls}
<1>1. DOMAIN CallGraph(s).nodes = ids
  BY CodeNodesAre DEF CallGraph
<1>2. CallGraph(s).edges = UNION {EdgesFrom(CodeId(e), Targets(e) \ {CodeId(e)}, "call") : e \in OfKinds(s, Callable)}
  BY DEF CallGraph
<1>3. \A e \in OfKinds(s, Callable) : CodeId(e) \in ids /\ Targets(e) \subseteq ids
  BY CodeNodesAre, FindCallTargetIs
<1> HIDE DEF ids, Targets
<1>4. ASSUME NEW a \in CallGraph(s).edges PROVE a[1] \in ids /\ a[2] \in ids
  <2>1. PICK e \in OfKinds(s, Callable) : a \in EdgesFrom(CodeId(e), Targets(e) \ {CodeId(e)}, "call")
    BY <1>2
  <2>2. a[1] = CodeId(e) /\ a[2] \in Targets(e) \ {CodeId(e)}
    BY <2>1, EdgesFromAre
  <2> QED BY <1>3, <2>2
<1> QED BY <1>1, <1>4 DEF HasEnds

LEMMA DataFlowHasEnds ==
  ASSUME NEW s \in Seq(Entity)
  PROVE  HasEnds(DataFlow(s))
<1> DEFINE Targets(e) == {id \in CodeIds(s, Runnable) : id[2] \in e.references}
<1>1. DOMAIN DataFlow(s).nodes = CodeIds(s, Runnable)
  BY CodeNodesAre DEF DataFlow
<1>2. DataFlow(s).edges = UNION {EdgesFrom(CodeId(e), Targets(e) \ {CodeId(e)}, "data") : e \in OfKinds(s, Runnable)}
  BY DEF DataFlow
<1>3. \A e \in OfKinds(s, Runnable) : CodeId(e) \in CodeIds(s, Runnable) /\ Targets(e) \subseteq CodeIds(s, Runnable)
  BY CodeNodesAre
<1> HIDE DEF Targets
<1>4. ASSUME NEW a \in DataFlow(s).edges PROVE a[1] \in CodeIds(s, Runnable) /\ a[2] \in CodeIds(s, Runnable)
  <2>1. PICK e \in OfKinds(s, Runnable) : a \in EdgesFrom(CodeId(e), Targets(e) \ {CodeId(e)}, "data")
    BY <1>2
  <2>2. a[1] = CodeId(e) /\ a[2] \in Targets(e) \ {CodeId(e)}
    BY <2>1, EdgesFromAre
  <2> QED BY <1>3, <2>2
<1> QED BY <1>1, <1>4 DEF HasEnds

LEMMA ControlFlowHasEnds ==
  ASSUME NEW s \in Seq(Entity)
  PROVE  HasEnds(ControlFlow(s))
<1> DEFINE ids == CodeIds(s, Callable)
           Methods(c) == {CodeId(m) : m \in {n \in OfKinds(s, {"method"}) : n.parent = c.name}}
           Targets(e) == UNION {ResolveIds(c, ids) : c \in e.calls}
           routed == {f \in OfKinds(s, Runnable) : RouteDecorators(f) # {}}
<1>1. DOMAIN ControlFlow(s).nodes = ids
  BY CodeNodesAre DEF ControlFlow
<1>2. ControlFlow(s).edges =
        UNION ({EdgesFrom(CodeId(c), Methods(c), "control") : c \in OfKinds(s, {"class"})}
                 \cup {EdgesFrom(CodeId(e), Targets(e) \ {CodeId(e)}, "control") : e \in routed})
  BY DEF ControlFlow
<1>3. \A c \in OfKinds(s, {"class"}) : CodeId(c) \in ids /\ Methods(c) \subseteq ids
  <2>1. {"class"} \subseteq Callable /\ {"method"} \subseteq Callable
    BY DEF Callable
  <2>2. \A c \in OfKinds(s, {"class"}) : CodeId(c) \in ids
    BY <2>1, MoreKindsMoreIds
  <2>3. \A m \in OfKinds(s, {"method"}) : CodeId(m) \in ids
    BY <2>1, MoreKindsMoreIds
  <2> QED BY <2>2, <2>3
<1>4. \A e \in routed : CodeId(e) \in ids /\ Targets(e) \subseteq ids
  <2>1. Runnable \subseteq Callable
    BY DEF Callable, Runnable
  <2>2. \A e \in OfKinds(s, Runnable) : CodeId(e) \in ids
    BY <2>1, MoreKindsMoreIds
  <2>3. \A e : Targets(e) \subseteq ids
    BY DEF ResolveIds
  <2> HIDE DEF ids, Targets
  <2> QED BY <2>2, <2>3
<1> HIDE DEF ids, Methods, Targets, routed
<1>5. ASSUME NEW a \in ControlFlow(s).edges PROVE a[1] \in ids /\ a[2] \in ids
  <2>1. \/ \E c \in OfKinds(s, {"class"}) : a \in EdgesFrom(CodeId(c), Methods(c), "control")
        \/ \E e \in routed : a \in EdgesFrom(CodeId(e), Targets(e) \ {CodeId(e)}, "control")
    BY <1>2
  <2>2. CASE \E c \in OfKinds(s, {"class"}) : a \in EdgesFrom(CodeId(c), Methods(c), "control")
    BY <1>3, <2>2, EdgesFromAre
  <2>3. CASE \E e \in routed : a \in EdgesFrom(CodeId(e), Targets(e) \ {CodeId(e)}, "control")
    BY <1>4, <2>3, EdgesFromAre
  <2> QED BY <2>1, <2>2, <2>3
<1> QED BY <1>1, <1>5 DEF HasEnds

LEMMA DependencyGraphHasEnds ==
  ASSUME NEW s \in Seq(Entity)
  PROVE  HasEnds(DependencyGraph(s))
<1> DEFINE imports == OfKinds(s, {"import"})
           files == {<<"module", e.file>> : e \in imports}
           imported == {<<"module", n>> : n \in UNION {e.imports : e \in imports}}
           repo == <<"repo", Repo>>
           Imported(e) == {<<"module", n>> : n \in e.imports}
           importEdges == UNION {EdgesFrom(<<"module", e.file>>, Imported(e), "import") : e \in imports}
<1>1. DOMAIN DependencyGraph(s).nodes = files \cup imported \cup {repo}
  BY DEF DependencyGraph
<1>2. DependencyGraph(s).edges = EdgesFrom(repo, files \cup imported, "dependency") \cup importEdges
  BY DEF DependencyGraph
<1>3. \A e \in imports : <<"module", e.file>> \in files /\ {<<"module", n>> : n \in e.imports} \subseteq imported
  OBVIOUS
<1> HIDE DEF imports, files, imported, repo, importEdges
<1>4. ASSUME NEW a \in DependencyGraph(s).edges
      PROVE  a[1] \in files \cup imported \cup {repo} /\ a[2] \in files \cup imported \cup {repo}
  <2>1. CASE a \in EdgesFrom(repo, files \cup imported, "dependency")
    BY <2>1, EdgesFromAre
  <2>2. CASE a \in importEdges
    <3>1. PICK e \in imports : a \in EdgesFrom(<<"module", e.file>>, Imported(e), "import")
      BY <2>2 DEF importEdges
    <3>2. a[1] = <<"module", e.file>> /\ a[2] \in Imported(e)
      BY <3>1, EdgesFromAre
    <3> QED BY <1>3, <3>2
  <2> QED BY <1>2, <2>1, <2>2
<1> QED BY <1>1, <1>4 DEF HasEnds

LEMMA FindClassIdIs ==
  ASSUME NEW s \in Seq(Entity), NEW name
  PROVE  FindClassId(name, s) \subseteq CodeIds(s, {"class"})
<1> DEFINE P == {i \in 1 .. Len(s) : s[i].kind = "class" /\ s[i].name = name}
<1>1. P \in SUBSET (1 .. Len(s)) /\ Len(s) \in Nat
  BY InRange
<1>2. FindClassId(name, s) = {} \/ (P # {} /\ FindClassId(name, s) = {CodeId(s[Min(P)])})
  BY DEF FindClassId, SelectInSeq
<1>3. P # {} => Min(P) \in P
  <2> HIDE DEF P
  <2> QED BY <1>1, SelectFirst
<1>4. P # {} => s[Min(P)] \in OfKinds(s, {"class"})
  BY <1>1, <1>3, InRange DEF OfKinds
<1> QED BY <1>2, <1>4 DEF CodeIds

LEMMA StateTransitionHasEnds ==
  ASSUME NEW s \in Seq(Entity)
  PROVE  HasEnds(StateTransition(s))
<1> DEFINE classes == CodeIds(s, {"class"})
           cycle == {i \in ClassMethods(s) : IsLifecycle(s[i])}
           events == {i \in ClassMethods(s) : IsEvent(s[i])}
           Id(i) == CodeId(s[i])
           Known(i) == classes \cup {Id(j) : j \in {k \in cycle \cup events : k = i \/ Precedes(s, k, i)}}
           Follows(i, j) == /\ GroupOf(s, i) = GroupOf(s, j)
                            /\ i < j
                            /\ \A k \in cycle : ~(GroupOf(s, k) = GroupOf(s, i) /\ i < k /\ k < j)
           Class(i) == <<s[i].file, s[i].parent>>
           Called(i) == UNION {ResolveIds(c, Known(i)) : c \in s[i].calls}
           Bases(e) == UNION {FindClassId(b, s) : b \in e.bases}
           nodes == classes \cup {Id(i) : i \in cycle \cup events}
           first == {<<Class(i), Id(i), "state_transition">> : i \in {k \in cycle : Class(k) \in classes}}
           second == {<<Id(p[1]), Id(p[2]), "state_transition">> : p \in {q \in cycle \X cycle : Follows(q[1], q[2])}}
           third == UNION {EdgesFrom(Id(i), Called(i) \ {Id(i)}, "event") : i \in events}
           fourth == UNION {EdgesFrom(CodeId(e), Bases(e), "inherit") : e \in OfKinds(s, {"class"})}
<1>1. DOMAIN StateTransition(s).nodes = nodes
  BY DEF StateTransition
<1>2. StateTransition(s).edges = first \cup second \cup third \cup fourth
  BY DEF StateTransition
<1>3. \A i \in cycle \cup events : Id(i) \in nodes
  OBVIOUS
<1>4. \A i : Called(i) \subseteq nodes
  <2>1. \A i : Known(i) \subseteq nodes
    BY <1>3
  <2> HIDE DEF Known, nodes
  <2> QED BY <2>1 DEF ResolveIds
<1>5. \A e \in OfKinds(s, {"class"}) : CodeId(e) \in nodes /\ Bases(e) \subseteq nodes
  <2>1. \A e \in OfKinds(s, {"class"}) : CodeId(e) \in classes
    BY MoreKindsMoreIds
  <2>2. \A e : Bases(e) \subseteq classes
    BY FindClassIdIs
  <2> HIDE DEF classes, Bases
  <2> QED BY <2>1, <2>2
<1>6. ASSUME NEW a \in first PROVE a[1] \in nodes /\ a[2] \in nodes
  <2>1. PICK i \in cycle : Class(i) \in classes /\ a = <<Class(i), Id(i), "state_transition">>
    OBVIOUS
  <2>2. a[1] = Class(i) /\ a[2] = Id(i)
    BY <2>1
  <2> QED BY <1>3, <2>1, <2>2
<1>7. ASSUME NEW a \in second PROVE a[1] \in nodes /\ a[2] \in nodes
  <2>1. PICK p \in cycle \X cycle : a = <<Id(p[1]), Id(p[2]), "state_transition">>
    OBVIOUS
  <2>2. a[1] = Id(p[1]) /\ a[2] = Id(p[2]) /\ p[1] \in cycle /\ p[2] \in cycle
    BY <2>1
  <2> QED BY <1>3, <2>2
<1>8. ASSUME NEW a \in third PROVE a[1] \in nodes /\ a[2] \in nodes
  <2> HIDE DEF nodes, Id, Called
  <2>1. PICK i \in events : a \in EdgesFrom(Id(i), Called(i) \ {Id(i)}, "event")
    OBVIOUS
  <2>2. a[1] = Id(i) /\ a[2] \in Called(i)
    BY <2>1, EdgesFromAre
  <2> QED BY <1>3, <1>4, <2>2
<1>9. ASSUME NEW a \in fourth PROVE a[1] \in nodes /\ a[2] \in nodes
  <2> HIDE DEF nodes, Bases
  <2>1. PICK e \in OfKinds(s, {"class"}) : a \in EdgesFrom(CodeId(e), Bases(e), "inherit")
    OBVIOUS
  <2>2. a[1] = CodeId(e) /\ a[2] \in Bases(e)
    BY <2>1, EdgesFromAre
  <2> QED BY <1>5, <2>2
<1> HIDE DEF first, second, third, fourth, nodes
<1> QED BY <1>1, <1>2, <1>6, <1>7, <1>8, <1>9 DEF HasEnds

LEMMA ResourceGraphHasEnds ==
  ASSUME NEW s \in Seq(Entity)
  PROVE  HasEnds(ResourceGraph(s))
<1> DEFINE nodes == CodeNodes(s, Runnable, NoBoundary(s), [e \in Range(s) |-> IoOperations(e)])
           used == UNION {nodes[id].effects : id \in DOMAIN nodes}
           Type(n) == IF Says(n, "external") THEN "network" ELSE "database"
           resources == {<<"resource", n>> : n \in used}
           Uses(id) == {<<id, <<"resource", n>>, Type(n)>> : n \in nodes[id].effects}
<1>1. DOMAIN ResourceGraph(s).nodes = DOMAIN nodes \cup resources
  BY DEF ResourceGraph, Extended
<1>2. ResourceGraph(s).edges = UNION {Uses(id) : id \in DOMAIN nodes}
  BY DEF ResourceGraph
<1>3. ASSUME NEW a \in ResourceGraph(s).edges PROVE a[1] \in DOMAIN nodes /\ a[2] \in resources
  <2> HIDE DEF nodes, Type
  <2>1. PICK id \in DOMAIN nodes : a \in Uses(id)
    BY <1>2
  <2>2. PICK n \in nodes[id].effects : a = <<id, <<"resource", n>>, Type(n)>>
    BY <2>1
  <2>3. a[1] = id /\ a[2] = <<"resource", n>> /\ n \in used
    BY <2>2
  <2> QED BY <2>3
<1> QED BY <1>1, <1>3 DEF HasEnds

LEMMA SecurityGraphHasEnds ==
  ASSUME NEW s \in Seq(Entity), NEW pick \in AuthPicks
  PROVE  HasEnds(SecurityGraph(s, pick))
<1> DEFINE coded == OfKinds(s, Callable)
           patterns == {<<"security", p>> : p \in UNION {AuthPatterns(e, pick) : e \in coded}}
           data == {<<"sensitive", n>> : n \in UNION {SensitiveNames(e) : e \in coded}}
           Patterns(e) == {<<"security", p>> : p \in AuthPatterns(e, pick)}
           Data(e) == {<<"sensitive", n>> : n \in SensitiveNames(e)}
<1>1. DOMAIN SecurityGraph(s, pick).nodes = CodeIds(s, Callable) \cup patterns \cup data
  BY CodeNodesAre DEF SecurityGraph, Extended
<1>2. SecurityGraph(s, pick).edges = UNION {EdgesFrom(CodeId(e), Patterns(e), "event")
                                       \cup EdgesFrom(CodeId(e), Data(e), "data") : e \in coded}
  BY DEF SecurityGraph
<1>3. \A e \in coded : CodeId(e) \in CodeIds(s, Callable) /\ Patterns(e) \subseteq patterns /\ Data(e) \subseteq data
  BY CodeNodesAre
<1> HIDE DEF coded, patterns, data, Patterns, Data
<1>4. ASSUME NEW a \in SecurityGraph(s, pick).edges
      PROVE  a[1] \in CodeIds(s, Callable) /\ a[2] \in patterns \cup data
  <2>1. PICK e \in coded : a \in EdgesFrom(CodeId(e), Patterns(e), "event") \/ a \in EdgesFrom(CodeId(e), Data(e), "data")
    BY <1>2
  <2>2. a[1] = CodeId(e) /\ a[2] \in Patterns(e) \cup Data(e)
    BY <2>1, EdgesFromAre
  <2> QED BY <1>3, <2>2
<1> QED BY <1>1, <1>4 DEF HasEnds

LEMMA DeploymentGraphHasEnds ==
  ASSUME NEW s \in Seq(Entity)
  PROVE  HasEnds(DeploymentGraph(s))
<1> DEFINE repo == <<"deploy", Repo>>
           builds == {<<"build", b>> : b \in BuildSystems}
           configs == {i \in DOMAIN s : Says(s[i].name, "config")}
           configIds == {<<"config", s[i].name>> : i \in configs}
           endpoints == {CodeId(e) : e \in {f \in OfKinds(s, Runnable) : AnySays(f.decorators, "deploy")}}
<1>1. DOMAIN DeploymentGraph(s).nodes = {repo} \cup builds \cup configIds \cup endpoints
  BY DEF DeploymentGraph, Extended
<1>2. DeploymentGraph(s).edges = EdgesFrom(repo, builds \cup configIds \cup endpoints, "dependency")
  BY DEF DeploymentGraph
<1> HIDE DEF repo, builds, configIds, endpoints
<1> QED BY <1>1, <1>2, EdgesFromAre DEF HasEnds

-------------------------------------------------------------------------------
(* The visitor *)

\* What the visitor finds at its position.
LEMMA VisitIs ==
  ASSUME ParserInv, Parsing, Path \notin source.broken, at =< Len(Text)
  PROVE  /\ Path \in Files /\ Text \in Seq(VisitForm) /\ at \in DOMAIN Text /\ Visit \in VisitForm
         /\ Depth(Text, at) >= 0
<1>1. Path \in Files
  BY ParserAssumption DEF ParserInv, Parsing, Path
<1>2. IsSyntax(Text)
  BY <1>1, ParserAssumption DEF ParserInv, Text
<1>3. at \in DOMAIN Text
  BY <1>2 DEF IsSyntax, ParserInv
<1> QED BY <1>1, <1>2, <1>3 DEF IsSyntax, Visit

\* Entering and leaving a definition change the depth.
LEMMA NoDepth ==
  ASSUME NEW t
  PROVE  Depth(t, 0) = 0
<1>1. 1 .. 0 = {}
  OBVIOUS
<1>2. {j \in 1 .. 0 : Opens(t, j)} = {} /\ {j \in 1 .. 0 : t[j].do = "end"} = {}
  BY <1>1
<1> QED BY <1>2, FS_EmptySet DEF Depth

LEMMA DepthByVisit ==
  ASSUME NEW t \in Seq(VisitForm), NEW k \in DOMAIN t
  PROVE  /\ Depth(t, k - 1) \in Int
         /\ Depth(t, k) = IF Opens(t, k) THEN Depth(t, k - 1) + 1
                          ELSE IF t[k].do = "end" THEN Depth(t, k - 1) - 1
                          ELSE Depth(t, k - 1)
<1> DEFINE Opened(n) == {j \in 1 .. n : Opens(t, j)}
           Ended(n) == {j \in 1 .. n : t[j].do = "end"}
<1>1. k \in Nat \ {0} /\ k - 1 \in Nat /\ 1 .. k = (1 .. k - 1) \cup {k} /\ k \notin 1 .. k - 1
  OBVIOUS
<1>4. /\ IsFiniteSet(Opened(k - 1)) /\ Cardinality(Opened(k - 1)) \in Nat
      /\ IsFiniteSet(Ended(k - 1)) /\ Cardinality(Ended(k - 1)) \in Nat
  <2>1. IsFiniteSet(1 .. k - 1)
    BY <1>1, FS_Interval
  <2>2. Opened(k - 1) \subseteq 1 .. k - 1 /\ Ended(k - 1) \subseteq 1 .. k - 1
    OBVIOUS
  <2> HIDE DEF Opened, Ended
  <2> QED BY <2>1, <2>2, FS_Subset, FS_CardinalityType
<1>5. /\ k \notin Opened(k - 1) /\ k \notin Ended(k - 1)
      /\ Opened(k) = IF Opens(t, k) THEN Opened(k - 1) \cup {k} ELSE Opened(k - 1)
      /\ Ended(k) = IF t[k].do = "end" THEN Ended(k - 1) \cup {k} ELSE Ended(k - 1)
  BY <1>1
<1>6. Opens(t, k) => t[k].do # "end"
  BY DEF Opens
<1>7. \A n \in Int : Depth(t, n) = Cardinality(Opened(n)) - Cardinality(Ended(n))
  BY DEF Depth
<1> HIDE DEF Opened, Ended
<1>9. /\ Cardinality(Opened(k)) = IF Opens(t, k) THEN Cardinality(Opened(k - 1)) + 1 ELSE Cardinality(Opened(k - 1))
      /\ Cardinality(Ended(k)) = IF t[k].do = "end" THEN Cardinality(Ended(k - 1)) + 1 ELSE Cardinality(Ended(k - 1))
  BY <1>4, <1>5, FS_AddElement
<1>10. Depth(t, k) = Cardinality(Opened(k)) - Cardinality(Ended(k))
       /\ Depth(t, k - 1) = Cardinality(Opened(k - 1)) - Cardinality(Ended(k - 1))
  BY <1>1, <1>7
<1> QED BY <1>4, <1>6, <1>9, <1>10

\* What a visit carries.
LEMMA VisitCarries ==
  ASSUME NEW v \in VisitForm
  PROVE  /\ v.do = "class" => v.name \in Names /\ v.bases \in SUBSET Names
         /\ v.do = "def" => v.name \in Names /\ v.decorators \in SUBSET Names /\ v.suspends \in BOOLEAN
         /\ v.do \in {"call", "name"} => v.name \in Names
         /\ v.do = "import" => v.name \in Names /\ v.imported \in Names /\ v.head \in Names \cup {NoName}
BY DEF VisitForm

LEMMA PlainIs ==
  ASSUME Path \in Files, NEW kind \in Kinds, NEW name \in Names
  PROVE  /\ Plain(kind, name) \in Entity /\ Plain(kind, name).name = name
         /\ \A parent \in Names \cup {NoName}, bases \in SUBSET Names :
              [Plain(kind, name) EXCEPT !.parent = parent, !.bases = bases] \in Entity
         /\ \A parent \in Names \cup {NoName}, decorators \in SUBSET Names, suspends \in BOOLEAN :
              [Plain(kind, name) EXCEPT !.parent = parent, !.decorators = decorators, !.suspends = suspends] \in Entity
         /\ \A imports \in SUBSET Names : [Plain(kind, name) EXCEPT !.imports = imports] \in Entity
BY DEF Plain, Entity

\* A scope keeps what it is while it collects names.
SameScopes(s, t) ==
  /\ s \in Seq(Scope) /\ t \in Seq(Scope) /\ Len(t) = Len(s)
  /\ \A i \in 1 .. Len(s) : t[i].kind = s[i].kind /\ t[i].name = s[i].name /\ t[i].target = s[i].target

LEMMA AddReferenceIs ==
  ASSUME NEW s \in Seq(Scope), NEW name \in Names \cup {NoName}
  PROVE  SameScopes(s, AddReference(s, name))
<1>1. CASE s = <<>> \/ name = NoName
  BY <1>1 DEF AddReference, SameScopes
<1>2. CASE s # <<>> /\ name # NoName
  <2>1. Len(s) \in 1 .. Len(s) /\ name \in Names
    BY <1>2
  <2>2. s[Len(s)] \in Scope
    BY <2>1
  <2> DEFINE last == [s[Len(s)] EXCEPT !.references = @ \cup {name}]
  <2>3. last \in Scope
    BY <2>1, <2>2 DEF Scope
  <2>4. last.kind = s[Len(s)].kind /\ last.name = s[Len(s)].name /\ last.target = s[Len(s)].target
    BY <2>2 DEF Scope
  <2>5. AddReference(s, name) = [s EXCEPT ![Len(s)] = last]
    BY <1>2 DEF AddReference
  <2> HIDE DEF last
  <2> QED BY <2>1, <2>3, <2>4, <2>5 DEF SameScopes
<1> QED BY <1>1, <1>2

LEMMA RecordCallTargetIs ==
  ASSUME NEW s \in Seq(Scope), NEW name \in Names
  PROVE  SameScopes(s, RecordCallTarget(s, name))
<1> DEFINE i == CurrentCallable(s)
           P == {j \in 1 .. Len(s) : s[j].kind = "function"}
<1>1. i \in {0} \cup 1 .. Len(s)
  <2>1. i = IF P # {} THEN Max(P) ELSE 0
    BY DEF CurrentCallable, SelectLastInSeq
  <2>2. P # {} => Max(P) \in 1 .. Len(s)
    <3>1. P \in SUBSET Int /\ P \subseteq 1 .. Len(s)
      OBVIOUS
    <3>2. IsFiniteSet(1 .. Len(s))
      BY FS_Interval
    <3> HIDE DEF P
    <3>3. IsFiniteSet(P)
      BY <3>1, <3>2, FS_Subset
    <3> QED BY <3>1, <3>3, MaxOfFinite
  <2> QED BY <2>1, <2>2
<1> HIDE DEF i
<1>2. CASE i = 0
  BY <1>2 DEF RecordCallTarget, SameScopes, i
<1>3. CASE i # 0
  <2>1. i \in 1 .. Len(s) /\ s[i] \in Scope
    BY <1>1, <1>3
  <2> DEFINE called == [s[i] EXCEPT !.calls = @ \cup {name}]
  <2>2. called \in Scope
    BY <2>1 DEF Scope
  <2>3. called.kind = s[i].kind /\ called.name = s[i].name /\ called.target = s[i].target
    BY <2>1 DEF Scope
  <2>4. RecordCallTarget(s, name) = [s EXCEPT ![i] = called]
    BY <1>3 DEF RecordCallTarget, i
  <2> HIDE DEF called
  <2> QED BY <2>1, <2>2, <2>3, <2>4 DEF SameScopes
<1> QED BY <1>2, <1>3

\* Steps within a file, and from one file to the next.
LEMMA WithinFile ==
  ASSUME ParserInv, Parsing, Path \notin source.broken, at =< Len(Text), at' = at + 1,
         UNCHANGED <<source, file, entities, errors>>,
         own' \in Seq(Entity), scopes' \in Seq(Scope),
         \A i \in DOMAIN scopes' : scopes'[i].target \in DOMAIN own' /\ own'[scopes'[i].target].name = scopes'[i].name,
         Len(scopes') = Depth(Text, at)
  PROVE  ParserInv'
<1>1. Parsing' /\ Path' = Path /\ Text' = Text
  BY DEF Parsing, Path, Text
<1>2. at \in DOMAIN Text /\ Len(Text) \in Nat
  BY VisitIs
<1>3. at' - 1 = at /\ at' \in Nat \ {0} /\ at' =< Len(Text) + 1
  BY <1>2
<1>4. Len(scopes') = Depth(Text', at' - 1)
  BY <1>1, <1>3
<1> QED BY <1>1, <1>3, <1>4 DEF ParserInv

LEMMA ToNextFile ==
  ASSUME ParserInv, Parsing, NextFile, entities' \in Seq(Entity), errors' \subseteq source.broken
  PROVE  ParserInv'
<1>1. source' = source /\ file' = file + 1 /\ at' = 1 /\ own' = <<>> /\ scopes' = <<>>
  BY DEF NextFile
<1>2. file \in 1 .. Len(Walk) /\ Len(Walk) \in Nat
  BY ParserAssumption DEF ParserInv, Parsing
<1>3. file' \in 1 .. Len(Walk) + 1
  BY <1>1, <1>2
<1>4. own' \in Seq(Entity) /\ scopes' \in Seq(Scope) /\ Len(scopes') = 0 /\ DOMAIN scopes' = {}
  BY <1>1
<1>5. ASSUME Parsing' PROVE at' =< Len(Text') + 1 /\ Len(scopes') = Depth(Text', at' - 1)
  <2>1. Path' \in Files
    BY <1>3, <1>5, ParserAssumption DEF Parsing, Path
  <2>2. IsSyntax(Text')
    BY <1>1, <2>1, ParserAssumption DEF ParserInv, Text
  <2>3. Len(Text') \in Nat
    BY <2>2 DEF IsSyntax
  <2>4. at' - 1 = 0
    BY <1>1
  <2> QED BY <1>1, <1>4, <2>3, <2>4, NoDepth
<1> QED BY <1>1, <1>3, <1>4, <1>5 DEF ParserInv

\* The visit of a step, and what it does to the depth.
LEMMA ReadingIs ==
  ASSUME ParserInv, NEW what \in {"class", "def", "end", "call", "name", "import"}, Reading(what)
  PROVE  /\ Parsing /\ Path \notin source.broken /\ at =< Len(Text)
         /\ Path \in Files /\ Visit \in VisitForm /\ Visit.do = what
         /\ Depth(Text, at) = CASE what \in {"class", "def"} -> Len(scopes) + 1
                                [] what = "end" -> Len(scopes) - 1
                                [] OTHER -> Len(scopes)
         /\ Depth(Text, at) >= 0
<1>1. Parsing /\ Path \notin source.broken /\ at =< Len(Text) /\ Visit.do = what /\ Text[at].do = what
  BY DEF Reading, Visit
<1>2. /\ Path \in Files /\ Text \in Seq(VisitForm) /\ at \in DOMAIN Text /\ Visit \in VisitForm
      /\ Depth(Text, at) >= 0
  BY <1>1, VisitIs
<1>3. Len(scopes) = Depth(Text, at - 1)
  BY <1>1 DEF ParserInv
<1>4. Opens(Text, at) <=> what \in {"class", "def"}
  BY <1>1 DEF Opens
<1>5. Depth(Text, at) = IF Opens(Text, at) THEN Depth(Text, at - 1) + 1
                        ELSE IF Text[at].do = "end" THEN Depth(Text, at - 1) - 1
                        ELSE Depth(Text, at - 1)
  BY <1>2, DepthByVisit
<1> QED BY <1>1, <1>2, <1>3, <1>4, <1>5

LEMMA EnterKeeps ==
  ASSUME ParserInv, NEW what \in {"class", "def"}, Reading(what),
         NEW entity \in Entity, NEW kind \in {"class", "function"}, Enter(entity, kind)
  PROVE  ParserInv'
<1> DEFINE scope == [kind |-> kind, name |-> entity.name, target |-> Len(own) + 1, calls |-> {}, references |-> {}]
<1>1. /\ Parsing /\ Path \notin source.broken /\ at =< Len(Text)
      /\ Depth(Text, at) = Len(scopes) + 1
  BY ReadingIs
<1>2. /\ own' = Append(own, entity) /\ scopes' = Append(scopes, scope) /\ at' = at + 1
      /\ UNCHANGED <<source, file, entities, errors>>
  BY DEF Enter
<1>3. /\ own \in Seq(Entity) /\ scopes \in Seq(Scope)
      /\ \A i \in DOMAIN scopes : scopes[i].target \in DOMAIN own /\ own[scopes[i].target].name = scopes[i].name
  BY DEF ParserInv
<1>4. scope \in Scope /\ scope.target = Len(own) + 1 /\ scope.name = entity.name
  <2>1. entity.name \in Names /\ Len(own) + 1 \in Nat \ {0}
    BY <1>3 DEF Entity
  <2> QED BY <2>1 DEF Scope
<1> HIDE DEF scope
<1>5. own' \in Seq(Entity) /\ scopes' \in Seq(Scope) /\ Len(scopes') = Len(scopes) + 1
  BY <1>2, <1>3, <1>4
<1>6. ASSUME NEW i \in DOMAIN scopes'
      PROVE  scopes'[i].target \in DOMAIN own' /\ own'[scopes'[i].target].name = scopes'[i].name
  <2>1. CASE i = Len(scopes) + 1
    BY <1>2, <1>3, <1>4, <2>1
  <2>2. CASE i \in DOMAIN scopes
    <3>1. scopes'[i] = scopes[i] /\ scopes[i].target \in DOMAIN own /\ own[scopes[i].target].name = scopes[i].name
      BY <1>2, <1>3, <1>4, <2>2
    <3>2. scopes[i].target \in DOMAIN own' /\ own'[scopes[i].target] = own[scopes[i].target]
      BY <1>2, <1>3, <3>1
    <3> QED BY <3>1, <3>2
  <2>3. i = Len(scopes) + 1 \/ i \in DOMAIN scopes
    BY <1>3, <1>5
  <2> QED BY <2>1, <2>2, <2>3
<1> QED BY <1>1, <1>2, <1>5, <1>6, WithinFile

LEMMA ParentNameIs ==
  ASSUME ParserInv
  PROVE  ParentName \in Names \cup {NoName}
<1>1. CASE scopes = <<>>
  BY <1>1 DEF ParentName
<1>2. CASE scopes # <<>>
  <2>1. scopes \in Seq(Scope)
    BY DEF ParserInv
  <2>2. scopes[Len(scopes)] \in Scope
    BY <1>2, <2>1
  <2> QED BY <1>2, <2>2 DEF ParentName, Last, Scope
<1> QED BY <1>1, <1>2

LEMMA EnterClassKeeps ==
  ASSUME ParserInv, EnterClass
  PROVE  ParserInv'
<1> DEFINE entity == [Plain("class", Visit.name) EXCEPT !.parent = ParentName, !.bases = Visit.bases]
<1>1. Reading("class") /\ Enter(entity, "class")
  BY DEF EnterClass
<1>2. Path \in Files /\ Visit \in VisitForm /\ Visit.do = "class"
  BY <1>1, ReadingIs
<1>3. Visit.name \in Names /\ Visit.bases \in SUBSET Names
  BY <1>2, VisitCarries
<1>4. entity \in Entity
  BY <1>2, <1>3, ParentNameIs, PlainIs DEF Kinds
<1> HIDE DEF entity
<1> QED BY <1>1, <1>4, EnterKeeps

LEMMA EnterFunctionKeeps ==
  ASSUME ParserInv, EnterFunction
  PROVE  ParserInv'
<1> DEFINE kind == IF InClass THEN "method" ELSE "function"
           entity == [Plain(kind, Visit.name) EXCEPT
                        !.parent = ParentName, !.decorators = Visit.decorators, !.suspends = Visit.suspends]
<1>1. Reading("def") /\ Enter(entity, "function")
  BY DEF EnterFunction
<1>2. Path \in Files /\ Visit \in VisitForm /\ Visit.do = "def"
  BY <1>1, ReadingIs
<1>3. Visit.name \in Names /\ Visit.decorators \in SUBSET Names /\ Visit.suspends \in BOOLEAN
  BY <1>2, VisitCarries
<1>4. kind \in Kinds
  BY DEF Kinds
<1>5. entity \in Entity
  <2> HIDE DEF kind
  <2> QED BY <1>2, <1>3, <1>4, ParentNameIs, PlainIs
<1> HIDE DEF entity
<1> QED BY <1>1, <1>5, EnterKeeps

LEMMA FrontIs ==
  ASSUME NEW S, NEW s \in Seq(S), Len(s) >= 1
  PROVE  /\ SubSeq(s, 1, Len(s) - 1) \in Seq(S) /\ Len(SubSeq(s, 1, Len(s) - 1)) = Len(s) - 1
         /\ \A i \in 1 .. Len(s) - 1 : SubSeq(s, 1, Len(s) - 1)[i] = s[i]
<1> DEFINE n == Len(s) - 1
           front == SubSeq(s, 1, n)
<1>1. (\A i \in 1 .. n : s[i] \in S) /\ n \in Nat
  OBVIOUS
<1> HIDE DEF n
<1>2. /\ front \in Seq(S) /\ Len(front) = IF 1 <= n THEN n - 1 + 1 ELSE 0
      /\ \A i \in 1 .. n - 1 + 1 : front[i] = s[1 + i - 1]
  BY <1>1, SubSeqProperties
<1> HIDE DEF front
<1>3. Len(front) = n /\ \A i \in 1 .. n : front[i] = s[i]
  BY <1>1, <1>2
<1> QED BY <1>2, <1>3 DEF front, n

LEMMA LeaveKeeps ==
  ASSUME ParserInv, Leave
  PROVE  ParserInv'
<1> DEFINE scope == scopes[Len(scopes)]
           j == scope.target
           left == [own[j] EXCEPT !.calls = scope.calls, !.references = scope.references]
<1>1. /\ Reading("end") /\ at' = at + 1 /\ UNCHANGED <<source, file, entities, errors>>
      /\ scopes' = SubSeq(scopes, 1, Len(scopes) - 1)
      /\ own' = [own EXCEPT ![j].calls = scope.calls, ![j].references = scope.references]
  BY DEF Leave, Last, Front
<1>2. /\ Parsing /\ Path \notin source.broken /\ at =< Len(Text)
      /\ Depth(Text, at) = Len(scopes) - 1 /\ Len(scopes) - 1 >= 0
  BY <1>1, ReadingIs
<1>3. /\ own \in Seq(Entity) /\ scopes \in Seq(Scope)
      /\ \A i \in DOMAIN scopes : scopes[i].target \in DOMAIN own /\ own[scopes[i].target].name = scopes[i].name
  BY DEF ParserInv
<1>4. Len(scopes) \in DOMAIN scopes
  BY <1>2, <1>3
<1>5. scope \in Scope /\ j \in DOMAIN own /\ own[j] \in Entity
  BY <1>3, <1>4
<1>6. left \in Entity /\ left.name = own[j].name
  BY <1>5 DEF Entity, Scope
<1>7. own' = [own EXCEPT ![j] = left]
  BY <1>1, <1>5
<1> HIDE DEF scope, left
<1>8. own' \in Seq(Entity) /\ DOMAIN own' = DOMAIN own /\ \A i \in DOMAIN own : own'[i].name = own[i].name
  BY <1>3, <1>5, <1>6, <1>7
<1>9. /\ scopes' \in Seq(Scope) /\ Len(scopes') = Len(scopes) - 1
      /\ \A i \in DOMAIN scopes' : i \in DOMAIN scopes /\ scopes'[i] = scopes[i]
  <2>1. Len(scopes) >= 1 /\ Len(scopes) \in Nat
    BY <1>2, <1>3
  <2>2. scopes' \in Seq(Scope) /\ Len(scopes') = Len(scopes) - 1 /\ \A i \in 1 .. Len(scopes) - 1 : scopes'[i] = scopes[i]
    BY <1>1, <1>3, <2>1, FrontIs
  <2> QED BY <1>3, <2>1, <2>2
<1>10. \A i \in DOMAIN scopes' : scopes'[i].target \in DOMAIN own' /\ own'[scopes'[i].target].name = scopes'[i].name
  BY <1>3, <1>8, <1>9
<1> QED BY <1>1, <1>2, <1>8, <1>9, <1>10, WithinFile

\* Calls, names and imports leave every scope where it is.
LEMMA CollectingKeeps ==
  ASSUME ParserInv, NEW what \in {"call", "name", "import"}, Reading(what), at' = at + 1,
         UNCHANGED <<source, file, entities, errors>>, SameScopes(scopes, scopes'),
         own' \in Seq(Entity), Len(own') >= Len(own), \A i \in DOMAIN own : own'[i] = own[i]
  PROVE  ParserInv'
<1>1. /\ Parsing /\ Path \notin source.broken /\ at =< Len(Text)
      /\ Depth(Text, at) = Len(scopes)
  BY ReadingIs
<1>2. /\ own \in Seq(Entity) /\ scopes \in Seq(Scope)
      /\ \A i \in DOMAIN scopes : scopes[i].target \in DOMAIN own /\ own[scopes[i].target].name = scopes[i].name
  BY DEF ParserInv
<1>3. scopes' \in Seq(Scope) /\ Len(scopes') = Len(scopes)
  BY DEF SameScopes
<1>4. ASSUME NEW i \in DOMAIN scopes'
      PROVE  scopes'[i].target \in DOMAIN own' /\ own'[scopes'[i].target].name = scopes'[i].name
  <2>1. i \in DOMAIN scopes /\ scopes'[i].target = scopes[i].target /\ scopes'[i].name = scopes[i].name
    BY <1>2, <1>3 DEF SameScopes
  <2>2. scopes[i].target \in DOMAIN own /\ own[scopes[i].target].name = scopes[i].name
    BY <1>2, <2>1
  <2> QED BY <1>2, <2>1, <2>2
<1> QED BY <1>1, <1>3, <1>4, WithinFile

LEMMA SameTwice ==
  ASSUME NEW s, NEW t, NEW u, SameScopes(s, t), SameScopes(t, u)
  PROVE  SameScopes(s, u)
BY DEF SameScopes

LEMMA VisitCallKeeps ==
  ASSUME ParserInv, VisitCall
  PROVE  ParserInv'
<1>1. /\ Reading("call") /\ at' = at + 1 /\ UNCHANGED <<source, file, own, entities, errors>>
      /\ scopes' = AddReference(RecordCallTarget(scopes, Visit.name), Visit.name)
  BY DEF VisitCall
<1>2. scopes \in Seq(Scope) /\ own \in Seq(Entity)
  BY DEF ParserInv
<1>3. Visit \in VisitForm /\ Visit.do = "call"
  BY <1>1, ReadingIs
<1>4. Visit.name \in Names
  BY <1>3, VisitCarries
<1>5. SameScopes(scopes, RecordCallTarget(scopes, Visit.name))
  BY <1>2, <1>4, RecordCallTargetIs
<1>6. SameScopes(RecordCallTarget(scopes, Visit.name), scopes')
  <2>1. RecordCallTarget(scopes, Visit.name) \in Seq(Scope)
    BY <1>5 DEF SameScopes
  <2> QED BY <1>1, <1>4, <2>1, AddReferenceIs
<1>7. SameScopes(scopes, scopes')
  BY <1>5, <1>6, SameTwice
<1>8. own' \in Seq(Entity) /\ Len(own') >= Len(own) /\ \A i \in DOMAIN own : own'[i] = own[i]
  BY <1>1, <1>2
<1> QED BY <1>1, <1>7, <1>8, CollectingKeeps

LEMMA VisitNameKeeps ==
  ASSUME ParserInv, VisitName
  PROVE  ParserInv'
<1>1. /\ Reading("name") /\ at' = at + 1 /\ UNCHANGED <<source, file, own, entities, errors>>
      /\ scopes' = AddReference(scopes, Visit.name)
  BY DEF VisitName
<1>2. scopes \in Seq(Scope) /\ own \in Seq(Entity)
  BY DEF ParserInv
<1>3. Visit \in VisitForm /\ Visit.do = "name"
  BY <1>1, ReadingIs
<1>4. Visit.name \in Names
  BY <1>3, VisitCarries
<1>5. SameScopes(scopes, scopes')
  BY <1>1, <1>2, <1>4, AddReferenceIs
<1>6. own' \in Seq(Entity) /\ Len(own') >= Len(own) /\ \A i \in DOMAIN own : own'[i] = own[i]
  BY <1>1, <1>2
<1> QED BY <1>1, <1>5, <1>6, CollectingKeeps

LEMMA VisitImportKeeps ==
  ASSUME ParserInv, VisitImport
  PROVE  ParserInv'
<1> DEFINE entity == [Plain("import", Visit.name) EXCEPT !.imports = {Visit.imported}]
<1>1. /\ Reading("import") /\ at' = at + 1 /\ UNCHANGED <<source, file, entities, errors>>
      /\ own' = Append(own, entity) /\ scopes' = AddReference(scopes, Visit.head)
  BY DEF VisitImport
<1>2. scopes \in Seq(Scope) /\ own \in Seq(Entity)
  BY DEF ParserInv
<1>3. Path \in Files /\ Visit \in VisitForm /\ Visit.do = "import"
  BY <1>1, ReadingIs
<1>4. Visit.name \in Names /\ Visit.imported \in Names /\ Visit.head \in Names \cup {NoName}
  BY <1>3, VisitCarries
<1>5. entity \in Entity
  <2>1. {Visit.imported} \in SUBSET Names /\ "import" \in Kinds
    BY <1>4 DEF Kinds
  <2> QED BY <1>3, <1>4, <2>1, PlainIs
<1> HIDE DEF entity
<1>6. SameScopes(scopes, scopes')
  BY <1>1, <1>2, <1>4, AddReferenceIs
<1>7. own' \in Seq(Entity) /\ Len(own') >= Len(own) /\ \A i \in DOMAIN own : own'[i] = own[i]
  BY <1>1, <1>2, <1>5
<1> QED BY <1>1, <1>6, <1>7, CollectingKeeps

LEMMA FinishFileKeeps ==
  ASSUME ParserInv, FinishFile
  PROVE  ParserInv'
<1>1. Parsing /\ NextFile /\ entities' = entities \o own /\ errors' = errors
  BY DEF FinishFile
<1>2. entities \in Seq(Entity) /\ own \in Seq(Entity) /\ errors \subseteq source.broken
  BY DEF ParserInv
<1>3. entities' \in Seq(Entity) /\ errors' \subseteq source.broken
  BY <1>1, <1>2
<1> QED BY <1>1, <1>3, ToNextFile

LEMMA RecordErrorKeeps ==
  ASSUME ParserInv, RecordError
  PROVE  ParserInv'
<1>1. Parsing /\ NextFile /\ entities' = entities /\ Path \in source.broken /\ errors' = errors \cup {Path}
  BY DEF RecordError
<1>2. entities \in Seq(Entity) /\ errors \subseteq source.broken
  BY DEF ParserInv
<1>3. entities' \in Seq(Entity) /\ errors' \subseteq source.broken
  BY <1>1, <1>2
<1> QED BY <1>1, <1>3, ToNextFile

LEMMA ParserBegins ==
  ASSUME ParserInit
  PROVE  ParserInv
<1>1. /\ source \in Sources /\ file = 1 /\ at = 1 /\ own = <<>> /\ scopes = <<>>
      /\ entities = <<>> /\ errors = {}
  BY DEF ParserInit
<1>2. Len(Walk) \in Nat /\ file \in 1 .. Len(Walk) + 1
  BY <1>1, ParserAssumption
<1>3. own \in Seq(Entity) /\ entities \in Seq(Entity) /\ scopes \in Seq(Scope) /\ Len(scopes) = 0 /\ DOMAIN scopes = {}
  BY <1>1
<1>4. ASSUME Parsing PROVE at =< Len(Text) + 1 /\ Len(scopes) = Depth(Text, at - 1)
  <2>1. Path \in Files
    BY <1>2, <1>4, ParserAssumption DEF Parsing, Path
  <2>2. IsSyntax(Text)
    BY <1>1, <2>1, ParserAssumption DEF Text
  <2>3. Len(Text) \in Nat /\ at - 1 = 0
    BY <1>1, <2>2 DEF IsSyntax
  <2> QED BY <1>1, <1>3, <2>3, NoDepth
<1> QED BY <1>1, <1>2, <1>3, <1>4 DEF ParserInv

LEMMA ParserKeeps ==
  ASSUME ParserInv, ParserNext
  PROVE  ParserInv'
BY EnterClassKeeps, EnterFunctionKeeps, LeaveKeeps, VisitCallKeeps, VisitNameKeeps, VisitImportKeeps,
   FinishFileKeeps, RecordErrorKeeps DEF ParserNext

-------------------------------------------------------------------------------
(* What the text says.  The definitions around a visit are one of each      *)
(* depth from the first to the present, the innermost one the last.         *)

LEMMA DepthIsInt ==
  ASSUME NEW t, IsSyntax(t), NEW k \in 0 .. Len(t)
  PROVE  /\ t \in Seq(VisitForm) /\ Len(t) \in Nat /\ DOMAIN t = 1 .. Len(t)
         /\ Depth(t, k) \in Nat
         /\ k > 0 => /\ k \in DOMAIN t /\ t[k] \in VisitForm /\ k - 1 \in 0 .. Len(t)
                     /\ Depth(t, k - 1) \in Nat
                     /\ Depth(t, k) = IF Opens(t, k) THEN Depth(t, k - 1) + 1
                                      ELSE IF t[k].do = "end" THEN Depth(t, k - 1) - 1
                                      ELSE Depth(t, k - 1)
<1>1. t \in Seq(VisitForm) /\ Len(t) \in Nat /\ DOMAIN t = 1 .. Len(t) /\ \A m \in DOMAIN t : Depth(t, m) >= 0
  BY DEF IsSyntax
<1>2. ASSUME NEW m \in 0 .. Len(t) PROVE Depth(t, m) \in Nat
  <2>1. CASE m = 0
    BY <2>1, NoDepth
  <2>2. CASE m # 0
    <3>1. m \in DOMAIN t
      BY <1>1, <2>2
    <3>2. Depth(t, m) \in Int
      BY <1>1, <3>1, DepthByVisit
    <3> QED BY <1>1, <3>1, <3>2
  <2> QED BY <2>1, <2>2
<1>3. ASSUME k > 0
      PROVE  /\ k \in DOMAIN t /\ t[k] \in VisitForm /\ k - 1 \in 0 .. Len(t)
             /\ Depth(t, k) = IF Opens(t, k) THEN Depth(t, k - 1) + 1
                              ELSE IF t[k].do = "end" THEN Depth(t, k - 1) - 1
                              ELSE Depth(t, k - 1)
  <2>1. k \in DOMAIN t /\ k - 1 \in 0 .. Len(t)
    BY <1>1, <1>3
  <2> QED BY <1>1, <2>1, DepthByVisit
<1> QED BY <1>1, <1>2, <1>3

LEMMA AroundIs ==
  ASSUME NEW t, IsSyntax(t), NEW k \in 1 .. Len(t) + 1
  PROVE  /\ Depth(t, k - 1) \in Nat
         /\ \A j \in Around(t, k) : /\ j \in 1 .. k - 1 /\ j \in DOMAIN t /\ Opens(t, j)
                                    /\ Depth(t, j) \in 1 .. Depth(t, k - 1)
         /\ \A i \in Around(t, k), j \in Around(t, k) : i < j => Depth(t, i) < Depth(t, j)
<1>1. t \in Seq(VisitForm) /\ Len(t) \in Nat /\ DOMAIN t = 1 .. Len(t) /\ k - 1 \in 0 .. Len(t) /\ k \in Nat
  <2>1. Len(t) \in Nat /\ t \in Seq(VisitForm)
    BY DEF IsSyntax
  <2> QED BY <2>1
<1>2. Depth(t, k - 1) \in Nat
  BY <1>1, DepthIsInt
<1>3. ASSUME NEW j \in Around(t, k)
      PROVE  /\ j \in 1 .. k - 1 /\ j \in DOMAIN t /\ Opens(t, j)
             /\ Depth(t, j) \in 1 .. Depth(t, k - 1) /\ j - 1 \in 0 .. Len(t)
             /\ Depth(t, j) = Depth(t, j - 1) + 1 /\ Depth(t, j - 1) \in Nat
  <2>1. j \in 1 .. k - 1 /\ Opens(t, j) /\ \A m \in j .. k - 1 : Depth(t, m) >= Depth(t, j)
    BY DEF Around
  <2>2. j \in DOMAIN t /\ j \in 0 .. Len(t) /\ j > 0 /\ j - 1 \in 0 .. Len(t) /\ k - 1 \in j .. k - 1
    BY <1>1, <2>1
  <2>3. Depth(t, j) = Depth(t, j - 1) + 1 /\ Depth(t, j - 1) \in Nat /\ Depth(t, j) \in Nat
    BY <2>1, <2>2, DepthIsInt
  <2>4. Depth(t, k - 1) >= Depth(t, j)
    BY <2>1, <2>2
  <2> QED BY <1>2, <2>1, <2>2, <2>3, <2>4
<1>4. ASSUME NEW i \in Around(t, k), NEW j \in Around(t, k), i < j
      PROVE  Depth(t, i) < Depth(t, j)
  <2>1. i \in 1 .. k - 1 /\ j \in 1 .. k - 1 /\ Depth(t, i) \in Nat /\ Depth(t, j) = Depth(t, j - 1) + 1 /\ Depth(t, j - 1) \in Nat
    BY <1>2, <1>3
  <2>2. j - 1 \in i .. k - 1
    BY <1>4, <2>1
  <2>3. Depth(t, j - 1) >= Depth(t, i)
    BY <2>2 DEF Around
  <2> QED BY <2>1, <2>3
<1> QED BY <1>2, <1>3, <1>4

\* How the definitions around change from one visit to the next.
LEMMA AroundNext ==
  ASSUME NEW t, IsSyntax(t), NEW k \in DOMAIN t, NEW j
  PROVE  j \in Around(t, k + 1) <=>
           IF Opens(t, k) THEN j \in Around(t, k) \/ j = k
           ELSE IF t[k].do = "end" THEN j \in Around(t, k) /\ Depth(t, j) < Depth(t, k - 1)
           ELSE j \in Around(t, k)
<1>1. /\ Len(t) \in Nat /\ DOMAIN t = 1 .. Len(t) /\ k \in Nat /\ k \in 1 .. Len(t) + 1
      /\ k \in 0 .. Len(t) /\ k > 0
  BY DEF IsSyntax
<1>2. Depth(t, k - 1) \in Nat /\ Depth(t, k) \in Nat
  BY <1>1, DepthIsInt
<1>3. Depth(t, k) = IF Opens(t, k) THEN Depth(t, k - 1) + 1
                    ELSE IF t[k].do = "end" THEN Depth(t, k - 1) - 1
                    ELSE Depth(t, k - 1)
  BY <1>1, DepthIsInt
<1>4. j \in Around(t, k + 1) <=> /\ j \in 1 .. k /\ Opens(t, j)
                                 /\ \A m \in j .. k : Depth(t, m) >= Depth(t, j)
  <2>1. PICK n \in Int : n = k + 1
    BY <1>1
  <2>2. n - 1 = k
    BY <1>1, <2>1
  <2>3. j \in Around(t, n) <=> /\ j \in 1 .. n - 1 /\ Opens(t, j)
                              /\ \A m \in j .. n - 1 : Depth(t, m) >= Depth(t, j)
    BY DEF Around
  <2> QED BY <2>1, <2>2, <2>3
<1>5. j \in Around(t, k) <=> /\ j \in 1 .. k - 1 /\ Opens(t, j)
                             /\ \A m \in j .. k - 1 : Depth(t, m) >= Depth(t, j)
  BY DEF Around
<1>6. j \in 1 .. k - 1 => j .. k = (j .. k - 1) \cup {k}
  BY <1>1
<1>7. j \in Around(t, k + 1) <=> \/ j \in Around(t, k) /\ Depth(t, k) >= Depth(t, j)
                                 \/ j = k /\ Opens(t, k)
  <2>1. CASE j \in 1 .. k - 1
    <3>1. j # k /\ j \in 1 .. k
      BY <1>1, <2>1
    <3>2. (\A m \in j .. k : Depth(t, m) >= Depth(t, j)) <=>
            (\A m \in j .. k - 1 : Depth(t, m) >= Depth(t, j)) /\ Depth(t, k) >= Depth(t, j)
      BY <1>6, <2>1
    <3> QED BY <1>4, <1>5, <2>1, <3>1, <3>2
  <2>2. CASE j = k
    <3>1. j \notin 1 .. k - 1 /\ j \in 1 .. k /\ j .. k = {k}
      BY <1>1, <2>2
    <3>2. Depth(t, k) >= Depth(t, k)
      BY <1>2
    <3> QED BY <1>4, <1>5, <2>2, <3>1, <3>2
  <2>3. CASE j \notin 1 .. k
    <3>1. j \notin 1 .. k - 1 /\ j # k
      BY <1>1, <2>3
    <3> QED BY <1>4, <1>5, <2>3, <3>1
  <2> QED BY <1>1, <2>1, <2>2, <2>3
<1>8. j \in Around(t, k) => Depth(t, j) \in Nat /\ Depth(t, j) =< Depth(t, k - 1)
  <2>1. ASSUME j \in Around(t, k) PROVE Depth(t, j) \in 1 .. Depth(t, k - 1)
    BY <1>1, <2>1, AroundIs
  <2> QED BY <1>2, <2>1
<1>9. Opens(t, k) => t[k].do # "end"
  BY DEF Opens
<1> QED BY <1>2, <1>3, <1>7, <1>8, <1>9

\* Of every depth up to the present there is one definition around.
LEMMA AroundEachDepth ==
  ASSUME NEW t, IsSyntax(t), NEW k \in 1 .. Len(t) + 1, NEW d \in 1 .. Depth(t, k - 1)
  PROVE  \E j \in Around(t, k) : Depth(t, j) = d
<1>1. Len(t) \in Nat /\ k \in Nat /\ k > 0 /\ k - 1 \in 0 .. Len(t) /\ \A m \in 0 .. k - 1 : m \in 0 .. Len(t)
  <2>1. Len(t) \in Nat
    BY DEF IsSyntax
  <2> QED BY <2>1
<1>2. \A m \in 0 .. k - 1 : Depth(t, m) \in Nat
  BY <1>1, DepthIsInt
<1>3. d \in Nat /\ d > 0
  BY <1>1, <1>2
<1> DEFINE below == {m \in 0 .. k - 1 : Depth(t, m) < d}
           i == Max(below)
<1>4. i \in below /\ \A m \in below : i >= m
  <2>1. 0 \in below
    BY <1>1, <1>3, NoDepth
  <2>2. below \in SUBSET Int /\ below \subseteq 0 .. k - 1
    OBVIOUS
  <2>3. IsFiniteSet(0 .. k - 1)
    BY <1>1, FS_Interval
  <2> HIDE DEF below
  <2>4. IsFiniteSet(below)
    BY <2>2, <2>3, FS_Subset
  <2> QED BY <2>1, <2>2, <2>4, MaxOfFinite
<1>5. i \in 0 .. k - 1 /\ Depth(t, i) < d /\ \A m \in 0 .. k - 1 : m > i => ~(Depth(t, m) < d)
  BY <1>4
<1> HIDE DEF i, below
<1>6. i # k - 1
  BY <1>2, <1>3, <1>5
<1>7. i + 1 \in 1 .. k - 1 /\ i + 1 \in 0 .. k - 1 /\ i + 1 > i /\ i + 1 > 0 /\ i + 1 - 1 = i
  BY <1>1, <1>5, <1>6
<1>8. Depth(t, i + 1) \in Nat /\ Depth(t, i + 1) >= d /\ Depth(t, i) \in Nat
  BY <1>2, <1>3, <1>5, <1>7
<1>9. Depth(t, i + 1) = IF Opens(t, i + 1) THEN Depth(t, i) + 1
                        ELSE IF t[i + 1].do = "end" THEN Depth(t, i) - 1
                        ELSE Depth(t, i)
  <2>1. PICK m \in 0 .. Len(t) : m = i + 1
    BY <1>1, <1>7
  <2>2. m > 0 /\ m - 1 = i
    BY <1>1, <1>5, <1>7, <2>1
  <2>3. Depth(t, m) = IF Opens(t, m) THEN Depth(t, m - 1) + 1
                      ELSE IF t[m].do = "end" THEN Depth(t, m - 1) - 1
                      ELSE Depth(t, m - 1)
    BY <2>2, DepthIsInt
  <2> QED BY <2>1, <2>2, <2>3
<1>10. Opens(t, i + 1) /\ Depth(t, i + 1) = d
  BY <1>3, <1>5, <1>8, <1>9
<1>11. ASSUME NEW m \in i + 1 .. k - 1 PROVE Depth(t, m) >= Depth(t, i + 1)
  <2>1. m \in 0 .. k - 1 /\ m > i
    BY <1>5, <1>7
  <2> QED BY <1>2, <1>3, <1>5, <1>10, <2>1
<1>12. i + 1 \in Around(t, k)
  BY <1>7, <1>10, <1>11 DEF Around
<1> QED BY <1>10, <1>12

LEMMA InnermostIs ==
  ASSUME NEW t, IsSyntax(t), NEW k \in 1 .. Len(t) + 1, NEW j
  PROVE  IsInnermost(j, Around(t, k)) <=> j \in Around(t, k) /\ Depth(t, j) = Depth(t, k - 1)
<1>1. /\ Depth(t, k - 1) \in Nat
      /\ \A i \in Around(t, k) : i \in Nat /\ Depth(t, i) \in 1 .. Depth(t, k - 1)
      /\ \A h \in Around(t, k), i \in Around(t, k) : h < i => Depth(t, h) < Depth(t, i)
  <2>1. k \in Nat
    BY DEF IsSyntax
  <2> QED BY <2>1, AroundIs
<1>2. ASSUME j \in Around(t, k), Depth(t, j) = Depth(t, k - 1), NEW i \in Around(t, k)
      PROVE  i =< j
  <2>1. ~(j < i)
    BY <1>1, <1>2
  <2> QED BY <1>1, <1>2, <2>1
<1>3. ASSUME j \in Around(t, k), \A i \in Around(t, k) : i =< j
      PROVE  Depth(t, j) = Depth(t, k - 1)
  <2>1. Depth(t, j) \in 1 .. Depth(t, k - 1) /\ j \in Nat
    BY <1>1, <1>3
  <2>2. Depth(t, k - 1) \in 1 .. Depth(t, k - 1)
    BY <1>1, <2>1
  <2>3. PICK i \in Around(t, k) : Depth(t, i) = Depth(t, k - 1)
    BY <2>2, AroundEachDepth
  <2>4. i =< j /\ i \in Nat
    BY <1>1, <1>3
  <2>5. i = j \/ i < j
    BY <2>1, <2>4
  <2>6. i < j => Depth(t, i) < Depth(t, j)
    BY <1>1, <1>3
  <2> QED BY <1>1, <2>1, <2>3, <2>5, <2>6
<1> QED BY <1>2, <1>3 DEF IsInnermost

\* Definitions and imports are counted in the order they are written.
LEMMA EntityAtIs ==
  ASSUME NEW t, IsSyntax(t)
  PROVE  /\ EntityAt(t, 0) = 0
         /\ \A k \in 0 .. Len(t) : EntityAt(t, k) \in Nat
         /\ \A k \in DOMAIN t : EntityAt(t, k) = EntityAt(t, k - 1) + IF k \in Written(t) THEN 1 ELSE 0
         /\ \A k \in 0 .. Len(t) : \A i \in 0 .. k : EntityAt(t, i) =< EntityAt(t, k)
         /\ \A i \in Written(t), k \in Written(t) : i # k => EntityAt(t, i) # EntityAt(t, k)
         /\ \A i \in Written(t), k \in 0 .. Len(t) : i =< k => EntityAt(t, i) \in 1 .. EntityAt(t, k)
<1> DEFINE Before(k) == {i \in Written(t) : i =< k}
<1>1. Len(t) \in Nat /\ DOMAIN t = 1 .. Len(t) /\ Written(t) \subseteq 1 .. Len(t)
  BY DEF IsSyntax, Written
<1>2. \A k : IsFiniteSet(Before(k)) /\ Cardinality(Before(k)) \in Nat /\ EntityAt(t, k) = Cardinality(Before(k))
  <2>1. IsFiniteSet(1 .. Len(t))
    BY <1>1, FS_Interval
  <2>2. \A k : Before(k) \subseteq 1 .. Len(t) /\ EntityAt(t, k) = Cardinality(Before(k))
    BY <1>1 DEF EntityAt
  <2> HIDE DEF Before
  <2> QED BY <2>1, <2>2, FS_Subset, FS_CardinalityType
<1>3. Before(0) = {}
  BY <1>1
<1>4. ASSUME NEW k \in 0 .. Len(t), NEW i \in 0 .. k
      PROVE  EntityAt(t, i) =< EntityAt(t, k)
  <2>1. Before(i) \subseteq Before(k)
    BY <1>1
  <2> HIDE DEF Before
  <2> QED BY <1>2, <2>1, FS_Subset
<1>5. ASSUME NEW k \in DOMAIN t
      PROVE  EntityAt(t, k) = EntityAt(t, k - 1) + IF k \in Written(t) THEN 1 ELSE 0
  <2>1. k \notin Before(k - 1) /\ Before(k) = IF k \in Written(t) THEN Before(k - 1) \cup {k} ELSE Before(k - 1)
    BY <1>1
  <2> HIDE DEF Before
  <2>2. CASE k \in Written(t)
    <3>1. Cardinality(Before(k)) = Cardinality(Before(k - 1)) + 1
      BY <1>2, <2>1, <2>2, FS_AddElement
    <3> QED BY <1>2, <2>2, <3>1
  <2>3. CASE k \notin Written(t)
    BY <1>2, <2>1, <2>3
  <2> QED BY <2>2, <2>3
<1> HIDE DEF Before
<1>6. \A k : EntityAt(t, k) \in Nat
  BY <1>2
<1>7. ASSUME NEW k \in Written(t), NEW i \in 0 .. Len(t), i < k
      PROVE  EntityAt(t, i) < EntityAt(t, k)
  <2>1. k \in DOMAIN t /\ k - 1 \in 0 .. Len(t) /\ i \in 0 .. k - 1
    BY <1>1, <1>7
  <2>2. EntityAt(t, k) = EntityAt(t, k - 1) + 1 /\ EntityAt(t, i) =< EntityAt(t, k - 1)
    BY <1>4, <1>5, <2>1
  <2> QED BY <1>6, <2>2
<1>8. ASSUME NEW i \in Written(t), NEW k \in Written(t), i # k
      PROVE  EntityAt(t, i) # EntityAt(t, k)
  <2>1. i \in 0 .. Len(t) /\ k \in 0 .. Len(t) /\ (i < k \/ k < i)
    BY <1>1, <1>8
  <2>2. EntityAt(t, i) < EntityAt(t, k) \/ EntityAt(t, k) < EntityAt(t, i)
    BY <1>7, <2>1
  <2> QED BY <1>6, <2>2
<1>9. ASSUME NEW i \in Written(t), NEW k \in 0 .. Len(t), i =< k
      PROVE  EntityAt(t, i) \in 1 .. EntityAt(t, k)
  <2>1. i \in 0 .. k /\ i \in DOMAIN t /\ i \in 0 .. Len(t) /\ 0 \in 0 .. Len(t) /\ 0 < i
    BY <1>1, <1>9
  <2>2. EntityAt(t, 0) < EntityAt(t, i) /\ EntityAt(t, i) =< EntityAt(t, k)
    BY <1>4, <1>7, <2>1
  <2> QED BY <1>6, <2>2
<1>10. EntityAt(t, 0) = 0
  BY <1>2, <1>3, FS_EmptySet
<1> QED BY <1>4, <1>5, <1>6, <1>8, <1>9, <1>10

-------------------------------------------------------------------------------
(* What has been read.  Every open definition has the scope of its depth,   *)
(* which collects for it, and the entities of the others have what was      *)
(* collected.                                                               *)

CallIn(t, j, m) == IsInnermost(j, Functions(t, Around(t, m)))
NameIn(t, j, m) == IsInnermost(j, Around(t, m))
UsedAt(t, m) == IF t[m].do = "import" THEN {t[m].head} \ {NoName} ELSE {t[m].name}

\* What stands before the k-th visit and belongs to the definition at j, in a scope or an entity.
Collected(t, k, j, r) ==
  /\ \A n : n \in r.calls <=> \E m \in 1 .. k - 1 : t[m].do = "call" /\ t[m].name = n /\ CallIn(t, j, m)
  /\ \A n : n \in r.references <=> \E m \in 1 .. k - 1 : /\ t[m].do \in {"call", "name", "import"}
                                                         /\ n \in UsedAt(t, m) /\ NameIn(t, j, m)

ScopeOf(t, j, s) ==
  /\ s.kind = (IF t[j].do = "def" THEN "function" ELSE "class")
  /\ s.name = t[j].name /\ s.target = EntityAt(t, j)

InClassAt(t, j) == \E i \in Around(t, j) : IsInnermost(i, Around(t, j)) /\ t[i].do = "class"

EntityOf(t, j, e) ==
  /\ e.name = t[j].name
  /\ e.kind = "method" <=> t[j].do = "def" /\ InClassAt(t, j)
  /\ e.kind = "method" => \E i \in Around(t, j) : IsInnermost(i, Around(t, j)) /\ e.parent = t[i].name

IsRead(t, k, entries, stack) ==
  /\ Len(entries) = EntityAt(t, k - 1)
  /\ Len(stack) = Depth(t, k - 1)
  /\ \A j \in Around(t, k) : ScopeOf(t, j, stack[Depth(t, j)]) /\ Collected(t, k, j, stack[Depth(t, j)])
  /\ \A j \in Written(t) : j < k =>
       /\ EntityOf(t, j, entries[EntityAt(t, j)])
       /\ j \notin Around(t, k) => Collected(t, k, j, entries[EntityAt(t, j)])

\* What a visit adds to what belongs to a definition.
LEMMA CollectedNext ==
  ASSUME NEW t, IsSyntax(t), NEW k \in DOMAIN t, NEW j, NEW r, NEW s, Collected(t, k, j, r),
         \A n : n \in s.calls <=> n \in r.calls \/ (t[k].do = "call" /\ t[k].name = n /\ CallIn(t, j, k)),
         \A n : n \in s.references <=> n \in r.references \/ (/\ t[k].do \in {"call", "name", "import"}
                                                              /\ n \in UsedAt(t, k) /\ NameIn(t, j, k))
  PROVE  Collected(t, k + 1, j, s)
<1>1. k \in Nat /\ k > 0
  BY DEF IsSyntax
<1>2. 1 .. (k + 1) - 1 = (1 .. k - 1) \cup {k}
  BY <1>1
<1>3. \A n : n \in s.calls <=> \E m \in 1 .. (k + 1) - 1 : t[m].do = "call" /\ t[m].name = n /\ CallIn(t, j, m)
  BY <1>2 DEF Collected
<1>4. \A n : n \in s.references <=> \E m \in 1 .. (k + 1) - 1 : /\ t[m].do \in {"call", "name", "import"}
                                                                /\ n \in UsedAt(t, m) /\ NameIn(t, j, m)
  BY <1>2 DEF Collected
<1> QED BY <1>3, <1>4 DEF Collected

LEMMA NotIn ==
  ASSUME NEW t, NEW k, NEW j, j \notin Around(t, k)
  PROVE  ~CallIn(t, j, k) /\ ~NameIn(t, j, k)
BY DEF CallIn, NameIn, IsInnermost, Functions

\* A definition that is just entered has nothing yet, nor has an import.
LEMMA NothingCollected ==
  ASSUME NEW t, IsSyntax(t), NEW k \in DOMAIN t, NEW r, r.calls = {}, r.references = {}
  PROVE  Collected(t, k + 1, k, r)
<1>1. k \in Nat
  BY DEF IsSyntax
<1>2. \A m \in 1 .. (k + 1) - 1 : k \notin Around(t, m)
  <2>1. \A m \in 1 .. (k + 1) - 1 : m =< k /\ m \in Nat
    BY <1>1
  <2>2. \A m \in Nat : m =< k => k \notin 1 .. m - 1
    BY <1>1
  <2> QED BY <2>1, <2>2 DEF Around
<1>3. \A m \in 1 .. (k + 1) - 1 : ~CallIn(t, k, m) /\ ~NameIn(t, k, m)
  BY <1>2, NotIn
<1> QED BY <1>3 DEF Collected

\* What is read of a definition that is not around stays as it is.
LEMMA CollectedStays ==
  ASSUME NEW t, IsSyntax(t), NEW k \in DOMAIN t, NEW j, NEW r, Collected(t, k, j, r), j \notin Around(t, k)
  PROVE  Collected(t, k + 1, j, r)
BY NotIn, CollectedNext

\* current_callable() is the scope of the innermost function around.
LEMMA CurrentCallableIs ==
  ASSUME NEW t, IsSyntax(t), NEW k \in 1 .. Len(t) + 1, NEW s \in Seq(Scope), Len(s) = Depth(t, k - 1),
         \A j \in Around(t, k) : ScopeOf(t, j, s[Depth(t, j)])
  PROVE  \A j : CallIn(t, j, k) <=> j \in Around(t, k) /\ CurrentCallable(s) = Depth(t, j)
<1> DEFINE P == {i \in 1 .. Len(s) : s[i].kind = "function"}
           c == CurrentCallable(s)
<1>1. Len(s) \in Nat /\ k \in Nat
  BY DEF IsSyntax
<1>2. /\ \A j \in Around(t, k) : /\ j \in 1 .. k - 1 /\ j \in Nat /\ Opens(t, j)
                                 /\ Depth(t, j) \in 1 .. Len(s) /\ Depth(t, j) \in Nat
      /\ \A i \in Around(t, k), j \in Around(t, k) : i < j => Depth(t, i) < Depth(t, j)
  BY <1>1, AroundIs
<1>3. \A j \in Around(t, k) : t[j].do = "def" <=> s[Depth(t, j)].kind = "function"
  BY DEF ScopeOf
<1>4. \A j : j \in Functions(t, Around(t, k)) <=> j \in Around(t, k) /\ Depth(t, j) \in P
  BY <1>2, <1>3 DEF Functions
<1>5. c = IF P # {} THEN Max(P) ELSE 0
  BY DEF CurrentCallable, SelectLastInSeq
<1>6. P # {} => c \in P /\ \A i \in P : c >= i
  <2>1. P \in SUBSET Int /\ P \subseteq 1 .. Len(s)
    OBVIOUS
  <2>2. IsFiniteSet(1 .. Len(s))
    BY <1>1, FS_Interval
  <2> HIDE DEF P, c
  <2>3. IsFiniteSet(P)
    BY <2>1, <2>2, FS_Subset
  <2> QED BY <1>5, <2>1, <2>3, MaxOfFinite
<1>7. P \subseteq 1 .. Len(s)
  OBVIOUS
<1> HIDE DEF P, c
<1>8. ASSUME NEW j, CallIn(t, j, k) PROVE j \in Around(t, k) /\ c = Depth(t, j)
  <2>1. j \in Functions(t, Around(t, k)) /\ \A i \in Functions(t, Around(t, k)) : i =< j
    BY <1>8 DEF CallIn, IsInnermost
  <2>2. j \in Around(t, k) /\ Depth(t, j) \in P
    BY <1>4, <2>1
  <2>3. c \in P /\ c >= Depth(t, j) /\ c \in 1 .. Len(s)
    BY <1>6, <1>7, <2>2
  <2>4. PICK i \in Around(t, k) : Depth(t, i) = c
    <3>1. c \in 1 .. Depth(t, k - 1)
      BY <2>3
    <3> QED BY <3>1, AroundEachDepth
  <2>5. i =< j
    BY <1>4, <2>1, <2>3, <2>4
  <2>6. ~(j < i)
    BY <1>2, <2>2, <2>4, <2>5
  <2>7. i < j => Depth(t, i) < Depth(t, j)
    BY <1>2, <2>2, <2>4
  <2>8. i = j
    BY <1>2, <2>2, <2>3, <2>4, <2>5, <2>7
  <2> QED BY <2>2, <2>4, <2>8
<1>9. ASSUME NEW j \in Around(t, k), c = Depth(t, j) PROVE CallIn(t, j, k)
  <2>1. c \in P
    <3>1. c # 0
      BY <1>2, <1>9
    <3> QED BY <1>5, <1>6, <3>1
  <2>2. j \in Functions(t, Around(t, k))
    BY <1>4, <1>9, <2>1
  <2>3. ASSUME NEW i \in Functions(t, Around(t, k)) PROVE i =< j
    <3>1. i \in Around(t, k) /\ Depth(t, i) \in P
      BY <1>4, <2>3
    <3>2. c >= Depth(t, i) /\ Depth(t, i) \in Nat /\ Depth(t, j) \in Nat /\ i \in Nat /\ j \in Nat
      BY <1>2, <1>6, <3>1
    <3>3. j < i => Depth(t, j) < Depth(t, i)
      BY <1>2, <3>1
    <3> QED BY <1>9, <3>2, <3>3
  <2> QED BY <2>2, <2>3 DEF CallIn, IsInnermost
<1> QED BY <1>8, <1>9 DEF c

\* What the visitor notes in its scopes.
LEMMA ReferenceAdded ==
  ASSUME NEW s \in Seq(Scope), NEW name \in Names \cup {NoName}, NEW i \in 1 .. Len(s)
  PROVE  /\ AddReference(s, name)[i].calls = s[i].calls
         /\ \A n : n \in AddReference(s, name)[i].references <=>
                     n \in s[i].references \/ (i = Len(s) /\ n \in {name} \ {NoName})
<1>1. s # <<>> /\ Len(s) \in 1 .. Len(s) /\ s[i] \in Scope /\ s[Len(s)] \in Scope
  <2>1. Len(s) \in Nat /\ Len(s) >= 1
    OBVIOUS
  <2>2. Len(s) \in 1 .. Len(s) /\ s # <<>>
    BY <2>1
  <2> QED BY <2>2
<1>2. CASE name = NoName
  BY <1>2 DEF AddReference
<1>3. CASE name # NoName
  <2> DEFINE last == [s[Len(s)] EXCEPT !.references = @ \cup {name}]
  <2>1. AddReference(s, name) = [s EXCEPT ![Len(s)] = last]
    BY <1>1, <1>3 DEF AddReference
  <2>2. last.calls = s[Len(s)].calls /\ last.references = s[Len(s)].references \cup {name}
    BY <1>1 DEF Scope
  <2> HIDE DEF last
  <2>3. AddReference(s, name)[i] = IF i = Len(s) THEN last ELSE s[i]
    BY <1>1, <2>1
  <2> QED BY <1>3, <2>2, <2>3
<1> QED BY <1>2, <1>3

LEMMA CallRecorded ==
  ASSUME NEW s \in Seq(Scope), NEW name \in Names, NEW i \in 1 .. Len(s)
  PROVE  /\ RecordCallTarget(s, name)[i].references = s[i].references
         /\ \A n : n \in RecordCallTarget(s, name)[i].calls <=>
                     n \in s[i].calls \/ (i = CurrentCallable(s) /\ n = name)
<1> DEFINE c == CurrentCallable(s)
           called == [s[c] EXCEPT !.calls = @ \cup {name}]
<1>1. s[i] \in Scope
  OBVIOUS
<1>2. i = c => c # 0
  OBVIOUS
<1>3. RecordCallTarget(s, name) = IF c = 0 THEN s ELSE [s EXCEPT ![c] = called]
  BY DEF RecordCallTarget
<1>4. i = c => called.references = s[i].references /\ called.calls = s[i].calls \cup {name}
  BY <1>1 DEF Scope
<1> HIDE DEF c, called
<1>5. RecordCallTarget(s, name)[i] = IF i = c THEN called ELSE s[i]
  BY <1>2, <1>3
<1> QED BY <1>4, <1>5 DEF c

-------------------------------------------------------------------------------
(* Each visit keeps what has been read. *)

\* What an import or a definition that is entered says of itself.
LEMMA EntityCounted ==
  ASSUME NEW t, IsSyntax(t), NEW k \in DOMAIN t, NEW entries \in Seq(Entity), NEW more \in Seq(Entity),
         NEW stack, IsRead(t, k, entries, stack),
         Len(more) = EntityAt(t, k), \A i \in DOMAIN entries : more[i] = entries[i],
         k \in Written(t) => EntityOf(t, k, more[EntityAt(t, k)])
  PROVE  /\ \A j \in Written(t) : j < k + 1 => EntityOf(t, j, more[EntityAt(t, j)])
         /\ \A j \in Written(t) : j < k /\ j \notin Around(t, k) => Collected(t, k + 1, j, more[EntityAt(t, j)])
<1>1. k \in Nat /\ k > 0 /\ k - 1 \in 0 .. Len(t) /\ Len(t) \in Nat /\ DOMAIN t = 1 .. Len(t)
  BY DEF IsSyntax
<1>2. Len(entries) = EntityAt(t, k - 1)
  BY DEF IsRead
<1>3. ASSUME NEW j \in Written(t), j < k
      PROVE  more[EntityAt(t, j)] = entries[EntityAt(t, j)]
  <2>1. j =< k - 1
    BY <1>1, <1>3 DEF Written
  <2>2. EntityAt(t, j) \in 1 .. EntityAt(t, k - 1)
    BY <1>1, <2>1, EntityAtIs
  <2>3. EntityAt(t, j) \in DOMAIN entries
    BY <1>2, <2>2
  <2> QED BY <2>3
<1>4. ASSUME NEW j \in Written(t), j < k + 1 PROVE EntityOf(t, j, more[EntityAt(t, j)])
  <2>1. j = k \/ j < k
    BY <1>1, <1>4 DEF Written
  <2>2. CASE j = k
    BY <1>4, <2>2
  <2>3. CASE j < k
    <3>1. EntityOf(t, j, entries[EntityAt(t, j)])
      BY <2>3 DEF IsRead
    <3> QED BY <1>3, <2>3, <3>1
  <2> QED BY <2>1, <2>2, <2>3
<1>5. ASSUME NEW j \in Written(t), j < k, j \notin Around(t, k)
      PROVE  Collected(t, k + 1, j, more[EntityAt(t, j)])
  <2>1. Collected(t, k, j, entries[EntityAt(t, j)])
    BY <1>5 DEF IsRead
  <2> QED BY <1>3, <1>5, <2>1, CollectedStays
<1> QED BY <1>4, <1>5

\* Calls, names and imports: the scopes note what stands in their definitions.
LEMMA ReadCollecting ==
  ASSUME NEW t, IsSyntax(t), NEW k \in DOMAIN t, t[k].do \in {"call", "name", "import"},
         NEW entries \in Seq(Entity), NEW more \in Seq(Entity),
         NEW stack, NEW noted, IsRead(t, k, entries, stack), SameScopes(stack, noted),
         Len(more) = EntityAt(t, k), \A i \in DOMAIN entries : more[i] = entries[i],
         k \in Written(t) => /\ EntityOf(t, k, more[EntityAt(t, k)])
                             /\ more[EntityAt(t, k)].calls = {} /\ more[EntityAt(t, k)].references = {},
         \A j \in Around(t, k) : \A n :
           /\ n \in noted[Depth(t, j)].calls <=>
                n \in stack[Depth(t, j)].calls \/ (t[k].do = "call" /\ t[k].name = n /\ CallIn(t, j, k))
           /\ n \in noted[Depth(t, j)].references <=>
                n \in stack[Depth(t, j)].references \/ (n \in UsedAt(t, k) /\ NameIn(t, j, k))
  PROVE  IsRead(t, k + 1, more, noted)
<1>1. k \in Nat /\ k > 0 /\ k \in 1 .. Len(t) + 1 /\ k \in 0 .. Len(t) /\ Len(t) \in Nat /\ (k + 1) - 1 = k
  BY DEF IsSyntax
<1>2. ~Opens(t, k) /\ t[k].do # "end"
  BY DEF Opens
<1>3. \A j : j \in Around(t, k + 1) <=> j \in Around(t, k)
  BY <1>2, AroundNext
<1>4. Depth(t, k) = Depth(t, k - 1)
  BY <1>1, <1>2, DepthIsInt
<1>5. Len(noted) = Depth(t, k)
  BY <1>4 DEF IsRead, SameScopes
<1>6. ASSUME NEW j \in Around(t, k)
      PROVE  ScopeOf(t, j, noted[Depth(t, j)]) /\ Collected(t, k + 1, j, noted[Depth(t, j)])
  <2>1. ScopeOf(t, j, stack[Depth(t, j)]) /\ Collected(t, k, j, stack[Depth(t, j)])
    BY DEF IsRead
  <2>2. Depth(t, j) \in 1 .. Depth(t, k - 1)
    BY <1>1, AroundIs
  <2>3. Depth(t, j) \in 1 .. Len(stack)
    BY <2>2 DEF IsRead
  <2>4. ScopeOf(t, j, noted[Depth(t, j)])
    BY <2>1, <2>3 DEF ScopeOf, SameScopes
  <2>5. Collected(t, k + 1, j, noted[Depth(t, j)])
    BY <2>1, CollectedNext
  <2> QED BY <2>4, <2>5
<1>7. /\ \A j \in Written(t) : j < k + 1 => EntityOf(t, j, more[EntityAt(t, j)])
      /\ \A j \in Written(t) : j < k /\ j \notin Around(t, k) => Collected(t, k + 1, j, more[EntityAt(t, j)])
  BY EntityCounted
<1>8. k \in Written(t) => Collected(t, k + 1, k, more[EntityAt(t, k)])
  BY NothingCollected
<1>9. ASSUME NEW j \in Written(t), j < k + 1, j \notin Around(t, k + 1)
      PROVE  Collected(t, k + 1, j, more[EntityAt(t, j)])
  <2>1. j = k \/ j < k
    BY <1>1, <1>9 DEF Written
  <2> QED BY <1>3, <1>7, <1>8, <1>9, <2>1
<1> QED BY <1>1, <1>3, <1>5, <1>6, <1>7, <1>9 DEF IsRead

\* A definition is entered.
LEMMA ReadEnter ==
  ASSUME NEW t, IsSyntax(t), NEW k \in DOMAIN t, Opens(t, k),
         NEW entries \in Seq(Entity), NEW stack \in Seq(Scope), IsRead(t, k, entries, stack),
         NEW entity \in Entity, EntityOf(t, k, entity),
         NEW scope \in Scope, ScopeOf(t, k, scope), scope.calls = {}, scope.references = {}
  PROVE  IsRead(t, k + 1, Append(entries, entity), Append(stack, scope))
<1> DEFINE more == Append(entries, entity)
           pushed == Append(stack, scope)
<1>1. k \in Nat /\ k > 0 /\ k \in 1 .. Len(t) + 1 /\ k \in 0 .. Len(t) /\ Len(t) \in Nat /\ (k + 1) - 1 = k
      /\ k \in Written(t)
  BY DEF IsSyntax, Written
<1>2. /\ Len(stack) = Depth(t, k - 1) /\ Len(entries) = EntityAt(t, k - 1)
      /\ Len(stack) \in Nat /\ Len(entries) \in Nat
  BY DEF IsRead
<1>3. Depth(t, k) = Len(stack) + 1 /\ EntityAt(t, k) = Len(entries) + 1
  BY <1>1, <1>2, DepthIsInt, EntityAtIs
<1>4. /\ more \in Seq(Entity) /\ Len(more) = Len(entries) + 1 /\ more[Len(entries) + 1] = entity
      /\ \A i \in DOMAIN entries : more[i] = entries[i]
      /\ Len(pushed) = Len(stack) + 1 /\ pushed[Len(stack) + 1] = scope
      /\ \A i \in 1 .. Len(stack) : pushed[i] = stack[i]
  OBVIOUS
<1> HIDE DEF more, pushed
<1>5. \A j : j \in Around(t, k + 1) <=> j \in Around(t, k) \/ j = k
  BY AroundNext
<1>6. ASSUME NEW j \in Around(t, k + 1)
      PROVE  ScopeOf(t, j, pushed[Depth(t, j)]) /\ Collected(t, k + 1, j, pushed[Depth(t, j)])
  <2>1. CASE j = k
    <3>1. Collected(t, k + 1, k, scope)
      BY NothingCollected
    <3> QED BY <1>3, <1>4, <2>1, <3>1
  <2>2. CASE j \in Around(t, k)
    <3>1. ScopeOf(t, j, stack[Depth(t, j)]) /\ Collected(t, k, j, stack[Depth(t, j)])
      BY <2>2 DEF IsRead
    <3>2. Depth(t, j) \in 1 .. Len(stack)
      BY <1>1, <1>2, <2>2, AroundIs
    <3>3. pushed[Depth(t, j)] = stack[Depth(t, j)]
      BY <1>4, <3>2
    <3>4. t[k].do \notin {"call", "name", "import"}
      BY DEF Opens
    <3>5. Collected(t, k + 1, j, stack[Depth(t, j)])
      BY <3>1, <3>4, CollectedNext
    <3> QED BY <3>1, <3>3, <3>5
  <2> QED BY <1>5, <2>1, <2>2
<1>7. Len(more) = EntityAt(t, k) /\ EntityOf(t, k, more[EntityAt(t, k)])
  BY <1>3, <1>4
<1>8. /\ \A j \in Written(t) : j < k + 1 => EntityOf(t, j, more[EntityAt(t, j)])
      /\ \A j \in Written(t) : j < k /\ j \notin Around(t, k) => Collected(t, k + 1, j, more[EntityAt(t, j)])
  BY <1>4, <1>7, EntityCounted
<1>9. ASSUME NEW j \in Written(t), j < k + 1, j \notin Around(t, k + 1)
      PROVE  Collected(t, k + 1, j, more[EntityAt(t, j)])
  <2>1. j = k \/ j < k
    BY <1>1, <1>9 DEF Written
  <2> QED BY <1>5, <1>8, <1>9, <2>1
<1>10. Len(more) = EntityAt(t, (k + 1) - 1) /\ Len(pushed) = Depth(t, (k + 1) - 1)
  BY <1>1, <1>3, <1>4
<1>11. IsRead(t, k + 1, more, pushed)
  BY <1>6, <1>8, <1>9, <1>10 DEF IsRead
<1> QED BY <1>11 DEF more, pushed

\* A definition is left, and its entity has what its scope collected.
LEMMA ReadLeave ==
  ASSUME NEW t, IsSyntax(t), NEW k \in DOMAIN t, t[k].do = "end",
         NEW entries \in Seq(Entity), NEW stack \in Seq(Scope), IsRead(t, k, entries, stack),
         NEW more \in Seq(Entity), Len(more) = Len(entries),
         NEW popped, Len(popped) = Len(stack) - 1, \A i \in 1 .. Len(stack) - 1 : popped[i] = stack[i],
         \A i \in 1 .. Len(entries) : /\ more[i].name = entries[i].name /\ more[i].kind = entries[i].kind
                                      /\ more[i].parent = entries[i].parent
                                      /\ IF i = stack[Len(stack)].target
                                         THEN /\ more[i].calls = stack[Len(stack)].calls
                                              /\ more[i].references = stack[Len(stack)].references
                                         ELSE more[i] = entries[i]
  PROVE  IsRead(t, k + 1, more, popped)
<1>1. k \in Nat /\ k > 0 /\ k \in 1 .. Len(t) + 1 /\ k \in 0 .. Len(t) /\ k - 1 \in 0 .. Len(t)
      /\ Len(t) \in Nat /\ (k + 1) - 1 = k
      /\ k \notin Written(t) /\ ~Opens(t, k) /\ t[k].do \notin {"call", "name", "import"}
  BY DEF IsSyntax, Written, Opens
<1>2. /\ Len(stack) = Depth(t, k - 1) /\ Len(entries) = EntityAt(t, k - 1)
      /\ Len(stack) \in Nat /\ Len(entries) \in Nat
  BY DEF IsRead
<1>3. Depth(t, k) = Len(stack) - 1 /\ EntityAt(t, k) = Len(entries) /\ Depth(t, k) \in Nat
  BY <1>1, <1>2, DepthIsInt, EntityAtIs
<1>4. \A j : j \in Around(t, k + 1) <=> j \in Around(t, k) /\ Depth(t, j) < Len(stack)
  BY <1>1, <1>2, AroundNext
<1>5. \A j \in Around(t, k) : /\ Depth(t, j) \in 1 .. Len(stack) /\ j \in Written(t) /\ j < k
                              /\ ScopeOf(t, j, stack[Depth(t, j)]) /\ Collected(t, k, j, stack[Depth(t, j)])
  <2> SUFFICES ASSUME NEW j \in Around(t, k)
               PROVE  Depth(t, j) \in 1 .. Len(stack) /\ j \in Written(t) /\ j < k
    BY DEF IsRead
  <2>1. j \in 1 .. k - 1 /\ j \in DOMAIN t /\ Opens(t, j) /\ Depth(t, j) \in 1 .. Len(stack)
    BY <1>1, <1>2, AroundIs
  <2> QED BY <1>1, <2>1 DEF Written
<1>6. ASSUME NEW j \in Around(t, k + 1)
      PROVE  ScopeOf(t, j, popped[Depth(t, j)]) /\ Collected(t, k + 1, j, popped[Depth(t, j)])
  <2>1. j \in Around(t, k) /\ Depth(t, j) \in 1 .. Len(stack) - 1
    BY <1>2, <1>4, <1>5
  <2>2. popped[Depth(t, j)] = stack[Depth(t, j)]
    BY <2>1
  <2>3. Collected(t, k + 1, j, stack[Depth(t, j)])
    BY <1>1, <1>5, <2>1, CollectedNext
  <2> QED BY <1>5, <2>1, <2>2, <2>3
<1>7. \A j \in Written(t) : j < k => EntityAt(t, j) \in 1 .. Len(entries)
  <2> SUFFICES ASSUME NEW j \in Written(t), j < k PROVE EntityAt(t, j) \in 1 .. Len(entries)
    OBVIOUS
  <2>1. j =< k - 1
    BY <1>1 DEF Written
  <2> QED BY <1>1, <1>2, <2>1, EntityAtIs
<1>8. ASSUME NEW j \in Written(t), j < k + 1
      PROVE  EntityOf(t, j, more[EntityAt(t, j)])
  <2>1. j < k
    BY <1>1, <1>8 DEF Written
  <2>2. EntityOf(t, j, entries[EntityAt(t, j)])
    BY <2>1 DEF IsRead
  <2>3. EntityAt(t, j) \in 1 .. Len(entries)
    BY <1>7, <2>1
  <2> QED BY <2>2, <2>3 DEF EntityOf
<1>9. ASSUME NEW j \in Written(t), j < k + 1, j \notin Around(t, k + 1)
      PROVE  Collected(t, k + 1, j, more[EntityAt(t, j)])
  <2>1. j < k /\ EntityAt(t, j) \in 1 .. Len(entries)
    <3>1. j < k
      BY <1>1, <1>9 DEF Written
    <3> QED BY <1>7, <3>1
  <2>2. CASE j \in Around(t, k)
    <3>1. Depth(t, j) = Len(stack)
      BY <1>2, <1>4, <1>5, <1>9, <2>2
    <3>2. stack[Len(stack)].target = EntityAt(t, j) /\ Collected(t, k, j, stack[Len(stack)])
      BY <1>5, <2>2, <3>1 DEF ScopeOf
    <3>3. /\ more[EntityAt(t, j)].calls = stack[Len(stack)].calls
          /\ more[EntityAt(t, j)].references = stack[Len(stack)].references
      BY <2>1, <3>2
    <3> QED BY <1>1, <3>2, <3>3, CollectedNext
  <2>3. CASE j \notin Around(t, k)
    <3>1. Len(stack) \in 1 .. Depth(t, k - 1)
      BY <1>2, <1>3
    <3>2. PICK i \in Around(t, k) : Depth(t, i) = Len(stack)
      BY <1>1, <3>1, AroundEachDepth
    <3>3. stack[Len(stack)].target = EntityAt(t, i) /\ i \in Written(t) /\ i # j
      BY <1>5, <2>3, <3>2 DEF ScopeOf
    <3>4. EntityAt(t, i) # EntityAt(t, j)
      BY <3>3, EntityAtIs
    <3>5. more[EntityAt(t, j)] = entries[EntityAt(t, j)]
      BY <2>1, <3>3, <3>4
    <3>6. Collected(t, k, j, entries[EntityAt(t, j)])
      BY <2>1, <2>3 DEF IsRead
    <3> QED BY <2>3, <3>5, <3>6, CollectedStays
  <2> QED BY <2>2, <2>3
<1>10. Len(more) = EntityAt(t, (k + 1) - 1) /\ Len(popped) = Depth(t, (k + 1) - 1)
  BY <1>1, <1>3
<1> QED BY <1>6, <1>8, <1>9, <1>10 DEF IsRead

-------------------------------------------------------------------------------
(* The visitor reads every text as it is written. *)

ReadSoFar == Parsing /\ Path \notin source.broken => IsRead(Text, at, own, scopes)
ReadInv == ParserInv /\ ReadSoFar

LEMMA ReadingHolds ==
  ASSUME ReadInv, NEW what \in {"class", "def", "end", "call", "name", "import"}, Reading(what)
  PROVE  /\ ParserInv /\ Path \in Files /\ IsSyntax(Text) /\ at \in DOMAIN Text /\ at \in 1 .. Len(Text) + 1
         /\ Text[at] = Visit /\ Visit \in VisitForm /\ Visit.do = what
         /\ IsRead(Text, at, own, scopes)
         /\ own \in Seq(Entity) /\ scopes \in Seq(Scope)
         /\ Len(own) = EntityAt(Text, at - 1) /\ Len(scopes) = Depth(Text, at - 1)
         /\ EntityAt(Text, at) = Len(own) + IF at \in Written(Text) THEN 1 ELSE 0
         /\ \A j \in Around(Text, at) : ScopeOf(Text, j, scopes[Depth(Text, j)])
<1>1. ParserInv /\ Parsing /\ Path \notin source.broken /\ at =< Len(Text) /\ Visit.do = what
  BY DEF ReadInv, Reading, Visit
<1>2. Path \in Files /\ at \in DOMAIN Text /\ Visit \in VisitForm
  BY <1>1, VisitIs
<1>3. IsSyntax(Text)
  BY <1>1, <1>2, ParserAssumption DEF ParserInv, Text
<1>4. at \in 1 .. Len(Text) + 1
  BY <1>2, <1>3 DEF IsSyntax
<1>5. IsRead(Text, at, own, scopes)
  BY <1>1 DEF ReadInv, ReadSoFar
<1>6. EntityAt(Text, at) = EntityAt(Text, at - 1) + IF at \in Written(Text) THEN 1 ELSE 0
  BY <1>2, <1>3, EntityAtIs
<1>7. Len(own) = EntityAt(Text, at - 1) /\ Len(scopes) = Depth(Text, at - 1)
      /\ \A j \in Around(Text, at) : ScopeOf(Text, j, scopes[Depth(Text, j)])
  BY <1>5 DEF IsRead
<1>8. own \in Seq(Entity) /\ scopes \in Seq(Scope) /\ Text[at] = Visit
  BY <1>1 DEF ParserInv, Visit
<1> QED BY <1>1, <1>2, <1>3, <1>4, <1>5, <1>6, <1>7, <1>8

LEMMA ReadWithin ==
  ASSUME at' = at + 1, UNCHANGED <<source, file>>, IsRead(Text, at + 1, own', scopes')
  PROVE  ReadSoFar'
<1>1. Text' = Text
  BY DEF Text, Path
<1> QED BY <1>1 DEF ReadSoFar

\* parent_kind() and parent_name() look at the innermost definition around.
LEMMA ParentIs ==
  ASSUME ReadInv, NEW what \in {"class", "def", "end", "call", "name", "import"}, Reading(what)
  PROVE  /\ InClass <=> InClassAt(Text, at)
         /\ InClass => \E i \in Around(Text, at) : IsInnermost(i, Around(Text, at)) /\ ParentName = Text[i].name
<1>1. /\ IsSyntax(Text) /\ at \in 1 .. Len(Text) + 1 /\ scopes \in Seq(Scope)
      /\ Len(scopes) = Depth(Text, at - 1)
      /\ \A j \in Around(Text, at) : ScopeOf(Text, j, scopes[Depth(Text, j)])
  BY ReadingHolds
<1>2. \A i : IsInnermost(i, Around(Text, at)) <=> i \in Around(Text, at) /\ Depth(Text, i) = Len(scopes)
  BY <1>1, InnermostIs
<1>3. \A i \in Around(Text, at) : Depth(Text, i) \in 1 .. Len(scopes) /\ Opens(Text, i)
  BY <1>1, AroundIs
<1>4. CASE scopes = <<>>
  <2>1. Len(scopes) = 0
    BY <1>4
  <2>2. \A i : i \notin Around(Text, at)
    BY <1>3, <2>1
  <2> QED BY <1>4, <2>2 DEF InClass, InClassAt
<1>5. CASE scopes # <<>>
  <2>1. Len(scopes) \in 1 .. Depth(Text, at - 1)
    <3>1. Len(scopes) \in Nat /\ Len(scopes) >= 1
      BY <1>1, <1>5
    <3> QED BY <1>1, <3>1
  <2>2. PICK i \in Around(Text, at) : Depth(Text, i) = Len(scopes)
    BY <1>1, <2>1, AroundEachDepth
  <2>3. ASSUME NEW h, IsInnermost(h, Around(Text, at))
        PROVE  /\ h \in Around(Text, at)
               /\ scopes[Len(scopes)].kind = (IF Text[h].do = "def" THEN "function" ELSE "class")
               /\ scopes[Len(scopes)].name = Text[h].name /\ Text[h].do \in {"class", "def"}
    BY <1>1, <1>2, <1>3, <2>3 DEF ScopeOf, Opens
  <2>4. IsInnermost(i, Around(Text, at))
    BY <1>2, <2>2
  <2>5. InClass <=> scopes[Len(scopes)].kind = "class"
    BY <1>5 DEF InClass, Last
  <2>6. ParentName = scopes[Len(scopes)].name
    BY <1>5 DEF ParentName, Last
  <2>7. InClass <=> InClassAt(Text, at)
    <3>1. InClassAt(Text, at) => InClass
      BY <2>3, <2>5 DEF InClassAt
    <3>2. InClass => InClassAt(Text, at)
      BY <2>2, <2>3, <2>4, <2>5 DEF InClassAt
    <3> QED BY <3>1, <3>2
  <2> QED BY <2>2, <2>3, <2>4, <2>6, <2>7
<1> QED BY <1>4, <1>5

LEMMA EnterClassReads ==
  ASSUME ReadInv, EnterClass
  PROVE  ReadSoFar'
<1> DEFINE entity == [Plain("class", Visit.name) EXCEPT !.parent = ParentName, !.bases = Visit.bases]
           scope == [kind |-> "class", name |-> entity.name, target |-> Len(own) + 1, calls |-> {}, references |-> {}]
<1>1. Reading("class") /\ Enter(entity, "class")
  BY DEF EnterClass
<1>2. /\ ParserInv /\ Path \in Files /\ IsSyntax(Text) /\ at \in DOMAIN Text /\ Text[at] = Visit
      /\ Visit \in VisitForm /\ Visit.do = "class" /\ IsRead(Text, at, own, scopes)
      /\ own \in Seq(Entity) /\ scopes \in Seq(Scope)
      /\ EntityAt(Text, at) = Len(own) + IF at \in Written(Text) THEN 1 ELSE 0
  BY <1>1, ReadingHolds
<1>3. Visit.name \in Names /\ Visit.bases \in SUBSET Names
  BY <1>2, VisitCarries
<1>4. entity \in Entity /\ entity.name = Visit.name /\ entity.kind = "class"
  <2>1. entity \in Entity
    BY <1>2, <1>3, ParentNameIs, PlainIs DEF Kinds
  <2> QED BY <2>1 DEF Plain
<1>5. Opens(Text, at) /\ at \in Written(Text)
  BY <1>2 DEF Opens, Written
<1>6. EntityOf(Text, at, entity)
  BY <1>2, <1>4 DEF EntityOf
<1> HIDE DEF entity
<1>7. scope \in Scope /\ scope.calls = {} /\ scope.references = {}
  <2>1. entity.name \in Names /\ Len(own) + 1 \in Nat \ {0}
    BY <1>2, <1>3, <1>4
  <2> QED BY <2>1 DEF Scope
<1>8. ScopeOf(Text, at, scope)
  BY <1>2, <1>4, <1>5 DEF ScopeOf
<1>9. /\ own' = Append(own, entity) /\ scopes' = Append(scopes, scope) /\ at' = at + 1
      /\ UNCHANGED <<source, file>>
  BY <1>1 DEF Enter
<1> HIDE DEF scope
<1>10. IsRead(Text, at + 1, own', scopes')
  BY <1>2, <1>4, <1>5, <1>6, <1>7, <1>8, <1>9, ReadEnter
<1> QED BY <1>9, <1>10, ReadWithin

LEMMA EnterFunctionReads ==
  ASSUME ReadInv, EnterFunction
  PROVE  ReadSoFar'
<1> DEFINE kind == IF InClass THEN "method" ELSE "function"
           entity == [Plain(kind, Visit.name) EXCEPT
                        !.parent = ParentName, !.decorators = Visit.decorators, !.suspends = Visit.suspends]
           scope == [kind |-> "function", name |-> entity.name, target |-> Len(own) + 1, calls |-> {}, references |-> {}]
<1>1. Reading("def") /\ Enter(entity, "function")
  BY DEF EnterFunction
<1>2. /\ ParserInv /\ Path \in Files /\ IsSyntax(Text) /\ at \in DOMAIN Text /\ Text[at] = Visit
      /\ Visit \in VisitForm /\ Visit.do = "def" /\ IsRead(Text, at, own, scopes)
      /\ own \in Seq(Entity) /\ scopes \in Seq(Scope)
      /\ EntityAt(Text, at) = Len(own) + IF at \in Written(Text) THEN 1 ELSE 0
  BY <1>1, ReadingHolds
<1>3. Visit.name \in Names /\ Visit.decorators \in SUBSET Names /\ Visit.suspends \in BOOLEAN
  BY <1>2, VisitCarries
<1>4. entity \in Entity /\ entity.name = Visit.name /\ entity.kind = kind /\ entity.parent = ParentName
  <2>1. kind \in Kinds /\ ParentName \in Names \cup {NoName}
    BY <1>2, ParentNameIs DEF Kinds
  <2> HIDE DEF kind
  <2>2. entity \in Entity
    BY <1>2, <1>3, <2>1, PlainIs
  <2> QED BY <2>1, <2>2 DEF Plain
<1>5. Opens(Text, at) /\ at \in Written(Text)
  BY <1>2 DEF Opens, Written
<1>6. EntityOf(Text, at, entity)
  <2>1. /\ InClass <=> InClassAt(Text, at)
        /\ InClass => \E i \in Around(Text, at) : IsInnermost(i, Around(Text, at)) /\ ParentName = Text[i].name
    BY <1>1, ParentIs
  <2> HIDE DEF entity
  <2>2. entity.kind = "method" <=> InClass
    BY <1>4
  <2> QED BY <1>2, <1>4, <2>1, <2>2 DEF EntityOf
<1> HIDE DEF entity
<1>7. scope \in Scope /\ scope.calls = {} /\ scope.references = {}
  <2>1. entity.name \in Names /\ Len(own) + 1 \in Nat \ {0}
    BY <1>2, <1>3, <1>4
  <2> QED BY <2>1 DEF Scope
<1>8. ScopeOf(Text, at, scope)
  BY <1>2, <1>4, <1>5 DEF ScopeOf
<1>9. /\ own' = Append(own, entity) /\ scopes' = Append(scopes, scope) /\ at' = at + 1
      /\ UNCHANGED <<source, file>>
  BY <1>1 DEF Enter
<1> HIDE DEF scope
<1>10. IsRead(Text, at + 1, own', scopes')
  BY <1>2, <1>4, <1>5, <1>6, <1>7, <1>8, <1>9, ReadEnter
<1> QED BY <1>9, <1>10, ReadWithin

LEMMA LeaveReads ==
  ASSUME ReadInv, Leave
  PROVE  ReadSoFar'
<1> DEFINE scope == scopes[Len(scopes)]
           j == scope.target
           left == [own[j] EXCEPT !.calls = scope.calls, !.references = scope.references]
<1>1. /\ Reading("end") /\ at' = at + 1 /\ UNCHANGED <<source, file>>
      /\ scopes' = SubSeq(scopes, 1, Len(scopes) - 1)
      /\ own' = [own EXCEPT ![j].calls = scope.calls, ![j].references = scope.references]
  BY DEF Leave, Last, Front
<1>2. /\ ParserInv /\ IsSyntax(Text) /\ at \in DOMAIN Text /\ Text[at] = Visit /\ Visit.do = "end"
      /\ IsRead(Text, at, own, scopes) /\ own \in Seq(Entity) /\ scopes \in Seq(Scope)
  BY <1>1, ReadingHolds
<1>3. Len(scopes) - 1 >= 0 /\ Len(scopes) \in Nat
  BY <1>1, <1>2, ReadingIs
<1>4. Len(scopes) \in 1 .. Len(scopes) /\ Len(scopes) \in DOMAIN scopes
  BY <1>2, <1>3
<1>5. scope \in Scope /\ j \in DOMAIN own /\ own[j] \in Entity
  BY <1>2, <1>4 DEF ParserInv
<1>6. /\ left \in Entity /\ left.name = own[j].name /\ left.kind = own[j].kind /\ left.parent = own[j].parent
      /\ left.calls = scope.calls /\ left.references = scope.references
  BY <1>5 DEF Entity, Scope
<1>7. own' = [own EXCEPT ![j] = left]
  BY <1>1, <1>5
<1> HIDE DEF left
<1>8. own' \in Seq(Entity) /\ Len(own') = Len(own)
      /\ \A i \in 1 .. Len(own) : own'[i] = IF i = j THEN left ELSE own[i]
  <2> HIDE DEF j
  <2> QED BY <1>2, <1>5, <1>6, <1>7
<1>9. Len(scopes') = Len(scopes) - 1 /\ \A i \in 1 .. Len(scopes) - 1 : scopes'[i] = scopes[i]
  BY <1>1, <1>2, <1>3, FrontIs
<1>10. \A i \in 1 .. Len(own) : /\ own'[i].name = own[i].name /\ own'[i].kind = own[i].kind
                                /\ own'[i].parent = own[i].parent
                                /\ IF i = scopes[Len(scopes)].target
                                   THEN /\ own'[i].calls = scopes[Len(scopes)].calls
                                        /\ own'[i].references = scopes[Len(scopes)].references
                                   ELSE own'[i] = own[i]
  BY <1>6, <1>8
<1>11. IsRead(Text, at + 1, own', scopes')
  BY <1>2, <1>8, <1>9, <1>10, ReadLeave
<1> QED BY <1>1, <1>11, ReadWithin

\* The innermost scope is that of the innermost definition around.
LEMMA NameInIs ==
  ASSUME ReadInv, NEW what \in {"class", "def", "end", "call", "name", "import"}, Reading(what)
  PROVE  \A j \in Around(Text, at) : /\ Depth(Text, j) \in 1 .. Len(scopes)
                                     /\ NameIn(Text, j, at) <=> Depth(Text, j) = Len(scopes)
                                     /\ CallIn(Text, j, at) <=> Depth(Text, j) = CurrentCallable(scopes)
<1>1. /\ IsSyntax(Text) /\ at \in 1 .. Len(Text) + 1 /\ scopes \in Seq(Scope)
      /\ Len(scopes) = Depth(Text, at - 1)
      /\ \A j \in Around(Text, at) : ScopeOf(Text, j, scopes[Depth(Text, j)])
  BY ReadingHolds
<1>2. \A j : NameIn(Text, j, at) <=> j \in Around(Text, at) /\ Depth(Text, j) = Len(scopes)
  BY <1>1, InnermostIs DEF NameIn
<1>3. \A j : CallIn(Text, j, at) <=> j \in Around(Text, at) /\ CurrentCallable(scopes) = Depth(Text, j)
  BY <1>1, CurrentCallableIs
<1>4. \A j \in Around(Text, at) : Depth(Text, j) \in 1 .. Len(scopes)
  BY <1>1, AroundIs
<1> QED BY <1>2, <1>3, <1>4

LEMMA VisitCallReads ==
  ASSUME ReadInv, VisitCall
  PROVE  ReadSoFar'
<1> DEFINE recorded == RecordCallTarget(scopes, Visit.name)
<1>1. /\ Reading("call") /\ at' = at + 1 /\ UNCHANGED <<source, file>> /\ own' = own
      /\ scopes' = AddReference(recorded, Visit.name)
  BY DEF VisitCall
<1>2. /\ ParserInv /\ IsSyntax(Text) /\ at \in DOMAIN Text /\ Text[at] = Visit /\ Visit.do = "call"
      /\ Visit \in VisitForm /\ IsRead(Text, at, own, scopes) /\ own \in Seq(Entity) /\ scopes \in Seq(Scope)
      /\ EntityAt(Text, at) = Len(own) + IF at \in Written(Text) THEN 1 ELSE 0
  BY <1>1, ReadingHolds
<1>3. Visit.name \in Names /\ NoName \notin Names
  BY <1>2, VisitCarries, ParserAssumption
<1>4. SameScopes(scopes, recorded)
  BY <1>2, <1>3, RecordCallTargetIs
<1>5. recorded \in Seq(Scope) /\ Len(recorded) = Len(scopes)
  BY <1>4 DEF SameScopes
<1>6. SameScopes(scopes, scopes')
  <2>1. SameScopes(recorded, scopes')
    BY <1>1, <1>3, <1>5, AddReferenceIs
  <2> QED BY <1>4, <2>1, SameTwice
<1>7. ASSUME NEW j \in Around(Text, at), NEW n
      PROVE  /\ n \in scopes'[Depth(Text, j)].calls <=>
                  \/ n \in scopes[Depth(Text, j)].calls
                  \/ Text[at].do = "call" /\ Text[at].name = n /\ CallIn(Text, j, at)
             /\ n \in scopes'[Depth(Text, j)].references <=>
                  n \in scopes[Depth(Text, j)].references \/ (n \in UsedAt(Text, at) /\ NameIn(Text, j, at))
  <2>1. /\ Depth(Text, j) \in 1 .. Len(scopes)
        /\ NameIn(Text, j, at) <=> Depth(Text, j) = Len(scopes)
        /\ CallIn(Text, j, at) <=> Depth(Text, j) = CurrentCallable(scopes)
    BY <1>1, NameInIs
  <2>2. PICK i \in 1 .. Len(scopes) : i = Depth(Text, j)
    BY <2>1
  <2>3. /\ recorded[i].references = scopes[i].references
        /\ n \in recorded[i].calls <=> n \in scopes[i].calls \/ (i = CurrentCallable(scopes) /\ n = Visit.name)
    BY <1>2, <1>3, CallRecorded
  <2>4. i \in 1 .. Len(recorded)
    BY <1>5
  <2>5. /\ scopes'[i].calls = recorded[i].calls
        /\ n \in scopes'[i].references <=>
             n \in recorded[i].references \/ (i = Len(recorded) /\ n \in {Visit.name} \ {NoName})
    <3> HIDE DEF recorded
    <3> QED BY <1>1, <1>3, <1>5, <2>4, ReferenceAdded
  <2>6. UsedAt(Text, at) = {Visit.name}
    BY <1>2 DEF UsedAt
  <2>7. n \in scopes'[i].calls <=> n \in scopes[i].calls \/ (Text[at].do = "call" /\ Text[at].name = n /\ CallIn(Text, j, at))
    BY <1>2, <2>1, <2>2, <2>3, <2>5
  <2>8. n \in scopes'[i].references <=> n \in scopes[i].references \/ (n \in UsedAt(Text, at) /\ NameIn(Text, j, at))
    BY <1>3, <1>5, <2>1, <2>2, <2>3, <2>5, <2>6
  <2> QED BY <2>2, <2>7, <2>8
<1>8. at \notin Written(Text)
  BY <1>2 DEF Written, Opens
<1>9. Len(own') = EntityAt(Text, at) /\ own' \in Seq(Entity)
  BY <1>1, <1>2, <1>8
<1>10. IsRead(Text, at + 1, own', scopes')
  BY <1>1, <1>2, <1>6, <1>7, <1>8, <1>9, ReadCollecting
<1> QED BY <1>1, <1>10, ReadWithin

\* Names and imports only note a reference.
LEMMA ReferenceNoted ==
  ASSUME ReadInv, NEW what \in {"name", "import"}, Reading(what), NEW name \in Names \cup {NoName},
         UsedAt(Text, at) = {name} \ {NoName}, scopes' = AddReference(scopes, name)
  PROVE  /\ SameScopes(scopes, scopes')
         /\ \A j \in Around(Text, at) : \A n :
              /\ n \in scopes'[Depth(Text, j)].calls <=>
                   \/ n \in scopes[Depth(Text, j)].calls
                   \/ Text[at].do = "call" /\ Text[at].name = n /\ CallIn(Text, j, at)
              /\ n \in scopes'[Depth(Text, j)].references <=>
                   n \in scopes[Depth(Text, j)].references \/ (n \in UsedAt(Text, at) /\ NameIn(Text, j, at))
<1>1. /\ Text[at] = Visit /\ Visit.do = what /\ scopes \in Seq(Scope)
      /\ \A j \in Around(Text, at) : /\ Depth(Text, j) \in 1 .. Len(scopes)
                                     /\ NameIn(Text, j, at) <=> Depth(Text, j) = Len(scopes)
  BY ReadingHolds, NameInIs
<1>2. SameScopes(scopes, scopes')
  BY <1>1, AddReferenceIs
<1>3. ASSUME NEW j \in Around(Text, at), NEW n
      PROVE  /\ n \in scopes'[Depth(Text, j)].calls <=>
                  \/ n \in scopes[Depth(Text, j)].calls
                  \/ Text[at].do = "call" /\ Text[at].name = n /\ CallIn(Text, j, at)
             /\ n \in scopes'[Depth(Text, j)].references <=>
                  n \in scopes[Depth(Text, j)].references \/ (n \in UsedAt(Text, at) /\ NameIn(Text, j, at))
  <2>1. PICK i \in 1 .. Len(scopes) : i = Depth(Text, j)
    BY <1>1
  <2>2. /\ scopes'[i].calls = scopes[i].calls
        /\ n \in scopes'[i].references <=> n \in scopes[i].references \/ (i = Len(scopes) /\ n \in {name} \ {NoName})
    BY <1>1, ReferenceAdded
  <2>3. Text[at].do # "call"
    BY <1>1
  <2> QED BY <1>1, <2>1, <2>2, <2>3
<1> QED BY <1>2, <1>3

LEMMA VisitNameReads ==
  ASSUME ReadInv, VisitName
  PROVE  ReadSoFar'
<1>1. /\ Reading("name") /\ at' = at + 1 /\ UNCHANGED <<source, file>> /\ own' = own
      /\ scopes' = AddReference(scopes, Visit.name)
  BY DEF VisitName
<1>2. /\ IsSyntax(Text) /\ at \in DOMAIN Text /\ Text[at] = Visit /\ Visit.do = "name"
      /\ Visit \in VisitForm /\ IsRead(Text, at, own, scopes) /\ own \in Seq(Entity)
      /\ EntityAt(Text, at) = Len(own) + IF at \in Written(Text) THEN 1 ELSE 0
  BY <1>1, ReadingHolds
<1>3. Visit.name \in Names /\ NoName \notin Names
  BY <1>2, VisitCarries, ParserAssumption
<1>4. UsedAt(Text, at) = {Visit.name} \ {NoName}
  BY <1>2, <1>3 DEF UsedAt
<1>5. /\ SameScopes(scopes, scopes')
      /\ \A j \in Around(Text, at) : \A n :
           /\ n \in scopes'[Depth(Text, j)].calls <=>
                \/ n \in scopes[Depth(Text, j)].calls
                \/ Text[at].do = "call" /\ Text[at].name = n /\ CallIn(Text, j, at)
           /\ n \in scopes'[Depth(Text, j)].references <=>
                n \in scopes[Depth(Text, j)].references \/ (n \in UsedAt(Text, at) /\ NameIn(Text, j, at))
  BY <1>1, <1>3, <1>4, ReferenceNoted
<1>6. at \notin Written(Text)
  BY <1>2 DEF Written, Opens
<1>7. Len(own') = EntityAt(Text, at) /\ own' \in Seq(Entity)
  BY <1>1, <1>2, <1>6
<1>8. IsRead(Text, at + 1, own', scopes')
  BY <1>1, <1>2, <1>5, <1>6, <1>7, ReadCollecting
<1> QED BY <1>1, <1>8, ReadWithin

LEMMA VisitImportReads ==
  ASSUME ReadInv, VisitImport
  PROVE  ReadSoFar'
<1> DEFINE entity == [Plain("import", Visit.name) EXCEPT !.imports = {Visit.imported}]
<1>1. /\ Reading("import") /\ at' = at + 1 /\ UNCHANGED <<source, file>> /\ own' = Append(own, entity)
      /\ scopes' = AddReference(scopes, Visit.head)
  BY DEF VisitImport
<1>2. /\ Path \in Files /\ IsSyntax(Text) /\ at \in DOMAIN Text /\ Text[at] = Visit /\ Visit.do = "import"
      /\ Visit \in VisitForm /\ IsRead(Text, at, own, scopes) /\ own \in Seq(Entity)
      /\ EntityAt(Text, at) = Len(own) + IF at \in Written(Text) THEN 1 ELSE 0
  BY <1>1, ReadingHolds
<1>3. Visit.name \in Names /\ {Visit.imported} \in SUBSET Names /\ Visit.head \in Names \cup {NoName}
  BY <1>2, VisitCarries
<1>4. UsedAt(Text, at) = {Visit.head} \ {NoName}
  BY <1>2 DEF UsedAt
<1>5. /\ SameScopes(scopes, scopes')
      /\ \A j \in Around(Text, at) : \A n :
           /\ n \in scopes'[Depth(Text, j)].calls <=>
                \/ n \in scopes[Depth(Text, j)].calls
                \/ Text[at].do = "call" /\ Text[at].name = n /\ CallIn(Text, j, at)
           /\ n \in scopes'[Depth(Text, j)].references <=>
                n \in scopes[Depth(Text, j)].references \/ (n \in UsedAt(Text, at) /\ NameIn(Text, j, at))
  BY <1>1, <1>3, <1>4, ReferenceNoted
<1>6. at \in Written(Text)
  BY <1>2 DEF Written
<1>7. /\ entity \in Entity /\ entity.name = Visit.name /\ entity.kind = "import"
      /\ entity.calls = {} /\ entity.references = {}
  <2>1. entity \in Entity
    BY <1>2, <1>3, PlainIs DEF Kinds
  <2> QED BY <2>1 DEF Plain
<1> HIDE DEF entity
<1>8. /\ own' \in Seq(Entity) /\ Len(own') = EntityAt(Text, at) /\ own'[EntityAt(Text, at)] = entity
      /\ \A i \in DOMAIN own : own'[i] = own[i]
  BY <1>1, <1>2, <1>6, <1>7
<1>9. EntityOf(Text, at, entity)
  BY <1>2, <1>7 DEF EntityOf
<1>10. IsRead(Text, at + 1, own', scopes')
  BY <1>2, <1>5, <1>7, <1>8, <1>9, ReadCollecting
<1> QED BY <1>1, <1>10, ReadWithin

\* A file begins with nothing read.
LEMMA NothingRead ==
  ASSUME NEW t, IsSyntax(t)
  PROVE  IsRead(t, 1, <<>>, <<>>)
<1>1. 1 \in 1 .. Len(t) + 1 /\ 1 - 1 = 0 /\ DOMAIN t = 1 .. Len(t) /\ Len(t) \in Nat
  BY DEF IsSyntax
<1>2. Around(t, 1) = {}
  BY DEF Around
<1>3. \A j \in Written(t) : ~(j < 1)
  BY <1>1 DEF Written
<1>4. EntityAt(t, 0) = 0 /\ Depth(t, 0) = 0
  BY EntityAtIs, NoDepth
<1> QED BY <1>1, <1>2, <1>3, <1>4 DEF IsRead

LEMMA FirstFileBegins ==
  ASSUME ParserInv, at = 1, own = <<>>, scopes = <<>>
  PROVE  ReadSoFar
<1> SUFFICES ASSUME Parsing, Path \notin source.broken PROVE IsRead(Text, at, own, scopes)
  BY DEF ReadSoFar
<1>1. Path \in Files
  BY ParserAssumption DEF ParserInv, Parsing, Path
<1>2. IsSyntax(Text)
  BY <1>1, ParserAssumption DEF ParserInv, Text
<1> QED BY <1>2, NothingRead

LEMMA NextFileBegins ==
  ASSUME ParserInv', NextFile
  PROVE  ReadSoFar'
<1> SUFFICES ASSUME Parsing', Path' \notin source'.broken PROVE IsRead(Text', at', own', scopes')
  BY DEF ReadSoFar
<1>1. at' = 1 /\ own' = <<>> /\ scopes' = <<>>
  BY DEF NextFile
<1>2. Path' \in Files
  BY ParserAssumption DEF ParserInv, Parsing, Path
<1>3. IsSyntax(Text')
  BY <1>2, ParserAssumption DEF ParserInv, Text
<1> QED BY <1>1, <1>3, NothingRead

LEMMA ReadKept ==
  ASSUME ReadInv, ParserNext
  PROVE  ReadSoFar'
<1>1. ParserInv'
  BY ParserKeeps DEF ReadInv
<1>2. NextFile => ReadSoFar'
  BY <1>1, NextFileBegins
<1>3. FinishFile \/ RecordError => NextFile
  BY DEF FinishFile, RecordError
<1> QED BY <1>1, <1>2, <1>3, EnterClassReads, EnterFunctionReads, LeaveReads, VisitCallReads,
           VisitNameReads, VisitImportReads DEF ParserNext

-------------------------------------------------------------------------------
(* The pipeline *)

\* build_all() makes the layers of a graph, and every one of them has the ends of its edges.
LEMMA BuildAllHasEnds ==
  ASSUME NEW s \in Seq(Entity), NEW pick \in AuthPicks
  PROVE  /\ DOMAIN BuildAll(s, pick) = Layers /\ BuildAll(s, pick) # <<>>
         /\ \A l \in Layers : HasEnds(BuildAll(s, pick)[l])
<1>1. Layers = {"call", "data_flow", "control_flow", "dependency", "state_transition", "resource",
                "security", "deployment"}
  BY LayersAssumption DEF LayerOrder, Range
<1>2. DOMAIN BuildAll(s, pick) = Layers
  BY <1>1 DEF BuildAll
<1>3. \A l \in Layers : HasEnds(BuildAll(s, pick)[l])
  BY <1>1, CallGraphHasEnds, DataFlowHasEnds, ControlFlowHasEnds, DependencyGraphHasEnds,
     StateTransitionHasEnds, ResourceGraphHasEnds, SecurityGraphHasEnds, DeploymentGraphHasEnds DEF BuildAll
<1>4. BuildAll(s, pick) # <<>>
  <2>1. DOMAIN BuildAll(s, pick) # {}
    BY <1>1, <1>2
  <2> QED BY <2>1
<1> QED BY <1>2, <1>3, <1>4

\* The parser is done before there is a graph.
LEMMA ParseIsParsing ==
  ASSUME Parse
  PROVE  Parsing
BY DEF Parse, ParserNext, EnterClass, EnterFunction, Leave, VisitCall, VisitName, VisitImport,
       FinishFile, RecordError, Reading

LEMMA InvHolds ==
  ASSUME Init
  PROVE  IInv
BY ParserBegins DEF Init, IInv, PipelineInv

LEMMA InvKept ==
  ASSUME IInv, [Next]_vars
  PROVE  IInv'
<1> USE DEF IInv
<1>1. CASE Parse
  <2>1. Parsing /\ ParserNext /\ UNCHANGED <<graph, reports, dead, code>>
    BY <1>1, ParseIsParsing DEF Parse, graphVars
  <2>2. graph = <<>> /\ reports = <<>> /\ dead = <<>> /\ code = <<>>
    BY <2>1 DEF PipelineInv
  <2>3. PipelineInv'
    BY <2>1, <2>2 DEF PipelineInv
  <2> QED BY <2>1, <2>3, ParserKeeps
<1>2. ASSUME UNCHANGED parserVars PROVE ParserInv' /\ Parsing' = Parsing
  BY <1>2 DEF parserVars, ParserInv, Parsing, Path, Text
<1>3. CASE BuildSoftwareGraph
  <2>1. /\ ~Parsing /\ graph = <<>> /\ \E pick \in AuthPicks : graph' = BuildAll(entities, pick)
        /\ UNCHANGED parserVars /\ UNCHANGED <<reports, dead, code>>
    BY <1>3 DEF BuildSoftwareGraph
  <2>2. reports = <<>> /\ dead = <<>> /\ code = <<>> /\ entities' = entities
    BY <2>1 DEF PipelineInv, parserVars
  <2> QED BY <1>2, <2>1, <2>2 DEF PipelineInv
<1>4. CASE RunAgents
  <2>1. /\ graph # <<>> /\ reports = <<>> /\ UNCHANGED parserVars /\ UNCHANGED <<graph, dead, code>>
        /\ \E entries \in FlowEntryPoints(graph["call"]), flows \in UpTo(SensitiveFlows(graph), MaxSensitiveFlows) : reports' = ReportsOf(graph, entries, flows)
    BY <1>4 DEF RunAgents, ReportsOf
  <2>2. dead = <<>> /\ code = <<>> /\ entities' = entities
    BY <2>1 DEF PipelineInv, parserVars
  <2> QED BY <1>2, <2>1, <2>2 DEF PipelineInv
<1>5. CASE GenerateCode
  <2>1. /\ reports # <<>> /\ code = <<>> /\ UNCHANGED parserVars /\ UNCHANGED <<graph, reports, dead>>
        /\ code' = Generate(graph)
    BY <1>5 DEF GenerateCode
  <2>2. dead = <<>> /\ entities' = entities
    BY <2>1 DEF PipelineInv, parserVars
  <2> QED BY <1>2, <2>1, <2>2 DEF PipelineInv
<1>6. CASE ScanDeadCode
  <2>1. code # <<>> /\ UNCHANGED parserVars /\ UNCHANGED <<graph, reports, code>> /\ Scanned(graph, dead')
    BY <1>6 DEF ScanDeadCode, Scanned, FromEntries
  <2>2. entities' = entities
    BY <2>1 DEF parserVars
  <2> QED BY <1>2, <2>1, <2>2 DEF PipelineInv
<1>7. CASE UNCHANGED vars
  <2>1. UNCHANGED parserVars /\ UNCHANGED <<graph, reports, dead, code>> /\ entities' = entities
    BY <1>7 DEF vars, graphVars, parserVars
  <2> QED BY <1>2, <2>1 DEF PipelineInv
<1> QED BY <1>1, <1>3, <1>4, <1>5, <1>6, <1>7 DEF Next

\* The invariant of the visitor and the pipeline.
THEOREM Safety == Spec => []IInv
<1>1. Init => IInv
  BY InvHolds
<1>2. IInv /\ [Next]_vars => IInv'
  BY InvKept
<1> QED BY <1>1, <1>2, PTL DEF Spec

\* Every scope names the entity it collects for, and the layers of a graph are the eight.
THEOREM TypeCorrect == Spec => []TypeOK
<1>1. IInv => TypeOK
  <2> SUFFICES ASSUME IInv PROVE TypeOK
    OBVIOUS
  <2>1. ParserInv /\ PipelineInv
    BY DEF IInv
  <2>2. file \in 1 .. Len(Walk) + 1 /\ errors \subseteq source.broken
    BY <2>1 DEF ParserInv
  <2>3. \A e \in Range(own) \cup Range(entities) : e \in Entity
    <3>1. own \in Seq(Entity) /\ entities \in Seq(Entity)
      BY <2>1 DEF ParserInv
    <3> QED BY <3>1 DEF Range
  <2>4. \A s \in Range(scopes) : s \in Scope /\ own[s.target].name = s.name
    BY <2>1 DEF ParserInv, Range
  <2>5. graph # <<>> => DOMAIN graph = Layers
    BY <2>1, BuildAllHasEnds DEF PipelineInv, ParserInv
  <2> QED BY <2>2, <2>3, <2>4, <2>5 DEF TypeOK
<1> QED BY <1>1, Safety, PTL

\* Whatever is written in a file that parses, each of its entities is the definition or import at
\* its place: the calls and names in it, and in nothing nearer, are its calls and references.
THEOREM Entities == Spec => []EntitiesAsWritten
<1>1. Init => ReadInv
  <2> SUFFICES ASSUME Init PROVE ReadInv
    OBVIOUS
  <2>1. ParserInv
    BY ParserBegins DEF Init
  <2>2. at = 1 /\ own = <<>> /\ scopes = <<>>
    BY DEF Init, ParserInit
  <2> QED BY <2>1, <2>2, FirstFileBegins DEF ReadInv
<1>2. ReadInv /\ [Next]_vars => ReadInv'
  <2> SUFFICES ASSUME ReadInv, [Next]_vars PROVE ReadInv'
    OBVIOUS
  <2>1. CASE ParserNext
    BY <2>1, ReadKept, ParserKeeps DEF ReadInv
  <2>2. CASE UNCHANGED parserVars
    BY <2>2 DEF parserVars, ReadInv, ReadSoFar, ParserInv, Parsing, Path, Text
  <2>3. ParserNext \/ UNCHANGED parserVars
    BY DEF Next, Parse, BuildSoftwareGraph, RunAgents, ScanDeadCode, GenerateCode, vars
  <2> QED BY <2>1, <2>2, <2>3
<1>3. ReadInv => EntitiesAsWritten
  <2> SUFFICES ASSUME ReadInv, Parsing, Path \notin source.broken, at = Len(Text) + 1, NEW j \in Written(Text)
               PROVE  LET e == own[EntityAt(Text, j)]
                          In(k) == IsInnermost(j, Around(Text, k))
                          CalledIn(k) == IsInnermost(j, Functions(Text, Around(Text, k)))
                          Used(k) == IF Text[k].do = "import" THEN {Text[k].head} \ {NoName} ELSE {Text[k].name}
                      IN  /\ e.name = Text[j].name
                          /\ e.calls = {Text[k].name : k \in {m \in DOMAIN Text : Text[m].do = "call" /\ CalledIn(m)}}
                          /\ e.references = UNION {Used(k) : k \in {m \in DOMAIN Text : Text[m].do \in {"call", "name", "import"} /\ In(m)}}
                          /\ e.kind = "method" <=> /\ Text[j].do = "def"
                                                   /\ \E i \in Around(Text, j) : IsInnermost(i, Around(Text, j)) /\ Text[i].do = "class"
                          /\ e.kind = "method" => \E i \in Around(Text, j) : IsInnermost(i, Around(Text, j)) /\ e.parent = Text[i].name
    BY DEF EntitiesAsWritten
  <2> DEFINE e == own[EntityAt(Text, j)]
             In(k) == IsInnermost(j, Around(Text, k))
             CalledIn(k) == IsInnermost(j, Functions(Text, Around(Text, k)))
             Used(k) == IF Text[k].do = "import" THEN {Text[k].head} \ {NoName} ELSE {Text[k].name}
  <2>1. Path \in Files
    BY ParserAssumption DEF ReadInv, ParserInv, Parsing, Path
  <2>2. IsSyntax(Text)
    BY <2>1, ParserAssumption DEF ReadInv, ParserInv, Text
  <2>3. /\ Len(Text) \in Nat /\ DOMAIN Text = 1 .. Len(Text) /\ at - 1 = Len(Text) /\ at \in 1 .. Len(Text) + 1
        /\ Depth(Text, at - 1) = 0 /\ j < at
    BY <2>2 DEF IsSyntax, Written
  <2>4. \A i \in Around(Text, at) : Depth(Text, i) \in 1 .. Depth(Text, at - 1)
    BY <2>2, <2>3, AroundIs
  <2>5. j \notin Around(Text, at)
    BY <2>3, <2>4
  <2>6. IsRead(Text, at, own, scopes)
    BY DEF ReadInv, ReadSoFar
  <2>7. EntityOf(Text, j, e) /\ Collected(Text, at, j, e)
    BY <2>3, <2>5, <2>6 DEF IsRead
  <2> HIDE DEF e
  <2>8. e.calls = {Text[k].name : k \in {m \in DOMAIN Text : Text[m].do = "call" /\ CalledIn(m)}}
    <3>1. \A n : n \in e.calls <=> \E m \in DOMAIN Text : Text[m].do = "call" /\ Text[m].name = n /\ CalledIn(m)
      BY <2>3, <2>7 DEF Collected, CallIn
    <3> HIDE DEF CalledIn
    <3> QED BY <3>1
  <2>9. e.references = UNION {Used(k) : k \in {m \in DOMAIN Text : Text[m].do \in {"call", "name", "import"} /\ In(m)}}
    <3>1. \A n : n \in e.references <=> \E m \in DOMAIN Text : /\ Text[m].do \in {"call", "name", "import"}
                                                               /\ n \in Used(m) /\ In(m)
      BY <2>3, <2>7 DEF Collected, NameIn, UsedAt
    <3> HIDE DEF Used, In
    <3> QED BY <3>1
  <2>10. /\ e.name = Text[j].name
         /\ e.kind = "method" <=> /\ Text[j].do = "def"
                                  /\ \E i \in Around(Text, j) : IsInnermost(i, Around(Text, j)) /\ Text[i].do = "class"
         /\ e.kind = "method" => \E i \in Around(Text, j) : IsInnermost(i, Around(Text, j)) /\ e.parent = Text[i].name
    BY <2>7 DEF EntityOf, InClassAt
  <2> QED BY <2>8, <2>9, <2>10 DEF e
<1> QED BY <1>1, <1>2, <1>3, PTL DEF Spec

\* The layer builders never leave an edge with an end that is no node of its layer.
THEOREM NoDanglingEdges == Spec => []EdgesHaveEnds
<1>1. IInv => EdgesHaveEnds
  <2> SUFFICES ASSUME IInv, graph # <<>>, NEW l \in Layers, NEW e \in graph[l].edges
               PROVE  {e[1], e[2]} \subseteq DOMAIN graph[l].nodes
    BY DEF EdgesHaveEnds
  <2>1. PICK pick \in AuthPicks : graph = BuildAll(entities, pick) /\ entities \in Seq(Entity)
    BY DEF IInv, PipelineInv, ParserInv
  <2>2. HasEnds(graph[l])
    BY <2>1, BuildAllHasEnds
  <2> QED BY <2>2 DEF HasEnds
<1> QED BY <1>1, Safety, PTL

-------------------------------------------------------------------------------
(* The merged graph and what is reachable in it *)

\* What the names of an entity are.
LEMMA EntityIs ==
  ASSUME NEW s \in Seq(Entity), NEW e \in Range(s)
  PROVE  /\ e.kind \in Kinds /\ e.name \in Names /\ e.file \in Files
         /\ e.imports \subseteq Names /\ e.calls \subseteq Names /\ e.references \subseteq Names
         /\ e.decorators \subseteq Names
<1>1. e \in Entity
  BY DEF Range
<1> QED BY <1>1 DEF Entity

LEMMA CodeIdsAreIds ==
  ASSUME NEW s \in Seq(Entity), NEW kinds
  PROVE  CodeIds(s, kinds) \subseteq Ids
<1>1. \A e \in OfKinds(s, kinds) : e.name \in Names /\ e.file \in Files
  BY EntityIs DEF OfKinds
<1>2. \A path \in Files, name \in Names : <<path, name>> \in Ids
  BY CodeGraphAssumption
<1> QED BY <1>1, <1>2 DEF CodeIds, CodeId

LEMMA MadeUpIdsAreIds ==
  /\ \A n \in Names : {<<"module", n>>, <<"resource", n>>, <<"sensitive", n>>, <<"config", n>>} \subseteq Ids
  /\ \A path \in Files : <<"module", path>> \in Ids
  /\ \A p \in UNION Range(AuthPattern) : <<"security", p>> \in Ids
  /\ \A b \in BuildSystems : <<"build", b>> \in Ids
  /\ <<"repo", Repo>> \in Ids /\ <<"deploy", Repo>> \in Ids
BY CodeGraphAssumption DEF MadeUpPrefixes

LEMMA DependencyIdsAreIds ==
  ASSUME NEW s \in Seq(Entity)
  PROVE  DOMAIN DependencyGraph(s).nodes \subseteq Ids
<1> DEFINE imports == OfKinds(s, {"import"})
           files == {<<"module", e.file>> : e \in imports}
           imported == {<<"module", n>> : n \in UNION {e.imports : e \in imports}}
<1>1. DOMAIN DependencyGraph(s).nodes = files \cup imported \cup {<<"repo", Repo>>}
  BY DEF DependencyGraph
<1>2. \A e \in imports : e.file \in Files /\ e.imports \subseteq Names
  BY EntityIs DEF OfKinds
<1>3. files \subseteq Ids /\ imported \subseteq Ids
  <2> HIDE DEF imports
  <2> QED BY <1>2, MadeUpIdsAreIds
<1> QED BY <1>1, <1>3, MadeUpIdsAreIds

LEMMA StateTransitionIdsAreIds ==
  ASSUME NEW s \in Seq(Entity)
  PROVE  DOMAIN StateTransition(s).nodes \subseteq Ids
<1> DEFINE classes == CodeIds(s, {"class"})
           cycle == {i \in ClassMethods(s) : IsLifecycle(s[i])}
           events == {i \in ClassMethods(s) : IsEvent(s[i])}
           Id(i) == CodeId(s[i])
<1>1. DOMAIN StateTransition(s).nodes = classes \cup {Id(i) : i \in cycle \cup events}
  BY DEF StateTransition
<1>2. \A i \in cycle \cup events : Id(i) \in CodeIds(s, {"method"})
  <2>1. \A i \in ClassMethods(s) : s[i] \in OfKinds(s, {"method"})
    BY InRange DEF ClassMethods, OfKinds
  <2> QED BY <2>1 DEF CodeIds
<1> QED BY <1>1, <1>2, CodeIdsAreIds

LEMMA ResourceIdsAreIds ==
  ASSUME NEW s \in Seq(Entity)
  PROVE  DOMAIN ResourceGraph(s).nodes \subseteq Ids
<1> DEFINE nodes == CodeNodes(s, Runnable, NoBoundary(s), [e \in Range(s) |-> IoOperations(e)])
           used == UNION {nodes[id].effects : id \in DOMAIN nodes}
           resources == {<<"resource", n>> : n \in used}
<1>1. DOMAIN ResourceGraph(s).nodes = DOMAIN nodes \cup resources
  BY DEF ResourceGraph, Extended
<1>2. DOMAIN nodes = CodeIds(s, Runnable)
  BY CodeNodesAre
<1>3. ASSUME NEW id \in CodeIds(s, Runnable) PROVE nodes[id].effects \subseteq Names
  <2> DEFINE e == FirstEntity(s, Runnable, id)
  <2>1. e \in Range(s)
    BY FirstEntityIs DEF OfKinds
  <2>2. nodes[id].effects = IoOperations(e)
    <3> HIDE DEF e
    <3>1. nodes[id] = Node(e.kind, NoBoundary(s)[e], e.file, [f \in Range(s) |-> IoOperations(f)][e])
      BY DEF CodeNodes, e
    <3> QED BY <3>1, <2>1 DEF Node
  <2> HIDE DEF e, nodes
  <2> QED BY <2>1, <2>2, EntityIs DEF IoOperations
<1>4. used \subseteq Names
  <2> HIDE DEF nodes
  <2> QED BY <1>2, <1>3
<1> HIDE DEF used, nodes
<1> QED BY <1>1, <1>2, <1>4, CodeIdsAreIds, MadeUpIdsAreIds

LEMMA SecurityIdsAreIds ==
  ASSUME NEW s \in Seq(Entity), NEW pick \in AuthPicks
  PROVE  DOMAIN SecurityGraph(s, pick).nodes \subseteq Ids
<1> DEFINE coded == OfKinds(s, Callable)
           found == UNION {AuthPatterns(e, pick) : e \in coded}
           named == UNION {SensitiveNames(e) : e \in coded}
           patterns == {<<"security", p>> : p \in found}
           data == {<<"sensitive", n>> : n \in named}
<1>1. DOMAIN SecurityGraph(s, pick).nodes = CodeIds(s, Callable) \cup patterns \cup data
  BY CodeNodesAre DEF SecurityGraph, Extended
<1>2. ASSUME NEW e \in coded PROVE AuthPatterns(e, pick) \subseteq UNION Range(AuthPattern) /\ SensitiveNames(e) \subseteq Names
  <2>1. e \in Range(s)
    BY DEF OfKinds
  <2>2. SecurityNames(e) \subseteq Names /\ e.references \subseteq Names
    BY <2>1, EntityIs DEF SecurityNames
  <2>3. \A n \in SecurityNames(e) : Says(n, "auth") => n \in DOMAIN AuthPattern
    BY <2>2, LayersAssumption, CodeGraphAssumption DEF Says
  <2>4. pick \in [DOMAIN AuthPattern -> UNION Range(AuthPattern)]
    BY DEF AuthPicks
  <2> QED BY <2>2, <2>3, <2>4 DEF AuthPatterns, SensitiveNames
<1>3. found \subseteq UNION Range(AuthPattern) /\ named \subseteq Names
  <2> HIDE DEF coded
  <2> QED BY <1>2
<1> HIDE DEF found, named
<1> QED BY <1>1, <1>3, CodeIdsAreIds, MadeUpIdsAreIds

LEMMA DeploymentIdsAreIds ==
  ASSUME NEW s \in Seq(Entity)
  PROVE  DOMAIN DeploymentGraph(s).nodes \subseteq Ids
<1> DEFINE repo == <<"deploy", Repo>>
           builds == {<<"build", b>> : b \in BuildSystems}
           configs == {i \in DOMAIN s : Says(s[i].name, "config")}
           configIds == {<<"config", s[i].name>> : i \in configs}
           endpoints == {CodeId(e) : e \in {f \in OfKinds(s, Runnable) : AnySays(f.decorators, "deploy")}}
<1>1. DOMAIN DeploymentGraph(s).nodes = {repo} \cup builds \cup configIds \cup endpoints
  BY DEF DeploymentGraph, Extended
<1>2. configIds \subseteq Ids
  <2>1. \A i \in configs : s[i].name \in Names
    BY InRange, EntityIs
  <2> HIDE DEF configs
  <2> QED BY <2>1, MadeUpIdsAreIds
<1>3. endpoints \subseteq CodeIds(s, Runnable)
  BY DEF CodeIds
<1> HIDE DEF configIds, endpoints
<1> QED BY <1>1, <1>2, <1>3, CodeIdsAreIds, MadeUpIdsAreIds

\* Every id and every end of an edge of the graph is one of Ids, and the merged graph has
\* no node that is not a node of a layer.
LEMMA MergedIs ==
  ASSUME NEW s \in Seq(Entity), NEW pick \in AuthPicks, NEW g, g = BuildAll(s, pick)
  PROVE  /\ NodeIds(g) \subseteq Ids
         /\ \A e \in EdgeKeys(g) : e[1] \in NodeIds(g) /\ e[2] \in NodeIds(g)
         /\ GraphNodes(NodeIds(g), EdgeKeys(g)) = NodeIds(g)
         /\ DOMAIN g["call"].nodes \subseteq NodeIds(g) /\ g["call"].edges \subseteq EdgeKeys(g)
         /\ LayerNodes(g["call"]) = DOMAIN g["call"].nodes
         /\ HasEnds(g["call"])
<1>1. Layers = {"call", "data_flow", "control_flow", "dependency", "state_transition", "resource",
                "security", "deployment"}
  BY LayersAssumption DEF LayerOrder, Range
<1>2. /\ DOMAIN CallGraph(s).nodes \subseteq Ids /\ DOMAIN DataFlow(s).nodes \subseteq Ids
      /\ DOMAIN ControlFlow(s).nodes \subseteq Ids
  BY CodeNodesAre, CodeIdsAreIds DEF CallGraph, DataFlow, ControlFlow
<1>3. \A l \in Layers : DOMAIN g[l].nodes \subseteq Ids
  BY <1>1, <1>2, DependencyIdsAreIds, StateTransitionIdsAreIds, ResourceIdsAreIds, SecurityIdsAreIds,
     DeploymentIdsAreIds DEF BuildAll
<1>4. \A l \in Layers : HasEnds(g[l])
  BY BuildAllHasEnds
<1>5. \A l \in Layers : DOMAIN g[l].nodes \subseteq NodeIds(g) /\ g[l].edges \subseteq EdgeKeys(g)
  BY DEF NodeIds, EdgeKeys
<1>6. NodeIds(g) \subseteq Ids
  BY <1>3 DEF NodeIds
<1>7. \A e \in EdgeKeys(g) : e[1] \in NodeIds(g) /\ e[2] \in NodeIds(g)
  BY <1>4, <1>5 DEF HasEnds, EdgeKeys
<1>8. GraphNodes(NodeIds(g), EdgeKeys(g)) = NodeIds(g)
  BY <1>7 DEF GraphNodes
<1>9. LayerNodes(g["call"]) = DOMAIN g["call"].nodes
  BY <1>1, <1>4 DEF LayerNodes, GraphNodes, HasEnds
<1> QED BY <1>1, <1>4, <1>5, <1>6, <1>7, <1>8, <1>9

LEMMA FiniteIds == IsFiniteSet(AllIds) /\ Ids \subseteq AllIds
<1>1. 0 \in Int /\ 1 \in Int /\ {0, 1} = 0 .. 1
  OBVIOUS
<1>2. IsFiniteSet({0, 1})
  <2>1. IsFiniteSet(0 .. 1)
    BY <1>1, FS_Interval
  <2> QED BY <1>1, <2>1, Zenon
<1>3. IsFiniteSet(Ids) /\ IsFiniteSet(Ids \X {0, 1})
  BY <1>2, GraphAssumption, FS_Product
<1> QED BY <1>3, FS_Union DEF AllIds, Parts

\* The ids that entry points reach are closed under the edges of every layer.
LEMMA LiveIsClosed ==
  ASSUME NEW s \in Seq(Entity), NEW pick \in AuthPicks, NEW g, g = BuildAll(s, pick), NEW entries
  PROVE  /\ LiveIds(g, entries) \in SUBSET AllIds
         /\ entries \cap NodeIds(g) \subseteq LiveIds(g, entries)
         /\ IsClosed(EdgeKeys(g), LiveIds(g, entries))
<1> DEFINE edges == EdgeKeys(g)
           known == entries \cap NodeIds(g)
           Reach(n) == Closure(edges, AllIds)[{n}]
<1>1. /\ NodeIds(g) \subseteq AllIds /\ GraphNodes(NodeIds(g), edges) = NodeIds(g)
      /\ \A e \in edges : e[2] \in AllIds
  BY MergedIs, FiniteIds
<1>2. LiveIds(g, entries) = known \cup UNION {Reach(n) \ {n} : n \in known}
  BY <1>1 DEF LiveIds, Descendants
<1>3. ASSUME NEW n \in known
      PROVE  Reach(n) \in SUBSET AllIds /\ n \in Reach(n) /\ IsClosed(edges, Reach(n))
  <2>1. n \in AllIds /\ IsFiniteSet(AllIds)
    BY <1>1, FiniteIds
  <2> HIDE DEF edges
  <2> QED BY <1>1, <2>1, ReachableFacts
<1>4. LiveIds(g, entries) = UNION {Reach(n) : n \in known}
  <2> HIDE DEF Reach, known
  <2> QED BY <1>2, <1>3
<1> HIDE DEF Reach
<1>5. IsClosed(edges, UNION {Reach(n) : n \in known})
  <2> HIDE DEF known, edges
  <2> QED BY <1>3 DEF IsClosed
<1> QED BY <1>2, <1>3, <1>4, <1>5

\* What a callable calls by a name that only one entity has is an edge away from it.
LEMMA CallMakesEdge ==
  ASSUME NEW s \in Seq(Entity), NEW e \in OfKinds(s, Runnable), NEW f \in Range(s),
         f.kind # "import", f.name \in e.calls, CodeId(f) # CodeId(e),
         \A h \in Range(s) : h.kind # "import" /\ h.name = f.name => CodeId(h) = CodeId(f)
  PROVE  <<CodeId(e), CodeId(f), "call">> \in CallGraph(s).edges
<1> DEFINE ids == CodeIds(s, Callable)
           Targets(k) == UNION {FindCallTarget(c, s, ids) : c \in k.calls}
<1>1. CallGraph(s).edges = UNION {EdgesFrom(CodeId(k), Targets(k) \ {CodeId(k)}, "call") : k \in OfKinds(s, Callable)}
  BY DEF CallGraph
<1>2. f \in OfKinds(s, Callable)
  BY EntityIs DEF OfKinds, Callable, Kinds
<1>3. CodeId(f) \in ids /\ e \in OfKinds(s, Callable)
  <2>1. Runnable \subseteq Callable
    BY DEF Runnable, Callable
  <2> QED BY <1>2, <2>1, CodeNodesAre, MoreKindsMoreIds
<1>4. PICK h \in Range(s) : h.name = f.name /\ CodeId(h) \in ids /\ FindCallTarget(f.name, s, ids) = {CodeId(h)}
  <2> HIDE DEF ids
  <2> QED BY <1>3, FindCallTargetIs
<1>5. CodeId(h) = CodeId(f)
  <2>1. PICK k \in OfKinds(s, Callable) : CodeId(k) = CodeId(h)
    BY <1>4 DEF CodeIds
  <2>2. k \in Range(s) /\ k.kind # "import"
    BY DEF OfKinds, Callable
  <2>3. k.name = h.name
    BY <2>1 DEF CodeId
  <2> QED BY <1>4, <2>1, <2>2, <2>3
<1>6. CodeId(f) \in Targets(e) \ {CodeId(e)}
  <2> HIDE DEF ids
  <2> QED BY <1>4, <1>5
<1> HIDE DEF Targets
<1>7. <<CodeId(e), CodeId(f), "call">> \in EdgesFrom(CodeId(e), Targets(e) \ {CodeId(e)}, "call")
  BY <1>6 DEF EdgesFrom
<1> QED BY <1>1, <1>3, <1>7

\* What a live function calls by a name of its own is never reported dead, whatever the
\* files, the nesting and the other layers are: the scan keeps the ids that the entry
\* points reach over the edges of all layers, and such a call is one of these edges.
THEOREM CallsKeepAlive == Spec => []CalledIsLive
<1>1. IInv => CalledIsLive
  <2> SUFFICES ASSUME IInv, dead # <<>>,
                      NEW e \in OfKinds(entities, Runnable), NEW f \in Range(entities),
                      f.kind # "import", f.name \in e.calls,
                      \A h \in Range(entities) : h.kind # "import" /\ h.name = f.name => CodeId(h) = CodeId(f),
                      CodeId(e) \notin dead.nodes
               PROVE  CodeId(f) \notin dead.nodes
    BY DEF CalledIsLive
  <2>1. PICK pick \in AuthPicks : graph = BuildAll(entities, pick) /\ entities \in Seq(Entity)
    BY DEF IInv, PipelineInv, ParserInv
  <2>0. CASE graph["call"].edges = {} /\ dead = [entries |-> {}, nodes |-> {}]
    BY <2>0
  <2>7. SUFFICES ASSUME FromEntries(graph, dead) PROVE CodeId(f) \notin dead.nodes
    BY <2>0 DEF IInv, PipelineInv, Scanned
  <2>8. PICK entries \in EntryPoints(graph) : dead = [entries |-> entries, nodes |-> FindDeadNodes(graph, entries)]
    BY <2>7 DEF FromEntries
  <2> DEFINE live == LiveIds(graph, entries)
  <2>2. dead.nodes = NodeIds(graph) \ live
    BY <2>1, <2>8, MergedIs DEF FindDeadNodes
  <2>3. CodeId(e) \in NodeIds(graph)
    <3>1. Runnable \subseteq Callable
      BY DEF Runnable, Callable
    <3>2. CodeId(e) \in CodeIds(entities, Callable)
      BY <2>1, <3>1, MoreKindsMoreIds
    <3>3. DOMAIN graph["call"].nodes = CodeIds(entities, Callable)
      BY <2>1, CodeNodesAre DEF BuildAll, CallGraph
    <3> QED BY <2>1, <3>2, <3>3, MergedIs
  <2>4. CodeId(e) \in live
    BY <2>2, <2>3
  <2>5. CASE CodeId(f) = CodeId(e)
    BY <2>2, <2>4, <2>5
  <2>6. CASE CodeId(f) # CodeId(e)
    <3>1. <<CodeId(e), CodeId(f), "call">> \in CallGraph(entities).edges
      BY <2>1, <2>6, CallMakesEdge
    <3>2. <<CodeId(e), CodeId(f), "call">> \in EdgeKeys(graph)
      <4>1. graph["call"] = CallGraph(entities)
        BY <2>1 DEF BuildAll
      <4> QED BY <2>1, <3>1, <4>1, MergedIs
    <3>3. IsClosed(EdgeKeys(graph), live)
      BY <2>1, LiveIsClosed
    <3>4. CodeId(f) \in live
      BY <2>4, <3>2, <3>3 DEF IsClosed
    <3> QED BY <2>2, <3>4
  <2> QED BY <2>5, <2>6
<1> QED BY <1>1, Safety, PTL

\* The degrees of a node are 0 just when it has no neighbours.
LEMMA DegreesAre ==
  ASSUME NEW s \in Seq(Entity), NEW pick \in AuthPicks, NEW g, g = BuildAll(s, pick), NEW n
  PROVE  /\ FanIn(g["call"], n) \in Nat /\ FanOut(g["call"], n) \in Nat
         /\ FanIn(g["call"], n) = 0 <=> Predecessors(g["call"].edges, n) = {}
         /\ FanOut(g["call"], n) = 0 <=> Successors(g["call"].edges, n) = {}
<1> DEFINE edges == g["call"].edges
<1>1. \A e \in edges : e[1] \in AllIds /\ e[2] \in AllIds
  <2>1. NodeIds(g) \subseteq AllIds /\ HasEnds(g["call"]) /\ DOMAIN g["call"].nodes \subseteq NodeIds(g)
    BY MergedIs, FiniteIds
  <2> QED BY <2>1 DEF HasEnds
<1>2. Predecessors(edges, n) \subseteq AllIds /\ Successors(edges, n) \subseteq AllIds
  BY <1>1 DEF Predecessors, Successors
<1> HIDE DEF edges
<1>3. IsFiniteSet(Predecessors(edges, n)) /\ IsFiniteSet(Successors(edges, n))
  BY <1>2, FiniteIds, FS_Subset
<1>4. /\ Cardinality(Predecessors(edges, n)) \in Nat /\ Cardinality(Successors(edges, n)) \in Nat
      /\ Cardinality(Predecessors(edges, n)) = 0 <=> Predecessors(edges, n) = {}
      /\ Cardinality(Successors(edges, n)) = 0 <=> Successors(edges, n) = {}
  BY <1>3, FS_CardinalityType, FS_EmptySet
<1> QED BY <1>4 DEF FanIn, FanOut, edges

\* Where something calls and is not called, what the scan reports dead of the call layer is
\* dead or an orphan in the reports, though the flow agent starts from other nodes and
\* follows fewer edges, or hangs on functions that the scan did not take as entry points.
THEOREM ScansAgree == Spec => []DeadScansAgree
<1>1. IInv => DeadScansAgree
  <2> DEFINE calls == graph["call"]
  <2> SUFFICES ASSUME IInv, dead # <<>>, CallRoots(graph) # {},
                      NEW n \in dead.nodes, n \in LayerNodes(calls), n \notin reports.flow.dead,
                      n \notin Reached(calls, CallRoots(graph) \ dead.entries)
               PROVE  n \in reports.architecture.orphans
    BY DEF DeadScansAgree
  <2>1. PICK pick \in AuthPicks : graph = BuildAll(entities, pick) /\ entities \in Seq(Entity)
    BY DEF IInv, PipelineInv, ParserInv
  <2>2. PICK entries \in FlowEntryPoints(calls), flows \in UpTo(SensitiveFlows(graph), MaxSensitiveFlows) : reports = ReportsOf(graph, entries, flows)
    BY DEF IInv, PipelineInv
  <2>12. PICK taken : dead = [entries |-> taken, nodes |-> FindDeadNodes(graph, taken)]
    BY DEF IInv, PipelineInv, Scanned, FromEntries
  <2> DEFINE live == LiveIds(graph, taken)
  <2>3. dead.entries = taken /\ dead.nodes = NodeIds(graph) \ live
    BY <2>1, <2>12, MergedIs DEF FindDeadNodes
  <2>4. /\ LayerNodes(calls) = DOMAIN calls.nodes /\ DOMAIN calls.nodes \subseteq NodeIds(graph)
        /\ calls.edges \subseteq EdgeKeys(graph) /\ NodeIds(graph) \subseteq AllIds
        /\ \A e \in calls.edges : e[2] \in AllIds
    <3>1. /\ LayerNodes(calls) = DOMAIN calls.nodes /\ DOMAIN calls.nodes \subseteq NodeIds(graph)
          /\ calls.edges \subseteq EdgeKeys(graph) /\ NodeIds(graph) \subseteq AllIds /\ HasEnds(calls)
      BY <2>1, MergedIs, FiniteIds
    <3> QED BY <3>1 DEF HasEnds
  <2>5. live \in SUBSET AllIds /\ taken \cap NodeIds(graph) \subseteq live /\ IsClosed(calls.edges, live)
    <3>1. /\ live \in SUBSET AllIds /\ taken \cap NodeIds(graph) \subseteq live
          /\ IsClosed(EdgeKeys(graph), live)
      BY <2>1, LiveIsClosed
    <3> QED BY <2>4, <3>1 DEF IsClosed
  <2>6. \A m \in LayerNodes(calls) : m \in CallRoots(graph) <=> FanIn(calls, m) = 0 /\ FanOut(calls, m) > 0
    BY <2>4 DEF CallRoots
  <2>7. entries = Uncalled(calls)
    <3>1. Uncalled(calls) # {}
      BY <2>4 DEF CallRoots, Uncalled
    <3> QED BY <3>1 DEF FlowEntryPoints
  <2>8. n \in Reached(calls, entries)
    <3>1. reports.flow.dead = LayerNodes(calls) \ Reached(calls, entries)
      BY <2>2 DEF ReportsOf, FlowReport
    <3> QED BY <3>1
  <2>9. n \notin live
    BY <2>3
  <2>10. CASE n \in Uncalled(calls)
    <3>1. FanIn(calls, n) = 0 /\ FanOut(calls, n) \in Nat
      BY <2>1, <2>10, DegreesAre DEF Uncalled
    <3>4. n \notin taken /\ n \notin CallRoots(graph) \ taken
      BY <2>3, <2>4, <2>5, <2>9 DEF Reached
    <3>2. FanOut(calls, n) = 0
      BY <2>6, <3>1, <3>4
    <3>3. reports.architecture.orphans = {m \in LayerNodes(calls) : FanIn(calls, m) = 0 /\ FanOut(calls, m) = 0}
      BY <2>2 DEF ReportsOf, ArchitectureReport
    <3> QED BY <3>1, <3>2, <3>3
  <2>11. CASE n \notin Uncalled(calls)
    <3>1. PICK m \in Uncalled(calls) : n \in Descendants(calls.edges, m)
      BY <2>7, <2>8, <2>11 DEF Reached
    <3>2. m \in LayerNodes(calls) /\ FanIn(calls, m) = 0
      BY DEF Uncalled
    <3>3. n \in Closure(calls.edges, AllIds)[{m}] /\ n # m
      BY <3>1 DEF Descendants
    <3>4. \A C \in SUBSET AllIds : m \in C /\ IsClosed(calls.edges, C) => n \in C
      <4>1. m \in AllIds
        BY <2>4, <3>2
      <4> HIDE DEF calls
      <4> QED BY <2>4, <3>3, <4>1, FiniteIds, ReachableFacts
    <3>5. Successors(calls.edges, m) # {}
      <4> SUFFICES ASSUME Successors(calls.edges, m) = {} PROVE FALSE
        OBVIOUS
      <4>1. IsClosed(calls.edges, {m})
        BY DEF IsClosed, Successors
      <4>2. {m} \in SUBSET AllIds
        BY <2>4, <3>2
      <4> QED BY <3>3, <3>4, <4>1, <4>2
    <3>6. FanOut(calls, m) > 0
      <4>1. FanOut(calls, m) \in Nat /\ FanOut(calls, m) # 0
        <5> HIDE DEF calls
        <5> QED BY <2>1, <3>5, DegreesAre DEF calls
      <4> QED BY <4>1
    <3>8. m \in taken
      <4>1. m \in CallRoots(graph)
        BY <2>6, <3>2, <3>6
      <4> QED BY <2>3, <3>1, <4>1 DEF Reached
    <3>7. m \in live
      BY <2>4, <2>5, <3>2, <3>8
    <3> QED BY <2>5, <2>9, <3>4, <3>7
  <2> QED BY <2>10, <2>11
<1> QED BY <1>1, Safety, PTL

-------------------------------------------------------------------------------
(* Which layer an id is found in first *)

\* The ids of the layers the agents look into, and what is known of the others.
LEMMA LayerIdsAre ==
  ASSUME NEW s \in Seq(Entity), NEW pick \in AuthPicks, NEW g, g = BuildAll(s, pick)
  PROVE  /\ DOMAIN g["call"].nodes = CodeIds(s, Callable)
         /\ DOMAIN g["data_flow"].nodes = CodeIds(s, Runnable)
         /\ DOMAIN g["control_flow"].nodes = CodeIds(s, Callable)
         /\ CodeIds(s, Runnable) \subseteq CodeIds(s, Callable)
         /\ DOMAIN g["state_transition"].nodes \subseteq CodeIds(s, Callable)
         /\ \A id \in CodeIds(s, Callable) : id[1] \in Files
         /\ \A id \in DOMAIN g["dependency"].nodes : id[1] \in {"module", "repo"}
         /\ \A id \in DOMAIN g["resource"].nodes : id \in CodeIds(s, Callable) \/ id[1] = "resource"
         /\ \A id \in DOMAIN g["security"].nodes : id \in CodeIds(s, Callable) \/ id[1] \in {"security", "sensitive"}
<1>1. CodeIds(s, Runnable) \subseteq CodeIds(s, Callable)
  <2>1. Runnable \subseteq Callable
    BY DEF Runnable, Callable
  <2> QED BY <2>1, MoreKindsMoreIds
<1>2. /\ DOMAIN g["call"].nodes = CodeIds(s, Callable)
      /\ DOMAIN g["data_flow"].nodes = CodeIds(s, Runnable)
      /\ DOMAIN g["control_flow"].nodes = CodeIds(s, Callable)
  BY CodeNodesAre DEF BuildAll, CallGraph, DataFlow, ControlFlow
<1>3. DOMAIN g["state_transition"].nodes \subseteq CodeIds(s, Callable)
  <2> DEFINE classes == CodeIds(s, {"class"})
             cycle == {i \in ClassMethods(s) : IsLifecycle(s[i])}
             events == {i \in ClassMethods(s) : IsEvent(s[i])}
             Id(i) == CodeId(s[i])
  <2>1. DOMAIN StateTransition(s).nodes = classes \cup {Id(i) : i \in cycle \cup events}
    BY DEF StateTransition
  <2>2. classes \subseteq CodeIds(s, Callable)
    <3>1. {"class"} \subseteq Callable
      BY DEF Callable
    <3> QED BY <3>1, MoreKindsMoreIds
  <2>3. \A i \in cycle \cup events : Id(i) \in CodeIds(s, Callable)
    <3>1. \A i \in ClassMethods(s) : s[i] \in OfKinds(s, Callable)
      BY InRange DEF ClassMethods, OfKinds, Callable
    <3> QED BY <3>1 DEF CodeIds
  <2> HIDE DEF classes, cycle, events, Id
  <2> QED BY <2>1, <2>2, <2>3 DEF BuildAll
<1>4. \A id \in CodeIds(s, Callable) : id[1] \in Files
  BY EntityIs DEF CodeIds, OfKinds, CodeId
<1>5. \A id \in DOMAIN g["dependency"].nodes : id[1] \in {"module", "repo"}
  BY DEF BuildAll, DependencyGraph
<1>6. \A id \in DOMAIN g["resource"].nodes : id \in CodeIds(s, Runnable) \/ id[1] = "resource"
  <2> DEFINE nodes == CodeNodes(s, Runnable, NoBoundary(s), [e \in Range(s) |-> IoOperations(e)])
             used == UNION {nodes[id].effects : id \in DOMAIN nodes}
             resources == {<<"resource", n>> : n \in used}
  <2>1. DOMAIN ResourceGraph(s).nodes = DOMAIN nodes \cup resources
    BY DEF ResourceGraph, Extended
  <2>2. DOMAIN nodes = CodeIds(s, Runnable)
    BY CodeNodesAre
  <2> HIDE DEF nodes, used
  <2> QED BY <2>1, <2>2 DEF BuildAll
<1>7. \A id \in DOMAIN g["security"].nodes : id \in CodeIds(s, Callable) \/ id[1] \in {"security", "sensitive"}
  <2> DEFINE coded == OfKinds(s, Callable)
             patterns == {<<"security", p>> : p \in UNION {AuthPatterns(e, pick) : e \in coded}}
             data == {<<"sensitive", n>> : n \in UNION {SensitiveNames(e) : e \in coded}}
  <2>1. DOMAIN SecurityGraph(s, pick).nodes = CodeIds(s, Callable) \cup patterns \cup data
    BY CodeNodesAre DEF SecurityGraph, Extended
  <2>2. \A id \in patterns \cup data : id[1] \in {"security", "sensitive"}
    OBVIOUS
  <2> HIDE DEF patterns, data
  <2> QED BY <2>1, <2>2 DEF BuildAll
<1> QED BY <1>1, <1>2, <1>3, <1>4, <1>5, <1>6, <1>7

LEMMA LayerOrderIs ==
  /\ Len(LayerOrder) = 8 /\ LayerOrder[1] = "call" /\ LayerOrder[2] = "data_flow" /\ LayerOrder[3] = "control_flow"
  /\ LayerOrder[4] = "dependency" /\ LayerOrder[5] = "state_transition" /\ LayerOrder[6] = "resource"
  /\ LayerOrder[7] = "security" /\ LayerOrder[8] = "deployment"
BY DEF LayerOrder

LEMMA FirstLayerIs ==
  ASSUME NEW g, NEW id, NEW k \in 1 .. 8, id \in DOMAIN g[LayerOrder[k]].nodes,
         \A j \in 1 .. 8 : j < k => id \notin DOMAIN g[LayerOrder[j]].nodes
  PROVE  FirstLayerOf(g, id) = k /\ FindNode(g, id) = g[LayerOrder[k]].nodes[id]
<1> DEFINE P == {i \in 1 .. Len(LayerOrder) : id \in DOMAIN g[LayerOrder[i]].nodes}
<1>1. P = {i \in 1 .. 8 : id \in DOMAIN g[LayerOrder[i]].nodes}
  BY LayerOrderIs
<1>2. P \in SUBSET Nat /\ k \in P /\ \A j \in P : k <= j
  BY <1>1
<1>3. FirstLayerOf(g, id) = IF P # {} THEN Min(P) ELSE 0
  BY DEF FirstLayerOf, SelectInSeq
<1> HIDE DEF P
<1>4. Min(P) \in P /\ Min(P) <= k
  BY <1>2, MinOfNats
<1>5. FirstLayerOf(g, id) = k
  <2>1. k <= Min(P) /\ Min(P) \in Nat
    BY <1>2, <1>4
  <2> QED BY <1>2, <1>3, <1>4, <2>1
<1> QED BY <1>5 DEF FindNode

LEMMA FirstLayersAre ==
  ASSUME NEW s \in Seq(Entity), NEW pick \in AuthPicks, NEW g, g = BuildAll(s, pick), NEW id
  PROVE  /\ id \in CodeIds(s, Callable) =>
              FirstLayerOf(g, id) = 1 /\ FindNode(g, id) = g["call"].nodes[id]
         /\ id \in DOMAIN g["dependency"].nodes =>
              FirstLayerOf(g, id) = 4
         /\ id \in DOMAIN g["security"].nodes /\ id[1] \in {"security", "sensitive"} =>
              FirstLayerOf(g, id) = 7 /\ FindNode(g, id) = g["security"].nodes[id]
<1>1. ASSUME id[1] \in MadeUpPrefixes PROVE id \notin CodeIds(s, Callable)
  BY <1>1, LayerIdsAre, CodeGraphAssumption
<1>2. CASE id \in CodeIds(s, Callable)
  <2>1. id \in DOMAIN g[LayerOrder[1]].nodes
    BY <1>2, LayerOrderIs, LayerIdsAre
  <2>2. FirstLayerOf(g, id) = 1 /\ FindNode(g, id) = g["call"].nodes[id]
    BY <2>1, FirstLayerIs, LayerOrderIs
  <2>3. id[1] \notin MadeUpPrefixes
    BY <1>1, <1>2
  <2> QED BY <2>2, <2>3, LayerIdsAre DEF MadeUpPrefixes
<1>3. CASE id \in DOMAIN g["dependency"].nodes
  <2>1. id[1] \in {"module", "repo"} /\ id \notin CodeIds(s, Callable)
    BY <1>1, <1>3, LayerIdsAre DEF MadeUpPrefixes
  <2>2. id \in DOMAIN g[LayerOrder[4]].nodes
    BY <1>3, LayerOrderIs
  <2>3. \A j \in 1 .. 8 : j < 4 => id \notin DOMAIN g[LayerOrder[j]].nodes
    BY <2>1, LayerOrderIs, LayerIdsAre
  <2>4. FirstLayerOf(g, id) = 4
    BY <2>2, <2>3, FirstLayerIs
  <2> QED BY <2>1, <2>4
<1>4. CASE id \in DOMAIN g["security"].nodes /\ id[1] \in {"security", "sensitive"}
  <2>1. id \notin CodeIds(s, Callable)
    BY <1>1, <1>4 DEF MadeUpPrefixes
  <2>2. id \in DOMAIN g[LayerOrder[7]].nodes
    BY <1>4, LayerOrderIs
  <2>3. /\ id \notin DOMAIN g["call"].nodes /\ id \notin DOMAIN g["data_flow"].nodes
        /\ id \notin DOMAIN g["control_flow"].nodes /\ id \notin DOMAIN g["dependency"].nodes
        /\ id \notin DOMAIN g["state_transition"].nodes /\ id \notin DOMAIN g["resource"].nodes
    BY <1>4, <2>1, LayerIdsAre
  <2>4. \A j \in 1 .. 8 : j < 7 => j \in {1, 2, 3, 4, 5, 6}
    OBVIOUS
  <2>5. \A j \in 1 .. 8 : j < 7 => id \notin DOMAIN g[LayerOrder[j]].nodes
    BY <2>3, <2>4, LayerOrderIs
  <2>6. FirstLayerOf(g, id) = 7 /\ FindNode(g, id) = g["security"].nodes[id]
    BY <2>2, <2>5, FirstLayerIs, LayerOrderIs
  <2> QED BY <1>4, <2>1, <2>6, LayerIdsAre
<1> QED BY <1>2, <1>3, <1>4

\* The node of the call layer hides what the other layers know of a callable.
LEMMA CallNodesAre ==
  ASSUME NEW s \in Seq(Entity), NEW pick \in AuthPicks, NEW g, g = BuildAll(s, pick), NEW id \in CodeIds(s, Callable)
  PROVE  /\ FindNode(g, id).effects = {} /\ FindNode(g, id).boundary = "none"
         /\ FirstLayerOf(g, id) = 1 /\ BoundaryOf(g, id) = "none"
<1> DEFINE e == FirstEntity(s, Callable, id)
<1>1. e \in Range(s)
  BY FirstEntityIs DEF OfKinds
<1>2. g["call"].nodes[id] = Node(e.kind, NoBoundary(s)[e], e.file, NoEffects(s)[e])
  BY DEF BuildAll, CallGraph, CodeNodes
<1> HIDE DEF e
<1>3. NoBoundary(s)[e] = "none" /\ NoEffects(s)[e] = {}
  BY <1>1 DEF NoBoundary, NoEffects
<1>4. g["call"].nodes[id].effects = {} /\ g["call"].nodes[id].boundary = "none"
  BY <1>2, <1>3 DEF Node
<1>5. FirstLayerOf(g, id) = 1 /\ FindNode(g, id) = g["call"].nodes[id]
  BY FirstLayersAre
<1> QED BY <1>4, <1>5 DEF BoundaryOf

LEMMA ConcernsAre ==
  ASSUME NEW s \in Seq(Entity), NEW pick \in AuthPicks, NEW g, g = BuildAll(s, pick), NEW id \in DOMAIN g["security"].nodes,
         id[1] \in {"security", "sensitive"}
  PROVE  FirstLayerOf(g, id) = 7 /\ BoundaryOf(g, id) \in {"authenticated", "internal"}
<1> DEFINE coded == OfKinds(s, Callable)
           patterns == {<<"security", p>> : p \in UNION {AuthPatterns(e, pick) : e \in coded}}
           data == {<<"sensitive", n>> : n \in UNION {SensitiveNames(e) : e \in coded}}
           nodes == CodeNodes(s, Callable, [e \in Range(s) |-> ClassifyBoundary(e)],
                                           [e \in Range(s) |-> AuthPatterns(e, pick)])
           ofPatterns == [i \in patterns |-> MadeUp("middleware", "authenticated")]
           ofData == [i \in data |-> MadeUp("datamodel", "internal")]
           made == Extended(ofPatterns, ofData)
<1>1. g["security"].nodes = Extended(nodes, made)
  BY DEF BuildAll, SecurityGraph
<1>2. FirstLayerOf(g, id) = 7 /\ FindNode(g, id) = g["security"].nodes[id]
  BY FirstLayersAre
<1>3. id \notin DOMAIN nodes
  <2>1. DOMAIN nodes = CodeIds(s, Callable)
    BY CodeNodesAre
  <2> HIDE DEF nodes
  <2> QED BY <2>1, LayerIdsAre, CodeGraphAssumption DEF MadeUpPrefixes
<1>4. \A i \in DOMAIN made : made[i].boundary \in {"authenticated", "internal"}
  <2>1. \A i \in patterns : ofPatterns[i].boundary = "authenticated"
    BY DEF MadeUp, Node
  <2>2. \A i \in data : ofData[i].boundary = "internal"
    BY DEF MadeUp, Node
  <2>3. DOMAIN ofPatterns = patterns /\ DOMAIN ofData = data
    OBVIOUS
  <2> HIDE DEF ofPatterns, ofData, patterns, data
  <2> QED BY <2>1, <2>2, <2>3 DEF Extended
<1>5. id \in DOMAIN made /\ g["security"].nodes[id] = made[id]
  <2> HIDE DEF nodes, made
  <2> QED BY <1>1, <1>3 DEF Extended
<1> HIDE DEF made
<1>6. g["security"].nodes[id].boundary \in {"authenticated", "internal"}
  BY <1>4, <1>5
<1> QED BY <1>2, <1>6 DEF BoundaryOf

\* An edge of the security layer leads from code to a concern: to a pattern as an event, to
\* sensitive data as data.
LEMMA SecurityEdgesAre ==
  ASSUME NEW s \in Seq(Entity), NEW pick \in AuthPicks, NEW g, g = BuildAll(s, pick), NEW a \in g["security"].edges
  PROVE  /\ a[1] \in CodeIds(s, Callable) /\ a[2] \in DOMAIN g["security"].nodes
         /\ \/ a[2][1] = "security" /\ a[3] = "event"
            \/ a[2][1] = "sensitive" /\ a[3] = "data"
<1> DEFINE Patterns(e) == {<<"security", p>> : p \in AuthPatterns(e, pick)}
           Data(e) == {<<"sensitive", n>> : n \in SensitiveNames(e)}
<1>1. g["security"] = SecurityGraph(s, pick)
  BY DEF BuildAll
<1>2. SecurityGraph(s, pick).edges = UNION {EdgesFrom(CodeId(e), Patterns(e), "event")
                                       \cup EdgesFrom(CodeId(e), Data(e), "data") : e \in OfKinds(s, Callable)}
  BY DEF SecurityGraph
<1>3. \A e : (\A i \in Patterns(e) : i[1] = "security") /\ (\A i \in Data(e) : i[1] = "sensitive")
  OBVIOUS
<1> HIDE DEF Patterns, Data
<1>4. PICK e \in OfKinds(s, Callable) : a \in EdgesFrom(CodeId(e), Patterns(e), "event") \/ a \in EdgesFrom(CodeId(e), Data(e), "data")
  BY <1>1, <1>2
<1>5. CodeId(e) \in CodeIds(s, Callable)
  BY MoreKindsMoreIds
<1>6. a[2] \in DOMAIN g["security"].nodes
  BY <1>1, SecurityGraphHasEnds DEF HasEnds
<1>7. CASE a \in EdgesFrom(CodeId(e), Patterns(e), "event")
  BY <1>3, <1>5, <1>6, <1>7, EdgesFromAre
<1>8. CASE a \in EdgesFrom(CodeId(e), Data(e), "data")
  BY <1>3, <1>5, <1>6, <1>8, EdgesFromAre
<1> QED BY <1>4, <1>7, <1>8

\* The types of the edges of the layers that make none of these three.
LEMMA ControlFlowTypes ==
  ASSUME NEW s \in Seq(Entity), NEW a \in ControlFlow(s).edges
  PROVE  a[3] = "control"
<1> DEFINE ids == CodeIds(s, Callable)
           Methods(c) == {CodeId(m) : m \in {n \in OfKinds(s, {"method"}) : n.parent = c.name}}
           Targets(e) == UNION {ResolveIds(c, ids) : c \in e.calls}
           routed == {f \in OfKinds(s, Runnable) : RouteDecorators(f) # {}}
<1>1. ControlFlow(s).edges =
        UNION ({EdgesFrom(CodeId(c), Methods(c), "control") : c \in OfKinds(s, {"class"})}
                 \cup {EdgesFrom(CodeId(e), Targets(e) \ {CodeId(e)}, "control") : e \in routed})
  BY DEF ControlFlow
<1> HIDE DEF Methods, Targets, routed
<1>2. \/ \E c \in OfKinds(s, {"class"}) : a \in EdgesFrom(CodeId(c), Methods(c), "control")
      \/ \E e \in routed : a \in EdgesFrom(CodeId(e), Targets(e) \ {CodeId(e)}, "control")
  BY <1>1
<1>3. \E x, targets : a \in EdgesFrom(x, targets, "control")
  BY <1>2
<1> QED BY <1>3, EdgesFromAre

LEMMA StateTransitionTypes ==
  ASSUME NEW s \in Seq(Entity), NEW a \in StateTransition(s).edges
  PROVE  a[3] \in {"state_transition", "event", "inherit"}
<1> DEFINE classes == CodeIds(s, {"class"})
           cycle == {i \in ClassMethods(s) : IsLifecycle(s[i])}
           events == {i \in ClassMethods(s) : IsEvent(s[i])}
           Id(i) == CodeId(s[i])
           Known(i) == classes \cup {Id(j) : j \in {k \in cycle \cup events : k = i \/ Precedes(s, k, i)}}
           Follows(i, j) == /\ GroupOf(s, i) = GroupOf(s, j)
                            /\ i < j
                            /\ \A k \in cycle : ~(GroupOf(s, k) = GroupOf(s, i) /\ i < k /\ k < j)
           Class(i) == <<s[i].file, s[i].parent>>
           Called(i) == UNION {ResolveIds(c, Known(i)) : c \in s[i].calls}
           Bases(e) == UNION {FindClassId(b, s) : b \in e.bases}
           first == {<<Class(i), Id(i), "state_transition">> : i \in {k \in cycle : Class(k) \in classes}}
           second == {<<Id(p[1]), Id(p[2]), "state_transition">> : p \in {q \in cycle \X cycle : Follows(q[1], q[2])}}
           third == UNION {EdgesFrom(Id(i), Called(i) \ {Id(i)}, "event") : i \in events}
           fourth == UNION {EdgesFrom(CodeId(e), Bases(e), "inherit") : e \in OfKinds(s, {"class"})}
<1>1. StateTransition(s).edges = first \cup second \cup third \cup fourth
  BY DEF StateTransition
<1>2. ASSUME a \in first \cup second PROVE a[3] = "state_transition"
  <2> HIDE DEF cycle, Id, Class, Follows
  <2> QED BY <1>2
<1>3. ASSUME a \in third PROVE a[3] = "event"
  <2> HIDE DEF events, Id, Called
  <2>1. PICK i \in events : a \in EdgesFrom(Id(i), Called(i) \ {Id(i)}, "event")
    BY <1>3
  <2> QED BY <2>1, EdgesFromAre
<1>4. ASSUME a \in fourth PROVE a[3] = "inherit"
  <2> HIDE DEF Bases
  <2> QED BY <1>4, EdgesFromAre
<1> HIDE DEF first, second, third, fourth
<1> QED BY <1>1, <1>2, <1>3, <1>4

LEMMA ResourceTypes ==
  ASSUME NEW s \in Seq(Entity), NEW a \in ResourceGraph(s).edges
  PROVE  a[3] \in {"network", "database"}
<1> DEFINE nodes == CodeNodes(s, Runnable, NoBoundary(s), [e \in Range(s) |-> IoOperations(e)])
           Type(n) == IF Says(n, "external") THEN "network" ELSE "database"
           Uses(id) == {<<id, <<"resource", n>>, Type(n)>> : n \in nodes[id].effects}
<1>1. ResourceGraph(s).edges = UNION {Uses(id) : id \in DOMAIN nodes}
  BY DEF ResourceGraph
<1>2. \A n : Type(n) \in {"network", "database"}
  OBVIOUS
<1> HIDE DEF nodes, Type
<1> QED BY <1>1, <1>2

LEMMA DeploymentTypes ==
  ASSUME NEW s \in Seq(Entity), NEW a \in DeploymentGraph(s).edges
  PROVE  a[3] = "dependency"
BY EdgesFromAre DEF DeploymentGraph

\* The edges of the other layers that have one of the three types of a layering violation
\* join ids of one first layer.
LEMMA OtherEdgesStay ==
  ASSUME NEW s \in Seq(Entity), NEW pick \in AuthPicks, NEW g, g = BuildAll(s, pick), NEW l \in Layers, l # "security",
         NEW a \in g[l].edges, a[3] \in {"call", "data", "import"}
  PROVE  FirstLayerOf(g, a[1]) = FirstLayerOf(g, a[2])
<1>1. Layers = {"call", "data_flow", "control_flow", "dependency", "state_transition", "resource",
                "security", "deployment"}
  BY LayersAssumption DEF LayerOrder, Range
<1>2. HasEnds(g[l])
  BY BuildAllHasEnds
<1>3. CASE l \in {"call", "data_flow", "dependency"}
  BY <1>2, <1>3, LayerIdsAre, FirstLayersAre DEF HasEnds
<1>4. CASE l = "control_flow"
  BY <1>4, ControlFlowTypes DEF BuildAll
<1>5. CASE l = "state_transition"
  BY <1>5, StateTransitionTypes DEF BuildAll
<1>6. CASE l = "resource"
  BY <1>6, ResourceTypes DEF BuildAll
<1>7. CASE l = "deployment"
  BY <1>7, DeploymentTypes DEF BuildAll
<1> QED BY <1>1, <1>3, <1>4, <1>5, <1>6, <1>7

\* The agents ask the first layer that knows an id.  That is the call layer for all code,
\* which keeps neither boundary nor side effects: every access to a security concern is
\* reported as a crossing out of "none", no data counts as untrusted, frequently called code
\* always counts as pure, and the layering violations are the accesses to sensitive data.
THEOREM AgentsAskTheCallLayer == Spec => []AgentsSeeTheCallLayer
<1>1. IInv => AgentsSeeTheCallLayer
  <2> SUFFICES ASSUME IInv, reports # <<>> PROVE AgentsSeeTheCallLayer
    BY DEF AgentsSeeTheCallLayer
  <2> DEFINE coded == CodeIds(entities, Callable)
             edges == graph["security"].edges
             Crossing(e) == [source |-> e[1], target |-> e[2], from |-> BoundaryOf(graph, e[1]),
                             to |-> BoundaryOf(graph, e[2]),
                             risk |-> CrossingRisk(BoundaryOf(graph, e[1]), BoundaryOf(graph, e[2]))]
  <2>1. PICK pick \in AuthPicks : graph = BuildAll(entities, pick) /\ entities \in Seq(Entity)
    BY DEF IInv, PipelineInv, ParserInv
  <2>2. PICK entries \in FlowEntryPoints(graph["call"]), flows \in UpTo(SensitiveFlows(graph), MaxSensitiveFlows) : reports = ReportsOf(graph, entries, flows)
    BY DEF IInv, PipelineInv
  <2>3. /\ reports.security = SecurityReport(graph, flows) /\ reports.performance = PerformanceReport(graph)
        /\ reports.architecture = ArchitectureReport(graph)
    BY <2>2 DEF ReportsOf
  <2>4. \A e \in edges : /\ BoundaryOf(graph, e[1]) = "none" /\ FirstLayerOf(graph, e[1]) = 1
                         /\ BoundaryOf(graph, e[2]) # "none" /\ FirstLayerOf(graph, e[2]) = 7
    <3> TAKE e \in edges
    <3>1. /\ e[1] \in coded /\ e[2] \in DOMAIN graph["security"].nodes /\ e[2][1] \in {"security", "sensitive"}
      BY <2>1, SecurityEdgesAre
    <3>2. FirstLayerOf(graph, e[2]) = 7 /\ BoundaryOf(graph, e[2]) \in {"authenticated", "internal"}
      BY <2>1, <3>1, ConcernsAre
    <3>3. FirstLayerOf(graph, e[1]) = 1 /\ BoundaryOf(graph, e[1]) = "none"
      BY <2>1, <3>1, CallNodesAre
    <3> QED BY <3>2, <3>3
  <2>5. reports.security.crossings = {Crossing(e) : e \in edges}
    <3>1. reports.security.crossings = {Crossing(e) : e \in {f \in edges : BoundaryOf(graph, f[1]) # BoundaryOf(graph, f[2])}}
      BY <2>3 DEF SecurityReport, BoundaryCrossings
    <3>2. {f \in edges : BoundaryOf(graph, f[1]) # BoundaryOf(graph, f[2])} = edges
      BY <2>4
    <3> QED BY <3>1, <3>2
  <2>6. {<<c.source, c.target>> : c \in reports.security.crossings} = Arcs(graph["security"])
    <3>1. \A e \in edges : Crossing(e).source = e[1] /\ Crossing(e).target = e[2]
      OBVIOUS
    <3> HIDE DEF Crossing
    <3> QED BY <2>5, <3>1 DEF Arcs
  <2>7. \A c \in reports.security.crossings : c.from = "none"
    <3>1. \A e \in edges : Crossing(e).from = "none"
      BY <2>4
    <3> HIDE DEF Crossing
    <3> QED BY <2>5, <3>1
  <2>8. reports.security.untrusted = {}
    <3>1. reports.security.untrusted = UntrustedFeeds(graph)
      BY <2>3 DEF SecurityReport
    <3>2. \A e \in graph["data_flow"].edges : e[2] \in coded
      <4>1. HasEnds(graph["data_flow"])
        BY <2>1, DataFlowHasEnds DEF BuildAll
      <4> QED BY <2>1, <4>1, LayerIdsAre DEF HasEnds
    <3>3. \A e \in graph["data_flow"].edges : BoundaryOf(graph, e[2]) = "none"
      BY <2>1, <3>2, CallNodesAre
    <3> QED BY <3>1, <3>3 DEF UntrustedFeeds
  <2>9. reports.performance.caching.bounded = {}
    <3> DEFINE often == {n \in LayerNodes(graph["call"]) : FanIn(graph["call"], n) >= MinCacheFanIn /\ FirstLayerOf(graph, n) # 0}
               pure == {n \in often : FindNode(graph, n).effects = {}}
    <3>1. reports.performance.caching.bounded = {n \in often \ pure : FanIn(graph["call"], n) >= HighCacheFanIn}
      BY <2>3 DEF PerformanceReport, CachingOpportunities
    <3>2. LayerNodes(graph["call"]) = coded
      BY <2>1, MergedIs, LayerIdsAre
    <3>3. often = pure
      BY <2>1, <3>2, CallNodesAre
    <3> QED BY <3>1, <3>3
  <2>10. reports.architecture.violations = {e \in edges : e[2][1] = "sensitive"}
    <3>1. reports.architecture.violations = LayeringViolations(graph)
      BY <2>3 DEF ArchitectureReport
    <3>2. ASSUME NEW e \in LayeringViolations(graph) PROVE e \in edges /\ e[2][1] = "sensitive"
      <4>1. PICK l \in Layers : e \in graph[l].edges
        BY DEF LayeringViolations, EdgeKeys
      <4>2. FirstLayerOf(graph, e[1]) # FirstLayerOf(graph, e[2]) /\ e[3] \in {"call", "data", "import"}
        BY DEF LayeringViolations
      <4>3. e \in edges
        BY <2>1, <4>1, <4>2, OtherEdgesStay
      <4> QED BY <2>1, <4>2, <4>3, SecurityEdgesAre
    <3>3. ASSUME NEW e \in edges, e[2][1] = "sensitive" PROVE e \in LayeringViolations(graph)
      <4>1. e[3] = "data" /\ FirstLayerOf(graph, e[1]) = 1 /\ FirstLayerOf(graph, e[2]) = 7
        BY <2>1, <2>4, <3>3, SecurityEdgesAre
      <4>2. e \in EdgeKeys(graph)
        <5>1. "security" \in Layers
          BY LayersAssumption DEF LayerOrder, Range
        <5> QED BY <5>1 DEF EdgeKeys
      <4> QED BY <4>1, <4>2 DEF LayeringViolations
    <3> QED BY <3>1, <3>2, <3>3
  <2> QED BY <2>6, <2>7, <2>8, <2>9, <2>10 DEF AgentsSeeTheCallLayer
<1> QED BY <1>1, Safety, PTL

-------------------------------------------------------------------------------
(* Generated code *)

\* Where the edges from modules lead.
LEMMA ModuleEdgesAre ==
  ASSUME NEW s \in Seq(Entity), NEW pick \in AuthPicks, NEW g, g = BuildAll(s, pick), NEW a \in EdgeKeys(g), a[1][1] = "module"
  PROVE  a[2][1] = "module"
<1>1. PICK l \in Layers : a \in g[l].edges
  BY DEF EdgeKeys
<1>2. Layers = {"call", "data_flow", "control_flow", "dependency", "state_transition", "resource",
                "security", "deployment"}
  BY LayersAssumption DEF LayerOrder, Range
<1>3. HasEnds(g[l])
  BY BuildAllHasEnds
<1>4. a[1] \notin CodeIds(s, Callable)
  BY LayerIdsAre, CodeGraphAssumption DEF MadeUpPrefixes
<1>5. CASE l \in {"call", "data_flow", "control_flow", "state_transition"}
  BY <1>1, <1>3, <1>4, <1>5, LayerIdsAre DEF HasEnds
<1>6. CASE l = "dependency"
  <2> DEFINE imports == OfKinds(s, {"import"})
             files == {<<"module", e.file>> : e \in imports}
             imported == {<<"module", n>> : n \in UNION {e.imports : e \in imports}}
             repo == <<"repo", Repo>>
             Imported(e) == {<<"module", n>> : n \in e.imports}
             importEdges == UNION {EdgesFrom(<<"module", e.file>>, Imported(e), "import") : e \in imports}
  <2>1. DependencyGraph(s).edges = EdgesFrom(repo, files \cup imported, "dependency") \cup importEdges
    BY DEF DependencyGraph
  <2>2. g["dependency"] = DependencyGraph(s)
    BY DEF BuildAll
  <2>3. a \notin EdgesFrom(repo, files \cup imported, "dependency")
    BY EdgesFromAre
  <2>4. a \in importEdges
    BY <1>1, <1>6, <2>1, <2>2, <2>3
  <2> HIDE DEF imports
  <2>5. PICK e \in imports : a \in EdgesFrom(<<"module", e.file>>, Imported(e), "import")
    BY <2>4
  <2>6. a[2] \in Imported(e)
    BY <2>5, EdgesFromAre
  <2> QED BY <2>6
<1>7. CASE l = "resource"
  <2> DEFINE nodes == CodeNodes(s, Runnable, NoBoundary(s), [e \in Range(s) |-> IoOperations(e)])
             Type(n) == IF Says(n, "external") THEN "network" ELSE "database"
             Uses(id) == {<<id, <<"resource", n>>, Type(n)>> : n \in nodes[id].effects}
  <2>1. ResourceGraph(s).edges = UNION {Uses(id) : id \in DOMAIN nodes} /\ g["resource"] = ResourceGraph(s)
    BY DEF ResourceGraph, BuildAll
  <2>2. DOMAIN nodes = CodeIds(s, Runnable)
    BY CodeNodesAre
  <2> HIDE DEF nodes, Type
  <2>3. a[1] \in CodeIds(s, Runnable)
    BY <1>1, <1>7, <2>1, <2>2
  <2> QED BY <1>4, <2>3, LayerIdsAre
<1>8. CASE l = "security"
  BY <1>1, <1>4, <1>8, SecurityEdgesAre
<1>9. CASE l = "deployment"
  <2> DEFINE repo == <<"deploy", Repo>>
             builds == {<<"build", b>> : b \in BuildSystems}
             configs == {i \in DOMAIN s : Says(s[i].name, "config")}
             configIds == {<<"config", s[i].name>> : i \in configs}
             endpoints == {CodeId(e) : e \in {f \in OfKinds(s, Runnable) : AnySays(f.decorators, "deploy")}}
  <2>1. DeploymentGraph(s).edges = EdgesFrom(repo, builds \cup configIds \cup endpoints, "dependency")
    BY DEF DeploymentGraph
  <2>2. g["deployment"] = DeploymentGraph(s)
    BY DEF BuildAll
  <2>3. a[1] = repo
    BY <1>1, <1>9, <2>1, <2>2, EdgesFromAre
  <2> QED BY <2>3
<1> QED BY <1>2, <1>5, <1>6, <1>7, <1>8, <1>9

\* A node made from an entity has its kind and its file.
LEMMA CodeNodeIs ==
  ASSUME NEW s \in Seq(Entity), NEW kinds, NEW boundary, NEW effects, NEW id \in CodeIds(s, kinds)
  PROVE  LET n == CodeNodes(s, kinds, boundary, effects)[id]
         IN  n.type \in kinds /\ n.file = id[1]
<1> DEFINE e == FirstEntity(s, kinds, id)
<1>1. e \in OfKinds(s, kinds) /\ CodeId(e) = id
  BY FirstEntityIs
<1>2. CodeNodes(s, kinds, boundary, effects)[id] = Node(e.kind, boundary[e], e.file, effects[e])
  BY DEF CodeNodes
<1> HIDE DEF e
<1>3. e.kind \in kinds /\ e.file = id[1]
  BY <1>1 DEF OfKinds, CodeId
<1> QED BY <1>2, <1>3 DEF Node

LEMMA ResourceNodesAre ==
  ASSUME NEW s \in Seq(Entity), NEW pick \in AuthPicks, NEW g, g = BuildAll(s, pick), NEW id \in DOMAIN g["resource"].nodes
  PROVE  IF id \in CodeIds(s, Runnable)
         THEN g["resource"].nodes[id].type \in Runnable /\ g["resource"].nodes[id].file = id[1]
         ELSE g["resource"].nodes[id].type = "service"
<1> DEFINE nodes == CodeNodes(s, Runnable, NoBoundary(s), [e \in Range(s) |-> IoOperations(e)])
           used == UNION {nodes[i].effects : i \in DOMAIN nodes}
           made == [i \in {<<"resource", n>> : n \in used} |-> MadeUp("service", "none")]
<1>1. g["resource"].nodes = Extended(nodes, made) /\ DOMAIN nodes = CodeIds(s, Runnable)
  BY CodeNodesAre DEF BuildAll, ResourceGraph
<1>2. \A i \in DOMAIN made : made[i].type = "service"
  BY DEF MadeUp, Node
<1>3. \A i \in CodeIds(s, Runnable) : nodes[i].type \in Runnable /\ nodes[i].file = i[1]
  BY CodeNodeIs
<1> HIDE DEF nodes, made
<1> QED BY <1>1, <1>2, <1>3 DEF Extended

LEMMA SecurityNodesAre ==
  ASSUME NEW s \in Seq(Entity), NEW pick \in AuthPicks, NEW g, g = BuildAll(s, pick), NEW id \in DOMAIN g["security"].nodes
  PROVE  IF id \in CodeIds(s, Callable)
         THEN g["security"].nodes[id].type \in Callable /\ g["security"].nodes[id].file = id[1]
         ELSE \/ id[1] = "sensitive" /\ g["security"].nodes[id].type = "datamodel"
              \/ g["security"].nodes[id].type = "middleware"
<1> DEFINE coded == OfKinds(s, Callable)
           patterns == {<<"security", p>> : p \in UNION {AuthPatterns(e, pick) : e \in coded}}
           data == {<<"sensitive", n>> : n \in UNION {SensitiveNames(e) : e \in coded}}
           nodes == CodeNodes(s, Callable, [e \in Range(s) |-> ClassifyBoundary(e)],
                                           [e \in Range(s) |-> AuthPatterns(e, pick)])
           ofPatterns == [i \in patterns |-> MadeUp("middleware", "authenticated")]
           ofData == [i \in data |-> MadeUp("datamodel", "internal")]
           made == Extended(ofPatterns, ofData)
<1>1. g["security"].nodes = Extended(nodes, made) /\ DOMAIN nodes = CodeIds(s, Callable)
  BY CodeNodesAre DEF BuildAll, SecurityGraph
<1>2. \A i \in DOMAIN made : made[i].type = "middleware" \/ (i[1] = "sensitive" /\ made[i].type = "datamodel")
  <2>1. \A i \in patterns : ofPatterns[i].type = "middleware"
    BY DEF MadeUp, Node
  <2>2. \A i \in data : ofData[i].type = "datamodel" /\ i[1] = "sensitive"
    BY DEF MadeUp, Node
  <2>3. DOMAIN ofPatterns = patterns /\ DOMAIN ofData = data
    OBVIOUS
  <2> HIDE DEF ofPatterns, ofData, patterns, data
  <2> QED BY <2>1, <2>2, <2>3 DEF Extended
<1>3. \A i \in CodeIds(s, Callable) : nodes[i].type \in Callable /\ nodes[i].file = i[1]
  BY CodeNodeIs
<1> HIDE DEF nodes, made
<1> QED BY <1>1, <1>2, <1>3 DEF Extended

LEMMA DeploymentNodesAre ==
  ASSUME NEW s \in Seq(Entity), NEW pick \in AuthPicks, NEW g, g = BuildAll(s, pick), NEW id \in DOMAIN g["deployment"].nodes
  PROVE  g["deployment"].nodes[id].type \in {"service", "config", "endpoint"}
<1> DEFINE repo == <<"deploy", Repo>>
           builds == {<<"build", b>> : b \in BuildSystems}
           configs == {i \in DOMAIN s : Says(s[i].name, "config")}
           First(i) == s[SelectInSeq(s, LAMBDA e : e.name = i[2])]
           configIds == {<<"config", s[i].name>> : i \in configs}
           endpoints == {CodeId(e) : e \in {f \in OfKinds(s, Runnable) : AnySays(f.decorators, "deploy")}}
           ofRepo == [i \in {repo} |-> MadeUp("service", "none")]
           ofBuilds == [i \in builds |-> MadeUp("config", "none")]
           ofConfigs == [i \in configIds |-> Node("config", "none", First(i).file, {})]
           ofEndpoints == [i \in endpoints |-> Node("endpoint", "none", i[1], {})]
           made == Extended(ofRepo, ofBuilds)
           found == Extended(ofConfigs, ofEndpoints)
<1>1. g["deployment"].nodes = Extended(made, found)
  BY DEF BuildAll, DeploymentGraph
<1>2. /\ \A i \in DOMAIN ofRepo : ofRepo[i].type = "service"
      /\ \A i \in DOMAIN ofBuilds : ofBuilds[i].type = "config"
  BY DEF MadeUp, Node
<1>3. /\ \A i \in DOMAIN ofConfigs : ofConfigs[i].type = "config"
      /\ \A i \in DOMAIN ofEndpoints : ofEndpoints[i].type = "endpoint"
  <2> HIDE DEF First, configIds, endpoints
  <2> QED BY DEF Node
<1> HIDE DEF ofRepo, ofBuilds, ofConfigs, ofEndpoints
<1> QED BY <1>1, <1>2, <1>3 DEF Extended

LEMMA StateNodesAre ==
  ASSUME NEW s \in Seq(Entity), NEW pick \in AuthPicks, NEW g, g = BuildAll(s, pick)
  PROVE  /\ \A id \in DOMAIN g["state_transition"].nodes : g["state_transition"].nodes[id].file = id[1]
         /\ \A id \in CodeIds(s, {"class"}) : /\ id \in DOMAIN g["state_transition"].nodes
                                              /\ g["state_transition"].nodes[id].type = "class"
         /\ \A id \in DOMAIN g["state_transition"].nodes :
              g["state_transition"].nodes[id].type \in {"class", "method", "event_handler"}
<1> DEFINE classes == CodeIds(s, {"class"})
           cycle == {i \in ClassMethods(s) : IsLifecycle(s[i])}
           events == {i \in ClassMethods(s) : IsEvent(s[i])}
           Id(i) == CodeId(s[i])
           First(id) == CHOOSE i \in cycle \cup events :
                          Id(i) = id /\ \A j \in cycle \cup events : (Id(j) = id /\ j # i) => Precedes(s, i, j)
           Type(id) == IF First(id) \in cycle THEN "method" ELSE "event_handler"
           ids == classes \cup {Id(i) : i \in cycle \cup events}
<1>1. g["state_transition"].nodes = [id \in ids |-> IF id \in classes THEN Node("class", "none", id[1], {})
                                                    ELSE Node(Type(id), "none", id[1], {})]
  BY DEF BuildAll, StateTransition
<1>2. classes \subseteq ids /\ \A id : Type(id) \in {"method", "event_handler"}
  OBVIOUS
<1> HIDE DEF Type, ids, classes
<1> QED BY <1>1, <1>2 DEF Node, classes

LEMMA ModuleNodesAre ==
  ASSUME NEW s \in Seq(Entity), NEW pick \in AuthPicks, NEW g, g = BuildAll(s, pick)
  PROVE  LET imports == OfKinds(s, {"import"})
             names == UNION {e.imports : e \in imports}
             nodes == g["dependency"].nodes
         IN  /\ \A id \in DOMAIN nodes :
                  /\ nodes[id].type \in {"module", "package"}
                  /\ nodes[id].type = "module" =>
                       /\ id[1] = "module"
                       /\ \/ \E e \in imports : id[2] = e.file /\ nodes[id].file = e.file
                          \/ nodes[id].file = NoFile /\ id[2] \in names \ Dotted
             /\ \A e \in imports : LET id == <<"module", e.file>>
                                   IN  id \in DOMAIN nodes /\ nodes[id].type = "module" /\ nodes[id].file = e.file
             /\ <<"repo", Repo>> \in DOMAIN nodes /\ nodes[<<"repo", Repo>>].type = "package"
<1> DEFINE imports == OfKinds(s, {"import"})
           names == UNION {e.imports : e \in imports}
           files == {<<"module", e.file>> : e \in imports}
           imported == {<<"module", n>> : n \in names}
           repo == <<"repo", Repo>>
           Type(id) == IF id = repo \/ (id \notin files /\ id[2] \in Dotted) THEN "package" ELSE "module"
           nodes == g["dependency"].nodes
<1>1. nodes = [id \in files \cup imported \cup {repo} |->
                 Node(Type(id), "none", IF id \in files THEN id[2] ELSE NoFile, {})]
  BY DEF BuildAll, DependencyGraph
<1>2. /\ \A id \in files : id[1] = "module" /\ (\E e \in imports : id[2] = e.file) /\ id # repo
      /\ \A id \in imported : id[1] = "module" /\ id[2] \in names
      /\ \A e \in imports : <<"module", e.file>> \in files /\ <<"module", e.file>>[2] = e.file
  <2> HIDE DEF imports, names
  <2> QED OBVIOUS
<1>3. DOMAIN nodes = files \cup imported \cup {repo}
  BY <1>1
<1>4. \A id \in DOMAIN nodes : nodes[id].type = Type(id) /\ nodes[id].file = IF id \in files THEN id[2] ELSE NoFile
  <2> HIDE DEF Type, files, imported, repo
  <2> QED BY <1>1, <1>3 DEF Node
<1> HIDE DEF nodes, files, imported, imports, names
<1>5. ASSUME NEW id \in DOMAIN nodes
      PROVE  /\ nodes[id].type \in {"module", "package"}
             /\ nodes[id].type = "module" =>
                  /\ id[1] = "module"
                  /\ \/ \E e \in imports : id[2] = e.file /\ nodes[id].file = e.file
                     \/ nodes[id].file = NoFile /\ id[2] \in names \ Dotted
  <2>1. CASE id \in files
    BY <1>2, <1>4, <2>1
  <2>2. CASE id \in imported /\ id \notin files
    BY <1>2, <1>4, <2>2
  <2>3. CASE id = repo
    BY <1>4, <2>3
  <2> QED BY <1>3, <2>1, <2>2, <2>3
<1>6. ASSUME NEW e \in imports
      PROVE  LET id == <<"module", e.file>>
             IN  id \in DOMAIN nodes /\ nodes[id].type = "module" /\ nodes[id].file = e.file
  <2> DEFINE id == <<"module", e.file>>
  <2>1. id \in files /\ id[2] = e.file /\ id # repo
    BY <1>2
  <2> HIDE DEF id, repo
  <2>2. id \in DOMAIN nodes /\ nodes[id].type = "module" /\ nodes[id].file = e.file
    BY <1>3, <1>4, <2>1
  <2> QED BY <2>2 DEF id
<1>7. repo \in DOMAIN nodes /\ nodes[repo].type = "package"
  BY <1>3, <1>4
<1> QED BY <1>5, <1>6, <1>7 DEF nodes, imports, names

LEMMA EntityNodesAre ==
  ASSUME NEW s \in Seq(Entity), NEW pick \in AuthPicks, NEW g, g = BuildAll(s, pick), NEW l \in {"call", "data_flow", "control_flow"},
         NEW id \in DOMAIN g[l].nodes
  PROVE  id[1] \in Files /\ g[l].nodes[id].type \in Callable /\ g[l].nodes[id].file = id[1]
<1> DEFINE effects == [e \in Range(s) |-> DetectSideEffects(e)]
<1>1. /\ g["call"].nodes = CodeNodes(s, Callable, NoBoundary(s), NoEffects(s))
      /\ g["data_flow"].nodes = CodeNodes(s, Runnable, NoBoundary(s), NoEffects(s))
      /\ g["control_flow"].nodes = CodeNodes(s, Callable, NoBoundary(s), effects)
  BY DEF BuildAll, CallGraph, DataFlow, ControlFlow
<1> HIDE DEF effects
<1>2. Runnable \subseteq Callable
  BY DEF Runnable, Callable
<1>3. id \in CodeIds(s, Callable)
  BY LayerIdsAre
<1>4. id[1] \in Files
  BY <1>3, LayerIdsAre
<1>5. CASE l = "call"
  <2>1. g["call"].nodes[id].type \in Callable /\ g["call"].nodes[id].file = id[1]
    BY <1>1, <1>3, CodeNodeIs
  <2> QED BY <1>4, <1>5, <2>1
<1>6. CASE l = "data_flow"
  <2>1. id \in CodeIds(s, Runnable)
    BY <1>6, LayerIdsAre
  <2>2. g["data_flow"].nodes[id].type \in Runnable /\ g["data_flow"].nodes[id].file = id[1]
    BY <1>1, <2>1, CodeNodeIs
  <2> QED BY <1>2, <1>4, <1>6, <2>2
<1>7. CASE l = "control_flow"
  <2>1. g["control_flow"].nodes[id].type \in Callable /\ g["control_flow"].nodes[id].file = id[1]
    BY <1>1, <1>3, CodeNodeIs
  <2> QED BY <1>4, <1>7, <2>1
<1> QED BY <1>5, <1>6, <1>7

\* What is generated is made from code, which knows its file, and from sensitive data.
LEMMA CodeSectionsAre ==
  ASSUME NEW s \in Seq(Entity), NEW pick \in AuthPicks, NEW g, g = BuildAll(s, pick),
         NEW c \in NodesOfType(g, {"class", "function", "datamodel"})
  PROVE  /\ (c[2][1] \in Files /\ NodeOf(g, c).file = c[2][1]) \/ c[2][1] = "sensitive"
         /\ c[2][1] # "module"
<1> PICK l \in Layers : \E id \in DOMAIN g[l].nodes :
      c = <<l, id>> /\ g[l].nodes[id].type \in {"class", "function", "datamodel"}
  BY DEF NodesOfType
<1>1. PICK id \in DOMAIN g[l].nodes : c = <<l, id>> /\ g[l].nodes[id].type \in {"class", "function", "datamodel"}
  OBVIOUS
<1>2. c[1] = l /\ c[2] = id /\ NodeOf(g, c) = g[l].nodes[id]
  BY <1>1 DEF NodeOf
<1>3. Layers = {"call", "data_flow", "control_flow", "dependency", "state_transition", "resource",
                "security", "deployment"}
  BY LayersAssumption DEF LayerOrder, Range
<1>4. (id[1] \in Files /\ g[l].nodes[id].file = id[1]) \/ id[1] = "sensitive"
  <2>1. CASE l \in {"call", "data_flow", "control_flow"}
    BY <1>1, <2>1, EntityNodesAre
  <2>4. CASE l = "dependency"
    BY <1>1, <2>4, ModuleNodesAre
  <2>5. CASE l = "state_transition"
    <3>1. id \in CodeIds(s, Callable)
      BY <1>1, <2>5, LayerIdsAre
    <3> QED BY <1>1, <2>5, <3>1, LayerIdsAre, StateNodesAre
  <2>6. CASE l = "resource"
    BY <1>1, <2>6, LayerIdsAre, ResourceNodesAre
  <2>7. CASE l = "security"
    BY <1>1, <2>7, LayerIdsAre, SecurityNodesAre
  <2>8. CASE l = "deployment"
    BY <1>1, <2>8, DeploymentNodesAre
  <2> QED BY <1>3, <2>1, <2>4, <2>5, <2>6, <2>7, <2>8
<1>5. id[1] # "module"
  BY <1>4, CodeGraphAssumption DEF MadeUpPrefixes
<1> QED BY <1>2, <1>4, <1>5

LEMMA ModuleSectionsAre ==
  ASSUME NEW s \in Seq(Entity), NEW pick \in AuthPicks, NEW g, g = BuildAll(s, pick)
  PROVE  LET imports == OfKinds(s, {"import"})
             modules == NodesOfType(g, {"module"})
         IN  /\ \A m \in modules :
                  /\ m[2][1] = "module"
                  /\ \/ \E e \in imports : m[2][2] = e.file /\ NodeOf(g, m).file = e.file
                     \/ NodeOf(g, m).file = NoFile /\ m[2][2] \in (UNION {e.imports : e \in imports}) \ Dotted
             /\ \A e \in imports : \E m \in modules : NodeOf(g, m).file = e.file
             /\ NodesOfType(g, {"package"}) # {}
<1>1. Layers = {"call", "data_flow", "control_flow", "dependency", "state_transition", "resource",
                "security", "deployment"}
  BY LayersAssumption DEF LayerOrder, Range
<1>2. ASSUME NEW m \in NodesOfType(g, {"module"})
      PROVE  m[1] = "dependency" /\ m[2] \in DOMAIN g["dependency"].nodes
             /\ NodeOf(g, m) = g["dependency"].nodes[m[2]] /\ NodeOf(g, m).type = "module"
  <2> PICK l \in Layers : \E id \in DOMAIN g[l].nodes : m = <<l, id>> /\ g[l].nodes[id].type = "module"
    BY DEF NodesOfType
  <2>1. PICK id \in DOMAIN g[l].nodes : m = <<l, id>> /\ g[l].nodes[id].type = "module"
    OBVIOUS
  <2>2. m[1] = l /\ m[2] = id
    BY <2>1
  <2>3. l = "dependency"
    <3>1. l \notin {"call", "data_flow", "control_flow"}
      BY <2>1, EntityNodesAre DEF Callable
    <3>2. l # "state_transition"
      BY <2>1, StateNodesAre
    <3>3. l # "resource"
      BY <2>1, ResourceNodesAre DEF Runnable
    <3>4. l # "security"
      BY <2>1, SecurityNodesAre DEF Callable
    <3>5. l # "deployment"
      BY <2>1, DeploymentNodesAre
    <3> QED BY <1>1, <3>1, <3>2, <3>3, <3>4, <3>5
  <2> QED BY <2>1, <2>2, <2>3 DEF NodeOf
<1>3. \A id \in DOMAIN g["dependency"].nodes :
        \A type : g["dependency"].nodes[id].type = type => <<"dependency", id>> \in NodesOfType(g, {type})
  BY <1>1 DEF NodesOfType
<1>4. \A id : NodeOf(g, <<"dependency", id>>) = g["dependency"].nodes[id]
  BY DEF NodeOf
<1> DEFINE imports == OfKinds(s, {"import"})
           names == UNION {e.imports : e \in imports}
           modules == NodesOfType(g, {"module"})
<1>5. \A m \in modules :
        /\ m[2][1] = "module"
        /\ \/ \E e \in imports : m[2][2] = e.file /\ NodeOf(g, m).file = e.file
           \/ NodeOf(g, m).file = NoFile /\ m[2][2] \in names \ Dotted
  BY <1>2, ModuleNodesAre
<1>6. \A e \in imports : \E m \in modules : NodeOf(g, m).file = e.file
  <2> TAKE e \in imports
  <2> DEFINE id == <<"module", e.file>>
  <2>1. /\ id \in DOMAIN g["dependency"].nodes /\ g["dependency"].nodes[id].type = "module"
        /\ g["dependency"].nodes[id].file = e.file
    BY ModuleNodesAre
  <2> HIDE DEF id
  <2>2. <<"dependency", id>> \in modules /\ NodeOf(g, <<"dependency", id>>).file = e.file
    BY <1>3, <1>4, <2>1
  <2> QED BY <2>2
<1>7. NodesOfType(g, {"package"}) # {}
  <2> DEFINE id == <<"repo", Repo>>
  <2>1. id \in DOMAIN g["dependency"].nodes /\ g["dependency"].nodes[id].type = "package"
    BY ModuleNodesAre
  <2> HIDE DEF id
  <2>2. <<"dependency", id>> \in NodesOfType(g, {"package"})
    BY <1>3, <2>1
  <2> QED BY <2>2
<1> QED BY <1>5, <1>6, <1>7

\* Edges from modules lead to modules, so no file of a module has a section in it.
LEMMA NoChildren ==
  ASSUME NEW s \in Seq(Entity), NEW pick \in AuthPicks, NEW g, g = BuildAll(s, pick), NEW m \in NodesOfType(g, {"module"})
  PROVE  ChildrenOf(g, m[2], NodesOfType(g, {"class", "function", "datamodel"})) = {}
<1> DEFINE coded == NodesOfType(g, {"class", "function", "datamodel"})
<1>1. m[2][1] = "module"
  BY ModuleSectionsAre
<1>2. ASSUME NEW c \in coded, c[2] \in Successors(KnownEdges(g), m[2]) PROVE FALSE
  <2>1. PICK a \in KnownEdges(g) : a[1] = m[2] /\ a[2] = c[2]
    BY <1>2 DEF Successors
  <2>2. a \in EdgeKeys(g) /\ a[1][1] = "module"
    BY <1>1, <2>1 DEF KnownEdges
  <2>3. a[2][1] = "module"
    BY <2>2, ModuleEdgesAre
  <2> QED BY <2>1, <2>3, CodeSectionsAre
<1> HIDE DEF coded
<1> QED BY <1>2 DEF ChildrenOf, coded

\* Nothing but being in a file that imports puts code under a module.
LEMMA UnderModulesIs ==
  ASSUME NEW s \in Seq(Entity), NEW pick \in AuthPicks, NEW g, g = BuildAll(s, pick),
         NEW c \in NodesOfType(g, {"class", "function", "datamodel"}), c[2][1] \in Files
  PROVE  IsUnderModules(g, c, NodesOfType(g, {"module"})) <=> \E e \in OfKinds(s, {"import"}) : e.file = c[2][1]
<1> DEFINE modules == NodesOfType(g, {"module"})
           imports == OfKinds(s, {"import"})
<1>1. ParentsOf(g, c[2]) \cap {m[2] : m \in modules} = {}
  <2> SUFFICES ASSUME NEW m \in modules, m[2] \in ParentsOf(g, c[2]) PROVE FALSE
    OBVIOUS
  <2>1. PICK a \in KnownEdges(g) : a[1] = m[2] /\ a[2] = c[2]
    BY DEF ParentsOf, Predecessors
  <2>2. a \in EdgeKeys(g) /\ a[1][1] = "module"
    BY <2>1, ModuleSectionsAre DEF KnownEdges
  <2>3. a[2][1] = "module"
    BY <2>2, ModuleEdgesAre
  <2> QED BY <2>1, <2>3, CodeSectionsAre
<1>2. NodeOf(g, c).file = c[2][1] /\ NodeOf(g, c).file # NoFile
  BY CodeSectionsAre, CodeGraphAssumption DEF MadeUpPrefixes
<1>3. (\E m \in modules : NodeOf(g, m).file = c[2][1]) <=> \E e \in imports : e.file = c[2][1]
  <2>1. \A m \in modules : NodeOf(g, m).file = NoFile \/ \E e \in imports : NodeOf(g, m).file = e.file
    BY ModuleSectionsAre
  <2>2. \A e \in imports : \E m \in modules : NodeOf(g, m).file = e.file
    BY ModuleSectionsAre
  <2> HIDE DEF modules, imports
  <2> QED BY <1>2, <2>1, <2>2
<1> HIDE DEF modules, imports
<1> QED BY <1>1, <1>2, <1>3 DEF IsUnderModules, modules, imports

LEMMA SectionsAre ==
  ASSUME NEW g, NEW S
  PROVE  {k.node : k \in Sections(g, S)} = {c[2] : c \in S}
<1>1. \A c \in S : Section(g, c).node = c[2]
  BY DEF Section
<1> QED BY <1>1 DEF Sections

\* Only the file named after the repository has sections, and only the ones whose source
\* file imports nothing.
LEMMA GenerateIs ==
  ASSUME NEW s \in Seq(Entity), NEW pick \in AuthPicks, NEW g, g = BuildAll(s, pick)
  PROVE  LET modules == NodesOfType(g, {"module"})
             coded == NodesOfType(g, {"class", "function", "datamodel"})
             orphans == {c \in coded : ~IsUnderModules(g, c, modules)}
             paths == {ModulePath(g, m) : m \in modules}
             made == Generate(g)
         IN  /\ \A p \in DOMAIN made : \A k \in made[p] : k.node \in {c[2] : c \in orphans}
             /\ orphans # {} /\ PyFile[Repo] \notin paths =>
                  /\ PyFile[Repo] \in DOMAIN made
                  /\ {k.node : k \in made[PyFile[Repo]]} = {c[2] : c \in orphans}
<1> DEFINE modules == NodesOfType(g, {"module"})
           coded == NodesOfType(g, {"class", "function", "datamodel"})
           orphans == {c \in coded : ~IsUnderModules(g, c, modules)}
           paths == {ModulePath(g, m) : m \in modules}
           Module(p) == CHOOSE m \in modules : ModulePath(g, m) = p
           single == IF orphans = {} THEN {} ELSE {PyFile[Repo]} \ paths
           made == Generate(g)
<1>1. NodesOfType(g, {"package"}) # {}
  BY ModuleSectionsAre
<1>2. made = [p \in paths \cup single |->
                IF p \in paths THEN Sections(g, ChildrenOf(g, Module(p)[2], coded)) ELSE Sections(g, orphans)]
  BY <1>1 DEF Generate
<1>3. \A p \in paths : Module(p) \in modules
  OBVIOUS
<1>4. \A p \in paths : ChildrenOf(g, Module(p)[2], coded) = {}
  <2> HIDE DEF Module, paths
  <2> QED BY <1>3, NoChildren
<1>5. Sections(g, {}) = {}
  BY DEF Sections
<1>6. {k.node : k \in Sections(g, orphans)} = {c[2] : c \in orphans}
  <2> HIDE DEF orphans
  <2> QED BY SectionsAre
<1>7. DOMAIN made = paths \cup single /\ \A p \in paths \cup single : made[p] = IF p \in paths THEN {} ELSE Sections(g, orphans)
  <2> HIDE DEF made, orphans, paths, single, Module, coded
  <2> QED BY <1>2, <1>4, <1>5
<1> HIDE DEF made, orphans, paths
<1>8. ASSUME NEW p \in DOMAIN made, NEW k \in made[p]
      PROVE  k.node \in {c[2] : c \in orphans}
  <2>1. k \in Sections(g, orphans)
    BY <1>7
  <2> QED BY <1>6, <2>1
<1>9. ASSUME orphans # {}, PyFile[Repo] \notin paths
      PROVE  PyFile[Repo] \in DOMAIN made /\ {k.node : k \in made[PyFile[Repo]]} = {c[2] : c \in orphans}
  BY <1>6, <1>7, <1>9
<1> QED BY <1>8, <1>9 DEF made, orphans, paths

\* Every class of a file that imports nothing is written, unless the path of the file named
\* after the repository is taken by a module.
THEOREM ImportFreeIsWritten == Spec => []ImportFreeGenerated
<1>1. IInv => ImportFreeGenerated
  <2> SUFFICES ASSUME IInv, code # <<>> PROVE ImportFreeGenerated
    BY DEF ImportFreeGenerated
  <2> DEFINE imports == OfKinds(entities, {"import"})
             importing == {e.file : e \in imports}
             written == UNION {{k.node : k \in code[p]} : p \in DOMAIN code}
             taken == PyFile[Repo] \in importing \cup {PyFile[n] : n \in (UNION {e.imports : e \in Range(entities)}) \ Dotted}
             modules == NodesOfType(graph, {"module"})
             coded == NodesOfType(graph, {"class", "function", "datamodel"})
             orphans == {c \in coded : ~IsUnderModules(graph, c, modules)}
             paths == {ModulePath(graph, m) : m \in modules}
  <2>1. PICK pick \in AuthPicks : graph = BuildAll(entities, pick) /\ entities \in Seq(Entity) /\ code = Generate(graph)
    BY DEF IInv, PipelineInv, ParserInv
  <2>2. orphans # {} /\ PyFile[Repo] \notin paths =>
          PyFile[Repo] \in DOMAIN code /\ {k.node : k \in code[PyFile[Repo]]} = {c[2] : c \in orphans}
    BY <2>1, GenerateIs
  <2>3. importing \subseteq Files
    BY <2>1, EntityIs DEF OfKinds
  <2>6. ASSUME ~taken PROVE PyFile[Repo] \notin paths
    <3> SUFFICES ASSUME NEW m \in modules, PyFile[Repo] = ModulePath(graph, m) PROVE FALSE
      OBVIOUS
    <3>1. \/ \E e \in imports : m[2][2] = e.file /\ NodeOf(graph, m).file = e.file
          \/ NodeOf(graph, m).file = NoFile /\ m[2][2] \in (UNION {e.imports : e \in imports}) \ Dotted
      BY <2>1, ModuleSectionsAre
    <3>2. CASE \E e \in imports : m[2][2] = e.file /\ NodeOf(graph, m).file = e.file
      <4>1. NodeOf(graph, m).file \in importing
        BY <3>2
      <4>2. NodeOf(graph, m).file # NoFile
        BY <2>3, <4>1, CodeGraphAssumption
      <4>3. PyFile[Repo] \in importing
        BY <4>1, <4>2 DEF ModulePath
      <4> QED BY <2>6, <4>3
    <3>3. CASE NodeOf(graph, m).file = NoFile /\ m[2][2] \in (UNION {e.imports : e \in imports}) \ Dotted
      <4>1. m[2][2] \in (UNION {e.imports : e \in Range(entities)}) \ Dotted
        BY <3>3 DEF OfKinds
      <4>2. PyFile[Repo] = PyFile[m[2][2]]
        BY <3>3 DEF ModulePath
      <4> QED BY <2>6, <4>1, <4>2
    <3> QED BY <3>1, <3>2, <3>3
  <2>7. ASSUME ~taken, NEW e \in OfKinds(entities, {"class"}), e.file \notin importing PROVE CodeId(e) \in written
    <3> DEFINE c == <<"state_transition", CodeId(e)>>
    <3>1. CodeId(e) \in CodeIds(entities, {"class"}) /\ c[2] = CodeId(e) /\ CodeId(e)[1] = e.file /\ e.file \in Files
      BY <2>1, MoreKindsMoreIds, EntityIs DEF CodeId, OfKinds
    <3>2. c \in coded
      <4>1. "state_transition" \in Layers
        BY LayersAssumption DEF LayerOrder, Range
      <4>2. /\ CodeId(e) \in DOMAIN graph["state_transition"].nodes
            /\ graph["state_transition"].nodes[CodeId(e)].type = "class"
        BY <2>1, <3>1, StateNodesAre
      <4> QED BY <4>1, <4>2 DEF NodesOfType
    <3> HIDE DEF c
    <3>3. ~IsUnderModules(graph, c, modules)
      <4>1. ~ \E f \in imports : f.file = c[2][1]
        BY <2>7, <3>1
      <4> QED BY <2>1, <3>1, <3>2, <4>1, UnderModulesIs
    <3>4. c \in orphans
      BY <3>2, <3>3
    <3> HIDE DEF orphans, paths, taken
    <3>5. PyFile[Repo] \in DOMAIN code /\ CodeId(e) \in {k.node : k \in code[PyFile[Repo]]}
      BY <2>2, <2>6, <2>7, <3>1, <3>4
    <3> QED BY <3>5
  <2> HIDE DEF written, taken, importing
  <2>8. ~taken => \A e \in OfKinds(entities, {"class"}) : e.file \notin importing => CodeId(e) \in written
    BY <2>7
  <2> QED BY <2>8 DEF ImportFreeGenerated, WrittenIds, written, taken, importing
<1> QED BY <1>1, Safety, PTL
=============================================================================
