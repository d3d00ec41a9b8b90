--------------------- MODULE OptimizationPipelineProofs ---------------------
(***************************************************************************)
(* What the optimisation pipeline promises for any graph, entry points and *)
(* layers.  The traces that the verification compares are characterised as *)
(* walks, which makes its test a comparison of reachability; each pass is  *)
(* shown to make no id reachable that was not, and the test to lose none.  *)
(***************************************************************************)
EXTENDS OptimizationPipeline, FiniteLemmas, SequenceTheorems

(***************************************************************************)
(* Traces.  A walk of the search ends at an id without successors, at the  *)
(* first id that it has been at before, or at the depth limit.             *)
(***************************************************************************)
Ends(next, t, i) == next[t[i]] = {} \/ i > MaxTraceDepth \/ \E j \in 1 .. i - 1 : t[j] = t[i]
Continues(path, t) == Len(path) =< Len(t) /\ \A i \in 1 .. Len(path) : t[i] = path[i]
IsTrace(next, path, t) ==
  /\ Continues(path, t)
  /\ \A i \in Len(path) .. Len(t) - 1 : ~Ends(next, t, i) /\ t[i + 1] \in next[t[i]]
  /\ Ends(next, t, Len(t))
TracesFrom(valid, next, path) == {t \in Seq(valid) : IsTrace(next, path, t)}

\* What has been walked decides whether the walk ends there.
LEMMA EndsByPrefix ==
  ASSUME NEW next, NEW path, NEW t, Continues(path, t), NEW i \in 1 .. Len(path), Len(path) \in Nat
  PROVE  Ends(next, t, i) <=> Ends(next, path, i)
<1>1. t[i] = path[i] /\ \A j \in 1 .. i - 1 : t[j] = path[j]
  BY DEF Continues
<1> QED BY <1>1 DEF Ends

LEMMA AppendIs ==
  ASSUME NEW S, NEW p \in Seq(S), NEW x \in S
  PROVE  /\ Append(p, x) \in Seq(S) /\ Append(p, x) # <<>> /\ Len(p) \in Nat
         /\ Len(Append(p, x)) = Len(p) + 1 /\ Append(p, x)[Len(p) + 1] = x
         /\ \A i \in 1 .. Len(p) : Append(p, x)[i] = p[i]
BY AppendProperties, LenProperties

\* The traces from a path are itself, if it ends, or those from its extensions.
LEMMA TraceStep ==
  ASSUME NEW valid, NEW next \in [valid -> SUBSET valid], NEW path \in Seq(valid) \ {<<>>}
  PROVE  TracesFrom(valid, next, path) =
           IF Ends(next, path, Len(path)) THEN {path}
           ELSE UNION {TracesFrom(valid, next, Append(path, s)) : s \in next[path[Len(path)]]}
<1> DEFINE k == Len(path)
<1>1. path \in Seq(valid) /\ k \in Nat /\ k # 0 /\ path[k] \in valid /\ DOMAIN path = 1 .. k
  OBVIOUS
<1>2. \A t : Continues(path, t) => (Ends(next, t, k) <=> Ends(next, path, k)) /\ t[k] = path[k]
  <2> SUFFICES ASSUME NEW t, Continues(path, t)
               PROVE  (Ends(next, t, k) <=> Ends(next, path, k)) /\ t[k] = path[k]
    OBVIOUS
  <2>1. k \in 1 .. Len(path) /\ Len(path) \in Nat
    BY <1>1
  <2> QED BY <2>1, EndsByPrefix DEF Continues
<1>3. CASE Ends(next, path, k)
  <2>1. path \in TracesFrom(valid, next, path)
    BY <1>1, <1>3 DEF TracesFrom, IsTrace, Continues
  <2>2. ASSUME NEW t \in TracesFrom(valid, next, path) PROVE t = path
    <3>1. t \in Seq(valid) /\ Len(t) \in Nat /\ Continues(path, t) /\ DOMAIN t = 1 .. Len(t)
      BY DEF TracesFrom, IsTrace
    <3>2. Len(t) = k
      <4>1. k =< Len(t) /\ \A i \in k .. Len(t) - 1 : ~Ends(next, t, i)
        BY DEF TracesFrom, IsTrace, Continues
      <4>2. Ends(next, t, k)
        BY <1>2, <1>3, <3>1
      <4>3. k \notin k .. Len(t) - 1
        BY <4>1, <4>2
      <4>4. \A a, b \in Nat : a =< b /\ a \notin a .. b - 1 => b = a
        OBVIOUS
      <4>5. k \in Nat /\ Len(t) \in Nat
        BY <1>1, <3>1
      <4> HIDE DEF k
      <4> QED BY <4>1, <4>3, <4>4, <4>5
    <3> QED BY <1>1, <3>1, <3>2, SeqEqual DEF Continues
  <2> QED BY <1>3, <2>1, <2>2
<1>4. CASE ~Ends(next, path, k)
  <2>1. ASSUME NEW s \in valid
        PROVE  /\ Append(path, s) \in Seq(valid) /\ Len(Append(path, s)) = k + 1
               /\ Append(path, s)[k + 1] = s /\ \A i \in 1 .. k : Append(path, s)[i] = path[i]
    BY <1>1
  <2>2. ASSUME NEW t \in TracesFrom(valid, next, path)
        PROVE  \E s \in next[path[k]] : t \in TracesFrom(valid, next, Append(path, s))
    <3>1. /\ t \in Seq(valid) /\ Len(t) \in Nat /\ Continues(path, t) /\ Ends(next, t, Len(t))
          /\ \A i \in k .. Len(t) - 1 : ~Ends(next, t, i) /\ t[i + 1] \in next[t[i]]
      BY DEF TracesFrom, IsTrace
    <3>2. Len(t) >= k + 1
      BY <1>1, <1>2, <1>4, <3>1 DEF Continues
    <3>3. t[k + 1] \in next[path[k]] /\ t[k + 1] \in valid
      <4>1. k \in k .. Len(t) - 1
        BY <1>1, <3>1, <3>2
      <4>2. t[k + 1] \in next[t[k]] /\ t[k] = path[k]
        BY <1>2, <3>1, <4>1
      <4> QED BY <1>1, <4>2
    <3>4. Continues(Append(path, t[k + 1]), t)
      <4>1. Len(Append(path, t[k + 1])) = k + 1
        BY <2>1, <3>3
      <4>2. ASSUME NEW i \in 1 .. k + 1 PROVE t[i] = Append(path, t[k + 1])[i]
        <5>1. CASE i = k + 1
          BY <2>1, <3>3, <5>1
        <5>2. CASE i \in 1 .. k
          BY <2>1, <3>1, <3>3, <5>2 DEF Continues
        <5> QED BY <1>1, <5>1, <5>2
      <4> QED BY <3>2, <4>1, <4>2 DEF Continues
    <3>5. \A i \in k + 1 .. Len(t) - 1 : ~Ends(next, t, i) /\ t[i + 1] \in next[t[i]]
      BY <1>1, <3>1
    <3>6. IsTrace(next, Append(path, t[k + 1]), t)
      BY <2>1, <3>1, <3>3, <3>4, <3>5 DEF IsTrace
    <3> QED BY <3>1, <3>3, <3>6 DEF TracesFrom
  <2>3. ASSUME NEW s \in next[path[k]], NEW t \in TracesFrom(valid, next, Append(path, s))
        PROVE  t \in TracesFrom(valid, next, path)
    <3>0. s \in valid
      BY <1>1
    <3>1. /\ t \in Seq(valid) /\ Len(t) \in Nat /\ Continues(Append(path, s), t) /\ Ends(next, t, Len(t))
          /\ \A i \in k + 1 .. Len(t) - 1 : ~Ends(next, t, i) /\ t[i + 1] \in next[t[i]]
      BY <2>1, <3>0 DEF TracesFrom, IsTrace
    <3>2. Continues(path, t) /\ t[k + 1] = s /\ t[k] = path[k]
      BY <1>1, <2>1, <3>0, <3>1 DEF Continues
    <3>3. ~Ends(next, t, k)
      BY <1>2, <1>4, <3>2
    <3>4. \A i \in k .. Len(t) - 1 : ~Ends(next, t, i) /\ t[i + 1] \in next[t[i]]
      <4> SUFFICES ASSUME NEW i \in k .. Len(t) - 1
                   PROVE  ~Ends(next, t, i) /\ t[i + 1] \in next[t[i]]
        OBVIOUS
      <4>1. CASE i = k
        BY <3>2, <3>3, <4>1
      <4>2. CASE i # k
        <5> HIDE DEF k
        <5>1. i \in k + 1 .. Len(t) - 1
          BY <1>1, <3>1, <4>2
        <5> QED BY <3>1, <5>1
      <4> QED BY <4>1, <4>2
    <3> QED BY <3>1, <3>2, <3>4 DEF TracesFrom, IsTrace
  <2>4. \A t : t \in TracesFrom(valid, next, path)
               <=> \E s \in next[path[k]] : t \in TracesFrom(valid, next, Append(path, s))
    BY <2>2, <2>3
  <2> HIDE DEF k
  <2>5. TracesFrom(valid, next, path) = UNION {TracesFrom(valid, next, Append(path, s)) : s \in next[path[k]]}
    BY <2>4
  <2> QED BY <1>4, <2>5 DEF k
<1> QED BY <1>3, <1>4

\* The search as it is written: what a path leads to is the path or what its extensions
\* lead to.
Searches(valid, next, F) ==
  F = [path \in Seq(valid) \ {<<>>} |->
         IF Ends(next, path, Len(path)) THEN {path}
         ELSE UNION {F[Append(path, s)] : s \in next[path[Len(path)]]}]

\* In a set of paths that has, with every path, an extension by an id the path has been at
\* or a longer one, some path repeats an id: paths among finitely many ids run out of them.
LEMMA PathsRepeat ==
  ASSUME NEW valid, IsFiniteSet(valid), NEW next \in [valid -> SUBSET valid],
         NEW bad \in SUBSET (Seq(valid) \ {<<>>}),
         \A path \in bad : /\ ~Ends(next, path, Len(path))
                           /\ \E s \in valid : Append(path, s) \in bad
  PROVE  bad = {}
<1> SUFFICES ASSUME bad # {} PROVE FALSE
  OBVIOUS
<1> DEFINE At(path) == {path[i] : i \in 1 .. Len(path)}
           places == {At(path) : path \in bad}
<1>1. places \in SUBSET SUBSET valid /\ places # {}
  <2>1. \A path \in Seq(valid) : At(path) \subseteq valid
    OBVIOUS
  <2>2. \A path \in bad : At(path) \in SUBSET valid
    BY <2>1
  <2> HIDE DEF At
  <2> QED BY <2>2
<1>2. PICK top \in places : \A U \in places : top \subseteq U => U = top
  <2> HIDE DEF places
  <2> QED BY <1>1, MaximalSubset
<1>3. PICK path \in bad : top = At(path)
  BY <1>2
<1>4. PICK s \in valid : Append(path, s) \in bad
  BY <1>3
<1> DEFINE longer == Append(path, s)
           k == Len(path)
<1>5. /\ k \in Nat /\ Len(longer) = k + 1 /\ longer[k + 1] = s
      /\ \A i \in 1 .. k : longer[i] = path[i]
  <2>1. path \in Seq(valid)
    BY <1>3
  <2>2. /\ Len(Append(path, s)) = Len(path) + 1 /\ Append(path, s)[Len(path) + 1] = s
        /\ \A i \in 1 .. Len(path) : Append(path, s)[i] = path[i]
    BY <2>1
  <2>3. Len(path) \in Nat
    BY <2>1, LenProperties, Zenon
  <2> QED BY <2>2, <2>3, Zenon
<1>6. ~Ends(next, longer, k + 1)
  BY <1>4, <1>5
<1>7. s \notin At(path)
  <2> SUFFICES ASSUME NEW i \in 1 .. k, path[i] = s PROVE FALSE
    OBVIOUS
  <2>1. longer[i] = longer[k + 1] /\ i \in 1 .. (k + 1) - 1
    BY <1>5
  <2> HIDE DEF longer, k
  <2> QED BY <1>6, <2>1 DEF Ends
<1>8. At(path) \subseteq At(longer) /\ s \in At(longer)
  <2>1. \A i \in 1 .. k : i \in 1 .. Len(longer) /\ longer[i] = path[i]
    BY <1>5
  <2>2. k + 1 \in 1 .. Len(longer)
    BY <1>5
  <2> HIDE DEF longer
  <2> QED BY <1>5, <2>1, <2>2
<1>9. At(longer) \in places
  BY <1>4
<1> HIDE DEF At, places
<1> QED BY <1>2, <1>3, <1>7, <1>8, <1>9

\* The recursion of the search is defined, and gives the traces.
LEMMA SearchFindsTraces ==
  ASSUME NEW valid, IsFiniteSet(valid), NEW next \in [valid -> SUBSET valid],
         NEW path \in Seq(valid) \ {<<>>}
  PROVE  (CHOOSE F : Searches(valid, next, F))[path] = TracesFrom(valid, next, path)
<1> DEFINE D == Seq(valid) \ {<<>>}
           all == [p \in D |-> TracesFrom(valid, next, p)]
           F == CHOOSE G : Searches(valid, next, G)
<1>1. \A p \in D : p[Len(p)] \in valid /\ \A s \in valid : Append(p, s) \in D
  OBVIOUS
<1>2. Searches(valid, next, all)
  <2>1. \A p \in D : /\ all[p] = TracesFrom(valid, next, p)
                     /\ \A s \in next[p[Len(p)]] : all[Append(p, s)] = TracesFrom(valid, next, Append(p, s))
    BY <1>1
  <2>2. \A p \in D : all[p] = IF Ends(next, p, Len(p)) THEN {p}
                              ELSE UNION {all[Append(p, s)] : s \in next[p[Len(p)]]}
    <3> SUFFICES ASSUME NEW p \in D
                 PROVE  all[p] = IF Ends(next, p, Len(p)) THEN {p}
                                 ELSE UNION {all[Append(p, s)] : s \in next[p[Len(p)]]}
      OBVIOUS
    <3>1. all[p] = IF Ends(next, p, Len(p)) THEN {p}
                   ELSE UNION {TracesFrom(valid, next, Append(p, s)) : s \in next[p[Len(p)]]}
      BY TraceStep
    <3>2. {TracesFrom(valid, next, Append(p, s)) : s \in next[p[Len(p)]]}
            = {all[Append(p, s)] : s \in next[p[Len(p)]]}
      <4> HIDE DEF all, D
      <4> QED BY <2>1
    <3> QED BY <3>1, <3>2, Zenon
  <2> QED BY <2>2 DEF Searches
<1>3. Searches(valid, next, F)
  BY <1>2
<1>4. \A p \in D : F[p] = IF Ends(next, p, Len(p)) THEN {p}
                          ELSE UNION {F[Append(p, s)] : s \in next[p[Len(p)]]}
  BY <1>3 DEF Searches
<1> DEFINE bad == {p \in D : F[p] # TracesFrom(valid, next, p)}
<1> HIDE DEF F
<1>5. ASSUME NEW p \in bad
      PROVE  ~Ends(next, p, Len(p)) /\ \E s \in valid : Append(p, s) \in bad
  <2>1. p \in D /\ F[p] # TracesFrom(valid, next, p)
    OBVIOUS
  <2>2. ~Ends(next, p, Len(p))
    BY <1>4, <2>1, TraceStep
  <2>3. UNION {F[Append(p, s)] : s \in next[p[Len(p)]]}
          # UNION {TracesFrom(valid, next, Append(p, s)) : s \in next[p[Len(p)]]}
    BY <1>4, <2>1, <2>2, TraceStep
  <2>4. PICK s \in next[p[Len(p)]] : F[Append(p, s)] # TracesFrom(valid, next, Append(p, s))
    BY <2>3
  <2>5. s \in valid /\ Append(p, s) \in D
    BY <1>1, <2>1, <2>4
  <2> QED BY <2>2, <2>4, <2>5
<1>6. bad = {}
  <2>1. bad \in SUBSET (Seq(valid) \ {<<>>})
    OBVIOUS
  <2> HIDE DEF bad
  <2> QED BY <1>5, <2>1, PathsRepeat
<1> QED BY <1>6 DEF F

\* Every path goes on to a trace.
LEMMA PathsGoOn ==
  ASSUME NEW valid, IsFiniteSet(valid), NEW next \in [valid -> SUBSET valid],
         NEW path \in Seq(valid) \ {<<>>}
  PROVE  TracesFrom(valid, next, path) # {}
<1> DEFINE bad == {p \in Seq(valid) \ {<<>>} : TracesFrom(valid, next, p) = {}}
<1>1. ASSUME NEW p \in bad
      PROVE  ~Ends(next, p, Len(p)) /\ \E s \in valid : Append(p, s) \in bad
  <2>1. p \in Seq(valid) \ {<<>>} /\ TracesFrom(valid, next, p) = {}
    OBVIOUS
  <2>2. ~Ends(next, p, Len(p))
    BY <2>1, TraceStep
  <2>3. UNION {TracesFrom(valid, next, Append(p, s)) : s \in next[p[Len(p)]]} = {}
    BY <2>1, <2>2, TraceStep
  <2>4. p[Len(p)] \in valid /\ next[p[Len(p)]] # {}
    BY <2>1, <2>2 DEF Ends
  <2>5. PICK s \in next[p[Len(p)]] : TracesFrom(valid, next, Append(p, s)) = {}
    BY <2>3, <2>4
  <2>6. s \in valid /\ Append(p, s) \in Seq(valid) \ {<<>>}
    BY <2>1, <2>4, <2>5
  <2> QED BY <2>2, <2>5, <2>6
<1>2. bad \in SUBSET (Seq(valid) \ {<<>>})
  OBVIOUS
<1>3. bad = {}
  <2> HIDE DEF bad
  <2> QED BY <1>1, <1>2, PathsRepeat
<1> QED BY <1>3

-----------------------------------------------------------------------------
(* Reachability.  What is reached from an id, itself included, is the least *)
(* set of ids that has it and is closed under the edges.                    *)
Reached(edges, n) == {n} \cup Descendants(edges, n)

LEMMA AllIdsFinite == IsFiniteSet(AllIds)
<1>1. IsFiniteSet({0, 1})
  <2>1. IsFiniteSet({}) /\ IsFiniteSet({} \cup {0})
    BY FS_EmptySet, FS_AddElement
  <2>2. IsFiniteSet(({} \cup {0}) \cup {1}) /\ ({} \cup {0}) \cup {1} = {0, 1}
    BY <2>1, FS_AddElement
  <2> QED BY <2>2
<1>2. IsFiniteSet(Parts)
  BY <1>1, GraphAssumption, FS_Product DEF Parts
<1> QED BY <1>2, GraphAssumption, FS_Union DEF AllIds

LEMMA ReachedFacts ==
  ASSUME NEW edges \in SUBSET (AllIds \X AllIds), NEW n \in AllIds
  PROVE  /\ Reached(edges, n) \in SUBSET AllIds /\ n \in Reached(edges, n)
         /\ Descendants(edges, n) = Reached(edges, n) \ {n}
         /\ IsClosed(edges, Reached(edges, n))
         /\ \A C \in SUBSET AllIds : n \in C /\ IsClosed(edges, C) => Reached(edges, n) \subseteq C
<1>1. \A e \in edges : e[2] \in AllIds
  OBVIOUS
<1> DEFINE reached == Closure(edges, AllIds)[{n}]
<1>2. /\ reached \in SUBSET AllIds /\ n \in reached /\ IsClosed(edges, reached)
      /\ \A C \in SUBSET AllIds : n \in C /\ IsClosed(edges, C) => reached \subseteq C
  BY <1>1, AllIdsFinite, ReachableFacts
<1>3. Descendants(edges, n) = reached \ {n}
  BY DEF Descendants
<1> HIDE DEF reached
<1>4. Reached(edges, n) = reached
  BY <1>2, <1>3 DEF Reached
<1> QED BY <1>2, <1>3, <1>4

\* What is reached from what is reached is reached.
LEMMA ReachedOn ==
  ASSUME NEW edges \in SUBSET (AllIds \X AllIds), NEW n \in AllIds, NEW m \in Reached(edges, n)
  PROVE  Reached(edges, m) \subseteq Reached(edges, n)
<1>1. m \in AllIds /\ Reached(edges, n) \in SUBSET AllIds /\ IsClosed(edges, Reached(edges, n))
  BY ReachedFacts
<1> QED BY <1>1, ReachedFacts

\* More edges reach more.
LEMMA ReachedByMore ==
  ASSUME NEW more \in SUBSET (AllIds \X AllIds), NEW edges \in SUBSET more, NEW n \in AllIds
  PROVE  Reached(edges, n) \subseteq Reached(more, n)
<1>1. edges \in SUBSET (AllIds \X AllIds)
  OBVIOUS
<1>2. /\ Reached(more, n) \in SUBSET AllIds /\ n \in Reached(more, n)
      /\ IsClosed(more, Reached(more, n))
  BY ReachedFacts
<1>3. IsClosed(edges, Reached(more, n))
  BY <1>2 DEF IsClosed
<1> QED BY <1>1, <1>2, <1>3, ReachedFacts

-----------------------------------------------------------------------------
(* The traces of a graph                                                    *)

IsGraph(g) == NodeIds(g) \in SUBSET AllIds /\ EdgeKeys(g) \in SUBSET (AllIds \X AllIds)
\* The successors that the search follows, with the first ones of the ids in first.
Taken(g, first) == [n \in NodeIds(g) |-> IF n \in DOMAIN first THEN first[n] ELSE ReachableFrom(g)[n]]

\* build_trace_set() returns the traces from the entry points.
LEMMA TracesAreWalks ==
  ASSUME NEW g, IsGraph(g), NEW first, Taken(g, first) \in [NodeIds(g) -> SUBSET NodeIds(g)]
  PROVE  BuildTraceSet(g, first)
           = UNION {TracesFrom(NodeIds(g), Taken(g, first), <<n>>) : n \in Entries \cap NodeIds(g)}
<1>1. BuildTraceSet(g, first)
        = UNION {(CHOOSE F : Searches(NodeIds(g), Taken(g, first), F))[<<n>>] : n \in Entries \cap NodeIds(g)}
  BY DEF BuildTraceSet, Searches, Ends, Taken
<1>2. IsFiniteSet(NodeIds(g))
  BY AllIdsFinite, FS_Subset DEF IsGraph
<1>3. ASSUME NEW n \in Entries \cap NodeIds(g)
      PROVE  (CHOOSE F : Searches(NodeIds(g), Taken(g, first), F))[<<n>>]
               = TracesFrom(NodeIds(g), Taken(g, first), <<n>>)
  <2>1. <<n>> \in Seq(NodeIds(g)) \ {<<>>}
    OBVIOUS
  <2> QED BY <1>2, <2>1, SearchFindsTraces
<1> QED BY <1>1, <1>3, Zenon

-----------------------------------------------------------------------------
(* The test of verify(): no trace is lost                                   *)

AllTraces(valid, next, entries) == UNION {TracesFrom(valid, next, <<n>>) : n \in entries \cap valid}
Walked(valid, next, entries) == UNION {{n} \cup next[n] : n \in entries \cap valid}

\* What the successors are in the searches of a graph: an id is no successor of its own, and,
\* if the search is not truncated, a successor of a successor is one.
IsSearch(valid, next) ==
  /\ IsFiniteSet(valid) /\ next \in [valid -> SUBSET valid]
  /\ \A n \in valid : n \notin next[n]
IsReach(valid, next) ==
  /\ IsSearch(valid, next)
  /\ \A n \in valid : \A m \in next[n] : next[m] \subseteq next[n] \cup {n}

\* There is a trace through an entry point, something it reaches, and something that reaches.
LEMMA TraceThrough ==
  ASSUME NEW valid, NEW next, IsSearch(valid, next), NEW entries, NEW e \in entries \cap valid
  PROVE  /\ \E t \in AllTraces(valid, next, entries) : t[1] = e
         /\ next[e] = {} => \E t \in AllTraces(valid, next, entries) : Len(t) = 1 /\ t[1] = e
         /\ \A n \in next[e] :
              /\ \E t \in AllTraces(valid, next, entries) : Len(t) >= 2 /\ t[1] = e /\ t[2] = n
              /\ next[n] = {} => \E t \in AllTraces(valid, next, entries) : Len(t) = 2 /\ t[1] = e /\ t[2] = n
              /\ \A m \in next[n] : \E t \in AllTraces(valid, next, entries) :
                   Len(t) >= 3 /\ t[1] = e /\ t[2] = n /\ t[3] = m
<1> DEFINE one == <<e>>
           D == Seq(valid) \ {<<>>}
<1>1. /\ IsFiniteSet(valid) /\ next \in [valid -> SUBSET valid] /\ e \in valid
      /\ \A n \in valid : n \notin next[n]
  BY DEF IsSearch
<1>2. TracesFrom(valid, next, one) \subseteq AllTraces(valid, next, entries)
  BY DEF AllTraces
<1>3. one \in D /\ one \in Seq(valid) /\ Len(one) = 1 /\ one[1] = e
  BY <1>1
<1> HIDE DEF one
<1>4. \A p \in D : TracesFrom(valid, next, p) # {}
  BY <1>1, PathsGoOn
<1>5. \A p \in D : IF Ends(next, p, Len(p)) THEN p \in TracesFrom(valid, next, p)
                   ELSE \A s \in next[p[Len(p)]] : TracesFrom(valid, next, Append(p, s)) \subseteq TracesFrom(valid, next, p)
  <2> SUFFICES ASSUME NEW p \in D
               PROVE  IF Ends(next, p, Len(p)) THEN p \in TracesFrom(valid, next, p)
                      ELSE \A s \in next[p[Len(p)]] : TracesFrom(valid, next, Append(p, s)) \subseteq TracesFrom(valid, next, p)
    OBVIOUS
  <2>1. TracesFrom(valid, next, p) =
          IF Ends(next, p, Len(p)) THEN {p}
          ELSE UNION {TracesFrom(valid, next, Append(p, s)) : s \in next[p[Len(p)]]}
    BY <1>1, TraceStep
  <2> QED BY <2>1
<1>6. ASSUME NEW p \in D, NEW t \in TracesFrom(valid, next, p), Len(p) \in Nat
      PROVE  Len(t) >= Len(p) /\ \A i \in 1 .. Len(p) : t[i] = p[i]
  BY <1>6 DEF TracesFrom, IsTrace, Continues
<1>7. Ends(next, one, 1) <=> next[e] = {}
  BY <1>3, PipelineAssumption DEF Ends
<1>8. \E t \in AllTraces(valid, next, entries) : t[1] = e
  <2>1. PICK t \in TracesFrom(valid, next, one) : TRUE
    BY <1>3, <1>4
  <2>2. t[1] = e
    BY <1>3, <1>6
  <2> QED BY <1>2, <2>2
<1>9. next[e] = {} => \E t \in AllTraces(valid, next, entries) : Len(t) = 1 /\ t[1] = e
  <2> SUFFICES ASSUME next[e] = {} PROVE one \in AllTraces(valid, next, entries)
    BY <1>3
  <2>1. Ends(next, one, Len(one))
    BY <1>3, <1>7
  <2> QED BY <1>2, <1>3, <1>5, <2>1
<1>10. ASSUME NEW n \in next[e]
      PROVE  /\ \E t \in AllTraces(valid, next, entries) : Len(t) >= 2 /\ t[1] = e /\ t[2] = n
             /\ next[n] = {} => \E t \in AllTraces(valid, next, entries) : Len(t) = 2 /\ t[1] = e /\ t[2] = n
             /\ \A m \in next[n] : \E t \in AllTraces(valid, next, entries) :
                  Len(t) >= 3 /\ t[1] = e /\ t[2] = n /\ t[3] = m
  <2> DEFINE two == Append(one, n)
  <2>1. n \in valid /\ n # e
    BY <1>1
  <2>2. two \in D /\ two \in Seq(valid) /\ Len(two) = 2 /\ two[1] = e /\ two[2] = n
    <3>1. /\ two \in Seq(valid) /\ two # <<>> /\ Len(two) = Len(one) + 1 /\ two[Len(one) + 1] = n
          /\ \A i \in 1 .. Len(one) : two[i] = one[i]
      <4>1. one \in Seq(valid) /\ n \in valid
        BY <1>3, <2>1
      <4> QED BY <4>1, AppendIs, SMT
    <3> HIDE DEF two
    <3> QED BY <1>3, <3>1
  <2>3. TracesFrom(valid, next, two) \subseteq AllTraces(valid, next, entries)
    <3>1. ~Ends(next, one, Len(one)) /\ n \in next[one[Len(one)]]
      BY <1>3, <1>7, <1>10
    <3> QED BY <1>2, <1>3, <1>5, <3>1
  <2> HIDE DEF two
  <2>4. Ends(next, two, 2) <=> next[n] = {}
    BY <2>1, <2>2, PipelineAssumption DEF Ends
  <2>5. \E t \in AllTraces(valid, next, entries) : Len(t) >= 2 /\ t[1] = e /\ t[2] = n
    <3>1. PICK t \in TracesFrom(valid, next, two) : TRUE
      BY <1>4, <2>2
    <3>2. Len(t) >= 2 /\ t[1] = e /\ t[2] = n
      BY <1>6, <2>2
    <3> QED BY <2>3, <3>2
  <2>6. next[n] = {} => \E t \in AllTraces(valid, next, entries) : Len(t) = 2 /\ t[1] = e /\ t[2] = n
    <3> SUFFICES ASSUME next[n] = {} PROVE two \in AllTraces(valid, next, entries)
      BY <2>2
    <3>1. Ends(next, two, Len(two))
      BY <2>2, <2>4
    <3> QED BY <1>5, <2>2, <2>3, <3>1
  <2>7. ASSUME NEW m \in next[n]
        PROVE  \E t \in AllTraces(valid, next, entries) : Len(t) >= 3 /\ t[1] = e /\ t[2] = n /\ t[3] = m
    <3> DEFINE three == Append(two, m)
    <3>1. m \in valid
      BY <1>1, <2>1
    <3>2. three \in D /\ Len(three) = 3 /\ three[1] = e /\ three[2] = n /\ three[3] = m
      <4>1. /\ three \in Seq(valid) /\ three # <<>> /\ Len(three) = Len(two) + 1 /\ three[Len(two) + 1] = m
            /\ \A i \in 1 .. Len(two) : three[i] = two[i]
        <5>1. two \in Seq(valid) /\ m \in valid
          BY <2>2, <3>1
        <5> QED BY <5>1, AppendIs, SMT
      <4> HIDE DEF three
      <4>2. 1 \in 1 .. Len(two) /\ 2 \in 1 .. Len(two)
        BY <2>2
      <4> QED BY <2>2, <4>1, <4>2
    <3>3. TracesFrom(valid, next, three) \subseteq TracesFrom(valid, next, two)
      <4>1. ~Ends(next, two, Len(two)) /\ m \in next[two[Len(two)]]
        BY <2>2, <2>4, <2>7
      <4> QED BY <1>5, <2>2, <4>1
    <3> HIDE DEF three
    <3>4. PICK t \in TracesFrom(valid, next, three) : TRUE
      BY <1>4, <3>2
    <3>5. Len(t) >= Len(three) /\ \A i \in 1 .. Len(three) : t[i] = three[i]
      BY <1>6, <3>2
    <3>6. 1 \in 1 .. Len(three) /\ 2 \in 1 .. Len(three) /\ 3 \in 1 .. Len(three)
      BY <3>2
    <3>7. Len(t) >= 3 /\ t[1] = e /\ t[2] = n /\ t[3] = m
      BY <3>2, <3>5, <3>6
    <3> QED BY <2>3, <3>3, <3>7
  <2> QED BY <2>5, <2>6, <2>7
<1> QED BY <1>8, <1>9, <1>10

\* A trace begins at its entry point and goes from successor to successor.
LEMMA TraceIs ==
  ASSUME NEW valid, NEW next, NEW e, NEW t \in TracesFrom(valid, next, <<e>>)
  PROVE  /\ t \in Seq(valid) /\ Len(t) \in Nat /\ Len(t) >= 1 /\ t[1] = e /\ Ends(next, t, Len(t))
         /\ \A i \in 1 .. Len(t) - 1 : ~Ends(next, t, i) /\ t[i + 1] \in next[t[i]]
BY DEF TracesFrom, IsTrace, Continues

\* It stays in any set that has the entry point and the successors of what it has.
LEMMA TraceStaysIn ==
  ASSUME NEW valid, NEW next, NEW e, NEW t \in TracesFrom(valid, next, <<e>>),
         NEW W, e \in W, \A n \in W : next[n] \subseteq W
  PROVE  \A i \in 1 .. Len(t) : t[i] \in W
<1>1. /\ Len(t) \in Nat /\ t[1] = e
      /\ \A i \in 1 .. Len(t) - 1 : t[i + 1] \in next[t[i]]
  BY TraceIs
<1> DEFINE S == {i \in Nat : i + 1 \in 1 .. Len(t) => t[i + 1] \in W}
<1>2. S = Nat
  <2>1. 0 \in S
    BY <1>1
  <2>2. ASSUME NEW i \in S PROVE i + 1 \in S
    <3>1. i \in Nat
      OBVIOUS
    <3> SUFFICES ASSUME (i + 1) + 1 \in 1 .. Len(t) PROVE t[(i + 1) + 1] \in W
      BY <3>1
    <3>2. i + 1 \in 1 .. Len(t) - 1 /\ i + 1 \in 1 .. Len(t)
      BY <1>1, <3>1
    <3>3. t[i + 1] \in W
      BY <3>2
    <3>4. t[(i + 1) + 1] \in next[t[i + 1]]
      BY <1>1, <3>2
    <3> HIDE DEF S
    <3> QED BY <3>3, <3>4
  <2>3. S \in SUBSET Nat
    OBVIOUS
  <2> HIDE DEF S
  <2> QED BY <2>1, <2>2, <2>3, NatsBySuccessor
<1> QED
  <2> SUFFICES ASSUME NEW i \in 1 .. Len(t) PROVE t[i] \in W
    OBVIOUS
  <2>1. i - 1 \in Nat /\ (i - 1) + 1 = i
    BY <1>1
  <2>2. i - 1 \in S
    BY <1>2, <2>1
  <2> QED BY <2>1, <2>2

\* If no trace of an untruncated search is lost, every id walked is still there, with at least
\* the successors it had, and with none if it had none.
LEMMA NothingLost ==
  ASSUME NEW Vb, NEW nb, IsReach(Vb, nb), NEW Va, NEW na, IsSearch(Va, na), NEW entries,
         AllTraces(Vb, nb, entries) \subseteq AllTraces(Va, na, entries)
  PROVE  /\ entries \cap Vb \subseteq Va
         /\ \A n \in Walked(Vb, nb, entries) : n \in Va /\ nb[n] \subseteq na[n] /\ (nb[n] = {} => na[n] = {})
<1>0. /\ nb \in [Vb -> SUBSET Vb] /\ na \in [Va -> SUBSET Va] /\ IsSearch(Vb, nb)
      /\ \A n \in Vb : n \notin nb[n]
  BY DEF IsReach, IsSearch
<1>1. ASSUME NEW t \in AllTraces(Va, na, entries)
      PROVE  /\ t[1] \in entries \cap Va /\ Len(t) \in Nat /\ Ends(na, t, Len(t))
             /\ \A i \in 1 .. Len(t) - 1 : t[i + 1] \in na[t[i]]
  <2>1. PICK e \in entries \cap Va : t \in TracesFrom(Va, na, <<e>>)
    BY <1>1 DEF AllTraces
  <2> QED BY <2>1, TraceIs
<1>2. ASSUME NEW e \in entries \cap Vb
      PROVE  e \in Va /\ nb[e] \subseteq na[e] /\ (nb[e] = {} => na[e] = {})
  <2>1. e \in Va
    <3>1. PICK t \in AllTraces(Vb, nb, entries) : t[1] = e
      BY <1>0, TraceThrough
    <3> QED BY <1>1, <3>1
  <2>2. ASSUME NEW n \in nb[e] PROVE n \in na[e]
    <3>1. PICK t \in AllTraces(Vb, nb, entries) : Len(t) >= 2 /\ t[1] = e /\ t[2] = n
      BY <1>0, <2>2, TraceThrough
    <3>2. t \in AllTraces(Va, na, entries) /\ Len(t) \in Nat
      BY <1>1, <3>1
    <3>3. 1 \in 1 .. Len(t) - 1
      BY <3>1, <3>2
    <3>4. t[1 + 1] \in na[t[1]]
      BY <1>1, <3>2, <3>3
    <3> QED BY <3>1, <3>4
  <2>3. ASSUME nb[e] = {} PROVE na[e] = {}
    <3>1. PICK t \in AllTraces(Vb, nb, entries) : Len(t) = 1 /\ t[1] = e
      BY <1>0, <2>3, TraceThrough
    <3>2. Ends(na, t, 1)
      BY <1>1, <3>1
    <3> QED BY <3>1, <3>2, PipelineAssumption DEF Ends
  <2> QED BY <2>1, <2>2, <2>3
<1>3. ASSUME NEW e \in entries \cap Vb, NEW n \in nb[e]
      PROVE  n \in Va /\ nb[n] \subseteq na[n] /\ (nb[n] = {} => na[n] = {})
  <2>1. n \in Va /\ n # e
    BY <1>0, <1>2
  <2>2. ASSUME NEW m \in nb[n] PROVE m \in na[n]
    <3>1. PICK t \in AllTraces(Vb, nb, entries) : Len(t) >= 3 /\ t[1] = e /\ t[2] = n /\ t[3] = m
      BY <1>0, <1>3, <2>2, TraceThrough
    <3>2. t \in AllTraces(Va, na, entries) /\ Len(t) \in Nat
      BY <1>1, <3>1
    <3>3. 2 \in 1 .. Len(t) - 1
      BY <3>1, <3>2
    <3>4. t[2 + 1] \in na[t[2]]
      BY <1>1, <3>2, <3>3
    <3> QED BY <3>1, <3>4
  <2>3. ASSUME nb[n] = {} PROVE na[n] = {}
    <3>1. PICK t \in AllTraces(Vb, nb, entries) : Len(t) = 2 /\ t[1] = e /\ t[2] = n
      BY <1>0, <1>3, <2>3, TraceThrough
    <3>2. Ends(na, t, 2)
      BY <1>1, <3>1
    <3>3. \A j \in 1 .. 2 - 1 : j = 1
      OBVIOUS
    <3> QED BY <2>1, <3>1, <3>2, <3>3, PipelineAssumption DEF Ends
  <2> QED BY <2>1, <2>2, <2>3
<1> QED BY <1>2, <1>3 DEF Walked

\* If every id of a set that a search stays in is still there, with at least the successors it
\* had, and with none if it had none, then no trace is lost.
LEMMA TracesCarryOver ==
  ASSUME NEW Vb, NEW nb, NEW Va, NEW na, NEW entries, NEW W,
         \A e \in entries \cap Vb : e \in W,
         \A n \in W : n \in Va /\ nb[n] \subseteq W /\ nb[n] \subseteq na[n] /\ (nb[n] = {} => na[n] = {})
  PROVE  AllTraces(Vb, nb, entries) \subseteq AllTraces(Va, na, entries)
<1> SUFFICES ASSUME NEW t \in AllTraces(Vb, nb, entries) PROVE t \in AllTraces(Va, na, entries)
  OBVIOUS
<1>1. PICK e \in entries \cap Vb : t \in TracesFrom(Vb, nb, <<e>>)
  BY DEF AllTraces
<1>2. /\ t \in Seq(Vb) /\ Len(t) \in Nat /\ Len(t) >= 1 /\ t[1] = e /\ Ends(nb, t, Len(t))
      /\ \A i \in 1 .. Len(t) - 1 : ~Ends(nb, t, i) /\ t[i + 1] \in nb[t[i]]
  BY <1>1, TraceIs
<1>3. \A i \in 1 .. Len(t) : t[i] \in W
  BY <1>1, TraceStaysIn
<1>4. \A i \in 1 .. Len(t) : t[i] \in Va /\ nb[t[i]] \subseteq na[t[i]] /\ (nb[t[i]] = {} => na[t[i]] = {})
  BY <1>3
<1>5. t \in Seq(Va)
  <2>1. t = [i \in 1 .. Len(t) |-> t[i]]
    BY <1>2
  <2> QED BY <1>2, <1>4, <2>1, SeqDef
<1>6. \A i \in 1 .. Len(t) - 1 : ~Ends(na, t, i) /\ t[i + 1] \in na[t[i]]
  <2> SUFFICES ASSUME NEW i \in 1 .. Len(t) - 1 PROVE ~Ends(na, t, i) /\ t[i + 1] \in na[t[i]]
    OBVIOUS
  <2>1. i \in 1 .. Len(t)
    BY <1>2
  <2> QED BY <1>2, <1>4, <2>1 DEF Ends
<1>7. Ends(na, t, Len(t))
  <2>1. Len(t) \in 1 .. Len(t)
    BY <1>2
  <2> QED BY <1>2, <1>4, <2>1 DEF Ends
<1>8. t \in TracesFrom(Va, na, <<e>>)
  <2>1. Len(<<e>>) = 1 /\ \A i \in 1 .. 1 : <<e>>[i] = e /\ i = 1
    OBVIOUS
  <2>2. Continues(<<e>>, t)
    BY <1>2, <2>1 DEF Continues
  <2> QED BY <1>5, <1>6, <1>7, <2>1, <2>2 DEF TracesFrom, IsTrace
<1>9. e \in entries \cap Va
  BY <1>1
<1> QED BY <1>8, <1>9 DEF AllTraces

LEMMA GraphIsReach ==
  ASSUME NEW g, IsGraph(g)
  PROVE  IsReach(NodeIds(g), ReachableFrom(g))
<1>1. NodeIds(g) \in SUBSET AllIds /\ EdgeKeys(g) \in SUBSET (AllIds \X AllIds)
  BY DEF IsGraph
<1>2. IsFiniteSet(NodeIds(g))
  BY <1>1, AllIdsFinite, FS_Subset
<1> DEFINE E == EdgeKeys(g)
           V == NodeIds(g)
<1> HIDE DEF E, V
<1>3. \A n \in V : ReachableFrom(g)[n] = Descendants(E, n) \cap V
  BY DEF ReachableFrom, E, V
<1>4. \A n \in AllIds : Descendants(E, n) = Reached(E, n) \ {n}
  BY <1>1, ReachedFacts DEF E
<1>5. \A n \in AllIds : \A m \in Reached(E, n) : Reached(E, m) \subseteq Reached(E, n)
  BY <1>1, ReachedOn DEF E
<1>6. V \in SUBSET AllIds
  BY <1>1 DEF V
<1>7. ASSUME NEW n \in V
      PROVE  n \notin ReachableFrom(g)[n] /\ \A m \in ReachableFrom(g)[n] : ReachableFrom(g)[m] \subseteq ReachableFrom(g)[n] \cup {n}
  <2>1. n \notin ReachableFrom(g)[n]
    BY <1>3, <1>4, <1>6
  <2>2. ASSUME NEW m \in ReachableFrom(g)[n], NEW k \in ReachableFrom(g)[m] PROVE k \in ReachableFrom(g)[n] \cup {n}
    <3>1. m \in V /\ m \in Reached(E, n)
      BY <1>3, <1>4, <1>6
    <3>2. k \in V /\ k \in Reached(E, m)
      BY <1>3, <1>4, <1>6, <3>1
    <3>3. k \in Reached(E, n)
      BY <1>5, <1>6, <3>1, <3>2
    <3> QED BY <1>3, <1>4, <1>6, <3>2, <3>3
  <2> QED BY <2>1, <2>2
<1>8. ReachableFrom(g) \in [V -> SUBSET V]
  BY DEF ReachableFrom, V
<1> QED BY <1>2, <1>7, <1>8 DEF IsReach, IsSearch, V

\* The first successors are some of the successors, and there are some.
LEMMA FirstsAre ==
  ASSUME NEW g, NEW first \in FirstSuccessors(g)
  PROVE  /\ DOMAIN first = Overfull(g) /\ Overfull(g) \subseteq NodeIds(g)
         /\ \A n \in Overfull(g) : first[n] \subseteq ReachableFrom(g)[n] /\ first[n] # {}
<1>1. /\ first \in [Overfull(g) -> {S \in SUBSET NodeIds(g) : Cardinality(S) = MaxTraceBranching}]
      /\ \A n \in Overfull(g) : first[n] \subseteq ReachableFrom(g)[n]
  BY DEF FirstSuccessors
<1>2. Overfull(g) \subseteq NodeIds(g)
  BY DEF Overfull, ReachableFrom
<1>3. \A n \in Overfull(g) : Cardinality(first[n]) = MaxTraceBranching
  BY <1>1
<1>4. Cardinality({}) = 0 /\ MaxTraceBranching # 0
  BY FS_EmptySet, PipelineAssumption
<1> QED BY <1>1, <1>2, <1>3, <1>4

\* What the search follows of the successors is some of them.
SomeOf(g, first) ==
  \A n \in NodeIds(g) : n \in DOMAIN first => first[n] \subseteq ReachableFrom(g)[n] /\ first[n] # {}

LEMMA TakenIs ==
  ASSUME NEW g, IsGraph(g), NEW first,
         \A n \in NodeIds(g) : n \in DOMAIN first => first[n] \subseteq ReachableFrom(g)[n]
  PROVE  /\ IsSearch(NodeIds(g), Taken(g, first))
         /\ BuildTraceSet(g, first) = AllTraces(NodeIds(g), Taken(g, first), Entries)
         /\ \A n \in NodeIds(g) : Taken(g, first)[n] \subseteq ReachableFrom(g)[n]
<1>1. IsReach(NodeIds(g), ReachableFrom(g))
  BY GraphIsReach
<1>2. /\ IsFiniteSet(NodeIds(g)) /\ ReachableFrom(g) \in [NodeIds(g) -> SUBSET NodeIds(g)]
      /\ \A n \in NodeIds(g) : n \notin ReachableFrom(g)[n]
  BY <1>1 DEF IsReach, IsSearch
<1>3. \A n \in NodeIds(g) : /\ Taken(g, first)[n] = IF n \in DOMAIN first THEN first[n] ELSE ReachableFrom(g)[n]
                            /\ Taken(g, first)[n] \subseteq ReachableFrom(g)[n]
  BY DEF Taken
<1>4. \A n \in NodeIds(g) : Taken(g, first)[n] \in SUBSET NodeIds(g) /\ n \notin Taken(g, first)[n]
  BY <1>2, <1>3
<1>5. Taken(g, first) \in [NodeIds(g) -> SUBSET NodeIds(g)]
  BY <1>4 DEF Taken
<1>6. BuildTraceSet(g, first) = AllTraces(NodeIds(g), Taken(g, first), Entries)
  BY <1>5, TracesAreWalks DEF AllTraces
<1> QED BY <1>2, <1>3, <1>4, <1>5, <1>6 DEF IsSearch

\* A search that is not truncated follows all successors.
LEMMA UntruncatedIs ==
  ASSUME NEW g, NEW first \in FirstSuccessors(g), Overfull(g) = {}
  PROVE  Taken(g, first) = ReachableFrom(g)
<1>1. DOMAIN first = {}
  BY FirstsAre
<1> QED BY <1>1 DEF Taken, ReachableFrom

\* What the search walks is what SameOrMoreReach speaks of.
LEMMA SameOrMoreReachIs ==
  ASSUME NEW before, NEW after
  PROVE  SameOrMoreReach(before, after)
         <=> /\ Entries \cap NodeIds(before) \subseteq NodeIds(after)
             /\ \A n \in Walked(NodeIds(before), ReachableFrom(before), Entries) :
                  /\ n \in NodeIds(after)
                  /\ ReachableFrom(before)[n] \subseteq ReachableFrom(after)[n]
                  /\ ReachableFrom(before)[n] = {} => ReachableFrom(after)[n] = {}
<1> DEFINE Vb == NodeIds(before)
           Va == NodeIds(after)
           nb == ReachableFrom(before)
           na == ReachableFrom(after)
           Reach(g, n) == Descendants(EdgeKeys(g), n) \cap NodeIds(g)
           live == UNION {{n} \cup Reach(before, n) : n \in Entries \cap Vb}
<1>3. SameOrMoreReach(before, after)
      <=> /\ Entries \cap Vb \subseteq Va
          /\ \A n \in live : Reach(before, n) \subseteq Reach(after, n)
          /\ \A n \in live : Reach(before, n) = {} => Reach(after, n) = {}
  BY DEF SameOrMoreReach
<1>4. /\ \A n \in Vb : nb[n] = Reach(before, n)
      /\ \A n \in Va : na[n] = Reach(after, n)
      /\ \A n : Reach(before, n) \subseteq Vb /\ Reach(after, n) \subseteq Va
  BY DEF ReachableFrom
<1> HIDE DEF Vb, Va, nb, na, Reach
<1>6. Walked(Vb, nb, Entries) = live /\ live \subseteq Vb
  BY <1>4 DEF Walked
<1>7. ASSUME Entries \cap Vb \subseteq Va, \A n \in live : Reach(before, n) \subseteq Reach(after, n)
      PROVE  live \subseteq Va
  <2>1. ASSUME NEW e \in Entries \cap Vb PROVE e \in Va /\ Reach(before, e) \subseteq Va
    <3>1. e \in live
      OBVIOUS
    <3> QED BY <1>4, <1>7, <3>1
  <2> QED BY <2>1
<1> HIDE DEF live
<1>8. SameOrMoreReach(before, after)
      <=> /\ Entries \cap Vb \subseteq Va
          /\ \A n \in Walked(Vb, nb, Entries) : n \in Va /\ nb[n] \subseteq na[n] /\ (nb[n] = {} => na[n] = {})
  BY <1>3, <1>4, <1>6, <1>7
<1> QED BY <1>8 DEF Vb, Va, nb, na

\* The trace test of verify() accepts nothing but SameOrMoreReach, for any two graphs of which
\* the first has a search that is not truncated.
LEMMA TraceTestIsSound ==
  ASSUME NEW before, NEW after, IsGraph(before), IsGraph(after), Overfull(before) = {},
         NEW b \in FirstSuccessors(before), NEW a, SomeOf(after, a),
         BuildTraceSet(before, b) \subseteq BuildTraceSet(after, a)
  PROVE  SameOrMoreReach(before, after)
<1> DEFINE Vb == NodeIds(before)
           Va == NodeIds(after)
           nb == ReachableFrom(before)
           na == ReachableFrom(after)
           ta == Taken(after, a)
<1>1. /\ IsReach(Vb, nb) /\ BuildTraceSet(before, b) = AllTraces(Vb, nb, Entries)
  <2>1. \A n \in Vb : n \in DOMAIN b => b[n] \subseteq nb[n]
    BY FirstsAre
  <2>2. Taken(before, b) = nb /\ IsReach(Vb, nb)
    BY UntruncatedIs, GraphIsReach
  <2> QED BY <2>1, <2>2, TakenIs
<1>2. /\ IsSearch(Va, ta) /\ BuildTraceSet(after, a) = AllTraces(Va, ta, Entries)
      /\ \A n \in Va : ta[n] \subseteq na[n]
  <2>1. \A n \in Va : n \in DOMAIN a => a[n] \subseteq na[n]
    BY DEF SomeOf
  <2> QED BY <2>1, TakenIs
<1>3. \A n \in Va : ta[n] = {} => na[n] = {}
  <2>1. \A n \in Va : n \in DOMAIN a => a[n] # {}
    BY DEF SomeOf
  <2> QED BY <2>1 DEF Taken
<1> HIDE DEF Vb, Va, nb, na, ta
<1>4. /\ Entries \cap Vb \subseteq Va
      /\ \A n \in Walked(Vb, nb, Entries) : n \in Va /\ nb[n] \subseteq ta[n] /\ (nb[n] = {} => ta[n] = {})
  BY <1>1, <1>2, NothingLost
<1>5. /\ Entries \cap Vb \subseteq Va
      /\ \A n \in Walked(Vb, nb, Entries) : n \in Va /\ nb[n] \subseteq na[n] /\ (nb[n] = {} => na[n] = {})
  BY <1>2, <1>3, <1>4
<1> QED BY <1>5, SameOrMoreReachIs DEF Vb, Va, nb, na

\* If neither search is truncated, it accepts all of it.
LEMMA TraceTestIsComplete ==
  ASSUME NEW before, NEW after, IsGraph(before), IsGraph(after),
         Overfull(before) = {}, Overfull(after) = {},
         NEW b \in FirstSuccessors(before), NEW a \in FirstSuccessors(after),
         SameOrMoreReach(before, after)
  PROVE  BuildTraceSet(before, b) \subseteq BuildTraceSet(after, a)
<1> DEFINE Vb == NodeIds(before)
           Va == NodeIds(after)
           nb == ReachableFrom(before)
           na == ReachableFrom(after)
           W == Walked(Vb, nb, Entries)
<1>1. /\ \A n \in Vb : n \in DOMAIN b => b[n] \subseteq nb[n]
      /\ \A n \in Va : n \in DOMAIN a => a[n] \subseteq na[n]
  BY FirstsAre
<1>2. Taken(before, b) = nb /\ Taken(after, a) = na
  BY UntruncatedIs
<1>3. /\ BuildTraceSet(before, b) = AllTraces(Vb, nb, Entries)
      /\ BuildTraceSet(after, a) = AllTraces(Va, na, Entries)
  BY <1>1, <1>2, TakenIs
<1>4. \A n \in W : n \in Va /\ nb[n] \subseteq na[n] /\ (nb[n] = {} => na[n] = {})
  BY SameOrMoreReachIs
<1>5. IsReach(Vb, nb)
  BY GraphIsReach
<1> HIDE DEF Vb, Va, nb, na
<1>6. \A n \in W : nb[n] \subseteq W
  <2> SUFFICES ASSUME NEW e \in Entries \cap Vb, NEW n \in {e} \cup nb[e] PROVE nb[n] \subseteq W
    BY DEF Walked
  <2>1. {e} \cup nb[e] \subseteq W
    BY DEF Walked
  <2> QED BY <1>5, <2>1 DEF IsReach
<1>7. \A e \in Entries \cap Vb : e \in W
  BY DEF Walked
<1> HIDE DEF W
<1>8. \A n \in W : n \in Va /\ nb[n] \subseteq W /\ nb[n] \subseteq na[n] /\ (nb[n] = {} => na[n] = {})
  BY <1>4, <1>6
<1>9. AllTraces(Vb, nb, Entries) \subseteq AllTraces(Va, na, Entries)
  BY <1>7, <1>8, TracesCarryOver
<1> QED BY <1>3, <1>9

-----------------------------------------------------------------------------
(* The passes.  Each returns a graph that has no other of the ids put in,   *)
(* and joins no two of them that were not joined by a path.                 *)

SourcesAreNodes(g) == \A l \in Layers : \A e \in g[l].edges : e[1] \in DOMAIN g[l].nodes
NoNewPaths(g, h) == \A n \in Ids : Reached(EdgeKeys(h), n) \cap Ids \subseteq Reached(EdgeKeys(g), n)
Narrows(g, h) ==
  /\ IsSoftwareGraph(h) /\ SourcesAreNodes(h)
  /\ NodeIds(h) \cap Ids \subseteq NodeIds(g)
  /\ NoNewPaths(g, h)
\* There are parts only after the pass that makes them.
OnlyIds(g) == NodeIds(g) \subseteq Ids /\ EdgeKeys(g) \subseteq Ids \X Ids

LEMMA LayerFacts ==
  ASSUME NEW g, IsSoftwareGraph(g), NEW l \in Layers
  PROVE  /\ DOMAIN g[l].nodes \in SUBSET AllIds /\ g[l].edges \in SUBSET (AllIds \X AllIds)
         /\ g[l].nodes \in [DOMAIN g[l].nodes -> Attributes]
         /\ g[l] = [nodes |-> g[l].nodes, edges |-> g[l].edges]
         /\ DOMAIN g[l].nodes \subseteq NodeIds(g) /\ g[l].edges \subseteq EdgeKeys(g)
<1>1. IsLayerGraph(g[l])
  BY DEF IsSoftwareGraph
<1> QED BY <1>1 DEF IsLayerGraph, NodeIds, EdgeKeys

LEMMA MadeLayer ==
  ASSUME NEW ids \in SUBSET AllIds, NEW nodes \in [ids -> Attributes], NEW edges \in SUBSET (AllIds \X AllIds)
  PROVE  IsLayerGraph([nodes |-> nodes, edges |-> edges])
BY DEF IsLayerGraph

LEMMA SoftwareGraphIsGraph ==
  ASSUME NEW g, IsSoftwareGraph(g)
  PROVE  IsGraph(g)
<1>1. \A l \in Layers : DOMAIN g[l].nodes \subseteq AllIds /\ g[l].edges \subseteq AllIds \X AllIds
  BY LayerFacts
<1>2. NodeIds(g) \subseteq AllIds
  BY <1>1 DEF NodeIds
<1>3. EdgeKeys(g) \subseteq AllIds \X AllIds
  BY <1>1 DEF EdgeKeys
<1> QED BY <1>2, <1>3 DEF IsGraph

\* A pass that only takes nodes and edges away.
LEMMA FewerNarrow ==
  ASSUME NEW g, NEW h, IsSoftwareGraph(g), IsSoftwareGraph(h), SourcesAreNodes(h),
         \A l \in Layers : DOMAIN h[l].nodes \subseteq DOMAIN g[l].nodes /\ h[l].edges \subseteq g[l].edges
  PROVE  Narrows(g, h) /\ (OnlyIds(g) => OnlyIds(h))
<1>1. EdgeKeys(h) \subseteq EdgeKeys(g) /\ NodeIds(h) \subseteq NodeIds(g)
  BY DEF EdgeKeys, NodeIds
<1>2. EdgeKeys(g) \in SUBSET (AllIds \X AllIds)
  BY SoftwareGraphIsGraph DEF IsGraph
<1>3. ASSUME NEW n \in Ids PROVE Reached(EdgeKeys(h), n) \subseteq Reached(EdgeKeys(g), n)
  <2>1. n \in AllIds
    BY DEF AllIds
  <2> QED BY <1>1, <1>2, <2>1, ReachedByMore
<1> QED BY <1>1, <1>3 DEF Narrows, NoNewPaths, OnlyIds

\* What remove_dead_nodes() leaves of a layer.
LEMMA RemoveDeadNodesIs ==
  ASSUME NEW original, NEW g, IsSoftwareGraph(g)
  PROVE  LET dead == FindDeadNodes(original, Entries)
             h == RemoveDeadNodes(original, g)
         IN  /\ IsSoftwareGraph(h)
             /\ \A l \in Layers :
                  /\ DOMAIN h[l].nodes = DOMAIN g[l].nodes \ dead
                  /\ \A e : e \in h[l].edges <=>
                       e \in g[l].edges /\ e[1] \notin dead \cap DOMAIN g[l].nodes
                                        /\ e[2] \notin dead \cap DOMAIN g[l].nodes
<1> DEFINE dead == FindDeadNodes(original, Entries)
           h == RemoveDeadNodes(original, g)
           gone(l) == dead \cap DOMAIN g[l].nodes
           kept(l) == DOMAIN g[l].nodes \ gone(l)
           nodes(l) == [n \in kept(l) |-> g[l].nodes[n]]
           edges(l) == {e \in g[l].edges : e[1] \notin gone(l) /\ e[2] \notin gone(l)}
<1>1. h = [l \in Layers |-> [nodes |-> nodes(l), edges |-> edges(l)]]
  BY DEF RemoveDeadNodes, Restrict
<1>2. ASSUME NEW l \in Layers
      PROVE  /\ IsLayerGraph([nodes |-> nodes(l), edges |-> edges(l)])
             /\ DOMAIN nodes(l) = DOMAIN g[l].nodes \ dead
  <2>1. /\ DOMAIN g[l].nodes \in SUBSET AllIds /\ g[l].edges \in SUBSET (AllIds \X AllIds)
        /\ g[l].nodes \in [DOMAIN g[l].nodes -> Attributes]
    BY LayerFacts
  <2>2. kept(l) \in SUBSET AllIds /\ nodes(l) \in [kept(l) -> Attributes] /\ edges(l) \in SUBSET (AllIds \X AllIds)
    BY <2>1
  <2>3. DOMAIN nodes(l) = DOMAIN g[l].nodes \ dead
    OBVIOUS
  <2> HIDE DEF kept, nodes, edges
  <2> QED BY <2>2, <2>3, MadeLayer
<1>3. \A l \in Layers : h[l].nodes = nodes(l) /\ h[l].edges = edges(l) /\ IsLayerGraph(h[l])
  BY <1>1, <1>2
<1>4. IsSoftwareGraph(h)
  <2>1. DOMAIN h = Layers
    BY <1>1
  <2> HIDE DEF h
  <2> QED BY <1>3, <2>1 DEF IsSoftwareGraph
<1> HIDE DEF h, dead
<1>5. \A l \in Layers : \A e : e \in edges(l) <=>
        e \in g[l].edges /\ e[1] \notin dead \cap DOMAIN g[l].nodes /\ e[2] \notin dead \cap DOMAIN g[l].nodes
  OBVIOUS
<1> HIDE DEF nodes, edges, gone, kept
<1> QED BY <1>2, <1>3, <1>4, <1>5 DEF h, dead

LEMMA RemoveDeadNodesNarrows ==
  ASSUME NEW original, NEW g, IsSoftwareGraph(g), SourcesAreNodes(g)
  PROVE  /\ Narrows(g, RemoveDeadNodes(original, g))
         /\ OnlyIds(g) => OnlyIds(RemoveDeadNodes(original, g))
<1> DEFINE dead == FindDeadNodes(original, Entries)
           h == RemoveDeadNodes(original, g)
<1>1. /\ IsSoftwareGraph(h)
      /\ \A l \in Layers :
           /\ DOMAIN h[l].nodes = DOMAIN g[l].nodes \ dead
           /\ \A e : e \in h[l].edges <=>
                e \in g[l].edges /\ e[1] \notin dead \cap DOMAIN g[l].nodes
                                 /\ e[2] \notin dead \cap DOMAIN g[l].nodes
  BY RemoveDeadNodesIs
<1> HIDE DEF h, dead
<1>2. SourcesAreNodes(h)
  BY <1>1 DEF SourcesAreNodes
<1>3. \A l \in Layers : DOMAIN h[l].nodes \subseteq DOMAIN g[l].nodes /\ h[l].edges \subseteq g[l].edges
  BY <1>1
<1> QED BY <1>1, <1>2, <1>3, FewerNarrow DEF h

\* The edges and nodes of a layer in which nodes are inlined.
LEMMA InlineTrivialNodesIs ==
  ASSUME NEW original, NEW g, IsSoftwareGraph(g), SourcesAreNodes(g)
  PROVE  LET h == InlineTrivialNodes(original, g)
         IN  /\ IsSoftwareGraph(h) /\ SourcesAreNodes(h)
             /\ \A l \in Layers :
                  /\ DOMAIN h[l].nodes \subseteq DOMAIN g[l].nodes
                  /\ \A e \in h[l].edges : \/ e \in g[l].edges
                                           \/ \E into, out \in g[l].edges :
                                                into[2] = out[1] /\ e = <<into[1], out[2]>>
<1> DEFINE h == InlineTrivialNodes(original, g)
           cand(l) == {n \in DOMAIN g[l].nodes :
                         /\ Cardinality(Successors(original[l].edges, n)) = 1
                         /\ IsSimpleNode(g[l].nodes[n])}
           kept(l) == DOMAIN g[l].nodes \ cand(l)
           nodes(l) == [n \in kept(l) |-> g[l].nodes[n]]
           untouched(l) == {e \in g[l].edges : e[1] \notin cand(l) /\ e[2] \notin cand(l)}
           composed(l) == UNION {(Predecessors(g[l].edges, c) \ cand(l)) \X Successors(g[l].edges, c) : c \in cand(l)}
           edges(l) == untouched(l) \cup composed(l)
<1>1. h = [l \in Layers |-> [nodes |-> nodes(l), edges |-> edges(l)]]
  BY DEF InlineTrivialNodes, Restrict
<1>2. ASSUME NEW l \in Layers
      PROVE  /\ kept(l) \subseteq DOMAIN g[l].nodes /\ DOMAIN nodes(l) = kept(l)
             /\ IsLayerGraph([nodes |-> nodes(l), edges |-> edges(l)])
             /\ \A e \in edges(l) : /\ e[1] \in kept(l)
                                    /\ \/ e \in g[l].edges
                                       \/ \E into, out \in g[l].edges : into[2] = out[1] /\ e = <<into[1], out[2]>>
  <2>1. /\ DOMAIN g[l].nodes \in SUBSET AllIds /\ g[l].edges \in SUBSET (AllIds \X AllIds)
        /\ g[l].nodes \in [DOMAIN g[l].nodes -> Attributes]
    BY LayerFacts
  <2>2. \A e \in g[l].edges : e[1] \in DOMAIN g[l].nodes
    BY DEF SourcesAreNodes
  <2>3. kept(l) \in SUBSET AllIds /\ nodes(l) \in [kept(l) -> Attributes] /\ DOMAIN nodes(l) = kept(l)
        /\ kept(l) \subseteq DOMAIN g[l].nodes
    BY <2>1
  <2>4. ASSUME NEW e \in untouched(l)
        PROVE  e \in g[l].edges /\ e \in AllIds \X AllIds /\ e[1] \in kept(l)
    BY <2>1, <2>2
  <2>5. ASSUME NEW e \in composed(l)
        PROVE  /\ e \in AllIds \X AllIds /\ e[1] \in kept(l)
               /\ \E into, out \in g[l].edges : into[2] = out[1] /\ e = <<into[1], out[2]>>
    <3>1. PICK c \in cand(l) : e \in (Predecessors(g[l].edges, c) \ cand(l)) \X Successors(g[l].edges, c)
      OBVIOUS
    <3>2. /\ e = <<e[1], e[2]>> /\ e[1] \in Predecessors(g[l].edges, c) /\ e[1] \notin cand(l)
          /\ e[2] \in Successors(g[l].edges, c)
      BY <3>1
    <3>3. PICK into \in g[l].edges : into[2] = c /\ into[1] = e[1]
      BY <3>2 DEF Predecessors
    <3>4. PICK out \in g[l].edges : out[1] = c /\ out[2] = e[2]
      BY <3>2 DEF Successors
    <3>5. into[1] \in AllIds /\ out[2] \in AllIds /\ into[1] \in DOMAIN g[l].nodes
      BY <2>1, <2>2, <3>3, <3>4
    <3> HIDE DEF cand
    <3> QED BY <3>2, <3>3, <3>4, <3>5
  <2> HIDE DEF untouched, composed
  <2>6. edges(l) \in SUBSET (AllIds \X AllIds)
    BY <2>4, <2>5
  <2>7. IsLayerGraph([nodes |-> nodes(l), edges |-> edges(l)])
    <3> HIDE DEF kept, nodes, edges
    <3> QED BY <2>3, <2>6, MadeLayer
  <2> QED BY <2>3, <2>4, <2>5, <2>7
<1>3. \A l \in Layers : h[l].nodes = nodes(l) /\ h[l].edges = edges(l) /\ h[l] = [nodes |-> nodes(l), edges |-> edges(l)]
  BY <1>1
<1>4. DOMAIN h = Layers
  BY <1>1
<1> HIDE DEF h, kept, nodes, edges
<1>5. IsSoftwareGraph(h) /\ SourcesAreNodes(h)
  BY <1>2, <1>3, <1>4 DEF IsSoftwareGraph, SourcesAreNodes
<1>6. ASSUME NEW l \in Layers
      PROVE  /\ DOMAIN h[l].nodes \subseteq DOMAIN g[l].nodes
             /\ \A e \in h[l].edges : \/ e \in g[l].edges
                                      \/ \E into, out \in g[l].edges : into[2] = out[1] /\ e = <<into[1], out[2]>>
  <2>1. h[l].nodes = nodes(l) /\ h[l].edges = edges(l)
    BY <1>3
  <2>2. DOMAIN h[l].nodes \subseteq DOMAIN g[l].nodes
    BY <1>2, <2>1
  <2>3. ASSUME NEW e \in h[l].edges
        PROVE  \/ e \in g[l].edges
               \/ \E into, out \in g[l].edges : into[2] = out[1] /\ e = <<into[1], out[2]>>
    <3>1. e \in edges(l)
      BY <2>1
    <3> QED BY <1>2, <3>1
  <2> QED BY <2>2, <2>3
<1> QED BY <1>5, <1>6 DEF h

\* An edge that replaces two joins what they joined.
LEMMA InlineTrivialNodesNarrows ==
  ASSUME NEW original, NEW g, IsSoftwareGraph(g), SourcesAreNodes(g)
  PROVE  /\ Narrows(g, InlineTrivialNodes(original, g))
         /\ OnlyIds(g) => OnlyIds(InlineTrivialNodes(original, g))
<1> DEFINE h == InlineTrivialNodes(original, g)
<1>1. /\ IsSoftwareGraph(h) /\ SourcesAreNodes(h)
      /\ \A l \in Layers :
           /\ DOMAIN h[l].nodes \subseteq DOMAIN g[l].nodes
           /\ \A e \in h[l].edges : \/ e \in g[l].edges
                                    \/ \E into, out \in g[l].edges : into[2] = out[1] /\ e = <<into[1], out[2]>>
  BY InlineTrivialNodesIs
<1> HIDE DEF h
<1>2. EdgeKeys(g) \in SUBSET (AllIds \X AllIds) /\ EdgeKeys(h) \in SUBSET (AllIds \X AllIds)
  BY <1>1, SoftwareGraphIsGraph DEF IsGraph
<1>3. NodeIds(h) \subseteq NodeIds(g)
  BY <1>1 DEF NodeIds
<1>4. ASSUME NEW e \in EdgeKeys(h)
      PROVE  \/ e \in EdgeKeys(g)
             \/ \E into, out \in EdgeKeys(g) : into[2] = out[1] /\ e = <<into[1], out[2]>>
  <2>1. PICK l \in Layers : e \in h[l].edges
    BY DEF EdgeKeys
  <2>2. g[l].edges \subseteq EdgeKeys(g)
    BY <2>1 DEF EdgeKeys
  <2> QED BY <1>1, <2>1, <2>2
<1>5. ASSUME NEW n \in Ids PROVE Reached(EdgeKeys(h), n) \subseteq Reached(EdgeKeys(g), n)
  <2> DEFINE C == Reached(EdgeKeys(g), n)
  <2>1. n \in AllIds
    BY DEF AllIds
  <2>2. C \in SUBSET AllIds /\ n \in C /\ IsClosed(EdgeKeys(g), C)
    BY <1>2, <2>1, ReachedFacts
  <2>3. IsClosed(EdgeKeys(h), C)
    <3> HIDE DEF C
    <3> SUFFICES ASSUME NEW e \in EdgeKeys(h), e[1] \in C PROVE e[2] \in C
      BY DEF IsClosed
    <3>1. CASE e \in EdgeKeys(g)
      BY <2>2, <3>1 DEF IsClosed
    <3>2. ASSUME NEW into \in EdgeKeys(g), NEW out \in EdgeKeys(g), into[2] = out[1], e = <<into[1], out[2]>>
          PROVE  e[2] \in C
      <4>1. e[1] = into[1] /\ e[2] = out[2]
        BY <3>2
      <4>2. into[2] \in C
        BY <2>2, <4>1 DEF IsClosed
      <4> QED BY <2>2, <3>2, <4>1, <4>2 DEF IsClosed
    <3> QED BY <1>4, <3>1, <3>2
  <2> HIDE DEF C
  <2> QED BY <1>2, <2>1, <2>2, <2>3, ReachedFacts DEF C
<1>6. ASSUME OnlyIds(g) PROVE EdgeKeys(h) \subseteq Ids \X Ids
  <2> SUFFICES ASSUME NEW e \in EdgeKeys(h) PROVE e \in Ids \X Ids
    OBVIOUS
  <2>1. \A f \in EdgeKeys(g) : f \in Ids \X Ids
    BY <1>6 DEF OnlyIds
  <2>2. ASSUME NEW into \in EdgeKeys(g), NEW out \in EdgeKeys(g), e = <<into[1], out[2]>>
        PROVE  e \in Ids \X Ids
    BY <2>1, <2>2
  <2> QED BY <1>4, <2>1, <2>2
<1> QED BY <1>1, <1>3, <1>5, <1>6 DEF Narrows, NoNewPaths, OnlyIds, h

\* The id that a part was split off, and any other id itself.
Whole(n) == IF n \in Parts THEN n[1] ELSE n

LEMMA WholeIs ==
  /\ \A n \in Ids : n \notin Parts /\ Whole(n) = n
  /\ \A n \in Ids, k \in {0, 1} : <<n, k>> \in Parts /\ Whole(<<n, k>>) = n
  /\ \A n \in Parts : Whole(n) \in Ids
<1>1. \A n \in Ids : n \notin Parts
  BY PipelineAssumption
<1>2. \A n \in Ids, k \in {0, 1} : <<n, k>> \in Parts /\ <<n, k>>[1] = n
  BY DEF Parts
<1>3. \A n \in Parts : n[1] \in Ids
  BY DEF Parts
<1> QED BY <1>1, <1>2, <1>3 DEF Whole

\* A layer whose heavy nodes are split: every edge joins what an edge joined, or two parts of
\* one node.
LEMMA ReduceComplexityIs ==
  ASSUME NEW g, IsSoftwareGraph(g), SourcesAreNodes(g), OnlyIds(g)
  PROVE  LET h == ReduceComplexity(g)
         IN  /\ IsSoftwareGraph(h) /\ SourcesAreNodes(h)
             /\ \A l \in Layers :
                  /\ DOMAIN h[l].nodes \subseteq DOMAIN g[l].nodes \cup Parts
                  /\ \A e \in h[l].edges : \/ \E f \in g[l].edges : Whole(e[1]) = f[1] /\ Whole(e[2]) = f[2]
                                           \/ Whole(e[1]) = Whole(e[2])
<1> DEFINE h == ReduceComplexity(g)
           splits(l) == {n \in DOMAIN g[l].nodes : IsHeavy(g[l].nodes[n])}
           parts(l) == splits(l) \X {0, 1}
           Source(l, n) == IF n \in splits(l) THEN <<n, 0>> ELSE n
           Target(l, n) == IF n \in splits(l) THEN <<n, 1>> ELSE n
           ids(l) == (DOMAIN g[l].nodes \ splits(l)) \cup parts(l)
           nodes(l) == [n \in ids(l) |->
                          IF n \in parts(l) THEN [g[l].nodes[n[1]] EXCEPT !.order = 2] ELSE g[l].nodes[n]]
           moved(l) == {<<Source(l, e[1]), Target(l, e[2])>> : e \in g[l].edges}
           links(l) == {<<<<n, 0>>, <<n, 1>>>> : n \in splits(l)}
           edges(l) == moved(l) \cup links(l)
<1>1. h = [l \in Layers |-> [nodes |-> nodes(l), edges |-> edges(l)]]
  BY DEF ReduceComplexity
<1>2. ASSUME NEW l \in Layers
      PROVE  /\ IsLayerGraph([nodes |-> nodes(l), edges |-> edges(l)])
             /\ DOMAIN nodes(l) = ids(l) /\ ids(l) \subseteq DOMAIN g[l].nodes \cup Parts
             /\ \A e \in edges(l) :
                  /\ e[1] \in ids(l)
                  /\ \/ \E f \in g[l].edges : Whole(e[1]) = f[1] /\ Whole(e[2]) = f[2]
                     \/ Whole(e[1]) = Whole(e[2])
  <2>1. /\ DOMAIN g[l].nodes \subseteq Ids /\ g[l].edges \subseteq Ids \X Ids
        /\ g[l].nodes \in [DOMAIN g[l].nodes -> Attributes]
        /\ \A e \in g[l].edges : e[1] \in DOMAIN g[l].nodes
    BY LayerFacts DEF OnlyIds, SourcesAreNodes
  <2>2. splits(l) \subseteq DOMAIN g[l].nodes /\ splits(l) \subseteq Ids
    BY <2>1
  <2>3. /\ \A n \in Ids : n \notin Parts /\ Whole(n) = n
        /\ \A n \in Ids, k \in {0, 1} : <<n, k>> \in Parts /\ Whole(<<n, k>>) = n
    BY WholeIs
  <2>4. \A n \in parts(l) : n[1] \in splits(l) /\ n \in Parts
    BY <2>2 DEF Parts
  <2>5. ids(l) \subseteq DOMAIN g[l].nodes \cup Parts /\ ids(l) \in SUBSET AllIds
    BY <2>1, <2>4 DEF AllIds
  <2>6. nodes(l) \in [ids(l) -> Attributes]
    <3> SUFFICES ASSUME NEW n \in ids(l)
                 PROVE  (IF n \in parts(l) THEN [g[l].nodes[n[1]] EXCEPT !.order = 2] ELSE g[l].nodes[n]) \in Attributes
      OBVIOUS
    <3>1. CASE n \in parts(l)
      <4>1. g[l].nodes[n[1]] \in Attributes
        BY <2>1, <2>2, <2>4, <3>1
      <4>2. \A a \in Attributes : [a EXCEPT !.order = 2] \in Attributes
        BY DEF Attributes, Complexity
      <4> QED BY <3>1, <4>1, <4>2
    <3>2. CASE n \notin parts(l)
      BY <2>1, <3>2
    <3> QED BY <3>1, <3>2
  <2>7. \A n \in Ids : /\ Whole(Source(l, n)) = n /\ Whole(Target(l, n)) = n
                       /\ Source(l, n) \in AllIds /\ Target(l, n) \in AllIds
    BY <2>3 DEF AllIds
  <2>8. \A n \in DOMAIN g[l].nodes : Source(l, n) \in ids(l)
    OBVIOUS
  <2>9. ASSUME NEW e \in moved(l)
        PROVE  /\ e \in AllIds \X AllIds /\ e[1] \in ids(l)
               /\ \E f \in g[l].edges : Whole(e[1]) = f[1] /\ Whole(e[2]) = f[2]
    <3>1. PICK f \in g[l].edges : e = <<Source(l, f[1]), Target(l, f[2])>>
      OBVIOUS
    <3>2. f[1] \in Ids /\ f[2] \in Ids /\ f[1] \in DOMAIN g[l].nodes
      BY <2>1
    <3> HIDE DEF Source, Target, ids
    <3> QED BY <2>7, <2>8, <3>1, <3>2
  <2>10. ASSUME NEW e \in links(l)
         PROVE  e \in AllIds \X AllIds /\ e[1] \in ids(l) /\ Whole(e[1]) = Whole(e[2])
    <3>1. PICK n \in splits(l) : e = <<<<n, 0>>, <<n, 1>>>>
      OBVIOUS
    <3>2. n \in Ids /\ <<n, 0>> \in parts(l)
      BY <2>2
    <3>3. Whole(<<n, 0>>) = n /\ Whole(<<n, 1>>) = n /\ <<n, 0>> \in Parts /\ <<n, 1>> \in Parts
      BY <2>3, <3>2
    <3> HIDE DEF splits
    <3> QED BY <3>1, <3>2, <3>3 DEF AllIds
  <2> HIDE DEF moved, links, ids
  <2>11. edges(l) \in SUBSET (AllIds \X AllIds)
    BY <2>9, <2>10
  <2>12. DOMAIN nodes(l) = ids(l)
    OBVIOUS
  <2>13. IsLayerGraph([nodes |-> nodes(l), edges |-> edges(l)])
    <3> HIDE DEF nodes, edges
    <3> QED BY <2>5, <2>6, <2>11, MadeLayer
  <2> QED BY <2>5, <2>9, <2>10, <2>12, <2>13
<1>3. \A l \in Layers : h[l].nodes = nodes(l) /\ h[l].edges = edges(l) /\ h[l] = [nodes |-> nodes(l), edges |-> edges(l)]
  BY <1>1
<1>4. DOMAIN h = Layers
  BY <1>1
<1> HIDE DEF h, ids, nodes, edges
<1>5. IsSoftwareGraph(h) /\ SourcesAreNodes(h)
  BY <1>2, <1>3, <1>4 DEF IsSoftwareGraph, SourcesAreNodes
<1>6. ASSUME NEW l \in Layers
      PROVE  /\ DOMAIN h[l].nodes \subseteq DOMAIN g[l].nodes \cup Parts
             /\ \A e \in h[l].edges : \/ \E f \in g[l].edges : Whole(e[1]) = f[1] /\ Whole(e[2]) = f[2]
                                      \/ Whole(e[1]) = Whole(e[2])
  <2>1. h[l].nodes = nodes(l) /\ h[l].edges = edges(l)
    BY <1>3
  <2> QED BY <1>2, <2>1
<1> QED BY <1>5, <1>6 DEF h

\* What the parts reach, the nodes they were split off reached.
LEMMA ReduceComplexityNarrows ==
  ASSUME NEW g, IsSoftwareGraph(g), SourcesAreNodes(g), OnlyIds(g)
  PROVE  Narrows(g, ReduceComplexity(g))
<1> DEFINE h == ReduceComplexity(g)
<1>1. /\ IsSoftwareGraph(h) /\ SourcesAreNodes(h)
      /\ \A l \in Layers :
           /\ DOMAIN h[l].nodes \subseteq DOMAIN g[l].nodes \cup Parts
           /\ \A e \in h[l].edges : \/ \E f \in g[l].edges : Whole(e[1]) = f[1] /\ Whole(e[2]) = f[2]
                                    \/ Whole(e[1]) = Whole(e[2])
  BY ReduceComplexityIs
<1> HIDE DEF h
<1>2. EdgeKeys(g) \in SUBSET (AllIds \X AllIds) /\ EdgeKeys(h) \in SUBSET (AllIds \X AllIds)
  BY <1>1, SoftwareGraphIsGraph DEF IsGraph
<1>3. NodeIds(h) \cap Ids \subseteq NodeIds(g)
  <2> SUFFICES ASSUME NEW n \in NodeIds(h), n \in Ids PROVE n \in NodeIds(g)
    OBVIOUS
  <2>1. PICK l \in Layers : n \in DOMAIN h[l].nodes
    BY DEF NodeIds
  <2>2. n \in DOMAIN g[l].nodes
    BY <1>1, <2>1, PipelineAssumption
  <2> QED BY <2>1, <2>2 DEF NodeIds
<1>4. ASSUME NEW e \in EdgeKeys(h)
      PROVE  \/ \E f \in EdgeKeys(g) : Whole(e[1]) = f[1] /\ Whole(e[2]) = f[2]
             \/ Whole(e[1]) = Whole(e[2])
  <2>1. PICK l \in Layers : e \in h[l].edges
    BY DEF EdgeKeys
  <2>2. g[l].edges \subseteq EdgeKeys(g)
    BY <2>1 DEF EdgeKeys
  <2> QED BY <1>1, <2>1, <2>2
<1>5. ASSUME NEW n \in Ids PROVE Reached(EdgeKeys(h), n) \cap Ids \subseteq Reached(EdgeKeys(g), n)
  <2> DEFINE R == Reached(EdgeKeys(g), n)
             C == {m \in AllIds : Whole(m) \in R}
  <2>1. n \in AllIds
    BY DEF AllIds
  <2>2. R \in SUBSET AllIds /\ n \in R /\ IsClosed(EdgeKeys(g), R)
    BY <1>2, <2>1, ReachedFacts
  <2> HIDE DEF R
  <2>3. n \in C
    BY <2>1, <2>2, WholeIs
  <2>4. IsClosed(EdgeKeys(h), C)
    <3> SUFFICES ASSUME NEW e \in EdgeKeys(h), e[1] \in C PROVE e[2] \in C
      BY DEF IsClosed
    <3>1. e[2] \in AllIds /\ Whole(e[1]) \in R
      BY <1>2
    <3>2. Whole(e[2]) \in R
      BY <1>4, <2>2, <3>1 DEF IsClosed
    <3> QED BY <3>1, <3>2
  <2>5. Reached(EdgeKeys(h), n) \subseteq C
    <3>1. C \in SUBSET AllIds
      OBVIOUS
    <3> HIDE DEF C
    <3> QED BY <1>2, <2>1, <2>3, <2>4, <3>1, ReachedFacts
  <2> QED BY <2>5, WholeIs DEF R
<1> QED BY <1>1, <1>3, <1>5 DEF Narrows, NoNewPaths, h

\* Whatever edges are cut.
LEMMA CleanDependencyCyclesNarrows ==
  ASSUME NEW g, IsSoftwareGraph(g), SourcesAreNodes(g), NEW h \in CleanDependencyCycles(g)
  PROVE  Narrows(g, h)
<1>1. /\ DOMAIN h = Layers
      /\ \A l \in Layers : \E gone : h[l] = [nodes |-> g[l].nodes, edges |-> g[l].edges \ gone]
  <2> DEFINE Cycles(lg) == {c \in UNION {SimpleCycles(lg.edges, C) :
                                    C \in CyclicComponents(GraphNodes(DOMAIN lg.nodes, lg.edges), lg.edges)} :
                              CycleBreakEdges(lg, c) # {}}
             picks(lg) == {f \in [Cycles(lg) -> lg.edges] : \A c \in Cycles(lg) : f[c] \in CycleBreakEdges(lg, c)}
             Cleaned(lg) == {[lg EXCEPT !.edges = @ \ Range(f)] : f \in picks(lg)}
             options == [l \in Layers |-> Cleaned(g[l])]
  <2>1. CleanDependencyCycles(g) = {k \in [Layers -> UNION Range(options)] : \A l \in Layers : k[l] \in options[l]}
    BY DEF CleanDependencyCycles
  <2>2. h \in [Layers -> UNION Range(options)] /\ \A l \in Layers : h[l] \in options[l]
    <3> HIDE DEF options
    <3> QED BY <2>1
  <2>3. ASSUME NEW l \in Layers PROVE \E gone : h[l] = [nodes |-> g[l].nodes, edges |-> g[l].edges \ gone]
    <3> HIDE DEF picks
    <3>1. PICK f \in picks(g[l]) : h[l] = [g[l] EXCEPT !.edges = @ \ Range(f)]
      BY <2>2
    <3>2. g[l] = [nodes |-> g[l].nodes, edges |-> g[l].edges]
      BY LayerFacts
    <3>3. h[l] = [nodes |-> g[l].nodes, edges |-> g[l].edges \ Range(f)]
      BY <3>1, <3>2
    <3> QED BY <3>3
  <2> HIDE DEF options
  <2> QED BY <2>2, <2>3
<1>2. ASSUME NEW l \in Layers
      PROVE  /\ h[l].nodes = g[l].nodes /\ h[l].edges \subseteq g[l].edges /\ IsLayerGraph(h[l])
  <2>1. PICK gone : h[l] = [nodes |-> g[l].nodes, edges |-> g[l].edges \ gone]
    BY <1>1
  <2>2. /\ DOMAIN g[l].nodes \in SUBSET AllIds /\ g[l].edges \ gone \in SUBSET (AllIds \X AllIds)
        /\ g[l].nodes \in [DOMAIN g[l].nodes -> Attributes]
    BY LayerFacts
  <2>3. IsLayerGraph([nodes |-> g[l].nodes, edges |-> g[l].edges \ gone])
    BY <2>2, MadeLayer
  <2> QED BY <2>1, <2>3
<1>3. IsSoftwareGraph(h) /\ SourcesAreNodes(h)
  BY <1>1, <1>2 DEF IsSoftwareGraph, SourcesAreNodes
<1> QED BY <1>2, <1>3, FewerNarrow

-----------------------------------------------------------------------------
(* The live ids                                                             *)

LEMMA LiveHas ==
  ASSUME NEW g, NEW e \in Entries \cap NodeIds(g)
  PROVE  Reached(EdgeKeys(g), e) \subseteq LiveIds(g, Entries)
<1> DEFINE known == Entries \cap GraphNodes(NodeIds(g), EdgeKeys(g))
<1>1. e \in known
  BY DEF GraphNodes
<1>2. LiveIds(g, Entries) = known \cup UNION {Descendants(EdgeKeys(g), n) : n \in known}
  BY DEF LiveIds
<1> HIDE DEF known
<1>3. Descendants(EdgeKeys(g), e) \subseteq LiveIds(g, Entries) /\ e \in LiveIds(g, Entries)
  BY <1>1, <1>2
<1> QED BY <1>3 DEF Reached

\* In a graph whose edges join nodes, the live ids are nodes, and closed under the edges.
LEMMA LiveIs ==
  ASSUME NEW g, IsSoftwareGraph(g), EdgesJoinNodes(g)
  PROVE  /\ GraphNodes(NodeIds(g), EdgeKeys(g)) = NodeIds(g)
         /\ \A m : m \in LiveIds(g, Entries) <=> \E e \in Entries \cap NodeIds(g) : m \in Reached(EdgeKeys(g), e)
         /\ LiveIds(g, Entries) \subseteq NodeIds(g)
         /\ IsClosed(EdgeKeys(g), LiveIds(g, Entries))
<1> DEFINE V == NodeIds(g)
           E == EdgeKeys(g)
           known == Entries \cap V
<1>1. V \in SUBSET AllIds /\ E \in SUBSET (AllIds \X AllIds)
  BY SoftwareGraphIsGraph DEF IsGraph
<1>2. \A e \in E : e[1] \in V /\ e[2] \in V
  <2> SUFFICES ASSUME NEW e \in E PROVE e[1] \in V /\ e[2] \in V
    OBVIOUS
  <2>1. PICK l \in Layers : e \in g[l].edges
    BY DEF EdgeKeys
  <2>2. e[1] \in DOMAIN g[l].nodes /\ e[2] \in DOMAIN g[l].nodes
    BY <2>1 DEF EdgesJoinNodes
  <2> QED BY <2>1, <2>2 DEF NodeIds
<1>3. GraphNodes(V, E) = V
  <2>1. \A n : n \in {e[1] : e \in E} => \E e \in E : n = e[1]
    OBVIOUS
  <2>2. \A n : n \in {e[2] : e \in E} => \E e \in E : n = e[2]
    OBVIOUS
  <2> HIDE DEF V, E
  <2> QED BY <1>2, <2>1, <2>2 DEF GraphNodes
<1>4. LiveIds(g, Entries) = known \cup UNION {Descendants(E, n) : n \in known}
  BY <1>3 DEF LiveIds
<1> HIDE DEF V, E
<1>5. \A m : m \in LiveIds(g, Entries) <=> \E e \in known : m \in Reached(E, e)
  BY <1>4 DEF Reached
<1>6. ASSUME NEW e \in known
      PROVE  Reached(E, e) \subseteq V /\ IsClosed(E, Reached(E, e))
  <2>1. e \in V /\ e \in AllIds
    BY <1>1
  <2>2. IsClosed(E, V)
    BY <1>2 DEF IsClosed
  <2> QED BY <1>1, <2>1, <2>2, ReachedFacts
<1>7. LiveIds(g, Entries) \subseteq V
  BY <1>5, <1>6
<1>8. IsClosed(E, LiveIds(g, Entries))
  BY <1>5, <1>6 DEF IsClosed
<1> QED BY <1>3, <1>5, <1>7, <1>8 DEF V, E

\* The first pass is kept, and leaves nothing that is not live.
LEMMA FirstPassKept ==
  ASSUME NEW g, IsSoftwareGraph(g), EdgesJoinNodes(g), NEW first \in FirstSuccessors(g)
  PROVE  /\ Verify(g, RemoveDeadNodes(g, g), first, first)
         /\ NodeIds(RemoveDeadNodes(g, g)) \subseteq LiveIds(g, Entries)
<1> DEFINE dead == FindDeadNodes(g, Entries)
           live == LiveIds(g, Entries)
           h == RemoveDeadNodes(g, g)
           Vg == NodeIds(g)
           Vh == NodeIds(h)
           Eg == EdgeKeys(g)
           Eh == EdgeKeys(h)
<1>1. /\ IsSoftwareGraph(h)
      /\ \A l \in Layers :
           /\ DOMAIN h[l].nodes = DOMAIN g[l].nodes \ dead
           /\ \A e : e \in h[l].edges <=>
                e \in g[l].edges /\ e[1] \notin dead \cap DOMAIN g[l].nodes
                                 /\ e[2] \notin dead \cap DOMAIN g[l].nodes
  BY RemoveDeadNodesIs
<1>2. /\ \A m : m \in live <=> \E e \in Entries \cap Vg : m \in Reached(Eg, e)
      /\ live \subseteq Vg /\ IsClosed(Eg, live) /\ dead = Vg \ live
  BY LiveIs DEF FindDeadNodes
<1> HIDE DEF dead, live, h
<1>3. IsGraph(g) /\ IsGraph(h)
  BY <1>1, SoftwareGraphIsGraph
<1>4. \A n : n \in Vh <=> n \in live
  <2>1. ASSUME NEW n \in Vh PROVE n \in live
    <3>1. PICK l \in Layers : n \in DOMAIN h[l].nodes
      BY DEF NodeIds
    <3>2. n \in DOMAIN g[l].nodes /\ n \notin dead
      BY <1>1, <3>1
    <3>3. n \in Vg
      BY <3>1, <3>2 DEF NodeIds
    <3> QED BY <1>2, <3>2, <3>3
  <2>2. ASSUME NEW n \in live PROVE n \in Vh
    <3>1. n \in Vg /\ n \notin dead
      BY <1>2
    <3>2. PICK l \in Layers : n \in DOMAIN g[l].nodes
      BY <3>1 DEF NodeIds
    <3>3. n \in DOMAIN h[l].nodes
      BY <1>1, <3>1, <3>2
    <3> QED BY <3>2, <3>3 DEF NodeIds
  <2> QED BY <2>1, <2>2
<1>5. Eh \subseteq Eg /\ \A e \in Eg : e[1] \in live => e \in Eh
  <2>1. ASSUME NEW e \in Eh PROVE e \in Eg
    <3>1. PICK l \in Layers : e \in h[l].edges
      BY DEF EdgeKeys
    <3> QED BY <1>1, <3>1 DEF EdgeKeys
  <2>2. ASSUME NEW e \in Eg, e[1] \in live PROVE e \in Eh
    <3>1. PICK l \in Layers : e \in g[l].edges
      BY DEF EdgeKeys
    <3>2. e[2] \in live
      BY <1>2, <2>2 DEF IsClosed
    <3>3. e \in h[l].edges
      BY <1>1, <1>2, <2>2, <3>1, <3>2
    <3> QED BY <3>1, <3>3 DEF EdgeKeys
  <2> QED BY <2>1, <2>2
<1>6. /\ Vg \in SUBSET AllIds /\ Eg \in SUBSET (AllIds \X AllIds) /\ Eh \in SUBSET (AllIds \X AllIds)
  BY <1>3 DEF IsGraph
<1> HIDE DEF Vg, Vh, Eg, Eh
<1>7. ASSUME NEW n \in live PROVE Reached(Eh, n) = Reached(Eg, n)
  <2>1. n \in AllIds
    BY <1>2, <1>6
  <2>2. Reached(Eh, n) \subseteq Reached(Eg, n)
    BY <1>5, <1>6, <2>1, ReachedByMore
  <2>3. /\ Reached(Eh, n) \in SUBSET AllIds /\ n \in Reached(Eh, n) /\ IsClosed(Eh, Reached(Eh, n))
    BY <1>6, <2>1, ReachedFacts
  <2>4. Reached(Eg, n) \subseteq live
    <3>1. live \in SUBSET AllIds
      BY <1>2, <1>6
    <3> QED BY <1>2, <1>6, <2>1, <3>1, ReachedFacts
  <2>5. IsClosed(Eg, Reached(Eh, n))
    BY <1>5, <2>2, <2>3, <2>4 DEF IsClosed
  <2>6. Reached(Eg, n) \subseteq Reached(Eh, n)
    BY <1>6, <2>1, <2>3, <2>5, ReachedFacts
  <2> QED BY <2>2, <2>6
<1>8. \A n \in live : Descendants(Eh, n) = Descendants(Eg, n) /\ Descendants(Eg, n) \subseteq live
  <2> SUFFICES ASSUME NEW n \in live
               PROVE  Descendants(Eh, n) = Descendants(Eg, n) /\ Descendants(Eg, n) \subseteq live
    OBVIOUS
  <2>1. n \in AllIds
    BY <1>2, <1>6
  <2>2. Descendants(Eh, n) = Reached(Eh, n) \ {n} /\ Descendants(Eg, n) = Reached(Eg, n) \ {n}
    BY <1>6, <2>1, ReachedFacts
  <2>3. Reached(Eg, n) \subseteq live
    <3>1. live \in SUBSET AllIds
      BY <1>2, <1>6
    <3> QED BY <1>2, <1>6, <2>1, <3>1, ReachedFacts
  <2> QED BY <1>7, <2>2, <2>3
<1>9. \A e \in Entries \cap Vg : e \in live
  BY <1>2 DEF Reached
<1>10. /\ \A n \in live : ReachableFrom(g)[n] = ReachableFrom(h)[n] /\ ReachableFrom(g)[n] \subseteq live
       /\ \A n \in Vh : n \in live
  <2>1. \A n \in live : n \in Vg /\ n \in Vh
    BY <1>2, <1>4
  <2>2. \A n \in live : /\ ReachableFrom(g)[n] = Descendants(Eg, n) \cap Vg
                        /\ ReachableFrom(h)[n] = Descendants(Eh, n) \cap Vh
    BY <2>1 DEF ReachableFrom, Eg, Eh, Vg, Vh
  <2>3. \A n \in live : Descendants(Eg, n) \cap Vg = Descendants(Eh, n) \cap Vh
    BY <1>2, <1>4, <1>8
  <2>4. \A n \in live : Descendants(Eg, n) \cap Vg \subseteq live
    BY <1>8
  <2> QED BY <1>4, <2>2, <2>3, <2>4
<1>11. BuildTraceSet(g, first) \subseteq BuildTraceSet(h, first)
  <2>1. \A n \in Vg : n \in DOMAIN first => first[n] \subseteq ReachableFrom(g)[n]
    BY FirstsAre
  <2>2. \A n \in Vh : n \in DOMAIN first => first[n] \subseteq ReachableFrom(h)[n]
    BY <1>2, <1>10, <2>1
  <2>3. /\ BuildTraceSet(g, first) = AllTraces(Vg, Taken(g, first), Entries)
        /\ \A n \in Vg : Taken(g, first)[n] \subseteq ReachableFrom(g)[n]
    BY <1>3, <2>1, TakenIs DEF Vg
  <2>4. BuildTraceSet(h, first) = AllTraces(Vh, Taken(h, first), Entries)
    BY <1>3, <2>2, TakenIs DEF Vh
  <2>5. \A n \in live : n \in Vg /\ n \in Vh
    BY <1>2, <1>4
  <2>6. \A n \in live : Taken(g, first)[n] = Taken(h, first)[n]
    BY <1>10, <2>5 DEF Taken, Vg, Vh
  <2>7. \A n \in live : Taken(g, first)[n] \subseteq live
    BY <1>10, <2>3, <2>5
  <2> DEFINE nb == Taken(g, first)
             na == Taken(h, first)
  <2> HIDE DEF nb, na
  <2>8. \A n \in live : n \in Vh /\ nb[n] \subseteq live /\ nb[n] \subseteq na[n] /\ (nb[n] = {} => na[n] = {})
    BY <2>5, <2>6, <2>7 DEF nb, na
  <2>9. AllTraces(Vg, nb, Entries) \subseteq AllTraces(Vh, na, Entries)
    <3> HIDE DEF Vg, Vh
    <3>1. \A e \in Entries \cap Vg : e \in live
      BY <1>9
    <3> QED BY <2>8, <3>1, TracesCarryOver
  <2> QED BY <2>3, <2>4, <2>9 DEF nb, na
<1>12. (NodeIds(g) \ NodeIds(h)) \cap LiveIds(g, Entries) = {}
  BY <1>4 DEF Vh, live
<1>13. NodeIds(h) \subseteq LiveIds(g, Entries)
  BY <1>4 DEF Vh, live
<1> QED BY <1>11, <1>12, <1>13 DEF Verify, h

-----------------------------------------------------------------------------
(* What a graph owes to the one that was put in.                            *)

Behaves(original, g) ==
  LET live == LiveIds(original, Entries) \cap NodeIds(original)
  IN  /\ live \subseteq NodeIds(g)
      /\ \A n \in live : Descendants(EdgeKeys(g), n) \cap Ids = Descendants(EdgeKeys(original), n)

\* A verified result of a pass owes no more and no less than the graph before it, if the search
\* of that was not truncated.
LEMMA VerifiedBehaves ==
  ASSUME NEW original, IsSoftwareGraph(original), EdgesJoinNodes(original), NodeIds(original) \subseteq Ids,
         NEW g, IsSoftwareGraph(g), Behaves(original, g),
         NEW h, Narrows(g, h), Overfull(g) = {},
         NEW b \in FirstSuccessors(g), NEW a, SomeOf(h, a), Verify(g, h, b, a)
  PROVE  Behaves(original, h)
<1> DEFINE Vo == NodeIds(original)
           Eo == EdgeKeys(original)
           Eg == EdgeKeys(g)
           Eh == EdgeKeys(h)
           live == LiveIds(original, Entries)
<1>1. /\ \A m : m \in live <=> \E e \in Entries \cap Vo : m \in Reached(Eo, e)
      /\ live \subseteq Vo /\ IsClosed(Eo, live)
  BY LiveIs
<1>2. IsGraph(original) /\ IsGraph(g) /\ IsGraph(h) /\ NoNewPaths(g, h)
  BY SoftwareGraphIsGraph DEF Narrows
<1>3. Eo \in SUBSET (AllIds \X AllIds) /\ Eg \in SUBSET (AllIds \X AllIds) /\ Eh \in SUBSET (AllIds \X AllIds)
  BY <1>2 DEF IsGraph
<1>4. live \cap Vo = live /\ live \subseteq Ids /\ live \in SUBSET AllIds
  BY <1>1 DEF AllIds
<1>5. /\ live \subseteq NodeIds(g)
      /\ \A n \in live : Descendants(Eg, n) \cap Ids = Descendants(Eo, n)
  BY <1>4 DEF Behaves
<1>6. SameOrMoreReach(g, h)
  BY <1>2, TraceTestIsSound DEF Verify
<1> DEFINE Reach(k, n) == Descendants(EdgeKeys(k), n) \cap NodeIds(k)
           walked == UNION {{n} \cup Reach(g, n) : n \in Entries \cap NodeIds(g)}
<1>7. \A n \in walked : Reach(g, n) \subseteq Reach(h, n)
  BY <1>6 DEF SameOrMoreReach
<1> HIDE DEF live, Eo, Vo
<1>8. ASSUME NEW n \in live
      PROVE  n \in AllIds /\ n \in Ids /\ Descendants(Eo, n) = Reached(Eo, n) \ {n} /\ Descendants(Eo, n) \subseteq live
  <2>1. n \in AllIds /\ n \in Ids
    BY <1>4
  <2>2. Descendants(Eo, n) = Reached(Eo, n) \ {n} /\ Reached(Eo, n) \subseteq live
    BY <1>1, <1>3, <1>4, <2>1, ReachedFacts
  <2> QED BY <2>1, <2>2
<1>9. ASSUME NEW n \in live PROVE n \in walked /\ n \in LiveIds(g, Entries)
  <2>1. PICK e \in Entries \cap Vo : n \in Reached(Eo, e)
    BY <1>1
  <2>2. e \in live
    BY <1>1, <2>1 DEF Reached
  <2>3. e \in Entries \cap NodeIds(g) /\ e \in AllIds
    BY <1>5, <1>8, <2>1, <2>2
  <2>4. n = e \/ n \in Descendants(Eo, e)
    BY <2>1 DEF Reached
  <2>5. n \in {e} \cup Reach(g, e)
    BY <1>5, <2>2, <2>4
  <2>6. n \in Reached(Eg, e)
    BY <2>5 DEF Reached
  <2>7. Reached(Eg, e) \subseteq LiveIds(g, Entries)
    BY <2>3, LiveHas
  <2> QED BY <2>3, <2>5, <2>6, <2>7
<1>10. live \subseteq NodeIds(h)
  BY <1>5, <1>9 DEF Verify
<1>11. ASSUME NEW n \in live PROVE Descendants(Eh, n) \cap Ids = Descendants(Eo, n)
  <2>1. /\ Descendants(Eg, n) = Reached(Eg, n) \ {n} /\ Descendants(Eh, n) = Reached(Eh, n) \ {n}
    BY <1>3, <1>8, ReachedFacts
  <2>2. Reached(Eh, n) \cap Ids \subseteq Reached(Eg, n)
    BY <1>2, <1>8 DEF NoNewPaths
  <2>3. Descendants(Eh, n) \cap Ids \subseteq Descendants(Eo, n)
    BY <1>5, <2>1, <2>2
  <2>4. ASSUME NEW m \in Descendants(Eo, n) PROVE m \in Descendants(Eh, n) \cap Ids
    <3>1. m \in live /\ m \in Ids /\ m \in Descendants(Eg, n)
      BY <1>4, <1>5, <1>8
    <3>2. m \in Reach(g, n)
      BY <1>5, <3>1
    <3>3. m \in Reach(h, n)
      BY <1>7, <1>9, <3>2
    <3> QED BY <3>1, <3>3
  <2> QED BY <2>3, <2>4
<1> QED BY <1>4, <1>10, <1>11 DEF Behaves, live, Eo, Vo

LEMMA RiskIs ==
  ASSUME NEW before, NEW after, NEW preserved
  PROVE  AssessRisk(before, after, preserved) \in RiskLevel
BY DEF AssessRisk, RiskLevel

\* The summary's risk is one of the reports' risks.
LEMMA HighestRiskIs ==
  ASSUME NEW rs \in Seq([preserved : BOOLEAN, risk : RiskLevel]), rs # <<>>
  PROVE  HighestRisk(rs) \in RiskLevel
<1> DEFINE text == [critical |-> 0, high |-> 1, low |-> 2, medium |-> 3]
           risks == {rs[i].risk : i \in 1 .. Len(rs)}
<1>1. risks \subseteq RiskLevel /\ risks # {}
  <2>1. \A i \in 1 .. Len(rs) : rs[i].risk \in RiskLevel
    <3> SUFFICES ASSUME NEW i \in 1 .. Len(rs) PROVE rs[i].risk \in RiskLevel
      OBVIOUS
    <3>1. rs[i] \in [preserved : BOOLEAN, risk : RiskLevel]
      BY ElementOfSeq
    <3> QED BY <3>1
  <2>2. 1 \in 1 .. Len(rs)
    OBVIOUS
  <2> QED BY <2>1, <2>2
<1>2. \A r \in RiskLevel : text[r] \in 0 .. 3
  BY DEF RiskLevel
<1> HIDE DEF text, risks
<1>3. \E r \in risks : \A q \in risks : text[q] =< text[r]
  <2> DEFINE ranks == {3 - text[r] : r \in risks}
  <2>1. ranks \in SUBSET Nat /\ ranks # {}
    BY <1>1, <1>2
  <2>2. PICK m \in ranks : \A n \in ranks : m =< n
    <3> HIDE DEF ranks
    <3> QED BY <2>1, NatLeast
  <2>3. PICK r \in risks : m = 3 - text[r]
    BY <2>2
  <2>4. \A q \in risks : text[q] =< text[r]
    <3> SUFFICES ASSUME NEW q \in risks PROVE text[q] =< text[r]
      OBVIOUS
    <3>1. text[q] \in 0 .. 3 /\ text[r] \in 0 .. 3
      BY <1>1, <1>2
    <3>2. m =< 3 - text[q]
      BY <2>2
    <3> HIDE DEF ranks
    <3> QED BY <2>3, <3>1, <3>2
  <2> QED BY <2>4
<1>4. HighestRisk(rs) = CHOOSE r \in risks : \A q \in risks : text[q] =< text[r]
  BY DEF HighestRisk, risks, text
<1> QED BY <1>1, <1>3, <1>4

-----------------------------------------------------------------------------
(* The levels of a layer.  The iteration goes from a level and what was     *)
(* placed before it to the next level and what is placed then.              *)

Placings == (SUBSET AllIds) \X (SUBSET AllIds)
Place(edges, at) ==
  LET placed == at[2] \cup at[1]
  IN  <<{s \in (UNION {Successors(edges, n) : n \in at[1]}) \ placed : Predecessors(edges, s) \subseteq placed},
        placed>>
Levels(edges, F) ==
  F = [at \in Placings |-> IF at[1] = {} THEN {} ELSE {at[1]} \cup F[Place(edges, at)]]

\* The placings that an iteration goes through.
PlaceSteps(edges) == {<<at, Place(edges, at)>> : at \in {a \in Placings : a[1] # {}}}
Iteration(edges, at) == LeastClosed(PlaceSteps(edges), Placings, {at})

LEMMA PlaceIs ==
  ASSUME NEW edges \in SUBSET (AllIds \X AllIds), NEW at \in Placings
  PROVE  /\ at[1] \in SUBSET AllIds /\ at[2] \in SUBSET AllIds
         /\ Place(edges, at) \in Placings
         /\ Place(edges, at)[2] = at[2] \cup at[1]
         /\ Place(edges, at)[1] \cap (at[2] \cup at[1]) = {}
         /\ \A s : s \in Place(edges, at)[1] <=>
              /\ \E n \in at[1] : s \in Successors(edges, n)
              /\ s \notin at[2] \cup at[1]
              /\ Predecessors(edges, s) \subseteq at[2] \cup at[1]
<1> DEFINE placed == at[2] \cup at[1]
           below == {s \in (UNION {Successors(edges, n) : n \in at[1]}) \ placed : Predecessors(edges, s) \subseteq placed}
<1>1. at[1] \in SUBSET AllIds /\ at[2] \in SUBSET AllIds
  BY DEF Placings
<1>2. Place(edges, at) = <<below, placed>>
  BY DEF Place
<1>3. \A n : Successors(edges, n) \subseteq AllIds
  BY DEF Successors
<1>4. below \in SUBSET AllIds
  BY <1>3
<1>5. \A s : s \in below <=> /\ \E n \in at[1] : s \in Successors(edges, n)
                             /\ s \notin placed
                             /\ Predecessors(edges, s) \subseteq placed
  OBVIOUS
<1>6. placed \in SUBSET AllIds
  BY <1>1
<1> HIDE DEF below
<1>7. below \cap placed = {}
  BY <1>5
<1>8. Place(edges, at)[1] = below /\ Place(edges, at)[2] = placed /\ Place(edges, at) \in Placings
  BY <1>2, <1>4, <1>6 DEF Placings
<1> QED BY <1>1, <1>5, <1>7, <1>8

LEMMA IterationIs ==
  ASSUME NEW edges \in SUBSET (AllIds \X AllIds), NEW at \in Placings
  PROVE  /\ Iteration(edges, at) \in SUBSET Placings /\ at \in Iteration(edges, at)
         /\ \A b \in Iteration(edges, at) : b[1] # {} => Place(edges, b) \in Iteration(edges, at)
         /\ \A C \in SUBSET Placings :
              at \in C /\ (\A b \in C : b[1] # {} => Place(edges, b) \in C) => Iteration(edges, at) \subseteq C
<1> DEFINE steps == PlaceSteps(edges)
<1>1. \A e \in steps : e[2] \in Placings
  <2> SUFFICES ASSUME NEW e \in steps PROVE e[2] \in Placings
    OBVIOUS
  <2>1. PICK a \in Placings : e = <<a, Place(edges, a)>>
    BY DEF PlaceSteps
  <2> QED BY <2>1, PlaceIs
<1>2. \A C : IsClosed(steps, C) <=> \A b \in C \cap Placings : b[1] # {} => Place(edges, b) \in C
  <2> SUFFICES ASSUME NEW C
               PROVE  IsClosed(steps, C) <=> \A b \in C \cap Placings : b[1] # {} => Place(edges, b) \in C
    OBVIOUS
  <2>1. ASSUME IsClosed(steps, C), NEW b \in C \cap Placings, b[1] # {} PROVE Place(edges, b) \in C
    <3>1. <<b, Place(edges, b)>> \in steps
      BY <2>1 DEF PlaceSteps
    <3> QED BY <2>1, <3>1 DEF IsClosed
  <2>2. ASSUME \A b \in C \cap Placings : b[1] # {} => Place(edges, b) \in C PROVE IsClosed(steps, C)
    <3> SUFFICES ASSUME NEW e \in steps, e[1] \in C PROVE e[2] \in C
      BY DEF IsClosed
    <3>1. PICK a \in Placings : e = <<a, Place(edges, a)>> /\ a[1] # {}
      BY DEF PlaceSteps
    <3> QED BY <2>2, <3>1
  <2> QED BY <2>1, <2>2
<1>3. {at} \in SUBSET Placings
  OBVIOUS
<1> HIDE DEF steps
<1>4. /\ LeastClosed(steps, Placings, {at}) \in SUBSET Placings
      /\ {at} \subseteq LeastClosed(steps, Placings, {at})
      /\ IsClosed(steps, LeastClosed(steps, Placings, {at}))
      /\ \A C \in SUBSET Placings : {at} \subseteq C /\ IsClosed(steps, C) => LeastClosed(steps, Placings, {at}) \subseteq C
  BY <1>1, <1>3, LeastIsClosed
<1>5. Iteration(edges, at) = LeastClosed(steps, Placings, {at})
  BY DEF Iteration, steps
<1> DEFINE I == Iteration(edges, at)
<1>6. I \in SUBSET Placings /\ at \in I /\ IsClosed(steps, I)
  BY <1>4, <1>5
<1>7. \A C \in SUBSET Placings : at \in C /\ IsClosed(steps, C) => I \subseteq C
  BY <1>4, <1>5
<1> HIDE DEF I
<1>8. \A b \in I : b[1] # {} => Place(edges, b) \in I
  BY <1>2, <1>6
<1>9. \A C \in SUBSET Placings : (\A b \in C : b[1] # {} => Place(edges, b) \in C) => IsClosed(steps, C)
  BY <1>2
<1>10. \A C \in SUBSET Placings :
         at \in C /\ (\A b \in C : b[1] # {} => Place(edges, b) \in C) => I \subseteq C
  BY <1>7, <1>9
<1> QED BY <1>6, <1>8, <1>10 DEF I

\* An iteration that goes on is its first placing and the iteration from the next.
LEMMA IterationStep ==
  ASSUME NEW edges \in SUBSET (AllIds \X AllIds), NEW at \in Placings
  PROVE  Iteration(edges, at) = IF at[1] = {} THEN {at} ELSE {at} \cup Iteration(edges, Place(edges, at))
<1> DEFINE I == Iteration(edges, at)
           J == Iteration(edges, Place(edges, at))
<1>1. /\ I \in SUBSET Placings /\ at \in I
      /\ \A b \in I : b[1] # {} => Place(edges, b) \in I
      /\ \A C \in SUBSET Placings : at \in C /\ (\A b \in C : b[1] # {} => Place(edges, b) \in C) => I \subseteq C
  BY IterationIs
<1>2. Place(edges, at) \in Placings
  BY PlaceIs
<1>3. /\ J \in SUBSET Placings /\ Place(edges, at) \in J
      /\ \A b \in J : b[1] # {} => Place(edges, b) \in J
      /\ \A C \in SUBSET Placings :
           Place(edges, at) \in C /\ (\A b \in C : b[1] # {} => Place(edges, b) \in C) => J \subseteq C
  BY <1>2, IterationIs
<1> HIDE DEF I, J
<1>4. CASE at[1] = {}
  <2>1. {at} \in SUBSET Placings /\ \A b \in {at} : b[1] # {} => Place(edges, b) \in {at}
    BY <1>4
  <2>2. I \subseteq {at}
    BY <1>1, <2>1
  <2> QED BY <1>1, <1>4, <2>2 DEF I
<1>5. CASE at[1] # {}
  <2> DEFINE C == {at} \cup J
  <2>1. C \in SUBSET Placings /\ at \in C /\ \A b \in C : b[1] # {} => Place(edges, b) \in C
    BY <1>3
  <2> HIDE DEF C
  <2>2. I \subseteq C
    BY <1>1, <2>1
  <2>3. J \subseteq I
    BY <1>1, <1>3, <1>5
  <2> QED BY <1>1, <1>5, <2>2, <2>3 DEF C, I, J
<1> QED BY <1>4, <1>5

\* The recursion is defined, and gives the levels that the iteration goes through.
LEMMA LevelsAre ==
  ASSUME NEW edges \in SUBSET (AllIds \X AllIds), NEW at \in Placings
  PROVE  (CHOOSE F : Levels(edges, F))[at] = {b[1] : b \in Iteration(edges, at)} \ {{}}
<1> DEFINE Passed(a) == {b[1] : b \in Iteration(edges, a)} \ {{}}
           all == [a \in Placings |-> Passed(a)]
           F == CHOOSE G : Levels(edges, G)
<1>1. \A a \in Placings : Passed(a) = IF a[1] = {} THEN {} ELSE {a[1]} \cup Passed(Place(edges, a))
  <2> SUFFICES ASSUME NEW a \in Placings
               PROVE  Passed(a) = IF a[1] = {} THEN {} ELSE {a[1]} \cup Passed(Place(edges, a))
    OBVIOUS
  <2>1. Iteration(edges, a) = IF a[1] = {} THEN {a} ELSE {a} \cup Iteration(edges, Place(edges, a))
    BY IterationStep
  <2>2. CASE a[1] = {}
    BY <2>1, <2>2
  <2>3. CASE a[1] # {}
    <3>1. \A L : L \in Passed(a) <=> L # {} /\ \E b \in Iteration(edges, a) : L = b[1]
      OBVIOUS
    <3>2. \A L : L \in Passed(Place(edges, a)) <=> L # {} /\ \E b \in Iteration(edges, Place(edges, a)) : L = b[1]
      OBVIOUS
    <3> HIDE DEF Passed
    <3>3. \A L : L \in Passed(a) <=> L = a[1] \/ L \in Passed(Place(edges, a))
      BY <2>1, <2>3, <3>1, <3>2
    <3> QED BY <2>3, <3>3
  <2> QED BY <2>2, <2>3
<1>2. \A a \in Placings : Place(edges, a) \in Placings
  BY PlaceIs
<1> HIDE DEF Passed
<1>3. Levels(edges, all)
  <2>1. \A a \in Placings : all[a] = IF a[1] = {} THEN {} ELSE {a[1]} \cup all[Place(edges, a)]
    BY <1>1, <1>2
  <2> QED BY <2>1 DEF Levels
<1>4. Levels(edges, F)
  BY <1>3
<1>5. \A a \in Placings : F[a] = IF a[1] = {} THEN {} ELSE {a[1]} \cup F[Place(edges, a)]
  BY <1>4 DEF Levels
<1> HIDE DEF F
<1> DEFINE bad == {a \in Placings : F[a] # Passed(a)}
           tops == {a[2] : a \in bad}
<1>6. \A a \in bad : a[1] # {} /\ Place(edges, a) \in bad
  BY <1>1, <1>2, <1>5
<1>7. \A a \in bad : /\ Place(edges, a)[2] = a[2] \cup a[1]
                     /\ Place(edges, a)[1] \cap (a[2] \cup a[1]) = {}
  <2>1. \A a \in bad : a \in Placings
    OBVIOUS
  <2> HIDE DEF bad
  <2> QED BY <2>1, PlaceIs
<1>8. tops \in SUBSET SUBSET AllIds
  <2>1. \A a \in Placings : a[2] \in SUBSET AllIds
    BY PlaceIs
  <2> QED BY <2>1
<1> HIDE DEF bad
<1>9. bad = {}
  <2> SUFFICES ASSUME bad # {} PROVE FALSE
    OBVIOUS
  <2>1. tops # {}
    OBVIOUS
  <2>2. PICK top \in tops : \A U \in tops : top \subseteq U => U = top
    <3> HIDE DEF tops
    <3> QED BY <1>8, <2>1, AllIdsFinite, MaximalSubset
  <2>3. PICK a \in bad : top = a[2]
    BY <2>2
  <2> DEFINE b == Place(edges, a)
             c == Place(edges, b)
  <2>4. b \in bad /\ c \in bad /\ b[1] # {}
    BY <1>6
  <2>5. b[2] = a[2] \cup a[1] /\ c[2] = b[2] \cup b[1] /\ b[1] \cap (a[2] \cup a[1]) = {}
    BY <1>7, <2>4
  <2>6. c[2] \in tops
    BY <2>4
  <2> HIDE DEF b, c, tops
  <2>7. c[2] = top
    BY <2>2, <2>3, <2>5, <2>6
  <2> QED BY <2>3, <2>4, <2>5, <2>7
<1> QED BY <1>9 DEF bad, F, Passed

LEMMA ParallelLevelsAre ==
  ASSUME NEW nodes \in SUBSET AllIds, NEW edges \in SUBSET (AllIds \X AllIds)
  PROVE  LET start == <<{n \in nodes : Predecessors(edges, n) = {}}, {}>>
         IN  /\ start \in Placings
             /\ ParallelLevels(nodes, edges) = {b[1] : b \in Iteration(edges, start)} \ {{}}
<1> DEFINE start == <<{n \in nodes : Predecessors(edges, n) = {}}, {}>>
<1>1. start \in Placings
  BY DEF Placings
<1>2. ParallelLevels(nodes, edges) = (CHOOSE F : Levels(edges, F))[start]
  BY DEF ParallelLevels, Levels, Place, Placings
<1> HIDE DEF start
<1>3. (CHOOSE F : Levels(edges, F))[start] = {b[1] : b \in Iteration(edges, start)} \ {{}}
  BY <1>1, LevelsAre
<1> QED BY <1>1, <1>2, <1>3 DEF start

\* Edges between the ids that were put in lead to none but these.
LEMMA ReachedIds ==
  ASSUME NEW edges \in SUBSET (Ids \X Ids), NEW n \in Ids
  PROVE  Reached(edges, n) \subseteq Ids /\ Descendants(edges, n) \subseteq Ids
<1>1. edges \in SUBSET (AllIds \X AllIds) /\ n \in AllIds /\ Ids \in SUBSET AllIds
  BY DEF AllIds
<1>2. IsClosed(edges, Ids)
  BY DEF IsClosed
<1>3. Reached(edges, n) \subseteq Ids
  BY <1>1, <1>2, ReachedFacts
<1> QED BY <1>3 DEF Reached

\* The parallel branches are sets of ids of the input.
LEMMA BranchesAreIds ==
  ASSUME NEW g, IsSoftwareGraph(g), EdgesJoinNodes(g), NodeIds(g) \subseteq Ids
  PROVE  ParallelBranches(g) \subseteq SUBSET Ids
<1> DEFINE Nodes(l) == GraphNodes(DOMAIN g[l].nodes, g[l].edges)
           Branches(l) ==
             (IF IsAcyclic(Nodes(l), g[l].edges) THEN ParallelLevels(Nodes(l), g[l].edges) ELSE {})
               \cup CyclicComponents(Nodes(l), g[l].edges)
<1>1. ParallelBranches(g) = {B \in UNION {Branches(l) : l \in Layers} : Cardinality(B) >= 2}
  BY DEF ParallelBranches
<1>2. ASSUME NEW l \in Layers, NEW B \in Branches(l) PROVE B \subseteq Ids
  <2> DEFINE nodes == Nodes(l)
             edges == g[l].edges
  <2>1. DOMAIN g[l].nodes \subseteq Ids /\ edges \subseteq Ids \X Ids
    <3>1. DOMAIN g[l].nodes \subseteq NodeIds(g)
      BY LayerFacts
    <3> QED BY <3>1 DEF EdgesJoinNodes
  <2>2. nodes \subseteq Ids /\ nodes \in SUBSET AllIds /\ edges \in SUBSET (AllIds \X AllIds)
    <3>1. nodes \subseteq Ids
      BY <2>1 DEF GraphNodes
    <3> HIDE DEF nodes, edges
    <3> QED BY <2>1, <3>1 DEF AllIds
  <2> HIDE DEF nodes, edges
  <2>3. ASSUME B \in ParallelLevels(nodes, edges) PROVE B \subseteq Ids
    <3> DEFINE start == <<{n \in nodes : Predecessors(edges, n) = {}}, {}>>
               C == {at \in Placings : at[1] \subseteq Ids}
    <3>1. start \in Placings /\ ParallelLevels(nodes, edges) = {b[1] : b \in Iteration(edges, start)} \ {{}}
      BY <2>2, ParallelLevelsAre
    <3>2. start \in C
      BY <2>2, <3>1
    <3> HIDE DEF start
    <3>3. \A at \in C : Place(edges, at) \in C
      <4> SUFFICES ASSUME NEW at \in C PROVE Place(edges, at) \in C
        OBVIOUS
      <4>1. at \in Placings
        OBVIOUS
      <4>2. /\ Place(edges, at) \in Placings
            /\ \A s \in Place(edges, at)[1] : \E n \in at[1] : s \in Successors(edges, n)
        BY <2>2, <4>1, PlaceIs
      <4>3. \A n : Successors(edges, n) \subseteq Ids
        BY <2>1 DEF Successors
      <4> QED BY <4>2, <4>3
    <3>4. C \in SUBSET Placings
      OBVIOUS
    <3>5. \A b \in C : b[1] \subseteq Ids
      OBVIOUS
    <3> HIDE DEF C
    <3>6. Iteration(edges, start) \subseteq C
      BY <2>2, <3>1, <3>2, <3>3, <3>4, IterationIs
    <3> QED BY <2>3, <3>1, <3>5, <3>6
  <2>4. ASSUME B \in CyclicComponents(nodes, edges) PROVE B \subseteq Ids
    <3> DEFINE reach == [n \in nodes |-> Descendants(edges, n)]
               Component(n) == {n} \cup {m \in reach[n] : n \in reach[m]}
    <3>1. CyclicComponents(nodes, edges) = {D \in {Component(n) : n \in nodes} : Cardinality(D) >= 2}
      BY DEF CyclicComponents
    <3>2. PICK n \in nodes : B = Component(n)
      BY <2>4, <3>1
    <3>3. reach[n] \subseteq Ids
      BY <2>1, <2>2, ReachedIds
    <3> QED BY <2>2, <3>2, <3>3
  <2> QED BY <1>2, <2>3, <2>4 DEF nodes, edges
<1> HIDE DEF Branches
<1> QED BY <1>1, <1>2

-----------------------------------------------------------------------------
(* Cycles.  Every cycle of a layer contains a simple one, the enumeration   *)
(* lists it, and it loses an edge.                                          *)

\* What is reached from n: n itself, and what is reached from its successors.
LEMMA ReachedBySteps ==
  ASSUME NEW ids, NEW edges, \A e \in edges : e[2] \in ids, NEW n \in ids
  PROVE  \A k : k \in LeastClosed(edges, ids, {n})
                 <=> k = n \/ \E m \in Successors(edges, n) : k \in LeastClosed(edges, ids, {m})
<1> DEFINE Least(m) == LeastClosed(edges, ids, {m})
           all == {n} \cup UNION {Least(m) : m \in Successors(edges, n)}
<1>1. ASSUME NEW m \in ids
      PROVE  /\ Least(m) \in SUBSET ids /\ m \in Least(m) /\ IsClosed(edges, Least(m))
             /\ \A C \in SUBSET ids : m \in C /\ IsClosed(edges, C) => Least(m) \subseteq C
  <2>1. {m} \in SUBSET ids
    OBVIOUS
  <2> QED BY <2>1, LeastIsClosed
<1>2. \A m : m \in Successors(edges, n) <=> \E e \in edges : e[1] = n /\ e[2] = m
  BY DEF Successors
<1>3. \A m \in Successors(edges, n) : m \in ids
  BY <1>2
<1> HIDE DEF Least
<1>4. \A k : k \in all <=> k = n \/ \E m \in Successors(edges, n) : k \in Least(m)
  OBVIOUS
<1> HIDE DEF all
<1>5. all \in SUBSET ids
  BY <1>1, <1>3, <1>4
<1>6. IsClosed(edges, all)
  <2> SUFFICES ASSUME NEW e \in edges, e[1] \in all PROVE e[2] \in all
    BY DEF IsClosed
  <2>1. CASE e[1] = n
    <3>1. e[2] \in Successors(edges, n) /\ e[2] \in Least(e[2])
      BY <1>1, <1>2, <2>1
    <3> QED BY <1>4, <3>1
  <2>2. CASE e[1] # n
    <3>1. PICK m \in Successors(edges, n) : e[1] \in Least(m)
      BY <1>4, <2>2
    <3>2. e[2] \in Least(m)
      BY <1>1, <1>3, <3>1 DEF IsClosed
    <3> QED BY <1>4, <3>1, <3>2
  <2> QED BY <2>1, <2>2
<1>7. Least(n) \subseteq all
  BY <1>1, <1>4, <1>5, <1>6
<1>8. ASSUME NEW m \in Successors(edges, n) PROVE Least(m) \subseteq Least(n)
  <2>1. m \in ids /\ m \in Least(n)
    BY <1>1, <1>2, <1>3 DEF IsClosed
  <2> QED BY <1>1, <2>1
<1>9. all \subseteq Least(n)
  BY <1>1, <1>4, <1>8
<1>10. all = Least(n)
  BY <1>7, <1>9
<1> QED BY <1>4, <1>10 DEF Least

\* The extensions of a simple path as they are written.
NewSteps(edges, S, p) == (Successors(edges, p[Len(p)]) \cap S) \ Range(p)
Grows(edges, S, F) ==
  F = [p \in Seq(S) \ {<<>>} |-> {p} \cup UNION {F[Append(p, s)] : s \in NewSteps(edges, S, p)}]

LEMMA GrowthIsDefined ==
  ASSUME NEW edges, NEW S
  PROVE  \E F : Grows(edges, S, F)
<1> DEFINE D == Seq(S) \ {<<>>}
           steps == {x \in D \X D : \E s \in NewSteps(edges, S, x[1]) : x[2] = Append(x[1], s)}
           F == [p \in D |-> LeastClosed(steps, D, {p})]
<1>1. \A p \in D, s \in S : Append(p, s) \in D
  BY AppendIs
<1>2. \A p : NewSteps(edges, S, p) \subseteq S
  BY DEF NewSteps
<1>3. \A x \in steps : x[1] \in D /\ x[2] \in D
  OBVIOUS
<1>4. ASSUME NEW p \in D, NEW q
      PROVE  q \in Successors(steps, p) <=> \E s \in NewSteps(edges, S, p) : q = Append(p, s)
  <2>1. ASSUME q \in Successors(steps, p) PROVE \E s \in NewSteps(edges, S, p) : q = Append(p, s)
    <3> HIDE DEF D
    <3>1. PICK x \in steps : x[1] = p /\ x[2] = q
      BY <2>1 DEF Successors
    <3> QED BY <3>1
  <2>2. ASSUME NEW s \in NewSteps(edges, S, p), q = Append(p, s) PROVE q \in Successors(steps, p)
    <3>1. <<p, q>> \in D \X D
      BY <1>1, <1>2, <2>2
    <3> HIDE DEF D
    <3>2. <<p, q>> \in steps
      BY <2>2, <3>1
    <3> HIDE DEF steps
    <3> QED BY <3>2 DEF Successors
  <2> QED BY <2>1, <2>2
<1> HIDE DEF steps, D
<1>5. ASSUME NEW p \in D
      PROVE  F[p] = {p} \cup UNION {F[Append(p, s)] : s \in NewSteps(edges, S, p)}
  <2> DEFINE L(q) == LeastClosed(steps, D, {q})
  <2>1. \A e \in steps : e[2] \in D
    BY <1>3
  <2>2. \A k : k \in L(p) <=> k = p \/ \E q \in Successors(steps, p) : k \in L(q)
    BY <2>1, ReachedBySteps
  <2>3. F[p] = L(p) /\ \A s \in NewSteps(edges, S, p) : F[Append(p, s)] = L(Append(p, s))
    BY <1>1, <1>2
  <2> HIDE DEF F, L
  <2>4. \A k : k \in F[p] <=> k = p \/ \E s \in NewSteps(edges, S, p) : k \in F[Append(p, s)]
    <3> SUFFICES ASSUME NEW k
                 PROVE  k \in F[p] <=> k = p \/ \E s \in NewSteps(edges, S, p) : k \in F[Append(p, s)]
      OBVIOUS
    <3>1. ASSUME NEW q \in Successors(steps, p), k \in L(q)
          PROVE  \E s \in NewSteps(edges, S, p) : k \in F[Append(p, s)]
      <4>1. PICK s \in NewSteps(edges, S, p) : q = Append(p, s)
        BY <1>4
      <4> QED BY <2>3, <3>1, <4>1
    <3>2. ASSUME NEW s \in NewSteps(edges, S, p), k \in F[Append(p, s)]
          PROVE  \E q \in Successors(steps, p) : k \in L(q)
      <4>1. Append(p, s) \in Successors(steps, p)
        BY <1>4
      <4> QED BY <2>3, <3>2, <4>1
    <3>3. (\E s \in NewSteps(edges, S, p) : k \in F[Append(p, s)]) <=> \E q \in Successors(steps, p) : k \in L(q)
      BY <3>1, <3>2, Zenon
    <3> QED BY <2>2, <2>3, <3>3, Zenon
  <2> QED BY <2>4
<1>6. F = [p \in D |-> {p} \cup UNION {F[Append(p, s)] : s \in NewSteps(edges, S, p)}]
  BY <1>5
<1> HIDE DEF F
<1>7. Grows(edges, S, F)
  BY <1>6 DEF Grows, D
<1> QED BY <1>7

\* A path without repetition, and one that can be closed.
IsSimplePath(edges, p) ==
  /\ \A i \in 1 .. Len(p) - 1 : <<p[i], p[i + 1]>> \in edges
  /\ \A i, j \in 1 .. Len(p) : p[i] = p[j] => i = j
IsSimpleCycle(edges, p) == IsSimplePath(edges, p) /\ <<p[Len(p)], p[1]>> \in edges
CycleOf(p) == {<<p[i], p[(i % Len(p)) + 1]>> : i \in 1 .. Len(p)}

LEMMA FrontIs ==
  ASSUME NEW S, NEW p \in Seq(S), NEW k \in 1 .. Len(p)
  PROVE  LET front == [i \in 1 .. k |-> p[i]]
         IN  front \in Seq(S) \ {<<>>} /\ Len(front) = k /\ \A i \in 1 .. k : front[i] = p[i]
<1> DEFINE front == [i \in 1 .. k |-> p[i]]
<1>1. \A i \in 1 .. k : p[i] \in S
  <2> SUFFICES ASSUME NEW i \in 1 .. k PROVE p[i] \in S
    OBVIOUS
  <2>1. i \in 1 .. Len(p)
    BY LenProperties
  <2> QED BY <2>1, ElementOfSeq
<1>2. k \in Nat /\ k > 0
  BY LenProperties
<1>3. front \in [1 .. k -> S]
  BY <1>1
<1>4. front \in Seq(S) /\ Len(front) = k
  BY <1>2, <1>3, SeqDef, LenProperties
<1>5. front # <<>>
  BY <1>2, <1>4
<1> QED BY <1>4, <1>5

\* Every simple cycle among S is listed.
LEMMA CycleListed ==
  ASSUME NEW edges, NEW S, NEW p \in Seq(S) \ {<<>>}, IsSimpleCycle(edges, p)
  PROVE  CycleOf(p) \in SimpleCycles(edges, S)
<1> DEFINE F == CHOOSE G : Grows(edges, S, G)
           D == Seq(S) \ {<<>>}
           n == Len(p)
           front(k) == [i \in 1 .. k |-> p[i]]
<1>1. SimpleCycles(edges, S) =
        {CycleOf(q) : q \in {r \in UNION {F[<<m>>] : m \in S} : <<r[Len(r)], r[1]>> \in edges}}
  BY DEF SimpleCycles, Grows, NewSteps, CycleOf
<1>2. \A q \in D : F[q] = {q} \cup UNION {F[Append(q, s)] : s \in NewSteps(edges, S, q)}
  <2>1. Grows(edges, S, F)
    BY GrowthIsDefined
  <2> HIDE DEF F
  <2> QED BY <2>1 DEF Grows
<1> HIDE DEF F
<1>3. n \in Nat /\ n > 0 /\ \A i \in 1 .. n : p[i] \in S
  BY LenProperties, ElementOfSeq
<1>4. ASSUME NEW k \in 1 .. n
      PROVE  front(k) \in D /\ Len(front(k)) = k /\ \A i \in 1 .. k : front(k)[i] = p[i]
  BY <1>4, FrontIs
<1> HIDE DEF front
<1>5. ASSUME NEW k \in 1 .. n - 1
      PROVE  F[front(k + 1)] \subseteq F[front(k)]
  <2>1. k \in 1 .. n /\ k + 1 \in 1 .. n /\ k \in Nat /\ k \in 1 .. k
    BY <1>3
  <2>2. /\ front(k) \in D /\ Len(front(k)) = k /\ \A i \in 1 .. k : front(k)[i] = p[i]
        /\ front(k + 1) \in D /\ Len(front(k + 1)) = k + 1 /\ \A i \in 1 .. k + 1 : front(k + 1)[i] = p[i]
    BY <1>4, <2>1
  <2> HIDE DEF n
  <2>3. p[k + 1] \in S /\ p[k + 1] \in Successors(edges, p[k])
    <3>1. <<p[k], p[k + 1]>> \in edges
      BY DEF IsSimpleCycle, IsSimplePath, n
    <3> QED BY <1>3, <2>1, <3>1 DEF Successors
  <2>4. p[k + 1] \notin Range(front(k))
    <3>1. ASSUME NEW i \in 1 .. k, p[i] = p[k + 1] PROVE FALSE
      <4>1. i \in 1 .. n /\ i # k + 1
        BY <1>3, <2>1
      <4> QED BY <2>1, <3>1, <4>1 DEF IsSimpleCycle, IsSimplePath, n
    <3>2. DOMAIN front(k) = 1 .. k
      BY DEF front
    <3> QED BY <2>2, <3>1, <3>2 DEF Range
  <2>5. p[k + 1] \in NewSteps(edges, S, front(k))
    BY <2>1, <2>2, <2>3, <2>4 DEF NewSteps
  <2>6. front(k + 1) = Append(front(k), p[k + 1])
    <3>1. /\ Append(front(k), p[k + 1]) \in Seq(S) /\ Len(Append(front(k), p[k + 1])) = k + 1
          /\ Append(front(k), p[k + 1])[k + 1] = p[k + 1]
          /\ \A i \in 1 .. k : Append(front(k), p[k + 1])[i] = front(k)[i]
      BY <2>2, <2>3, AppendIs
    <3>2. front(k + 1) \in Seq(S)
      BY <2>2
    <3>3. \A i \in 1 .. k + 1 : i = k + 1 \/ i \in 1 .. k
      BY <2>1
    <3>4. \A i \in 1 .. k + 1 : front(k + 1)[i] = Append(front(k), p[k + 1])[i]
      BY <2>2, <3>1, <3>3
    <3> QED BY <2>2, <3>1, <3>2, <3>4, SeqEqual
  <2> HIDE DEF D
  <2>7. F[front(k)] = {front(k)} \cup UNION {F[Append(front(k), s)] : s \in NewSteps(edges, S, front(k))}
    BY <1>2, <2>2
  <2>8. F[front(k + 1)] \in {F[Append(front(k), s)] : s \in NewSteps(edges, S, front(k))}
    BY <2>5, <2>6
  <2> QED BY <2>7, <2>8
<1>6. p \in F[front(n)]
  <2>1. front(n) \in D /\ Len(front(n)) = n /\ \A i \in 1 .. n : front(n)[i] = p[i]
    BY <1>3, <1>4
  <2>2. front(n) = p
    BY <2>1, SeqEqual
  <2> QED BY <1>2, <2>2
<1> DEFINE T == {k \in Nat : k < n => p \in F[front(n - k)]}
<1>7. T = Nat
  <2>1. 0 \in T
    BY <1>3, <1>6
  <2>2. ASSUME NEW k \in T PROVE k + 1 \in T
    <3> SUFFICES ASSUME k + 1 < n PROVE p \in F[front(n - (k + 1))]
      BY <2>2
    <3>1. p \in F[front(n - k)]
      BY <1>3, <2>2
    <3>2. n - (k + 1) \in 1 .. n - 1 /\ (n - (k + 1)) + 1 = n - k
      BY <1>3, <2>2
    <3>3. F[front((n - (k + 1)) + 1)] \subseteq F[front(n - (k + 1))]
      BY <1>5, <3>2
    <3> QED BY <3>1, <3>2, <3>3
  <2>3. T \in SUBSET Nat
    OBVIOUS
  <2> HIDE DEF T
  <2> QED BY <2>1, <2>2, <2>3, NatsBySuccessor
<1>8. p \in F[front(1)]
  <2>1. n - 1 \in T /\ n - (n - 1) = 1 /\ n - 1 < n
    BY <1>3, <1>7
  <2> QED BY <2>1
<1>9. front(1) = <<p[1]>> /\ p[1] \in S
  <2>0. 1 \in 1 .. n /\ 1 \in 1 .. 1
    BY <1>3
  <2>1. front(1) \in Seq(S) /\ Len(front(1)) = 1 /\ front(1)[1] = p[1] /\ p[1] \in S
    <3>1. front(1) \in D /\ Len(front(1)) = 1 /\ \A i \in 1 .. 1 : front(1)[i] = p[i]
      BY <1>4, <2>0
    <3> HIDE DEF n
    <3> QED BY <1>3, <2>0, <3>1
  <2>2. <<p[1]>> \in Seq(S) /\ Len(<<p[1]>>) = 1 /\ <<p[1]>>[1] = p[1]
    BY <2>1
  <2>3. \A i \in 1 .. 1 : i = 1
    OBVIOUS
  <2> QED BY <2>1, <2>2, <2>3, SeqEqual
<1>10. p \in UNION {F[<<m>>] : m \in S} /\ <<p[n], p[1]>> \in edges
  BY <1>8, <1>9 DEF IsSimpleCycle
<1> HIDE DEF n, T, D
<1> QED BY <1>1, <1>10 DEF n

LEMMA CycleIs ==
  ASSUME NEW edges, NEW S, NEW p \in Seq(S) \ {<<>>}, IsSimpleCycle(edges, p)
  PROVE  CycleOf(p) \subseteq edges /\ CycleOf(p) # {}
<1> DEFINE n == Len(p)
<1>1. n \in Nat /\ n > 0
  OBVIOUS
<1>2. \A i \in 1 .. n : IF i = n THEN (i % n) + 1 = 1 ELSE (i % n) + 1 = i + 1
  <2> HIDE DEF n
  <2> QED BY <1>1
<1>3. \A i \in 1 .. n : <<p[i], p[(i % n) + 1]>> \in edges
  <2> SUFFICES ASSUME NEW i \in 1 .. n PROVE <<p[i], p[(i % n) + 1]>> \in edges
    OBVIOUS
  <2>1. CASE i = n
    BY <1>2, <2>1 DEF IsSimpleCycle
  <2>2. CASE i # n
    <3>1. i \in 1 .. n - 1 /\ (i % n) + 1 = i + 1
      <4> HIDE DEF n
      <4> QED BY <1>1, <1>2, <2>2
    <3> QED BY <3>1 DEF IsSimpleCycle, IsSimplePath
  <2> QED BY <2>1, <2>2
<1>4. n \in 1 .. n
  BY <1>1
<1> HIDE DEF n
<1>5. CycleOf(p) = {<<p[i], p[(i % n) + 1]>> : i \in 1 .. n}
  BY DEF CycleOf, n
<1> QED BY <1>3, <1>4, <1>5

\* On a path from n to k each id is reached from the ones before it.
PathBetween(edges, n, k, p) ==
  /\ IsSimplePath(edges, p)
  /\ \A i, j \in 1 .. Len(p) : i =< j => p[j] \in Reached(edges, p[i])
  /\ p[1] = n /\ p[Len(p)] = k

LEMMA PathGoesOn ==
  ASSUME NEW edges \in SUBSET (AllIds \X AllIds), NEW n \in AllIds, NEW k \in AllIds,
         NEW p \in Seq(AllIds) \ {<<>>}, PathBetween(edges, n, k, p), NEW j \in AllIds, <<k, j>> \in edges
  PROVE  \E q \in Seq(AllIds) \ {<<>>} : PathBetween(edges, n, j, q)
<1> DEFINE L == Len(p)
<1>1. /\ L \in Nat /\ L > 0
      /\ \A i \in 1 .. L : p[i] \in AllIds
  BY LenProperties, ElementOfSeq
<1>2. /\ \A i \in 1 .. L - 1 : <<p[i], p[i + 1]>> \in edges
      /\ \A i, h \in 1 .. L : p[i] = p[h] => i = h
      /\ \A i, h \in 1 .. L : i =< h => p[h] \in Reached(edges, p[i])
      /\ p[1] = n /\ p[L] = k
  BY DEF PathBetween, IsSimplePath
<1>3. CASE \E i \in 1 .. L : p[i] = j
  <2>1. PICK i \in 1 .. L : p[i] = j
    BY <1>3
  <2> DEFINE q == [h \in 1 .. i |-> p[h]]
  <2>2. q \in Seq(AllIds) \ {<<>>} /\ Len(q) = i /\ \A h \in 1 .. i : q[h] = p[h]
    BY FrontIs
  <2> HIDE DEF q, L
  <2>3. i \in Nat /\ i > 0 /\ i =< L /\ 1 \in 1 .. i /\ i \in 1 .. i
    BY <1>1
  <2>4. \A h \in 1 .. i : h \in 1 .. L
    BY <1>1, <2>3
  <2>5. \A h \in 1 .. i - 1 : h \in 1 .. L - 1 /\ h \in 1 .. i /\ h + 1 \in 1 .. i
    BY <1>1, <2>3
  <2>6. IsSimplePath(edges, q)
    BY <1>2, <2>2, <2>4, <2>5 DEF IsSimplePath
  <2>7. \A h, m \in 1 .. Len(q) : h =< m => q[m] \in Reached(edges, q[h])
    BY <1>2, <2>2, <2>4
  <2>8. q[1] = n /\ q[Len(q)] = j
    BY <1>2, <2>1, <2>2, <2>3
  <2> QED BY <2>2, <2>6, <2>7, <2>8 DEF PathBetween
<1>4. CASE \A i \in 1 .. L : p[i] # j
  <2> DEFINE q == Append(p, j)
  <2>1. /\ q \in Seq(AllIds) \ {<<>>} /\ Len(q) = L + 1 /\ q[L + 1] = j
        /\ \A i \in 1 .. L : q[i] = p[i]
    BY AppendIs
  <2> HIDE DEF q, L
  <2>2. \A i \in 1 .. L + 1 : i = L + 1 \/ i \in 1 .. L
    BY <1>1
  <2>3. \A i \in 1 .. L : i = L \/ i \in 1 .. L - 1
    BY <1>1
  <2>4. \A i \in 1 .. L - 1 : i \in 1 .. L /\ i + 1 \in 1 .. L
    BY <1>1
  <2>5. L \in 1 .. L /\ 1 \in 1 .. L /\ (L + 1) - 1 = L /\ \A i \in 1 .. L : i # L + 1 /\ ~(L + 1 =< i) /\ i =< L
    BY <1>1
  <2>6. \A i \in 1 .. L : <<q[i], q[i + 1]>> \in edges
    <3> SUFFICES ASSUME NEW i \in 1 .. L PROVE <<q[i], q[i + 1]>> \in edges
      OBVIOUS
    <3>1. CASE i = L
      BY <1>2, <2>1, <2>5, <3>1
    <3>2. CASE i \in 1 .. L - 1
      BY <1>2, <2>1, <2>4, <3>2
    <3> QED BY <2>3, <3>1, <3>2
  <2>7. \A i, h \in 1 .. L + 1 : q[i] = q[h] => i = h
    <3> SUFFICES ASSUME NEW i \in 1 .. L + 1, NEW h \in 1 .. L + 1, q[i] = q[h] PROVE i = h
      OBVIOUS
    <3>1. CASE i \in 1 .. L /\ h \in 1 .. L
      BY <1>2, <2>1, <3>1
    <3>2. CASE i = L + 1 /\ h \in 1 .. L
      BY <1>4, <2>1, <3>2
    <3>3. CASE i \in 1 .. L /\ h = L + 1
      BY <1>4, <2>1, <3>3
    <3> QED BY <2>2, <3>1, <3>2, <3>3
  <2>8. IsSimplePath(edges, q)
    BY <2>1, <2>5, <2>6, <2>7 DEF IsSimplePath
  <2>9. ASSUME NEW i \in 1 .. L PROVE j \in Reached(edges, p[i])
    <3>1. k \in Reached(edges, p[i])
      BY <1>2, <2>5
    <3>2. IsClosed(edges, Reached(edges, p[i]))
      BY <1>1, ReachedFacts
    <3>3. \A e \in edges : e[1] \in Reached(edges, p[i]) => e[2] \in Reached(edges, p[i])
      BY <3>2 DEF IsClosed
    <3>4. <<k, j>>[1] = k /\ <<k, j>>[2] = j
      OBVIOUS
    <3> QED BY <3>1, <3>3, <3>4
  <2>10. j \in Reached(edges, j)
    BY ReachedFacts
  <2>11. \A i, h \in 1 .. L + 1 : i =< h => q[h] \in Reached(edges, q[i])
    <3> SUFFICES ASSUME NEW i \in 1 .. L + 1, NEW h \in 1 .. L + 1, i =< h PROVE q[h] \in Reached(edges, q[i])
      OBVIOUS
    <3>1. CASE i \in 1 .. L /\ h \in 1 .. L
      BY <1>2, <2>1, <3>1
    <3>2. CASE i = L + 1 /\ h \in 1 .. L
      BY <2>5, <3>2
    <3>3. CASE i \in 1 .. L /\ h = L + 1
      BY <2>1, <2>9, <3>3
    <3>4. CASE i = L + 1 /\ h = L + 1
      BY <2>1, <2>10, <3>4
    <3> QED BY <2>2, <3>1, <3>2, <3>3, <3>4
  <2>12. q[1] = n /\ q[Len(q)] = j
    BY <1>2, <2>1, <2>5
  <2> QED BY <2>1, <2>8, <2>11, <2>12 DEF PathBetween
<1> QED BY <1>3, <1>4

\* To whatever is reached there is a simple path.
LEMMA PathToReached ==
  ASSUME NEW edges \in SUBSET (AllIds \X AllIds), NEW n \in AllIds, NEW k \in Reached(edges, n)
  PROVE  \E p \in Seq(AllIds) \ {<<>>} : PathBetween(edges, n, k, p)
<1> DEFINE C == {j \in AllIds : \E p \in Seq(AllIds) \ {<<>>} : PathBetween(edges, n, j, p)}
<1>1. n \in C
  <2> DEFINE p == <<n>>
  <2>1. p \in Seq(AllIds) \ {<<>>} /\ Len(p) = 1 /\ p[1] = n
    OBVIOUS
  <2> HIDE DEF p
  <2>2. (\A i \in 1 .. 1 : i = 1) /\ 1 .. 1 - 1 = {}
    OBVIOUS
  <2>3. n \in Reached(edges, n)
    BY ReachedFacts
  <2>4. PathBetween(edges, n, n, p)
    BY <2>1, <2>2, <2>3 DEF PathBetween, IsSimplePath
  <2> QED BY <2>1, <2>4
<1>2. IsClosed(edges, C)
  <2> SUFFICES ASSUME NEW e \in edges, e[1] \in C PROVE e[2] \in C
    BY DEF IsClosed
  <2>1. e[1] \in AllIds /\ e[2] \in AllIds /\ <<e[1], e[2]>> \in edges
    OBVIOUS
  <2>2. PICK p \in Seq(AllIds) \ {<<>>} : PathBetween(edges, n, e[1], p)
    OBVIOUS
  <2>3. \E q \in Seq(AllIds) \ {<<>>} : PathBetween(edges, n, e[2], q)
    BY <2>1, <2>2, PathGoesOn
  <2> QED BY <2>1, <2>3
<1>3. C \in SUBSET AllIds
  OBVIOUS
<1>4. k \in C
  <2> HIDE DEF C
  <2> QED BY <1>1, <1>2, <1>3, ReachedFacts
<1> QED BY <1>4

\* Two ids that reach each other are on a cycle of ids that reach each other.
LEMMA CycleThrough ==
  ASSUME NEW edges \in SUBSET (AllIds \X AllIds), NEW n \in AllIds, NEW m \in Reached(edges, n),
         m # n, n \in Reached(edges, m)
  PROVE  \E p \in Seq(AllIds) \ {<<>>} :
           /\ IsSimpleCycle(edges, p)
           /\ \A i \in 1 .. Len(p) : p[i] \in Reached(edges, n) /\ n \in Reached(edges, p[i])
<1>1. m \in AllIds
  BY ReachedFacts
<1>2. /\ Reached(edges, m) \in SUBSET AllIds /\ m \in Reached(edges, m) /\ IsClosed(edges, Reached(edges, m))
      /\ \A C \in SUBSET AllIds : m \in C /\ IsClosed(edges, C) => Reached(edges, m) \subseteq C
  BY <1>1, ReachedFacts
<1>3. PICK k \in Reached(edges, m) : <<k, n>> \in edges
  <2> SUFFICES ASSUME \A k \in Reached(edges, m) : <<k, n>> \notin edges PROVE FALSE
    OBVIOUS
  <2> DEFINE C == Reached(edges, m) \ {n}
  <2>1. C \in SUBSET AllIds /\ m \in C
    BY <1>2
  <2>2. IsClosed(edges, C)
    <3> SUFFICES ASSUME NEW e \in edges, e[1] \in C PROVE e[2] \in C
      BY DEF IsClosed
    <3>1. e = <<e[1], e[2]>>
      OBVIOUS
    <3>2. e[2] \in Reached(edges, m) /\ e[2] # n
      BY <1>2, <3>1 DEF IsClosed
    <3> QED BY <3>2
  <2>3. Reached(edges, m) \subseteq C
    <3> HIDE DEF C
    <3> QED BY <1>2, <2>1, <2>2
  <2> QED BY <2>3
<1>4. k \in Reached(edges, n)
  BY ReachedOn
<1>5. PICK p \in Seq(AllIds) \ {<<>>} : PathBetween(edges, n, k, p)
  BY <1>4, PathToReached
<1>6. IsSimpleCycle(edges, p)
  BY <1>3, <1>5 DEF PathBetween, IsSimpleCycle
<1>7. ASSUME NEW i \in 1 .. Len(p) PROVE p[i] \in Reached(edges, n) /\ n \in Reached(edges, p[i])
  <2>1. 1 \in 1 .. Len(p) /\ Len(p) \in 1 .. Len(p) /\ 1 =< i /\ i =< Len(p)
    OBVIOUS
  <2>2. p[i] \in AllIds
    BY ElementOfSeq
  <2>3. p[i] \in Reached(edges, n) /\ k \in Reached(edges, p[i])
    BY <1>5, <2>1 DEF PathBetween
  <2>4. IsClosed(edges, Reached(edges, p[i]))
    BY <2>2, ReachedFacts
  <2>5. \A e \in edges : e[1] \in Reached(edges, p[i]) => e[2] \in Reached(edges, p[i])
    BY <2>4 DEF IsClosed
  <2>6. <<k, n>>[1] = k /\ <<k, n>>[2] = n
    OBVIOUS
  <2> QED BY <1>3, <2>3, <2>5, <2>6
<1> QED BY <1>6, <1>7

\* The ids that n reaches and that reach it.
Mutual(edges, n) == {k \in Reached(edges, n) : n \in Reached(edges, k)}

LEMMA TwoOrMore ==
  ASSUME NEW C \in SUBSET AllIds, NEW n \in C
  PROVE  Cardinality(C) >= 2 <=> \E m \in C : m # n
<1>1. IsFiniteSet(C)
  BY AllIdsFinite, FS_Subset
<1>2. ASSUME \A m \in C : m = n PROVE ~(Cardinality(C) >= 2)
  <2>1. C = {n}
    BY <1>2
  <2>2. Cardinality({n}) = 1
    BY FS_Singleton
  <2> QED BY <2>1, <2>2
<1>3. ASSUME NEW m \in C, m # n PROVE Cardinality(C) >= 2
  <2>1. {n, m} \subseteq C
    OBVIOUS
  <2>2. IsFiniteSet({n}) /\ Cardinality({n}) = 1
    BY FS_Singleton
  <2>3. Cardinality({n} \cup {m}) = 1 + 1
    BY <1>3, <2>2, FS_AddElement
  <2>4. {n} \cup {m} = {n, m}
    OBVIOUS
  <2>5. Cardinality({n, m}) =< Cardinality(C) /\ IsFiniteSet({n, m})
    BY <1>1, <2>1, FS_Subset
  <2>6. Cardinality(C) \in Nat
    BY <1>1, FS_CardinalityType
  <2> QED BY <2>3, <2>4, <2>5, <2>6
<1> QED BY <1>2, <1>3

LEMMA ComponentsAre ==
  ASSUME NEW nodes \in SUBSET AllIds, NEW edges \in SUBSET (AllIds \X AllIds),
         \A e \in edges : e[1] \in nodes /\ e[2] \in nodes
  PROVE  \A C : C \in CyclicComponents(nodes, edges)
                  <=> \E n \in nodes : C = Mutual(edges, n) /\ \E m \in Mutual(edges, n) : m # n
<1> DEFINE reach == [n \in nodes |-> Descendants(edges, n)]
           Component(n) == {n} \cup {m \in reach[n] : n \in reach[m]}
<1>1. CyclicComponents(nodes, edges) = {C \in {Component(n) : n \in nodes} : Cardinality(C) >= 2}
  BY DEF CyclicComponents
<1>2. ASSUME NEW n \in nodes
      PROVE  Component(n) = Mutual(edges, n) /\ Mutual(edges, n) \in SUBSET AllIds /\ n \in Mutual(edges, n)
  <2>1. n \in AllIds /\ IsClosed(edges, nodes)
    BY DEF IsClosed
  <2>2. /\ Reached(edges, n) \subseteq nodes /\ n \in Reached(edges, n)
        /\ Descendants(edges, n) = Reached(edges, n) \ {n}
    BY <2>1, ReachedFacts
  <2>3. ASSUME NEW m \in nodes PROVE Descendants(edges, m) = Reached(edges, m) \ {m}
    BY ReachedFacts
  <2>4. \A m : m \in Component(n) <=> m \in Mutual(edges, n)
    <3> SUFFICES ASSUME NEW m PROVE m \in Component(n) <=> m \in Mutual(edges, n)
      OBVIOUS
    <3>1. CASE m = n
      BY <2>2, <3>1 DEF Mutual
    <3>2. CASE m # n /\ m \in Reached(edges, n)
      <4>1. m \in nodes /\ m \in reach[n] /\ reach[m] = Reached(edges, m) \ {m}
        BY <2>2, <2>3, <3>2
      <4> HIDE DEF reach
      <4> QED BY <3>2, <4>1 DEF Mutual
    <3>3. CASE m # n /\ m \notin Reached(edges, n)
      <4>1. m \notin reach[n]
        BY <2>2, <3>3
      <4> HIDE DEF reach
      <4> QED BY <3>3, <4>1 DEF Mutual
    <3> QED BY <3>1, <3>2, <3>3
  <2>5. Mutual(edges, n) \in SUBSET AllIds /\ n \in Mutual(edges, n)
    BY <2>2 DEF Mutual
  <2> HIDE DEF Component
  <2> QED BY <2>4, <2>5
<1>3. ASSUME NEW n \in nodes
      PROVE  Cardinality(Mutual(edges, n)) >= 2 <=> \E m \in Mutual(edges, n) : m # n
  BY <1>2, TwoOrMore
<1>4. ASSUME NEW C
      PROVE  C \in CyclicComponents(nodes, edges) <=> \E n \in nodes : C = Component(n) /\ Cardinality(C) >= 2
  <2> HIDE DEF Component
  <2> QED BY <1>1
<1> HIDE DEF Component
<1> QED BY <1>2, <1>3, <1>4

\* A cycle whose edges leave from nodes has an edge that is cut.
LEMMA CycleHasBreakEdge ==
  ASSUME NEW lg, lg.nodes \in [DOMAIN lg.nodes -> Attributes],
         NEW cycle, cycle # {}, \A e \in cycle : e[1] \in DOMAIN lg.nodes
  PROVE  CycleBreakEdges(lg, cycle) # {}
<1> DEFINE order(e) == lg.nodes[e[1]].order
           ranked == {e \in cycle : e[1] \in DOMAIN lg.nodes}
           orders == {order(e) : e \in cycle}
<1>1. \A e \in cycle : order(e) \in 0 .. 7
  BY DEF Attributes, Complexity
<1> DEFINE ranks == {7 - order(e) : e \in cycle}
<1>2. ranks \in SUBSET Nat /\ ranks # {}
  BY <1>1
<1>3. PICK r \in ranks : \A q \in ranks : r =< q
  <2> HIDE DEF ranks
  <2> QED BY <1>2, NatLeast
<1>4. PICK e \in cycle : r = 7 - order(e)
  BY <1>3
<1>5. \A f \in cycle : order(f) =< order(e)
  <2> SUFFICES ASSUME NEW f \in cycle PROVE order(f) =< order(e)
    OBVIOUS
  <2>1. r =< 7 - order(f)
    BY <1>3
  <2>2. order(f) \in 0 .. 7 /\ order(e) \in 0 .. 7
    BY <1>1
  <2> HIDE DEF ranks, order
  <2> QED BY <1>4, <2>1, <2>2
<1>6. ranked = cycle
  OBVIOUS
<1>7. CycleBreakEdges(lg, cycle) = {d \in ranked : \A f \in ranked : order(f) =< order(d)}
  BY DEF CycleBreakEdges
<1> HIDE DEF order, ranked, ranks
<1> QED BY <1>5, <1>6, <1>7

\* No cycle of two or more nodes is left of a layer.
LEMMA CyclesAreCut ==
  ASSUME NEW g, IsSoftwareGraph(g), SourcesAreNodes(g), NEW h \in CleanDependencyCycles(g), NEW l \in Layers
  PROVE  CyclicComponents(GraphNodes({}, h[l].edges), h[l].edges) = {}
<1> DEFINE lg == g[l]
           E == lg.edges
           N == GraphNodes(DOMAIN lg.nodes, E)
           cycles == {c \in UNION {SimpleCycles(E, C) : C \in CyclicComponents(N, E)} : CycleBreakEdges(lg, c) # {}}
<1>1. \E f \in [cycles -> E] : /\ \A c \in cycles : f[c] \in CycleBreakEdges(lg, c)
                               /\ h[l].edges = E \ Range(f)
  <2> DEFINE Cycles(k) == {c \in UNION {SimpleCycles(k.edges, C) :
                                    C \in CyclicComponents(GraphNodes(DOMAIN k.nodes, k.edges), k.edges)} :
                              CycleBreakEdges(k, c) # {}}
             picks(k) == {f \in [Cycles(k) -> k.edges] : \A c \in Cycles(k) : f[c] \in CycleBreakEdges(k, c)}
             Cleaned(k) == {[k EXCEPT !.edges = @ \ Range(f)] : f \in picks(k)}
             options == [k \in Layers |-> Cleaned(g[k])]
  <2>1. CleanDependencyCycles(g) = {k \in [Layers -> UNION Range(options)] : \A m \in Layers : k[m] \in options[m]}
    BY DEF CleanDependencyCycles
  <2>2. h[l] \in options[l]
    <3> HIDE DEF options
    <3> QED BY <2>1
  <2>3. h[l] \in Cleaned(lg)
    <3> HIDE DEF Cleaned
    <3> QED BY <2>2
  <2>4. PICK f \in picks(lg) : h[l] = [lg EXCEPT !.edges = @ \ Range(f)]
    <3> HIDE DEF picks
    <3> QED BY <2>3
  <2>5. lg = [nodes |-> lg.nodes, edges |-> lg.edges]
    BY LayerFacts
  <2>6. h[l].edges = E \ Range(f)
    <3> HIDE DEF lg, picks
    <3> QED BY <2>4, <2>5
  <2>7. Cycles(lg) = cycles
    OBVIOUS
  <2> HIDE DEF cycles, Cycles, Cleaned, options, lg
  <2> QED BY <2>4, <2>6, <2>7
<1>2. PICK f \in [cycles -> E] : (\A c \in cycles : f[c] \in CycleBreakEdges(lg, c)) /\ h[l].edges = E \ Range(f)
  <2> HIDE DEF cycles, lg
  <2> QED BY <1>1
<1> DEFINE R == E \ Range(f)
           M == GraphNodes({}, R)
<1>3. /\ DOMAIN lg.nodes \in SUBSET AllIds /\ E \in SUBSET (AllIds \X AllIds)
      /\ lg.nodes \in [DOMAIN lg.nodes -> Attributes]
      /\ \A e \in E : e[1] \in DOMAIN lg.nodes
  BY LayerFacts DEF SourcesAreNodes
<1> HIDE DEF lg
<1>4. /\ N \in SUBSET AllIds /\ M \in SUBSET AllIds /\ R \in SUBSET E /\ R \in SUBSET (AllIds \X AllIds)
      /\ \A e \in E : e[1] \in N /\ e[2] \in N
      /\ \A e \in R : e[1] \in M /\ e[2] \in M
      /\ M \subseteq N
  <2>1. \A n : n \in N <=> n \in DOMAIN lg.nodes \/ \E e \in E : n = e[1] \/ n = e[2]
    BY DEF GraphNodes
  <2>2. \A n : n \in M <=> \E e \in R : n = e[1] \/ n = e[2]
    BY DEF GraphNodes
  <2>3. R \in SUBSET E
    OBVIOUS
  <2> HIDE DEF R, E, M, N
  <2> QED BY <1>3, <2>1, <2>2, <2>3
<1> HIDE DEF N, M, cycles, E, R
<1> SUFFICES ASSUME NEW D \in CyclicComponents(M, R) PROVE FALSE
  BY <1>2 DEF M, R
<1>5. PICK n \in M : \E m \in Mutual(R, n) : m # n
  <2>1. \A B : B \in CyclicComponents(M, R) <=> \E n \in M : B = Mutual(R, n) /\ \E m \in Mutual(R, n) : m # n
    BY <1>4, ComponentsAre
  <2> QED BY <2>1
<1>6. PICK m \in Mutual(R, n) : m # n
  BY <1>5
<1>7. n \in AllIds /\ n \in N /\ m \in Reached(R, n) /\ n \in Reached(R, m)
  BY <1>4, <1>6 DEF Mutual
<1>8. PICK p \in Seq(AllIds) \ {<<>>} :
        /\ IsSimpleCycle(R, p)
        /\ \A i \in 1 .. Len(p) : p[i] \in Reached(R, n) /\ n \in Reached(R, p[i])
  BY <1>4, <1>6, <1>7, CycleThrough
<1>9. ASSUME NEW k \in AllIds PROVE Reached(R, k) \subseteq Reached(E, k) /\ Reached(R, k) \subseteq AllIds
  BY <1>3, <1>4, ReachedByMore, ReachedFacts
<1> DEFINE C == Mutual(E, n)
<1>10. C \in CyclicComponents(N, E)
  <2>1. m \in AllIds
    BY <1>7, <1>9
  <2>2. m \in C
    BY <1>7, <1>9, <2>1 DEF Mutual
  <2> QED BY <1>3, <1>4, <1>6, <1>7, <2>2, ComponentsAre
<1>11. p \in Seq(C) \ {<<>>}
  <2>1. \A i \in 1 .. Len(p) : p[i] \in C
    <3> SUFFICES ASSUME NEW i \in 1 .. Len(p) PROVE p[i] \in C
      OBVIOUS
    <3>1. p[i] \in AllIds
      BY ElementOfSeq
    <3> QED BY <1>7, <1>8, <1>9, <3>1 DEF Mutual
  <2> HIDE DEF C
  <2> QED BY <2>1, SeqDef
<1>12. IsSimpleCycle(E, p)
  BY <1>4, <1>8 DEF IsSimpleCycle, IsSimplePath
<1> HIDE DEF C
<1>13. CycleOf(p) \in SimpleCycles(E, C)
  BY <1>11, <1>12, CycleListed
<1>14. CycleOf(p) \subseteq R /\ CycleOf(p) # {}
  BY <1>8, CycleIs
<1>15. CycleBreakEdges(lg, CycleOf(p)) # {}
  BY <1>3, <1>4, <1>14, CycleHasBreakEdge
<1>16. CycleOf(p) \in cycles
  BY <1>10, <1>13, <1>15 DEF cycles
<1>17. f[CycleOf(p)] \in CycleOf(p)
  BY <1>2, <1>16 DEF CycleBreakEdges
<1>18. f[CycleOf(p)] \in Range(f)
  BY <1>16 DEF Range
<1> QED BY <1>14, <1>17, <1>18 DEF R

-----------------------------------------------------------------------------
(* Depth.  Among edges without a cycle every set of ids has one that none   *)
(* of the others precedes, so the longest path to an id is defined.         *)

NoWayBack(edges) == \A e \in edges : e[1] \notin Reached(edges, e[2])

LEMMA SomeIsFirst ==
  ASSUME NEW edges \in SUBSET (AllIds \X AllIds), NoWayBack(edges), NEW B \in SUBSET AllIds, B # {}
  PROVE  \E m \in B : Predecessors(edges, m) \cap B = {}
<1> DEFINE reaches == {Reached(edges, m) : m \in B}
<1>1. \A m \in AllIds : Reached(edges, m) \in SUBSET AllIds /\ m \in Reached(edges, m)
  BY ReachedFacts
<1>2. reaches \in SUBSET SUBSET AllIds /\ reaches # {}
  BY <1>1
<1>3. PICK R \in reaches : \A Q \in reaches : R \subseteq Q => Q = R
  <2> HIDE DEF reaches
  <2> QED BY <1>2, AllIdsFinite, MaximalSubset
<1>4. PICK m \in B : R = Reached(edges, m)
  BY <1>3
<1>5. ASSUME NEW k \in Predecessors(edges, m) \cap B PROVE FALSE
  <2>1. PICK e \in edges : e[1] = k /\ e[2] = m
    BY <1>5 DEF Predecessors
  <2>2. k \in AllIds /\ k \in Reached(edges, k) /\ IsClosed(edges, Reached(edges, k))
    BY <1>5, ReachedFacts
  <2>3. m \in Reached(edges, k)
    BY <2>1, <2>2 DEF IsClosed
  <2>4. Reached(edges, m) \subseteq Reached(edges, k)
    BY <2>2, <2>3, ReachedOn
  <2>5. Reached(edges, k) \in reaches
    BY <1>5
  <2>6. k \in Reached(edges, m)
    BY <1>3, <1>4, <2>2, <2>4, <2>5
  <2> QED BY <2>1, <2>6 DEF NoWayBack
<1> QED BY <1>5

\* The greatest of some numbers.
LEMMA GreatestOf ==
  ASSUME NEW K \in SUBSET AllIds, K # {}, NEW F, \A k \in K : F[k] \in Nat
  PROVE  LET top == Max({F[k] : k \in K})
         IN  top \in Nat /\ (\A k \in K : F[k] =< top) /\ \E k \in K : F[k] = top
<1> DEFINE S == {F[k] : k \in K}
           f == [k \in K |-> F[k]]
<1>1. S \in SUBSET Int /\ S # {} /\ \A n \in S : n \in Nat
  OBVIOUS
<1>2. f \in Surjection(K, S)
  BY Zenon DEF Surjection
<1>3. IsFiniteSet(S)
  <2>1. IsFiniteSet(K)
    BY AllIdsFinite, FS_Subset
  <2> HIDE DEF f, S
  <2> QED BY <1>2, <2>1, FS_Surjection
<1>4. Max(S) \in S /\ \A n \in S : Max(S) >= n
  <2> HIDE DEF S
  <2> QED BY <1>1, <1>3, MaxOfFinite
<1> DEFINE top == Max(S)
<1>5. PICK k \in K : F[k] = top
  <2>1. top \in S
    BY <1>4
  <2> HIDE DEF top
  <2> QED BY <2>1
<1>6. \A h \in K : F[h] =< top
  <2> SUFFICES ASSUME NEW h \in K PROVE F[h] =< top
    OBVIOUS
  <2>1. F[h] \in S /\ top \in Nat /\ F[h] \in Nat
    BY <1>1, <1>4
  <2>2. top >= F[h]
    BY <1>4, <2>1
  <2> HIDE DEF top
  <2> QED BY <2>1, <2>2
<1>7. top \in Nat
  BY <1>1, <1>4
<1> HIDE DEF top
<1>8. top \in Nat /\ (\A h \in K : F[h] =< top) /\ \E h \in K : F[h] = top
  BY <1>5, <1>6, <1>7
<1> QED BY <1>8 DEF top, S

\* Depth as it is written.
DepthOf(edges, F, m) == IF Predecessors(edges, m) = {} THEN 0 ELSE 1 + Max({F[k] : k \in Predecessors(edges, m)})
Depths(edges, F) == F = [m \in AllIds |-> DepthOf(edges, F, m)]

LEMMA DepthsExist ==
  ASSUME NEW edges \in SUBSET (AllIds \X AllIds), NoWayBack(edges)
  PROVE  \E F : Depths(edges, F)
<1> DEFINE Early(T) == \A m \in T : Predecessors(edges, m) \subseteq T
           Right(F, T) == \A m \in T : F[m] = DepthOf(edges, F, m)
           P == {T \in SUBSET AllIds : Early(T) /\ \E F : F = [m \in AllIds |-> F[m]] /\ Right(F, T)}
<1>1. {} \in P
  <2> DEFINE F == [m \in AllIds |-> 0]
  <2>1. F = [m \in AllIds |-> F[m]] /\ Right(F, {}) /\ Early({})
    OBVIOUS
  <2> HIDE DEF F, Right, Early
  <2> QED BY <2>1
<1>2. PICK T \in P : \A U \in P : T \subseteq U => U = T
  <2>1. P \in SUBSET SUBSET AllIds /\ P # {}
    BY <1>1
  <2> HIDE DEF P
  <2> QED BY <2>1, AllIdsFinite, MaximalSubset
<1>3. PICK F : F = [m \in AllIds |-> F[m]] /\ Right(F, T)
  OBVIOUS
<1>4. T = AllIds
  <2> SUFFICES ASSUME AllIds \ T # {} PROVE FALSE
    OBVIOUS
  <2>1. PICK m \in AllIds \ T : Predecessors(edges, m) \cap (AllIds \ T) = {}
    <3>1. AllIds \ T \in SUBSET AllIds
      OBVIOUS
    <3> QED BY <3>1, SomeIsFirst
  <2>2. \A k : Predecessors(edges, k) \subseteq AllIds
    BY DEF Predecessors
  <2>3. Predecessors(edges, m) \subseteq T
    BY <2>1, <2>2
  <2> DEFINE G == [k \in AllIds |-> IF k = m THEN DepthOf(edges, F, m) ELSE F[k]]
             U == T \cup {m}
  <2>4. \A k \in T : G[k] = F[k]
    OBVIOUS
  <2>5. ASSUME NEW k \in U PROVE DepthOf(edges, G, k) = DepthOf(edges, F, k)
    <3>1. Predecessors(edges, k) \subseteq T
      BY <2>3
    <3> HIDE DEF G
    <3>2. {G[h] : h \in Predecessors(edges, k)} = {F[h] : h \in Predecessors(edges, k)}
      BY <2>4, <3>1
    <3> QED BY <3>2 DEF DepthOf
  <2>6. Right(G, U)
    <3> SUFFICES ASSUME NEW k \in U PROVE G[k] = DepthOf(edges, G, k)
      OBVIOUS
    <3>1. CASE k = m
      <4>1. G[k] = DepthOf(edges, F, m)
        BY <3>1
      <4> HIDE DEF G
      <4> QED BY <2>5, <3>1, <4>1
    <3>2. CASE k \in T
      <4>1. F[k] = DepthOf(edges, F, k)
        BY <1>3, <3>2
      <4> HIDE DEF G
      <4> QED BY <2>4, <2>5, <3>2, <4>1
    <3> QED BY <3>1, <3>2
  <2>7. G = [k \in AllIds |-> G[k]] /\ Early(U) /\ U \in SUBSET AllIds
    BY <2>3
  <2> HIDE DEF G, Right, Early
  <2>8. U \in P /\ T \subseteq U /\ U # T
    BY <2>6, <2>7
  <2> HIDE DEF U, P
  <2> QED BY <1>2, <2>8
<1>5. F = [m \in AllIds |-> DepthOf(edges, F, m)]
  BY <1>3, <1>4
<1> QED BY <1>5 DEF Depths

\* An id is one deeper than the deepest of its predecessors.
LEMMA DepthIs ==
  ASSUME NEW edges \in SUBSET (AllIds \X AllIds), NoWayBack(edges)
  PROVE  \A m \in AllIds :
           /\ Depth(edges, m) \in Nat
           /\ Predecessors(edges, m) = {} => Depth(edges, m) = 0
           /\ \A k \in Predecessors(edges, m) : Depth(edges, k) < Depth(edges, m)
           /\ Predecessors(edges, m) # {} => \E k \in Predecessors(edges, m) : Depth(edges, m) = Depth(edges, k) + 1
<1> DEFINE F == CHOOSE G : Depths(edges, G)
<1>1. \A m : Depth(edges, m) = F[m]
  BY DEF Depth, Depths, DepthOf
<1>2. Depths(edges, F)
  BY DepthsExist
<1> HIDE DEF F
<1>3. \A m \in AllIds : F[m] = DepthOf(edges, F, m)
  BY <1>2 DEF Depths
<1>4. \A m : Predecessors(edges, m) \in SUBSET AllIds
  BY DEF Predecessors
<1> DEFINE bad == {m \in AllIds : F[m] \notin Nat}
<1>5. bad = {}
  <2> SUFFICES ASSUME bad # {} PROVE FALSE
    OBVIOUS
  <2>1. PICK m \in bad : Predecessors(edges, m) \cap bad = {}
    <3>1. bad \in SUBSET AllIds
      OBVIOUS
    <3> HIDE DEF bad
    <3> QED BY <3>1, SomeIsFirst
  <2>2. \A k \in Predecessors(edges, m) : F[k] \in Nat
    BY <1>4, <2>1
  <2>3. F[m] \in Nat
    <3>1. CASE Predecessors(edges, m) = {}
      <4>1. DepthOf(edges, F, m) = 0
        BY <3>1, Zenon DEF DepthOf
      <4> QED BY <1>3, <2>1, <4>1
    <3>2. CASE Predecessors(edges, m) # {}
      <4>1. Max({F[k] : k \in Predecessors(edges, m)}) \in Nat
        BY <1>4, <2>2, <3>2, GreatestOf
      <4>2. F[m] = 1 + Max({F[k] : k \in Predecessors(edges, m)})
        BY <1>3, <2>1, <3>2 DEF DepthOf
      <4> QED BY <4>1, <4>2
    <3> QED BY <3>1, <3>2
  <2> QED BY <2>1, <2>3
<1>6. \A m \in AllIds : F[m] \in Nat
  BY <1>5
<1>7. ASSUME NEW m \in AllIds
      PROVE  /\ F[m] \in Nat
             /\ Predecessors(edges, m) = {} => F[m] = 0
             /\ \A k \in Predecessors(edges, m) : F[k] < F[m]
             /\ Predecessors(edges, m) # {} => \E k \in Predecessors(edges, m) : F[m] = F[k] + 1
  <2>1. CASE Predecessors(edges, m) = {}
    <3>1. DepthOf(edges, F, m) = 0
      BY <2>1, Zenon DEF DepthOf
    <3> QED BY <1>3, <1>6, <2>1, <3>1
  <2>2. CASE Predecessors(edges, m) # {}
    <3> DEFINE top == Max({F[k] : k \in Predecessors(edges, m)})
    <3>1. \A k \in Predecessors(edges, m) : F[k] \in Nat
      BY <1>4, <1>6
    <3>2. /\ top \in Nat /\ \A k \in Predecessors(edges, m) : F[k] =< top
          /\ \E k \in Predecessors(edges, m) : F[k] = top
      <4>1. Predecessors(edges, m) \in SUBSET AllIds
        BY <1>4
      <4> QED BY <2>2, <3>1, <4>1, GreatestOf, Zenon
    <3>3. F[m] = 1 + top
      BY <1>3, <2>2 DEF DepthOf
    <3> HIDE DEF top
    <3> QED BY <2>2, <3>1, <3>2, <3>3
  <2> QED BY <2>1, <2>2
<1> QED BY <1>1, <1>7

LEMMA AcyclicIs ==
  ASSUME NEW nodes \in SUBSET AllIds, NEW edges \in SUBSET (AllIds \X AllIds),
         \A e \in edges : e[1] \in nodes /\ e[2] \in nodes
  PROVE  IsAcyclic(nodes, edges) <=> NoWayBack(edges)
<1>1. \A C : C \in CyclicComponents(nodes, edges)
               <=> \E n \in nodes : C = Mutual(edges, n) /\ \E m \in Mutual(edges, n) : m # n
  BY ComponentsAre
<1>2. \A n \in AllIds : n \in Reached(edges, n) /\ IsClosed(edges, Reached(edges, n))
  BY ReachedFacts
<1>3. ASSUME NoWayBack(edges) PROVE IsAcyclic(nodes, edges)
  <2>1. ASSUME NEW n \in nodes PROVE <<n, n>> \notin edges
    <3>1. <<n, n>>[1] = n /\ <<n, n>>[2] = n
      OBVIOUS
    <3> QED BY <1>2, <1>3, <3>1 DEF NoWayBack
  <2>2. ASSUME NEW n \in nodes, NEW m \in Mutual(edges, n), m # n PROVE FALSE
    <3>1. n \in AllIds /\ m \in Reached(edges, n) /\ n \in Reached(edges, m)
      BY DEF Mutual
    <3>2. PICK p \in Seq(AllIds) \ {<<>>} :
            /\ IsSimpleCycle(edges, p)
            /\ \A i \in 1 .. Len(p) : p[i] \in Reached(edges, n) /\ n \in Reached(edges, p[i])
      BY <2>2, <3>1, CycleThrough
    <3> DEFINE first == p[1]
               last == p[Len(p)]
    <3>3. 1 \in 1 .. Len(p) /\ Len(p) \in 1 .. Len(p)
      BY LenProperties
    <3>4. first \in AllIds /\ last \in Reached(edges, n) /\ n \in Reached(edges, first)
      BY <3>2, <3>3, ElementOfSeq
    <3>5. <<last, first>> \in edges
      BY <3>2 DEF IsSimpleCycle
    <3> HIDE DEF first, last
    <3>6. last \in Reached(edges, first)
      BY <3>4, ReachedOn
    <3>7. <<last, first>>[1] = last /\ <<last, first>>[2] = first
      OBVIOUS
    <3> QED BY <1>3, <3>5, <3>6, <3>7 DEF NoWayBack
  <2>3. CyclicComponents(nodes, edges) = {}
    BY <1>1, <2>2
  <2> QED BY <2>1, <2>3 DEF IsAcyclic
<1>4. ASSUME IsAcyclic(nodes, edges), NEW e \in edges, e[1] \in Reached(edges, e[2]) PROVE FALSE
  <2>1. e[1] \in nodes /\ e[2] \in nodes /\ e = <<e[1], e[2]>> /\ e[1] \in AllIds
    OBVIOUS
  <2>2. e[1] # e[2]
    BY <1>4, <2>1 DEF IsAcyclic
  <2>3. e[2] \in Reached(edges, e[1])
    BY <1>2, <2>1 DEF IsClosed
  <2>4. e[2] \in Mutual(edges, e[1])
    BY <1>4, <2>3 DEF Mutual
  <2>5. Mutual(edges, e[1]) \in CyclicComponents(nodes, edges)
    BY <1>1, <2>1, <2>2, <2>4
  <2> QED BY <1>4, <2>5 DEF IsAcyclic
<1> QED BY <1>3, <1>4 DEF NoWayBack

\* The levels of a layer without cycles are the ids of equal depth.
LEMMA LevelsByDepth ==
  ASSUME NEW nodes \in SUBSET AllIds, NEW edges \in SUBSET (AllIds \X AllIds),
         \A e \in edges : e[1] \in nodes /\ e[2] \in nodes, NoWayBack(edges)
  PROVE  \A B : B \in ParallelLevels(nodes, edges)
                  <=> \E n \in nodes : B = {m \in nodes : Depth(edges, m) = Depth(edges, n)}
<1> DEFINE d(m) == Depth(edges, m)
           Level(k) == {m \in nodes : d(m) = k}
           At(k) == <<Level(k), {m \in nodes : d(m) < k}>>
           start == <<{n \in nodes : Predecessors(edges, n) = {}}, {}>>
           I == Iteration(edges, start)
<1>1. \A m \in nodes :
        /\ d(m) \in Nat
        /\ Predecessors(edges, m) = {} => d(m) = 0
        /\ \A k \in Predecessors(edges, m) : d(k) < d(m)
        /\ Predecessors(edges, m) # {} => \E k \in Predecessors(edges, m) : d(m) = d(k) + 1
  BY DepthIs
<1>2. /\ \A m : Predecessors(edges, m) \subseteq nodes /\ Successors(edges, m) \subseteq nodes
      /\ \A m, k : k \in Successors(edges, m) <=> m \in Predecessors(edges, k)
  BY DEF Predecessors, Successors
<1> HIDE DEF d
<1>3. start \in Placings /\ ParallelLevels(nodes, edges) = {b[1] : b \in I} \ {{}}
  BY ParallelLevelsAre
<1>4. start = At(0)
  <2>1. \A m \in nodes : Predecessors(edges, m) = {} <=> d(m) = 0
    <3> SUFFICES ASSUME NEW m \in nodes, d(m) = 0 PROVE Predecessors(edges, m) = {}
      BY <1>1
    <3> SUFFICES ASSUME NEW k \in Predecessors(edges, m) PROVE FALSE
      OBVIOUS
    <3>1. k \in nodes /\ d(k) \in Nat /\ d(k) < d(m)
      BY <1>1, <1>2
    <3> QED BY <3>1
  <2>2. \A m \in nodes : ~(d(m) < 0)
    BY <1>1
  <2> QED BY <2>1, <2>2
<1>5. \A k \in Nat : At(k) \in Placings
  BY DEF Placings
<1>6. ASSUME NEW k \in Nat PROVE Place(edges, At(k)) = At(k + 1)
  <2> DEFINE placed == {m \in nodes : d(m) < k + 1}
             next == Place(edges, At(k))
  <2>1. At(k)[1] = Level(k) /\ At(k)[2] = {m \in nodes : d(m) < k} /\ At(k)[2] \cup At(k)[1] = placed
    <3>1. \A m \in nodes : d(m) < k + 1 <=> d(m) < k \/ d(m) = k
      BY <1>1
    <3> QED BY <3>1
  <2>2. /\ next \in Placings /\ next[2] = placed
        /\ \A s : s \in next[1] <=> /\ \E n \in Level(k) : s \in Successors(edges, n)
                                    /\ s \notin placed
                                    /\ Predecessors(edges, s) \subseteq placed
    <3> HIDE DEF placed, Level
    <3>1. /\ Place(edges, At(k)) \in Placings
          /\ Place(edges, At(k))[2] = At(k)[2] \cup At(k)[1]
          /\ \A s : s \in Place(edges, At(k))[1] <=>
              /\ \E n \in At(k)[1] : s \in Successors(edges, n)
              /\ s \notin At(k)[2] \cup At(k)[1]
              /\ Predecessors(edges, s) \subseteq At(k)[2] \cup At(k)[1]
      BY <1>5, PlaceIs
    <3> HIDE DEF At, next
    <3> QED BY <2>1, <3>1 DEF next
  <2> HIDE DEF next
  <2>3. ASSUME NEW s \in next[1] PROVE s \in Level(k + 1)
    <3>1. PICK n \in Level(k) : s \in Successors(edges, n)
      BY <2>2
    <3>2. s \in nodes /\ n \in Predecessors(edges, s) /\ d(s) \in Nat
      BY <1>1, <1>2, <3>1
    <3>3. ~(d(s) < k + 1)
      BY <2>2, <3>2
    <3>4. PICK h \in Predecessors(edges, s) : d(s) = d(h) + 1
      BY <1>1, <3>2
    <3>5. h \in nodes /\ d(h) < k + 1 /\ d(h) \in Nat
      BY <1>1, <2>2
    <3>6. d(s) = k + 1
      BY <3>2, <3>3, <3>4, <3>5
    <3> QED BY <3>2, <3>6
  <2>4. ASSUME NEW s \in Level(k + 1) PROVE s \in next[1]
    <3>1. s \in nodes /\ d(s) = k + 1
      OBVIOUS
    <3>2. Predecessors(edges, s) # {}
      <4>1. d(s) # 0
        BY <3>1
      <4> QED BY <1>1, <3>1, <4>1
    <3>3. PICK h \in Predecessors(edges, s) : d(s) = d(h) + 1
      BY <1>1, <3>1, <3>2
    <3>4. h \in nodes /\ d(h) = k /\ s \in Successors(edges, h)
      <4>1. h \in nodes /\ d(h) \in Nat
        BY <1>1, <1>2
      <4> QED BY <1>2, <3>1, <3>3, <4>1
    <3>5. s \notin placed
      BY <3>1
    <3>6. \A m \in Predecessors(edges, s) : m \in placed
      <4> SUFFICES ASSUME NEW m \in Predecessors(edges, s) PROVE m \in placed
        OBVIOUS
      <4>1. m \in nodes /\ d(m) < d(s)
        BY <1>1, <1>2, <3>1
      <4> QED BY <3>1, <4>1
    <3> QED BY <2>2, <3>4, <3>5, <3>6
  <2>5. next[1] = Level(k + 1)
    BY <2>3, <2>4
  <2>6. next = <<next[1], next[2]>>
    BY <2>2 DEF Placings
  <2> QED BY <2>2, <2>5, <2>6 DEF next
<1>7. /\ I \in SUBSET Placings /\ start \in I
      /\ \A b \in I : b[1] # {} => Place(edges, b) \in I
      /\ \A C \in SUBSET Placings : start \in C /\ (\A b \in C : b[1] # {} => Place(edges, b) \in C) => I \subseteq C
  <2> HIDE DEF start
  <2> QED BY <1>3, IterationIs
<1>8. \A k \in Nat : At(k)[1] = Level(k)
  OBVIOUS
<1> HIDE DEF I, start, At
<1>9. ASSUME NEW b \in I PROVE \E k \in Nat : b = At(k)
  <2> DEFINE C == {c \in Placings : \E k \in Nat : c = At(k)}
  <2>1. C \in SUBSET Placings
    OBVIOUS
  <2>2. start \in C
    BY <1>3, <1>4
  <2>3. ASSUME NEW c \in C PROVE Place(edges, c) \in C
    <3>1. PICK k \in Nat : c = At(k)
      OBVIOUS
    <3>2. Place(edges, c) = At(k + 1) /\ k + 1 \in Nat
      BY <1>6, <3>1
    <3>3. At(k + 1) \in Placings
      BY <1>5, <3>2
    <3> QED BY <3>2, <3>3
  <2> HIDE DEF C
  <2>4. I \subseteq C
    BY <1>7, <2>1, <2>2, <2>3
  <2> QED BY <2>4 DEF C
<1>10. ASSUME NEW k \in Nat PROVE Level(k) # {} => At(k) \in I
  <2> DEFINE S == {h \in Nat : Level(h) # {} => At(h) \in I}
  <2>1. 0 \in S
    BY <1>4, <1>7
  <2>2. ASSUME NEW h \in S PROVE h + 1 \in S
    <3> SUFFICES ASSUME Level(h + 1) # {} PROVE At(h + 1) \in I
      BY <2>2
    <3>0. h \in Nat
      OBVIOUS
    <3>1. PICK s \in nodes : d(s) = h + 1
      OBVIOUS
    <3>2. Predecessors(edges, s) # {}
      <4>1. d(s) # 0
        BY <3>0, <3>1
      <4> QED BY <1>1, <4>1
    <3>3. PICK m \in Predecessors(edges, s) : d(s) = d(m) + 1
      BY <1>1, <3>2
    <3>4. m \in nodes /\ d(m) = h
      <4>1. m \in nodes /\ d(m) \in Nat
        BY <1>1, <1>2
      <4> QED BY <3>0, <3>1, <3>3, <4>1
    <3>5. Level(h) # {} /\ At(h) \in I
      BY <3>4
    <3>6. Place(edges, At(h)) \in I
      BY <1>7, <1>8, <3>0, <3>5
    <3> QED BY <1>6, <3>0, <3>6
  <2>3. S \in SUBSET Nat
    OBVIOUS
  <2>4. S = Nat
    <3> HIDE DEF S
    <3> QED BY <2>1, <2>2, <2>3, NatsBySuccessor
  <2> QED BY <2>4
<1>11. ASSUME NEW B \in ParallelLevels(nodes, edges) PROVE \E n \in nodes : B = Level(d(n))
  <2>1. PICK b \in I : B = b[1] /\ B # {}
    BY <1>3
  <2>2. PICK k \in Nat : b = At(k)
    BY <1>9
  <2>3. B = Level(k)
    BY <1>8, <2>1, <2>2
  <2>4. PICK n \in nodes : d(n) = k
    BY <2>1, <2>3
  <2> QED BY <2>3, <2>4
<1>12. ASSUME NEW n \in nodes PROVE Level(d(n)) \in ParallelLevels(nodes, edges)
  <2>1. d(n) \in Nat /\ n \in Level(d(n))
    BY <1>1
  <2>2. At(d(n)) \in I /\ At(d(n))[1] = Level(d(n))
    BY <1>8, <1>10, <2>1
  <2> HIDE DEF Level
  <2> QED BY <1>3, <2>1, <2>2
<1> QED BY <1>11, <1>12 DEF d

\* The ids of the layer l that the branch of n consists of.
Together(edges, m, n) ==
  IF \E k \in Ids : k \in UNION {{s} \cup Descendants(edges, s) : s \in Successors(edges, k)}
  THEN m \in Descendants(edges, n) /\ n \in Descendants(edges, m)
  ELSE Depth(edges, m) = Depth(edges, n)
BranchOf(g, l, n) == {n} \cup {m \in DOMAIN g[l].nodes : Together(g[l].edges, m, n)}

LEMMA TogetherIs ==
  ASSUME NEW edges \in SUBSET (Ids \X Ids), NEW m \in Ids, NEW n \in Ids
  PROVE  Together(edges, m, n)
           <=> IF NoWayBack(edges) THEN Depth(edges, m) = Depth(edges, n)
               ELSE m \in Descendants(edges, n) /\ n \in Descendants(edges, m)
<1>1. (\E k \in Ids : k \in UNION {{s} \cup Descendants(edges, s) : s \in Successors(edges, k)}) <=> ~NoWayBack(edges)
  <2>1. ASSUME NEW k \in Ids, k \in UNION {{s} \cup Descendants(edges, s) : s \in Successors(edges, k)}
        PROVE  ~NoWayBack(edges)
    <3>1. PICK s \in Successors(edges, k) : k \in Reached(edges, s)
      BY <2>1 DEF Reached
    <3>2. PICK e \in edges : e[1] = k /\ e[2] = s
      BY DEF Successors
    <3> QED BY <3>1, <3>2 DEF NoWayBack
  <2>2. ASSUME NEW e \in edges, e[1] \in Reached(edges, e[2])
        PROVE  \E k \in Ids : k \in UNION {{s} \cup Descendants(edges, s) : s \in Successors(edges, k)}
    <3>1. e[1] \in Ids /\ e[2] \in Successors(edges, e[1])
      BY DEF Successors
    <3>2. e[1] \in {e[2]} \cup Descendants(edges, e[2])
      BY <2>2 DEF Reached
    <3> QED BY <3>1, <3>2
  <2> QED BY <2>1, <2>2 DEF NoWayBack
<1> QED BY <1>1, Zenon DEF Together

\* The branches of one layer.
LEMMA LayerBranches ==
  ASSUME NEW g \in Inputs, NEW l \in Layers
  PROVE  LET nodes == GraphNodes(DOMAIN g[l].nodes, g[l].edges)
         IN  \A B : /\ Cardinality(B) >= 2
                    /\ \/ IsAcyclic(nodes, g[l].edges) /\ B \in ParallelLevels(nodes, g[l].edges)
                       \/ B \in CyclicComponents(nodes, g[l].edges)
                    <=> B \notin {{n} : n \in Ids} /\ \E n \in DOMAIN g[l].nodes : B = BranchOf(g, l, n)
<1> DEFINE V == DOMAIN g[l].nodes
           E == g[l].edges
           nodes == GraphNodes(V, E)
<1>1. V \subseteq Ids /\ E \in SUBSET (V \X V)
  <2>1. IsSoftwareGraph(g) /\ EdgesJoinNodes(g) /\ NodeIds(g) \subseteq Ids
    BY PipelineAssumption
  <2> QED BY <2>1, LayerFacts DEF EdgesJoinNodes
<1> HIDE DEF V, E
<1>2. nodes = V
  <2>1. \A n : n \in nodes <=> n \in V \/ \E e \in E : n = e[1] \/ n = e[2]
    BY DEF GraphNodes
  <2> HIDE DEF nodes
  <2> QED BY <1>1, <2>1
<1>3. /\ V \in SUBSET AllIds /\ E \in SUBSET (AllIds \X AllIds) /\ E \in SUBSET (Ids \X Ids)
      /\ \A e \in E : e[1] \in V /\ e[2] \in V
  BY <1>1 DEF AllIds
<1>4. \A n \in V : BranchOf(g, l, n) = {n} \cup {m \in V : Together(E, m, n)}
  BY DEF BranchOf, V, E
<1>5. ASSUME NEW n \in V
      PROVE  /\ n \in BranchOf(g, l, n) /\ BranchOf(g, l, n) \in SUBSET AllIds /\ BranchOf(g, l, n) \subseteq Ids
             /\ NoWayBack(E) => BranchOf(g, l, n) = {m \in V : Depth(E, m) = Depth(E, n)}
             /\ ~NoWayBack(E) => BranchOf(g, l, n) = Mutual(E, n)
  <2>1. \A m \in V : Together(E, m, n) <=> IF NoWayBack(E) THEN Depth(E, m) = Depth(E, n)
                                           ELSE m \in Descendants(E, n) /\ n \in Descendants(E, m)
    BY <1>1, <1>3, TogetherIs
  <2>2. \A m \in V : Descendants(E, m) = Reached(E, m) \ {m} /\ m \in Reached(E, m) /\ Reached(E, m) \subseteq V
    <3> SUFFICES ASSUME NEW m \in V
                 PROVE  Descendants(E, m) = Reached(E, m) \ {m} /\ m \in Reached(E, m) /\ Reached(E, m) \subseteq V
      OBVIOUS
    <3>1. m \in AllIds /\ IsClosed(E, V)
      BY <1>3 DEF IsClosed
    <3> QED BY <1>3, <3>1, ReachedFacts
  <2>3. ASSUME NoWayBack(E) PROVE BranchOf(g, l, n) = {m \in V : Depth(E, m) = Depth(E, n)}
    BY <1>4, <2>1, <2>3
  <2>4. ASSUME ~NoWayBack(E) PROVE BranchOf(g, l, n) = Mutual(E, n)
    <3>1. \A m : m \in BranchOf(g, l, n) <=> m = n \/ (m \in V /\ m \in Descendants(E, n) /\ n \in Descendants(E, m))
      BY <1>4, <2>1, <2>4
    <3>2. \A m : m \in Mutual(E, n) <=> m \in Reached(E, n) /\ n \in Reached(E, m)
      BY DEF Mutual
    <3>3. \A m : m \in BranchOf(g, l, n) <=> m \in Mutual(E, n)
      BY <2>2, <3>1, <3>2
    <3> QED BY <3>3
  <2>5. n \in BranchOf(g, l, n) /\ BranchOf(g, l, n) \subseteq V
    BY <1>4
  <2> QED BY <1>1, <1>3, <2>3, <2>4, <2>5
<1>6. ASSUME NEW n \in V
      PROVE  /\ Cardinality(BranchOf(g, l, n)) >= 2 <=> BranchOf(g, l, n) \notin {{k} : k \in Ids}
             /\ Cardinality(BranchOf(g, l, n)) >= 2 <=> \E m \in BranchOf(g, l, n) : m # n
  <2> DEFINE B == BranchOf(g, l, n)
  <2>1. n \in B /\ B \in SUBSET AllIds /\ n \in Ids
    BY <1>1, <1>5
  <2>2. Cardinality(B) >= 2 <=> \E m \in B : m # n
    BY <2>1, TwoOrMore
  <2> HIDE DEF B
  <2>3. (\E m \in B : m # n) <=> \A k \in Ids : B # {k}
    BY <2>1
  <2>4. B \in {{k} : k \in Ids} <=> \E k \in Ids : B = {k}
    OBVIOUS
  <2> QED BY <2>2, <2>3, <2>4 DEF B
<1>7. IsAcyclic(V, E) <=> NoWayBack(E)
  BY <1>3, AcyclicIs
<1>8. \A B : B \in CyclicComponents(V, E) <=> \E n \in V : B = Mutual(E, n) /\ \E m \in Mutual(E, n) : m # n
  BY <1>3, ComponentsAre
<1>9. NoWayBack(E) => \A B : B \in ParallelLevels(V, E) <=> \E n \in V : B = {m \in V : Depth(E, m) = Depth(E, n)}
  BY <1>3, LevelsByDepth
<1>10. NoWayBack(E) => CyclicComponents(V, E) = {}
  BY <1>7 DEF IsAcyclic
<1>11. ASSUME NEW B
       PROVE  /\ Cardinality(B) >= 2
              /\ \/ IsAcyclic(V, E) /\ B \in ParallelLevels(V, E)
                 \/ B \in CyclicComponents(V, E)
              <=> B \notin {{n} : n \in Ids} /\ \E n \in V : B = BranchOf(g, l, n)
  <2>1. CASE NoWayBack(E)
    <3>1. B \in ParallelLevels(V, E) <=> \E n \in V : B = BranchOf(g, l, n)
      <4>1. \A n \in V : BranchOf(g, l, n) = {m \in V : Depth(E, m) = Depth(E, n)}
        BY <1>5, <2>1
      <4>2. B \in ParallelLevels(V, E) <=> \E n \in V : B = {m \in V : Depth(E, m) = Depth(E, n)}
        BY <1>9, <2>1
      <4>3. ASSUME NEW n \in V
            PROVE  B = BranchOf(g, l, n) <=> B = {m \in V : Depth(E, m) = Depth(E, n)}
        <5>1. BranchOf(g, l, n) = {m \in V : Depth(E, m) = Depth(E, n)}
          BY <4>1
        <5> QED BY <5>1
      <4> QED BY <4>2, <4>3
    <3> QED BY <1>6, <1>7, <1>10, <2>1, <3>1
  <2>2. CASE ~NoWayBack(E)
    <3>1. B \in CyclicComponents(V, E) <=> \E n \in V : B = BranchOf(g, l, n) /\ \E m \in BranchOf(g, l, n) : m # n
      BY <1>5, <1>8, <2>2
    <3> QED BY <1>6, <1>7, <2>2, <3>1
  <2> QED BY <2>1, <2>2
<1> HIDE DEF nodes
<1> QED BY <1>2, <1>11 DEF V, E, nodes

\* The reported branches of a graph.
LEMMA BranchesAre ==
  ASSUME NEW g \in Inputs
  PROVE  ParallelBranches(g) = (UNION {{BranchOf(g, l, n) : n \in DOMAIN g[l].nodes} : l \in Layers}) \ {{n} : n \in Ids}
<1> DEFINE Nodes(l) == GraphNodes(DOMAIN g[l].nodes, g[l].edges)
           Branches(l) ==
             (IF IsAcyclic(Nodes(l), g[l].edges) THEN ParallelLevels(Nodes(l), g[l].edges) ELSE {})
               \cup CyclicComponents(Nodes(l), g[l].edges)
           expected == UNION {{BranchOf(g, l, n) : n \in DOMAIN g[l].nodes} : l \in Layers}
<1>1. ParallelBranches(g) = {B \in UNION {Branches(l) : l \in Layers} : Cardinality(B) >= 2}
  BY DEF ParallelBranches
<1>2. ASSUME NEW l \in Layers, NEW B
      PROVE  Cardinality(B) >= 2 /\ B \in Branches(l)
               <=> B \notin {{n} : n \in Ids} /\ \E n \in DOMAIN g[l].nodes : B = BranchOf(g, l, n)
  <2>1. B \in Branches(l) <=> \/ IsAcyclic(Nodes(l), g[l].edges) /\ B \in ParallelLevels(Nodes(l), g[l].edges)
                              \/ B \in CyclicComponents(Nodes(l), g[l].edges)
    OBVIOUS
  <2>2. /\ Cardinality(B) >= 2
        /\ \/ IsAcyclic(Nodes(l), g[l].edges) /\ B \in ParallelLevels(Nodes(l), g[l].edges)
           \/ B \in CyclicComponents(Nodes(l), g[l].edges)
        <=> B \notin {{n} : n \in Ids} /\ \E n \in DOMAIN g[l].nodes : B = BranchOf(g, l, n)
    BY LayerBranches
  <2> HIDE DEF Branches, Nodes
  <2> QED BY <2>1, <2>2
<1> HIDE DEF Branches
<1>3. \A B : B \in expected <=> \E l \in Layers : \E n \in DOMAIN g[l].nodes : B = BranchOf(g, l, n)
  OBVIOUS
<1> HIDE DEF expected
<1>4. \A B : B \in ParallelBranches(g) <=> B \in expected /\ B \notin {{n} : n \in Ids}
  BY <1>1, <1>2, <1>3
<1> QED BY <1>4 DEF expected

-----------------------------------------------------------------------------
(* The invariant.  The passes keep the behaviour because each only narrows  *)
(* the graph and the verification only keeps what reaches as much; that a   *)
(* pass narrows rests on edges leaving from nodes, and for the split on     *)
(* there being no parts yet.                                                *)

Report == [preserved : BOOLEAN, risk : RiskLevel]

NoCycles(g) == \A l \in Layers : CyclicComponents(GraphNodes({}, g[l].edges), g[l].edges) = {}

\* A graph and the reports on it, after some of the passes over the original.
Stage(original, g, rs) ==
  /\ IsSoftwareGraph(g) /\ SourcesAreNodes(g)
  /\ Len(rs) =< 2 => OnlyIds(g)
  /\ rs \in Seq(Report) /\ Len(rs) =< 4
  /\ rs = <<>> => g = original
  /\ rs # <<>> => rs[1].preserved /\ NodeIds(g) \cap Ids \subseteq LiveIds(original, Entries)
  /\ Len(rs) = 4 /\ rs[4].preserved => NoCycles(g)

IInv ==
  /\ input \in Inputs
  /\ Stage(input, working, reports)
  /\ ~truncated => Behaves(input, working)
  /\ maxRisk \in RiskLevel
  /\ branches \subseteq SUBSET Ids
  /\ Len(reports) = 4 => branches = ParallelBranches(input)

LEMMA InputFacts ==
  ASSUME NEW g \in Inputs
  PROVE  /\ IsSoftwareGraph(g) /\ EdgesJoinNodes(g) /\ NodeIds(g) \subseteq Ids
         /\ SourcesAreNodes(g) /\ OnlyIds(g) /\ Behaves(g, g)
<1>1. IsSoftwareGraph(g) /\ EdgesJoinNodes(g) /\ NodeIds(g) \subseteq Ids
  BY PipelineAssumption
<1>2. SourcesAreNodes(g)
  BY <1>1 DEF EdgesJoinNodes, SourcesAreNodes
<1>3. OnlyIds(g)
  <2>1. ASSUME NEW e \in EdgeKeys(g) PROVE e \in Ids \X Ids
    <3>1. PICK l \in Layers : e \in g[l].edges
      BY DEF EdgeKeys
    <3>2. DOMAIN g[l].nodes \subseteq Ids
      BY <1>1 DEF NodeIds
    <3>3. e \in (DOMAIN g[l].nodes) \X (DOMAIN g[l].nodes)
      BY <1>1, <3>1 DEF EdgesJoinNodes
    <3> QED BY <3>2, <3>3
  <2> QED BY <1>1, <2>1 DEF OnlyIds
<1>4. \A n \in LiveIds(g, Entries) \cap NodeIds(g) :
        Descendants(EdgeKeys(g), n) \cap Ids = Descendants(EdgeKeys(g), n)
  <2> SUFFICES ASSUME NEW n \in LiveIds(g, Entries) \cap NodeIds(g)
               PROVE  Descendants(EdgeKeys(g), n) \subseteq Ids
    OBVIOUS
  <2>1. n \in Ids /\ EdgeKeys(g) \in SUBSET (Ids \X Ids)
    BY <1>1, <1>3 DEF OnlyIds
  <2> QED BY <2>1, ReachedIds
<1> QED BY <1>1, <1>2, <1>3, <1>4 DEF Behaves

\* What apply_pass() makes of the result h of a pass over g, verified or not.
Kept(ok, g, h) == IF ok THEN h ELSE g
ReportOn(ok, g, h) == [preserved |-> ok, risk |-> AssessRisk(g, h, ok)]

LEMMA ApplyPassIs ==
  ASSUME NEW result, NEW b, NEW a, ApplyPass(result, b, a)
  PROVE  /\ working' = Kept(Verify(working, result, b, a), working, result)
         /\ reports' = Append(reports, ReportOn(Verify(working, result, b, a), working, result))
         /\ Verify(working, result, b, a) \in BOOLEAN
<1>1. Verify(working, result, b, a) \in BOOLEAN
  BY DEF Verify
<1> QED BY <1>1 DEF ApplyPass, Kept, ReportOn

\* A pass keeps the behaviour as long as no search is truncated.
LEMMA PassBehaves ==
  ASSUME IInv, NEW result, Narrows(working, result),
         NEW b \in FirstSuccessors(working), NEW a, Overfull(working) = {} => SomeOf(result, a),
         ApplyPass(result, b, a)
  PROVE  ~truncated' => Behaves(input, working')
<1> SUFFICES ASSUME ~truncated' PROVE Behaves(input, working')
  OBVIOUS
<1> DEFINE ok == Verify(working, result, b, a)
<1>1. ~truncated /\ Overfull(working) = {} /\ working' = IF ok THEN result ELSE working
  BY DEF ApplyPass
<1>2. /\ Behaves(input, working) /\ IsSoftwareGraph(working)
      /\ IsSoftwareGraph(input) /\ EdgesJoinNodes(input) /\ NodeIds(input) \subseteq Ids
  BY <1>1, InputFacts DEF IInv, Stage
<1>3. CASE ok
  <2>1. Behaves(input, result)
    BY <1>1, <1>2, <1>3, VerifiedBehaves
  <2> QED BY <1>1, <1>3, <2>1
<1>4. CASE ~ok
  BY <1>1, <1>2, <1>4
<1> QED BY <1>3, <1>4

\* h is what the next pass makes of g.
NextPass(original, g, rs, ok, h) ==
  /\ ok \in BOOLEAN
  /\ original \in Inputs /\ Stage(original, g, rs) /\ Len(rs) < 4
  /\ Narrows(g, h)
  /\ Len(rs) < 2 => OnlyIds(h)
  /\ Len(rs) = 3 => NoCycles(h)
  /\ rs = <<>> => ok /\ NodeIds(h) \subseteq LiveIds(original, Entries)

LEMMA PassApplied ==
  ASSUME NEW original, NEW g, NEW rs, NEW ok, NEW h, NextPass(original, g, rs, ok, h)
  PROVE  /\ Stage(original, Kept(ok, g, h), Append(rs, ReportOn(ok, g, h)))
         /\ Len(Append(rs, ReportOn(ok, g, h))) = Len(rs) + 1
<1> DEFINE kept == IF ok THEN h ELSE g
           report == [preserved |-> ok, risk |-> AssessRisk(g, h, ok)]
           after == Append(rs, report)
<1>0. /\ original \in Inputs /\ Stage(original, g, rs) /\ Len(rs) < 4 /\ Narrows(g, h)
      /\ Len(rs) < 2 => OnlyIds(h)
      /\ Len(rs) = 3 => NoCycles(h)
      /\ rs = <<>> => ok /\ NodeIds(h) \subseteq LiveIds(original, Entries)
      /\ ok \in BOOLEAN
  BY DEF NextPass
<1>1. IsSoftwareGraph(kept) /\ SourcesAreNodes(kept)
  BY <1>0 DEF Stage, Narrows
<1>4. rs = <<>> => ok /\ kept = h
  BY <1>0
<1>5. NodeIds(kept) \cap Ids \subseteq LiveIds(original, Entries)
  <2>1. CASE rs = <<>>
    BY <1>0, <1>4, <2>1
  <2>2. CASE rs # <<>>
    BY <1>0, <2>2 DEF Stage, Narrows
  <2> QED BY <2>1, <2>2
<1>6. AssessRisk(g, h, ok) \in RiskLevel
  BY RiskIs
<1>7. report \in Report
  BY <1>0, <1>6 DEF Report
<1>8. rs \in Seq(Report) /\ Len(rs) \in Nat
  BY <1>0 DEF Stage
<1>9. /\ after \in Seq(Report) /\ Len(after) = Len(rs) + 1 /\ after # <<>>
      /\ rs = <<>> => after[1] = report
      /\ rs # <<>> => after[1] = rs[1]
      /\ Len(rs) = 3 => after[4] = report
  <2> DEFINE L == Len(rs)
  <2> HIDE DEF report
  <2>1. /\ after \in Seq(Report) /\ after # <<>> /\ L \in Nat /\ Len(after) = L + 1 /\ after[L + 1] = report
        /\ \A i \in 1 .. L : after[i] = rs[i]
    BY <1>7, <1>8, AppendIs
  <2> HIDE DEF after
  <2>2. rs = <<>> => L = 0
    OBVIOUS
  <2>3. rs # <<>> => 1 \in 1 .. L
    BY <1>8
  <2>4. L = 3 => L + 1 = 4
    OBVIOUS
  <2>5. L = 0 => L + 1 = 1
    OBVIOUS
  <2> QED BY <2>1, <2>2, <2>3, <2>4, <2>5
<1>10. after[1].preserved
  <2>1. CASE rs = <<>>
    BY <1>4, <1>9, <2>1
  <2>2. CASE rs # <<>>
    BY <1>0, <1>9, <2>2 DEF Stage
  <2> QED BY <2>1, <2>2
<1>11. Len(after) =< 2 => OnlyIds(kept)
  BY <1>0, <1>8, <1>9 DEF Stage
<1>14. ASSUME Len(after) = 4, after[4].preserved PROVE NoCycles(kept)
  <2>1. Len(rs) = 3
    <3>1. Len(after) = 4 /\ Len(after) = Len(rs) + 1
      BY <1>9, <1>14, Zenon
    <3>2. Len(rs) + 1 = 4 /\ Len(rs) \in Nat
      BY <1>8, <3>1, Zenon
    <3>3. \A a \in Nat : a + 1 = 4 => a = 3
      OBVIOUS
    <3> QED BY <3>2, <3>3, Zenon
  <2>2. ok
    <3>1. report.preserved
      BY <1>9, <1>14, <2>1
    <3> QED BY <3>1
  <2>3. kept = h
    BY <2>2
  <2> QED BY <1>0, <2>1, <2>3
<1> HIDE DEF kept, after
<1>12. Len(after) =< 4
  BY <1>0, <1>8, <1>9
<1>13. Stage(original, kept, after)
  BY <1>1, <1>5, <1>9, <1>10, <1>11, <1>12, <1>14 DEF Stage
<1> QED BY <1>9, <1>13 DEF kept, after, report, Kept, ReportOn

LEMMA InitEstablishes == Init => IInv
<1> SUFFICES ASSUME Init PROVE IInv
  OBVIOUS
<1>1. input \in Inputs /\ working = input /\ reports = <<>> /\ branches = {} /\ maxRisk = "low"
  BY DEF Init
<1>2. Stage(input, working, reports) /\ Behaves(input, working)
  BY <1>1, InputFacts DEF Stage
<1> QED BY <1>1, <1>2 DEF IInv, RiskLevel

LEMMA DeadCodeRemovalKeeps == IInv /\ DeadCodeRemoval => IInv'
<1> SUFFICES ASSUME IInv, DeadCodeRemoval PROVE IInv'
  OBVIOUS
<1> DEFINE result == RemoveDeadNodes(input, working)
<1>1. input \in Inputs /\ Stage(input, working, reports) /\ Len(reports) = 0
  BY DEF IInv, DeadCodeRemoval
<1>2. reports = <<>> /\ working = input
  BY <1>1 DEF Stage
<1>3. Narrows(working, result) /\ OnlyIds(result)
  BY <1>1, RemoveDeadNodesNarrows DEF Stage
<1>5. PICK first \in FirstSuccessors(working) :
        ApplyPass(result, first, first) /\ UNCHANGED <<input, branches, maxRisk>>
  BY DEF DeadCodeRemoval
<1>4. Verify(working, result, first, first) /\ NodeIds(result) \subseteq LiveIds(input, Entries)
  BY <1>1, <1>2, InputFacts, FirstPassKept
<1>7. Overfull(working) = {} => SomeOf(result, first)
  BY FirstsAre DEF SomeOf
<1> HIDE DEF result
<1>8. ~truncated' => Behaves(input, working')
  BY <1>3, <1>5, <1>7, PassBehaves
<1>6. Stage(input, working', reports') /\ Len(reports') = Len(reports) + 1
  <2> DEFINE ok == Verify(working, result, first, first)
  <2>1. /\ working' = Kept(ok, working, result) /\ reports' = Append(reports, ReportOn(ok, working, result))
        /\ ok \in BOOLEAN
    BY <1>5, ApplyPassIs
  <2>2. NextPass(input, working, reports, ok, result)
    BY <2>1, <1>1, <1>3, <1>4 DEF NextPass
  <2> HIDE DEF ok
  <2>3. /\ Stage(input, Kept(ok, working, result), Append(reports, ReportOn(ok, working, result)))
        /\ Len(Append(reports, ReportOn(ok, working, result))) = Len(reports) + 1
    BY <2>2, PassApplied
  <2> QED BY <2>1, <2>3
<1> QED BY <1>1, <1>5, <1>6, <1>8 DEF IInv

LEMMA InlineTrivialKeeps == IInv /\ InlineTrivial => IInv'
<1> SUFFICES ASSUME IInv, InlineTrivial PROVE IInv'
  OBVIOUS
<1> DEFINE result == InlineTrivialNodes(input, working)
<1>1. input \in Inputs /\ Stage(input, working, reports) /\ Len(reports) = 1
  BY DEF IInv, InlineTrivial
<1>2. reports # <<>> /\ OnlyIds(working)
  BY <1>1 DEF Stage
<1>3. Narrows(working, result) /\ OnlyIds(result)
  BY <1>1, <1>2, InlineTrivialNodesNarrows DEF Stage
<1>4. PICK b \in FirstSuccessors(working), a \in FirstSuccessors(result) :
        ApplyPass(result, b, a) /\ UNCHANGED <<input, branches, maxRisk>>
  BY DEF InlineTrivial, ApplyReordering
<1>6. SomeOf(result, a)
  BY FirstsAre DEF SomeOf
<1> HIDE DEF result
<1>7. ~truncated' => Behaves(input, working')
  BY <1>3, <1>4, <1>6, PassBehaves
<1>5. Stage(input, working', reports') /\ Len(reports') = Len(reports) + 1
  <2> DEFINE ok == Verify(working, result, b, a)
  <2>1. /\ working' = Kept(ok, working, result) /\ reports' = Append(reports, ReportOn(ok, working, result))
        /\ ok \in BOOLEAN
    BY <1>4, ApplyPassIs
  <2>2. NextPass(input, working, reports, ok, result)
    BY <2>1, <1>1, <1>2, <1>3 DEF NextPass
  <2> HIDE DEF ok
  <2>3. /\ Stage(input, Kept(ok, working, result), Append(reports, ReportOn(ok, working, result)))
        /\ Len(Append(reports, ReportOn(ok, working, result))) = Len(reports) + 1
    BY <2>2, PassApplied
  <2> QED BY <2>1, <2>3
<1> QED BY <1>1, <1>4, <1>5, <1>7 DEF IInv

LEMMA ReduceKeeps == IInv /\ Reduce => IInv'
<1> SUFFICES ASSUME IInv, Reduce PROVE IInv'
  OBVIOUS
<1> DEFINE result == ReduceComplexity(working)
<1>1. input \in Inputs /\ Stage(input, working, reports) /\ Len(reports) = 2
  BY DEF IInv, Reduce
<1>2. reports # <<>> /\ OnlyIds(working)
  <2>1. Len(reports) =< 2 /\ reports # <<>>
    BY <1>1
  <2> QED BY <1>1, <2>1 DEF Stage
<1>3. Narrows(working, result)
  BY <1>1, <1>2, ReduceComplexityNarrows DEF Stage
<1>4. PICK b \in FirstSuccessors(working), a \in FirstSuccessors(result) :
        ApplyPass(result, b, a) /\ UNCHANGED <<input, branches, maxRisk>>
  BY DEF Reduce, ApplyReordering
<1>6. SomeOf(result, a)
  BY FirstsAre DEF SomeOf
<1> HIDE DEF result
<1>7. ~truncated' => Behaves(input, working')
  BY <1>3, <1>4, <1>6, PassBehaves
<1>5. Stage(input, working', reports') /\ Len(reports') = Len(reports) + 1
  <2> DEFINE ok == Verify(working, result, b, a)
  <2>1. /\ working' = Kept(ok, working, result) /\ reports' = Append(reports, ReportOn(ok, working, result))
        /\ ok \in BOOLEAN
    BY <1>4, ApplyPassIs
  <2>2. NextPass(input, working, reports, ok, result)
    BY <2>1, <1>1, <1>2, <1>3 DEF NextPass
  <2> HIDE DEF ok
  <2>3. /\ Stage(input, Kept(ok, working, result), Append(reports, ReportOn(ok, working, result)))
        /\ Len(Append(reports, ReportOn(ok, working, result))) = Len(reports) + 1
    BY <2>2, PassApplied
  <2> QED BY <2>1, <2>3
<1> QED BY <1>1, <1>4, <1>5, <1>7 DEF IInv

LEMMA CleanCyclesKeeps == IInv /\ CleanCycles => IInv'
<1> SUFFICES ASSUME IInv, CleanCycles PROVE IInv'
  OBVIOUS
<1>1. input \in Inputs /\ Stage(input, working, reports) /\ Len(reports) = 3
  BY DEF IInv, CleanCycles
<1>0. PICK result \in CleanDependencyCycles(working) : ApplyReordering(result)
  BY DEF CleanCycles
<1>2. PICK b \in FirstSuccessors(working), a \in FirstSuccessors(result) : ApplyPass(result, b, a)
  BY <1>0 DEF ApplyReordering
<1>3. branches' = ParallelBranches(input) /\ maxRisk' = HighestRisk(reports') /\ input' = input
  BY DEF CleanCycles
<1>4. Narrows(working, result)
  BY <1>1, CleanDependencyCyclesNarrows DEF Stage
<1>5. reports # <<>> /\ NoCycles(result)
  <2>1. reports # <<>>
    BY <1>1
  <2>2. IsSoftwareGraph(working) /\ SourcesAreNodes(working)
    BY <1>1 DEF Stage
  <2>3. \A l \in Layers : CyclicComponents(GraphNodes({}, result[l].edges), result[l].edges) = {}
    BY <2>2, CyclesAreCut
  <2> QED BY <2>1, <2>3 DEF NoCycles
<1>6. Stage(input, working', reports')
  <2> DEFINE ok == Verify(working, result, b, a)
  <2>1. /\ working' = Kept(ok, working, result) /\ reports' = Append(reports, ReportOn(ok, working, result))
        /\ ok \in BOOLEAN
    BY <1>2, ApplyPassIs
  <2>2. NextPass(input, working, reports, ok, result)
    BY <2>1, <1>1, <1>4, <1>5 DEF NextPass
  <2> HIDE DEF ok
  <2>3. /\ Stage(input, Kept(ok, working, result), Append(reports, ReportOn(ok, working, result)))
        /\ Len(Append(reports, ReportOn(ok, working, result))) = Len(reports) + 1
    BY <2>2, PassApplied
  <2> QED BY <2>1, <2>3
<1>10. ~truncated' => Behaves(input, working')
  <2>1. SomeOf(result, a)
    BY FirstsAre DEF SomeOf
  <2> QED BY <1>2, <1>4, <2>1, PassBehaves
<1>7. reports' # <<>> /\ reports' \in Seq(Report)
  <2>1. \A r : Append(reports, r) # <<>>
    BY <1>1 DEF Stage
  <2> QED BY <1>2, <1>6, <2>1 DEF Stage, ApplyPass
<1>8. maxRisk' \in RiskLevel
  BY <1>3, <1>7, HighestRiskIs DEF Report
<1>9. branches' \subseteq SUBSET Ids
  BY <1>1, <1>3, InputFacts, BranchesAreIds
<1> QED BY <1>1, <1>3, <1>6, <1>8, <1>9, <1>10 DEF IInv

\* The invariant holds throughout run().
THEOREM Invariant == Spec => []IInv
<1>1. IInv /\ UNCHANGED vars => IInv'
  BY DEF IInv, vars
<1>2. IInv /\ [Next]_vars => IInv'
  BY <1>1, DeadCodeRemovalKeeps, InlineTrivialKeeps, ReduceKeeps, CleanCyclesKeeps DEF Next
<1> QED BY InitEstablishes, <1>2, PTL DEF Spec

\* The working graph stays a software graph, with one report for each pass.
THEOREM TypeCorrect == Spec => []TypeOK
<1>1. IInv => TypeOK
  BY DEF IInv, Stage, TypeOK, Report
<1> QED BY <1>1, Invariant, PTL

\* As long as no pass was verified against a truncated search of what it was given, the working graph
\* reaches, from every id that the entry points reach, the same ids of the input as the input does,
\* after any number of passes, whichever of them the verification reverted.
THEOREM Behaviour == Spec => []BehaviourPreserved
<1>1. IInv => BehaviourPreserved
  BY DEF IInv, Behaves, BehaviourPreserved, SameReach
<1> QED BY <1>1, Invariant, PTL

\* The removal of dead nodes is never reverted, and no later pass brings one back.
THEOREM DeadCode == Spec => []DeadCodeGone
<1>1. IInv => DeadCodeGone
  BY DEF IInv, Stage, DeadCodeGone
<1> QED BY <1>1, Invariant, PTL

\* Comparing the traces of two graphs compares what the entry points reach, whatever the next pass
\* returns and at any depth limit: no less if the first search is not truncated, no more if neither is.
THEOREM TraceTest == Spec => []TraceTestExact
<1>1. ASSUME IInv, NEW result \in NextResults
      PROVE  IsGraph(working) /\ IsGraph(result)
  <2>1. /\ Stage(input, working, reports) /\ IsSoftwareGraph(working) /\ SourcesAreNodes(working)
        /\ Len(reports) =< 2 => OnlyIds(working)
    BY <1>1 DEF IInv, Stage
  <2>2. \/ Len(reports) = 0 /\ result = RemoveDeadNodes(input, working)
        \/ Len(reports) = 1 /\ result = InlineTrivialNodes(input, working)
        \/ Len(reports) = 2 /\ result = ReduceComplexity(working)
        \/ Len(reports) = 3 /\ result \in CleanDependencyCycles(working)
    BY DEF NextResults
  <2>3. Narrows(working, result)
    BY <2>1, <2>2, RemoveDeadNodesNarrows, InlineTrivialNodesNarrows, ReduceComplexityNarrows,
       CleanDependencyCyclesNarrows
  <2> QED BY <2>1, <2>3, SoftwareGraphIsGraph DEF Narrows
<1>2. ASSUME IInv, NEW result \in NextResults, Overfull(working) = {},
             NEW b \in FirstSuccessors(working), NEW a \in FirstSuccessors(result)
      PROVE  /\ BuildTraceSet(working, b) \subseteq BuildTraceSet(result, a) => SameOrMoreReach(working, result)
             /\ Overfull(result) = {} =>
                  (SameOrMoreReach(working, result) => BuildTraceSet(working, b) \subseteq BuildTraceSet(result, a))
  <2>1. IsGraph(working) /\ IsGraph(result)
    BY <1>1, <1>2
  <2>2. SomeOf(result, a)
    BY FirstsAre DEF SomeOf
  <2> QED BY <1>2, <2>1, <2>2, TraceTestIsSound, TraceTestIsComplete
<1>3. IInv => TraceTestExact
  BY <1>2 DEF TraceTestExact
<1> QED BY <1>3, Invariant, PTL

\* When the cleaning of cycles is kept, no layer has a cycle of two or more nodes left, whichever
\* of several equally complex edges of a cycle were cut.
THEOREM Cleaned == Spec => []CyclesCleaned
<1>1. IInv => CyclesCleaned
  BY DEF IInv, Stage, NoCycles, CyclesCleaned
<1> QED BY <1>1, Invariant, PTL

\* The branches of the report are the ids of equal depth of the layers without cycles, and the
\* ids that reach each other of the others.
THEOREM Branches == Spec => []BranchesAreLevels
<1>1. ASSUME IInv PROVE BranchesAreLevels
  <2> DEFINE Same(l, m, n) ==
               IF \E k \in Ids : k \in UNION {{s} \cup Descendants(input[l].edges, s) : s \in Successors(input[l].edges, k)}
               THEN m \in Descendants(input[l].edges, n) /\ n \in Descendants(input[l].edges, m)
               ELSE Depth(input[l].edges, m) = Depth(input[l].edges, n)
             Branch(l, n) == {n} \cup {m \in DOMAIN input[l].nodes : Same(l, m, n)}
             expected == UNION {{Branch(l, n) : n \in DOMAIN input[l].nodes} : l \in Layers}
  <2>1. BranchesAreLevels <=> (Len(reports) = 4 => branches = expected \ {{n} : n \in Ids})
    BY DEF BranchesAreLevels
  <2>2. \A l, n : Branch(l, n) = BranchOf(input, l, n)
    BY DEF BranchOf, Together
  <2> HIDE DEF Branch
  <2>3. expected = UNION {{BranchOf(input, l, n) : n \in DOMAIN input[l].nodes} : l \in Layers}
    BY <2>2
  <2> HIDE DEF expected
  <2>4. input \in Inputs /\ (Len(reports) = 4 => branches = ParallelBranches(input))
    BY <1>1 DEF IInv
  <2>5. ParallelBranches(input) = (UNION {{BranchOf(input, l, n) : n \in DOMAIN input[l].nodes} : l \in Layers}) \ {{n} : n \in Ids}
    BY <2>4, BranchesAre
  <2> QED BY <2>1, <2>3, <2>4, <2>5
<1> QED BY <1>1, Invariant, PTL
=============================================================================
