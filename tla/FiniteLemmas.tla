---------------------------- MODULE FiniteLemmas ----------------------------
(***************************************************************************)
(* Facts about numbers, finite sets and finite graphs that the proofs of   *)
(* several components rest on: least and greatest elements, induction over *)
(* numbers and over finite sets in the form of a statement about sets, and *)
(* what the recursive closure of a graph is.                               *)
(***************************************************************************)
EXTENDS FiniteSetsExt, FiniteSetTheorems, Digraphs, TLAPS

\* Every set of naturals that is not empty has a least element.
LEMMA NatLeast ==
    ASSUME NEW S \in SUBSET Nat, S # {}
    PROVE  \E m \in S : \A n \in S : m <= n
<1>1. PICK m \in S : \A n \in S : ~(<<n, m>> \in OpToRel(<, Nat))
  BY NatLessThanWellFounded, WFMin, Zenon
<1>2. \A n \in S : ~(n < m)
  BY <1>1 DEF OpToRel
<1> QED BY <1>2

\* Induction over the naturals: a set of naturals that has 0 and every successor of its
\* members has them all.
LEMMA NatsBySuccessor ==
    ASSUME NEW S \in SUBSET Nat, 0 \in S, \A n \in S : n + 1 \in S
    PROVE  S = Nat
<1> SUFFICES ASSUME Nat \ S # {} PROVE FALSE
  OBVIOUS
<1>1. PICK m \in Nat \ S : \A n \in Nat \ S : m <= n
  BY NatLeast
<1>2. m - 1 \in Nat /\ m - 1 \in S
  BY <1>1
<1> QED BY <1>1, <1>2

\* Min() of a set of naturals.
LEMMA MinOfNats ==
    ASSUME NEW S \in SUBSET Nat, S # {}
    PROVE  Min(S) \in S /\ \A n \in S : Min(S) <= n
BY NatLeast DEF Min

\* Min() of two naturals.
LEMMA MinOfTwo ==
    ASSUME NEW a \in Nat, NEW b \in Nat
    PROVE  Min({a, b}) = IF a <= b THEN a ELSE b
<1>1. {a, b} \in SUBSET Nat /\ {a, b} # {}
  OBVIOUS
<1>2. Min({a, b}) \in {a, b} /\ \A n \in {a, b} : Min({a, b}) <= n
  BY <1>1, MinOfNats
<1> QED BY <1>2

\* Induction over the subsets of a finite set: a set of them that has the empty set and,
\* with a set, every larger one by an element, has the whole set.
LEMMA SubsetsByElement ==
    ASSUME NEW S, IsFiniteSet(S), NEW P \in SUBSET SUBSET S,
           {} \in P, \A T \in P, x \in S : T \cup {x} \in P
    PROVE  S \in P
<1> SUFFICES ASSUME S \notin P PROVE FALSE
  OBVIOUS
<1> DEFINE bad == (SUBSET S) \ P
<1>1. bad \subseteq FiniteSubsetsOf(S) /\ S \in bad
  BY FS_FiniteSubsetsOfFinite
<1>2. PICK T \in bad : \A U \in bad : <<U, T>> \notin StrictSubsetOrdering(S)
  <2> HIDE DEF bad
  <2>1. IsWellFoundedOn(StrictSubsetOrdering(S), FiniteSubsetsOf(S))
    BY FS_StrictSubsetOrderingWellFounded
  <2> QED BY <1>1, <2>1, WFMin
<1>3. PICK x \in T : TRUE
  OBVIOUS
<1>4. T \ {x} \in P
  <2> DEFINE U == T \ {x}
  <2>1. U \in SUBSET S /\ U \subseteq T /\ x \notin U
    OBVIOUS
  <2> HIDE DEF U
  <2>2. <<U, T>> \in StrictSubsetOrdering(S)
    BY <2>1, <1>3 DEF StrictSubsetOrdering
  <2> QED BY <1>2, <2>1, <2>2 DEF U
<1>5. (T \ {x}) \cup {x} = T
  BY <1>3
<1> QED BY <1>3, <1>4, <1>5

\* Every finite set of integers that is not empty has a greatest element, Max().
LEMMA MaxOfFinite ==
    ASSUME NEW S \in SUBSET Int, IsFiniteSet(S), S # {}
    PROVE  Max(S) \in S /\ \A n \in S : Max(S) >= n
<1> DEFINE P == {T \in SUBSET S : T = {} \/ \E m \in T : \A n \in T : m >= n}
<1>1. \A T \in P, x \in S : T \cup {x} \in P
  <2> SUFFICES ASSUME NEW T \in P, NEW x \in S PROVE T \cup {x} \in P
    OBVIOUS
  <2>1. CASE T = {}
    BY <2>1
  <2>2. CASE \E m \in T : \A n \in T : m >= n
    <3>1. PICK m \in T : \A n \in T : m >= n
      BY <2>2
    <3>2. CASE m >= x
      BY <3>1, <3>2
    <3>3. CASE x >= m
      <4>1. \A n \in T \cup {x} : x >= n
        BY <3>1, <3>3
      <4> QED BY <4>1
    <3> QED BY <3>2, <3>3
  <2> QED BY <2>1, <2>2
<1>2. S \in P
  <2>1. {} \in P /\ P \in SUBSET SUBSET S
    OBVIOUS
  <2> HIDE DEF P
  <2> QED BY <1>1, <2>1, SubsetsByElement
<1>3. \E m \in S : \A n \in S : m >= n
  BY <1>2
<1> QED BY <1>3 DEF Max

\* Every set of subsets of a finite set that is not empty has a greatest member in the
\* sense that no other contains it.
LEMMA MaximalSubset ==
    ASSUME NEW S, IsFiniteSet(S), NEW P \in SUBSET SUBSET S, P # {}
    PROVE  \E T \in P : \A U \in P : T \subseteq U => U = T
<1> DEFINE rests == {T \in SUBSET S : S \ T \in P}
<1>1. rests \subseteq FiniteSubsetsOf(S)
  BY FS_FiniteSubsetsOfFinite
<1>2. rests # {}
  <2>1. PICK T \in P : TRUE
    OBVIOUS
  <2>2. S \ (S \ T) = T /\ S \ T \in SUBSET S
    OBVIOUS
  <2> QED BY <2>2
<1>3. PICK R \in rests : \A Q \in rests : <<Q, R>> \notin StrictSubsetOrdering(S)
  <2> HIDE DEF rests
  <2>1. IsWellFoundedOn(StrictSubsetOrdering(S), FiniteSubsetsOf(S))
    BY FS_StrictSubsetOrderingWellFounded
  <2> QED BY <1>1, <1>2, <2>1, WFMin
<1>4. ASSUME NEW U \in P, S \ R \subseteq U, U # S \ R PROVE FALSE
  <2> DEFINE Q == S \ U
  <2>1. Q \in SUBSET S /\ R \in SUBSET S /\ S \ Q \in P /\ Q \subseteq R /\ Q # R
    BY <1>4
  <2> HIDE DEF Q
  <2>2. Q \in rests
    BY <2>1
  <2>3. <<Q, R>> \in StrictSubsetOrdering(S)
    BY <2>1 DEF StrictSubsetOrdering
  <2> QED BY <1>3, <2>2, <2>3
<1> QED BY <1>4

-------------------------------------------------------------------------------
(* Closed sets, and the least one around a set.                            *)

IsClosed(edges, C) == \A e \in edges : e[1] \in C => e[2] \in C
LeastClosed(edges, ids, S) ==
  {m \in ids : \A C \in SUBSET ids : S \subseteq C /\ IsClosed(edges, C) => m \in C}
OneStep(edges, S) == S \cup UNION {Successors(edges, m) : m \in S}

LEMMA OneStepIs ==
  ASSUME NEW ids, NEW edges, \A e \in edges : e[2] \in ids, NEW S \in SUBSET ids
  PROVE  /\ OneStep(edges, S) \in SUBSET ids /\ S \subseteq OneStep(edges, S)
         /\ OneStep(edges, S) = S <=> IsClosed(edges, S)
         /\ \A C \in SUBSET ids : S \subseteq C /\ IsClosed(edges, C) => OneStep(edges, S) \subseteq C
<1>1. \A n : n \in OneStep(edges, S) <=> n \in S \/ \E e \in edges : e[1] \in S /\ e[2] = n
  BY DEF OneStep, Successors
<1> QED BY <1>1 DEF IsClosed

LEMMA LeastIsClosed ==
  ASSUME NEW ids, NEW edges, \A e \in edges : e[2] \in ids, NEW S \in SUBSET ids
  PROVE  /\ LeastClosed(edges, ids, S) \in SUBSET ids
         /\ S \subseteq LeastClosed(edges, ids, S)
         /\ IsClosed(edges, LeastClosed(edges, ids, S))
         /\ \A C \in SUBSET ids : S \subseteq C /\ IsClosed(edges, C) => LeastClosed(edges, ids, S) \subseteq C
BY DEF LeastClosed, IsClosed

LEMMA LeastByStep ==
  ASSUME NEW ids, NEW edges, \A e \in edges : e[2] \in ids, NEW S \in SUBSET ids
  PROVE  LeastClosed(edges, ids, S) =
           IF OneStep(edges, S) = S THEN S ELSE LeastClosed(edges, ids, OneStep(edges, S))
<1> DEFINE T == OneStep(edges, S)
<1>1. T \in SUBSET ids /\ S \subseteq T /\ (T = S <=> IsClosed(edges, S))
  BY OneStepIs
<1>2. \A C \in SUBSET ids : S \subseteq C /\ IsClosed(edges, C) => T \subseteq C
  BY OneStepIs
<1> HIDE DEF T
<1>3. CASE T = S
  <2>1. IsClosed(edges, S) /\ OneStep(edges, S) = S
    BY <1>1, <1>3 DEF T
  <2>2. LeastClosed(edges, ids, S) \subseteq S /\ S \subseteq LeastClosed(edges, ids, S)
    BY <2>1, LeastIsClosed
  <2> QED BY <2>1, <2>2
<1>4. CASE T # S
  BY <1>1, <1>2, <1>4 DEF LeastClosed, T
<1> QED BY <1>3, <1>4

\* The recursion ends, in the least closed set.
LEMMA ClosureIsLeast ==
  ASSUME NEW ids, IsFiniteSet(ids), NEW edges, \A e \in edges : e[2] \in ids, NEW S \in SUBSET ids
  PROVE  Closure(edges, ids)[S] = LeastClosed(edges, ids, S)
<1> DEFINE Recurses(F) == F = [U \in SUBSET ids |-> IF OneStep(edges, U) = U THEN U ELSE F[OneStep(edges, U)]]
           least == [U \in SUBSET ids |-> LeastClosed(edges, ids, U)]
           F == Closure(edges, ids)
<1>1. Closure(edges, ids) = CHOOSE G : Recurses(G)
  BY DEF Closure, OneStep
<1>2. Recurses(least)
  <2>1. \A U \in SUBSET ids : OneStep(edges, U) \in SUBSET ids
    BY OneStepIs
  <2>2. \A U \in SUBSET ids : LeastClosed(edges, ids, U) =
          IF OneStep(edges, U) = U THEN U ELSE LeastClosed(edges, ids, OneStep(edges, U))
    BY LeastByStep
  <2> QED BY <2>1, <2>2
<1>3. Recurses(F)
  BY <1>1, <1>2
<1>4. \A U \in SUBSET ids : F[U] = IF OneStep(edges, U) = U THEN U ELSE F[OneStep(edges, U)]
  BY <1>3
<1> DEFINE bad == {U \in SUBSET ids : F[U] # LeastClosed(edges, ids, U)}
<1> HIDE DEF Recurses, F
<1>5. bad = {}
  <2> SUFFICES ASSUME bad # {} PROVE FALSE
    OBVIOUS
  <2>1. PICK U \in bad : \A V \in bad : U \subseteq V => V = U
    <3>1. bad \in SUBSET SUBSET ids
      OBVIOUS
    <3> HIDE DEF bad
    <3> QED BY <3>1, MaximalSubset
  <2>2. U \in SUBSET ids /\ F[U] # LeastClosed(edges, ids, U)
    OBVIOUS
  <2>3. OneStep(edges, U) \in SUBSET ids /\ U \subseteq OneStep(edges, U)
    BY <2>2, OneStepIs
  <2>4. OneStep(edges, U) # U
    BY <1>4, <2>2, LeastByStep
  <2>5. OneStep(edges, U) \notin bad
    BY <2>1, <2>3, <2>4
  <2> QED BY <1>4, <2>2, <2>3, <2>4, <2>5, LeastByStep
<1> QED BY <1>5 DEF F

\* What can be reached from a node is closed, and in every closed set that has the node.
LEMMA ReachableFacts ==
  ASSUME NEW ids, IsFiniteSet(ids), NEW edges, \A e \in edges : e[2] \in ids, NEW n \in ids
  PROVE  LET reached == Closure(edges, ids)[{n}]
         IN  /\ reached \in SUBSET ids /\ n \in reached /\ IsClosed(edges, reached)
             /\ \A C \in SUBSET ids : n \in C /\ IsClosed(edges, C) => reached \subseteq C
<1>1. {n} \in SUBSET ids
  OBVIOUS
<1>2. Closure(edges, ids)[{n}] = LeastClosed(edges, ids, {n})
  BY <1>1, ClosureIsLeast
<1> QED BY <1>1, <1>2, LeastIsClosed
=============================================================================
