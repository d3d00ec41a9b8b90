---------------------------- MODULE OkfIndexProofs ----------------------------
(***************************************************************************)
(* What the OKF index promises for any bundles, repositories and           *)
(* embedders, and however often a process crashes or reopens the file.     *)
(*                                                                         *)
(* The invariant CurrentIndexed is not inductive: that the vectors of a    *)
(* file have one embedder needs the connection's, the one on record and    *)
(* the vectors of the file to be tied together through the two             *)
(* transactions of the constructor.                                        *)
(***************************************************************************)
EXTENDS OkfIndex, FiniteLemmas

\* The concept table is finite and its row ids are positive, so that there is a next one.
RowsNumbered ==
  /\ IsFiniteSet(DOMAIN rows)
  /\ \A id \in DOMAIN rows : rows[id].rowid \in Nat \ {0}

\* A connection has an embedder, and the one on record once the constructor is done; there
\* are no vectors before an embedder is on record.
OneEmbedder ==
  /\ conn \in {Closed} \cup [phase : {"created", "open"}, embed : Embedders]
  /\ conn.phase = "open" => conn.embed = meta
  /\ meta \in Embedders \cup {NoEmbedder}
  /\ meta = NoEmbedder => DOMAIN vec = {}

\* The inductive invariant.
IInv == RowsNumbered /\ OneEmbedder /\ CurrentIndexed

\* The row ids in use are finitely many.
LEMMA RowIdsFinite ==
  ASSUME RowsNumbered
  PROVE  IsFiniteSet({rows[id].rowid : id \in DOMAIN rows})
<1> DEFINE used == {rows[id].rowid : id \in DOMAIN rows}
           f == [id \in DOMAIN rows |-> rows[id].rowid]
<1>1. f \in Surjection(DOMAIN rows, used)
  BY DEF Surjection
<1> QED BY <1>1, FS_Surjection DEF RowsNumbered

\* The row id write() gives to a concept is positive and above every row id in use.
LEMMA NextRowIdIsNew ==
  ASSUME RowsNumbered
  PROVE  /\ NextRowId \in Nat \ {0}
         /\ \A id \in DOMAIN rows : rows[id].rowid < NextRowId
<1> DEFINE used == {rows[id].rowid : id \in DOMAIN rows}
           S == {0} \cup used
<1>2. IsFiniteSet(used)
  BY RowIdsFinite
<1>3. IsFiniteSet(S) /\ S \in SUBSET Nat /\ 0 \in S
  <2>1. IsFiniteSet({0})
    BY FS_Singleton
  <2>2. IsFiniteSet({0} \cup used)
    BY <1>2, <2>1, FS_Union
  <2> QED BY <2>2 DEF RowsNumbered
<1>4. /\ \A id \in DOMAIN rows : rows[id].rowid \in S
      /\ NextRowId = Max(S) + 1
  BY DEF NextRowId
<1> HIDE DEF S
<1>5. Max(S) \in S /\ \A n \in S : Max(S) >= n
  BY <1>3, MaxOfFinite
<1>6. Max(S) \in Nat
  BY <1>3, <1>5
<1>7. \A id \in DOMAIN rows : rows[id].rowid \in Nat /\ rows[id].rowid <= Max(S)
  BY <1>4, <1>5 DEF RowsNumbered
<1> HIDE DEF used
<1> QED BY <1>4, <1>6, <1>7

LEMMA InitSatisfiesIInv == Init => IInv
<1> SUFFICES ASSUME Init PROVE IInv
  OBVIOUS
<1>1. DOMAIN rows = {} /\ DOMAIN vec = {}
  BY DEF Init, Empty
<1> QED BY <1>1, FS_EmptySet DEF Init, Closed, IInv, RowsNumbered, OneEmbedder, CurrentIndexed

LEMMA WriteKeepsIInv ==
  ASSUME IInv, Write
  PROVE  IInv'
<1> USE DEF IInv
<1> DEFINE c == Head(pending)
           n == NextRowId
<1>1. /\ conn.phase = "open"
      /\ rows' = With(rows, c.id, [rowid |-> n, doc |-> c])
      /\ fts' = With(fts, n, c)
      /\ vec' = [r \in (DOMAIN vec \ {n}) \cup {k \in {n} : HasText(c)} |->
                   IF r = n THEN [doc |-> c, embed |-> conn.embed] ELSE vec[r]]
      /\ UNCHANGED <<meta, conn>>
  BY DEF Write
<1>2. n \in Nat \ {0} /\ \A id \in DOMAIN rows : rows[id].rowid \in Nat /\ rows[id].rowid < n
  BY NextRowIdIsNew DEF RowsNumbered
<1> HIDE DEF n, c
<1>3. /\ DOMAIN rows' = DOMAIN rows \cup {c.id}
      /\ \A id \in DOMAIN rows' :
            rows'[id] = IF id = c.id THEN [rowid |-> n, doc |-> c] ELSE rows[id]
  BY <1>1 DEF With
<1>4. /\ DOMAIN fts' = DOMAIN fts \cup {n}
      /\ \A r \in DOMAIN fts' : fts'[r] = IF r = n THEN c ELSE fts[r]
  BY <1>1 DEF With
<1>5. /\ n \in DOMAIN vec' <=> HasText(c)
      /\ \A r : r # n => (r \in DOMAIN vec' <=> r \in DOMAIN vec)
      /\ \A r \in DOMAIN vec' : vec'[r] = IF r = n THEN [doc |-> c, embed |-> conn.embed] ELSE vec[r]
  BY <1>1
<1>6. RowsNumbered'
  BY <1>2, <1>3, FS_AddElement DEF RowsNumbered
<1>7. conn.embed = meta /\ meta \in Embedders
  BY <1>1 DEF OneEmbedder, Closed
<1>8. OneEmbedder'
  BY <1>1, <1>7, IndexAssumption DEF OneEmbedder, Closed
<1>9. ASSUME NEW id \in DOMAIN rows'
      PROVE  LET r == rows'[id].rowid
             IN  /\ \A k \in DOMAIN rows' : rows'[k].rowid = r => k = id
                 /\ rows'[id].doc.id = id
                 /\ r \in DOMAIN fts' /\ fts'[r] = rows'[id].doc
                 /\ r \in DOMAIN vec' <=> HasText(rows'[id].doc)
                 /\ r \in DOMAIN vec' => vec'[r].doc = rows'[id].doc
  <2>1. CASE id = c.id
    BY <1>2, <1>3, <1>4, <1>5, <2>1
  <2>2. CASE id # c.id
    <3>1. id \in DOMAIN rows /\ rows'[id] = rows[id] /\ rows[id].rowid # n
      BY <1>2, <1>3, <2>2
    <3>2. /\ \A k \in DOMAIN rows : rows[k].rowid = rows[id].rowid => k = id
          /\ rows[id].doc.id = id
          /\ rows[id].rowid \in DOMAIN fts /\ fts[rows[id].rowid] = rows[id].doc
          /\ rows[id].rowid \in DOMAIN vec <=> HasText(rows[id].doc)
          /\ rows[id].rowid \in DOMAIN vec => vec[rows[id].rowid].doc = rows[id].doc
      BY <3>1 DEF CurrentIndexed, RowOf
    <3> HIDE DEF IInv
    <3> QED BY <1>3, <1>4, <1>5, <3>1, <3>2
  <2> QED BY <2>1, <2>2
<1>10. \A r \in DOMAIN vec' : vec'[r].embed = meta
  BY <1>5, <1>7 DEF CurrentIndexed
<1>11. \A id \in DOMAIN rows' : {k \in DOMAIN rows' : rows'[k].rowid = rows'[id].rowid} = {id}
  <2> TAKE id \in DOMAIN rows'
  <2>1. \A k \in DOMAIN rows' : rows'[k].rowid = rows'[id].rowid => k = id
    BY <1>9
  <2> QED BY <2>1
<1>12. CurrentIndexed'
  <2> HIDE DEF IInv
  <2> QED BY <1>1, <1>9, <1>10, <1>11 DEF CurrentIndexed, RowOf, HasText
<1> QED BY <1>6, <1>8, <1>12

LEMMA StepKeepsIInv == IInv /\ [Next]_vars => IInv'
<1> SUFFICES ASSUME IInv, [Next]_vars PROVE IInv'
  OBVIOUS
<1> USE DEF IInv
<1>1. CASE Write
  BY <1>1, WriteKeepsIInv
<1>2. ASSUME NEW e \in Embedders, InitVectorColumn(e) PROVE IInv'
  <2>1. RowsNumbered' /\ CurrentIndexed'
    BY <1>2 DEF InitVectorColumn, RowsNumbered, CurrentIndexed, RowOf
  <2>2. OneEmbedder'
    BY <1>2 DEF InitVectorColumn, OneEmbedder
  <2> QED BY <2>1, <2>2
<1>3. CASE VerifyOrInitMeta
  <2>1. RowsNumbered'
    BY <1>3 DEF VerifyOrInitMeta, RowsNumbered
  <2>2. OneEmbedder' /\ (DOMAIN vec # {} => meta' = meta)
    BY <1>3 DEF VerifyOrInitMeta, OneEmbedder, Accepts, Closed
  <2>3. CurrentIndexed'
    BY <1>3, <2>2 DEF VerifyOrInitMeta, CurrentIndexed, RowOf
  <2> QED BY <2>1, <2>2, <2>3
<1>4. CASE Close \/ Crash
  <2>1. RowsNumbered' /\ CurrentIndexed'
    BY <1>4 DEF Close, Crash, db, RowsNumbered, CurrentIndexed, RowOf
  <2>2. OneEmbedder'
    BY <1>4 DEF Close, Crash, db, OneEmbedder, Closed
  <2> QED BY <2>1, <2>2
<1>5. CASE EditFiles \/ IndexBundle \/ IngestGraph \/ WriteFails \/ UNCHANGED vars
  <2>1. UNCHANGED <<db, conn>>
    BY <1>5 DEF EditFiles, IndexBundle, IngestGraph, WriteFails, vars
  <2> QED BY <2>1 DEF db, RowsNumbered, OneEmbedder, CurrentIndexed, RowOf
<1> QED BY <1>1, <1>2, <1>3, <1>4, <1>5 DEF Next

\* The inductive invariant holds in every reachable state.
THEOREM Safety == Spec => []IInv
BY InitSatisfiesIInv, StepKeepsIInv, PTL DEF Spec

\* Every concept has one row with its present text and vector, and all vectors are by the
\* embedder on record: write(), _init_vector_column(), _verify_or_init_meta(), crashes.
THEOREM Indexed == Spec => []CurrentIndexed
<1>1. IInv => CurrentIndexed
  BY DEF IInv
<1> QED BY <1>1, Safety, PTL

-------------------------------------------------------------------------------
(* What a read returns *)

LEMMA FetchLimitCovers ==
  ASSUME NEW top \in 1 .. 2
  PROVE  FetchLimit(top) \in Nat /\ FetchLimit(top) >= top
<1> DEFINE most == FetchFactor * top
           S == {most, FetchFloor}
<1>1. most \in Nat /\ most >= top
  <2>1. CASE top = 1
    BY <2>1, IndexAssumption
  <2>2. CASE top = 2
    BY <2>2, IndexAssumption
  <2> QED BY <2>1, <2>2
<1>2. S \in SUBSET Int /\ IsFiniteSet(S) /\ S # {} /\ S \subseteq Nat
  <2> HIDE DEF most
  <2>1. IsFiniteSet({most}) /\ IsFiniteSet({FetchFloor})
    BY FS_Singleton
  <2>2. IsFiniteSet({most} \cup {FetchFloor})
    BY <2>1, FS_Union
  <2>3. S = {most} \cup {FetchFloor}
    OBVIOUS
  <2> QED BY <1>1, <2>2, <2>3, IndexAssumption
<1>3. most \in S /\ FetchLimit(top) = Max(S)
  BY DEF FetchLimit
<1> HIDE DEF S, most
<1>4. Max(S) \in S /\ Max(S) >= most
  BY <1>2, <1>3, MaxOfFinite
<1>5. Max(S) \in Nat
  BY <1>2, <1>4
<1> QED BY <1>1, <1>3, <1>4, <1>5

\* A row id names one concept at most, whose present text the full-text table has.
LEMMA RowOfId ==
  ASSUME IInv, NEW r, NEW id \in RowOf(r)
  PROVE  /\ id \in DOMAIN rows /\ rows[id].rowid = r /\ RowOf(r) = {id}
         /\ r \in DOMAIN fts /\ fts[r] = rows[id].doc /\ rows[id].doc.id = id
BY DEF IInv, CurrentIndexed, RowOf

\* The best of a read are full-text candidates, or vector candidates that pass the filter.
LEMMA BestAreCandidates ==
  ASSUME NEW query, NEW vectors, NEW top, NEW type, NEW tag,
         NEW best \in Hybrid(query, vectors, top, type, tag), NEW r \in best
  PROVE  \/ r \in FtsCandidates(query, type, tag)
         \/ vectors # {} /\ Filtered(r, type, tag)
<1> DEFINE C == FtsCandidates(query, type, tag)
           found == Best(FetchLimit(top), C)
           near == {VectorCandidates(S, type, tag) : S \in Best(FetchLimit(top), vectors)}
<1>1. PICK F \in found, V \in near : best \in Best(top, F \cup V)
  <2>1. \E FV \in found \X near : best \in Best(top, FV[1] \cup FV[2])
    BY DEF Hybrid
  <2> HIDE DEF found, near
  <2> QED BY <2>1
<1>2. F \subseteq C /\ best \subseteq F \cup V
  BY <1>1 DEF Best, kSubset
<1>3. \A v \in V : vectors # {} /\ Filtered(v, type, tag)
  BY <1>1 DEF VectorCandidates, Best, kSubset
<1> HIDE DEF C
<1> QED BY <1>2, <1>3 DEF C

LEMMA HitsAreRows ==
  ASSUME NEW query, NEW vectors, NEW top, NEW type, NEW tag,
         NEW hits \in Read(query, vectors, top, type, tag), NEW d \in hits
  PROVE  \E r, id : /\ id \in RowOf(r) /\ d = rows[id].doc
                    /\ \/ r \in FtsCandidates(query, type, tag)
                       \/ vectors # {} /\ Filtered(r, type, tag)
<1>1. PICK best \in Hybrid(query, vectors, top, type, tag) : hits = HitsOf(best)
  BY DEF Read
<1>2. PICK r \in best : \E id \in RowOf(r) : d = rows[id].doc
  BY <1>1 DEF HitsOf, Found
<1> QED BY <1>2, BestAreCandidates

\* A keyword read returns only concepts whose present text has the words.
LEMMA KeywordHits ==
  ASSUME IInv, NEW query, NEW top, NEW type, NEW tag,
         NEW hits \in Read(query, {}, top, type, tag), NEW d \in hits
  PROVE  d \in Docs /\ query \subseteq d.text
<1>1. PICK r, id : /\ id \in RowOf(r) /\ d = rows[id].doc
                   /\ r \in FtsCandidates(query, type, tag)
  BY HitsAreRows
<1> QED BY <1>1, RowOfId DEF FtsCandidates, Docs

\* A filtered read returns only concepts that pass the filter.
LEMMA FilteredHits ==
  ASSUME IInv, NEW query, NEW vectors, NEW top, NEW type, NEW tag,
         <<type, tag>> # <<Unset, Unset>>,
         NEW hits \in Read(query, vectors, top, type, tag), NEW d \in hits
  PROVE  type \in {Unset, d.type} /\ tag \in {Unset} \cup d.tags
<1>1. PICK r, id : /\ id \in RowOf(r) /\ d = rows[id].doc
                   /\ \/ r \in FtsCandidates(query, type, tag)
                      \/ vectors # {} /\ Filtered(r, type, tag)
  BY HitsAreRows
<1>2. Filtered(r, type, tag)
  BY <1>1 DEF FtsCandidates
<1>3. RowOf(r) = {id}
  BY <1>1, RowOfId
<1> QED BY <1>1, <1>2, <1>3 DEF Filtered

\* A read by type returns as many matches as there are, or as it was asked for.
LEMMA TypedHits ==
  ASSUME IInv, NEW query, query # {}, NEW top \in 1 .. 2, NEW type, type # Unset,
         NEW hits \in Read(query, {}, top, type, Unset)
  PROVE  Cardinality(hits) = Min({top, Cardinality(Matching(query, type))})
<1> DEFINE matching == Matching(query, type)
           C == FtsCandidates(query, type, Unset)
           limit == FetchLimit(top)
<1>1. \A r \in C : /\ r \in DOMAIN fts /\ fts[r] \in matching
                   /\ \E id \in DOMAIN rows : rows[id].rowid = r
                   /\ RowOf(r) = {fts[r].id} /\ rows[fts[r].id].doc = fts[r]
  <2> TAKE r \in C
  <2>1. Filtered(r, type, Unset) /\ query \subseteq fts[r].text
    BY DEF FtsCandidates
  <2>2. PICK id \in RowOf(r) : type \in {Unset, rows[id].doc.type}
    BY <2>1 DEF Filtered
  <2>3. /\ id \in DOMAIN rows /\ rows[id].rowid = r /\ RowOf(r) = {id}
        /\ r \in DOMAIN fts /\ fts[r] = rows[id].doc /\ rows[id].doc.id = id
    BY RowOfId
  <2>4. fts[r] \in Docs /\ fts[r].type = type
    BY <2>2, <2>3 DEF Docs
  <2> HIDE DEF C
  <2>5. fts[r] \in matching
    BY <2>1, <2>4 DEF Matching
  <2> HIDE DEF matching
  <2> QED BY <2>1, <2>3, <2>4, <2>5
<1>2. \A d \in matching : \E r \in C : fts[r] = d
  <2> TAKE d \in matching
  <2>1. PICK id \in DOMAIN rows : d = rows[id].doc
    BY DEF Docs, Matching
  <2>2. id \in RowOf(rows[id].rowid)
    BY DEF RowOf
  <2>3. rows[id].rowid \in DOMAIN fts /\ fts[rows[id].rowid] = d
    BY <2>1, <2>2 DEF IInv, CurrentIndexed
  <2>4. rows[id].rowid \in C
    BY <2>1, <2>2, <2>3 DEF FtsCandidates, Filtered, Matching
  <2> QED BY <2>3, <2>4
<1>3. \A r, s \in C : fts[r] = fts[s] => r = s
  <2>1. \A r \in C : fts[r].id \in RowOf(r)
    BY <1>1
  <2> HIDE DEF C
  <2> QED BY <2>1 DEF RowOf
<1>4. IsFiniteSet(C) /\ Cardinality(C) \in Nat
  <2>1. C \subseteq {rows[id].rowid : id \in DOMAIN rows}
    BY <1>1
  <2>2. IsFiniteSet(C)
    BY <2>1, RowIdsFinite, FS_Subset DEF IInv
  <2> QED BY <2>2, FS_CardinalityType
<1>5. Cardinality(matching) = Cardinality(C)
  <2> DEFINE g == [r \in C |-> fts[r]]
  <2> HIDE DEF C, matching
  <2>1. g \in Bijection(C, matching)
    BY <1>1, <1>2, <1>3 DEF Bijection, Injection, Surjection, IsInjective
  <2> QED BY <1>4, <2>1, FS_Bijection DEF ExistsBijection
<1>6. PICK best \in Hybrid(query, {}, top, type, Unset) : hits = HitsOf(best)
  BY DEF Read
<1>7. PICK F \in Best(limit, C) : best \in Best(top, F \cup {})
  <2> DEFINE near == {VectorCandidates(S, type, Unset) : S \in Best(limit, {})}
           found == Best(limit, C)
  <2>1. \E FV \in found \X near : best \in Best(top, FV[1] \cup FV[2])
    BY <1>6 DEF Hybrid
  <2>2. PICK A \in found, V \in near : best \in Best(top, A \cup V)
    <3> HIDE DEF found, near
    <3> QED BY <2>1
  <2>3. V = {}
    BY <2>2 DEF Best, kSubset, VectorCandidates
  <2> QED BY <2>2, <2>3
<1> HIDE DEF C, limit, matching
<1>8. /\ F \subseteq C /\ best \subseteq F /\ F \cup {} = F
      /\ Cardinality(F) = Min({limit, Cardinality(C)})
      /\ Cardinality(best) = Min({top, Cardinality(F \cup {})})
  BY <1>7 DEF Best, kSubset
<1>9. IsFiniteSet(best)
  BY <1>4, <1>8, FS_Subset
<1>10. Cardinality(best) = Min({top, Cardinality(C)})
  <2>0. top \in Nat
    OBVIOUS
  <2>1. limit \in Nat /\ limit >= top
    BY FetchLimitCovers DEF limit
  <2>2. Cardinality(F) = IF limit <= Cardinality(C) THEN limit ELSE Cardinality(C)
    BY <1>4, <1>8, <2>0, <2>1, MinOfTwo
  <2>3. Cardinality(best) = IF top <= Cardinality(F) THEN top ELSE Cardinality(F)
    BY <1>4, <1>8, <2>0, <2>1, <2>2, MinOfTwo
  <2>4. Min({top, Cardinality(C)}) = IF top <= Cardinality(C) THEN top ELSE Cardinality(C)
    BY <1>4, <2>0, MinOfTwo
  <2> QED BY <1>4, <2>0, <2>1, <2>2, <2>3, <2>4
<1>11. Found(best) = {fts[r] : r \in best}
  <2>1. \A r \in best : RowOf(r) = {fts[r].id} /\ rows[fts[r].id].doc = fts[r]
    BY <1>1, <1>8
  <2> QED BY <2>1 DEF Found
<1>12. hits = Found(best)
  <2>1. \A d \in Found(best) : d.type = type
    <3>1. \A r \in C : fts[r].type = type
      BY <1>1 DEF matching, Matching
    <3> QED BY <1>8, <1>11, <3>1
  <2> QED BY <1>6, <2>1 DEF HitsOf
<1>13. Cardinality(hits) = Cardinality(best)
  <2> DEFINE g == [r \in best |-> fts[r]]
  <2>1. g \in Bijection(best, hits)
    BY <1>3, <1>8, <1>11, <1>12 DEF Bijection, Injection, Surjection, IsInjective
  <2> QED BY <1>9, <2>1, FS_Bijection DEF ExistsBijection
<1> QED BY <1>5, <1>10, <1>13 DEF matching

LEMMA HitsMatchFromIInv == IInv => HitsMatch
<1> SUFFICES ASSUME IInv, NEW q \in Queries, NEW top \in 1 .. 2
             PROVE  /\ \A hits \in Read(q, {}, top, Unset, Unset) : \A d \in hits : q \subseteq d.text
                    /\ \A type \in {d.type : d \in Docs} \ {Unset} :
                         \A hits \in Read(q, {}, top, type, Unset) :
                           /\ hits \subseteq Matching(q, type)
                           /\ Cardinality(hits) = Min({top, Cardinality(Matching(q, type))})
                    /\ \A tag \in (UNION {d.tags : d \in Docs}) \ {Unset} :
                         \A hits \in Read(q, DOMAIN vec, top, Unset, tag) : \A d \in hits : tag \in d.tags
  BY DEF HitsMatch
<1>1. q # {}
  BY DEF Queries
<1>2. \A hits \in Read(q, {}, top, Unset, Unset) : \A d \in hits : q \subseteq d.text
  BY KeywordHits
<1>3. ASSUME NEW type \in {d.type : d \in Docs} \ {Unset}, NEW hits \in Read(q, {}, top, type, Unset)
      PROVE  /\ hits \subseteq Matching(q, type)
             /\ Cardinality(hits) = Min({top, Cardinality(Matching(q, type))})
  <2>1. type # Unset
    OBVIOUS
  <2>2. \A d \in hits : d \in Docs /\ q \subseteq d.text
    BY KeywordHits
  <2>3. <<type, Unset>> # <<Unset, Unset>>
    BY <2>1
  <2>4. \A d \in hits : type \in {Unset, d.type}
    BY <2>3, FilteredHits
  <2>5. hits \subseteq Matching(q, type)
    BY <2>1, <2>2, <2>4 DEF Matching
  <2> QED BY <1>1, <2>1, <2>5, TypedHits
<1>4. ASSUME NEW tag \in (UNION {d.tags : d \in Docs}) \ {Unset},
             NEW hits \in Read(q, DOMAIN vec, top, Unset, tag), NEW d \in hits
      PROVE  tag \in d.tags
  <2>1. tag # Unset /\ <<Unset, tag>> # <<Unset, Unset>>
    OBVIOUS
  <2>2. tag \in {Unset} \cup d.tags
    BY <1>4, <2>1, FilteredHits
  <2> QED BY <2>1, <2>2
<1> QED BY <1>2, <1>3, <1>4

\* Reads return only present concepts that match, as many of a type as there are or as were
\* asked for, though rows of replaced versions stay in the full-text table (_hybrid()).
THEOREM HitsAreMatches == Spec => []HitsMatch
BY HitsMatchFromIInv, Safety, PTL

-------------------------------------------------------------------------------
(***************************************************************************)
(* Links.  A path is normalised, and a link followed, by a function of the *)
(* segments read so far; both are defined, and agree where no segment is   *)
(* "..".                                                                   *)
(***************************************************************************)

\* A function on 0 .. N by recursion exists.
Recurs(N, T, a, step) == \E f \in [0 .. N -> T] : f[0] = a /\ \A n \in 1 .. N : f[n] = step[n][f[n - 1]]
LEMMA Recursion ==
  ASSUME NEW N \in Nat, NEW T, NEW a \in T, NEW step \in [1 .. N -> [T -> T]]
  PROVE  Recurs(N, T, a, step)
<1> DEFINE Upto(m) == \E f \in [0 .. m -> T] : f[0] = a /\ \A n \in 1 .. m : f[n] = step[n][f[n - 1]]
           S == {m \in Nat : m =< N => Upto(m)}
<1>1. 0 \in S
  <2>1. [n \in 0 .. 0 |-> a] \in [0 .. 0 -> T] /\ [n \in 0 .. 0 |-> a][0] = a
    OBVIOUS
  <2>2. 1 .. 0 = {}
    OBVIOUS
  <2>3. Upto(0)
    BY <2>1, <2>2, Zenon
  <2> QED BY <2>3
<1>2. ASSUME NEW m \in S PROVE m + 1 \in S
  <2> SUFFICES ASSUME m + 1 =< N PROVE Upto(m + 1)
    OBVIOUS
  <2>1. PICK f \in [0 .. m -> T] : f[0] = a /\ \A n \in 1 .. m : f[n] = step[n][f[n - 1]]
    OBVIOUS
  <2> DEFINE g == [n \in 0 .. m + 1 |-> IF n = m + 1 THEN step[n][f[n - 1]] ELSE f[n]]
  <2>2. m + 1 \in 1 .. N /\ m \in 0 .. m /\ f[m] \in T /\ step[m + 1] \in [T -> T]
    BY <2>1
  <2>3. step[m + 1][f[m]] \in T
    BY <2>2
  <2>4. g \in [0 .. m + 1 -> T]
    BY <2>1, <2>3
  <2>5. g[0] = a
    BY <2>1
  <2>6. \A n \in 1 .. m + 1 : g[n] = step[n][g[n - 1]]
    BY <2>1
  <2> QED BY <2>4, <2>5, <2>6
<1>3. N \in S
  <2>1. S \in SUBSET Nat
    OBVIOUS
  <2> HIDE DEF S
  <2>2. S = Nat
    BY <1>1, <1>2, <2>1, NatsBySuccessor
  <2> QED BY <2>2
<1> QED BY <1>3 DEF Recurs

\* The segments kept of the first n, by their recursion.
KeptOf(p, n) ==
  LET Kept[k \in 0 .. Len(p)] ==
        IF k = 0 THEN <<>> ELSE IF p[k] = "." THEN Kept[k - 1] ELSE Append(Kept[k - 1], p[k])
  IN  Kept[n]

LEMMA KeptSteps ==
  ASSUME NEW S, NEW p \in Seq(S)
  PROVE  /\ NormalisePath(p) = KeptOf(p, Len(p))
         /\ KeptOf(p, 0) = <<>>
         /\ \A n \in 1 .. Len(p) : KeptOf(p, n) = IF p[n] = "." THEN KeptOf(p, n - 1) ELSE Append(KeptOf(p, n - 1), p[n])
         /\ \A n \in 0 .. Len(p) : KeptOf(p, n) \in Seq(S)
<1> DEFINE Eq(f) == f = [k \in 0 .. Len(p) |->
                           IF k = 0 THEN <<>> ELSE IF p[k] = "." THEN f[k - 1] ELSE Append(f[k - 1], p[k])]
           step == [n \in 1 .. Len(p) |-> [s \in Seq(S) |-> IF p[n] = "." THEN s ELSE Append(s, p[n])]]
           K == CHOOSE f : Eq(f)
<1>1. step \in [1 .. Len(p) -> [Seq(S) -> Seq(S)]] /\ Len(p) \in Nat /\ <<>> \in Seq(S)
  <2>1. ASSUME NEW n \in 1 .. Len(p), NEW s \in Seq(S)
        PROVE  (IF p[n] = "." THEN s ELSE Append(s, p[n])) \in Seq(S)
    OBVIOUS
  <2> QED BY <2>1
<1>2. PICK g \in [0 .. Len(p) -> Seq(S)] : g[0] = <<>> /\ \A n \in 1 .. Len(p) : g[n] = step[n][g[n - 1]]
  <2> HIDE DEF step
  <2>1. Recurs(Len(p), Seq(S), <<>>, step)
    BY <1>1, Recursion
  <2> QED BY <2>1 DEF Recurs
<1>3. ASSUME NEW n \in 0 .. Len(p)
      PROVE  g[n] = IF n = 0 THEN <<>> ELSE IF p[n] = "." THEN g[n - 1] ELSE Append(g[n - 1], p[n])
  <2>1. CASE n = 0
    BY <2>1, <1>2
  <2>2. CASE n # 0
    <3>1. n \in 1 .. Len(p) /\ n - 1 \in 0 .. Len(p)
      BY <2>2
    <3>2. g[n - 1] \in Seq(S) /\ g[n] = step[n][g[n - 1]]
      BY <1>2, <3>1
    <3> QED BY <3>1, <3>2, <2>2
  <2> QED BY <2>1, <2>2
<1>4. Eq(g)
  BY <1>2, <1>3
<1>5. Eq(K)
  <2> HIDE DEF Eq
  <2> QED BY <1>4
<1>6. \A n \in 0 .. Len(p) : KeptOf(p, n) = K[n]
  BY DEF KeptOf
<1>7. NormalisePath(p) = K[Len(p)]
  BY DEF NormalisePath
<1> HIDE DEF K
<1>8. /\ K[0] = <<>>
      /\ \A n \in 1 .. Len(p) : K[n] = IF p[n] = "." THEN K[n - 1] ELSE Append(K[n - 1], p[n])
  <2>1. 0 \in 0 .. Len(p) /\ \A n \in 1 .. Len(p) : n \in 0 .. Len(p) /\ n # 0
    OBVIOUS
  <2> QED BY <1>5, <2>1
<1>9. \A n \in 0 .. Len(p) : K[n] \in Seq(S)
  <2> DEFINE N == {n \in Nat : n =< Len(p) => K[n] \in Seq(S)}
  <2>1. 0 \in N
    <3>1. K[0] \in Seq(S)
      BY <1>8
    <3> QED BY <3>1
  <2>2. ASSUME NEW n \in N PROVE n + 1 \in N
    <3> SUFFICES ASSUME n + 1 =< Len(p) PROVE K[n + 1] \in Seq(S)
      OBVIOUS
    <3>1. n + 1 \in 1 .. Len(p) /\ K[n] \in Seq(S) /\ p[n + 1] \in S
      OBVIOUS
    <3>2. K[n + 1] = IF p[n + 1] = "." THEN K[n] ELSE Append(K[n], p[n + 1])
      <4>1. PICK k \in 1 .. Len(p) : k = n + 1
        BY <3>1
      <4>2. k - 1 = n
        BY <4>1
      <4> QED BY <1>8, <4>1, <4>2
    <3> QED BY <3>1, <3>2
  <2>3. N \in SUBSET Nat
    OBVIOUS
  <2> HIDE DEF N
  <2>4. N = Nat
    BY <2>1, <2>2, <2>3, NatsBySuccessor
  <2> QED BY <2>4 DEF N
<1>10. 0 \in 0 .. Len(p) /\ Len(p) \in 0 .. Len(p) /\ \A n \in 1 .. Len(p) : n \in 0 .. Len(p) /\ n - 1 \in 0 .. Len(p)
  OBVIOUS
<1> QED BY <1>6, <1>7, <1>8, <1>9, <1>10

LEMMA RangeOfAppend ==
  ASSUME NEW S, NEW q \in Seq(S), NEW x \in S
  PROVE  Range(Append(q, x)) = Range(q) \cup {x}
<1> DEFINE a == Append(q, x)
<1>1. /\ DOMAIN a = 1 .. Len(q) + 1 /\ DOMAIN q = 1 .. Len(q) /\ Len(q) \in Nat
      /\ a[Len(q) + 1] = x /\ \A i \in 1 .. Len(q) : a[i] = q[i]
  OBVIOUS
<1> HIDE DEF a
<1>2. ASSUME NEW y PROVE y \in Range(a) <=> y \in Range(q) \cup {x}
  BY <1>1 DEF Range
<1> QED BY <1>2 DEF a

\* Normalising takes the "." segments away, and nothing else.
LEMMA NormalRange ==
  ASSUME NEW S, NEW p \in Seq(S)
  PROVE  NormalisePath(p) \in Seq(S) /\ Range(NormalisePath(p)) = Range(p) \ {"."}
<1> DEFINE k(n) == KeptOf(p, n)
           N == {n \in Nat : n =< Len(p) => Range(k(n)) = {p[i] : i \in 1 .. n} \ {"."}}
<1>1. 0 \in N
  <2>1. k(0) = <<>> /\ Range(<<>>) = {} /\ {p[i] : i \in 1 .. 0} = {}
    BY KeptSteps DEF Range
  <2> QED BY <2>1
<1>2. ASSUME NEW n \in N PROVE n + 1 \in N
  <2> SUFFICES ASSUME n + 1 =< Len(p) PROVE Range(k(n + 1)) = {p[i] : i \in 1 .. n + 1} \ {"."}
    OBVIOUS
  <2>1. k(n) \in Seq(S) /\ Range(k(n)) = {p[i] : i \in 1 .. n} \ {"."}
    <3>1. n \in 0 .. Len(p)
      OBVIOUS
    <3> QED BY <3>1, KeptSteps
  <2>2. k(n + 1) = IF p[n + 1] = "." THEN k(n) ELSE Append(k(n), p[n + 1])
    <3>1. PICK m \in 1 .. Len(p) : m = n + 1
      OBVIOUS
    <3>2. m - 1 = n
      BY <3>1
    <3> QED BY KeptSteps, <3>1, <3>2
  <2>3. {p[i] : i \in 1 .. n + 1} = {p[i] : i \in 1 .. n} \cup {p[n + 1]}
    OBVIOUS
  <2> HIDE DEF k
  <2>4. Range(Append(k(n), p[n + 1])) = Range(k(n)) \cup {p[n + 1]}
    <3>1. p[n + 1] \in S
      OBVIOUS
    <3> QED BY <2>1, <3>1, RangeOfAppend
  <2>5. CASE p[n + 1] = "."
    BY <2>1, <2>2, <2>3, <2>5
  <2>6. CASE p[n + 1] # "."
    BY <2>1, <2>2, <2>3, <2>4, <2>6
  <2> QED BY <2>5, <2>6
<1>3. Range(k(Len(p))) = {p[i] : i \in 1 .. Len(p)} \ {"."}
  <2>1. N \in SUBSET Nat
    OBVIOUS
  <2> HIDE DEF N
  <2>2. N = Nat
    BY <1>1, <1>2, <2>1, NatsBySuccessor
  <2>3. Len(p) \in N
    BY <2>2
  <2> QED BY <2>3 DEF N
<1>4. Range(p) = {p[i] : i \in 1 .. Len(p)}
  BY DEF Range
<1>5. NormalisePath(p) = k(Len(p)) /\ k(Len(p)) \in Seq(S)
  <2>1. Len(p) \in 0 .. Len(p)
    OBVIOUS
  <2> QED BY <2>1, KeptSteps
<1> QED BY <1>3, <1>4, <1>5

\* Where no segment of the start is ".", the start is kept as it is.
LEMMA StartIsKept ==
  ASSUME NEW S, NEW s \in Seq(S), NEW t \in Seq(S), "." \notin Range(s)
  PROVE  KeptOf(s \o t, Len(s)) = s
<1> DEFINE p == s \o t
           N == {n \in Nat : n =< Len(s) => KeptOf(p, n) = SubSeq(s, 1, n)}
<1>1. p \in Seq(S) /\ Len(s) =< Len(p) /\ \A n \in 1 .. Len(s) : p[n] = s[n] /\ s[n] # "."
  BY DEF Range
<1> HIDE DEF p
<1>2. 0 \in N
  <2>1. KeptOf(p, 0) = <<>> /\ SubSeq(s, 1, 0) = <<>>
    BY <1>1, KeptSteps
  <2> QED BY <2>1
<1>3. ASSUME NEW n \in N PROVE n + 1 \in N
  <2> SUFFICES ASSUME n + 1 =< Len(s) PROVE KeptOf(p, n + 1) = SubSeq(s, 1, n + 1)
    OBVIOUS
  <2>1. PICK m \in 1 .. Len(p) : m = n + 1 /\ m \in 1 .. Len(s)
    BY <1>1
  <2>2. KeptOf(p, m) = Append(KeptOf(p, m - 1), p[m])
    BY <1>1, <2>1, KeptSteps
  <2>3. m - 1 = n /\ KeptOf(p, n) = SubSeq(s, 1, n)
    BY <2>1
  <2>4. SubSeq(s, 1, n + 1) = Append(SubSeq(s, 1, n), s[n + 1])
    OBVIOUS
  <2> QED BY <1>1, <2>1, <2>2, <2>3, <2>4
<1>4. KeptOf(p, Len(s)) = SubSeq(s, 1, Len(s))
  <2>1. N \in SUBSET Nat
    OBVIOUS
  <2> HIDE DEF N
  <2>2. N = Nat
    BY <1>2, <1>3, <2>1, NatsBySuccessor
  <2>3. Len(s) \in N
    BY <2>2
  <2> QED BY <2>3 DEF N
<1>5. SubSeq(s, 1, Len(s)) = s
  OBVIOUS
<1> QED BY <1>4, <1>5 DEF p

\* A link without ".." leads where the normalised path does.
LEMMA FollowIsNormal ==
  ASSUME NEW S, NEW source, NEW l, l.to \in Seq(S), ".." \notin Range(l.to),
         NEW start \in Seq(S), start = IF l.form = "bundle" THEN <<>> ELSE Front(source),
         "." \notin Range(start)
  PROVE  Follow(source, l) = NormalisePath(start \o l.to)
<1> DEFINE t == l.to
           p == start \o t
           base == Len(start)
           Step(at, s) == IF s = "." THEN at
                          ELSE IF s # ".." \/ at = <<>> \/ Last(at) = ".." THEN Append(at, s)
                          ELSE Front(at)
           Eq(f) == f = [n \in 0 .. Len(t) |->
                           IF n = 0 THEN IF l.form = "bundle" THEN <<>> ELSE Front(source)
                           ELSE Step(f[n - 1], t[n])]
           h == [n \in 0 .. Len(t) |-> KeptOf(p, base + n)]
           A == CHOOSE f : Eq(f)
<1>1. /\ p \in Seq(S) /\ base \in Nat /\ Len(t) \in Nat /\ Len(p) = base + Len(t)
      /\ \A n \in 1 .. Len(t) : p[base + n] = t[n] /\ t[n] # ".."
  <2>1. t \in Seq(S) /\ ".." \notin Range(t)
    OBVIOUS
  <2> HIDE DEF t
  <2>2. /\ p \in Seq(S) /\ base \in Nat /\ Len(t) \in Nat /\ Len(p) = base + Len(t)
        /\ \A n \in 1 .. Len(t) : p[base + n] = t[n]
    BY <2>1
  <2>3. \A n \in 1 .. Len(t) : t[n] # ".."
    <3>1. DOMAIN t = 1 .. Len(t)
      BY <2>1
    <3> QED BY <2>1, <3>1 DEF Range
  <2> QED BY <2>2, <2>3
<1>2. Follow(source, l) = A[Len(t)]
  BY DEF Follow
<1> HIDE DEF p, base
<1>3. KeptOf(p, base) = start
  BY StartIsKept DEF p, base
<1>4. ASSUME NEW n \in 1 .. Len(t)
      PROVE  KeptOf(p, base + n) = IF t[n] = "." THEN KeptOf(p, base + (n - 1)) ELSE Append(KeptOf(p, base + (n - 1)), t[n])
  <2>1. PICK m \in 1 .. Len(p) : m = base + n
    BY <1>1
  <2>2. KeptOf(p, m) = IF p[m] = "." THEN KeptOf(p, m - 1) ELSE Append(KeptOf(p, m - 1), p[m])
    BY <1>1, KeptSteps
  <2>3. m - 1 = base + (n - 1)
    BY <1>1, <2>1
  <2> QED BY <1>1, <2>1, <2>2, <2>3
<1> HIDE DEF t
<1>5. Eq(h)
  <2>1. ASSUME NEW n \in 0 .. Len(t)
        PROVE  h[n] = IF n = 0 THEN IF l.form = "bundle" THEN <<>> ELSE Front(source) ELSE Step(h[n - 1], t[n])
    <3>1. CASE n = 0
      BY <1>1, <1>3, <3>1
    <3>2. CASE n # 0
      <4>1. n \in 1 .. Len(t) /\ n - 1 \in 0 .. Len(t)
        BY <1>1, <3>2
      <4>2. h[n] = KeptOf(p, base + n) /\ h[n - 1] = KeptOf(p, base + (n - 1))
        BY <4>1
      <4> QED BY <1>1, <1>4, <4>1, <4>2, <3>2
    <3> QED BY <3>1, <3>2
  <2> QED BY <2>1
<1>6. Eq(A)
  <2> HIDE DEF Eq
  <2> QED BY <1>5
<1> HIDE DEF A
<1>7. A[Len(t)] = h[Len(t)]
  <2> DEFINE N == {n \in Nat : n =< Len(t) => A[n] = h[n]}
  <2>1. 0 \in N
    <3>1. 0 \in 0 .. Len(t)
      BY <1>1
    <3>2. A[0] = IF l.form = "bundle" THEN <<>> ELSE Front(source)
      BY <1>6, <3>1
    <3>3. h[0] = IF l.form = "bundle" THEN <<>> ELSE Front(source)
      BY <1>5, <3>1
    <3> QED BY <3>2, <3>3
  <2>2. ASSUME NEW n \in N PROVE n + 1 \in N
    <3> SUFFICES ASSUME n + 1 =< Len(t) PROVE A[n + 1] = h[n + 1]
      OBVIOUS
    <3>1. PICK m \in 0 .. Len(t) : m = n + 1
      BY <1>1
    <3>2. m # 0 /\ m - 1 = n /\ A[n] = h[n]
      BY <1>1, <3>1
    <3> HIDE DEF h
    <3>3. A[m] = Step(A[m - 1], t[m])
      BY <1>6, <3>2
    <3>4. h[m] = Step(h[m - 1], t[m])
      BY <1>5, <3>2
    <3> QED BY <3>1, <3>2, <3>3, <3>4
  <2>3. N \in SUBSET Nat
    OBVIOUS
  <2> HIDE DEF N
  <2>4. N = Nat
    BY <2>1, <2>2, <2>3, NatsBySuccessor
  <2>5. Len(t) \in N
    BY <1>1, <2>4
  <2> QED BY <2>5 DEF N
<1>8. h[Len(t)] = NormalisePath(p)
  <2>1. h[Len(t)] = KeptOf(p, Len(p))
    BY <1>1
  <2> QED BY <1>1, <2>1, KeptSteps
<1> QED BY <1>2, <1>7, <1>8 DEF p, t

\* What is loaded from a directory tree: a concept for each of its files with a type, with
\* the file's links.
LEMMA Loaded ==
  ASSUME NEW dir, NEW b, b = LoadBundle(dir), NEW p \in DOMAIN b.concepts
  PROVE  p \in DOMAIN dir /\ b.concepts[p].id = p /\ b.concepts[p].links = ExtractLinks(dir[p].body)
<1> DEFINE loaded == {q \in WalkMd(dir) : ParsedType(dir[q]) # NoType}
<1>1. b.concepts = [q \in loaded |-> LoadConcept(q, dir[q])]
  BY DEF LoadBundle
<1>2. p \in loaded /\ p \in DOMAIN dir
  BY <1>1 DEF WalkMd
<1> HIDE DEF loaded
<1>3. b.concepts[p] = LoadConcept(p, dir[p])
  BY <1>1, <1>2
<1> QED BY <1>2, <1>3 DEF LoadConcept

LEMMA InternalLink ==
  ASSUME NEW b, NEW p \in DOMAIN b.concepts, NEW l \in b.concepts[p].links
  PROVE  /\ <<p, l>> \in InternalLinks(b) <=> l.form # "external"
         /\ <<p, l>> \in Edges(b) <=> l.form # "external" /\ TargetId(p, l) \in DOMAIN b.concepts
<1>1. <<p, l>> \in {p} \X b.concepts[p].links
  OBVIOUS
<1>2. <<p, l>> \in UNION {{q} \X b.concepts[q].links : q \in DOMAIN b.concepts}
  BY <1>1
<1>3. <<p, l>>[1] = p /\ <<p, l>>[2] = l
  OBVIOUS
<1>4. <<p, l>> \in InternalLinks(b) <=> l.form # "external"
  BY <1>2, <1>3 DEF InternalLinks
<1> QED BY <1>3, <1>4 DEF Edges

LEMMA InternalLinksAre ==
  ASSUME NEW b, NEW e \in InternalLinks(b)
  PROVE  \E p \in DOMAIN b.concepts : \E l \in b.concepts[p].links : e = <<p, l>> /\ l.form # "external"
BY DEF InternalLinks

\* The range of a concatenation has that of its second part.
LEMMA RangeOfSecond ==
  ASSUME NEW S, NEW s \in Seq(S), NEW t \in Seq(S), NEW x \in Range(t)
  PROVE  x \in Range(s \o t)
<1>1. PICK i \in 1 .. Len(t) : x = t[i]
  BY DEF Range
<1>2. /\ Len(s) + i \in DOMAIN (s \o t)
      /\ (s \o t)[Len(s) + i] = x
  BY <1>1
<1> QED BY <1>2 DEF Range

\* The directory of a path has no segment that the path has not.
LEMMA FrontOf ==
  ASSUME NEW S, NEW p \in Seq(S), p # <<>>
  PROVE  /\ Front(p) \in Seq(S) /\ Range(Front(p)) \subseteq Range(p)
         /\ Last(p) \in S
<1>1. /\ Front(p) \in Seq(S) /\ Len(Front(p)) = Len(p) - 1 /\ Len(p) \in Nat \ {0}
      /\ \A i \in 1 .. Len(p) - 1 : Front(p)[i] = p[i]
  <2>1. Len(p) \in Nat \ {0}
    OBVIOUS
  <2>2. /\ SubSeq(p, 1, Len(p) - 1) \in Seq(S) /\ Len(SubSeq(p, 1, Len(p) - 1)) = Len(p) - 1
        /\ \A i \in 1 .. Len(p) - 1 : SubSeq(p, 1, Len(p) - 1)[i] = p[i]
    BY <2>1
  <2> QED BY <2>1, <2>2, Zenon DEF Front
<1>2. \A i \in DOMAIN Front(p) : i \in DOMAIN p /\ Front(p)[i] = p[i]
  BY <1>1
<1> QED BY <1>1, <1>2 DEF Range, Last

\* What is looked up for a link is a loaded file only if it is the one that the link names, and it is
\* the one that the link names unless that is written with ".." or an anchor.
LEMMA EdgeIsFollowed ==
  ASSUME NEW dir \in Directories, NEW b, b = LoadBundle(dir),
         NEW p \in DOMAIN b.concepts, NEW l \in b.concepts[p].links, l.form # "external"
  PROVE  /\ TargetId(p, l) \in DOMAIN b.concepts => TargetId(p, l) = Follow(p, l)
         /\ l.suffix # "#" /\ ".." \notin Range(l.to) => TargetId(p, l) = Follow(p, l)
<1>1. /\ p \in Seq(STRING) /\ p # <<>> /\ "." \notin Range(p)
      /\ l.to \in Seq(STRING) /\ l.to # <<>>
  <2>1. p \in DOMAIN dir /\ l \in ExtractLinks(dir[p].body)
    BY Loaded
  <2>2. /\ p \in Seq(STRING) /\ p # <<>> /\ {".", ".."} \cap Range(p) = {}
        /\ l \in Link /\ l.to # <<>>
    BY <2>1, DirectoriesAssumption
  <2>3. l.to \in Seq(STRING)
    BY <2>2 DEF Link
  <2> QED BY <2>2, <2>3
<1>2. ASSUME NEW q \in DOMAIN b.concepts
      PROVE  ".." \notin Range(q) /\ Last(l.to) \o "#" \notin {"."} \cup Range(q)
  <2>1. p \in DOMAIN dir /\ l \in ExtractLinks(dir[p].body)
    BY Loaded
  <2>2. q \in DOMAIN dir
    BY Loaded
  <2>3. {".", ".."} \cap Range(q) = {}
    BY <2>2, DirectoriesAssumption
  <2>4. Last(l.to) \o "#" \notin {"."} \cup Range(q)
    BY <2>1, <2>2, DirectoriesAssumption, Zenon
  <2> QED BY <2>3, <2>4
<1> DEFINE anchored == Last(l.to) \o "#"
           S == STRING \cup {anchored}
           start == IF l.form = "bundle" THEN <<>> ELSE Front(p)
           written == IF l.suffix = "#" THEN Front(l.to) \o <<anchored>> ELSE l.to
<1> HIDE DEF anchored
<1>3. /\ start \in Seq(S) /\ "." \notin Range(start)
      /\ Front(l.to) \in Seq(S) /\ l.to \in Seq(S)
  <2>1. Front(p) \in Seq(STRING) /\ Range(Front(p)) \subseteq Range(p) /\ Front(l.to) \in Seq(STRING)
    BY <1>1, FrontOf
  <2>2. \A s \in Seq(STRING) : s \in Seq(S)
    OBVIOUS
  <2>3. <<>> \in Seq(S) /\ "." \notin Range(<<>>)
    BY DEF Range
  <2> QED BY <1>1, <2>1, <2>2, <2>3
<1>4. TargetId(p, l) = NormalisePath(start \o written)
  <2>1. written \in Seq(S)
    <3>1. <<anchored>> \in Seq(S)
      OBVIOUS
    <3> HIDE DEF S
    <3>2. Front(l.to) \o <<anchored>> \in Seq(S)
      BY <1>3, <3>1
    <3> QED BY <1>3, <3>2
  <2>2. <<>> \o written = written
    BY <2>1
  <2>3. written = IF l.suffix = "#" THEN Front(l.to) \o <<Last(l.to) \o "#">> ELSE l.to
    BY DEF anchored
  <2> HIDE DEF written
  <2> QED BY <2>2, <2>3 DEF TargetId
<1>5. CASE l.suffix = "#"
  <2> DEFINE w == Front(l.to) \o <<anchored>>
  <2>1. w \in Seq(S) /\ start \o w \in Seq(S) /\ anchored \in Range(w)
    <3>1. <<anchored>> \in Seq(S) /\ anchored \in Range(<<anchored>>)
      BY DEF Range
    <3> HIDE DEF S, start
    <3>2. w \in Seq(S)
      BY <1>3, <3>1
    <3>3. start \o w \in Seq(S)
      BY <1>3, <3>2
    <3> QED BY <1>3, <3>1, <3>2, <3>3, RangeOfSecond
  <2>2. TargetId(p, l) = NormalisePath(start \o w)
    BY <1>4, <1>5
  <2> HIDE DEF w, S, start
  <2>3. anchored \in Range(start \o w)
    BY <1>3, <2>1, RangeOfSecond
  <2>4. Range(NormalisePath(start \o w)) = Range(start \o w) \ {"."}
    BY <2>1, NormalRange
  <2>5. ASSUME TargetId(p, l) \in DOMAIN b.concepts PROVE FALSE
    BY <1>2, <2>2, <2>3, <2>4, <2>5 DEF anchored
  <2> QED BY <1>5, <2>5
<1>6. CASE l.suffix # "#" /\ ".." \in Range(l.to)
  <2>1. TargetId(p, l) = NormalisePath(start \o l.to)
    BY <1>4, <1>6
  <2> HIDE DEF S, start
  <2>2. start \o l.to \in Seq(S)
    BY <1>3
  <2>3. ".." \in Range(start \o l.to)
    BY <1>3, <1>6, RangeOfSecond
  <2>4. Range(NormalisePath(start \o l.to)) = Range(start \o l.to) \ {"."}
    BY <2>2, NormalRange
  <2> QED BY <1>2, <1>6, <2>1, <2>3, <2>4
<1>7. CASE l.suffix # "#" /\ ".." \notin Range(l.to)
  <2>1. TargetId(p, l) = NormalisePath(start \o l.to)
    BY <1>4, <1>7
  <2>2. start = IF l.form = "bundle" THEN <<>> ELSE Front(p)
    OBVIOUS
  <2> HIDE DEF S, start
  <2>3. Follow(p, l) = NormalisePath(start \o l.to)
    BY <1>3, <1>7, <2>2, FollowIsNormal
  <2> QED BY <1>7, <2>1, <2>3
<1> QED BY <1>5, <1>6, <1>7

\* The validator warns of the bundle exactly if its count of unresolved links is not 0.
LEMMA WarnedIsCounted ==
  ASSUME NEW dir \in Directories, NEW b, b = LoadBundle(dir)
  PROVE  Issue("warning", <<>>, "unresolved links") \in ValidateBundle(b) <=> UnresolvedCount(b) # 0
<1> DEFINE warning == Issue("warning", <<>>, "unresolved links")
<1>1. \A level, on, what : Issue(level, on, what) = warning <=> level = "warning" /\ on = <<>> /\ what = "unresolved links"
  <2> TAKE level, on, what
  <2>1. /\ Issue(level, on, what).level = level /\ Issue(level, on, what).on = on /\ Issue(level, on, what).what = what
        /\ warning.level = "warning" /\ warning.on = <<>> /\ warning.what = "unresolved links"
    BY DEF Issue
  <2> QED BY <2>1
<1> HIDE DEF warning
<1>2. warning \notin {Issue("error", p, "failed to parse") : p \in b.errors}
  BY <1>1
<1>3. warning \notin {Issue("warning", <<>>, "no index") : x \in {<<"index">>} \ b.reserved}
  <2>1. "no index" # "unresolved links"
    OBVIOUS
  <2>2. Issue("warning", <<>>, "no index") # warning
    <3>1. Issue("warning", <<>>, "no index").what = "no index" /\ warning.what = "unresolved links"
      BY DEF Issue, warning
    <3> QED BY <2>1, <3>1
  <2> QED BY <2>2
<1>4. ASSUME NEW p \in DOMAIN b.concepts PROVE warning \notin ValidateConcept(b.concepts[p])
  <2>1. b.concepts[p].id = p /\ p # <<>>
    BY Loaded, DirectoriesAssumption
  <2> DEFINE c == b.concepts[p]
  <2> HIDE DEF c
  <2>2. c.id # <<>>
    BY <2>1 DEF c
  <2>3. \A level, what : warning # Issue(level, c.id, what)
    BY <1>1, <2>2, Zenon
  <2>4. \A i \in ValidateConcept(c) : \E level, what : i = Issue(level, c.id, what)
    BY Zenon DEF ValidateConcept
  <2>5. warning \notin ValidateConcept(c)
    BY <2>3, <2>4, Zenon
  <2> QED BY <2>5 DEF c
<1>5. warning \in {Issue("warning", <<>>, "unresolved links") : n \in {UnresolvedCount(b)} \ {0}} <=> UnresolvedCount(b) # 0
  BY DEF warning
<1>6. warning \notin UNION {ValidateConcept(b.concepts[p]) : p \in DOMAIN b.concepts}
  BY <1>4
<1>7. warning \in ValidateBundle(b) <=> UnresolvedCount(b) # 0
  <2> DEFINE A == {Issue("error", p, "failed to parse") : p \in b.errors}
             B == UNION {ValidateConcept(b.concepts[p]) : p \in DOMAIN b.concepts}
             C == {Issue("warning", <<>>, "no index") : x \in {<<"index">>} \ b.reserved}
             D == {Issue("warning", <<>>, "unresolved links") : n \in {UnresolvedCount(b)} \ {0}}
  <2>1. ValidateBundle(b) = ((A \cup B) \cup C) \cup D
    BY DEF ValidateBundle
  <2>2. warning \notin A /\ warning \notin B /\ warning \notin C /\ (warning \in D <=> UnresolvedCount(b) # 0)
    BY <1>2, <1>3, <1>5, <1>6
  <2> HIDE DEF A, B, C, D
  <2> QED BY <2>1, <2>2
<1> QED BY <1>7 DEF warning

\* The links of a bundle are finitely many.
LEMMA LinksFinite ==
  ASSUME NEW dir \in Directories, NEW b, b = LoadBundle(dir)
  PROVE  IsFiniteSet(InternalLinks(b))
<1> DEFINE of(p) == {p} \X b.concepts[p].links
           all == {of(p) : p \in DOMAIN b.concepts}
<1>1. IsFiniteSet(DOMAIN b.concepts)
  <2>1. DOMAIN b.concepts \subseteq DOMAIN dir
    BY Loaded
  <2>2. IsFiniteSet(DOMAIN dir)
    BY DirectoriesAssumption
  <2> QED BY <2>1, <2>2, FS_Subset
<1>2. ASSUME NEW p \in DOMAIN b.concepts PROVE IsFiniteSet(of(p))
  <2>1. IsFiniteSet(b.concepts[p].links)
    BY Loaded, DirectoriesAssumption
  <2>2. IsFiniteSet({p})
    BY FS_Singleton
  <2> QED BY <2>1, <2>2, FS_Product
<1> HIDE DEF of
<1>3. IsFiniteSet(all)
  <2> DEFINE f == [p \in DOMAIN b.concepts |-> of(p)]
  <2>1. f \in Surjection(DOMAIN b.concepts, all)
    BY DEF Surjection
  <2> QED BY <1>1, <2>1, FS_Surjection
<1>4. IsFiniteSet(UNION all)
  <2>1. \A x \in all : IsFiniteSet(x)
    BY <1>2
  <2> HIDE DEF all
  <2> QED BY <1>3, <2>1, FS_UNION
<1>5. InternalLinks(b) \subseteq UNION all
  BY DEF InternalLinks, of
<1> QED BY <1>4, <1>5, FS_Subset

\* What LinksFollowed says, of any directory tree.
LEMMA LinksOfDirectory == disk \in Directories => LinksFollowed
<1> SUFFICES ASSUME disk \in Directories PROVE LinksFollowed
  OBVIOUS
<1> DEFINE b == LoadBundle(disk)
<1> HIDE DEF b
<1>0. b = LoadBundle(disk)
  BY DEF b
<1>1. ASSUME NEW p \in DOMAIN b.concepts, NEW l \in b.concepts[p].links
      PROVE  /\ <<p, l>> \in Edges(b) => TargetId(p, l) = Follow(p, l)
             /\ /\ l.form # "external" /\ (l.suffix # "#" /\ ".." \notin Range(l.to))
                /\ Follow(p, l) \in DOMAIN b.concepts
                => <<p, l>> \in Edges(b)
  <2>1. <<p, l>> \in Edges(b) <=> l.form # "external" /\ TargetId(p, l) \in DOMAIN b.concepts
    BY InternalLink
  <2> QED BY <1>0, <2>1, EdgeIsFollowed
<1>2. UnresolvedCount(b) # 0 <=> \E p \in DOMAIN b.concepts : \E l \in b.concepts[p].links : l.form # "external" /\ <<p, l>> \notin Edges(b)
  <2> DEFINE open == InternalLinks(b) \ Edges(b)
  <2>1. IsFiniteSet(open)
    BY <1>0, LinksFinite, FS_Subset
  <2>2. UnresolvedCount(b) # 0 <=> open # {}
    BY <2>1, FS_EmptySet DEF UnresolvedCount
  <2>3. open # {} <=> \E e \in InternalLinks(b) : e \notin Edges(b)
    OBVIOUS
  <2>4. (\E e \in InternalLinks(b) : e \notin Edges(b)) <=>
          \E p \in DOMAIN b.concepts : \E l \in b.concepts[p].links : l.form # "external" /\ <<p, l>> \notin Edges(b)
    <3>1. ASSUME NEW p \in DOMAIN b.concepts, NEW l \in b.concepts[p].links, l.form # "external"
          PROVE  <<p, l>> \in InternalLinks(b)
      BY <3>1, InternalLink
    <3>2. ASSUME NEW e \in InternalLinks(b)
          PROVE  \E p \in DOMAIN b.concepts : \E l \in b.concepts[p].links : e = <<p, l>> /\ l.form # "external"
      BY InternalLinksAre
    <3> QED BY <3>1, <3>2, Zenon
  <2> QED BY <2>2, <2>3, <2>4
<1>3. Issue("warning", <<>>, "unresolved links") \in ValidateBundle(b) <=> UnresolvedCount(b) # 0
  BY <1>0, WarnedIsCounted
<1> QED BY <1>0, <1>1, <1>2, <1>3 DEF LinksFollowed

\* Whatever a bundle is edited to, its edges lead to the files their links name, a link to a loaded
\* file that is written without ".." and anchor is an edge, and the validator warns exactly when a
\* link is none (TargetId(), InternalLinks(), ValidateBundle()).
THEOREM Links == Spec => []LinksFollowed
<1>1. Init => disk \in Directories
  BY DEF Init
<1>2. disk \in Directories /\ [Next]_vars => (disk \in Directories)'
  <2> SUFFICES ASSUME disk \in Directories, [Next]_vars PROVE disk' \in Directories
    OBVIOUS
  <2>1. CASE EditFiles
    BY <2>1 DEF EditFiles
  <2>2. CASE disk' = disk
    BY <2>2
  <2>3. EditFiles \/ disk' = disk
    BY DEF Next, vars, InitVectorColumn, VerifyOrInitMeta, Close, Crash, IndexBundle, IngestGraph, Write, WriteFails
  <2> QED BY <2>1, <2>2, <2>3
<1>3. Spec => [](disk \in Directories)
  BY <1>1, <1>2, PTL DEF Spec
<1> QED BY <1>3, LinksOfDirectory, PTL
=============================================================================
