------------------------------- MODULE OkfIndex -------------------------------
(***************************************************************************)
(* The OKF index (index.py) with its two sources: a bundle of markdown     *)
(* files and the entities of a parsed repository (ingest_graph()).         *)
(*                                                                         *)
(* rows, fts and vec are the tables of the database file, keyed by concept *)
(* id and by row id; vecDim is the width the vector table was created      *)
(* with, meta the embedder on record.  All of them survive a crash.  conn  *)
(* is the one connection, pending what its user has still to write.        *)
(***************************************************************************)
EXTENDS OkfBundle, Tables, FiniteSetsExt, Functions

CONSTANTS Embedders,     \* records with a name and a dimension
          Directories,   \* the directory trees a bundle is loaded from
          Repositories,  \* the entity lists parse_repository() returns
          FetchFactor,   \* candidates fetched per hit asked for, 4 in the code,
          FetchFloor,    \* and the least number of them, 30 in the code
          MaxRow,        \* bound: row ids
          NoDim, NoEmbedder

ASSUME IndexAssumption ==
  /\ NoEmbedder \notin Embedders
  /\ FetchFactor \in Nat \ {0} /\ FetchFloor \in Nat

(* A tree has finitely many files, at paths as a walk returns them; a text *)
(* has finitely many links, each but an external one to a name that is not *)
(* "."; no name ends with the anchor of a link.                            *)
ASSUME DirectoriesAssumption ==
  \A dir \in Directories :
    /\ IsFiniteSet(DOMAIN dir)
    /\ \A p \in DOMAIN dir :
         /\ p \in Seq(STRING) /\ p # <<>> /\ {".", ".."} \cap Range(p) = {}
         /\ IsFiniteSet(ExtractLinks(dir[p].body)) /\ ExtractLinks(dir[p].body) \subseteq Link
         /\ \A l \in ExtractLinks(dir[p].body) :
              l.form # "external" => /\ l.to # <<>> /\ Last(l.to) # "."
                                     /\ \A q \in DOMAIN dir : Last(l.to) \o "#" \notin {"."} \cup Range(q)

VARIABLES disk, rows, fts, vec, vecDim, meta, conn, pending
db == <<rows, fts, vec, vecDim, meta>>
vars == <<disk, db, conn, pending>>

Empty == [x \in {} |-> x]
Closed == [phase |-> "closed", embed |-> NoEmbedder]

Init ==
  /\ disk \in Directories
  /\ rows = Empty /\ fts = Empty /\ vec = Empty
  /\ vecDim = NoDim /\ meta = NoEmbedder
  /\ conn = Closed /\ pending = <<>>

------------------------------------------------------------------------------
(* The constructor in its two transactions: a crash can fall between them. *)
InitVectorColumn(e) ==
  /\ conn = Closed
  /\ conn' = [phase |-> "created", embed |-> e]
  /\ vecDim' = IF vecDim = NoDim THEN e.dim ELSE vecDim
  /\ UNCHANGED <<disk, rows, fts, vec, meta, pending>>

AcceptsByDimension(e) == meta = NoEmbedder \/ meta.dim = e.dim
Accepts(e) == meta \in {NoEmbedder, e}
VerifyOrInitMeta ==
  /\ conn.phase = "created"
  /\ IF Accepts(conn.embed)
     THEN conn' = [conn EXCEPT !.phase = "open"] /\ meta' = IF meta = NoEmbedder THEN conn.embed ELSE meta
     ELSE conn' = Closed /\ UNCHANGED meta
  /\ UNCHANGED <<disk, rows, fts, vec, vecDim, pending>>

Close ==
  /\ conn.phase = "open" /\ pending = <<>>
  /\ conn' = Closed
  /\ UNCHANGED <<disk, db, pending>>

Crash ==
  /\ conn # Closed
  /\ conn' = Closed /\ pending' = <<>>
  /\ UNCHANGED <<disk, db>>

------------------------------------------------------------------------------
(* What is written: the concepts of a loaded bundle, in the order the tree *)
(* is walked, or one concept for every parsed entity; entities of a kind   *)
(* and name in a file share an id.                                         *)
Written(c) == [id |-> c.id, type |-> c.type, text |-> c.text, tags |-> c.tags]
ConceptOf(e) ==
  [id |-> <<"code", e.file, e.kind, e.name>>, type |-> e.kind, text |-> {e.name, e.kind, e.file},
   tags |-> {e.file, e.kind, e.parent} \ {""}]

EditFiles ==
  /\ disk' \in Directories \ {disk}
  /\ UNCHANGED <<db, conn, pending>>

IndexBundle ==
  /\ conn.phase = "open" /\ pending = <<>>
  /\ LET b == LoadBundle(disk)
     IN  \E order \in SetToSeqs(DOMAIN b.concepts \ b.reserved) :
           pending' = [i \in DOMAIN order |-> Written(b.concepts[order[i]])]
  /\ UNCHANGED <<disk, db, conn>>

IngestGraph ==
  /\ conn.phase = "open" /\ pending = <<>>
  /\ \E parsed \in Repositories : pending' = [i \in DOMAIN parsed |-> ConceptOf(parsed[i])]
  /\ UNCHANGED <<disk, db, conn>>

(* write(): the new row id is above every id in use, the insert trigger    *)
(* adds a full-text row, and INSERT OR REPLACE takes the old row away      *)
(* without the delete trigger, so its full-text row and vector stay.       *)
HasText(c) == c.text # {}
NextRowId == Max({0} \cup {rows[id].rowid : id \in DOMAIN rows}) + 1
Fits(c) == HasText(c) => conn.embed.dim = vecDim
Write ==
  /\ conn.phase = "open" /\ pending # <<>>
  /\ LET c == Head(pending)
         n == NextRowId
     IN  /\ Fits(c) /\ n =< MaxRow
         /\ rows' = With(rows, c.id, [rowid |-> n, doc |-> c])
         /\ fts' = With(fts, n, c)
         /\ vec' = [r \in (DOMAIN vec \ {n}) \cup {k \in {n} : HasText(c)} |->
                      IF r = n THEN [doc |-> c, embed |-> conn.embed] ELSE vec[r]]
  /\ pending' = Tail(pending)
  /\ UNCHANGED <<disk, vecDim, meta, conn>>

(* A field that is no JSON, the embedder, or a vector that does not fit    *)
(* the table raises: no row is written and the caller's loop ends.         *)
WriteFails ==
  /\ conn.phase = "open" /\ pending # <<>>
  /\ pending' = <<>>
  /\ UNCHANGED <<disk, db, conn>>

Next ==
  \/ \E e \in Embedders : InitVectorColumn(e)
  \/ VerifyOrInitMeta \/ Close \/ Crash
  \/ EditFiles \/ IndexBundle \/ IngestGraph \/ Write \/ WriteFails

Spec == Init /\ [][Next]_vars
------------------------------------------------------------------------------
(* read(): a full-text and a vector search propose row ids, filtered or    *)
(* not; the best of them are looked up in the concept table and those      *)
(* without a row are skipped.  Ranks are left open; a keyword read looks   *)
(* at no vectors.  A row whose type is empty is no valid concept: the read *)
(* raises and returns no hits at all.                                      *)
Unset == ""  \* no type, or no filter by type or tag
RowOf(r) == {id \in DOMAIN rows : rows[id].rowid = r}
Filtered(r, type, tag) ==
  \E id \in RowOf(r) : type \in {Unset, rows[id].doc.type} /\ tag \in {Unset} \cup rows[id].doc.tags
FtsCandidatesUnfiltered(query, type, tag) == {r \in DOMAIN fts : query # {} /\ query \subseteq fts[r].text}
FtsCandidates(query, type, tag) ==
  {r \in DOMAIN fts : query # {} /\ query \subseteq fts[r].text /\ (<<type, tag>> # <<Unset, Unset>> => Filtered(r, type, tag))}
VectorCandidates(nearest, type, tag) == {r \in nearest : Filtered(r, type, tag)}

Best(n, S) == kSubset(Min({n, Cardinality(S)}), S)
FetchLimit(top) == Max({FetchFactor * top, FetchFloor})
Hybrid(query, vectors, top, type, tag) ==
  LET found == Best(FetchLimit(top), FtsCandidates(query, type, tag))
      near == {VectorCandidates(S, type, tag) : S \in Best(FetchLimit(top), vectors)}
      fused == {FV[1] \cup FV[2] : FV \in found \X near}
  IN  UNION {Best(top, S) : S \in fused}
Found(best) == {rows[id].doc : id \in UNION {RowOf(r) : r \in best}}
HitsOf(best) == IF \A d \in Found(best) : d.type # Unset THEN Found(best) ELSE {}
Read(query, vectors, top, type, tag) == {HitsOf(best) : best \in Hybrid(query, vectors, top, type, tag)}
------------------------------------------------------------------------------
Docs == {rows[id].doc : id \in DOMAIN rows}
Queries == {{w} : w \in UNION {d.text : d \in Docs}}
Matching(query, type) == {d \in Docs : d.type = type /\ query \subseteq d.text}

(* Every concept has its own row id, its present text in the full-text     *)
(* table and, if it has text, its vector; and all vectors come from the    *)
(* embedder on record, whatever crashed and whoever opened the file.       *)
CurrentIndexed ==
  /\ \A id \in DOMAIN rows :
       LET r == rows[id].rowid
       IN  /\ RowOf(r) = {id} /\ rows[id].doc.id = id
           /\ r \in DOMAIN fts /\ fts[r] = rows[id].doc
           /\ r \in DOMAIN vec <=> HasText(rows[id].doc)
           /\ r \in DOMAIN vec => vec[r].doc = rows[id].doc
  /\ \A r \in DOMAIN vec : vec[r].embed = meta

(* A keyword read returns only concepts that match as they are now, though *)
(* rows of replaced versions are left in the full-text table; a read by    *)
(* type returns as many of them as it was asked for, and a read by tag  *)
(* none without the tag.                                                   *)
HitsMatch ==
  \A q \in Queries, top \in 1 .. 2 :
    /\ \A hits \in Read(q, {}, top, Unset, Unset) : \A d \in hits : q \subseteq d.text
    /\ \A type \in {d.type : d \in Docs} \ {Unset} :
         \A hits \in Read(q, {}, top, type, Unset) :
           /\ hits \subseteq Matching(q, type)
           /\ Cardinality(hits) = Min({top, Cardinality(Matching(q, type))})
    /\ \A tag \in (UNION {d.tags : d \in Docs}) \ {Unset} :
         \A hits \in Read(q, DOMAIN vec, top, Unset, tag) : \A d \in hits : tag \in d.tags

(* Where a link leads by the rules of paths, ".." staying above the root.  *)
Follow(source, link) ==
  LET Step(at, s) == IF s = "." THEN at
                     ELSE IF s # ".." \/ at = <<>> \/ Last(at) = ".." THEN Append(at, s)
                     ELSE Front(at)
      At[n \in 0 .. Len(link.to)] ==
        IF n = 0 THEN IF link.form = "bundle" THEN <<>> ELSE Front(source)
        ELSE Step(At[n - 1], link.to[n])
  IN  At[Len(link.to)]

(* An edge leads to the file its link names by the rules of paths.  A link *)
(* to a loaded file becomes one unless it is written with ".." or with an  *)
(* anchor.  The validator warns exactly when a link has become none.       *)
LinksFollowed ==
  LET b == LoadBundle(disk)
      Plain(l) == l.suffix # "#" /\ ".." \notin Range(l.to)
      Warned == Issue("warning", <<>>, "unresolved links") \in ValidateBundle(b)
  IN  /\ \A p \in DOMAIN b.concepts : \A l \in b.concepts[p].links :
           /\ <<p, l>> \in Edges(b) => TargetId(p, l) = Follow(p, l)
           /\ l.form # "external" /\ Plain(l) /\ Follow(p, l) \in DOMAIN b.concepts => <<p, l>> \in Edges(b)
      /\ Warned <=> \E p \in DOMAIN b.concepts : \E l \in b.concepts[p].links : l.form # "external" /\ <<p, l>> \notin Edges(b)
==============================================================================
