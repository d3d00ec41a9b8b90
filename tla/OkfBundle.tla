------------------------------ MODULE OkfBundle ------------------------------
(***************************************************************************)
(* Bundles of the OKF package (bundle.py, concept.py, validator.py): what  *)
(* load_bundle() makes of a directory tree of markdown files, which links  *)
(* become edges, and what the validator reports.                           *)
(*                                                                         *)
(* A path is the sequence of its segments without the suffix ".md"; it is  *)
(* also the concept id.  A file is a record: its front matter (closed or   *)
(* not, a type or NoType), its title and its body, a sequence of lines     *)
(* with a heading or "", words and links.  A link is its target's segments *)
(* with the way they are written.                                          *)
(***************************************************************************)
EXTENDS Naturals, Sequences, FiniteSets, SequencesExt

CONSTANTS ReservedNames,  \* file names that are not regular concepts
          NoType,         \* front matter without a type
          Blank           \* a type of spaces only

Link == [to : Seq(STRING), form : {"bundle", "relative", "external"}, suffix : {".md", "", "#"}]

(* The front matter counts only between two delimiters and when it parses. *)
ParsedType(f) == IF f.front = "closed" THEN f.type ELSE NoType
Stripped(type) == IF type = Blank THEN "" ELSE type

(* Sections start at headings; what comes before the first is an intro.    *)
SplitSections(body) ==
  LET heads == SetToSortSeq({i \in DOMAIN body : body[i].heading # ""}, <)
      Section(h, from, to) == [heading |-> h, lines |-> SubSeq(body, from, to)]
      End(k) == IF k < Len(heads) THEN heads[k + 1] - 1 ELSE Len(body)
      intro == IF heads = <<>> THEN <<Section("", 1, Len(body))>>
               ELSE IF heads[1] > 1 THEN <<Section("", 1, heads[1] - 1)>> ELSE <<>>
  IN  intro \o [k \in DOMAIN heads |-> Section(body[heads[k]].heading, heads[k] + 1, End(k))]

ExtractLinks(lines) == UNION {lines[i].links : i \in DOMAIN lines}
Words(f) == f.title \cup UNION {f.body[i].words : i \in DOMAIN f.body}
ExtractCitations(sections) ==
  LET cited == SelectSeq(sections, LAMBDA s : s.heading = "citations")
  IN  IF cited = <<>> THEN {} ELSE ExtractLinks(Head(cited).lines)

LoadConcept(id, f) ==
  LET sections == SplitSections(f.body)
  IN  [id |-> id, type |-> Stripped(ParsedType(f)), titled |-> f.title # {}, text |-> Words(f), tags |-> f.tags,
       bare |-> f.body = <<>>, sections |-> sections, links |-> ExtractLinks(f.body), citations |-> ExtractCitations(sections)]

WalkMd(dir) == {p \in DOMAIN dir : ~dir[p].symlink}
LoadBundle(dir) ==
  LET loaded == {p \in WalkMd(dir) : ParsedType(dir[p]) # NoType}
  IN  [concepts |-> [p \in loaded |-> LoadConcept(p, dir[p])],
       errors |-> WalkMd(dir) \ loaded,
       reserved |-> {p \in loaded : Last(p) \in ReservedNames}]

------------------------------------------------------------------------------
(* OKFLinkResolver: "." segments go, ".." stays as it is written, and only *)
(* the suffix ".md" is taken off.                                          *)
NormalisePath(p) ==
  LET Kept[n \in 0 .. Len(p)] ==
        IF n = 0 THEN <<>> ELSE IF p[n] = "." THEN Kept[n - 1] ELSE Append(Kept[n - 1], p[n])
  IN  Kept[Len(p)]
TargetIdFromRoot(source, link) == NormalisePath(link.to)
TargetId(source, link) ==
  LET written == IF link.suffix = "#" THEN Front(link.to) \o <<Last(link.to) \o "#">> ELSE link.to
  IN  NormalisePath(IF link.form = "bundle" THEN written ELSE Front(source) \o written)
InternalLinks(b) ==
  {e \in UNION {{p} \X b.concepts[p].links : p \in DOMAIN b.concepts} : e[2].form # "external"}
Edges(b) == {e \in InternalLinks(b) : TargetId(e[1], e[2]) \in DOMAIN b.concepts}
UnresolvedCount(b) == Cardinality(InternalLinks(b) \ Edges(b))

------------------------------------------------------------------------------
(* The validator.  An issue names its level, its place and what is wrong.  *)
Issue(level, on, what) == [level |-> level, on |-> on, what |-> what]
Duplicates(sections) ==
  {sections[i].heading : i \in {k \in DOMAIN sections : \E j \in 1 .. k - 1 : sections[j].heading = sections[k].heading}} \ {""}
ValidateConcept(c) ==
  {Issue("error", c.id, "no type") : t \in {c.type} \cap {""}}
    \cup {Issue("warning", c.id, "empty body") : x \in {c.bare} \cap {TRUE}}
    \cup {Issue("warning", c.id, "no title") : x \in {c.titled} \cap {FALSE}}
    \cup {Issue("warning", c.id, h) : h \in Duplicates(c.sections)}
ValidateBundle(b) ==
  {Issue("error", p, "failed to parse") : p \in b.errors}
    \cup (UNION {ValidateConcept(b.concepts[p]) : p \in DOMAIN b.concepts})
    \cup {Issue("warning", <<>>, "no index") : x \in {<<"index">>} \ b.reserved}
    \cup {Issue("warning", <<>>, "unresolved links") : n \in {UnresolvedCount(b)} \ {0}}
==============================================================================
