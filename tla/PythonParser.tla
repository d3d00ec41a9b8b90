---------------------------- MODULE PythonParser ----------------------------
(***************************************************************************)
(* parse_repository(): the files of a repository are visited one after the *)
(* other by a _PythonFileVisitor, which turns each into a list of entities.*)
(* A file is read as the sequence of the visits its syntax tree gives: a   *)
(* definition is entered and left, and between the two come the calls,     *)
(* names, imports and definitions of its body.  The visitor keeps a stack  *)
(* of scopes; a scope collects the calls and references that the entity    *)
(* gets when the scope is left.                                            *)
(*                                                                         *)
(* A name stands for itself.  Left out are parameters, return types,       *)
(* docstrings and lines, and calls of the result of an expression, f()(),  *)
(* which the visitor records under a text that names no entity.            *)
(***************************************************************************)
EXTENDS Integers, Sequences, FiniteSets, SequencesExt

CONSTANTS Walk,      \* the files, in the order os.walk() gives them
          Names,     \* identifiers, module names and decorator labels
          Sources,   \* repositories: [text |-> file -> visits, broken |-> files]
          NoName     \* no parent, or an import without a module

VARIABLES source,    \* the repository that is read
          file,      \* position in Walk of the file being read
          at,        \* position of the next visit in that file
          own,       \* visitor.entities
          scopes,    \* visitor.scope_stack, innermost last
          entities,  \* all_entities
          errors     \* the files of all_errors

parserVars == <<source, file, at, own, scopes, entities, errors>>

Files == Range(Walk)
Kinds == {"class", "function", "method", "import"}
Entity == [kind : Kinds, name : Names, file : Files, parent : Names \cup {NoName},
           bases : SUBSET Names, decorators : SUBSET Names, suspends : BOOLEAN,
           imports : SUBSET Names, calls : SUBSET Names, references : SUBSET Names]
Scope == [kind : {"class", "function"}, name : Names, target : Nat \ {0},
          calls : SUBSET Names, references : SUBSET Names]

(* The visits a syntax tree gives: every definition that is entered is left.*)
VisitForm ==
  [do : {"class"}, name : Names, bases : SUBSET Names]
    \cup [do : {"def"}, name : Names, decorators : SUBSET Names, suspends : BOOLEAN]
    \cup [do : {"end"}] \cup [do : {"call", "name"}, name : Names]
    \cup [do : {"import"}, name : Names, imported : Names, head : Names \cup {NoName}]
Opens(t, k) == t[k].do \in {"class", "def"}
Depth(t, k) == Cardinality({j \in 1 .. k : Opens(t, j)}) - Cardinality({j \in 1 .. k : t[j].do = "end"})
IsSyntax(t) == t \in Seq(VisitForm) /\ (\A k \in DOMAIN t : Depth(t, k) >= 0) /\ Depth(t, Len(t)) = 0

ASSUME ParserAssumption ==
  /\ Walk \in Seq(Files)
  /\ NoName \notin Names
  /\ \A s \in Sources : /\ DOMAIN s.text = Files /\ s.broken \subseteq Files
                        /\ \A f \in Files : IsSyntax(s.text[f])

ParserInit ==
  /\ source \in Sources
  /\ file = 1
  /\ at = 1
  /\ own = <<>>
  /\ scopes = <<>>
  /\ entities = <<>>
  /\ errors = {}

Parsing == file =< Len(Walk)
Path == Walk[file]
Text == source.text[Path]
Reading(what) ==
  /\ Parsing
  /\ Path \notin source.broken
  /\ at =< Len(Text)
  /\ Text[at].do = what
Visit == Text[at]

(* An entity before its body is visited. *)
Plain(kind, name) == [kind |-> kind, name |-> name, file |-> Path, parent |-> NoName, bases |-> {},
                      decorators |-> {}, suspends |-> FALSE, imports |-> {}, calls |-> {}, references |-> {}]

(* parent_name() and parent_kind(). *)
ParentName == IF scopes = <<>> THEN NoName ELSE Last(scopes).name
InClass == scopes # <<>> /\ Last(scopes).kind = "class"

(* For the mutation checks: a call belongs to the scope it stands in. *)
EnclosingScope(stack) == Len(stack)

(* current_callable(): the innermost function on the stack, 0 if none. *)
CurrentCallable(stack) == SelectLastInSeq(stack, LAMBDA s : s.kind = "function")

(* _add_reference(): to the innermost scope, nowhere at the module level. *)
AddReference(stack, name) ==
  IF stack = <<>> \/ name = NoName
  THEN stack
  ELSE [stack EXCEPT ![Len(stack)].references = @ \cup {name}]

(* _record_call_target() *)
RecordCallTarget(stack, name) ==
  LET i == CurrentCallable(stack)
  IN  IF i = 0 THEN stack ELSE [stack EXCEPT ![i].calls = @ \cup {name}]

(* For the mutation checks: counted from zero. *)
EnterFromZero(entity, kind) ==
  /\ own' = Append(own, entity)
  /\ scopes' = Append(scopes, [kind |-> kind, name |-> entity.name, target |-> Len(own),
                               calls |-> {}, references |-> {}])
  /\ at' = at + 1
  /\ UNCHANGED <<source, file, entities, errors>>

(* The entity is appended and its scope pushed before the body is visited. *)
Enter(entity, kind) ==
  /\ own' = Append(own, entity)
  /\ scopes' = Append(scopes, [kind |-> kind, name |-> entity.name, target |-> Len(own) + 1,
                               calls |-> {}, references |-> {}])
  /\ at' = at + 1
  /\ UNCHANGED <<source, file, entities, errors>>

(* visit_ClassDef() up to the body. *)
EnterClass ==
  /\ Reading("class")
  /\ Enter([Plain("class", Visit.name) EXCEPT !.parent = ParentName, !.bases = Visit.bases], "class")

(* _visit_func() up to the body. *)
EnterFunction ==
  /\ Reading("def")
  /\ Enter([Plain(IF InClass THEN "method" ELSE "function", Visit.name) EXCEPT
              !.parent = ParentName, !.decorators = Visit.decorators, !.suspends = Visit.suspends],
           "function")

(* The scope is popped and _populate_entity() hands over what it collected. *)
Leave ==
  /\ Reading("end")
  /\ LET scope == Last(scopes)
     IN  own' = [own EXCEPT ![scope.target].calls = scope.calls,
                            ![scope.target].references = scope.references]
  /\ scopes' = Front(scopes)
  /\ at' = at + 1
  /\ UNCHANGED <<source, file, entities, errors>>

(* visit_Call() of a name or an attribute. *)
VisitCall ==
  /\ Reading("call")
  /\ scopes' = AddReference(RecordCallTarget(scopes, Visit.name), Visit.name)
  /\ at' = at + 1
  /\ UNCHANGED <<source, file, own, entities, errors>>

(* visit_Name(), and visit_Attribute() for the attribute. *)
VisitName ==
  /\ Reading("name")
  /\ scopes' = AddReference(scopes, Visit.name)
  /\ at' = at + 1
  /\ UNCHANGED <<source, file, own, entities, errors>>

(* visit_Import() and visit_ImportFrom(): the entity has the local name,   *)
(* and the head of the module is a reference.  No parent is recorded.      *)
VisitImport ==
  /\ Reading("import")
  /\ own' = Append(own, [Plain("import", Visit.name) EXCEPT !.imports = {Visit.imported}])
  /\ scopes' = AddReference(scopes, Visit.head)
  /\ at' = at + 1
  /\ UNCHANGED <<source, file, entities, errors>>

NextFile ==
  /\ file' = file + 1
  /\ at' = 1
  /\ own' = <<>>
  /\ scopes' = <<>>
  /\ UNCHANGED source

(* parse_file() returns the entities of the file. *)
FinishFile ==
  /\ Parsing
  /\ Path \notin source.broken
  /\ at = Len(Text) + 1
  /\ entities' = entities \o own
  /\ UNCHANGED errors
  /\ NextFile

(* A file that cannot be read, decoded or parsed is recorded and skipped. *)
RecordError ==
  /\ Parsing
  /\ Path \in source.broken
  /\ errors' = errors \cup {Path}
  /\ UNCHANGED entities
  /\ NextFile

ParserNext == EnterClass \/ EnterFunction \/ Leave \/ VisitCall \/ VisitName \/ VisitImport
                \/ FinishFile \/ RecordError
=============================================================================
