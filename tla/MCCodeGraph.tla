---------------------------- MODULE MCCodeGraph ----------------------------
(* Repositories of two files: functions and classes, nested both ways, with*)
(* same names in one file and in both, decorators, imports, a file that    *)
(* cannot be parsed.  The repository has the name of a module but for case.*)
EXTENDS CodeGraph, TLC

MCNames == {"run", "setup", "Base", "token", "admin_query", "route", "on", "os.path", "os",
            "settings", "socket", "internal", "escape", "public"}
MCMatches == [n \in MCNames |->
  CASE n = "setup" -> {"lifecycle"}
    [] n = "token" -> {"auth", "sensitive", "keyword", "word"}
    [] n = "admin_query" -> {"admin", "io"}
    [] n = "route" -> {"route", "deploy"}
    [] n = "on" -> {"event"}
    [] n = "settings" -> {"config"}
    [] n = "socket" -> {"io", "external"}
    [] n \in {"internal", "public"} -> {n}
    [] n = "escape" -> {"auth", "sanitize"}
    [] OTHER -> {}]
MCAuthPattern == ("token" :> {"token", "auth"}) @@ ("escape" :> {"auth"})
MCPyFile == [n \in MCNames \cup {"base"} |->
  CASE n = "Base" -> "base.py" [] n = "os.path" -> "os/path.py" [] OTHER -> n \o ".py"]
MCIds == (Range(Walk) \cup {"module", "repo", "resource", "security", "sensitive", "deploy", "build", "config"})
           \X (MCNames \cup Range(Walk) \cup {"base", "python", "auth"})
MCWalk == <<"a.py", "b.py">>

Def(name, decorators, body) ==
  <<[do |-> "def", name |-> name, decorators |-> decorators, suspends |-> decorators # {}]>> \o body \o <<[do |-> "end"]>>
Class(name, bases, body) == <<[do |-> "class", name |-> name, bases |-> bases]>> \o body \o <<[do |-> "end"]>>
Call(name) == <<[do |-> "call", name |-> name]>>
Name(name) == <<[do |-> "name", name |-> name]>>
Import(name) == <<[do |-> "import", name |-> name, imported |-> name, head |-> IF name = "os.path" THEN "os" ELSE name]>>

Uses == {Call(n) : n \in {"run", "setup", "Base", "admin_query"}} \cup {Name("token"), Name("setup")}
TopFunctions == {Def(n, {}, b \o c) : n \in {"run", "setup"}, b \in Uses, c \in Uses \cup {<<>>}}
               \cup {Def("run", {"route"}, b) : b \in Uses}
               \cup {Def("settings", {}, Call("socket") \o Call("internal")), Def("escape", {}, Call("public")),
                     Def("run", {}, Call("public") \o Call("escape"))}
               \cup {Def("token", {}, <<>>), Def("run", {}, <<>>)}
Classes == {Class("Base", {}, Def(n, d, b)) : n \in {"setup", "run"}, d \in {{}, {"on"}}, b \in {Call("run"), Call("setup")}}
             \cup {Class("Base", {}, Call("run")), Class("run", {"Base"}, <<>>),
                   Class("Base", {"Base"}, Def("setup", {}, <<>>) \o Def("setup", {}, Call("Base")))}
Nested == {Def("run", {}, Class("Base", {}, Call("setup") \o Def("setup", {}, Call("token")))),
           Def("setup", {}, Def("run", {}, Call("admin_query")) \o Call("run")),
           Def("setup", {}, Import("os.path") \o Import("run") \o Call("run"))}
Imports == {Import("run"), Import("os.path"), Import("Base")}
FirstDefs == TopFunctions \cup Classes \cup Nested
Second == {<<>>, Def("setup", {}, Call("run")), Def("run", {}, Name("token") \o Call("setup")), Class("Base", {"run"}, <<>>)} \cup Imports
Other == {<<>>, Def("run", {}, Call("Base")), Def("setup", {}, <<>>), Class("Base", {}, Def("run", {"on"}, Call("setup"))), Import("run") \o Def("setup", {}, Call("run"))}
(* Three functions that nothing calls, one of which alone calls public. *)
Roots == ("a.py" :> Def("run", {}, Call("setup")) \o Def("token", {}, Call("setup")) \o Def("escape", {}, Call("public"))
          @@ "b.py" :> Def("setup", {}, <<>>) \o Def("public", {}, <<>>))
MCSources ==
  {[text |-> ("a.py" :> f \o s @@ "b.py" :> o), broken |-> {}] : f \in FirstDefs, s \in Second, o \in Other}
    \cup {[text |-> ("a.py" :> f @@ "b.py" :> <<>>), broken |-> {b}] : f \in TopFunctions, b \in Range(Walk)}
    \cup {[text |-> Roots, broken |-> {}]}
=============================================================================
