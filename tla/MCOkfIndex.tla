----------------------------- MODULE MCOkfIndex -----------------------------
(* A tree of two or three files, one of them in a directory, with links    *)
(* written in every way; two embedders of one dimension and one of another;*)
(* two parses of a repository with two methods of one name.                *)
EXTENDS OkfIndex, TLC

MCEmbedders == {[name |-> "m", dim |-> 1], [name |-> "n", dim |-> 1], [name |-> "n", dim |-> 2]}

Line(heading, words, links) == [heading |-> heading, words |-> words, links |-> links]
File(type, title, body) == [front |-> "closed", type |-> type, title |-> title, tags |-> {"t"}, body |-> body, symlink |-> FALSE]
To(form, to, suffix) == [to |-> to, form |-> form, suffix |-> suffix]

Links == {To("bundle", <<"b">>, ".md"), To("bundle", <<"d", "a">>, ".md"), To("relative", <<"..", "b">>, ".md"),
          To("relative", <<".", "a">>, ".md"), To("relative", <<"a">>, ""), To("bundle", <<".", "b">>, "#"),
          To("external", <<"b">>, ".md")}
A == <<"d", "a">>
B == <<"b">>
Index == <<"index">>

Plain == [p \in {A, B} |-> IF p = A THEN File("doc", {"x"}, <<Line("", {"y"}, {})>>) ELSE File("api", {"y"}, <<>>)]
Linked == {Plain @@ (Index :> File("doc", {}, <<Line("", {}, L), Line("h", {}, {})>>)) : L \in {Links, {To("relative", <<"b">>, ".md")}}}
            \cup {[Plain EXCEPT ![A].body = <<Line("h", {"y"}, Links), Line("h", {}, {})>>]}
Edited == {[Plain EXCEPT ![A].title = {}, ![A].body = <<>>],
           [Plain EXCEPT ![B].front = "open"], [Plain EXCEPT ![B].symlink = TRUE],
           [Plain EXCEPT ![B].type = NoType], [Plain EXCEPT ![B].type = Blank]}
MCDirectories == {Plain} \cup Edited \cup Linked

Method(parent) == [file |-> "m.py", kind |-> "method", name |-> "x", parent |-> parent]
MCRepositories == {<<Method("C"), Method("D")>>, <<Method("C")>>}
=============================================================================
