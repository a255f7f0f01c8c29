-------------------------- MODULE MCRepositoryIndex --------------------------
(***************************************************************************)
(* Small working trees for RepositoryIndex.                                *)
(***************************************************************************)
EXTENDS RepositoryIndex, TLC

Symmetry == Permutations(Indexer)

Roots == {"acme/app", "home/app"}
Names == [r \in Roots |-> "app"]

In(directories, name, suffix) ==
  [directories |-> directories, symlink |-> FALSE, name |-> name, suffix |-> suffix]

\* Sources with and without a parser, a suffix in capitals, and files that only
\* one of the filters keeps out.
Paths ==
  "app.py" :> In(<<>>, <<"app", "py">>, "py") @@
  "lib.min.js" :> In(<<"static">>, <<"lib", "min", "js">>, "js") @@
  "main.go" :> In(<<"cmd">>, <<"main", "GO">>, "go") @@
  "query.sql" :> In(<<>>, <<"query", "sql">>, "sql") @@
  "dist/app.js" :> In(<<"web", "dist">>, <<"app", "js">>, "js") @@
  ".env.py" :> In(<<>>, <<"", "env", "py">>, "py") @@
  "notes" :> In(<<>>, <<"notes">>, "")

Files == DOMAIN Paths

Text(text, symbols) ==
  [text |-> text, line_count |-> Len(text), symbols |-> symbols,
   decodable |-> TRUE, large |-> FALSE]

SymbolAt(chunk_type, name, first, last) ==
  [name |-> name, chunk_type |-> chunk_type, first |-> first, last |-> last,
   from |-> first, to |-> last]

\* A class with a method, a script without symbols, and its encoding broken.
WithClass ==
  Text(<<"c", "m", "s">>, <<SymbolAt("class", "C", 1, 2), SymbolAt("function", "m", 2, 2)>>)
Script == Text(<<"s">>, <<>>)
Latin1 == [WithClass EXCEPT !.decodable = FALSE]
Huge == [Script EXCEPT !.large = TRUE]
Bytes == Text(<<"NUL">>, <<>>)

\* A function on the second line of a text with a form feed in its first one.
PageBreak ==
  [Text(<<"a", "b", "f">>, <<[SymbolAt("function", "f", 2, 2) EXCEPT !.from = 3, !.to = 3]>>)
     EXCEPT !.line_count = 2]

Texts == {WithClass, Script, Latin1, Huge, Bytes, PageBreak}

\* Two clones of the same name: a Python project with a minified and a built
\* library, and a Go project with a query and two files to leave out; or the
\* second one without sources.
Tree(files) == [f \in Files |-> IF f \in DOMAIN files THEN files[f] ELSE Absent]

Clones ==
  LET python == Tree("app.py" :> WithClass @@ "lib.min.js" :> Script @@ "dist/app.js" :> Script)
  IN  {"acme/app" :> python @@ "home/app" :> go :
         go \in {Tree("main.go" :> Latin1 @@ "query.sql" :> WithClass
                       @@ ".env.py" :> Script @@ "notes" :> Bytes),
                  Tree(<<>>)}}
=============================================================================
