-------------------------- MODULE MCRepositoryTools --------------------------
(***************************************************************************)
(* A small working tree for RepositoryTools: a source, one that only its   *)
(* name keeps out, a file that is never shown and one of unknown kind.     *)
(***************************************************************************)
EXTENDS RepositoryTools

In(directories, name, suffix) ==
  [directories |-> directories, symlink |-> FALSE, name |-> name, suffix |-> suffix]

Paths ==
  "src/app.py" :> In(<<"src">>, <<"app", "py">>, "py") @@
  "src/lib.min.js" :> In(<<"src">>, <<"lib", "min", "js">>, "js") @@
  ".env.py" :> In(<<>>, <<"", "env", "py">>, "py") @@
  "src/dist/logo" :> In(<<"src", "dist">>, <<"logo">>, "") @@
  "notes" :> In(<<>>, <<"notes">>, "")

Files == DOMAIN Paths

Plain ==
  [text |-> <<"x">>, decodable |-> TRUE, large |-> FALSE, long |-> FALSE, deep |-> FALSE]
Long == [Plain EXCEPT !.long = TRUE]
Huge == [Long EXCEPT !.large = TRUE]
Deep == [Plain EXCEPT !.deep = TRUE]
Bytes == [Plain EXCEPT !.text = <<"NUL">>, !.decodable = FALSE]

Contents == {Plain, Long, Huge, Deep, Bytes}

SmallTrees == {[[f \in Files |-> Plain] EXCEPT !["notes"] = v] : v \in {Huge, Folder}}
-----------------------------------------------------------------------------
Call(tool, path, directory) ==
  [tool |-> tool, valid |-> TRUE, complete |-> TRUE, path |-> path, directory |-> directory]

AnyQuery == Call("graph_query", "outside", <<>>)

Calls ==
  {Call(t, f, <<>>) : t \in {"read_file", "analyze_code"},
                      f \in {"src/app.py", "src/lib.min.js", ".env.py", "notes", "outside"}} \cup
  {Call("list_files", "outside", d) : d \in {<<>>, <<"src">>, <<"dist">>}} \cup
  {Call("list_files", "notes", <<>>)} \cup
  {Call(t, "outside", <<>>) : t \in {"search_code", "search_symbol", "get_callers", "write_file"}} \cup
  {AnyQuery, [AnyQuery EXCEPT !.complete = FALSE], [AnyQuery EXCEPT !.valid = FALSE]}
=============================================================================
