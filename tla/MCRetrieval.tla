---------------------------- MODULE MCRetrieval ----------------------------
(***************************************************************************)
(* A small store for Retrieval: a class with two methods, a class derived  *)
(* from it and a script that imports it, and a clone of one method.        *)
(***************************************************************************)
EXTENDS Retrieval

a == <<"a">>
b == <<"b">>
c == <<"c">>

Files == {a, b, c}
Names == {"A", "B", "f", "g", "main"}
NoCandidates == [i \in Files \X {"a"} |-> <<>>]

\* What is stored of it, and how it fares with the question.
Chunk(id, repository, path, chunk_type, name, size, distance, rank) ==
  [id |-> id, repository_id |-> repository, path |-> path, chunk_type |-> chunk_type,
   qualified_name |-> name, size |-> size, distance |-> distance, rank |-> rank]

Classes == {Chunk(1, "app", a, "class", <<None, "A">>, 4, 40, 0),
            Chunk(4, "app", b, "class", <<None, "B">>, 3, 110, 3)}
Functions == {Chunk(2, "app", a, "function", <<"A", "f">>, 2, 80, 6),
              Chunk(5, "app", c, "function", <<None, "main">>, 3, 60, 0)}
Later == {Chunk(3, "app", a, "function", <<"A", "g">>, 2, 150, 0),
          Chunk(6, "app", c, "file", None, 9, 120, 6)}
Clone == {Chunk(7, "clone", a, "function", <<"A", "f">>, 2, 80, 6)}

AllBatches == {Classes \cup Functions, Later, Clone}

A == ClassNode(a, "A")
B == ClassNode(b, "B")
Method(name) == FunctionNode(a, [parent_class |-> "A", name |-> name])
Main == FunctionNode(c, [parent_class |-> None, name |-> "main"])

Growth(edgeset) == [repository_id |-> "app", edges |-> edgeset]

AllGrowths ==
  {Growth({Edge("DEFINES", FileNode(a), A), Edge("DEFINES", FileNode(b), B),
           Edge("DEFINES", FileNode(c), Main), Edge("DEFINES", A, Method("f")),
           Edge("DEFINES", A, Method("g"))}),
   Growth({Edge("IMPORTS", FileNode(b), ModuleNode("a")), Edge("IMPORTS", FileNode(c), ModuleNode("a")),
           Edge("RESOLVES_TO", ModuleNode("a"), FileNode(a))}),
   Growth({Edge("INHERITS", B, A)})}

Ask3(kind, repository, chunk_type) ==
  [kind |-> kind, repository_id |-> repository, chunk_type |-> chunk_type]

AllQuestions ==
  {Ask3("hybrid", "app", None), Ask3("hybrid", "app", "function"),
   Ask3("rag", None, None), Ask3("rag", "clone", "function")}
=============================================================================
