------------------------------ MODULE MCParsing ------------------------------
(***************************************************************************)
(* Small repositories for Parsing: per language, the ways in which classes *)
(* and functions lie in one another, one declaration of each kind, and     *)
(* broken files.                                                           *)
(***************************************************************************)
EXTENDS Parsing, TLC

N(type, parent, name) ==
  [type |-> type, parent |-> parent, named |-> name # "", name |-> name, scope |-> "",
   names |-> <<>>, declarator |-> <<>>]

\* A node with a name that the parser has put in.
NameMissing(type, parent) == [N(type, parent, "") EXCEPT !.named = TRUE]

Naming(type, parent, names) == [N(type, parent, "") EXCEPT !.names = names]

Good(t) == [decodes |-> TRUE, correct |-> TRUE, tree |-> t]

Broken(t) == [Good(t) EXCEPT !.correct = FALSE]
-----------------------------------------------------------------------------
\* A method with a function and a class inside, a method after a nested class, a
\* function after all of them.
PythonNested ==
  <<N("Import", 0, "") , N("ClassDef", 0, "A"), N("FunctionDef", 2, "m"),
    N("FunctionDef", 3, "inner"), N("ClassDef", 3, "Local"), N("AsyncFunctionDef", 5, "n"),
    N("FunctionDef", 2, "last"), N("If", 0, ""), N("FunctionDef", 8, "f")>>

PythonImports ==
  <<Naming("Import", 0, <<"os", "pkg.mod">>),
    [Naming("ImportFrom", 0, <<"x", "y">>) EXCEPT !.scope = "pkg"],
    N("FunctionDef", 0, "f"), Naming("ImportFrom", 3, <<"sibling">>),
    [N("ClassDef", 0, "B") EXCEPT !.names = <<"A">>], N("ClassDef", 5, "C"),
    N("FunctionDef", 5, "g")>>

PythonDeep == <<N("ClassDef", 0, "A")>> \o [i \in 1 .. 5 |-> N("BinOp", i, "")]

PythonContents ==
  {Good(PythonNested), Good(PythonImports), Good(PythonDeep), Broken(<<>>),
   [Good(<<>>) EXCEPT !.decodes = FALSE]}

\* A class without heritage around one with it; a class expression, whose methods
\* are nobody's; a function inside a method; a method after it.
Script ==
  <<Naming("import_statement", 0, <<"./util">>), N("class_declaration", 0, "A"),
    N("method_definition", 2, "m"), N("class_declaration", 3, "B"),
    Naming("class_heritage", 4, <<"Base">>), N("method_definition", 4, "m"),
    N("function_declaration", 3, "inner"), N("method_definition", 2, "last"),
    N("class", 0, ""), N("method_definition", 9, "lost")>>

JavaFile ==
  <<Naming("import_declaration", 0, <<"static", "pkg.Util">>),
    N("interface_declaration", 0, "I"), N("method_declaration", 2, "m"),
    N("class_declaration", 0, "A"), Naming("superclass", 4, <<"Base">>),
    Naming("super_interfaces", 4, <<"I">>), N("constructor_declaration", 4, "A"),
    N("class_declaration", 4, "Inner"), N("method_declaration", 8, "m"),
    N("object_creation_expression", 9, ""), N("method_declaration", 10, "lost")>>

GoFile ==
  <<Naming("import_spec", 0, <<"fmt">>), N("type_spec", 0, "T"), N("struct_type", 2, ""),
    N("type_spec", 0, "Alias"), N("function_declaration", 0, "f"),
    [N("method_declaration", 0, "m") EXCEPT !.scope = "T"], N("method_declaration", 0, "odd")>>

Plain == <<"function_declarator", "identifier">>
C(parent, name, declarator) ==
  [N("function_definition", parent, name) EXCEPT !.declarator = declarator]

CFile ==
  <<Naming("preproc_include", 0, <<"util.h">>), N("struct_specifier", 0, "S"),
    C(0, "f", Plain), C(0, "make", <<"pointer_declarator">> \o Plain),
    C(0, "", <<"function_declarator">>), C(0, "MACRO", <<"identifier">>)>>

CppFile ==
  <<N("class_specifier", 0, "A"), C(1, "m", Plain), N("struct_specifier", 2, "Local"),
    Naming("base_class_clause", 3, <<"Base">>), C(3, "n", Plain),
    N("struct_specifier", 1, ""), C(6, "o", Plain), C(1, "& last()", <<"reference_declarator">>),
    [C(0, "m", <<"function_declarator", "qualified_identifier">>) EXCEPT !.scope = "A"], C(0, "g", Plain)>>

\* Source in which the names of a class, a method and a function are missing.
BrokenScript ==
  <<NameMissing("class_declaration", 0), N("method_definition", 1, "m"),
    NameMissing("method_definition", 1), N("ERROR", 1, ""), N("method_definition", 4, "lost"),
    NameMissing("function_declaration", 0)>>

BrokenCpp ==
  <<NameMissing("struct_specifier", 0), C(1, "m", Plain), C(1, "", Plain),
    N("ERROR", 0, ""), C(4, "h", Plain)>>

DeepScript == <<N("class_declaration", 0, "A")>> \o [i \in 1 .. 5 |-> N("binary_expression", i, "")]
-----------------------------------------------------------------------------
Files ==
  {"a.py", "b.js", "b.ts", "B.java", "b.go", "b.c", "b.cc", "b.sql", "b.md"}

AllContents ==
  [p \in Files |->
     CASE p = "a.py" -> PythonContents
       [] p \in {"b.js", "b.ts"} -> {Good(Script), Broken(BrokenScript), Good(DeepScript)}
       [] p = "B.java" -> {Good(JavaFile)}
       [] p = "b.go" -> {Good(GoFile)}
       [] p = "b.c" -> {Good(CFile)}
       [] p = "b.cc" -> {Good(CppFile), Broken(BrokenCpp)}
       [] OTHER -> {}]

Listed(path, language) == [path |-> path, category |-> "source", language |-> language]

Python == Listed("a.py", "Python")

Document == [path |-> "b.md", category |-> "other", language |-> "Markdown"]

AllListings ==
  {<<f, Python>> : f \in
     {Listed("b.js", "JavaScript"), Listed("b.sql", "SQL"), Document}}
    \cup
  {<<Python, f>> : f \in
     {Listed("b.ts", "TypeScript"), Listed("B.java", "Java"), Listed("b.go", "Go"),
      Listed("b.c", "C"), Listed("b.cc", "C++")}}
=============================================================================
