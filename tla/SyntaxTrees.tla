----------------------------- MODULE SyntaxTrees -----------------------------
(***************************************************************************)
(* What the extractors take out of a Tree-sitter tree: the classes,        *)
(* functions and imports of a file, as parsing/languages.py finds them for *)
(* each grammar with the search primitives of parsing/ts_utils.py.         *)
(*                                                                         *)
(* A tree is the sequence of its nodes in pre-order; a node knows the      *)
(* index of its parent, 0 for the root, which is not in the sequence.      *)
(* Bodies are left out: what a class body holds are children of the class. *)
(* The index of a node stands for its lines.  Parameters are left out, and *)
(* qualified_name, which is parent_class and name.                         *)
(***************************************************************************)
EXTENDS Naturals, Sequences, SequencesExt

CONSTANT None      \* no class

\* named: there is a child for the name, whose text is name; the text is empty
\* where there is none, and where the parser has put in a name that the source
\* lacks.  scope: the qualifier of a C++ name, the type of a Go receiver, the
\* module of a Python import.  names: base classes, or what is imported.
\* declarator: the types of a C or C++ function's declarators, from the outside in.
Node == [type : STRING, parent : Nat, named : BOOLEAN, name : STRING, scope : STRING,
         names : Seq(STRING), declarator : Seq(STRING)]

\* The nodes above each node.
Enclosing(t) ==
  LET above[n \in DOMAIN t] ==
        IF t[n].parent = 0 THEN {} ELSE {t[n].parent} \cup above[t[n].parent]
  IN  above

\* The numbers up to N that are in S, in ascending order.
InOrder(N, S) ==
  LET upto[n \in 0 .. N] ==
        IF n = 0 THEN <<>> ELSE IF n \in S THEN Append(upto[n - 1], n) ELSE upto[n - 1]
  IN  upto[N]

\* Nodes of t, in pre-order.
Nodes(t, S) == InOrder(Len(t), S)

\* With stop_types empty, as it always is.
all_descendants_of_type(t, n, types) ==
  Nodes(t, {m \in DOMAIN t : t[m].type \in types /\ (n = 0 \/ n \in Enclosing(t)[m])})

\* Mutant: the methods of a nested class are found in the outer one too.
DescendantsToo(t, n, types) == all_descendants_of_type(t, n, types)

direct_children_of_type(t, n, types) ==
  Nodes(t, {m \in DOMAIN t : t[m].type \in types /\ t[m].parent = n})

\* The names at the first of the nodes, if there is one: of all descendants, it
\* is first_descendant_of_type.
NamesAtFirst(t, nodes) == IF nodes = <<>> THEN <<>> ELSE t[nodes[1]].names

Each(nodes, Entity(_)) == [i \in DOMAIN nodes |-> Entity(nodes[i])]

ClassEntity(t, n, bases) == [name |-> t[n].name, at |-> n, base_classes |-> bases]

\* Mutant: the test for a class is turned round.
MethodsTurned(name, n, parent, method) ==
  [name |-> name, at |-> n, parent_class |-> parent, is_method |-> ~ method]

FunctionEntity(name, n, parent, method) ==
  [name |-> name, at |-> n, parent_class |-> parent, is_method |-> method]

ImportEntity(n, module) == [module |-> module, at |-> n]

\* The methods that are members of the classes, class by class.
MethodsOf(t, classes, types) ==
  FlattenSeq(Each(classes, LAMBDA c :
    Each(direct_children_of_type(t, c, types), LAMBDA f :
      FunctionEntity(t[f].name, f, t[c].name, TRUE))))

FunctionsOf(t, type) ==
  Each(all_descendants_of_type(t, 0, {type}), LAMBDA f :
    FunctionEntity(t[f].name, f, None, FALSE))

ImportsOf(t, type) ==
  Each(all_descendants_of_type(t, 0, {type}), LAMBDA n : ImportEntity(n, t[n].names))
-----------------------------------------------------------------------------
\* The heritage is the first one below the class: if the class has none, that
\* of a class inside it.
_extract_js_family(t) ==
  LET classes == all_descendants_of_type(t, 0, {"class_declaration"})
  IN  [classes |-> Each(classes, LAMBDA c :
         ClassEntity(t, c, NamesAtFirst(t, all_descendants_of_type(t, c, {"class_heritage"})))),
       functions |-> MethodsOf(t, classes, {"method_definition"})
                       \o FunctionsOf(t, "function_declaration"),
       imports |-> ImportsOf(t, "import_statement")]

\* Superclass and interfaces are fields of the class itself.  An import is the
\* text of the statement without the first "static", which should be a keyword.
_extract_java(t) ==
  LET classes == all_descendants_of_type(t, 0, {"class_declaration", "interface_declaration"})
      Field(c, type) == NamesAtFirst(t, direct_children_of_type(t, c, {type}))
  IN  [classes |-> Each(classes, LAMBDA c :
         ClassEntity(t, c, Field(c, "superclass") \o Field(c, "super_interfaces"))),
       functions |-> MethodsOf(t, classes, {"method_declaration", "constructor_declaration"}),
       imports |-> Each(all_descendants_of_type(t, 0, {"import_declaration"}), LAMBDA n :
         ImportEntity(n, RemoveFirst(t[n].names, "static")))]

\* _go_receiver_type_name, whose pointer is taken off; "or None".
GoReceiver(node) == IF node.scope = "" THEN None ELSE node.scope

_extract_go(t) ==
  LET types == Nodes(t, {n \in DOMAIN t :
                 /\ t[n].type = "type_spec"
                 /\ direct_children_of_type(t, n, {"struct_type", "interface_type"}) # <<>>})
  IN  [classes |-> Each(types, LAMBDA n : ClassEntity(t, n, <<>>)),
       functions |-> FunctionsOf(t, "function_declaration")
         \o Each(all_descendants_of_type(t, 0, {"method_declaration"}), LAMBDA f :
              FunctionEntity(t[f].name, f, GoReceiver(t[f]), TRUE)),
       imports |-> ImportsOf(t, "import_spec")]
-----------------------------------------------------------------------------
CppClass == {"class_specifier", "struct_specifier"}

\* The declarators from the first one that is no pointer or reference; of a
\* chain of nothing else, its end.
Unwrapped(declarator) ==
  LET inner == {i \in DOMAIN declarator :
                  \/ declarator[i] \notin {"pointer_declarator", "reference_declarator"}
                  \/ i = Len(declarator)}
  IN  SubSeq(declarator, CHOOSE i \in inner : \A j \in inner : i <= j, Len(declarator))

Nameless(node) ==
  node.declarator = <<>> \/ Unwrapped(node.declarator) = <<"function_declarator">>

Qualified(node) ==
  /\ node.declarator # <<>>
  /\ LET d == Unwrapped(node.declarator)
     IN  Len(d) > 1 /\ d[1] = "function_declarator" /\ d[2] = "qualified_identifier"

\* The name, empty if there is none, and the class that the name itself gives.
_function_name_and_parent(node) ==
  IF Nameless(node) THEN <<"", None>>
  ELSE <<node.name, IF Qualified(node) /\ node.scope # "" THEN node.scope ELSE None>>

\* The innermost class or struct around a function; none if that is anonymous.
EnclosingClass(t, n) ==
  LET around == {m \in Enclosing(t)[n] : t[m].type \in CppClass}
      inner == CHOOSE m \in around : \A o \in around : o <= m
  IN  IF around = {} \/ ~ t[inner].named THEN None ELSE t[inner].name

_extract_c_like(t, with_classes) ==
  LET classes ==
        IF ~ with_classes THEN <<>>
        ELSE Nodes(t, {c \in DOMAIN t : t[c].type \in CppClass /\ t[c].named})
      functions ==
        Nodes(t, {f \in DOMAIN t : /\ t[f].type = "function_definition"
                                   /\ _function_name_and_parent(t[f])[1] # ""})
      Parent(f) ==
        LET scope == _function_name_and_parent(t[f])[2]
        IN  IF scope # None THEN scope ELSE EnclosingClass(t, f)
  IN  [classes |-> Each(classes, LAMBDA c :
         ClassEntity(t, c, NamesAtFirst(t, all_descendants_of_type(t, c, {"base_class_clause"})))),
       functions |-> Each(functions, LAMBDA f :
         FunctionEntity(t[f].name, f, Parent(f), Parent(f) # None)),
       imports |-> ImportsOf(t, "preproc_include")]

EXTRACTORS ==
  {"JavaScript", "JSX", "TypeScript", "TSX", "Java", "Go", "C", "C++"}

Extract(language, t) ==
  CASE language \in {"JavaScript", "JSX", "TypeScript", "TSX"} -> _extract_js_family(t)
    [] language = "Java" -> _extract_java(t)
    [] language = "Go" -> _extract_go(t)
    [] language = "C" -> _extract_c_like(t, FALSE)
    [] language = "C++" -> _extract_c_like(t, TRUE)
-----------------------------------------------------------------------------
(* What the grammars and Python's ast call a class and a function.  That of   *)
(* TypeScript has abstract classes and interfaces too, and that of Java enums  *)
(* and records, which the extractors do not look for.                          *)

ClassTypes(language) ==
  CASE language = "Python" -> {"ClassDef"}
    [] language = "Java" -> {"class_declaration", "interface_declaration"}
    [] language = "Go" -> {}
    [] language \in {"C", "C++"} -> CppClass
    [] OTHER -> {"class_declaration"}

FunctionTypes(language) ==
  CASE language = "Python" -> {"FunctionDef", "AsyncFunctionDef"}
    [] language = "Java" -> {"method_declaration", "constructor_declaration"}
    [] language = "Go" -> {"function_declaration", "method_declaration"}
    [] language \in {"C", "C++"} -> {"function_definition"}
    [] OTHER -> {"function_declaration", "method_definition"}

\* The parent of a node in pre-order is the node before it or one around that.
IsTree(t) ==
  /\ t \in Seq(Node)
  /\ \A n \in DOMAIN t :
       /\ t[n].parent < n
       /\ n > 1 => t[n].parent \in {0, n - 1} \cup Enclosing(t)[n - 1]

\* What the fields of a function's node mean: in C and C++, its name is that in
\* its declarator, and only a qualified name has a scope; elsewhere only the
\* receiver of a Go method is one.
IsRead(language, node) ==
  IF language \in {"C", "C++"}
  THEN /\ Nameless(node) => node.name = ""
       /\ node.scope # "" => Qualified(node)
  ELSE node.scope # "" => node.type = "method_declaration" /\ language = "Go"

\* Any tree that a parser may give, of correct source and of broken: its nodes may
\* lie in one another in any way, and names may be missing or empty.
IsTreeOf(language, t) ==
  /\ IsTree(t)
  /\ \A n \in DOMAIN t : t[n].type \in FunctionTypes(language) => IsRead(language, t[n])
=============================================================================
