------------------------------- MODULE Parsing -------------------------------
(***************************************************************************)
(* ParsingService.parse_repository: the source files that ingestion has    *)
(* listed are read one after the other, while others change them, and what *)
(* each of them declares is recorded.  Tree-sitter trees are searched in   *)
(* one step (SyntaxTrees); the tree of a Python file is walked node by     *)
(* node by a visitor that keeps a stack of class names.  Both recursions   *)
(* are as deep as the tree, and Python bounds them.                        *)
(***************************************************************************)
EXTENDS SyntaxTrees, FiniteSets

CONSTANTS
  Path,        \* relative paths
  Listings,    \* what ingestion may have listed: files in order, all different
  Contents,    \* what each path may hold
  Gone,        \* the state of a path that cannot be read
  MaxDepth,    \* bound of the interpreter: the levels of a tree it can descend
  MaxSeen      \* bound: the contents that one path has during the call

ListedFile == [path : Path, category : {"source", "other"}, language : STRING]

\* A content decodes or not, is correct or not, and has a tree.
ContentType == [decodes : BOOLEAN, correct : BOOLEAN, tree : Seq(Node)]

SUPPORTED_LANGUAGES == {"Python"} \cup EXTRACTORS

IsParsed(f) == f.category = "source" /\ f.language \in SUPPORTED_LANGUAGES

ASSUME ListingsAssumption ==
  \A l \in Listings :
    /\ l \in Seq(ListedFile)
    /\ \A i, j \in DOMAIN l : l[i].path = l[j].path => i = j
ASSUME ContentsAssumption ==
  \A p \in Path : Gone \notin Contents[p] /\ Contents[p] \subseteq ContentType
ASSUME NamesAssumption == None \notin STRING
ASSUME TreesAssumption ==
  \A l \in Listings : \A i \in DOMAIN l : IsParsed(l[i]) =>
    \A c \in Contents[l[i].path] : IsTreeOf(l[i].language, c.tree)
ASSUME DepthAssumption == MaxDepth \in Nat
ASSUME SeenAssumption == MaxSeen \in Nat

VARIABLES
  listing,      \* the files to parse
  source,       \* what each path holds
  seen,         \* history: what it has held since the call began
  stage,        \* "files", "python", "returned", "raised"
  position,     \* of the file at work, in the listing
  tree,         \* of the Python file at work
  open,         \* the nodes that the visitor is in, outermost first, 0 the module
  next,         \* the next node
  class_stack,  \* the visitor's stack of class names
  found,        \* what it has recorded
  parsed, skipped, errors   \* the result, skipped files and errors by their paths

parsing_vars ==
  <<listing, source, seen, stage, position, tree, open, next, class_stack, found,
    parsed, skipped, errors>>
outside == <<listing, source, seen>>
visitor == <<tree, open, next, class_stack, found>>

\* What a path may hold.
MayHold(p) == Contents[p] \cup {Gone}

ListedPaths(l) == {l[i].path : i \in DOMAIN l}

Nothing == [classes |-> <<>>, functions |-> <<>>, imports |-> <<>>]

Current == listing[position]

Depth(t) ==
  LET depths == {Cardinality(Enclosing(t)[n]) + 1 : n \in DOMAIN t}
  IN  IF depths = {} THEN 0 ELSE CHOOSE d \in depths : \A e \in depths : e <= d

ParsedFile(entities, failed) ==
  [path |-> Current.path, symbols |-> entities, failed |-> failed]

\* Mutant: what cannot be read is passed over.
ForgetUnreadable(path) == errors

ReportUnreadable(path) == Append(errors, path)
-----------------------------------------------------------------------------
AtFile == stage = "files" /\ position <= Len(listing)

Advance == position' = position + 1

SkipFile ==
  /\ AtFile
  /\ Current.category = "source" => Current.language \notin SUPPORTED_LANGUAGES
  /\ skipped' = IF Current.category = "source" THEN Append(skipped, Current.path) ELSE skipped
  /\ Advance
  /\ UNCHANGED <<outside, stage, visitor, parsed, errors>>

ReadFails ==
  /\ AtFile /\ IsParsed(Current)
  /\ source[Current.path] = Gone
  /\ errors' = ReportUnreadable(Current.path)
  /\ Advance
  /\ UNCHANGED <<outside, stage, visitor, parsed, skipped>>

\* A search that runs out of stack is one of the exceptions that are recorded;
\* a tree with errors is searched all the same.
parse_with_treesitter ==
  /\ AtFile /\ IsParsed(Current) /\ Current.language # "Python"
  /\ source[Current.path] # Gone
  /\ LET content == source[Current.path]
     IN  parsed' = Append(parsed,
           IF Depth(content.tree) > MaxDepth THEN ParsedFile(Nothing, TRUE)
           ELSE ParsedFile(Extract(Current.language, content.tree), ~ content.correct))
  /\ Advance
  /\ UNCHANGED <<outside, stage, visitor, skipped, errors>>

\* Not UTF-8, or a syntax error.
PythonFails ==
  /\ AtFile /\ IsParsed(Current) /\ Current.language = "Python"
  /\ source[Current.path] # Gone
  /\ ~ (source[Current.path].decodes /\ source[Current.path].correct)
  /\ parsed' = Append(parsed, ParsedFile(Nothing, TRUE))
  /\ Advance
  /\ UNCHANGED <<outside, stage, visitor, skipped, errors>>

StartVisit ==
  /\ AtFile /\ IsParsed(Current) /\ Current.language = "Python"
  /\ source[Current.path] # Gone
  /\ source[Current.path].decodes /\ source[Current.path].correct
  /\ stage' = "python"
  /\ tree' = source[Current.path].tree
  /\ open' = <<0>>
  /\ next' = 1
  /\ class_stack' = <<>>
  /\ found' = Nothing
  /\ UNCHANGED <<outside, position, parsed, skipped, errors>>
-----------------------------------------------------------------------------
IsClass(n) == n # 0 /\ tree[n].type = "ClassDef"

HasChild == next <= Len(tree) /\ tree[next].parent = Last(open)

\* Room for the next node's frame.
HasRoom == Len(open) <= MaxDepth

Descend == open' = Append(open, next) /\ next' = next + 1

visit_ClassDef ==
  /\ stage = "python" /\ HasChild /\ HasRoom /\ IsClass(next)
  /\ found' = [found EXCEPT !.classes = Append(@, ClassEntity(tree, next, tree[next].names))]
  /\ class_stack' = Append(class_stack, tree[next].name)
  /\ Descend
  /\ UNCHANGED <<outside, stage, position, tree, parsed, skipped, errors>>

_visit_function ==
  /\ stage = "python" /\ HasChild /\ HasRoom
  /\ tree[next].type \in {"FunctionDef", "AsyncFunctionDef"}
  /\ LET parent == IF class_stack = <<>> THEN None ELSE Last(class_stack)
     IN  found' = [found EXCEPT !.functions =
           Append(@, FunctionEntity(tree[next].name, next, parent, parent # None))]
  /\ Descend
  /\ UNCHANGED <<outside, stage, position, tree, class_stack, parsed, skipped, errors>>

\* One entity per alias, with the module in front of it if there is one.  How
\* many dots stood before the module is not looked at.
visit_Import ==
  /\ stage = "python" /\ HasChild /\ HasRoom
  /\ tree[next].type \in {"Import", "ImportFrom"}
  /\ LET module == IF tree[next].scope = "" THEN <<>> ELSE <<tree[next].scope>>
     IN  found' = [found EXCEPT !.imports =
           @ \o Each(tree[next].names, LAMBDA name : ImportEntity(next, Append(module, name)))]
  /\ Descend
  /\ UNCHANGED <<outside, stage, position, tree, class_stack, parsed, skipped, errors>>

generic_visit ==
  /\ stage = "python" /\ HasChild /\ HasRoom
  /\ tree[next].type \notin
       {"ClassDef", "FunctionDef", "AsyncFunctionDef", "Import", "ImportFrom"}
  /\ Descend
  /\ UNCHANGED <<outside, stage, position, tree, class_stack, found, parsed, skipped, errors>>

\* Mutant: the class stays on the stack when the visitor leaves it.
StayInClass(stack) == stack

PopClass(stack) == Front(stack)

Leave ==
  /\ stage = "python" /\ ~ HasChild /\ Len(open) > 1
  /\ open' = Front(open)
  /\ class_stack' = IF IsClass(Last(open)) THEN PopClass(class_stack) ELSE class_stack
  /\ UNCHANGED <<outside, stage, position, tree, next, found, parsed, skipped, errors>>

FinishVisit ==
  /\ stage = "python" /\ ~ HasChild /\ open = <<0>>
  /\ stage' = "files"
  /\ parsed' = Append(parsed, ParsedFile(found, FALSE))
  /\ Advance
  /\ UNCHANGED <<outside, visitor, skipped, errors>>

\* RecursionError is neither a SyntaxError nor a ValueError: it ends the call.
RunOutOfStack ==
  /\ stage = "python" /\ HasChild /\ ~ HasRoom
  /\ stage' = "raised"
  /\ UNCHANGED <<outside, position, visitor, parsed, skipped, errors>>

Return ==
  /\ stage = "files" /\ position > Len(listing)
  /\ stage' = "returned"
  /\ UNCHANGED <<outside, position, visitor, parsed, skipped, errors>>

\* Somebody writes a file, removes it or makes it unreadable.
ChangeFile(p) ==
  /\ \E v \in MayHold(p) :
       /\ source' = [source EXCEPT ![p] = v]
       /\ seen' = [seen EXCEPT ![p] = @ \cup {v}]
       /\ Cardinality(seen'[p]) <= MaxSeen
  /\ UNCHANGED <<listing, stage, position, visitor, parsed, skipped, errors>>
-----------------------------------------------------------------------------
ParsingInit ==
  /\ listing \in Listings
  /\ \E held \in [ListedPaths(listing) -> UNION {MayHold(p) : p \in Path}] :
       /\ \A p \in DOMAIN held : held[p] \in MayHold(p)
       /\ source = [p \in Path |-> IF p \in DOMAIN held THEN held[p] ELSE Gone]
  /\ seen = [p \in Path |-> {source[p]}]
  /\ stage = "files"
  /\ position = 1
  /\ tree = <<>> /\ open = <<0>> /\ next = 1 /\ class_stack = <<>> /\ found = Nothing
  /\ parsed = <<>> /\ skipped = <<>> /\ errors = <<>>

ParsingNext ==
  \/ SkipFile \/ ReadFails
  \/ parse_with_treesitter
  \/ PythonFails \/ StartVisit
  \/ visit_ClassDef \/ _visit_function \/ visit_Import \/ generic_visit
  \/ Leave \/ FinishVisit \/ RunOutOfStack
  \/ Return
  \/ \E p \in ListedPaths(listing) : ChangeFile(p)

ParsingSpec == ParsingInit /\ [][ParsingNext]_parsing_vars
-----------------------------------------------------------------------------
(* Properties. *)

\* A function with a class is a method; one of Go may be a method all the same.
FunctionSymbol ==
  {f \in [name : STRING, at : Nat, parent_class : STRING \cup {None}, is_method : BOOLEAN] :
     f.parent_class # None => f.is_method}

Symbols ==
  [classes : Seq([name : STRING, at : Nat, base_classes : Seq(STRING)]),
   functions : Seq(FunctionSymbol),
   imports : Seq([module : Seq(STRING), at : Nat])]

\* The types of the variables.
ParsingTypeOK ==
  /\ listing \in Listings
  /\ \A p \in Path : source[p] \in MayHold(p) /\ seen[p] \subseteq MayHold(p)
  /\ stage \in {"files", "python", "returned", "raised"}
  /\ position \in 1 .. Len(listing) + 1
  /\ tree \in Seq(Node) /\ open \in Seq(0 .. Len(tree)) /\ next \in 1 .. Len(tree) + 1
  /\ class_stack \in Seq(STRING)
  /\ found \in Symbols
  /\ parsed \in Seq([path : Path, symbols : Symbols, failed : BOOLEAN])
  /\ skipped \in Seq(Path) /\ errors \in Seq(Path)

\* Only the extractor of C and C++ asks whether a class has a name.
IsAnonymous(language, node) == language \in {"C", "C++"} /\ ~ node.named

DeclaresClass(language, t, n) ==
  \/ language # "C" /\ t[n].type \in ClassTypes(language) /\ ~ IsAnonymous(language, t[n])
  \/ /\ language = "Go" /\ t[n].type = "type_spec"
     /\ \E m \in DOMAIN t : t[m].parent = n /\ t[m].type \in {"struct_type", "interface_type"}

\* Members of object literals, enums and classes without a name are left out, and
\* so is what has no name in C and C++.
DeclaresFunction(language, t, n) ==
  /\ t[n].type \in FunctionTypes(language)
  /\ language \in {"C", "C++"} => t[n].name # ""
  /\ language = "Java" \/ t[n].type = "method_definition" =>
       t[n].parent # 0 /\ DeclaresClass(language, t, t[n].parent)

\* The class that a function names itself, as in C++ and Go, or the innermost one
\* around it, whatever functions lie between them.  JavaScript's functions, which
\* are no methods, belong to none.
Owner(language, t, n) ==
  LET around == {m \in Enclosing(t)[n] : t[m].type \in ClassTypes(language)}
      inner == CHOOSE m \in around : \A o \in around : o <= m
  IN  IF t[n].scope # "" THEN t[n].scope
      ELSE IF \/ t[n].type = "function_declaration"
              \/ around = {} \/ IsAnonymous(language, t[inner]) THEN None
      ELSE t[inner].name

\* A Python function that lies in another one, with no class between them.
IsClosure(language, t, n) ==
  /\ language = "Python"
  /\ \E m \in Enclosing(t)[n] :
       /\ t[m].type \in FunctionTypes(language)
       /\ \A o \in Enclosing(t)[n] : t[o].type \in ClassTypes(language) => o < m

\* The documentation of the parser denies that closures are methods
\* (ClosuresAreNoMethods): the class of one in a method is not settled here.
Describes(symbols, language, t) ==
  /\ Each(symbols.classes, LAMBDA c : c.at) =
       Nodes(t, {n \in DOMAIN t : DeclaresClass(language, t, n)})
  /\ \A i, j \in DOMAIN symbols.functions :
       symbols.functions[i].at = symbols.functions[j].at => i = j
  /\ {f.at : f \in Range(symbols.functions)} = {n \in DOMAIN t : DeclaresFunction(language, t, n)}
  /\ \A f \in Range(symbols.functions) :
       \/ f.parent_class = Owner(language, t, f.at)
       \/ f.parent_class = None /\ IsClosure(language, t, f.at)

LanguageOf(p) == listing[CHOOSE i \in DOMAIN listing : listing[i].path = p].language

\* "the immediate enclosing class, not a full nesting chain"
\* (python_parser.py:7-9), "avoid e.g. matching a nested class's methods as the
\* outer class's" (ts_utils.py:33-34): what is recorded of a file are the
\* classes and functions of one content that it had during the call, each once,
\* each function with the class it belongs to; or nothing, with an error.  This
\* holds of broken files too.  Classes are those of ClassTypes: a TypeScript
\* interface is none, though models.py:38 reads "class (or struct/interface,
\* where the language has an equivalent)".
SymbolsAreThoseDeclared ==
  \A i \in DOMAIN parsed :
    LET p == parsed[i]
    IN  \/ p.failed /\ p.symbols = Nothing
        \/ \E c \in seen[p.path] \ {Gone} :
             /\ Describes(p.symbols, LanguageOf(p.path), c.tree)
             /\ p.failed => ~ c.correct

\* "Functions nested inside other functions (closures) are extracted as
\* top-level-looking entities with `is_method=False`" (python_parser.py:10-12).
\* The visitor looks at its stack of classes only, so that a function in a method
\* is recorded as a method of the class.
ClosuresAreNoMethods ==
  \A i \in DOMAIN parsed :
    LET p == parsed[i]
    IN  \/ p.failed
        \/ \E c \in seen[p.path] \ {Gone} :
             /\ Describes(p.symbols, LanguageOf(p.path), c.tree)
             /\ \A f \in Range(p.symbols.functions) :
                  IsClosure(LanguageOf(p.path), c.tree, f.at) => ~ f.is_method

\* "recorded as skipped rather than silently dropped" (service.py:5-7), "must not
\* abort the run" (treesitter_parser.py:33): a call that returns has every source
\* file in just one of its three lists, once, in the order of the listing, as
\* unreadable only if it was, and as wrong only if it was or was too deep.
FilesAreAccountedFor ==
  LET done == {i \in DOMAIN listing : i < position /\ listing[i].category = "source"}
      PathsOf(S) == Each(InOrder(Len(listing), S), LAMBDA i : listing[i].path)
      supported == {i \in done : listing[i].language \in SUPPORTED_LANGUAGES}
      unreadable == {i \in done : listing[i].path \in Range(errors)}
  IN  /\ Each(parsed, LAMBDA p : p.path) = PathsOf(supported \ unreadable)
      /\ skipped = PathsOf(done \ supported)
      /\ errors = PathsOf(unreadable)
      /\ \A p \in Range(errors) : Gone \in seen[p]
      /\ \A p \in Range(parsed) : p.failed =>
           \E c \in seen[p.path] \ {Gone} :
             ~ c.correct \/ ~ c.decodes \/ Depth(c.tree) > MaxDepth
=============================================================================
