----------------------------- MODULE CodeGraph -----------------------------
(***************************************************************************)
(* The knowledge graph of a repository: its nodes and relationships, what  *)
(* ingestion and parsing hand to its builder, and the graph that the       *)
(* docstring of graph/builder.py promises for it.                          *)
(*                                                                         *)
(* One repository is modelled; its root path, a key of every node, is left *)
(* out.  A relative path is the sequence of its parts.                     *)
(***************************************************************************)
EXTENDS Naturals, Sequences

CONSTANTS
  File,         \* relative paths of the files that can be ingested
  Name,         \* names of classes and functions
  Module,       \* import strings, as the parser records them
  None,         \* no name: a function outside a class, an unresolved import
  Candidates    \* the paths tried for a file and an import string, in order

Path == Seq(STRING)

\* Each file is somewhere, and resolution tries files.
ASSUME FileAssumption == \A f \in File : f \in Path /\ f # <<>>
ASSUME CandidatesAssumption == Candidates \in [File \X Module -> Seq(Path)]
ASSUME NoneAssumption == None \notin File
-----------------------------------------------------------------------------
(* What parsing extracts from a file, and what a builder starts from. *)

ClassEntity == [name : Name, base_classes : SUBSET Name]

\* qualified_name is parent_class and name.
FunctionEntity == [parent_class : Name \cup {None}, name : Name]

\* The classes keep their order: a name can be defined twice, and the later
\* definition overwrites the properties of the earlier one.
ParsedFile == [classes   : Seq(ClassEntity),
               functions : SUBSET FunctionEntity,
               imports   : SUBSET Module]

\* A file that was not or could not be parsed adds what an empty one adds.
EmptyFile == [classes |-> <<>>, functions |-> {}, imports |-> {}]

Snapshot == [files : SUBSET File, parsed : [File -> ParsedFile]]

Defines(s, f, n) ==
  \E i \in DOMAIN s.parsed[f].classes : s.parsed[f].classes[i].name = n

\* What was found, as rows of a file and an entity of it.
ClassRows(s) == {r \in s.files \X Name : Defines(s, r[1], r[2])}

FunctionRows(s) == {r \in s.files \X FunctionEntity : r[2] \in s.parsed[r[1]].functions}

MethodRows(s) == {r \in FunctionRows(s) : r[2].parent_class # None}

ImportRows(s) == {r \in s.files \X Module : r[2] \in s.parsed[r[1]].imports}

\* Rows of a file, a class of it and a base class that it names.
BaseRows(s) ==
  {r \in s.files \X Name \X Name :
     \E i \in DOMAIN s.parsed[r[1]].classes :
       LET c == s.parsed[r[1]].classes[i]
       IN  c.name = r[2] /\ r[3] \in c.base_classes}

\* Every definition of a class n in the repository, as file and position.
class_index(s, n) ==
  {d \in UNION {{f} \X DOMAIN s.parsed[f].classes : f \in s.files} :
     s.parsed[d[1]].classes[d[2]].name = n}

\* The first candidate that is a file of the repository.
resolve_import_to_file(s, f, m) ==
  LET candidates == Candidates[<<f, m>>]
      hits == {i \in DOMAIN candidates : candidates[i] \in s.files}
  IN  IF hits = {} THEN None
      ELSE candidates[CHOOSE i \in hits : \A j \in hits : i <= j]

\* The folders above a path.
Above(p) == {SubSeq(p, 1, n) : n \in 1 .. Len(p) - 1}

ParentOf(p) == SubSeq(p, 1, Len(p) - 1)

Folders(s) == UNION {Above(f) : f \in s.files}
-----------------------------------------------------------------------------
(* Nodes, each by its uniqueness constraint (graph/schema.py), and edges. *)

Node(label, path, parent, name) ==
  [label |-> label, path |-> path, parent_class |-> parent, name |-> name]

RepositoryNode == Node("Repository", <<>>, None, None)
FolderNode(p) == Node("Folder", p, None, None)
FileNode(f) == Node("File", f, None, None)
ClassNode(f, n) == Node("Class", f, None, n)
FunctionNode(f, fn) == Node("Function", f, fn.parent_class, fn.name)
ModuleNode(m) == Node("Module", <<>>, None, m)

\* What contains a path: the folder above it, or the repository.
ContainerNode(p) ==
  IF Len(p) = 1 THEN RepositoryNode ELSE FolderNode(ParentOf(p))

Edge(type, from, to) == [type |-> type, from |-> from, to |-> to]

Label == {"Repository", "Folder", "File", "Class", "Function", "Module"}

NodeType == [label : Label, path : Path, parent_class : Name \cup {None},
             name : Name \cup Module \cup {None}]

EdgeType ==
  [type : {"CONTAINS", "DEFINES", "IMPORTS", "RESOLVES_TO", "INHERITS"},
   from : NodeType, to : NodeType]

\* As statements draw them: a class and a function have a name, a method is linked
\* to its class in the same file, and INHERITS joins two classes.
Drawn ==
  {e \in EdgeType :
     /\ \A n \in {e.from, e.to} : n.label \in {"Class", "Function"} => n.name \in Name
     /\ e.type = "DEFINES" /\ e.from.label = "Class" =>
          e.to.label = "Function" /\ e.from = ClassNode(e.to.path, e.to.parent_class)
     /\ e.type = "INHERITS" => e.from.label = "Class" /\ e.to.label = "Class"}
-----------------------------------------------------------------------------
(* The graph promised for a snapshot s, relation by relation. *)

ExpectedNodes(s) ==
  {RepositoryNode}
  \cup {FolderNode(p) : p \in Folders(s)}
  \cup {FileNode(f) : f \in s.files}
  \cup {ClassNode(r[1], r[2]) : r \in ClassRows(s)}
  \cup {FunctionNode(r[1], r[2]) : r \in FunctionRows(s)}
  \cup {ModuleNode(r[2]) : r \in ImportRows(s)}

\* Repository -> Folder -> ... -> File, from the relative paths alone.
Contains(s) ==
  {Edge("CONTAINS", ContainerNode(p), FolderNode(p)) : p \in Folders(s)}
  \cup {Edge("CONTAINS", ContainerNode(f), FileNode(f)) : f \in s.files}

\* File -> Class and File -> top-level Function.
DefinesInFile(s) ==
  {Edge("DEFINES", FileNode(r[1]), ClassNode(r[1], r[2])) : r \in ClassRows(s)}
  \cup {Edge("DEFINES", FileNode(r[1]), FunctionNode(r[1], r[2])) :
           r \in FunctionRows(s) \ MethodRows(s)}

\* Class -> method Function.
DefinesMethod(s) ==
  {Edge("DEFINES", ClassNode(r[1], r[2].parent_class), FunctionNode(r[1], r[2])) :
     r \in MethodRows(s)}

\* File -> Module, always.
Imports(s) == {Edge("IMPORTS", FileNode(r[1]), ModuleNode(r[2])) : r \in ImportRows(s)}

\* Module -> File, where the import matches a file of the repository.
Resolves(s) ==
  {Edge("RESOLVES_TO", ModuleNode(r[2]), FileNode(resolve_import_to_file(s, r[1], r[2]))) :
     r \in {x \in ImportRows(s) : resolve_import_to_file(s, x[1], x[2]) # None}}

\* Class -> Class, where the name of the base is defined exactly once.
Inherits(s) ==
  {Edge("INHERITS", ClassNode(x[1][1], x[1][2]), ClassNode(x[2], x[1][3])) :
     x \in {y \in BaseRows(s) \X s.files :
             \E i \in DOMAIN s.parsed[y[2]].classes :
               class_index(s, y[1][3]) = {<<y[2], i>>}}}

\* All that may be drawn for s.
AllowedEdges(s) ==
  Contains(s) \cup DefinesInFile(s) \cup DefinesMethod(s) \cup Imports(s)
  \cup Resolves(s) \cup Inherits(s)

\* All that must be drawn for s: a method is linked to its class where its
\* own file defines that class.
ExpectedEdges(s) ==
  {e \in AllowedEdges(s) : e.from \in ExpectedNodes(s) /\ e.to \in ExpectedNodes(s)}
=============================================================================
