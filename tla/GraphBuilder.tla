---------------------------- MODULE GraphBuilder ----------------------------
(***************************************************************************)
(* Building the knowledge graph: a builder lists the files of the working  *)
(* tree, parses them one after the other, and then writes the graph in     *)
(* eleven Cypher statements, each a transaction of its own.  Builders run  *)
(* beside each other and beside whoever edits the tree, any of them may    *)
(* stop between two statements, and the graph is never cleared.            *)
(***************************************************************************)
EXTENDS CodeGraph

CONSTANTS
  Builder,    \* whoever builds the graph of this repository
  NoJob,      \* no build under way
  Absent,     \* a file that is not in the tree
  Trees,      \* the working trees the repository goes through
  MaxBuilds,  \* bound: builds begun
  MaxEdits    \* bound: changes of the tree

ASSUME TreesAssumption == Trees \subseteq [File -> ParsedFile \cup {Absent}]
ASSUME AbsentAssumption == Absent \notin ParsedFile
ASSUME BoundsAssumption == MaxBuilds \in Nat /\ MaxEdits \in Nat

VARIABLES
  tree,              \* the working tree, each file as its parser reads it
  nodes,             \* the nodes of the graph
  edges,             \* its relationships
  base_class_names,  \* the property of each Class node
  pc,                \* where each builder is
  job,               \* what each builder has read, and what is left to do
  builds,            \* builds begun so far
  edits              \* changes of the tree so far

vars == <<tree, nodes, edges, base_class_names, pc, job, builds, edits>>
-----------------------------------------------------------------------------
(* The statements for a snapshot s.  A statement MERGEs some nodes, then    *)
(* MERGEs the relationships whose two ends its MATCH clauses find.          *)

Statement(merge, link) == [merge |-> merge, link |-> link]

MergeRepository == Statement({RepositoryNode}, {})

MergeRootFolders(s) ==
  LET root_folders == {p \in Folders(s) : Len(p) = 1}
  IN  Statement({FolderNode(p) : p \in root_folders},
                {Edge("CONTAINS", RepositoryNode, FolderNode(p)) : p \in root_folders})

MergeNestedFolders(s) ==
  LET nested == {p \in Folders(s) : Len(p) > 1}
  IN  Statement({FolderNode(p) : p \in nested} \cup {FolderNode(ParentOf(p)) : p \in nested},
                {Edge("CONTAINS", FolderNode(ParentOf(p)), FolderNode(p)) : p \in nested})

MergeRootFiles(s) ==
  LET files_at_root == {f \in s.files : Len(f) = 1}
  IN  Statement({FileNode(f) : f \in files_at_root},
                {Edge("CONTAINS", RepositoryNode, FileNode(f)) : f \in files_at_root})

MergeFilesInFolders(s) ==
  LET files_in_folder == {f \in s.files : Len(f) > 1}
  IN  Statement({FileNode(f) : f \in files_in_folder},
                {Edge("CONTAINS", FolderNode(ParentOf(f)), FileNode(f)) : f \in files_in_folder})

MergeClasses(s) ==
  Statement({ClassNode(r[1], r[2]) : r \in ClassRows(s)},
            {Edge("DEFINES", FileNode(r[1]), ClassNode(r[1], r[2])) : r \in ClassRows(s)})

\* Mutant: a method is also a function of its file.
MergeFunctionsAndMethods(s) ==
  Statement({FunctionNode(r[1], r[2]) : r \in FunctionRows(s)},
            {Edge("DEFINES", FileNode(r[1]), FunctionNode(r[1], r[2])) : r \in FunctionRows(s)})

MergeFunctions(s) ==
  LET top_level_function_rows == FunctionRows(s) \ MethodRows(s)
  IN  Statement({FunctionNode(r[1], r[2]) : r \in top_level_function_rows},
                {Edge("DEFINES", FileNode(r[1]), FunctionNode(r[1], r[2])) :
                   r \in top_level_function_rows})

\* The node of a method is merged before its class is matched: without the
\* class in the same file it stays, and nothing leads to it.
MergeMethods(s) ==
  Statement({FunctionNode(r[1], r[2]) : r \in MethodRows(s)},
            {Edge("DEFINES", ClassNode(r[1], r[2].parent_class), FunctionNode(r[1], r[2])) :
               r \in MethodRows(s)})

MergeImports(s) ==
  Statement({ModuleNode(r[2]) : r \in ImportRows(s)},
            {Edge("IMPORTS", FileNode(r[1]), ModuleNode(r[2])) : r \in ImportRows(s)})

ResolvedEdge(s, r) ==
  Edge("RESOLVES_TO", ModuleNode(r[2]), FileNode(resolve_import_to_file(s, r[1], r[2])))

\* Mutant: an import that resolves to nothing is a file all the same.
LinkModulesAlways(s) ==
  Statement({FileNode(resolve_import_to_file(s, r[1], r[2])) : r \in ImportRows(s)},
            {ResolvedEdge(s, r) : r \in ImportRows(s)})

LinkModules(s) ==
  Statement({}, {ResolvedEdge(s, r) :
                   r \in {x \in ImportRows(s) : resolve_import_to_file(s, x[1], x[2]) # None}})

InheritsEdge(r, d) == Edge("INHERITS", ClassNode(r[1], r[2]), ClassNode(d[1], r[3]))

\* Mutant: any class of that name is the base.
LinkBasesByName(s) ==
  Statement({}, UNION {{InheritsEdge(r, d) : d \in class_index(s, r[3])} : r \in BaseRows(s)})

LinkBases(s) ==
  LET only(n) == {d \in class_index(s, n) : class_index(s, n) = {d}}
  IN  Statement({}, UNION {{InheritsEdge(r, d) : d \in only(r[3])} : r \in BaseRows(s)})

\* Mutant: files before the folders that contain them.
StatementsFilesFirst(s) ==
  <<MergeRepository, MergeRootFiles(s), MergeFilesInFolders(s),
    MergeRootFolders(s), MergeNestedFolders(s),
    MergeClasses(s), MergeFunctions(s), MergeMethods(s),
    MergeImports(s), LinkModules(s), LinkBases(s)>>

Statements(s) ==
  <<MergeRepository, MergeRootFolders(s), MergeNestedFolders(s),
    MergeRootFiles(s), MergeFilesInFolders(s),
    MergeClasses(s), MergeFunctions(s), MergeMethods(s),
    MergeImports(s), LinkModules(s), LinkBases(s)>>

Last == 11

ClassStatement == 6
-----------------------------------------------------------------------------
(* Steps of a builder. *)

\* The job of a builder: the files listed, the files parsed so far, those left
\* to parse, the next statement, and whether no other build overlapped it.
NewJob(files, alone) ==
  [files |-> files, parsed |-> [f \in File |-> EmptyFile], todo |-> files,
   next |-> 1, alone |-> alone]

SnapshotOf(j) == [files |-> j.files, parsed |-> j.parsed]

Active(b) == pc[b] \in {"parse", "build"}

AfterParse(todo) == IF todo = {} THEN "build" ELSE "parse"

\* The files of the tree are listed.  Builds that overlap are marked.
Ingest(b) ==
  LET files == {f \in File : tree[f] # Absent}
      alone == \A c \in Builder : ~ Active(c)
  IN  /\ ~ Active(b)
      /\ builds < MaxBuilds
      /\ builds' = builds + 1
      /\ pc' = [pc EXCEPT ![b] = AfterParse(files)]
      /\ job' = [c \in Builder |->
                   IF c = b THEN NewJob(files, alone)
                   ELSE IF Active(c) THEN [job[c] EXCEPT !.alone = FALSE] ELSE job[c]]
      /\ UNCHANGED <<tree, nodes, edges, base_class_names, edits>>

\* A listed file is read and parsed as it is now; one that is gone is skipped.
ParseFile(b, f) ==
  LET todo == job[b].todo \ {f}
  IN  /\ pc[b] = "parse"
      /\ f \in job[b].todo
      /\ job' = [job EXCEPT ![b].todo = todo,
                            ![b].parsed[f] = IF tree[f] = Absent THEN EmptyFile ELSE tree[f]]
      /\ pc' = [pc EXCEPT ![b] = AfterParse(todo)]
      /\ UNCHANGED <<tree, nodes, edges, base_class_names, builds, edits>>

\* Mutant: a class that is already there keeps its properties.
SetBaseClassNamesOnCreate(s) ==
  [c \in DOMAIN base_class_names |->
     LET classes == s.parsed[c[1]].classes
         rows == {i \in DOMAIN classes : classes[i].name = c[2]}
     IN  IF c[1] \notin s.files \/ rows = {} \/ ClassNode(c[1], c[2]) \in nodes
         THEN base_class_names[c]
         ELSE classes[CHOOSE i \in rows : \A j \in rows : j <= i].base_classes]

\* The SET of MergeClasses: of two definitions in a file the later one wins.
SetBaseClassNames(s) ==
  [c \in DOMAIN base_class_names |->
     LET classes == s.parsed[c[1]].classes
         rows == {i \in DOMAIN classes : classes[i].name = c[2]}
     IN  IF c[1] \notin s.files \/ rows = {} THEN base_class_names[c]
         ELSE classes[CHOOSE i \in rows : \A j \in rows : j <= i].base_classes]

\* The next statement of the build runs and commits.
RunStatement(b) ==
  LET s == SnapshotOf(job[b])
      n == job[b].next
      st == Statements(s)[n]
  IN  /\ pc[b] = "build"
      /\ n <= Last
      /\ nodes' = nodes \cup st.merge
      /\ edges' = edges \cup {e \in st.link : e.from \in nodes' /\ e.to \in nodes'}
      /\ base_class_names' =
           IF n = ClassStatement THEN SetBaseClassNames(s) ELSE base_class_names
      /\ job' = [job EXCEPT ![b].next = n + 1]
      /\ UNCHANGED <<tree, pc, builds, edits>>

\* build() returns.
Finish(b) ==
  /\ pc[b] = "build"
  /\ job[b].next > Last
  /\ pc' = [pc EXCEPT ![b] = "built"]
  /\ job' = [job EXCEPT ![b] = NoJob]
  /\ UNCHANGED <<tree, nodes, edges, base_class_names, builds, edits>>

\* A statement raises, or the process dies; what was committed stays.
Fail(b) ==
  /\ Active(b)
  /\ pc' = [pc EXCEPT ![b] = "failed"]
  /\ job' = [job EXCEPT ![b] = NoJob]
  /\ UNCHANGED <<tree, nodes, edges, base_class_names, builds, edits>>

\* Somebody changes the working tree.
Edit ==
  /\ edits < MaxEdits
  /\ edits' = edits + 1
  /\ tree' \in Trees \ {tree}
  /\ UNCHANGED <<nodes, edges, base_class_names, pc, job, builds>>
-----------------------------------------------------------------------------
Init ==
  /\ tree \in Trees
  /\ nodes = {}
  /\ edges = {}
  /\ base_class_names = [c \in File \X Name |-> {}]
  /\ pc = [b \in Builder |-> "idle"]
  /\ job = [b \in Builder |-> NoJob]
  /\ builds = 0
  /\ edits = 0

BuilderStep(b) ==
  \/ Ingest(b)
  \/ \E f \in File : ParseFile(b, f)
  \/ RunStatement(b)
  \/ Finish(b)
  \/ Fail(b)

Next == Edit \/ \E b \in Builder : BuilderStep(b)

Spec == Init /\ [][Next]_vars
-----------------------------------------------------------------------------
(* Properties. *)

Job == [files : SUBSET File, parsed : [File -> ParsedFile], todo : SUBSET File,
        next : 1 .. Last + 1, alone : BOOLEAN]

\* The types of the variables.
TypeOK ==
  /\ tree \in Trees
  /\ nodes \subseteq NodeType
  /\ edges \subseteq Drawn
  /\ base_class_names \in [File \X Name -> SUBSET Name]
  /\ pc \in [Builder -> {"idle", "parse", "build", "built", "failed"}]
  /\ job \in [Builder -> Job \cup {NoJob}]
  /\ builds \in 0 .. MaxBuilds
  /\ edits \in 0 .. MaxEdits

\* A build that is about to return.
Complete(b) == pc[b] = "build" /\ job[b].next > Last

\* Whatever was interrupted, interleaved or left half done, no query can lose
\* its way: the ends of every relationship are there, folders and files hang
\* from the repository and classes from a file, all along their paths.  (The
\* statements commit one by one; the order in build() is what this rests on.)
NothingIsCutOff ==
  /\ \A e \in edges : e.from \in nodes /\ e.to \in nodes
  /\ \A n \in nodes :
       /\ n.label \in {"Folder", "File"} =>
            Edge("CONTAINS", ContainerNode(n.path), n) \in edges
       /\ n.label = "Class" => Edge("DEFINES", FileNode(n.path), n) \in edges

\* "Nothing is silently dropped" (graph/builder.py:17): when a build returns,
\* all that its snapshot calls for is in the graph, also where a MATCH that
\* finds nothing would have dropped a row without an error.
BuildIsComplete ==
  \A b \in Builder : Complete(b) =>
    /\ ExpectedNodes(SnapshotOf(job[b])) \subseteq nodes
    /\ ExpectedEdges(SnapshotOf(job[b])) \subseteq edges

\* "The same repository can be re-indexed without creating duplicates"
\* (graph/schema.py): as long as the tree stays as it is, every build that
\* returns leaves exactly the graph of that tree, whatever other builds write
\* at the same time and whichever of them stopped half-way before.
RebuildConverges ==
  edits = 0 =>
    \A b \in Builder : Complete(b) =>
      /\ nodes = ExpectedNodes(SnapshotOf(job[b]))
      /\ edges = ExpectedEdges(SnapshotOf(job[b]))

\* "The raw base-class names are still kept" (graph/builder.py:16-17): a build
\* that no other build overlapped leaves on every class the base-class names
\* that it has parsed, also on a class that was there before.
BaseNamesAreKept ==
  \A b \in Builder : Complete(b) /\ job[b].alone =>
    \A f \in job[b].files : \A i \in DOMAIN job[b].parsed[f].classes :
      LET classes == job[b].parsed[f].classes
      IN  (\A j \in DOMAIN classes : classes[j].name = classes[i].name => j <= i)
          => base_class_names[<<f, classes[i].name>>] = classes[i].base_classes

\* A build that returns has lost nothing of its snapshot on the way.
SnapshotIsWritten == BuildIsComplete /\ BaseNamesAreKept

\* What each builder writes, as GraphGrowth has it.
Growth ==
  INSTANCE GraphGrowth WITH
    job <- [b \in Builder |-> IF pc[b] = "build" THEN SnapshotOf(job[b]) ELSE NoJob],
    phase <- pc

\* Builders only ever add what their snapshot allows, and return only when all
\* of it is there: the abstract specification of a growing graph.
ImplementsGrowth == Growth!Spec
=============================================================================
