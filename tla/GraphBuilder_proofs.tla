------------------------ MODULE GraphBuilder_proofs ------------------------
(***************************************************************************)
(* Proofs about GraphBuilder, for every repository, every set of builders  *)
(* and every course of edits: no node is cut off at any time, a build that *)
(* returns is complete and, on a tree that stays as it is, exact, and      *)
(* builders implement GraphGrowth.                                         *)
(***************************************************************************)
EXTENDS GraphBuilder, SequenceTheorems, WellFoundedInduction, TLAPS

-----------------------------------------------------------------------------
(* Least and greatest numbers. *)

\* Every non-empty set of numbers has a least one.
LEMMA LeastExists ==
  ASSUME NEW T, T \subseteq Nat, T # {}
  PROVE  \E x \in T : \A y \in T : x <= y
<1> DEFINE R == {ss \in Nat \X Nat : ss[1] < ss[2]}
<1>1. IsWellFoundedOn(R, Nat)
  BY NatLessThanWellFounded DEF OpToRel
<1>2. PICK x \in T : \A y \in T : ~ (<<y, x>> \in R)
  <2> HIDE DEF R
  <2> QED BY <1>1, WFMin
<1>3. ASSUME NEW y \in T PROVE x <= y
  <2>1. x \in Nat /\ y \in Nat
    OBVIOUS
  <2>2. <<y, x>> \in Nat \X Nat /\ <<y, x>>[1] = y /\ <<y, x>>[2] = x
    BY <2>1
  <2>3. ~ (y < x)
    BY <1>2, <2>2
  <2>4. QED
    BY <2>1, <2>3
<1>4. QED
  BY <1>3

\* And every non-empty set of positions of a sequence has a last one.
LEMMA GreatestExists ==
  ASSUME NEW n \in Nat, NEW T, T \subseteq 1 .. n, T # {}
  PROVE  \E x \in T : \A y \in T : y <= x
<1> DEFINE U == {n - x : x \in T}
<1>1. U \subseteq Nat
  OBVIOUS
<1>2. U # {}
  <2>1. PICK x \in T : TRUE
    OBVIOUS
  <2>2. n - x \in U
    BY <2>1
  <2>3. QED
    BY <2>2
<1>3. PICK u \in U : \A v \in U : u <= v
  <2> HIDE DEF U
  <2> QED BY <1>1, <1>2, LeastExists
<1>4. PICK x \in T : u = n - x
  BY <1>3
<1>5. ASSUME NEW y \in T PROVE y <= x
  <2>1. n - x <= n - y
    BY <1>3, <1>4
  <2>2. QED
    BY <2>1
<1>6. QED
  BY <1>5
-----------------------------------------------------------------------------
(* Paths. *)

\* A folder above a path is a shorter prefix of it.
LEMMA AbovePrefix ==
  ASSUME NEW p \in Path, NEW q \in Above(p)
  PROVE  /\ q \in Path
         /\ Len(q) \in 1 .. Len(p) - 1
         /\ q = SubSeq(p, 1, Len(q))
<1>1. PICK n \in 1 .. Len(p) - 1 : q = SubSeq(p, 1, n)
  BY DEF Above
<1>2. /\ Len(p) \in Nat
      /\ \A i \in 1 .. n : p[i] \in STRING
      /\ 1 \in Int /\ n \in Int
  BY <1>1, LenProperties, ElementOfSeq DEF Path
<1>3. SubSeq(p, 1, n) \in Seq(STRING) /\ Len(SubSeq(p, 1, n)) = n
  BY <1>1, <1>2, SubSeqProperties
<1>4. QED
  BY <1>1, <1>3 DEF Path

\* The folder of a file is above it, and so is the folder of a folder.
LEMMA ParentIsAbove ==
  ASSUME NEW p \in Path, Len(p) > 1
  PROVE  ParentOf(p) \in Above(p)
BY LenProperties DEF ParentOf, Above, Path

LEMMA ParentStaysAbove ==
  ASSUME NEW p \in Path, NEW q \in Above(p), Len(q) > 1
  PROVE  ParentOf(q) \in Above(p)
<1>1. /\ q \in Path /\ p \in Seq(STRING)
      /\ Len(q) \in 1 .. Len(p) - 1
      /\ q = SubSeq(p, 1, Len(q))
      /\ Len(p) \in Nat
  BY AbovePrefix, LenProperties DEF Path
<1>2. DEFINE n == Len(q)
<1>3. SubSeq(SubSeq(p, 1, n), 1, n - 1) = SubSeq(p, 1, n - 1)
  <2>1. /\ 1 \in 1 .. Len(p) /\ n \in 1 .. Len(p)
        /\ 1 \in 1 .. n - 1 + 1 /\ n - 1 \in 1 .. n - 1 + 1
        /\ 1 + 1 - 1 = 1 /\ 1 + (n - 1) - 1 = n - 1
    BY <1>1
  <2>2. SubSeq(SubSeq(p, 1, n), 1, n - 1) = SubSeq(p, 1 + 1 - 1, 1 + (n - 1) - 1)
    BY <1>1, <2>1, SubSeqOfSubSeq
  <2>3. QED
    BY <2>1, <2>2
<1>4. ParentOf(q) = SubSeq(p, 1, n - 1)
  BY <1>1, <1>3 DEF ParentOf
<1>5. n - 1 \in 1 .. Len(p) - 1
  BY <1>1
<1>6. QED
  BY <1>4, <1>5 DEF Above

LEMMA OneOrMore == \A n \in Nat : n # 0 => n = 1 \/ n > 1
OBVIOUS

LEMMA FilesArePaths == \A f \in File : f \in Path /\ Len(f) \in Nat /\ Len(f) # 0
BY FileAssumption, LenProperties, EmptySeq DEF Path

\* The folders of a snapshot are paths, and closed under parents.
LEMMA FolderPaths ==
  ASSUME NEW s, s.files \subseteq File, NEW p \in Folders(s)
  PROVE  /\ p \in Path /\ Len(p) \in Nat /\ Len(p) # 0
         /\ Len(p) > 1 => ParentOf(p) \in Folders(s)
<1>1. PICK f \in s.files : p \in Above(f)
  BY DEF Folders
<1>2. f \in Path /\ p \in Path /\ Len(p) \in 1 .. Len(f) - 1 /\ Len(f) \in Nat
  BY <1>1, FilesArePaths, AbovePrefix
<1>3. Len(p) > 1 => ParentOf(p) \in Above(f)
  BY <1>1, <1>2, ParentStaysAbove
<1>4. QED
  BY <1>1, <1>2, <1>3 DEF Folders

LEMMA FileParent ==
  ASSUME NEW s, s.files \subseteq File, NEW f \in s.files, Len(f) > 1
  PROVE  ParentOf(f) \in Folders(s)
BY FilesArePaths, ParentIsAbove DEF Folders
-----------------------------------------------------------------------------
(* The statements: what each of them writes is what its snapshot allows.   *)

LEMMA StatementAt ==
  ASSUME NEW s
  PROVE  /\ Statements(s)[1] = MergeRepository
         /\ Statements(s)[2] = MergeRootFolders(s)
         /\ Statements(s)[3] = MergeNestedFolders(s)
         /\ Statements(s)[4] = MergeRootFiles(s)
         /\ Statements(s)[5] = MergeFilesInFolders(s)
         /\ Statements(s)[6] = MergeClasses(s)
         /\ Statements(s)[7] = MergeFunctions(s)
         /\ Statements(s)[8] = MergeMethods(s)
         /\ Statements(s)[9] = MergeImports(s)
         /\ Statements(s)[10] = LinkModules(s)
         /\ Statements(s)[11] = LinkBases(s)
BY DEF Statements

Sound(s, st) ==
  /\ st.merge \subseteq ExpectedNodes(s)
  /\ st.link \subseteq AllowedEdges(s)

\* The snapshots a builder works on.
Proper(s) == s.files \subseteq File

LEMMA SoundRepository == ASSUME NEW s PROVE Sound(s, MergeRepository)
BY DEF Sound, MergeRepository, Statement, ExpectedNodes

LEMMA SoundRootFolders == ASSUME NEW s, Proper(s) PROVE Sound(s, MergeRootFolders(s))
<1>1. ASSUME NEW p \in Folders(s), Len(p) = 1 PROVE ContainerNode(p) = RepositoryNode
  BY <1>1 DEF ContainerNode
<1>2. QED
  BY <1>1 DEF Sound, MergeRootFolders, Statement, ExpectedNodes, AllowedEdges, Contains

LEMMA SoundNestedFolders == ASSUME NEW s, Proper(s) PROVE Sound(s, MergeNestedFolders(s))
<1>1. ASSUME NEW p \in Folders(s), Len(p) > 1
      PROVE  ContainerNode(p) = FolderNode(ParentOf(p)) /\ ParentOf(p) \in Folders(s)
  BY <1>1, FolderPaths DEF ContainerNode, Proper
<1>2. QED
  BY <1>1 DEF Sound, MergeNestedFolders, Statement, ExpectedNodes, AllowedEdges, Contains

LEMMA SoundRootFiles == ASSUME NEW s, Proper(s) PROVE Sound(s, MergeRootFiles(s))
<1>1. ASSUME NEW f \in s.files, Len(f) = 1 PROVE ContainerNode(f) = RepositoryNode
  BY <1>1 DEF ContainerNode
<1>2. QED
  BY <1>1 DEF Sound, MergeRootFiles, Statement, ExpectedNodes, AllowedEdges, Contains

LEMMA SoundFilesInFolders == ASSUME NEW s, Proper(s) PROVE Sound(s, MergeFilesInFolders(s))
<1>1. ASSUME NEW f \in s.files, Len(f) > 1 PROVE ContainerNode(f) = FolderNode(ParentOf(f))
  <2>1. ~ (1 > 1)
    OBVIOUS
  <2>2. Len(f) # 1
    BY <1>1, <2>1
  <2>3. QED
    BY <2>2 DEF ContainerNode
<1>2. QED
  BY <1>1 DEF Sound, MergeFilesInFolders, Statement, ExpectedNodes, AllowedEdges, Contains

LEMMA SoundClasses == ASSUME NEW s PROVE Sound(s, MergeClasses(s))
BY DEF Sound, MergeClasses, Statement, ExpectedNodes, AllowedEdges, DefinesInFile

LEMMA SoundFunctions == ASSUME NEW s PROVE Sound(s, MergeFunctions(s))
BY DEF Sound, MergeFunctions, Statement, ExpectedNodes, AllowedEdges, DefinesInFile

LEMMA SoundMethods == ASSUME NEW s PROVE Sound(s, MergeMethods(s))
BY DEF Sound, MergeMethods, Statement, ExpectedNodes, AllowedEdges, DefinesMethod, MethodRows

LEMMA SoundImports == ASSUME NEW s PROVE Sound(s, MergeImports(s))
BY DEF Sound, MergeImports, Statement, ExpectedNodes, AllowedEdges, Imports

LEMMA SoundModules == ASSUME NEW s PROVE Sound(s, LinkModules(s))
BY DEF Sound, LinkModules, ResolvedEdge, Statement, ExpectedNodes, AllowedEdges, Resolves

\* The one definition of a name that is defined once.
LEMMA OnlyDefinition ==
  ASSUME NEW s, NEW n, NEW d, class_index(s, n) = {d}
  PROVE  d[1] \in s.files /\ \E i \in DOMAIN s.parsed[d[1]].classes : d = <<d[1], i>>
<1>1. d \in UNION {{f} \X DOMAIN s.parsed[f].classes : f \in s.files}
  BY DEF class_index
<1>2. PICK f \in s.files : d \in {f} \X DOMAIN s.parsed[f].classes
  BY <1>1
<1>3. QED
  BY <1>2

LEMMA SoundBases == ASSUME NEW s PROVE Sound(s, LinkBases(s))
<1> DEFINE only(n) == {d \in class_index(s, n) : class_index(s, n) = {d}}
           link == UNION {{InheritsEdge(r, d) : d \in only(r[3])} : r \in BaseRows(s)}
<1>1. LinkBases(s).merge = {} /\ LinkBases(s).link = link
  BY DEF LinkBases, Statement
<1>2. ASSUME NEW e \in link PROVE e \in Inherits(s)
  <2>1. PICK r \in BaseRows(s) : e \in {InheritsEdge(r, d) : d \in only(r[3])}
    BY <1>2
  <2>2. PICK d \in only(r[3]) : e = InheritsEdge(r, d)
    BY <2>1
  <2>3. class_index(s, r[3]) = {d}
    BY <2>2
  <2>4. d[1] \in s.files /\ \E i \in DOMAIN s.parsed[d[1]].classes : d = <<d[1], i>>
    BY <2>3, OnlyDefinition
  <2>5. DEFINE y == <<r, d[1]>>
  <2>6. y \in BaseRows(s) \X s.files /\ y[1] = r /\ y[2] = d[1]
    BY <2>4
  <2>7. \E i \in DOMAIN s.parsed[y[2]].classes : class_index(s, y[1][3]) = {<<y[2], i>>}
    BY <2>3, <2>4, <2>6
  <2>8. e = Edge("INHERITS", ClassNode(y[1][1], y[1][2]), ClassNode(y[2], y[1][3]))
    BY <2>2, <2>6 DEF InheritsEdge
  <2>9. QED
    <3> HIDE DEF y
    <3> QED BY <2>6, <2>7, <2>8 DEF Inherits
<1>3. QED
  BY <1>1, <1>2 DEF Sound, AllowedEdges

\* No statement writes what its snapshot does not allow.
LEMMA StatementsSound ==
  ASSUME NEW s, Proper(s), NEW n \in 1 .. Last
  PROVE  Sound(s, Statements(s)[n])
<1>1. n \in {1, 2, 3, 4, 5, 6, 7, 8, 9, 10, 11}
  BY DEF Last
<1>2. QED
  BY <1>1, StatementAt, SoundRepository, SoundRootFolders, SoundNestedFolders, SoundRootFiles,
     SoundFilesInFolders, SoundClasses, SoundFunctions, SoundMethods, SoundImports,
     SoundModules, SoundBases
-----------------------------------------------------------------------------
(* What a build has written after each of its statements. *)

Linked(N, E, e) == e.to \in N /\ e \in E

HasRepository(N) == RepositoryNode \in N

HasRootFolders(s, N, E) ==
  \A p \in Folders(s) :
    Len(p) = 1 => Linked(N, E, Edge("CONTAINS", ContainerNode(p), FolderNode(p)))

HasFolders(s, N, E) ==
  \A p \in Folders(s) : Linked(N, E, Edge("CONTAINS", ContainerNode(p), FolderNode(p)))

HasRootFiles(s, N, E) ==
  \A f \in s.files :
    Len(f) = 1 => Linked(N, E, Edge("CONTAINS", ContainerNode(f), FileNode(f)))

HasFiles(s, N, E) ==
  \A f \in s.files : Linked(N, E, Edge("CONTAINS", ContainerNode(f), FileNode(f)))

HasClasses(s, N, E) ==
  \A r \in ClassRows(s) :
    Linked(N, E, Edge("DEFINES", FileNode(r[1]), ClassNode(r[1], r[2])))

HasFunctions(s, N, E) ==
  \A r \in FunctionRows(s) \ MethodRows(s) :
    Linked(N, E, Edge("DEFINES", FileNode(r[1]), FunctionNode(r[1], r[2])))

\* The link is owed only where the file of the method defines the class.
OwesMethods(s, N, E) ==
  \A r \in MethodRows(s) :
    /\ FunctionNode(r[1], r[2]) \in N
    /\ Defines(s, r[1], r[2].parent_class) =>
         Edge("DEFINES", ClassNode(r[1], r[2].parent_class), FunctionNode(r[1], r[2])) \in E

HasImports(s, N, E) ==
  \A r \in ImportRows(s) :
    Linked(N, E, Edge("IMPORTS", FileNode(r[1]), ModuleNode(r[2])))

HasResolved(s, E) == Resolves(s) \subseteq E

HasBases(s, E) == Inherits(s) \subseteq E

\* A build whose next statement is n.
Progress(s, n, N, E) ==
  /\ n > 1 => HasRepository(N)
  /\ n > 2 => HasRootFolders(s, N, E)
  /\ n > 3 => HasFolders(s, N, E)
  /\ n > 4 => HasRootFiles(s, N, E)
  /\ n > 5 => HasFiles(s, N, E)
  /\ n > 6 => HasClasses(s, N, E)
  /\ n > 7 => HasFunctions(s, N, E)
  /\ n > 8 => OwesMethods(s, N, E)
  /\ n > 9 => HasImports(s, N, E)
  /\ n > 10 => HasResolved(s, E)
  /\ n > 11 => HasBases(s, E)

\* Nothing that was written is lost by writing more.
LEMMA ProgressStays ==
  ASSUME NEW s, NEW n \in Nat, NEW N, NEW E, NEW N2, NEW E2,
         N \subseteq N2, E \subseteq E2, Progress(s, n, N, E)
  PROVE  Progress(s, n, N2, E2)
<1>1. /\ HasRepository(N) => HasRepository(N2)
      /\ HasRootFolders(s, N, E) => HasRootFolders(s, N2, E2)
      /\ HasFolders(s, N, E) => HasFolders(s, N2, E2)
      /\ HasRootFiles(s, N, E) => HasRootFiles(s, N2, E2)
      /\ HasFiles(s, N, E) => HasFiles(s, N2, E2)
  BY DEF HasRepository, HasRootFolders, HasFolders, HasRootFiles, HasFiles, Linked
<1>2. /\ HasClasses(s, N, E) => HasClasses(s, N2, E2)
      /\ HasFunctions(s, N, E) => HasFunctions(s, N2, E2)
      /\ OwesMethods(s, N, E) => OwesMethods(s, N2, E2)
      /\ HasImports(s, N, E) => HasImports(s, N2, E2)
      /\ HasResolved(s, E) => HasResolved(s, E2)
      /\ HasBases(s, E) => HasBases(s, E2)
  BY DEF HasClasses, HasFunctions, OwesMethods, HasImports, HasResolved, HasBases, Linked
<1>3. QED
  BY <1>1, <1>2 DEF Progress

\* The effect of a statement on the graph.
Effect(st, N, E, N2, E2) ==
  /\ N2 = N \cup st.merge
  /\ E2 = E \cup {e \in st.link : e.from \in N2 /\ e.to \in N2}

LEMMA AddRootFolders ==
  ASSUME NEW s, NEW N, NEW E, NEW N2, NEW E2,
         HasRepository(N), Effect(MergeRootFolders(s), N, E, N2, E2)
  PROVE  HasRootFolders(s, N2, E2)
BY DEF HasRepository, HasRootFolders, MergeRootFolders, Statement, Effect, Linked, Edge,
       ContainerNode

LEMMA AddNestedFolders ==
  ASSUME NEW s, Proper(s), NEW N, NEW E, NEW N2, NEW E2,
         HasRootFolders(s, N, E), Effect(MergeNestedFolders(s), N, E, N2, E2)
  PROVE  HasFolders(s, N2, E2)
<1>1. SUFFICES ASSUME NEW p \in Folders(s)
               PROVE  Linked(N2, E2, Edge("CONTAINS", ContainerNode(p), FolderNode(p)))
  BY DEF HasFolders
<1>2. CASE Len(p) = 1
  BY <1>2 DEF HasRootFolders, Effect, Linked
<1>3. CASE Len(p) > 1
  <2>1. ContainerNode(p) = FolderNode(ParentOf(p))
    <3>1. ~ (1 > 1)
      OBVIOUS
    <3>2. QED
      BY <1>3, <3>1 DEF ContainerNode
  <2>2. QED
    BY <1>3, <2>1 DEF MergeNestedFolders, Statement, Effect, Linked, Edge
<1>4. Len(p) = 1 \/ Len(p) > 1
  <2>1. Len(p) \in Nat /\ Len(p) # 0
    BY FolderPaths DEF Proper
  <2>2. QED
    BY <2>1, OneOrMore
<1>5. QED
  BY <1>2, <1>3, <1>4

LEMMA AddRootFiles ==
  ASSUME NEW s, NEW N, NEW E, NEW N2, NEW E2,
         HasRepository(N), Effect(MergeRootFiles(s), N, E, N2, E2)
  PROVE  HasRootFiles(s, N2, E2)
BY DEF HasRepository, HasRootFiles, MergeRootFiles, Statement, Effect, Linked, Edge,
       ContainerNode

LEMMA AddFilesInFolders ==
  ASSUME NEW s, Proper(s), NEW N, NEW E, NEW N2, NEW E2,
         HasFolders(s, N, E), HasRootFiles(s, N, E),
         Effect(MergeFilesInFolders(s), N, E, N2, E2)
  PROVE  HasFiles(s, N2, E2)
<1>1. SUFFICES ASSUME NEW f \in s.files
               PROVE  Linked(N2, E2, Edge("CONTAINS", ContainerNode(f), FileNode(f)))
  BY DEF HasFiles
<1>2. CASE Len(f) = 1
  BY <1>2 DEF HasRootFiles, Effect, Linked
<1>3. CASE Len(f) > 1
  <2>1. ContainerNode(f) = FolderNode(ParentOf(f))
    <3>1. ~ (1 > 1)
      OBVIOUS
    <3>2. QED
      BY <1>3, <3>1 DEF ContainerNode
  <2>2. FolderNode(ParentOf(f)) \in N
    BY <1>3, FileParent DEF Proper, HasFolders, Linked, Edge
  <2>3. QED
    BY <1>3, <2>1, <2>2 DEF MergeFilesInFolders, Statement, Effect, Linked, Edge
<1>4. Len(f) = 1 \/ Len(f) > 1
  <2>1. Len(f) \in Nat /\ Len(f) # 0
    BY FilesArePaths DEF Proper
  <2>2. QED
    BY <2>1, OneOrMore
<1>5. QED
  BY <1>2, <1>3, <1>4

LEMMA AddClasses ==
  ASSUME NEW s, NEW N, NEW E, NEW N2, NEW E2,
         HasFiles(s, N, E), Effect(MergeClasses(s), N, E, N2, E2)
  PROVE  HasClasses(s, N2, E2)
<1>1. ASSUME NEW r \in ClassRows(s) PROVE FileNode(r[1]) \in N
  BY DEF ClassRows, HasFiles, Linked, Edge
<1>2. QED
  BY <1>1 DEF HasClasses, MergeClasses, Statement, Effect, Linked, Edge

LEMMA AddFunctions ==
  ASSUME NEW s, NEW N, NEW E, NEW N2, NEW E2,
         HasFiles(s, N, E), Effect(MergeFunctions(s), N, E, N2, E2)
  PROVE  HasFunctions(s, N2, E2)
<1>1. ASSUME NEW r \in FunctionRows(s) PROVE FileNode(r[1]) \in N
  BY DEF FunctionRows, HasFiles, Linked, Edge
<1>2. QED
  BY <1>1 DEF HasFunctions, MergeFunctions, Statement, Effect, Linked, Edge

LEMMA AddMethods ==
  ASSUME NEW s, s \in Snapshot, NEW N, NEW E, NEW N2, NEW E2,
         HasClasses(s, N, E), Effect(MergeMethods(s), N, E, N2, E2)
  PROVE  OwesMethods(s, N2, E2)
<1>1. ASSUME NEW r \in MethodRows(s), Defines(s, r[1], r[2].parent_class)
      PROVE  ClassNode(r[1], r[2].parent_class) \in N
  <2>1. r[1] \in s.files /\ r[2].parent_class \in Name
    BY DEF MethodRows, FunctionRows, FunctionEntity
  <2>2. DEFINE c == <<r[1], r[2].parent_class>>
  <2>3. c \in ClassRows(s) /\ c[1] = r[1] /\ c[2] = r[2].parent_class
    BY <1>1, <2>1 DEF ClassRows
  <2>4. QED
    <3> HIDE DEF c
    <3> QED BY <2>3 DEF HasClasses, Linked, Edge
<1>2. QED
  BY <1>1 DEF OwesMethods, MergeMethods, Statement, Effect, Edge

LEMMA AddImports ==
  ASSUME NEW s, NEW N, NEW E, NEW N2, NEW E2,
         HasFiles(s, N, E), Effect(MergeImports(s), N, E, N2, E2)
  PROVE  HasImports(s, N2, E2)
<1>1. ASSUME NEW r \in ImportRows(s) PROVE FileNode(r[1]) \in N
  BY DEF ImportRows, HasFiles, Linked, Edge
<1>2. QED
  BY <1>1 DEF HasImports, MergeImports, Statement, Effect, Linked, Edge

\* An import resolves to a file of the repository or to nothing.
LEMMA ResolvedIsFile ==
  ASSUME NEW s, Proper(s), NEW f \in File, NEW m \in Module,
         resolve_import_to_file(s, f, m) # None
  PROVE  resolve_import_to_file(s, f, m) \in s.files
<1> DEFINE c == Candidates[<<f, m>>]
           hits == {i \in DOMAIN c : c[i] \in s.files}
<1>1. c \in Seq(Path)
  BY CandidatesAssumption
<1>2. hits \subseteq Nat
  <2>1. DOMAIN c = 1 .. Len(c) /\ Len(c) \in Nat
    <3> HIDE DEF c
    <3> QED BY <1>1, LenProperties
  <2>2. QED
    BY <2>1
<1>3. hits # {}
  BY DEF resolve_import_to_file
<1>4. \E i \in hits : \A j \in hits : i <= j
  <2> HIDE DEF hits
  <2> QED BY <1>2, <1>3, LeastExists
<1>5. DEFINE k == CHOOSE i \in hits : \A j \in hits : i <= j
<1>6. k \in hits
  <2> HIDE DEF hits
  <2> QED BY <1>4
<1>7. resolve_import_to_file(s, f, m) = c[k]
  BY <1>3 DEF resolve_import_to_file
<1>8. QED
  <2>1. c[k] \in s.files
    <3> HIDE DEF k
    <3> QED BY <1>6
  <2>2. QED
    BY <1>7, <2>1

LEMMA AddModules ==
  ASSUME NEW s, Proper(s), NEW N, NEW E, NEW N2, NEW E2,
         HasFiles(s, N, E), HasImports(s, N, E), Effect(LinkModules(s), N, E, N2, E2)
  PROVE  HasResolved(s, E2)
<1>1. SUFFICES ASSUME NEW r \in ImportRows(s), resolve_import_to_file(s, r[1], r[2]) # None
               PROVE  ResolvedEdge(s, r) \in E2
  BY DEF HasResolved, Resolves, ResolvedEdge
<1>2. r[1] \in s.files /\ r[1] \in File /\ r[2] \in Module
  BY DEF ImportRows, Proper
<1>3. resolve_import_to_file(s, r[1], r[2]) \in s.files
  BY <1>1, <1>2, ResolvedIsFile
<1>4. /\ ModuleNode(r[2]) \in N
      /\ FileNode(resolve_import_to_file(s, r[1], r[2])) \in N
  BY <1>3 DEF HasImports, HasFiles, Linked, Edge
<1>5. ResolvedEdge(s, r) \in LinkModules(s).link
  BY <1>1 DEF LinkModules, Statement
<1>6. QED
  BY <1>4, <1>5 DEF Effect, ResolvedEdge, Edge

LEMMA AddBases ==
  ASSUME NEW s, s \in Snapshot, NEW N, NEW E, NEW N2, NEW E2,
         HasClasses(s, N, E), Effect(LinkBases(s), N, E, N2, E2)
  PROVE  HasBases(s, E2)
<1>1. SUFFICES ASSUME NEW e \in Inherits(s) PROVE e \in E2
  BY DEF HasBases
<1>2. PICK x \in BaseRows(s) \X s.files :
        /\ \E i \in DOMAIN s.parsed[x[2]].classes : class_index(s, x[1][3]) = {<<x[2], i>>}
        /\ e = Edge("INHERITS", ClassNode(x[1][1], x[1][2]), ClassNode(x[2], x[1][3]))
  BY DEF Inherits
<1>3. PICK r \in BaseRows(s), g \in s.files : x = <<r, g>>
  BY <1>2
<1>4. PICK i \in DOMAIN s.parsed[g].classes : class_index(s, r[3]) = {<<g, i>>}
  BY <1>2, <1>3
<1>5. DEFINE d == <<g, i>>
<1>6. e = InheritsEdge(r, d)
  BY <1>2, <1>3 DEF InheritsEdge
<1>7. e \in LinkBases(s).link
  <2> DEFINE only(n) == {z \in class_index(s, n) : class_index(s, n) = {z}}
  <2>1. d \in only(r[3])
    BY <1>4
  <2>2. e \in {InheritsEdge(r, z) : z \in only(r[3])}
    BY <1>6, <2>1
  <2>3. e \in UNION {{InheritsEdge(q, z) : z \in only(q[3])} : q \in BaseRows(s)}
    BY <2>2
  <2>4. QED
    BY <2>3 DEF LinkBases, Statement
<1>8. ClassNode(r[1], r[2]) \in N
  <2>1. <<r[1], r[2]>> \in ClassRows(s)
    BY DEF BaseRows, ClassRows, Defines
  <2>2. QED
    BY <2>1 DEF HasClasses, Linked, Edge
<1>9. ClassNode(g, r[3]) \in N
  <2>1. s.parsed[g].classes[i].name = r[3]
    <3>1. d \in class_index(s, r[3]) /\ d[1] = g /\ d[2] = i
      BY <1>4
    <3>2. QED
      BY <3>1 DEF class_index
  <2>2. r[3] \in Name
    BY DEF BaseRows
  <2>3. <<g, r[3]>> \in ClassRows(s)
    BY <2>1, <2>2 DEF ClassRows, Defines
  <2>4. QED
    BY <2>3 DEF HasClasses, Linked, Edge
<1>10. e.from = ClassNode(r[1], r[2]) /\ e.to = ClassNode(g, r[3])
  BY <1>6 DEF InheritsEdge, Edge
<1>11. QED
  BY <1>7, <1>8, <1>9, <1>10 DEF Effect

\* Each statement adds its own part.
LEMMA ProgressStep ==
  ASSUME NEW s, s \in Snapshot, NEW n \in 1 .. Last,
         NEW N, NEW E, NEW N2, NEW E2,
         Progress(s, n, N, E), Effect(Statements(s)[n], N, E, N2, E2)
  PROVE  Progress(s, n + 1, N2, E2)
<1>1. Proper(s)
  BY DEF Proper, Snapshot
<1>2. Progress(s, n, N2, E2)
  BY ProgressStays DEF Effect, Last
<1>3. n \in {1, 2, 3, 4, 5, 6, 7, 8, 9, 10, 11}
  BY DEF Last
<1>4. CASE n = 1
  <2>1. HasRepository(N2)
    BY <1>4, StatementAt DEF Effect, MergeRepository, Statement, HasRepository
  <2>2. QED
    BY <1>2, <1>4, <2>1 DEF Progress
<1>5. CASE n = 2
  BY <1>2, <1>5, StatementAt, AddRootFolders DEF Progress
<1>6. CASE n = 3
  BY <1>1, <1>2, <1>6, StatementAt, AddNestedFolders DEF Progress
<1>7. CASE n = 4
  BY <1>2, <1>7, StatementAt, AddRootFiles DEF Progress
<1>8. CASE n = 5
  BY <1>1, <1>2, <1>8, StatementAt, AddFilesInFolders DEF Progress
<1>9. CASE n = 6
  BY <1>2, <1>9, StatementAt, AddClasses DEF Progress
<1>10. CASE n = 7
  BY <1>2, <1>10, StatementAt, AddFunctions DEF Progress
<1>11. CASE n = 8
  BY <1>2, <1>11, StatementAt, AddMethods DEF Progress
<1>12. CASE n = 9
  BY <1>2, <1>12, StatementAt, AddImports DEF Progress
<1>13. CASE n = 10
  BY <1>1, <1>2, <1>13, StatementAt, AddModules DEF Progress
<1>14. CASE n = 11
  BY <1>2, <1>14, StatementAt, AddBases DEF Progress
<1>15. QED
  BY <1>3, <1>4, <1>5, <1>6, <1>7, <1>8, <1>9, <1>10, <1>11, <1>12, <1>13, <1>14

\* After the last statement all that is expected is there.
LEMMA ProgressEnds ==
  ASSUME NEW s, s \in Snapshot, NEW N, NEW E, Progress(s, Last + 1, N, E)
  PROVE  ExpectedNodes(s) \subseteq N /\ ExpectedEdges(s) \subseteq E
<1>1. /\ HasRepository(N) /\ HasFolders(s, N, E) /\ HasFiles(s, N, E)
      /\ HasClasses(s, N, E) /\ HasFunctions(s, N, E) /\ OwesMethods(s, N, E)
      /\ HasImports(s, N, E) /\ HasResolved(s, E) /\ HasBases(s, E)
  BY DEF Progress, Last
<1>2. ASSUME NEW r \in FunctionRows(s) PROVE FunctionNode(r[1], r[2]) \in N
  BY <1>1 DEF HasFunctions, OwesMethods, Linked, Edge
<1>3. ExpectedNodes(s) \subseteq N
  BY <1>1, <1>2 DEF ExpectedNodes, HasRepository, HasFolders, HasFiles, HasClasses,
                    HasImports, Linked, Edge
<1>4. /\ Contains(s) \subseteq E /\ DefinesInFile(s) \subseteq E /\ Imports(s) \subseteq E
      /\ Resolves(s) \subseteq E /\ Inherits(s) \subseteq E
  BY <1>1 DEF Contains, DefinesInFile, Imports, HasFolders, HasFiles, HasClasses,
              HasFunctions, HasImports, HasResolved, HasBases, Linked
<1>5. ASSUME NEW r \in MethodRows(s), ClassNode(r[1], r[2].parent_class) \in ExpectedNodes(s)
      PROVE  Defines(s, r[1], r[2].parent_class)
  <2>1. PICK q \in ClassRows(s) : ClassNode(q[1], q[2]) = ClassNode(r[1], r[2].parent_class)
    BY <1>5 DEF ExpectedNodes, RepositoryNode, FolderNode, FileNode, ClassNode,
                FunctionNode, ModuleNode, Node
  <2>2. q[1] = r[1] /\ q[2] = r[2].parent_class
    BY <2>1 DEF ClassNode, Node
  <2>3. QED
    BY <2>2 DEF ClassRows
<1>6. ASSUME NEW e \in DefinesMethod(s), e.from \in ExpectedNodes(s) PROVE e \in E
  <2>1. PICK r \in MethodRows(s) :
          e = Edge("DEFINES", ClassNode(r[1], r[2].parent_class), FunctionNode(r[1], r[2]))
    BY <1>6 DEF DefinesMethod
  <2>2. e.from = ClassNode(r[1], r[2].parent_class)
    BY <2>1 DEF Edge
  <2>3. QED
    BY <1>1, <1>5, <1>6, <2>1, <2>2 DEF OwesMethods
<1>7. QED
  BY <1>3, <1>4, <1>6 DEF ExpectedEdges, AllowedEdges
-----------------------------------------------------------------------------
(* Types of what is written. *)

LEMMA PathsTyped ==
  ASSUME NEW p \in Path, Len(p) # 0
  PROVE  ContainerNode(p) \in NodeType
<1>1. <<>> \in Path
  BY EmptySeq DEF Path
<1>2. Len(p) \in Nat
  BY LenProperties DEF Path
<1>3. CASE Len(p) = 1
  BY <1>1, <1>3 DEF ContainerNode, RepositoryNode, Node, NodeType, Label
<1>4. CASE Len(p) > 1
  <2>1. ParentOf(p) \in Path
    BY <1>4, ParentIsAbove, AbovePrefix
  <2>2. ~ (1 > 1)
    OBVIOUS
  <2>3. ContainerNode(p) = FolderNode(ParentOf(p))
    BY <1>4, <2>2 DEF ContainerNode
  <2>4. QED
    BY <2>1, <2>3 DEF FolderNode, Node, NodeType, Label
<1>5. Len(p) = 1 \/ Len(p) > 1
  BY <1>2, OneOrMore
<1>6. QED
  BY <1>3, <1>4, <1>5

LEMMA NodesTyped ==
  /\ RepositoryNode \in NodeType
  /\ \A p \in Path : FolderNode(p) \in NodeType /\ FileNode(p) \in NodeType
  /\ \A p \in Path, n \in Name : ClassNode(p, n) \in NodeType
  /\ \A p \in Path, fn \in FunctionEntity : FunctionNode(p, fn) \in NodeType
  /\ \A m \in Module : ModuleNode(m) \in NodeType
<1>1. <<>> \in Path
  BY EmptySeq DEF Path
<1>2. QED
  BY <1>1 DEF RepositoryNode, FolderNode, FileNode, ClassNode, FunctionNode, ModuleNode,
              Node, NodeType, Label, FunctionEntity

LEMMA EdgesTyped ==
  ASSUME NEW type \in {"CONTAINS", "DEFINES", "IMPORTS", "RESOLVES_TO", "INHERITS"},
         NEW from \in NodeType, NEW to \in NodeType
  PROVE  Edge(type, from, to) \in EdgeType
BY DEF Edge, EdgeType

LEMMA ExpectedTyped ==
  ASSUME NEW s, s \in Snapshot
  PROVE  ExpectedNodes(s) \subseteq NodeType
<1>1. Proper(s) /\ \A f \in s.files : f \in Path
  BY FilesArePaths DEF Proper, Snapshot
<1>2. \A p \in Folders(s) : p \in Path
  BY <1>1, FolderPaths DEF Proper
<1>3. \A r \in ClassRows(s) : r[1] \in s.files /\ r[2] \in Name
  BY DEF ClassRows
<1>4. \A r \in FunctionRows(s) : r[1] \in s.files /\ r[2] \in FunctionEntity
  BY DEF FunctionRows
<1>5. \A r \in ImportRows(s) : r[2] \in Module
  BY DEF ImportRows
<1>6. QED
  BY <1>1, <1>2, <1>3, <1>4, <1>5, NodesTyped DEF ExpectedNodes

LEMMA AllowedTyped ==
  ASSUME NEW s, s \in Snapshot
  PROVE  AllowedEdges(s) \subseteq EdgeType
<1>1. Proper(s) /\ \A f \in s.files : f \in File /\ f \in Path /\ Len(f) # 0
  BY FilesArePaths DEF Proper, Snapshot
<1>2. \A p \in Folders(s) : p \in Path /\ Len(p) # 0
  BY <1>1, FolderPaths DEF Proper
<1>3. Contains(s) \subseteq EdgeType
  <2>1. ASSUME NEW p \in Folders(s)
        PROVE  Edge("CONTAINS", ContainerNode(p), FolderNode(p)) \in EdgeType
    BY <1>2, PathsTyped, NodesTyped, EdgesTyped
  <2>2. ASSUME NEW f \in s.files
        PROVE  Edge("CONTAINS", ContainerNode(f), FileNode(f)) \in EdgeType
    BY <1>1, PathsTyped, NodesTyped, EdgesTyped
  <2>3. QED
    BY <2>1, <2>2 DEF Contains
<1>4. DefinesInFile(s) \subseteq EdgeType
  <2>1. ASSUME NEW r \in ClassRows(s)
        PROVE  Edge("DEFINES", FileNode(r[1]), ClassNode(r[1], r[2])) \in EdgeType
    <3>1. r[1] \in s.files /\ r[2] \in Name
      BY DEF ClassRows
    <3>2. QED
      BY <1>1, <3>1, NodesTyped, EdgesTyped
  <2>2. ASSUME NEW r \in FunctionRows(s)
        PROVE  Edge("DEFINES", FileNode(r[1]), FunctionNode(r[1], r[2])) \in EdgeType
    <3>1. r[1] \in s.files /\ r[2] \in FunctionEntity
      BY DEF FunctionRows
    <3>2. QED
      BY <1>1, <3>1, NodesTyped, EdgesTyped
  <2>3. QED
    BY <2>1, <2>2 DEF DefinesInFile
<1>5. DefinesMethod(s) \subseteq EdgeType
  <2>1. ASSUME NEW r \in MethodRows(s)
        PROVE  Edge("DEFINES", ClassNode(r[1], r[2].parent_class), FunctionNode(r[1], r[2]))
                 \in EdgeType
    <3>1. r[1] \in s.files /\ r[2] \in FunctionEntity /\ r[2].parent_class \in Name
      BY DEF MethodRows, FunctionRows, FunctionEntity
    <3>2. QED
      BY <1>1, <3>1, NodesTyped, EdgesTyped
  <2>2. QED
    BY <2>1 DEF DefinesMethod
<1>6. Imports(s) \subseteq EdgeType
  <2>1. ASSUME NEW r \in ImportRows(s)
        PROVE  Edge("IMPORTS", FileNode(r[1]), ModuleNode(r[2])) \in EdgeType
    <3>1. r[1] \in s.files /\ r[2] \in Module
      BY DEF ImportRows
    <3>2. QED
      BY <1>1, <3>1, NodesTyped, EdgesTyped
  <2>2. QED
    BY <2>1 DEF Imports
<1>7. Resolves(s) \subseteq EdgeType
  <2>1. ASSUME NEW r \in ImportRows(s), resolve_import_to_file(s, r[1], r[2]) # None
        PROVE  ResolvedEdge(s, r) \in EdgeType
    <3>1. r[1] \in s.files /\ r[2] \in Module
      BY DEF ImportRows
    <3>2. resolve_import_to_file(s, r[1], r[2]) \in s.files
      BY <1>1, <2>1, <3>1, ResolvedIsFile
    <3>3. QED
      BY <1>1, <3>1, <3>2, NodesTyped, EdgesTyped DEF ResolvedEdge
  <2>2. QED
    BY <2>1 DEF Resolves, ResolvedEdge
<1>8. Inherits(s) \subseteq EdgeType
  <2>1. ASSUME NEW r \in BaseRows(s), NEW g \in s.files
        PROVE  Edge("INHERITS", ClassNode(r[1], r[2]), ClassNode(g, r[3])) \in EdgeType
    <3>1. r[1] \in s.files /\ r[2] \in Name /\ r[3] \in Name
      BY DEF BaseRows
    <3>2. QED
      BY <1>1, <3>1, NodesTyped, EdgesTyped
  <2>2. ASSUME NEW x \in BaseRows(s) \X s.files
        PROVE  Edge("INHERITS", ClassNode(x[1][1], x[1][2]), ClassNode(x[2], x[1][3])) \in EdgeType
    <3>1. x[1] \in BaseRows(s) /\ x[2] \in s.files
      OBVIOUS
    <3>2. QED
      BY <2>1, <3>1
  <2>3. QED
    BY <2>2 DEF Inherits
<1>9. QED
  BY <1>3, <1>4, <1>5, <1>6, <1>7, <1>8 DEF AllowedEdges

\* Nor is any edge allowed that joins other nodes than its type should.
LEMMA AllowedDrawn ==
  ASSUME NEW s, s \in Snapshot
  PROVE  AllowedEdges(s) \subseteq Drawn
<1>1. AllowedEdges(s) \subseteq EdgeType
  BY AllowedTyped
<1> DEFINE AsDrawn(e) ==
      /\ \A n \in {e.from, e.to} : n.label \in {"Class", "Function"} => n.name \in Name
      /\ e.type = "DEFINES" /\ e.from.label = "Class" =>
           e.to.label = "Function" /\ e.from = ClassNode(e.to.path, e.to.parent_class)
      /\ e.type = "INHERITS" => e.from.label = "Class" /\ e.to.label = "Class"
<1>2. \A e \in Contains(s) : AsDrawn(e)
  <2>1. \A p : /\ ContainerNode(p).label \in {"Repository", "Folder"}
               /\ FolderNode(p).label = "Folder" /\ FileNode(p).label = "File"
    BY DEF ContainerNode, RepositoryNode, FolderNode, FileNode, Node
  <2>2. QED
    BY <2>1 DEF Contains, Edge
<1>3. \A e \in DefinesInFile(s) : AsDrawn(e)
  <2>1. ASSUME NEW r \in ClassRows(s)
        PROVE  AsDrawn(Edge("DEFINES", FileNode(r[1]), ClassNode(r[1], r[2])))
    <3>1. r[2] \in Name
      BY DEF ClassRows
    <3>2. QED
      BY <3>1 DEF Edge, FileNode, ClassNode, Node
  <2>2. ASSUME NEW r \in FunctionRows(s)
        PROVE  AsDrawn(Edge("DEFINES", FileNode(r[1]), FunctionNode(r[1], r[2])))
    <3>1. r[2].name \in Name
      BY DEF FunctionRows, FunctionEntity
    <3>2. QED
      BY <3>1 DEF Edge, FileNode, FunctionNode, Node
  <2> HIDE DEF AsDrawn
  <2>3. QED
    BY <2>1, <2>2 DEF DefinesInFile
<1>4. \A e \in DefinesMethod(s) : AsDrawn(e)
  <2>1. ASSUME NEW r \in MethodRows(s)
        PROVE  AsDrawn(Edge("DEFINES", ClassNode(r[1], r[2].parent_class),
                            FunctionNode(r[1], r[2])))
    <3>1. r[2].name \in Name /\ r[2].parent_class \in Name
      BY DEF MethodRows, FunctionRows, FunctionEntity
    <3>2. QED
      BY <3>1 DEF Edge, ClassNode, FunctionNode, Node
  <2> HIDE DEF AsDrawn
  <2>2. QED
    BY <2>1 DEF DefinesMethod
<1>5. \A e \in Imports(s) \cup Resolves(s) : AsDrawn(e)
  BY DEF Imports, Resolves, Edge, FileNode, ModuleNode, Node
<1>6. \A e \in Inherits(s) : AsDrawn(e)
  <2>1. ASSUME NEW r \in BaseRows(s), NEW g
        PROVE  AsDrawn(Edge("INHERITS", ClassNode(r[1], r[2]), ClassNode(g, r[3])))
    <3>1. r[2] \in Name /\ r[3] \in Name
      BY DEF BaseRows
    <3>2. QED
      BY <3>1 DEF Edge, ClassNode, Node
  <2> HIDE DEF AsDrawn
  <2>2. ASSUME NEW x \in BaseRows(s) \X s.files
        PROVE  AsDrawn(Edge("INHERITS", ClassNode(x[1][1], x[1][2]), ClassNode(x[2], x[1][3])))
    <3>1. x[1] \in BaseRows(s)
      OBVIOUS
    <3>2. QED
      BY <2>1, <3>1
  <2>3. QED
    BY <2>2 DEF Inherits
<1>7. QED
  BY <1>1, <1>2, <1>3, <1>4, <1>5, <1>6 DEF AllowedEdges, Drawn

\* The last definition of a class names bases like any other.
LEMMA BasesTyped ==
  ASSUME NEW s, s \in Snapshot,
         base_class_names \in [File \X Name -> SUBSET Name]
  PROVE  SetBaseClassNames(s) \in [File \X Name -> SUBSET Name]
<1>1. SUFFICES ASSUME NEW c \in File \X Name
               PROVE  SetBaseClassNames(s)[c] \in SUBSET Name
  <2> DEFINE g(c) ==
        LET classes == s.parsed[c[1]].classes
            rows == {i \in DOMAIN classes : classes[i].name = c[2]}
        IN  IF c[1] \notin s.files \/ rows = {} THEN base_class_names[c]
            ELSE classes[CHOOSE i \in rows : \A j \in rows : j <= i].base_classes
  <2>1. DOMAIN base_class_names = File \X Name
    BY SMTT(30)
  <2>2. SetBaseClassNames(s) = [c \in DOMAIN base_class_names |-> g(c)]
    BY ZenonT(30) DEF SetBaseClassNames
  <2>3. SetBaseClassNames(s) = [c \in File \X Name |-> g(c)]
    BY <2>1, <2>2
  <2>4. ASSUME NEW c \in File \X Name PROVE g(c) \in SUBSET Name
    <3> HIDE DEF g
    <3>1. SetBaseClassNames(s)[c] = g(c)
      BY <2>3
    <3>2. QED
      BY <1>1, <3>1
  <2>5. QED
    <3> HIDE DEF g
    <3> QED BY <2>3, <2>4
<1> DEFINE classes == s.parsed[c[1]].classes
           rows == {i \in DOMAIN classes : classes[i].name = c[2]}
           k == CHOOSE i \in rows : \A j \in rows : j <= i
<1>2. classes \in Seq(ClassEntity)
  BY DEF Snapshot, ParsedFile
<1>3. DOMAIN classes = 1 .. Len(classes) /\ Len(classes) \in Nat
  <2> HIDE DEF classes
  <2> QED BY <1>2, LenProperties, SMTT(30)
<1>4. SetBaseClassNames(s)[c] =
        IF c[1] \notin s.files \/ rows = {} THEN base_class_names[c] ELSE classes[k].base_classes
  BY ZenonT(30) DEF SetBaseClassNames
<1>5. CASE c[1] \notin s.files \/ rows = {}
  BY <1>4, <1>5
<1>6. CASE ~ (c[1] \notin s.files \/ rows = {})
  <2>1. rows \subseteq 1 .. Len(classes)
    BY <1>3
  <2>2. \E i \in rows : \A j \in rows : j <= i
    <3> HIDE DEF rows, classes
    <3> QED BY <1>3, <1>6, <2>1, GreatestExists
  <2>3. k \in rows
    <3> HIDE DEF rows
    <3> QED BY <2>2
  <2>4. classes[k] \in ClassEntity
    <3>1. k \in DOMAIN classes
      <4> HIDE DEF k
      <4> QED BY <2>3
    <3>2. QED
      <4> HIDE DEF classes, k
      <4> QED BY <1>2, <1>3, <3>1, ElementOfSeq
  <2>5. SetBaseClassNames(s)[c] = classes[k].base_classes
    BY <1>4, <1>6
  <2>6. QED
    <3> HIDE DEF classes, k
    <3> QED BY <2>4, <2>5 DEF ClassEntity
<1>7. QED
  BY <1>5, <1>6
-----------------------------------------------------------------------------
(* The inductive invariant. *)

\* A builder that is at work has a job; it writes nothing while it parses.
JobsTyped ==
  \A b \in Builder : Active(b) => job[b] \in Job /\ (pc[b] = "parse" => job[b].next = 1)

\* A builder has written all that the statements before its next one write.
Progressing ==
  \A b \in Builder :
    pc[b] = "build" => Progress(SnapshotOf(job[b]), job[b].next, nodes, edges)

IInv == TypeOK /\ JobsTyped /\ NothingIsCutOff /\ Progressing

\* NothingIsCutOff, of one relationship and of one node.
Joined(N, e) == e.from \in N /\ e.to \in N

Hangs(n, E) ==
  /\ n.label \in {"Folder", "File"} => Edge("CONTAINS", ContainerNode(n.path), n) \in E
  /\ n.label = "Class" => Edge("DEFINES", FileNode(n.path), n) \in E

LEMMA CutOffParts ==
  NothingIsCutOff <=> (\A e \in edges : Joined(nodes, e)) /\ (\A n \in nodes : Hangs(n, edges))
BY DEF NothingIsCutOff, Joined, Hangs

LEMMA CutOffPartsNext ==
  NothingIsCutOff' <=>
    (\A e \in edges' : Joined(nodes', e)) /\ (\A n \in nodes' : Hangs(n, edges'))
BY DEF NothingIsCutOff, Joined, Hangs

LEMMA HangsStays ==
  ASSUME NEW n, NEW E, NEW E2, E \subseteq E2, Hangs(n, E)
  PROVE  Hangs(n, E2)
BY DEF Hangs

LEMMA SnapshotOfJob ==
  ASSUME NEW j \in Job
  PROVE  /\ SnapshotOf(j) \in Snapshot /\ Proper(SnapshotOf(j))
         /\ j.next \in Nat /\ j.next \in 1 .. Last + 1
BY DEF Job, SnapshotOf, Snapshot, Proper, Last

\* What a statement has merged hangs from what it and those before it drew.
LEMMA MergedHangs ==
  ASSUME NEW s, Proper(s), NEW k \in 1 .. Last, NEW N, NEW E,
         Progress(s, k + 1, N, E), NEW n \in Statements(s)[k].merge
  PROVE  Hangs(n, E)
<1>1. k \in {1, 2, 3, 4, 5, 6, 7, 8, 9, 10, 11}
  BY DEF Last
<1>2. CASE k = 1
  <2>0. n \in MergeRepository.merge
    BY <1>2, StatementAt
  <2>1. QED
    BY <2>0 DEF MergeRepository, Statement, RepositoryNode, Node, Hangs
<1>3. CASE k = 2
  <2>0. n \in MergeRootFolders(s).merge
    BY <1>3, StatementAt
  <2>1. HasRootFolders(s, N, E)
    BY <1>3 DEF Progress
  <2>2. PICK p \in Folders(s) : Len(p) = 1 /\ n = FolderNode(p)
    BY <2>0 DEF MergeRootFolders, Statement
  <2>3. n.label = "Folder" /\ n.path = p
    BY <2>2 DEF FolderNode, Node
  <2>4. QED
    BY <2>1, <2>2, <2>3 DEF HasRootFolders, Linked, Hangs
<1>4. CASE k = 3
  <2>0. n \in MergeNestedFolders(s).merge
    BY <1>4, StatementAt
  <2>1. HasFolders(s, N, E)
    BY <1>4 DEF Progress
  <2>2. PICK p \in Folders(s) : Len(p) > 1 /\ (n = FolderNode(p) \/ n = FolderNode(ParentOf(p)))
    BY <2>0 DEF MergeNestedFolders, Statement
  <2>3. PICK q \in Folders(s) : n = FolderNode(q)
    BY <2>2, FolderPaths DEF Proper
  <2>4. n.label = "Folder" /\ n.path = q
    BY <2>3 DEF FolderNode, Node
  <2>5. QED
    BY <2>1, <2>3, <2>4 DEF HasFolders, Linked, Hangs
<1>5. CASE k = 4
  <2>0. n \in MergeRootFiles(s).merge
    BY <1>5, StatementAt
  <2>1. HasRootFiles(s, N, E)
    BY <1>5 DEF Progress
  <2>2. PICK f \in s.files : Len(f) = 1 /\ n = FileNode(f)
    BY <2>0 DEF MergeRootFiles, Statement
  <2>3. n.label = "File" /\ n.path = f
    BY <2>2 DEF FileNode, Node
  <2>4. QED
    BY <2>1, <2>2, <2>3 DEF HasRootFiles, Linked, Hangs
<1>6. CASE k = 5
  <2>0. n \in MergeFilesInFolders(s).merge
    BY <1>6, StatementAt
  <2>1. HasFiles(s, N, E)
    BY <1>6 DEF Progress
  <2>2. PICK f \in s.files : n = FileNode(f)
    BY <2>0 DEF MergeFilesInFolders, Statement
  <2>3. n.label = "File" /\ n.path = f
    BY <2>2 DEF FileNode, Node
  <2>4. QED
    BY <2>1, <2>2, <2>3 DEF HasFiles, Linked, Hangs
<1>7. CASE k = 6
  <2>0. n \in MergeClasses(s).merge
    BY <1>7, StatementAt
  <2>1. HasClasses(s, N, E)
    BY <1>7 DEF Progress
  <2>2. PICK r \in ClassRows(s) : n = ClassNode(r[1], r[2])
    BY <2>0 DEF MergeClasses, Statement
  <2>3. n.label = "Class" /\ n.path = r[1]
    BY <2>2 DEF ClassNode, Node
  <2>4. QED
    BY <2>1, <2>2, <2>3 DEF HasClasses, Linked, Hangs
<1>8. CASE k \in {7, 8}
  <2>0. n \in MergeFunctions(s).merge \/ n \in MergeMethods(s).merge
    BY <1>8, StatementAt
  <2>1. n.label = "Function"
    BY <2>0 DEF MergeFunctions, MergeMethods, Statement, FunctionNode, Node
  <2>2. QED
    BY <2>1 DEF Hangs
<1>9. CASE k = 9
  <2>0. n \in MergeImports(s).merge
    BY <1>9, StatementAt
  <2>1. n.label = "Module"
    BY <2>0 DEF MergeImports, Statement, ModuleNode, Node
  <2>2. QED
    BY <2>1 DEF Hangs
<1>10. CASE k \in {10, 11}
  <2>1. n \in LinkModules(s).merge \/ n \in LinkBases(s).merge
    BY <1>10, StatementAt
  <2>2. QED
    BY <2>1 DEF LinkModules, LinkBases, Statement
<1>11. QED
  BY <1>1, <1>2, <1>3, <1>4, <1>5, <1>6, <1>7, <1>8, <1>9, <1>10
-----------------------------------------------------------------------------
(* Every step keeps the invariant. *)

LEMMA InitIInv == Init => IInv
<1> SUFFICES ASSUME Init PROVE IInv
  OBVIOUS
<1>1. TypeOK
  BY BoundsAssumption DEF Init, TypeOK
<1>2. JobsTyped /\ Progressing
  BY DEF Init, JobsTyped, Progressing, Active
<1>3. NothingIsCutOff
  BY DEF Init, NothingIsCutOff
<1>4. QED
  BY <1>1, <1>2, <1>3 DEF IInv

\* A statement, run on a graph in which its build has come that far.
LEMMA RunStatementEffect ==
  ASSUME IInv, NEW b \in Builder, RunStatement(b)
  PROVE  /\ job[b] \in Job
         /\ SnapshotOf(job[b]) \in Snapshot /\ Proper(SnapshotOf(job[b]))
         /\ job[b].next \in 1 .. Last
         /\ Progress(SnapshotOf(job[b]), job[b].next, nodes, edges)
         /\ Effect(Statements(SnapshotOf(job[b]))[job[b].next], nodes, edges, nodes', edges')
<1>1. pc[b] = "build" /\ job[b] \in Job
  BY DEF IInv, JobsTyped, Active, RunStatement
<1>2. /\ SnapshotOf(job[b]) \in Snapshot /\ Proper(SnapshotOf(job[b]))
      /\ job[b].next \in 1 .. Last + 1
  BY <1>1, SnapshotOfJob
<1>3. job[b].next <= Last
  BY DEF RunStatement
<1>4. job[b].next \in 1 .. Last
  BY <1>2, <1>3 DEF Last
<1>5. Progress(SnapshotOf(job[b]), job[b].next, nodes, edges)
  BY <1>1 DEF IInv, Progressing
<1>6. Effect(Statements(SnapshotOf(job[b]))[job[b].next], nodes, edges, nodes', edges')
  BY DEF RunStatement, Effect
<1>7. QED
  BY <1>1, <1>2, <1>4, <1>5, <1>6

LEMMA IngestIInv == ASSUME IInv, NEW b \in Builder, Ingest(b) PROVE IInv'
<1> DEFINE files == {f \in File : tree[f] # Absent}
           alone == \A c \in Builder : ~ Active(c)
<1>1. TypeOK /\ JobsTyped /\ NothingIsCutOff /\ Progressing
  BY DEF IInv
<1>2. NewJob(files, alone) \in Job
  <2>1. EmptyFile \in ParsedFile
    BY EmptySeq DEF EmptyFile, ParsedFile
  <2>2. alone \in BOOLEAN /\ files \in SUBSET File
    OBVIOUS
  <2>3. QED
    <3> HIDE DEF files, alone
    <3> QED BY <2>1, <2>2 DEF NewJob, Job, Last
<1>3. /\ UNCHANGED <<tree, nodes, edges, base_class_names, edits>>
      /\ builds < MaxBuilds /\ builds' = builds + 1
      /\ pc' = [pc EXCEPT ![b] = AfterParse(files)]
      /\ \A c \in Builder :
           job'[c] = IF c = b THEN NewJob(files, alone)
                     ELSE IF Active(c) THEN [job[c] EXCEPT !.alone = FALSE] ELSE job[c]
      /\ job' = [c \in Builder |->
                   IF c = b THEN NewJob(files, alone)
                   ELSE IF Active(c) THEN [job[c] EXCEPT !.alone = FALSE] ELSE job[c]]
  BY DEF Ingest
<1>4. ASSUME NEW c \in Builder, c # b, Active(c)
      PROVE  /\ job'[c] \in Job
             /\ SnapshotOf(job'[c]) = SnapshotOf(job[c]) /\ job'[c].next = job[c].next
  <2>1. job[c] \in Job /\ job'[c] = [job[c] EXCEPT !.alone = FALSE]
    BY <1>1, <1>3, <1>4 DEF JobsTyped
  <2>2. QED
    BY <2>1 DEF Job, SnapshotOf
<1>5. job'[b] = NewJob(files, alone)
  BY <1>3
<1> HIDE DEF files, alone
<1>6. AfterParse(files) \in {"parse", "build"}
  BY DEF AfterParse
<1>7. \A c \in Builder : pc'[c] = IF c = b THEN AfterParse(files) ELSE pc[c]
  BY <1>1, <1>3 DEF TypeOK
<1>8. TypeOK'
  <2>1. job' \in [Builder -> Job \cup {NoJob}]
    <3>1. ASSUME NEW c \in Builder PROVE job'[c] \in Job \cup {NoJob}
      <4>1. CASE c = b
        BY <1>2, <1>5, <4>1
      <4>2. CASE c # b /\ Active(c)
        BY <1>4, <4>2
      <4>3. CASE c # b /\ ~ Active(c)
        BY <1>1, <1>3, <4>3 DEF TypeOK
      <4>4. QED
        BY <4>1, <4>2, <4>3
    <3>2. QED
      BY <1>3, <3>1
  <2>2. pc' \in [Builder -> {"idle", "parse", "build", "built", "failed"}]
    BY <1>1, <1>3, <1>6 DEF TypeOK
  <2>3. builds' \in 0 .. MaxBuilds
    BY <1>1, <1>3, BoundsAssumption DEF TypeOK
  <2>4. QED
    BY <1>1, <1>3, <2>1, <2>2, <2>3 DEF TypeOK
<1>9. JobsTyped'
  <2>1. SUFFICES ASSUME NEW c \in Builder, pc'[c] \in {"parse", "build"}
                 PROVE  job'[c] \in Job /\ (pc'[c] = "parse" => job'[c].next = 1)
    BY DEF JobsTyped, Active
  <2>2. CASE c = b
    BY <1>2, <1>5, <2>2 DEF NewJob
  <2>3. CASE c # b
    BY <1>1, <1>4, <1>7, <2>1, <2>3 DEF JobsTyped, Active
  <2>4. QED
    BY <2>2, <2>3
<1>10. NothingIsCutOff'
  BY <1>1, <1>3 DEF NothingIsCutOff
<1>11. Progressing'
  <2>1. SUFFICES ASSUME NEW c \in Builder, pc'[c] = "build"
                 PROVE  Progress(SnapshotOf(job'[c]), job'[c].next, nodes, edges)
    BY <1>3 DEF Progressing
  <2>2. CASE c = b
    <3>1. job'[c].next = 1
      BY <1>5, <2>2 DEF NewJob
    <3>2. QED
      BY <3>1 DEF Progress
  <2>3. CASE c # b
    BY <1>1, <1>4, <1>7, <2>1, <2>3 DEF Progressing, Active
  <2>4. QED
    BY <2>2, <2>3
<1>12. QED
  BY <1>8, <1>9, <1>10, <1>11 DEF IInv

LEMMA ParseFileIInv ==
  ASSUME IInv, NEW b \in Builder, NEW f \in File, ParseFile(b, f) PROVE IInv'
<1> DEFINE todo == job[b].todo \ {f}
           read == IF tree[f] = Absent THEN EmptyFile ELSE tree[f]
           j == [job[b] EXCEPT !.todo = todo, !.parsed[f] = read]
<1>1. TypeOK /\ JobsTyped /\ NothingIsCutOff /\ Progressing
  BY DEF IInv
<1>2. job[b] \in Job /\ job[b].next = 1 /\ pc[b] = "parse"
  BY <1>1 DEF JobsTyped, Active, ParseFile
<1>3. read \in ParsedFile
  <2>1. EmptyFile \in ParsedFile
    BY EmptySeq DEF EmptyFile, ParsedFile
  <2>2. tree[f] \in ParsedFile \cup {Absent}
    BY <1>1, TreesAssumption DEF TypeOK
  <2>3. QED
    BY <2>1, <2>2
<1>4. /\ UNCHANGED <<tree, nodes, edges, base_class_names, builds, edits>>
      /\ pc' = [pc EXCEPT ![b] = AfterParse(todo)]
      /\ job' = [job EXCEPT ![b] = j]
  BY DEF ParseFile
<1>5. j \in Job /\ j.next = 1
  <2> HIDE DEF read
  <2> QED BY <1>2, <1>3 DEF Job
<1> HIDE DEF todo, read, j
<1>6. AfterParse(todo) \in {"parse", "build"}
  BY DEF AfterParse
<1>7. \A c \in Builder : /\ pc'[c] = IF c = b THEN AfterParse(todo) ELSE pc[c]
                         /\ job'[c] = IF c = b THEN j ELSE job[c]
  BY <1>1, <1>4 DEF TypeOK
<1>8. TypeOK'
  BY <1>1, <1>4, <1>5, <1>6 DEF TypeOK
<1>9. JobsTyped'
  BY <1>1, <1>5, <1>7 DEF JobsTyped, Active
<1>10. NothingIsCutOff'
  BY <1>1, <1>4 DEF NothingIsCutOff
<1>11. Progressing'
  <2>1. SUFFICES ASSUME NEW c \in Builder, pc'[c] = "build"
                 PROVE  Progress(SnapshotOf(job'[c]), job'[c].next, nodes, edges)
    BY <1>4 DEF Progressing
  <2>2. CASE c = b
    <3>1. job'[c].next = 1
      BY <1>5, <1>7, <2>2
    <3>2. QED
      BY <3>1 DEF Progress
  <2>3. CASE c # b
    BY <1>1, <1>7, <2>1, <2>3 DEF Progressing
  <2>4. QED
    BY <2>2, <2>3
<1>12. QED
  BY <1>8, <1>9, <1>10, <1>11 DEF IInv

LEMMA RunStatementIInv ==
  ASSUME IInv, NEW b \in Builder, RunStatement(b) PROVE IInv'
<1> DEFINE s == SnapshotOf(job[b])
           n == job[b].next
           st == Statements(s)[n]
           j == [job[b] EXCEPT !.next = n + 1]
<1>1. TypeOK /\ JobsTyped /\ NothingIsCutOff /\ Progressing
  BY DEF IInv
<1>2. /\ job[b] \in Job /\ s \in Snapshot /\ Proper(s) /\ n \in 1 .. Last
      /\ Progress(s, n, nodes, edges) /\ Effect(st, nodes, edges, nodes', edges')
  BY RunStatementEffect
<1>3. /\ UNCHANGED <<tree, pc, builds, edits>>
      /\ pc[b] = "build"
      /\ base_class_names' = IF n = ClassStatement THEN SetBaseClassNames(s) ELSE base_class_names
      /\ job' = [job EXCEPT ![b] = j]
  BY DEF RunStatement
<1>4. j \in Job /\ SnapshotOf(j) = s /\ j.next = n + 1
  <2>1. n + 1 \in 1 .. Last + 1
    BY <1>2 DEF Last
  <2>2. n + 1 \in 1 .. Last + 1 => j \in Job /\ SnapshotOf(j) = s /\ j.next = n + 1
    <3> HIDE DEF n
    <3> QED BY <1>2 DEF Job, SnapshotOf
  <2>3. QED
    BY <2>1, <2>2
<1> HIDE DEF s, n, st, j
<1>5. \A c \in Builder : job'[c] = IF c = b THEN j ELSE job[c]
  BY <1>1, <1>3 DEF TypeOK
<1>6. Progress(s, n + 1, nodes', edges')
  BY <1>2, ProgressStep DEF st
<1>7. nodes \subseteq nodes' /\ edges \subseteq edges'
  BY <1>2 DEF Effect
<1>8. Sound(s, st)
  BY <1>2, StatementsSound DEF st
<1>9. TypeOK'
  <2>1. nodes' \subseteq NodeType
    BY <1>1, <1>2, <1>8, ExpectedTyped DEF TypeOK, Sound, Effect
  <2>2. edges' \subseteq Drawn
    BY <1>1, <1>2, <1>8, AllowedDrawn DEF TypeOK, Sound, Effect
  <2>3. base_class_names' \in [File \X Name -> SUBSET Name]
    BY <1>1, <1>2, <1>3, BasesTyped DEF TypeOK
  <2>4. job' \in [Builder -> Job \cup {NoJob}]
    BY <1>1, <1>3, <1>4 DEF TypeOK
  <2>5. QED
    BY <1>1, <1>3, <2>1, <2>2, <2>3, <2>4 DEF TypeOK
<1>10. JobsTyped'
  BY <1>1, <1>3, <1>4, <1>5 DEF JobsTyped, Active
<1>11. NothingIsCutOff'
  <2>1. ASSUME NEW e \in edges' PROVE Joined(nodes', e)
    BY <1>1, <1>2, CutOffParts DEF Effect, Joined
  <2>2. ASSUME NEW x \in nodes' PROVE Hangs(x, edges')
    <3>1. CASE x \in nodes
      BY <1>1, <1>7, <3>1, CutOffParts, HangsStays
    <3>2. CASE x \in st.merge
      BY <1>2, <1>6, <3>2, MergedHangs DEF st
    <3>3. QED
      BY <1>2, <3>1, <3>2 DEF Effect
  <2>3. QED
    BY <2>1, <2>2, CutOffPartsNext
<1>12. Progressing'
  <2>1. SUFFICES ASSUME NEW c \in Builder, pc[c] = "build"
                 PROVE  Progress(SnapshotOf(job'[c]), job'[c].next, nodes', edges')
    BY <1>3 DEF Progressing
  <2>2. CASE c = b
    BY <1>4, <1>5, <1>6, <2>2
  <2>3. CASE c # b
    <3>1. Progress(SnapshotOf(job[c]), job[c].next, nodes, edges) /\ job[c] \in Job
      BY <1>1, <2>1 DEF Progressing, JobsTyped, Active
    <3>2. job[c].next \in Nat
      BY <3>1, SnapshotOfJob
    <3>3. Progress(SnapshotOf(job[c]), job[c].next, nodes', edges')
      BY <1>7, <3>1, <3>2, ProgressStays
    <3>4. QED
      BY <1>5, <2>3, <3>3
  <2>4. QED
    BY <2>2, <2>3
<1>13. QED
  BY <1>9, <1>10, <1>11, <1>12 DEF IInv

\* A builder that is done or has failed writes nothing more.
LEMMA StopIInv ==
  ASSUME IInv, NEW b \in Builder, Finish(b) \/ Fail(b) PROVE IInv'
<1>1. TypeOK /\ JobsTyped /\ NothingIsCutOff /\ Progressing
  BY DEF IInv
<1>2. PICK p \in {"built", "failed"} :
        /\ pc' = [pc EXCEPT ![b] = p]
        /\ job' = [job EXCEPT ![b] = NoJob]
        /\ UNCHANGED <<tree, nodes, edges, base_class_names, builds, edits>>
  BY DEF Finish, Fail
<1>3. \A c \in Builder : /\ pc'[c] = IF c = b THEN p ELSE pc[c]
                         /\ c # b => job'[c] = job[c]
  BY <1>1, <1>2 DEF TypeOK
<1>4. TypeOK'
  BY <1>1, <1>2 DEF TypeOK
<1>5. JobsTyped'
  BY <1>1, <1>3 DEF JobsTyped, Active
<1>6. NothingIsCutOff'
  BY <1>1, <1>2 DEF NothingIsCutOff
<1>7. Progressing'
  BY <1>1, <1>2, <1>3 DEF Progressing
<1>8. QED
  BY <1>4, <1>5, <1>6, <1>7 DEF IInv

LEMMA EditIInv == ASSUME IInv, Edit PROVE IInv'
<1>1. TypeOK'
  BY BoundsAssumption DEF IInv, Edit, TypeOK
<1>2. JobsTyped' /\ NothingIsCutOff' /\ Progressing'
  BY DEF IInv, Edit, JobsTyped, Active, NothingIsCutOff, Progressing
<1>3. QED
  BY <1>1, <1>2 DEF IInv

LEMMA StutterIInv == ASSUME IInv, UNCHANGED vars PROVE IInv'
<1>1. TypeOK'
  BY DEF IInv, vars, TypeOK
<1>2. JobsTyped' /\ NothingIsCutOff' /\ Progressing'
  BY DEF IInv, vars, JobsTyped, Active, NothingIsCutOff, Progressing
<1>3. QED
  BY <1>1, <1>2 DEF IInv

LEMMA NextIInv == IInv /\ [Next]_vars => IInv'
BY IngestIInv, ParseFileIInv, RunStatementIInv, StopIInv, EditIInv, StutterIInv
   DEF Next, BuilderStep

LEMMA Invariance == Spec => []IInv
BY InitIInv, NextIInv, PTL DEF Spec
-----------------------------------------------------------------------------
(* Theorems. *)

\* The variables have their types.
THEOREM TypeCorrect == Spec => []TypeOK
<1>1. IInv => TypeOK
  BY DEF IInv
<1>2. QED
  BY <1>1, Invariance, PTL

\* At no moment, with whatever builds interleaved or broken off, is a node or
\* a relationship of the graph cut off from the repository (graph/builder.py).
THEOREM NoNodeIsCutOff == Spec => []NothingIsCutOff
<1>1. IInv => NothingIsCutOff
  BY DEF IInv
<1>2. QED
  BY <1>1, Invariance, PTL

\* A build that returns has written all that its snapshot calls for.
THEOREM BuildsAreComplete == Spec => []BuildIsComplete
<1>1. ASSUME IInv PROVE BuildIsComplete
  <2>1. SUFFICES ASSUME NEW b \in Builder, Complete(b)
                 PROVE  /\ ExpectedNodes(SnapshotOf(job[b])) \subseteq nodes
                        /\ ExpectedEdges(SnapshotOf(job[b])) \subseteq edges
    BY DEF BuildIsComplete
  <2>2. /\ job[b] \in Job /\ job[b].next > Last
        /\ Progress(SnapshotOf(job[b]), job[b].next, nodes, edges)
    BY <1>1, <2>1 DEF IInv, JobsTyped, Active, Complete, Progressing
  <2>3. SnapshotOf(job[b]) \in Snapshot /\ job[b].next \in 1 .. Last + 1
    BY <2>2, SnapshotOfJob
  <2>4. job[b].next = Last + 1
    BY <2>2, <2>3, SMTT(30) DEF Last
  <2>5. QED
    BY <2>2, <2>3, <2>4, ProgressEnds
<1>2. QED
  BY <1>1, Invariance, PTL
-----------------------------------------------------------------------------
(* The base-class names of a build that runs alone. *)

\* Whoever is marked alone is the only one at work.
TrulyAlone ==
  \A b, c \in Builder : Active(b) /\ job[b].alone /\ Active(c) => c = b

\* The last definition of every class of s has left its bases.
Kept(s, B) ==
  \A f \in s.files : \A i \in DOMAIN s.parsed[f].classes :
    LET classes == s.parsed[f].classes
    IN  (\A j \in DOMAIN classes : classes[j].name = classes[i].name => j <= i)
        => B[<<f, classes[i].name>>] = classes[i].base_classes

\* It has once the classes are merged.
Keeping ==
  \A b \in Builder :
    pc[b] = "build" /\ job[b].alone /\ job[b].next > ClassStatement
    => Kept(SnapshotOf(job[b]), base_class_names)

AloneInv == IInv /\ TrulyAlone /\ Keeping

\* SetBaseClassNames sets on every class the bases of its last definition.
LEMMA SetsBases ==
  ASSUME NEW s, s \in Snapshot,
         base_class_names \in [File \X Name -> SUBSET Name]
  PROVE  Kept(s, SetBaseClassNames(s))
<1>1. SUFFICES ASSUME NEW f \in s.files, NEW i \in DOMAIN s.parsed[f].classes,
                      \A j \in DOMAIN s.parsed[f].classes :
                        s.parsed[f].classes[j].name = s.parsed[f].classes[i].name => j <= i
               PROVE  SetBaseClassNames(s)[<<f, s.parsed[f].classes[i].name>>]
                        = s.parsed[f].classes[i].base_classes
  BY DEF Kept
<1> DEFINE classes == s.parsed[f].classes
           n == classes[i].name
           c == <<f, n>>
           rows == {x \in DOMAIN classes : classes[x].name = n}
           k == CHOOSE x \in rows : \A y \in rows : y <= x
<1>2. classes \in Seq(ClassEntity)
  BY DEF Snapshot, ParsedFile
<1>3. DOMAIN classes = 1 .. Len(classes) /\ Len(classes) \in Nat
  <2> HIDE DEF classes
  <2> QED BY <1>2, LenProperties
<1>4. f \in File /\ n \in Name
  <2>1. classes[i] \in ClassEntity
    <3> HIDE DEF classes
    <3> QED BY <1>1, <1>2, <1>3, ElementOfSeq DEF classes
  <2>2. QED
    BY <2>1 DEF ClassEntity, Snapshot
<1>5. i \in rows
  BY SMTT(30)
<1>6. SetBaseClassNames(s)[c] = classes[k].base_classes
  <2>1. c \in DOMAIN base_class_names
    BY <1>4
  <2>2. c[1] = f /\ c[2] = n
    OBVIOUS
  <2>3. rows # {} /\ f \in s.files
    BY <1>5, SMTT(30)
  <2>4. SetBaseClassNames(s)[c] =
          IF c[1] \notin s.files \/ {x \in DOMAIN s.parsed[c[1]].classes :
                                       s.parsed[c[1]].classes[x].name = c[2]} = {}
          THEN base_class_names[c]
          ELSE s.parsed[c[1]].classes[
                 CHOOSE x \in {z \in DOMAIN s.parsed[c[1]].classes :
                                 s.parsed[c[1]].classes[z].name = c[2]} :
                   \A y \in {z \in DOMAIN s.parsed[c[1]].classes :
                               s.parsed[c[1]].classes[z].name = c[2]} : y <= x].base_classes
    <3> HIDE DEF c
    <3> QED BY <2>1 DEF SetBaseClassNames
  <2>5. QED
    BY <2>2, <2>3, <2>4
<1>7. \A y \in rows : y <= i
  BY <1>1
<1>8. k = i
  <2>1. rows \subseteq Int
    BY <1>3
  <2>2. k \in rows /\ \A y \in rows : y <= k
    <3> HIDE DEF rows
    <3> QED BY <1>5, <1>7
  <2>3. k <= i /\ i <= k
    <3> HIDE DEF rows, k
    <3> QED BY <1>5, <1>7, <2>2
  <2>4. QED
    <3> HIDE DEF rows, k
    <3> QED BY <1>5, <2>1, <2>2, <2>3
<1>9. QED
  BY <1>6, <1>8

LEMMA InitAlone == Init => AloneInv
<1>1. Init => TrulyAlone /\ Keeping
  BY DEF Init, TrulyAlone, Keeping, Active
<1>2. QED
  BY <1>1, InitIInv DEF AloneInv

LEMMA IngestAlone ==
  ASSUME AloneInv, NEW b \in Builder, Ingest(b) PROVE TrulyAlone' /\ Keeping'
<1> DEFINE files == {f \in File : tree[f] # Absent}
           alone == \A c \in Builder : ~ Active(c)
<1>1. IInv /\ TypeOK /\ JobsTyped /\ TrulyAlone /\ Keeping
  BY DEF AloneInv, IInv
<1>2. /\ base_class_names' = base_class_names
      /\ pc' = [pc EXCEPT ![b] = AfterParse(files)]
      /\ \A c \in Builder :
           job'[c] = IF c = b THEN NewJob(files, alone)
                     ELSE IF Active(c) THEN [job[c] EXCEPT !.alone = FALSE] ELSE job[c]
  BY DEF Ingest
<1>3. \A c \in Builder : c # b => pc'[c] = pc[c]
  BY <1>1, <1>2 DEF TypeOK
<1>4. job'[b].alone => \A c \in Builder : ~ Active(c)
  <2>1. job'[b] = NewJob(files, alone) /\ alone \in BOOLEAN
    BY <1>2
  <2>2. NewJob(files, alone).alone = alone
    <3> HIDE DEF files, alone
    <3> QED BY DEF NewJob
  <2>3. job'[b].alone = alone
    BY <2>1, <2>2
  <2>4. job'[b].alone => alone
    <3> HIDE DEF alone
    <3> QED BY <2>1, <2>3
  <2>5. QED
    BY <2>4
<1>5. job'[b].next = 1
  <2>1. job'[b] = NewJob(files, alone)
    BY <1>2
  <2>2. QED
    <3> HIDE DEF files, alone
    <3> QED BY <2>1 DEF NewJob
<1>6. ASSUME NEW c \in Builder, c # b, Active(c) PROVE ~ job'[c].alone
  <2>1. job[c] \in Job /\ job'[c] = [job[c] EXCEPT !.alone = FALSE]
    BY <1>1, <1>2, <1>6 DEF JobsTyped
  <2>2. QED
    BY <2>1 DEF Job
<1> HIDE DEF files, alone
<1>7. TrulyAlone'
  <2>1. SUFFICES ASSUME NEW c \in Builder, NEW d \in Builder,
                        pc'[c] \in {"parse", "build"}, job'[c].alone,
                        pc'[d] \in {"parse", "build"}
                 PROVE  d = c
    BY DEF TrulyAlone, Active
  <2>2. c = b
    BY <1>3, <1>6, <2>1 DEF Active
  <2>3. QED
    BY <1>3, <1>4, <2>1, <2>2 DEF Active
<1>8. Keeping'
  <2>1. SUFFICES ASSUME NEW c \in Builder,
                        pc'[c] = "build", job'[c].alone, job'[c].next > ClassStatement
                 PROVE  FALSE
    BY DEF Keeping
  <2>2. c = b
    BY <1>3, <1>6, <2>1 DEF Active
  <2>3. QED
    BY <1>5, <2>1, <2>2 DEF ClassStatement
<1>9. QED
  BY <1>7, <1>8

LEMMA ParseFileAlone ==
  ASSUME AloneInv, NEW b \in Builder, NEW f \in File, ParseFile(b, f)
  PROVE  TrulyAlone' /\ Keeping'
<1> DEFINE todo == job[b].todo \ {f}
           read == IF tree[f] = Absent THEN EmptyFile ELSE tree[f]
           j == [job[b] EXCEPT !.todo = todo, !.parsed[f] = read]
<1>1. TypeOK /\ JobsTyped /\ TrulyAlone /\ Keeping
  BY DEF AloneInv, IInv
<1>2. pc[b] = "parse" /\ job[b] \in Job /\ job[b].next = 1
  BY <1>1 DEF JobsTyped, Active, ParseFile
<1>3. /\ base_class_names' = base_class_names
      /\ pc' = [pc EXCEPT ![b] = AfterParse(todo)]
      /\ job' = [job EXCEPT ![b] = j]
  BY DEF ParseFile
<1>4. j.alone = job[b].alone /\ j.next = 1
  <2> HIDE DEF todo, read
  <2> QED BY <1>2 DEF Job
<1> HIDE DEF todo, read, j
<1>5. \A c \in Builder : /\ c # b => pc'[c] = pc[c] /\ job'[c] = job[c]
                         /\ c = b => job'[c] = j
  BY <1>1, <1>3 DEF TypeOK
<1>6. TrulyAlone'
  BY <1>1, <1>2, <1>4, <1>5 DEF TrulyAlone, Active
<1>7. Keeping'
  <2>1. SUFFICES ASSUME NEW c \in Builder,
                        pc'[c] = "build", job'[c].alone, job'[c].next > ClassStatement
                 PROVE  Kept(SnapshotOf(job'[c]), base_class_names)
    BY <1>3 DEF Keeping
  <2>2. c # b
    BY <1>4, <1>5, <2>1 DEF ClassStatement
  <2>3. QED
    BY <1>1, <1>5, <2>1, <2>2 DEF Keeping
<1>8. QED
  BY <1>6, <1>7

LEMMA RunStatementAlone ==
  ASSUME AloneInv, NEW b \in Builder, RunStatement(b) PROVE TrulyAlone' /\ Keeping'
<1> DEFINE s == SnapshotOf(job[b])
           n == job[b].next
           j == [job[b] EXCEPT !.next = n + 1]
<1>1. IInv /\ TypeOK /\ TrulyAlone /\ Keeping
  BY DEF AloneInv, IInv
<1>2. job[b] \in Job /\ s \in Snapshot /\ n \in 1 .. Last
  BY <1>1, RunStatementEffect
<1>3. /\ pc' = pc /\ pc[b] = "build"
      /\ base_class_names' = IF n = ClassStatement THEN SetBaseClassNames(s) ELSE base_class_names
      /\ job' = [job EXCEPT ![b] = j]
  BY DEF RunStatement
<1>4. j.alone = job[b].alone /\ SnapshotOf(j) = s /\ j.next = n + 1
  <2> HIDE DEF n
  <2> QED BY <1>2 DEF Job, SnapshotOf
<1> HIDE DEF s, n, j
<1>5. \A c \in Builder : job'[c] = IF c = b THEN j ELSE job[c]
  BY <1>1, <1>3 DEF TypeOK
<1>6. TrulyAlone'
  BY <1>1, <1>3, <1>4, <1>5 DEF TrulyAlone, Active
<1>7. Keeping'
  <2>1. SUFFICES ASSUME NEW c \in Builder,
                        pc[c] = "build", job'[c].alone, job'[c].next > ClassStatement
                 PROVE  Kept(SnapshotOf(job'[c]), base_class_names')
    BY <1>3 DEF Keeping
  <2>2. c = b
    BY <1>1, <1>3, <1>5, <2>1 DEF TrulyAlone, Active
  <2>3. CASE n = ClassStatement
    BY <1>1, <1>2, <1>3, <1>4, <1>5, <2>2, <2>3, SetsBases DEF TypeOK
  <2>4. CASE n # ClassStatement
    <3>1. n > ClassStatement
      BY <1>2, <1>4, <1>5, <2>1, <2>2, <2>4 DEF ClassStatement, Last
    <3>2. Kept(SnapshotOf(job[b]), base_class_names)
      BY <1>1, <1>3, <1>4, <1>5, <2>1, <2>2, <3>1 DEF Keeping, n
    <3>3. QED
      BY <1>3, <1>4, <1>5, <2>2, <2>4, <3>2 DEF s
  <2>5. QED
    BY <2>3, <2>4
<1>8. QED
  BY <1>6, <1>7

LEMMA StopAlone ==
  ASSUME AloneInv, NEW b \in Builder, Finish(b) \/ Fail(b) PROVE TrulyAlone' /\ Keeping'
<1>1. TypeOK /\ TrulyAlone /\ Keeping
  BY DEF AloneInv, IInv
<1>2. PICK p \in {"built", "failed"} :
        /\ pc' = [pc EXCEPT ![b] = p]
        /\ job' = [job EXCEPT ![b] = NoJob]
        /\ base_class_names' = base_class_names
  BY DEF Finish, Fail
<1>3. \A c \in Builder : /\ pc'[c] = IF c = b THEN p ELSE pc[c]
                         /\ c # b => job'[c] = job[c]
  BY <1>1, <1>2 DEF TypeOK
<1>4. TrulyAlone'
  BY <1>1, <1>3 DEF TrulyAlone, Active
<1>5. Keeping'
  BY <1>1, <1>2, <1>3 DEF Keeping
<1>6. QED
  BY <1>4, <1>5

LEMMA NextAlone == AloneInv /\ [Next]_vars => AloneInv'
<1> SUFFICES ASSUME AloneInv, [Next]_vars PROVE TrulyAlone' /\ Keeping'
  BY NextIInv DEF AloneInv
<1>1. CASE Edit
  BY <1>1 DEF AloneInv, Edit, TrulyAlone, Keeping, Active
<1>2. CASE UNCHANGED vars
  BY <1>2 DEF AloneInv, vars, TrulyAlone, Keeping, Active
<1>3. CASE \E b \in Builder : BuilderStep(b)
  BY <1>3, IngestAlone, ParseFileAlone, RunStatementAlone, StopAlone DEF BuilderStep
<1>4. QED
  BY <1>1, <1>2, <1>3 DEF Next

\* A build that nobody overlaps leaves on every class the bases it has parsed.
THEOREM BaseNamesKept == Spec => []BaseNamesAreKept
<1>1. ASSUME AloneInv PROVE BaseNamesAreKept
  <2>1. SUFFICES ASSUME NEW b \in Builder, Complete(b), job[b].alone
                 PROVE  Kept(SnapshotOf(job[b]), base_class_names)
    BY DEF BaseNamesAreKept, Kept, SnapshotOf
  <2>2. pc[b] = "build" /\ job[b].next > Last /\ job[b] \in Job
    BY <1>1, <2>1 DEF AloneInv, IInv, JobsTyped, Active, Complete
  <2>3. job[b].next \in Nat
    BY <2>2, SnapshotOfJob
  <2>4. job[b].next > ClassStatement
    BY <2>2, <2>3 DEF Last, ClassStatement
  <2>5. QED
    BY <1>1, <2>1, <2>2, <2>4 DEF AloneInv, Keeping
<1>2. QED
  BY <1>1, InitAlone, NextAlone, PTL DEF Spec

\* Both together: nothing of a snapshot is lost.
THEOREM SnapshotsAreWritten == Spec => []SnapshotIsWritten
BY BuildsAreComplete, BaseNamesKept, PTL DEF SnapshotIsWritten
-----------------------------------------------------------------------------
(* Builders implement the growing graph. *)

\* The snapshot that each builder writes.
Writing == [b \in Builder |-> IF pc[b] = "build" THEN SnapshotOf(job[b]) ELSE NoJob]

LEMMA WritingNext ==
  Writing' = [b \in Builder |-> IF pc'[b] = "build" THEN SnapshotOf(job'[b]) ELSE NoJob]
BY DEF Writing

\* Only what b writes changes.
LEMMA WritingOf ==
  ASSUME NEW b \in Builder,
         \A c \in Builder \ {b} :
           /\ pc'[c] = pc[c]
           /\ pc[c] = "build" => SnapshotOf(job'[c]) = SnapshotOf(job[c])
  PROVE  Writing' = [Writing EXCEPT ![b] = Writing'[b]]
BY WritingNext DEF Writing

\* The job with which a builder starts to write.
LEMMA IngestGrows ==
  ASSUME IInv, IInv', NEW b \in Builder, Ingest(b) PROVE [Growth!Next]_(Growth!vars)
<1> DEFINE files == {f \in File : tree[f] # Absent}
           p == AfterParse(files)
<1>1. TypeOK /\ JobsTyped /\ pc[b] \notin {"parse", "build"}
  BY DEF IInv, Ingest, Active
<1>2. /\ UNCHANGED <<nodes, edges>>
      /\ pc' = [pc EXCEPT ![b] = p]
      /\ \A c \in Builder : c # b =>
           job'[c] = IF Active(c) THEN [job[c] EXCEPT !.alone = FALSE] ELSE job[c]
  BY DEF Ingest
<1>3. p \in {"parse", "build"}
  BY DEF AfterParse
<1> HIDE DEF files, p
<1>4. pc'[b] = p /\ \A c \in Builder \ {b} : pc'[c] = pc[c]
  BY <1>1, <1>2 DEF TypeOK
<1>5. ASSUME NEW c \in Builder \ {b}, pc[c] = "build"
      PROVE  SnapshotOf(job'[c]) = SnapshotOf(job[c])
  <2>1. job[c] \in Job /\ job'[c] = [job[c] EXCEPT !.alone = FALSE]
    BY <1>1, <1>2, <1>5 DEF JobsTyped, Active
  <2>2. QED
    BY <2>1 DEF Job, SnapshotOf
<1>6. Writing' = [Writing EXCEPT ![b] = Writing'[b]]
  BY <1>4, <1>5, WritingOf
<1>7. CASE p = "parse"
  <2>1. Writing' = Writing
    <3>1. Writing[b] = NoJob /\ Writing'[b] = NoJob
      BY <1>1, <1>4, <1>7, WritingNext DEF Writing
    <3>2. QED
      BY <1>6, <3>1 DEF Writing
  <2>2. Growth!Read(b)
    BY <1>1, <1>2, <1>7, <2>1 DEF Growth!Read, Growth!Enter, Writing
  <2>3. QED
    BY <2>2 DEF Growth!Next
<1>8. CASE p = "build"
  <2>1. Writing'[b] = SnapshotOf(job'[b]) /\ job'[b] \in Job
    BY <1>4, <1>8, WritingNext DEF IInv, JobsTyped, Active
  <2>2. Writing'[b] \in Snapshot
    BY <2>1, SnapshotOfJob
  <2>3. Growth!Begin(b)
    BY <1>1, <1>2, <1>6, <1>8, <2>2 DEF Growth!Begin, Growth!Enter, Writing
  <2>4. QED
    BY <2>3 DEF Growth!Next
<1>9. QED
  BY <1>3, <1>7, <1>8

LEMMA ParseFileGrows ==
  ASSUME IInv, IInv', NEW b \in Builder, NEW f \in File, ParseFile(b, f)
  PROVE  [Growth!Next]_(Growth!vars)
<1> DEFINE p == AfterParse(job[b].todo \ {f})
<1>1. TypeOK /\ pc[b] = "parse"
  BY DEF IInv, ParseFile
<1>2. /\ UNCHANGED <<nodes, edges>>
      /\ pc' = [pc EXCEPT ![b] = p]
      /\ \A c \in Builder \ {b} : job'[c] = job[c]
  BY <1>1 DEF ParseFile, TypeOK
<1>3. p \in {"parse", "build"}
  BY DEF AfterParse
<1> HIDE DEF p
<1>4. pc'[b] = p /\ \A c \in Builder \ {b} : pc'[c] = pc[c]
  BY <1>1, <1>2 DEF TypeOK
<1>5. Writing' = [Writing EXCEPT ![b] = Writing'[b]]
  BY <1>2, <1>4, WritingOf
<1>6. CASE p = "parse"
  <2>1. Writing' = Writing
    <3>1. Writing[b] = NoJob /\ Writing'[b] = NoJob
      BY <1>1, <1>4, <1>6, WritingNext DEF Writing
    <3>2. QED
      BY <1>5, <3>1 DEF Writing
  <2>2. pc' = pc
    BY <1>1, <1>2, <1>6 DEF TypeOK
  <2>3. QED
    BY <1>2, <2>1, <2>2 DEF Growth!vars, Writing
<1>7. CASE p = "build"
  <2>1. Writing'[b] = SnapshotOf(job'[b]) /\ job'[b] \in Job
    BY <1>4, <1>7, WritingNext DEF IInv, JobsTyped, Active
  <2>2. Writing'[b] \in Snapshot
    BY <2>1, SnapshotOfJob
  <2>3. Growth!Begin(b)
    BY <1>1, <1>2, <1>5, <1>7, <2>2 DEF Growth!Begin, Growth!Enter, Writing
  <2>4. QED
    BY <2>3 DEF Growth!Next
<1>8. QED
  BY <1>3, <1>6, <1>7

LEMMA RunStatementGrows ==
  ASSUME IInv, IInv', NEW b \in Builder, RunStatement(b) PROVE Growth!Grow(b)
<1> DEFINE s == SnapshotOf(job[b])
           st == Statements(s)[job[b].next]
<1>1. TypeOK /\ pc[b] = "build" /\ pc' = pc
  BY DEF IInv, RunStatement
<1>2. /\ job[b] \in Job /\ s \in Snapshot /\ Proper(s) /\ job[b].next \in 1 .. Last
      /\ Effect(st, nodes, edges, nodes', edges')
  BY RunStatementEffect
<1>3. job' = [job EXCEPT ![b] = [job[b] EXCEPT !.next = job[b].next + 1]]
  BY DEF RunStatement
<1>4. SnapshotOf(job'[b]) = s /\ \A c \in Builder \ {b} : job'[c] = job[c]
  BY <1>1, <1>2, <1>3 DEF TypeOK, Job, SnapshotOf
<1>5. Writing[b] = s
  BY <1>1 DEF Writing
<1>6. Sound(s, st)
  <2> HIDE DEF s
  <2> QED BY <1>2, StatementsSound DEF st
<1> HIDE DEF s, st
<1>7. Writing' = Writing
  <2>1. \A c \in Builder : SnapshotOf(job'[c]) = SnapshotOf(job[c])
    BY <1>4 DEF s
  <2>2. QED
    BY <1>1, <2>1, WritingNext DEF Writing
<1>8. /\ nodes \subseteq nodes' /\ nodes' \subseteq nodes \cup ExpectedNodes(s)
      /\ edges \subseteq edges' /\ edges' \subseteq edges \cup AllowedEdges(s)
  BY <1>2, <1>6 DEF Effect, Sound
<1>9. \A e \in edges' : e.from \in nodes' /\ e.to \in nodes'
  BY CutOffPartsNext DEF IInv, Joined
<1>10. QED
  BY <1>1, <1>5, <1>7, <1>8, <1>9 DEF Growth!Grow, Writing

LEMMA FinishGrows ==
  ASSUME IInv, NEW b \in Builder, Finish(b) PROVE Growth!Finish(b)
<1>1. TypeOK /\ pc[b] = "build" /\ job[b] \in Job /\ job[b].next > Last
      /\ Progress(SnapshotOf(job[b]), job[b].next, nodes, edges)
  BY DEF IInv, JobsTyped, Active, Finish, Progressing
<1>2. SnapshotOf(job[b]) \in Snapshot /\ job[b].next \in 1 .. Last + 1
  BY <1>1, SnapshotOfJob
<1>3. job[b].next = Last + 1
  BY <1>1, <1>2 DEF Last
<1>4. /\ ExpectedNodes(SnapshotOf(job[b])) \subseteq nodes
      /\ ExpectedEdges(SnapshotOf(job[b])) \subseteq edges
  BY <1>1, <1>2, <1>3, ProgressEnds
<1>5. /\ pc' = [pc EXCEPT ![b] = "built"] /\ UNCHANGED <<nodes, edges>>
      /\ \A c \in Builder \ {b} : pc'[c] = pc[c] /\ job'[c] = job[c]
      /\ pc'[b] = "built"
  BY <1>1 DEF Finish, TypeOK
<1>6. Writing' = [Writing EXCEPT ![b] = Writing'[b]] /\ Writing'[b] = NoJob
  BY <1>5, WritingOf, WritingNext
<1>7. Writing[b] = SnapshotOf(job[b])
  BY <1>1 DEF Writing
<1>8. QED
  BY <1>1, <1>4, <1>5, <1>6, <1>7 DEF Growth!Finish, Growth!Enter, Writing

LEMMA FailGrows ==
  ASSUME IInv, NEW b \in Builder, Fail(b) PROVE Growth!Abandon(b)
<1>1. TypeOK /\ pc[b] \in {"parse", "build"}
  BY DEF IInv, Fail, Active
<1>2. /\ pc' = [pc EXCEPT ![b] = "failed"] /\ UNCHANGED <<nodes, edges>>
      /\ \A c \in Builder \ {b} : pc'[c] = pc[c] /\ job'[c] = job[c]
      /\ pc'[b] = "failed"
  BY <1>1 DEF Fail, TypeOK
<1>3. Writing' = [Writing EXCEPT ![b] = Writing'[b]] /\ Writing'[b] = NoJob
  BY <1>2, WritingOf, WritingNext
<1>4. QED
  BY <1>1, <1>2, <1>3 DEF Growth!Abandon, Growth!Enter, Writing

\* Every step of the builders is a step of the growing graph, or none of it.
LEMMA StepGrows ==
  ASSUME IInv, IInv', [Next]_vars PROVE [Growth!Next]_(Growth!vars)
<1>1. CASE Edit \/ UNCHANGED vars
  <2>1. UNCHANGED <<nodes, edges, pc, job>>
    BY <1>1 DEF Edit, vars
  <2>2. QED
    BY <2>1 DEF Growth!vars
<1>2. CASE \E b \in Builder : BuilderStep(b)
  <2>1. PICK b \in Builder : BuilderStep(b)
    BY <1>2
  <2>2. CASE Ingest(b)
    BY <2>2, IngestGrows
  <2>3. CASE \E f \in File : ParseFile(b, f)
    BY <2>3, ParseFileGrows
  <2>4. CASE RunStatement(b) \/ Finish(b) \/ Fail(b)
    <3>1. Growth!Grow(b) \/ Growth!Finish(b) \/ Growth!Abandon(b)
      BY <2>4, RunStatementGrows, FinishGrows, FailGrows
    <3>2. QED
      BY <3>1 DEF Growth!Next
  <2>5. QED
    BY <2>1, <2>2, <2>3, <2>4 DEF BuilderStep
<1>3. QED
  BY <1>1, <1>2 DEF Next

\* Builders, however they interleave and wherever they stop, implement
\* GraphGrowth: they add what their snapshots allow, take nothing away, and
\* return only when everything their snapshot calls for is there.
THEOREM GrowthImplemented == Spec => ImplementsGrowth
<1>1. Init => Growth!Init
  BY DEF Init, Growth!Init
<1>2. QED
  BY <1>1, StepGrows, Invariance, NextIInv, PTL DEF Spec, ImplementsGrowth, Growth!Spec
-----------------------------------------------------------------------------
(* As long as nobody edits the tree, the graph is the graph of the tree.   *)

Listed(w) == {f \in File : w[f] # Absent}

\* What every builder reads of the tree w.
ReadOf(w) == [f \in File |-> IF w[f] = Absent THEN EmptyFile ELSE w[f]]

TreeSnapshot(w) == [files |-> Listed(w), parsed |-> ReadOf(w)]

\* A builder at work has read all but what it has still to parse.
Current(j, w) ==
  /\ j.files = Listed(w)
  /\ j.todo \subseteq j.files
  /\ \A f \in File \ j.todo : j.parsed[f] = ReadOf(w)[f]

Reading ==
  \A b \in Builder :
    Active(b) => Current(job[b], tree) /\ (pc[b] = "build" => job[b].todo = {})

\* And nothing is in the graph that the tree does not call for.
NothingMore ==
  /\ nodes \subseteq ExpectedNodes(TreeSnapshot(tree))
  /\ edges \subseteq AllowedEdges(TreeSnapshot(tree))

FreshInv == IInv /\ (edits = 0 => Reading /\ NothingMore)

\* A job with nothing left to parse has the snapshot of the tree.
LEMMA CurrentSnapshot ==
  ASSUME NEW j \in Job, NEW w, Current(j, w), j.todo = {}
  PROVE  SnapshotOf(j) = TreeSnapshot(w)
<1>1. j.files = Listed(w) /\ j.parsed \in [File -> ParsedFile]
  BY DEF Job, Current
<1>2. \A f \in File : j.parsed[f] = ReadOf(w)[f]
  BY DEF Current
<1>3. j.parsed = ReadOf(w)
  BY <1>1, <1>2 DEF ReadOf
<1>4. QED
  BY <1>1, <1>3 DEF SnapshotOf, TreeSnapshot

LEMMA InitFresh == Init => FreshInv
<1>1. Init => Reading /\ NothingMore
  BY DEF Init, Reading, NothingMore, Active
<1>2. QED
  BY <1>1, InitIInv DEF FreshInv

LEMMA IngestFresh ==
  ASSUME FreshInv, edits = 0, NEW b \in Builder, Ingest(b)
  PROVE  Reading' /\ NothingMore'
<1> DEFINE files == {f \in File : tree[f] # Absent}
           alone == \A c \in Builder : ~ Active(c)
<1>1. TypeOK /\ JobsTyped /\ Reading /\ NothingMore
  BY DEF FreshInv, IInv
<1>2. /\ UNCHANGED <<tree, nodes, edges>>
      /\ pc' = [pc EXCEPT ![b] = AfterParse(files)]
      /\ \A c \in Builder :
           job'[c] = IF c = b THEN NewJob(files, alone)
                     ELSE IF Active(c) THEN [job[c] EXCEPT !.alone = FALSE] ELSE job[c]
  BY DEF Ingest
<1>3. files = Listed(tree)
  BY DEF Listed
<1>4. job'[b] = NewJob(files, alone)
  BY <1>2
<1> HIDE DEF files, alone
<1>5. job'[b].todo = files /\ Current(job'[b], tree)
  <2>1. ASSUME NEW f \in File \ files PROVE EmptyFile = ReadOf(tree)[f]
    BY <1>3 DEF Listed, ReadOf
  <2>2. QED
    BY <1>3, <1>4, <2>1 DEF NewJob, Current
<1>6. ASSUME NEW c \in Builder, c # b, Active(c)
      PROVE  Current(job'[c], tree) /\ job'[c].todo = job[c].todo
  <2>1. job[c] \in Job /\ job'[c] = [job[c] EXCEPT !.alone = FALSE] /\ Current(job[c], tree)
    BY <1>1, <1>2, <1>6 DEF JobsTyped, Reading
  <2>2. QED
    BY <2>1 DEF Job, Current
<1>7. /\ \A c \in Builder : c # b => pc'[c] = pc[c]
      /\ pc'[b] = "build" => files = {}
  BY <1>1, <1>2 DEF TypeOK, AfterParse
<1>8. Reading'
  <2>1. SUFFICES ASSUME NEW c \in Builder, pc'[c] \in {"parse", "build"}
                 PROVE  Current(job'[c], tree) /\ (pc'[c] = "build" => job'[c].todo = {})
    BY <1>2 DEF Reading, Active
  <2>2. CASE c = b
    BY <1>5, <1>7, <2>2
  <2>3. CASE c # b
    BY <1>1, <1>6, <1>7, <2>1, <2>3 DEF Reading, Active
  <2>4. QED
    BY <2>2, <2>3
<1>9. QED
  BY <1>1, <1>2, <1>8 DEF NothingMore

LEMMA ParseFileFresh ==
  ASSUME FreshInv, edits = 0, NEW b \in Builder, NEW f \in File, ParseFile(b, f)
  PROVE  Reading' /\ NothingMore'
<1> DEFINE todo == job[b].todo \ {f}
           read == IF tree[f] = Absent THEN EmptyFile ELSE tree[f]
           j == [job[b] EXCEPT !.todo = todo, !.parsed[f] = read]
<1>1. TypeOK /\ JobsTyped /\ Reading /\ NothingMore
  BY DEF FreshInv, IInv
<1>2. pc[b] = "parse" /\ job[b] \in Job /\ Current(job[b], tree)
  BY <1>1 DEF JobsTyped, Reading, Active, ParseFile
<1>3. /\ UNCHANGED <<tree, nodes, edges>>
      /\ pc' = [pc EXCEPT ![b] = AfterParse(todo)]
      /\ job' = [job EXCEPT ![b] = j]
  BY DEF ParseFile
<1>4. read = ReadOf(tree)[f]
  BY DEF ReadOf
<1>5. todo \subseteq job[b].todo /\ \A g \in File \ todo : g = f \/ g \notin job[b].todo
  OBVIOUS
<1>6. j.files = job[b].files /\ j.todo = todo
      /\ \A g \in File : j.parsed[g] = IF g = f THEN read ELSE job[b].parsed[g]
  <2> HIDE DEF todo, read
  <2> QED BY <1>2 DEF Job
<1> HIDE DEF todo, read, j
<1>7. Current(j, tree)
  BY <1>2, <1>4, <1>5, <1>6 DEF Current
<1>8. \A c \in Builder : /\ pc'[c] = IF c = b THEN AfterParse(todo) ELSE pc[c]
                         /\ job'[c] = IF c = b THEN j ELSE job[c]
  BY <1>1, <1>3 DEF TypeOK
<1>9. Reading'
  BY <1>1, <1>3, <1>6, <1>7, <1>8 DEF Reading, Active, AfterParse
<1>10. QED
  BY <1>1, <1>3, <1>9 DEF NothingMore

LEMMA RunStatementFresh ==
  ASSUME FreshInv, edits = 0, NEW b \in Builder, RunStatement(b)
  PROVE  Reading' /\ NothingMore'
<1> DEFINE s == SnapshotOf(job[b])
           n == job[b].next
           st == Statements(s)[n]
           j == [job[b] EXCEPT !.next = n + 1]
<1>1. IInv /\ TypeOK /\ Reading /\ NothingMore
  BY DEF FreshInv, IInv
<1>2. /\ job[b] \in Job /\ Proper(s) /\ n \in 1 .. Last
      /\ Effect(st, nodes, edges, nodes', edges')
  BY <1>1, RunStatementEffect
<1>3. UNCHANGED <<tree, pc>> /\ pc[b] = "build" /\ job' = [job EXCEPT ![b] = j]
  BY DEF RunStatement
<1>4. Current(job[b], tree) /\ job[b].todo = {}
  BY <1>1, <1>3 DEF Reading, Active
<1>5. s = TreeSnapshot(tree)
  BY <1>2, <1>4, CurrentSnapshot
<1>6. Sound(s, st)
  <2> HIDE DEF s, n
  <2> QED BY <1>2, StatementsSound DEF st
<1>7. /\ j.files = job[b].files /\ j.todo = job[b].todo /\ j.parsed = job[b].parsed
  <2> HIDE DEF n
  <2> QED BY <1>2 DEF Job
<1> HIDE DEF s, n, st, j
<1>8. Current(j, tree) /\ j.todo = {}
  BY <1>4, <1>7 DEF Current
<1>9. \A c \in Builder : job'[c] = IF c = b THEN j ELSE job[c]
  BY <1>1, <1>3 DEF TypeOK
<1>10. Reading'
  BY <1>1, <1>3, <1>8, <1>9 DEF Reading, Active
<1>11. NothingMore'
  BY <1>1, <1>2, <1>3, <1>5, <1>6 DEF NothingMore, Effect, Sound
<1>12. QED
  BY <1>10, <1>11

LEMMA StopFresh ==
  ASSUME FreshInv, edits = 0, NEW b \in Builder, Finish(b) \/ Fail(b)
  PROVE  Reading' /\ NothingMore'
<1>1. TypeOK /\ Reading /\ NothingMore
  BY DEF FreshInv, IInv
<1>2. PICK p \in {"built", "failed"} :
        /\ pc' = [pc EXCEPT ![b] = p]
        /\ job' = [job EXCEPT ![b] = NoJob]
        /\ UNCHANGED <<tree, nodes, edges>>
  BY DEF Finish, Fail
<1>3. \A c \in Builder : /\ pc'[c] = IF c = b THEN p ELSE pc[c]
                         /\ c # b => job'[c] = job[c]
  BY <1>1, <1>2 DEF TypeOK
<1>4. Reading'
  BY <1>1, <1>2, <1>3 DEF Reading, Active
<1>5. QED
  BY <1>1, <1>2, <1>4 DEF NothingMore

LEMMA NextFresh == FreshInv /\ [Next]_vars => FreshInv'
<1> SUFFICES ASSUME FreshInv, [Next]_vars, edits' = 0
             PROVE  Reading' /\ NothingMore'
  BY NextIInv DEF FreshInv
<1>1. CASE Edit
  BY <1>1 DEF Edit, FreshInv, IInv, TypeOK
<1>2. CASE UNCHANGED vars
  BY <1>2 DEF vars, FreshInv, Reading, NothingMore, Active
<1>3. CASE \E b \in Builder : BuilderStep(b)
  <2>1. edits' = edits
    BY <1>3 DEF BuilderStep, Ingest, ParseFile, RunStatement, Finish, Fail
  <2>2. QED
    BY <1>3, <2>1, IngestFresh, ParseFileFresh, RunStatementFresh, StopFresh DEF BuilderStep
<1>4. QED
  BY <1>1, <1>2, <1>3 DEF Next

\* Builds of a tree that stays as it is converge: each that returns leaves
\* exactly the graph of that tree, whatever other builds did beside or before
\* it ("re-indexed without creating duplicates", graph/schema.py).
THEOREM RebuildsConverge == Spec => []RebuildConverges
<1>1. ASSUME FreshInv PROVE RebuildConverges
  <2>1. SUFFICES ASSUME edits = 0, NEW b \in Builder, Complete(b)
                 PROVE  /\ nodes = ExpectedNodes(SnapshotOf(job[b]))
                        /\ edges = ExpectedEdges(SnapshotOf(job[b]))
    BY DEF RebuildConverges
  <2>2. /\ job[b] \in Job /\ job[b].next > Last
        /\ Progress(SnapshotOf(job[b]), job[b].next, nodes, edges)
        /\ Current(job[b], tree) /\ job[b].todo = {}
        /\ NothingMore /\ NothingIsCutOff
    BY <1>1, <2>1 DEF FreshInv, IInv, JobsTyped, Active, Complete, Progressing, Reading
  <2>3. SnapshotOf(job[b]) \in Snapshot /\ job[b].next \in 1 .. Last + 1
    BY <2>2, SnapshotOfJob
  <2>4. job[b].next = Last + 1
    BY <2>2, <2>3 DEF Last
  <2>5. /\ ExpectedNodes(SnapshotOf(job[b])) \subseteq nodes
        /\ ExpectedEdges(SnapshotOf(job[b])) \subseteq edges
    BY <2>2, <2>3, <2>4, ProgressEnds
  <2>6. /\ nodes \subseteq ExpectedNodes(SnapshotOf(job[b]))
        /\ edges \subseteq AllowedEdges(SnapshotOf(job[b]))
    BY <2>2, CurrentSnapshot DEF NothingMore
  <2>7. \A e \in edges : e.from \in nodes /\ e.to \in nodes
    BY <2>2 DEF NothingIsCutOff
  <2>8. edges \subseteq ExpectedEdges(SnapshotOf(job[b]))
    BY <2>6, <2>7 DEF ExpectedEdges
  <2>9. QED
    BY <2>5, <2>6, <2>8
<1>2. QED
  BY <1>1, InitFresh, NextFresh, PTL DEF Spec
=============================================================================
