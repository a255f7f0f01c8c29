------------------------ MODULE RepositoryIndex_proofs ------------------------
(***************************************************************************)
(* Proofs about RepositoryIndex, for any trees, files, indexers and        *)
(* bounds.                                                                 *)
(***************************************************************************)
EXTENDS RepositoryIndex, SequenceTheorems, TLAPS

(* What a call has read has its type, whatever the tree looks like. *)

LEMMA SliceType ==
  ASSUME NEW lines \in Seq(Segment), NEW first \in Nat, NEW last \in Nat, 1 <= first
  PROVE  slice_lines(lines, first, last) \in Seq(Segment)
<1> DEFINE end == IF last < Len(lines) THEN last ELSE Len(lines)
<1>1. Len(lines) \in Nat /\ end \in Nat /\ end <= Len(lines) /\ DOMAIN lines = 1 .. Len(lines)
  BY LenProperties
<1>2. \A k \in first .. end : lines[k] \in Segment
  BY <1>1, ElementOfSeq
<1>3. SubSeq(lines, first, end) \in Seq(Segment)
  BY <1>1, <1>2, SubSeqProperties
<1> QED
  BY <1>3 DEF slice_lines

LEMMA ParseType ==
  ASSUME NEW f \in File, NEW v \in Content \cup {Absent}
  PROVE  parse_file(f, v) \in Seq(Symbol)
<1>1. CASE v = Absent
  BY <1>1, EmptySeq DEF parse_file
<1>2. CASE v # Absent
  <2>1. v.symbols \in Seq(Symbol)
    BY <1>2, ContentAssumption DEF ContentType
  <2> QED
    BY <2>1, EmptySeq DEF parse_file
<1> QED
  BY <1>1, <1>2

LEMMA ChunksOfSymbols ==
  ASSUME NEW f \in File, NEW symbols \in Seq(Symbol), NEW lines \in Seq(Segment)
  PROVE  chunks_for_parsed_file(f, symbols, lines) \in Seq(ChunkType)
<1>1. Len(symbols) \in Nat /\ DOMAIN symbols = 1 .. Len(symbols)
  BY LenProperties
<1>2. ASSUME NEW i \in 1 .. Len(symbols)
      PROVE  Chunk(f, symbols[i].chunk_type, symbols[i].name, symbols[i].first, symbols[i].last,
                   slice_lines(lines, symbols[i].first, symbols[i].last)) \in ChunkType
  <2>1. symbols[i] \in Symbol
    BY <1>1, ElementOfSeq
  <2>2. /\ symbols[i].name \in STRING /\ symbols[i].chunk_type \in {"class", "function"}
        /\ symbols[i].first \in Nat /\ symbols[i].last \in Nat /\ 1 <= symbols[i].first
    BY <2>1 DEF Symbol
  <2>3. slice_lines(lines, symbols[i].first, symbols[i].last) \in Seq(Segment)
    BY <2>2, SliceType
  <2> QED
    BY <2>2, <2>3 DEF Chunk, ChunkType
<1> QED
  BY <1>1, <1>2, IsASeq DEF chunks_for_parsed_file

LEMMA BuildType ==
  ASSUME NEW f \in File, NEW symbols \in Seq(Symbol), NEW v \in Content \cup {Absent}
  PROVE  build_chunks(f, symbols, v) \in Seq(ChunkType)
<1>1. CASE v = Absent
  BY <1>1, EmptySeq DEF build_chunks
<1>2. CASE v # Absent
  <2>1. v.text \in Seq(Segment) /\ v.line_count \in Nat
    BY <1>2, ContentAssumption DEF ContentType
  <2>2. chunks_for_parsed_file(f, symbols, v.text) \in Seq(ChunkType)
    BY <2>1, ChunksOfSymbols
  <2>3. FileChunk(f, v) \in ChunkType
    BY <2>1 DEF FileChunk, Chunk, ChunkType
  <2>4. <<FileChunk(f, v)>> \in Seq(ChunkType)
    BY <2>3
  <2> QED
    BY <1>2, <2>2, <2>4, EmptySeq DEF build_chunks
<1> QED
  BY <1>1, <1>2
-----------------------------------------------------------------------------
(* Types. *)

Phase == {"idle", "stat", "parse", "chunk", "embed", "repository", "insert", "indexed", "failed"}

\* A job as TypeOK has it.
Sound(j) == j \in Job /\ j.embeddings <= Len(j.chunks)

LEMMA NewJobSound ==
  ASSUME TypeOK, NEW r \in Root
  PROVE  Sound(NewJob(r))
<1>1. [f \in File |-> <<>>] \in [File -> Seq(Symbol)] /\ <<>> \in Seq(ChunkType) /\ Len(<<>>) = 0
  BY EmptySeq
<1>2. indexings + 1 \in Nat /\ tree[r] \in [File -> Content \cup {Absent}]
  BY BoundsAssumption DEF TypeOK
<1>3. discover_files(r) \in SUBSET File
  BY DEF discover_files
<1> QED
  BY <1>1, <1>2, <1>3 DEF NewJob, Sound, Job

\* The end of a pass leaves a job sound.
LEMMA AfterPassSound ==
  ASSUME TypeOK, NEW i \in Indexer, NEW j, Sound(j), NEW todo \in SUBSET File,
         NEW here \in Phase \ {"idle", "failed"}, NEW next \in Phase \ {"idle", "failed"},
         AfterPass(i, j, here, next, todo)
  PROVE  /\ pc' \in [Indexer -> Phase]
         /\ DOMAIN job' = Indexer
         /\ \A k \in Indexer : pc'[k] \notin {"idle", "failed"} => Sound(job'[k])
<1>1. Sound([j EXCEPT !.todo = todo])
  BY DEF Sound, Job
<1>2. DOMAIN job = Indexer /\ pc \in [Indexer -> Phase]
  BY DEF TypeOK, Phase
<1>3. /\ DOMAIN job' = Indexer
      /\ job'[i] = IF j.todo = {} THEN [j EXCEPT !.todo = todo] ELSE j
      /\ \A k \in Indexer \ {i} : job'[k] = job[k] /\ pc'[k] = pc[k]
      /\ pc' \in [Indexer -> Phase]
  BY <1>2 DEF AfterPass
<1>4. Sound(job'[i])
  BY <1>1, <1>3
<1>5. \A k \in Indexer \ {i} : pc'[k] \notin {"idle", "failed"} => Sound(job'[k])
  BY <1>3 DEF TypeOK, Sound
<1> QED
  BY <1>3, <1>4, <1>5

\* A job that is replaced by a sound one, at a step from phase to phase.
LEMMA StepSound ==
  ASSUME TypeOK, NEW i \in Indexer, NEW next \in Phase,
         pc' = [pc EXCEPT ![i] = next],
         NEW j, job' = [job EXCEPT ![i] = j], next \notin {"idle", "failed"} => Sound(j)
  PROVE  /\ pc' \in [Indexer -> Phase]
         /\ DOMAIN job' = Indexer
         /\ \A k \in Indexer : pc'[k] \notin {"idle", "failed"} => Sound(job'[k])
BY DEF TypeOK, Phase, Sound

\* TypeOK, with what the lemmas above are about.
LEMMA Types ==
  TypeOK <=>
    /\ tree \in [Root -> [File -> Content \cup {Absent}]]
    /\ repositories \subseteq [id : Nat, name : STRING, root_path : Root]
    /\ next_id \in Nat
    /\ rows \subseteq Row
    /\ pc \in [Indexer -> Phase]
    /\ DOMAIN job = Indexer
    /\ \A k \in Indexer : pc[k] \notin {"idle", "failed"} => Sound(job[k])
    /\ indexings \in 0 .. MaxIndexings
    /\ edits \in 0 .. MaxEdits
BY DEF TypeOK, Phase, Sound

LEMMA TypesNext ==
  ASSUME TypeOK,
         tree' \in [Root -> [File -> Content \cup {Absent}]],
         repositories' \subseteq [id : Nat, name : STRING, root_path : Root],
         next_id' \in Nat,
         rows' \subseteq Row,
         pc' \in [Indexer -> Phase],
         DOMAIN job' = Indexer,
         \A k \in Indexer : pc'[k] \notin {"idle", "failed"} => Sound(job'[k]),
         indexings' \in 0 .. MaxIndexings,
         edits' \in 0 .. MaxEdits
  PROVE  TypeOK'
BY DEF TypeOK, Phase, Sound

LEMMA RowTypes ==
  ASSUME NEW j, Sound(j), j.repository_id \in Nat, NEW k \in 1 .. Len(j.chunks)
  PROVE  RowOf(j, k) \in Row
<1>1. j.chunks[k] \in ChunkType
  BY ElementOfSeq DEF Sound, Job
<1>2. k \in Nat
  BY LenProperties DEF Sound, Job
<1> QED
  BY <1>1, <1>2 DEF RowOf, Row, Sound, Job

LEMMA TypeInit == Init => TypeOK
<1> SUFFICES ASSUME Init PROVE TypeOK
  OBVIOUS
<1>1. tree \in [Root -> [File -> Content \cup {Absent}]]
  BY TreesAssumption DEF Init
<1> QED
  BY <1>1, BoundsAssumption DEF Init, TypeOK

\* Each step of an indexer keeps the types.
LEMMA TypeStep ==
  ASSUME TypeOK, NEW i \in Indexer, IndexerStep(i)
  PROVE  TypeOK'
<1> USE Types
<1>1. ASSUME NEW r \in Root, Discover(i, r)
      PROVE  TypeOK'
  <2>1. Sound(NewJob(r))
    BY NewJobSound
  <2>2. AfterPass(i, NewJob(r), "stat", "parse", {})
    BY <1>1 DEF Discover
  <2>3. /\ pc' \in [Indexer -> Phase]
        /\ DOMAIN job' = Indexer
        /\ \A k \in Indexer : pc'[k] \notin {"idle", "failed"} => Sound(job'[k])
    BY <2>1, <2>2, AfterPassSound DEF Phase
  <2>4. indexings' \in 0 .. MaxIndexings
    BY <1>1, BoundsAssumption DEF Discover
  <2> QED
    BY <1>1, <2>3, <2>4, TypesNext DEF Discover
<1>2. ASSUME NEW f \in File, StatFile(i, f)
      PROVE  TypeOK'
  <2> DEFINE v == tree[job[i].root][f]
             files == IF v # Absent /\ classify_file(Path[f], v) THEN job[i].files \cup {f} ELSE job[i].files
             j == [job[i] EXCEPT !.todo = @ \ {f}, !.files = files]
  <2>1. Sound(job[i])
    BY <1>2 DEF StatFile
  <2>2. files \in SUBSET (File \ NamedOut)
    <3>1. job[i].files \in SUBSET (File \ NamedOut)
      BY <2>1 DEF Sound, Job
    <3>2. classify_file(Path[f], v) => f \notin NamedOut
      BY DEF classify_file, NamedOut
    <3> QED
      BY <3>1, <3>2
  <2>3. Sound(j)
    BY <2>1, <2>2 DEF Sound, Job
  <2>4. AfterPass(i, j, "stat", "parse", SourcesOf(files)) /\ SourcesOf(files) \in SUBSET File
    BY <1>2, <2>2 DEF StatFile, SourcesOf
  <2>5. /\ pc' \in [Indexer -> Phase]
        /\ DOMAIN job' = Indexer
        /\ \A k \in Indexer : pc'[k] \notin {"idle", "failed"} => Sound(job'[k])
    <3> HIDE DEF j, files
    <3> QED
      BY <2>3, <2>4, AfterPassSound DEF Phase
  <2> QED
    BY <1>2, <2>5, TypesNext DEF StatFile
<1>3. ASSUME NEW f \in File, ParseFile(i, f)
      PROVE  TypeOK'
  <2> DEFINE symbols == parse_file(f, tree[job[i].root][f])
             j == [job[i] EXCEPT !.todo = @ \ {f}, !.symbols[f] = symbols]
             sources == SourcesOf(job[i].files)
  <2>1. Sound(job[i])
    BY <1>3 DEF ParseFile
  <2>2. symbols \in Seq(Symbol)
    <3>1. tree[job[i].root][f] \in Content \cup {Absent}
      BY <2>1 DEF Sound, Job
    <3> QED
      BY <3>1, ParseType
  <2>3. Sound(j)
    <3> HIDE DEF symbols
    <3> QED
      BY <2>1, <2>2 DEF Sound, Job
  <2>4. AfterPass(i, j, "parse", "chunk", sources) /\ sources \in SUBSET File
    BY <1>3, <2>1 DEF ParseFile, SourcesOf, Sound, Job
  <2>5. /\ pc' \in [Indexer -> Phase]
        /\ DOMAIN job' = Indexer
        /\ \A k \in Indexer : pc'[k] \notin {"idle", "failed"} => Sound(job'[k])
    <3> HIDE DEF j, sources
    <3> QED
      BY <2>3, <2>4, AfterPassSound DEF Phase
  <2> QED
    BY <1>3, <2>5, TypesNext DEF ParseFile
<1>4. ASSUME NEW f \in File, ChunkFile(i, f)
      PROVE  TypeOK'
  <2> DEFINE chunks == build_chunks(f, job[i].symbols[f], tree[job[i].root][f])
             j == [job[i] EXCEPT !.todo = @ \ {f}, !.chunks = @ \o chunks]
  <2>1. Sound(job[i])
    BY <1>4 DEF ChunkFile
  <2>2. chunks \in Seq(ChunkType)
    <3>1. tree[job[i].root][f] \in Content \cup {Absent} /\ job[i].symbols[f] \in Seq(Symbol)
      BY <2>1 DEF Sound, Job
    <3> QED
      BY <3>1, BuildType
  <2>3. Sound(j)
    <3> HIDE DEF chunks
    <3>1. /\ job[i].chunks \o chunks \in Seq(ChunkType)
          /\ Len(job[i].chunks \o chunks) = Len(job[i].chunks) + Len(chunks)
          /\ Len(chunks) \in Nat /\ Len(job[i].chunks) \in Nat
      BY <2>1, <2>2, ConcatProperties, LenProperties DEF Sound, Job
    <3>2. j \in Job /\ j.embeddings = job[i].embeddings
          /\ j.chunks = job[i].chunks \o chunks
      BY <2>1, <3>1 DEF Sound, Job
    <3>3. job[i].embeddings \in Nat
      BY <2>1 DEF Sound, Job
    <3> HIDE DEF j
    <3> QED
      BY <2>1, <3>1, <3>2, <3>3 DEF Sound
  <2>4. AfterPass(i, j, "chunk", "embed", {})
    BY <1>4 DEF ChunkFile
  <2>5. /\ pc' \in [Indexer -> Phase]
        /\ DOMAIN job' = Indexer
        /\ \A k \in Indexer : pc'[k] \notin {"idle", "failed"} => Sound(job'[k])
    <3> HIDE DEF j
    <3> QED
      BY <2>3, <2>4, AfterPassSound DEF Phase
  <2> QED
    BY <1>4, <2>5, TypesNext DEF ChunkFile
<1>5. CASE NothingToParse(i)
  BY <1>5, TypesNext DEF NothingToParse, Phase
<1>6. CASE Embed(i)
  <2>1. Sound(job[i])
    BY <1>6 DEF Embed
  <2>2. PICK n \in {Len(job[i].chunks), Len(job[i].chunks) - 1} \cap Nat :
          job' = [job EXCEPT ![i] = [job[i] EXCEPT !.embeddings = n]]
    BY <1>6 DEF Embed
  <2>3. Len(job[i].chunks) \in Nat
    BY <2>1, LenProperties DEF Sound, Job
  <2>4. Sound([job[i] EXCEPT !.embeddings = n])
    <3> DEFINE j == [job[i] EXCEPT !.embeddings = n]
    <3>1. n \in Nat /\ n <= Len(job[i].chunks)
      BY <2>2, <2>3
    <3>2. j \in Job /\ j.embeddings = n /\ j.chunks = job[i].chunks
      BY <2>1, <3>1 DEF Sound, Job
    <3> HIDE DEF j
    <3>3. Sound(j)
      BY <3>1, <3>2 DEF Sound
    <3> QED
      BY <3>3 DEF j
  <2>5. /\ pc' \in [Indexer -> Phase]
        /\ DOMAIN job' = Indexer
        /\ \A k \in Indexer : pc'[k] \notin {"idle", "failed"} => Sound(job'[k])
    BY <1>6, <2>2, <2>4, StepSound DEF Embed, Phase
  <2> QED
    BY <1>6, <2>5, TypesNext DEF Embed
<1>7. CASE GetOrCreateRepository(i)
  <2> DEFINE r == job[i].root
             row == IF SameRepository(r) = {}
                    THEN [id |-> next_id, name |-> RepoName[r], root_path |-> r]
                    ELSE CHOOSE x \in SameRepository(r) : TRUE
             Repository == [id : Nat, name : STRING, root_path : Root]
  <2>1. Sound(job[i]) /\ r \in Root
    BY <1>7 DEF GetOrCreateRepository, Sound, Job
  <2>2. row \in Repository
    <3>1. RepoName[r] \in STRING
      BY <2>1, RepoNameAssumption
    <3>2. CASE SameRepository(r) = {}
      BY <2>1, <3>1, <3>2
    <3>3. CASE SameRepository(r) # {}
      <4>1. row \in SameRepository(r)
        BY <3>3
      <4> QED
        BY <4>1 DEF SameRepository
    <3> QED
      BY <3>2, <3>3
  <2>3. /\ [row EXCEPT !.name = RepoName[r]] \in Repository
        /\ Sound([job[i] EXCEPT !.repository_id = row.id])
    <3> HIDE DEF row
    <3> QED
      BY <2>1, <2>2, RepoNameAssumption DEF Sound, Job
  <2>4. /\ repositories' = (repositories \ SameRepository(r)) \cup {[row EXCEPT !.name = RepoName[r]]}
        /\ next_id' = next_id + 1
        /\ job' = [job EXCEPT ![i] = [job[i] EXCEPT !.repository_id = row.id]]
        /\ pc' = [pc EXCEPT ![i] = "insert"]
        /\ UNCHANGED <<tree, rows, indexings, edits>>
    BY <1>7 DEF GetOrCreateRepository
  <2> HIDE DEF row
  <2>5. /\ pc' \in [Indexer -> Phase]
        /\ DOMAIN job' = Indexer
        /\ \A k \in Indexer : pc'[k] \notin {"idle", "failed"} => Sound(job'[k])
    BY <2>3, <2>4, StepSound DEF Phase
  <2>6. repositories' \subseteq Repository /\ next_id' \in Nat
    BY <2>3, <2>4
  <2> QED
    BY <2>4, <2>5, <2>6, TypesNext
<1>8. CASE InsertChunk(i)
  <2>1. Sound(job[i])
    BY <1>8 DEF InsertChunk
  <2>2. Sound([job[i] EXCEPT !.sent = @ + 1])
    <3> DEFINE j == [job[i] EXCEPT !.sent = @ + 1]
    <3>1. job[i].sent + 1 \in Nat
      BY <2>1 DEF Sound, Job
    <3>2. j \in Job /\ j.embeddings = job[i].embeddings /\ j.chunks = job[i].chunks
      BY <2>1, <3>1 DEF Sound, Job
    <3> HIDE DEF j
    <3>3. Sound(j)
      BY <2>1, <3>2 DEF Sound
    <3> QED
      BY <3>3 DEF j
  <2>3. /\ job' = [job EXCEPT ![i] = [job[i] EXCEPT !.sent = @ + 1]]
        /\ rows' = rows
        /\ UNCHANGED <<tree, repositories, next_id, pc, indexings, edits>>
    BY <1>8 DEF InsertChunk, VisibleBefore
  <2>4. /\ pc' \in [Indexer -> Phase]
        /\ DOMAIN job' = Indexer
        /\ \A k \in Indexer : pc'[k] \notin {"idle", "failed"} => Sound(job'[k])
    BY <2>2, <2>3
  <2> QED
    BY <2>3, <2>4, TypesNext
<1>9. CASE Commit(i)
  <2>1. Sound(job[i]) /\ job[i].sent = Len(job[i].chunks) /\ job[i].repository_id \in Nat
    BY <1>9 DEF Commit, LengthsAgree, Sound, Job
  <2>2. {RowOf(job[i], k) : k \in 1 .. job[i].sent} \subseteq Row
    BY <2>1, RowTypes
  <2>3. rows' \subseteq Row
    BY <1>9, <2>2 DEF Commit
  <2>4. /\ pc' \in [Indexer -> Phase]
        /\ DOMAIN job' = Indexer
        /\ \A k \in Indexer : pc'[k] \notin {"idle", "failed"} => Sound(job'[k])
    BY <1>9, <2>1 DEF Commit, Phase
  <2> QED
    BY <1>9, <2>3, <2>4, TypesNext DEF Commit
<1>10. CASE RaiseMismatch(i) \/ Fail(i)
  <2>1. /\ pc' = [pc EXCEPT ![i] = "failed"]
        /\ job' = [job EXCEPT ![i] = NoJob]
        /\ UNCHANGED <<tree, repositories, next_id, rows, indexings, edits>>
    BY <1>10 DEF RaiseMismatch, Fail
  <2>2. /\ pc' \in [Indexer -> Phase]
        /\ DOMAIN job' = Indexer
        /\ \A k \in Indexer : pc'[k] \notin {"idle", "failed"} => Sound(job'[k])
    BY <2>1, StepSound DEF Phase
  <2> QED
    BY <2>1, <2>2, TypesNext
<1> QED
  BY <1>1, <1>2, <1>3, <1>4, <1>5, <1>6, <1>7, <1>8, <1>9, <1>10 DEF IndexerStep

LEMMA TypeEdit ==
  ASSUME TypeOK, NEW r \in Root, NEW f \in File, Edit(r, f)
  PROVE  TypeOK'
<1> USE Types
<1>1. tree' \in [Root -> [File -> Content \cup {Absent}]]
  <2>1. PICK v \in (Content \cup {Absent}) \ {tree[r][f]} : tree' = [tree EXCEPT ![r][f] = v]
    BY DEF Edit
  <2> QED
    BY <2>1
<1>2. DOMAIN job' = Indexer /\ pc' = pc
  BY DEF Edit
<1>3. ASSUME NEW k \in Indexer, pc'[k] \notin {"idle", "failed"}
      PROVE  Sound(job'[k])
  <2>1. Sound(job[k])
    BY <1>2, <1>3
  <2>2. Sound([job[k] EXCEPT !.touched = @ \cup {f}])
    BY <2>1 DEF Sound, Job
  <2> QED
    BY <2>1, <2>2 DEF Edit
<1>4. edits' \in 0 .. MaxEdits
  BY BoundsAssumption DEF Edit
<1> QED
  BY <1>1, <1>2, <1>3, <1>4, TypesNext DEF Edit

\* The types of all variables, in every reachable state.
THEOREM TypeCorrect == Spec => []TypeOK
<1>1. ASSUME TypeOK, [Next]_vars
      PROVE  TypeOK'
  <2>1. CASE Next
    BY <1>1, <2>1, TypeStep, TypeEdit DEF Next
  <2>2. CASE UNCHANGED vars
    BY <1>1, <2>2 DEF TypeOK, vars
  <2> QED
    BY <1>1, <2>1, <2>2
<1> QED
  BY <1>1, TypeInit, PTL DEF Spec
-----------------------------------------------------------------------------
(* Repositories.  Ids are below the sequence, and whoever holds an id or has *)
(* stored rows under it has it for its own root.                             *)

Known(id, r) == \E y \in repositories : y.id = id /\ y.root_path = r

KnownNext(id, r) == \E y \in repositories' : y.id = id /\ y.root_path = r

Separate ==
  /\ \A x \in repositories : x.id < next_id
  /\ \A x, y \in repositories : (x.id = y.id \/ x.root_path = y.root_path) => x = y
  /\ \A i \in Indexer :
       pc[i] \in {"insert", "indexed"} => Known(job[i].repository_id, job[i].root)
  /\ \A x \in rows : Known(x.repository_id, x.root)

\* Steps that leave the table of repositories alone.
LEMMA SeparateFrame ==
  ASSUME Separate,
         repositories' = repositories, next_id' = next_id,
         \A k \in Indexer :
           pc'[k] \in {"insert", "indexed"} =>
             /\ pc[k] \in {"insert", "indexed"}
             /\ job'[k].repository_id = job[k].repository_id
             /\ job'[k].root = job[k].root,
         \A x \in rows' : x \in rows \/ \E i \in Indexer :
             /\ pc[i] = "insert"
             /\ x.repository_id = job[i].repository_id
             /\ x.root = job[i].root
  PROVE  Separate'
BY DEF Separate, Known

LEMMA SeparateStep ==
  ASSUME TypeOK, Separate, NEW i \in Indexer, IndexerStep(i)
  PROVE  Separate'
<1> USE Types
<1>1. CASE \/ \E r \in Root : Discover(i, r)
           \/ \E f \in File : StatFile(i, f) \/ ParseFile(i, f) \/ ChunkFile(i, f)
  <2>1. /\ UNCHANGED <<repositories, next_id, rows>>
        /\ pc'[i] \in {"stat", "parse", "chunk", "embed"}
        /\ \A k \in Indexer \ {i} : pc'[k] = pc[k] /\ job'[k] = job[k]
    BY <1>1, ZenonT(30) DEF Discover, StatFile, ParseFile, ChunkFile, AfterPass
  <2> QED
    BY <2>1, SeparateFrame, SMTT(30)
<1>2. CASE NothingToParse(i) \/ Embed(i) \/ RaiseMismatch(i) \/ Fail(i)
  <2>1. /\ UNCHANGED <<repositories, next_id, rows>>
        /\ pc'[i] \in {"embed", "repository", "failed"}
        /\ \A k \in Indexer \ {i} : pc'[k] = pc[k] /\ job'[k] = job[k]
    BY <1>2 DEF NothingToParse, Embed, RaiseMismatch, Fail
  <2> QED
    BY <2>1, SeparateFrame
<1>3. CASE InsertChunk(i)
  <2>1. /\ UNCHANGED <<repositories, next_id, rows, pc>>
        /\ pc[i] = "insert"
        /\ job' = [job EXCEPT ![i] = [job[i] EXCEPT !.sent = @ + 1]]
    BY <1>3 DEF InsertChunk, VisibleBefore
  <2>2. job'[i].repository_id = job[i].repository_id /\ job'[i].root = job[i].root
    BY <2>1 DEF Sound, Job
  <2>3. \A k \in Indexer \ {i} : job'[k] = job[k]
    BY <2>1
  <2> QED
    BY <2>1, <2>2, <2>3, SeparateFrame
<1>4. CASE Commit(i)
  <2>1. /\ UNCHANGED <<repositories, next_id, job>>
        /\ pc[i] = "insert"
        /\ \A k \in Indexer \ {i} : pc'[k] = pc[k]
        /\ rows' = rows \cup {RowOf(job[i], k) : k \in 1 .. job[i].sent}
    BY <1>4 DEF Commit
  <2>2. \A k \in 1 .. job[i].sent : /\ RowOf(job[i], k).repository_id = job[i].repository_id
                                    /\ RowOf(job[i], k).root = job[i].root
    BY DEF RowOf
  <2> QED
    BY <2>1, <2>2, SeparateFrame
<1>5. CASE GetOrCreateRepository(i)
  <2> DEFINE r == job[i].root
             row == IF SameRepository(r) = {}
                    THEN [id |-> next_id, name |-> RepoName[r], root_path |-> r]
                    ELSE CHOOSE x \in SameRepository(r) : TRUE
             new == [row EXCEPT !.name = RepoName[r]]
  <2>1. /\ r \in Root
        /\ repositories' = (repositories \ SameRepository(r)) \cup {new}
        /\ next_id' = next_id + 1
        /\ job' = [job EXCEPT ![i] = [job[i] EXCEPT !.repository_id = row.id]]
        /\ pc' = [pc EXCEPT ![i] = "insert"]
        /\ rows' = rows
    BY <1>5 DEF GetOrCreateRepository, Sound, Job
  <2>2. /\ job'[i].repository_id = row.id
        /\ job'[i].root = r
        /\ \A k \in Indexer \ {i} : job'[k] = job[k] /\ pc'[k] = pc[k]
    <3>1. job[i] \in Job
      BY <1>5 DEF GetOrCreateRepository, Sound
    <3> HIDE DEF row
    <3> QED
      BY <2>1, <3>1 DEF Job
  <2>3. /\ new.id = row.id /\ new.root_path = r
        /\ row.id < next_id + 1
        /\ \A x \in repositories \ SameRepository(r) : x.id # row.id /\ x.root_path # r
        /\ \A x \in SameRepository(r) : x.id = row.id
    <3>1. \A x \in SameRepository(r) : x \in repositories /\ x.root_path = r
      BY DEF SameRepository
    <3>2. \A x \in repositories \ SameRepository(r) : x.root_path # r
      BY DEF SameRepository
    <3>3. CASE SameRepository(r) = {}
      <4>1. row = [id |-> next_id, name |-> RepoName[r], root_path |-> r]
        BY <3>3
      <4>2. new.id = row.id /\ new.root_path = r /\ row.id = next_id
        BY <4>1
      <4>3. \A x \in repositories : x.id < next_id /\ x.id \in Nat
        BY DEF Separate
      <4> HIDE DEF new, row
      <4> QED
        BY <3>2, <3>3, <4>2, <4>3
    <3>4. CASE SameRepository(r) # {}
      <4>1. row \in SameRepository(r)
        BY <3>4
      <4> HIDE DEF row
      <4>2. row \in [id : Nat, name : STRING, root_path : Root] /\ row.root_path = r
        BY <3>1, <4>1
      <4>3. new.id = row.id /\ new.root_path = r
        BY <4>2
      <4>4. row.id < next_id /\ row.id \in Nat
        BY <3>1, <4>1, <4>2 DEF Separate
      <4>5. \A x \in repositories : x.id = row.id => x = row
        BY <3>1, <4>1 DEF Separate
      <4>6. \A x \in SameRepository(r) : x = row
        BY <3>1, <4>1 DEF Separate
      <4> HIDE DEF new
      <4> QED
        BY <3>2, <4>1, <4>3, <4>4, <4>5, <4>6
    <3> QED
      BY <3>3, <3>4
  <2> HIDE DEF row, new
  <2>4. \A id, s : Known(id, s) => KnownNext(id, s)
    BY <2>1, <2>3 DEF Known, KnownNext, SameRepository
  <2>5. KnownNext(row.id, r)
    BY <2>1, <2>3 DEF KnownNext
  <2>6. \A x \in repositories' : x.id < next_id'
    BY <2>1, <2>3 DEF Separate
  <2>7. \A x, y \in repositories' : (x.id = y.id \/ x.root_path = y.root_path) => x = y
    BY <2>1, <2>3 DEF Separate
  <2>8. \A k \in Indexer :
          pc'[k] \in {"insert", "indexed"} => KnownNext(job'[k].repository_id, job'[k].root)
    BY <2>1, <2>2, <2>4, <2>5 DEF Separate
  <2>9. \A x \in rows' : KnownNext(x.repository_id, x.root)
    BY <2>1, <2>4 DEF Separate
  <2> QED
    BY <2>6, <2>7, <2>8, <2>9 DEF Separate, Known, KnownNext
<1> QED
  BY <1>1, <1>2, <1>3, <1>4, <1>5 DEF IndexerStep

LEMMA SeparateEdit ==
  ASSUME TypeOK, Separate, NEW r \in Root, NEW f \in File, Edit(r, f)
  PROVE  Separate'
<1> USE Types
<1>1. ASSUME NEW k \in Indexer, pc'[k] \in {"insert", "indexed"}
      PROVE  pc[k] \in {"insert", "indexed"} /\ job'[k] = job[k]
  BY <1>1 DEF Edit, Reading
<1> QED
  BY <1>1, SeparateFrame DEF Edit

\* A root path has one repository and every row is stored under the id of the
\* tree that it was read from.
THEOREM RepositoriesSeparate == Spec => []RepositoriesAreSeparate
<1>1. Init => Separate
  BY DEF Init, Separate
<1>2. ASSUME TypeOK, Separate, [Next]_vars
      PROVE  Separate'
  <2>1. CASE Next
    BY <1>2, <2>1, SeparateStep, SeparateEdit DEF Next
  <2>2. CASE UNCHANGED vars
    BY <1>2, <2>2 DEF Separate, Known, vars
  <2> QED
    BY <1>2, <2>1, <2>2
<1>3. Separate => RepositoriesAreSeparate
  BY DEF Separate, Known, RepositoriesAreSeparate
<1> QED
  BY <1>1, <1>2, <1>3, TypeCorrect, PTL DEF Spec

\* Rows appear only when a call commits, all those of its chunks at once.
THEOREM BatchesWhole == Spec => BatchesAreWhole
<1>1. ASSUME TypeOK, [Next]_vars, ~ UNCHANGED rows
      PROVE  \E i \in Indexer :
               /\ pc[i] = "insert"
               /\ pc'[i] = "indexed"
               /\ rows' = rows \cup RowsOf(job[i])
               /\ job[i].embeddings = Len(job[i].chunks)
  <2>1. ASSUME NEW i \in Indexer, IndexerStep(i) PROVE Commit(i)
    BY <1>1, <2>1 DEF IndexerStep, Discover, StatFile, ParseFile, ChunkFile, NothingToParse,
                      Embed, GetOrCreateRepository, InsertChunk, VisibleBefore,
                      RaiseMismatch, Fail
  <2>2. \A r \in Root, f \in File : ~ Edit(r, f)
    BY <1>1 DEF Edit
  <2>3. PICK i \in Indexer : Commit(i)
    BY <1>1, <2>1, <2>2 DEF Next, vars
  <2>4. job[i].chunks \in Seq(ChunkType)
    BY <1>1, <2>3, Types DEF Commit, Sound, Job
  <2>5. DOMAIN job[i].chunks = 1 .. Len(job[i].chunks)
    BY <2>4, LenProperties
  <2>6. pc' = [pc EXCEPT ![i] = "indexed"] /\ pc \in [Indexer -> Phase]
    BY <1>1, <2>3, Types DEF Commit
  <2>7. /\ pc[i] = "insert"
        /\ rows' = rows \cup RowsOf(job[i])
        /\ job[i].embeddings = Len(job[i].chunks)
    BY <2>3, <2>5 DEF Commit, LengthsAgree, RowsOf
  <2> QED
    BY <2>6, <2>7, SMTT(30)
<1> QED
  BY <1>1, TypeCorrect, PTL DEF Spec, BatchesAreWhole
-----------------------------------------------------------------------------
(* What is read of a file that nobody touches.                               *)

Elements(s) == {s[k] : k \in DOMAIN s}

\* The chunks of one file.
Of(f, chunks) == {c \in Elements(chunks) : c.relative_path = f}

Wanted(f, v) == v # Absent /\ discovered(Path[f]) /\ classify_file(Path[f], v)

LEMMA SourcesAreText ==
  ASSUME NEW f \in Source
  PROVE  Path[f].suffix \in KNOWN_TEXT_LIKELY_EXTENSIONS
<1> DEFINE s == Path[f].suffix
<1>1. ASSUME s \notin KNOWN_TEXT_LIKELY_EXTENSIONS
      PROVE  categorize(s) # "source"
  <2> HIDE DEF s
  <2>1. detect_language(s) = "Unknown"
    BY <1>1 DEF detect_language, KNOWN_TEXT_LIKELY_EXTENSIONS
  <2> QED
    BY <2>1 DEF categorize, SOURCE_LANGUAGES, SUPPORTED_LANGUAGES
<1> QED
  BY <1>1 DEF Source

LEMMA ElementsOfConcat ==
  ASSUME NEW s \in Seq(ChunkType), NEW t \in Seq(ChunkType)
  PROVE  Elements(s \o t) = Elements(s) \cup Elements(t)
<1> DEFINE m == Len(s)
           n == Len(t)
           st == s \o t
<1>1. m \in Nat /\ n \in Nat /\ DOMAIN s = 1 .. m /\ DOMAIN t = 1 .. n
  BY LenProperties
<1>2. /\ st \in Seq(ChunkType) /\ Len(st) = m + n
      /\ \A k \in 1 .. m + n : st[k] = IF k <= m THEN s[k] ELSE t[k - m]
  BY ConcatProperties
<1>3. DOMAIN st = 1 .. m + n
  BY <1>2, LenProperties
<1> HIDE DEF st, m, n
<1>4. Elements(st) \subseteq Elements(s) \cup Elements(t)
  <2>1. ASSUME NEW k \in 1 .. m + n PROVE st[k] \in Elements(s) \cup Elements(t)
    <3>1. CASE k <= m
      <4>1. k \in 1 .. m /\ st[k] = s[k]
        BY <1>1, <1>2, <3>1
      <4> QED
        BY <1>1, <4>1 DEF Elements
    <3>2. CASE ~ (k <= m)
      <4>1. k - m \in 1 .. n
        BY <1>1, <3>2
      <4> QED
        BY <1>1, <1>2, <3>2, <4>1 DEF Elements
    <3> QED
      BY <3>1, <3>2
  <2> QED
    BY <1>3, <2>1 DEF Elements
<1>5. ASSUME NEW k \in 1 .. m PROVE s[k] \in Elements(st)
  <2>1. k \in 1 .. m + n /\ k <= m
    BY <1>1
  <2>2. st[k] = s[k]
    BY <1>2, <2>1
  <2> QED
    BY <1>3, <2>1, <2>2 DEF Elements
<1>6. ASSUME NEW k \in 1 .. n PROVE t[k] \in Elements(st)
  <2>1. k + m \in 1 .. m + n /\ ~ (k + m <= m) /\ (k + m) - m = k
    BY <1>1
  <2> QED
    BY <1>2, <1>3, <2>1 DEF Elements
<1>7. Elements(s) \subseteq Elements(st) /\ Elements(t) \subseteq Elements(st)
  BY <1>1, <1>5, <1>6 DEF Elements
<1> QED
  BY <1>4, <1>7 DEF st

\* Whatever a file has been parsed and cut from, its chunks are under its path.
LEMMA BuildIsOfFile ==
  ASSUME NEW f \in File, NEW symbols \in Seq(Symbol), NEW v \in Content \cup {Absent}
  PROVE  \A c \in Elements(build_chunks(f, symbols, v)) : c.relative_path = f
<1>1. CASE v = Absent \/ ~ v.decodable
  BY <1>1 DEF build_chunks, Elements
<1>2. CASE v # Absent /\ v.decodable /\ symbols # <<>>
  BY <1>2 DEF build_chunks, chunks_for_parsed_file, Chunk, Elements
<1>3. CASE v # Absent /\ v.decodable /\ symbols = <<>>
  <2>1. build_chunks(f, symbols, v) = <<FileChunk(f, v)>>
    BY <1>3 DEF build_chunks
  <2>2. Elements(<<FileChunk(f, v)>>) = {FileChunk(f, v)}
    BY DEF Elements
  <2> QED
    BY <2>1, <2>2 DEF FileChunk, Chunk
<1> QED
  BY <1>1, <1>2, <1>3

\* Parsed and cut from the same content, a relevant source has the chunks that
\* its content calls for.
LEMMA BuildIsCalledFor ==
  ASSUME NEW f \in Source, NEW v \in Content, LinesAgree(v),
         discovered(Path[f]), classify_file(Path[f], v)
  PROVE  Elements(build_chunks(f, parse_file(f, v), v)) = ChunksCalledFor(f, v)
<1>1. /\ v # Absent /\ f \notin NamedOut /\ ~ v.large
      /\ v.text \in Seq(Segment) /\ v.symbols \in Seq(Symbol)
      /\ \A k \in DOMAIN v.symbols : v.symbols[k].to <= Len(v.text)
  BY ContentAssumption DEF ContentType, classify_file, NamedOut
<1>2. CASE ~ v.decodable
  BY <1>1, <1>2 DEF build_chunks, ChunksCalledFor, Elements
<1>3. CASE v.decodable /\ (v.symbols = <<>> \/ f \notin Supported)
  <2>1. parse_file(f, v) = <<>>
    BY <1>3 DEF parse_file
  <2>2. build_chunks(f, parse_file(f, v), v) = <<FileChunk(f, v)>>
    BY <1>1, <1>3, <2>1 DEF build_chunks
  <2>3. Elements(<<FileChunk(f, v)>>) = {FileChunk(f, v)}
    BY DEF Elements
  <2>4. ChunksCalledFor(f, v) = {FileChunk(f, v)}
    BY <1>1, <1>3 DEF ChunksCalledFor, FileChunk
  <2> QED
    BY <2>2, <2>3, <2>4
<1>4. CASE v.decodable /\ v.symbols # <<>> /\ f \in Supported
  <2> DEFINE Own(s) == Chunk(f, s.chunk_type, s.name, s.first, s.last, SubSeq(v.text, s.from, s.to))
             Cut(s) == Chunk(f, s.chunk_type, s.name, s.first, s.last,
                             slice_lines(v.text, s.first, s.last))
  <2>1. parse_file(f, v) = v.symbols
    BY <1>1, <1>4 DEF parse_file
  <2>2. build_chunks(f, parse_file(f, v), v) = [k \in DOMAIN v.symbols |-> Cut(v.symbols[k])]
    BY <1>1, <1>4, <2>1 DEF build_chunks, chunks_for_parsed_file
  <2>3. ASSUME NEW k \in DOMAIN v.symbols
        PROVE  Cut(v.symbols[k]) = Own(v.symbols[k])
    <3> DEFINE last == v.symbols[k].last
               end == IF last < Len(v.text) THEN last ELSE Len(v.text)
    <3>1. v.symbols[k].from = v.symbols[k].first /\ v.symbols[k].to = last
      BY <1>1 DEF LinesAgree
    <3>2. last <= Len(v.text)
      BY <1>1, <3>1
    <3>3. v.symbols[k] \in Symbol
      BY <1>1, LenProperties, ElementOfSeq
    <3>4. last \in Nat /\ Len(v.text) \in Nat
      BY <1>1, <3>3, LenProperties DEF Symbol
    <3>5. end = last
      BY <3>2, <3>4
    <3>6. slice_lines(v.text, v.symbols[k].first, last) = SubSeq(v.text, v.symbols[k].first, end)
      BY DEF slice_lines
    <3>7. slice_lines(v.text, v.symbols[k].first, last)
            = SubSeq(v.text, v.symbols[k].from, v.symbols[k].to)
      BY <3>1, <3>5, <3>6
    <3> QED
      BY <3>7
  <2>4. ChunksCalledFor(f, v) = {Own(s) : s \in {v.symbols[k] : k \in DOMAIN v.symbols}}
    BY <1>1, <1>4 DEF ChunksCalledFor
  <2> HIDE DEF Own, Cut
  <2>6. Elements([k \in DOMAIN v.symbols |-> Cut(v.symbols[k])]) = {Own(v.symbols[k]) : k \in DOMAIN v.symbols}
    BY <2>3 DEF Elements
  <2>7. {Own(v.symbols[k]) : k \in DOMAIN v.symbols}
          = {Own(s) : s \in {v.symbols[k] : k \in DOMAIN v.symbols}}
    OBVIOUS
  <2> QED
    BY <2>2, <2>4, <2>6, <2>7
<1> QED
  BY <1>1, <1>2, <1>3, <1>4 DEF ContentType

\* Nothing is called for of any other file.
LEMMA UnwantedHasNone ==
  ASSUME NEW f \in File, NEW v, ~ (f \in Source /\ Wanted(f, v))
  PROVE  ChunksCalledFor(f, v) = {}
<1>1. CASE f \notin Source \/ v = Absent \/ ~ discovered(Path[f])
  BY <1>1 DEF ChunksCalledFor
<1>2. CASE f \in Source /\ ~ classify_file(Path[f], v)
  <2>1. f \in NamedOut \/ v.large
    BY <1>2, SourcesAreText DEF classify_file, NamedOut
  <2> QED
    BY <2>1 DEF ChunksCalledFor
<1> QED
  BY <1>1, <1>2 DEF Wanted
-----------------------------------------------------------------------------
(* Of files that nobody touches a call reads what it has listed.             *)

Kept(j) == File \ j.touched

CurrentIn(t, j) == \A f \in Kept(j) : t[j.root][f] = j.scanned[f]

Classifying(j) ==
  /\ j.files \cap j.todo = {} /\ j.chunks = <<>>
  /\ \A f \in j.todo : discovered(Path[f])
  /\ \A f \in Kept(j) \ j.todo : f \in j.files <=> Wanted(f, j.scanned[f])

Classified(j) ==
  /\ j.todo \subseteq SourcesOf(j.files)
  /\ \A f \in Kept(j) : f \in j.files <=> Wanted(f, j.scanned[f])

IsParsed(j, f) == j.symbols[f] = parse_file(f, j.scanned[f])

SomeParsed(j) ==
  /\ Classified(j) /\ j.chunks = <<>>
  /\ \A f \in (Kept(j) \cap SourcesOf(j.files)) \ j.todo : IsParsed(j, f)

IsCut(j, f) ==
  Of(f, j.chunks) = Elements(build_chunks(f, parse_file(f, j.scanned[f]), j.scanned[f]))

SomeCut(j) ==
  /\ Classified(j)
  /\ \A f \in Kept(j) \cap SourcesOf(j.files) : IsParsed(j, f)
  /\ \A f \in (Kept(j) \cap SourcesOf(j.files)) \ j.todo : IsCut(j, f)
  /\ \A f \in Kept(j) : f \in j.todo \/ f \notin SourcesOf(j.files) => Of(f, j.chunks) = {}

AllCut(j) ==
  \A f \in Kept(j) : LinesAgree(j.scanned[f]) =>
    Of(f, j.chunks) = ChunksCalledFor(f, j.scanned[f])

\* What holds of a call at each phase.
Progress(phase, j) ==
  /\ phase = "stat" => Classifying(j)
  /\ phase = "parse" => SomeParsed(j) /\ (j.todo = {} => SourcesOf(j.files) = {})
  /\ phase = "chunk" => SomeCut(j)
  /\ phase \in {"embed", "repository", "insert", "indexed"} => AllCut(j)

Reads ==
  \A i \in Indexer :
    /\ Reading(i) => CurrentIn(tree, job[i])
    /\ Progress(pc[i], job[i])

LEMMA NoChunks == \A f : Of(f, <<>>) = {}
BY DEF Of, Elements

(* From one pass to the next. *)

LEMMA ToParse ==
  ASSUME NEW j \in Job, Classifying(j), j.todo = {},
         NEW k, k = [j EXCEPT !.todo = SourcesOf(j.files)]
  PROVE  Progress("parse", k)
<1>1. /\ k.todo = SourcesOf(j.files) /\ k.files = j.files /\ k.chunks = <<>>
      /\ k.touched = j.touched /\ k.scanned = j.scanned
  BY DEF Job, Classifying
<1>2. Classified(k)
  BY <1>1 DEF Classified, Classifying, Kept
<1>3. SomeParsed(k)
  BY <1>1, <1>2 DEF SomeParsed
<1> QED
  BY <1>1, <1>3 DEF Progress

LEMMA ToChunk ==
  ASSUME NEW j \in Job, SomeParsed(j), j.todo = {},
         NEW k, k = [j EXCEPT !.todo = SourcesOf(j.files)]
  PROVE  Progress("chunk", k)
<1>1. /\ k.todo = SourcesOf(j.files) /\ k.files = j.files /\ k.chunks = <<>>
      /\ k.touched = j.touched /\ k.scanned = j.scanned /\ k.symbols = j.symbols
  BY DEF Job, SomeParsed
<1>2. Classified(k)
  BY <1>1 DEF SomeParsed, Classified, Kept
<1>3. \A f \in Kept(k) \cap SourcesOf(k.files) : IsParsed(k, f)
  BY <1>1 DEF SomeParsed, Kept, IsParsed
<1>4. \A f : Of(f, k.chunks) = {}
  BY <1>1, NoChunks
<1>5. SomeCut(k)
  BY <1>1, <1>2, <1>3, <1>4 DEF SomeCut
<1> QED
  BY <1>5 DEF Progress

\* Without sources nothing is called for.
LEMMA NothingIsCut ==
  ASSUME NEW j \in Job, SomeParsed(j), SourcesOf(j.files) = {}
  PROVE  AllCut(j)
<1>1. \A f \in Kept(j) : ~ (f \in Source /\ Wanted(f, j.scanned[f]))
  BY DEF SomeParsed, Classified, SourcesOf
<1>2. \A f \in Kept(j) : ChunksCalledFor(f, j.scanned[f]) = {}
  BY <1>1, UnwantedHasNone DEF Kept
<1> QED
  BY <1>2, NoChunks DEF AllCut, SomeParsed

LEMMA EverythingIsCut ==
  ASSUME NEW j \in Job, SomeCut(j), j.todo = {},
         NEW k, k = [j EXCEPT !.todo = {}]
  PROVE  Progress("embed", k)
<1>1. k.touched = j.touched /\ k.scanned = j.scanned /\ k.chunks = j.chunks
  BY DEF Job
<1>2. ASSUME NEW f \in Kept(j), LinesAgree(j.scanned[f])
      PROVE  Of(f, j.chunks) = ChunksCalledFor(f, j.scanned[f])
  <2>1. f \in File /\ (f \in j.files <=> Wanted(f, j.scanned[f]))
    BY DEF SomeCut, Classified, Kept
  <2>2. CASE f \in SourcesOf(j.files)
    <3>1. IsCut(j, f) /\ f \in Source /\ Wanted(f, j.scanned[f])
      BY <2>1, <2>2 DEF SomeCut, SourcesOf
    <3>2. j.scanned[f] \in Content
      BY <2>1, <3>1 DEF Job, Wanted
    <3> QED
      BY <1>2, <3>1, <3>2, BuildIsCalledFor DEF IsCut, Wanted
  <2>3. CASE f \notin SourcesOf(j.files)
    <3>1. Of(f, j.chunks) = {} /\ ~ (f \in Source /\ Wanted(f, j.scanned[f]))
      BY <2>1, <2>3 DEF SomeCut, SourcesOf
    <3> QED
      BY <2>1, <3>1, UnwantedHasNone
  <2> QED
    BY <2>2, <2>3
<1>3. AllCut(k)
  BY <1>1, <1>2 DEF AllCut, Kept
<1> QED
  BY <1>3 DEF Progress

(* One more file. *)

\* What a pass leaves alone.
SameView(j, k) == k.root = j.root /\ k.touched = j.touched /\ k.scanned = j.scanned

LEMMA OneClassified ==
  ASSUME NEW j \in Job, NEW t, Classifying(j), CurrentIn(t, j), NEW f \in j.todo,
         NEW k, SameView(j, k), k.todo = j.todo \ {f}, k.chunks = j.chunks,
         k.files = IF t[j.root][f] # Absent /\ classify_file(Path[f], t[j.root][f])
                   THEN j.files \cup {f} ELSE j.files
  PROVE  Classifying(k) /\ CurrentIn(t, k)
<1>1. k.touched = j.touched /\ k.scanned = j.scanned /\ k.root = j.root
  BY DEF SameView
<1>2. ASSUME NEW g \in Kept(k) \ k.todo
      PROVE  g \in k.files <=> Wanted(g, k.scanned[g])
  <2>1. g \in Kept(j)
    BY <1>1 DEF Kept
  <2>2. CASE g = f
    BY <1>1, <2>1, <2>2 DEF Classifying, CurrentIn, Wanted
  <2>3. CASE g # f
    BY <1>1, <1>2, <2>1, <2>3 DEF Classifying
  <2> QED
    BY <2>2, <2>3
<1> QED
  BY <1>1, <1>2 DEF Classifying, CurrentIn, Kept

LEMMA OneParsed ==
  ASSUME NEW j \in Job, NEW t, SomeParsed(j), CurrentIn(t, j), NEW f \in j.todo,
         NEW k, SameView(j, k), k.todo = j.todo \ {f}, k.files = j.files, k.chunks = j.chunks,
         k.symbols = [j.symbols EXCEPT ![f] = parse_file(f, t[j.root][f])]
  PROVE  SomeParsed(k) /\ CurrentIn(t, k)
<1>1. /\ k.touched = j.touched /\ k.scanned = j.scanned /\ k.root = j.root
      /\ f \in DOMAIN j.symbols
  BY DEF SameView, Job
<1>2. ASSUME NEW g \in (Kept(k) \cap SourcesOf(k.files)) \ k.todo
      PROVE  IsParsed(k, g)
  <2>1. g \in Kept(j) \cap SourcesOf(j.files) /\ (g = f \/ g \notin j.todo)
    BY <1>1, <1>2 DEF Kept
  <2>2. CASE g = f
    BY <1>1, <2>1, <2>2 DEF CurrentIn, IsParsed
  <2>3. CASE g # f
    BY <1>1, <2>1, <2>3 DEF SomeParsed, IsParsed
  <2> QED
    BY <2>2, <2>3
<1>3. Classified(k)
  BY <1>1 DEF SomeParsed, Classified, Kept
<1> QED
  BY <1>1, <1>2, <1>3 DEF SomeParsed, CurrentIn, Kept

LEMMA OneCut ==
  ASSUME NEW j \in Job, NEW t, SomeCut(j), CurrentIn(t, j), NEW f \in j.todo,
         t[j.root][f] \in Content \cup {Absent},
         NEW k, SameView(j, k), k.todo = j.todo \ {f}, k.files = j.files, k.symbols = j.symbols,
         k.chunks = j.chunks \o build_chunks(f, j.symbols[f], t[j.root][f])
  PROVE  SomeCut(k) /\ CurrentIn(t, k)
<1> DEFINE new == build_chunks(f, j.symbols[f], t[j.root][f])
<1>1. /\ k.todo = j.todo \ {f} /\ k.files = j.files /\ k.chunks = j.chunks \o new
      /\ k.touched = j.touched /\ k.scanned = j.scanned /\ k.root = j.root
      /\ k.symbols = j.symbols
  BY DEF SameView
<1>2. j.chunks \in Seq(ChunkType) /\ f \in File /\ j.symbols[f] \in Seq(Symbol)
  BY DEF Job
<1>3. new \in Seq(ChunkType) /\ \A c \in Elements(new) : c.relative_path = f
  BY <1>2, BuildType, BuildIsOfFile
<1>4. f \in Kept(j) =>
        new = build_chunks(f, parse_file(f, j.scanned[f]), j.scanned[f])
  BY DEF SomeCut, Classified, CurrentIn, IsParsed
<1> HIDE DEF new
<1>5. Elements(k.chunks) = Elements(j.chunks) \cup Elements(new)
  BY <1>1, <1>2, <1>3, ElementsOfConcat
<1>6. Of(f, k.chunks) = Of(f, j.chunks) \cup Elements(new)
  BY <1>3, <1>5 DEF Of
<1>7. \A g \in File \ {f} : Of(g, k.chunks) = Of(g, j.chunks)
  BY <1>3, <1>5 DEF Of
<1>8. Kept(k) = Kept(j)
  BY <1>1 DEF Kept
<1>9. Classified(k) /\ \A g \in Kept(k) \cap SourcesOf(k.files) : IsParsed(k, g)
  BY <1>1, <1>8 DEF SomeCut, Classified, IsParsed
<1>10. ASSUME NEW g \in (Kept(k) \cap SourcesOf(k.files)) \ k.todo
       PROVE  IsCut(k, g)
  <2>1. g \in Kept(j) \cap SourcesOf(j.files) /\ (g = f \/ g \notin j.todo) /\ g \in File
    BY <1>1, <1>8, <1>10 DEF Kept
  <2>2. CASE g = f
    <3>1. Of(f, j.chunks) = {}
      BY <2>1, <2>2 DEF SomeCut
    <3> QED
      BY <1>1, <1>4, <1>6, <2>1, <2>2, <3>1 DEF IsCut
  <2>3. CASE g # f
    <3>1. IsCut(j, g) /\ Of(g, k.chunks) = Of(g, j.chunks)
      BY <1>7, <2>1, <2>3 DEF SomeCut
    <3> QED
      BY <1>1, <3>1 DEF IsCut
  <2> QED
    BY <2>2, <2>3
<1>11. ASSUME NEW g \in Kept(k), g \in k.todo \/ g \notin SourcesOf(k.files)
       PROVE  Of(g, k.chunks) = {}
  <2>1. g # f /\ g \in File
    BY <1>1, <1>11 DEF Kept, SomeCut, Classified
  <2>2. Of(g, j.chunks) = {}
    BY <1>1, <1>8, <1>11 DEF SomeCut
  <2> QED
    BY <1>7, <2>1, <2>2
<1> QED
  BY <1>1, <1>8, <1>9, <1>10, <1>11 DEF SomeCut, CurrentIn

\* What is said of a call is said of less when one more file is touched.
LEMMA OneTouched ==
  ASSUME NEW j \in Job, NEW phase, Progress(phase, j), NEW f \in File,
         NEW k, k = [j EXCEPT !.touched = @ \cup {f}]
  PROVE  Progress(phase, k)
<1>1. /\ k.todo = j.todo /\ k.files = j.files /\ k.chunks = j.chunks
      /\ k.scanned = j.scanned /\ k.symbols = j.symbols
      /\ Kept(k) \subseteq Kept(j)
  BY DEF Job, Kept
<1>2. Classifying(j) => Classifying(k)
  BY <1>1 DEF Classifying
<1>3. Classified(j) => Classified(k)
  BY <1>1 DEF Classified
<1>4. SomeParsed(j) => SomeParsed(k)
  BY <1>1, <1>3 DEF SomeParsed, IsParsed
<1>5. SomeCut(j) => SomeCut(k)
  BY <1>1, <1>3 DEF SomeCut, IsParsed, IsCut
<1>6. AllCut(j) => AllCut(k)
  BY <1>1 DEF AllCut
<1> QED
  BY <1>1, <1>2, <1>4, <1>5, <1>6 DEF Progress

(* The steps of a call. *)

LEMMA PassEnds ==
  ASSUME TypeOK, NEW i \in Indexer, NEW j, NEW here, NEW next, NEW todo,
         AfterPass(i, j, here, next, todo)
  PROVE  /\ job'[i] = IF j.todo = {} THEN [j EXCEPT !.todo = todo] ELSE j
         /\ pc'[i] = IF j.todo = {} THEN next ELSE here
         /\ \A k \in Indexer \ {i} : pc'[k] = pc[k] /\ job'[k] = job[k]
BY DEF AfterPass, TypeOK

LEMMA ReadsFrame ==
  ASSUME Reads, NEW i \in Indexer, tree' = tree,
         \A k \in Indexer \ {i} : pc'[k] = pc[k] /\ job'[k] = job[k],
         pc'[i] \in {"stat", "parse", "chunk"} => CurrentIn(tree, job'[i]),
         Progress(pc'[i], job'[i])
  PROVE  Reads'
<1>1. ASSUME NEW k \in Indexer
      PROVE  (Reading(k)' => CurrentIn(tree', job'[k])) /\ Progress(pc'[k], job'[k])
  BY <1>1 DEF Reads, Reading
<1> QED
  BY <1>1 DEF Reads

LEMMA ReadsDiscover ==
  ASSUME TypeOK, Reads, NEW i \in Indexer, NEW r \in Root, Discover(i, r)
  PROVE  Reads'
<1> DEFINE j == NewJob(r)
<1>1. AfterPass(i, j, "stat", "parse", {}) /\ tree' = tree
  BY DEF Discover
<1>2. j \in Job
  BY NewJobSound DEF Sound
<1>3. /\ j.files = {} /\ j.chunks = <<>> /\ j.todo = discover_files(r)
      /\ j.root = r /\ j.scanned = tree[r]
  BY DEF NewJob
<1> HIDE DEF j
<1>4. Classifying(j) /\ CurrentIn(tree, j)
  BY <1>3 DEF Classifying, CurrentIn, discover_files, Kept, Wanted
<1>5. /\ job'[i] = IF j.todo = {} THEN [j EXCEPT !.todo = {}] ELSE j
      /\ pc'[i] = IF j.todo = {} THEN "parse" ELSE "stat"
      /\ \A k \in Indexer \ {i} : pc'[k] = pc[k] /\ job'[k] = job[k]
  BY <1>1, PassEnds
<1>6. SourcesOf(j.files) = {}
  BY <1>3 DEF SourcesOf
<1>7. Progress(pc'[i], job'[i])
  BY <1>2, <1>4, <1>5, <1>6, ToParse DEF Progress
<1>8. CurrentIn(tree, job'[i])
  BY <1>2, <1>4, <1>5 DEF CurrentIn, Kept, Job
<1> QED
  BY <1>1, <1>5, <1>7, <1>8, ReadsFrame

LEMMA ReadsStatFile ==
  ASSUME TypeOK, Reads, NEW i \in Indexer, NEW f \in File, StatFile(i, f)
  PROVE  Reads'
<1> DEFINE v == tree[job[i].root][f]
           files == IF v # Absent /\ classify_file(Path[f], v) THEN job[i].files \cup {f} ELSE job[i].files
           j == [job[i] EXCEPT !.todo = @ \ {f}, !.files = files]
<1>1. /\ pc[i] = "stat" /\ f \in job[i].todo /\ tree' = tree
      /\ AfterPass(i, j, "stat", "parse", SourcesOf(files))
  BY DEF StatFile
<1>2. job[i] \in Job
  BY <1>1, Types DEF Sound
<1>3. Classifying(job[i]) /\ CurrentIn(tree, job[i])
  BY <1>1 DEF Reads, Reading, Progress
<1>4. Classifying(j) /\ CurrentIn(tree, j)
  <2>1. /\ SameView(job[i], j) /\ j.todo = job[i].todo \ {f} /\ j.chunks = job[i].chunks
        /\ j.files = files
    BY <1>2 DEF SameView, Job
  <2>2. f \in job[i].todo
    BY <1>1
  <2> HIDE DEF j
  <2> QED
    BY <1>2, <1>3, <2>1, <2>2, OneClassified
<1>5. files \in SUBSET (File \ NamedOut)
  BY <1>2 DEF Job, classify_file, NamedOut
<1>6. j \in Job /\ j.files = files
  <2> HIDE DEF files
  <2> QED
    BY <1>2, <1>5 DEF Job
<1> HIDE DEF j, files
<1>7. /\ job'[i] = IF j.todo = {} THEN [j EXCEPT !.todo = SourcesOf(files)] ELSE j
      /\ pc'[i] = IF j.todo = {} THEN "parse" ELSE "stat"
      /\ \A k \in Indexer \ {i} : pc'[k] = pc[k] /\ job'[k] = job[k]
  BY <1>1, PassEnds
<1>8. Progress(pc'[i], job'[i])
  BY <1>4, <1>6, <1>7, ToParse DEF Progress
<1>9. CurrentIn(tree, job'[i])
  BY <1>4, <1>6, <1>7 DEF CurrentIn, Kept, Job
<1> QED
  BY <1>1, <1>7, <1>8, <1>9, ReadsFrame

LEMMA ReadsParseFile ==
  ASSUME TypeOK, Reads, NEW i \in Indexer, NEW f \in File, ParseFile(i, f)
  PROVE  Reads'
<1> DEFINE symbols == parse_file(f, tree[job[i].root][f])
           j == [job[i] EXCEPT !.todo = @ \ {f}, !.symbols[f] = symbols]
<1>1. /\ pc[i] = "parse" /\ f \in job[i].todo /\ tree' = tree
      /\ AfterPass(i, j, "parse", "chunk", SourcesOf(job[i].files))
  BY DEF ParseFile
<1>2. job[i] \in Job
  BY <1>1, Types DEF Sound
<1>3. SomeParsed(job[i]) /\ CurrentIn(tree, job[i])
  BY <1>1 DEF Reads, Reading, Progress
<1>4. SomeParsed(j) /\ CurrentIn(tree, j)
  <2>1. /\ SameView(job[i], j) /\ j.todo = job[i].todo \ {f}
        /\ j.files = job[i].files /\ j.chunks = job[i].chunks
        /\ j.symbols = [job[i].symbols EXCEPT ![f] = symbols]
    BY <1>2 DEF SameView, Job
  <2>2. f \in job[i].todo
    BY <1>1
  <2> HIDE DEF j
  <2> QED
    BY <1>2, <1>3, <2>1, <2>2, OneParsed
<1>5. symbols \in Seq(Symbol)
  <2>1. tree[job[i].root][f] \in Content \cup {Absent}
    BY <1>2 DEF TypeOK, Job
  <2> QED
    BY <2>1, ParseType
<1>6. j \in Job /\ j.files = job[i].files
  <2> HIDE DEF symbols
  <2> QED
    BY <1>2, <1>5 DEF Job
<1>7. f \in SourcesOf(j.files)
  BY <1>1, <1>3, <1>6 DEF SomeParsed, Classified
<1> HIDE DEF j, symbols
<1>8. /\ job'[i] = IF j.todo = {} THEN [j EXCEPT !.todo = SourcesOf(j.files)] ELSE j
      /\ pc'[i] = IF j.todo = {} THEN "chunk" ELSE "parse"
      /\ \A k \in Indexer \ {i} : pc'[k] = pc[k] /\ job'[k] = job[k]
  BY <1>1, <1>6, PassEnds
<1>9. Progress(pc'[i], job'[i])
  BY <1>4, <1>6, <1>8, ToChunk DEF Progress
<1>10. CurrentIn(tree, job'[i])
  BY <1>4, <1>6, <1>8 DEF CurrentIn, Kept, Job
<1> QED
  BY <1>1, <1>8, <1>9, <1>10, ReadsFrame

LEMMA ReadsChunkFile ==
  ASSUME TypeOK, Reads, NEW i \in Indexer, NEW f \in File, ChunkFile(i, f)
  PROVE  Reads'
<1> DEFINE new == build_chunks(f, job[i].symbols[f], tree[job[i].root][f])
           j == [job[i] EXCEPT !.todo = @ \ {f}, !.chunks = @ \o new]
<1>1. /\ pc[i] = "chunk" /\ f \in job[i].todo /\ tree' = tree
      /\ AfterPass(i, j, "chunk", "embed", {})
  BY DEF ChunkFile
<1>2. job[i] \in Job
  BY <1>1, Types DEF Sound
<1>3. SomeCut(job[i]) /\ CurrentIn(tree, job[i])
  BY <1>1 DEF Reads, Reading, Progress
<1>4. tree[job[i].root][f] \in Content \cup {Absent} /\ job[i].symbols[f] \in Seq(Symbol)
  BY <1>2 DEF TypeOK, Job
<1>5. SomeCut(j) /\ CurrentIn(tree, j)
  <2>1. /\ SameView(job[i], j) /\ j.todo = job[i].todo \ {f}
        /\ j.files = job[i].files /\ j.symbols = job[i].symbols
        /\ j.chunks = job[i].chunks \o new
    BY <1>2 DEF SameView, Job
  <2>2. f \in job[i].todo
    BY <1>1
  <2> HIDE DEF j
  <2> QED
    BY <1>2, <1>3, <1>4, <2>1, <2>2, OneCut
<1>6. job[i].chunks \o new \in Seq(ChunkType)
  BY <1>2, <1>4, BuildType, ConcatProperties DEF Job
<1>7. j \in Job
  <2> HIDE DEF new
  <2> QED
    BY <1>2, <1>6 DEF Job
<1> HIDE DEF j, new
<1>8. /\ job'[i] = IF j.todo = {} THEN [j EXCEPT !.todo = {}] ELSE j
      /\ pc'[i] = IF j.todo = {} THEN "embed" ELSE "chunk"
      /\ \A k \in Indexer \ {i} : pc'[k] = pc[k] /\ job'[k] = job[k]
  BY <1>1, PassEnds
<1>9. Progress(pc'[i], job'[i])
  BY <1>5, <1>7, <1>8, EverythingIsCut DEF Progress
<1>10. CurrentIn(tree, job'[i])
  BY <1>5, <1>7, <1>8 DEF CurrentIn, Kept, Job
<1> QED
  BY <1>1, <1>8, <1>9, <1>10, ReadsFrame

LEMMA ReadsStep ==
  ASSUME TypeOK, Reads, NEW i \in Indexer, IndexerStep(i)
  PROVE  Reads'
<1>1. CASE NothingToParse(i)
  <2>1. /\ pc[i] = "parse" /\ job[i].todo = {} /\ tree' = tree /\ job' = job
        /\ pc' = [pc EXCEPT ![i] = "embed"] /\ pc'[i] = "embed"
    BY <1>1 DEF NothingToParse, TypeOK
  <2>2. job[i] \in Job
    BY <2>1, Types DEF Sound
  <2>3. AllCut(job[i])
    BY <2>1, <2>2, NothingIsCut DEF Reads, Progress
  <2>4. Progress(pc'[i], job'[i])
    BY <2>1, <2>3 DEF Progress
  <2> QED
    BY <2>1, <2>4, ReadsFrame
<1>2. CASE Embed(i) \/ GetOrCreateRepository(i) \/ InsertChunk(i) \/ Commit(i)
  <2>1. /\ pc[i] \in {"embed", "repository", "insert"} /\ tree' = tree
        /\ pc'[i] \in {"repository", "insert", "indexed"}
        /\ \A k \in Indexer \ {i} : pc'[k] = pc[k] /\ job'[k] = job[k]
    BY <1>2, Types DEF Embed, GetOrCreateRepository, InsertChunk, Commit, Phase
  <2>2. job[i] \in Job /\ DOMAIN job = Indexer
    BY <2>1, Types DEF Sound
  <2>3. /\ job'[i].touched = job[i].touched /\ job'[i].scanned = job[i].scanned
        /\ job'[i].chunks = job[i].chunks
    BY <1>2, <2>2 DEF Embed, GetOrCreateRepository, InsertChunk, Commit, Job
  <2>4. AllCut(job'[i])
    BY <2>1, <2>3 DEF Reads, Progress, AllCut, Kept
  <2>5. Progress(pc'[i], job'[i])
    BY <2>1, <2>4 DEF Progress
  <2> QED
    BY <2>1, <2>5, ReadsFrame
<1>3. CASE RaiseMismatch(i) \/ Fail(i)
  <2>1. /\ pc'[i] = "failed" /\ tree' = tree
        /\ \A k \in Indexer \ {i} : pc'[k] = pc[k] /\ job'[k] = job[k]
    BY <1>3, Types DEF RaiseMismatch, Fail, Phase
  <2> QED
    BY <2>1, ReadsFrame DEF Progress
<1> QED
  BY <1>1, <1>2, <1>3, ReadsDiscover, ReadsStatFile, ReadsParseFile, ReadsChunkFile DEF IndexerStep

LEMMA ReadsEdit ==
  ASSUME TypeOK, Reads, NEW r \in Root, NEW f \in File, Edit(r, f)
  PROVE  Reads'
<1>1. PICK v : tree' = [tree EXCEPT ![r][f] = v]
  BY DEF Edit
<1>2. /\ pc' = pc
      /\ \A i \in Indexer : job'[i] = IF Reading(i) /\ job[i].root = r
                                       THEN [job[i] EXCEPT !.touched = @ \cup {f}] ELSE job[i]
  BY DEF Edit
<1>3. ASSUME NEW i \in Indexer, Reading(i)
      PROVE  CurrentIn(tree', job'[i]) /\ Progress(pc'[i], job'[i])
  <2>1. job[i] \in Job /\ CurrentIn(tree, job[i]) /\ Progress(pc[i], job[i])
    BY <1>3, Types DEF Reads, Reading, Sound
  <2>2. CASE job[i].root = r
    <3>1. job'[i] = [job[i] EXCEPT !.touched = @ \cup {f}]
      BY <1>2, <1>3, <2>2
    <3>2. Progress(pc[i], job'[i])
      BY <2>1, <3>1, OneTouched
    <3>3. /\ Kept(job'[i]) = Kept(job[i]) \ {f}
          /\ job'[i].root = r /\ job'[i].scanned = job[i].scanned
      BY <2>1, <2>2, <3>1 DEF Kept, Job
    <3>4. \A g \in File \ {f} : tree'[r][g] = tree[r][g]
      BY <1>1 DEF TypeOK
    <3>5. CurrentIn(tree', job'[i])
      BY <2>1, <2>2, <3>3, <3>4 DEF CurrentIn, Kept
    <3> QED
      BY <1>2, <3>2, <3>5
  <2>3. CASE job[i].root # r
    <3>1. job'[i] = job[i]
      BY <1>2, <2>3
    <3>2. tree'[job[i].root] = tree[job[i].root]
      BY <1>1, <2>1, <2>3 DEF TypeOK, Job
    <3> QED
      BY <1>2, <2>1, <3>1, <3>2 DEF CurrentIn
  <2> QED
    BY <2>2, <2>3
<1>4. ASSUME NEW i \in Indexer, ~ Reading(i)
      PROVE  ~ Reading(i)' /\ Progress(pc'[i], job'[i])
  BY <1>2, <1>4 DEF Reads, Reading
<1> QED
  BY <1>2, <1>3, <1>4 DEF Reads, Reading
-----------------------------------------------------------------------------
(* The rows of a call are under its number.                                  *)

Busy(i) == pc[i] \notin {"idle", "failed"}

RowsOfNumber(S, n) == {x \in S : x.id[1] = n}

Numbered ==
  /\ \A x \in rows : x.id[1] <= indexings
  /\ \A i \in Indexer : Busy(i) =>
       /\ job[i].number <= indexings
       /\ \A k \in Indexer : Busy(k) /\ job[k].number = job[i].number => k = i
       /\ RowsOfNumber(rows, job[i].number) = IF pc[i] = "indexed" THEN RowsOf(job[i]) ELSE {}

LEMMA NumberedFrame ==
  ASSUME Numbered, rows' = rows, indexings' = indexings,
         \A k \in Indexer : Busy(k)' =>
           /\ Busy(k) /\ job'[k].number = job[k].number
           /\ pc[k] = "indexed" => pc'[k] = "indexed" /\ job'[k] = job[k]
           /\ pc[k] # "indexed" => pc'[k] # "indexed"
  PROVE  Numbered'
BY DEF Numbered, RowsOfNumber, RowsOf, RowOf

LEMMA NumberedDiscover ==
  ASSUME TypeOK, Numbered, NEW i \in Indexer, NEW r \in Root, Discover(i, r)
  PROVE  Numbered'
<1> DEFINE j == NewJob(r)
<1>1. AfterPass(i, j, "stat", "parse", {}) /\ rows' = rows /\ indexings' = indexings + 1
  BY DEF Discover
<1>2. indexings \in Nat /\ j \in Job /\ j.number = indexings + 1
  BY NewJobSound, BoundsAssumption DEF Sound, NewJob, TypeOK
<1> HIDE DEF j
<1>3. /\ job'[i] = IF j.todo = {} THEN [j EXCEPT !.todo = {}] ELSE j
      /\ pc'[i] = IF j.todo = {} THEN "parse" ELSE "stat"
      /\ \A k \in Indexer \ {i} : pc'[k] = pc[k] /\ job'[k] = job[k]
  BY <1>1, PassEnds
<1>4. job'[i].number = indexings + 1 /\ pc'[i] # "indexed"
  BY <1>2, <1>3 DEF Job
<1>5. \A x \in rows : x.id[1] \in Nat /\ x.id[1] <= indexings
  BY DEF Numbered, TypeOK, Row
<1>6. \A x \in rows' : x.id[1] <= indexings'
  BY <1>1, <1>2, <1>5
<1>7. RowsOfNumber(rows', indexings + 1) = {}
  BY <1>1, <1>2, <1>5 DEF RowsOfNumber
<1>8. \A k \in Indexer \ {i} : Busy(k)' =>
        /\ Busy(k) /\ job[k].number \in Nat /\ job[k].number <= indexings
        /\ job[k].number # indexings + 1
  <2>1. ASSUME NEW k \in Indexer \ {i}, Busy(k)'
        PROVE  Busy(k) /\ job[k].number \in Nat /\ job[k].number <= indexings
    BY <1>3, <2>1, Types DEF Busy, Numbered, Sound, Job
  <2> QED
    BY <1>2, <2>1
<1>9. ASSUME NEW k \in Indexer, Busy(k)'
      PROVE  /\ job'[k].number <= indexings'
             /\ \A l \in Indexer : Busy(l)' /\ job'[l].number = job'[k].number => l = k
             /\ RowsOfNumber(rows', job'[k].number) = IF pc'[k] = "indexed" THEN RowsOf(job'[k]) ELSE {}
  <2>1. CASE k = i
    <3>1. job'[k].number <= indexings'
      BY <1>1, <1>2, <1>4, <2>1
    <3> QED
      BY <1>3, <1>4, <1>7, <1>8, <2>1, <3>1
  <2>2. CASE k # i
    <3>1. Busy(k) /\ job'[k] = job[k] /\ pc'[k] = pc[k] /\ job[k].number # indexings + 1
      BY <1>3, <1>8, <1>9, <2>2
    <3>2. job'[k].number <= indexings'
      BY <1>1, <1>2, <1>8, <1>9, <2>2, <3>1
    <3>3. RowsOfNumber(rows', job'[k].number) = IF pc'[k] = "indexed" THEN RowsOf(job'[k]) ELSE {}
      BY <1>1, <3>1 DEF Numbered, RowsOfNumber
    <3>4. ASSUME NEW l \in Indexer, Busy(l)', job'[l].number = job'[k].number
          PROVE  l = k
      BY <1>3, <1>4, <1>8, <3>1, <3>4 DEF Numbered
    <3> QED
      BY <3>2, <3>3, <3>4
  <2> QED
    BY <2>1, <2>2
<1> QED
  BY <1>6, <1>9 DEF Numbered

LEMMA NumberedCommit ==
  ASSUME TypeOK, Numbered, NEW i \in Indexer, Commit(i)
  PROVE  Numbered'
<1>1. /\ pc[i] = "insert" /\ pc' = [pc EXCEPT ![i] = "indexed"]
      /\ UNCHANGED <<job, indexings>>
      /\ job[i].sent = Len(job[i].chunks)
      /\ rows' = rows \cup {RowOf(job[i], k) : k \in 1 .. job[i].sent}
  BY DEF Commit, LengthsAgree
<1>2. job[i].chunks \in Seq(ChunkType)
  BY <1>1, Types DEF Sound, Job
<1>3. rows' = rows \cup RowsOf(job[i])
  BY <1>1, <1>2, LenProperties DEF RowsOf
<1>4. \A x \in RowsOf(job[i]) : x.id[1] = job[i].number
  BY DEF RowsOf, RowOf
<1>5. Busy(i) /\ job[i].number <= indexings /\ RowsOfNumber(rows, job[i].number) = {}
  BY <1>1 DEF Busy, Numbered
<1>6. RowsOfNumber(rows', job[i].number) = RowsOf(job[i])
  BY <1>1, <1>3, <1>4, <1>5 DEF RowsOfNumber
<1>7. /\ pc'[i] = "indexed" /\ \A k \in Indexer \ {i} : pc'[k] = pc[k]
      /\ \A k \in Indexer : Busy(k)' => Busy(k)
  BY <1>1, <1>5, Types DEF Busy
<1>8. ASSUME NEW k \in Indexer \ {i}, Busy(k)
      PROVE  RowsOfNumber(rows', job[k].number) = RowsOfNumber(rows, job[k].number)
  <2>1. job[k].number # job[i].number
    BY <1>5, <1>8 DEF Numbered
  <2> QED
    BY <1>1, <1>3, <1>4, <2>1 DEF RowsOfNumber
<1>9. \A x \in rows' : x.id[1] <= indexings'
  BY <1>1, <1>3, <1>4, <1>5 DEF Numbered
<1>10. ASSUME NEW k \in Indexer, Busy(k)'
       PROVE  RowsOfNumber(rows', job'[k].number) = IF pc'[k] = "indexed" THEN RowsOf(job'[k]) ELSE {}
  BY <1>1, <1>6, <1>7, <1>8, <1>10 DEF Numbered
<1>11. ASSUME NEW k \in Indexer, Busy(k)'
       PROVE  /\ job'[k].number <= indexings'
              /\ \A l \in Indexer : Busy(l)' /\ job'[l].number = job'[k].number => l = k
  BY <1>1, <1>7, <1>11 DEF Numbered
<1> QED
  BY <1>9, <1>10, <1>11 DEF Numbered

LEMMA NumberedStep ==
  ASSUME TypeOK, Numbered, NEW i \in Indexer, IndexerStep(i)
  PROVE  Numbered'
<1>1. CASE \E f \in File : StatFile(i, f) \/ ParseFile(i, f) \/ ChunkFile(i, f)
  <2>1. /\ UNCHANGED <<rows, indexings>> /\ pc[i] \in {"stat", "parse", "chunk"}
        /\ pc'[i] \in {"stat", "parse", "chunk", "embed"}
        /\ \A k \in Indexer \ {i} : pc'[k] = pc[k] /\ job'[k] = job[k]
    BY <1>1, Types DEF StatFile, ParseFile, ChunkFile, AfterPass, Phase
  <2>2. job[i] \in Job
    BY <2>1, Types DEF Sound
  <2>3. ASSUME NEW j, NEW here, NEW next, NEW todo, AfterPass(i, j, here, next, todo),
               "number" \in DOMAIN j
        PROVE  job'[i].number = j.number
    <3>1. job'[i] = IF j.todo = {} THEN [j EXCEPT !.todo = todo] ELSE j
      BY <2>3 DEF AfterPass, TypeOK
    <3>2. [j EXCEPT !.todo = todo].number = j.number
      BY <2>3
    <3> QED
      BY <3>1, <3>2
  <2>4. ASSUME NEW f \in File, StatFile(i, f)
        PROVE  job'[i].number = job[i].number
    <3> DEFINE v == tree[job[i].root][f]
               files == IF v # Absent /\ classify_file(Path[f], v) THEN job[i].files \cup {f} ELSE job[i].files
               j == [job[i] EXCEPT !.todo = @ \ {f}, !.files = files]
    <3>1. AfterPass(i, j, "stat", "parse", SourcesOf(files))
      BY <2>4 DEF StatFile
    <3>2. j.number = job[i].number /\ "number" \in DOMAIN j
      BY <2>2 DEF Job
    <3> HIDE DEF j, files
    <3> QED
      BY <2>3, <3>1, <3>2
  <2>5. ASSUME NEW f \in File, ParseFile(i, f)
        PROVE  job'[i].number = job[i].number
    <3> DEFINE symbols == parse_file(f, tree[job[i].root][f])
               j == [job[i] EXCEPT !.todo = @ \ {f}, !.symbols[f] = symbols]
               sources == SourcesOf(job[i].files)
    <3>1. AfterPass(i, j, "parse", "chunk", sources)
      BY <2>5 DEF ParseFile
    <3>2. j.number = job[i].number /\ "number" \in DOMAIN j
      BY <2>2 DEF Job
    <3> HIDE DEF j, sources
    <3> QED
      BY <2>3, <3>1, <3>2
  <2>6. ASSUME NEW f \in File, ChunkFile(i, f)
        PROVE  job'[i].number = job[i].number
    <3> DEFINE chunks == build_chunks(f, job[i].symbols[f], tree[job[i].root][f])
               j == [job[i] EXCEPT !.todo = @ \ {f}, !.chunks = @ \o chunks]
    <3>1. AfterPass(i, j, "chunk", "embed", {})
      BY <2>6 DEF ChunkFile
    <3>2. j.number = job[i].number /\ "number" \in DOMAIN j
      BY <2>2 DEF Job
    <3> HIDE DEF j
    <3> QED
      BY <2>3, <3>1, <3>2
  <2>7. job'[i].number = job[i].number
    BY <1>1, <2>4, <2>5, <2>6
  <2> QED
    BY <2>1, <2>7, NumberedFrame DEF Busy
<1>2. CASE NothingToParse(i) \/ Embed(i) \/ GetOrCreateRepository(i) \/ InsertChunk(i)
  <2>1. /\ UNCHANGED <<rows, indexings>> /\ pc[i] \in {"parse", "embed", "repository", "insert"}
        /\ pc'[i] \in {"embed", "repository", "insert"}
        /\ \A k \in Indexer \ {i} : pc'[k] = pc[k] /\ job'[k] = job[k]
    BY <1>2, Types DEF NothingToParse, Embed, GetOrCreateRepository, InsertChunk, VisibleBefore, Phase
  <2>2. job[i] \in Job /\ DOMAIN job = Indexer
    BY <2>1, Types DEF Sound
  <2>3. job'[i].number = job[i].number
    BY <1>2, <2>2 DEF NothingToParse, Embed, GetOrCreateRepository, InsertChunk, Job
  <2> QED
    BY <2>1, <2>3, NumberedFrame DEF Busy
<1>3. CASE RaiseMismatch(i) \/ Fail(i)
  <2>1. /\ UNCHANGED <<rows, indexings>> /\ pc'[i] = "failed"
        /\ \A k \in Indexer \ {i} : pc'[k] = pc[k] /\ job'[k] = job[k]
    BY <1>3, Types DEF RaiseMismatch, Fail, Phase
  <2> QED
    BY <2>1, NumberedFrame DEF Busy
<1> QED
  BY <1>1, <1>2, <1>3, NumberedDiscover, NumberedCommit DEF IndexerStep

LEMMA NumberedEdit ==
  ASSUME TypeOK, Numbered, NEW r \in Root, NEW f \in File, Edit(r, f)
  PROVE  Numbered'
<1>1. /\ UNCHANGED <<rows, indexings, pc>>
      /\ \A i \in Indexer : job'[i] = IF Reading(i) /\ job[i].root = r
                                       THEN [job[i] EXCEPT !.touched = @ \cup {f}] ELSE job[i]
  BY DEF Edit
<1>2. ASSUME NEW k \in Indexer, Busy(k)
      PROVE  /\ job'[k].number = job[k].number
             /\ pc[k] = "indexed" => job'[k] = job[k]
  <2>1. job[k] \in Job
    BY <1>2, Types DEF Busy, Sound
  <2> QED
    BY <1>1, <2>1 DEF Reading, Job
<1> QED
  BY <1>1, <1>2, NumberedFrame DEF Busy

\* For every file that nobody touched while a call was reading, the table has just
\* the chunks that the listed content calls for ("nothing indexable is silently
\* dropped", vectorstore/chunking.py:15).
THEOREM UntouchedFilesIndexed == Spec => []UntouchedFilesAreIndexed
<1>1. Init => Reads /\ Numbered
  BY DEF Init, Reads, Reading, Progress, Numbered, Busy
<1>2. ASSUME TypeOK, Reads, Numbered, [Next]_vars
      PROVE  Reads' /\ Numbered'
  <2>1. CASE Next
    BY <1>2, <2>1, ReadsStep, ReadsEdit, NumberedStep, NumberedEdit DEF Next
  <2>2. CASE UNCHANGED vars
    BY <1>2, <2>2 DEF Reads, Reading, Numbered, Busy, RowsOfNumber, vars
  <2> QED
    BY <1>2, <2>1, <2>2
<1>3. ASSUME TypeOK, Reads, Numbered
      PROVE  UntouchedFilesAreIndexed
  <2> SUFFICES ASSUME NEW i \in Indexer, pc[i] = "indexed",
                      NEW f \in File \ job[i].touched, LinesAgree(job[i].scanned[f])
               PROVE  {x.chunk : x \in {y \in rows : y.id[1] = job[i].number
                                                     /\ y.chunk.relative_path = f}}
                        = ChunksCalledFor(f, job[i].scanned[f])
    BY DEF UntouchedFilesAreIndexed
  <2>1. Of(f, job[i].chunks) = ChunksCalledFor(f, job[i].scanned[f])
    BY <1>3 DEF Reads, Progress, AllCut, Kept
  <2>2. RowsOfNumber(rows, job[i].number) = RowsOf(job[i])
    BY <1>3 DEF Numbered, Busy
  <2>3. {x.chunk : x \in RowsOf(job[i])} = Elements(job[i].chunks)
    <3>1. \A k : RowOf(job[i], k).chunk = job[i].chunks[k]
      BY DEF RowOf
    <3> QED
      BY <3>1 DEF RowsOf, Elements
  <2>4. {x.chunk : x \in {y \in rows : y.id[1] = job[i].number /\ y.chunk.relative_path = f}}
          = {c \in {x.chunk : x \in RowsOfNumber(rows, job[i].number)} : c.relative_path = f}
    BY DEF RowsOfNumber
  <2> QED
    BY <2>1, <2>2, <2>3, <2>4 DEF Of
<1> QED
  BY <1>1, <1>2, <1>3, TypeCorrect, PTL DEF Spec
=============================================================================
