--------------------------- MODULE RepositoryIndex ---------------------------
(***************************************************************************)
(* Indexing repositories for search: index_repository lists the files of a *)
(* working tree, looks at each to decide whether it is relevant, parses    *)
(* the sources, reads each source a second time to cut it into chunks, has *)
(* the chunks embedded, and stores them in PostgreSQL in two transactions. *)
(* Indexers run beside each other and beside whoever edits the trees, any  *)
(* of them may stop between two steps, and no row is ever deleted.         *)
(***************************************************************************)
EXTENDS FileFilters, Integers

CONSTANTS
  Root,          \* root paths of working trees
  RepoName,      \* RepoName[r]: the last part of the path r
  File,          \* relative paths of files
  Path,          \* Path[f]: what the filters see of the path f
  Content,       \* what a file may contain
  Absent,        \* a file that is not in its tree
  None,          \* no symbol
  Trees,         \* the working trees there are at first
  Indexer,       \* whoever calls index_repository
  NoJob,         \* no call under way
  MaxIndexings,  \* bound: calls begun
  MaxEdits       \* bound: changes of a file

\* A symbol as the parser reports it, first .. last being the lines it is on,
\* and from .. to its place in the text as str.splitlines cuts it.  The two
\* differ where the text has a character, a form feed say, that ends a line for
\* splitlines only.
Symbol ==
  {s \in [name : STRING, chunk_type : {"class", "function"},
          first : Nat, last : Nat, from : Nat, to : Nat] :
     1 <= s.first /\ s.first <= s.last /\ 1 <= s.from /\ s.from <= s.to}

Segment == STRING

ContentType ==
  {v \in [text : Seq(Segment), line_count : Nat, symbols : Seq(Symbol),
          decodable : BOOLEAN, large : BOOLEAN] :
     \A i \in DOMAIN v.symbols : v.symbols[i].to <= Len(v.text)}

ASSUME ContentAssumption == Content \subseteq ContentType /\ Absent \notin Content
ASSUME PathAssumption == Path \in [File -> PathType]
ASSUME TreesAssumption == Trees \subseteq [Root -> [File -> Content \cup {Absent}]]
ASSUME RepoNameAssumption == RepoName \in [Root -> STRING]
ASSUME BoundsAssumption == MaxIndexings \in Nat /\ MaxEdits \in Nat

VARIABLES
  tree,          \* the working trees
  repositories,  \* the table of repositories
  next_id,       \* the sequence their ids are taken from
  rows,          \* the table of chunks
  pc,            \* where each indexer is
  job,           \* what each indexer has read
  indexings,     \* calls begun so far
  edits          \* changes so far

vars == <<tree, repositories, next_id, rows, pc, job, indexings, edits>>
-----------------------------------------------------------------------------
(* Reading one file (ingestion, parsing, chunking). *)

\* The files that are never relevant, those that are parsed or stored whole, those
\* in a language that has a parser, and those whose parser wants UTF-8.
NamedOut == {f \in File : ruled_out(Path[f])}
Source == {f \in File : categorize(Path[f].suffix) = "source"}
Supported == {f \in File : detect_language(Path[f].suffix) \in SUPPORTED_LANGUAGES}
Python == {f \in File : detect_language(Path[f].suffix) = "Python"}

\* The symbols the parser finds: none in Python text that is not UTF-8, and none
\* where the file is gone or has no parser, as it is not in parsed_files then.
parse_file(f, v) ==
  IF v # Absent /\ f \in Supported /\ (f \in Python => v.decodable) THEN v.symbols ELSE <<>>

\* Mutant: line numbers taken as zero-based.
SliceFromZero(lines, first, last) ==
  SubSeq(lines, first + 1, IF last < Len(lines) THEN last ELSE Len(lines))

\* A slice ends where the text does.
slice_lines(lines, first, last) ==
  SubSeq(lines, first, IF last < Len(lines) THEN last ELSE Len(lines))

Chunk(f, chunk_type, name, first, last, content) ==
  [relative_path |-> f, chunk_type |-> chunk_type, name |-> name,
   start_line |-> first, end_line |-> last, content |-> content]

chunks_for_parsed_file(f, symbols, lines) ==
  [i \in DOMAIN symbols |->
     Chunk(f, symbols[i].chunk_type, symbols[i].name, symbols[i].first, symbols[i].last,
           slice_lines(lines, symbols[i].first, symbols[i].last))]

FileChunk(f, v) == Chunk(f, "file", None, 1, v.line_count, v.text)

\* The chunks of one file, from the symbols parsed earlier and from what the
\* file contains now.
build_chunks(f, symbols, v) ==
  IF v = Absent \/ ~ v.decodable THEN <<>>
  ELSE IF symbols # <<>> THEN chunks_for_parsed_file(f, symbols, v.text)
  ELSE <<FileChunk(f, v)>>
-----------------------------------------------------------------------------
(* Steps of index_repository. *)

\* The files that a walk through the tree comes across.
discover_files(r) == {f \in File : tree[r][f] # Absent /\ discovered(Path[f])}

\* What a call has read: the files left for the present pass, those found
\* relevant, the symbols of each, the chunks; how many embeddings came back,
\* the id of the repository and how many rows the open transaction has.  scanned
\* and touched only watch: the tree as it was listed, and the files changed
\* while the call went on reading.
NewJob(r) ==
  [root |-> r, number |-> indexings + 1, todo |-> discover_files(r),
   files |-> {}, symbols |-> [f \in File |-> <<>>], chunks |-> <<>>,
   embeddings |-> 0, repository_id |-> 0, sent |-> 0,
   scanned |-> tree[r], touched |-> {}]

SourcesOf(files) == files \cap Source

\* The next pass begins when no file is left for the present one.
AfterPass(i, j, here, next, todo) ==
  /\ job' = [job EXCEPT ![i] = IF j.todo = {} THEN [j EXCEPT !.todo = todo] ELSE j]
  /\ pc' = [pc EXCEPT ![i] = IF j.todo = {} THEN next ELSE here]

\* The listing; everything is read afterwards.
Discover(i, r) ==
  /\ pc[i] \in {"idle", "indexed", "failed"}
  /\ indexings < MaxIndexings
  /\ indexings' = indexings + 1
  /\ AfterPass(i, NewJob(r), "stat", "parse", {})
  /\ UNCHANGED <<tree, repositories, next_id, rows, edits>>

\* The file is looked at; one that is gone is recorded as an error.
StatFile(i, f) ==
  LET v == tree[job[i].root][f]
      files == IF v # Absent /\ classify_file(Path[f], v) THEN job[i].files \cup {f} ELSE job[i].files
      j == [job[i] EXCEPT !.todo = @ \ {f}, !.files = files]
  IN  /\ pc[i] = "stat"
      /\ f \in job[i].todo
      /\ AfterPass(i, j, "stat", "parse", SourcesOf(files))
      /\ UNCHANGED <<tree, repositories, next_id, rows, indexings, edits>>

\* parse_repository, one file: it is read for its symbols.
ParseFile(i, f) ==
  LET symbols == parse_file(f, tree[job[i].root][f])
      j == [job[i] EXCEPT !.todo = @ \ {f}, !.symbols[f] = symbols]
  IN  /\ pc[i] = "parse"
      /\ f \in job[i].todo
      /\ AfterPass(i, j, "parse", "chunk", SourcesOf(job[i].files))
      /\ UNCHANGED <<tree, repositories, next_id, rows, indexings, edits>>

NothingToParse(i) ==
  /\ pc[i] = "parse"
  /\ job[i].todo = {}
  /\ pc' = [pc EXCEPT ![i] = "embed"]
  /\ UNCHANGED <<tree, repositories, next_id, rows, job, indexings, edits>>

\* build_chunks, one file: it is read once more for its text.
ChunkFile(i, f) ==
  LET chunks == build_chunks(f, job[i].symbols[f], tree[job[i].root][f])
      j == [job[i] EXCEPT !.todo = @ \ {f}, !.chunks = @ \o chunks]
  IN  /\ pc[i] = "chunk"
      /\ f \in job[i].todo
      /\ AfterPass(i, j, "chunk", "embed", {})
      /\ UNCHANGED <<tree, repositories, next_id, rows, indexings, edits>>

\* One embedding per chunk, or an answer of the provider that is one short.
Embed(i) ==
  /\ pc[i] = "embed"
  /\ \E n \in {Len(job[i].chunks), Len(job[i].chunks) - 1} \cap Nat :
       job' = [job EXCEPT ![i].embeddings = n]
  /\ pc' = [pc EXCEPT ![i] = "repository"]
  /\ UNCHANGED <<tree, repositories, next_id, rows, indexings, edits>>

\* Mutant: the conflict is looked for in the name.
SameName(r) == {x \in repositories : x.name = RepoName[r]}

SameRepository(r) == {x \in repositories : x.root_path = r}

\* Connect, apply_schema, get_or_create_repository: the first transaction.  The
\* sequence moves on also when the row is there.
GetOrCreateRepository(i) ==
  LET r == job[i].root
      row == IF SameRepository(r) = {}
             THEN [id |-> next_id, name |-> RepoName[r], root_path |-> r]
             ELSE CHOOSE x \in SameRepository(r) : TRUE
  IN  /\ pc[i] = "repository"
      /\ repositories' = (repositories \ SameRepository(r)) \cup {[row EXCEPT !.name = RepoName[r]]}
      /\ next_id' = next_id + 1
      /\ job' = [job EXCEPT ![i].repository_id = row.id]
      /\ pc' = [pc EXCEPT ![i] = "insert"]
      /\ UNCHANGED <<tree, rows, indexings, edits>>

\* The row of the k-th chunk of a call.  root only records where it is from.
RowOf(j, k) ==
  [id |-> <<j.number, k>>, repository_id |-> j.repository_id, chunk |-> j.chunks[k], root |-> j.root]

RowsOf(j) == {RowOf(j, k) : k \in DOMAIN j.chunks}

LengthsAgree(j) == j.embeddings = Len(j.chunks)

\* Mutant: every row is a transaction of its own.
VisibleAtOnce(j) == {RowOf(j, j.sent + 1)}

\* What others see of the open transaction after one more INSERT.
VisibleBefore(j) == {}

\* insert_chunks: one INSERT of the second transaction.
InsertChunk(i) ==
  /\ pc[i] = "insert"
  /\ LengthsAgree(job[i])
  /\ job[i].sent < job[i].embeddings
  /\ job' = [job EXCEPT ![i].sent = @ + 1]
  /\ rows' = rows \cup VisibleBefore(job[i])
  /\ UNCHANGED <<tree, repositories, next_id, pc, indexings, edits>>

\* The second transaction commits and index_repository returns.
Commit(i) ==
  /\ pc[i] = "insert"
  /\ LengthsAgree(job[i])
  /\ job[i].sent = job[i].embeddings
  /\ rows' = rows \cup {RowOf(job[i], k) : k \in 1 .. job[i].sent}
  /\ pc' = [pc EXCEPT ![i] = "indexed"]
  /\ UNCHANGED <<tree, repositories, next_id, job, indexings, edits>>

\* insert_chunks raises before its first INSERT.
RaiseMismatch(i) ==
  /\ pc[i] = "insert"
  /\ ~ LengthsAgree(job[i])
  /\ pc' = [pc EXCEPT ![i] = "failed"]
  /\ job' = [job EXCEPT ![i] = NoJob]
  /\ UNCHANGED <<tree, repositories, next_id, rows, indexings, edits>>

Active(i) == pc[i] \notin {"idle", "indexed", "failed"}

\* The provider or the database raises, or the process dies: an open
\* transaction is rolled back.
Fail(i) ==
  /\ Active(i)
  /\ pc' = [pc EXCEPT ![i] = "failed"]
  /\ job' = [job EXCEPT ![i] = NoJob]
  /\ UNCHANGED <<tree, repositories, next_id, rows, indexings, edits>>

Reading(i) == pc[i] \in {"stat", "parse", "chunk"}

\* Somebody writes, creates or removes a file.
Edit(r, f) ==
  /\ edits < MaxEdits
  /\ edits' = edits + 1
  /\ \E v \in (Content \cup {Absent}) \ {tree[r][f]} : tree' = [tree EXCEPT ![r][f] = v]
  /\ job' = [i \in Indexer |->
               IF Reading(i) /\ job[i].root = r
               THEN [job[i] EXCEPT !.touched = @ \cup {f}] ELSE job[i]]
  /\ UNCHANGED <<repositories, next_id, rows, pc, indexings>>
-----------------------------------------------------------------------------
Init ==
  /\ tree \in Trees
  /\ repositories = {}
  /\ next_id = 1
  /\ rows = {}
  /\ pc = [i \in Indexer |-> "idle"]
  /\ job = [i \in Indexer |-> NoJob]
  /\ indexings = 0
  /\ edits = 0

IndexerStep(i) ==
  \/ \E r \in Root : Discover(i, r)
  \/ \E f \in File : StatFile(i, f) \/ ParseFile(i, f) \/ ChunkFile(i, f)
  \/ NothingToParse(i)
  \/ Embed(i)
  \/ GetOrCreateRepository(i)
  \/ InsertChunk(i)
  \/ Commit(i)
  \/ RaiseMismatch(i)
  \/ Fail(i)

Next ==
  \/ \E r \in Root, f \in File : Edit(r, f)
  \/ \E i \in Indexer : IndexerStep(i)

Spec == Init /\ [][Next]_vars
-----------------------------------------------------------------------------
(* Properties. *)

ChunkType ==
  [relative_path : File, chunk_type : {"class", "function", "file"}, name : STRING \cup {None},
   start_line : Nat, end_line : Nat, content : Seq(Segment)]

Job ==
  [root : Root, number : Nat, todo : SUBSET File, files : SUBSET (File \ NamedOut),
   symbols : [File -> Seq(Symbol)], chunks : Seq(ChunkType), embeddings : Nat,
   repository_id : Nat, sent : Nat, scanned : [File -> Content \cup {Absent}],
   touched : SUBSET File]

Row == [id : Nat \X Nat, repository_id : Nat, chunk : ChunkType, root : Root]

\* The types of the variables.  A call has a job while it runs and after it has
\* returned, and never more embeddings than chunks.
TypeOK ==
  /\ tree \in [Root -> [File -> Content \cup {Absent}]]
  /\ repositories \subseteq [id : Nat, name : STRING, root_path : Root]
  /\ next_id \in Nat
  /\ rows \subseteq Row
  /\ pc \in [Indexer -> {"idle", "stat", "parse", "chunk", "embed", "repository", "insert",
                         "indexed", "failed"}]
  /\ DOMAIN job = Indexer
  /\ \A i \in Indexer : pc[i] \notin {"idle", "failed"} =>
       job[i] \in Job /\ job[i].embeddings <= Len(job[i].chunks)
  /\ indexings \in 0 .. MaxIndexings
  /\ edits \in 0 .. MaxEdits

\* The chunks that the content v of file f calls for, by the parser's account.
ChunksCalledFor(f, v) ==
  IF v = Absent \/ f \notin Source \/ f \in NamedOut \/ ~ discovered(Path[f]) THEN {}
  ELSE IF v.large \/ ~ v.decodable THEN {}
  ELSE IF v.symbols = <<>> \/ f \notin Supported
       THEN {Chunk(f, "file", None, 1, v.line_count, v.text)}
  ELSE {Chunk(f, s.chunk_type, s.name, s.first, s.last, SubSeq(v.text, s.from, s.to)) :
          s \in {v.symbols[k] : k \in DOMAIN v.symbols}}

\* The parser's lines are those of splitlines.
LinesAgree(v) ==
  v # Absent =>
    \A k \in DOMAIN v.symbols :
      v.symbols[k].from = v.symbols[k].first /\ v.symbols[k].to = v.symbols[k].last

\* "Nothing indexable is silently dropped" (vectorstore/chunking.py:15), and
\* nothing else gets in: when a call returns, the table has for every file that
\* was left alone since it was listed exactly the chunks that this content calls
\* for, one for each symbol with the lines of that symbol or else one for the
\* file, whatever happened to other files in the meantime.  (Only where parser and
\* splitlines disagree on the lines do the chunks hold others than the symbols'.)
UntouchedFilesAreIndexed ==
  \A i \in Indexer : pc[i] = "indexed" =>
    \A f \in File \ job[i].touched : LinesAgree(job[i].scanned[f]) =>
      {x.chunk : x \in {y \in rows : y.id[1] = job[i].number /\ y.chunk.relative_path = f}}
        = ChunksCalledFor(f, job[i].scanned[f])

\* The chunks of a call become visible together or not at all, under the
\* repository of its root, whichever call fails where and whatever the provider
\* of the embeddings answers; and no step removes or changes a row.
BatchesAreWhole ==
  [][\E i \in Indexer :
       /\ pc[i] = "insert"
       /\ pc'[i] = "indexed"
       /\ rows' = rows \cup RowsOf(job[i])
       /\ job[i].embeddings = Len(job[i].chunks)]_rows

\* A root path has one repository whoever indexes it first and however many do
\* so at once, and every chunk is found under the id of the tree that it was
\* read from, also when two clones have the same name.
RepositoriesAreSeparate ==
  /\ \A x, y \in repositories : (x.id = y.id \/ x.root_path = y.root_path) => x = y
  /\ \A x \in rows : \E y \in repositories : y.id = x.repository_id /\ y.root_path = x.root
=============================================================================
