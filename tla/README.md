# A verification of the AI software engineering agent

TLA+ modules, TLC runs and TLAPS proofs for the Python backend of this repository
(`src/backend`): an agent that answers questions about a code repository, proposes
changes to it, applies those a human approved, and runs the tests. All paths below are
relative to `src/`.

- [The system](#the-system): its parts, their state, how they interact, where they are
  hard
- [The modules](#the-modules): what models what
- [The runs](#the-runs): what TLC checks, within which bounds, under which fairness
- [The proofs](#the-proofs): what holds for every value of the constants, and why
- [Disagreements](#disagreements-between-code-and-words)
- [What is not modelled](#what-is-not-modelled)
- [Plan](#plan)

`PROJECT.json` lists components, runs, hazards, findings and theorems, the source lines
behind every definition, and for every checked property a mutant of the code's model
that violates it. The mutated operators stand in the modules under a comment that begins
with `Mutant:`; nothing else uses them.

To check a run: `tlc -config AgentLoop.cfg MCAgentWorkflow.tla`. To check the proofs:
`tlapm AgentWorkflow_proofs.tla`.

## The system

### Components

**Agent** (`backend/agent`). A LangGraph state machine, one conversation per
`thread_id`. *State*: the `AgentState` of each thread, kept by a `MemorySaver` between
the calls `AgentService.run` and `resume`. *Operations*: the nodes task_analyzer,
planner, repository_search, graph_search, code_analyzer, decision, then one of answer,
test or propose_change, then human_approval, apply_change and run_tests_after_apply,
which may lead back to propose_change. *Hard*: two nested loops (broader searches, fix
attempts) bounded by two counters and a clock; state of an earlier attempt that survives
in the fields; a human who answers late, or after the caller has started over; files
that others write between reading, showing, comparing and writing. *Correct if*: no
write without an approval of just that change, one write per approval, a bounded number
of both, a final response that tells what happened, and every call comes to an end.

**Modification** (`backend/modification`). Picks a file, has a model write its new
content, applies it unless the file has changed since. *State*: the repository's files.
*Hard*: compare-then-write, and `write_text` that breaks off. *Correct if*: nobody's
edit is overwritten unseen.

**Observability** (`backend/observability`). Spans around calls, nodes and providers; a
trace per conversation; a recorder that writes it as JSON; redaction, logging,
exporters. *State*: two context variables per thread of execution, the traces in memory,
the files on disk. *Hard*: the context must follow the code however a span is left
(return, exception, LangGraph's pause); a trace lives over several calls and workers;
the recorder may fail and the process may die. *Correct if*: what observes never changes
what is observed, and what is on disk is a whole tree that says the truth.

**Graph** (`backend/graph`). `GraphBuilder.build` writes what ingestion listed and
parsing read of a repository into Neo4j in eleven auto-committed statements; queries
read it. *State*: nodes, relationships and properties in the database, never deleted.
*Hard*: builds interleave and break off, files change while they are read, a `MATCH`
without a result drops its row in silence. *Correct if*: the graph hangs together at all
times, a build that returns has written all, and rebuilding converges.

**Ingestion** (`backend/ingestion`). Walks the tree, prunes directories, and says of
each file whether it is relevant, in which language and of which category. *State*:
none. *Hard*: the tree changes under the walk; names decide before content is touched.
*Correct if*: a file that nobody changed is reported exactly if the filters want it, and
a sensitive name is never read.

**Parsing** (`backend/parsing`). Two families of parsers, Python's `ast` with a visitor
that keeps a stack of classes, and Tree-sitter with one extractor per language, turn
files into classes, functions and imports. *State*: the visitor's stack and lists.
*Hard*: nesting that the visitor and the extractors must agree on; a file that changes
or goes; recursion that ends at the interpreter's limit. *Correct if*: a parsed file has
exactly the symbols it declares, with the class each method belongs to, and a bad file
spoils no other.

**Index** (`backend/vectorstore`).
`index_repository` stats each file, parses each source, reads it again to cut it into
chunks, embeds them, and stores them in PostgreSQL in two transactions. *State*:
repositories and code_chunks. *Hard*: three readings of a changing tree, two calls at
once, providers that answer short. *Correct if*: what a call stores is whole, under the
repository it is from, and right for files nobody touched.

**Retrieval** (`backend/rag`, `backend/hybrid`). Vector search, keyword search,
expansion through the graph, ranking, bounded context, answer with sources. *State*:
none that lasts; it reads both stores at several moments. *Correct if*: each source is
there for a true reason, the order is the one the weights define, and the context exceeds
its bound by no more than its separators.

**Sandbox** (`backend/sandbox`). Copies the tree to a temporary directory and runs the
tests in one Docker container with a timeout. *State*: the copy and the container.
*Hard*: a tree that changes while it is copied, a `docker` command that dies and a kill
that fails, a container that is started late or outlives its directory. *Correct if*:
"passed" means that the tests of what was copied can pass, the repository is left alone,
and what stays behind is bounded by the answer.

**GitHub integration** (`backend/github_integration`). Validates a URL, clones,
branches, commits, pushes, opens pull requests; `ingest_github_repository` clones,
indexes and, if a graph database is there, builds the graph. *State*: workspaces on disk
and the remote. *Hard*: each step may fail or be killed with the earlier ones done,
retries meet what they left, two calls meet in one directory, and a request may be
carried out after its caller has given up. *Correct if*: nobody works in a directory
that another call is cloning into, nothing reaches GitHub without consent, and the
default branch is left alone.

**Tools** (`backend/tools`). A registry of nine read-only tools that turns expected
failures into results. *State*: none that lasts; it reads files, the store and the
graph. *Hard*: a file is looked at several times, each of which may find something else.
*Correct if*: an answer is true of the tree as it was during the call, sensitive files
stay closed, and a connection left open and an exception that gets out have a known
reason.

**The rest**: API (`backend/api`, request ids and health), config, evaluation (a
sequential harness), scripts, deployment. None keeps state that two actors share.

### How they interact

The agent calls retrieval (search nodes), modification (propose and apply) and the
sandbox (tests); every node, call and provider is wrapped in a span. The tools call
ingestion, parsing, hybrid search and the graph's queries. The pipeline calls Git, then
graph builder and index. The index calls ingestion and parsing itself; callers of the
graph builder call them first and hand it the results. Graph and index meet only in
retrieval, which matches the graph's symbols to the index' chunks by path and qualified
name. Working trees are shared by agent, builders, indexers, sandbox, tools and human
editors without any lock; so are the two databases, where one statement of a graph
builder, or the chunks of one call of the index, is the largest transaction there is.

## The modules

| Module | Models | Specification it implements |
|---|---|---|
| `AgentWorkflow` | agent, modification | `ApprovalGate` |
| `Tracing` | tracer, recorder, span wrappers, `AgentService` around them | `AgentCalls` |
| `CodeGraph` | what parsing hands over, and the graph it calls for (no state) | |
| `FileFilters` | the filters, language and category of ingestion (no state) | |
| `SyntaxTrees` | the extractors that search Tree-sitter's trees (no state) | |
| `Parsing` | `ParsingService` and the visitor of Python | |
| `GraphBuilder` | graph builder | `GraphGrowth` |
| `RepositoryIndex` | ingestion, chunking, vector store | |
| `Retrieval` | rag and hybrid services | |
| `RepositoryTools` | tool registry and handlers | |
| `Sandbox` | test runner and its container | `TestVerdicts` |
| `GitHubIntegration` | URL, clone, branch, commit, push, pull request, pipeline | `Publication` |
| `MC*` | small instances for TLC | |
| `*_proofs` | the theorems; those of `GitHubIntegration` and `Parsing`, both ends of the ingestion pipeline, are in `Pipeline_proofs` | |

The modules compose by what they promise each other. `Tracing` wraps the service whose
nodes `AgentWorkflow` spells out. `Retrieval` stands on two results proved elsewhere:
rows appear only in whole batches and never go away (`BatchesAreWhole` of
`RepositoryIndex`), and relationships only accumulate (`GraphGrowth`, which
`GraphBuilder` implements). Its actions `CommitChunks` and `GrowGraph` are these two
promises. That relationships are `Drawn` as the builder's statements draw them, a method
below the class it names and INHERITS between classes, is an assumption of `Retrieval`
and part of what `TypeCorrect` of `GraphBuilder_proofs` proves. `AgentWorkflow` takes
from `TestVerdicts`, which `Sandbox` implements, that a test run answers one thing and
leaves the repository alone. `FileFilters` is shared by `RepositoryIndex` and
`RepositoryTools`, as the code shares `ingestion/filters.py`.

### AgentWorkflow

`pc[t]` is the node the thread is at, `state[t]` its `AgentState` with text reduced to
what the routers and the properties tell apart, `repo` the files, `draft[t]` what
propose_change has read while a model writes. `tally[t]` is a history variable:
approvals asked, writes made and verifications run in the present run.

A step is a node, because LangGraph runs one node at a time per thread and checkpoints
in between. Three nodes are cut in two where the world can move under them:
propose_change (read, then a model generates), apply_change (compare, then write) and
run_tests_after_apply (start, then finish). `Run` is `AgentService.run`, also on a
thread that waits for an approval; `Resume` answers the interrupt; `BudgetElapses` is
the wall clock passing the deadline; `Raise` an exception out of a node; `ApplyBreaks`
an `OSError` in the middle of `write_text`, which leaves any content; `Edit` anybody
else. Searches, models and tests may answer anything. `Content` is the decoded text that
`read_text` returns.

`ApprovalGate` has only the files, the phase of each conversation and the change on the
table. A change that was granted is compared with the file (`Compare`), and only then
written. A file changes by `Write` (once per approval) or `BrokenWrite` (broken off), or
because somebody else edits it, at any time: the gate permits an edit between comparison
and write, which the write overwrites, because the code has nothing against it. What the
refinement shows of the comparison is that there is one between each approval and its
write.

### Tracing

A worker is a thread of execution with its own pair of context variables. `stack[w]`
holds the open spans with the reset tokens of the context, `signal[w]` the exception or
pause that is travelling up, `traces` is `Tracer._traces`, `disk` the recorder's files.
`CloseSpan` is the `finally` of `span()`; `StatusOf` its three ways out. `Finish` and
`FinishUnrecorded` are `finish_trace` with a recorder that works or raises, the latter
leaving the file as it was or torn. `Crash` loses all memory. `AgentCalls` is the
service as callers see it with nothing observed.

### CodeGraph, GraphBuilder, GraphGrowth

`CodeGraph` holds the records of the parser (`ParsedFile`), `class_index`,
`resolve_import_to_file`, and `ExpectedNodes`, `ExpectedEdges`, `AllowedEdges`: the
graph a snapshot calls for, written from the docstring of `graph/builder.py` and not
from its statements. `GraphBuilder` has the eleven statements in order, each a pair of
what it merges and what it links, and one action per step: `Ingest`, `ParseFile`,
`RunStatement`, `Finish`, `Fail`, `Edit`. `RunStatement` keeps a link only if both ends
are there, which is what `MATCH` does. `GraphGrowth` promises of any number of writers:
each adds only what its snapshot allows, nothing is taken away, no relationship lacks an
end, and a writer returns only when everything is there.

The order in which files are parsed is free: it does not show, and `\E f` is shorter.
One repository is modelled, since its path is part of every key.

### FileFilters, SyntaxTrees, Parsing

`FileFilters` holds the constant sets and the predicates of `ingestion/filters.py`,
`language.py` and the pruning of `scanner.py`. A path is a record of directories, name
and suffix; a name is the sequence of its parts between the dots, which is all that the
patterns look at, and `fnmatch` is a star that stands for whole parts.

`SyntaxTrees` holds the extractors of `parsing/languages.py` over a tree given as the
sequence of its nodes in preorder, each with its parent, so that `Enclosing` replaces
recursion and document order is the order of numbers. `Parsing` is the service:
`listing` is what ingestion has handed over, `position` the file it is at. A Tree-sitter
file is one step (`parse_with_treesitter`). For Python the walk itself is modelled, one
action per visit: `open` holds the nodes the visitor is in, `class_stack` is that of
`_SymbolVisitor`, `found` its lists; `RunOutOfStack` is the `RecursionError` that leaves
the whole service. What is expected of the result (`Describes`) is written from the
docstrings, by the nodes around a node and not by a walk. It leaves one thing open: the
class of a function inside a method of Python, where the docstring
(`parsing/python_parser.py:10-12`) and the code differ; `ParsingClosures` has that.
`IsTreeOf` says which trees there are: any in preorder, with any nesting, whatever error
recovery makes of a broken file. Names may be missing (`named`) or empty, which is what
Tree-sitter puts where an identifier is missing. All that is assumed is what the fields
of a function's node mean: in C and C++ its name is that in its declarator and only a
qualified name has a scope; elsewhere only the receiver of a Go method is one. The
initial states, the next-state relation and the type invariant of `Parsing` carry its
name (`ParsingInit` and so on) because `Pipeline_proofs` extends it beside
`GitHubIntegration`.

### RepositoryIndex

`pc[i]` goes through `stat`, `parse`, `chunk`, `embed`, `repository`, `insert`; `job[i]`
holds what the call has gathered. Each file is looked at three times, one action each.
`GetOrCreateRepository` is the first transaction (the schema, which is idempotent, is
part of it), `InsertChunk` the inserts of the second, invisible until `Commit`. Contents
are sequences of lines as `str.splitlines` cuts them, with symbols that know both the
line numbers of the parser and their place among those lines. `scanned` and `touched`
are history: what the tree was when it was listed, and which files were edited since.
Files without a source extension are looked at only by name and size.

Which files are discovered and classified is `FileFilters`, over the paths that the
constant `Path` gives. The parser is a constant of each content: its symbols.

### Retrieval

One call stands for all, because a call writes nothing. Each statement of PostgreSQL or
Neo4j is a step and sees the stores as they are then. The vector index (HNSW) is
approximate, so `similarity_search` returns any matching rows, nearest first;
`keyword_search` is exact but for ties. `merge_and_rank`, used for the seeds and for the
final list, is `rag/ranking.py` with the weights as an argument, and `hybrid/ranking.py`
with a third score. `find_related_symbols` runs one Cypher query per step and remembers
the best relationship per symbol. Similarities, ranks and graph scores are in hundredths
and weights in tenths, so that all scores are integers.

### RepositoryTools

One call of `ToolRegistry.invoke` at a time: `call` is the request, `stage` what the
handler looks at next. `read_file` and `analyze_code` look at their path five times
(`ResolvePath`, `CheckIsFile`, twice in `StatFile`, `ReadFile`), `list_files` at each
file once after a listing, `search_code` opens a connection, registers the vector type,
embeds the question and makes two queries. Only the last three are in the `try` whose
`finally` closes the connection (`Tried`): `register_vector` raises inside
`VectorStore.connect`, with the connection open and nobody to close it. At each look the
path may hold another content, a directory, or nothing, and the look itself may raise
(`Disk`), as each call of a service may (`Service`; `Raise` is both). `Error` is a
`ToolResult` that says so, `Raised` an exception that leaves `invoke`. `seen` and
`failed` are history: what each path held while the call went on, and where a service or
the file system has raised.

### Sandbox, TestVerdicts

A call of `DockerTestRunner.run` goes through `detect`, `check`, `directory`, `copy`,
`run`, `kill`, `leave`. `copytree` takes the names in a directory when it gets to it and
not before: `ListDirectory` is one such listing, which settles what is missing there,
and `CopyFile` is one file. What goes wrong with either is remembered (`CopyFails`) and
raised at the end (`FinishCopy`). `TestVerdicts` has only the tree, what a call has seen
of it, and its verdict; `Sandbox` implements it with `sample <- copied`. Neither
promises that what was seen is a tree that ever was: a file that is moved, between two
listings, from a directory not yet listed to one that is, is in no copy, and no error
says so.

`docker run` is three parties: the command, which hands on the code of the container
(`RunReturns`), dies by itself whatever has become of the container (`RunFails`: its own
exit code is taken for that of the tests, and nobody kills the container), cannot be
run (`RunRaises`), or is killed at the deadline (`RunTimesOut`); the daemon, which
creates and starts the container when it has been asked to (`asked`), also after the
command that asked is gone, and then makes the directory that is to be mounted anew if
it has been removed; and the tests, which write into the copy and end with a code.
`docker kill` kills a container that runs (`KillContainer`), exits with an error that
`check=False` ignores (`KillRefused`: the container does not run, or not yet), or raises
(`KillRaises`). `RemovalFails` is the exception of `TemporaryDirectory` that takes the
place of the result.

### GitHubIntegration, Publication

One repository on GitHub and the one directory that its owner and name determine.
`parse_github_url` works on the parts of a URL. A Git command ends well, ends with an
error and has done nothing, or is killed with its work done, half done or not begun
(`Ends`); `_run_git_raises` tells the last two apart from the first. A push or a pull
request becomes a member of `requests`, from where GitHub takes it (`Receive`) or does
not (`Lose`), before or after the caller has got an answer or an exception. `has[u]` is
what a user of the service has in hand: a clone only after `clone_repository` or the
pipeline has returned, a branch only after `create_branch` has. `Publication` has only
GitHub's branches and pull requests and what somebody has agreed to.

## The runs

Ten runs pass. Two are expected to find a violation: each shows a disagreement between
code and words (see [Disagreements](#disagreements-between-code-and-words)).

| Run | Question | States |
|---|---|---|
| `AgentLoop` | Is the loop bounded, is the final response true, does every call and the loop end? | 35,361 |
| `AgentGate` | Does the workflow implement the approval gate beside another conversation and an editor: shown, approved, compared, written once? Is a rejection final? | 519,354 |
| `TracingTree` | Does the context follow the code, are trace files whole and true, is tracing invisible to callers? | 566,819 |
| `GraphBuilds` | Is the graph whole at all times, complete when a build returns, exact on an unchanged tree? | 57,438 |
| `ParsingRuns` | Are the symbols of a file those it declares, and is every file accounted for? | 44,884 |
| `IndexRuns` | Are batches whole, repositories separate and untouched files indexed exactly? | 727,195 |
| `RetrievalAnswers` | Are citations grounded, the ranking exact and the context bounded up to its separators while the stores grow? | 73,940 |
| `ToolCalls` | Is an answer true of the tree during the call, and has each exception and each connection left open one of the reasons named? | 774,246 |
| `SandboxRuns` | Does "passed" mean that the copied tests can pass, is what is left behind bounded by the answer, does each call return? | 105,354 |
| `GitHubFlow` | Do users exclude each other in a clone, is the default branch left alone, does nothing get out without consent? | 1,200,543 |
| `AgentRejectedFix` | "No changes were made" after a rejected fix attempt: violated | |
| `ParsingClosures` | "Functions nested inside other functions" are recorded with `is_method=False`: violated | |

### Bounds, and why they are enough

*Agent.* `AgentLoop` has one conversation, two files, two contents (any content differs
from the other or does not) and the bounds of production, two broader searches and two
fix attempts, so every path of both loops is there. The properties of this run are about
one thread, and other threads act on it only through `repo`, which `Edit` already
changes at will. `AgentGate` has two conversations on one shared
file with bounds of one, which is enough for a second attempt to inherit what a first
one left; threads and contents are symmetric, and the properties are safety properties.

*Tracing.* Two workers and two conversations let a conversation wander between workers
and a worker serve both. Six spans are two calls of three spans each, or one call with
several nodes: enough for a pause, a resumption by another worker, a failed call and the
reuse of its thread id. `MaxSpans` stops new spans only, so nothing deadlocks.

*Graph.* Two builders and two builds: two at once, one after the other, one after a
broken one. One edit at any moment turns the tree into any other of six: a class moves,
a file vanishes, a name becomes ambiguous, a class is defined twice. A file at the root
and one two folders down exercise root and nested statements.

*Index.* Two indexers and two calls of either of two clones with one name; one edit
anywhere, which is enough to fall between any two of the three readings of a file; files
that are parsed, excluded by name, by directory or by their first bytes, unreadable, too
large, or without a parser, and one whose lines the parser counts otherwise than
`str.splitlines`.

*Parsing.* A listing has a Python file and one of another language, or one without a
parser, before or after it; their trees hold each way in which classes and functions lie
in one another, once, and broken trees in which a name is missing or empty. `MaxDepth` 5
is passed by one tree and by none of the others.
`MaxSeen` 2 allows each file one change at any moment, and another one back.

*Tools.* Five files: one that is always relevant, one that only its pattern keeps out,
one that is sensitive though its suffix is not, one in a pruned directory, one without a
suffix. Two changes at any moments of a call are enough for any look to see something
else than the one before and after it. One call at a time, since calls share only the
tree, which changes at will; calls after each other show that nothing is left over.

*Sandbox.* One call, because calls share only the tree, and `Edit` changes that at will
and without a bound; each has a directory and a container name of its own. A test, and a
module in either of two directories, each in two versions, give trees that pass, trees
that mix versions, and a module that is moved between two listings.

*GitHub.* Two users (symmetric), the default branch and another one, three commits, five
calls: enough for one user to clone, branch, commit and push while the other does any of
these or clones again after a kill, and for other people's commits to come first.

*Retrieval.* Seven chunks in three batches and three growths of the graph are enough for
a class with methods, a subclass, an importer, and a clone of one chunk in another
repository; any subset may have arrived at each statement of a call. Top-k's of two, two
and four cut something off, and a context of 8 is crossed by two, three or no chunks.

`CHECK_DEADLOCK FALSE` stands in the configurations of the graph, the index and GitHub,
because there the bounds on builds, calls, commits and edits stop the system: a finished
build starts again only while `MaxBuilds` allows. In all others deadlock is checked.

### Fairness

Two runs have temporal properties beyond safety. In `AgentLoop`, `Fairness` is
`WF_vars(Step(t))` for every thread: `run` and `resume` are synchronous, LangGraph goes
on to the next node as long as there is one, and every external call returns or raises:
Docker and Git are called with timeouts; of model providers and databases this is
assumed, as `run` has no timeout of its own. Within `Step(t)` nothing is said of which
outcome occurs. There is no fairness for `Raise`, for callers, for the clock, for
editors or for humans. `Responds` needs nothing more. `LoopEnds` says that *if* every
question is answered (`WF_vars(Answered(t))` is its hypothesis), the loop ends.

In `SandboxRuns` the fairness is `WF_vars(CallStep(c))`: the call is synchronous, and
each command it waits for has a deadline (`RunTimesOut`, `KillRaises`). Nothing is
assumed of the daemon, of the tests, of a `docker run` that might end early or of
editors: `DockerStep` and `Edit` have no fairness. `CallsReturn` says that a call
returns whatever Docker does; a model of the deadline that counts from the start of the
container breaks it.

## The proofs

TLAPS proves 36 theorems for every value of the constants under the named assumptions of
the modules (bounds are naturals; `Absent`, `Folder`, `NoClone` and the like are none of
the things they stand apart from; `NoSpan` is no span's id; a file has a non-empty path;
trees, contents, names and requests are such; a batch of chunks is finite; the graph
grows by relationships that are `Drawn`; import candidates are a function from files and
import strings to lists of paths; directories are a tree; syntax trees are such,
`IsTreeOf`). None of the proofs relies on a bound: `MaxSpans`, `MaxBuilds` or `MaxEdits`
may be as large as one likes.

| Module | Proved |
|---|---|
| `AgentWorkflow_proofs` | `TypeCorrect`, `LoopIsBounded`, `HonestReports`, `RejectionSettles`, `GateImplemented` |
| `Tracing_proofs` | `TypeCorrect`, `TraceStaysOpen`, `ContextIsRight`, `TracingIsInvisible`, `TraceFilesTrue` |
| `GraphBuilder_proofs` | `TypeCorrect`, `NoNodeIsCutOff`, `SnapshotsAreWritten`, `RebuildsConverge`, `GrowthImplemented` |
| `RepositoryIndex_proofs` | `TypeCorrect`, `RepositoriesSeparate`, `BatchesWhole`, `UntouchedFilesIndexed` |
| `Retrieval_proofs` | `TypeCorrect`, `ContextBounded`, `CitationsGrounded`, `RankingExact` |
| `RepositoryTools_proofs` | `TypeCorrect`, `CurrentAnswers`, `CleanEnds` |
| `Sandbox_proofs` | `TypeCorrect`, `LeftoversExplained`, `VerdictsImplemented` |
| `Pipeline_proofs`, of `GitHubIntegration` | `TypeCorrect`, `ExclusiveClones`, `DefaultLeftAlone`, `PublicationImplemented` |
| `Pipeline_proofs`, of `Parsing` | `ParsingTypeCorrect`, `DeclaredSymbolsRecorded`, `FilesAccountedFor` |

*Agent.* The inductive invariant `IInv` adds to the types, thread by thread, what holds
at each node: propose_change generates from a draft it has (`HasDraft`); whoever asks,
writes or verifies has a proposal (`HasProposal`); and the key, `Counted`, ties the
history to `fix_iteration`: at propose_change asked = writes = tests = `fix_iteration`,
and each stage of the loop is ahead by exactly one of them. The bound follows because
only `TestsFail` raises `fix_iteration` and only below `MaxFixIterations`. `BoundedLoop`
and `HonestVerdict` alone are not inductive: they do not say how far the counts may be
at each node. Refinement: `IInv` in both states, and for each action the action of
`ApprovalGate` it maps to.

*Tracing.* `IInv` says that a worker's stack nests call, node, provider (`Shape`), that
context and reset tokens are those of the spans around (`Nested`), that one worker
serves a conversation, and that an open conversation's trace is in memory.
`ContextIsRight` is `Nested`; the refinement of `AgentCalls` needs `Shape`, which ties
the outcome of a call to how far its stack is unwound. `TraceFilesTrue` needs the traces
in memory, which the files are copies of: while a call goes on, finished spans hang below
spans that are still open and not yet in the trace. `TreeInv` therefore places a finished
span below a finished or an open one of the right kind (`Grown`), lets no finished span
have the id of an open one, and says of the worker's call that it is the latest of its
conversation and has a paused node just if its caller is going to be asked (`Latest`).
When the last span closes, there is no open one left, and what remains is the property.

*Graph.* `IInv` adds to `NothingIsCutOff` that every writer has in the graph what all
statements before its next one write (`Progressing`), which survives other writers since
nothing is removed. After the eleventh statement that is `BuildIsComplete`. A lemma per
statement says that its links meet their ends (`Add...`) and another that it writes only
what the docstring's graph allows (`Sound...`); that graph is `Drawn`, on which
`Retrieval` relies. `AloneInv` adds the base-class names of
a build that runs alone, `FreshInv` that on an unedited tree all builders read the same
snapshot and nothing else is in the graph.

*Index.* Ids stay below the sequence, and whoever holds an id or has rows under one has
it for its own root (`Separate`). `UntouchedFilesIndexed` speaks of the files that nobody
touched since a call listed them. `Reads` says of these, in each pass over the listing
(`Progress`), that the tree still has what was listed (`CurrentIn`), and that the files
kept, their symbols and their chunks so far are what the listed content gives
(`SomeParsed`, `SomeCut`). `Numbered` ties the rows of the commit to the id of the call's
root. One lemma per pass carries `Reads` over the step, and one carries it over the steps
of everybody else, who can only add to what is touched.

*Retrieval.* `TypeInv` has that finitely many rows are stored, so that every ranking
ends, and that only a hybrid call expands seeds. `ContextBounded` follows from
`SourcesInv`, the sources being at most `FinalTopK` of the ranking, cut where
`build_context` stops, and from a lemma by which the running total of the code and the
sum of the property agree: the sections alone keep `max_chars` unless a first one exceeds
it, and the text that is sent exceeds that by two characters per separator.
`GroundedInv` follows each reason back to the read it comes from: hits passed the filter
and had a word of the question, seeds are candidates of such hits, a pending statement is
about a seed, what is remembered of a symbol relates it to a seed, and a chunk that was
fetched has that symbol. It survives what others store because nothing is taken away.
`CompleteInv` has the converse, as long as nothing is stored: each statement of each seed
is pending or `Settled` (all it can find is remembered, with a relationship that counts
as much), then every related chunk is among the hits. With `GroundedInv` that gives
each candidate exactly the score of the property (`GraphScores`). `merge_and_rank` is
proved to return each candidate once, with the best of its scores, and the top of the
order; the six relationships of the property and the statements of the code, which find
several relationships at once, are proved to be the same (`ExpansionIsAll`). The
recursive functions over sequences rest on an induction up to N about a *set* of numbers
(`Induction`), drawn from the well-foundedness of < on the naturals.

*Tools.* What a call may answer is what the tree held at some moment of the call. The
invariant has the history (`Watching`: all that the tree now holds has been seen), what a
look found (`OnPath`: it was seen during this call), `list_files` half way (`Listing`)
and which handler goes through which stages (`Handlers`); `CleanEnds` follows from the
latter.

*Sandbox.* `Known(c)` follows a zero answer back to a container that ended with zero,
and that to a copy that is whole and passes. The refinement takes the copy for the
sample of `TestVerdicts`: `ListDirectory` is `Miss` of the files it settles as missing,
`CopyFile` is `Read`, `RemoveWorkspace` is `Pass` or `NotPass`, every exception is
`NotPass`, and what Docker does with a container is a stutter. For this the invariant
follows the copy file by file: what is still to be copied is unread, and so are the
files below a directory that is still to be listed, no two of which share a file.
`LeftoversExplained` needs that a container which has ended is not started again, and
that a directory is made anew only by a start.

*GitHub.* `Access` has who has come how far and that one user at most is in a clone.
`Content` says that a user who has a branch is never on `Default`, that histories hold
only commits that exist, and that those of `Default`, remote or cloned, hold none of the
users'; it speaks of requests under way too, since the provider carries them out after
the caller may have given up. In the refinement `Send` is `Grant`, `Receive` is `Publish`
or `OpenPull`, and a push of others is `Others`.

*Parsing.* Of the extractors (`ExtractDescribes`), a lemma per language shows that its
searches give each class and each function once, and to each function the class around
it (`Describes`), from what `IsTreeOf` says of the tree; above all that a method which
is found class by class belongs to one class only, and that its class is the innermost
one around it (`OwnerOfMember`). Of the visitor, the invariant has where it is
(`Visiting`): `open` is the way from the module to the node at work, every node of it
enclosed by just those before it (`OnPath`); `class_stack` has the names of the classes
on that way, in order; and what is recorded is what the nodes before `next` declare
(`Recorded`). Without the path nothing would say whose name is on top of the stack, and
without the stack nothing to which class the next function goes. `OnPathLeaves` is the
case with the most in it: whoever leaves a node is back where its parent was entered,
because the next node's parent lies on the way. At the end of the module `Recorded` is
`Describes`. Of the service, `Results` has that what is in the three lists so far is
what the property says of the listing up to `position` (`Filed`), each parsed file being
described by a content that its path has held (`Declared`), each failure having a cause
(`Failing`). `Inputs` says that all contents ever held are among those assumed, so that
edits during the call do no harm. The lists of the properties are in document order;
`AscendsIsUnique`, that an ascending list is determined by its members, lets the proofs
speak of sets instead.

### What is only model-checked

Every safety property and every refinement that a run checks is proved. What is left:

- Liveness (`Responds`, `LoopEnds`, `CallsReturn`): out of the provers' reach, as is
  everything with `ENABLED`.
- That `NoChangesMeansNone` and `ClosuresAreNoMethods` are false: a counterexample is all
  there is to show.

## Disagreements between code and words

Two have a run that shows them:

- `AgentRejectedFix`: after a rejected fix attempt the response says "No changes were
  made" and `applied` is false, though the first change is on disk
  (`backend/agent/nodes.py:306`).
- `ParsingClosures`: a function inside a method is recorded as a method of the class,
  because the visitor looks at its stack of classes only
  (`backend/parsing/python_parser.py:66`), though the docstring says of functions inside
  functions `is_method=False` (10-12).

Met while modelling, without a run of their own:

Agent, tracing, retrieval:

- `backend/modification/service.py:79-85`: an edit between comparison and write is lost.
  `ApprovalGate` permits it, so nothing that is checked or proved excludes it; what is
  proved is that each write has a comparison between it and its approval.
- `backend/agent/nodes.py:405`: the deadline is read only after failed tests, so a fix
  approved after it is still applied.
- `backend/agent/nodes.py:105-106` passes the path as given to Neo4j, while
  `backend/graph/builder.py:46` stores the resolved one.
- `backend/hybrid/ranking.py:4-9` calls graph evidence capped below either direct
  signal; its weight is 0.3, that of keywords 0.2.
- `backend/rag/context.py:4-6` bounds the total by `max_chars`; a first section that is
  longer is taken all the same (39), and the two characters between any two sections
  (46) are not counted. `ContextIsBounded` counts them: it bounds the text by `max_chars`
  plus the separators.
- `backend/hybrid/graph_expansion.py:53-66`: the class of a method without siblings is
  not found.
- `backend/observability/tracer.py:119-128`: a recorder that fails leaves the stamped
  trace in memory; a `thread_id` that is used again overwrites its trace file.
- `backend/agent/service.py:60`: the trace of a call that raised is neither closed nor
  written, and takes the spans of the next run of its thread (by
  `docs/architecture.md:372` it closes when the thread has completed or failed).

Graph and index:

- `backend/graph/builder.py:269`: two folders that import their own `./util` share one
  Module node, so each seems to depend on the other's file (`graph/queries.py:36-37`).
- `backend/graph/builder.py:230`: a Go method in another file than its type has no
  relationship, and `find_symbol` does not find it.
- `backend/graph/builder.py:303`: an INHERITS relationship remains after its name has
  become ambiguous (14-15 promise one only for an unambiguous name). Nodes of what no
  longer exists are never removed (`builder.py:86`).
- `backend/graph/resolution.py:12-18`: a relative Python import is recorded without its
  level and resolved from the root of the repository.
- `backend/vectorstore/chunking.py:87`: `str.splitlines` ends lines where the parsers do
  not (a form feed, for one); below such a character every chunk has the wrong lines.
  `UntouchedFilesAreIndexed` speaks of contents on whose lines both agree (`LinesAgree`).
- `backend/vectorstore/store.py:52`: indexing again appends; the chunks of the previous
  call stay, and are found.
- `backend/github_integration/pipeline.py:52-57`: graph and index are built from
  separate scans.

Ingestion, parsing, tools:

- `backend/ingestion/filters.py:148,159`: patterns are case-sensitive, suffixes are
  lower-cased (181), so `X.PEM` is not sensitive.
- `backend/parsing/python_parser.py:94-101`: an expression of some hundreds of operands
  raises `RecursionError`, which aborts `parse_repository`; the Tree-sitter side records
  it (`treesitter_parser.py:33`: "must not abort the run").
- `backend/parsing/languages.py`: Tree-sitter puts an identifier of no characters where
  one is missing, and the extractors record it: a broken file may have a class with an
  empty name.
- `backend/parsing/languages.py:68`: the abstract classes and the interfaces of TypeScript
  are not found, nor their methods, though `models.py:38` counts an "interface, where the
  language has an equivalent" among the classes.
- `backend/parsing/languages.py`: JavaScript's heritage and C++'s base clause are taken
  from the first descendant, which may belong to a nested class (74, 297-302), and the
  `stop_types` meant against that (`ts_utils.py:28-35`) are never used; `static` is cut
  out of any Java import that contains the word (165); a mention of `struct Foo` without
  a body becomes a class, and a function that returns a reference is named `& f()`.
- `backend/tools/registry.py:4-7` says that every expected failure becomes a result: a
  missing root (`InvalidRepositoryPathError`), a file that vanishes between two looks, one
  that cannot be read (`OSError`), a path that cannot be resolved (`ValueError`, `OSError`),
  Python nested too deep, and errors of the stores leave as exceptions.
  `CallsEndCleanly` has the list.
- `backend/vectorstore/store.py:20-23`: when `register_vector` raises, without the
  extension for one, the connection is open and nobody closes it, because
  `backend/tools/search_tools.py:28` is before the `try`. It stays until it is garbage.

Sandbox and GitHub:

- `backend/sandbox/docker_runner.py:90`: when `docker run` itself fails (125, say), the
  answer is that of failed tests, where `base.py:24-25` has an exception for a sandbox
  that cannot be reached. So it is when the command dies, or loses the daemon, while the
  container runs: only `TimeoutExpired` leads to a kill, and the container goes on.
- `backend/sandbox/docker_runner.py:98-100`: a start that is under way when the command is
  killed may take effect after the kill, which then was refused in silence (`check=False`,
  157-162); the container runs without a deadline, on a directory that is gone and that the
  daemon makes anew. A container that is only created stays; `--rm` removes those that
  have run.
- `backend/sandbox/docker_runner.py:80`: a file that is moved while the tree is copied may be
  missing from the copy, or in it twice, without an error; the verdict is then about a
  tree that never was.
- `backend/sandbox/docker_runner.py:100`: the `TimeoutExpired` of `docker kill` escapes
  in place of the result, as does the exception of removing a directory that belongs to
  the container's user.
- `backend/github_integration/git_operations.py:69`: a killed clone, and a failed
  ingestion of a good one, leave the directory, and each retry is refused until it is
  removed by hand.
- `backend/github_integration/api_client.py:47`: reading a private repository without a
  token is a `GitHubAPIError`, not the `MissingCredentialsError` that names this case;
  `requests.Timeout` and `ConnectionError` are not turned into `GitHubAPIError`.
- `backend/github_integration/url_validation.py:71`: `repo.git.git` gives a name with
  `.git` (`models.py:19` says without); query and fragment are dropped in silence while
  `;params` are refused; owners that differ in case get two directories.

## What is not modelled

Left out of modules that exist:

- *Agent*: LangGraph itself; `execution_log`, which grows over runs of one thread;
  `resume` on a thread that does not wait, and two calls on one thread at once, which
  the service does not guard against and nobody makes; CRLF (both reads translate line
  ends, so comparison cannot see them); `BaseException`.
- *Tracing*: attributes, `record_event` (never called), exporters (none by default),
  recorders other than `JSONFileRecorder`.
- *Graph*: the counts of `GraphBuildResult`, all queries but those of `Retrieval`, how an
  import's candidates are spelled in each language (`Candidates` is a parameter). Removal is not
  modelled because there is none.
- *Ingestion*: the counts and warnings of `IngestionResult`. `discover_files` is one
  step.
- *Parsing*: parameters, line numbers (the index of a node stands for them) and qualified
  names, which are class and name; which tree Tree-sitter makes of a syntax error: a broken
  file may have any tree in preorder.
- *Index*: the provider's network client.
- *Retrieval*: prompt wording, the model's answer; the language filter behaves like that
  of chunk types. That `root_path` and `repository_id` of a hybrid call belong together
  is assumed.
- *Tools*: what search and the graph answer (`Retrieval` has the former); the wording of
  errors; tracing of calls (`Tracing`). A file that `list_files` cannot read counts as one
  that is not there, since both are passed over.
- *Sandbox*: which command is detected; output and its truncation; files under `.git`,
  which are not copied. Pulling an image is part of `docker run`. The content of a file is
  read at one moment.
- *GitHub*: several repositories (each has a directory of its own); merging and closing;
  identical requests: `requests` and the pull requests are sets, so what a retry repeats
  counts once;
  what the index and the graph do with a clone (`RepositoryIndex`, `GraphBuilder`).

Parts without a module: redaction, logging and exporters are string handling and an HTTP
client behind the recorder's fail-safe. API, config, evaluation, scripts and deployment
keep no state that two actors share: the evaluation runs one case after the other with
scripted models, and the API answers a health check.

## Plan

Done, in order of importance: the approval gate and the loop (what the agent may do to a
repository), tracing (what its users are told afterwards), the graph, the index,
retrieval over both, the sandbox, GitHub, parsing, ingestion's filters, the tools.

Left, the modules: how the candidates of an import come about in each language, as
operators against a reference definition, which instantiates `Candidates` of `CodeGraph`;
the other queries of the graph; redaction over sequences of tokens.

Left, the theorems: that `CommitChunks` of `Retrieval` is what `BatchesAreWhole` allows,
as a lemma in place of the words above.
