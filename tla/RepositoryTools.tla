--------------------------- MODULE RepositoryTools ---------------------------
(***************************************************************************)
(* The tools an agent can call through ToolRegistry.invoke: three of them  *)
(* look at a working tree, afresh at every call, one searches the store    *)
(* over a connection of its own, the others ask the graph or nobody.  A    *)
(* tool looks at a file several times, and others write, remove and create *)
(* files at any moment in between; any service, and the file system, may   *)
(* raise.                                                                  *)
(***************************************************************************)
EXTENDS FileFilters, SequencesExt

CONSTANTS
  File,      \* relative paths within the root
  Path,      \* Path[f]: what the filters see of the path f
  Outside,   \* a path that resolves to somewhere outside the root
  Content,   \* what a file may contain
  Absent,    \* nothing at that path
  Folder,    \* a directory at that path
  Trees,     \* the working trees there are at first
  Requests,  \* the calls that are made
  MaxEdits   \* bound: changes of the tree

\* long: more than a result may hold; deep: nested deeper than Python recurses.
ContentType ==
  [text : Seq(STRING), decodable : BOOLEAN, large : BOOLEAN, long : BOOLEAN, deep : BOOLEAN]

\* The tools by what they look at first, as build_default_registry knows them.
FirstLook ==
  [read_file |-> "resolve", analyze_code |-> "resolve", list_files |-> "list",
   search_code |-> "connect", search_symbol |-> "query", graph_query |-> "query",
   get_dependencies |-> "query", get_callers |-> "nowhere", get_callees |-> "nowhere"]

\* A call: the name of the tool; whether the input has the fields of its schema,
\* and those that its query needs; a path and a directory, where it has them.
Request ==
  [tool : STRING, valid : BOOLEAN, complete : BOOLEAN,
   path : File \cup {Outside}, directory : Seq(STRING)]

ASSUME PathAssumption == Path \in [File -> PathType] /\ Outside \notin File
ASSUME ContentAssumption == Content \subseteq ContentType /\ {Absent, Folder} \cap Content = {}
ASSUME TreesAssumption == Trees \subseteq [File -> Content \cup {Absent, Folder}]
ASSUME RequestsAssumption == Requests \subseteq Request /\ Requests # {}
ASSUME EditsAssumption == MaxEdits \in Nat

VARIABLES
  root,        \* there is a directory at the root path
  tree,        \* what is at each path
  edits,       \* changes so far
  call,        \* the call under way, or the last one
  stage,       \* what it looks at next: "idle" before the first, "ended" after each
  todo,        \* list_files: paths discovered and not yet looked at
  files,       \* list_files: those found relevant
  connection,  \* the connection to the store that the call has opened is open
  answer,      \* what the call has come to
  seen,        \* history: what was at each path while the call went on
  failed       \* history: where a service or the file system has raised in this call

vars == <<root, tree, edits, call, stage, todo, files, connection, answer, seen, failed>>
world == <<root, tree, edits>>
history == <<seen, failed>>
-----------------------------------------------------------------------------
(* Answers. *)

NoAnswer == [kind |-> "none", content |-> Absent, truncated |-> FALSE, files |-> {}]

\* ToolResult(success=False): the handler's ToolError, caught.
Error == [NoAnswer EXCEPT !.kind = "error"]

\* Anything that is no ToolError leaves invoke as an exception.
Raised == [NoAnswer EXCEPT !.kind = "raised"]

Data == [NoAnswer EXCEPT !.kind = "data"]

Over == stage \in {"idle", "ended"}

End(a) == answer' = a /\ stage' = "ended"

GoOn(next) == stage' = next /\ UNCHANGED answer
-----------------------------------------------------------------------------
(* ToolRegistry._invoke, up to the handler. *)

\* An unknown name, an input that its schema refuses, a query without what it
\* needs.
Refused(r) == r.tool \notin DOMAIN FirstLook \/ ~ r.valid \/ ~ r.complete

Invoke(r) ==
  /\ Over
  /\ call' = r
  /\ \/ Refused(r) /\ answer' = Error /\ stage' = "ended"
     \/ /\ ~ Refused(r)
        /\ FirstLook[r.tool] = "nowhere" /\ answer' = Data /\ stage' = "ended"
     \/ /\ ~ Refused(r)
        /\ FirstLook[r.tool] # "nowhere" /\ answer' = NoAnswer /\ stage' = FirstLook[r.tool]
  /\ seen' = [f \in File |-> {tree[f]}]
  /\ failed' = "nowhere"
  /\ connection' = FALSE
  /\ todo' = {} /\ files' = {}
  /\ UNCHANGED world
-----------------------------------------------------------------------------
(* read_file and analyze_code. *)

Here == tree[call.path]

ResolvePath ==
  /\ stage = "resolve"
  /\ IF call.path = Outside THEN End(Error)
     ELSE IF Here = Absent THEN End(Error) ELSE GoOn("is_file")
  /\ UNCHANGED <<world, call, todo, files, connection, history>>

CheckIsFile ==
  /\ stage = "is_file"
  /\ IF Here \in {Absent, Folder} THEN End(Error) ELSE GoOn("stat")
  /\ UNCHANGED <<world, call, todo, files, connection, history>>

Language(f) == detect_language(Path[f].suffix)

Analyzes == call.tool = "analyze_code"

\* Mutant: the size is left to the truncation of the answer.
reject_sensitive(f, v) == is_sensitive_filename(Path[f])

reject_sensitive_or_oversized(f, v) ==
  \/ is_sensitive_filename(Path[f])
  \/ v \notin {Absent, Folder} /\ v.large

\* stat raises where nothing is left, unless the name has settled it before.
StatFile ==
  /\ stage = "stat"
  /\ IF reject_sensitive_or_oversized(call.path, Here) THEN End(Error)
     ELSE IF Here = Absent THEN End(Raised)
     ELSE IF Analyzes /\ Language(call.path) \notin SUPPORTED_LANGUAGES THEN End(Error)
     ELSE GoOn("read")
  /\ UNCHANGED <<world, call, todo, files, connection, history>>

\* Tree-sitter takes bytes; the others want UTF-8.
AsText == Analyzes => Language(call.path) = "Python"

ReadFile ==
  /\ stage = "read"
  /\ IF Here \in {Absent, Folder} THEN End(Raised)
     ELSE IF AsText /\ ~ Here.decodable THEN End(Error)
     ELSE IF Analyzes /\ AsText /\ Here.deep THEN End(Raised)
     ELSE End([Data EXCEPT !.content = Here, !.truncated = ~ Analyzes /\ Here.long])
  /\ UNCHANGED <<world, call, todo, files, connection, history>>
-----------------------------------------------------------------------------
(* list_files. *)

\* InvalidRepositoryPathError is no ToolError.
ListRoot ==
  /\ stage = "list"
  /\ IF root THEN GoOn("classify") ELSE End(Raised)
  /\ todo' = {f \in File : tree[f] \notin {Absent, Folder} /\ discovered(Path[f])}
  /\ UNCHANGED <<world, call, files, connection, history>>

\* A file that is gone is an error of the scan, which the answer does not have.
\* A directory that has come in its place is taken for a small file, and where
\* the suffix is unknown it cannot be opened.
ClassifyFile(f) ==
  /\ stage = "classify"
  /\ f \in todo
  /\ todo' = todo \ {f}
  /\ files' =
       IF \/ tree[f] \in Content /\ classify_file(Path[f], tree[f])
          \/ /\ tree[f] = Folder /\ ~ ruled_out(Path[f])
             /\ Path[f].suffix \in KNOWN_TEXT_LIKELY_EXTENSIONS
       THEN files \cup {f} ELSE files
  /\ UNCHANGED <<world, call, stage, connection, answer, history>>

\* The directory asked for, or the file itself.
Under(f, r) == r.path = f \/ (r.path = Outside /\ IsPrefix(r.directory, Path[f].directories))

AnswerList ==
  /\ stage = "classify"
  /\ todo = {}
  /\ End([Data EXCEPT !.files = {f \in files : Under(f, call)}])
  /\ UNCHANGED <<world, call, todo, files, connection, history>>
-----------------------------------------------------------------------------
(* search_code and the tools of the graph. *)

\* Looks at the file system that may fail by themselves: a path that no file can
\* have (ValueError for a NUL, OSError for one too long), a directory that may not
\* be searched or a file that may not be read, a loop of links, a failing disk.
\* A sensitive name is refused without a look.
Disk ==
  \/ stage \in {"resolve", "is_file", "read", "list"}
  \/ stage = "stat" /\ ~ is_sensitive_filename(Path[call.path])

Service == stage \in {"connect", "register", "embed", "vector", "keyword", "query"}

\* What search_code does within its try block, whose finally closes the connection.
Tried == {"embed", "vector", "keyword"}

\* psycopg.Error, the provider's exceptions, those of the Neo4j driver and of the
\* file system are no ToolErrors.
StepRaises ==
  /\ Disk \/ Service
  /\ failed' = stage
  /\ End(Raised)

\* Mutant: the connection is closed at the end of the try block only.
RaiseOnly == StepRaises /\ UNCHANGED <<world, call, todo, files, connection, seen>>

\* register_vector raises within VectorStore.connect: the connection is open, and
\* the try block that would close it is not reached.
Raise ==
  /\ StepRaises
  /\ connection' = (connection /\ stage \notin Tried)
  /\ UNCHANGED <<world, call, todo, files, seen>>

AfterSearch == [register |-> "embed", embed |-> "vector", vector |-> "keyword"]

SearchStep ==
  /\ \/ stage = "connect" /\ connection' = TRUE /\ GoOn("register")
     \/ stage \in DOMAIN AfterSearch /\ GoOn(AfterSearch[stage]) /\ UNCHANGED connection
     \/ stage = "keyword" /\ connection' = FALSE /\ End(Data)
  /\ UNCHANGED <<world, call, todo, files, history>>

\* One read-only statement.
Query ==
  /\ stage = "query"
  /\ End(Data)
  /\ UNCHANGED <<world, call, todo, files, connection, history>>
-----------------------------------------------------------------------------
(* The others. *)

Remember(now) ==
  seen' = IF Over THEN seen ELSE [f \in File |-> seen[f] \cup {now[f]}]

Put(f, v) ==
  /\ root /\ edits < MaxEdits
  /\ tree[f] # v
  /\ tree' = [tree EXCEPT ![f] = v]
  /\ edits' = edits + 1
  /\ Remember(tree')
  /\ UNCHANGED <<root, call, stage, todo, files, connection, answer, failed>>

RemoveRoot ==
  /\ root /\ edits < MaxEdits
  /\ root' = FALSE
  /\ tree' = [f \in File |-> Absent]
  /\ edits' = edits + 1
  /\ Remember(tree')
  /\ UNCHANGED <<call, stage, todo, files, connection, answer, failed>>
-----------------------------------------------------------------------------
Init ==
  /\ root = TRUE
  /\ tree \in Trees
  /\ edits = 0
  /\ call = CHOOSE r \in Requests : TRUE
  /\ stage = "idle"
  /\ todo = {} /\ files = {}
  /\ connection = FALSE
  /\ answer = NoAnswer
  /\ seen = [f \in File |-> {tree[f]}]
  /\ failed = "nowhere"

CallStep ==
  \/ ResolvePath \/ CheckIsFile \/ StatFile \/ ReadFile
  \/ ListRoot \/ AnswerList
  \/ \E f \in File : ClassifyFile(f)
  \/ SearchStep \/ Query \/ Raise

Next ==
  \/ \E r \in Requests : Invoke(r)
  \/ CallStep
  \/ \E f \in File, v \in Content \cup {Absent, Folder} : Put(f, v)
  \/ RemoveRoot

Spec == Init /\ [][Next]_vars
-----------------------------------------------------------------------------
(* Properties. *)

Value == Content \cup {Absent, Folder}

\* The types of the variables: what is listed has a name that the filters let
\* pass, and only an answer with data has content or files.
TypeOK ==
  /\ root \in BOOLEAN /\ connection \in BOOLEAN
  /\ failed \in {"nowhere", "resolve", "is_file", "stat", "read", "list",
                 "connect", "register", "embed", "vector", "keyword", "query"}
  /\ tree \in [File -> Value]
  /\ seen \in [File -> SUBSET Value]
  /\ edits \in 0 .. MaxEdits
  /\ call \in Requests
  /\ stage \in {"idle", "ended", "resolve", "is_file", "stat", "read", "list", "classify",
                "connect", "register", "embed", "vector", "keyword", "query"}
  /\ todo \subseteq {f \in File : discovered(Path[f])}
  /\ files \subseteq {f \in File : discovered(Path[f]) /\ ~ ruled_out(Path[f])}
  /\ \/ answer.kind \in {"none", "error", "raised"} /\ answer = [NoAnswer EXCEPT !.kind = answer.kind]
     \/ /\ answer.kind = "data"
        /\ answer.content \in Content \cup {Absent}
        /\ answer.truncated \in BOOLEAN
        /\ answer.files \subseteq files

Undisturbed(f) == \A v, w \in seen[f] : v = w

\* "Scans the filesystem fresh on every call" (tools/file_tools.py:60) and "before
\* touching file content at all" (:19): an answer with content has what the file
\* held at a moment of this call, in full unless it says so, and never that of a
\* file whose name gives it away or that was too large all the while; an answer
\* with files has, of those that nobody changed during the call, exactly the
\* relevant ones below the directory asked for.
AnswersAreCurrent ==
  stage = "ended" /\ answer.kind = "data" =>
    /\ answer.content # Absent =>
         /\ answer.content \in seen[call.path]
         /\ answer.truncated => call.tool = "read_file" /\ answer.content.long
         /\ ~ is_sensitive_filename(Path[call.path])
         /\ \E v \in seen[call.path] \ {Absent} : v = Folder \/ ~ v.large
    /\ call.tool = "list_files" =>
         \A f \in File : Undisturbed(f) =>
           (f \in answer.files <=>
              \E v \in seen[f] \cap Content :
                discovered(Path[f]) /\ classify_file(Path[f], v) /\ Under(f, call))

\* How far the code is from "every expected failure ... turned into a structured
\* ToolResult rather than an uncaught exception" (tools/registry.py:4-7), which it
\* does not keep: a call leaves its connection open only if register_vector
\* raised, and an exception leaves it only if a service or the file system raised,
\* the root is gone (InvalidRepositoryPathError is no ToolError), the file was
\* changed during the call, or it is Python nested too deep to be parsed.
CallsEndCleanly ==
  stage = "ended" =>
    /\ connection => failed = "register"
    /\ answer.kind = "raised" =>
         \/ failed # "nowhere"
         \/ call.tool = "list_files" /\ ~ root
         \/ /\ call.tool \in {"read_file", "analyze_code"}
            /\ \/ ~ Undisturbed(call.path)
               \/ /\ call.tool = "analyze_code" /\ Language(call.path) = "Python"
                  /\ \E v \in seen[call.path] \cap Content : v.deep
=============================================================================
