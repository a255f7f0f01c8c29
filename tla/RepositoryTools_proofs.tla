------------------------ MODULE RepositoryTools_proofs ------------------------
(***************************************************************************)
(* Proofs about RepositoryTools, for any tree, contents, requests and      *)
(* number of edits.                                                        *)
(***************************************************************************)
EXTENDS RepositoryTools, TLAPS

Stage ==
  {"idle", "ended", "resolve", "is_file", "stat", "read", "list", "classify",
   "connect", "register", "embed", "vector", "keyword", "query"}

\* Where a service or the file system may raise.
Where ==
  {"nowhere", "resolve", "is_file", "stat", "read", "list",
   "connect", "register", "embed", "vector", "keyword", "query"}

LookAtPath == {"resolve", "is_file", "stat", "read"}
LookAtTree == {"list", "classify"}
LookAtStores == {"connect", "register", "embed", "vector", "keyword", "query"}

\* The three ends that TypeOK knows for an answer.
AnswerType(a, found) ==
  \/ a.kind \in {"none", "error", "raised"} /\ a = [NoAnswer EXCEPT !.kind = a.kind]
  \/ /\ a.kind = "data"
     /\ a.content \in Content \cup {Absent}
     /\ a.truncated \in BOOLEAN
     /\ a.files \subseteq found

LEMMA PlainAnswers ==
  ASSUME NEW found
  PROVE  /\ AnswerType(NoAnswer, found) /\ AnswerType(Error, found)
         /\ AnswerType(Raised, found) /\ AnswerType(Data, found)
BY DEF AnswerType, NoAnswer, Error, Raised, Data

LEMMA AnswersGrow ==
  ASSUME NEW a, NEW found, NEW more, AnswerType(a, found), found \subseteq more
  PROVE  AnswerType(a, more)
BY DEF AnswerType

LEMMA Types ==
  TypeOK <=>
    /\ root \in BOOLEAN /\ connection \in BOOLEAN /\ failed \in Where
    /\ tree \in [File -> Value]
    /\ seen \in [File -> SUBSET Value]
    /\ edits \in 0 .. MaxEdits
    /\ call \in Requests
    /\ stage \in Stage
    /\ todo \subseteq {f \in File : discovered(Path[f])}
    /\ files \subseteq {f \in File : discovered(Path[f]) /\ ~ ruled_out(Path[f])}
    /\ AnswerType(answer, files)
BY DEF TypeOK, Stage, Where, AnswerType

LEMMA TypesNext ==
  ASSUME root' \in BOOLEAN, connection' \in BOOLEAN, failed' \in Where,
         tree' \in [File -> Value],
         seen' \in [File -> SUBSET Value],
         edits' \in 0 .. MaxEdits,
         call' \in Requests,
         stage' \in Stage,
         todo' \subseteq {f \in File : discovered(Path[f])},
         files' \subseteq {f \in File : discovered(Path[f]) /\ ~ ruled_out(Path[f])},
         AnswerType(answer', files')
  PROVE  TypeOK'
BY DEF TypeOK, Stage, Where, AnswerType

\* A handler that looks at the tree or the stores once more, or ends.
LEMMA LookKeepsTypes ==
  ASSUME TypeOK, UNCHANGED <<world, call, seen>>,
         stage' \in Stage, connection' \in BOOLEAN, failed' \in Where,
         todo' \subseteq {f \in File : discovered(Path[f])},
         files' \subseteq {f \in File : discovered(Path[f]) /\ ~ ruled_out(Path[f])},
         AnswerType(answer', files')
  PROVE  TypeOK'
BY Types, TypesNext DEF world

LEMMA TypeInit == Init => TypeOK
<1> SUFFICES ASSUME Init PROVE TypeOK
  OBVIOUS
<1>1. tree \in [File -> Value]
  BY TreesAssumption DEF Init, Value
<1>2. call \in Requests
  BY RequestsAssumption DEF Init
<1>3. AnswerType(answer, files)
  BY PlainAnswers DEF Init
<1>4. seen \in [File -> SUBSET Value]
  BY <1>1 DEF Init
<1>5. edits \in 0 .. MaxEdits /\ stage \in Stage /\ failed \in Where
  BY EditsAssumption DEF Init, Stage, Where
<1> QED
  BY <1>1, <1>2, <1>3, <1>4, <1>5, Types DEF Init

LEMMA TypeInvoke ==
  ASSUME TypeOK, NEW r \in Requests, Invoke(r)
  PROVE  TypeOK'
<1>1. AnswerType(answer', files')
  BY PlainAnswers DEF Invoke
<1>2. stage' \in Stage
  BY DEF Invoke, FirstLook, Refused, Stage
<1>3. seen' \in [File -> SUBSET Value] /\ failed' \in Where
  BY Types DEF Invoke, Where
<1> QED
  BY <1>1, <1>2, <1>3, Types, TypesNext DEF Invoke, world

\* What read_file may end with.
LEMMA ReadAnswer ==
  ASSUME TypeOK, call.path \in File, Here \notin {Absent, Folder}
  PROVE  AnswerType([Data EXCEPT !.content = Here, !.truncated = ~ Analyzes /\ Here.long], files)
<1>1. Here \in Content
  BY Types DEF Here, Value
<1>2. (~ Analyzes /\ Here.long) \in BOOLEAN
  OBVIOUS
<1> QED
  BY <1>1, <1>2 DEF AnswerType, Data, NoAnswer

\* A path that has passed ResolvePath is one of the tree.
PathIsInside == stage \in {"is_file", "stat", "read"} => call.path \in File

\* Each step of a handler keeps the types.
LEMMA TypeCall ==
  ASSUME TypeOK, PathIsInside, CallStep
  PROVE  TypeOK'
<1>1. CASE ResolvePath
  <2>1. stage' \in Stage /\ AnswerType(answer', files')
    BY <1>1, PlainAnswers, Types DEF ResolvePath, End, GoOn, Stage
  <2> QED
    BY <1>1, <2>1, Types, LookKeepsTypes DEF ResolvePath, history
<1>2. CASE CheckIsFile
  <2>1. stage' \in Stage /\ AnswerType(answer', files')
    BY <1>2, PlainAnswers, Types DEF CheckIsFile, End, GoOn, Stage
  <2> QED
    BY <1>2, <2>1, Types, LookKeepsTypes DEF CheckIsFile, history
<1>3. CASE StatFile
  <2>1. stage' \in Stage /\ AnswerType(answer', files')
    BY <1>3, PlainAnswers, Types DEF StatFile, End, GoOn, Stage
  <2> QED
    BY <1>3, <2>1, Types, LookKeepsTypes DEF StatFile, history
<1>4. CASE ReadFile
  <2>1. call.path \in File
    BY <1>4 DEF PathIsInside, ReadFile
  <2>2. stage' \in Stage /\ AnswerType(answer', files')
    BY <1>4, <2>1, PlainAnswers, ReadAnswer, Types DEF ReadFile, End, Stage
  <2> QED
    BY <1>4, <2>2, Types, LookKeepsTypes DEF ReadFile, history
<1>5. CASE ListRoot
  <2>1. stage' \in Stage /\ AnswerType(answer', files')
    BY <1>5, PlainAnswers, Types DEF ListRoot, End, GoOn, Stage
  <2> QED
    BY <1>5, <2>1, Types, LookKeepsTypes DEF ListRoot, history
<1>6. ASSUME NEW f \in File, ClassifyFile(f)
      PROVE  TypeOK'
  <2>1. f \in todo
    BY <1>6 DEF ClassifyFile
  <2>2. files \subseteq files'
    BY <1>6 DEF ClassifyFile
  <2>3. files' \subseteq {g \in File : discovered(Path[g]) /\ ~ ruled_out(Path[g])}
    <3>1. discovered(Path[f])
      BY <2>1, Types
    <3>2. files' = files \/ (files' = files \cup {f} /\ ~ ruled_out(Path[f]))
      BY <1>6 DEF ClassifyFile, classify_file
    <3> QED
      BY <3>1, <3>2, Types
  <2>4. AnswerType(answer', files')
    BY <1>6, <2>2, Types, AnswersGrow DEF ClassifyFile
  <2> QED
    BY <1>6, <2>3, <2>4, Types, LookKeepsTypes DEF ClassifyFile, history
<1>7. CASE AnswerList
  <2>1. AnswerType([Data EXCEPT !.files = {f \in files : Under(f, call)}], files)
    BY DEF AnswerType, Data, NoAnswer
  <2>2. stage' \in Stage /\ AnswerType(answer', files')
    BY <1>7, <2>1 DEF AnswerList, End, Stage
  <2> QED
    BY <1>7, <2>2, Types, LookKeepsTypes DEF AnswerList, history
<1>8. CASE SearchStep
  <2>1. CASE stage = "connect" /\ connection' = TRUE /\ GoOn("register")
    BY <1>8, <2>1, Types, LookKeepsTypes DEF SearchStep, GoOn, Stage, history
  <2>2. CASE stage \in DOMAIN AfterSearch /\ GoOn(AfterSearch[stage]) /\ UNCHANGED connection
    <3>1. stage' \in Stage
      BY <2>2 DEF GoOn, AfterSearch, Stage
    <3> QED
      BY <1>8, <2>2, <3>1, Types, LookKeepsTypes DEF SearchStep, GoOn, history
  <2>3. CASE connection' = FALSE /\ End(Data)
    BY <1>8, <2>3, PlainAnswers, Types, LookKeepsTypes DEF SearchStep, End, Stage, history
  <2> QED
    BY <1>8, <2>1, <2>2, <2>3 DEF SearchStep
<1>9. CASE Query
  <2>1. stage' \in Stage /\ AnswerType(answer', files')
    BY <1>9, PlainAnswers DEF Query, End, Stage
  <2> QED
    BY <1>9, <2>1, Types, LookKeepsTypes DEF Query, history
<1>10. CASE Raise
  <2>1. stage' \in Stage /\ AnswerType(answer', files') /\ UNCHANGED files
    BY <1>10, PlainAnswers DEF Raise, StepRaises, End, Stage
  <2>2. failed' \in Where
    BY <1>10 DEF Raise, StepRaises, Disk, Service, Where
  <2>3. connection' \in BOOLEAN
    BY <1>10 DEF Raise
  <2> QED
    BY <1>10, <2>1, <2>2, <2>3, Types, LookKeepsTypes DEF Raise
<1> QED
  BY <1>1, <1>2, <1>3, <1>4, <1>5, <1>6, <1>7, <1>8, <1>9, <1>10 DEF CallStep

\* So do the changes of the tree.
LEMMA TypeEdit ==
  ASSUME TypeOK,
         RemoveRoot \/ \E f \in File, v \in Value : Put(f, v)
  PROVE  TypeOK'
<1>1. edits' \in 0 .. MaxEdits /\ root' \in BOOLEAN
  <2>1. edits < MaxEdits /\ edits' = edits + 1 /\ (root' = root \/ root' = FALSE)
    <3>1. CASE RemoveRoot
      BY <3>1 DEF RemoveRoot
    <3>2. CASE \E f \in File, v \in Value : Put(f, v)
      BY <3>2 DEF Put
    <3> QED
      BY <3>1, <3>2
  <2>2. edits \in 0 .. MaxEdits /\ root \in BOOLEAN
    BY Types
  <2>3. edits' \in 0 .. MaxEdits
    BY <2>1, <2>2, EditsAssumption
  <2>4. root' \in BOOLEAN
    BY <2>1, <2>2
  <2> QED
    BY <2>3, <2>4
<1>2. tree' \in [File -> Value]
  <2>1. CASE RemoveRoot
    BY <2>1 DEF RemoveRoot, Value
  <2>2. ASSUME NEW f \in File, NEW v \in Value, Put(f, v)
        PROVE  tree' \in [File -> Value]
    BY <2>2, Types DEF Put
  <2> QED
    BY <2>1, <2>2
<1>3. seen' \in [File -> SUBSET Value]
  BY <1>2, Types DEF RemoveRoot, Put, Remember
<1> QED
  BY <1>1, <1>2, <1>3, Types, TypesNext DEF RemoveRoot, Put

LEMMA TypeNext ==
  ASSUME TypeOK, PathIsInside, [Next]_vars
  PROVE  TypeOK'
<1>1. CASE UNCHANGED vars
  BY <1>1, Types, TypesNext DEF vars
<1>2. CASE Next
  BY <1>2, TypeInvoke, TypeCall, TypeEdit DEF Next, Value
<1> QED
  BY <1>1, <1>2
-----------------------------------------------------------------------------
(* What a handler knows at each of its looks. *)

\* Tools by their looks, and the connection that search_code holds.
Handlers ==
  /\ stage \in LookAtPath => call.tool \in {"read_file", "analyze_code"}
  /\ stage \in LookAtTree => call.tool = "list_files"
  /\ stage \in LookAtStores => call.tool \notin {"read_file", "analyze_code", "list_files"}
  /\ connection => stage \in {"register", "embed", "vector", "keyword", "ended"}

\* History keeps up with the tree.
Watching == ~ Over => \A f \in File : tree[f] \in seen[f]

\* What a look at a path has found, it has found during the call.
OnPath ==
  /\ PathIsInside
  /\ stage \in {"stat", "read"} => \E v \in seen[call.path] : v \in Content
  /\ stage = "read" =>
       /\ ~ is_sensitive_filename(Path[call.path])
       /\ \E v \in seen[call.path] \ {Absent} : v = Folder \/ ~ v.large

Relevant(f, v) == v \in Content /\ discovered(Path[f]) /\ classify_file(Path[f], v)

\* list_files half way: what is still to be looked at was a file of the tree, and
\* of the others, those that nobody touches are taken rightly.
Listing ==
  /\ stage = "list" => files = {}
  /\ stage = "classify" =>
       /\ files \cap todo = {}
       /\ \A f \in todo : \E v \in seen[f] : v \in Content
       /\ \A f \in File \ todo : Undisturbed(f) => (f \in files <=> Relevant(f, tree[f]))

IInv ==
  /\ TypeOK /\ Handlers /\ Watching /\ OnPath /\ Listing
  /\ AnswersAreCurrent /\ CallsEndCleanly

\* What an answer of a handler must fulfil for the two properties.
Ended(a) ==
  /\ a.kind = "data" =>
       /\ a.content # Absent =>
            /\ a.content \in seen[call.path]
            /\ a.truncated => call.tool = "read_file" /\ a.content.long
            /\ ~ is_sensitive_filename(Path[call.path])
            /\ \E v \in seen[call.path] \ {Absent} : v = Folder \/ ~ v.large
       /\ call.tool = "list_files" =>
            \A f \in File : Undisturbed(f) =>
              (f \in a.files <=> \E v \in seen[f] : Relevant(f, v) /\ Under(f, call))
  /\ a.kind = "raised" =>
       \/ call.tool = "list_files" /\ ~ root
       \/ /\ call.tool \in {"read_file", "analyze_code"}
          /\ \/ ~ Undisturbed(call.path)
             \/ /\ call.tool = "analyze_code" /\ Language(call.path) = "Python"
                /\ \E v \in seen[call.path] \cap Content : v.deep

\* A handler that ends with such an answer leaves both properties true.
LEMMA EndsWell ==
  ASSUME Ended(answer'), stage' = "ended", ~ connection',
         UNCHANGED <<world, call, seen>>
  PROVE  AnswersAreCurrent' /\ CallsEndCleanly'
BY DEF Ended, AnswersAreCurrent, CallsEndCleanly, Undisturbed, Relevant, world

\* An error says nothing, and promises nothing.
LEMMA ErrorsEndWell == Ended(Error)
BY DEF Ended, Error, NoAnswer
-----------------------------------------------------------------------------
(* Each step keeps what the handlers know. *)

LEMMA InvInit == Init => IInv
<1> SUFFICES ASSUME Init PROVE IInv
  OBVIOUS
<1>1. TypeOK
  BY TypeInit
<1>2. Handlers /\ Watching /\ OnPath /\ Listing /\ AnswersAreCurrent /\ CallsEndCleanly
  BY DEF Init, Handlers, Watching, OnPath, PathIsInside, Listing, AnswersAreCurrent,
         CallsEndCleanly, Over, LookAtPath, LookAtTree, LookAtStores
<1> QED
  BY <1>1, <1>2 DEF IInv

\* The first look of a tool is one of its own kind.
LEMMA FirstLooks ==
  ASSUME NEW r, r.tool \in DOMAIN FirstLook
  PROVE  /\ r.tool \in {"read_file", "analyze_code"} => FirstLook[r.tool] = "resolve"
         /\ r.tool = "list_files" => FirstLook[r.tool] = "list"
         /\ r.tool \notin {"read_file", "analyze_code", "list_files"} =>
              FirstLook[r.tool] \in {"connect", "query", "nowhere"}
BY DEF FirstLook

LEMMA InvInvoke ==
  ASSUME IInv, NEW r \in Requests, Invoke(r)
  PROVE  IInv'
<1>1. TypeOK'
  BY TypeInvoke DEF IInv
<1>2. /\ call' = r /\ seen' = [f \in File |-> {tree[f]}] /\ tree' = tree
      /\ files' = {} /\ connection' = FALSE
  BY DEF Invoke, world
<1>3. ~ connection'
  BY <1>2
<1>4. Watching'
  BY <1>2 DEF Watching
<1>5. CASE stage' = "ended" /\ (answer' = Error \/ (answer' = Data /\ call'.tool # "list_files"))
  BY <1>1, <1>2, <1>3, <1>4, <1>5
     DEF IInv, Handlers, OnPath, PathIsInside, Listing, AnswersAreCurrent, CallsEndCleanly,
         LookAtPath, LookAtTree, LookAtStores, Error, Data, NoAnswer
<1>6. CASE ~ Refused(r) /\ FirstLook[r.tool] # "nowhere" /\ stage' = FirstLook[r.tool]
  <2>1. r.tool \in DOMAIN FirstLook
    BY <1>6 DEF Refused
  <2>2. stage' \in {"resolve", "list", "connect", "query"}
    BY <1>6, <2>1, FirstLooks
  <2>3. Handlers'
    BY <1>2, <1>3, <1>6, <2>1, <2>2, FirstLooks
       DEF Handlers, LookAtPath, LookAtTree, LookAtStores
  <2> QED
    BY <1>1, <1>2, <1>4, <2>2, <2>3
       DEF IInv, OnPath, PathIsInside, Listing, AnswersAreCurrent, CallsEndCleanly
<1> QED
  BY <1>2, <1>5, <1>6, FirstLooks DEF Invoke, Refused

\* A handler that ends.
LEMMA InvEnd ==
  ASSUME IInv, TypeOK', Ended(answer'), stage' = "ended", ~ connection',
         UNCHANGED <<world, call, seen>>
  PROVE  IInv'
<1>1. AnswersAreCurrent' /\ CallsEndCleanly'
  BY EndsWell
<1>2. Handlers' /\ Watching' /\ OnPath' /\ Listing'
  BY DEF Handlers, Watching, OnPath, PathIsInside, Listing, Over, LookAtPath, LookAtTree,
         LookAtStores
<1> QED
  BY <1>1, <1>2 DEF IInv

\* A handler that goes on to another look at its path.
LEMMA InvGoOn ==
  ASSUME IInv, TypeOK', stage \in LookAtPath, stage' \in LookAtPath, OnPath',
         UNCHANGED <<world, call, connection, seen>>
  PROVE  IInv'
<1>1. Handlers' /\ Watching' /\ Listing'
  BY DEF IInv, Handlers, Watching, Listing, Over, LookAtPath, LookAtTree, LookAtStores, world
<1>2. AnswersAreCurrent' /\ CallsEndCleanly'
  BY DEF AnswersAreCurrent, CallsEndCleanly, LookAtPath
<1> QED
  BY <1>1, <1>2 DEF IInv

LEMMA InvResolvePath ==
  ASSUME IInv, TypeOK', ResolvePath
  PROVE  IInv'
<1>1. call.path \in File \cup {Outside}
  BY Types, RequestsAssumption DEF IInv, Request
<1>2. ~ connection /\ UNCHANGED <<world, call, connection, seen>>
  BY DEF ResolvePath, history, IInv, Handlers
<1>3. CASE answer' = Error /\ stage' = "ended"
  BY <1>2, <1>3, ErrorsEndWell, InvEnd
<1>4. CASE stage' = "is_file" /\ call.path # Outside
  BY <1>1, <1>2, <1>4, InvGoOn DEF ResolvePath, OnPath, PathIsInside, LookAtPath
<1> QED
  BY <1>3, <1>4 DEF ResolvePath, End, GoOn

LEMMA InvCheckIsFile ==
  ASSUME IInv, TypeOK', CheckIsFile
  PROVE  IInv'
<1>1. call.path \in File /\ tree[call.path] \in seen[call.path]
  BY DEF CheckIsFile, IInv, OnPath, PathIsInside, Watching, Over
<1>2. ~ connection /\ UNCHANGED <<world, call, connection, seen>>
  BY DEF CheckIsFile, history, IInv, Handlers
<1>3. CASE answer' = Error /\ stage' = "ended"
  BY <1>2, <1>3, ErrorsEndWell, InvEnd
<1>4. CASE stage' = "stat" /\ Here \notin {Absent, Folder}
  <2>1. tree[call.path] \in Content
    BY <1>1, <1>4, Types DEF Here, Value, IInv
  <2> QED
    BY <1>1, <1>2, <1>4, <2>1, InvGoOn DEF CheckIsFile, OnPath, PathIsInside, LookAtPath
<1> QED
  BY <1>3, <1>4 DEF CheckIsFile, End, GoOn

\* What has been a content and is none has been changed.
LEMMA Gone ==
  ASSUME IInv, stage \in {"stat", "read"}, Here \in {Absent, Folder}
  PROVE  ~ Undisturbed(call.path)
<1>1. Here \in seen[call.path]
  BY DEF Here, IInv, Watching, Over, OnPath, PathIsInside
<1>2. PICK v \in seen[call.path] : v \in Content
  BY DEF IInv, OnPath
<1>3. v # Here
  BY <1>2, ContentAssumption
<1> QED
  BY <1>1, <1>2, <1>3 DEF Undisturbed

LEMMA InvStatFile ==
  ASSUME IInv, TypeOK', StatFile
  PROVE  IInv'
<1>1. call.path \in File /\ tree[call.path] \in seen[call.path]
  BY DEF StatFile, IInv, OnPath, PathIsInside, Watching, Over
<1>2. /\ ~ connection /\ UNCHANGED <<world, call, connection, seen>>
      /\ call.tool \in {"read_file", "analyze_code"}
  BY DEF StatFile, history, IInv, Handlers, LookAtPath
<1>3. CASE answer' = Error /\ stage' = "ended"
  BY <1>2, <1>3, ErrorsEndWell, InvEnd
<1>4. CASE answer' = Raised /\ stage' = "ended" /\ Here = Absent
  <2>1. Ended(Raised)
    BY <1>2, <1>4, Gone DEF StatFile, Ended, Raised, NoAnswer
  <2> QED
    BY <1>2, <1>4, <2>1, InvEnd
<1>5. CASE /\ stage' = "read" /\ Here # Absent
           /\ ~ reject_sensitive_or_oversized(call.path, Here)
  <2>1. tree[call.path] = Folder \/ ~ tree[call.path].large
    BY <1>5 DEF Here, reject_sensitive_or_oversized
  <2>2. OnPath'
    BY <1>1, <1>2, <1>5, <2>1
       DEF StatFile, OnPath, PathIsInside, IInv, Here, reject_sensitive_or_oversized
  <2> QED
    BY <1>2, <1>5, <2>2, InvGoOn DEF StatFile, LookAtPath
<1> QED
  BY <1>3, <1>4, <1>5 DEF StatFile, End, GoOn

LEMMA InvReadFile ==
  ASSUME IInv, TypeOK', ReadFile
  PROVE  IInv'
<1>1. call.path \in File /\ Here \in seen[call.path]
  BY DEF ReadFile, IInv, OnPath, PathIsInside, Watching, Over, Here
<1>2. /\ ~ connection /\ UNCHANGED <<world, call, connection, seen>>
      /\ call.tool \in {"read_file", "analyze_code"}
  BY DEF ReadFile, history, IInv, Handlers, LookAtPath
<1>3. CASE answer' = Error /\ stage' = "ended"
  BY <1>2, <1>3, ErrorsEndWell, InvEnd
<1>4. CASE answer' = Raised /\ stage' = "ended" /\ Here \in {Absent, Folder}
  <2>1. Ended(Raised)
    BY <1>2, <1>4, Gone DEF ReadFile, Ended, Raised, NoAnswer
  <2> QED
    BY <1>2, <1>4, <2>1, InvEnd
<1>5. Here \in Content \cup {Absent, Folder}
  BY <1>1, Types DEF IInv, Here, Value
<1>6. CASE /\ answer' = Raised /\ stage' = "ended" /\ Here \notin {Absent, Folder}
           /\ Analyzes /\ AsText /\ Here.deep
  <2>1. call.tool = "analyze_code" /\ Language(call.path) = "Python"
    BY <1>6 DEF Analyzes, AsText
  <2>2. Ended(Raised)
    BY <1>1, <1>5, <1>6, <2>1 DEF Ended, Raised, NoAnswer
  <2> QED
    BY <1>2, <1>6, <2>2, InvEnd
<1>7. CASE /\ answer' = [Data EXCEPT !.content = Here, !.truncated = ~ Analyzes /\ Here.long]
           /\ stage' = "ended"
  <2>1. /\ answer'.kind = "data" /\ answer'.content = Here
        /\ answer'.truncated => ~ Analyzes /\ Here.long
    BY <1>7 DEF Data, NoAnswer
  <2>2. answer'.truncated => call.tool = "read_file"
    BY <1>2, <2>1 DEF Analyzes
  <2>3. Ended(answer')
    BY <1>1, <1>2, <2>1, <2>2 DEF ReadFile, Ended, IInv, OnPath
  <2> QED
    BY <1>2, <1>7, <2>3, InvEnd
<1> QED
  BY <1>3, <1>4, <1>6, <1>7 DEF ReadFile, End

LEMMA InvListRoot ==
  ASSUME IInv, TypeOK', ListRoot
  PROVE  IInv'
<1>1. /\ ~ connection /\ UNCHANGED <<world, call, files, connection, seen>>
      /\ call.tool = "list_files" /\ files = {}
  BY DEF ListRoot, history, IInv, Handlers, Listing, LookAtTree
<1>2. CASE answer' = Raised /\ stage' = "ended" /\ ~ root
  <2>1. Ended(Raised)
    BY <1>1, <1>2 DEF Ended, Raised, NoAnswer
  <2> QED
    BY <1>1, <1>2, <2>1, InvEnd
<1>3. CASE stage' = "classify"
  <2>1. \A f \in todo' : tree[f] \in Content /\ tree[f] \in seen[f]
    BY Types DEF ListRoot, IInv, Watching, Over, Value
  <2>2. \A f \in File \ todo' : ~ Relevant(f, tree[f])
    BY ContentAssumption DEF ListRoot, Relevant
  <2>3. Listing'
    BY <1>1, <1>3, <2>1, <2>2 DEF Listing, world
  <2>4. Handlers' /\ Watching' /\ OnPath'
    BY <1>1, <1>3
       DEF IInv, Handlers, Watching, OnPath, PathIsInside, Over, LookAtPath, LookAtTree,
           LookAtStores, world, ListRoot
  <2> QED
    BY <1>3, <2>3, <2>4 DEF IInv, AnswersAreCurrent, CallsEndCleanly
<1> QED
  BY <1>2, <1>3 DEF ListRoot, End, GoOn

LEMMA InvClassifyFile ==
  ASSUME IInv, TypeOK', NEW f \in File, ClassifyFile(f)
  PROVE  IInv'
<1>1. /\ stage = "classify" /\ stage' = stage /\ f \in todo /\ todo' = todo \ {f}
      /\ UNCHANGED <<world, call, connection, seen>>
  BY DEF ClassifyFile, history
<1>2. tree[f] \in seen[f] /\ f \notin files /\ discovered(Path[f])
  BY <1>1, Types DEF IInv, Watching, Over, Listing
<1>3. files' = files \/ files' = files \cup {f}
  BY DEF ClassifyFile
<1>4. Undisturbed(f) => tree[f] \in Content
  BY <1>1, <1>2 DEF IInv, Listing, Undisturbed
<1>5. Undisturbed(f) => (f \in files' <=> Relevant(f, tree[f]))
  BY <1>2, <1>4, ContentAssumption DEF ClassifyFile, Relevant
<1>6. Listing'
  BY <1>1, <1>3, <1>5 DEF IInv, Listing, world, Undisturbed
<1>7. Handlers' /\ Watching' /\ OnPath'
  BY <1>1 DEF IInv, Handlers, Watching, OnPath, PathIsInside, Over, world
<1> QED
  BY <1>1, <1>6, <1>7 DEF IInv, AnswersAreCurrent, CallsEndCleanly

LEMMA InvAnswerList ==
  ASSUME IInv, TypeOK', AnswerList
  PROVE  IInv'
<1>1. /\ ~ connection /\ UNCHANGED <<world, call, connection, seen>>
      /\ stage' = "ended"
  BY DEF AnswerList, End, history, IInv, Handlers
<1>2. /\ answer'.kind = "data" /\ answer'.content = Absent
      /\ answer'.files = {f \in files : Under(f, call)}
  BY DEF AnswerList, End, Data, NoAnswer
<1>3. ASSUME NEW f \in File, Undisturbed(f)
      PROVE  f \in answer'.files <=> \E v \in seen[f] : Relevant(f, v) /\ Under(f, call)
  <2>1. \A v \in seen[f] : v = tree[f]
    BY <1>3 DEF AnswerList, IInv, Watching, Over, Undisturbed
  <2>2. tree[f] \in seen[f]
    BY DEF AnswerList, IInv, Watching, Over
  <2>3. f \in files <=> Relevant(f, tree[f])
    BY <1>3 DEF AnswerList, IInv, Listing
  <2> QED
    BY <1>2, <2>1, <2>2, <2>3
<1>4. Ended(answer')
  BY <1>2, <1>3 DEF Ended
<1> QED
  BY <1>1, <1>4, InvEnd

\* A step among the stores that does not end.
LEMMA InvStores ==
  ASSUME IInv, TypeOK', stage \in LookAtStores, stage' \in LookAtStores,
         connection' => stage' \in {"register", "embed", "vector", "keyword"},
         UNCHANGED <<world, call, seen>>
  PROVE  IInv'
<1>1. Handlers' /\ Watching' /\ OnPath' /\ Listing'
  BY DEF IInv, Handlers, Watching, OnPath, PathIsInside, Listing, Over, LookAtPath,
         LookAtTree, LookAtStores, world
<1>2. AnswersAreCurrent' /\ CallsEndCleanly'
  BY DEF AnswersAreCurrent, CallsEndCleanly, LookAtStores
<1> QED
  BY <1>1, <1>2 DEF IInv

\* Data that a store has answered are no list of files and no content.
LEMMA StoreData ==
  ASSUME IInv, stage \in LookAtStores
  PROVE  Ended(Data)
BY DEF IInv, Handlers, Ended, Data, NoAnswer

LEMMA InvSearchStep ==
  ASSUME IInv, TypeOK', SearchStep
  PROVE  IInv'
<1>1. UNCHANGED <<world, call, seen>>
  BY DEF SearchStep, history
<1>2. CASE stage = "connect" /\ connection' = TRUE /\ GoOn("register")
  BY <1>1, <1>2, InvStores DEF GoOn, LookAtStores
<1>3. CASE stage \in DOMAIN AfterSearch /\ GoOn(AfterSearch[stage]) /\ UNCHANGED connection
  <2>1. stage \in {"register", "embed", "vector"} /\ stage' \in {"embed", "vector", "keyword"}
    BY <1>3 DEF GoOn, AfterSearch
  <2> QED
    BY <1>1, <2>1, InvStores DEF LookAtStores
<1>4. CASE stage = "keyword" /\ connection' = FALSE /\ End(Data)
  BY <1>1, <1>4, StoreData, InvEnd DEF End, LookAtStores
<1> QED
  BY <1>2, <1>3, <1>4 DEF SearchStep

LEMMA InvQuery ==
  ASSUME IInv, TypeOK', Query
  PROVE  IInv'
<1>1. /\ UNCHANGED <<world, call, connection, seen>> /\ ~ connection
      /\ stage \in LookAtStores
  BY DEF Query, history, IInv, Handlers, LookAtStores
<1> QED
  BY <1>1, StoreData, InvEnd DEF Query, End

LEMMA InvRaise ==
  ASSUME IInv, TypeOK', Raise
  PROVE  IInv'
<1>1. /\ UNCHANGED <<world, call, seen>> /\ stage' = "ended" /\ failed' = stage
      /\ answer' = Raised /\ failed' # "nowhere"
  BY DEF Raise, StepRaises, Disk, Service, End
<1>2. connection' => failed' = "register"
  BY <1>1 DEF Raise, StepRaises, Disk, Service, Tried, IInv, Handlers
<1>3. AnswersAreCurrent' /\ CallsEndCleanly'
  BY <1>1, <1>2 DEF AnswersAreCurrent, CallsEndCleanly, Raised, NoAnswer
<1>4. Handlers' /\ Watching' /\ OnPath' /\ Listing'
  BY <1>1 DEF Handlers, Watching, OnPath, PathIsInside, Listing, Over, LookAtPath,
              LookAtTree, LookAtStores
<1> QED
  BY <1>3, <1>4 DEF IInv

\* Somebody changes the tree: a call under way remembers it, one that has ended
\* is not concerned.
LEMMA InvEdit ==
  ASSUME IInv, TypeOK',
         RemoveRoot \/ \E f \in File, v \in Value : Put(f, v)
  PROVE  IInv'
<1>1. /\ UNCHANGED <<call, stage, todo, files, connection, answer, failed>>
      /\ root' => root
      /\ Remember(tree')
  BY DEF RemoveRoot, Put
<1>2. CASE Over
  <2>1. seen' = seen
    BY <1>1, <1>2 DEF Remember
  <2> QED
    BY <1>1, <1>2, <2>1
       DEF IInv, Handlers, Watching, OnPath, PathIsInside, Listing, AnswersAreCurrent,
           CallsEndCleanly, Undisturbed, Over, LookAtPath, LookAtTree, LookAtStores
<1>3. CASE ~ Over
  <2>1. \A f \in File : seen'[f] = seen[f] \cup {tree'[f]} /\ tree[f] \in seen[f]
    BY <1>1, <1>3 DEF Remember, IInv, Watching
  <2>2. Handlers' /\ Watching' /\ AnswersAreCurrent' /\ CallsEndCleanly'
    BY <1>1, <1>3, <2>1 DEF IInv, Handlers, Watching, AnswersAreCurrent, CallsEndCleanly, Over
  <2>3. OnPath'
    BY <1>1, <2>1 DEF IInv, OnPath, PathIsInside
  <2>4. \A f \in File : Undisturbed(f)' => Undisturbed(f) /\ tree'[f] = tree[f]
    BY <2>1 DEF Undisturbed
  <2>5. todo \subseteq File
    BY Types DEF IInv
  <2>6. Listing'
    BY <1>1, <2>1, <2>4, <2>5 DEF IInv, Listing
  <2> QED
    BY <2>2, <2>3, <2>6 DEF IInv
<1> QED
  BY <1>2, <1>3

LEMMA InvNext ==
  ASSUME IInv, [Next]_vars
  PROVE  IInv'
<1>1. TypeOK'
  BY TypeNext DEF IInv, OnPath
<1>2. CASE UNCHANGED vars
  BY <1>1, <1>2
     DEF vars, IInv, Handlers, Watching, OnPath, PathIsInside, Listing, AnswersAreCurrent,
         CallsEndCleanly, Undisturbed, Over
<1>3. ASSUME NEW r \in Requests, Invoke(r)
      PROVE  IInv'
  BY <1>3, InvInvoke
<1>4. CASE CallStep
  BY <1>1, <1>4, InvResolvePath, InvCheckIsFile, InvStatFile, InvReadFile, InvListRoot,
     InvClassifyFile, InvAnswerList, InvSearchStep, InvQuery, InvRaise DEF CallStep
<1>5. CASE RemoveRoot \/ \E f \in File, v \in Value : Put(f, v)
  BY <1>1, <1>5, InvEdit
<1> QED
  BY <1>2, <1>3, <1>4, <1>5 DEF Next, Value

LEMMA Invariance == Spec => []IInv
<1>1. Init => IInv
  BY InvInit
<1>2. IInv /\ [Next]_vars => IInv'
  BY InvNext
<1> QED
  BY <1>1, <1>2, PTL DEF Spec
-----------------------------------------------------------------------------
\* Every variable keeps its type, and no file is listed that its name rules out,
\* whatever tree, requests and edits there are.
THEOREM TypeCorrect == Spec => []TypeOK
<1>1. IInv => TypeOK
  BY DEF IInv
<1> QED
  BY <1>1, Invariance, PTL

\* What a tool answers was so during its call, and of files that nobody touched
\* meanwhile it lists exactly the relevant ones ("Scans the filesystem fresh on
\* every call", tools/file_tools.py:60).
THEOREM CurrentAnswers == Spec => []AnswersAreCurrent
<1>1. IInv => AnswersAreCurrent
  BY DEF IInv
<1> QED
  BY <1>1, Invariance, PTL

\* A call leaves its connection open only if register_vector raised, and an
\* exception that gets out has one of the reasons that CallsEndCleanly lists
\* (tools/registry.py:4-7).
THEOREM CleanEnds == Spec => []CallsEndCleanly
<1>1. IInv => CallsEndCleanly
  BY DEF IInv
<1> QED
  BY <1>1, Invariance, PTL
=============================================================================
