------------------------------- MODULE Sandbox -------------------------------
(***************************************************************************)
(* Running a repository's tests in a container: DockerTestRunner.run looks *)
(* for a test command, asks whether Docker is there, copies the tree into  *)
(* a temporary directory, directory by directory and file by file, runs    *)
(* one container on the copy with a deadline, kills the container when the *)
(* deadline passes, and removes the directory.  Calls run beside each      *)
(* other and beside whoever edits the tree.  The Docker daemon goes on     *)
(* with a container, and with what it has been asked for, when the command *)
(* that asked is gone.                                                     *)
(***************************************************************************)
CONSTANTS
  Call,        \* calls of DockerTestRunner.run
  File,        \* paths of the repository's files, without those under .git
  Dir,         \* paths of its directories
  Root,        \* the directory all of it is in
  Sub,         \* the directories that are directly in a directory
  Under,       \* the files that are in a directory or further down
  Config,      \* those that configure pytest
  TestFile,    \* those that hold tests by their name
  Content,     \* contents of files
  Absent,      \* the state of a path where there is no file
  Unread,      \* the mark of a file that is not copied
  Passing      \* the trees whose tests can exit with 0

Tree == [File -> Content \cup {Absent}]

ASSUME FilesAssumption == Config \subseteq File /\ TestFile \subseteq File
ASSUME LayoutAssumption ==
  /\ File \cap Dir = {} /\ Root \in Dir
  /\ Sub \in [Dir -> SUBSET Dir] /\ Under \in [Dir -> SUBSET File]
  /\ Under[Root] = File
  /\ \A d \in Dir : \A e \in Sub[d] :
       /\ Under[e] \subseteq Under[d]
       /\ \A other \in Sub[d] \ {e} : Under[e] \cap Under[other] = {}
ASSUME MarksAssumption == Absent \notin Content /\ Unread \notin Content /\ Absent # Unread
ASSUME PassingAssumption == Passing \subseteq Tree

VARIABLES
  tree,        \* the real repository
  pc,          \* where each call is
  todo,        \* what a call has found and not yet listed or copied
  copied,      \* the contents it has copied
  lost,        \* whether copytree has remembered an error
  workspace,   \* its temporary directory
  asked,       \* what docker run has asked of the daemon
  container,   \* its container, as the daemon knows it
  kill,        \* how its docker kill ended
  answer       \* what it will tell its caller

vars == <<tree, pc, todo, copied, lost, workspace, asked, container, kill, answer>>

\* What the steps of a call, of the daemon and of an editor leave alone.
copying == <<todo, copied, lost>>
docker  == <<asked, container, kill>>

\* What the container's command ended with, or what docker run itself did.
ExitCode == {"zero", "nonzero"}

Raised == {"no_command", "unavailable", "error"}

\* Mutant: whatever has not failed has passed.
PassedUnlessFailed(a) == a \notin Raised \cup {"nonzero"}

\* TestRunResult.passed.  An exit code is there unless timed_out is.
passed(a) == a = "zero"

Exists(f) == tree[f] # Absent

\* What a name that is found stands for.
Covers(x) == IF x \in Dir THEN Under[x] ELSE {x}

\* The files that are in a directory itself.
Own(d) == Under[d] \ UNION {Under[e] : e \in Sub[d]}

\* What is in the directory that the container works on.
Copy(c) == [f \in File |-> IF copied[c][f] = Unread THEN Absent ELSE copied[c][f]]
-----------------------------------------------------------------------------
Goto(c, next) == pc' = [pc EXCEPT ![c] = next]

Tell(c, a) == answer' = [answer EXCEPT ![c] = a]

Raise(c, a) == Goto(c, "returned") /\ Tell(c, a)

\* detect_test_command
DetectCommand(c) ==
  /\ pc[c] = "detect"
  /\ IF \E f \in Config \cup TestFile : Exists(f)
     THEN Goto(c, "check") /\ UNCHANGED answer
     ELSE Raise(c, "no_command")
  /\ UNCHANGED <<tree, copying, workspace, docker>>

\* IngestionService.ingest raises: the root is gone, or no directory.
DetectFails(c) ==
  /\ pc[c] = "detect"
  /\ Raise(c, "error")
  /\ UNCHANGED <<tree, copying, workspace, docker>>

CheckDockerAvailable(c) ==
  /\ pc[c] = "check"
  /\ Goto(c, "directory")
  /\ UNCHANGED <<tree, copying, workspace, docker, answer>>

DockerUnavailable(c) ==
  /\ pc[c] = "check"
  /\ Raise(c, "unavailable")
  /\ UNCHANGED <<tree, copying, workspace, docker>>

\* TemporaryDirectory, and copytree is called.
MakeWorkspace(c) ==
  /\ pc[c] = "directory"
  /\ Goto(c, "copy")
  /\ workspace' = [workspace EXCEPT ![c] = "copy"]
  /\ todo' = [todo EXCEPT ![c] = {Root}]
  /\ UNCHANGED <<tree, copied, lost, docker, answer>>

NoWorkspace(c) ==
  /\ pc[c] = "directory"
  /\ Raise(c, "error")
  /\ UNCHANGED <<tree, copying, workspace, docker>>

\* copytree takes the names in a directory when it gets to it, not before, and
\* will not look again.  A directory without files may be there or not.
ListDirectory(c, d) ==
  /\ pc[c] = "copy"
  /\ d \in todo[c]
  /\ \E subs \in SUBSET Sub[d] :
       LET found  == {f \in Own(d) : Exists(f)} \cup subs
           missed == {f \in Under[d] : \A x \in found : f \notin Covers(x)}
       IN  /\ \A e \in Sub[d] : (\E f \in Under[e] : Exists(f)) => e \in subs
           /\ todo' = [todo EXCEPT ![c] = (@ \ {d}) \cup found]
           /\ copied' = [copied EXCEPT ![c] =
                [f \in File |-> IF f \in missed THEN Absent ELSE copied[c][f]]]
  /\ UNCHANGED <<tree, pc, lost, workspace, docker, answer>>

\* The root is gone or cannot be listed: copytree raises at once.
ListRootFails(c) ==
  /\ pc[c] = "copy"
  /\ Root \in todo[c]
  /\ Goto(c, "leave")
  /\ Tell(c, "error")
  /\ UNCHANGED <<tree, copying, workspace, docker>>

CopyFile(c, f) ==
  /\ pc[c] = "copy"
  /\ f \in todo[c]
  /\ Exists(f)
  /\ todo' = [todo EXCEPT ![c] = @ \ {f}]
  /\ copied' = [copied EXCEPT ![c][f] = tree[f]]
  /\ UNCHANGED <<tree, pc, lost, workspace, docker, answer>>

\* A file or directory that is gone or unreadable by now, or has no room in the
\* copy: copytree remembers the error and goes on.
CopyFails(c, x) ==
  /\ pc[c] = "copy"
  /\ x \in todo[c] \ {Root}
  /\ todo' = [todo EXCEPT ![c] = @ \ {x}]
  /\ lost' = [lost EXCEPT ![c] = TRUE]
  /\ UNCHANGED <<tree, pc, copied, workspace, docker, answer>>

\* Mutant: what copytree raises is caught, and the tests are run all the same.
FinishCopyRegardless(c) ==
  /\ pc[c] = "copy"
  /\ todo[c] = {}
  /\ Goto(c, "run")
  /\ UNCHANGED <<tree, copying, workspace, docker, answer>>

\* copytree raises what it has remembered only when it is through.
FinishCopy(c) ==
  /\ pc[c] = "copy"
  /\ todo[c] = {}
  /\ IF lost[c]
     THEN Goto(c, "leave") /\ Tell(c, "error")
     ELSE Goto(c, "run") /\ UNCHANGED answer
  /\ UNCHANGED <<tree, copying, workspace, docker>>

\* docker run ends with the container's command, whose exit code it hands on.
RunReturns(c) ==
  /\ pc[c] = "run"
  /\ container[c] \in ExitCode
  /\ Goto(c, "leave")
  /\ Tell(c, container[c])
  /\ UNCHANGED <<tree, copying, workspace, docker>>

\* docker run ends by itself, whatever has become of the container: no image, no
\* daemon, a refused mount, a lost connection, a signal.  Its exit code is taken
\* for that of the tests, and nobody kills the container.
RunFails(c) ==
  /\ pc[c] = "run"
  /\ Goto(c, "leave")
  /\ Tell(c, "nonzero")
  /\ UNCHANGED <<tree, copying, workspace, docker>>

\* docker cannot be started, or what it has printed is no text.
RunRaises(c) ==
  /\ pc[c] = "run"
  /\ Goto(c, "leave")
  /\ Tell(c, "error")
  /\ UNCHANGED <<tree, copying, workspace, docker>>

\* Mutant: the time counts from the start of the container.
RunTimesOutOnceStarted(c) ==
  /\ pc[c] = "run"
  /\ container[c] = "running"
  /\ Goto(c, "kill")
  /\ Tell(c, "timed_out")
  /\ UNCHANGED <<tree, copying, workspace, docker>>

\* subprocess.run kills the docker command, not the container.
RunTimesOut(c) ==
  /\ pc[c] = "run"
  /\ Goto(c, "kill")
  /\ Tell(c, "timed_out")
  /\ UNCHANGED <<tree, copying, workspace, docker>>

\* Mutant: a container that is killed has no exit code.
KillWithoutCode(c) ==
  /\ pc[c] = "kill"
  /\ container[c] = "running"
  /\ Goto(c, "leave")
  /\ container' = [container EXCEPT ![c] = "killed"]
  /\ kill' = [kill EXCEPT ![c] = "done"]
  /\ UNCHANGED <<tree, copying, workspace, asked, answer>>

KillContainer(c) ==
  /\ pc[c] = "kill"
  /\ container[c] = "running"
  /\ Goto(c, "leave")
  /\ container' = [container EXCEPT ![c] = "nonzero"]
  /\ kill' = [kill EXCEPT ![c] = "done"]
  /\ UNCHANGED <<tree, copying, workspace, asked, answer>>

\* docker kill exits with an error, which check=False ignores: the container is
\* not running, not yet or no longer, or the daemon fails.
KillRefused(c) ==
  /\ pc[c] = "kill"
  /\ Goto(c, "leave")
  /\ kill' = [kill EXCEPT ![c] = "refused"]
  /\ UNCHANGED <<tree, copying, workspace, asked, container, answer>>

\* docker kill cannot be started or takes longer than its own deadline, and the
\* exception escapes.
KillRaises(c) ==
  /\ pc[c] = "kill"
  /\ Goto(c, "leave")
  /\ Tell(c, "error")
  /\ kill' = [kill EXCEPT ![c] = "raised"]
  /\ UNCHANGED <<tree, copying, workspace, asked, container>>

RemoveWorkspace(c) ==
  /\ pc[c] = "leave"
  /\ Goto(c, "returned")
  /\ workspace' = [workspace EXCEPT ![c] = "none"]
  /\ UNCHANGED <<tree, copying, docker, answer>>

\* Mutant: TemporaryDirectory(ignore_cleanup_errors=True).
RemovalFailsSilently(c) ==
  /\ pc[c] = "leave"
  /\ Goto(c, "returned")
  /\ UNCHANGED <<tree, copying, workspace, docker, answer>>

\* Files of the container's user, root, or a container that goes on writing:
\* the removal raises, and the exception takes the place of the result.
RemovalFails(c) ==
  /\ pc[c] = "leave"
  /\ Raise(c, "error")
  /\ UNCHANGED <<tree, copying, workspace, docker>>
-----------------------------------------------------------------------------
\* docker run, the daemon and the tests.  docker run asks for a container and,
\* when it has one, for its start; what has been asked for may happen at any
\* time, also when docker run has been killed and its caller has returned.
RequestCreate(c) ==
  /\ pc[c] = "run"
  /\ asked[c] = "nothing"
  /\ asked' = [asked EXCEPT ![c] = "create"]
  /\ UNCHANGED <<tree, pc, copying, workspace, container, kill, answer>>

CreateContainer(c) ==
  /\ asked[c] # "nothing"
  /\ container[c] = "none"
  /\ container' = [container EXCEPT ![c] = "created"]
  /\ UNCHANGED <<tree, pc, copying, workspace, asked, kill, answer>>

RequestStart(c) ==
  /\ pc[c] = "run"
  /\ container[c] = "created"
  /\ asked' = [asked EXCEPT ![c] = "start"]
  /\ UNCHANGED <<tree, pc, copying, workspace, container, kill, answer>>

\* The daemon makes a directory that is to be mounted when it is not there.
StartContainer(c) ==
  /\ asked[c] = "start"
  /\ container[c] = "created"
  /\ container' = [container EXCEPT ![c] = "running"]
  /\ workspace' = [workspace EXCEPT ![c] = IF @ = "none" THEN "remade" ELSE @]
  /\ UNCHANGED <<tree, pc, copying, asked, kill, answer>>

\* Tests write into what is mounted, the copy.
TestsWrite(c) ==
  /\ container[c] = "running"
  /\ workspace[c] = "copy"
  /\ workspace' = [workspace EXCEPT ![c] = "written"]
  /\ UNCHANGED <<tree, pc, copying, docker, answer>>

\* Until docker run is through, the tests are those of the copy; afterwards the
\* copy may be gone, and nobody hears of the code.
TestsEnd(c) ==
  /\ container[c] = "running"
  /\ \E code \in ExitCode :
       /\ code = "zero" /\ pc[c] = "run" => Copy(c) \in Passing
       /\ container' = [container EXCEPT ![c] = code]
  /\ UNCHANGED <<tree, pc, copying, workspace, asked, kill, answer>>

\* Somebody writes, creates or removes a file of the repository.
Edit(f) ==
  /\ \E v \in Content \cup {Absent} : tree' = [tree EXCEPT ![f] = v]
  /\ UNCHANGED <<pc, copying, workspace, docker, answer>>
-----------------------------------------------------------------------------
Init ==
  /\ tree \in Tree
  /\ pc = [c \in Call |-> "detect"]
  /\ todo = [c \in Call |-> {}]
  /\ copied = [c \in Call |-> [f \in File |-> Unread]]
  /\ lost = [c \in Call |-> FALSE]
  /\ workspace = [c \in Call |-> "none"]
  /\ asked = [c \in Call |-> "nothing"]
  /\ container = [c \in Call |-> "none"]
  /\ kill = [c \in Call |-> "none"]
  /\ answer = [c \in Call |-> "none"]

CallStep(c) ==
  \/ DetectCommand(c) \/ DetectFails(c)
  \/ CheckDockerAvailable(c) \/ DockerUnavailable(c)
  \/ MakeWorkspace(c) \/ NoWorkspace(c)
  \/ \E d \in Dir : ListDirectory(c, d)
  \/ ListRootFails(c)
  \/ \E f \in File : CopyFile(c, f)
  \/ \E x \in File \cup Dir : CopyFails(c, x)
  \/ FinishCopy(c)
  \/ RunReturns(c) \/ RunTimesOut(c)
  \/ KillContainer(c) \/ KillRefused(c) \/ KillRaises(c)
  \/ RemoveWorkspace(c) \/ RemovalFails(c)

DockerStep(c) ==
  \/ RunFails(c) \/ RunRaises(c)
  \/ RequestCreate(c) \/ CreateContainer(c) \/ RequestStart(c) \/ StartContainer(c)
  \/ TestsWrite(c) \/ TestsEnd(c)

Next ==
  \/ \E c \in Call : CallStep(c) \/ DockerStep(c)
  \/ \E f \in File : Edit(f)

Spec == Init /\ [][Next]_vars

\* The call is synchronous and each command it waits for has a deadline.  The
\* daemon, the tests and the editors owe nothing.
FairSpec == Spec /\ \A c \in Call : WF_vars(CallStep(c))
-----------------------------------------------------------------------------
(* Properties. *)

Answer == {"none", "timed_out"} \cup ExitCode \cup Raised

\* The types of the variables.
TypeOK ==
  /\ tree \in Tree
  /\ pc \in [Call -> {"detect", "check", "directory", "copy", "run", "kill", "leave", "returned"}]
  /\ todo \in [Call -> SUBSET (File \cup Dir)]
  /\ copied \in [Call -> [File -> Content \cup {Absent, Unread}]]
  /\ lost \in [Call -> BOOLEAN]
  /\ workspace \in [Call -> {"none", "copy", "written", "remade"}]
  /\ asked \in [Call -> {"nothing", "create", "start"}]
  /\ container \in [Call -> {"none", "created", "running"} \cup ExitCode]
  /\ kill \in [Call -> {"none", "done", "refused", "raised"}]
  /\ answer \in [Call -> Answer]

\* "--rm" and the kill "as a best-effort cleanup" (docker_runner.py:31-34): what
\* a call leaves behind is bounded by what it says.  Whoever answers that the
\* tests have passed, or has killed the container, leaves none that runs or will
\* run; a pass leaves no directory; and the copy is left only by a call that
\* raised.  Any other answer, "failed" too, may leave a container that runs or
\* is started later, and then a directory the daemon has made anew.
LeftoversAreExplained ==
  \A c \in Call : pc[c] = "returned" =>
    /\ passed(answer[c]) \/ kill[c] = "done" =>
         container[c] \in ExitCode /\ workspace[c] # "remade"
    /\ passed(answer[c]) => workspace[c] = "none"
    /\ workspace[c] \in {"copy", "written"} => answer[c] = "error"

\* "The outcome of one sandboxed test-suite execution" (models.py:41), on a copy
\* "never the real repository" (docker_runner.py:15): a call says that the tests
\* have passed only if those of the contents it has copied can pass, each file
\* being as it was, or missing as it was, at some moment of the copying, and
\* none that was found left out; and nothing but an editor changes the
\* repository.  That the copy is a tree that ever was is not promised: a file
\* that is moved from a directory not yet listed to one that is, is missed.
Verdicts ==
  INSTANCE TestVerdicts WITH
    sample <- copied,
    verdict <- [c \in Call |->
      IF pc[c] # "returned" THEN "open"
      ELSE IF passed(answer[c]) THEN "passed" ELSE "not passed"]

ImplementsVerdicts == Verdicts!Spec

\* Whatever Docker does or fails to do, a call returns.
CallsReturn == \A c \in Call : <>(pc[c] = "returned")
=============================================================================
