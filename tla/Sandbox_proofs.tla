---------------------------- MODULE Sandbox_proofs ----------------------------
(***************************************************************************)
(* Proofs about Sandbox, for any calls, files and contents, and whatever   *)
(* trees have tests that can pass.                                         *)
(***************************************************************************)
EXTENDS Sandbox, TLAPS

Phase == {"detect", "check", "directory", "copy", "run", "kill", "leave", "returned"}

\* Before docker run is asked for anything.
Before == {"detect", "check", "directory", "copy"}

\* Every file has been copied or seen to be missing.
Whole(c) == \A f \in File : copied[c][f] # Unread

\* What copytree has still to do is not done, is for nobody to do twice, and is
\* all that there is to do, if nothing went wrong.
Ahead(c) ==
  /\ \A x \in todo[c] : \A f \in Covers(x) : copied[c][f] = Unread
  /\ \A x \in todo[c], y \in todo[c] : x # y => Covers(x) \cap Covers(y) = {}
  /\ pc[c] = "copy" /\ ~ lost[c] =>
       \A f \in File : copied[c][f] = Unread => \E x \in todo[c] : f \in Covers(x)

\* What is known of a call's docker run, its container and its answer.
Ended(c) ==
  /\ pc[c] \in Before =>
       asked[c] = "nothing" /\ container[c] = "none" /\ kill[c] = "none" /\ answer[c] = "none"
  /\ asked[c] = "nothing" => container[c] = "none"
  /\ pc[c] = "run" => Whole(c)
  /\ pc[c] = "kill" => answer[c] = "timed_out"
  /\ pc[c] = "run" /\ container[c] = "zero" => copied[c] \in Passing
  /\ answer[c] = "zero" =>
       container[c] = "zero" /\ copied[c] \in Passing /\ pc[c] \in {"leave", "returned"}
  /\ kill[c] = "done" => container[c] \in ExitCode

\* And of its directory.
Kept(c) ==
  /\ pc[c] \in {"detect", "check", "directory"} =>
       /\ workspace[c] = "none" /\ todo[c] = {} /\ ~ lost[c]
       /\ copied[c] = [f \in File |-> Unread]
  /\ pc[c] \in {"copy", "run", "kill"} => workspace[c] \in {"copy", "written"}
  /\ workspace[c] = "remade" =>
       /\ container[c] \in {"running"} \cup ExitCode
       /\ pc[c] \in {"leave", "returned"} /\ answer[c] # "zero" /\ kill[c] # "done"
  /\ pc[c] = "returned" /\ answer[c] = "zero" => workspace[c] = "none"
  /\ pc[c] = "returned" /\ workspace[c] \in {"copy", "written"} => answer[c] = "error"

\* What is known of a call wherever it is.
Known(c) == Ahead(c) /\ Ended(c) /\ Kept(c)

IInv == TypeOK /\ \A c \in Call : Known(c)

LEMMA InitKnown == Init => IInv
<1> SUFFICES ASSUME Init PROVE IInv
  OBVIOUS
<1>1. TypeOK
  BY DEF Init, TypeOK, Tree, Answer, ExitCode, Raised
<1>2. \A c \in Call : Known(c)
  BY DEF Init, Known, Ahead, Ended, Kept, Before, Whole, ExitCode
<1> QED
  BY <1>1, <1>2 DEF IInv

\* The steps of a call and of what runs for it do not concern the others.
Aside(c) ==
  \A d \in Call \ {c} :
    /\ pc'[d] = pc[d] /\ todo'[d] = todo[d] /\ copied'[d] = copied[d] /\ lost'[d] = lost[d]
    /\ workspace'[d] = workspace[d] /\ asked'[d] = asked[d]
    /\ container'[d] = container[d] /\ kill'[d] = kill[d] /\ answer'[d] = answer[d]

LEMMA OthersKnown ==
  ASSUME \A d \in Call : Known(d), NEW c \in Call, Aside(c), NEW d \in Call, d # c
  PROVE  Known(d)'
<1>1. /\ pc'[d] = pc[d] /\ todo'[d] = todo[d] /\ copied'[d] = copied[d] /\ lost'[d] = lost[d]
      /\ workspace'[d] = workspace[d] /\ asked'[d] = asked[d]
      /\ container'[d] = container[d] /\ kill'[d] = kill[d] /\ answer'[d] = answer[d]
  BY DEF Aside
<1> QED
  BY <1>1 DEF Known, Ahead, Ended, Kept, Whole

LEMMA CallTypes ==
  ASSUME TypeOK, NEW c \in Call, CallStep(c) \/ DockerStep(c)
  PROVE  TypeOK' /\ Aside(c)
<1> USE DEF copying, docker, Goto, Tell, Raise
<1>1. CASE DetectCommand(c)
  BY <1>1 DEF DetectCommand, TypeOK, Aside, Answer, Raised
<1>2. CASE DetectFails(c)
  BY <1>2 DEF DetectFails, TypeOK, Aside, Answer, Raised
<1>3. CASE CheckDockerAvailable(c)
  BY <1>3 DEF CheckDockerAvailable, TypeOK, Aside
<1>4. CASE DockerUnavailable(c)
  BY <1>4 DEF DockerUnavailable, TypeOK, Aside, Answer, Raised
<1>5. CASE MakeWorkspace(c)
  BY <1>5, LayoutAssumption DEF MakeWorkspace, TypeOK, Aside
<1>6. CASE NoWorkspace(c)
  BY <1>6 DEF NoWorkspace, TypeOK, Aside, Answer, Raised
<1>7. ASSUME NEW d \in Dir, ListDirectory(c, d)
      PROVE  TypeOK' /\ Aside(c)
  <2>1. PICK subs \in SUBSET Sub[d] : \E missed :
          /\ todo' = [todo EXCEPT ![c] =
                         (@ \ {d}) \cup ({f \in Own(d) : Exists(f)} \cup subs)]
          /\ copied' = [copied EXCEPT ![c] =
                           [f \in File |-> IF f \in missed THEN Absent ELSE copied[c][f]]]
    BY <1>7 DEF ListDirectory
  <2>2. PICK missed :
          copied' = [copied EXCEPT ![c] =
                       [f \in File |-> IF f \in missed THEN Absent ELSE copied[c][f]]]
    BY <2>1
  <2>3. {f \in Own(d) : Exists(f)} \cup subs \subseteq File \cup Dir
    BY LayoutAssumption DEF Own
  <2>4. [f \in File |-> IF f \in missed THEN Absent ELSE copied[c][f]]
          \in [File -> Content \cup {Absent, Unread}]
    BY DEF TypeOK
  <2> DEFINE found == {f \in Own(d) : Exists(f)} \cup subs
             new == [f \in File |-> IF f \in missed THEN Absent ELSE copied[c][f]]
  <2>5. /\ todo' = [todo EXCEPT ![c] = (@ \ {d}) \cup found] /\ found \subseteq File \cup Dir
        /\ copied' = [copied EXCEPT ![c] = new] /\ new \in [File -> Content \cup {Absent, Unread}]
    BY <2>1, <2>3, <2>4, <2>2
  <2> HIDE DEF found, new
  <2> QED
    BY <1>7, <2>5 DEF ListDirectory, TypeOK, Aside
<1>8. CASE ListRootFails(c)
  BY <1>8 DEF ListRootFails, TypeOK, Aside, Answer, Raised
<1>9. ASSUME NEW f \in File, CopyFile(c, f)
      PROVE  TypeOK' /\ Aside(c)
  <2>1. tree[f] \in Content \cup {Absent, Unread}
    BY DEF TypeOK, Tree
  <2> QED
    BY <1>9, <2>1 DEF CopyFile, TypeOK, Aside
<1>10. ASSUME NEW x \in File \cup Dir, CopyFails(c, x)
       PROVE  TypeOK' /\ Aside(c)
  BY <1>10 DEF CopyFails, TypeOK, Aside
<1>11. CASE FinishCopy(c)
  BY <1>11 DEF FinishCopy, TypeOK, Aside, Answer, Raised
<1>12. CASE RunReturns(c)
  BY <1>12 DEF RunReturns, TypeOK, Aside, Answer
<1>13. CASE RunTimesOut(c)
  BY <1>13 DEF RunTimesOut, TypeOK, Aside, Answer
<1>14. CASE KillContainer(c)
  BY <1>14 DEF KillContainer, TypeOK, Aside, ExitCode
<1>15. CASE KillRefused(c)
  BY <1>15 DEF KillRefused, TypeOK, Aside
<1>16. CASE KillRaises(c)
  BY <1>16 DEF KillRaises, TypeOK, Aside, Answer, Raised
<1>17. CASE RemoveWorkspace(c)
  BY <1>17 DEF RemoveWorkspace, TypeOK, Aside
<1>18. CASE RemovalFails(c)
  BY <1>18 DEF RemovalFails, TypeOK, Aside, Answer, Raised
<1>19. CASE RunFails(c) \/ RunRaises(c)
  <2>1. CASE RunFails(c)
    BY <2>1 DEF RunFails, TypeOK, Aside, Answer, ExitCode
  <2>2. CASE RunRaises(c)
    BY <2>2 DEF RunRaises, TypeOK, Aside, Answer, Raised
  <2> QED
    BY <1>19, <2>1, <2>2
<1>20. CASE RequestCreate(c) \/ RequestStart(c)
  BY <1>20 DEF RequestCreate, RequestStart, TypeOK, Aside
<1>21. CASE CreateContainer(c)
  BY <1>21 DEF CreateContainer, TypeOK, Aside
<1>22. CASE StartContainer(c)
  BY <1>22 DEF StartContainer, TypeOK, Aside
<1>23. CASE TestsWrite(c)
  BY <1>23 DEF TestsWrite, TypeOK, Aside
<1>24. CASE TestsEnd(c)
  BY <1>24 DEF TestsEnd, TypeOK, Aside
<1> QED
  BY <1>1, <1>2, <1>3, <1>4, <1>5, <1>6, <1>7, <1>8, <1>9, <1>10, <1>11, <1>12, <1>13,
     <1>14, <1>15, <1>16, <1>17, <1>18, <1>19, <1>20, <1>21, <1>22, <1>23, <1>24
     DEF CallStep, DockerStep

\* What is found in a directory covers parts of it, and no file twice.
LEMMA FoundCovers ==
  ASSUME NEW d \in Dir, NEW subs \in SUBSET Sub[d], NEW F \in SUBSET Own(d)
  PROVE  /\ \A x \in F \cup subs : Covers(x) \subseteq Under[d]
         /\ \A x \in F \cup subs, y \in F \cup subs :
              x # y => Covers(x) \cap Covers(y) = {}
<1>1. \A f \in F : Covers(f) = {f} /\ f \in Under[d] /\ \A e \in Sub[d] : f \notin Under[e]
  BY LayoutAssumption DEF Own, Covers
<1>2. \A e \in subs : e \in Sub[d] /\ Covers(e) = Under[e]
  BY LayoutAssumption DEF Covers
<1>3. \A e \in Sub[d] : /\ Under[e] \subseteq Under[d]
                        /\ \A other \in Sub[d] \ {e} : Under[e] \cap Under[other] = {}
  BY LayoutAssumption
<1> QED
  BY <1>1, <1>2, <1>3

\* A directory that is listed leaves what it has found to do, and nothing else.
LEMMA ListAhead ==
  ASSUME TypeOK, NEW c \in Call, Known(c), NEW d \in Dir, ListDirectory(c, d)
  PROVE  Ahead(c)'
<1>1. PICK subs \in SUBSET Sub[d] :
        LET found  == {f \in Own(d) : Exists(f)} \cup subs
            missed == {f \in Under[d] : \A x \in found : f \notin Covers(x)}
        IN  /\ todo' = [todo EXCEPT ![c] = (@ \ {d}) \cup found]
            /\ copied' = [copied EXCEPT ![c] =
                 [f \in File |-> IF f \in missed THEN Absent ELSE copied[c][f]]]
  BY DEF ListDirectory
<1> DEFINE F == {f \in Own(d) : Exists(f)}
           found  == F \cup subs
           missed == {f \in Under[d] : \A x \in found : f \notin Covers(x)}
<1>2. /\ todo'[c] = (todo[c] \ {d}) \cup found
      /\ \A f \in File : copied'[c][f] = IF f \in missed THEN Absent ELSE copied[c][f]
  BY <1>1 DEF TypeOK
<1>3. d \in todo[c] /\ Covers(d) = Under[d] /\ pc'[c] = pc[c] /\ lost'[c] = lost[c]
  BY DEF ListDirectory, Covers
<1>4. /\ \A x \in found : Covers(x) \subseteq Under[d]
      /\ \A x \in found, y \in found : x # y => Covers(x) \cap Covers(y) = {}
  BY FoundCovers
<1>5. \A f \in Under[d] : f \in missed \/ \E x \in found : f \in Covers(x)
  OBVIOUS
<1>6. \A x \in found : \A f \in Covers(x) : f \notin missed
  OBVIOUS
<1>7. missed \subseteq Under[d] /\ Under[d] \subseteq File
  BY LayoutAssumption
<1>8. /\ \A x \in todo[c] : \A f \in Covers(x) : copied[c][f] = Unread
      /\ \A x \in todo[c] : x # d => Covers(x) \cap Under[d] = {}
      /\ \A x \in todo[c], y \in todo[c] : x # y => Covers(x) \cap Covers(y) = {}
  BY <1>3 DEF Known, Ahead
<1>9. \A x \in todo[c] : Covers(x) \subseteq File
  BY LayoutAssumption DEF TypeOK, Covers
<1> HIDE DEF F, found, missed
<1>10. \A x \in todo'[c] : \A f \in Covers(x) : copied'[c][f] = Unread
  <2>1. ASSUME NEW x \in todo[c] \ {d}, NEW f \in Covers(x)
        PROVE  copied'[c][f] = Unread
    BY <1>2, <1>7, <1>8, <1>9
  <2>2. ASSUME NEW x \in found, NEW f \in Covers(x)
        PROVE  copied'[c][f] = Unread
    <3>1. f \in Under[d] /\ f \notin missed
      BY <1>4, <1>6, <2>2
    <3> QED
      BY <1>2, <1>3, <1>7, <1>8, <3>1
  <2> QED
    BY <1>2, <2>1, <2>2
<1>11. \A x \in todo'[c], y \in todo'[c] : x # y => Covers(x) \cap Covers(y) = {}
  BY <1>2, <1>4, <1>8
<1>12. ASSUME pc[c] = "copy", ~ lost[c], NEW f \in File, copied'[c][f] = Unread
       PROVE  \E x \in todo'[c] : f \in Covers(x)
  <2>1. f \notin missed /\ copied[c][f] = Unread
    BY <1>2, <1>12, MarksAssumption
  <2>2. PICK x \in todo[c] : f \in Covers(x)
    BY <1>12, <2>1 DEF Known, Ahead
  <2> QED
    BY <1>2, <1>3, <1>5, <2>1, <2>2
<1> QED
  BY <1>3, <1>10, <1>11, <1>12 DEF Ahead

LEMMA CopyAhead ==
  ASSUME TypeOK, NEW c \in Call, Known(c), NEW f \in File, CopyFile(c, f)
  PROVE  Ahead(c)'
<1>1. /\ todo'[c] = todo[c] \ {f} /\ f \in todo[c] /\ Covers(f) = {f}
      /\ pc'[c] = pc[c] /\ lost'[c] = lost[c]
      /\ copied'[c] = [copied[c] EXCEPT ![f] = tree[f]] /\ copied[c] \in [File -> Content \cup {Absent, Unread}]
  BY LayoutAssumption DEF CopyFile, TypeOK, Covers
<1>2. tree[f] # Unread
  BY MarksAssumption DEF TypeOK, Tree
<1>3. \A x \in todo'[c] : f \notin Covers(x) /\ x \in todo[c] /\ Covers(x) \subseteq File
  BY <1>1, LayoutAssumption DEF Known, Ahead, TypeOK, Covers
<1>4. \A g \in File : g # f => copied'[c][g] = copied[c][g]
  BY <1>1
<1>5. copied'[c][f] = tree[f]
  BY <1>1
<1>6. \A x \in todo'[c] : \A g \in Covers(x) : copied'[c][g] = Unread
  BY <1>3, <1>4 DEF Known, Ahead
<1>7. \A x \in todo'[c], y \in todo'[c] : x # y => Covers(x) \cap Covers(y) = {}
  BY <1>3 DEF Known, Ahead
<1>8. ASSUME pc[c] = "copy", ~ lost[c], NEW g \in File, copied'[c][g] = Unread
      PROVE  \E x \in todo'[c] : g \in Covers(x)
  <2>1. g # f /\ copied[c][g] = Unread
    BY <1>2, <1>4, <1>5, <1>8
  <2>2. PICK x \in todo[c] : g \in Covers(x)
    BY <1>8, <2>1 DEF Known, Ahead
  <2> QED
    BY <1>1, <2>1, <2>2
<1> QED
  BY <1>1, <1>6, <1>7, <1>8 DEF Ahead

\* The copying, of whatever is copied, keeps what is known of it.
LEMMA CopyingKnown ==
  ASSUME TypeOK, NEW c \in Call, Known(c),
         \/ \E d \in Dir : ListDirectory(c, d)
         \/ \E f \in File : CopyFile(c, f)
         \/ \E x \in File \cup Dir : CopyFails(c, x)
  PROVE  Known(c)'
<1>1. /\ pc[c] = "copy" /\ UNCHANGED <<pc, workspace, docker, answer>>
  BY DEF ListDirectory, CopyFile, CopyFails
<1>2. Ended(c)' /\ Kept(c)'
  BY <1>1 DEF Known, Ended, Kept, Before, docker
<1>3. Ahead(c)'
  <2>1. ASSUME NEW x \in File \cup Dir, CopyFails(c, x)
        PROVE  Ahead(c)'
    BY <2>1 DEF CopyFails, TypeOK, Known, Ahead
  <2> QED
    BY <2>1, ListAhead, CopyAhead
<1> QED
  BY <1>2, <1>3 DEF Known

\* All that was found is there when copytree ends without an error.
LEMMA CopyIsWhole ==
  ASSUME NEW c \in Call, Known(c), pc[c] = "copy", todo[c] = {}, ~ lost[c]
  PROVE  Whole(c)
BY DEF Known, Ahead, Whole

\* A whole copy is what has been copied.
LEMMA CopyIsCopied ==
  ASSUME TypeOK, NEW c \in Call, Whole(c)
  PROVE  Copy(c) = copied[c]
BY DEF Copy, Whole, TypeOK

\* Whatever leaves the copying alone, and does not start it, keeps what is ahead.
LEMMA AheadSame ==
  ASSUME NEW c \in Call, Known(c), UNCHANGED copying, pc'[c] # "copy" \/ pc'[c] = pc[c]
  PROVE  Ahead(c)'
BY DEF Known, Ahead, copying

LEMMA CallKnown ==
  ASSUME TypeOK, NEW c \in Call, Known(c), CallStep(c) \/ DockerStep(c)
  PROVE  Known(c)'
<1> DEFINE Rest == Ended(c)' /\ Kept(c)'
<1>0. ASSUME UNCHANGED copying, pc'[c] # "copy" \/ pc'[c] = pc[c], Rest
      PROVE  Known(c)'
  BY <1>0, AheadSame DEF Known
<1> USE DEF Goto, Tell, Raise, docker
<1>1. CASE DetectCommand(c)
  BY <1>0, <1>1 DEF DetectCommand, TypeOK, Known, Ended, Kept, Before, ExitCode, copying
<1>2. CASE DetectFails(c)
  BY <1>0, <1>2 DEF DetectFails, TypeOK, Known, Ended, Kept, Before, ExitCode, copying
<1>3. CASE CheckDockerAvailable(c)
  BY <1>0, <1>3 DEF CheckDockerAvailable, TypeOK, Known, Ended, Kept, Before, ExitCode, copying
<1>4. CASE DockerUnavailable(c)
  BY <1>0, <1>4 DEF DockerUnavailable, TypeOK, Known, Ended, Kept, Before, ExitCode, copying
<1>5. CASE MakeWorkspace(c)
  <2>1. Ended(c)' /\ Kept(c)'
    BY <1>5 DEF MakeWorkspace, TypeOK, Known, Ended, Kept, Before
  <2>2. Ahead(c)'
    BY <1>5, LayoutAssumption DEF MakeWorkspace, TypeOK, Known, Ahead, Kept, Covers
  <2> QED
    BY <2>1, <2>2 DEF Known
<1>6. CASE NoWorkspace(c)
  BY <1>0, <1>6 DEF NoWorkspace, TypeOK, Known, Ended, Kept, Before, ExitCode, copying
<1>7. CASE \/ \E d \in Dir : ListDirectory(c, d)
           \/ \E f \in File : CopyFile(c, f)
           \/ \E x \in File \cup Dir : CopyFails(c, x)
  BY <1>7, CopyingKnown
<1>8. CASE ListRootFails(c)
  BY <1>0, <1>8 DEF ListRootFails, TypeOK, Known, Ended, Kept, Before, ExitCode, copying
<1>9. CASE FinishCopy(c)
  <2>1. ~ lost[c] => Whole(c)
    BY <1>9, CopyIsWhole DEF FinishCopy
  <2> QED
    BY <1>0, <1>9, <2>1 DEF FinishCopy, TypeOK, Known, Ended, Kept, Before, ExitCode, Whole, copying
<1>10. CASE RunReturns(c)
  BY <1>0, <1>10 DEF RunReturns, TypeOK, Known, Ended, Kept, Before, ExitCode, copying
<1>11. CASE RunTimesOut(c)
  BY <1>0, <1>11 DEF RunTimesOut, TypeOK, Known, Ended, Kept, Before, ExitCode, copying
<1>12. CASE KillContainer(c)
  BY <1>0, <1>12 DEF KillContainer, TypeOK, Known, Ended, Kept, Before, ExitCode, copying
<1>13. CASE KillRefused(c)
  BY <1>0, <1>13 DEF KillRefused, TypeOK, Known, Ended, Kept, Before, ExitCode, copying
<1>14. CASE KillRaises(c)
  BY <1>0, <1>14 DEF KillRaises, TypeOK, Known, Ended, Kept, Before, ExitCode, copying
<1>15. CASE RemoveWorkspace(c)
  BY <1>0, <1>15 DEF RemoveWorkspace, TypeOK, Known, Ended, Kept, Before, ExitCode, copying
<1>16. CASE RemovalFails(c)
  BY <1>0, <1>16 DEF RemovalFails, TypeOK, Known, Ended, Kept, Before, ExitCode, copying
<1>17. CASE RunFails(c) \/ RunRaises(c)
  BY <1>0, <1>17 DEF RunFails, RunRaises, TypeOK, Known, Ended, Kept, Before, ExitCode, copying
<1>18. CASE RequestCreate(c) \/ RequestStart(c)
  BY <1>0, <1>18 DEF RequestCreate, RequestStart, TypeOK, Known, Ended, Kept, Before, ExitCode,
                     Whole, copying
<1>19. CASE CreateContainer(c)
  BY <1>0, <1>19 DEF CreateContainer, TypeOK, Known, Ended, Kept, Before, ExitCode, Whole, copying
<1>20. CASE StartContainer(c)
  BY <1>0, <1>20 DEF StartContainer, TypeOK, Known, Ended, Kept, Before, ExitCode, Whole, copying
<1>21. CASE TestsWrite(c)
  BY <1>0, <1>21 DEF TestsWrite, TypeOK, Known, Ended, Kept, Before, ExitCode, Whole, copying
<1>22. CASE TestsEnd(c)
  <2>1. pc[c] = "run" => Copy(c) = copied[c]
    BY CopyIsCopied DEF Known, Ended
  <2> QED
    BY <1>0, <1>22, <2>1 DEF TestsEnd, TypeOK, Known, Ended, Kept, Before, ExitCode, Whole, copying
<1> QED
  BY <1>1, <1>2, <1>3, <1>4, <1>5, <1>6, <1>7, <1>8, <1>9, <1>10, <1>11, <1>12, <1>13,
     <1>14, <1>15, <1>16, <1>17, <1>18, <1>19, <1>20, <1>21, <1>22 DEF CallStep, DockerStep

LEMMA KnownNext == IInv /\ [Next]_vars => IInv'
<1> SUFFICES ASSUME IInv, [Next]_vars PROVE IInv'
  OBVIOUS
<1> USE DEF IInv
<1>1. CASE UNCHANGED vars
  BY <1>1 DEF vars, copying, docker, TypeOK, Known, Ahead, Ended, Kept, Whole
<1>2. ASSUME NEW c \in Call, CallStep(c) \/ DockerStep(c)
      PROVE  IInv'
  <2>1. TypeOK' /\ Aside(c)
    BY <1>2, CallTypes
  <2>2. Known(c)'
    BY <1>2, CallKnown
  <2>3. \A d \in Call : d # c => Known(d)'
    BY <2>1, OthersKnown
  <2> QED
    BY <2>1, <2>2, <2>3
<1>3. ASSUME NEW f \in File, Edit(f)
      PROVE  IInv'
  <2>1. TypeOK'
    BY <1>3 DEF Edit, copying, docker, TypeOK, Tree
  <2>2. \A c \in Call : Known(c)'
    BY <1>3 DEF Edit, copying, docker, Known, Ahead, Ended, Kept, Whole
  <2> QED
    BY <2>1, <2>2
<1> QED
  BY <1>1, <1>2, <1>3 DEF Next

LEMMA Invariance == Spec => []IInv
BY InitKnown, KnownNext, PTL DEF Spec
-----------------------------------------------------------------------------
\* Every variable keeps its type, for any number of calls.
THEOREM TypeCorrect == Spec => []TypeOK
<1>1. IInv => TypeOK
  BY DEF IInv
<1> QED
  BY <1>1, Invariance, PTL

\* A call that says "passed", or has killed its container, leaves none that runs
\* or will run, a pass leaves no directory, and the copy is left only by a call
\* that raised (docker_runner.py:31-34).
THEOREM LeftoversExplained == Spec => []LeftoversAreExplained
<1>1. IInv => LeftoversAreExplained
  BY DEF IInv, Known, Ended, Kept, LeftoversAreExplained, passed, ExitCode
<1> QED
  BY <1>1, Invariance, PTL
-----------------------------------------------------------------------------
(* Refinement. *)

\* What a call has told its caller.
verdict ==
  [c \in Call |->
    IF pc[c] # "returned" THEN "open"
    ELSE IF passed(answer[c]) THEN "passed" ELSE "not passed"]

LEMMA InitRefines == Init => Verdicts!Init
BY DEF Init, Verdicts!Init, Tree, Verdicts!Tree

\* A step after which nothing has been read or told is a stutter.
LEMMA Stutters ==
  ASSUME NEW c \in Call, Aside(c), tree' = tree, copied' = copied,
         pc \in [Call -> Phase], pc' \in [Call -> Phase],
         \/ pc[c] # "returned" /\ pc'[c] # "returned"
         \/ pc'[c] = pc[c] /\ answer'[c] = answer[c]
  PROVE  UNCHANGED Verdicts!vars
<1>1. \A d \in Call : verdict'[d] = verdict[d]
  BY DEF verdict, Aside
<1> QED
  BY <1>1 DEF Verdicts!vars, verdict

\* A call that ends without a word of success.
LEMMA Fails ==
  ASSUME NEW c \in Call, Aside(c), tree' = tree, copied' = copied,
         pc[c] # "returned", pc'[c] = "returned", answer'[c] # "zero"
  PROVE  Verdicts!NotPass(c)
<1>1. verdict[c] = "open" /\ verdict'[c] = "not passed"
  BY DEF verdict, passed
<1>2. \A d \in Call \ {c} : verdict'[d] = verdict[d]
  BY DEF verdict, Aside
<1>3. verdict' = [verdict EXCEPT ![c] = "not passed"]
  BY <1>1, <1>2 DEF verdict
<1> QED
  BY <1>1, <1>3 DEF Verdicts!NotPass, verdict

LEMMA CallRefines ==
  ASSUME IInv, IInv', NEW c \in Call, CallStep(c) \/ DockerStep(c)
  PROVE  [Verdicts!Next]_Verdicts!vars
<1>1. Aside(c) /\ Known(c) /\ tree \in Tree
  BY CallTypes DEF IInv, TypeOK
<1>2. pc \in [Call -> Phase] /\ pc' \in [Call -> Phase]
  BY DEF IInv, TypeOK, Phase
<1>3. ASSUME Verdicts!NotPass(c)
      PROVE  [Verdicts!Next]_Verdicts!vars
  BY <1>3 DEF Verdicts!Next
<1>4. CASE DetectCommand(c) \/ DetectFails(c) \/ DockerUnavailable(c) \/ NoWorkspace(c)
  <2>1. tree' = tree /\ copied' = copied /\ pc[c] # "returned"
    BY <1>4 DEF DetectCommand, DetectFails, DockerUnavailable, NoWorkspace, copying
  <2>2. \/ pc'[c] # "returned"
        \/ pc'[c] = "returned" /\ answer'[c] # "zero"
    BY <1>4 DEF DetectCommand, DetectFails, DockerUnavailable, NoWorkspace, Goto, Tell, Raise,
                IInv, TypeOK
  <2> QED
    BY <1>1, <1>2, <1>3, <2>1, <2>2, Stutters, Fails
<1>5. CASE \/ CheckDockerAvailable(c) \/ MakeWorkspace(c) \/ ListRootFails(c) \/ FinishCopy(c)
           \/ RunReturns(c) \/ RunTimesOut(c) \/ RunFails(c) \/ RunRaises(c)
           \/ KillContainer(c) \/ KillRefused(c) \/ KillRaises(c)
  <2>1. tree' = tree /\ copied' = copied /\ pc[c] # "returned" /\ pc'[c] # "returned"
    BY <1>5 DEF CheckDockerAvailable, MakeWorkspace, ListRootFails, FinishCopy, RunReturns,
                RunTimesOut, RunFails, RunRaises, KillContainer, KillRefused, KillRaises,
                Goto, copying, IInv, TypeOK
  <2> QED
    BY <1>1, <1>2, <2>1, Stutters
<1>6. CASE \/ \E x \in File \cup Dir : CopyFails(c, x)
           \/ RequestCreate(c) \/ CreateContainer(c) \/ RequestStart(c) \/ StartContainer(c)
           \/ TestsWrite(c) \/ TestsEnd(c)
  <2>1. tree' = tree /\ copied' = copied /\ pc' = pc /\ answer' = answer
    BY <1>6 DEF CopyFails, RequestCreate, CreateContainer, RequestStart, StartContainer,
                TestsWrite, TestsEnd, copying
  <2> QED
    BY <1>1, <1>2, <2>1, Stutters
<1>7. ASSUME NEW d \in Dir, ListDirectory(c, d)
      PROVE  [Verdicts!Next]_Verdicts!vars
  <2>1. PICK subs \in SUBSET Sub[d] :
          LET found  == {f \in Own(d) : Exists(f)} \cup subs
              missed == {f \in Under[d] : \A x \in found : f \notin Covers(x)}
          IN  /\ \A e \in Sub[d] : (\E f \in Under[e] : Exists(f)) => e \in subs
              /\ copied' = [copied EXCEPT ![c] =
                   [f \in File |-> IF f \in missed THEN Absent ELSE copied[c][f]]]
    BY <1>7 DEF ListDirectory
  <2> DEFINE found  == {f \in Own(d) : Exists(f)} \cup subs
             missed == {f \in Under[d] : \A x \in found : f \notin Covers(x)}
  <2>2. d \in todo[c] /\ Covers(d) = Under[d] /\ missed \in SUBSET File
    BY <1>7, LayoutAssumption DEF ListDirectory, Covers
  <2>3. \A f \in missed : copied[c][f] = Unread
    BY <1>1, <2>2 DEF Known, Ahead
  <2>4. ASSUME NEW f \in missed, Exists(f)
        PROVE  FALSE
    <3>1. CASE f \in Own(d)
      <4>1. f \in found /\ Covers(f) = {f}
        BY <2>4, <3>1, LayoutAssumption DEF Covers, Own
      <4> QED
        BY <4>1
    <3>2. CASE f \notin Own(d)
      <4>1. PICK e \in Sub[d] : f \in Under[e]
        BY <3>2 DEF Own
      <4>2. e \in found /\ Covers(e) = Under[e]
        BY <2>1, <2>4, <4>1, LayoutAssumption DEF Covers
      <4> QED
        BY <4>1, <4>2
    <3> QED
      BY <3>1, <3>2
  <2>5. copied' = [copied EXCEPT ![c] =
                     [f \in File |-> IF f \in missed THEN Absent ELSE copied[c][f]]]
    BY <2>1
  <2> HIDE DEF found, missed
  <2>6. tree' = tree /\ pc' = pc /\ pc[c] = "copy" /\ answer' = answer
    BY <1>7 DEF ListDirectory
  <2>7. verdict' = verdict /\ verdict[c] = "open"
    BY <2>6 DEF verdict
  <2>8. Verdicts!Miss(c, missed)
    BY <2>3, <2>4, <2>5, <2>6, <2>7 DEF Verdicts!Miss, verdict, Exists
  <2> QED
    BY <2>2, <2>8 DEF Verdicts!Next
<1>8. ASSUME NEW f \in File, CopyFile(c, f)
      PROVE  [Verdicts!Next]_Verdicts!vars
  <2>1. /\ copied[c][f] = Unread /\ tree' = tree /\ pc' = pc /\ pc[c] = "copy"
        /\ answer' = answer /\ Exists(f)
        /\ copied' = [copied EXCEPT ![c][f] = tree[f]]
    BY <1>1, <1>8, LayoutAssumption DEF CopyFile, Known, Ahead, Covers
  <2>2. verdict' = verdict /\ verdict[c] = "open"
    BY <2>1 DEF verdict
  <2>3. Verdicts!Read(c, f)
    BY <2>1, <2>2 DEF Verdicts!Read, verdict, Exists
  <2> QED
    BY <2>3 DEF Verdicts!Next
<1>9. CASE RemoveWorkspace(c)
  <2>1. /\ tree' = tree /\ copied' = copied /\ pc[c] = "leave" /\ pc'[c] = "returned"
        /\ answer' = answer
    BY <1>9 DEF RemoveWorkspace, Goto, copying, IInv, TypeOK
  <2>2. CASE answer[c] = "zero"
    <3>1. copied[c] \in Passing
      BY <1>1, <2>2 DEF Known, Ended
    <3>2. verdict[c] = "open" /\ verdict'[c] = "passed"
      BY <2>1, <2>2 DEF verdict, passed
    <3>3. \A d \in Call \ {c} : verdict'[d] = verdict[d]
      BY <1>1 DEF verdict, Aside
    <3>4. verdict' = [verdict EXCEPT ![c] = "passed"]
      BY <3>2, <3>3 DEF verdict
    <3>5. Verdicts!Pass(c)
      BY <2>1, <3>1, <3>2, <3>4 DEF Verdicts!Pass, verdict
    <3> QED
      BY <3>5 DEF Verdicts!Next
  <2>3. CASE answer[c] # "zero"
    BY <1>1, <1>3, <2>1, <2>3, Fails
  <2> QED
    BY <2>2, <2>3
<1>10. CASE RemovalFails(c)
  <2>1. /\ tree' = tree /\ copied' = copied /\ pc[c] = "leave" /\ pc'[c] = "returned"
        /\ answer'[c] = "error"
    BY <1>10 DEF RemovalFails, Raise, Goto, Tell, copying, IInv, TypeOK
  <2> QED
    BY <1>1, <1>3, <2>1, Fails
<1> QED
  BY <1>4, <1>5, <1>6, <1>7, <1>8, <1>9, <1>10 DEF CallStep, DockerStep

LEMMA NextRefines == IInv /\ IInv' /\ [Next]_vars => [Verdicts!Next]_Verdicts!vars
<1> SUFFICES ASSUME IInv, IInv', [Next]_vars PROVE [Verdicts!Next]_Verdicts!vars
  OBVIOUS
<1>1. CASE UNCHANGED vars
  BY <1>1 DEF vars, copying, Verdicts!vars, verdict
<1>2. ASSUME NEW c \in Call, CallStep(c) \/ DockerStep(c)
      PROVE  [Verdicts!Next]_Verdicts!vars
  BY <1>2, CallRefines
<1>3. ASSUME NEW f \in File, Edit(f)
      PROVE  [Verdicts!Next]_Verdicts!vars
  <2>1. tree' \in Verdicts!Tree
    BY <1>3 DEF IInv, TypeOK, Tree, Verdicts!Tree
  <2>2. Verdicts!Edit
    BY <1>3, <2>1 DEF Edit, copying, Verdicts!Edit, verdict
  <2> QED
    BY <2>2 DEF Verdicts!Next
<1> QED
  BY <1>1, <1>2, <1>3 DEF Next

\* The runner implements TestVerdicts: it says "passed" only if the tests of just
\* what it has copied can pass, each file as it was, or missing as it was, when
\* copytree got to it, and leaves the repository alone ("never the real
\* repository", docker_runner.py:15).
THEOREM VerdictsImplemented == Spec => ImplementsVerdicts
<1>1. Init => Verdicts!Init
  BY InitRefines
<1>2. IInv /\ IInv' /\ [Next]_vars => [Verdicts!Next]_Verdicts!vars
  BY NextRefines
<1>3. Spec => []IInv
  BY Invariance
<1> QED
  BY <1>1, <1>2, <1>3, PTL DEF Spec, ImplementsVerdicts, Verdicts!Spec
=============================================================================
