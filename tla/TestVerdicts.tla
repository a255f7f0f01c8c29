---------------------------- MODULE TestVerdicts ----------------------------
(***************************************************************************)
(* What a caller may rely on when tests are run in a sandbox, without      *)
(* containers, commands or deadlines: a call sees each file once, as it is *)
(* or as missing, at moments of its own choice that differ from file to    *)
(* file, and says "passed" only if the tests of just what it has seen can  *)
(* pass.  What it has seen may be a tree that never was: a file moved      *)
(* between two looks may be seen twice or not at all.  Nobody but the      *)
(* editors ever changes the tree.                                          *)
(***************************************************************************)
CONSTANTS
  Call,       \* calls of DockerTestRunner.run
  File,       \* paths of the repository
  Content,    \* contents of files
  Absent,     \* the state of a path where there is no file
  Unread,     \* the mark of a file that is not yet seen
  Passing     \* the trees whose tests can exit with 0

VARIABLES
  tree,       \* the real repository
  sample,     \* what each call has seen of it
  verdict     \* what each call has told its caller

vars == <<tree, sample, verdict>>

Tree == [File -> Content \cup {Absent}]

Init ==
  /\ tree \in Tree
  /\ sample = [c \in Call |-> [f \in File |-> Unread]]
  /\ verdict = [c \in Call |-> "open"]

\* Some names are looked for together, those of one directory say, and these
\* are not there.  They will not be looked for again.
Miss(c, F) ==
  /\ verdict[c] = "open"
  /\ \A f \in F : sample[c][f] = Unread /\ tree[f] = Absent
  /\ sample' = [sample EXCEPT ![c] =
                    [f \in File |-> IF f \in F THEN Absent ELSE sample[c][f]]]
  /\ UNCHANGED <<tree, verdict>>

Read(c, f) ==
  /\ verdict[c] = "open"
  /\ sample[c][f] = Unread
  /\ tree[f] # Absent
  /\ sample' = [sample EXCEPT ![c][f] = tree[f]]
  /\ UNCHANGED <<tree, verdict>>

Pass(c) ==
  /\ verdict[c] = "open"
  /\ sample[c] \in Passing
  /\ verdict' = [verdict EXCEPT ![c] = "passed"]
  /\ UNCHANGED <<tree, sample>>

\* The tests failed, took too long, could not be found or could not be run.
NotPass(c) ==
  /\ verdict[c] = "open"
  /\ verdict' = [verdict EXCEPT ![c] = "not passed"]
  /\ UNCHANGED <<tree, sample>>

Edit ==
  /\ tree' \in Tree
  /\ UNCHANGED <<sample, verdict>>

Next ==
  \/ \E c \in Call, F \in SUBSET File : Miss(c, F)
  \/ \E c \in Call : Pass(c) \/ NotPass(c)
  \/ \E c \in Call, f \in File : Read(c, f)
  \/ Edit

Spec == Init /\ [][Next]_vars
=============================================================================
