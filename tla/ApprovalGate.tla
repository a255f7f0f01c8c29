---------------------------- MODULE ApprovalGate ----------------------------
(***************************************************************************)
(* What the agent promises about the repositories it works on, with        *)
(* everything else hidden: it writes a file only to carry out a change a   *)
(* human was shown and approved, after having seen, since the approval,    *)
(* that the file holds what the human saw replaced; each approval is spent *)
(* by one write, and one run writes at most MaxWrites times.  The agent's  *)
(* workflow (AgentWorkflow) is shown to implement this specification.      *)
(*                                                                         *)
(* Anything may happen to the files between two of the agent's steps,      *)
(* between Compare and Write too: that a write replaces what the human saw *)
(* is NOT promised, and an edit made in that gap is lost.  Nor is that an  *)
(* approved write arrives whole (BrokenWrite).                             *)
(***************************************************************************)
EXTENDS Naturals

CONSTANTS
  Thread,     \* conversations, one thread_id each
  File,       \* paths in the repository
  Content,    \* what a readable file may hold
  Absent,     \* a file that is missing or cannot be read as UTF-8 text
  NoChange,   \* no change is on the table
  MaxWrites   \* how often one run may write

VARIABLES
  repo,       \* the repository's files
  phase,      \* where each conversation is with its human
  change,     \* the change the human was shown, or NoChange
  writes      \* how often the conversation's current run has written

vars == <<repo, phase, change, writes>>

Phase  == {"closed", "thinking", "asking", "granted", "checked"}
Change == [file : File, original : Content, proposed : Content]

Init ==
  /\ repo \in [File -> Content \cup {Absent}]
  /\ phase = [t \in Thread |-> "closed"]
  /\ change = [t \in Thread |-> NoChange]
  /\ writes = [t \in Thread |-> 0]

\* A new run forgets whatever the conversation was about before.
Begin(t) ==
  /\ phase' = [phase EXCEPT ![t] = "thinking"]
  /\ change' = [change EXCEPT ![t] = NoChange]
  /\ writes' = [writes EXCEPT ![t] = 0]
  /\ UNCHANGED repo

\* The human is shown a change; only a run with writes left may ask.
Ask(t) ==
  /\ phase[t] = "thinking"
  /\ writes[t] < MaxWrites
  /\ \E c \in Change : change' = [change EXCEPT ![t] = c]
  /\ phase' = [phase EXCEPT ![t] = "asking"]
  /\ UNCHANGED <<repo, writes>>

\* The human approves exactly the change on the table.
Grant(t) ==
  /\ phase[t] = "asking"
  /\ phase' = [phase EXCEPT ![t] = "granted"]
  /\ UNCHANGED <<repo, change, writes>>

\* The file is looked at once more, and holds what the human saw replaced.
Compare(t) ==
  /\ phase[t] = "granted"
  /\ repo[change[t].file] = change[t].original
  /\ phase' = [phase EXCEPT ![t] = "checked"]
  /\ UNCHANGED <<repo, change, writes>>

\* The one way the agent changes a file; it spends the approval.
Write(t) ==
  /\ phase[t] = "checked"
  /\ repo' = [repo EXCEPT ![change[t].file] = change[t].proposed]
  /\ writes' = [writes EXCEPT ![t] = @ + 1]
  /\ phase' = [phase EXCEPT ![t] = "thinking"]
  /\ change' = [change EXCEPT ![t] = NoChange]

\* An approved write that breaks off leaves its own file in any state.
BrokenWrite(t) ==
  /\ phase[t] = "checked"
  /\ \E c \in Content : repo' = [repo EXCEPT ![change[t].file] = c]
  /\ phase' = [phase EXCEPT ![t] = "closed"]
  /\ change' = [change EXCEPT ![t] = NoChange]
  /\ UNCHANGED writes

\* The run is over: refused, rejected, failed or finished.
Close(t) ==
  /\ phase' = [phase EXCEPT ![t] = "closed"]
  /\ change' = [change EXCEPT ![t] = NoChange]
  /\ UNCHANGED <<repo, writes>>

\* Someone else edits, creates or removes a file.
Edit ==
  /\ \E f \in File, c \in Content \cup {Absent} : repo' = [repo EXCEPT ![f] = c]
  /\ UNCHANGED <<phase, change, writes>>

Next ==
  \/ \E t \in Thread :
       \/ Begin(t) \/ Ask(t) \/ Grant(t) \/ Compare(t)
       \/ Write(t) \/ BrokenWrite(t) \/ Close(t)
  \/ Edit

Spec == Init /\ [][Next]_vars
=============================================================================
