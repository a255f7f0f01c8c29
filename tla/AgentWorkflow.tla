--------------------------- MODULE AgentWorkflow ---------------------------
(***************************************************************************)
(* The agent's workflow graph: one conversation per thread_id walks the    *)
(* nodes that agent/graph.py wires together, stops at a human approval,    *)
(* writes an approved change to the repository and verifies it by running  *)
(* the tests, with a bounded number of human-approved fix attempts.        *)
(*                                                                         *)
(* A step is one node, as LangGraph runs it: the node reads the state of   *)
(* its thread, returns the fields it changes, and a router picks the next  *)
(* node.  Three nodes are cut in two where the world can move under them:  *)
(* propose_change (the file is read, then a language model writes the new  *)
(* content), apply_change (the file is compared, then written) and         *)
(* run_tests_after_apply (the tests start, then they finish).              *)
(***************************************************************************)
EXTENDS Naturals

CONSTANTS
  Thread,            \* conversations
  File,              \* repository files the index can point at
  Content,           \* contents of a readable file
  Absent,            \* stands for a file that is missing or not UTF-8
  NoChange,          \* stands for a proposal that was not made yet
  MaxRetries,        \* MAX_RETRIES: broader searches after an empty one
  MaxFixIterations   \* MAX_FIX_ITERATIONS: fix attempts after failing tests

ASSUME MaxRetriesAssumption == MaxRetries \in Nat
ASSUME MaxFixIterationsAssumption == MaxFixIterations \in Nat
ASSUME AbsentAssumption == Absent \notin Content

VARIABLES
  pc,      \* the node each thread is at; "human_approval" is the interrupt
  state,   \* the AgentState of each thread
  draft,   \* the file and content propose_change has read, while it generates
  repo,    \* the repository's files, shared by all threads and by editors
  tally    \* history: what the current run of a thread has done so far

vars == <<pc, state, draft, repo, tally>>
-----------------------------------------------------------------------------
(* State of a thread. *)

TaskType == {"answer", "modify", "test"}

Change == [file : File, original : Content, proposed : Content]

Draft == [file : File, original : Content]

\* final_response, by what it tells the caller.
Report == {"none", "answer", "tests", "no_tests", "not_proposed",
           "not_approved", "not_applied", "applied", "applied_unverified",
           "applied_passed", "applied_gave_up"}

AgentState ==
  [task_type        : TaskType \cup {"none"},
   found            : BOOLEAN,               \* ranked_candidates is not empty
   retry_count      : 0 .. MaxRetries,
   should_retry     : BOOLEAN,
   approved         : {"undecided", "approved", "rejected"},
   applied          : BOOLEAN,
   has_proposal     : BOOLEAN,
   proposal         : Change \cup {NoChange},
   loop_deadline    : {"unset", "running", "over"},
   fix_iteration    : 0 .. MaxFixIterations,
   should_retry_fix : BOOLEAN,
   test_ran         : BOOLEAN,
   test_passed      : {"unknown", "passed", "failed"},
   final_response   : Report]

initial_state ==
  [task_type |-> "none", found |-> FALSE, retry_count |-> 0,
   should_retry |-> FALSE, approved |-> "undecided", applied |-> FALSE,
   has_proposal |-> FALSE, proposal |-> NoChange, loop_deadline |-> "unset",
   fix_iteration |-> 0, should_retry_fix |-> FALSE, test_ran |-> FALSE,
   test_passed |-> "unknown", final_response |-> "none"]

\* Where a caller holds no pending call: run() or resume() has returned or
\* raised, or was never called.
Quiet == {"idle", "human_approval", "end", "failed"}

\* The nodes, with the second half of those that are cut in two.
Busy == {"task_analyzer", "planner", "repository_search", "graph_search",
         "code_analyzer", "decision", "answer", "test", "propose_change",
         "generate_change", "apply_change", "write_change",
         "run_tests_after_apply", "await_tests"}

Node == Quiet \cup Busy

\* History of a run: approvals asked for, files written and test runs that
\* verify a write.  The counts stop one above what the code allows, which is
\* enough to see the allowance exceeded.
TallyBound == MaxFixIterations + 2

Tally == [asked : 0 .. TallyBound, writes : 0 .. TallyBound, tests : 0 .. TallyBound]

NoTally == [asked |-> 0, writes |-> 0, tests |-> 0]

Count(n) == IF n < TallyBound THEN n + 1 ELSE n
-----------------------------------------------------------------------------
(* Routers and decisions, over the state s a node returns. *)

\* Mutant: one retry too many.
ShouldRetryOnceMore(s) == ~ s.found /\ s.retry_count <= MaxRetries

ShouldRetry(s) == ~ s.found /\ s.retry_count < MaxRetries

RouteAfterAnalysis(s) == IF s.should_retry THEN "repository_search" ELSE "decision"

RouteDecision(s) ==
  IF s.task_type = "modify" THEN "propose_change"
  ELSE IF s.task_type = "test" THEN "test" ELSE "answer"

RouteAfterProposal(s) == IF s.has_proposal THEN "human_approval" ELSE "end"

RouteAfterApply(s) == IF s.applied THEN "run_tests_after_apply" ELSE "end"

\* Mutant: only the clock bounds the loop.
CanRetryFixInTime(s) == s.loop_deadline = "running"

CanRetryFix(s) ==
  s.fix_iteration < MaxFixIterations /\ s.loop_deadline = "running"

RouteAfterTestCheck(s) == IF s.should_retry_fix THEN "propose_change" ELSE "end"

\* Mutant: only a missing file is refused.
IsStaleWhenGone(p) == repo[p.file] = Absent

\* The file moved on since the proposal p was made from it.
IsStale(p) == repo[p.file] # p.original
-----------------------------------------------------------------------------
(* Steps of the nodes. *)

\* The node of thread t returns: its state becomes s and it moves on to n.
Return(t, s, n) ==
  /\ state' = [state EXCEPT ![t] = s]
  /\ pc' = [pc EXCEPT ![t] = n]

Goto(t, n) == Return(t, state[t], n)

TaskAnalyzer(t) ==
  /\ pc[t] = "task_analyzer"
  /\ \E k \in TaskType : Return(t, [state[t] EXCEPT !.task_type = k], "planner")
  /\ UNCHANGED <<draft, repo, tally>>

\* The plan is a sentence for the log; nothing depends on it.
Planner(t) ==
  /\ pc[t] = "planner"
  /\ Goto(t, "repository_search")
  /\ UNCHANGED <<draft, repo, tally>>

\* Vector and keyword search over the index, which may find nothing.
RepositorySearch(t) ==
  /\ pc[t] = "repository_search"
  /\ \E found \in BOOLEAN :
       Return(t, [state[t] EXCEPT !.found = found], "graph_search")
  /\ UNCHANGED <<draft, repo, tally>>

\* Expands the seeds the search found; without seeds there is nothing to add.
GraphSearch(t) ==
  /\ pc[t] = "graph_search"
  /\ Goto(t, "code_analyzer")
  /\ UNCHANGED <<draft, repo, tally>>

\* Mutant: the retry is not counted.
CodeAnalyzerUncounted(t) ==
  /\ pc[t] = "code_analyzer"
  /\ LET s == [state[t] EXCEPT !.should_retry = ShouldRetry(state[t])]
     IN  Return(t, s, RouteAfterAnalysis(s))
  /\ UNCHANGED <<draft, repo, tally>>

CodeAnalyzer(t) ==
  /\ pc[t] = "code_analyzer"
  /\ LET retry == ShouldRetry(state[t])
         s == [state[t] EXCEPT
                 !.should_retry = retry,
                 !.retry_count = IF retry THEN @ + 1 ELSE @]
     IN  Return(t, s, RouteAfterAnalysis(s))
  /\ UNCHANGED <<draft, repo, tally>>

Decision(t) ==
  /\ pc[t] = "decision"
  /\ Goto(t, RouteDecision(state[t]))
  /\ UNCHANGED <<draft, repo, tally>>

Answer(t) ==
  /\ pc[t] = "answer"
  /\ Return(t, [state[t] EXCEPT !.final_response = "answer"], "end")
  /\ UNCHANGED <<draft, repo, tally>>

\* A standalone test request: no test command and no Docker are answers too.
Test(t) ==
  /\ pc[t] = "test"
  /\ \/ \E verdict \in {"passed", "failed"} :
          Return(t, [state[t] EXCEPT !.test_ran = TRUE,
                                     !.test_passed = verdict,
                                     !.final_response = "tests"], "end")
     \/ Return(t, [state[t] EXCEPT !.final_response = "no_tests"], "end")
  /\ UNCHANGED <<draft, repo, tally>>

\* propose_change, first half: the index names a file and it is read.
ProposeRead(t) ==
  /\ pc[t] = "propose_change"
  /\ \E f \in File :
       /\ repo[f] # Absent
       /\ draft' = [draft EXCEPT ![t] = [file |-> f, original |-> repo[f]]]
  /\ Goto(t, "generate_change")
  /\ UNCHANGED <<repo, tally>>

\* propose_change gives up: no file is relevant, or the one that is cannot be
\* read.
ProposeNothing(t) ==
  /\ pc[t] = "propose_change"
  /\ LET s == [state[t] EXCEPT !.has_proposal = FALSE,
                               !.final_response = "not_proposed"]
     IN  Return(t, s, RouteAfterProposal(s))
  /\ UNCHANGED <<draft, repo, tally>>

\* propose_change, second half: the model returns the new content and the
\* workflow stops at the interrupt that shows the diff.
Propose(t) ==
  /\ pc[t] = "generate_change"
  /\ \E new \in Content :
       LET s == [state[t] EXCEPT
                   !.has_proposal = TRUE,
                   !.proposal = [file |-> draft[t].file,
                                 original |-> draft[t].original,
                                 proposed |-> new]]
       IN  Return(t, s, RouteAfterProposal(s))
  /\ draft' = [draft EXCEPT ![t] = NoChange]
  /\ tally' = [tally EXCEPT ![t].asked = Count(@)]
  /\ UNCHANGED repo

\* Mutant: a rejection leaves the applied flag of the previous change.
ApplyRejectedNoReset(t) ==
  /\ pc[t] = "apply_change"
  /\ state[t].approved # "approved"
  /\ LET s == [state[t] EXCEPT !.final_response = "not_approved"]
     IN  Return(t, s, RouteAfterApply(s))
  /\ UNCHANGED <<draft, repo, tally>>

\* apply_change without an approval: nothing is written and the run ends.
ApplyRejected(t) ==
  /\ pc[t] = "apply_change"
  /\ state[t].approved # "approved"
  /\ LET s == [state[t] EXCEPT !.applied = FALSE,
                               !.final_response = "not_approved"]
     IN  Return(t, s, RouteAfterApply(s))
  /\ UNCHANGED <<draft, repo, tally>>

\* apply_change re-reads the file and refuses when it is gone or changed.
ApplyRefused(t) ==
  /\ pc[t] = "apply_change"
  /\ state[t].approved = "approved"
  /\ IsStale(state[t].proposal)
  /\ LET s == [state[t] EXCEPT !.applied = FALSE,
                               !.final_response = "not_applied"]
     IN  Return(t, s, RouteAfterApply(s))
  /\ UNCHANGED <<draft, repo, tally>>

\* The re-read found the content the proposal was made from.
ApplyChecked(t) ==
  /\ pc[t] = "apply_change"
  /\ state[t].approved = "approved"
  /\ ~ IsStale(state[t].proposal)
  /\ Goto(t, "write_change")
  /\ UNCHANGED <<draft, repo, tally>>

\* Mutant: the write is not marked as applied.
ApplyWriteUnmarked(t) ==
  /\ pc[t] = "write_change"
  /\ LET p == state[t].proposal
         s == [state[t] EXCEPT !.final_response = "applied"]
     IN  /\ repo' = [repo EXCEPT ![p.file] = p.proposed]
         /\ Return(t, s, RouteAfterApply(s))
  /\ tally' = [tally EXCEPT ![t].writes = Count(@)]
  /\ UNCHANGED draft

\* apply_change writes the approved content over whatever is there by now.
ApplyWrite(t) ==
  /\ pc[t] = "write_change"
  /\ LET p == state[t].proposal
         s == [state[t] EXCEPT !.applied = TRUE, !.final_response = "applied"]
     IN  /\ repo' = [repo EXCEPT ![p.file] = p.proposed]
         /\ Return(t, s, RouteAfterApply(s))
  /\ tally' = [tally EXCEPT ![t].writes = Count(@)]
  /\ UNCHANGED draft

\* write_text truncates the file before it writes: an OSError on the way
\* leaves a part of the new content behind and escapes the node.
ApplyBreaks(t) ==
  /\ pc[t] = "write_change"
  /\ \E rest \in Content :
       repo' = [repo EXCEPT ![state[t].proposal.file] = rest]
  /\ Goto(t, "failed")
  /\ UNCHANGED <<draft, tally>>

\* run_tests_after_apply, first half: the clock of the loop starts with the
\* first verification, then the sandbox copies the repository and runs.
RunTestsStart(t) ==
  /\ pc[t] = "run_tests_after_apply"
  /\ Return(t, [state[t] EXCEPT
                  !.loop_deadline = IF @ = "unset" THEN "running" ELSE @],
            "await_tests")
  /\ UNCHANGED <<draft, repo, tally>>

\* No test command was detected or Docker is not there.
TestsUnavailable(t) ==
  /\ pc[t] = "await_tests"
  /\ LET s == [state[t] EXCEPT !.test_ran = FALSE,
                               !.should_retry_fix = FALSE,
                               !.final_response = "applied_unverified"]
     IN  Return(t, s, RouteAfterTestCheck(s))
  /\ UNCHANGED <<draft, repo, tally>>

TestsPass(t) ==
  /\ pc[t] = "await_tests"
  /\ LET s == [state[t] EXCEPT !.test_ran = TRUE,
                               !.test_passed = "passed",
                               !.should_retry_fix = FALSE,
                               !.final_response = "applied_passed"]
     IN  Return(t, s, RouteAfterTestCheck(s))
  /\ tally' = [tally EXCEPT ![t].tests = Count(@)]
  /\ UNCHANGED <<draft, repo>>

\* Mutant: a fix attempt is not counted.
TestsFailUncounted(t) ==
  /\ pc[t] = "await_tests"
  /\ LET retry == CanRetryFix(state[t])
         s == [state[t] EXCEPT
                 !.test_ran = TRUE,
                 !.test_passed = "failed",
                 !.should_retry_fix = retry,
                 !.final_response = IF retry THEN @ ELSE "applied_gave_up"]
     IN  Return(t, s, RouteAfterTestCheck(s))
  /\ tally' = [tally EXCEPT ![t].tests = Count(@)]
  /\ UNCHANGED <<draft, repo>>

\* The tests fail or time out: another fix attempt, if both bounds allow it.
TestsFail(t) ==
  /\ pc[t] = "await_tests"
  /\ LET retry == CanRetryFix(state[t])
         s == [state[t] EXCEPT
                 !.test_ran = TRUE,
                 !.test_passed = "failed",
                 !.should_retry_fix = retry,
                 !.fix_iteration = IF retry THEN @ + 1 ELSE @,
                 !.final_response = IF retry THEN @ ELSE "applied_gave_up"]
     IN  Return(t, s, RouteAfterTestCheck(s))
  /\ tally' = [tally EXCEPT ![t].tests = Count(@)]
  /\ UNCHANGED <<draft, repo>>

\* A database, the model provider, the file system or the sandbox raises
\* something the node does not catch, and run() or resume() raises it too.
Raise(t) ==
  /\ pc[t] \in {"repository_search", "graph_search", "answer", "test",
                "propose_change", "generate_change", "apply_change",
                "write_change", "run_tests_after_apply", "await_tests"}
  /\ Goto(t, "failed")
  /\ UNCHANGED <<draft, repo, tally>>
-----------------------------------------------------------------------------
(* Steps of the caller and of the world. *)

\* AgentService.run: a run starts from initial_state, also on a thread that
\* has run before, and drops an approval that is still pending.
Run(t) ==
  /\ pc[t] \in Quiet
  /\ Return(t, initial_state, "task_analyzer")
  /\ draft' = [draft EXCEPT ![t] = NoChange]
  /\ tally' = [tally EXCEPT ![t] = NoTally]
  /\ UNCHANGED repo

\* AgentService.resume: the human's decision is the value of the interrupt.
Resume(t, approved) ==
  /\ pc[t] = "human_approval"
  /\ Return(t, [state[t] EXCEPT
                  !.approved = IF approved THEN "approved" ELSE "rejected"],
            "apply_change")
  /\ UNCHANGED <<draft, repo, tally>>

\* MAX_LOOP_SECONDS have gone by since the first verification began.
BudgetElapses(t) ==
  /\ pc[t] \in Busy \cup {"human_approval"}
  /\ state[t].loop_deadline = "running"
  /\ state' = [state EXCEPT ![t].loop_deadline = "over"]
  /\ UNCHANGED <<pc, draft, repo, tally>>

\* Someone edits, creates or removes a file while the agent works or waits.
Edit(f) ==
  /\ \E c \in Content \cup {Absent} : repo' = [repo EXCEPT ![f] = c]
  /\ UNCHANGED <<pc, state, draft, tally>>
-----------------------------------------------------------------------------
Init ==
  /\ pc = [t \in Thread |-> "idle"]
  /\ state = [t \in Thread |-> initial_state]
  /\ draft = [t \in Thread |-> NoChange]
  /\ repo \in [File -> Content \cup {Absent}]
  /\ tally = [t \in Thread |-> NoTally]

\* What a pending run() or resume() does next on its own.
Step(t) ==
  \/ TaskAnalyzer(t) \/ Planner(t) \/ RepositorySearch(t) \/ GraphSearch(t)
  \/ CodeAnalyzer(t) \/ Decision(t) \/ Answer(t) \/ Test(t)
  \/ ProposeRead(t) \/ ProposeNothing(t) \/ Propose(t)
  \/ ApplyRejected(t) \/ ApplyRefused(t) \/ ApplyChecked(t)
  \/ ApplyWrite(t) \/ ApplyBreaks(t)
  \/ RunTestsStart(t) \/ TestsUnavailable(t) \/ TestsPass(t) \/ TestsFail(t)

Answered(t) == \E approved \in BOOLEAN : Resume(t, approved)

Next ==
  \/ \E t \in Thread :
       Step(t) \/ Raise(t) \/ Run(t) \/ Answered(t) \/ BudgetElapses(t)
  \/ \E f \in File : Edit(f)

Spec == Init /\ [][Next]_vars

\* A pending call goes on: run() and resume() are synchronous and every
\* external call they make returns or raises.  Failing is not owed to anyone
\* (Raise has no fairness), nor do callers, humans and editors owe a step.
Fairness == \A t \in Thread : WF_vars(Step(t))

FairSpec == Spec /\ Fairness
-----------------------------------------------------------------------------
(* Properties. *)

\* The types of the variables.
TypeOK ==
  /\ pc \in [Thread -> Node]
  /\ state \in [Thread -> AgentState]
  /\ draft \in [Thread -> Draft \cup {NoChange}]
  /\ repo \in [File -> Content \cup {Absent}]
  /\ tally \in [Thread -> Tally]

\* "Never allow the agent to autonomously make unlimited changes"
\* (agent/state.py): one run asks for at most 1 + MaxFixIterations approvals,
\* writes no more often than it asked, and runs no verification that is not
\* of a write of its own.
BoundedLoop ==
  \A t \in Thread :
    /\ tally[t].asked <= MaxFixIterations + 1
    /\ tally[t].writes <= tally[t].asked
    /\ tally[t].tests <= tally[t].writes

\* What the final response says of a change is what happened: "passed" means
\* that every proposal of the run was written and verified and the last
\* verification passed; "giving up" means that the last one failed and a bound
\* of the loop was really reached.
HonestVerdict ==
  \A t \in Thread :
    LET s == state[t]
        n == tally[t]
        AllVerified == /\ s.applied /\ s.test_ran
                       /\ n.writes = s.fix_iteration + 1
                       /\ n.asked = n.writes /\ n.tests = n.writes
    IN  /\ s.final_response = "applied_passed" =>
             AllVerified /\ s.test_passed = "passed"
        /\ s.final_response = "applied_gave_up" =>
             /\ AllVerified /\ s.test_passed = "failed"
             /\ s.fix_iteration = MaxFixIterations \/ s.loop_deadline = "over"

\* A run that ends normally after writing has verified its last write, or its
\* response says that it could not.
UnverifiedIsReported ==
  \A t \in Thread :
    pc[t] = "end" /\ tally[t].tests < tally[t].writes =>
      state[t].final_response = "applied_unverified" /\ ~ state[t].test_ran

\* The final response never claims more than what happened.
ReportsAreHonest == HonestVerdict /\ UnverifiedIsReported

\* A rejection settles the run: until the caller starts a new one, the thread
\* asks for nothing more and writes nothing more, fix loop or not.
RejectionIsFinal ==
  [][\A t \in Thread :
       state[t].approved = "rejected" /\ pc'[t] # "task_analyzer" =>
         state'[t].approved = "rejected" /\ tally'[t] = tally[t]]_vars

\* The workflow implements ApprovalGate: a file is only ever changed by
\* carrying out the change that was shown and approved, once per approval, and
\* only after a comparison that, since the approval, found in the file what
\* the human saw replaced.  The write itself may find something else there
\* (modification/service.py:79-85 compares, then writes).
PhaseOf(p, s) ==
  IF p \in {"idle", "end", "failed"} THEN "closed"
  ELSE IF p = "human_approval" THEN "asking"
  ELSE IF p = "write_change" THEN "checked"
  ELSE IF p # "apply_change" THEN "thinking"
  ELSE IF s.approved = "approved" THEN "granted" ELSE "closed"

ChangeOf(p, s) ==
  IF PhaseOf(p, s) \in {"asking", "granted", "checked"} THEN s.proposal ELSE NoChange

gatePhase == [t \in Thread |-> PhaseOf(pc[t], state[t])]

gateChange == [t \in Thread |-> ChangeOf(pc[t], state[t])]

gateWrites == [t \in Thread |-> tally[t].writes]

Gate == INSTANCE ApprovalGate WITH
          phase <- gatePhase,
          change <- gateChange,
          writes <- gateWrites,
          MaxWrites <- MaxFixIterations + 1

ImplementsGate == Gate!Spec

\* Whoever calls run() or resume() gets an answer, a question or an error.
Responds == \A t \in Thread : pc[t] \in Busy ~> pc[t] \in Quiet

\* When every question is answered, the propose/approve/apply/test loop comes
\* to an end, unless the caller starts over.
LoopEnds ==
  (\A t \in Thread : WF_vars(Answered(t))) =>
    \A t \in Thread :
      pc[t] = "human_approval" ~> pc[t] \in {"end", "failed", "task_analyzer"}

\* "Modification request was not approved [...] No changes were made."
\* (agent/nodes.py:306) is the response only of runs that changed nothing.
NoChangesMeansNone ==
  \A t \in Thread : state[t].final_response = "not_approved" => tally[t].writes = 0
=============================================================================
