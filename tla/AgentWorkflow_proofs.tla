----------------------- MODULE AgentWorkflow_proofs -----------------------
(***************************************************************************)
(* Proofs about AgentWorkflow for every set of threads, files and contents *)
(* and every value of the two bounds.                                      *)
(*                                                                         *)
(* Every property follows from one inductive invariant, IInv.  It is a     *)
(* type invariant and, for each thread, a condition on the place p the     *)
(* thread is at, its state s, its draft d and its counts n.  An action     *)
(* changes these of one thread only, so the proof that a step keeps IInv   *)
(* comes down, action by action, to the condition on the new values        *)
(* (lemma ThreadMoves).                                                    *)
(***************************************************************************)
EXTENDS AgentWorkflow, TLAPS

\* propose_change generates from a file it has read.
HasDraft(p, d) == p = "generate_change" => d \in Draft

\* Whoever asks, applies or verifies has a proposal in hand.
HasProposal(p, s) ==
  p \in {"human_approval", "apply_change", "write_change",
         "run_tests_after_apply", "await_tests"} => s.proposal \in Change

\* How far the counts of a run are at each part of the loop.
Counted(p, s, n) ==
  /\ p \in {"idle", "task_analyzer", "planner", "repository_search",
            "graph_search", "code_analyzer", "decision", "answer", "test"} =>
       s.fix_iteration = 0 /\ n.asked = 0 /\ n.writes = 0 /\ n.tests = 0
  /\ p \in {"propose_change", "generate_change"} =>
       /\ n.asked = s.fix_iteration
       /\ n.writes = s.fix_iteration /\ n.tests = s.fix_iteration
  /\ p \in {"human_approval", "apply_change", "write_change"} =>
       /\ n.asked = s.fix_iteration + 1
       /\ n.writes = s.fix_iteration /\ n.tests = s.fix_iteration
  /\ p \in {"run_tests_after_apply", "await_tests"} =>
       /\ n.asked = s.fix_iteration + 1
       /\ n.writes = s.fix_iteration + 1 /\ n.tests = s.fix_iteration
  /\ n.asked <= s.fix_iteration + 1 /\ n.writes <= n.asked /\ n.tests <= n.writes

\* The loop's verdict is the last thing a run says, and it is true.
Concluded(p, s, n) ==
  /\ s.final_response \in {"applied_unverified", "applied_passed", "applied_gave_up"} =>
       p = "end"
  /\ s.final_response \in {"applied_passed", "applied_gave_up"} =>
       /\ s.applied /\ s.test_ran /\ n.writes = s.fix_iteration + 1
       /\ n.asked = n.writes /\ n.tests = n.writes
  /\ s.final_response = "applied_passed" => s.test_passed = "passed"
  /\ s.final_response = "applied_gave_up" =>
       /\ s.test_passed = "failed"
       /\ s.fix_iteration = MaxFixIterations \/ s.loop_deadline = "over"
  /\ p = "end" /\ n.tests < n.writes =>
       s.final_response = "applied_unverified" /\ ~ s.test_ran

\* Only a written change is verified, and its verification is on the clock.
Verifies(p, s) ==
  /\ p \in {"run_tests_after_apply", "await_tests"} => s.applied
  /\ p = "await_tests" => s.loop_deadline # "unset"

\* A rejected run has nowhere to go but to its end, and a write is approved.
Decided(p, s) ==
  /\ s.approved = "rejected" => p \in {"apply_change", "end", "failed"}
  /\ p = "write_change" => s.approved = "approved"

ThreadInv(p, s, d, n) ==
  /\ HasDraft(p, d)
  /\ HasProposal(p, s)
  /\ Counted(p, s, n)
  /\ Concluded(p, s, n)
  /\ Verifies(p, s)
  /\ Decided(p, s)

IInv ==
  /\ TypeOK
  /\ \A t \in Thread : ThreadInv(pc[t], state[t], draft[t], tally[t])
-----------------------------------------------------------------------------
(* Lemmas. *)

\* The initial state of a run is a state.
LEMMA InitialState == initial_state \in AgentState
BY MaxRetriesAssumption, MaxFixIterationsAssumption
   DEF initial_state, AgentState, TaskType, Report

\* Nothing is counted when a run starts.
LEMMA NoTallyType == NoTally \in Tally
BY MaxFixIterationsAssumption DEF NoTally, Tally, TallyBound

\* Below its bound a count goes up by one.
LEMMA CountUp ==
  ASSUME NEW n \in 0 .. TallyBound
  PROVE  /\ Count(n) \in 0 .. TallyBound
         /\ n <= MaxFixIterations + 1 => Count(n) = n + 1
BY MaxFixIterationsAssumption DEF Count, TallyBound

\* When thread t returns a state s and goes to p with draft d and counts n,
\* IInv is kept if the thread's own condition holds of the new values.
LEMMA ThreadMoves ==
  ASSUME IInv, NEW t \in Thread, NEW s \in AgentState, NEW p \in Node,
         NEW d \in Draft \cup {NoChange}, NEW n \in Tally,
         Return(t, s, p),
         draft' = [draft EXCEPT ![t] = d],
         tally' = [tally EXCEPT ![t] = n],
         repo' \in [File -> Content \cup {Absent}],
         ThreadInv(p, s, d, n)
  PROVE  IInv'
<1>1. TypeOK'
  BY DEF IInv, TypeOK, Return
<1>2. ASSUME NEW u \in Thread
      PROVE  ThreadInv(pc'[u], state'[u], draft'[u], tally'[u])
  <2>1. CASE u = t
    BY <2>1 DEF IInv, TypeOK, Return
  <2>2. CASE u # t
    <3>1. /\ pc'[u] = pc[u] /\ state'[u] = state[u]
          /\ draft'[u] = draft[u] /\ tally'[u] = tally[u]
      BY <2>2 DEF IInv, TypeOK, Return
    <3>2. ThreadInv(pc[u], state[u], draft[u], tally[u])
      BY DEF IInv
    <3> QED BY <3>1, <3>2
  <2> QED BY <2>1, <2>2
<1> QED BY <1>1, <1>2 DEF IInv

\* The same when only pc and state of the thread change.
LEMMA StateMoves ==
  ASSUME IInv, NEW t \in Thread, NEW s \in AgentState, NEW p \in Node,
         Return(t, s, p), UNCHANGED <<draft, repo, tally>>,
         ThreadInv(p, s, draft[t], tally[t])
  PROVE  IInv'
<1>1. /\ draft[t] \in Draft \cup {NoChange} /\ tally[t] \in Tally
      /\ draft' = [draft EXCEPT ![t] = draft[t]]
      /\ tally' = [tally EXCEPT ![t] = tally[t]]
      /\ repo' \in [File -> Content \cup {Absent}]
  BY DEF IInv, TypeOK
<1> QED BY <1>1, ThreadMoves

LEMMA InitIInv == Init => IInv
<1> SUFFICES ASSUME Init PROVE IInv
  OBVIOUS
<1>1. TypeOK
  BY InitialState, NoTallyType DEF Init, TypeOK, Node, Quiet
<1>2. ThreadInv("idle", initial_state, NoChange, NoTally)
  BY MaxFixIterationsAssumption
     DEF ThreadInv, HasDraft, HasProposal, Counted, Concluded, Verifies, Decided,
         initial_state, NoTally
<1>3. \A t \in Thread : ThreadInv(pc[t], state[t], draft[t], tally[t])
  BY <1>2 DEF Init
<1> QED BY <1>1, <1>3 DEF IInv
-----------------------------------------------------------------------------
(* The invariant is inductive: one lemma for each part of the graph. *)

\* The condition of a thread that is about to step.
LEMMA Current ==
  ASSUME IInv, NEW t \in Thread
  PROVE  /\ ThreadInv(pc[t], state[t], draft[t], tally[t])
         /\ state[t] \in AgentState /\ tally[t] \in Tally
         /\ draft[t] \in Draft \cup {NoChange}
BY DEF IInv, TypeOK

\* Up to the decision nothing is proposed, asked or written.
LEMMA AnalysisKeeps ==
  ASSUME IInv, NEW t \in Thread,
         \/ TaskAnalyzer(t) \/ Planner(t) \/ RepositorySearch(t)
         \/ GraphSearch(t) \/ CodeAnalyzer(t) \/ Decision(t)
  PROVE  IInv'
<1> USE Current
<1>1. CASE TaskAnalyzer(t)
  <2>1. PICK k \in TaskType : Return(t, [state[t] EXCEPT !.task_type = k], "planner")
    BY <1>1 DEF TaskAnalyzer
  <2> DEFINE s == [state[t] EXCEPT !.task_type = k]
  <2>2. s \in AgentState /\ "planner" \in Node
    BY DEF AgentState, Node, Busy
  <2>3. ThreadInv("planner", s, draft[t], tally[t])
    BY <1>1, <2>2 DEF TaskAnalyzer, ThreadInv, HasDraft, HasProposal, Counted, Concluded, Verifies, Decided, AgentState
  <2> QED BY <1>1, <2>1, <2>2, <2>3, StateMoves DEF TaskAnalyzer
<1>2. CASE Planner(t)
  <2>1. ThreadInv("repository_search", state[t], draft[t], tally[t])
    BY <1>2 DEF Planner, ThreadInv, HasDraft, HasProposal, Counted, Concluded, Verifies, Decided
  <2> QED BY <1>2, <2>1, StateMoves DEF Planner, Goto, Node, Busy
<1>3. CASE RepositorySearch(t)
  <2>1. PICK found \in BOOLEAN :
          Return(t, [state[t] EXCEPT !.found = found], "graph_search")
    BY <1>3 DEF RepositorySearch
  <2> DEFINE s == [state[t] EXCEPT !.found = found]
  <2>2. s \in AgentState /\ "graph_search" \in Node
    BY DEF AgentState, Node, Busy
  <2>3. ThreadInv("graph_search", s, draft[t], tally[t])
    BY <1>3, <2>2 DEF RepositorySearch, ThreadInv, HasDraft, HasProposal, Counted, Concluded, Verifies, Decided, AgentState
  <2> QED BY <1>3, <2>1, <2>2, <2>3, StateMoves DEF RepositorySearch
<1>4. CASE GraphSearch(t)
  <2>1. ThreadInv("code_analyzer", state[t], draft[t], tally[t])
    BY <1>4 DEF GraphSearch, ThreadInv, HasDraft, HasProposal, Counted, Concluded, Verifies, Decided
  <2> QED BY <1>4, <2>1, StateMoves DEF GraphSearch, Goto, Node, Busy
<1>5. CASE CodeAnalyzer(t)
  <2> DEFINE retry == ShouldRetry(state[t])
             k == IF retry THEN state[t].retry_count + 1 ELSE state[t].retry_count
             s == [state[t] EXCEPT !.should_retry = retry, !.retry_count = k]
  <2>1. k \in 0 .. MaxRetries /\ retry \in BOOLEAN
    BY MaxRetriesAssumption DEF ShouldRetry, AgentState
  <2>2. s \in AgentState
    <3> HIDE DEF k, retry
    <3> QED BY <2>1, ZenonT(60) DEF AgentState
  <2>3. RouteAfterAnalysis(s) \in {"repository_search", "decision"}
    BY DEF RouteAfterAnalysis
  <2>4. RouteAfterAnalysis(s) \in Node
    BY <2>3 DEF Node, Busy
  <2>5. ThreadInv(RouteAfterAnalysis(s), s, draft[t], tally[t])
    BY <1>5, <2>2, <2>3 DEF CodeAnalyzer, ThreadInv, HasDraft, HasProposal, Counted, Concluded, Verifies, Decided, AgentState
  <2>6. Return(t, s, RouteAfterAnalysis(s)) /\ UNCHANGED <<draft, repo, tally>>
    BY <1>5 DEF CodeAnalyzer
  <2> QED BY <2>2, <2>4, <2>5, <2>6, StateMoves
<1>6. CASE Decision(t)
  <2>1. RouteDecision(state[t]) \in {"propose_change", "test", "answer"}
    BY DEF RouteDecision
  <2>2. RouteDecision(state[t]) \in Node
    BY <2>1 DEF Node, Busy
  <2>3. ThreadInv(RouteDecision(state[t]), state[t], draft[t], tally[t])
    BY <1>6, <2>1 DEF Decision, ThreadInv, HasDraft, HasProposal, Counted, Concluded, Verifies, Decided
  <2> QED BY <1>6, <2>2, <2>3, StateMoves DEF Decision, Goto
<1> QED BY <1>1, <1>2, <1>3, <1>4, <1>5, <1>6

\* An answer and a standalone test run end the run with nothing counted.
LEMMA AnswersKeep ==
  ASSUME IInv, NEW t \in Thread, Answer(t) \/ Test(t)
  PROVE  IInv'
<1> USE Current
<1>1. CASE Answer(t)
  <2> DEFINE s == [state[t] EXCEPT !.final_response = "answer"]
  <2>1. s \in AgentState /\ "end" \in Node
    BY DEF AgentState, Report, Node, Quiet
  <2>2. ThreadInv("end", s, draft[t], tally[t])
    BY <1>1, <2>1 DEF Answer, ThreadInv, HasDraft, HasProposal, Counted, Concluded, Verifies, Decided, AgentState
  <2> QED BY <1>1, <2>1, <2>2, StateMoves DEF Answer
<1>2. CASE Test(t)
  <2>1. CASE \E verdict \in {"passed", "failed"} :
               Return(t, [state[t] EXCEPT !.test_ran = TRUE,
                                          !.test_passed = verdict,
                                          !.final_response = "tests"], "end")
    <3>1. PICK verdict \in {"passed", "failed"} :
               Return(t, [state[t] EXCEPT !.test_ran = TRUE,
                                          !.test_passed = verdict,
                                          !.final_response = "tests"], "end")
      BY <2>1
    <3> DEFINE s == [state[t] EXCEPT !.test_ran = TRUE,
                                     !.test_passed = verdict,
                                     !.final_response = "tests"]
    <3>2. s \in AgentState /\ "end" \in Node
      BY ZenonT(60) DEF AgentState, Report, Node, Quiet
    <3>3. ThreadInv("end", s, draft[t], tally[t])
      BY <1>2, <3>2 DEF Test, ThreadInv, HasDraft, HasProposal, Counted, Concluded, Verifies, Decided, AgentState
    <3> QED BY <1>2, <3>1, <3>2, <3>3, StateMoves DEF Test
  <2>2. CASE Return(t, [state[t] EXCEPT !.final_response = "no_tests"], "end")
    <3> DEFINE s == [state[t] EXCEPT !.final_response = "no_tests"]
    <3>1. s \in AgentState /\ "end" \in Node
      BY DEF AgentState, Report, Node, Quiet
    <3>2. ThreadInv("end", s, draft[t], tally[t])
      BY <1>2, <3>1 DEF Test, ThreadInv, HasDraft, HasProposal, Counted, Concluded, Verifies, Decided, AgentState
    <3> QED BY <1>2, <2>2, <3>1, <3>2, StateMoves DEF Test
  <2> QED BY <1>2, <2>1, <2>2 DEF Test
<1> QED BY <1>1, <1>2

\* propose_change reads a readable file, gives up, or asks for an approval.
LEMMA ProposeKeeps ==
  ASSUME IInv, NEW t \in Thread,
         ProposeRead(t) \/ ProposeNothing(t) \/ Propose(t)
  PROVE  IInv'
<1> USE Current
<1>1. CASE ProposeRead(t)
  <2>1. PICK f \in File :
          /\ repo[f] # Absent
          /\ draft' = [draft EXCEPT ![t] = [file |-> f, original |-> repo[f]]]
    BY <1>1 DEF ProposeRead
  <2> DEFINE d == [file |-> f, original |-> repo[f]]
  <2>2. d \in Draft
    BY <2>1 DEF Draft, IInv, TypeOK
  <2>3. ThreadInv("generate_change", state[t], d, tally[t])
    BY <1>1, <2>2 DEF ProposeRead, ThreadInv, HasDraft, HasProposal, Counted, Concluded, Verifies, Decided
  <2>4. /\ Return(t, state[t], "generate_change") /\ "generate_change" \in Node
        /\ tally' = [tally EXCEPT ![t] = tally[t]]
        /\ repo' \in [File -> Content \cup {Absent}]
    BY <1>1 DEF ProposeRead, Goto, IInv, TypeOK, Node, Busy
  <2> QED BY <2>1, <2>2, <2>3, <2>4, ThreadMoves
<1>2. CASE ProposeNothing(t)
  <2> DEFINE s == [state[t] EXCEPT !.has_proposal = FALSE,
                                   !.final_response = "not_proposed"]
  <2>1. s \in AgentState /\ "end" \in Node
    BY ZenonT(60) DEF AgentState, Report, Node, Quiet
  <2>2. RouteAfterProposal(s) = "end"
    BY <2>1 DEF RouteAfterProposal, AgentState
  <2>3. ThreadInv("end", s, draft[t], tally[t])
    BY <1>2, <2>1 DEF ProposeNothing, ThreadInv, HasDraft, HasProposal, Counted, Concluded, Verifies, Decided, AgentState
  <2> QED BY <1>2, <2>1, <2>2, <2>3, StateMoves DEF ProposeNothing
<1>3. CASE Propose(t)
  <2>1. PICK new \in Content :
          LET s == [state[t] EXCEPT
                      !.has_proposal = TRUE,
                      !.proposal = [file |-> draft[t].file,
                                    original |-> draft[t].original,
                                    proposed |-> new]]
          IN  Return(t, s, RouteAfterProposal(s))
    BY <1>3 DEF Propose
  <2> DEFINE c == [file |-> draft[t].file, original |-> draft[t].original,
                   proposed |-> new]
             s == [state[t] EXCEPT !.has_proposal = TRUE, !.proposal = c]
             n == [tally[t] EXCEPT !.asked = Count(@)]
  <2>2. c \in Change
    BY <1>3 DEF Propose, ThreadInv, HasDraft, Draft, Change
  <2>3. s \in AgentState /\ s.proposal = c
    <3> HIDE DEF c
    <3> QED BY <2>2, ZenonT(60) DEF AgentState
  <2>4. RouteAfterProposal(s) = "human_approval" /\ "human_approval" \in Node
    BY <2>3 DEF RouteAfterProposal, AgentState, Node, Quiet
  <2>5. /\ n \in Tally /\ n.asked = tally[t].asked + 1
        /\ n.writes = tally[t].writes /\ n.tests = tally[t].tests
    <3>1. tally[t].asked = state[t].fix_iteration
      BY <1>3 DEF Propose, ThreadInv, Counted
    <3>2. tally[t].asked \in 0 .. TallyBound /\ tally[t].asked <= MaxFixIterations + 1
      BY <3>1, MaxFixIterationsAssumption DEF Tally, AgentState
    <3>3. /\ Count(tally[t].asked) \in 0 .. TallyBound
          /\ Count(tally[t].asked) = tally[t].asked + 1
      BY <3>2, CountUp
    <3> QED BY <3>3 DEF Tally
  <2>6. ThreadInv("human_approval", s, NoChange, n)
    <3>1. /\ s.fix_iteration = state[t].fix_iteration
          /\ s.final_response = state[t].final_response
          /\ s.approved = state[t].approved
      BY DEF AgentState
    <3>2. state[t].fix_iteration \in Nat
      BY MaxFixIterationsAssumption DEF AgentState
    <3> HIDE DEF c, s, n
    <3>3. HasDraft("human_approval", NoChange) /\ HasProposal("human_approval", s)
      BY <2>2, <2>3 DEF HasDraft, HasProposal
    <3>4. Counted("human_approval", s, n)
      <4>1. /\ tally[t].asked = state[t].fix_iteration
            /\ tally[t].writes = state[t].fix_iteration
            /\ tally[t].tests = state[t].fix_iteration
        BY <1>3 DEF Propose, ThreadInv, Counted
      <4>2. /\ n.asked = s.fix_iteration + 1 /\ n.writes = s.fix_iteration
            /\ n.tests = s.fix_iteration /\ s.fix_iteration \in Nat
        BY <2>5, <3>1, <3>2, <4>1
      <4> QED BY <4>2 DEF Counted
    <3>5. Concluded("human_approval", s, n)
      BY <1>3, <2>5, <3>1, <3>2 DEF Propose, ThreadInv, Concluded
    <3>6. Verifies("human_approval", s) /\ Decided("human_approval", s)
      BY <1>3, <3>1 DEF Propose, ThreadInv, Verifies, Decided
    <3> QED BY <3>3, <3>4, <3>5, <3>6 DEF ThreadInv
  <2>7. /\ Return(t, s, "human_approval")
        /\ draft' = [draft EXCEPT ![t] = NoChange]
        /\ tally' = [tally EXCEPT ![t] = n]
        /\ repo' \in [File -> Content \cup {Absent}]
    BY <1>3, <2>1, <2>4 DEF Propose, IInv, TypeOK
  <2> HIDE DEF s, n
  <2> QED BY <2>3, <2>4, <2>5, <2>6, <2>7, ThreadMoves
<1> QED BY <1>1, <1>2, <1>3

\* apply_change refuses and ends the run, or compares, writes and verifies.
LEMMA ApplyKeeps ==
  ASSUME IInv, NEW t \in Thread,
         \/ ApplyRejected(t) \/ ApplyRefused(t) \/ ApplyChecked(t)
         \/ ApplyWrite(t) \/ ApplyBreaks(t)
  PROVE  IInv'
<1> USE Current
<1>1. CASE ApplyRejected(t)
  <2> DEFINE s == [state[t] EXCEPT !.applied = FALSE,
                                   !.final_response = "not_approved"]
  <2>1. s \in AgentState /\ "end" \in Node
    BY ZenonT(60) DEF AgentState, Report, Node, Quiet
  <2>2. RouteAfterApply(s) = "end"
    BY <2>1 DEF RouteAfterApply, AgentState
  <2>3. ThreadInv("end", s, draft[t], tally[t])
    BY <1>1, <2>1 DEF ApplyRejected, ThreadInv, HasDraft, HasProposal, Counted, Concluded, Verifies, Decided, AgentState
  <2> QED BY <1>1, <2>1, <2>2, <2>3, StateMoves DEF ApplyRejected
<1>2. CASE ApplyRefused(t)
  <2> DEFINE s == [state[t] EXCEPT !.applied = FALSE,
                                   !.final_response = "not_applied"]
  <2>1. s \in AgentState /\ "end" \in Node
    BY ZenonT(60) DEF AgentState, Report, Node, Quiet
  <2>2. RouteAfterApply(s) = "end"
    BY <2>1 DEF RouteAfterApply, AgentState
  <2>3. ThreadInv("end", s, draft[t], tally[t])
    BY <1>2, <2>1 DEF ApplyRefused, ThreadInv, HasDraft, HasProposal, Counted, Concluded, Verifies, Decided, AgentState
  <2> QED BY <1>2, <2>1, <2>2, <2>3, StateMoves DEF ApplyRefused
<1>3. CASE ApplyChecked(t)
  <2>1. ThreadInv("write_change", state[t], draft[t], tally[t])
    BY <1>3 DEF ApplyChecked, ThreadInv, HasDraft, HasProposal, Counted, Concluded, Verifies, Decided
  <2> QED BY <1>3, <2>1, StateMoves DEF ApplyChecked, Goto, Node, Busy
<1>4. CASE ApplyWrite(t)
  <2> DEFINE c == state[t].proposal
             s == [state[t] EXCEPT !.applied = TRUE, !.final_response = "applied"]
             n == [tally[t] EXCEPT !.writes = Count(@)]
  <2>1. s \in AgentState /\ "run_tests_after_apply" \in Node
    BY ZenonT(60) DEF AgentState, Report, Node, Busy
  <2>2. RouteAfterApply(s) = "run_tests_after_apply"
    BY <2>1 DEF RouteAfterApply, AgentState
  <2>3. c \in Change
    BY <1>4 DEF ApplyWrite, ThreadInv, HasProposal
  <2>4. /\ n \in Tally /\ n.writes = tally[t].writes + 1
        /\ n.asked = tally[t].asked /\ n.tests = tally[t].tests
    <3>1. tally[t].writes = state[t].fix_iteration
      BY <1>4 DEF ApplyWrite, ThreadInv, Counted
    <3>2. tally[t].writes \in 0 .. TallyBound /\ tally[t].writes <= MaxFixIterations + 1
      BY <3>1, MaxFixIterationsAssumption DEF Tally, AgentState
    <3>3. /\ Count(tally[t].writes) \in 0 .. TallyBound
          /\ Count(tally[t].writes) = tally[t].writes + 1
      BY <3>2, CountUp
    <3> QED BY <3>3 DEF Tally
  <2>5. ThreadInv("run_tests_after_apply", s, draft[t], n)
    <3>1. /\ s.proposal = c /\ s.applied /\ s.final_response = "applied"
          /\ s.fix_iteration = state[t].fix_iteration
          /\ s.approved = state[t].approved
      BY DEF AgentState
    <3>2. state[t].fix_iteration \in Nat
      BY MaxFixIterationsAssumption DEF AgentState
    <3> HIDE DEF c, s, n
    <3>3. /\ HasDraft("run_tests_after_apply", draft[t])
          /\ HasProposal("run_tests_after_apply", s)
      BY <2>3, <3>1 DEF HasDraft, HasProposal
    <3>4. Counted("run_tests_after_apply", s, n)
      <4>1. /\ tally[t].asked = state[t].fix_iteration + 1
            /\ tally[t].writes = state[t].fix_iteration
            /\ tally[t].tests = state[t].fix_iteration
        BY <1>4 DEF ApplyWrite, ThreadInv, Counted
      <4>2. /\ n.asked = s.fix_iteration + 1 /\ n.writes = s.fix_iteration + 1
            /\ n.tests = s.fix_iteration /\ s.fix_iteration \in Nat
        BY <2>4, <3>1, <3>2, <4>1
      <4> QED BY <4>2 DEF Counted
    <3>5. Concluded("run_tests_after_apply", s, n)
      BY <3>1 DEF Concluded
    <3>6. /\ Verifies("run_tests_after_apply", s)
          /\ Decided("run_tests_after_apply", s)
      BY <1>4, <3>1 DEF ApplyWrite, ThreadInv, Verifies, Decided
    <3> QED BY <3>3, <3>4, <3>5, <3>6 DEF ThreadInv
  <2>6. /\ Return(t, s, "run_tests_after_apply")
        /\ draft[t] \in Draft \cup {NoChange}
        /\ draft' = [draft EXCEPT ![t] = draft[t]]
        /\ tally' = [tally EXCEPT ![t] = n]
        /\ repo' \in [File -> Content \cup {Absent}]
    BY <1>4, <2>2, <2>3 DEF ApplyWrite, IInv, TypeOK, Change
  <2> HIDE DEF s, n
  <2> QED BY <2>1, <2>4, <2>5, <2>6, ThreadMoves
<1>5. CASE ApplyBreaks(t)
  <2>1. ThreadInv("failed", state[t], draft[t], tally[t])
    BY <1>5 DEF ApplyBreaks, ThreadInv, HasDraft, HasProposal, Counted, Concluded, Verifies, Decided
  <2>2. /\ Return(t, state[t], "failed") /\ "failed" \in Node
        /\ draft' = [draft EXCEPT ![t] = draft[t]]
        /\ tally' = [tally EXCEPT ![t] = tally[t]]
        /\ repo' \in [File -> Content \cup {Absent}]
    BY <1>5 DEF ApplyBreaks, Goto, IInv, TypeOK, Node, Quiet
  <2> QED BY <2>1, <2>2, ThreadMoves
<1> QED BY <1>1, <1>2, <1>3, <1>4, <1>5

\* What run_tests_after_apply returns when the tests fail is a state.
LEMMA FailedTestsState ==
  ASSUME NEW s \in AgentState, NEW retry \in BOOLEAN,
         NEW k \in 0 .. MaxFixIterations, NEW r \in Report
  PROVE  [s EXCEPT !.test_ran = TRUE,
                   !.test_passed = "failed",
                   !.should_retry_fix = retry,
                   !.fix_iteration = k,
                   !.final_response = r] \in AgentState
<1>1. CASE retry = TRUE
  BY <1>1 DEF AgentState
<1>2. CASE retry = FALSE
  BY <1>2 DEF AgentState
<1> QED BY <1>1, <1>2

\* The verification starts the clock; its outcome ends the run or counts a
\* fix attempt.
LEMMA VerifyKeeps ==
  ASSUME IInv, NEW t \in Thread,
         \/ RunTestsStart(t) \/ TestsUnavailable(t) \/ TestsPass(t) \/ TestsFail(t)
  PROVE  IInv'
<1> USE Current
\* How a verification that ran is counted.
<1> DEFINE n == [tally[t] EXCEPT !.tests = Count(@)]
<1>1. ASSUME pc[t] = "await_tests"
      PROVE  /\ n \in Tally /\ state[t].fix_iteration \in 0 .. MaxFixIterations
             /\ n.asked = state[t].fix_iteration + 1
             /\ n.writes = state[t].fix_iteration + 1
             /\ n.tests = state[t].fix_iteration + 1
  <2>1. /\ tally[t].asked = state[t].fix_iteration + 1
        /\ tally[t].writes = state[t].fix_iteration + 1
        /\ tally[t].tests = state[t].fix_iteration
    BY <1>1 DEF ThreadInv, Counted
  <2>2. state[t].fix_iteration \in 0 .. MaxFixIterations
    BY DEF AgentState
  <2>3. tally[t].tests \in 0 .. TallyBound /\ tally[t].tests <= MaxFixIterations + 1
    BY <2>1, <2>2, MaxFixIterationsAssumption DEF Tally
  <2>4. /\ Count(tally[t].tests) \in 0 .. TallyBound
        /\ Count(tally[t].tests) = tally[t].tests + 1
    BY <2>3, CountUp
  <2>5. /\ n \in Tally /\ n.tests = tally[t].tests + 1
        /\ n.asked = tally[t].asked /\ n.writes = tally[t].writes
    BY <2>4 DEF Tally
  <2> HIDE DEF n
  <2> QED BY <2>1, <2>2, <2>5
<1>2. CASE RunTestsStart(t)
  <2> DEFINE dl == IF state[t].loop_deadline = "unset" THEN "running"
                   ELSE state[t].loop_deadline
             s == [state[t] EXCEPT !.loop_deadline = dl]
  <2>1. s \in AgentState /\ "await_tests" \in Node
    BY DEF AgentState, Node, Busy
  <2>2. s.loop_deadline # "unset"
    BY DEF AgentState
  <2>3. ThreadInv("await_tests", s, draft[t], tally[t])
    <3>1. /\ s.proposal = state[t].proposal /\ s.applied = state[t].applied
          /\ s.final_response = state[t].final_response
          /\ s.fix_iteration = state[t].fix_iteration
          /\ s.approved = state[t].approved
      BY DEF AgentState
    <3> HIDE DEF s
    <3> QED BY <1>2, <2>2, <3>1 DEF RunTestsStart, ThreadInv, HasDraft, HasProposal, Counted, Concluded, Verifies, Decided
  <2>4. Return(t, s, "await_tests") /\ UNCHANGED <<draft, repo, tally>>
    BY <1>2 DEF RunTestsStart
  <2> HIDE DEF s
  <2> QED BY <2>1, <2>3, <2>4, StateMoves
<1>3. CASE TestsUnavailable(t)
  <2> DEFINE s == [state[t] EXCEPT !.test_ran = FALSE,
                                   !.should_retry_fix = FALSE,
                                   !.final_response = "applied_unverified"]
  <2>1. s \in AgentState /\ "end" \in Node
    BY ZenonT(60) DEF AgentState, Report, Node, Quiet
  <2>2. RouteAfterTestCheck(s) = "end"
    BY <2>1 DEF RouteAfterTestCheck, AgentState
  <2>3. ThreadInv("end", s, draft[t], tally[t])
    BY <1>3, <2>1 DEF TestsUnavailable, ThreadInv, HasDraft, HasProposal, Counted, Concluded, Verifies, Decided, AgentState
  <2> QED BY <1>3, <2>1, <2>2, <2>3, StateMoves DEF TestsUnavailable
<1>4. CASE TestsPass(t)
  <2> DEFINE s == [state[t] EXCEPT !.test_ran = TRUE,
                                   !.test_passed = "passed",
                                   !.should_retry_fix = FALSE,
                                   !.final_response = "applied_passed"]
  <2>1. s \in AgentState /\ "end" \in Node
    BY ZenonT(60) DEF AgentState, Report, Node, Quiet
  <2>2. RouteAfterTestCheck(s) = "end"
    BY <2>1 DEF RouteAfterTestCheck, AgentState
  <2>3. ThreadInv("end", s, draft[t], n)
    <3>1. /\ s.applied = state[t].applied /\ s.test_ran /\ s.test_passed = "passed"
          /\ s.final_response = "applied_passed"
          /\ s.fix_iteration = state[t].fix_iteration
          /\ s.approved = state[t].approved
      BY DEF AgentState
    <3>2. pc[t] = "await_tests"
      BY <1>4 DEF TestsPass
    <3> HIDE DEF s, n
    <3> QED BY <1>1, <3>1, <3>2 DEF ThreadInv, HasDraft, HasProposal, Counted, Concluded, Verifies, Decided
  <2>4. /\ Return(t, s, "end")
        /\ draft[t] \in Draft \cup {NoChange}
        /\ draft' = [draft EXCEPT ![t] = draft[t]]
        /\ tally' = [tally EXCEPT ![t] = n]
        /\ repo' \in [File -> Content \cup {Absent}]
        /\ pc[t] = "await_tests"
    BY <1>4, <2>2 DEF TestsPass, IInv, TypeOK
  <2> HIDE DEF s, n
  <2> QED BY <1>1, <2>1, <2>3, <2>4, ThreadMoves
<1>5. CASE TestsFail(t)
  <2> DEFINE retry == CanRetryFix(state[t])
             k == IF retry THEN state[t].fix_iteration + 1 ELSE state[t].fix_iteration
             r == IF retry THEN state[t].final_response ELSE "applied_gave_up"
             s == [state[t] EXCEPT
                     !.test_ran = TRUE,
                     !.test_passed = "failed",
                     !.should_retry_fix = retry,
                     !.fix_iteration = k,
                     !.final_response = r]
  <2>1. /\ retry \in BOOLEAN /\ k \in 0 .. MaxFixIterations /\ r \in Report
        /\ retry => k = state[t].fix_iteration + 1
        /\ ~ retry => k = state[t].fix_iteration /\ r = "applied_gave_up"
        /\ retry => r = state[t].final_response
    BY MaxFixIterationsAssumption DEF CanRetryFix, AgentState, Report
  <2>2. s \in AgentState
    <3> HIDE DEF retry, k, r
    <3> QED BY <2>1, FailedTestsState
  <2>3. /\ s.applied = state[t].applied /\ s.test_ran /\ s.test_passed = "failed"
        /\ s.should_retry_fix = retry /\ s.fix_iteration = k
        /\ s.final_response = r /\ s.approved = state[t].approved
        /\ s.loop_deadline = state[t].loop_deadline
    <3> HIDE DEF retry, k, r
    <3> QED BY DEF AgentState
  <2>4. pc[t] = "await_tests"
    BY <1>5 DEF TestsFail
  <2>5. /\ Return(t, s, RouteAfterTestCheck(s))
        /\ draft[t] \in Draft \cup {NoChange}
        /\ draft' = [draft EXCEPT ![t] = draft[t]]
        /\ tally' = [tally EXCEPT ![t] = n]
        /\ repo' \in [File -> Content \cup {Absent}]
    BY <1>5 DEF TestsFail, IInv, TypeOK
  <2>6. CASE retry
    <3>1. RouteAfterTestCheck(s) = "propose_change" /\ "propose_change" \in Node
      BY <2>3, <2>6 DEF RouteAfterTestCheck, Node, Busy
    <3>2. ThreadInv("propose_change", s, draft[t], n)
      <4> HIDE DEF retry, k, r, s, n
      <4> QED BY <1>1, <2>1, <2>3, <2>4, <2>6 DEF ThreadInv, HasDraft, HasProposal, Counted, Concluded, Verifies, Decided
    <3> HIDE DEF s, n
    <3> QED BY <1>1, <2>2, <2>4, <2>5, <3>1, <3>2, ThreadMoves
  <2>7. CASE ~ retry
    <3>1. RouteAfterTestCheck(s) = "end" /\ "end" \in Node
      BY <2>3, <2>7 DEF RouteAfterTestCheck, Node, Quiet
    <3>2. state[t].fix_iteration = MaxFixIterations \/ state[t].loop_deadline = "over"
      BY <2>4, <2>7, MaxFixIterationsAssumption
         DEF CanRetryFix, ThreadInv, Verifies, AgentState
    <3>3. ThreadInv("end", s, draft[t], n)
      <4> HIDE DEF retry, k, r, s, n
      <4> QED BY <1>1, <2>1, <2>3, <2>4, <2>7, <3>2 DEF ThreadInv, HasDraft, HasProposal, Counted, Concluded, Verifies, Decided
    <3> HIDE DEF s, n
    <3> QED BY <1>1, <2>2, <2>4, <2>5, <3>1, <3>3, ThreadMoves
  <2> QED BY <2>6, <2>7
<1> QED BY <1>2, <1>3, <1>4, <1>5

\* What an exception, the caller and the clock do.
LEMMA CallerKeeps ==
  ASSUME IInv, NEW t \in Thread,
         Raise(t) \/ Run(t) \/ Answered(t) \/ BudgetElapses(t)
  PROVE  IInv'
<1> USE Current
<1>1. CASE Raise(t)
  <2>1. ThreadInv("failed", state[t], draft[t], tally[t])
    BY <1>1 DEF Raise, ThreadInv, HasDraft, HasProposal, Counted, Concluded, Verifies, Decided
  <2> QED BY <1>1, <2>1, StateMoves DEF Raise, Goto, Node, Quiet
<1>2. CASE Run(t)
  <2>1. ThreadInv("task_analyzer", initial_state, NoChange, NoTally)
    BY DEF ThreadInv, HasDraft, HasProposal, Counted, Concluded, Verifies, Decided, initial_state, NoTally
  <2>2. repo' \in [File -> Content \cup {Absent}] /\ "task_analyzer" \in Node
    BY <1>2 DEF Run, IInv, TypeOK, Node, Busy
  <2> QED BY <1>2, <2>1, <2>2, InitialState, NoTallyType, ThreadMoves DEF Run
<1>3. CASE Answered(t)
  <2>1. PICK approved \in BOOLEAN : Resume(t, approved)
    BY <1>3 DEF Answered
  <2> DEFINE a == IF approved THEN "approved" ELSE "rejected"
             s == [state[t] EXCEPT !.approved = a]
  <2>2. s \in AgentState /\ "apply_change" \in Node
    BY DEF AgentState, Node, Busy
  <2>3. ThreadInv("apply_change", s, draft[t], tally[t])
    BY <2>1, <2>2 DEF Resume, ThreadInv, HasDraft, HasProposal, Counted, Concluded, Verifies, Decided, AgentState
  <2> QED BY <2>1, <2>2, <2>3, StateMoves DEF Resume
<1>4. CASE BudgetElapses(t)
  <2> DEFINE s == [state[t] EXCEPT !.loop_deadline = "over"]
  <2>1. s \in AgentState
    BY DEF AgentState
  <2>2. pc[t] \in Node
    BY DEF IInv, TypeOK
  <2>3. ThreadInv(pc[t], s, draft[t], tally[t])
    <3>1. /\ s.proposal = state[t].proposal /\ s.applied = state[t].applied
          /\ s.final_response = state[t].final_response
          /\ s.fix_iteration = state[t].fix_iteration
          /\ s.approved = state[t].approved /\ s.loop_deadline = "over"
          /\ s.test_ran = state[t].test_ran /\ s.test_passed = state[t].test_passed
      BY DEF AgentState
    <3> HIDE DEF s
    <3> QED BY <3>1 DEF ThreadInv, HasDraft, HasProposal, Counted, Concluded, Verifies, Decided
  <2>4. Return(t, s, pc[t]) /\ UNCHANGED <<draft, repo, tally>>
    BY <1>4 DEF BudgetElapses, Return, IInv, TypeOK
  <2> HIDE DEF s
  <2> QED BY <2>1, <2>2, <2>3, <2>4, StateMoves
<1> QED BY <1>1, <1>2, <1>3, <1>4

\* No condition of a thread is about the files, so editors keep them all.
LEMMA EditKeeps ==
  ASSUME IInv, NEW f \in File, Edit(f)
  PROVE  IInv'
<1>1. TypeOK'
  BY DEF Edit, IInv, TypeOK
<1> QED BY <1>1 DEF Edit, IInv

LEMMA NextIInv == IInv /\ [Next]_vars => IInv'
<1> SUFFICES ASSUME IInv, [Next]_vars PROVE IInv'
  OBVIOUS
<1>1. ASSUME NEW t \in Thread, Step(t) PROVE IInv'
  BY <1>1, AnalysisKeeps, AnswersKeep, ProposeKeeps, ApplyKeeps, VerifyKeeps DEF Step
<1>2. ASSUME NEW t \in Thread,
             Raise(t) \/ Run(t) \/ Answered(t) \/ BudgetElapses(t)
      PROVE  IInv'
  BY <1>2, CallerKeeps
<1>3. ASSUME NEW f \in File, Edit(f) PROVE IInv'
  BY <1>3, EditKeeps
<1>4. CASE UNCHANGED vars
  BY <1>4 DEF IInv, TypeOK, vars
<1> QED BY <1>1, <1>2, <1>3, <1>4 DEF Next

THEOREM Invariance == Spec => []IInv
BY InitIInv, NextIInv, PTL DEF Spec

\* A step of thread u leaves every other thread's state and counts alone.
LEMMA StepsAlone ==
  ASSUME TypeOK, NEW t \in Thread, NEW u \in Thread, u # t,
         Step(u) \/ Raise(u) \/ Run(u) \/ Answered(u) \/ BudgetElapses(u)
  PROVE  pc'[t] = pc[t] /\ state'[t] = state[t] /\ tally'[t] = tally[t]
<1>1. ASSUME NEW s, NEW p, Return(u, s, p)
      PROVE  pc'[t] = pc[t] /\ state'[t] = state[t]
  BY <1>1 DEF TypeOK, Return
<1>2. CASE \/ TaskAnalyzer(u) \/ Planner(u) \/ RepositorySearch(u)
           \/ GraphSearch(u) \/ CodeAnalyzer(u) \/ Decision(u)
  BY <1>1, <1>2 DEF TaskAnalyzer, Planner, RepositorySearch, GraphSearch,
                    CodeAnalyzer, Decision, Goto
<1>3. CASE Answer(u) \/ Test(u)
  BY <1>1, <1>3 DEF Answer, Test
<1>4. CASE ProposeRead(u) \/ ProposeNothing(u) \/ Propose(u)
  BY <1>1, <1>4 DEF ProposeRead, ProposeNothing, Propose, Goto, TypeOK
<1>5. CASE \/ ApplyRejected(u) \/ ApplyRefused(u) \/ ApplyChecked(u)
           \/ ApplyWrite(u) \/ ApplyBreaks(u)
  BY <1>1, <1>5 DEF ApplyRejected, ApplyRefused, ApplyChecked, ApplyWrite,
                    ApplyBreaks, Goto, TypeOK
<1>6. CASE \/ RunTestsStart(u) \/ TestsUnavailable(u) \/ TestsPass(u) \/ TestsFail(u)
  BY <1>1, <1>6 DEF RunTestsStart, TestsUnavailable, TestsPass, TestsFail, TypeOK
<1>7. CASE Raise(u) \/ Run(u) \/ Answered(u)
  BY <1>1, <1>7 DEF Raise, Run, Answered, Resume, Goto, TypeOK
<1>8. CASE BudgetElapses(u)
  BY <1>8 DEF BudgetElapses, TypeOK
<1> QED BY <1>2, <1>3, <1>4, <1>5, <1>6, <1>7, <1>8 DEF Step
-----------------------------------------------------------------------------
(* What follows from the invariant. *)

\* Every variable keeps its type.
THEOREM TypeCorrect == Spec => []TypeOK
BY Invariance, PTL DEF IInv

\* One run asks for at most 1 + MaxFixIterations approvals, writes no more
\* often than it asked and verifies only its own writes.
THEOREM LoopIsBounded == Spec => []BoundedLoop
<1>1. IInv => BoundedLoop
  <2> SUFFICES ASSUME IInv, NEW t \in Thread
               PROVE  /\ tally[t].asked <= MaxFixIterations + 1
                      /\ tally[t].writes <= tally[t].asked
                      /\ tally[t].tests <= tally[t].writes
    BY DEF BoundedLoop
  <2>1. /\ tally[t].asked <= state[t].fix_iteration + 1
        /\ tally[t].writes <= tally[t].asked
        /\ tally[t].tests <= tally[t].writes
    BY DEF IInv, ThreadInv, Counted
  <2>2. state[t].fix_iteration \in 0 .. MaxFixIterations /\ tally[t].asked \in Nat
    BY MaxFixIterationsAssumption DEF IInv, TypeOK, AgentState, Tally
  <2> QED BY <2>1, <2>2, MaxFixIterationsAssumption
<1> QED BY <1>1, Invariance, PTL

\* A final response that says the tests passed, or that the agent gives up,
\* says what happened.
THEOREM VerdictsAreHonest == Spec => []HonestVerdict
<1>1. IInv => HonestVerdict
  BY DEF IInv, ThreadInv, Concluded, HonestVerdict
<1> QED BY <1>1, Invariance, PTL

\* A run never ends with a write it did not verify unless it says so.
THEOREM UnverifiedAreReported == Spec => []UnverifiedIsReported
<1>1. IInv => UnverifiedIsReported
  BY DEF IInv, ThreadInv, Concluded, UnverifiedIsReported
<1> QED BY <1>1, Invariance, PTL

\* What the final response says of writes and of their verification is true.
THEOREM HonestReports == Spec => []ReportsAreHonest
BY VerdictsAreHonest, UnverifiedAreReported, PTL DEF ReportsAreHonest

\* After a rejection the run neither asks again nor writes.
THEOREM RejectionSettles == Spec => RejectionIsFinal
<1>1. ASSUME IInv, [Next]_vars, NEW t \in Thread,
             state[t].approved = "rejected", pc'[t] # "task_analyzer"
      PROVE  state'[t].approved = "rejected" /\ tally'[t] = tally[t]
  <2>1. pc[t] \in {"apply_change", "end", "failed"}
    BY <1>1 DEF IInv, ThreadInv, Decided
  <2>2. state[t] \in AgentState /\ tally[t] \in Tally
    BY <1>1 DEF IInv, TypeOK
  <2>3. CASE UNCHANGED vars
    BY <1>1, <2>3 DEF vars
  <2>4. ASSUME NEW u \in Thread,
               Step(u) \/ Raise(u) \/ Run(u) \/ Answered(u) \/ BudgetElapses(u)
        PROVE  state'[t].approved = "rejected" /\ tally'[t] = tally[t]
    <3>1. CASE u = t
      <4>1. CASE ApplyRejected(t)
        BY <1>1, <2>2, <4>1 DEF ApplyRejected, Return, IInv, TypeOK, AgentState
      <4>2. CASE Raise(t)
        BY <1>1, <2>2, <4>2 DEF Raise, Goto, Return, IInv, TypeOK
      <4>3. CASE BudgetElapses(t)
        BY <1>1, <2>2, <4>3 DEF BudgetElapses, IInv, TypeOK, AgentState
      <4>4. ~ Run(t)
        BY <1>1 DEF Run, Return, IInv, TypeOK
      <4>5. ~ Answered(t)
        BY <2>1 DEF Answered, Resume
      <4>6. Step(t) => ApplyRejected(t)
        BY <1>1, <2>1
           DEF Step, TaskAnalyzer, Planner, RepositorySearch, GraphSearch,
               CodeAnalyzer, Decision, Answer, Test, ProposeRead,
               ProposeNothing, Propose, ApplyRefused, ApplyChecked, ApplyWrite,
               ApplyBreaks, RunTestsStart, TestsUnavailable, TestsPass, TestsFail
      <4> QED BY <2>4, <3>1, <4>1, <4>2, <4>3, <4>4, <4>5, <4>6
    <3>2. CASE u # t
      <4>1. state'[t] = state[t] /\ tally'[t] = tally[t]
        BY <1>1, <2>4, <3>2, StepsAlone DEF IInv
      <4> QED BY <1>1, <4>1
    <3> QED BY <3>1, <3>2
  <2>5. ASSUME NEW f \in File, Edit(f)
        PROVE  state'[t].approved = "rejected" /\ tally'[t] = tally[t]
    BY <1>1, <2>5 DEF Edit
  <2> QED BY <1>1, <2>3, <2>4, <2>5 DEF Next
<1>2. IInv /\ [Next]_vars =>
        [\A t \in Thread :
           state[t].approved = "rejected" /\ pc'[t] # "task_analyzer" =>
             state'[t].approved = "rejected" /\ tally'[t] = tally[t]]_vars
  BY <1>1
<1> QED BY <1>2, Invariance, PTL DEF Spec, RejectionIsFinal
-----------------------------------------------------------------------------
(* The workflow implements ApprovalGate. *)

\* Phase and change after thread t returned s and went to p.
LEMMA GateMoves ==
  ASSUME TypeOK, NEW t \in Thread, NEW s \in AgentState, NEW p \in Node,
         Return(t, s, p)
  PROVE  /\ gatePhase' = [gatePhase EXCEPT ![t] = PhaseOf(p, s)]
         /\ gateChange' = [gateChange EXCEPT ![t] = ChangeOf(p, s)]
<1>1. \A u \in Thread : /\ pc'[u] = IF u = t THEN p ELSE pc[u]
                        /\ state'[u] = IF u = t THEN s ELSE state[u]
  BY DEF TypeOK, Return
<1>2. gatePhase' = [gatePhase EXCEPT ![t] = PhaseOf(p, s)]
  BY <1>1 DEF gatePhase
<1>3. gateChange' = [gateChange EXCEPT ![t] = ChangeOf(p, s)]
  BY <1>1 DEF gateChange
<1> QED BY <1>2, <1>3

\* A thread that keeps its phase, change and counts, and leaves the files
\* alone, makes no step of the gate.
LEMMA GateStutters ==
  ASSUME TypeOK, NEW t \in Thread, NEW s \in AgentState, NEW p \in Node,
         Return(t, s, p), UNCHANGED <<repo, tally>>,
         PhaseOf(p, s) = PhaseOf(pc[t], state[t]),
         ChangeOf(p, s) = ChangeOf(pc[t], state[t])
  PROVE  UNCHANGED Gate!vars
<1>1. /\ gatePhase' = [gatePhase EXCEPT ![t] = PhaseOf(p, s)]
      /\ gateChange' = [gateChange EXCEPT ![t] = ChangeOf(p, s)]
  BY GateMoves
<1>2. gatePhase' = gatePhase /\ gateChange' = gateChange
  BY <1>1 DEF gatePhase, gateChange
<1>3. gateWrites' = gateWrites
  BY DEF gateWrites
<1> QED BY <1>2, <1>3 DEF Gate!vars

\* A thread that ends its run without touching a file closes its gate.
LEMMA GateCloses ==
  ASSUME TypeOK, NEW t \in Thread, NEW s \in AgentState, NEW p \in Node,
         Return(t, s, p), UNCHANGED <<repo, tally>>, PhaseOf(p, s) = "closed"
  PROVE  Gate!Close(t)
<1>1. /\ gatePhase' = [gatePhase EXCEPT ![t] = "closed"]
      /\ gateChange' = [gateChange EXCEPT ![t] = NoChange]
  BY GateMoves DEF ChangeOf
<1>2. gateWrites' = gateWrites
  BY DEF gateWrites
<1> QED BY <1>1, <1>2 DEF Gate!Close

LEMMA GateInit == Init => Gate!Init
BY DEF Init, Gate!Init, gatePhase, gateChange, gateWrites, PhaseOf, ChangeOf, NoTally

\* What a thread returned is what it now has.
LEMMA Returned ==
  ASSUME TypeOK, NEW t \in Thread, NEW s, NEW p, Return(t, s, p)
  PROVE  /\ Return(t, state'[t], pc'[t])
         /\ state'[t] = s /\ pc'[t] = p
BY DEF TypeOK, Return

\* Outside the approval, its application and the end of a run, the agent
\* thinks.
LEMMA Thinking ==
  ASSUME NEW p \in Busy \ {"apply_change", "write_change"}, NEW s
  PROVE  PhaseOf(p, s) = "thinking" /\ ChangeOf(p, s) = NoChange
BY DEF PhaseOf, ChangeOf, Busy

\* Analysing a request and reading a file are invisible at the gate.
LEMMA AnalysisInGate ==
  ASSUME IInv, IInv', NEW t \in Thread,
         \/ TaskAnalyzer(t) \/ Planner(t) \/ RepositorySearch(t)
         \/ GraphSearch(t) \/ CodeAnalyzer(t) \/ Decision(t)
         \/ ProposeRead(t) \/ RunTestsStart(t)
  PROVE  UNCHANGED Gate!vars
<1>1. /\ Return(t, state'[t], pc'[t]) /\ UNCHANGED <<repo, tally>>
      /\ pc[t] \in Busy \ {"apply_change", "write_change"}
      /\ pc'[t] \in Busy \ {"apply_change", "write_change"}
  <2>1. CASE TaskAnalyzer(t)
    <3>1. PICK k \in TaskType : Return(t, [state[t] EXCEPT !.task_type = k], "planner")
      BY <2>1 DEF TaskAnalyzer
    <3> QED BY <2>1, <3>1, Returned DEF TaskAnalyzer, IInv, Busy
  <2>6. CASE RepositorySearch(t)
    <3>1. PICK found \in BOOLEAN :
            Return(t, [state[t] EXCEPT !.found = found], "graph_search")
      BY <2>6 DEF RepositorySearch
    <3> QED BY <2>6, <3>1, Returned DEF RepositorySearch, IInv, Busy
  <2>2. CASE Planner(t) \/ GraphSearch(t) \/ Decision(t)
    BY <2>2, Returned DEF Planner, GraphSearch, Decision, Goto, RouteDecision, IInv, Busy
  <2>3. CASE CodeAnalyzer(t)
    BY <2>3, Returned DEF CodeAnalyzer, RouteAfterAnalysis, IInv, Busy
  <2>4. CASE ProposeRead(t)
    BY <2>4, Returned DEF ProposeRead, Goto, IInv, Busy
  <2>5. CASE RunTestsStart(t)
    BY <2>5, Returned DEF RunTestsStart, IInv, Busy
  <2> QED BY <2>1, <2>2, <2>3, <2>4, <2>5, <2>6
<1>2. state'[t] \in AgentState /\ pc'[t] \in Node
  BY DEF IInv, TypeOK
<1>3. /\ PhaseOf(pc'[t], state'[t]) = PhaseOf(pc[t], state[t])
      /\ ChangeOf(pc'[t], state'[t]) = ChangeOf(pc[t], state[t])
  BY <1>1, Thinking
<1> QED BY <1>1, <1>2, <1>3, GateStutters DEF IInv

\* A run that ends without an approval in hand, or whose approval is refused
\* or breaks down before the write, closes the gate.
LEMMA EndInGate ==
  ASSUME IInv, IInv', NEW t \in Thread,
         \/ Answer(t) \/ Test(t) \/ ProposeNothing(t) \/ ApplyRejected(t)
         \/ ApplyRefused(t) \/ TestsUnavailable(t) \/ Raise(t)
  PROVE  Gate!Close(t)
<1>1. /\ Return(t, state'[t], pc'[t]) /\ UNCHANGED <<repo, tally>>
      /\ pc'[t] \in {"end", "failed"}
  <2>1. CASE Answer(t) \/ Test(t)
    BY <2>1, Returned DEF Answer, Test, IInv
  <2>2. CASE ProposeNothing(t)
    BY <2>2, Returned, Current DEF ProposeNothing, RouteAfterProposal, IInv, AgentState
  <2>3. CASE ApplyRejected(t)
    BY <2>3, Returned, Current DEF ApplyRejected, RouteAfterApply, IInv, AgentState
  <2>4. CASE ApplyRefused(t)
    BY <2>4, Returned, Current DEF ApplyRefused, RouteAfterApply, IInv, AgentState
  <2>5. CASE TestsUnavailable(t)
    BY <2>5, Returned, Current DEF TestsUnavailable, RouteAfterTestCheck, IInv, AgentState
  <2>6. CASE Raise(t)
    BY <2>6, Returned DEF Raise, Goto, IInv
  <2> QED BY <2>1, <2>2, <2>3, <2>4, <2>5, <2>6
<1>2. state'[t] \in AgentState /\ pc'[t] \in Node
  BY DEF IInv, TypeOK
<1>3. PhaseOf(pc'[t], state'[t]) = "closed"
  BY <1>1 DEF PhaseOf
<1> QED BY <1>1, <1>2, <1>3, GateCloses DEF IInv

\* A verification leaves the agent thinking, or ends the run.
LEMMA VerdictInGate ==
  ASSUME IInv, IInv', NEW t \in Thread, TestsPass(t) \/ TestsFail(t)
  PROVE  Gate!Close(t) \/ UNCHANGED Gate!vars
<1>1. /\ Return(t, state'[t], pc'[t]) /\ UNCHANGED repo
      /\ pc[t] = "await_tests" /\ pc'[t] \in {"end", "propose_change"}
  BY Returned DEF TestsPass, TestsFail, RouteAfterTestCheck, IInv
<1>2. state'[t] \in AgentState /\ pc'[t] \in Node
  BY DEF IInv, TypeOK
<1>3. /\ gatePhase' = [gatePhase EXCEPT ![t] = PhaseOf(pc'[t], state'[t])]
      /\ gateChange' = [gateChange EXCEPT ![t] = ChangeOf(pc'[t], state'[t])]
  BY <1>1, <1>2, GateMoves DEF IInv
<1>4. gateWrites' = gateWrites
  BY DEF gateWrites, TestsPass, TestsFail, IInv, TypeOK, Tally
<1>5. CASE pc'[t] = "end"
  <2>1. /\ PhaseOf(pc'[t], state'[t]) = "closed"
        /\ ChangeOf(pc'[t], state'[t]) = NoChange
    BY <1>5 DEF PhaseOf, ChangeOf
  <2> QED BY <1>1, <1>3, <1>4, <2>1 DEF Gate!Close
<1>6. CASE pc'[t] = "propose_change"
  <2>1. /\ PhaseOf(pc'[t], state'[t]) = gatePhase[t]
        /\ ChangeOf(pc'[t], state'[t]) = gateChange[t]
    BY <1>1, <1>6, Thinking DEF gatePhase, gateChange, Busy
  <2>2. gatePhase' = gatePhase /\ gateChange' = gateChange
    BY <1>3, <2>1 DEF gatePhase, gateChange
  <2> QED BY <1>1, <1>4, <2>2 DEF Gate!vars
<1> QED BY <1>1, <1>5, <1>6

\* Showing a proposal asks, within the run's allowance of writes.
LEMMA ProposeInGate ==
  ASSUME IInv, IInv', NEW t \in Thread, Propose(t)
  PROVE  Gate!Ask(t)
<1>1. /\ Return(t, state'[t], pc'[t]) /\ UNCHANGED repo
      /\ pc[t] = "generate_change" /\ pc'[t] = "human_approval"
  BY Returned, Current DEF Propose, RouteAfterProposal, IInv, AgentState
<1>2. state'[t] \in AgentState /\ pc'[t] \in Node
  BY DEF IInv, TypeOK
<1>3. /\ gatePhase' = [gatePhase EXCEPT ![t] = "asking"]
      /\ gateChange' = [gateChange EXCEPT ![t] = state'[t].proposal]
  <2>1. /\ PhaseOf("human_approval", state'[t]) = "asking"
        /\ ChangeOf("human_approval", state'[t]) = state'[t].proposal
    BY DEF PhaseOf, ChangeOf
  <2> QED BY <1>1, <1>2, <2>1, GateMoves DEF IInv
<1>4. state'[t].proposal \in Gate!Change
  <2>1. HasProposal(pc'[t], state'[t])
    BY DEF IInv, ThreadInv
  <2> QED BY <1>1, <2>1 DEF HasProposal, Change, Gate!Change
<1>5. gatePhase[t] = "thinking"
  BY <1>1 DEF gatePhase, PhaseOf
<1>6. gateWrites[t] < MaxFixIterations + 1
  <2>1. gateWrites[t] = state[t].fix_iteration
    BY <1>1, Current DEF gateWrites, ThreadInv, Counted
  <2> QED BY <2>1, Current, MaxFixIterationsAssumption DEF AgentState
<1>7. gateWrites' = gateWrites
  BY DEF gateWrites, Propose, IInv, TypeOK, Tally
<1> QED BY <1>1, <1>3, <1>4, <1>5, <1>6, <1>7 DEF Gate!Ask

\* The human's decision grants the change on the table or closes the gate.
LEMMA AnswerInGate ==
  ASSUME IInv, IInv', NEW t \in Thread, Answered(t)
  PROVE  Gate!Grant(t) \/ Gate!Close(t)
<1>1. PICK approved \in BOOLEAN : Resume(t, approved)
  BY DEF Answered
<1> DEFINE a == IF approved THEN "approved" ELSE "rejected"
           s == [state[t] EXCEPT !.approved = a]
<1>2. /\ s \in AgentState /\ s.approved = a /\ s.proposal = state[t].proposal
      /\ "apply_change" \in Node
  BY Current DEF AgentState, Node, Busy
<1>3. /\ Return(t, s, "apply_change") /\ UNCHANGED <<repo, tally>>
      /\ pc[t] = "human_approval"
  BY <1>1 DEF Resume
<1> HIDE DEF s
<1>4. CASE approved
  <2>1. /\ PhaseOf("apply_change", s) = "granted"
        /\ ChangeOf("apply_change", s) = gateChange[t]
    BY <1>2, <1>3, <1>4 DEF PhaseOf, ChangeOf, gateChange
  <2>2. /\ gatePhase' = [gatePhase EXCEPT ![t] = "granted"]
        /\ gateChange' = [gateChange EXCEPT ![t] = gateChange[t]]
    BY <1>2, <1>3, <2>1, GateMoves DEF IInv
  <2>3. gateChange' = gateChange /\ gateWrites' = gateWrites
    BY <1>3, <2>2 DEF gateChange, gateWrites
  <2>4. gatePhase[t] = "asking"
    BY <1>3 DEF gatePhase, PhaseOf
  <2> QED BY <1>3, <2>2, <2>3, <2>4 DEF Gate!Grant
<1>5. CASE ~ approved
  <2>1. PhaseOf("apply_change", s) = "closed"
    BY <1>2, <1>5 DEF PhaseOf
  <2> QED BY <1>2, <1>3, <2>1, GateCloses DEF IInv
<1> QED BY <1>4, <1>5

\* The comparison succeeds on what the human saw replaced, and spends nothing.
LEMMA CheckInGate ==
  ASSUME IInv, IInv', NEW t \in Thread, ApplyChecked(t)
  PROVE  Gate!Compare(t)
<1>1. /\ Return(t, state[t], "write_change") /\ UNCHANGED <<repo, tally>>
      /\ state[t] \in AgentState /\ "write_change" \in Node
  BY Current DEF ApplyChecked, Goto, Node, Busy
<1>2. /\ gatePhase[t] = "granted" /\ gateChange[t] = state[t].proposal
      /\ repo[state[t].proposal.file] = state[t].proposal.original
  BY DEF ApplyChecked, IsStale, gatePhase, gateChange, PhaseOf, ChangeOf
<1>3. /\ gatePhase' = [gatePhase EXCEPT ![t] = "checked"]
      /\ gateChange' = [gateChange EXCEPT ![t] = gateChange[t]]
  <2>1. /\ PhaseOf("write_change", state[t]) = "checked"
        /\ ChangeOf("write_change", state[t]) = state[t].proposal
    BY DEF PhaseOf, ChangeOf
  <2> QED BY <1>1, <1>2, <2>1, GateMoves DEF IInv
<1>4. gateChange' = gateChange /\ gateWrites' = gateWrites
  BY <1>1, <1>3 DEF gateChange, gateWrites
<1> QED BY <1>1, <1>2, <1>3, <1>4 DEF Gate!Compare

\* A write carries out the change that was granted, or breaks off at it.
LEMMA WriteInGate ==
  ASSUME IInv, IInv', NEW t \in Thread, ApplyWrite(t) \/ ApplyBreaks(t)
  PROVE  Gate!Write(t) \/ Gate!BrokenWrite(t)
<1>1. pc[t] = "write_change"
  BY DEF ApplyWrite, ApplyBreaks
<1>2. gatePhase[t] = "checked" /\ gateChange[t] = state[t].proposal
  BY <1>1 DEF gatePhase, gateChange, PhaseOf, ChangeOf
<1>3. state'[t] \in AgentState /\ pc'[t] \in Node
  BY DEF IInv, TypeOK
<1>4. CASE ApplyWrite(t)
  <2>1. Return(t, state'[t], pc'[t]) /\ pc'[t] = "run_tests_after_apply"
    BY <1>4, Returned, Current DEF ApplyWrite, RouteAfterApply, IInv, AgentState
  <2>2. /\ PhaseOf(pc'[t], state'[t]) = "thinking"
        /\ ChangeOf(pc'[t], state'[t]) = NoChange
    BY <2>1, Thinking DEF Busy
  <2>3. /\ gatePhase' = [gatePhase EXCEPT ![t] = "thinking"]
        /\ gateChange' = [gateChange EXCEPT ![t] = NoChange]
    BY <1>3, <2>1, <2>2, GateMoves DEF IInv
  <2>4. gateWrites' = [gateWrites EXCEPT ![t] = @ + 1]
    <3>1. tally'[t].writes = tally[t].writes + 1
      <4>1. /\ Counted(pc[t], state[t], tally[t])
            /\ Counted(pc'[t], state'[t], tally'[t])
        BY DEF IInv, ThreadInv
      <4>2. state'[t].fix_iteration = state[t].fix_iteration
        <5> DEFINE s == [state[t] EXCEPT !.applied = TRUE,
                                         !.final_response = "applied"]
        <5>1. state'[t] = s
          BY <1>4, Returned DEF ApplyWrite, IInv
        <5>2. s.fix_iteration = state[t].fix_iteration
          BY Current DEF AgentState
        <5> HIDE DEF s
        <5> QED BY <5>1, <5>2
      <4> QED BY <1>1, <2>1, <4>1, <4>2 DEF Counted
    <3>2. \A u \in Thread \ {t} : tally'[u] = tally[u]
      BY <1>4 DEF ApplyWrite, IInv, TypeOK
    <3> QED BY <3>1, <3>2 DEF gateWrites
  <2>5. repo' = [repo EXCEPT ![gateChange[t].file] = gateChange[t].proposed]
    BY <1>2, <1>4 DEF ApplyWrite
  <2> QED BY <1>2, <2>3, <2>4, <2>5 DEF Gate!Write
<1>5. CASE ApplyBreaks(t)
  <2>1. Return(t, state[t], "failed") /\ "failed" \in Node /\ UNCHANGED tally
    BY <1>5 DEF ApplyBreaks, Goto, Node, Quiet
  <2>2. /\ PhaseOf("failed", state[t]) = "closed"
        /\ ChangeOf("failed", state[t]) = NoChange
    BY DEF PhaseOf, ChangeOf
  <2>3. /\ gatePhase' = [gatePhase EXCEPT ![t] = "closed"]
        /\ gateChange' = [gateChange EXCEPT ![t] = NoChange]
    BY <2>1, <2>2, Current, GateMoves DEF IInv
  <2>4. gateWrites' = gateWrites
    BY <2>1 DEF gateWrites
  <2>5. \E c \in Content : repo' = [repo EXCEPT ![gateChange[t].file] = c]
    BY <1>2, <1>5 DEF ApplyBreaks
  <2> QED BY <1>2, <2>3, <2>4, <2>5 DEF Gate!BrokenWrite
<1> QED BY <1>4, <1>5

\* A new run begins, whatever the thread was at.
LEMMA RunInGate ==
  ASSUME IInv, IInv', NEW t \in Thread, Run(t)
  PROVE  Gate!Begin(t)
<1>1. /\ PhaseOf("task_analyzer", initial_state) = "thinking"
      /\ ChangeOf("task_analyzer", initial_state) = NoChange
  BY DEF PhaseOf, ChangeOf
<1>2. /\ gatePhase' = [gatePhase EXCEPT ![t] = "thinking"]
      /\ gateChange' = [gateChange EXCEPT ![t] = NoChange]
  BY <1>1, InitialState, GateMoves DEF Run, IInv, Node, Busy
<1>3. gateWrites' = [gateWrites EXCEPT ![t] = 0]
  <2>1. \A u \in Thread : tally'[u].writes = IF u = t THEN 0 ELSE tally[u].writes
    BY DEF Run, NoTally, IInv, TypeOK
  <2> QED BY <2>1 DEF gateWrites
<1> QED BY <1>2, <1>3 DEF Run, Gate!Begin

LEMMA ClockInGate ==
  ASSUME IInv, IInv', NEW t \in Thread, BudgetElapses(t)
  PROVE  UNCHANGED Gate!vars
<1> DEFINE s == [state[t] EXCEPT !.loop_deadline = "over"]
<1>1. /\ s \in AgentState /\ s.approved = state[t].approved
      /\ s.proposal = state[t].proposal
  BY Current DEF AgentState
<1>2. Return(t, s, pc[t]) /\ pc[t] \in Node /\ UNCHANGED <<repo, tally>>
  BY DEF BudgetElapses, Return, IInv, TypeOK
<1> HIDE DEF s
<1>3. /\ PhaseOf(pc[t], s) = PhaseOf(pc[t], state[t])
      /\ ChangeOf(pc[t], s) = ChangeOf(pc[t], state[t])
  BY <1>1 DEF PhaseOf, ChangeOf
<1> QED BY <1>1, <1>2, <1>3, GateStutters DEF IInv

LEMMA EditInGate ==
  ASSUME NEW f \in File, Edit(f)
  PROVE  Gate!Edit
BY DEF Edit, Gate!Edit, gatePhase, gateChange, gateWrites

\* A file is only ever changed by the agent to carry out a change its human
\* was shown and approved, once per approval, within the run's allowance, and
\* after the stale-change comparison (modification/service.py:79-83) has found
\* there, since the approval, what the human saw replaced.
THEOREM GateImplemented == Spec => ImplementsGate
<1>1. IInv /\ IInv' /\ [Next]_vars => [Gate!Next]_(Gate!vars)
  <2> SUFFICES ASSUME IInv, IInv', [Next]_vars
               PROVE  Gate!Next \/ UNCHANGED Gate!vars
    OBVIOUS
  <2>1. ASSUME NEW t \in Thread, Step(t) \/ Raise(t)
        PROVE  Gate!Next \/ UNCHANGED Gate!vars
    BY <2>1, AnalysisInGate, EndInGate, VerdictInGate, ProposeInGate,
       CheckInGate, WriteInGate DEF Step, Gate!Next
  <2>2. ASSUME NEW t \in Thread, Run(t) \/ Answered(t) \/ BudgetElapses(t)
        PROVE  Gate!Next \/ UNCHANGED Gate!vars
    BY <2>2, RunInGate, AnswerInGate, ClockInGate DEF Gate!Next
  <2>3. ASSUME NEW f \in File, Edit(f)
        PROVE  Gate!Next
    BY <2>3, EditInGate DEF Gate!Next
  <2>4. CASE UNCHANGED vars
    BY <2>4 DEF vars, Gate!vars, gatePhase, gateChange, gateWrites
  <2> QED BY <2>1, <2>2, <2>3, <2>4 DEF Next
<1> QED BY <1>1, GateInit, Invariance, PTL DEF Spec, ImplementsGate, Gate!Spec
=============================================================================
