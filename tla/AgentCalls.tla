----------------------------- MODULE AgentCalls -----------------------------
(***************************************************************************)
(* What AgentService promises its callers, as if nothing observed it: a    *)
(* call runs the workflow of one conversation until it ends, stops at an   *)
(* approval or raises, and the caller learns exactly that.  The traced     *)
(* service (Tracing) is shown to implement this specification.             *)
(***************************************************************************)
CONSTANTS
  Worker,     \* whoever calls run() and resume(), one call at a time
  Thread,     \* conversations
  NoThread    \* no conversation

VARIABLES
  caller,     \* the conversation each worker's pending call serves
  outcome,    \* how the workflow of that call has come out so far
  conv        \* what was last said to the caller of each conversation

vars == <<caller, outcome, conv>>

Outcome == {"completed", "awaiting_approval", "raised"}

Init ==
  /\ caller = [w \in Worker |-> NoThread]
  /\ outcome = [w \in Worker |-> "none"]
  /\ conv = [t \in Thread |-> "new"]

\* A call begins: run() at any time, resume() only where a question waits.
\* (Both look the same from here: the conversation is busy.)
Begin(w, t) ==
  /\ caller[w] = NoThread
  /\ conv[t] # "busy"
  /\ caller' = [caller EXCEPT ![w] = t]
  /\ outcome' = [outcome EXCEPT ![w] = "none"]
  /\ conv' = [conv EXCEPT ![t] = "busy"]

\* The workflow comes out.
Decide(w) ==
  /\ caller[w] # NoThread
  /\ outcome[w] = "none"
  /\ \E o \in Outcome : outcome' = [outcome EXCEPT ![w] = o]
  /\ UNCHANGED <<caller, conv>>

\* The caller is told how the workflow came out, and nothing else.
Tell(w) ==
  /\ outcome[w] \in Outcome
  /\ conv' = [conv EXCEPT ![caller[w]] = outcome[w]]
  /\ caller' = [caller EXCEPT ![w] = NoThread]
  /\ outcome' = [outcome EXCEPT ![w] = "none"]

\* The process dies: calls and checkpoints live in its memory.
Crash ==
  /\ caller' = [w \in Worker |-> NoThread]
  /\ outcome' = [w \in Worker |-> "none"]
  /\ conv' = [t \in Thread |-> "new"]

Next ==
  \/ Crash
  \/ \E w \in Worker : Decide(w) \/ Tell(w) \/ \E t \in Thread : Begin(w, t)

Spec == Init /\ [][Next]_vars
=============================================================================
