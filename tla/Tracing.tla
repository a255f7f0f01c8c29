------------------------------ MODULE Tracing ------------------------------
(***************************************************************************)
(* The agent service as it is observed: every run() and resume() opens a   *)
(* span, every node of the workflow opens one inside it and every call of  *)
(* a language model or test runner one inside that.  Spans find their      *)
(* place in the tree through two context variables that span() sets on the *)
(* way in and resets on the way out, however the code inside it leaves;    *)
(* finished spans gather in the trace of their conversation, which         *)
(* finish_trace writes to disk as one JSON document.                       *)
(*                                                                         *)
(* Code leaves a span by returning, by raising ("error") or by LangGraph's *)
(* GraphBubbleUp ("pause"), which stops the workflow for an approval.  The *)
(* workflow itself is abstract here: AgentWorkflow has its nodes.          *)
(***************************************************************************)
EXTENDS Naturals, Sequences, SequencesExt

CONSTANTS
  Worker,     \* threads of execution, each with its own context variables
  Thread,     \* conversations; thread_id is also the trace_id
  NoThread,   \* no conversation, or no trace id
  NoSpan,     \* no span id
  NoTrace,    \* no such trace: not in memory, or no file
  Torn,       \* a trace file that was cut off while it was written
  MaxSpans    \* bound on the spans ever opened

ASSUME MaxSpansAssumption == MaxSpans \in Nat
ASSUME NoThreadAssumption == NoThread \notin Thread

VARIABLES
  caller,     \* the conversation each worker's pending call serves
  outcome,    \* how the workflow of that call has come out so far
  signal,     \* what travels up the call's stack: an error or a pause
  stack,      \* the worker's open spans, innermost last
  context,    \* the worker's context variables
  conv,       \* what was last said to the caller of each conversation
  traces,     \* Tracer._traces: the traces in memory
  disk,       \* the recorder's trace files
  ids         \* how many span ids were handed out

vars == <<caller, outcome, signal, stack, context, conv, traces, disk, ids>>
-----------------------------------------------------------------------------
(* Spans, traces and their context. *)

SpanId == 1 .. MaxSpans

ASSUME NoSpanAssumption == NoSpan \notin SpanId

Context == [trace : Thread \cup {NoThread}, span : SpanId \cup {NoSpan}]

NoContext == [trace |-> NoThread, span |-> NoSpan]

\* An open span, with the context its reset tokens restore.
Frame == [id     : SpanId,
          parent : SpanId \cup {NoSpan},
          trace  : Thread \cup {NoThread},
          kind   : {"call", "node", "provider"},
          saved  : Context]

\* A finished span as its trace holds it.
Span == [id     : SpanId,
         parent : SpanId \cup {NoSpan},
         kind   : {"call", "node", "provider"},
         status : {"ok", "error", "interrupted"}]

Trace == [status : {"running", "awaiting_approval", "completed"},
          ended  : BOOLEAN,
          spans  : SUBSET Span]

ASSUME NoTraceAssumption == NoTrace \notin Trace

Outcome == {"completed", "awaiting_approval", "raised"}

NewTrace == [status |-> "running", ended |-> FALSE, spans |-> {}]

Idle(w) == caller[w] = NoThread

Innermost(w) == Last(stack[w])

InKind(w, kind) == stack[w] # <<>> /\ Innermost(w).kind = kind

\* Tracer.start_trace: an open trace of that id goes on.
StartTrace(t) ==
  traces' = [traces EXCEPT ![t] = IF @ = NoTrace THEN NewTrace ELSE @]

\* Tracer.span, on the way in; trace is NoThread when the caller gave none.
OpenSpan(w, trace, kind) ==
  LET resolved == IF trace # NoThread THEN trace ELSE context[w].trace
      frame == [id     |-> ids + 1,
                parent |-> context[w].span,
                trace  |-> resolved,
                kind   |-> kind,
                saved  |-> context[w]]
  IN  /\ ids < MaxSpans
      /\ ids' = ids + 1
      /\ stack' = [stack EXCEPT ![w] = Append(@, frame)]
      /\ context' = [context EXCEPT ![w] = [trace |-> resolved, span |-> ids + 1]]

\* Mutant: the reset is not in a finally block.
CloseSpanIfOk(w, status) ==
  LET frame == Innermost(w)
      span == [id |-> frame.id, parent |-> frame.parent,
               kind |-> frame.kind, status |-> status]
      t == frame.trace
  IN  /\ stack' = [stack EXCEPT ![w] = Front(@)]
      /\ context' = IF status = "ok" THEN [context EXCEPT ![w] = frame.saved]
                    ELSE context
      /\ traces' = IF t \in Thread /\ traces[t] # NoTrace
                   THEN [traces EXCEPT ![t].spans = @ \cup {span}]
                   ELSE traces
      /\ UNCHANGED ids

\* Mutant: a span that raised is not appended.
CloseSpanForgettingErrors(w, status) ==
  LET frame == Innermost(w)
      span == [id |-> frame.id, parent |-> frame.parent,
               kind |-> frame.kind, status |-> status]
      t == frame.trace
  IN  /\ stack' = [stack EXCEPT ![w] = Front(@)]
      /\ context' = [context EXCEPT ![w] = frame.saved]
      /\ traces' = IF t \in Thread /\ traces[t] # NoTrace /\ status # "error"
                   THEN [traces EXCEPT ![t].spans = @ \cup {span}]
                   ELSE traces
      /\ UNCHANGED ids

\* Tracer.span, on the way out: the context is reset, and the finished span
\* joins its trace if that is in memory.
CloseSpan(w, status) ==
  LET frame == Innermost(w)
      span == [id |-> frame.id, parent |-> frame.parent,
               kind |-> frame.kind, status |-> status]
      t == frame.trace
  IN  /\ stack' = [stack EXCEPT ![w] = Front(@)]
      /\ context' = [context EXCEPT ![w] = frame.saved]
      /\ traces' = IF t \in Thread /\ traces[t] # NoTrace
                   THEN [traces EXCEPT ![t].spans = @ \cup {span}]
                   ELSE traces
      /\ UNCHANGED ids

\* Mutant: a span that returned stays "running".
StatusOfUnset(sig) ==
  IF sig = "error" THEN "error" ELSE IF sig = "pause" THEN "interrupted" ELSE "running"

\* What span() makes of the way its body was left.
StatusOf(sig) ==
  IF sig = "error" THEN "error" ELSE IF sig = "pause" THEN "interrupted" ELSE "ok"
-----------------------------------------------------------------------------
(* Calls of the service. *)

\* AgentService.run, up to graph.invoke.
Run(w, t) ==
  /\ Idle(w)
  /\ conv[t] # "busy"
  /\ OpenSpan(w, t, "call")
  /\ StartTrace(t)
  /\ caller' = [caller EXCEPT ![w] = t]
  /\ conv' = [conv EXCEPT ![t] = "busy"]
  /\ UNCHANGED <<outcome, signal, disk>>

\* AgentService.resume, up to graph.invoke; it starts no trace.
Resume(w, t) ==
  /\ Idle(w)
  /\ conv[t] = "awaiting_approval"
  /\ OpenSpan(w, t, "call")
  /\ caller' = [caller EXCEPT ![w] = t]
  /\ conv' = [conv EXCEPT ![t] = "busy"]
  /\ UNCHANGED <<outcome, signal, traces, disk>>

\* LangGraph calls the next node, which traced_node has wrapped.
StartNode(w) ==
  /\ InKind(w, "call")
  /\ signal[w] = "none" /\ outcome[w] = "none"
  /\ OpenSpan(w, NoThread, "node")
  /\ UNCHANGED <<caller, outcome, signal, conv, traces, disk>>

\* The node calls the language model or the test runner.
StartProvider(w) ==
  /\ InKind(w, "node")
  /\ signal[w] = "none"
  /\ OpenSpan(w, NoThread, "provider")
  /\ UNCHANGED <<caller, outcome, signal, conv, traces, disk>>

\* The provider returns or raises; the node lets an exception pass or, when
\* the sandbox is not there, handles it.
EndProvider(w) ==
  /\ InKind(w, "provider")
  /\ CloseSpan(w, StatusOf(signal[w]))
  /\ \E sig \in {signal[w], "none"} : signal' = [signal EXCEPT ![w] = sig]
  /\ UNCHANGED <<caller, outcome, conv, disk>>

\* interrupt() in the approval node.
Pause(w) ==
  /\ InKind(w, "node")
  /\ signal[w] = "none"
  /\ signal' = [signal EXCEPT ![w] = "pause"]
  /\ UNCHANGED <<caller, outcome, stack, context, conv, traces, disk, ids>>

\* A node, a provider or LangGraph itself raises.
Raise(w) ==
  /\ stack[w] # <<>>
  /\ signal[w] = "none" /\ outcome[w] = "none"
  /\ signal' = [signal EXCEPT ![w] = "error"]
  /\ UNCHANGED <<caller, outcome, stack, context, conv, traces, disk, ids>>

\* The node is left.  LangGraph keeps a pause to itself and lets an error
\* pass; after a return it goes on with a node or is at its end.
EndNode(w) ==
  /\ InKind(w, "node")
  /\ CloseSpan(w, StatusOf(signal[w]))
  /\ \E o \in {"none", "completed", "awaiting_approval"} :
       /\ o = "awaiting_approval" <=> signal[w] = "pause"
       /\ o = "completed" => signal[w] = "none"
       /\ outcome' = [outcome EXCEPT ![w] = o]
  /\ signal' = [signal EXCEPT ![w] = IF @ = "pause" THEN "none" ELSE @]
  /\ UNCHANGED <<caller, conv, disk>>

\* graph.invoke returns and the call's span is closed; a run that waits for
\* an approval is marked as interrupted.
EndCall(w) ==
  /\ InKind(w, "call")
  /\ outcome[w] # "none"
  /\ CloseSpan(w, IF outcome[w] = "awaiting_approval" THEN "interrupted" ELSE "ok")
  /\ UNCHANGED <<caller, outcome, signal, conv, disk>>

\* graph.invoke raises: the span is closed, finish_trace is not reached and
\* the caller gets the exception.
FailCall(w) ==
  /\ InKind(w, "call")
  /\ signal[w] = "error"
  /\ CloseSpan(w, "error")
  /\ signal' = [signal EXCEPT ![w] = "none"]
  /\ outcome' = [outcome EXCEPT ![w] = "raised"]
  /\ UNCHANGED <<caller, conv, disk>>

\* The call returns to its caller, or raises.
Tell(w, o) ==
  /\ conv' = [conv EXCEPT ![caller[w]] = o]
  /\ caller' = [caller EXCEPT ![w] = NoThread]
  /\ outcome' = [outcome EXCEPT ![w] = "none"]
  /\ UNCHANGED <<signal, stack, context, ids>>

\* The exception reaches the caller of run() or resume().
PassOn(w) ==
  /\ ~ Idle(w)
  /\ outcome[w] = "raised"
  /\ Tell(w, "raised")
  /\ UNCHANGED <<traces, disk>>

Returning(w) == ~ Idle(w) /\ stack[w] = <<>> /\ outcome[w] # "raised"

\* The trace as finish_trace hands it to the recorder.
Stamped(t, status) ==
  [traces[t] EXCEPT !.status = status, !.ended = @ \/ status = "completed"]

\* Mutant: every flush releases the trace.
FinishReleasing(w) ==
  LET t == caller[w]
  IN  /\ Returning(w)
      /\ IF traces[t] = NoTrace
         THEN UNCHANGED <<traces, disk>>
         ELSE /\ disk' = [disk EXCEPT ![t] = Stamped(t, outcome[w])]
              /\ traces' = [traces EXCEPT ![t] = NoTrace]
      /\ Tell(w, outcome[w])

\* finish_trace: the recorder writes the trace, a finished one is released,
\* and the call returns its result.
Finish(w) ==
  LET t == caller[w]
  IN  /\ Returning(w)
      /\ IF traces[t] = NoTrace
         THEN UNCHANGED <<traces, disk>>
         ELSE /\ disk' = [disk EXCEPT ![t] = Stamped(t, outcome[w])]
              /\ traces' = [traces EXCEPT
                   ![t] = IF outcome[w] = "completed" THEN NoTrace
                          ELSE Stamped(t, outcome[w])]
      /\ Tell(w, outcome[w])

\* The recorder raises, before or after it has truncated the file.
Unrecorded(t, status) ==
  /\ traces[t] # NoTrace
  /\ disk' \in {disk, [disk EXCEPT ![t] = Torn]}
  /\ traces' = [traces EXCEPT ![t] = Stamped(t, status)]

\* Mutant: the recorder's exception is not swallowed.
FinishUnrecordedLoud(w) ==
  /\ Returning(w)
  /\ Unrecorded(caller[w], outcome[w])
  /\ Tell(w, "raised")

\* finish_trace when the recorder raises: the trace is stamped already but
\* not released, and the call returns its result all the same.
FinishUnrecorded(w) ==
  /\ Returning(w)
  /\ Unrecorded(caller[w], outcome[w])
  /\ Tell(w, outcome[w])

\* The process dies: conversations (MemorySaver) and traces are gone, and a
\* file that was being written is cut off.
Crash ==
  /\ \E T \in SUBSET {caller[w] : w \in {v \in Worker : Returning(v)}} :
       disk' = [t \in Thread |-> IF t \in T THEN Torn ELSE disk[t]]
  /\ caller' = [w \in Worker |-> NoThread]
  /\ outcome' = [w \in Worker |-> "none"]
  /\ signal' = [w \in Worker |-> "none"]
  /\ stack' = [w \in Worker |-> <<>>]
  /\ context' = [w \in Worker |-> NoContext]
  /\ conv' = [t \in Thread |-> "new"]
  /\ traces' = [t \in Thread |-> NoTrace]
  /\ UNCHANGED ids
-----------------------------------------------------------------------------
Init ==
  /\ caller = [w \in Worker |-> NoThread]
  /\ outcome = [w \in Worker |-> "none"]
  /\ signal = [w \in Worker |-> "none"]
  /\ stack = [w \in Worker |-> <<>>]
  /\ context = [w \in Worker |-> NoContext]
  /\ conv = [t \in Thread |-> "new"]
  /\ traces = [t \in Thread |-> NoTrace]
  /\ disk = [t \in Thread |-> NoTrace]
  /\ ids = 0

Step(w) ==
  \/ StartNode(w) \/ StartProvider(w) \/ EndProvider(w) \/ Pause(w)
  \/ Raise(w) \/ EndNode(w) \/ EndCall(w) \/ FailCall(w)
  \/ PassOn(w) \/ Finish(w) \/ FinishUnrecorded(w)

Next ==
  \/ \E w \in Worker :
       Step(w) \/ \E t \in Thread : Run(w, t) \/ Resume(w, t)
  \/ Crash

Spec == Init /\ [][Next]_vars
-----------------------------------------------------------------------------
(* Properties. *)

\* The types of the variables.
TypeOK ==
  /\ caller \in [Worker -> Thread \cup {NoThread}]
  /\ outcome \in [Worker -> Outcome \cup {"none"}]
  /\ signal \in [Worker -> {"none", "error", "pause"}]
  /\ stack \in [Worker -> Seq(Frame)]
  /\ context \in [Worker -> Context]
  /\ conv \in [Thread -> Outcome \cup {"new", "busy"}]
  /\ traces \in [Thread -> Trace \cup {NoTrace}]
  /\ disk \in [Thread -> Trace \cup {NoTrace, Torn}]
  /\ ids \in 0 .. MaxSpans

\* The context variables follow the code: whatever was returned, raised or
\* paused before, they name the innermost open span and are empty between
\* calls, each open span is the child of the one around it, and all of them
\* belong to the conversation being served.
ContextFollowsCode ==
  \A w \in Worker :
    /\ context[w] =
         IF stack[w] = <<>> THEN NoContext
         ELSE [trace |-> Innermost(w).trace, span |-> Innermost(w).id]
    /\ \A i \in DOMAIN stack[w] :
         /\ stack[w][i].trace = caller[w]
         /\ stack[w][i].parent = IF i = 1 THEN NoSpan ELSE stack[w][i - 1].id

Readable(t) == disk[t] \notin {NoTrace, Torn}

\* The kind of span that contains each kind.
Around(kind) == IF kind = "provider" THEN "node" ELSE "call"

Rooted(spans) ==
  \A s \in spans :
    IF s.kind = "call" THEN s.parent = NoSpan
    ELSE \E p \in spans : p.id = s.parent /\ p.kind = Around(s.kind)

\* Every trace file holds a whole tree: calls at the top, nodes in calls,
\* providers in nodes.  render_trace drops a span whose parent is missing
\* without a word (observability/report.py).
WholeTree == \A t \in Thread : Readable(t) => Rooted(disk[t].spans)

CallsOf(trace) == {s \in trace.spans : s.kind = "call"}

Paused(trace, call) ==
  \E s \in trace.spans : s.parent = call.id /\ s.status = "interrupted"

\* A trace file agrees with itself: a call is marked interrupted exactly if
\* one of its nodes is, and the status of the trace is how its last call came
\* out.
StatusMatchesTree ==
  \A t \in Thread : Readable(t) =>
    /\ \A c \in CallsOf(disk[t]) :
         c.status = "interrupted" <=> Paused(disk[t], c)
    /\ \E last \in CallsOf(disk[t]) :
         /\ \A c \in CallsOf(disk[t]) : c.id <= last.id
         /\ last.status = "interrupted" <=> disk[t].status = "awaiting_approval"
         /\ last.status = "ok" <=> disk[t].status = "completed"

\* What a trace file shows is one conversation, whole and consistent.
TraceFilesAreTrue == WholeTree /\ StatusMatchesTree

\* "One trace per conversation, spanning every run()/resume() call"
\* (agent/service.py): the trace of a conversation that works or waits is in
\* memory, so that no span of it finishes without a trace to join.
OpenTraceIsKept ==
  \A t \in Thread : conv[t] \in {"busy", "awaiting_approval"} => traces[t] # NoTrace

\* "A bug in tracing must never break the agent it's observing"
\* (observability/tracer.py): whatever the recorder does, every call comes out
\* as it would unobserved.
Calls == INSTANCE AgentCalls

ImplementsCalls == Calls!Spec
=============================================================================
