--------------------------- MODULE Tracing_proofs ---------------------------
(***************************************************************************)
(* Proofs about Tracing, for any workers, conversations and number of      *)
(* spans.  The inductive invariant says how the stack of open spans, the   *)
(* context variables, the reset tokens and the progress of a call fit      *)
(* together; from it follow the types, the nesting of the spans, the       *)
(* lifetime of a trace, and that tracing changes no call's outcome.        *)
(***************************************************************************)
EXTENDS Tracing, SequenceTheorems, TLAPS

\* Open spans nest in the one way the service allows.
KindAt(i) == IF i = 1 THEN "call" ELSE IF i = 2 THEN "node" ELSE "provider"

\* How far a call has come shows in its stack: it comes out only once no node
\* is open, a signal travels only before it has come out, and an exception is
\* its outcome only when all spans are closed.
Shape(w) ==
  /\ Len(stack[w]) <= 3
  /\ \A i \in 1 .. Len(stack[w]) : stack[w][i].kind = KindAt(i)
  /\ Idle(w) => stack[w] = <<>> /\ outcome[w] = "none"
  /\ ~ Idle(w) /\ stack[w] = <<>> => outcome[w] # "none"
  /\ stack[w] = <<>> => signal[w] = "none"
  /\ Len(stack[w]) >= 2 => outcome[w] = "none"
  /\ signal[w] # "none" => outcome[w] = "none"
  /\ outcome[w] = "raised" => stack[w] = <<>>

\* The context that belongs to the first i spans of the worker's stack.
ContextAt(w, i) ==
  IF i = 0 THEN NoContext
  ELSE [trace |-> stack[w][i].trace, span |-> stack[w][i].id]

\* The context variables name the innermost span, and each span's reset tokens
\* hold what they named before it was opened.
Nested(w) ==
  /\ context[w] = ContextAt(w, Len(stack[w]))
  /\ \A i \in 1 .. Len(stack[w]) :
       /\ stack[w][i].trace = caller[w]
       /\ stack[w][i].parent = ContextAt(w, i - 1).span
       /\ stack[w][i].saved = ContextAt(w, i - 1)

\* A conversation that is served is busy, and one worker serves it.
OneCall ==
  \A w \in Worker : ~ Idle(w) =>
    /\ conv[caller[w]] = "busy"
    /\ \A v \in Worker : caller[v] = caller[w] => v = w

IInv ==
  /\ TypeOK /\ OpenTraceIsKept /\ OneCall
  /\ \A w \in Worker : Shape(w) /\ Nested(w)
-----------------------------------------------------------------------------
(* Opening and closing a span. *)

\* A sequence with an element is not empty.
LEMMA NotEmpty == ASSUME NEW s, Len(s) # 0 PROVE s # <<>>
<1>1. SUFFICES ASSUME s = <<>> PROVE FALSE
  OBVIOUS
<1>2. Len(<<>>) = 0
  BY EmptySeq
<1>3. QED
  BY <1>1, <1>2, Zenon

\* What OpenSpan does to the stacks.
LEMMA Opening ==
  ASSUME TypeOK, NEW w \in Worker, NEW trace \in Thread \cup {NoThread},
         NEW kind \in {"call", "node", "provider"}, OpenSpan(w, trace, kind)
  PROVE  /\ stack' \in [Worker -> Seq(Frame)]
         /\ context' \in [Worker -> Context]
         /\ ids' \in 0 .. MaxSpans
         /\ \A v \in Worker \ {w} : stack'[v] = stack[v] /\ context'[v] = context[v]
         /\ Len(stack'[w]) = Len(stack[w]) + 1
         /\ \A i \in 1 .. Len(stack[w]) : stack'[w][i] = stack[w][i]
         /\ LET frame == stack'[w][Len(stack[w]) + 1]
            IN  /\ frame.kind = kind
                /\ frame.trace = IF trace # NoThread THEN trace ELSE context[w].trace
                /\ frame.parent = context[w].span
                /\ frame.saved = context[w]
                /\ context'[w] = [trace |-> frame.trace, span |-> frame.id]
<1> DEFINE resolved == IF trace # NoThread THEN trace ELSE context[w].trace
           frame == [id |-> ids + 1, parent |-> context[w].span, trace |-> resolved,
                     kind |-> kind, saved |-> context[w]]
<1>1. context[w] \in Context /\ resolved \in Thread \cup {NoThread}
  BY DEF TypeOK, Context
<1>2. ids + 1 \in SpanId /\ ids + 1 \in 0 .. MaxSpans
  BY MaxSpansAssumption DEF TypeOK, OpenSpan, SpanId
<1>3. frame \in Frame
  BY <1>1, <1>2 DEF Frame, Context
<1>4. stack[w] \in Seq(Frame)
  BY DEF TypeOK
<1>5. /\ stack' = [stack EXCEPT ![w] = Append(@, frame)]
      /\ context' = [context EXCEPT ![w] = [trace |-> resolved, span |-> ids + 1]]
      /\ ids' = ids + 1
  BY DEF OpenSpan
<1>6. stack'[w] = Append(stack[w], frame)
  BY <1>5 DEF TypeOK
<1>7. /\ stack'[w] \in Seq(Frame)
      /\ Len(stack'[w]) = Len(stack[w]) + 1
      /\ \A i \in 1 .. Len(stack[w]) : stack'[w][i] = stack[w][i]
      /\ stack'[w][Len(stack[w]) + 1] = frame
  BY <1>3, <1>4, <1>6, AppendProperties
<1>8. [trace |-> resolved, span |-> ids + 1] \in Context
  BY <1>1, <1>2 DEF Context
<1>9. context' \in [Worker -> Context] /\ context'[w] = [trace |-> resolved, span |-> ids + 1]
  BY <1>5, <1>8 DEF TypeOK
<1>10. stack' \in [Worker -> Seq(Frame)]
  BY <1>5, <1>6, <1>7 DEF TypeOK
<1>11. \A v \in Worker \ {w} : stack'[v] = stack[v] /\ context'[v] = context[v]
  BY <1>5 DEF TypeOK
<1>12. QED
  BY <1>2, <1>5, <1>7, <1>9, <1>10, <1>11

\* What CloseSpan does to the stacks and to the traces.
LEMMA Closing ==
  ASSUME TypeOK, NEW w \in Worker, stack[w] # <<>>,
         NEW status \in {"ok", "error", "interrupted"}, CloseSpan(w, status)
  PROVE  /\ stack' \in [Worker -> Seq(Frame)]
         /\ context' \in [Worker -> Context]
         /\ traces' \in [Thread -> Trace \cup {NoTrace}]
         /\ \A t \in Thread : traces'[t] = NoTrace <=> traces[t] = NoTrace
         /\ \A v \in Worker \ {w} : stack'[v] = stack[v] /\ context'[v] = context[v]
         /\ Len(stack[w]) \in Nat \ {0}
         /\ Len(stack'[w]) = Len(stack[w]) - 1
         /\ \A i \in 1 .. Len(stack[w]) - 1 : stack'[w][i] = stack[w][i]
         /\ context'[w] = stack[w][Len(stack[w])].saved
<1> DEFINE frame == stack[w][Len(stack[w])]
           span == [id |-> frame.id, parent |-> frame.parent,
                    kind |-> frame.kind, status |-> status]
           t == frame.trace
<1>1. stack[w] \in Seq(Frame) /\ Len(stack[w]) \in Nat \ {0}
  BY EmptySeq DEF TypeOK
<1>2. frame \in Frame
  BY <1>1
<1>3. span \in Span
  BY <1>2 DEF Frame, Span
<1>4. /\ stack' = [stack EXCEPT ![w] = Front(@)]
      /\ context' = [context EXCEPT ![w] = frame.saved]
      /\ traces' = IF t \in Thread /\ traces[t] # NoTrace
                   THEN [traces EXCEPT ![t].spans = @ \cup {span}] ELSE traces
  BY DEF CloseSpan, Innermost, Last
<1>5. stack'[w] = SubSeq(stack[w], 1, Len(stack[w]) - 1)
  BY <1>4 DEF TypeOK, Front
<1>6. /\ stack'[w] \in Seq(Frame)
      /\ Len(stack'[w]) = Len(stack[w]) - 1
      /\ \A i \in 1 .. Len(stack[w]) - 1 : stack'[w][i] = stack[w][i]
  <2>1. \A i \in 1 .. Len(stack[w]) - 1 : stack[w][i] \in Frame
    BY <1>1
  <2>2. Len(stack[w]) - 1 \in Int /\ 1 \in Int
    BY <1>1
  <2>3. /\ SubSeq(stack[w], 1, Len(stack[w]) - 1) \in Seq(Frame)
        /\ Len(SubSeq(stack[w], 1, Len(stack[w]) - 1)) =
             IF 1 <= Len(stack[w]) - 1 THEN Len(stack[w]) - 1 - 1 + 1 ELSE 0
        /\ \A i \in 1 .. Len(stack[w]) - 1 - 1 + 1 :
             SubSeq(stack[w], 1, Len(stack[w]) - 1)[i] = stack[w][1 + i - 1]
    BY <2>1, <2>2, SubSeqProperties
  <2>4. QED
    BY <1>1, <1>5, <2>3
<1>7. stack' \in [Worker -> Seq(Frame)]
  BY <1>4, <1>5, <1>6 DEF TypeOK
<1>8. frame.saved \in Context
  BY <1>2 DEF Frame
<1>9. context' \in [Worker -> Context] /\ context'[w] = frame.saved
  BY <1>4, <1>8 DEF TypeOK
<1>10. \A v \in Worker \ {w} : stack'[v] = stack[v] /\ context'[v] = context[v]
  BY <1>4 DEF TypeOK
<1>11. /\ traces' \in [Thread -> Trace \cup {NoTrace}]
       /\ \A u \in Thread : traces'[u] = NoTrace <=> traces[u] = NoTrace
  <2>1. CASE t \in Thread /\ traces[t] # NoTrace
    <3>1. traces[t] \in Trace
      BY <2>1 DEF TypeOK
    <3>2. [traces[t] EXCEPT !.spans = @ \cup {span}] \in Trace
      BY <1>3, <3>1 DEF Trace
    <3>3. traces' = [traces EXCEPT ![t] = [traces[t] EXCEPT !.spans = @ \cup {span}]]
      BY <1>4, <2>1 DEF TypeOK
    <3>4. QED
      BY <2>1, <3>2, <3>3, NoTraceAssumption DEF TypeOK
  <2>2. CASE ~ (t \in Thread /\ traces[t] # NoTrace)
    BY <1>4, <2>2 DEF TypeOK
  <2>3. QED
    BY <2>1, <2>2
<1>12. QED
  BY <1>1, <1>6, <1>7, <1>9, <1>10, <1>11
-----------------------------------------------------------------------------
(* The shape and the nesting of one worker's stack. *)

\* A step of another worker leaves both as they are.
LEMMA Elsewhere ==
  ASSUME NEW v \in Worker, Shape(v), Nested(v),
         stack'[v] = stack[v], context'[v] = context[v], caller'[v] = caller[v],
         outcome'[v] = outcome[v], signal'[v] = signal[v]
  PROVE  Shape(v)' /\ Nested(v)'
<1>1. Shape(v)'
  BY DEF Shape, Idle, KindAt
<1>2. Nested(v)'
  BY DEF Nested, ContextAt
<1>3. QED
  BY <1>1, <1>2

\* A span that lands in the conversation of its call nests.
LEMMA OpenNests ==
  ASSUME TypeOK, NEW w \in Worker, Nested(w),
         NEW trace \in Thread \cup {NoThread},
         NEW kind \in {"call", "node", "provider"}, OpenSpan(w, trace, kind),
         caller'[w] = IF trace # NoThread THEN trace ELSE context[w].trace,
         stack[w] = <<>> \/ caller'[w] = caller[w]
  PROVE  Nested(w)'
<1>0. stack[w] \in Seq(Frame)
  BY DEF TypeOK
<1>1. PICK n \in Nat : n = Len(stack[w])
  BY <1>0
<1>2. /\ Len(stack'[w]) = n + 1
      /\ \A i \in 1 .. n : stack'[w][i] = stack[w][i]
      /\ stack'[w][n + 1].trace = caller'[w]
      /\ stack'[w][n + 1].parent = context[w].span
      /\ stack'[w][n + 1].saved = context[w]
      /\ context'[w] = [trace |-> stack'[w][n + 1].trace, span |-> stack'[w][n + 1].id]
  BY <1>1, Opening
<1>3. \A i \in 0 .. n : ContextAt(w, i)' = ContextAt(w, i)
  BY <1>1, <1>2 DEF ContextAt
<1>4. context[w] = ContextAt(w, n)
  BY <1>1 DEF Nested
<1>5. context'[w] = ContextAt(w, n + 1)'
  BY <1>1, <1>2 DEF ContextAt
<1>6. ASSUME NEW i \in 1 .. n + 1
      PROVE  /\ stack'[w][i].trace = caller'[w]
             /\ stack'[w][i].parent = ContextAt(w, i - 1)'.span
             /\ stack'[w][i].saved = ContextAt(w, i - 1)'
  <2>1. CASE i = n + 1
    BY <1>1, <1>2, <1>3, <1>4, <2>1
  <2>2. CASE i \in 1 .. n
    <3>1. i - 1 \in 0 .. n
      BY <1>1, <2>2
    <3>2. n # 0
      BY <1>1, <2>2
    <3>3. stack[w] # <<>>
      BY <1>1, <3>2
    <3>4. QED
      BY <1>1, <1>2, <1>3, <2>2, <3>1, <3>3 DEF Nested
  <2>3. QED
    BY <1>1, <2>1, <2>2
<1>7. QED
  BY <1>1, <1>2, <1>5, <1>6 DEF Nested

\* The reset tokens restore what the spans below were opened in.
LEMMA CloseNests ==
  ASSUME TypeOK, NEW w \in Worker, Nested(w), stack[w] # <<>>,
         NEW status \in {"ok", "error", "interrupted"}, CloseSpan(w, status),
         caller'[w] = caller[w]
  PROVE  Nested(w)'
<1>0. PICK n \in Nat : n = Len(stack[w])
  BY DEF TypeOK
<1>1. /\ n \in Nat \ {0}
      /\ Len(stack'[w]) = n - 1
      /\ \A i \in 1 .. n - 1 : stack'[w][i] = stack[w][i]
      /\ context'[w] = stack[w][n].saved
  BY <1>0, Closing
<1>2. \A i \in 0 .. n - 1 : ContextAt(w, i)' = ContextAt(w, i)
  BY <1>1 DEF ContextAt
<1>3. stack[w][n].saved = ContextAt(w, n - 1)
  BY <1>0, <1>1 DEF Nested
<1>4. context'[w] = ContextAt(w, n - 1)'
  BY <1>1, <1>2, <1>3
<1>5. ASSUME NEW i \in 1 .. n - 1
      PROVE  /\ stack'[w][i].trace = caller'[w]
             /\ stack'[w][i].parent = ContextAt(w, i - 1)'.span
             /\ stack'[w][i].saved = ContextAt(w, i - 1)'
  <2>1. i \in 1 .. n /\ i - 1 \in 0 .. n - 1
    BY <1>1
  <2>2. QED
    BY <1>0, <1>1, <1>2, <2>1 DEF Nested
<1>6. QED
  BY <1>1, <1>4, <1>5 DEF Nested
-----------------------------------------------------------------------------
(* Every step keeps the invariant. *)

LEMMA InitEstablishes == Init => IInv
<1> SUFFICES ASSUME Init PROVE IInv
  OBVIOUS
<1>1. <<>> \in Seq(Frame) /\ Len(<<>>) = 0
  BY EmptySeq
<1>2. NoContext \in Context
  BY DEF NoContext, Context
<1>3. 0 \in 0 .. MaxSpans
  BY MaxSpansAssumption
<1>4. TypeOK
  BY <1>1, <1>2, <1>3 DEF Init, TypeOK, Outcome
<1>5. OpenTraceIsKept
  BY DEF Init, OpenTraceIsKept
<1>6. ASSUME NEW w \in Worker
      PROVE  Shape(w) /\ Nested(w)
  <2>1. /\ stack[w] = <<>> /\ caller[w] = NoThread /\ outcome[w] = "none"
        /\ signal[w] = "none" /\ context[w] = NoContext
    BY DEF Init
  <2>2. Shape(w)
    BY <1>1, <2>1 DEF Shape, Idle
  <2>3. Nested(w)
    BY <2>1 DEF Nested, ContextAt
  <2>4. QED
    BY <2>2, <2>3
<1>7. OneCall
  BY DEF Init, OneCall, Idle
<1>8. QED
  BY <1>4, <1>5, <1>6, <1>7 DEF IInv

LEMMA RunKeeps ==
  ASSUME IInv, NEW w \in Worker, NEW t \in Thread, Run(w, t)
  PROVE  IInv'
<1> USE DEF IInv
<1>1. /\ stack[w] = <<>> /\ outcome[w] = "none" /\ signal[w] = "none"
      /\ Len(stack[w]) = 0
  BY DEF Run, Shape
<1>2. t # NoThread /\ caller[w] = NoThread
  BY NoThreadAssumption DEF Run, Idle
<1>3. /\ stack' \in [Worker -> Seq(Frame)] /\ context' \in [Worker -> Context]
      /\ ids' \in 0 .. MaxSpans
      /\ \A v \in Worker \ {w} : stack'[v] = stack[v] /\ context'[v] = context[v]
      /\ Len(stack'[w]) = 1 /\ stack'[w][1].kind = "call"
  <2>1. OpenSpan(w, t, "call")
    BY DEF Run
  <2>2. t \in Thread \cup {NoThread} /\ "call" \in {"call", "node", "provider"}
    OBVIOUS
  <2>3. /\ stack' \in [Worker -> Seq(Frame)] /\ context' \in [Worker -> Context]
        /\ ids' \in 0 .. MaxSpans
        /\ \A v \in Worker \ {w} : stack'[v] = stack[v] /\ context'[v] = context[v]
        /\ Len(stack'[w]) = Len(stack[w]) + 1
        /\ stack'[w][Len(stack[w]) + 1].kind = "call"
    BY <2>1, <2>2, Opening
  <2>4. Len(stack[w]) + 1 = 1
    BY <1>1
  <2>5. QED
    BY <2>3, <2>4
<1>4. /\ caller' = [caller EXCEPT ![w] = t] /\ conv' = [conv EXCEPT ![t] = "busy"]
      /\ traces' = [traces EXCEPT ![t] = IF @ = NoTrace THEN NewTrace ELSE @]
      /\ outcome' = outcome /\ signal' = signal /\ disk' = disk
  BY DEF Run, StartTrace
<1>5. NewTrace \in Trace
  BY DEF NewTrace, Trace
<1>6. TypeOK'
  BY <1>3, <1>4, <1>5 DEF TypeOK
<1>7. OpenTraceIsKept'
  <2>1. ASSUME NEW u \in Thread, conv'[u] \in {"busy", "awaiting_approval"}
        PROVE  traces'[u] # NoTrace
    <3>1. CASE u = t
      BY <1>4, <1>5, <3>1, NoTraceAssumption DEF TypeOK
    <3>2. CASE u # t
      BY <1>4, <2>1, <3>2 DEF TypeOK, OpenTraceIsKept
    <3>3. QED
      BY <3>1, <3>2
  <2>2. QED
    BY <2>1 DEF OpenTraceIsKept
<1>8. Shape(w)'
  <2>1. caller'[w] = t /\ stack'[w] # <<>>
    <3>1. Len(stack'[w]) # 0
      BY <1>3
    <3>2. stack'[w] # <<>>
      BY <3>1, NotEmpty
    <3>3. caller'[w] = t
      BY <1>4 DEF TypeOK
    <3>4. QED
      BY <3>2, <3>3
  <2>2. QED
    BY <1>1, <1>2, <1>3, <1>4, <2>1 DEF Shape, Idle, KindAt
<1>9. Nested(w)'
  <2>1. caller'[w] = IF t # NoThread THEN t ELSE context[w].trace
    BY <1>2, <1>4 DEF TypeOK
  <2>2. OpenSpan(w, t, "call")
    BY DEF Run
  <2>3. QED
    BY <1>1, <2>1, <2>2, OpenNests
<1>10. ASSUME NEW v \in Worker \ {w}
       PROVE  Shape(v)' /\ Nested(v)'
  BY <1>3, <1>4, Elsewhere DEF TypeOK
<1>11. OneCall'
  <2>1. \A v \in Worker : ~ Idle(v) => caller[v] # t
    BY DEF Run, OneCall
  <2>2. caller'[w] = t /\ \A v \in Worker \ {w} : caller'[v] = caller[v]
    BY <1>4 DEF TypeOK
  <2>3. conv'[t] = "busy" /\ \A u \in Thread \ {t} : conv'[u] = conv[u]
    BY <1>4 DEF TypeOK
  <2>4. \A v \in Worker : ~ Idle(v) => caller[v] \in Thread
    BY DEF TypeOK, Idle
  <2>5. QED
    BY <1>2, <2>1, <2>2, <2>3, <2>4 DEF OneCall, Idle
<1>12. QED
  BY <1>6, <1>7, <1>8, <1>9, <1>10, <1>11

LEMMA ResumeKeeps ==
  ASSUME IInv, NEW w \in Worker, NEW t \in Thread, Resume(w, t)
  PROVE  IInv'
<1> USE DEF IInv
<1>1. /\ stack[w] = <<>> /\ outcome[w] = "none" /\ signal[w] = "none"
      /\ Len(stack[w]) = 0
  BY DEF Resume, Shape
<1>2. t # NoThread /\ caller[w] = NoThread
  BY NoThreadAssumption DEF Resume, Idle
<1>3. /\ stack' \in [Worker -> Seq(Frame)] /\ context' \in [Worker -> Context]
      /\ ids' \in 0 .. MaxSpans
      /\ \A v \in Worker \ {w} : stack'[v] = stack[v] /\ context'[v] = context[v]
      /\ Len(stack'[w]) = 1 /\ stack'[w][1].kind = "call"
  <2>1. OpenSpan(w, t, "call")
    BY DEF Resume
  <2>2. t \in Thread \cup {NoThread} /\ "call" \in {"call", "node", "provider"}
    OBVIOUS
  <2>3. /\ stack' \in [Worker -> Seq(Frame)] /\ context' \in [Worker -> Context]
        /\ ids' \in 0 .. MaxSpans
        /\ \A v \in Worker \ {w} : stack'[v] = stack[v] /\ context'[v] = context[v]
        /\ Len(stack'[w]) = Len(stack[w]) + 1
        /\ stack'[w][Len(stack[w]) + 1].kind = "call"
    BY <2>1, <2>2, Opening
  <2>4. Len(stack[w]) + 1 = 1
    BY <1>1
  <2>5. QED
    BY <2>3, <2>4
<1>4. /\ caller' = [caller EXCEPT ![w] = t] /\ conv' = [conv EXCEPT ![t] = "busy"]
      /\ traces' = traces /\ conv[t] = "awaiting_approval"
      /\ outcome' = outcome /\ signal' = signal /\ disk' = disk
  BY DEF Resume
<1>5. TypeOK'
  BY <1>3, <1>4 DEF TypeOK
<1>6. OpenTraceIsKept'
  BY <1>4 DEF TypeOK, OpenTraceIsKept
<1>7. Shape(w)'
  <2>1. caller'[w] = t /\ stack'[w] # <<>>
    <3>1. Len(stack'[w]) # 0
      BY <1>3
    <3>2. stack'[w] # <<>>
      BY <3>1, NotEmpty
    <3>3. caller'[w] = t
      BY <1>4 DEF TypeOK
    <3>4. QED
      BY <3>2, <3>3
  <2>2. QED
    BY <1>1, <1>2, <1>3, <1>4, <2>1 DEF Shape, Idle, KindAt
<1>8. Nested(w)'
  <2>1. caller'[w] = IF t # NoThread THEN t ELSE context[w].trace
    BY <1>2, <1>4 DEF TypeOK
  <2>2. OpenSpan(w, t, "call")
    BY DEF Resume
  <2>3. QED
    BY <1>1, <2>1, <2>2, OpenNests
<1>9. ASSUME NEW v \in Worker \ {w}
      PROVE  Shape(v)' /\ Nested(v)'
  BY <1>3, <1>4, Elsewhere DEF TypeOK
<1>10. OneCall'
  <2>1. \A v \in Worker : ~ Idle(v) => caller[v] # t
    BY DEF Resume, OneCall
  <2>2. caller'[w] = t /\ \A v \in Worker \ {w} : caller'[v] = caller[v]
    BY <1>4 DEF TypeOK
  <2>3. conv'[t] = "busy" /\ \A u \in Thread \ {t} : conv'[u] = conv[u]
    BY <1>4 DEF TypeOK
  <2>4. \A v \in Worker : ~ Idle(v) => caller[v] \in Thread
    BY DEF TypeOK, Idle
  <2>5. QED
    BY <1>2, <2>1, <2>2, <2>3, <2>4 DEF OneCall, Idle
<1>11. QED
  BY <1>5, <1>6, <1>7, <1>8, <1>9, <1>10

\* StartNode and StartProvider: a span inside the innermost one.
LEMMA StartKeeps ==
  ASSUME IInv, NEW w \in Worker, NEW depth \in {1, 2},
         InKind(w, KindAt(depth)), OpenSpan(w, NoThread, KindAt(depth + 1)),
         signal[w] = "none", outcome[w] = "none",
         UNCHANGED <<caller, outcome, signal, conv, traces, disk>>
  PROVE  IInv'
<1> USE DEF IInv
<1> DEFINE kind == KindAt(depth + 1)
<1>1. kind \in {"call", "node", "provider"}
  BY DEF KindAt
<1>2. stack[w] \in Seq(Frame) /\ stack[w] # <<>>
  BY DEF TypeOK, InKind
<1>3. Len(stack[w]) \in Nat \ {0}
  BY <1>2, EmptySeq
<1>4. stack[w][Len(stack[w])].kind = KindAt(depth)
  BY DEF InKind, Innermost, Last
<1>5. Len(stack[w]) = depth
  <2>1. stack[w][Len(stack[w])].kind = KindAt(Len(stack[w]))
    BY <1>3 DEF Shape
  <2>2. QED
    BY <1>3, <1>4, <2>1 DEF KindAt
<1>6. /\ stack' \in [Worker -> Seq(Frame)] /\ context' \in [Worker -> Context]
      /\ ids' \in 0 .. MaxSpans
      /\ \A v \in Worker \ {w} : stack'[v] = stack[v] /\ context'[v] = context[v]
      /\ Len(stack'[w]) = depth + 1
      /\ \A i \in 1 .. depth : stack'[w][i] = stack[w][i]
      /\ stack'[w][depth + 1].kind = kind
  BY <1>1, <1>5, Opening
<1>7. TypeOK'
  BY <1>6 DEF TypeOK
<1>8. OpenTraceIsKept'
  BY DEF OpenTraceIsKept
<1>9. Shape(w)'
  <2>1. \A i \in 1 .. depth + 1 : stack'[w][i].kind = KindAt(i)
    BY <1>5, <1>6 DEF Shape
  <2>2. stack'[w] # <<>> /\ ~ Idle(w)
    BY <1>2, <1>6 DEF Shape
  <2>3. QED
    BY <1>6, <2>1, <2>2 DEF Shape, Idle
<1>10. Nested(w)'
  <2>1. context[w].trace = caller[w]
    <3>1. context[w] = [trace |-> stack[w][depth].trace, span |-> stack[w][depth].id]
      BY <1>3, <1>5 DEF Nested, ContextAt
    <3>2. depth \in 1 .. Len(stack[w])
      BY <1>5
    <3>3. stack[w][depth].trace = caller[w]
      BY <3>2 DEF Nested
    <3>4. QED
      BY <3>1, <3>3
  <2>2. QED
    BY <1>1, <2>1, OpenNests
<1>11. ASSUME NEW v \in Worker \ {w}
       PROVE  Shape(v)' /\ Nested(v)'
  BY <1>6, Elsewhere
<1>12. OneCall'
  BY DEF OneCall, Idle
<1>13. QED
  BY <1>7, <1>8, <1>9, <1>10, <1>11, <1>12

\* The kind of the innermost span tells how deep the stack is.
LEMMA DepthOfKind ==
  ASSUME TypeOK, NEW w \in Worker, Shape(w), NEW depth \in 1 .. 3,
         InKind(w, KindAt(depth))
  PROVE  Len(stack[w]) = depth
<1>1. stack[w] \in Seq(Frame) /\ stack[w] # <<>>
  BY DEF TypeOK, InKind
<1>2. Len(stack[w]) \in Nat \ {0}
  BY <1>1, EmptySeq
<1>3. Len(stack[w]) \in 1 .. 3
  <2>1. Len(stack[w]) <= 3
    BY DEF Shape
  <2>2. \A n \in Nat \ {0} : n <= 3 => n \in 1 .. 3
    OBVIOUS
  <2>3. QED
    BY <1>2, <2>1, <2>2
<1>4. stack[w][Len(stack[w])].kind = KindAt(Len(stack[w]))
  BY <1>3 DEF Shape
<1>5. stack[w][Len(stack[w])].kind = KindAt(depth)
  BY DEF InKind, Innermost, Last
<1>6. \A i, j \in 1 .. 3 : KindAt(i) = KindAt(j) => i = j
  BY DEF KindAt
<1>7. QED
  BY <1>3, <1>4, <1>5, <1>6

\* Leaving the span at some depth with the call's outcome at o and the signal
\* at sig.
Leaves(w, depth, status, o, sig) ==
  /\ InKind(w, KindAt(depth)) /\ CloseSpan(w, status)
  /\ outcome' = [outcome EXCEPT ![w] = o]
  /\ signal' = [signal EXCEPT ![w] = sig]
  /\ UNCHANGED <<caller, conv, disk>>
  /\ sig # "none" => o = "none" /\ depth # 1
  /\ depth = 1 => o # "none"
  /\ depth = 3 => o = "none"
  /\ o = "raised" => depth = 1

LEMMA CloseKeeps ==
  ASSUME IInv, NEW w \in Worker, NEW depth \in 1 .. 3,
         NEW status \in {"ok", "error", "interrupted"},
         NEW o \in Outcome \cup {"none"}, NEW sig \in {"none", "error", "pause"},
         Leaves(w, depth, status, o, sig)
  PROVE  IInv'
<1> USE DEF IInv, Leaves
<1>1. stack[w] \in Seq(Frame) /\ stack[w] # <<>>
  BY DEF TypeOK, InKind
<1>2. Len(stack[w]) \in Nat \ {0}
  BY <1>1, EmptySeq
<1>3. Len(stack[w]) = depth
  BY DepthOfKind
<1>4. /\ stack' \in [Worker -> Seq(Frame)] /\ context' \in [Worker -> Context]
      /\ traces' \in [Thread -> Trace \cup {NoTrace}]
      /\ \A t \in Thread : traces'[t] = NoTrace <=> traces[t] = NoTrace
      /\ \A v \in Worker \ {w} : stack'[v] = stack[v] /\ context'[v] = context[v]
      /\ Len(stack'[w]) = depth - 1
      /\ \A i \in 1 .. depth - 1 : stack'[w][i] = stack[w][i]
  BY <1>1, <1>3, Closing
<1>5. ids' = ids
  BY DEF CloseSpan
<1>6. TypeOK'
  BY <1>4, <1>5 DEF TypeOK
<1>7. OpenTraceIsKept'
  BY <1>4 DEF OpenTraceIsKept
<1>8. Shape(w)'
  <2>1. outcome'[w] = o /\ signal'[w] = sig /\ ~ Idle(w)'
    BY <1>1 DEF TypeOK, Shape, Idle
  <2>2. \A i \in 1 .. depth - 1 : stack'[w][i].kind = KindAt(i)
    BY <1>3, <1>4 DEF Shape
  <2>3. stack'[w] = <<>> => depth = 1
    <3>1. SUFFICES ASSUME depth # 1 PROVE stack'[w] # <<>>
      OBVIOUS
    <3>2. Len(stack'[w]) # 0
      BY <1>4, <3>1
    <3>3. QED
      BY <3>2, NotEmpty
  <2>4. depth = 1 => stack'[w] = <<>>
    <3>1. SUFFICES ASSUME depth = 1 PROVE stack'[w] = <<>>
      OBVIOUS
    <3>2. Len(stack'[w]) = 0 /\ stack'[w] \in Seq(Frame)
      BY <1>4, <3>1
    <3>3. QED
      BY <3>2, EmptySeq
  <2>5. Len(stack'[w]) <= 3 /\ (Len(stack'[w]) >= 2 => depth = 3)
    BY <1>4
  <2>6. QED
    BY <1>4, <2>1, <2>2, <2>3, <2>4, <2>5 DEF Shape
<1>9. Nested(w)'
  BY <1>1, CloseNests
<1>10. ASSUME NEW v \in Worker \ {w}
       PROVE  Shape(v)' /\ Nested(v)'
  <2>1. outcome'[v] = outcome[v] /\ signal'[v] = signal[v]
    BY DEF TypeOK
  <2>2. QED
    BY <1>4, <2>1, Elsewhere
<1>11. OneCall'
  BY DEF OneCall, Idle
<1>12. QED
  BY <1>6, <1>7, <1>8, <1>9, <1>10, <1>11

\* Inside a call nothing but its own worker moves on.
LEMMA EndKeeps ==
  ASSUME IInv, NEW w \in Worker,
         EndProvider(w) \/ EndNode(w) \/ EndCall(w) \/ FailCall(w)
  PROVE  IInv'
<1>1. /\ outcome \in [Worker -> Outcome \cup {"none"}]
      /\ signal \in [Worker -> {"none", "error", "pause"}]
      /\ Shape(w)
  BY DEF IInv, TypeOK
<1>2. StatusOf(signal[w]) \in {"ok", "error", "interrupted"}
  BY DEF StatusOf
<1>3. ASSUME NEW depth \in {2, 3}, InKind(w, KindAt(depth))
      PROVE  outcome[w] = "none"
  <2>1. Len(stack[w]) = depth
    <3>1. TypeOK /\ depth \in 1 .. 3
      BY DEF IInv
    <3>2. QED
      BY <1>1, <1>3, <3>1, DepthOfKind
  <2>2. QED
    BY <1>1, <2>1 DEF Shape
<1>4. KindAt(1) = "call" /\ KindAt(2) = "node" /\ KindAt(3) = "provider"
  BY DEF KindAt
<1>5. CASE EndProvider(w)
  <2>1. PICK sig \in {signal[w], "none"} : signal' = [signal EXCEPT ![w] = sig]
    BY <1>5 DEF EndProvider
  <2>2. outcome[w] = "none"
    BY <1>3, <1>4, <1>5 DEF EndProvider
  <2>3. outcome' = [outcome EXCEPT ![w] = "none"]
    BY <1>1, <1>5, <2>2 DEF EndProvider
  <2>4. InKind(w, KindAt(3)) /\ CloseSpan(w, StatusOf(signal[w]))
    BY <1>4, <1>5 DEF EndProvider
  <2>5. UNCHANGED <<caller, conv, disk>>
    BY <1>5 DEF EndProvider
  <2>6. sig \in {"none", "error", "pause"}
    BY <1>1, <2>1
  <2>7. Leaves(w, 3, StatusOf(signal[w]), "none", sig)
    BY <2>1, <2>3, <2>4, <2>5 DEF Leaves
  <2>8. QED
    BY <1>2, <2>6, <2>7, CloseKeeps
<1>6. CASE EndNode(w)
  <2>1. PICK o \in {"none", "completed", "awaiting_approval"} :
          /\ o = "awaiting_approval" <=> signal[w] = "pause"
          /\ o = "completed" => signal[w] = "none"
          /\ outcome' = [outcome EXCEPT ![w] = o]
    BY <1>6 DEF EndNode
  <2>2. PICK sig \in {"none", "error"} :
          /\ signal' = [signal EXCEPT ![w] = sig]
          /\ sig = "error" => signal[w] = "error"
    BY <1>1, <1>6 DEF EndNode
  <2>3. InKind(w, KindAt(2)) /\ CloseSpan(w, StatusOf(signal[w]))
    BY <1>4, <1>6 DEF EndNode
  <2>4. UNCHANGED <<caller, conv, disk>>
    BY <1>6 DEF EndNode
  <2>5. o \in Outcome \cup {"none"} /\ o # "raised"
    BY DEF Outcome
  <2>6. sig # "none" => o = "none"
    BY <2>1, <2>2
  <2>7. Leaves(w, 2, StatusOf(signal[w]), o, sig)
    BY <2>1, <2>2, <2>3, <2>4, <2>5, <2>6 DEF Leaves
  <2>8. QED
    BY <1>2, <2>2, <2>5, <2>7, CloseKeeps
<1>7. CASE EndCall(w)
  <2>1. outcome[w] # "none" /\ outcome[w] \in Outcome
    BY <1>1, <1>7 DEF EndCall
  <2>2. signal[w] = "none"
    BY <1>1, <2>1 DEF Shape
  <2>3. outcome' = [outcome EXCEPT ![w] = outcome[w]]
    BY <1>1, <1>7 DEF EndCall
  <2>4. signal' = [signal EXCEPT ![w] = "none"]
    BY <1>1, <1>7, <2>2 DEF EndCall
  <2>5. PICK status \in {"ok", "error", "interrupted"} : CloseSpan(w, status)
    BY <1>7 DEF EndCall
  <2>6. InKind(w, KindAt(1)) /\ UNCHANGED <<caller, conv, disk>>
    BY <1>4, <1>7 DEF EndCall
  <2>7. Leaves(w, 1, status, outcome[w], "none")
    BY <2>1, <2>3, <2>4, <2>5, <2>6 DEF Leaves
  <2>8. QED
    BY <2>1, <2>7, CloseKeeps
<1>8. CASE FailCall(w)
  <2>1. InKind(w, KindAt(1)) /\ UNCHANGED <<caller, conv, disk>>
    BY <1>4, <1>8 DEF FailCall
  <2>2. /\ CloseSpan(w, "error")
        /\ outcome' = [outcome EXCEPT ![w] = "raised"]
        /\ signal' = [signal EXCEPT ![w] = "none"]
    BY <1>8 DEF FailCall
  <2>3. "raised" \in Outcome
    BY DEF Outcome
  <2>4. Leaves(w, 1, "error", "raised", "none")
    BY <2>1, <2>2 DEF Leaves
  <2>5. QED
    BY <2>3, <2>4, CloseKeeps
<1>9. QED
  BY <1>5, <1>6, <1>7, <1>8

\* Something is raised or paused inside a call.
LEMMA SignalKeeps ==
  ASSUME IInv, NEW w \in Worker, Pause(w) \/ Raise(w)
  PROVE  IInv'
<1> USE DEF IInv
<1>1. PICK sig \in {"error", "pause"} : signal' = [signal EXCEPT ![w] = sig]
  BY DEF Pause, Raise
<1>2. stack[w] # <<>> /\ outcome[w] = "none"
  <2>1. CASE Raise(w)
    BY <2>1 DEF Raise
  <2>2. CASE Pause(w)
    <3>1. InKind(w, KindAt(2)) /\ stack[w] # <<>>
      BY <2>2 DEF Pause, InKind, KindAt
    <3>2. Len(stack[w]) = 2
      BY <3>1, DepthOfKind
    <3>3. QED
      BY <3>1, <3>2 DEF Shape
  <2>3. QED
    BY <2>1, <2>2
<1>3. UNCHANGED <<caller, outcome, stack, context, conv, traces, disk, ids>>
  BY DEF Pause, Raise
<1>4. TypeOK'
  BY <1>1, <1>3 DEF TypeOK
<1>5. OpenTraceIsKept'
  BY <1>3 DEF OpenTraceIsKept
<1>6. Shape(w)'
  BY <1>2, <1>3 DEF Shape, Idle
<1>7. Nested(w)'
  BY <1>3 DEF Nested, ContextAt
<1>8. ASSUME NEW v \in Worker \ {w}
      PROVE  Shape(v)' /\ Nested(v)'
  <2>1. signal'[v] = signal[v]
    BY <1>1 DEF TypeOK
  <2>2. QED
    BY <1>3, <2>1, Elsewhere
<1>9. OneCall'
  BY <1>3 DEF OneCall, Idle
<1>10. QED
  BY <1>4, <1>5, <1>6, <1>7, <1>8, <1>9

\* The traces a call leaves behind when it returns with status.
LEMMA StampedIsTrace ==
  ASSUME TypeOK, NEW t \in Thread, traces[t] # NoTrace,
         NEW status \in {"awaiting_approval", "completed"}
  PROVE  Stamped(t, status) \in Trace
<1>1. traces[t] \in Trace
  BY DEF TypeOK
<1>2. traces[t].ended \in BOOLEAN
  BY <1>1 DEF Trace
<1>3. (traces[t].ended \/ status = "completed") \in BOOLEAN
  OBVIOUS
<1>4. QED
  BY <1>1, <1>3 DEF Stamped, Trace

\* The caller of w's conversation learns the outcome o; the tracer may end or
\* keep the trace, but keeps it if the conversation goes on.
LEMMA TellKeeps ==
  ASSUME IInv, NEW w \in Worker, ~ Idle(w), stack[w] = <<>>,
         NEW o \in Outcome, Tell(w, o),
         traces' \in [Thread -> Trace \cup {NoTrace}],
         disk' \in [Thread -> Trace \cup {NoTrace, Torn}],
         \A t \in Thread : traces'[t] = NoTrace =>
            traces[t] = NoTrace \/ (t = caller[w] /\ o = "completed")
  PROVE  IInv'
<1> USE DEF IInv
<1>1. caller[w] \in Thread
  BY DEF TypeOK, Idle
<1>2. /\ conv' = [conv EXCEPT ![caller[w]] = o]
      /\ caller' = [caller EXCEPT ![w] = NoThread]
      /\ outcome' = [outcome EXCEPT ![w] = "none"]
      /\ UNCHANGED <<signal, stack, context, ids>>
  BY DEF Tell
<1>3. TypeOK'
  BY <1>2 DEF TypeOK
<1>4. OpenTraceIsKept'
  <2>1. ASSUME NEW t \in Thread, conv'[t] \in {"busy", "awaiting_approval"}, traces'[t] = NoTrace
        PROVE  FALSE
    <3>1. CASE traces[t] = NoTrace
      <4>1. traces[caller[w]] # NoTrace
        BY <1>1 DEF OneCall, OpenTraceIsKept
      <4>2. t # caller[w]
        BY <3>1, <4>1
      <4>3. conv[t] \in {"busy", "awaiting_approval"}
        BY <1>2, <2>1, <4>2 DEF TypeOK
      <4>4. QED
        BY <3>1, <4>3 DEF OpenTraceIsKept
    <3>2. CASE t = caller[w] /\ o = "completed"
      BY <1>1, <1>2, <2>1, <3>2 DEF TypeOK
    <3>3. QED
      BY <2>1, <3>1, <3>2
  <2>2. QED
    BY <2>1 DEF OpenTraceIsKept
<1>5. Shape(w)'
  <2>1. caller'[w] = NoThread /\ outcome'[w] = "none" /\ stack'[w] = <<>> /\ signal'[w] = "none"
    BY <1>2 DEF TypeOK, Shape
  <2>2. Len(<<>>) = 0
    BY EmptySeq
  <2>3. QED
    BY <2>1, <2>2 DEF Shape, Idle
<1>6. Nested(w)'
  <2>1. Len(stack'[w]) = 0 /\ context'[w] = NoContext
    <3>1. Len(<<>>) = 0
      BY EmptySeq
    <3>2. QED
      BY <1>2, <3>1 DEF Nested, ContextAt
  <2>2. QED
    BY <2>1 DEF Nested, ContextAt
<1>7. ASSUME NEW v \in Worker \ {w}
      PROVE  Shape(v)' /\ Nested(v)'
  <2>1. caller'[v] = caller[v] /\ outcome'[v] = outcome[v]
    BY <1>2 DEF TypeOK
  <2>2. QED
    BY <1>2, <2>1, Elsewhere
<1>8. OneCall'
  <2>1. caller'[w] = NoThread /\ \A v \in Worker \ {w} : caller'[v] = caller[v]
    BY <1>2 DEF TypeOK
  <2>2. ASSUME NEW v \in Worker \ {w}, ~ Idle(v)
        PROVE  caller[v] # caller[w] /\ conv'[caller[v]] = conv[caller[v]]
    <3>1. caller[v] # caller[w]
      BY <2>2 DEF OneCall
    <3>2. caller[v] \in Thread
      BY <2>2 DEF TypeOK, Idle
    <3>3. QED
      BY <1>2, <3>1, <3>2 DEF TypeOK
  <2>3. QED
    BY <2>1, <2>2 DEF OneCall, Idle
<1>9. QED
  BY <1>3, <1>4, <1>5, <1>6, <1>7, <1>8

\* What a call that returns has come to.
LEMMA ReturningOutcome ==
  ASSUME IInv, NEW w \in Worker, Returning(w)
  PROVE  /\ outcome[w] \in {"awaiting_approval", "completed"}
         /\ caller[w] \in Thread
         /\ ~ Idle(w) /\ stack[w] = <<>>
<1>1. ~ Idle(w) /\ stack[w] = <<>> /\ outcome[w] # "raised"
  BY DEF Returning
<1>2. outcome[w] # "none"
  BY <1>1 DEF IInv, Shape
<1>3. outcome[w] \in Outcome \cup {"none"} /\ caller[w] \in Thread \cup {NoThread}
  BY DEF IInv, TypeOK
<1>4. QED
  BY <1>1, <1>2, <1>3 DEF Outcome, Idle

LEMMA ReturnKeeps ==
  ASSUME IInv, NEW w \in Worker, PassOn(w) \/ Finish(w) \/ FinishUnrecorded(w)
  PROVE  IInv'
<1>1. /\ traces \in [Thread -> Trace \cup {NoTrace}]
      /\ disk \in [Thread -> Trace \cup {NoTrace, Torn}]
  BY DEF IInv, TypeOK
<1>2. CASE PassOn(w)
  <2>1. ~ Idle(w) /\ stack[w] = <<>>
    BY <1>2 DEF PassOn, IInv, Shape
  <2>2. "raised" \in Outcome /\ Tell(w, "raised") /\ traces' = traces /\ disk' = disk
    BY <1>2 DEF PassOn, Outcome
  <2>3. QED
    BY <1>1, <2>1, <2>2, TellKeeps
<1>3. CASE Finish(w) \/ FinishUnrecorded(w)
  <2>1. Returning(w) /\ Tell(w, outcome[w])
    BY <1>3 DEF Finish, FinishUnrecorded
  <2>2. /\ outcome[w] \in {"awaiting_approval", "completed"}
        /\ caller[w] \in Thread /\ ~ Idle(w) /\ stack[w] = <<>>
    BY <2>1, ReturningOutcome
  <2>3. outcome[w] \in Outcome
    BY <2>2 DEF Outcome
  <2>4. /\ traces' \in [Thread -> Trace \cup {NoTrace}]
        /\ disk' \in [Thread -> Trace \cup {NoTrace, Torn}]
        /\ \A t \in Thread : traces'[t] = NoTrace =>
             traces[t] = NoTrace \/ (t = caller[w] /\ outcome[w] = "completed")
    <3>1. CASE traces[caller[w]] = NoTrace
      <4>1. traces' = traces /\ disk' = disk
        BY <1>3, <3>1 DEF Finish, FinishUnrecorded, Unrecorded
      <4>2. QED
        BY <1>1, <4>1
    <3>2. CASE traces[caller[w]] # NoTrace
      <4>1. PICK stamped \in Trace : stamped = Stamped(caller[w], outcome[w])
        BY <2>2, <3>2, StampedIsTrace DEF IInv
      <4>2. stamped # NoTrace
        BY NoTraceAssumption
      <4>3. disk' \in {disk, [disk EXCEPT ![caller[w]] = stamped],
                       [disk EXCEPT ![caller[w]] = Torn]}
        BY <1>3, <3>2, <4>1 DEF Finish, FinishUnrecorded, Unrecorded
      <4>4. \/ traces' = [traces EXCEPT ![caller[w]] = stamped]
            \/ /\ outcome[w] = "completed"
               /\ traces' = [traces EXCEPT ![caller[w]] = NoTrace]
        BY <1>3, <3>2, <4>1 DEF Finish, FinishUnrecorded, Unrecorded
      <4>5. disk' \in [Thread -> Trace \cup {NoTrace, Torn}]
        BY <1>1, <4>3
      <4>6. QED
        BY <1>1, <2>2, <4>2, <4>4, <4>5
    <3>3. QED
      BY <3>1, <3>2
  <2>5. QED
    BY <2>1, <2>2, <2>3, <2>4, TellKeeps
<1>4. QED
  BY <1>2, <1>3

LEMMA CrashKeeps == IInv /\ Crash => IInv'
<1> SUFFICES ASSUME IInv, Crash PROVE IInv'
  OBVIOUS
<1>1. <<>> \in Seq(Frame) /\ Len(<<>>) = 0
  BY EmptySeq
<1>2. NoContext \in Context
  BY DEF NoContext, Context
<1>3. PICK T : disk' = [t \in Thread |-> IF t \in T THEN Torn ELSE disk[t]]
  BY DEF Crash
<1>4. disk' \in [Thread -> Trace \cup {NoTrace, Torn}]
  BY <1>3 DEF IInv, TypeOK
<1>5. TypeOK'
  BY <1>1, <1>2, <1>4 DEF Crash, IInv, TypeOK, Outcome
<1>6. OpenTraceIsKept' /\ OneCall'
  BY DEF Crash, OpenTraceIsKept, OneCall, Idle
<1>7. ASSUME NEW w \in Worker
      PROVE  Shape(w)' /\ Nested(w)'
  <2>1. /\ stack'[w] = <<>> /\ caller'[w] = NoThread /\ outcome'[w] = "none"
        /\ signal'[w] = "none" /\ context'[w] = NoContext
    BY DEF Crash
  <2>2. Shape(w)'
    BY <1>1, <2>1 DEF Shape, Idle
  <2>3. Nested(w)'
    BY <1>1, <2>1 DEF Nested, ContextAt
  <2>4. QED
    BY <2>2, <2>3
<1>8. QED
  BY <1>5, <1>6, <1>7 DEF IInv

LEMMA StutterKeeps == IInv /\ UNCHANGED vars => IInv'
<1> SUFFICES ASSUME IInv, UNCHANGED vars PROVE IInv'
  OBVIOUS
<1>1. TypeOK' /\ OpenTraceIsKept' /\ OneCall'
  BY DEF IInv, vars, TypeOK, OpenTraceIsKept, OneCall, Idle
<1>2. ASSUME NEW w \in Worker
      PROVE  Shape(w)' /\ Nested(w)'
  BY Elsewhere DEF IInv, vars
<1>3. QED
  BY <1>1, <1>2 DEF IInv

\* The invariant is inductive.
THEOREM Invariance == Spec => []IInv
<1>1. IInv /\ [Next]_vars => IInv'
  <2> SUFFICES ASSUME IInv, [Next]_vars PROVE IInv'
    OBVIOUS
  <2>1. ASSUME NEW w \in Worker, Step(w) PROVE IInv'
    <3>1. CASE StartNode(w)
      <4>1. /\ InKind(w, KindAt(1)) /\ OpenSpan(w, NoThread, KindAt(1 + 1))
            /\ signal[w] = "none" /\ outcome[w] = "none"
            /\ UNCHANGED <<caller, outcome, signal, conv, traces, disk>>
        BY <3>1 DEF StartNode, KindAt
      <4>2. QED
        BY <4>1, StartKeeps
    <3>2. CASE StartProvider(w)
      <4>1. /\ InKind(w, KindAt(2)) /\ OpenSpan(w, NoThread, KindAt(2 + 1))
            /\ signal[w] = "none"
            /\ UNCHANGED <<caller, outcome, signal, conv, traces, disk>>
        BY <3>2 DEF StartProvider, KindAt
      <4>2. Len(stack[w]) = 2
        BY <4>1, DepthOfKind DEF IInv
      <4>3. outcome[w] = "none"
        BY <4>2 DEF IInv, Shape
      <4>4. QED
        BY <4>1, <4>3, StartKeeps
    <3>3. CASE EndProvider(w) \/ EndNode(w) \/ EndCall(w) \/ FailCall(w)
      BY <3>3, EndKeeps
    <3>4. CASE Pause(w) \/ Raise(w)
      BY <3>4, SignalKeeps
    <3>5. CASE PassOn(w) \/ Finish(w) \/ FinishUnrecorded(w)
      BY <3>5, ReturnKeeps
    <3>6. QED
      BY <2>1, <3>1, <3>2, <3>3, <3>4, <3>5 DEF Step
  <2>2. ASSUME NEW w \in Worker, NEW t \in Thread, Run(w, t) PROVE IInv'
    BY <2>2, RunKeeps
  <2>3. ASSUME NEW w \in Worker, NEW t \in Thread, Resume(w, t) PROVE IInv'
    BY <2>3, ResumeKeeps
  <2>4. CASE Crash
    BY <2>4, CrashKeeps
  <2>5. CASE UNCHANGED vars
    BY <2>5, StutterKeeps
  <2>6. QED
    BY <2>1, <2>2, <2>3, <2>4, <2>5 DEF Next
<1>2. QED
  BY <1>1, InitEstablishes, PTL DEF Spec
-----------------------------------------------------------------------------
(* What follows from the invariant. *)

\* Every variable keeps its type.
THEOREM TypeCorrect == Spec => []TypeOK
<1>1. IInv => TypeOK
  BY DEF IInv
<1>2. QED
  BY <1>1, Invariance, PTL

\* The trace of a conversation that works or waits stays in memory.
THEOREM TraceStaysOpen == Spec => []OpenTraceIsKept
<1>1. IInv => OpenTraceIsKept
  BY DEF IInv
<1>2. QED
  BY <1>1, Invariance, PTL

\* However spans are left, the context variables name the innermost open one,
\* and open spans nest within the conversation that is served.
THEOREM ContextIsRight == Spec => []ContextFollowsCode
<1>1. IInv => ContextFollowsCode
  <2> SUFFICES ASSUME IInv, NEW w \in Worker
      PROVE  /\ context[w] =
                  IF stack[w] = <<>> THEN NoContext
                  ELSE [trace |-> Innermost(w).trace, span |-> Innermost(w).id]
             /\ \A i \in DOMAIN stack[w] :
                  /\ stack[w][i].trace = caller[w]
                  /\ stack[w][i].parent = IF i = 1 THEN NoSpan ELSE stack[w][i - 1].id
    BY DEF ContextFollowsCode
  <2>1. stack[w] \in Seq(Frame) /\ Nested(w)
    BY DEF IInv, TypeOK
  <2>2. Len(stack[w]) \in Nat /\ DOMAIN stack[w] = 1 .. Len(stack[w])
    BY <2>1
  <2>3. Len(stack[w]) = 0 <=> stack[w] = <<>>
    BY <2>1, EmptySeq
  <2>4. context[w] = IF stack[w] = <<>> THEN NoContext
                     ELSE [trace |-> Innermost(w).trace, span |-> Innermost(w).id]
    BY <2>1, <2>3 DEF Nested, ContextAt, Innermost, Last
  <2>5. ASSUME NEW i \in 1 .. Len(stack[w])
        PROVE  /\ stack[w][i].trace = caller[w]
               /\ stack[w][i].parent = IF i = 1 THEN NoSpan ELSE stack[w][i - 1].id
    <3>1. /\ stack[w][i].trace = caller[w]
          /\ stack[w][i].parent = ContextAt(w, i - 1).span
      BY <2>1 DEF Nested
    <3>2. i = 1 => ContextAt(w, i - 1) = NoContext
      BY DEF ContextAt
    <3>3. i # 1 => ContextAt(w, i - 1).span = stack[w][i - 1].id
      BY <2>2 DEF ContextAt
    <3>4. NoContext.span = NoSpan
      BY DEF NoContext
    <3>5. QED
      BY <3>1, <3>2, <3>3, <3>4
  <2>6. QED
    BY <2>2, <2>4, <2>5
<1>2. QED
  BY <1>1, Invariance, PTL
-----------------------------------------------------------------------------
(* Tracing is invisible to callers. *)

\* Every step of the traced service is a step of AgentCalls, or changes
\* nothing of what AgentCalls speaks of.
LEMMA StepSimulates ==
  ASSUME IInv, [Next]_vars
  PROVE  [Calls!Next]_(Calls!vars)
<1>1. /\ outcome \in [Worker -> Outcome \cup {"none"}]
      /\ caller \in [Worker -> Thread \cup {NoThread}]
  BY DEF IInv, TypeOK
<1>2. Calls!Outcome = Outcome
  BY DEF Calls!Outcome, Outcome
<1>3. ASSUME NEW w \in Worker, NEW t \in Thread, Run(w, t) \/ Resume(w, t)
      PROVE  Calls!Begin(w, t)
  <2>1. outcome[w] = "none" /\ caller[w] = NoThread /\ conv[t] # "busy"
    BY <1>3 DEF Run, Resume, IInv, Shape, Idle
  <2>2. /\ outcome' = outcome
        /\ caller' = [caller EXCEPT ![w] = t]
        /\ conv' = [conv EXCEPT ![t] = "busy"]
    BY <1>3 DEF Run, Resume
  <2>3. outcome' = [outcome EXCEPT ![w] = "none"]
    BY <1>1, <2>1, <2>2
  <2>4. QED
    BY <2>1, <2>2, <2>3 DEF Calls!Begin
<1>4. ASSUME NEW w \in Worker, Step(w)
      PROVE  Calls!Decide(w) \/ Calls!Tell(w) \/ UNCHANGED Calls!vars
  <2>1. CASE StartNode(w) \/ StartProvider(w) \/ EndProvider(w) \/ Pause(w) \/ Raise(w) \/ EndCall(w)
    BY <2>1 DEF StartNode, StartProvider, EndProvider, Pause, Raise, EndCall, Calls!vars
  <2>2. CASE EndNode(w)
    <3>1. InKind(w, KindAt(2))
      BY <2>2 DEF EndNode, KindAt
    <3>2. Len(stack[w]) = 2
      BY <3>1, DepthOfKind DEF IInv
    <3>3. outcome[w] = "none" /\ caller[w] # NoThread
      BY <3>1, <3>2 DEF IInv, Shape, Idle, InKind
    <3>4. PICK o \in {"none", "completed", "awaiting_approval"} :
            outcome' = [outcome EXCEPT ![w] = o]
      BY <2>2 DEF EndNode
    <3>5. UNCHANGED <<caller, conv>>
      BY <2>2 DEF EndNode
    <3>6. CASE o = "none"
      <4>1. outcome' = outcome
        BY <1>1, <3>3, <3>4, <3>6
      <4>2. QED
        BY <3>5, <4>1 DEF Calls!vars
    <3>7. CASE o # "none"
      <4>1. o \in Calls!Outcome
        BY <3>7 DEF Calls!Outcome
      <4>2. QED
        BY <3>3, <3>4, <3>5, <4>1 DEF Calls!Decide
    <3>8. QED
      BY <3>6, <3>7
  <2>3. CASE FailCall(w)
    <3>1. outcome[w] = "none" /\ caller[w] # NoThread
      BY <2>3 DEF FailCall, IInv, Shape, Idle, InKind
    <3>2. "raised" \in Calls!Outcome
      BY DEF Calls!Outcome
    <3>3. QED
      BY <2>3, <3>1, <3>2 DEF FailCall, Calls!Decide
  <2>4. CASE PassOn(w) \/ Finish(w) \/ FinishUnrecorded(w)
    <3>1. outcome[w] \in Calls!Outcome /\ Tell(w, outcome[w])
      <4>1. CASE PassOn(w)
        BY <4>1 DEF PassOn, Calls!Outcome
      <4>2. CASE Finish(w) \/ FinishUnrecorded(w)
        <5>1. Returning(w) /\ Tell(w, outcome[w])
          BY <4>2 DEF Finish, FinishUnrecorded
        <5>2. QED
          BY <5>1, ReturningOutcome DEF Calls!Outcome
      <4>3. QED
        BY <2>4, <4>1, <4>2
    <3>2. QED
      BY <3>1 DEF Tell, Calls!Tell
  <2>5. QED
    BY <1>4, <2>1, <2>2, <2>3, <2>4 DEF Step
<1>5. Crash => Calls!Crash
  BY DEF Crash, Calls!Crash
<1>6. UNCHANGED vars => UNCHANGED Calls!vars
  BY DEF vars, Calls!vars
<1>7. QED
  BY <1>3, <1>4, <1>5, <1>6 DEF Next, Calls!Next

\* The traced service implements AgentCalls: no failure of the recorder, and
\* nothing else the tracer does, changes what a caller is told.
THEOREM TracingIsInvisible == Spec => ImplementsCalls
<1>1. Init => Calls!Init
  BY DEF Init, Calls!Init
<1>2. IInv /\ [Next]_vars => [Calls!Next]_(Calls!vars)
  BY StepSimulates
<1>3. QED
  BY <1>1, <1>2, Invariance, PTL DEF Spec, ImplementsCalls, Calls!Spec
-----------------------------------------------------------------------------
(* The tree of finished spans.  An open span has no place in the trace yet, *)
(* so the tree is whole only together with the spans that are still open.   *)

\* An open span of the conversation has this id and is of this kind.
IsOpen(t, id, kind) ==
  \E w \in Worker :
    /\ caller[w] = t
    /\ \E i \in 1 .. Len(stack[w]) : stack[w][i].id = id /\ stack[w][i].kind = kind

\* A finished span stands at the top if it is a call, and else below a span of
\* the right kind, finished or open.
Placed(t, s) ==
  IF s.kind = "call" THEN s.parent = NoSpan
  ELSE \/ IsOpen(t, s.parent, Around(s.kind))
       \/ \E p \in traces[t].spans : p.id = s.parent /\ p.kind = Around(s.kind)

\* A call is marked as interrupted if one of its nodes is.
Agrees(trace, c) == c.status = "interrupted" <=> Paused(trace, c)

\* No open span has the id of this finished one.
Apart(t, s) ==
  \A w \in Worker : caller[w] = t => \A i \in 1 .. Len(stack[w]) : stack[w][i].id # s.id

Grown(t) ==
  traces[t] # NoTrace =>
    \A s \in traces[t].spans :
      /\ s.id <= ids
      /\ Apart(t, s)
      /\ Placed(t, s)
      /\ s.kind = "call" => Agrees(traces[t], s)

\* The last call of the trace has come out in this way.
Ends(trace, status) ==
  \E last \in CallsOf(trace) :
    /\ \A c \in CallsOf(trace) : c.id <= last.id
    /\ last.status = "interrupted" <=> status = "awaiting_approval"
    /\ last.status = "ok" <=> status = "completed"

\* The open call is the latest one of its conversation, and has a paused node
\* just if it is going to wait; once it is closed, the trace ends with it.
Latest(w) ==
  LET trace == traces[caller[w]]
  IN  /\ \A i \in 1 .. Len(stack[w]) : stack[w][i].id <= ids
      /\ \A i, j \in 1 .. Len(stack[w]) : i < j => stack[w][i].id < stack[w][j].id
      /\ signal[w] = "pause" => Len(stack[w]) = 2
      /\ Len(stack[w]) # 0 =>
           /\ \A c \in CallsOf(trace) : c.id < stack[w][1].id
           /\ Paused(trace, stack[w][1]) <=> outcome[w] = "awaiting_approval"
      /\ Len(stack[w]) = 0 /\ outcome[w] # "raised" => Ends(trace, outcome[w])

TreeInv ==
  /\ TraceFilesAreTrue
  /\ \A t \in Thread : Grown(t)
  /\ \A w \in Worker : ~ Idle(w) => Latest(w)

LEMMA TreeInit == Init => TreeInv
<1> SUFFICES ASSUME Init PROVE TreeInv
  OBVIOUS
<1>1. TraceFilesAreTrue
  BY DEF Init, TraceFilesAreTrue, WholeTree, StatusMatchesTree, Readable
<1>2. QED
  BY <1>1 DEF Init, TreeInv, Grown, Idle

\* Where nothing happens, the tree stays grown: the trace and the workers of the
\* conversation are as they were.
LEMMA GrownElsewhere ==
  ASSUME NEW t \in Thread, Grown(t), traces'[t] = traces[t],
         traces[t] # NoTrace => \A s \in traces[t].spans : s.id <= ids',
         \A w \in Worker :
           /\ caller'[w] = t <=> caller[w] = t
           /\ caller[w] = t => stack'[w] = stack[w]
  PROVE  Grown(t)'
<1> SUFFICES ASSUME traces[t] # NoTrace, NEW s \in traces[t].spans
             PROVE  /\ s.id <= ids' /\ Apart(t, s)' /\ Placed(t, s)'
                    /\ s.kind = "call" => Agrees(traces[t], s)
  BY DEF Grown, Agrees, Paused
<1>1. Apart(t, s) /\ Placed(t, s) /\ (s.kind = "call" => Agrees(traces[t], s))
  BY DEF Grown
<1>2. Apart(t, s)'
  BY <1>1 DEF Apart
<1>3. Placed(t, s)'
  BY <1>1 DEF Placed, IsOpen
<1> QED
  BY <1>1, <1>2, <1>3

LEMMA LatestElsewhere ==
  ASSUME NEW w \in Worker, Latest(w), stack'[w] = stack[w], caller'[w] = caller[w],
         outcome'[w] = outcome[w], signal'[w] = signal[w],
         traces'[caller[w]] = traces[caller[w]],
         \A i \in 1 .. Len(stack[w]) : stack[w][i].id <= ids'
  PROVE  Latest(w)'
BY DEF Latest, Ends, Paused, CallsOf

\* What is in the types of spans and ids.
LEMMA SpanTypes ==
  ASSUME TypeOK
  PROVE  /\ ids \in Nat
         /\ \A t \in Thread : traces[t] # NoTrace =>
              /\ traces[t].spans \subseteq Span
              /\ \A s \in traces[t].spans : s.id \in Nat /\ s.id \in SpanId
         /\ \A w \in Worker :
              /\ Len(stack[w]) \in Nat
              /\ \A i \in 1 .. Len(stack[w]) :
                   stack[w][i] \in Frame /\ stack[w][i].id \in Nat /\ stack[w][i].id \in SpanId
<1>1. ids \in Nat
  BY MaxSpansAssumption DEF TypeOK
<1>2. \A n \in SpanId : n \in Nat
  BY MaxSpansAssumption DEF SpanId
<1>3. ASSUME NEW t \in Thread, traces[t] # NoTrace
      PROVE  /\ traces[t].spans \subseteq Span
             /\ \A s \in traces[t].spans : s.id \in Nat /\ s.id \in SpanId
  BY <1>2, <1>3 DEF TypeOK, Trace, Span
<1>4. ASSUME NEW w \in Worker
      PROVE  /\ Len(stack[w]) \in Nat
             /\ \A i \in 1 .. Len(stack[w]) :
                  stack[w][i] \in Frame /\ stack[w][i].id \in Nat /\ stack[w][i].id \in SpanId
  <2>1. stack[w] \in Seq(Frame)
    BY DEF TypeOK
  <2>2. \A i \in 1 .. Len(stack[w]) : stack[w][i] \in Frame
    BY <2>1
  <2> QED
    BY <1>2, <2>1, <2>2 DEF Frame
<1> QED
  BY <1>1, <1>3, <1>4

\* The span that opens gets an id that nobody has.
LEMMA NewFrame ==
  ASSUME TypeOK, NEW w \in Worker, NEW trace \in Thread \cup {NoThread},
         NEW kind \in {"call", "node", "provider"}, OpenSpan(w, trace, kind)
  PROVE  /\ stack'[w][Len(stack[w]) + 1].id = ids + 1
         /\ ids' = ids + 1
<1> DEFINE frame == [id |-> ids + 1, parent |-> context[w].span,
                     trace |-> IF trace # NoThread THEN trace ELSE context[w].trace,
                     kind |-> kind, saved |-> context[w]]
<1>1. ids' = ids + 1 /\ stack' = [stack EXCEPT ![w] = Append(@, frame)]
  BY DEF OpenSpan
<1>2. stack[w] \in Seq(Frame) /\ stack'[w] = Append(stack[w], frame)
  BY <1>1 DEF TypeOK
<1>3. stack[w] \in Seq(Frame \cup {frame})
  <2>1. \A i \in 1 .. Len(stack[w]) : stack[w][i] \in Frame
    BY <1>2
  <2> QED
    BY <1>2, <2>1, SeqDef
<1>4. stack'[w][Len(stack[w]) + 1] = frame
  BY <1>2, <1>3, AppendProperties
<1> QED
  BY <1>1, <1>4

\* A span opens in the conversation t, which is at rest if the span is a call.
LEMMA OpeningGrows ==
  ASSUME IInv, IInv', TreeInv, NEW w \in Worker, NEW trace \in Thread \cup {NoThread},
         NEW kind \in {"call", "node", "provider"}, OpenSpan(w, trace, kind),
         NEW t \in Thread, caller' = [caller EXCEPT ![w] = t],
         UNCHANGED <<outcome, signal, disk>>,
         signal[w] = "none", outcome[w] = "none",
         IF stack[w] = <<>> THEN \A v \in Worker : caller[v] # t ELSE caller[w] = t,
         \/ traces' = traces
         \/ traces[t] = NoTrace /\ traces' = [traces EXCEPT ![t] = NewTrace]
  PROVE  TreeInv'
<1> DEFINE n == Len(stack[w])
<1>1. TypeOK /\ TypeOK'
  BY DEF IInv
<1>2. n \in Nat /\ ids \in Nat /\ ids' = ids + 1
  BY <1>1, SpanTypes, NewFrame
<1>3. /\ \A v \in Worker \ {w} : stack'[v] = stack[v] /\ caller'[v] = caller[v]
      /\ Len(stack'[w]) = n + 1 /\ caller'[w] = t
      /\ \A i \in 1 .. n : stack'[w][i] = stack[w][i]
      /\ stack'[w][n + 1].id = ids + 1
  BY <1>1, Opening, NewFrame DEF TypeOK
<1>4. n = 0 <=> stack[w] = <<>>
  BY <1>1, EmptySeq DEF TypeOK
<1>5. TraceFilesAreTrue'
  BY DEF TreeInv, TraceFilesAreTrue, WholeTree, StatusMatchesTree, Readable
<1>6. ASSUME NEW u \in Thread \ {t}
      PROVE  Grown(u)'
  <2>1. Grown(u) /\ traces'[u] = traces[u]
    BY <1>1 DEF TreeInv, TypeOK
  <2>2. traces[u] # NoTrace => \A s \in traces[u].spans : s.id <= ids'
    BY <1>1, <1>2, <2>1, SpanTypes DEF Grown
  <2>3. caller[w] # u
    <3>1. stack[w] = <<>> => caller[w] = NoThread
      BY DEF IInv, Shape, Idle
    <3> QED
      BY <3>1, NoThreadAssumption
  <2>4. \A v \in Worker : /\ caller'[v] = u <=> caller[v] = u
                          /\ caller[v] = u => stack'[v] = stack[v]
    BY <1>3, <2>3
  <2> QED
    BY <2>1, <2>2, <2>4, GrownElsewhere
<1>7. Grown(t)'
  <2> SUFFICES ASSUME traces'[t] # NoTrace, NEW s \in traces'[t].spans
               PROVE  /\ s.id <= ids' /\ Apart(t, s)' /\ Placed(t, s)'
                      /\ s.kind = "call" => Agrees(traces'[t], s)
    BY DEF Grown, Agrees, Paused
  <2>1. traces[t] # NoTrace /\ traces'[t] = traces[t]
    BY <1>1 DEF TypeOK, NewTrace
  <2>2. /\ s.id \in Nat /\ s.id <= ids /\ Apart(t, s) /\ Placed(t, s)
        /\ s.kind = "call" => Agrees(traces[t], s)
    BY <1>1, <2>1, SpanTypes DEF TreeInv, Grown
  <2>3. Apart(t, s)'
    <3> SUFFICES ASSUME NEW v \in Worker, caller'[v] = t, NEW i \in 1 .. Len(stack'[v])
                 PROVE  stack'[v][i].id # s.id
      BY DEF Apart
    <3>1. CASE v # w
      BY <1>3, <2>2, <3>1 DEF Apart
    <3>2. CASE v = w /\ i = n + 1
      BY <1>2, <1>3, <2>2, <3>2
    <3>3. CASE v = w /\ i # n + 1
      <4>1. i \in 1 .. n
        BY <1>2, <1>3, <3>3
      <4>2. caller[w] = t
        BY <1>2, <1>4, <4>1
      <4> QED
        BY <1>3, <2>2, <3>3, <4>1, <4>2 DEF Apart
    <3> QED
      BY <3>1, <3>2, <3>3
  <2>4. ASSUME NEW id, NEW k, IsOpen(t, id, k)
        PROVE  IsOpen(t, id, k)'
    <3>1. PICK v \in Worker : /\ caller[v] = t
                              /\ \E i \in 1 .. Len(stack[v]) :
                                   stack[v][i].id = id /\ stack[v][i].kind = k
      BY <2>4 DEF IsOpen
    <3>2. PICK i \in 1 .. Len(stack[v]) : stack[v][i].id = id /\ stack[v][i].kind = k
      BY <3>1
    <3>3. i \in 1 .. Len(stack'[v]) /\ stack'[v][i] = stack[v][i] /\ caller'[v] = t
      BY <1>2, <1>3, <3>1
    <3> QED
      BY <3>2, <3>3 DEF IsOpen
  <2>5. Placed(t, s)'
    BY <2>1, <2>2, <2>4 DEF Placed
  <2> QED
    BY <1>2, <2>1, <2>2, <2>3, <2>5
<1>8. ASSUME NEW v \in Worker \ {w}, ~ Idle(v)'
      PROVE  Latest(v)'
  <2>1. caller'[v] = caller[v] /\ stack'[v] = stack[v] /\ ~ Idle(v)
    BY <1>3, <1>8 DEF Idle
  <2>2. Latest(v)
    BY <2>1 DEF TreeInv
  <2>3. caller[v] \in Thread /\ caller[v] # t
    BY <1>1, <1>3, <2>1, NoThreadAssumption DEF IInv, OneCall, TypeOK, Idle
  <2>4. traces'[caller[v]] = traces[caller[v]]
    BY <1>1, <2>3 DEF TypeOK
  <2>5. \A i \in 1 .. Len(stack[v]) : stack[v][i].id <= ids'
    BY <1>1, <1>2, <2>2, SpanTypes DEF Latest
  <2> QED
    BY <2>1, <2>2, <2>4, <2>5, LatestElsewhere
<1>9. Latest(w)'
  <2>1. /\ \A i \in 1 .. n : stack[w][i].id <= ids /\ stack[w][i].id \in Nat
        /\ \A i, j \in 1 .. n : i < j => stack[w][i].id < stack[w][j].id
    <3>1. CASE n = 0
      BY <3>1
    <3>2. CASE n # 0
      <4>1. ~ Idle(w)
        BY <1>4, <3>2, NoThreadAssumption DEF Idle
      <4> QED
        BY <1>1, <4>1, SpanTypes DEF TreeInv, Latest
    <3> QED
      BY <3>1, <3>2
  <2>2. \A i \in 1 .. n + 1 : stack'[w][i].id <= ids'
    BY <1>2, <1>3, <2>1, SMTT(30)
  <2>3. ASSUME NEW i \in 1 .. n + 1, NEW j \in 1 .. n + 1, i < j
        PROVE  stack'[w][i].id < stack'[w][j].id
    <3>1. i \in 1 .. n /\ stack'[w][i] = stack[w][i]
      BY <1>2, <1>3, <2>3
    <3>2. CASE j = n + 1
      BY <1>2, <1>3, <2>1, <3>1, <3>2
    <3>3. CASE j # n + 1
      <4>1. j \in 1 .. n /\ stack'[w][j] = stack[w][j]
        BY <1>2, <1>3, <3>3
      <4> QED
        BY <2>1, <2>3, <3>1, <4>1
    <3> QED
      BY <3>2, <3>3
  <2>4. traces'[t] # NoTrace
    <3>1. caller'[w] = t /\ t # NoThread
      BY <1>3, NoThreadAssumption
    <3> QED
      BY <3>1 DEF IInv, OneCall, OpenTraceIsKept, Idle
  <2>5. /\ \A c \in CallsOf(traces'[t]) : c.id < stack'[w][1].id
        /\ ~ Paused(traces'[t], stack'[w][1])
    <3>1. CASE traces' # traces
      <4>1. traces'[t].spans = {}
        BY <1>1, <3>1 DEF TypeOK, NewTrace
      <4> QED
        BY <4>1 DEF CallsOf, Paused
    <3>2. CASE traces' = traces /\ n # 0
      <4>1. ~ Idle(w) /\ caller[w] = t
        BY <1>4, <3>2, NoThreadAssumption DEF Idle
      <4>2. /\ \A c \in CallsOf(traces[t]) : c.id < stack[w][1].id
            /\ ~ Paused(traces[t], stack[w][1])
        BY <3>2, <4>1 DEF TreeInv, Latest
      <4> QED
        BY <1>2, <1>3, <3>2, <4>2
    <3>3. CASE traces' = traces /\ n = 0
      <4>1. \A s \in traces[t].spans : s.id \in Nat /\ s.id <= ids /\ Placed(t, s)
        BY <1>1, <2>4, <3>3, SpanTypes DEF TreeInv, Grown
      <4>2. stack'[w][1].id = ids + 1
        BY <1>3, <3>3
      <4>3. \A s \in traces[t].spans : s.parent # ids + 1
        <5>1. \A v \in Worker : caller[v] # t
          BY <1>4, <3>3
        <5>2. NoSpan # ids + 1
          <6>1. ids + 1 \in SpanId
            BY <1>1, <1>2, MaxSpansAssumption DEF TypeOK, SpanId
          <6> QED
            BY <6>1, NoSpanAssumption
        <5> QED
          BY <1>2, <4>1, <5>1, <5>2 DEF Placed, IsOpen
      <4> QED
        BY <1>2, <3>3, <4>1, <4>2, <4>3 DEF CallsOf, Paused
    <3> QED
      BY <3>1, <3>2, <3>3
  <2>6. outcome'[w] = "none" /\ signal'[w] = "none"
    OBVIOUS
  <2> QED
    BY <1>2, <1>3, <2>2, <2>3, <2>5, <2>6 DEF Latest
<1> QED
  BY <1>5, <1>6, <1>7, <1>8, <1>9 DEF TreeInv

\* What is finished joins the trace.
LEMMA Finishing ==
  ASSUME TypeOK, NEW w \in Worker, Len(stack[w]) # 0, NEW t \in Thread,
         NEW status \in {"ok", "error", "interrupted"}, CloseSpan(w, status),
         stack[w][Len(stack[w])].trace = t, traces[t] # NoTrace
  PROVE  LET frame == stack[w][Len(stack[w])]
             span == [id |-> frame.id, parent |-> frame.parent,
                      kind |-> frame.kind, status |-> status]
         IN  /\ ids' = ids
             /\ \A u \in Thread \ {t} : traces'[u] = traces[u]
             /\ traces'[t].spans = traces[t].spans \cup {span}
<1> DEFINE frame == stack[w][Len(stack[w])]
           span == [id |-> frame.id, parent |-> frame.parent,
                    kind |-> frame.kind, status |-> status]
<1>1. /\ ids' = ids
      /\ traces' = [traces EXCEPT ![t].spans = @ \cup {span}]
  BY DEF CloseSpan, Innermost, Last
<1>2. traces[t] \in Trace
  BY DEF TypeOK
<1>3. traces'[t] = [traces[t] EXCEPT !.spans = @ \cup {span}]
  BY <1>1 DEF TypeOK
<1>4. traces'[t].spans = traces[t].spans \cup {span}
  BY <1>2, <1>3 DEF Trace
<1>5. \A u \in Thread \ {t} : traces'[u] = traces[u]
  BY <1>1 DEF TypeOK
<1> QED
  BY <1>1, <1>4, <1>5

\* The span at some depth of w's stack is left.  A node is marked as interrupted
\* just if the call is going to wait, and a call if it does.
LEMMA ClosingGrows ==
  ASSUME IInv, IInv', TreeInv, NEW w \in Worker, NEW depth \in 1 .. 3,
         NEW status \in {"ok", "error", "interrupted"},
         NEW o \in Outcome \cup {"none"}, NEW sig \in {"none", "error"},
         Leaves(w, depth, status, o, sig),
         depth = 1 => /\ status = "interrupted" <=> outcome[w] = "awaiting_approval"
                      /\ status = "ok" <=> outcome[w] = "completed"
                      /\ o = outcome[w] \/ o = "raised",
         depth = 2 => (status = "interrupted" <=> o = "awaiting_approval")
  PROVE  TreeInv'
<1>1. TypeOK /\ TypeOK' /\ Shape(w) /\ Nested(w)
  BY DEF IInv
<1>2. Len(stack[w]) = depth /\ depth \in Nat /\ stack[w] # <<>>
  <2>1. InKind(w, KindAt(depth))
    BY DEF Leaves
  <2>2. Len(stack[w]) = depth
    BY <1>1, <2>1, DepthOfKind
  <2> QED
    BY <2>1, <2>2 DEF InKind
<1> PICK t \in Thread : t = caller[w] /\ ~ Idle(w)
  BY <1>1, <1>2 DEF Shape, TypeOK, Idle
<1>3. /\ t = caller[w] /\ ~ Idle(w) /\ traces[t] # NoTrace
      /\ \A v \in Worker \ {w} : caller[v] # t
  BY DEF IInv, OneCall, OpenTraceIsKept
<1> DEFINE frame == stack[w][depth]
           span == [id |-> frame.id, parent |-> frame.parent,
                    kind |-> frame.kind, status |-> status]
           S == traces[t].spans
<1>4. /\ Len(stack'[w]) = depth - 1
      /\ \A i \in 1 .. depth - 1 : stack'[w][i] = stack[w][i]
      /\ \A v \in Worker \ {w} : stack'[v] = stack[v]
  BY <1>1, <1>2, Closing DEF Leaves
<1>5. /\ caller' = caller /\ disk' = disk /\ outcome'[w] = o /\ signal'[w] = sig
      /\ \A v \in Worker \ {w} : outcome'[v] = outcome[v] /\ signal'[v] = signal[v]
  BY <1>1 DEF Leaves, TypeOK
<1>6. /\ frame.kind = KindAt(depth) /\ frame.trace = t
      /\ frame.parent = ContextAt(w, depth - 1).span
      /\ \A i \in 1 .. depth : stack[w][i].kind = KindAt(i)
  BY <1>1, <1>2 DEF Shape, Nested
<1>7. /\ ids' = ids /\ \A u \in Thread \ {t} : traces'[u] = traces[u]
      /\ traces'[t].spans = S \cup {span} /\ traces'[t] # NoTrace
  <2>1. CloseSpan(w, status)
    BY DEF Leaves
  <2>2. traces'[t] # NoTrace
    BY <1>1, <1>2, <1>3, <2>1, Closing
  <2> QED
    BY <1>1, <1>2, <1>3, <1>6, <2>1, <2>2, Finishing
<1>8. /\ Latest(w) /\ Grown(t)
      /\ ids \in Nat /\ \A s \in S : s.id \in Nat /\ s.id \in SpanId
      /\ \A i \in 1 .. depth : stack[w][i].id \in Nat /\ stack[w][i].id \in SpanId
  BY <1>1, <1>2, <1>3, SpanTypes DEF TreeInv
<1>9. /\ \A i \in 1 .. depth : frame.id <= ids /\ stack[w][i].id <= ids
      /\ \A i \in 1 .. depth - 1 : stack[w][i].id < frame.id
      /\ \A c \in CallsOf(traces[t]) : c.id < stack[w][1].id
      /\ Paused(traces[t], stack[w][1]) <=> outcome[w] = "awaiting_approval"
  <2>1. depth \in 1 .. depth /\ depth # 0
    OBVIOUS
  <2>2. \A i \in 1 .. depth - 1 : i \in 1 .. depth /\ i < depth
    OBVIOUS
  <2> QED
    BY <1>2, <1>3, <1>8, <2>1, <2>2 DEF Latest
\* What stands around the span that is left.
<1>10. IF depth = 1 THEN frame.parent = NoSpan
       ELSE /\ frame.parent = stack[w][depth - 1].id
            /\ stack[w][depth - 1].kind = Around(frame.kind)
  <2>1. CASE depth = 1
    <3>1. ContextAt(w, depth - 1) = NoContext
      BY <2>1 DEF ContextAt
    <3> QED
      BY <1>6, <2>1, <3>1 DEF NoContext
  <2>2. CASE depth # 1
    <3>1. depth - 1 \in 1 .. depth /\ depth - 1 # 0
      BY <2>2
    <3>2. frame.parent = stack[w][depth - 1].id
      BY <1>6, <3>1 DEF ContextAt
    <3>3. stack[w][depth - 1].kind = Around(frame.kind)
      BY <1>6, <2>2, <3>1 DEF KindAt, Around
    <3> QED
      BY <2>2, <3>2, <3>3
  <2> QED
    BY <2>1, <2>2
<1>11. TraceFilesAreTrue'
  BY <1>5 DEF TreeInv, TraceFilesAreTrue, WholeTree, StatusMatchesTree, Readable
<1>12. ASSUME NEW u \in Thread \ {t}
       PROVE  Grown(u)'
  <2>1. Grown(u) /\ traces'[u] = traces[u]
    BY <1>7 DEF TreeInv
  <2>2. traces[u] # NoTrace => \A s \in traces[u].spans : s.id <= ids'
    BY <1>7, <2>1 DEF Grown
  <2>3. \A v \in Worker : /\ caller'[v] = u <=> caller[v] = u
                          /\ caller[v] = u => stack'[v] = stack[v]
    BY <1>4, <1>5
  <2> QED
    BY <2>1, <2>2, <2>3, GrownElsewhere
\* The parent of what is left is no call that is finished already.
<1>13. \A s \in S : s.kind = "call" => frame.parent # s.id
  <2>1. \A s \in S : \A i \in 1 .. depth : stack[w][i].id # s.id
    BY <1>2, <1>3, <1>8 DEF Grown, Apart
  <2>2. NoSpan \notin {s.id : s \in S}
    BY <1>8, NoSpanAssumption
  <2> QED
    BY <1>10, <2>1, <2>2
<1>14. ASSUME NEW id, NEW k, IsOpen(t, id, k)
       PROVE  IsOpen(t, id, k)' \/ (id = frame.id /\ k = frame.kind)
  <2>1. PICK v \in Worker : /\ caller[v] = t
                            /\ \E i \in 1 .. Len(stack[v]) :
                                 stack[v][i].id = id /\ stack[v][i].kind = k
    BY <1>14 DEF IsOpen
  <2>2. v = w
    BY <1>3, <2>1
  <2>3. PICK i \in 1 .. depth : stack[w][i].id = id /\ stack[w][i].kind = k
    BY <1>2, <2>1, <2>2
  <2>4. CASE i = depth
    BY <2>3, <2>4
  <2>5. CASE i # depth
    <3>1. i \in 1 .. Len(stack'[w]) /\ stack'[w][i] = stack[w][i] /\ caller'[w] = t
      BY <1>4, <1>5, <2>5
    <3> QED
      BY <2>3, <3>1 DEF IsOpen
  <2> QED
    BY <2>4, <2>5
<1>15. Grown(t)'
  <2> SUFFICES ASSUME NEW s \in traces'[t].spans
               PROVE  /\ s.id <= ids' /\ Apart(t, s)' /\ Placed(t, s)'
                      /\ s.kind = "call" => Agrees(traces'[t], s)
    BY DEF Grown, Agrees, Paused
  <2>1. CASE s \in S
    <3>1. /\ s.id <= ids /\ Apart(t, s) /\ Placed(t, s)
          /\ s.kind = "call" => Agrees(traces[t], s)
      BY <1>3, <1>8, <2>1 DEF Grown
    <3>2. Apart(t, s)'
      <4> SUFFICES ASSUME NEW v \in Worker, caller'[v] = t, NEW i \in 1 .. Len(stack'[v])
                   PROVE  stack'[v][i].id # s.id
        BY DEF Apart
      <4>1. v = w /\ i \in 1 .. Len(stack[w]) /\ stack'[v][i] = stack[w][i]
        BY <1>2, <1>3, <1>4, <1>5
      <4> QED
        BY <3>1, <4>1 DEF Apart
    <3>3. Placed(t, s)'
      <4>1. CASE s.kind = "call"
        BY <3>1, <4>1 DEF Placed
      <4>2. CASE s.kind # "call" /\ IsOpen(t, s.parent, Around(s.kind))
        <5>1. \/ IsOpen(t, s.parent, Around(s.kind))'
              \/ span.id = s.parent /\ span.kind = Around(s.kind)
          BY <1>14, <4>2
        <5> QED
          BY <1>7, <4>2, <5>1 DEF Placed
      <4>3. CASE s.kind # "call" /\ ~ IsOpen(t, s.parent, Around(s.kind))
        BY <1>7, <3>1, <4>3 DEF Placed
      <4> QED
        BY <4>1, <4>2, <4>3
    <3>4. s.kind = "call" => (Paused(traces'[t], s) <=> Paused(traces[t], s))
      BY <1>7, <1>13, <2>1 DEF Paused
    <3> QED
      BY <1>7, <3>1, <3>2, <3>3, <3>4 DEF Agrees
  <2>2. CASE s = span
    <3>1. s.id = frame.id /\ s.kind = frame.kind /\ s.parent = frame.parent /\ s.status = status
      BY <2>2
    <3>2. s.id <= ids'
      BY <1>7, <1>9, <3>1
    <3>3. Apart(t, s)'
      <4> SUFFICES ASSUME NEW v \in Worker, caller'[v] = t, NEW i \in 1 .. Len(stack'[v])
                   PROVE  stack'[v][i].id # s.id
        BY DEF Apart
      <4>1. v = w /\ i \in 1 .. depth - 1 /\ stack'[v][i] = stack[w][i]
        BY <1>2, <1>3, <1>4, <1>5
      <4>2. i \in 1 .. depth /\ depth \in 1 .. depth
        BY <4>1
      <4>3. stack[w][i].id < frame.id /\ stack[w][i].id \in Nat /\ frame.id \in Nat
        BY <1>8, <1>9, <4>1, <4>2
      <4> QED
        BY <3>1, <4>1, <4>3
    <3>4. Placed(t, s)'
      <4>1. CASE depth = 1
        BY <1>6, <1>10, <3>1, <4>1 DEF Placed, KindAt
      <4>2. CASE depth # 1
        <5>1. depth - 1 \in 1 .. Len(stack'[w]) /\ stack'[w][depth - 1] = stack[w][depth - 1]
          BY <1>4, <4>2
        <5>2. IsOpen(t, s.parent, Around(s.kind))'
          BY <1>5, <1>10, <3>1, <4>2, <5>1 DEF IsOpen
        <5>3. s.kind # "call"
          BY <1>6, <3>1, <4>2 DEF KindAt
        <5> QED
          BY <5>2, <5>3 DEF Placed
      <4> QED
        BY <4>1, <4>2
    <3>5. s.kind = "call" => Agrees(traces'[t], s)
      <4> SUFFICES ASSUME s.kind = "call" PROVE Agrees(traces'[t], s)
        OBVIOUS
      <4>1. depth = 1
        BY <1>6, <3>1 DEF KindAt
      <4>2. frame.parent # frame.id
        BY <1>8, <1>10, <4>1, NoSpanAssumption
      <4>3. Paused(traces'[t], s) <=> Paused(traces[t], frame)
        BY <1>7, <3>1, <4>2 DEF Paused
      <4> QED
        BY <1>9, <3>1, <4>1, <4>3 DEF Agrees
    <3> QED
      BY <3>2, <3>3, <3>4, <3>5
  <2> QED
    BY <1>7, <2>1, <2>2
<1>16. ASSUME NEW v \in Worker \ {w}, ~ Idle(v)'
       PROVE  Latest(v)'
  <2>1. caller'[v] = caller[v] /\ ~ Idle(v)
    BY <1>5, <1>16 DEF Idle
  <2>2. Latest(v) /\ caller[v] \in Thread \ {t}
    BY <1>1, <1>3, <2>1 DEF TreeInv, TypeOK, Idle
  <2>3. traces'[caller[v]] = traces[caller[v]]
    BY <1>7, <2>2
  <2>4. \A i \in 1 .. Len(stack[v]) : stack[v][i].id <= ids'
    BY <1>7, <2>2 DEF Latest
  <2> QED
    BY <1>4, <1>5, <2>1, <2>2, <2>3, <2>4, LatestElsewhere
<1>17. Latest(w)'
  <2>1. /\ \A i \in 1 .. depth - 1 : stack'[w][i].id <= ids'
        /\ \A i, j \in 1 .. depth - 1 : i < j => stack'[w][i].id < stack'[w][j].id
    <3>1. \A i \in 1 .. depth - 1 : i \in 1 .. depth
      OBVIOUS
    <3> QED
      BY <1>2, <1>4, <1>7, <1>8, <3>1 DEF Latest
  <2>2. signal'[w] # "pause"
    BY <1>5
  <2>3. ASSUME depth # 1
        PROVE  /\ \A c \in CallsOf(traces'[t]) : c.id < stack'[w][1].id
               /\ Paused(traces'[t], stack'[w][1]) <=> outcome'[w] = "awaiting_approval"
    <3>1. stack'[w][1] = stack[w][1] /\ 1 \in 1 .. depth - 1
      BY <1>4, <2>3
    <3>2. CallsOf(traces'[t]) = CallsOf(traces[t])
      BY <1>6, <1>7, <2>3 DEF CallsOf, KindAt
    <3>3. outcome[w] = "none"
      BY <1>1, <1>2, <2>3 DEF Shape
    <3>4. CASE depth = 2
      <4>1. span.parent = stack[w][1].id /\ span.status = status
        BY <1>10, <3>4
      <4>2. Paused(traces'[t], stack[w][1]) <=> status = "interrupted"
        BY <1>7, <1>9, <3>3, <4>1 DEF Paused
      <4> QED
        BY <1>5, <1>9, <3>1, <3>2, <3>4, <4>2
    <3>5. CASE depth = 3
      <4>1. span.parent = stack[w][2].id /\ 1 \in 1 .. depth /\ 2 \in 1 .. depth
        BY <1>10, <3>5
      <4>2. stack[w][1].id < stack[w][2].id /\ stack[w][1].id \in Nat /\ stack[w][2].id \in Nat
        BY <1>2, <1>8, <4>1 DEF Latest
      <4>3. span.parent # stack[w][1].id
        BY <4>1, <4>2
      <4>4. ~ Paused(traces'[t], stack[w][1])
        BY <1>7, <1>9, <3>3, <4>3 DEF Paused
      <4>5. o = "none"
        BY <3>5 DEF Leaves
      <4> QED
        BY <1>5, <1>9, <3>1, <3>2, <4>4, <4>5
    <3> QED
      BY <2>3, <3>4, <3>5
  <2>4. ASSUME depth = 1, outcome'[w] # "raised"
        PROVE  Ends(traces'[t], outcome'[w])
    <3>1. outcome'[w] = outcome[w]
      BY <1>5, <2>4
    <3>2. span.kind = "call" /\ span.id = frame.id /\ span.status = status
      BY <1>6, <2>4 DEF KindAt
    <3>3. span \in CallsOf(traces'[t])
      BY <1>7, <3>2 DEF CallsOf
    <3>4. \A c \in CallsOf(traces'[t]) : c.id <= span.id
      <4>1. \A c \in CallsOf(traces[t]) : c.id \in Nat /\ c.id < frame.id
        BY <1>8, <1>9, <2>4 DEF CallsOf
      <4>2. frame.id \in Nat
        BY <1>8, <2>4
      <4>3. \A c \in CallsOf(traces'[t]) : c \in CallsOf(traces[t]) \/ c = span
        BY <1>7 DEF CallsOf
      <4> QED
        BY <3>2, <4>1, <4>2, <4>3
    <3> QED
      BY <2>4, <3>1, <3>2, <3>3, <3>4 DEF Ends
  <2> QED
    BY <1>4, <1>5, <2>1, <2>2, <2>3, <2>4 DEF Latest
<1> QED
  BY <1>3, <1>5, <1>11, <1>12, <1>15, <1>16, <1>17 DEF TreeInv

\* An error or a pause sets out: only a node pauses.
LEMMA SignalGrows ==
  ASSUME IInv, IInv', TreeInv, NEW w \in Worker, Pause(w) \/ Raise(w)
  PROVE  TreeInv'
<1>1. PICK sig \in {"error", "pause"} : signal' = [signal EXCEPT ![w] = sig]
  BY DEF Pause, Raise
<1>2. UNCHANGED <<caller, outcome, stack, context, conv, traces, disk, ids>>
  BY DEF Pause, Raise
<1>3. signal'[w] = "pause" => Len(stack[w]) = 2
  <2> SUFFICES ASSUME signal'[w] = "pause" PROVE Len(stack[w]) = 2
    OBVIOUS
  <2>1. ~ Raise(w)
    BY DEF Raise, IInv, TypeOK
  <2>2. InKind(w, KindAt(2))
    BY <2>1 DEF Pause, KindAt
  <2> QED
    BY <2>2, DepthOfKind DEF IInv
<1>4. TraceFilesAreTrue'
  BY <1>2 DEF TreeInv, TraceFilesAreTrue, WholeTree, StatusMatchesTree, Readable
<1>5. ASSUME NEW t \in Thread
      PROVE  Grown(t)'
  <2>1. traces[t] # NoTrace => \A s \in traces[t].spans : s.id <= ids'
    BY <1>2 DEF TreeInv, Grown
  <2> QED
    BY <1>2, <2>1, GrownElsewhere DEF TreeInv
<1>6. ASSUME NEW v \in Worker, ~ Idle(v)'
      PROVE  Latest(v)'
  <2>1. Latest(v)
    BY <1>2, <1>6 DEF TreeInv, Idle
  <2>2. CASE v = w
    BY <1>2, <1>3, <2>1, <2>2 DEF Latest, Ends, Paused, CallsOf
  <2>3. CASE v # w
    <3>1. signal'[v] = signal[v]
      BY <1>1, <2>3 DEF IInv, TypeOK
    <3>2. \A i \in 1 .. Len(stack[v]) : stack[v][i].id <= ids'
      BY <1>2, <2>1 DEF Latest
    <3> QED
      BY <1>2, <2>1, <3>1, <3>2, LatestElsewhere
  <2> QED
    BY <2>2, <2>3
<1> QED
  BY <1>4, <1>5, <1>6 DEF TreeInv

\* A file is true if its tree is whole, its calls agree with their nodes and it
\* ends as it says.
TrueFile(trace) ==
  /\ Rooted(trace.spans)
  /\ \A c \in CallsOf(trace) : Agrees(trace, c)
  /\ Ends(trace, trace.status)

LEMMA FilesAreTrue ==
  TraceFilesAreTrue <=> \A t \in Thread : Readable(t) => TrueFile(disk[t])
BY DEF TraceFilesAreTrue, WholeTree, StatusMatchesTree, TrueFile, Agrees, Ends

\* The caller of a conversation, none of whose spans is open, is told.
LEMMA TellGrows ==
  ASSUME IInv, IInv', TreeInv, NEW w \in Worker, ~ Idle(w), stack[w] = <<>>,
         NEW o, Tell(w, o), TraceFilesAreTrue',
         \A t \in Thread : traces'[t] # NoTrace =>
            traces[t] # NoTrace /\ traces'[t].spans = traces[t].spans,
         \A t \in Thread \ {caller[w]} : traces'[t] = traces[t]
  PROVE  TreeInv'
<1>1. /\ TypeOK /\ stack' = stack /\ signal' = signal /\ ids' = ids
      /\ caller'[w] = NoThread /\ Len(stack[w]) = 0
      /\ \A v \in Worker \ {w} : caller'[v] = caller[v] /\ outcome'[v] = outcome[v]
  BY EmptySeq DEF Tell, IInv, TypeOK
<1>2. ASSUME NEW t \in Thread
      PROVE  Grown(t)'
  <2> SUFFICES ASSUME traces'[t] # NoTrace, NEW s \in traces'[t].spans
               PROVE  /\ s.id <= ids' /\ Apart(t, s)' /\ Placed(t, s)'
                      /\ s.kind = "call" => Agrees(traces'[t], s)
    BY DEF Grown, Agrees, Paused
  <2>1. traces[t] # NoTrace /\ traces'[t].spans = traces[t].spans
    OBVIOUS
  <2>2. /\ s.id <= ids /\ Apart(t, s) /\ Placed(t, s)
        /\ s.kind = "call" => Agrees(traces[t], s)
    BY <2>1 DEF TreeInv, Grown
  <2>3. Apart(t, s)'
    BY <1>1, <2>2, NoThreadAssumption DEF Apart
  <2>4. Placed(t, s)'
    <3>1. ASSUME NEW id, NEW k, IsOpen(t, id, k)
          PROVE  IsOpen(t, id, k)'
      <4>1. PICK v \in Worker : /\ caller[v] = t
                                /\ \E i \in 1 .. Len(stack[v]) :
                                     stack[v][i].id = id /\ stack[v][i].kind = k
        BY <3>1 DEF IsOpen
      <4>2. v # w
        BY <1>1, <4>1
      <4> QED
        BY <1>1, <4>1, <4>2 DEF IsOpen
    <3> QED
      BY <2>1, <2>2, <3>1 DEF Placed
  <2>5. s.kind = "call" => Agrees(traces'[t], s)
    BY <2>1, <2>2 DEF Agrees, Paused
  <2> QED
    BY <1>1, <2>2, <2>3, <2>4, <2>5
<1>3. ASSUME NEW v \in Worker, ~ Idle(v)'
      PROVE  Latest(v)'
  <2>1. v # w
    BY <1>1, <1>3 DEF Idle
  <2>2. caller'[v] = caller[v] /\ ~ Idle(v)
    BY <1>1, <1>3, <2>1 DEF Idle
  <2>3. Latest(v) /\ caller[v] \in Thread \ {caller[w]}
    BY <1>1, <2>1, <2>2 DEF TreeInv, IInv, OneCall, TypeOK, Idle
  <2>4. \A i \in 1 .. Len(stack[v]) : stack[v][i].id <= ids'
    BY <1>1, <2>3 DEF Latest
  <2> QED
    BY <1>1, <2>1, <2>2, <2>3, <2>4, LatestElsewhere
<1> QED
  BY <1>2, <1>3 DEF TreeInv

\* A trace none of whose spans is open is one whole tree.
LEMMA ReturningTree ==
  ASSUME IInv, TreeInv, NEW w \in Worker, Returning(w), traces[caller[w]] # NoTrace
  PROVE  TrueFile(Stamped(caller[w], outcome[w]))
<1> PICK t \in Thread : t = caller[w] /\ ~ Idle(w) /\ stack[w] = <<>>
  BY ReturningOutcome
<1> PICK trace : trace = Stamped(t, outcome[w])
  OBVIOUS
<1>1. trace.spans = traces[t].spans /\ trace.status = outcome[w]
  BY DEF Stamped, IInv, TypeOK, Trace
<1>2. Latest(w) /\ Grown(t) /\ Len(stack[w]) = 0 /\ outcome[w] # "raised"
  BY EmptySeq DEF TreeInv, Returning
<1>3. \A id, k : ~ IsOpen(t, id, k)
  BY <1>2 DEF IsOpen, IInv, OneCall
<1>4. Rooted(trace.spans)
  BY <1>1, <1>2, <1>3 DEF Grown, Placed, Rooted
<1>5. ASSUME NEW c \in CallsOf(trace)
      PROVE  Agrees(trace, c)
  <2>1. c \in traces[t].spans /\ c.kind = "call"
    BY <1>1 DEF CallsOf
  <2> QED
    BY <1>1, <1>2, <2>1 DEF Grown, Agrees, Paused
<1>6. Ends(trace, trace.status)
  BY <1>1, <1>2 DEF Latest, Ends, CallsOf
<1> QED
  BY <1>4, <1>5, <1>6 DEF TrueFile

LEMMA ReturnGrows ==
  ASSUME IInv, IInv', TreeInv, NEW w \in Worker,
         PassOn(w) \/ Finish(w) \/ FinishUnrecorded(w)
  PROVE  TreeInv'
<1>1. TypeOK
  BY DEF IInv
<1>2. CASE PassOn(w)
  <2>1. ~ Idle(w) /\ stack[w] = <<>>
    BY <1>2 DEF PassOn, IInv, Shape
  <2>2. Tell(w, "raised") /\ traces' = traces /\ disk' = disk
    BY <1>2 DEF PassOn
  <2>3. TraceFilesAreTrue'
    BY <2>2 DEF TreeInv, TraceFilesAreTrue, WholeTree, StatusMatchesTree, Readable
  <2> QED
    BY <2>1, <2>2, <2>3, TellGrows
<1>3. CASE Finish(w) \/ FinishUnrecorded(w)
  <2>1. Returning(w) /\ Tell(w, outcome[w])
    BY <1>3 DEF Finish, FinishUnrecorded
  <2>2. ~ Idle(w) /\ stack[w] = <<>> /\ caller[w] \in Thread
    BY <2>1, ReturningOutcome
  <2>3. traces[caller[w]] # NoTrace
    BY <2>2 DEF IInv, OneCall, OpenTraceIsKept
  <2> PICK t \in Thread : t = caller[w]
    BY <2>2
  <2> PICK stamped : stamped = Stamped(t, outcome[w])
    OBVIOUS
  <2>4. stamped.spans = traces[t].spans /\ TrueFile(stamped)
    <3>1. stamped.spans = traces[t].spans
      BY <1>1, <2>3 DEF Stamped, TypeOK, Trace
    <3>2. TrueFile(stamped)
      BY <2>1, <2>3, ReturningTree
    <3> QED
      BY <3>1, <3>2
  <2>5. disk' \in {disk, [disk EXCEPT ![t] = stamped], [disk EXCEPT ![t] = Torn]}
    BY <1>3, <2>3 DEF Finish, FinishUnrecorded, Unrecorded
  <2>6. traces' \in {[traces EXCEPT ![t] = stamped], [traces EXCEPT ![t] = NoTrace]}
    BY <1>3, <2>3 DEF Finish, FinishUnrecorded, Unrecorded
  <2>7. TraceFilesAreTrue'
    <3> SUFFICES ASSUME NEW u \in Thread, Readable(u)'
                 PROVE  TrueFile(disk'[u])
      BY FilesAreTrue DEF TraceFilesAreTrue, WholeTree, StatusMatchesTree, TrueFile, Agrees, Ends
    <3>1. Readable(u) => TrueFile(disk[u])
      BY FilesAreTrue DEF TreeInv
    <3>2. CASE disk'[u] = disk[u]
      BY <3>1, <3>2 DEF Readable
    <3>3. CASE disk'[u] = stamped
      BY <2>4, <3>3
    <3>4. CASE disk'[u] = Torn
      BY <3>4 DEF Readable
    <3> QED
      BY <1>1, <2>5, <3>2, <3>3, <3>4 DEF TypeOK
  <2>8. /\ \A u \in Thread : traces'[u] # NoTrace =>
             traces[u] # NoTrace /\ traces'[u].spans = traces[u].spans
        /\ \A u \in Thread \ {caller[w]} : traces'[u] = traces[u]
    BY <1>1, <2>3, <2>4, <2>6 DEF TypeOK
  <2> QED
    BY <2>1, <2>2, <2>7, <2>8, TellGrows
<1> QED
  BY <1>2, <1>3

LEMMA CrashGrows ==
  ASSUME IInv, TreeInv, Crash
  PROVE  TreeInv'
<1>1. PICK T : disk' = [t \in Thread |-> IF t \in T THEN Torn ELSE disk[t]]
  BY DEF Crash
<1>2. /\ \A t \in Thread : traces'[t] = NoTrace
      /\ \A w \in Worker : caller'[w] = NoThread
  BY DEF Crash
<1>3. TraceFilesAreTrue'
  BY <1>1 DEF TreeInv, TraceFilesAreTrue, WholeTree, StatusMatchesTree, Readable
<1> QED
  BY <1>2, <1>3 DEF TreeInv, Grown, Idle

\* A span opens: what it adds to the trace is not there yet.
LEMMA OpenStepGrows ==
  ASSUME IInv, IInv', TreeInv, NEW w \in Worker,
         \/ StartNode(w) \/ StartProvider(w)
         \/ \E t \in Thread : Run(w, t) \/ Resume(w, t)
  PROVE  TreeInv'
<1>1. TypeOK /\ TypeOK' /\ Shape(w)
  BY DEF IInv
<1>2. ASSUME NEW t \in Thread, Run(w, t) \/ Resume(w, t)
      PROVE  TreeInv'
  <2>1. /\ OpenSpan(w, t, "call") /\ caller' = [caller EXCEPT ![w] = t]
        /\ UNCHANGED <<outcome, signal, disk>> /\ Idle(w) /\ conv[t] # "busy"
    BY <1>2 DEF Run, Resume
  <2>2. stack[w] = <<>> /\ outcome[w] = "none" /\ signal[w] = "none"
    BY <1>1, <2>1 DEF Shape
  <2>3. \A v \in Worker : caller[v] # t
    BY <2>1, NoThreadAssumption DEF IInv, OneCall, Idle
  <2>4. \/ traces' = traces
        \/ traces[t] = NoTrace /\ traces' = [traces EXCEPT ![t] = NewTrace]
    BY <1>1, <1>2 DEF Run, Resume, StartTrace, TypeOK
  <2> QED
    BY <2>1, <2>2, <2>3, <2>4, OpeningGrows
<1>3. ASSUME NEW kind \in {"node", "provider"}, OpenSpan(w, NoThread, kind),
             UNCHANGED <<caller, outcome, signal, traces, disk>>,
             stack[w] # <<>>, signal[w] = "none", outcome[w] = "none"
      PROVE  TreeInv'
  <2> PICK t \in Thread : t = caller[w]
    BY <1>1, <1>3 DEF Shape, TypeOK, Idle
  <2>1. caller' = [caller EXCEPT ![w] = t]
    BY <1>1, <1>3 DEF TypeOK
  <2> QED
    BY <1>3, <2>1, OpeningGrows
<1>4. CASE StartNode(w)
  BY <1>3, <1>4 DEF StartNode, InKind
<1>5. CASE StartProvider(w)
  <2>1. InKind(w, KindAt(2)) /\ stack[w] # <<>>
    BY <1>5 DEF StartProvider, KindAt, InKind
  <2>2. Len(stack[w]) = 2
    BY <1>1, <2>1, DepthOfKind
  <2>3. outcome[w] = "none"
    BY <1>1, <2>2 DEF Shape
  <2> QED
    BY <1>3, <1>5, <2>1, <2>3 DEF StartProvider
<1> QED
  BY <1>2, <1>4, <1>5

\* A span is left, by a return, an error or a pause.
LEMMA EndGrows ==
  ASSUME IInv, IInv', TreeInv, NEW w \in Worker,
         EndProvider(w) \/ EndNode(w) \/ EndCall(w) \/ FailCall(w)
  PROVE  TreeInv'
<1>1. /\ outcome \in [Worker -> Outcome \cup {"none"}]
      /\ signal \in [Worker -> {"none", "error", "pause"}]
      /\ TypeOK /\ Shape(w)
  BY DEF IInv, TypeOK
<1>2. StatusOf(signal[w]) \in {"ok", "error", "interrupted"}
  BY DEF StatusOf
<1>3. KindAt(1) = "call" /\ KindAt(2) = "node" /\ KindAt(3) = "provider"
  BY DEF KindAt
<1>4. CASE EndProvider(w)
  <2>1. PICK sig \in {signal[w], "none"} : signal' = [signal EXCEPT ![w] = sig]
    BY <1>4 DEF EndProvider
  <2>2. InKind(w, KindAt(3)) /\ CloseSpan(w, StatusOf(signal[w]))
    BY <1>3, <1>4 DEF EndProvider
  <2>3. Len(stack[w]) = 3
    BY <1>1, <2>2, DepthOfKind
  <2>4. outcome[w] = "none" /\ ~ Idle(w)
    <3>1. Idle(w) => stack[w] = <<>>
      BY <1>1 DEF Shape
    <3>2. ~ Idle(w)
      BY <2>2, <3>1 DEF InKind
    <3> QED
      BY <1>1, <2>3, <3>2 DEF Shape
  <2>5. sig \in {"none", "error"}
    <3>1. signal[w] # "pause"
      BY <2>3, <2>4 DEF TreeInv, Latest
    <3> QED
      BY <1>1, <2>1, <3>1
  <2>6. outcome' = [outcome EXCEPT ![w] = "none"] /\ UNCHANGED <<caller, conv, disk>>
    BY <1>1, <1>4, <2>4 DEF EndProvider
  <2>7. Leaves(w, 3, StatusOf(signal[w]), "none", sig)
    BY <2>1, <2>2, <2>6 DEF Leaves
  <2> QED
    BY <1>2, <2>5, <2>7, ClosingGrows
<1>5. CASE EndNode(w)
  <2>1. PICK o \in {"none", "completed", "awaiting_approval"} :
          /\ o = "awaiting_approval" <=> signal[w] = "pause"
          /\ o = "completed" => signal[w] = "none"
          /\ outcome' = [outcome EXCEPT ![w] = o]
    BY <1>5 DEF EndNode
  <2>2. PICK sig \in {"none", "error"} :
          /\ signal' = [signal EXCEPT ![w] = sig]
          /\ sig = "error" => signal[w] = "error"
    BY <1>1, <1>5 DEF EndNode
  <2>3. InKind(w, KindAt(2)) /\ CloseSpan(w, StatusOf(signal[w]))
    BY <1>3, <1>5 DEF EndNode
  <2>4. UNCHANGED <<caller, conv, disk>>
    BY <1>5 DEF EndNode
  <2>5. o \in Outcome \cup {"none"} /\ o # "raised"
    BY DEF Outcome
  <2>6. sig # "none" => o = "none"
    BY <2>1, <2>2
  <2>7. Leaves(w, 2, StatusOf(signal[w]), o, sig)
    BY <2>1, <2>2, <2>3, <2>4, <2>5, <2>6 DEF Leaves
  <2>8. StatusOf(signal[w]) = "interrupted" <=> o = "awaiting_approval"
    BY <1>1, <2>1 DEF StatusOf
  <2> QED
    BY <1>2, <2>5, <2>7, <2>8, ClosingGrows
<1>6. CASE EndCall(w)
  <2> PICK status \in {"ok", "interrupted"} :
         status = IF outcome[w] = "awaiting_approval" THEN "interrupted" ELSE "ok"
    OBVIOUS
  <2>1. /\ InKind(w, KindAt(1)) /\ CloseSpan(w, status)
        /\ outcome[w] # "none" /\ UNCHANGED <<caller, outcome, signal, conv, disk>>
    BY <1>3, <1>6 DEF EndCall
  <2>2. outcome[w] \in {"completed", "awaiting_approval"} /\ signal[w] = "none"
    BY <1>1, <2>1 DEF Shape, InKind, Outcome
  <2>3. /\ outcome' = [outcome EXCEPT ![w] = outcome[w]]
        /\ signal' = [signal EXCEPT ![w] = "none"]
    <3>1. outcome' = outcome /\ signal' = signal /\ signal[w] = "none"
      BY <2>1, <2>2
    <3>2. outcome' = [outcome EXCEPT ![w] = outcome[w]]
      BY <1>1, <3>1
    <3>3. signal' = [signal EXCEPT ![w] = "none"]
      BY <1>1, <3>1
    <3> QED
      BY <3>2, <3>3
  <2>4. Leaves(w, 1, status, outcome[w], "none")
    <3>1. InKind(w, KindAt(1)) /\ CloseSpan(w, status) /\ UNCHANGED <<caller, conv, disk>>
      BY <2>1
    <3>2. outcome[w] # "none"
      BY <2>1
    <3> QED
      BY <2>3, <3>1, <3>2 DEF Leaves
  <2>5. /\ status = "interrupted" <=> outcome[w] = "awaiting_approval"
        /\ status = "ok" <=> outcome[w] = "completed"
    BY <2>2
  <2>6. outcome[w] \in Outcome
    BY <2>2 DEF Outcome
  <2> QED
    BY <2>4, <2>5, <2>6, ClosingGrows
<1>7. CASE FailCall(w)
  <2>1. InKind(w, KindAt(1)) /\ UNCHANGED <<caller, conv, disk>>
    BY <1>3, <1>7 DEF FailCall
  <2>2. /\ CloseSpan(w, "error") /\ signal[w] = "error"
        /\ outcome' = [outcome EXCEPT ![w] = "raised"]
        /\ signal' = [signal EXCEPT ![w] = "none"]
    BY <1>7 DEF FailCall
  <2>3. "raised" \in Outcome /\ outcome[w] = "none"
    BY <1>1, <2>2 DEF Outcome, Shape
  <2>4. Leaves(w, 1, "error", "raised", "none")
    BY <2>1, <2>2 DEF Leaves
  <2> QED
    BY <2>3, <2>4, ClosingGrows
<1> QED
  BY <1>4, <1>5, <1>6, <1>7

LEMMA TreeStutter == IInv /\ TreeInv /\ UNCHANGED vars => TreeInv'
<1> SUFFICES ASSUME IInv, TreeInv, UNCHANGED vars PROVE TreeInv'
  OBVIOUS
<1>1. TraceFilesAreTrue'
  BY DEF vars, TreeInv, TraceFilesAreTrue, WholeTree, StatusMatchesTree, Readable
<1>2. ASSUME NEW t \in Thread
      PROVE  Grown(t)'
  BY GrownElsewhere DEF vars, TreeInv, Grown
<1>3. ASSUME NEW w \in Worker, ~ Idle(w)'
      PROVE  Latest(w)'
  <2>1. Latest(w) /\ UNCHANGED vars
    BY <1>3 DEF vars, TreeInv, Idle
  <2> QED
    BY <2>1 DEF vars, Latest, Ends, Paused, CallsOf
<1> QED
  BY <1>1, <1>2, <1>3 DEF TreeInv

\* Whatever is raised or paused, whenever the recorder fails and the process
\* dies, every trace file that can be read shows one conversation: its spans
\* form a whole tree (calls at the top, nodes in calls, providers in nodes),
\* the calls marked as interrupted are those with an interrupted node, and the
\* status of the trace is how its last call came out.
THEOREM TraceFilesTrue == Spec => []TraceFilesAreTrue
<1>1. IInv /\ IInv' /\ TreeInv /\ [Next]_vars => TreeInv'
  <2> SUFFICES ASSUME IInv, IInv', TreeInv, [Next]_vars PROVE TreeInv'
    OBVIOUS
  <2>1. ASSUME NEW w \in Worker, Step(w) PROVE TreeInv'
    <3>1. CASE StartNode(w) \/ StartProvider(w)
      BY <3>1, OpenStepGrows
    <3>2. CASE EndProvider(w) \/ EndNode(w) \/ EndCall(w) \/ FailCall(w)
      BY <3>2, EndGrows
    <3>3. CASE Pause(w) \/ Raise(w)
      BY <3>3, SignalGrows
    <3>4. CASE PassOn(w) \/ Finish(w) \/ FinishUnrecorded(w)
      BY <3>4, ReturnGrows
    <3> QED
      BY <2>1, <3>1, <3>2, <3>3, <3>4 DEF Step
  <2>2. ASSUME NEW w \in Worker, NEW t \in Thread, Run(w, t) \/ Resume(w, t)
        PROVE  TreeInv'
    BY <2>2, OpenStepGrows
  <2>3. CASE Crash
    BY <2>3, CrashGrows
  <2>4. CASE UNCHANGED vars
    BY <2>4, TreeStutter
  <2> QED
    BY <2>1, <2>2, <2>3, <2>4 DEF Next
<1>2. TreeInv => TraceFilesAreTrue
  BY DEF TreeInv
<1> QED
  BY <1>1, <1>2, TreeInit, Invariance, PTL DEF Spec
=============================================================================
