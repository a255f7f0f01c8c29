SPECIFICATION Spec
CONSTANTS
  Worker = {w1, w2}
  Thread = {t1, t2}
  NoThread = NoThread
  NoSpan = NoSpan
  NoTrace = NoTrace
  Torn = Torn
  MaxSpans = 6
SYMMETRY Symmetry
INVARIANTS
  TypeOK
  ContextFollowsCode
  TraceFilesAreTrue
  OpenTraceIsKept
PROPERTY ImplementsCalls
