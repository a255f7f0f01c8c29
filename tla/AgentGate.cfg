SPECIFICATION Spec
CONSTANTS
  Thread = {t1, t2}
  File = {f1}
  Content = {c1, c2}
  Absent = Absent
  NoChange = NoChange
  MaxRetries = 1
  MaxFixIterations = 1
SYMMETRY Symmetry
PROPERTIES
  ImplementsGate
  RejectionIsFinal
