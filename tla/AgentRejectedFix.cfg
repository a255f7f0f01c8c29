SPECIFICATION Spec
CONSTANTS
  Thread = {t1}
  File = {f1}
  Content = {c1, c2}
  Absent = Absent
  NoChange = NoChange
  MaxRetries = 2
  MaxFixIterations = 2
INVARIANT NoChangesMeansNone
