SPECIFICATION FairSpec
CONSTANTS
  Thread = {t1}
  File = {f1, f2}
  Content = {c1, c2}
  Absent = Absent
  NoChange = NoChange
  MaxRetries = 2
  MaxFixIterations = 2
INVARIANTS
  TypeOK
  BoundedLoop
  ReportsAreHonest
PROPERTIES
  Responds
  LoopEnds
