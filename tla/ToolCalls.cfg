CONSTANTS
  File <- Files
  Path <- Paths
  Outside = "outside"
  Content <- Contents
  Absent = Absent
  Folder = Folder
  Trees <- SmallTrees
  Requests <- Calls
  MaxEdits = 2
SPECIFICATION Spec
INVARIANTS
  TypeOK
  AnswersAreCurrent
  CallsEndCleanly
