SPECIFICATION Spec
CONSTANTS
  File <- PackageFiles
  Name <- Names
  Module = {"main.Base", "os"}
  None = None
  Candidates <- PackageCandidates
  Builder = {b1, b2}
  NoJob = NoJob
  Absent = Absent
  Trees <- AllTrees
  MaxBuilds = 2
  MaxEdits = 1
SYMMETRY Symmetry
INVARIANTS
  TypeOK
  NothingIsCutOff
  SnapshotIsWritten
  RebuildConverges
PROPERTY ImplementsGrowth
CHECK_DEADLOCK FALSE
