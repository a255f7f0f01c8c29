CONSTANTS
  Root <- Roots
  RepoName <- Names
  File <- Files
  Path <- Paths
  Content <- Texts
  Absent = Absent
  None = None
  Trees <- Clones
  Indexer = {i1, i2}
  NoJob = NoJob
  MaxIndexings = 2
  MaxEdits = 1
SYMMETRY Symmetry
SPECIFICATION Spec
INVARIANTS
  TypeOK
  UntouchedFilesAreIndexed
  RepositoriesAreSeparate
PROPERTY
  BatchesAreWhole
CHECK_DEADLOCK FALSE
