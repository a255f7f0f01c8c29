SPECIFICATION Spec
CONSTANTS
  User = {u1, u2}
  Url <- Urls
  ValidName = {"acme", "acme.git", "app"}
  Repository <- AcmeApp
  Private = TRUE
  Token = TRUE
  Branch = {"main", "fix"}
  Default = "main"
  NoClone = NoClone
  MaxCommits = 3
  MaxCalls = 5
SYMMETRY Symmetry
INVARIANTS
  TypeOK
  ClonesAreExclusive
  DefaultIsLeftAlone
PROPERTY
  ImplementsPublication
CHECK_DEADLOCK FALSE
