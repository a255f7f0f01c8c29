CONSTANTS
  File <- Files
  Name <- Names
  Module = {"a"}
  None = None
  Candidates <- NoCandidates
  Repository = {"app", "clone"}
  Batches <- AllBatches
  Growths <- AllGrowths
  Questions <- AllQuestions
  VectorTopK = 2
  KeywordTopK = 2
  SeedLimit = 2
  FinalTopK = 4
  MaxContextChars = 8
SPECIFICATION Spec
INVARIANTS
  TypeOK
  CitationsAreGrounded
  RankingIsExact
  ContextIsBounded
