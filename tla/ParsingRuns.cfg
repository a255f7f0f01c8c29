SPECIFICATION ParsingSpec
CONSTANTS
  None = None
  Path <- Files
  Listings <- AllListings
  Contents <- AllContents
  Gone = Gone
  MaxDepth = 5
  MaxSeen = 2
INVARIANTS
  ParsingTypeOK
  SymbolsAreThoseDeclared
  FilesAreAccountedFor
