SPECIFICATION FairSpec
CONSTANTS
  Call = {c1}
  File = {"app.py", "lib/app.py", "test_app.py"}
  Dir <- Directories
  Root = "."
  Sub <- Subdirectories
  Under <- FilesUnder
  Config = {}
  TestFile = {"test_app.py"}
  Content = {old, new}
  Absent = Absent
  Unread = Unread
  Passing <- Compatible
INVARIANTS
  TypeOK
  LeftoversAreExplained
PROPERTIES
  ImplementsVerdicts
  CallsReturn
