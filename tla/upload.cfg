SPECIFICATION FairSpecU
CONSTANTS
  None = None
  Skipped = Skipped
  Frameworks = {"Pytest"}
  SuiteNames = {}
  SuiteTimes = {}
  TestTimes = {}
  Attrs <- FewAttrs
  Messages = {}
  Nesting <- FewElements
  MaxEvents = 4
  Filenames = {"a.xml", "b.xml"}
  MaxUpload = 2
INVARIANTS
  FilesApart
  AllOrNothing
PROPERTY CallReturns
