SPECIFICATION SpecD
CONSTANTS
  None = None
  Skipped = Skipped
  Frameworks = {"Pytest", "Jest"}
  SuiteNames = {"Jest", "calc"}
  SuiteTimes = {"suite"}
  TestTimes = {"own"}
  Attrs <- GoodAttrs
  Messages = {"boom"}
  Nesting <- DocumentSchema
  MaxEvents = 6
INVARIANTS
  RunsMatchDocument
  OneFramework
