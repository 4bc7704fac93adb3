SPECIFICATION SpecD
CONSTANTS
  None = None
  Skipped = Skipped
  Frameworks = {"Pytest", "Jest"}
  SuiteNames = {"plain"}
  SuiteTimes = {"suite"}
  TestTimes = {"bad"}
  Attrs <- OddAttrs
  Messages = {"boom"}
  Nesting <- AnyNesting
  MaxEvents = 6
INVARIANTS
  TypeOK
  NoTestcaseLost
  FlagsMatchElements
  WarningsOrdered
