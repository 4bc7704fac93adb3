SPECIFICATION Spec
CONSTANTS
  c1 = c1  c2 = c2
  Tests <- SwappedTests
  FlagLists <- SpelledFlags
  Commits = {c1, c2}
  MaxInserts = 2
  MaxFiles = 2
INVARIANTS
  TypeOK
  MeaningsUnique
  LoadMatchesInsert
  RewriteLeavesNoGarbage
  KnownCommitsKeepOffset
PROPERTY ImplementsFailingTests
SYMMETRY Symmetry
