SPECIFICATION SpecH
CONSTANTS
  t1 = t1  t2 = t2  c1 = c1  c2 = c2
  DAY = 2
  Tests = {t1, t2}
  FlagSets <- OneFlagSet
  Commits = {c1}
  Outcomes = {"Pass", "Failure"}
  Times <- SameDayTimes
  ClockTimes = {0, 6}
  Windows = {2}
  Thresholds = {0}
  CounterModulus = 65536
  MaxInserts = 3
  MaxFiles = 1
INVARIANTS
  TypeOK
  NothingForgotten
  ValidDataInRecord
  KeysUnique
  ReaderSound
  ReaderComplete
PROPERTY NewRunsVisible
SYMMETRY Symmetry
