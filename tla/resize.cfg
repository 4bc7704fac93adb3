SPECIFICATION SpecH
CONSTANTS
  t1 = t1  t2 = t2  c1 = c1  c2 = c2
  DAY = 2
  Tests = {t1}
  FlagSets <- TwoFlagSets
  Commits = {c1}
  Outcomes = {"Failure"}
  Times <- DayTimes
  ClockTimes = {0, 6}
  Windows = {1, 2}
  Thresholds = {0}
  CounterModulus = 3
  MaxInserts = 2
  MaxFiles = 1
INVARIANTS
  Layout
  NothingForgotten
  RewriteNeverReplaces
  CountedOnce
