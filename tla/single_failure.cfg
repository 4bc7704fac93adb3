SPECIFICATION SpecPart
CONSTANTS
  DAY = 86400
  Buckets = 5
  MaxOffset = 7
  Inputs <- ShortFiles
  MaxWarnings = 2
  U64 = 1048576
  Classnames <- ShortClassnames
  Filenames <- ShortPaths
  Networks <- SomeNetworks
  NoFilename = NoFilename
  NoNetwork = NoNetwork
  NotComputed = NotComputed
  Paths <- SomePaths
  NumberOf <- Numbers
  Strings = {"x", "y"}
  NoValue = NoValue
  Object = Object
  List = List
  NoProperty = NoProperty
  MaxProperties = 1
  Durations = {1, 2}
  NaN = NaN
  Traces <- SomeTraces
  MaxFailures = 4
  Lengths = {0, 2}
  Trailing = {1}
  Hashes = {h1, h2}
  MaxTests = 0
  MaxSelected = 2
INVARIANT SuccessMeansNoFailure
CHECK_DEADLOCK FALSE
