SPECIFICATION Spec
CONSTANTS
  Inputs <- ShortFiles
  MaxWarnings = 3
  U64 = 1048576
INVARIANT WarningsAtLocations
