\* A secondary that misses the forced shutdown never exits.
SPECIFICATION FairSpec
CONSTANTS
  Secondaries = {s1}
  PopSize = 1
  secondary_chunksize = 2
  Reconnect = TRUE
  MaxCalls = 2
  MaxStarts = 1
  MayFail = FALSE
PROPERTIES
  ForcedShutdownEnds
CHECK_DEADLOCK FALSE
