\* Secondaries that fail, a primary that is started twice.  All may stop.
SPECIFICATION FairSpec
CONSTANTS
  Secondaries = {s1, s2}
  PopSize = 3
  secondary_chunksize = 2
  Reconnect = TRUE
  MaxCalls = 2
  MaxStarts = 2
  MayFail = TRUE
PROPERTIES
  ImplementsPromise
  EvaluateReturns
  NoticesLoss
CHECK_DEADLOCK FALSE
