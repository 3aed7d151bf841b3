\* A worker that dies takes its task with it and evaluate waits for ever: the
\* run may stop there.
SPECIFICATION FairSpec
CONSTANTS
  Workers = {w1, w2, w3}
  PopSize = 3
  MaxCalls = 2
INVARIANTS
  NothingLeftOver
PROPERTIES
  ImplementsPromise
  EvaluateEnds
  StopEnds
CHECK_DEADLOCK FALSE
