\* The actions stop when the bounds on runs and cleanups are used up.
SPECIFICATION FairSpec
CONSTANTS
  MaxRuns = 3
  MaxCleanups = 1
  RecursionLimit = 2
  MaxPolls = 2
INVARIANTS
  TypeOK
  CompleteRunInstalls
  CleanupRemoves
PROPERTIES
  RunEnds
CHECK_DEADLOCK FALSE
