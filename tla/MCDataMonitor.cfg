SPECIFICATION FairMonitorSpec
CONSTANTS
  c2 = c2
  z2 = z2
  s1 = s1
  s2 = s2
  None = None
  CCs <- MCCCs
  Zombies <- MCZombies
  Services <- MCServices
  Messages <- MCMessages
  MaxReports = 2
  MaxZombieIps = 1
  OverrideCC = None
  OverrideZombies = None
  HasTimeWindow = FALSE
  MaxIterations = 2
  MaxPolls = 1
  AppIds <- MCAppIds
  Rows <- MCRows
  Partitions = 2
  RowLimit = 2
  Versions <- MCVersions
  PartLimit = 2
  LastLimit = 2
INVARIANTS
  PicksHighestVersion
  ReadsUpToLimit
PROPERTIES
  ThreadsEnd
