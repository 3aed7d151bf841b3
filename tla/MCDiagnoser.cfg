SPECIFICATION Spec
CONSTANTS
  c1 = c1
  c2 = c2
  z1 = z1
  z2 = z2
  s1 = s1
  s2 = s2
  None = None
  CCs <- MCCCs
  Zombies <- MCZombies
  Services <- MCServices
  Messages <- MCMessages
  MaxReports = 3
  MaxZombieIps = 1
  OverrideCC = None
  OverrideZombies = None
  HasTimeWindow = FALSE
  MaxIterations = 2
  MaxPolls = 2
INVARIANTS
  TypeOK
  LockDiscipline
  OneThreadOfEachKind
  RunLabels
  TriggersMatchAlarms
