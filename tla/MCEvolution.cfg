\* The run ends.
SPECIFICATION Spec
CONSTANTS
  PopSize = 3
  Elitism = 1
  MinSpeciesSize = 1
  MaxStagnation = 1
  Configs <- BothConfigs
  MaxSpawnSpecies = 3
  MaxSpawnFitness = 3
  MaxSpawnSize = 4
  MaxSpawnPop = 5
  MaxSpawnMin = 2
INVARIANTS
  BestIsKept
  NeverStarves
  SpawnsRoughlyPopSize
  FitterGetsMore
PROPERTIES
  ElitesRetainedUnrestored
  SpeciesElitesKept
CHECK_DEADLOCK FALSE
