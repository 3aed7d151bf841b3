\* The run ends.
SPECIFICATION Spec
CONSTANTS
  PopSize = 3
  Elitism = 1
  MinSpeciesSize = 1
  MaxStagnation = 1
  Configs <- RestoreConfig
  MaxSpawnSpecies = 3
  MaxSpawnFitness = 3
  MaxSpawnSize = 4
  MaxSpawnPop = 5
  MaxSpawnMin = 2
PROPERTIES
  ElitesRetained
CHECK_DEADLOCK FALSE
