---------------------------- MODULE MCEvolution ----------------------------
(* A NEAT run under two configurations, and compute_spawn over all inputs  *)
(* of bounded size, of which a run of so few genomes meets only some.      *)
EXTENDS Evolution, Sequences

CONSTANTS
  MaxSpawnSpecies,   \* BOUND: number of species
  MaxSpawnFitness,   \* BOUND: adjusted fitness
  MaxSpawnSize,      \* BOUND: previous size of a species
  MaxSpawnPop,       \* BOUND: pop_size
  MaxSpawnMin        \* BOUND: min_species_size

\* neat.conf with species_fitness_func max instead of mean, so that the
\* species with the best member is the one that survives.
Elitist ==
  [species_elitism |-> 1, species_fitness_func |-> "max", reset_on_extinction |-> FALSE,
   fitness_threshold |-> 2, max_generations |-> 3, max_fitness |-> 2, max_species |-> 3, max_restores |-> 0]

\* Species die out, and checkpoints are restored.
Restarted ==
  [species_elitism |-> 0, species_fitness_func |-> "mean", reset_on_extinction |-> TRUE,
   fitness_threshold |-> 1, max_generations |-> 2, max_fitness |-> 1, max_species |-> 2, max_restores |-> 1]

BothConfigs   == {Elitist, Restarted}
RestoreConfig == {[Restarted EXCEPT !.species_fitness_func = "max", !.reset_on_extinction = FALSE]}

-----------------------------------------------------------------------------
SpawnInputs ==
  UNION {[fitness : [1 .. n -> 0 .. MaxSpawnFitness], sizes : [1 .. n -> 1 .. MaxSpawnSize],
          pop : 1 .. MaxSpawnPop, min : 1 .. MaxSpawnMin] : n \in 1 .. MaxSpawnSpecies}

\* compute_spawn divides by a sum that is not zero, gives every species its
\* minimum, so that `assert spawn > 0' in reproduce holds, and normalizes
\* "so that the next generation is roughly the population size requested"
\* (reproduction.py:75): off by at most one minimum for each species.
SpawnsRoughlyPopSize ==
  pc = "found" => \A in \in SpawnInputs :
    LET raw   == raw_amounts(in.fitness, in.sizes, in.pop, in.min)
        spawn == compute_spawn(in.fitness, in.sizes, in.pop, in.min)
        n     == Len(spawn)
    IN  /\ SumFunction(raw) > 0
        /\ \A i \in 1 .. n : spawn[i] >= in.min
        /\ SumFunction(spawn) \in (in.pop - n) .. (in.pop + n * in.min)

\* Of two species of the same size the fitter one does not get less.
FitterGetsMore ==
  pc = "found" => \A in \in SpawnInputs :
    LET spawn == compute_spawn(in.fitness, in.sizes, in.pop, in.min)
    IN  \A i, j \in DOMAIN spawn :
          in.sizes[i] = in.sizes[j] /\ in.fitness[i] >= in.fitness[j] => spawn[i] >= spawn[j]
=============================================================================
