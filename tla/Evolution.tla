----------------------------- MODULE Evolution -----------------------------
(***************************************************************************)
(* The generations of a NEAT run: neat/population.py (run),                *)
(* neat/reproduction.py, neat/species.py, neat/stagnation.py and           *)
(* neat/checkpoint.py.                                                     *)
(*                                                                         *)
(* A genome is its key and its fitness, fixed once it is evaluated, as the *)
(* evaluation of eval_genomes is a function of the genome.  Its structure  *)
(* is in module Genome.  Distances are left open: speciate may put a       *)
(* genome into any species, or make a new one.                             *)
(***************************************************************************)
EXTENDS Spawn

CONSTANTS
  PopSize, Elitism, MinSpeciesSize, MaxStagnation,  \* pop_size, elitism, ...
  Configs          \* the other options a run may have, see ConfigType

\* Means of up to six values are integers on this scale.
Scale == 60

\* Options of the configuration, the mean fitness that ends the run among
\* them, the n of run (max_generations), and BOUNDS for the exploration:
\* fitness values are 0 .. max_fitness.
ConfigType ==
  [species_elitism : Nat, species_fitness_func : {"max", "mean"}, reset_on_extinction : BOOLEAN,
   fitness_threshold : Nat, max_generations : Nat, max_fitness : Nat, max_species : Nat, max_restores : Nat]

ASSUME EvolutionAssumption ==
  /\ PopSize \in Nat \ {0, 1} /\ {Elitism, MinSpeciesSize, MaxStagnation} \subseteq Nat
  /\ AtLeast(Elitism, MinSpeciesSize) > 0
  /\ Configs \subseteq ConfigType

VARIABLES
  config,          \* never changes
  pc,              \* where run is
  k, generation,
  population,      \* from keys of genomes to their fitness
  species,         \* from keys of species to their state
  genome_indexer,  \* the next key of a genome
  indexer,         \* the next key of a species
  best,            \* fitness of best_genome, Unevaluated while it is None
  saved,           \* the last checkpoint, NoCheckpoint while there is none
  restores

vars == <<config, pc, k, generation, population, species, genome_indexer, indexer, best, saved, restores>>

-----------------------------------------------------------------------------
Unevaluated  == -1
Fitnesses    == 0 .. config.max_fitness
NoCheckpoint == [generation |-> -1, population |-> <<>>, species |-> <<>>, indexer |-> 0]

Ids  == DOMAIN population
Sids == DOMAIN species

\* Species: members, the maximum of fitness_history, last_improved.
Species(members, history, improved) ==
  [members |-> members, history |-> history, improved |-> improved]

WithMembers(s, members) == Species(members, s.history, s.improved)

New(first, n) == [id \in first .. (first + n - 1) |-> Unevaluated]

\* __init__ without a checkpoint, up to speciate.
Init ==
  /\ config \in Configs /\ pc = "found" /\ k = 0 /\ generation = 0
  /\ population = New(1, PopSize) /\ genome_indexer = PopSize + 1
  /\ species = <<>> /\ indexer = 1
  /\ best = Unevaluated /\ saved = NoCheckpoint /\ restores = 0

-----------------------------------------------------------------------------
(* The head of the loop of run: evaluate, then maybe stop. *)

MeanReached(pop) == SumFunction(pop) >= config.fitness_threshold * Cardinality(DOMAIN pop)

Evaluate ==
  /\ pc = "evaluate" /\ k < config.max_generations
  /\ k' = k + 1
  /\ \E f \in [Ids -> Fitnesses] :
       /\ \A id \in Ids : population[id] # Unevaluated => f[id] = population[id]
       /\ population' = f
       /\ best' = Max({best} \cup {f[id] : id \in Ids})
       /\ pc' = IF MeanReached(f) THEN "stopped" ELSE "reproduce"
  /\ UNCHANGED <<config, generation, species, genome_indexer, indexer, saved, restores>>

LastGeneration ==
  /\ pc = "evaluate" /\ k = config.max_generations /\ pc' = "stopped"
  /\ UNCHANGED <<config, k, generation, population, species, genome_indexer, indexer, best, saved, restores>>

-----------------------------------------------------------------------------
(* DefaultStagnation.update *)

FitnessOf(members) ==
  LET values == [id \in members |-> population[id]]
  IN  IF config.species_fitness_func = "max" THEN Scale * Max(Range(values))
      ELSE (Scale * SumFunction(values)) \div Cardinality(members)

Updated(s) ==
  LET f == FitnessOf(s.members)
  IN  Species(s.members, Max({f, s.history}), IF f > s.history THEN generation ELSE s.improved)

\* The orders in which the sort by ascending fitness may put the species.
Ascending ==
  {order \in Bijection(1 .. Cardinality(Sids), Sids) :
     \A i, j \in DOMAIN order :
       i < j => FitnessOf(species[order[i]].members) <= FitnessOf(species[order[j]].members)}

\* Mutant: the fittest species are not spared, only their number counts.
StagnantUnlessFew(s, after, left) ==
  left > config.species_elitism /\ generation - Updated(s).improved >= MaxStagnation

\* Species s, with `after' fitter species in the order, when `left' species
\* are not marked so far.
IsStagnant(s, after, left) ==
  /\ left > config.species_elitism /\ after >= config.species_elitism
  /\ generation - Updated(s).improved >= MaxStagnation

\* The places of the stagnant species in the order.
Stagnant(order) ==
  LET n == Cardinality(Sids)
      Marked(i, left) == IsStagnant(species[order[i]], n - i, left)
      left[i \in 0 .. n] ==
        IF i = 0 THEN n ELSE left[i - 1] - (IF Marked(i, left[i - 1]) THEN 1 ELSE 0)
  IN  {i \in 1 .. n : Marked(i, left[i - 1])}

-----------------------------------------------------------------------------
(* DefaultReproduction.reproduce *)

EffectiveMin == AtLeast(Elitism, MinSpeciesSize)

\* The spawn amounts of the remaining species, those at the places stages of
\* the order.
Spawns(order, stages) ==
  LET members(i) == species[order[i]].members
      worst == Min({population[id] : id \in UNION {members(i) : i \in stages}})
      above(i) == (Scale * SumFunction([id \in members(i) |-> population[id]]))
                    \div Cardinality(members(i)) - Scale * worst
  IN  compute_spawn([i \in stages |-> above(i)],
                    [i \in stages |-> Cardinality(members(i))], PopSize, EffectiveMin)

\* Mutant: the members are not sorted.
AnyMembers(members) == {E \in SUBSET members : Cardinality(E) = Min({Elitism, Cardinality(members)})}

\* The sets that may be the fittest members, up to Elitism of them.
Elites(members) ==
  {E \in SUBSET members :
     /\ Cardinality(E) = Min({Elitism, Cardinality(members)})
     /\ \A e \in E, m \in members \ E : population[m] <= population[e]}

\* new_population after all species wrote theirs one after the other: its
\* elites, then its children.  A later write to a key replaces an earlier one.
NewPopulation(elites, first, count) ==
  LET children(i) == first[i] .. (first[i] + count[i] - 1)
      stages == DOMAIN elites
      carried == UNION {elites[i] : i \in stages}
      bred == UNION {children(i) : i \in stages}
      child(id) == \E i \in stages : id \in children(i) /\ \A j \in stages : id \in elites[j] => j <= i
  IN  [id \in carried \cup bred |-> IF child(id) THEN Unevaluated ELSE population[id]]

NextGeneration(order, stages) ==
  LET spawn == Spawns(order, stages)
  IN  \E elites \in [stages -> SUBSET Ids] :
        /\ \A i \in stages : elites[i] \in Elites(species[order[i]].members)
        /\ LET count == [i \in stages |-> AtLeast(spawn[i], Elitism) - Cardinality(elites[i])]
               first == [i \in stages |-> genome_indexer + SumFunctionOnSet(count, {j \in stages : j < i})]
           IN  /\ population' = NewPopulation(elites, first, count)
               /\ genome_indexer' = genome_indexer + SumFunction(count)
        /\ species' = [sid \in {order[i] : i \in stages} |-> WithMembers(Updated(species[sid]), {})]
        /\ pc' = "speciate"

\* Mutant: the loop goes on without a population.
ExtinctionIgnored ==
  species' = <<>> /\ population' = <<>> /\ pc' = "speciate" /\ UNCHANGED genome_indexer

\* run, when reproduce leaves no species.
Extinction ==
  /\ species' = <<>>
  /\ IF config.reset_on_extinction
     THEN /\ population' = New(genome_indexer, PopSize) /\ genome_indexer' = genome_indexer + PopSize
          /\ pc' = "speciate"
     ELSE population' = <<>> /\ pc' = "extinct" /\ UNCHANGED genome_indexer

Reproduce ==
  /\ pc = "reproduce"
  /\ \E order \in Ascending :
       LET stages == DOMAIN order \ Stagnant(order)
       IN  IF stages = {} THEN Extinction ELSE NextGeneration(order, stages)
  /\ UNCHANGED <<config, k, generation, indexer, best, saved, restores>>

-----------------------------------------------------------------------------
(* DefaultSpeciesSet.speciate.  With fewer genomes than species its min()  *)
(* has no candidates and raises: NeverStarves excludes that.               *)

\* Every species gets a representative, then the other genomes join a
\* species or found one.
Partition(assigned) ==
  /\ species' = [sid \in Range(assigned) |->
       LET members == {id \in Ids : assigned[id] = sid}
       IN  IF sid \in Sids THEN WithMembers(species[sid], members)
           ELSE Species(members, -1, generation)]
  /\ indexer' = indexer + Cardinality(Range(assigned) \ Sids)

speciate ==
  \E new \in 0 .. (config.max_species - Cardinality(Sids)) :
  \E assigned \in [Ids -> Sids \cup indexer .. (indexer + new - 1)] :
    /\ Range(assigned) = Sids \cup indexer .. (indexer + new - 1)
    /\ Partition(assigned)

\* Population.__init__
Found ==
  /\ pc = "found" /\ speciate /\ pc' = "evaluate"
  /\ UNCHANGED <<config, k, generation, population, genome_indexer, best, saved, restores>>

\* Checkpointer.end_generation is called with the generation just completed.
EndGeneration ==
  /\ \/ UNCHANGED saved
     \/ /\ restores < config.max_restores
        /\ saved' = [generation |-> generation, population |-> population,
                     species |-> species', indexer |-> indexer']
  /\ generation' = generation + 1 /\ pc' = "evaluate"

Speciate ==
  /\ pc = "speciate" /\ speciate /\ EndGeneration
  /\ UNCHANGED <<config, k, population, genome_indexer, best, restores>>

\* A new process calls restore_checkpoint, then run: the reproduction object
\* is a new one.
Restore ==
  /\ saved # NoCheckpoint /\ restores < config.max_restores
  /\ restores' = restores + 1 /\ pc' = "evaluate" /\ k' = 0
  /\ generation' = saved.generation /\ population' = saved.population
  /\ species' = saved.species /\ indexer' = saved.indexer
  /\ genome_indexer' = 1 /\ best' = Unevaluated
  /\ UNCHANGED <<config, saved>>

Next == Found \/ Evaluate \/ LastGeneration \/ Reproduce \/ Speciate \/ Restore

Spec == Init /\ [][Next]_vars

-----------------------------------------------------------------------------
\* The loop never evaluates an empty population (`best' would be None), and
\* speciate finds a representative for every species that survived.
NeverStarves ==
  /\ pc = "evaluate" => Ids # {}
  /\ pc = "speciate" => Cardinality(Ids) >= Cardinality(Sids)

\* The best genome seen so far is still in the evaluated population, so
\* evolution never loses what run returns.  It takes elitism, species
\* elitism and species ranked by their best member, and no restart.
BestIsKept ==
  /\ Elitism > 0 /\ config.species_elitism > 0 /\ config.species_fitness_func = "max"
  /\ restores = 0 /\ pc = "reproduce"
  => best = Max(Range(population))

\* The members of the species that survive with fewer than Elitism others as
\* fit as themselves are in the new population, unchanged.
Retained ==
  \A sid \in DOMAIN species' : \A m \in species[sid].members :
    Cardinality({o \in species[sid].members \ {m} : population[o] >= population[m]}) < Elitism
      => m \in DOMAIN population' /\ population'[m] = population[m]

\* "If elitism is enabled, each species always at least gets to retain its
\* elites" (reproduction.py:143).
ElitesRetained == [][pc = "reproduce" /\ pc' = "speciate" => Retained]_vars

\* The same in a process that did not restore a checkpoint: the keys of the
\* children are then new, whatever the other species wrote before.
ElitesRetainedUnrestored ==
  [][pc = "reproduce" /\ pc' = "speciate" /\ restores = 0 => Retained]_vars

\* Stagnation removes no species when only species_elitism are left, and
\* never one of the species_elitism fittest (stagnation.py:35-37).
SpeciesElitesKept ==
  [][pc = "reproduce" /\ pc' \in {"speciate", "extinct"} =>
       /\ Cardinality(DOMAIN species') >= Min({config.species_elitism, Cardinality(Sids)})
       /\ \A gone \in Sids \ DOMAIN species' :
            Cardinality({sid \in DOMAIN species' :
              FitnessOf(species[sid].members) >= FitnessOf(species[gone].members)}) >= config.species_elitism]_vars
=============================================================================
