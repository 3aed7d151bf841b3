# Verification of the Autonomic Intelligence Engine

TLA+ specifications of the program in this repository, the TLC configurations
that check them on small instances, and proofs for TLAPS. Paths are relative
to `src/`.

## The system

The engine is one Python process (`diagnoser/`) around a vendored and changed
copy of neat-python (`neat/`), and a few command-line scripts.

| part | state | operations |
|---|---|---|
| main loop (`diagnoser/diagnoser.py`) | labels collected so far, the last NEAT thread, the last monitor thread, `interface_lock` | take a report from Kafka, collect labels, start a NEAT run, start a data monitor |
| NEAT run (`diagnoser/neattools.py`, `run_sp_neat`) | its arguments, its data | query Cassandra, aggregate, evolve, store the model, deploy task, alarm and rule, wait for the rule |
| data monitor (`sh_data_monitor`, a closure in the main loop) | its arguments, the iteration | load data, choose a version, evaluate, trigger the healing script |
| deployment (`taskman.py`, `monasca.py`, `talcom.py`) | what Task Manager, Monasca and TAL engine hold | create or replace task, alarm and rule, disable the old scripts |
| cleanup (`cleanup.py`) | the id of an alarm | remove alarm, task and rule; also `check_script`, which the run polls |
| genomes (`neat/genome.py`, `graphs.py`, `genes.py`) | nodes and connections; the node indexer all genomes share | create, cross over, four structural mutations |
| evolution (`neat/population.py`, `reproduction.py`, `species.py`, `stagnation.py`) | population, species, indexers, best genome | evaluate, remove stagnant species, spawn, speciate |
| checkpoints (`neat/checkpoint.py`) | a file | save, restore |
| evaluators (`neat/threaded.py`, `distributed.py`, `parallel.py`) | queues, workers, a manager process | start, evaluate, stop |
| networks (`neat/nn`, `ctrnn`, `iznn`) | the values of the nodes, in one or two buffers | create from a genome, activate, advance, reset |
| translation (`neatmodeltrans.py`, `format_model` in `neattools.py`) | the loops' work lists | make a database entry, parameters and an expression of a network |
| Cassandra client, version comparison (`cassandra.py`, `profiler.py`, `tools.py`) | the answers so far | query partition by partition, choose rows, ask for versions, take the highest |
| configuration, statistics, attributes of genes, aggregation of flow samples | none that outlives a call, or numerical | |

How they interact. The main loop starts threads and looks at them through
`is_alive` only. The threads share `interface_lock`, held around every call to
an external interface except the model database. A NEAT run calls
`Population.run`, which calls a fitness function; the evaluators are drop-in
fitness functions. `cleanup.py` works on the same external services from a
process of its own, without the lock. `PROJECT.json` lists every part with
its status.

What is hard. Threads start and end while the loop collects the labels of the
next run. Any call may raise in any block. Deployments leave half of their work
behind, and the next one finds it under the same names. Genomes are changed by
long sequences of small operations that must keep structural invariants. Keys
are given out by counters that do not survive a restart. Results of workers
are counted, not matched, and may be late, lost, or of an earlier call. A
network is walked through by four loops written independently of each other,
which must agree, and which iterate over sets in an order nobody chose. The
list of hazards, line by line and with the property that covers each, is in
`PROJECT.json`.

## Modules

| module | models | used by |
|---|---|---|
| `Diagnoser` | main loop, NEAT runs, data monitors, `interface_lock` | `MCDiagnoser`, `DataMonitor`, `DiagnoserProofs` |
| `DataMonitor` | `Diagnoser` with the monitors' queries, row selection and version requests in detail | `MCDataMonitor`, `DataMonitorProofs` |
| `Deployment` | the part of a run under the lock, the three services, `cleanup.py`, the TAL engine (external) | `DeploymentProofs` |
| `Genome` | the structure of genomes and the node indexer | `GenomeProofs` |
| `Network` | `required_for_output`, `feed_forward_layers`, the order of evaluation | `ModelTranslation`, `Recurrent` |
| `ModelTranslation` | `format_model`, `remove_unused`, `write_parameters`, `translate_model` | `Phenotypes` |
| `Recurrent` | recurrent, continuous-time and spiking networks: buffers and turns | `Phenotypes` |
| `Phenotypes` | a genome becomes one of the networks, and the winner a task | `MCPhenotypes`, `PhenotypesProofs` |
| `Spawn` | `compute_spawn` as operators | `Evolution` |
| `Evolution` | generations, stagnation, reproduction, speciation, checkpoints | `MCEvolution`, `EvolutionProofs` |
| `GenomeEvaluation` | abstract: what `Population.run` expects of a fitness function | `Threaded`, `Distributed` |
| `Threaded`, `Distributed` | the two evaluators, each shown to implement `GenomeEvaluation` | `ThreadedProofs`, `DistributedProofs` |
| `...Proofs` | theorems | |

A definition called a mutant changes one definition of a module as a plausible
mistake in the code would. No specification uses it; replacing the original by
it makes the property it is meant for fail.

**Diagnoser.** One action per step between two points where another thread can
be seen: `Receive` is the next element of the consumer, `SkipLabels`,
`CollectLabels` and `StartNeat` are the SNORT half of the loop body,
`IgnoreQos` and `StartMonitor` the QoS half. A run goes through `begin`
(which may raise, on a time window it cannot parse), `fetch`, `evolve`,
`translate`, `deploy` and `poll`; each locked block is an action that takes the
lock and one that does the call and releases it, whatever the outcome. A run
whose translation does not end stays in `stuck` for ever, outside the lock.
Threads are named by the number of the report that started them, so arguments can be compared with the log of reports. A report is what the loop
extracts: is it SNORT, its C&C and source addresses, has it a timestamp, is it
QoS, its service. Data frames are outcomes (`enough`, `too little`, raises).

**DataMonitor** extends it: each monitor step of `Diagnoser` is taken together
with what it does to the monitor's locals (`Loaded`, `Picked`, `Evaluated`,
`Triggered`), and inside the locked blocks there are steps of their own, one
for each partition queried (`Query`) and one for each version requested
(`Ask`). A row is its app id, its service (possibly missing, which
equals no service) and whether its time is in one of the ranges asked for; a
query may answer any set of rows, a request any version or none. Steps of the
main loop and of the NEAT runs are those of `Diagnoser` and leave the locals alone.

**Deployment.** A service holds the number of the run an object came from.
Each request succeeds, meets the conflict its state implies, is refused with
another status, or raises; the code looks at some statuses and not at others,
and so do the actions. `accepted`, `calm` and `cleanAlone` are history
variables that the properties use to say "all requests were accepted" and "no
cleanup overlapped".

**Genome.** A genome is a set of node keys and a set of connection keys;
weights and enabled flags are left out because no structural operation reads
them. An operation is the set of its possible results, which stands for the
random choices. `used` remembers every key that ever existed.

**Network, ModelTranslation, Recurrent, Phenotypes.** A connection is a pair of
keys. One action is one turn of a loop: `Require` and `AddLayer` of
`graphs.py`, `FormatSweep`, `RemoveSweep`, `ParseConnection` and `NextSweep` of
the translation. Where the code iterates over a set or a dictionary and the
order matters (which of several connections `remove_unused` keeps, in which
order connections are parsed), every order is possible. An expression is a
tree of nodes and weights, so that "the same expression" means the same terms.
In `Recurrent` a value is the number of the turn that computed it: the
properties say which value is read, not what it is. What a node reads over its
links and what a CTRNN node reads of its own last value (`links_read`, `own_read`) are kept apart,
because the code takes the one from the buffer of the turn before and the other
from the buffer it is writing. `Phenotypes` puts the
three together, each part stepping on its own.

**Spawn, Evolution.** A genome is its key and fitness, in integers; means are
scaled by 60 so that those of up to six values are exact, and
`compute_spawn` works on exact fractions with Python's rounding to the even
neighbour. Distances are open: `speciate` may put any genome anywhere. The
population is written in the order of the code, so a later write to a key
replaces an earlier one. A run starts with one of the given configurations
(`config`): the properties about elitism hold under those that ask for it. One of the two ranks
species by their best member, as `BestIsKept` needs, the other by their mean, as
`tests/sp/neat.conf` does. `fitness_criterion` is the mean, as in the configuration
of the program.

**Threaded, Distributed.** Queues are sequences of genomes or chunks, a result
is the genome it belongs to. Time is left out: a get with a timeout may come
back empty whenever the queue is, and nothing says which of two processes is
faster. In `Distributed` a secondary's calls on queues need the connection it
has, and reading the state opens a new one, so that a restarted primary is seen
by one and not by the other.

## Runs

| run | shows | bounds |
|---|---|---|
| `diagnoser` | the five invariants of `Diagnoser` over all interleavings | three reports out of five kinds: one can start a run, one be collected for the next, and one start it; two iterations and two polls, enough for the first, a repeated and the last one |
| `monitor` | the app a monitor decides about is the highest version that has data for its alarm's service; the row limit; every thread ends | two reports, two apps that share a service, two partitions, a limit of two rows that one partition can exceed, versions of one and of four parts that differ in the last part and in all; of the four rows one is out of the time ranges; one poll |
| `deployment` | a run whose requests are all accepted installs its own task and rule whatever is left over, a cleanup that no run overlaps leaves neither alarm nor task, the lock is given back | three runs (leftovers of leftovers), one cleanup, recursion limit and polls 2 |
| `genome` | all properties of genomes, feed-forward, several mutations in one call, two outputs | one place, four node keys, two of them hidden: a genome and all its descendants; cycles of up to three nodes; the proofs cover other configurations |
| `evolution` | elitism, species elitism, the best genome is kept, no empty population, a representative for every species; `compute_spawn` on 43 680 inputs | three genomes, up to three species and generations, stagnation after one, so that species die in the second; one configuration with elitism, one with reset on extinction, mean species fitness and one restart; spawning: up to three species, sizes to 4, fitness to 3, `pop_size` to 5 |
| `evolution_restore_elites` | a disagreement | one restart |
| `threaded` | the evaluator implements the abstract specification, calls end unless a worker died, `stop` ends | three workers and three genomes; two calls, so that one can leave something to the other |
| `distributed` | the same with failing calls, lost chunks and results, and a restarted primary | two secondaries, two chunks of different size, two calls, two starts |
| `distributed_forced` | a disagreement | one secondary, one chunk |
| `phenotypes` | the layers are exact, sound and complete; the database entry, the parameters and the task speak of the same nodes; trees are translated; over their links nodes read the turn before | every acyclic network over two inputs, an output and two hidden nodes (chains, diamonds, inputs at different distances, starved nodes), and over one input, an output, node 1 and node 999; every other network over one input and two nodes, with one connection disabled; three turns, so that a buffer is used twice |
| `translation` | a disagreement, see below | as above, without node 999 |
| `ctrnn_advance` | a disagreement | as above |

Fairness. `Diagnoser` and `Deployment` assume that the operating system
schedules runnable threads and that every external call answers or raises
(weak fairness of each thread). Weak fairness is enough for the lock: the two
kinds of thread that compete for it are at most two threads, each uses it a
bounded number of times, and the lock is free whenever neither is inside.
`ThreadsEnd` excepts a run whose translation does not end, which nothing in the
code interrupts. That calls answer is an assumption about the
services: the requests have no timeout. `Threaded` and `Distributed` assume that
threads and processes are scheduled and that `eval_function` ends; nobody must
call `evaluate` or `stop`, or start a secondary. `Distributed` also assumes
that a connection that breaks again and again lets a get through at last
(strong fairness of `Get`). `EvaluateReturns` excepts a chunk that is lost and an
unknown error that ended the last secondary: the primary waits for results
without a timeout. `Phenotypes` assumes only that the loops that build
and translate a network go on; nobody need activate one. `Deployment` lets the TAL
engine never deactivate a rule. In `monitor` queries and requests are steps of
the monitor, so its weak fairness covers them.

`CHECK_DEADLOCK FALSE` stands where the modelled activity really ends: a run
that used its generations, deployments up to their bound, an evaluator whose
workers died, a task that is translated.

## Disagreements between code and documentation

Shown by a run that ends in a violation:

1. A restored checkpoint starts genome keys again at 1, and children overwrite
   elites (`reproduction.py:37`, `checkpoint.py:72-78`, against
   `reproduction.py:143`).
2. A forced shutdown is missed by a secondary that does not read the state in
   time, and it reconnects for ever (`distributed.py:491-506`, against 434-435).
3. The task that is deployed is not the network that was evolved
   (`neatmodeltrans.py:166-174`, `209-273`, against `README.md:7`): weights of
   connections between nodes are not written, all but one connection of each
   node are dropped, and a node whose inputs are at different distances is
   counted once for every sweep that reaches it. `TranslatesTrees` says where
   it does agree.
4. `CTRNN.advance` answers with the buffer it has read, not the one it wrote:
   the outputs are those of the step before (`ctrnn/__init__.py:82-88`, against
   55). Besides, a step adds its change to a value of two steps before: `ovalues`
   at line 82 is the buffer it is about to write, not the one that holds its
   state, so odd and even steps advance two states. `AdvancesSimulation` has
   both halves, and fails in the second as soon as a call takes two steps.

Shown by a proof (`CyclesAreEndless`), and violating the property of 3 as well:

5. A winner that uses a node with the key 999 is never translated
   (`neatmodeltrans.py:175`, `209`): the connection (0, 999) that stands for the
   result closes a cycle. The configuration in `tests/sp/neat.conf` reaches the
   key: 256 genomes with six hidden nodes each take the keys 1 to 1536 of their
   common indexer before the first generation. `translation` leaves such networks
   out, so that its counterexample is about expressions; with `EndlessHidden` =
   {1, 999} it ends in a loop.

Seen while modelling, without a run of their own:

6. `clean_after_loop` removes the rule of another tenant than the one the run
   installs it for (`cleanup.py:80`, `talcom.py:107`, against the message at
   `cleanup.py:105`). `CleanupRule` is modelled with both tenants;
   `CleanupRemoves` says what a cleanup does remove.
7. `check_script` takes every status but 200 for "not enabled", so a run
   prints that its rule was deactivated at the first request that fails
   (`cleanup.py:110-121`, `neattools.py:423-428`). `Poll` is modelled with both
   kinds of answer.
8. `--dry-run` does not stop the deployment (`neattools.py:370`, `if False`,
   against `config-schema.yaml:34-35`).
9. A `KeyboardInterrupt` in `ThreadedEvaluator.evaluate` leaves results to the
   next call, which counts them (`threaded.py:94-98`).
10. A secondary that loses its manager before `_reset_em` never exits
    (`distributed.py:485-488`, against 405-406).
11. `-c FILE` given without `-C` reads `args.additional_configs`, an option the
    schema does not define, and raises; with `-C` no file is read, named or not
    (`diagnoser/config.py:142-145`, which overwrites the list made before).
12. The row limit of a query is reached from the oldest minute on, and rows of
    other services count: the newest minutes are the ones left out
    (`cassandra.py:69-71`, `profiler.py:334`).

## Proofs

For every value of the constants that the named assumptions allow.

`DiagnoserProofs`:

- `TypeCorrect`: `TypeOK` is inductive. The poll and iteration counters need
  that a thread that still counts is below its bound, which the guards give.
- `LockIsHeldByItsUser`: `LockDiscipline` is inductive together with the types:
  an acquiring step needs a free lock, so no other thread was in a locked block.
- `OneRunOneMonitor`: needs `ThreadInv`, that threads exist only for reports
  already received and that the loop's two variables point to existing ones.
- `TriggersAreJustified`: needs `AlarmInv`, that the arguments of a monitor are
  those of the report that started it, that a trigger belongs to a monitor that
  has ended, and that each alarm has at most one.
- `RunsGetTheirLabels`: needs `LabelInv`, that the labels in the loop are those
  of the reports since the last run, which is the same statement for the batch
  that is not started yet; the work is to show that a batch does not change when
  reports arrive after it.

`GenomeProofs`: the inductive invariant `GenomeInv` joins types, end points,
outputs, acyclicity and "every key that was used is below the indexer". Each
mutation has a lemma that it keeps these for the genome it makes. Acyclicity is
stated as "each nonempty set of nodes has one without a successor in it", and
the sweep of `creates_cycle` as the least closed set, so adding a connection
needs no induction: a set that would have become cyclic contains the nodes
reached from the target, and they do not contain the source. Splitting a
connection is handled by removing the new node from the set. `KeysStayFresh` is an
action property that follows from the same invariant.

`DataMonitorProofs`:

- `MonitorsImplement`: every step with the interfaces in detail is a step of
  `Diagnoser` or leaves its variables alone, so all theorems above hold for the
  detailed monitors.
- `OlderIsSmaller`: weights of 10000, 10000 and 1000000 order versions as their
  parts do, from one lemma about x * L + p that is used three times. It needs
  the assumption `VersionsFit`.
- `MonitorsPickHighest`: the inductive invariant `LocalInv` adds to `AlarmInv`
  what a monitor has collected at each place of its loop. The service of the
  rows is the alarm's by `MonOrigin`, the choice of `idxmax` is turned into
  one about versions by `OlderIsSmaller` and `Comparable`.
- `MonitorsReadEnough`: the invariant `Window` says at each place of the query
  loop how many rows of the partitions before the last there are. The count is
  the cardinality of a set of pairs, which `OneMore` shows to grow by the rows
  of each answer; the loop's test is made before every query.

`PhenotypesProofs`:

- `RequiredIsExact`: `required` is a least closed set. The loop only adds nodes
  that any closed set has, and when it ends nothing but inputs feeds the nodes
  seen.
- `LayersAreSound`, `LayersAreComplete` are about the set `placed` of the layers
  so far. A placed node needs no starved one, because the closed set of nodes
  without starved needs contains every layer; a node that is left over has an
  input that is left over or starved, which leads to a starved one.
- `TraversalsDoAgree`: two loops compute the same closure, and the connections
  the third keeps give every used node but the output a way to a used node.
- `BuffersAreRead`, `OutputsAreReturned`: which of two buffers holds the turn
  before, at every place of the loop. The first is about links only and the
  second leaves CTRNNs out: see disagreement 4.
- `TypesHold`: the values need that a turn begins only below the bound.
- `NoInputIsLost`: of the invariant `TreeInv` it needs two parts. `Levelled` and
  `Rooted` say that `remove_unused` leaves a tree: each sweep is a level, and a
  set of used nodes that is closed towards the output holds the output.
  `Parsed` says of each connection that it has been parsed with all that feeds
  its node, or is still in the sweep, or its node is pending; so re-parsing
  ends only when nothing is out of date. At the end the expressions that
  are part of the final one are followed from the output to every used input.
  The levels bound the depth of an expression by the number of keys.
- `CyclesAreEndless`: `Endless`, a part of `TreeInv`, says that once there was
  something to parse there always is. Every used node has a kept connection that
  leads on, the output has the one to 999, and where 999 is itself a used node
  that one leads on, too; so a sweep never ends with nothing pending. The
  theorem needs an input in use: without one nothing is parsed at all.
  `TranslationAssumption` is one output, key 0, and that no input is 999.
- `TreesAreTranslated`: `Progress` says that in a level tree a sweep is exactly
  one level, and that what is parsed beyond it is the term the network
  computes there, to any depth that is deep enough. `ShapeExists` shows that a
  tree without starved nodes has inputs and that they are its deepest keys.

What `NoInputIsLost` and `TreesAreTranslated` need of the recursive definitions `Parts` and `Term` is proved
from `InductionOnNat`, itself a consequence of the well-foundedness of `<`.

`EvolutionProofs`:

- `SpawnSizes`: `compute_spawn` for any number of species and any inputs
  (`IsSpawnInput`). Its sums are folds over finite sets; `StrongInduction` and
  `Induction`, from the well-foundedness of strict inclusion, show that a sum
  grows by the value of each element added. The amounts are compared as
  fractions, multiplied out. `SpawnIsSound` and `SpawnIsFair` state the properties
  of the run with it and with the monotonicity of rounding.
- The other theorems share one inductive invariant, `Inv`: `TypeOK`; `Steps`, what
  holds at each place of the loop, above all that the species partition the
  population before they reproduce, and that there are no more species than
  genomes after; `FreshKeys`, that without a restore the genome indexer is
  above every key; and `BestHolds`, that the best genome seen is still there.
- `NeverStarvesHolds` follows from `Steps` and from the sizes: every species that
  survives gets at least one genome.
- `ElitesRetainedHolds` needs `FreshKeys`, because a child with the key of an
  elite would replace it. That is what a restored run does.
- `SpeciesElitesHold`: a species is removed only at a place of the ranking that
  has `species_elitism` places behind it.
- `BestIsKeptHolds` joins the two: the species of the best genome is ranked among
  the elite, survives, and keeps its elite.

`ThreadedProofs`: `ThreadedImplements` shows that `Threaded` refines
`GenomeEvaluation` for any number of workers, genomes and calls. The invariant
counts and locates: `p` is the number of queued, engaged and unclaimed genomes
together, and as long as no worker died every genome of the call is evaluated
or in one of these places. With `p = 0` nothing is left in them, so all are
evaluated. A worker that died stays counted, so its call never returns.

`DistributedProofs`: `DistributedImplements` does the same for any number of
secondaries, genomes, calls and restarts, and any size of chunks. Unlike
genomes, chunks can be lost without a trace, so nothing can be located. The
invariant `Apart` says instead that no chunk is ever in two places: there are
at least as many chunks found as places that hold one. A call returns when it
has collected as many results as it put chunks, so then they are all of them;
and `Quiet`, nothing is left over between two calls, keeps those of an earlier
call out. It needs finitely many secondaries. `Quotient` gives the division by
which the genomes are cut into chunks.

`DeploymentProofs`: `AcceptedRunInstalls` needs `InstalledSoFar`, which says for
each step of the run what it has installed already, so that the last step adds
only the last part; `CalmMeansNoCleanup`, which excludes every cleanup step while
a calm run is alive; and `RunIsNumbered`, because an alarm of run 0 would be
none. `BoundsLeft` keeps the types: the recursion and the wait begin a turn only
below their limits. `CleanupsRemove` needs `CleanedSoFar`: a cleanup with no run
beside it still has the id of the alarm that is there, and what it removed stays
removed.

Every invariant and every action property of the passing runs is a theorem, and
so are the two refinements of `GenomeEvaluation` and that of `Diagnoser`. The
invariants behind them were checked by TLC on the instances of the runs before
they were proved. Only model-checked: liveness (`ThreadsEnd`, `RunEnds`,
`EvaluateEnds`, `StopEnds`, `EvaluateReturns`, `NoticesLoss`, `TranslationEnds`),
which is out of the provers' reach, and the disagreements with a run, which are
counterexamples.

## Not modelled

- Autoencoders and their training, the dynamics of networks, activation and
  aggregation functions, gene attributes and distances, aggregation of flow
  samples: arithmetic on real numbers and data frames.
- Drawing, statistics, reporters, logging, the contents of tasks and rules, the
  fake clients: output, or never used by the program.
- Configuration files and start-up: read once, before anything starts.
- The pool inside `ParallelEvaluator` and a secondary: the concurrency of
  `multiprocessing`, with one call per genome and all results awaited.

`PROJECT.json` gives the reason for each part.

## Plan

Done: `Diagnoser`, `DataMonitor` as its refinement, `Genome`, `Deployment`,
`Spawn` and `Evolution`, the evaluators, networks and their translation, each
with its proofs.

Next, in this order:

1. `LabelBatches`, an abstract specification of what the main loop promises
   (a log of reports, batches of labels, runs), and `Diagnoser` implementing it.
2. A composition of `Diagnoser` and `Deployment` by their shared lock.
3. The chain of configuration files (`diagnoser/config.py`).
