------------------------------- MODULE Genome -------------------------------
(***************************************************************************)
(* The structure of NEAT genomes (neat/genome.py): how configure_new makes *)
(* one, how configure_crossover and mutate make one from another, and the  *)
(* node indexer all genomes of a configuration share.                      *)
(*                                                                         *)
(* A genome is its set of node keys and its set of connection keys.  The   *)
(* attributes of the genes (weight, bias, enabled flag) are left out: no   *)
(* structural operation looks at them.  The random choices are             *)
(* nondeterministic: an operation yields the set of its possible results.  *)
(***************************************************************************)
EXTENDS Integers

CONSTANTS
  NumInputs, NumOutputs, NumHidden,
  FeedForward,         \* feed_forward
  SingleStructural,    \* single_structural_mutation
  Surer,               \* check_structural_mutation_surer()
  InitialConnection,   \* initial_connection
  Slots,               \* the places of the population
  MaxKey               \* BOUND: node keys are below MaxKey

Connectivity == {"unconnected", "fs_neat_nohidden", "fs_neat", "fs_neat_hidden",
                 "full_nodirect", "full", "full_direct",
                 "partial_nodirect", "partial", "partial_direct"}

ASSUME GenomeAssumption ==
  /\ NumInputs \in Nat \ {0} /\ NumOutputs \in Nat \ {0} /\ NumHidden \in Nat
  /\ {FeedForward, SingleStructural, Surer} \subseteq BOOLEAN
  /\ InitialConnection \in Connectivity
  /\ MaxKey \in Nat /\ NumOutputs <= MaxKey

VARIABLES
  genomes,       \* the genome in each place, NoGenome when it is empty
  node_indexer,  \* the next node key, NoIndexer while it is None
  used           \* history: every node key that ever existed

vars == <<genomes, node_indexer, used>>

-----------------------------------------------------------------------------
\* Input pins have negative keys, output nodes the keys from 0.
InputKeys  == (-NumInputs) .. (-1)
OutputKeys == 0 .. (NumOutputs - 1)
NodeKeys   == 0 .. (MaxKey - 1)
Keys       == InputKeys \cup NodeKeys

Genomes   == [nodes : SUBSET NodeKeys, conns : SUBSET (Keys \X Keys)]
NoGenome  == [nodes |-> {}, conns |-> {}]
NoIndexer == -1

-----------------------------------------------------------------------------
(* neat/graphs.py, creates_cycle *)

Closed(C, S) == \A c \in C : c[1] \in S => c[2] \in S

\* The nodes visited when the sweep from o adds none any more.
Visited(C, o) == {x \in Keys : \A S \in SUBSET Keys : o \in S /\ Closed(C, S) => x \in S}

\* Mutant: only cycles of two nodes are noticed.
creates_short_cycle(C, i, o) == i = o \/ <<o, i>> \in C

creates_cycle(C, i, o) == i = o \/ i \in Visited(C, o)

-----------------------------------------------------------------------------
(* configure_new *)

hidden(nodes) == nodes \ OutputKeys

compute_full_connections(nodes, direct) ==
  (IF hidden(nodes) # {} THEN (InputKeys \X hidden(nodes)) \cup (hidden(nodes) \X OutputKeys) ELSE {})
  \cup (IF direct \/ hidden(nodes) = {} THEN InputKeys \X OutputKeys ELSE {})
  \cup (IF FeedForward THEN {} ELSE {<<n, n>> : n \in nodes})

\* The possible sets of connections of a new genome; the size of a partial
\* one is left open.
InitialConnections(nodes) ==
  CASE InitialConnection = "unconnected" -> {{}}
    [] InitialConnection \in {"fs_neat_nohidden", "fs_neat"} -> {{i} \X OutputKeys : i \in InputKeys}
    [] InitialConnection = "fs_neat_hidden" -> {{i} \X nodes : i \in InputKeys}
    [] InitialConnection \in {"full_nodirect", "full"} -> {compute_full_connections(nodes, FALSE)}
    [] InitialConnection = "full_direct" -> {compute_full_connections(nodes, TRUE)}
    [] InitialConnection \in {"partial_nodirect", "partial"} ->
         SUBSET compute_full_connections(nodes, FALSE)
    [] InitialConnection = "partial_direct" -> SUBSET compute_full_connections(nodes, TRUE)

\* Mutants: the indexer is not initialised; it is the genome's own maximum.
indexer_not_set(nodes, next) == next
max_of_genome(nodes, next) == 1 + (CHOOSE m \in nodes : \A n \in nodes : n <= m)

\* The key get_new_node_key returns when the indexer is `next'; the key
\* after it is the indexer's next one.
get_new_node_key(nodes, next) ==
  IF next = NoIndexer THEN 1 + (CHOOSE m \in nodes : \A n \in nodes : n <= m) ELSE next

-----------------------------------------------------------------------------
(* The structural mutations.  A result is a genome with the indexer after. *)

Result(g, next) == [genome |-> g, indexer |-> next]

Connect(g, c) == [nodes |-> g.nodes, conns |-> g.conns \cup {c}]

\* Mutant: a guard is dropped.
OutputsNotRefused(g, i, o) ==
  <<i, o>> \in g.conns \/ (FeedForward /\ creates_cycle(g.conns, i, o))

Refused(g, i, o) ==
  \/ <<i, o>> \in g.conns
  \/ i \in OutputKeys /\ o \in OutputKeys
  \/ FeedForward /\ creates_cycle(g.conns, i, o)

mutate_add_connection(g, next) ==
  {Result(IF Refused(g, i, o) THEN g ELSE Connect(g, <<i, o>>), next) :
     i \in g.nodes \cup InputKeys, o \in g.nodes}

\* The connection c gets the new node n in its middle; c itself stays, disabled.
Split(g, c, n) ==
  [nodes |-> g.nodes \cup {n}, conns |-> g.conns \cup {<<c[1], n>>, <<n, c[2]>>}]

mutate_add_node(g, next) ==
  IF g.conns = {}
  THEN IF Surer THEN mutate_add_connection(g, next) ELSE {Result(g, next)}
  ELSE {Result(Split(g, c, get_new_node_key(g.nodes, next)),
               get_new_node_key(g.nodes, next) + 1) : c \in g.conns}

\* Mutant: outgoing connections stay behind.
delete_node_leaves_outgoing(g, next) ==
  IF hidden(g.nodes) = {} THEN {Result(g, next)}
  ELSE {Result([nodes |-> g.nodes \ {n},
                conns |-> {c \in g.conns : n # c[2]}], next) : n \in hidden(g.nodes)}

mutate_delete_node(g, next) ==
  IF hidden(g.nodes) = {} THEN {Result(g, next)}
  ELSE {Result([nodes |-> g.nodes \ {n},
                conns |-> {c \in g.conns : n \notin {c[1], c[2]}}], next) : n \in hidden(g.nodes)}

mutate_delete_connection(g, next) ==
  IF g.conns = {} THEN {Result(g, next)}
  ELSE {Result([nodes |-> g.nodes, conns |-> g.conns \ {c}], next) : c \in g.conns}

\* One of the four with single_structural_mutation, else each in turn with
\* its probability.
Maybe(results, r) == {r} \cup results

mutate(g, next) ==
  IF SingleStructural
  THEN {Result(g, next)} \cup mutate_add_node(g, next) \cup mutate_delete_node(g, next)
         \cup mutate_add_connection(g, next) \cup mutate_delete_connection(g, next)
  ELSE UNION {UNION {UNION {
         Maybe(mutate_delete_connection(r3.genome, r3.indexer), r3)
         : r3 \in Maybe(mutate_add_connection(r2.genome, r2.indexer), r2)}
         : r2 \in Maybe(mutate_delete_node(r1.genome, r1.indexer), r1)}
         : r1 \in Maybe(mutate_add_node(g, next), Result(g, next))}

-----------------------------------------------------------------------------
Init ==
  /\ genomes = [s \in Slots |-> NoGenome]
  /\ node_indexer = NoIndexer /\ used = {}

Place(s, g, next) ==
  /\ next <= MaxKey
  /\ genomes' = [genomes EXCEPT ![s] = g]
  /\ node_indexer' = next
  /\ used' = used \cup g.nodes

\* create_new: the output nodes, then the hidden ones, whose keys the
\* indexer gives one after the other.
configure_new(s) ==
  LET first == get_new_node_key(OutputKeys, node_indexer)
      nodes == IF NumHidden = 0 THEN OutputKeys ELSE OutputKeys \cup first .. (first + NumHidden - 1)
  IN  \E C \in InitialConnections(nodes) :
        Place(s, [nodes |-> nodes, conns |-> C],
              IF NumHidden = 0 THEN node_indexer ELSE first + NumHidden)

\* configure_crossover: all genes come from the fitter parent, the other
\* one contributes attributes of genes they share.
configure_crossover(fitter) == [nodes |-> fitter.nodes, conns |-> fitter.conns]

\* A child of reproduce takes the place of a genome that is not carried over.
Reproduce(s, p) ==
  /\ genomes[p] # NoGenome
  /\ \E r \in mutate(configure_crossover(genomes[p]), node_indexer) : Place(s, r.genome, r.indexer)

Next == \E s \in Slots : configure_new(s) \/ \E p \in Slots : Reproduce(s, p)

Spec == Init /\ [][Next]_vars

-----------------------------------------------------------------------------
\* Types of the genomes and of the indexer.
TypeOK ==
  /\ genomes \in [Slots -> Genomes]
  /\ node_indexer \in {NoIndexer} \cup 0 .. MaxKey
  /\ used \in SUBSET NodeKeys

\* No connection of any genome dangles, whichever nodes were added to it,
\* deleted from it or inherited: it ends in a node of the genome and starts
\* in one or in an input pin.
EndpointsExist ==
  \A s \in Slots : \A c \in genomes[s].conns :
    c[1] \in genomes[s].nodes \cup InputKeys /\ c[2] \in genomes[s].nodes

\* Output neurons can be modified but not deleted (genome.py:150), and no
\* two of them are ever connected (genome.py:358).
OutputsKept ==
  \A s \in Slots : genomes[s] # NoGenome =>
    /\ OutputKeys \subseteq genomes[s].nodes
    /\ \A c \in genomes[s].conns : {c[1], c[2]} \subseteq OutputKeys => c[1] = c[2]

\* Every nonempty set of nodes has one without a successor in the set.
Acyclic(C) == \A S \in SUBSET Keys : S # {} => \E x \in S : \A y \in S : <<x, y>> \notin C

\* With feed_forward no genome ever contains a cycle, counting the disabled
\* connections, so enabling one cannot close a cycle either.
FeedForwardIsAcyclic == FeedForward => \A s \in Slots : Acyclic(genomes[s].conns)

\* A node key identifies one node for ever (genome.py:142): a node that a
\* genome does not inherit has a key that never existed before, not even in
\* genomes that are gone.
KeysAreFresh ==
  [][\A s \in Slots :
       /\ (genomes[s]'.nodes \ OutputKeys) \cap used # {} => ~configure_new(s)
       /\ \A p \in Slots : (genomes[s]'.nodes \ genomes[p].nodes) \cap used # {} => ~Reproduce(s, p)]_vars
=============================================================================
