-------------------------- MODULE GenomeEvaluation --------------------------
(***************************************************************************)
(* What Population.run (neat/population.py) expects of a fitness function: *)
(* while a call is under way, genomes it was given get their fitness, and  *)
(* when it returns, every one of them has it.                              *)
(***************************************************************************)
CONSTANTS Genomes

VARIABLES
  busy,       \* is a call under way?
  asked,      \* the genomes of the last call
  evaluated   \* the genomes that have their fitness

vars == <<busy, asked, evaluated>>

Init == busy = FALSE /\ asked = {} /\ evaluated = {}

Call ==
  /\ ~busy /\ busy' = TRUE
  /\ asked' \in SUBSET Genomes /\ UNCHANGED evaluated

Assign ==
  /\ busy
  /\ evaluated \subseteq evaluated' /\ evaluated' \subseteq evaluated \cup asked
  /\ UNCHANGED <<busy, asked>>

Return ==
  /\ busy /\ busy' = FALSE
  /\ evaluated' = evaluated \cup asked /\ UNCHANGED asked

Next == Call \/ Assign \/ Return

Spec == Init /\ [][Next]_vars
=============================================================================
