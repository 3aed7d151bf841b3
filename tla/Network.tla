------------------------------- MODULE Network -------------------------------
(***************************************************************************)
(* How a genome becomes a network: the loops of required_for_output and    *)
(* feed_forward_layers (neat/graphs.py), one action per turn, and the      *)
(* order of evaluation FeedForwardNetwork.create makes of their result     *)
(* (neat/nn/feed_forward.py).  The other kinds of network use the first    *)
(* loop only; module Recurrent goes on from there.                         *)
(*                                                                         *)
(* A connection is a pair of keys.  Weights and functions of nodes are     *)
(* left out: neither loop looks at them.                                   *)
(***************************************************************************)
EXTENDS Integers, FiniteSets, Sequences

CONSTANTS
  Inputs,    \* input_keys
  Outputs,   \* output_keys
  Hidden,    \* the other node keys
  Networks   \* the networks considered, a subset of NetworkType

Nodes == Outputs \cup Hidden
Keys  == Inputs \cup Nodes
Kinds == {"feed_forward", "recurrent", "ctrnn", "iznn"}

NetworkType ==
  [kind : Kinds, connections : SUBSET (Keys \X Nodes), enabled : SUBSET (Keys \X Nodes)]

\* Every nonempty set of keys has one without a predecessor in the set.
Acyclic(C) == \A S \in SUBSET Keys : S # {} => \E x \in S : \A y \in S : <<y, x>> \notin C

\* The constructors of recurrent networks pass all connections of the genome
\* to required_for_output, FeedForwardNetwork.create the enabled ones only;
\* a feed-forward genome has no cycle (Genome, FeedForwardIsAcyclic).
ASSUME NetworkAssumption ==
  /\ IsFiniteSet(Keys) /\ Inputs \cap Nodes = {} /\ Networks \subseteq NetworkType
  /\ \A n \in Networks :
       /\ n.enabled \subseteq n.connections
       /\ n.kind = "feed_forward" => n.enabled = n.connections /\ Acyclic(n.enabled)

VARIABLES
  pc,
  network,         \* the genome's connections
  required, seen,  \* required_for_output; seen is its s
  layers, placed   \* feed_forward_layers; placed is its s

netVars == <<network, required, seen, layers, placed>>

-----------------------------------------------------------------------------
NetInit ==
  /\ pc = "required" /\ network \in Networks
  /\ required = Outputs /\ seen = Outputs
  /\ layers = <<>> /\ placed = Inputs

Feeding(S) == {a \in Keys \ S : \E b \in S : <<a, b>> \in network.connections}

\* Mutant: the loop ends as soon as one input is reached.
RequireUntilInput ==
  /\ pc = "required"
  /\ IF Feeding(seen) \cap Inputs # {} \/ Feeding(seen) = {}
     THEN /\ pc' = IF network.kind = "feed_forward" THEN "layers" ELSE "gather"
          /\ UNCHANGED <<required, seen>>
     ELSE required' = required \cup (Feeding(seen) \ Inputs) /\ seen' = seen \cup Feeding(seen) /\ UNCHANGED pc
  /\ UNCHANGED <<network, layers, placed>>

\* One turn of required_for_output.  It ends when no node, or only inputs,
\* feed the nodes seen so far.
Require ==
  /\ pc = "required"
  /\ IF Feeding(seen) \subseteq Inputs
     THEN /\ pc' = IF network.kind = "feed_forward" THEN "layers" ELSE "gather"
          /\ UNCHANGED <<required, seen>>
     ELSE required' = required \cup (Feeding(seen) \ Inputs) /\ seen' = seen \cup Feeding(seen) /\ UNCHANGED pc
  /\ UNCHANGED <<network, layers, placed>>

Links(n) == {a \in Keys : <<a, n>> \in network.enabled}

\* Mutant: one known input is enough.
NextLayerEager == {n \in required \ placed : Links(n) \cap placed # {}}

\* Mutant: all links must come from the last layer.
NextLayerOfLast ==
  LET last == IF layers = <<>> THEN Inputs ELSE layers[Len(layers)]
  IN {n \in required \ placed : Links(n) # {} /\ Links(n) \subseteq last}

\* The nodes a placed one feeds whose links are all placed.
NextLayer == {n \in required \ placed : Links(n) \cap placed # {} /\ Links(n) \subseteq placed}

\* One turn of feed_forward_layers.
AddLayer ==
  /\ pc = "layers"
  /\ IF NextLayer = {}
     THEN pc' = "built" /\ UNCHANGED <<layers, placed>>
     ELSE layers' = Append(layers, NextLayer) /\ placed' = placed \cup NextLayer /\ UNCHANGED pc
  /\ UNCHANGED <<network, required, seen>>

NetNext == Require \/ AddLayer

NetSpec == NetInit /\ [][NetNext]_<<pc, netVars>>

-----------------------------------------------------------------------------
ClosedBackwards(S, C) == \A c \in C : c[2] \in S => c[1] \in S
ClosedForwards(S, C)  == \A c \in C : c[1] \in S => c[2] \in S

\* Is there a path from n to an output?
NeededForOutput(n) ==
  \A S \in SUBSET Keys : Outputs \subseteq S /\ ClosedBackwards(S, network.connections) => n \in S

\* A required node that has lost all its inputs.
Starved == {n \in required : Links(n) = {}}

NeedsStarved(n) ==
  \A S \in SUBSET Keys : Starved \subseteq S /\ ClosedForwards(S, network.enabled) => n \in S

\* required_for_output collects "the nodes whose state is required to compute
\* the final network output(s)" (graphs.py:33): exactly the nodes with a path
\* to an output, although the loop stops when it only meets inputs, which may
\* be while longer paths are still open elsewhere.
RequiredExactly ==
  pc # "required" => required = {n \in Nodes : NeededForOutput(n)}

\* The order of evaluation is sound: a node is evaluated once, it is needed
\* for the output, and all its links have their value of the same activation
\* by then.  Otherwise activate would read a value the call before left in
\* `values', which is never cleared.
LayersSound ==
  \A k \in DOMAIN layers : \A n \in layers[k] :
    /\ n \in required
    /\ Links(n) \subseteq Inputs \cup UNION {layers[j] : j \in 1 .. (k - 1)}
    /\ \A j \in DOMAIN layers : n \in layers[j] => j = k

\* The required nodes that are never evaluated, and keep the value 0 of the
\* first activation or raise a KeyError when read, are exactly those that
\* depend on a node without inputs.
LayersComplete ==
  pc = "built" => required \ placed = {n \in required : NeedsStarved(n)}
==============================================================================
