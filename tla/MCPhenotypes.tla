---------------------------- MODULE MCPhenotypes ----------------------------
(* Small instances of Phenotypes for TLC. *)
EXTENDS Phenotypes

CONSTANTS FeedForwardHidden, EndlessHidden, OtherInputs, OtherHidden

Over(inputs, nodes) == (inputs \cup nodes) \X nodes

AcyclicOver(S, C) == \A T \in SUBSET S : T # {} => \E x \in T : \A y \in T : <<y, x>> \notin C

\* Every acyclic network over the nodes; inputs cannot be part of a cycle.
FeedForwardOver(inputs, nodes) ==
  {[kind |-> "feed_forward", connections |-> c \cup d, enabled |-> c \cup d] :
     c \in SUBSET (inputs \X nodes), d \in {e \in SUBSET (nodes \X nodes) : AcyclicOver(nodes, e)}}

\* The second set has the networks with a node 999.
MCFeedForward ==
  FeedForwardOver(Inputs, Outputs \cup FeedForwardHidden)
    \cup FeedForwardOver(OtherInputs, Outputs \cup EndlessHidden)

\* Every network of the other kinds, with at most one connection disabled.
MCOthers ==
  {[kind |-> k, connections |-> c, enabled |-> c \ {d}] :
     k \in Kinds \ {"feed_forward"},
     c \in SUBSET Over(OtherInputs, Outputs \cup OtherHidden),
     d \in Over(OtherInputs, Outputs \cup OtherHidden)}

MCNetworks == MCFeedForward \cup MCOthers
MCInputs == {-1, -2}
MCOtherInputs == {-1}
==============================================================================
