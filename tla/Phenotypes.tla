------------------------------ MODULE Phenotypes ------------------------------
(***************************************************************************)
(* What is made of a genome: a network of one of four kinds.  The winner   *)
(* of a run, a feed-forward network, is stored and translated; the others  *)
(* are activated, advanced and reset.  Each step is one of one part, and   *)
(* the other parts stay as they are.                                       *)
(***************************************************************************)
EXTENDS ModelTranslation, Recurrent

vars == <<pc, netVars, transVars, recVars>>

Init == NetInit /\ TransInit /\ RecInit

Build     == NetNext /\ UNCHANGED <<transVars, recVars>>
Translate == TransNext /\ UNCHANGED recVars
Activate  == RecNext /\ UNCHANGED transVars

Next == Build \/ Translate \/ Activate

\* The loops run until they are done; nobody must activate a network.
Spec == Init /\ [][Next]_vars /\ WF_vars(Build) /\ WF_vars(Translate)

TypeOK ==
  /\ pc \in {"required", "layers", "built", "prune", "translate", "translated",
             "gather", "idle", "loop", "turn"}
  /\ network \in Networks
  /\ required \subseteq Nodes /\ seen \subseteq Keys /\ placed \subseteq Keys
  /\ layers \in Seq(SUBSET Nodes)
  /\ stored \subseteq Keys /\ used_nodes \subseteq Keys /\ pending \subseteq Keys \cup {999}
  /\ used_connections \subseteq network.enabled \cup {Result} /\ todo \subseteq used_connections
  /\ gathered \subseteq network.enabled
  /\ values \in [{0, 1} -> [Keys -> 0 .. MaxTurns]]
  /\ active \in {0, 1} /\ turn \in 0 .. MaxTurns /\ todo_nodes \subseteq Nodes
  /\ links_read \subseteq Keys \X (0 .. MaxTurns) /\ own_read \subseteq Nodes \X (0 .. MaxTurns)
==============================================================================
