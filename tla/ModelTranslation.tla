--------------------------- MODULE ModelTranslation ---------------------------
(***************************************************************************)
(* What becomes of the winner of a NEAT run, a feed-forward network with   *)
(* the one output 0: the entry format_model makes for the Model DB, the    *)
(* tree remove_unused leaves of the network, and the expression            *)
(* translate_model writes into the aggregation task.                       *)
(*                                                                         *)
(* An expression is the node it belongs to, the connection whose weight it *)
(* is multiplied by, if any, and the set of expressions its node           *)
(* aggregates; bias, response and the functions of a node go with it.      *)
(***************************************************************************)
EXTENDS Network

\* The connection (0,999) remove_unused adds for the output to be parsed.
Result == <<0, 999>>

\* Input keys are negative.  A node may have the key 999: the keys of nodes
\* are counted up from 1 for the whole population.
ASSUME TranslationAssumption == Outputs = {0} /\ 999 \notin Inputs

VARIABLES
  stored,            \* format_model: used_nodes
  pending,
  used_nodes, used_connections,
  todo,              \* the turns left in this sweep of translate_model
  parsed_nodes, final_expression

transVars == <<stored, pending, used_nodes, used_connections, todo, parsed_nodes, final_expression>>

Empty      == [node |-> 999, weight |-> <<>>, args |-> {}]
Unweighted == <<>>

-----------------------------------------------------------------------------
TransInit ==
  /\ stored = Outputs /\ used_nodes = Outputs /\ pending = Outputs
  /\ used_connections = {} /\ todo = {}
  /\ parsed_nodes = {} /\ final_expression = Empty

\* One turn of format_model's loop.
FormatSweep ==
  /\ pc = "built"
  /\ IF pending = {}
     THEN pc' = "prune" /\ pending' = Outputs /\ UNCHANGED stored
     ELSE /\ pending' = (UNION {Links(b) : b \in pending}) \ stored
          /\ stored' = stored \cup pending' /\ UNCHANGED pc
  /\ UNCHANGED <<netVars, used_nodes, used_connections, todo, parsed_nodes, final_expression>>

\* The connections of the entry: oi_mapping.
StoredLinks(n) == IF n \in stored THEN Links(n) ELSE {}

UsedInputs == used_nodes \cap Inputs

\* write_parameters: the task declares one parameter for each used input.
Parameters == UsedInputs

\* Mutant: a node is followed only if no input feeds a pending node.
SourcesInputsFirst ==
  LET new == (UNION {Links(b) : b \in pending}) \ used_nodes
  IN IF new \cap Inputs = {} THEN new ELSE new \cap Inputs

Sources == (UNION {Links(b) : b \in pending}) \ used_nodes

\* Mutant: a node is connected to any pending node.
KeptIntoAnyNode == [Sources -> pending]

\* The one connection each new node keeps: the first into a pending node
\* that the iteration over the set meets.
Kept == {k \in [Sources -> pending] : \A a \in Sources : a \in Links(k[a])}

\* One turn of remove_unused.
RemoveSweep ==
  /\ pc = "prune" /\ pending # {}
  /\ \E k \in Kept : used_connections' = used_connections \cup {<<a, k[a]>> : a \in Sources}
  /\ used_nodes' = used_nodes \cup Sources /\ pending' = Sources
  /\ UNCHANGED <<pc, netVars, stored, todo, parsed_nodes, final_expression>>

From(S) == {c \in used_connections : c[1] \in S}

RemoveEnds ==
  /\ pc = "prune" /\ pending = {}
  /\ pc' = "translate"
  /\ used_connections' = used_connections \cup {Result}
  /\ todo' = From(UsedInputs)
  /\ UNCHANGED <<netVars, stored, used_nodes, pending, parsed_nodes, final_expression>>

\* Mutant: only one of the expressions parsed so far is taken.
ExpressionOfLast(a, b) ==
  IF a \in UsedInputs
  THEN [node |-> a, weight |-> <<a, b>>, args |-> {}]
  ELSE [node |-> a, weight |-> Unweighted,
        args |-> {(CHOOSE p \in parsed_nodes : p[1][2] = a)[2]}]

Expression(a, b) ==
  IF a \in UsedInputs
  THEN [node |-> a, weight |-> <<a, b>>, args |-> {}]
  ELSE [node |-> a, weight |-> Unweighted, args |-> {p[2] : p \in {q \in parsed_nodes : q[1][2] = a}}]

\* A used node 999 is fed by the output: Result closes a cycle.
CycleThroughResult == 999 \in used_nodes

\* One turn of the inner loop, in the order of a set.  The test `b not in
\* parsed_nodes' compares a key with pairs and is always true, so a node is
\* parsed again whenever something new feeds it.  On a cycle expressions
\* contain those of the turns before and grow for ever; they are left out.
ParseConnection ==
  /\ pc = "translate"
  /\ \E c \in todo :
       LET e == Expression(c[1], c[2])
       IN /\ todo' = todo \ {c} /\ pending' = pending \cup {c[2]}
          /\ IF CycleThroughResult
             THEN UNCHANGED <<parsed_nodes, final_expression>>
             ELSE /\ parsed_nodes' = parsed_nodes \cup {<<c, e>>}
                  /\ final_expression' = IF c[1] = 0 THEN e ELSE final_expression
  /\ UNCHANGED <<pc, netVars, stored, used_nodes, used_connections>>

\* Mutant: the nodes fed by this sweep are parsed in no other one.
NextSweepStops ==
  /\ pc = "translate" /\ todo = {}
  /\ IF pending = {}
     THEN pc' = "translated" /\ UNCHANGED <<todo, pending>>
     ELSE todo' = From(pending \ {p[1][1] : p \in parsed_nodes}) /\ pending' = {} /\ UNCHANGED pc
  /\ UNCHANGED <<netVars, stored, used_nodes, used_connections, parsed_nodes, final_expression>>

\* Mutant: the sweep is repeated while something is pending.
NextSweepKeepsPending ==
  /\ pc = "translate" /\ todo = {}
  /\ IF pending = {}
     THEN pc' = "translated" /\ UNCHANGED <<todo, pending>>
     ELSE todo' = From(pending) /\ UNCHANGED <<pc, pending>>
  /\ UNCHANGED <<netVars, stored, used_nodes, used_connections, parsed_nodes, final_expression>>

\* The next sweep starts from the nodes the last one fed.
NextSweep ==
  /\ pc = "translate" /\ todo = {}
  /\ IF pending = {}
     THEN pc' = "translated" /\ UNCHANGED <<todo, pending>>
     ELSE todo' = From(pending) /\ pending' = {} /\ UNCHANGED pc
  /\ UNCHANGED <<netVars, stored, used_nodes, used_connections, parsed_nodes, final_expression>>

TransNext == FormatSweep \/ RemoveSweep \/ RemoveEnds \/ ParseConnection \/ NextSweep

-----------------------------------------------------------------------------
\* What a connection carries, as far as its expression is deep.
Term(weighted) ==
  LET term[d \in 0 .. Cardinality(Keys)] ==
        [c \in network.enabled \cup {Result} |->
           [node   |-> c[1],
            weight |-> IF c[1] \in Inputs \/ (weighted /\ c # Result) THEN c ELSE Unweighted,
            args   |-> IF d = 0 THEN {} ELSE {term[d - 1][<<a, c[1]>>] : a \in Links(c[1])}]]
  IN term

\* What the network computes, without or with the weights of connections
\* between nodes.
Computes(weighted) == Term(weighted)[Cardinality(Keys)][Result]

\* The expressions at each depth of an expression.
Parts(e) ==
  LET parts[d \in 0 .. Cardinality(Keys)] ==
        IF d = 0 THEN {e} ELSE UNION {x.args : x \in parts[d - 1]}
  IN parts

\* The inputs an expression mentions.
Mentioned(e) ==
  {x.node : x \in UNION {Parts(e)[d] : d \in 0 .. Cardinality(Keys)}} \cap Inputs

\* Every used node feeds one used node, and all inputs are equally far from
\* the output: one sweep parses one level.
LevelTree ==
  /\ Starved = {}
  /\ \A a \in used_nodes \ Outputs : Cardinality({b \in used_nodes : a \in Links(b)}) = 1
  /\ \E level \in [used_nodes -> 0 .. Cardinality(Keys)] :
       /\ \A b \in used_nodes : \A a \in Links(b) : level[a] = level[b] + 1
       /\ \A i, j \in UsedInputs : level[i] = level[j]

\* Three traversals, written independently, must find the same nodes: the
\* network that was evaluated, the entry in the Model DB, which names no node
\* it does not hold, and the task with its parameters, in which every node
\* still has a connection of the network into another node of the task.
TraversalsAgree ==
  pc \in {"translate", "translated"} =>
    /\ stored = used_nodes /\ stored \cap Nodes = required
    /\ UsedInputs = {i \in Inputs : NeededForOutput(i)}
    /\ \A n \in stored : StoredLinks(n) \subseteq stored
    /\ \A a \in used_nodes \ Outputs :
         \E b \in used_nodes : a \in Links(b) /\ <<a, b>> \in used_connections

\* No input is lost on the way: the task's expression mentions exactly the
\* inputs its parameters declare, whatever connections remove_unused keeps
\* and in whatever order the sets are iterated.
NoInputLost ==
  pc = "translated" => Mentioned(final_expression) = Parameters

\* A tree whose inputs are equally far from the output is translated node by
\* node, except for the weights of connections between nodes.
TranslatesTrees ==
  (pc = "translated" /\ LevelTree) => final_expression = Computes(FALSE)

\* translate_model ends, although it parses nodes repeatedly, if no node of
\* the network has the key 999.
TranslationEnds == pc = "prune" /\ 999 \notin required ~> pc = "translated"

\* "evolve a neural network for classification which is translated and
\* updated as a new Symptom" (README.md:7): every winner is translated, into
\* what the network computes.  Neither is so.  Weights of connections between
\* nodes are left out, all but one connection of a node are dropped, and a
\* node with inputs at different distances is counted more than once; a winner
\* that uses a node 999 is parsed round and round for ever.
WinnerIsTranslated ==
  pc = "prune" ~> /\ pc = "translated"
                  /\ (Starved = {} /\ UsedInputs # {}) => final_expression = Computes(TRUE)
==============================================================================
