------------------------------ MODULE Recurrent ------------------------------
(***************************************************************************)
(* Networks that keep values from one activation to the next: recurrent.py *)
(* and ctrnn/__init__.py with two buffers that change roles, and           *)
(* iznn/__init__.py with two passes over its neurons.                      *)
(*                                                                         *)
(* A value is the number of the turn that computed it, 0 for the initial   *)
(* one: the properties are about which value is read and returned, not     *)
(* about its number.  A turn of IZNN uses one buffer, which holds `fired'  *)
(* of every neuron and input_values; set_inputs is called before advance.  *)
(***************************************************************************)
EXTENDS Network

CONSTANT MaxTurns  \* bound on the turns between two resets

ASSUME RecurrentAssumption == MaxTurns \in Nat \ {0}

VARIABLES
  gathered,  \* the connections of node_inputs
  values,    \* the two buffers
  active,
  turn,      \* turns since the last reset
  left,      \* turns of this call still to come: the time of CTRNN.advance
  todo_nodes,
  links_read,  \* history: the keys the node at hand read over its links, with
  own_read,    \* their values, and likewise its own key where it reads that
  called, returned  \* the turn before the call, and what it returned

reads   == <<links_read, own_read>>
recVars == <<gathered, values, active, turn, left, todo_nodes, reads, called, returned>>

Zero == [b \in {0, 1} |-> [k \in Keys |-> 0]]

RecInit ==
  /\ gathered = {} /\ values = Zero /\ active = 0
  /\ turn = 0 /\ left = 0 /\ todo_nodes = {}
  /\ links_read = {} /\ own_read = {}
  /\ called = 0 /\ returned = [o \in Outputs |-> 0]

\* create: the expressed connections with a required end.
Gather ==
  /\ pc = "gather" /\ pc' = "idle"
  /\ gathered' = {c \in network.enabled : c[1] \in required \/ c[2] \in required}
  /\ UNCHANGED <<netVars, values, active, turn, left, todo_nodes, reads, called, returned>>

\* node_evals; an IZNN has a neuron for every required node, linked or not.
Evaluated == IF network.kind = "iznn" THEN required ELSE {c[2] : c \in gathered}
Gathered(n) == {c[1] : c \in {g \in gathered : g[2] = n}}

\* activate is one turn; CTRNN.advance as many as the time step asks for,
\* none when no time is to pass.
Call ==
  /\ pc = "idle" /\ pc' = "loop"
  /\ left' \in IF network.kind = "ctrnn" THEN 0 .. 2 ELSE {1}
  /\ called' = turn
  /\ UNCHANGED <<netVars, gathered, values, active, turn, todo_nodes, reads, returned>>

\* Mutant: the buffers do not change roles.
BeginTurnSameBuffer ==
  /\ pc = "loop" /\ left > 0 /\ turn < MaxTurns
  /\ pc' = "turn" /\ turn' = turn + 1 /\ left' = left - 1
  /\ values' = [b \in {0, 1} |-> [k \in Keys |-> IF k \in Inputs THEN turn' ELSE values[b][k]]]
  /\ todo_nodes' = Evaluated
  /\ UNCHANGED <<netVars, gathered, active, reads, called, returned>>

\* The inputs go into both buffers; the one written last is read.
BeginTurn ==
  /\ pc = "loop" /\ left > 0 /\ turn < MaxTurns
  /\ pc' = "turn" /\ turn' = turn + 1 /\ left' = left - 1
  /\ active' = IF network.kind = "iznn" THEN 0 ELSE 1 - active
  /\ values' = [b \in {0, 1} |-> [k \in Keys |-> IF k \in Inputs THEN turn' ELSE values[b][k]]]
  /\ todo_nodes' = Evaluated
  /\ UNCHANGED <<netVars, gathered, reads, called, returned>>

ReadOf(b, S) == {<<i, values[b][i]>> : i \in S}

\* A node reads its links in the one buffer and writes the other.  CTRNN
\* adds to what is in the buffer it writes: there it reads the node's own
\* value, too.
EvalNode ==
  /\ pc = "turn" /\ network.kind # "iznn"
  /\ \E n \in todo_nodes :
       /\ todo_nodes' = todo_nodes \ {n}
       /\ links_read' = ReadOf(1 - active, Gathered(n))
       /\ own_read' = IF network.kind = "ctrnn" THEN ReadOf(active, {n}) ELSE {}
       /\ values' = [values EXCEPT ![active][n] = turn]
  /\ UNCHANGED <<pc, netVars, gathered, active, turn, left, called, returned>>

\* The first pass of IZNN.advance: a neuron sums up its current.
SumCurrent ==
  /\ pc = "turn" /\ network.kind = "iznn"
  /\ \E n \in todo_nodes :
       /\ todo_nodes' = todo_nodes \ {n}
       /\ links_read' = ReadOf(0, Gathered(n))
  /\ UNCHANGED <<pc, netVars, gathered, values, active, turn, left, own_read, called, returned>>

\* The second pass, in which no neuron reads another.
AdvanceNeurons ==
  /\ pc = "turn" /\ network.kind = "iznn" /\ todo_nodes = {}
  /\ pc' = "loop"
  /\ values' = [values EXCEPT ![0] = [k \in Keys |-> IF k \in required THEN turn ELSE @[k]]]
  /\ links_read' = {} /\ own_read' = {}
  /\ UNCHANGED <<netVars, gathered, active, turn, left, todo_nodes, called, returned>>

EndTurn ==
  /\ pc = "turn" /\ network.kind # "iznn" /\ todo_nodes = {}
  /\ pc' = "loop"
  /\ links_read' = {} /\ own_read' = {}
  /\ UNCHANGED <<netVars, gathered, values, active, turn, left, todo_nodes, called, returned>>

\* Mutant: all kinds return the buffer that is not active.
InactiveBuffer == IF network.kind = "iznn" THEN 0 ELSE 1 - active

\* CTRNN.advance returns the buffer it has just read.
ReturnedBuffer == IF network.kind = "ctrnn" THEN 1 - active ELSE active

EndCall ==
  /\ pc = "loop" /\ left = 0
  /\ pc' = "idle"
  /\ returned' = [o \in Outputs |-> values[ReturnedBuffer][o]]
  /\ UNCHANGED <<netVars, gathered, values, active, turn, left, todo_nodes, reads, called>>

\* reset leaves the input_values of an IZNN alone.
Reset ==
  /\ pc = "idle" /\ turn > 0
  /\ values' = IF network.kind = "iznn"
               THEN [values EXCEPT ![0] = [k \in Keys |-> IF k \in Inputs THEN @[k] ELSE 0]]
               ELSE Zero
  /\ active' = 0 /\ turn' = 0 /\ called' = 0
  /\ UNCHANGED <<pc, netVars, gathered, left, todo_nodes, reads, returned>>

\* CTRNN.set_node_value writes both buffers.
SetNodeValue ==
  /\ pc = "idle" /\ network.kind = "ctrnn"
  /\ \E n \in Nodes : values' = [b \in {0, 1} |-> [values[b] EXCEPT ![n] = turn]]
  /\ UNCHANGED <<pc, netVars, gathered, active, turn, left, todo_nodes, reads, called, returned>>

RecNext ==
  \/ Gather \/ Call \/ BeginTurn \/ EvalNode \/ SumCurrent \/ AdvanceNeurons
  \/ EndTurn \/ EndCall \/ Reset \/ SetNodeValue

-----------------------------------------------------------------------------
\* Over its links a node reads the values of the turn before, and the inputs
\* of this call, in whatever order the nodes are evaluated: no value of this
\* turn, none of an older one, none from before a reset.  A node that is
\* never evaluated keeps what it was set to.  CTRNN's own values are not
\* among them: see AdvancesSimulation.
ReadsPreviousTurn ==
  \A r \in links_read :
    IF r[1] \in Inputs THEN r[2] = turn
    ELSE IF r[1] \in Evaluated THEN r[2] = turn - 1
    ELSE \A b \in {0, 1} : r[2] = values[b][r[1]]

\* activate, and IZNN.advance, return the outputs their own turn computed.
OutputsOfTurn ==
  (pc = "idle" /\ turn > called /\ network.kind # "ctrnn") =>
    \A o \in Outputs \cap Evaluated : returned[o] = turn

\* "Advance the simulation by the given amount of time" (CTRNN.advance,
\* ctrnn/__init__.py:55): every step changes the value a node got in the step
\* before, or was set to, and the call returns the outputs of the last step.
\* Neither is so.  A step adds to the buffer that is written, where the value
\* of two steps before is, so that odd and even steps advance two states; and
\* the outputs are taken from the buffer the last step read.
AdvancesSimulation ==
  /\ \A r \in own_read : r[2] = turn - 1
  /\ (pc = "idle" /\ turn > called) => \A o \in Outputs \cap Evaluated : returned[o] = turn
==============================================================================
