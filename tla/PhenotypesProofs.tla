--------------------------- MODULE PhenotypesProofs ---------------------------
(***************************************************************************)
(* Proofs about Phenotypes: the nodes a network is built from and the      *)
(* order they are evaluated in, that the entry of the Model DB and the     *)
(* task use the same nodes, the buffers of recurrent networks, and the     *)
(* expression of the task: which inputs it mentions, and when it is what   *)
(* the network computes.  All of it for networks of any size.              *)
(***************************************************************************)
EXTENDS Phenotypes, FiniteSetTheorems, WellFoundedInduction, TLAPS

\* A set of keys that holds the outputs, only needed keys, and every key that
\* feeds one of its own, is the set of needed keys.
LEMMA NeededKeys ==
  ASSUME NEW S \in SUBSET Keys, Outputs \subseteq S,
         \A n \in S : NeededForOutput(n),
         \A a \in Keys, b \in S : <<a, b>> \in network.connections => a \in S,
         network.connections \subseteq Keys \X Nodes
  PROVE  S = {n \in Keys : NeededForOutput(n)}
<1>1. ClosedBackwards(S, network.connections)
  BY DEF ClosedBackwards
<1>2. ASSUME NEW n \in Keys, NeededForOutput(n) PROVE n \in S
  BY <1>1, <1>2 DEF NeededForOutput
<1> QED
  BY <1>2

\* What feeds a needed key is needed.
LEMMA NeededBackwards ==
  ASSUME NEW a, NEW b, <<a, b>> \in network.connections, NeededForOutput(b)
  PROVE  NeededForOutput(a)
BY DEF NeededForOutput, ClosedBackwards

\* Outputs are needed.
LEMMA OutputsNeeded == \A o \in Outputs : NeededForOutput(o)
BY DEF NeededForOutput

-----------------------------------------------------------------------------
PcType == pc \in {"required", "layers", "built", "prune", "translate", "translated",
                  "gather", "idle", "loop", "turn"}

Pruned == {"translate", "translated"}

RequireInv ==
  /\ network \in Networks /\ PcType
  /\ seen \subseteq Keys /\ Outputs \subseteq seen
  /\ required = seen \ Inputs
  /\ \A n \in seen : NeededForOutput(n)
  /\ pc # "required" => Feeding(seen) \subseteq Inputs
  /\ pc \in {"layers", "built", "prune", "translate", "translated"} =>
       network.kind = "feed_forward"

\* What the assumption says of one network.
LEMMA NetworkFacts ==
  ASSUME network \in Networks
  PROVE  /\ network.connections \subseteq Keys \X Nodes
         /\ network.enabled \subseteq network.connections
         /\ network.kind \in Kinds
         /\ network.kind = "feed_forward" =>
              network.enabled = network.connections /\ Acyclic(network.enabled)
BY NetworkAssumption DEF NetworkType

LEMMA RequireInit == Init => RequireInv
<1> SUFFICES ASSUME Init PROVE RequireInv
  OBVIOUS
<1> USE DEF Init, NetInit
<1>1. Outputs \subseteq Keys /\ Outputs = Outputs \ Inputs
  BY NetworkAssumption DEF Keys, Nodes
<1> QED
  BY <1>1, OutputsNeeded DEF RequireInv, PcType

LEMMA RequireStep == RequireInv /\ [Next]_vars => RequireInv'
<1> SUFFICES ASSUME RequireInv, [Next]_vars PROVE RequireInv'
  OBVIOUS
<1>net. /\ network.connections \subseteq Keys \X Nodes
        /\ network.kind \in Kinds
  BY NetworkFacts DEF RequireInv
<1>1. CASE Require
  <2> DEFINE F == Feeding(seen)
  <2>f. F \subseteq Keys /\ \A a \in F : NeededForOutput(a)
    <3> SUFFICES ASSUME NEW a \in F PROVE NeededForOutput(a)
      BY DEF Feeding
    <3>1. PICK b \in seen : <<a, b>> \in network.connections
      BY DEF Feeding
    <3> QED
      BY <3>1, NeededBackwards DEF RequireInv
  <2>s. network' = network /\ \A n : NeededForOutput(n)' <=> NeededForOutput(n)
    BY <1>1 DEF Require, NeededForOutput
  <2>1. CASE F \subseteq Inputs
    <3>1. seen' = seen /\ required' = required /\ pc' \in {"layers", "gather"}
          /\ (pc' = "layers" => network.kind = "feed_forward")
      BY <1>1, <2>1 DEF Require
    <3>2. Feeding(seen)' = F
      BY <3>1, <2>s DEF Feeding
    <3> QED
      BY <3>1, <3>2, <2>s, <2>1 DEF RequireInv, PcType
  <2>2. CASE ~(F \subseteq Inputs)
    <3>1. seen' = seen \cup F /\ required' = required \cup (F \ Inputs)
          /\ pc' = "required"
      BY <1>1, <2>2 DEF Require
    <3> QED
      BY <3>1, <2>f, <2>s DEF RequireInv, PcType
  <2> QED
    BY <2>1, <2>2
<1>2. ASSUME UNCHANGED <<network, required, seen>>, PcType', pc' = "required" => pc = "required",
             pc # "required",
             pc' \in {"layers", "built", "prune", "translate", "translated"} =>
               pc \in {"layers", "built", "prune", "translate", "translated"}
      PROVE  RequireInv'
  <2>1. Feeding(seen)' = Feeding(seen) /\ \A n : NeededForOutput(n)' <=> NeededForOutput(n)
    BY <1>2 DEF Feeding, NeededForOutput
  <2> QED
    BY <2>1, <1>2 DEF RequireInv
<1>3. CASE AddLayer
  BY <1>2, <1>3 DEF AddLayer, PcType, RequireInv
<1>4. CASE Translate
  BY <1>2, <1>4 DEF Translate, TransNext, FormatSweep, RemoveSweep, RemoveEnds,
    ParseConnection, NextSweep, netVars, PcType, RequireInv
<1>5. CASE Activate
  BY <1>2, <1>5 DEF Activate, RecNext, Gather, Call, BeginTurn, EvalNode, SumCurrent,
    AdvanceNeurons, EndTurn, EndCall, Reset, SetNodeValue, netVars, PcType, RequireInv
<1>6. CASE UNCHANGED vars
  <2>1. UNCHANGED <<pc, network, required, seen>>
    BY <1>6 DEF vars, netVars
  <2>2. Feeding(seen)' = Feeding(seen) /\ \A n : NeededForOutput(n)' <=> NeededForOutput(n)
    BY <2>1 DEF Feeding, NeededForOutput
  <2> QED
    BY <2>1, <2>2 DEF RequireInv, PcType
<1> QED
  BY <1>1, <1>3, <1>4, <1>5, <1>6 DEF Next, Build, NetNext

\* Once the loop has ended the nodes seen are closed.
LEMMA SeenIsClosed ==
  ASSUME RequireInv, pc # "required"
  PROVE  seen \cup Inputs = {n \in Keys : NeededForOutput(n)} \cup Inputs
<1>1. network.connections \subseteq Keys \X Nodes /\ Inputs \cap Nodes = {}
  BY NetworkFacts, NetworkAssumption DEF RequireInv
<1>2. ClosedBackwards(seen \cup Inputs, network.connections)
  <2> SUFFICES ASSUME NEW c \in network.connections, c[2] \in seen \cup Inputs
               PROVE  c[1] \in seen \cup Inputs
    BY DEF ClosedBackwards
  <2>1. c[1] \in Keys /\ c[2] \in seen /\ c = <<c[1], c[2]>>
    BY <1>1
  <2> QED
    BY <2>1 DEF RequireInv, Feeding
<1>3. ASSUME NEW n \in Keys, NeededForOutput(n) PROVE n \in seen \cup Inputs
  <2>1. seen \cup Inputs \in SUBSET Keys /\ Outputs \subseteq seen \cup Inputs
    BY DEF RequireInv, Keys
  <2> QED
    BY <2>1, <1>2, <1>3 DEF NeededForOutput
<1> QED
  BY <1>3 DEF RequireInv

LEMMA RequiredFromInv == RequireInv => RequiredExactly
<1> SUFFICES ASSUME RequireInv, pc # "required"
             PROVE  required = {n \in Nodes : NeededForOutput(n)}
  BY DEF RequiredExactly
<1>1. Keys = Inputs \cup Nodes /\ Inputs \cap Nodes = {}
  BY NetworkAssumption DEF Keys
<1> QED
  BY <1>1, SeenIsClosed DEF RequireInv

\* required_for_output finds exactly the nodes with a path to an output.
THEOREM RequiredIsExact == Spec => []RequiredExactly
BY RequireInit, RequireStep, RequiredFromInv, PTL DEF Spec

-----------------------------------------------------------------------------
\* Layers.  They and what is placed agree, and no needed node is forgotten.
Before(k) == Inputs \cup UNION {layers[j] : j \in 1 .. (k - 1)}

LayersInv ==
  /\ layers \in Seq(SUBSET Nodes)
  /\ placed = Before(Len(layers) + 1)
  /\ pc = "required" => layers = <<>>
  /\ \A k \in 1 .. Len(layers) : \A n \in layers[k] :
       /\ n \in required /\ n \notin Before(k)
       /\ Links(n) # {} /\ Links(n) \subseteq Before(k)
  /\ pc \in {"built", "prune", "translate", "translated"} => NextLayer = {}

LEMMA LayersInit == Init => LayersInv
<1> SUFFICES ASSUME Init PROVE LayersInv
  OBVIOUS
<1>1. layers = <<>> /\ Len(layers) = 0 /\ placed = Inputs /\ pc = "required"
  BY DEF Init, NetInit
<1> QED
  BY <1>1 DEF LayersInv, Before

\* What another step than AddLayer must leave alone.
LEMMA LayersUnchanged ==
  ASSUME LayersInv, network' = network, layers' = layers, placed' = placed,
         required' = required \/ pc = "required", pc' = "required" => pc = "required",
         pc' \in {"built", "prune", "translate", "translated"} =>
           pc \in {"built", "prune", "translate", "translated"}
  PROVE  LayersInv'
<1>1. \A k : Before(k)' = Before(k)
  BY DEF Before
<1>2. \A n : Links(n)' = Links(n)
  BY DEF Links
<1>3. CASE pc = "required"
  <2>1. layers' = <<>> /\ Len(layers) = 0
    BY <1>3 DEF LayersInv
  <2> QED
    BY <2>1, <1>1, <1>2, <1>3 DEF LayersInv
<1>4. CASE pc # "required"
  <2>1. required' = required /\ NextLayer' = NextLayer
    BY <1>4, <1>2 DEF NextLayer
  <2> QED
    BY <2>1, <1>1, <1>2, <1>4 DEF LayersInv
<1> QED
  BY <1>3, <1>4

LEMMA AddLayerKeeps == RequireInv /\ LayersInv /\ AddLayer => LayersInv'
<1> SUFFICES ASSUME RequireInv, LayersInv, AddLayer PROVE LayersInv'
  OBVIOUS
<1>1. CASE NextLayer = {}
  <2>1. pc' = "built" /\ UNCHANGED <<layers, placed, network, required>>
    BY <1>1 DEF AddLayer
  <2>2. (\A k : Before(k)' = Before(k)) /\ (\A n : Links(n)' = Links(n))
    BY <2>1 DEF Before, Links
  <2>3. NextLayer' = NextLayer
    BY <2>1, <2>2 DEF NextLayer
  <2> QED
    BY <2>1, <2>2, <2>3, <1>1 DEF LayersInv
<1>2. CASE NextLayer # {}
  <2> DEFINE L == NextLayer
  <2>1. layers' = Append(layers, L) /\ placed' = placed \cup L
        /\ UNCHANGED <<pc, network, required>> /\ pc = "layers"
    BY <1>2 DEF AddLayer
  <2>2. L \subseteq Nodes /\ L \subseteq required
    BY DEF NextLayer, RequireInv, Keys
  <2>m. PICK m \in Nat : m = Len(layers)
    BY DEF LayersInv
  <2>3. layers' \in Seq(SUBSET Nodes) /\ Len(layers') = m + 1
        /\ layers'[m + 1] = L
        /\ \A k \in 1 .. m : layers'[k] = layers[k]
    <3> HIDE DEF L
    <3> QED
      BY <2>1, <2>2, <2>m DEF LayersInv
  <2>4. ASSUME NEW k \in 1 .. (m + 1) PROVE Before(k)' = Before(k)
    <3>1. \A j \in 1 .. (k - 1) : layers'[j] = layers[j]
      BY <2>3
    <3> QED
      BY <3>1 DEF Before
  <2>5. Before(m + 2)' = Before(m + 1) \cup L
    <3>1. \A j : j \in 1 .. ((m + 2) - 1) <=> j \in 1 .. ((m + 1) - 1) \/ j = m + 1
      OBVIOUS
    <3>2. \A j \in 1 .. ((m + 1) - 1) : layers'[j] = layers[j]
      BY <2>3
    <3> HIDE DEF L
    <3> QED
      BY <3>1, <3>2, <2>3 DEF Before
  <2>6. \A n : Links(n)' = Links(n)
    BY <2>1 DEF Links
  <2>7. ASSUME NEW k \in 1 .. (m + 1), NEW n \in layers'[k]
        PROVE  /\ n \in required' /\ n \notin Before(k)'
               /\ Links(n)' # {} /\ Links(n)' \subseteq Before(k)'
    <3>1. CASE k \in 1 .. m
      BY <3>1, <2>1, <2>3, <2>4, <2>6, <2>7, <2>m DEF LayersInv
    <3>2. CASE k = m + 1
      <4>1. n \in required \ placed /\ Links(n) # {} /\ Links(n) \subseteq placed
        BY <3>2, <2>7, <2>3 DEF NextLayer
      <4>2. Before(k)' = placed
        BY <3>2, <2>m, <2>4 DEF LayersInv
      <4> QED
        BY <4>1, <4>2, <2>1, <2>6
    <3> QED
      BY <3>1, <3>2
  <2>8. placed' = Before(m + 2)'
    BY <2>1, <2>m, <2>5 DEF LayersInv
  <2>9. placed' = Before(Len(layers) + 1)'
    BY <2>8, <2>3
  <2> QED
    BY <2>1, <2>3, <2>7, <2>9 DEF LayersInv
<1> QED
  BY <1>1, <1>2

LEMMA LayersStep == RequireInv /\ LayersInv /\ [Next]_vars => LayersInv'
<1> SUFFICES ASSUME RequireInv, LayersInv, [Next]_vars PROVE LayersInv'
  OBVIOUS
<1>1. CASE Require
  BY <1>1, LayersUnchanged DEF Require
<1>2. CASE AddLayer
  BY <1>2, AddLayerKeeps
<1>3. CASE Translate
  BY <1>3, LayersUnchanged DEF Translate, TransNext, FormatSweep, RemoveSweep, RemoveEnds,
    ParseConnection, NextSweep, netVars
<1>4. CASE Activate
  BY <1>4, LayersUnchanged DEF Activate, RecNext, Gather, Call, BeginTurn, EvalNode,
    SumCurrent, AdvanceNeurons, EndTurn, EndCall, Reset, SetNodeValue, netVars
<1>5. CASE UNCHANGED vars
  BY <1>5, LayersUnchanged DEF vars, netVars
<1> QED
  BY <1>1, <1>2, <1>3, <1>4, <1>5 DEF Next, Build, NetNext

\* Of two layers, the nodes of the first are known before the second.
LEMMA SoundFromInv == LayersInv => LayersSound
<1> SUFFICES ASSUME LayersInv, NEW k \in DOMAIN layers, NEW n \in layers[k]
             PROVE  /\ n \in required
                    /\ Links(n) \subseteq Before(k)
                    /\ \A j \in DOMAIN layers : n \in layers[j] => j = k
  BY DEF LayersSound, Before
<1>1. DOMAIN layers = 1 .. Len(layers) /\ Len(layers) \in Nat
  BY DEF LayersInv
<1>2. ASSUME NEW i \in 1 .. Len(layers), NEW j \in 1 .. Len(layers), i < j,
             n \in layers[i], n \in layers[j]
      PROVE  FALSE
  <2>1. n \in Before(j)
    BY <1>2, <1>1 DEF Before
  <2> QED
    BY <2>1, <1>2 DEF LayersInv
<1>3. \A j \in 1 .. Len(layers) : n \in layers[j] => j = k
  BY <1>1, <1>2
<1> QED
  BY <1>1, <1>3 DEF LayersInv

\* If a needed node is left over, some of the nodes left over has all its
\* links placed, unless it depends on a starved one.
LEMMA LeftOverNeedStarved ==
  ASSUME RequireInv, LayersInv, pc = "built", NEW n \in required \ placed
  PROVE  NeedsStarved(n)
<1> SUFFICES ASSUME NEW S \in SUBSET Keys, Starved \subseteq S,
                    ClosedForwards(S, network.enabled), n \notin S
             PROVE  FALSE
  BY DEF NeedsStarved
<1> DEFINE T == (required \ placed) \ S
<1>1. network.enabled = network.connections /\ Acyclic(network.enabled)
      /\ network.connections \subseteq Keys \X Nodes
  BY NetworkFacts DEF RequireInv
<1>2. T \in SUBSET Keys /\ T # {}
  BY DEF RequireInv
<1>3. PICK x \in T : \A y \in T : <<y, x>> \notin network.enabled
  <2> HIDE DEF T
  <2> QED
    BY <1>1, <1>2 DEF Acyclic
<1>4. Links(x) \subseteq placed
  <2> SUFFICES ASSUME NEW a \in Links(x), a \notin placed PROVE FALSE
    OBVIOUS
  <2>1. a \in Keys /\ <<a, x>> \in network.enabled
    BY DEF Links
  <2>2. a \notin Inputs
    BY DEF LayersInv, Before
  <2>3. a \in seen
    BY <2>1, <2>2, <1>1 DEF RequireInv, Feeding
  <2>4. a \in required /\ a \notin T
    BY <2>1, <2>2, <2>3, <1>3 DEF RequireInv
  <2>5. a \in S
    BY <2>4
  <2>6. x \in S
    BY <2>1, <2>5 DEF ClosedForwards
  <2> QED
    BY <2>6
<1>5. Links(x) # {}
  BY DEF Starved
<1>6. x \in NextLayer
  BY <1>4, <1>5 DEF NextLayer
<1> QED
  BY <1>6 DEF LayersInv

\* A node in a layer has a link, and all of them come from earlier layers: a
\* starved node, and what it feeds, is in none.
LEMMA PlacedNeedNoStarved ==
  ASSUME RequireInv, LayersInv, NEW n \in required, n \in placed
  PROVE  ~NeedsStarved(n)
<1> DEFINE S == Keys \ placed
<1>1. network.enabled \subseteq Keys \X Nodes /\ required \subseteq Nodes
  BY NetworkFacts DEF RequireInv, Keys
<1>2. Len(layers) \in Nat
  BY DEF LayersInv
<1>3. ASSUME NEW x \in Nodes, x \in placed
      PROVE  Links(x) # {} /\ Links(x) \subseteq placed
  <2>1. PICK k \in 1 .. Len(layers) : x \in layers[k]
    BY <1>2, <1>3, NetworkAssumption DEF LayersInv, Before
  <2>2. Links(x) # {} /\ Links(x) \subseteq Before(k)
    BY <2>1 DEF LayersInv
  <2>3. Before(k) \subseteq Before(Len(layers) + 1)
    BY <1>2 DEF Before
  <2> QED
    BY <2>2, <2>3 DEF LayersInv
<1>4. Starved \subseteq S
  BY <1>1, <1>3 DEF Starved, Keys
<1>5. ClosedForwards(S, network.enabled)
  <2> SUFFICES ASSUME NEW c \in network.enabled, c[1] \in S, c[2] \in placed
               PROVE  FALSE
    BY <1>1 DEF ClosedForwards, Keys
  <2>1. c[2] \in Nodes /\ c[1] \in Links(c[2])
    BY <1>1 DEF Links
  <2> QED
    BY <2>1, <1>3
<1> QED
  BY <1>4, <1>5 DEF NeedsStarved

LEMMA CompleteFromInv == RequireInv /\ LayersInv => LayersComplete
BY LeftOverNeedStarved, PlacedNeedNoStarved DEF LayersComplete

\* A node is evaluated once, after everything it reads.
THEOREM LayersAreSound == Spec => []LayersSound
BY RequireInit, RequireStep, LayersInit, LayersStep, SoundFromInv, PTL DEF Spec

\* The nodes that depend on one without inputs, and only they, are never
\* evaluated.
THEOREM LayersAreComplete == Spec => []LayersComplete
BY RequireInit, RequireStep, LayersInit, LayersStep, CompleteFromInv, PTL DEF Spec

-----------------------------------------------------------------------------
\* The traversals of format_model and remove_unused: both hold needed keys
\* only, and whatever is not pending has all its links in.
ClosedBut(S, P) == \A b \in S \ P : Links(b) \subseteq S

NeededPart(S) ==
  S \subseteq Keys /\ Outputs \subseteq S /\ \A n \in S : NeededForOutput(n)

TransInv ==
  /\ NeededPart(stored) /\ NeededPart(used_nodes)
  /\ pc \in {"required", "layers", "built"} =>
       pending \subseteq stored /\ ClosedBut(stored, pending) /\ used_nodes = Outputs
  /\ pc \in {"prune", "translate", "translated"} => ClosedBut(stored, {})
  /\ pc = "prune" => pending \subseteq used_nodes /\ ClosedBut(used_nodes, pending)
  /\ pc \in Pruned => ClosedBut(used_nodes, {})

LEMMA TransInitInv == Init => TransInv
<1> SUFFICES ASSUME Init PROVE TransInv
  OBVIOUS
<1>1. NeededPart(Outputs)
  BY OutputsNeeded DEF NeededPart, Keys, Nodes
<1> QED
  BY <1>1 DEF Init, NetInit, TransInit, TransInv, ClosedBut, Pruned

\* A turn of either loop: the links of the pending keys come in.
LEMMA Sweep ==
  ASSUME RequireInv, NEW S, NEW P \in SUBSET S, NeededPart(S), ClosedBut(S, P),
         NEW F, F = (UNION {Links(b) : b \in P}) \ S
  PROVE  NeededPart(S \cup F) /\ ClosedBut(S \cup F, F)
<1>1. ASSUME NEW b \in P, NEW a \in Links(b) PROVE a \in Keys /\ NeededForOutput(a)
  <2>1. <<a, b>> \in network.connections /\ a \in Keys
    BY <1>1, NetworkFacts DEF Links, RequireInv
  <2> QED
    BY <2>1, NeededBackwards DEF NeededPart
<1>2. NeededPart(S \cup F)
  <2>1. \A a \in F : a \in Keys /\ NeededForOutput(a)
    BY <1>1
  <2>2. /\ S \subseteq Keys /\ Outputs \subseteq S
        /\ \A n \in S : NeededForOutput(n)
    BY DEF NeededPart
  <2>3. \A n \in S \cup F : n \in Keys /\ NeededForOutput(n)
    BY <2>1, <2>2
  <2> QED
    BY <2>2, <2>3 DEF NeededPart
<1>3. ASSUME NEW b \in (S \cup F) \ F PROVE Links(b) \subseteq S \cup F
  <2>1. CASE b \in P
    <3>1. Links(b) \subseteq UNION {Links(x) : x \in P}
      BY <2>1
    <3> QED
      BY <3>1
  <2>2. CASE b \in S \ P
    <3>1. Links(b) \subseteq S
      BY <2>2 DEF ClosedBut
    <3> QED
      BY <3>1
  <2> QED
    BY <2>1, <2>2, <1>3
<1> QED
  BY <1>2, <1>3 DEF ClosedBut

LEMMA TransUnchanged ==
  ASSUME TransInv, UNCHANGED <<network, transVars>>,
         \/ pc' = pc
         \/ /\ pc' \notin {"required", "prune", "translate", "translated"}
            /\ pc' \in {"layers", "built"} => pc \in {"required", "layers", "built"}
  PROVE  TransInv'
<1>1. /\ \A n : NeededForOutput(n)' <=> NeededForOutput(n)
      /\ \A n : Links(n)' = Links(n)
      /\ UNCHANGED <<stored, used_nodes, pending>>
  BY DEF NeededForOutput, Links, transVars
<1> QED
  BY <1>1 DEF TransInv, NeededPart, ClosedBut, Pruned

LEMMA TransStep == RequireInv /\ TransInv /\ [Next]_vars => TransInv'
<1> SUFFICES ASSUME RequireInv, TransInv, [Next]_vars PROVE TransInv'
  OBVIOUS
<1>1. ASSUME network' = network
      PROVE  /\ \A n : NeededForOutput(n)' <=> NeededForOutput(n)
             /\ \A n : Links(n)' = Links(n)
  BY <1>1 DEF NeededForOutput, Links
<1>2. CASE FormatSweep
  <2>1. network' = network /\ used_nodes' = used_nodes /\ pc = "built"
    BY <1>2 DEF FormatSweep, netVars
  <2>2. CASE pending = {}
    <3>1. pc' = "prune" /\ pending' = Outputs /\ stored' = stored
      BY <1>2, <2>2 DEF FormatSweep
    <3> QED
      BY <1>1, <2>1, <2>2, <3>1 DEF TransInv, NeededPart, ClosedBut, Pruned
  <2>3. CASE pending # {}
    <3>1. pc' = "built" /\ pending' = (UNION {Links(b) : b \in pending}) \ stored
          /\ stored' = stored \cup pending'
      BY <1>2, <2>3 DEF FormatSweep
    <3>2. NeededPart(stored \cup pending') /\ ClosedBut(stored \cup pending', pending')
      BY <2>1, <3>1, Sweep DEF TransInv
    <3> QED
      BY <1>1, <2>1, <3>1, <3>2 DEF TransInv, NeededPart, ClosedBut, Pruned
  <2> QED
    BY <2>2, <2>3
<1>3. CASE RemoveSweep
  <2>1. network' = network /\ stored' = stored /\ pc = "prune" /\ pc' = pc
        /\ used_nodes' = used_nodes \cup Sources /\ pending' = Sources
    BY <1>3 DEF RemoveSweep, netVars
  <2>2. NeededPart(used_nodes \cup Sources) /\ ClosedBut(used_nodes \cup Sources, Sources)
    BY <2>1, Sweep DEF TransInv, Sources
  <2> QED
    BY <1>1, <2>1, <2>2 DEF TransInv, NeededPart, ClosedBut, Pruned
<1>4. CASE RemoveEnds
  BY <1>1, <1>4 DEF RemoveEnds, TransInv, NeededPart, ClosedBut, Pruned, netVars
<1>5. CASE ParseConnection \/ NextSweep
  BY <1>1, <1>5 DEF ParseConnection, NextSweep, TransInv, NeededPart, ClosedBut, Pruned, netVars
<1>6. CASE Build
  BY <1>6, TransUnchanged DEF Build, NetNext, Require, AddLayer
<1>7. CASE Activate
  BY <1>7, TransUnchanged DEF Activate, RecNext, Gather, Call, BeginTurn, EvalNode,
    SumCurrent, AdvanceNeurons, EndTurn, EndCall, Reset, SetNodeValue, netVars
<1>8. CASE UNCHANGED vars
  BY <1>8, TransUnchanged DEF vars, netVars
<1> QED
  BY <1>2, <1>3, <1>4, <1>5, <1>6, <1>7, <1>8 DEF Next, Translate, TransNext

\* The evaluated network and the entry use the same nodes.
LEMMA NodesAgree ==
  ASSUME RequireInv, TransInv, pc \in Pruned
  PROVE  /\ stored = used_nodes /\ stored \cap Nodes = required
         /\ UsedInputs = {i \in Inputs : NeededForOutput(i)}
         /\ \A n \in stored : StoredLinks(n) \subseteq stored
<1>1. network.enabled = network.connections /\ network.connections \subseteq Keys \X Nodes
  BY NetworkFacts DEF RequireInv, Pruned
<1>2. ASSUME NEW S, NeededPart(S), ClosedBut(S, {})
      PROVE  S = {n \in Keys : NeededForOutput(n)}
  <2>1. \A a \in Keys, b \in S : <<a, b>> \in network.connections => a \in S
    BY <1>1, <1>2 DEF ClosedBut, Links
  <2> QED
    BY <1>1, <1>2, <2>1, NeededKeys DEF NeededPart
<1>3. stored = {n \in Keys : NeededForOutput(n)}
      /\ used_nodes = {n \in Keys : NeededForOutput(n)}
  BY <1>2 DEF TransInv, Pruned
<1>4. required = {n \in Nodes : NeededForOutput(n)}
  BY RequiredFromInv DEF RequiredExactly, Pruned
<1>5. \A n \in stored : StoredLinks(n) \subseteq stored
  BY DEF TransInv, ClosedBut, StoredLinks, Pruned
<1> QED
  BY <1>3, <1>4, <1>5 DEF UsedInputs, Keys

-----------------------------------------------------------------------------
\* What the reads of a turn give.
Holds(k) ==
  IF k \in Inputs THEN turn ELSE IF k \in Evaluated THEN turn - 1 ELSE values[0][k]

\* The buffers.  Between two turns the buffer written last holds the last
\* turn, within a turn the other one does.
ReadBuffer == IF network.kind = "iznn" THEN 0 ELSE 1 - active

RecInv ==
  /\ values \in [{0, 1} -> [Keys -> Int]]
  /\ active \in {0, 1} /\ turn \in Nat /\ called \in Nat /\ called <= turn
  /\ returned \in [Outputs -> Int]
  /\ gathered \subseteq network.enabled
  /\ todo_nodes \subseteq Evaluated
  /\ network.kind = "iznn" => active = 0 /\ \A n \in Nodes : values[1][n] = 0
  /\ \A n \in Nodes \ Evaluated : values[0][n] = values[1][n]
  /\ pc \notin {"idle", "loop", "turn"} =>
       gathered = {} /\ values = Zero /\ turn = 0 /\ todo_nodes = {}
  /\ pc # "turn" => links_read = {} /\ own_read = {}
  /\ own_read \subseteq Nodes \X Int
  /\ \A r \in links_read : r[1] \in Keys /\ r = <<r[1], r[2]>> /\ r[2] = Holds(r[1])
  /\ pc \in {"idle", "loop"} => \A n \in Evaluated : values[active][n] = turn
  /\ OutputsOfTurn
  /\ pc = "turn" =>
       /\ turn > called
       /\ \A i \in Inputs : values[0][i] = turn /\ values[1][i] = turn
       /\ \A n \in Evaluated : values[ReadBuffer][n] = turn - 1
       /\ network.kind # "iznn" =>
            \A n \in Evaluated \ todo_nodes : values[active][n] = turn

LEMMA EvaluatedNodes ==
  ASSUME RequireInv, gathered \subseteq network.enabled
  PROVE  Evaluated \subseteq Nodes
<1>1. gathered \subseteq Keys \X Nodes /\ required \subseteq Nodes
  BY NetworkFacts DEF RequireInv, Keys
<1> QED
  BY <1>1 DEF Evaluated

LEMMA RecInitInv == Init => RecInv
<1> SUFFICES ASSUME Init PROVE RecInv
  OBVIOUS
<1>1. values = Zero /\ active = 0 /\ turn = 0 /\ called = 0 /\ gathered = {}
      /\ todo_nodes = {} /\ returned = [o \in Outputs |-> 0] /\ pc = "required"
      /\ links_read = {} /\ own_read = {}
  BY DEF Init, RecInit, NetInit
<1>2. Zero \in [{0, 1} -> [Keys -> Int]] /\ \A n \in Nodes : Zero[0][n] = Zero[1][n] /\ Zero[1][n] = 0
  BY DEF Zero, Keys
<1> QED
  BY <1>1, <1>2 DEF RecInv, OutputsOfTurn

LEMMA RecUnchanged ==
  ASSUME RecInv, UNCHANGED recVars, network' = network,
         pc' = pc \/ {pc, pc'} \cap {"idle", "loop", "turn"} = {},
         required' = required \/ pc \notin {"idle", "loop", "turn"}
  PROVE  RecInv'
<1>1. UNCHANGED <<gathered, values, active, turn, left, todo_nodes, links_read, own_read, called, returned>>
  BY DEF recVars, reads
<1>2. CASE required' = required
  BY <1>1, <1>2 DEF RecInv, Evaluated, ReadBuffer, Holds, OutputsOfTurn, reads
<1>3. CASE pc \notin {"idle", "loop", "turn"}
  <2>1. pc' \notin {"idle", "loop", "turn"}
    BY <1>3
  <2>2. values = Zero /\ \A n \in Nodes : Zero[0][n] = Zero[1][n] /\ Zero[1][n] = 0
    BY <1>3 DEF RecInv, Zero, Keys
  <2> QED
    BY <1>1, <1>3, <2>1, <2>2 DEF RecInv, OutputsOfTurn
<1> QED
  BY <1>2, <1>3

LEMMA RecStep == RequireInv /\ RecInv /\ [Next]_vars => RecInv'
<1> SUFFICES ASSUME RequireInv, RecInv, [Next]_vars PROVE RecInv'
  OBVIOUS
<1>n. Evaluated \subseteq Nodes /\ Inputs \cap Nodes = {} /\ Keys = Inputs \cup Nodes
  BY EvaluatedNodes, NetworkAssumption DEF RecInv, Keys
<1>e. ASSUME UNCHANGED <<network, required, gathered>> PROVE Evaluated' = Evaluated
  BY <1>e DEF Evaluated
<1>k. \A n : Gathered(n) \subseteq Keys
  BY NetworkFacts DEF Gathered, RecInv, RequireInv
<1>r. pc # "turn" => links_read = {} /\ own_read = {}
  BY DEF RecInv
<1>1. CASE Build
  BY <1>1, RecUnchanged DEF Build, NetNext, Require, AddLayer
<1>2. CASE Translate
  BY <1>2, RecUnchanged DEF Translate, TransNext, FormatSweep, RemoveSweep, RemoveEnds,
    ParseConnection, NextSweep, netVars
<1>3. CASE UNCHANGED vars
  BY <1>3, RecUnchanged DEF vars, netVars
<1>4. CASE Gather
  <2>1. UNCHANGED <<network, required, values, active, turn, todo_nodes, links_read, own_read, called, returned>>
        /\ pc = "gather" /\ pc' = "idle" /\ gathered' \subseteq network.enabled
    BY <1>4 DEF Gather, netVars, reads
  <2>2. values = Zero /\ turn = 0 /\ todo_nodes = {} /\ called = 0
    BY <2>1 DEF RecInv
  <2>3. Evaluated' \subseteq Nodes
    <3>1. gathered' \subseteq Keys \X Nodes /\ required \subseteq Nodes
      BY <2>1, NetworkFacts DEF RequireInv, Keys
    <3> QED
      BY <2>1, <3>1 DEF Evaluated
  <2>4. \A k \in Keys : Zero[0][k] = 0 /\ Zero[1][k] = 0
    BY DEF Zero
  <2> QED
    BY <1>n, <1>r, <2>1, <2>2, <2>3, <2>4 DEF RecInv, OutputsOfTurn
<1>5. CASE Call
  <2>1. UNCHANGED <<network, required, gathered, values, active, turn, todo_nodes, links_read, own_read, returned>>
        /\ pc = "idle" /\ pc' = "loop" /\ called' = turn
    BY <1>5 DEF Call, netVars, reads
  <2> QED
    BY <2>1, <1>e, <1>r DEF RecInv, OutputsOfTurn
<1>6. CASE BeginTurn
  <2>1. /\ UNCHANGED <<network, required, gathered, links_read, own_read, called, returned>>
        /\ pc = "loop" /\ pc' = "turn" /\ turn' = turn + 1 /\ todo_nodes' = Evaluated
        /\ active' = IF network.kind = "iznn" THEN 0 ELSE 1 - active
        /\ values' = [b \in {0, 1} |-> [k \in Keys |-> IF k \in Inputs THEN turn' ELSE values[b][k]]]
    BY <1>6 DEF BeginTurn, netVars, reads
  <2>2. \A b \in {0, 1} : /\ \A i \in Inputs : values'[b][i] = turn + 1
                          /\ \A n \in Nodes : values'[b][n] = values[b][n]
    BY <1>n, <2>1
  <2>3. values' \in [{0, 1} -> [Keys -> Int]] /\ turn' \in Nat /\ active' \in {0, 1}
    BY <2>1 DEF RecInv
  <2>4. ReadBuffer' = active
    BY <2>1 DEF ReadBuffer, RecInv
  <2>5. \A n \in Evaluated : values'[active][n] = turn' - 1
    BY <2>1, <2>2, <1>n DEF RecInv
  <2> QED
    BY <2>1, <2>2, <2>3, <2>4, <2>5, <1>e, <1>n, <1>r DEF RecInv, OutputsOfTurn
<1>7. CASE EvalNode
  <2>1. PICK n \in todo_nodes :
          /\ UNCHANGED <<pc, network, required, gathered, active, turn, called, returned>>
          /\ pc = "turn" /\ network.kind # "iznn" /\ todo_nodes' = todo_nodes \ {n}
          /\ values' = [values EXCEPT ![active][n] = turn]
          /\ links_read' = ReadOf(1 - active, Gathered(n))
          /\ own_read' = {} \/ own_read' = ReadOf(active, {n})
    BY <1>7 DEF EvalNode, netVars
  <2>2. n \in Evaluated /\ n \in Nodes /\ n \in Keys
    BY <1>n DEF RecInv
  <2>3. /\ values' \in [{0, 1} -> [Keys -> Int]]
        /\ values'[active][n] = turn /\ values'[1 - active] = values[1 - active]
        /\ \A k \in Keys : k # n => values'[active][k] = values[active][k]
    BY <2>1, <2>2 DEF RecInv
  <2>4. \A k \in Keys : k # n => values'[0][k] = values[0][k] /\ values'[1][k] = values[1][k]
    BY <2>3 DEF RecInv
  <2>5. ReadBuffer' = ReadBuffer /\ ReadBuffer = 1 - active
    BY <2>1 DEF ReadBuffer
  <2>6. own_read' \subseteq Nodes \X Int
    BY <2>1, <2>2, <1>n DEF ReadOf, RecInv
  <2>7. \A r \in links_read' : r[1] \in Keys /\ r = <<r[1], r[2]>> /\ r[2] = Holds(r[1])'
    <3>1. \A i \in Gathered(n) : i \in Keys /\ values[1 - active][i] = Holds(i)
      BY <2>1, <2>5, <1>n, <1>k DEF RecInv, Holds
    <3>2. \A i \in Keys : Holds(i)' = Holds(i)
      BY <2>1, <2>2, <2>4, <1>e DEF Holds
    <3> QED
      BY <2>1, <3>1, <3>2 DEF ReadOf
  <2> QED
    BY <2>1, <2>2, <2>3, <2>4, <2>5, <2>6, <2>7, <1>e, <1>n DEF RecInv, OutputsOfTurn
<1>8. CASE SumCurrent
  <2>1. UNCHANGED <<pc, network, required, gathered, values, active, turn, called, returned>>
        /\ todo_nodes' \subseteq todo_nodes /\ pc = "turn" /\ network.kind = "iznn"
        /\ own_read' = own_read /\ \E n \in todo_nodes : links_read' = ReadOf(0, Gathered(n))
    BY <1>8 DEF SumCurrent, netVars
  <2>2. ReadBuffer' = ReadBuffer
    BY <2>1 DEF ReadBuffer
  <2>3. \A r \in links_read' : r[1] \in Keys /\ r = <<r[1], r[2]>> /\ r[2] = Holds(r[1])'
    <3>1. PICK n \in todo_nodes : links_read' = ReadOf(0, Gathered(n))
      BY <2>1
    <3>2. \A i \in Gathered(n) : i \in Keys /\ values[0][i] = Holds(i)
      BY <2>1, <1>n, <1>k DEF RecInv, Holds, ReadBuffer
    <3>3. \A i : Holds(i)' = Holds(i)
      BY <2>1, <1>e DEF Holds
    <3> QED
      BY <3>1, <3>2, <3>3 DEF ReadOf
  <2> QED
    BY <2>1, <2>2, <2>3, <1>e DEF RecInv, OutputsOfTurn
<1>9. CASE AdvanceNeurons
  <2>1. /\ UNCHANGED <<network, required, gathered, active, turn, todo_nodes, called, returned>>
        /\ pc = "turn" /\ pc' = "loop" /\ network.kind = "iznn"
        /\ links_read' = {} /\ own_read' = {}
        /\ values' = [values EXCEPT ![0] = [k \in Keys |-> IF k \in required THEN turn ELSE @[k]]]
    BY <1>9 DEF AdvanceNeurons, netVars
  <2>2. Evaluated = required /\ active = 0 /\ turn \in Int
    BY <2>1 DEF Evaluated, RecInv
  <2>3. /\ values' \in [{0, 1} -> [Keys -> Int]] /\ values'[1] = values[1]
        /\ \A k \in Keys : values'[0][k] = IF k \in required THEN turn ELSE values[0][k]
    BY <2>1, <2>2 DEF RecInv
  <2> QED
    BY <2>1, <2>2, <2>3, <1>e, <1>n, <1>r DEF RecInv, OutputsOfTurn
<1>10. CASE EndTurn
  <2>1. UNCHANGED <<network, required, gathered, values, active, turn, todo_nodes, called, returned>>
        /\ pc = "turn" /\ pc' = "loop" /\ network.kind # "iznn" /\ todo_nodes = {}
        /\ links_read' = {} /\ own_read' = {}
    BY <1>10 DEF EndTurn, netVars
  <2> QED
    BY <2>1, <1>e, <1>r DEF RecInv, OutputsOfTurn, ReadBuffer
<1>11. CASE EndCall
  <2>1. /\ UNCHANGED <<network, required, gathered, values, active, turn, todo_nodes, links_read, own_read, called>>
        /\ pc = "loop" /\ pc' = "idle"
        /\ returned' = [o \in Outputs |-> values[ReturnedBuffer][o]]
    BY <1>11 DEF EndCall, netVars, reads
  <2>2. Outputs \subseteq Keys /\ ReturnedBuffer \in {0, 1}
    BY DEF Keys, Nodes, ReturnedBuffer, RecInv
  <2>3. returned' \in [Outputs -> Int]
    BY <2>1, <2>2 DEF RecInv
  <2>4. ASSUME turn > called, network.kind # "ctrnn", NEW o \in Outputs \cap Evaluated
        PROVE  returned'[o] = turn
    BY <2>1, <2>4 DEF RecInv, ReturnedBuffer
  <2>5. OutputsOfTurn'
    BY <2>1, <2>4, <1>e DEF OutputsOfTurn
  <2> QED
    BY <2>1, <2>3, <2>5, <1>e, <1>r DEF RecInv, OutputsOfTurn
<1>12. CASE Reset
  <2>1. /\ UNCHANGED <<pc, network, required, gathered, todo_nodes, links_read, own_read, returned>>
        /\ pc = "idle" /\ active' = 0 /\ turn' = 0 /\ called' = 0
        /\ values' = IF network.kind = "iznn"
                     THEN [values EXCEPT ![0] = [k \in Keys |-> IF k \in Inputs THEN @[k] ELSE 0]]
                     ELSE Zero
    BY <1>12 DEF Reset, netVars, reads
  <2>2. CASE network.kind # "iznn"
    <3>1. values' = Zero
      BY <2>1, <2>2
    <3>2. values' \in [{0, 1} -> [Keys -> Int]]
          /\ \A k \in Keys : values'[0][k] = 0 /\ values'[1][k] = 0
      BY <3>1 DEF Zero
    <3>3. /\ UNCHANGED <<pc, network, required, gathered, todo_nodes, links_read, own_read, returned>>
          /\ pc = "idle" /\ active' = 0 /\ turn' = 0 /\ called' = 0
      BY <2>1
    <3> QED
      BY <3>2, <3>3, <2>2, <1>e, <1>n, <1>r DEF RecInv, OutputsOfTurn
  <2>3. CASE network.kind = "iznn"
    <3>1. /\ values' \in [{0, 1} -> [Keys -> Int]] /\ values'[1] = values[1]
          /\ \A k \in Nodes : values'[0][k] = 0
      BY <2>1, <2>3, <1>n DEF RecInv
    <3>2. \A n \in Nodes : values[1][n] = 0
      BY <2>3 DEF RecInv
    <3> QED
      BY <2>1, <2>3, <3>1, <3>2, <1>e, <1>n, <1>r DEF RecInv, OutputsOfTurn
  <2> QED
    BY <2>2, <2>3
<1>13. CASE SetNodeValue
  <2>1. PICK m \in Nodes :
          /\ UNCHANGED <<pc, network, required, gathered, active, turn, todo_nodes, links_read, own_read, called, returned>>
          /\ pc = "idle" /\ network.kind = "ctrnn"
          /\ values' = [b \in {0, 1} |-> [values[b] EXCEPT ![m] = turn]]
    BY <1>13 DEF SetNodeValue, netVars, reads
  <2>2. /\ values' \in [{0, 1} -> [Keys -> Int]]
        /\ \A b \in {0, 1} : \A k \in Keys : values'[b][k] = IF k = m THEN turn ELSE values[b][k]
    BY <2>1, <1>n DEF RecInv
  <2> QED
    BY <2>1, <2>2, <1>e, <1>n, <1>r DEF RecInv, OutputsOfTurn
<1> QED
  BY <1>1, <1>2, <1>3, <1>4, <1>5, <1>6, <1>7, <1>8, <1>9, <1>10, <1>11, <1>12, <1>13
    DEF Next, Activate, RecNext

LEMMA BuffersFromInv == RequireInv /\ RecInv => ReadsPreviousTurn /\ OutputsOfTurn
<1> SUFFICES ASSUME RequireInv, RecInv PROVE ReadsPreviousTurn
  BY DEF RecInv
<1>1. Evaluated \subseteq Nodes /\ Inputs \cap Nodes = {} /\ Keys = Inputs \cup Nodes
  BY EvaluatedNodes, NetworkAssumption DEF RecInv, Keys
<1>2. \A r \in links_read : r[1] \in Keys /\ r[2] = Holds(r[1])
  BY DEF RecInv
<1>3. \A n \in Nodes \ Evaluated : \A b \in {0, 1} : values[b][n] = values[0][n]
  BY DEF RecInv
<1> QED
  BY <1>1, <1>2, <1>3 DEF ReadsPreviousTurn, Holds

\* Over its links no node, of whichever kind of network, reads a value of its
\* own turn or of one before the last.  What CTRNN adds to is not a link.
THEOREM BuffersAreRead == Spec => []ReadsPreviousTurn
BY RequireInit, RequireStep, RecInitInv, RecStep, BuffersFromInv, PTL DEF Spec

\* RecurrentNetwork.activate and IZNN.advance return what their turn computed.
THEOREM OutputsAreReturned == Spec => []OutputsOfTurn
BY RequireInit, RequireStep, RecInitInv, RecStep, BuffersFromInv, PTL DEF Spec

-----------------------------------------------------------------------------
\* Types.  Those of the keys seen, of what is stored and used, and of the
\* buffers follow from the invariants above.
NetTypes ==
  layers \in Seq(SUBSET Nodes) /\ placed \subseteq Keys

TransTypes ==
  /\ pending \subseteq Keys \cup {999}
  /\ used_connections \subseteq network.enabled \cup {Result} /\ todo \subseteq used_connections

RecTypes ==
  /\ values \in [{0, 1} -> [Keys -> 0 .. MaxTurns]]
  /\ turn \in 0 .. MaxTurns
  /\ links_read \subseteq Keys \X (0 .. MaxTurns) /\ own_read \subseteq Nodes \X (0 .. MaxTurns)

LEMMA TypesInit == Init => NetTypes /\ TransTypes /\ RecTypes
<1> SUFFICES ASSUME Init PROVE NetTypes /\ TransTypes /\ RecTypes
  OBVIOUS
<1>1. NetTypes
  BY DEF Init, NetInit, NetTypes, Keys
<1>2. TransTypes
  BY DEF Init, TransInit, TransTypes, Keys, Nodes
<1>3. RecTypes
  <2>1. 0 \in 0 .. MaxTurns
    BY RecurrentAssumption
  <2> QED
    BY <2>1 DEF Init, RecInit, RecTypes, Zero
<1> QED
  BY <1>1, <1>2, <1>3

LEMMA NetTypesStep == RequireInv /\ NetTypes /\ [Next]_vars => NetTypes'
<1> SUFFICES ASSUME RequireInv, NetTypes, [Next]_vars PROVE NetTypes'
  OBVIOUS
<1>1. CASE AddLayer
  <2>1. NextLayer \in SUBSET Nodes
    BY DEF NextLayer, RequireInv, Keys
  <2>2. \/ UNCHANGED <<layers, placed>>
        \/ layers' = Append(layers, NextLayer) /\ placed' = placed \cup NextLayer
    BY <1>1 DEF AddLayer
  <2>3. Append(layers, NextLayer) \in Seq(SUBSET Nodes)
    BY <2>1 DEF NetTypes
  <2>4. placed \cup NextLayer \subseteq Keys
    BY <2>1 DEF NetTypes, Keys
  <2> QED
    BY <2>2, <2>3, <2>4 DEF NetTypes
<1>2. CASE UNCHANGED <<layers, placed>>
  BY <1>2 DEF NetTypes
<1> QED
  BY <1>1, <1>2 DEF Next, vars, netVars, Build, NetNext, Require, Translate, TransNext,
    FormatSweep, RemoveSweep, RemoveEnds, ParseConnection, NextSweep, Activate, RecNext,
    Gather, Call, BeginTurn, EvalNode, SumCurrent, AdvanceNeurons, EndTurn, EndCall,
    Reset, SetNodeValue

\* A connection that is used ends at a node or at the result.
LEMMA EndsAreKeys ==
  ASSUME network \in Networks, NEW c \in network.enabled \cup {Result}
  PROVE  c[2] \in Keys \cup {999}
BY NetworkFacts DEF Result, Keys

LEMMA TransTypesStep == RequireInv /\ TransTypes /\ [Next]_vars => TransTypes'
<1> SUFFICES ASSUME RequireInv, TransTypes, [Next]_vars PROVE TransTypes'
  OBVIOUS
<1>o. Outputs \subseteq Keys /\ \A S : (UNION {Links(b) : b \in S}) \subseteq Keys
  BY DEF Keys, Nodes, Links
<1>1. CASE FormatSweep
  BY <1>1, <1>o DEF FormatSweep, TransTypes, netVars
<1>2. CASE RemoveSweep
  <2>1. network' = network /\ todo' = todo /\ pending' = Sources
    BY <1>2 DEF RemoveSweep, netVars
  <2>2. PICK k \in Kept : used_connections' = used_connections \cup {<<a, k[a]>> : a \in Sources}
    BY <1>2 DEF RemoveSweep
  <2>3. \A a \in Sources : <<a, k[a]>> \in network.enabled
    BY DEF Kept, Links
  <2>4. Sources \subseteq Keys
    BY <1>o DEF Sources
  <2> QED
    BY <2>1, <2>2, <2>3, <2>4 DEF TransTypes
<1>3. CASE RemoveEnds
  BY <1>3 DEF RemoveEnds, TransTypes, From, netVars
<1>4. CASE ParseConnection
  <2>1. network' = network /\ used_connections' = used_connections
        /\ \E c \in todo : todo' = todo \ {c} /\ pending' = pending \cup {c[2]}
    BY <1>4 DEF ParseConnection, netVars
  <2>2. \A c \in todo : c[2] \in Keys \cup {999}
    BY EndsAreKeys DEF TransTypes, RequireInv
  <2> QED
    BY <2>1, <2>2 DEF TransTypes
<1>5. CASE NextSweep
  BY <1>5 DEF NextSweep, TransTypes, From, netVars
<1>6. CASE UNCHANGED <<network, pending, used_connections, todo>>
  BY <1>6 DEF TransTypes
<1>7. CASE Activate
  BY <1>6, <1>7 DEF Activate, RecNext, transVars, netVars, Gather, Call, BeginTurn, EvalNode,
    SumCurrent, AdvanceNeurons, EndTurn, EndCall, Reset, SetNodeValue
<1>8. CASE Build \/ UNCHANGED vars
  BY <1>6, <1>8 DEF Build, NetNext, Require, AddLayer, transVars, netVars, vars
<1> QED
  BY <1>1, <1>2, <1>3, <1>4, <1>5, <1>7, <1>8 DEF Next, Translate, TransNext

LEMMA RecTypesStep == RequireInv /\ RecInv /\ RecTypes /\ [Next]_vars => RecTypes'
<1> SUFFICES ASSUME RequireInv, RecInv, RecTypes, [Next]_vars PROVE RecTypes'
  OBVIOUS
<1>t. MaxTurns \in Nat /\ 0 \in 0 .. MaxTurns /\ turn \in 0 .. MaxTurns /\ active \in {0, 1}
  BY RecurrentAssumption DEF RecTypes, RecInv
<1>k. \A n : Gathered(n) \subseteq Keys
  BY NetworkFacts DEF Gathered, RecInv, RequireInv
<1>n. \A n \in todo_nodes : n \in Keys /\ n \in Nodes
  <2>1. Evaluated \subseteq Nodes
    BY EvaluatedNodes DEF RecInv
  <2> QED
    BY <2>1 DEF RecInv, Keys
<1>1. CASE BeginTurn
  <2>1. turn' = turn + 1 /\ turn < MaxTurns
        /\ values' = [b \in {0, 1} |-> [k \in Keys |-> IF k \in Inputs THEN turn' ELSE values[b][k]]]
    BY <1>1 DEF BeginTurn
  <2>3. UNCHANGED <<links_read, own_read>>
    BY <1>1 DEF BeginTurn, reads
  <2>2. turn' \in 0 .. MaxTurns
    BY <1>t, <2>1
  <2> QED
    BY <2>1, <2>2, <2>3 DEF RecTypes
<1>2. CASE EvalNode
  <2>1. PICK n \in todo_nodes :
          /\ values' = [values EXCEPT ![active][n] = turn] /\ turn' = turn
          /\ links_read' = ReadOf(1 - active, Gathered(n))
          /\ own_read' = {} \/ own_read' = ReadOf(active, {n})
    BY <1>2 DEF EvalNode
  <2>2. values' \in [{0, 1} -> [Keys -> 0 .. MaxTurns]]
    BY <2>1, <1>t, <1>n DEF RecTypes
  <2>3. links_read' \subseteq Keys \X (0 .. MaxTurns)
    BY <2>1, <1>t, <1>k DEF RecTypes, ReadOf
  <2>4. own_read' \subseteq Nodes \X (0 .. MaxTurns)
    BY <2>1, <1>t, <1>n DEF RecTypes, ReadOf
  <2> QED
    BY <2>1, <2>2, <2>3, <2>4, <1>t DEF RecTypes
<1>7. CASE SumCurrent
  <2>1. PICK n \in todo_nodes :
          UNCHANGED <<values, turn, own_read>> /\ links_read' = ReadOf(0, Gathered(n))
    BY <1>7 DEF SumCurrent
  <2>2. links_read' \subseteq Keys \X (0 .. MaxTurns)
    BY <2>1, <1>t, <1>k DEF RecTypes, ReadOf
  <2> QED
    BY <2>1, <2>2 DEF RecTypes
<1>3. CASE AdvanceNeurons
  <2>1. values' = [values EXCEPT ![0] = [k \in Keys |-> IF k \in required THEN turn ELSE @[k]]]
        /\ turn' = turn /\ links_read' = {} /\ own_read' = {}
    BY <1>3 DEF AdvanceNeurons
  <2> QED
    BY <2>1, <1>t DEF RecTypes
<1>4. CASE Reset
  <2>1. turn' = 0
        /\ \/ values' = [values EXCEPT ![0] = [k \in Keys |-> IF k \in Inputs THEN @[k] ELSE 0]]
           \/ values' = Zero
        /\ UNCHANGED <<links_read, own_read>>
    BY <1>4 DEF Reset, reads
  <2>2. Zero \in [{0, 1} -> [Keys -> 0 .. MaxTurns]]
    BY <1>t DEF Zero
  <2> QED
    BY <2>1, <2>2, <1>t DEF RecTypes
<1>5. CASE SetNodeValue
  <2>1. PICK n \in Nodes : values' = [b \in {0, 1} |-> [values[b] EXCEPT ![n] = turn]]
    BY <1>5 DEF SetNodeValue
  <2>2. \A b \in {0, 1} : [values[b] EXCEPT ![n] = turn] \in [Keys -> 0 .. MaxTurns]
    BY <1>t DEF RecTypes
  <2>3. UNCHANGED <<turn, links_read, own_read>>
    BY <1>5 DEF SetNodeValue, reads
  <2> QED
    BY <2>1, <2>2, <2>3, <1>t DEF RecTypes
<1>6. CASE UNCHANGED <<values, turn, links_read, own_read>>
  BY <1>6 DEF RecTypes
<1>8. CASE UNCHANGED recVars
  <2>1. UNCHANGED <<values, turn>> /\ UNCHANGED reads
    BY <1>8 DEF recVars
  <2> QED
    BY <1>6, <2>1 DEF reads
<1>9. CASE Gather \/ Call \/ EndCall
  <2>1. UNCHANGED <<values, turn>> /\ UNCHANGED reads
    BY <1>9 DEF Gather, Call, EndCall
  <2> QED
    BY <1>6, <2>1 DEF reads
<1>10. CASE EndTurn
  BY <1>10 DEF EndTurn, RecTypes
<1> QED
  BY <1>1, <1>2, <1>3, <1>4, <1>5, <1>7, <1>8, <1>9, <1>10 DEF Next, vars, Build,
    Translate, Activate, RecNext

LEMMA TypesFromInv ==
  RequireInv /\ TransInv /\ RecInv /\ NetTypes /\ TransTypes /\ RecTypes => TypeOK
<1> SUFFICES ASSUME RequireInv, TransInv, RecInv, NetTypes, TransTypes, RecTypes PROVE TypeOK
  OBVIOUS
<1>1. required \subseteq Nodes
  BY DEF RequireInv, Keys
<1>2. todo_nodes \subseteq Nodes
  <2>1. Evaluated \subseteq Nodes
    BY EvaluatedNodes DEF RecInv
  <2> QED
    BY <2>1 DEF RecInv
<1> QED
  BY <1>1, <1>2 DEF TypeOK, RequireInv, PcType, TransInv, NeededPart, RecInv, NetTypes,
    TransTypes, RecTypes

\* What the loops hold at any time, and that a value is the number of a turn
\* of the current run between two resets.
THEOREM TypesHold == Spec => []TypeOK
BY RequireInit, RequireStep, TransInitInv, TransStep, RecInitInv, RecStep, TypesInit,
  NetTypesStep, TransTypesStep, RecTypesStep, TypesFromInv, PTL DEF Spec
-----------------------------------------------------------------------------
(* No input is lost in translation.                                        *)

\* Induction over the natural numbers, for a set of them.
LEMMA InductionOnNat ==
  ASSUME NEW G \in SUBSET Nat, 0 \in G, \A n \in G : n + 1 \in G
  PROVE  G = Nat
<1> SUFFICES ASSUME G # Nat PROVE FALSE
  OBVIOUS
<1> DEFINE Bad == Nat \ G
           R == OpToRel(<, Nat)
<1>1. Bad \subseteq Nat /\ Bad # {}
  OBVIOUS
<1>2. PICK n \in Bad : \A m \in Bad : <<m, n>> \notin R
  <2> HIDE DEF Bad, R
  <2> QED
    BY <1>1, NatLessThanWellFounded, WFMin DEF R
<1>3. n \in Nat \ {0} /\ n - 1 \in Nat
  OBVIOUS
<1>4. n - 1 \in G
  <2>1. <<n - 1, n>> \in R
    BY <1>3 DEF OpToRel
  <2> QED
    BY <1>2, <1>3, <2>1
<1> QED
  BY <1>3, <1>4

Args(S) == UNION {x.args : x \in S}

\* f is what Parts(e) is defined to be, down to depth n.
IsParts(f, e, n) == f = [d \in 0 .. n |-> IF d = 0 THEN {e} ELSE Args(f[d - 1])]

\* What such a function is, turn by turn.
LEMMA Unfolded ==
  ASSUME NEW e, NEW n \in Nat, NEW f, IsParts(f, e, n)
  PROVE  f[0] = {e} /\ \A d \in 1 .. n : f[d] = Args(f[d - 1])
<1>1. \A d \in 0 .. n : f[d] = IF d = 0 THEN {e} ELSE Args(f[d - 1])
  BY Zenon DEF IsParts
<1>2. 0 \in 0 .. n /\ \A d \in 1 .. n : d \in 0 .. n /\ d # 0
  OBVIOUS
<1> QED
  BY <1>1, <1>2, Zenon

\* The recursive definition of the parts of an expression has a solution.
LEMMA PartsExist ==
  ASSUME NEW e
  PROVE  \A n \in Nat : \E f : IsParts(f, e, n)
<1> DEFINE G == {n \in Nat : \E f : IsParts(f, e, n)}
<1>1. 0 \in G
  <2> DEFINE f == [d \in 0 .. 0 |-> {e}]
  <2>1. IsParts(f, e, 0)
    BY DEF IsParts
  <2> QED
    BY <2>1
<1>2. ASSUME NEW n \in G PROVE n + 1 \in G
  <2>1. n \in Nat
    OBVIOUS
  <2>2. PICK f : IsParts(f, e, n)
    OBVIOUS
  <2> DEFINE g == [d \in 0 .. (n + 1) |-> IF d = 0 THEN {e} ELSE Args(f[d - 1])]
  <2>3. f[0] = {e} /\ \A d \in 1 .. n : f[d] = Args(f[d - 1])
    BY <2>1, <2>2, Unfolded
  <2>4. \A d \in 0 .. n : g[d] = f[d]
    <3>0. 0 .. n \subseteq 0 .. (n + 1)
      BY <2>1
    <3>1. \A d \in 0 .. n : g[d] = IF d = 0 THEN {e} ELSE Args(f[d - 1])
      BY <3>0, Zenon
    <3>2. \A d \in 0 .. n : d # 0 => d \in 1 .. n
      BY <2>1
    <3> QED
      BY <2>3, <3>1, <3>2, Zenon
  <2>5. IsParts(g, e, n + 1)
    <3>1. \A d \in 0 .. (n + 1) : d # 0 => d - 1 \in 0 .. n
      BY <2>1
    <3>2. \A d \in 0 .. (n + 1) : d # 0 => g[d - 1] = f[d - 1]
      <4> HIDE DEF g
      <4> QED
        BY <2>4, <3>1, Zenon
    <3> QED
      BY <3>2, Zenon DEF IsParts
  <2> HIDE DEF g
  <2> QED
    BY <2>1, <2>5
<1> HIDE DEF G
<1>3. G = Nat
  BY <1>1, <1>2, InductionOnNat DEF G
<1> QED
  BY <1>3 DEF G

LEMMA KeysFinite == IsFiniteSet(Keys) /\ Cardinality(Keys) \in Nat
BY NetworkAssumption, FS_CardinalityType

LEMMA PartsAre ==
  ASSUME NEW e
  PROVE  /\ Parts(e)[0] = {e}
         /\ \A d \in 1 .. Cardinality(Keys) : Parts(e)[d] = Args(Parts(e)[d - 1])
<1> DEFINE K == Cardinality(Keys)
<1>1. \E f : IsParts(f, e, K)
  BY KeysFinite, PartsExist
<1>2. Parts(e) = CHOOSE f : IsParts(f, e, K)
  BY DEF Parts, Args, IsParts
<1>3. IsParts(Parts(e), e, K)
  BY <1>1, <1>2
<1>4. K \in Nat
  BY KeysFinite
<1> DEFINE P == Parts(e)
<1>5. IsParts(P, e, K)
  BY <1>3
<1> HIDE DEF K, P
<1>6. P[0] = {e} /\ \A d \in 1 .. K : P[d] = Args(P[d - 1])
  BY <1>4, <1>5, Unfolded
<1> QED
  BY <1>6 DEF K, P

\* remove_unused leaves a tree: each sweep is one level of it, and whoever
\* goes from a used node along the connections kept comes to the output.
Levelled ==
  \E s \in 0 .. Cardinality(Keys), level \in [used_nodes -> 0 .. Cardinality(Keys)] :
    /\ s < Cardinality(used_nodes)
    /\ \A a \in used_nodes : level[a] <= s
    /\ \A c \in used_connections \ {Result} : level[c[1]] = level[c[2]] + 1
    /\ pc = "prune" => \A a \in pending : level[a] = s

Rooted ==
  /\ \A c \in used_connections \ {Result} : c[1] \in used_nodes /\ c[2] \in used_nodes \cap Nodes
  /\ \A S \in SUBSET used_nodes :
       S # {} /\ (\A c \in used_connections \ {Result} : c[1] \in S => c[2] \in S) => 0 \in S

\* The expressions parsed so far that feed a node.
Into(b) == {p[2] : p \in {q \in parsed_nodes : q[1][2] = b}}

\* What is parsed is made of what was parsed before.  A connection has been
\* parsed with all that feeds its node, unless it is still to be parsed.
Parsed ==
  /\ Result \in used_connections
  /\ \A p \in parsed_nodes :
       p[1] \in used_connections /\ p[2].node = p[1][1] /\ p[2].args \subseteq Into(p[1][1])
  /\ \A c \in used_connections :
       \/ c \in todo
       \/ \E p \in parsed_nodes : p[1] = c /\ Into(c[1]) \subseteq p[2].args
       \/ c[1] \notin Inputs /\ (c[1] \in pending \/ Into(c[1]) = {})
  /\ Result \in todo \/ 0 \in pending \/ Into(0) \subseteq final_expression.args
  /\ final_expression = Empty \/ \E p \in parsed_nodes : p[1][1] = 0 /\ p[2] = final_expression

\* On a cycle there is always something left to parse, once there was.
Endless ==
  /\ pending \subseteq used_nodes
  /\ UsedInputs # {} => todo \cup pending # {}

TreeInv ==
  /\ pc \in {"prune"} \cup Pruned => Levelled /\ Rooted
  /\ pc \in Pruned => Result \in used_connections
  /\ pc \in Pruned /\ ~CycleThroughResult => Parsed
  /\ pc \notin Pruned \/ CycleThroughResult => parsed_nodes = {} /\ final_expression = Empty
  /\ pc \notin {"prune"} \cup Pruned => used_connections = {}
  /\ pc = "translated" => todo = {} /\ pending = {}
  /\ pc \in Pruned /\ CycleThroughResult => Endless

LEMMA TreeInit == Init => TreeInv
BY DEF Init, NetInit, TransInit, TreeInv, Pruned

LEMMA TreeUnchanged ==
  ASSUME TreeInv,
         UNCHANGED <<used_nodes, pending, used_connections, todo, parsed_nodes, final_expression>>,
         pc' = pc \/ {pc, pc'} \cap ({"prune"} \cup Pruned) = {}
  PROVE  TreeInv'
<1>1. (pc' = pc => (Levelled' <=> Levelled)) /\ (Rooted' <=> Rooted) /\ (Parsed' <=> Parsed)
  BY DEF Levelled, Rooted, Parsed, Into
<1>2. (Endless' <=> Endless) /\ (CycleThroughResult' <=> CycleThroughResult)
  BY DEF Endless, CycleThroughResult, UsedInputs
<1> QED
  BY <1>1, <1>2 DEF TreeInv, Pruned

LEMMA Roots == Outputs = {0} /\ 0 \in Keys /\ 0 \notin Inputs /\ 999 \notin Inputs
BY TranslationAssumption, NetworkAssumption DEF Keys, Nodes

\* The first sweep of remove_unused starts from the output alone.
LEMMA FormatTree == RequireInv /\ TransInv /\ TreeInv /\ FormatSweep => TreeInv'
<1> SUFFICES ASSUME RequireInv, TransInv, TreeInv, FormatSweep PROVE TreeInv'
  OBVIOUS
<1>1. /\ pc = "built"
      /\ UNCHANGED <<used_nodes, used_connections, todo, parsed_nodes, final_expression>>
  BY DEF FormatSweep
<1>2. used_nodes = {0} /\ used_connections = {} /\ parsed_nodes = {} /\ final_expression = Empty
  BY <1>1, Roots DEF TransInv, TreeInv, Pruned
<1>3. CASE pc' = "prune" /\ pending' = Outputs
  <2>1. Levelled'
    <3> DEFINE level == [a \in {0} |-> 0]
    <3>1. Cardinality({0}) = 1 /\ Cardinality(Keys) \in Nat
      BY FS_Singleton, KeysFinite
    <3>2. 0 \in 0 .. Cardinality(Keys)
      BY <3>1
    <3>3. level \in [{0} -> 0 .. Cardinality(Keys)] /\ level[0] = 0
      BY <3>2
    <3> HIDE DEF level
    <3> QED
      BY <1>1, <1>2, <1>3, <3>1, <3>2, <3>3, Roots DEF Levelled
  <2>2. Rooted'
    BY <1>1, <1>2 DEF Rooted
  <2> QED
    BY <1>1, <1>2, <1>3, <2>1, <2>2 DEF TreeInv, Pruned
<1>4. CASE pc' = "built"
  BY <1>1, <1>2, <1>4 DEF TreeInv, Pruned
<1> QED
  BY <1>1, <1>3, <1>4 DEF FormatSweep

\* A sweep of remove_unused adds a level.
LEMMA SweepTree == RequireInv /\ TransInv /\ TreeInv /\ RemoveSweep => TreeInv'
<1> SUFFICES ASSUME RequireInv, TransInv, TreeInv, RemoveSweep PROVE TreeInv'
  OBVIOUS
<1> DEFINE F == Sources
<1>1. /\ pc = "prune" /\ pc' = "prune" /\ UNCHANGED <<parsed_nodes, final_expression>>
      /\ used_nodes' = used_nodes \cup F /\ pending' = F
  BY DEF RemoveSweep
<1>2. PICK k \in [F -> pending] :
        /\ \A a \in F : a \in Links(k[a])
        /\ used_connections' = used_connections \cup {<<a, k[a]>> : a \in F}
  BY DEF RemoveSweep, Kept
<1>3. /\ pending \subseteq used_nodes /\ used_nodes \subseteq Keys
      /\ used_nodes' \subseteq Keys /\ F \cap used_nodes = {}
  <2>1. F \subseteq Keys /\ F \cap used_nodes = {}
    BY DEF Sources, Links
  <2> QED
    BY <1>1, <2>1 DEF TransInv, NeededPart
<1>t. Levelled /\ Rooted /\ 0 \in used_nodes
  BY <1>1, Roots DEF TreeInv, TransInv, NeededPart
<1> HIDE DEF F
<1>4. Levelled'
  <2>1. PICK s \in 0 .. Cardinality(Keys), level \in [used_nodes -> 0 .. Cardinality(Keys)] :
          /\ s < Cardinality(used_nodes)
          /\ \A a \in used_nodes : level[a] <= s
          /\ \A c \in used_connections \ {Result} : level[c[1]] = level[c[2]] + 1
          /\ \A a \in pending : level[a] = s
    BY <1>1, <1>t DEF Levelled
  <2>2. CASE F = {}
    <3>1. used_connections' = used_connections /\ used_nodes' = used_nodes /\ pending' = {}
      BY <1>1, <1>2, <2>2
    <3> QED
      BY <2>1, <3>1 DEF Levelled
  <2>3. CASE F # {}
    <3> DEFINE next == [a \in used_nodes \cup F |-> IF a \in used_nodes THEN level[a] ELSE s + 1]
    <3>1. s + 1 < Cardinality(used_nodes') /\ s + 1 \in 0 .. Cardinality(Keys)
      <4>1. PICK x \in F : x \notin used_nodes
        BY <1>3, <2>3
      <4>2. IsFiniteSet(used_nodes) /\ IsFiniteSet(used_nodes')
        BY <1>3, KeysFinite, FS_Subset
      <4>3. IsFiniteSet(used_nodes \cup {x})
            /\ Cardinality(used_nodes \cup {x}) = Cardinality(used_nodes) + 1
        BY <4>1, <4>2, FS_AddElement
      <4>4. used_nodes \cup {x} \in SUBSET used_nodes'
        BY <1>1, <4>1
      <4>5. Cardinality(used_nodes \cup {x}) <= Cardinality(used_nodes')
        BY <4>2, <4>4, FS_Subset
      <4>6. Cardinality(used_nodes') <= Cardinality(Keys)
        BY <1>3, KeysFinite, FS_Subset
      <4>7. Cardinality(used_nodes) \in Nat /\ Cardinality(used_nodes') \in Nat
            /\ Cardinality(Keys) \in Nat /\ s \in Nat
        BY <4>2, KeysFinite, FS_CardinalityType
      <4> QED
        BY <2>1, <4>3, <4>5, <4>6, <4>7
    <3>2. /\ next \in [used_nodes' -> 0 .. Cardinality(Keys)]
          /\ \A a \in used_nodes : next[a] = level[a]
          /\ \A a \in F : next[a] = s + 1
      BY <1>1, <1>3, <3>1
    <3> HIDE DEF next
    <3>3. s \in Int /\ \A a \in used_nodes : level[a] \in Int
      BY <2>1
    <3>4. \A a \in used_nodes' : next[a] <= s + 1
      BY <1>1, <2>1, <3>2, <3>3
    <3>5. ASSUME NEW c \in used_connections' \ {Result} PROVE next[c[1]] = next[c[2]] + 1
      <4>1. CASE c \in used_connections
        <5>1. c[1] \in used_nodes /\ c[2] \in used_nodes
          BY <3>5, <4>1, <1>t DEF Rooted
        <5> QED
          BY <2>1, <3>2, <3>5, <4>1, <5>1
      <4>2. CASE c \notin used_connections
        <5>1. PICK a \in F : c = <<a, k[a]>>
          BY <1>2, <3>5, <4>2
        <5>2. k[a] \in pending /\ k[a] \in used_nodes
          BY <1>3, <5>1
        <5> QED
          BY <2>1, <3>2, <5>1, <5>2
      <4> QED
        BY <4>1, <4>2
    <3> QED
      BY <1>1, <3>1, <3>2, <3>4, <3>5 DEF Levelled
  <2> QED
    BY <2>2, <2>3
<1>5. Rooted'
  <2>1. ASSUME NEW a \in F PROVE k[a] \in pending /\ k[a] \in used_nodes \cap Nodes
    <3>1. <<a, k[a]>> \in network.enabled /\ k[a] \in used_nodes
      BY <1>2, <1>3, <2>1 DEF Links
    <3>2. network.enabled \subseteq Keys \X Nodes
      BY NetworkFacts DEF RequireInv
    <3> QED
      BY <1>2, <2>1, <3>1, <3>2
  <2>2. ASSUME NEW c \in used_connections' \ {Result}
        PROVE  c[1] \in used_nodes' /\ c[2] \in used_nodes \cap Nodes
    <3>1. CASE c \in used_connections
      BY <1>1, <1>t, <2>2, <3>1 DEF Rooted
    <3>2. CASE c \notin used_connections
      BY <1>1, <1>2, <2>1, <2>2, <3>2
    <3> QED
      BY <3>1, <3>2
  <2>3. ASSUME NEW S \in SUBSET used_nodes', S # {},
               \A c \in used_connections' \ {Result} : c[1] \in S => c[2] \in S
        PROVE  0 \in S
    <3> DEFINE Old == S \cap used_nodes
    <3>1. Old # {}
      <4>1. PICK a \in S : TRUE
        BY <2>3
      <4>2. CASE a \in used_nodes
        BY <4>1, <4>2
      <4>3. CASE a \in F
        <5>1. <<a, k[a]>> \in used_connections' /\ k[a] \in used_nodes /\ <<a, k[a]>> # Result
          BY <1>2, <1>3, <1>t, <2>1, <4>3 DEF Result
        <5> QED
          BY <2>3, <4>1, <5>1
      <4> QED
        BY <1>1, <4>1, <4>2, <4>3
    <3>2. \A c \in used_connections \ {Result} : c[1] \in Old => c[2] \in Old
      <4>1. \A c \in used_connections \ {Result} : c[2] \in used_nodes
        BY <1>t DEF Rooted
      <4> QED
        BY <1>2, <2>3, <4>1
    <3>3. 0 \in Old
      <4> HIDE DEF Old
      <4>1. Old \in SUBSET used_nodes
        BY DEF Old
      <4> QED
        BY <1>t, <3>1, <3>2, <4>1 DEF Rooted
    <3> QED
      BY <3>3
  <2> QED
    BY <1>1, <2>2, <2>3 DEF Rooted
<1> QED
  BY <1>1, <1>4, <1>5 DEF TreeInv, Pruned

\* Levels and paths do not depend on the place or on the result's connection.
LEMMA TreeFrame ==
  ASSUME Levelled, Rooted, used_nodes' = used_nodes, pc' # "prune",
         used_connections' \ {Result} = used_connections \ {Result}
  PROVE  Levelled' /\ Rooted'
<1>1. Levelled'
  BY DEF Levelled
<1>2. Rooted'
  BY DEF Rooted
<1> QED
  BY <1>1, <1>2

\* A used node other than the output keeps a connection.
LEMMA KeptFrom ==
  ASSUME Rooted, NEW a \in used_nodes, a # 0
  PROVE  \E c \in used_connections \ {Result} : c[1] = a
<1>1. {a} \in SUBSET used_nodes /\ {a} # {} /\ 0 \notin {a}
  OBVIOUS
<1>2. \E c \in used_connections \ {Result} : c[1] \in {a} /\ c[2] \notin {a}
  BY <1>1 DEF Rooted
<1> QED
  BY <1>2

\* What is to be parsed first: the connections of the inputs.
LEMMA EndsTree == TransInv /\ TreeInv /\ RemoveEnds => TreeInv'
<1> SUFFICES ASSUME TransInv, TreeInv, RemoveEnds PROVE TreeInv'
  OBVIOUS
<1>1. /\ pc = "prune" /\ pc' = "translate" /\ pending = {}
      /\ used_connections' = used_connections \cup {Result} /\ todo' = From(UsedInputs)
      /\ UNCHANGED <<used_nodes, pending, parsed_nodes, final_expression>>
  BY DEF RemoveEnds
<1>2. parsed_nodes = {} /\ final_expression = Empty /\ Levelled /\ Rooted
  BY <1>1 DEF TreeInv, Pruned
<1>3. Levelled' /\ Rooted'
  BY <1>1, <1>2, TreeFrame
<1>4. \A b : Into(b)' = {}
  BY <1>1, <1>2 DEF Into
<1>5. ASSUME NEW c \in used_connections', c[1] \in Inputs PROVE c \in todo'
  <2>1. c # Result
    BY <1>5, Roots DEF Result
  <2>2. c \in used_connections /\ c[1] \in used_nodes
    BY <1>1, <1>2, <1>5, <2>1 DEF Rooted
  <2> QED
    BY <1>1, <1>5, <2>2 DEF From, UsedInputs
<1>6. Parsed'
  BY <1>1, <1>2, <1>4, <1>5 DEF Parsed
<1>7. Endless'
  <2> SUFFICES ASSUME NEW i \in UsedInputs PROVE \E c \in used_connections : c[1] = i
    BY <1>1 DEF Endless, UsedInputs, From
  <2> QED
    BY <1>2, KeptFrom, Roots DEF UsedInputs
<1> QED
  BY <1>1, <1>2, <1>3, <1>6, <1>7 DEF TreeInv, Pruned, CycleThroughResult

LEMMA Expressed ==
  ASSUME NEW a, NEW b, Into(a) = {} \/ a \notin Inputs
  PROVE  Expression(a, b).node = a /\ Expression(a, b).args = Into(a)
<1>1. CASE a \in UsedInputs
  BY <1>1 DEF Expression, UsedInputs
<1>2. CASE a \notin UsedInputs
  BY <1>2 DEF Expression, Into
<1> QED
  BY <1>1, <1>2

\* No connection ends at an input.
LEMMA IntoInput ==
  ASSUME Parsed, Rooted, NEW i \in Inputs
  PROVE  Into(i) = {}
<1>1. ASSUME NEW p \in parsed_nodes PROVE p[1][2] # i
  <2>1. p[1] \in used_connections
    BY DEF Parsed
  <2>2. CASE p[1] = Result
    BY <2>2, Roots DEF Result
  <2>3. CASE p[1] # Result
    BY <2>1, <2>3, NetworkAssumption DEF Rooted
  <2> QED
    BY <2>2, <2>3
<1> QED
  BY <1>1 DEF Into

\* On a cycle the connections end at used nodes.
LEMMA ParseEndless == TransTypes /\ TreeInv /\ ParseConnection /\ CycleThroughResult => TreeInv'
<1> SUFFICES ASSUME TransTypes, TreeInv, ParseConnection, CycleThroughResult PROVE TreeInv'
  OBVIOUS
<1>1. /\ pc = "translate" /\ pc' = "translate"
      /\ UNCHANGED <<used_nodes, used_connections, parsed_nodes, final_expression>>
      /\ \E c \in todo : todo' = todo \ {c} /\ pending' = pending \cup {c[2]}
  BY DEF ParseConnection
<1>2. /\ Levelled /\ Rooted /\ Endless /\ Result \in used_connections
      /\ parsed_nodes = {} /\ final_expression = Empty
  BY <1>1 DEF TreeInv, Pruned
<1>3. Levelled' /\ Rooted'
  BY <1>1, <1>2, TreeFrame
<1>4. \A c \in todo : c[2] \in used_nodes
  BY <1>2 DEF TransTypes, Rooted, Result, CycleThroughResult
<1>5. Endless'
  BY <1>1, <1>2, <1>4 DEF Endless, UsedInputs
<1> QED
  BY <1>1, <1>2, <1>3, <1>5 DEF TreeInv, Pruned, CycleThroughResult

LEMMA ParseTree == TransTypes /\ TreeInv /\ ParseConnection /\ ~CycleThroughResult => TreeInv'
<1> SUFFICES ASSUME TransTypes, TreeInv, ParseConnection, ~CycleThroughResult PROVE TreeInv'
  OBVIOUS
<1>1. /\ pc = "translate" /\ pc' = "translate"
      /\ UNCHANGED <<used_nodes, used_connections>> /\ ~CycleThroughResult'
  BY DEF ParseConnection, CycleThroughResult
<1>2. Levelled /\ Rooted /\ Parsed
  BY <1>1 DEF TreeInv, Pruned
<1>3. Levelled' /\ Rooted'
  BY <1>1, <1>2, TreeFrame
<1>4. PICK c \in todo :
        /\ todo' = todo \ {c} /\ pending' = pending \cup {c[2]}
        /\ parsed_nodes' = parsed_nodes \cup {<<c, Expression(c[1], c[2])>>}
        /\ final_expression' = IF c[1] = 0 THEN Expression(c[1], c[2]) ELSE final_expression
  BY DEF ParseConnection
<1> DEFINE e == Expression(c[1], c[2])
           new == <<c, e>>
<1>5. e.node = c[1] /\ e.args = Into(c[1]) /\ c \in used_connections
  BY <1>2, <1>4, IntoInput, Expressed DEF TransTypes
<1>6. new[1] = c /\ new[2] = e /\ parsed_nodes' = parsed_nodes \cup {new}
      /\ final_expression' = IF c[1] = 0 THEN e ELSE final_expression
  BY <1>4
<1> HIDE DEF e, new
<1>7. /\ \A b : Into(b) \subseteq Into(b)'
      /\ \A b : b # c[2] => Into(b)' = Into(b)
  BY <1>6 DEF Into
<1>8. Parsed'
  <2>1. Result \in used_connections'
    BY <1>1, <1>2 DEF Parsed
  <2>2. ASSUME NEW p \in parsed_nodes'
        PROVE  p[1] \in used_connections' /\ p[2].node = p[1][1] /\ p[2].args \subseteq Into(p[1][1])'
    <3>1. CASE p = new
      BY <1>1, <1>5, <1>6, <1>7, <3>1
    <3>2. CASE p \in parsed_nodes
      <4>1. p[1] \in used_connections /\ p[2].node = p[1][1] /\ p[2].args \subseteq Into(p[1][1])
        BY <1>2, <3>2 DEF Parsed
      <4> QED
        BY <1>1, <1>7, <4>1
    <3> QED
      BY <1>6, <2>2, <3>1, <3>2
  <2>3. ASSUME NEW d \in used_connections'
        PROVE  \/ d \in todo'
               \/ \E p \in parsed_nodes' : p[1] = d /\ Into(d[1])' \subseteq p[2].args
               \/ d[1] \notin Inputs /\ (d[1] \in pending' \/ Into(d[1])' = {})
    <3>1. CASE d[1] = c[2]
      <4>1. c[2] \notin Inputs
        <5>1. CASE c = Result
          BY <5>1, Roots DEF Result
        <5>2. CASE c # Result
          BY <1>2, <1>5, <5>2, NetworkAssumption DEF Rooted
        <5> QED
          BY <5>1, <5>2
      <4> QED
        BY <1>4, <3>1, <4>1
    <3>2. CASE d[1] # c[2] /\ d = c
      <4>1. Into(d[1])' = e.args
        BY <1>5, <1>7, <3>2
      <4> QED
        BY <1>6, <3>2, <4>1
    <3>3. CASE d[1] # c[2] /\ d # c
      <4>1. Into(d[1])' = Into(d[1])
        BY <1>7, <3>3
      <4>2. \/ d \in todo
            \/ \E p \in parsed_nodes : p[1] = d /\ Into(d[1]) \subseteq p[2].args
            \/ d[1] \notin Inputs /\ (d[1] \in pending \/ Into(d[1]) = {})
        BY <1>1, <1>2, <2>3 DEF Parsed
      <4>3. todo \ {c} = todo' /\ pending \subseteq pending' /\ parsed_nodes \subseteq parsed_nodes'
        BY <1>4
      <4> QED
        BY <3>3, <4>1, <4>2, <4>3
    <3> QED
      BY <3>1, <3>2, <3>3
  <2>4. Result \in todo' \/ 0 \in pending' \/ Into(0)' \subseteq final_expression'.args
    <3>1. CASE c[2] = 0
      BY <1>4, <3>1
    <3>2. CASE c[2] # 0 /\ c[1] = 0
      BY <1>5, <1>6, <1>7, <3>2
    <3>3. CASE c[2] # 0 /\ c[1] # 0
      <4>1. Into(0)' = Into(0) /\ final_expression' = final_expression /\ c # Result
        BY <1>6, <1>7, <3>3 DEF Result
      <4>2. todo \ {c} = todo' /\ pending \subseteq pending'
        BY <1>4
      <4> QED
        BY <1>2, <4>1, <4>2 DEF Parsed
    <3> QED
      BY <3>1, <3>2, <3>3
  <2>5. \/ final_expression' = Empty
        \/ \E p \in parsed_nodes' : p[1][1] = 0 /\ p[2] = final_expression'
    <3>1. CASE c[1] = 0
      BY <1>6, <3>1
    <3>2. CASE c[1] # 0
      BY <1>2, <1>6, <3>2 DEF Parsed
    <3> QED
      BY <3>1, <3>2
  <2> QED
    BY <2>1, <2>2, <2>3, <2>4, <2>5 DEF Parsed
<1> QED
  BY <1>1, <1>3, <1>8 DEF TreeInv, Pruned, Parsed

\* On a cycle a sweep is never the last.
LEMMA NextSweepEndless == TreeInv /\ NextSweep /\ CycleThroughResult => TreeInv'
<1> SUFFICES ASSUME TreeInv, NextSweep, CycleThroughResult PROVE TreeInv'
  OBVIOUS
<1>1. /\ pc = "translate" /\ todo = {}
      /\ UNCHANGED <<used_nodes, used_connections, parsed_nodes, final_expression>>
      /\ \/ pending = {} /\ pc' = "translated" /\ todo' = {} /\ pending' = {}
         \/ pending # {} /\ pc' = "translate" /\ todo' = From(pending) /\ pending' = {}
  BY DEF NextSweep
<1>2. /\ Levelled /\ Rooted /\ Endless /\ Result \in used_connections
      /\ parsed_nodes = {} /\ final_expression = Empty
  BY <1>1 DEF TreeInv, Pruned
<1>3. Levelled' /\ Rooted'
  BY <1>1, <1>2, TreeFrame
<1>4. ASSUME NEW a \in pending PROVE From(pending) # {}
  <2>1. a \in used_nodes
    BY <1>2 DEF Endless
  <2>2. CASE a = 0
    BY <1>2, <2>2 DEF From, Result
  <2>3. CASE a # 0
    BY <1>2, <2>1, <2>3, KeptFrom DEF From
  <2> QED
    BY <2>2, <2>3
<1>5. Endless'
  BY <1>1, <1>2, <1>4 DEF Endless, UsedInputs
<1> QED
  BY <1>1, <1>2, <1>3, <1>5 DEF TreeInv, Pruned, CycleThroughResult

LEMMA NextSweepTree == TreeInv /\ NextSweep /\ ~CycleThroughResult => TreeInv'
<1> SUFFICES ASSUME TreeInv, NextSweep, ~CycleThroughResult PROVE TreeInv'
  OBVIOUS
<1>1. /\ pc = "translate" /\ todo = {}
      /\ UNCHANGED <<used_nodes, used_connections, parsed_nodes, final_expression>>
      /\ \/ pending = {} /\ pc' = "translated" /\ todo' = {} /\ pending' = {}
         \/ pc' = "translate" /\ todo' = From(pending) /\ pending' = {}
      /\ ~CycleThroughResult'
  BY DEF NextSweep, CycleThroughResult
<1>2. Levelled /\ Rooted /\ Parsed
  BY <1>1 DEF TreeInv, Pruned
<1>3. Levelled' /\ Rooted'
  BY <1>1, <1>2, TreeFrame
<1>4. \A b : Into(b)' = Into(b)
  BY <1>1 DEF Into
<1>5. \A c \in used_connections : c[1] \in pending => c \in todo'
  BY <1>1 DEF From
<1>6. Result[1] = 0 /\ Result \in used_connections
  BY <1>2 DEF Result, Parsed
<1>7. Parsed'
  BY <1>1, <1>2, <1>4, <1>5, <1>6 DEF Parsed
<1> QED
  BY <1>1, <1>2, <1>3, <1>7 DEF TreeInv, Pruned, Parsed

LEMMA TreeStep ==
  RequireInv /\ TransInv /\ TransTypes /\ TreeInv /\ [Next]_vars => TreeInv'
<1> SUFFICES ASSUME RequireInv, TransInv, TransTypes, TreeInv, [Next]_vars PROVE TreeInv'
  OBVIOUS
<1>1. CASE Translate
  BY <1>1, FormatTree, SweepTree, EndsTree, ParseTree, ParseEndless, NextSweepTree,
    NextSweepEndless DEF Translate, TransNext
<1>2. CASE Build
  BY <1>2, TreeUnchanged DEF Build, NetNext, Require, AddLayer, transVars, Pruned
<1>3. CASE Activate
  BY <1>3, TreeUnchanged DEF Activate, transVars, RecNext, Gather, Call, BeginTurn, EvalNode,
    SumCurrent, AdvanceNeurons, EndTurn, EndCall, Reset, SetNodeValue, Pruned
<1>4. CASE UNCHANGED vars
  BY <1>4, TreeUnchanged DEF vars, transVars
<1> QED
  BY <1>1, <1>2, <1>3, <1>4 DEF Next

\* The nodes agree, and from each one a connection was kept.
LEMMA AgreeFromInv == RequireInv /\ TransInv /\ TransTypes /\ TreeInv => TraversalsAgree
<1> SUFFICES ASSUME RequireInv, TransInv, TransTypes, TreeInv, pc \in Pruned
             PROVE  /\ stored = used_nodes /\ stored \cap Nodes = required
                    /\ UsedInputs = {i \in Inputs : NeededForOutput(i)}
                    /\ \A n \in stored : StoredLinks(n) \subseteq stored
                    /\ \A a \in used_nodes \ Outputs :
                         \E b \in used_nodes : a \in Links(b) /\ <<a, b>> \in used_connections
  BY DEF TraversalsAgree, Pruned
<1>1. ASSUME NEW a \in used_nodes \ Outputs
      PROVE  \E b \in used_nodes : a \in Links(b) /\ <<a, b>> \in used_connections
  <2>1. Rooted /\ a # 0
    BY <1>1, Roots DEF TreeInv
  <2>2. PICK c \in used_connections \ {Result} : c[1] = a
    BY <2>1, KeptFrom
  <2>3. c \in network.enabled /\ c[2] \in used_nodes
    BY <2>1 DEF TransTypes, Rooted
  <2>4. a \in Keys /\ c = <<a, c[2]>>
    BY <2>2, <2>3, NetworkFacts DEF RequireInv, TransInv, NeededPart
  <2> QED
    BY <2>3, <2>4 DEF Links
<1> QED
  BY <1>1, NodesAgree

\* The evaluated network, the entry in the Model DB and the task use the same
\* nodes, the task declares the inputs that reach the output, and every node
\* of the task is still connected with another one.
THEOREM TraversalsDoAgree == Spec => []TraversalsAgree
BY RequireInit, RequireStep, TransInitInv, TransStep, TypesInit, TransTypesStep, TreeInit,
  TreeStep, AgreeFromInv, PTL DEF Spec

\* A winner with a node 999 in use that hears an input is never translated.
\* This is why: on the cycle something is always left to parse.
LEMMA EndlessFromInv ==
  TransInv /\ TreeInv => (pc = "translated" => 999 \notin used_nodes \/ UsedInputs = {})
BY DEF TreeInv, Pruned, Endless, CycleThroughResult

THEOREM CyclesAreEndless ==
  Spec => [](pc = "translated" => 999 \notin used_nodes \/ UsedInputs = {})
BY RequireInit, RequireStep, TransInitInv, TransStep, TypesInit, TransTypesStep, TreeInit,
  TreeStep, EndlessFromInv, PTL DEF Spec

Reach(e) == UNION {Parts(e)[d] : d \in 0 .. Cardinality(Keys)}

\* The parts of the final expression were all parsed, each one level further
\* from the output than the one it is part of: Parts goes deep enough.
LEMMA PartsOfFinal ==
  ASSUME TransInv, TreeInv, pc \in Pruned, ~CycleThroughResult
  PROVE  LET R == Reach(final_expression)
         IN /\ final_expression \in R
            /\ \A x \in R : x = final_expression \/ \E q \in parsed_nodes : q[2] = x
            /\ \A x \in R : x.args \subseteq R
<1> DEFINE e == final_expression
           K == Cardinality(Keys)
           P == Parts(e)
           R == Reach(e)
<1>1. Levelled /\ Rooted /\ Parsed /\ used_nodes \subseteq Keys /\ 0 \in used_nodes
  BY Roots DEF TreeInv, TransInv, NeededPart
<1>2. K \in Nat /\ Cardinality(used_nodes) \in Nat /\ Cardinality(used_nodes) <= K
  BY <1>1, KeysFinite, FS_Subset, FS_CardinalityType
<1>3. PICK s \in 0 .. K, level \in [used_nodes -> 0 .. K] :
        /\ s < Cardinality(used_nodes)
        /\ \A a \in used_nodes : level[a] <= s
        /\ \A c \in used_connections \ {Result} : level[c[1]] = level[c[2]] + 1
  BY <1>1 DEF Levelled
<1>4. P[0] = {e} /\ \A d \in 1 .. K : P[d] = Args(P[d - 1])
  BY PartsAre
<1>5. R = UNION {P[d] : d \in 0 .. K}
  BY DEF Reach
<1> HIDE DEF K, P, R
<1>6. \A p \in parsed_nodes : p[1][1] \in used_nodes
  <2> SUFFICES ASSUME NEW p \in parsed_nodes PROVE p[1][1] \in used_nodes
    OBVIOUS
  <2>1. p[1] \in used_connections
    BY <1>1 DEF Parsed
  <2>2. CASE p[1] = Result
    BY <1>1, <2>2 DEF Result
  <2>3. CASE p[1] # Result
    BY <1>1, <2>1, <2>3 DEF Rooted
  <2> QED
    BY <2>2, <2>3
<1>7. ASSUME NEW p \in parsed_nodes, NEW x \in p[2].args
      PROVE  \E q \in parsed_nodes : q[2] = x /\ level[q[1][1]] = level[p[1][1]] + 1
  <2>1. x \in Into(p[1][1])
    BY <1>1, <1>7 DEF Parsed
  <2>2. PICK q \in parsed_nodes : q[1][2] = p[1][1] /\ q[2] = x
    BY <2>1 DEF Into
  <2>3. q[1] \in used_connections
    BY <1>1 DEF Parsed
  <2>4. q[1] # Result
    <3>1. q[1][2] # 999
      BY <1>6, <2>2 DEF CycleThroughResult
    <3> QED
      BY <3>1 DEF Result
  <2>5. level[q[1][1]] = level[q[1][2]] + 1
    BY <1>3, <2>3, <2>4
  <2> QED
    BY <2>2, <2>5
<1>8. e = Empty \/ \E p \in parsed_nodes : p[2] = e
  BY <1>1 DEF Parsed
<1> DEFINE At(x, d) == (d = 0 /\ x = e) \/ \E q \in parsed_nodes : q[2] = x /\ level[q[1][1]] >= d
           Good == {d \in Nat : d <= K => \A x \in P[d] : At(x, d)}
<1>9. Good = Nat
  <2>1. 0 \in Good
    BY <1>4
  <2>2. ASSUME NEW d \in Good PROVE d + 1 \in Good
    <3> SUFFICES ASSUME d + 1 <= K, NEW x \in P[d + 1] PROVE At(x, d + 1)
      OBVIOUS
    <3>1. d \in Nat /\ d + 1 \in 1 .. K /\ (d + 1) - 1 = d /\ d <= K
      BY <1>2
    <3>2. P[d + 1] = Args(P[d])
      BY <1>4, <3>1
    <3>3. PICK y \in P[d] : x \in y.args
      BY <3>2 DEF Args
    <3>4. At(y, d)
      BY <3>1
    <3>5. y # Empty
      BY <3>3 DEF Empty
    <3>6. PICK p \in parsed_nodes : p[2] = y /\ level[p[1][1]] >= d
      <4>1. CASE d = 0 /\ y = e
        <5>1. PICK p \in parsed_nodes : p[2] = y
          BY <1>8, <3>5, <4>1
        <5>2. level[p[1][1]] \in 0 .. K
          BY <1>3, <1>6
        <5> QED
          BY <4>1, <5>1, <5>2
      <4>2. CASE ~(d = 0 /\ y = e)
        BY <3>4, <4>2
      <4> QED
        BY <4>1, <4>2
    <3>7. PICK q \in parsed_nodes : q[2] = x /\ level[q[1][1]] = level[p[1][1]] + 1
      BY <1>7, <3>3, <3>6
    <3>8. level[p[1][1]] \in 0 .. K
      BY <1>3, <1>6
    <3> QED
      BY <3>1, <3>6, <3>7, <3>8
  <2> HIDE DEF Good
  <2>3. Good \in SUBSET Nat
    BY DEF Good
  <2> QED
    BY <2>1, <2>2, <2>3, InductionOnNat
<1>10. \A d \in 0 .. K : \A x \in P[d] : At(x, d)
  BY <1>2, <1>9
<1>11. P[K] = {}
  <2> SUFFICES ASSUME NEW x \in P[K] PROVE FALSE
    OBVIOUS
  <2>1. At(x, K) /\ K # 0
    BY <1>2, <1>3, <1>10
  <2>2. PICK q \in parsed_nodes : level[q[1][1]] >= K
    BY <2>1
  <2>3. level[q[1][1]] <= s /\ level[q[1][1]] \in 0 .. K
    BY <1>3, <1>6
  <2> QED
    BY <1>2, <1>3, <2>2, <2>3
<1>12. e \in R
  BY <1>2, <1>4, <1>5
<1>13. ASSUME NEW x \in R PROVE x = e \/ \E q \in parsed_nodes : q[2] = x
  BY <1>5, <1>10, <1>13
<1>14. ASSUME NEW x \in R PROVE x.args \subseteq R
  <2>1. PICK d \in 0 .. K : x \in P[d]
    BY <1>5, <1>14
  <2>2. d + 1 \in 1 .. K /\ d + 1 \in 0 .. K /\ (d + 1) - 1 = d
    <3>1. d # K
      BY <1>11, <2>1
    <3> QED
      BY <1>2, <3>1
  <2>3. P[d + 1] = Args(P[d])
    BY <1>4, <2>2
  <2>4. x.args \subseteq P[d + 1]
    BY <2>1, <2>3 DEF Args
  <2> QED
    BY <1>5, <2>2, <2>4
<1> QED
  BY <1>12, <1>13, <1>14 DEF R

\* A set of expressions that holds what feeds the output, and the parts of
\* its own, holds one of every used input.
LEMMA AllHeard ==
  ASSUME TransInv, TreeInv, pc = "translated", ~CycleThroughResult,
         NEW R, Into(0) \subseteq R, \A x \in R : x.args \subseteq R,
         NEW i \in UsedInputs
  PROVE  \E x \in R : x.node = i
<1>1. pc \in Pruned /\ todo = {} /\ pending = {}
  BY DEF TreeInv, Pruned
<1>2. Rooted /\ Parsed /\ used_nodes \subseteq Keys /\ 0 \in used_nodes
  BY <1>1, Roots DEF TreeInv, TransInv, NeededPart
<1> DEFINE Heard == {b \in used_nodes : Into(b) \subseteq R}
           Rest  == used_nodes \ Heard
<1>3. 0 \in Heard
  BY <1>2
<1>4. ASSUME NEW c \in used_connections \ {Result}, c[1] \in Rest PROVE c[2] \in Rest
  <2> SUFFICES ASSUME Into(c[2]) \subseteq R PROVE FALSE
    BY <1>2 DEF Rooted
  <2>1. Into(c[1]) # {} /\ ~(Into(c[1]) \subseteq R)
    BY <1>4
  <2>2. c[1] \notin Inputs
    BY <1>2, <2>1, IntoInput
  <2>3. PICK p \in parsed_nodes : p[1] = c /\ Into(c[1]) \subseteq p[2].args
    BY <1>1, <1>2, <2>1, <2>2 DEF Parsed
  <2>4. p[2] \in Into(c[2])
    BY <2>3 DEF Into
  <2>5. p[2].args \subseteq R
    BY <2>4
  <2> QED
    BY <2>1, <2>3, <2>5
<1>5. Rest = {}
  <2>1. Rest \in SUBSET used_nodes /\ 0 \notin Rest
    BY <1>3
  <2> HIDE DEF Rest
  <2> QED
    BY <1>2, <1>4, <2>1 DEF Rooted
<1>6. PICK c \in used_connections \ {Result} : c[1] = i
  <2>1. {i} \in SUBSET used_nodes /\ {i} # {} /\ 0 \notin {i}
    BY Roots DEF UsedInputs
  <2>2. \E c \in used_connections \ {Result} : c[1] \in {i} /\ c[2] \notin {i}
    BY <1>2, <2>1 DEF Rooted
  <2> QED
    BY <2>2
<1>7. PICK p \in parsed_nodes : p[1] = c
  BY <1>1, <1>2, <1>6 DEF Parsed, UsedInputs
<1>8. p[2] \in Into(c[2]) /\ c[2] \in used_nodes
  BY <1>2, <1>6, <1>7 DEF Into, Rooted
<1>9. p[2] \in R
  BY <1>5, <1>8
<1>10. p[2].node = i
  BY <1>2, <1>6, <1>7 DEF Parsed
<1> QED
  BY <1>9, <1>10

LEMMA EmptyMentionsNothing == Mentioned(Empty) = {}
<1> DEFINE K == Cardinality(Keys)
           P == Parts(Empty)
           Good == {d \in Nat : d <= K => P[d] \subseteq {Empty}}
<1>1. K \in Nat
  BY KeysFinite
<1>2. P[0] = {Empty} /\ \A d \in 1 .. K : P[d] = Args(P[d - 1])
  BY PartsAre
<1> HIDE DEF K, P
<1>3. Good = Nat
  <2>1. 0 \in Good
    BY <1>2
  <2>2. ASSUME NEW d \in Good PROVE d + 1 \in Good
    <3> SUFFICES ASSUME d + 1 <= K PROVE P[d + 1] \subseteq {Empty}
      OBVIOUS
    <3>1. d + 1 \in 1 .. K /\ (d + 1) - 1 = d /\ P[d] \subseteq {Empty}
      BY <1>1
    <3> QED
      BY <1>2, <3>1 DEF Args, Empty
  <2>3. Good \in SUBSET Nat
    OBVIOUS
  <2> HIDE DEF Good
  <2> QED
    BY <2>1, <2>2, <2>3, InductionOnNat
<1>4. \A d \in 0 .. K : P[d] \subseteq {Empty}
  BY <1>1, <1>3
<1>5. Empty.node \notin Inputs
  BY Roots DEF Empty
<1> QED
  BY <1>4, <1>5 DEF Mentioned, K, P

LEMMA NoneLostFromInv == RequireInv /\ TransInv /\ TreeInv => NoInputLost
<1> SUFFICES ASSUME RequireInv, TransInv, TreeInv, pc = "translated"
             PROVE  Mentioned(final_expression) = UsedInputs
  BY DEF NoInputLost, Parameters
<1>a. CASE CycleThroughResult
  BY <1>a, EmptyMentionsNothing DEF TreeInv, Endless, Pruned
<1> SUFFICES ASSUME ~CycleThroughResult PROVE Mentioned(final_expression) = UsedInputs
  BY <1>a
<1> DEFINE e == final_expression
           R == Reach(e)
<1>1. pc \in Pruned /\ todo = {} /\ pending = {}
  BY DEF TreeInv, Pruned
<1>2. Rooted /\ Parsed /\ used_nodes \subseteq Keys /\ 0 \in used_nodes
  BY <1>1, Roots DEF TreeInv, TransInv, NeededPart
<1>3. /\ e \in R
      /\ \A x \in R : x = e \/ \E q \in parsed_nodes : q[2] = x
      /\ \A x \in R : x.args \subseteq R
  BY <1>1, PartsOfFinal
<1>4. Mentioned(e) = {x.node : x \in R} \cap Inputs
  BY DEF Mentioned, Reach
<1> HIDE DEF R
<1>5. ASSUME NEW x \in R, x.node \in Inputs PROVE x.node \in UsedInputs
  <2>1. x # Empty
    BY <1>5, Roots DEF Empty
  <2>2. PICK q \in parsed_nodes : q[2] = x
    BY <1>2, <1>3, <2>1 DEF Parsed
  <2>3. q[1] \in used_connections /\ x.node = q[1][1]
    BY <1>2, <2>2 DEF Parsed
  <2>4. q[1] # Result
    BY <1>5, <2>3, Roots DEF Result
  <2> QED
    BY <1>2, <1>5, <2>3, <2>4 DEF Rooted, UsedInputs
<1>6. ASSUME NEW i \in UsedInputs PROVE \E x \in R : x.node = i
  <2>1. Into(0) \subseteq R
    <3>1. Into(0) \subseteq e.args
      BY <1>1, <1>2 DEF Parsed
    <3> QED
      BY <1>3, <3>1
  <2> QED
    BY <1>3, <2>1, AllHeard
<1>7. UsedInputs \subseteq Inputs
  BY DEF UsedInputs
<1> QED
  BY <1>4, <1>5, <1>6, <1>7

\* Whatever connections remove_unused keeps, and in whatever order the sets
\* are gone through: the expression mentions every input the task declares a
\* parameter for, and no other.
THEOREM NoInputIsLost == Spec => []NoInputLost
BY RequireInit, RequireStep, TransInitInv, TransStep, TypesInit, TransTypesStep, TreeInit,
  TreeStep, NoneLostFromInv, PTL DEF Spec

-----------------------------------------------------------------------------
(* A tree whose inputs are equally far from the output is translated node  *)
(* by node.                                                                *)

Carriers == network.enabled \cup {Result}

\* The terms of depth d, made of those of depth d - 1; and the whole of them.
TermRow(f, d) ==
  [c \in Carriers |->
     [node   |-> c[1],
      weight |-> IF c[1] \in Inputs \/ (FALSE /\ c # Result) THEN c ELSE Unweighted,
      args   |-> IF d = 0 THEN {} ELSE {f[d - 1][<<a, c[1]>>] : a \in Links(c[1])}]]

IsTerm(f, n) == f = [d \in 0 .. n |-> TermRow(f, d)]

LEMMA SameRow ==
  ASSUME NEW f, NEW g, NEW d, d = 0 \/ f[d - 1] = g[d - 1]
  PROVE  TermRow(f, d) = TermRow(g, d)
<1>1. CASE d = 0
  BY <1>1, Zenon DEF TermRow
<1>2. CASE f[d - 1] = g[d - 1]
  BY <1>2, Zenon DEF TermRow
<1> QED
  BY <1>1, <1>2

LEMMA TermExists == \A n \in Nat : \E f : IsTerm(f, n)
<1> DEFINE G == {n \in Nat : \E f : IsTerm(f, n)}
<1>1. 0 \in G
  <2> DEFINE f == [d \in 0 .. 0 |-> TermRow(<<>>, d)]
  <2>1. \A d \in 0 .. 0 : d = 0
    OBVIOUS
  <2>2. \A d \in 0 .. 0 : TermRow(f, d) = TermRow(<<>>, d)
    <3> HIDE DEF f
    <3> QED
      BY <2>1, SameRow
  <2>3. IsTerm(f, 0)
    BY <2>2, Zenon DEF IsTerm
  <2> QED
    BY <2>3
<1>2. ASSUME NEW n \in G PROVE n + 1 \in G
  <2>1. n \in Nat
    OBVIOUS
  <2>2. PICK f : IsTerm(f, n)
    OBVIOUS
  <2> DEFINE g == [d \in 0 .. (n + 1) |-> TermRow(f, d)]
  <2>3. \A d \in 0 .. n : g[d] = f[d]
    <3>1. 0 .. n \subseteq 0 .. (n + 1)
      BY <2>1
    <3>2. \A d \in 0 .. n : f[d] = TermRow(f, d)
      BY <2>2, Zenon DEF IsTerm
    <3> QED
      BY <3>1, <3>2, Zenon
  <2>4. \A d \in 0 .. (n + 1) : d = 0 \/ d - 1 \in 0 .. n
    BY <2>1
  <2>5. \A d \in 0 .. (n + 1) : TermRow(g, d) = TermRow(f, d)
    <3> HIDE DEF g
    <3>1. \A d \in 0 .. (n + 1) : d = 0 \/ g[d - 1] = f[d - 1]
      BY <2>3, <2>4, Zenon
    <3> QED
      BY <3>1, SameRow, Zenon
  <2>6. IsTerm(g, n + 1)
    BY <2>5, Zenon DEF IsTerm
  <2> HIDE DEF g
  <2> QED
    BY <2>1, <2>6
<1> HIDE DEF G
<1>3. G = Nat
  BY <1>1, <1>2, InductionOnNat DEF G
<1> QED
  BY <1>3 DEF G

LEMMA TermIs ==
  \A d \in 0 .. Cardinality(Keys) : Term(FALSE)[d] = TermRow(Term(FALSE), d)
<1> DEFINE K == Cardinality(Keys)
<1>1. \E f : IsTerm(f, K)
  BY KeysFinite, TermExists
<1>2. Term(FALSE) = CHOOSE f : IsTerm(f, K)
  BY DEF Term, TermRow, IsTerm, Carriers
<1>3. IsTerm(Term(FALSE), K)
  BY <1>1, <1>2
<1> HIDE DEF K
<1>4. \A d \in 0 .. K : Term(FALSE)[d] = TermRow(Term(FALSE), d)
  BY <1>3, Zenon DEF IsTerm
<1> QED
  BY <1>4 DEF K

\* The term of a connection of an input is the input with its weight.
LEMMA TermOfInput ==
  ASSUME network \in Networks, NEW d \in 0 .. Cardinality(Keys), NEW c \in Carriers, c[1] \in Inputs
  PROVE  Term(FALSE)[d][c] = [node |-> c[1], weight |-> c, args |-> {}]
<1>1. Links(c[1]) = {}
  BY NetworkFacts, NetworkAssumption DEF Links
<1>2. Term(FALSE)[d][c] = TermRow(Term(FALSE), d)[c]
  BY TermIs
<1>3. TermRow(Term(FALSE), d)[c] =
        [node |-> c[1], weight |-> c,
         args |-> IF d = 0 THEN {} ELSE {Term(FALSE)[d - 1][<<a, c[1]>>] : a \in Links(c[1])}]
  BY Zenon DEF TermRow
<1>4. {Term(FALSE)[d - 1][<<a, c[1]>>] : a \in Links(c[1])} = {}
  BY <1>1
<1> QED
  BY <1>2, <1>3, <1>4

\* The term of another connection is made of the terms that feed its node.
LEMMA TermOfNode ==
  ASSUME NEW d \in 1 .. Cardinality(Keys), NEW c \in Carriers, c[1] \notin Inputs
  PROVE  Term(FALSE)[d][c] =
           [node |-> c[1], weight |-> Unweighted,
            args |-> {Term(FALSE)[d - 1][<<a, c[1]>>] : a \in Links(c[1])}]
<1>1. d \in 0 .. Cardinality(Keys) /\ d # 0
  BY KeysFinite
<1>2. Term(FALSE)[d][c] = TermRow(Term(FALSE), d)[c]
  BY <1>1, TermIs
<1> QED
  BY <1>1, <1>2, Zenon DEF TermRow

\* A tree with its inputs at level D.
Shape(level, D) ==
  /\ \A b \in used_nodes : \A a \in Links(b) :
       a \in used_nodes /\ level[a] = level[b] + 1 /\ <<a, b>> \in used_connections
  /\ \A a \in used_nodes : IF a \in Inputs THEN level[a] = D ELSE level[a] < D /\ Links(a) # {}

At(level, l) == {c \in used_connections : level[c[1]] = l}

\* A sweep of translate_model parses one level, and the terms of all
\* connections further from the output are there.
Progress(level, D, cur) ==
  /\ todo \subseteq At(level, cur) /\ cur <= D
  /\ \A b \in pending : b = 999 \/ (b \in used_nodes /\ level[b] = cur - 1)
  /\ \A c \in At(level, cur) \ todo : c[2] \in pending
  /\ \A c \in used_connections :
       level[c[1]] > cur \/ c \in At(level, cur) \ todo => \E p \in parsed_nodes : p[1] = c
  /\ \A p \in parsed_nodes, d \in 0 .. Cardinality(Keys) :
       d >= D - level[p[1][1]] => p[2] = Term(FALSE)[d][p[1]]

LevelInv ==
  pc \in Pruned /\ ~CycleThroughResult =>
    \A level \in [used_nodes -> 0 .. Cardinality(Keys)], D \in 0 .. Cardinality(Keys) :
      Shape(level, D) => \E cur \in Int : Progress(level, D, cur)

\* All that LevelInv needs to know of the other invariants.
KeptFacts ==
  /\ network \in Networks /\ Rooted
  /\ used_nodes \subseteq Keys /\ used_connections \subseteq Carriers
  /\ \A c \in used_connections : c[1] \in used_nodes /\ (c # Result => c[2] \in used_nodes)

TreeFacts == KeptFacts /\ Parsed /\ ~CycleThroughResult

LEMMA TreeFactsHold ==
  RequireInv /\ TransInv /\ TransTypes /\ TreeInv /\ pc \in Pruned =>
    KeptFacts /\ (~CycleThroughResult => TreeFacts)
<1> SUFFICES ASSUME RequireInv, TransInv, TransTypes, TreeInv, pc \in Pruned
             PROVE  KeptFacts /\ (~CycleThroughResult => TreeFacts)
  OBVIOUS
<1>1. Rooted /\ (~CycleThroughResult => Parsed) /\ network \in Networks /\ used_nodes \subseteq Keys /\ 0 \in used_nodes
      /\ used_connections \subseteq Carriers
  BY Roots DEF TreeInv, TransInv, NeededPart, RequireInv, TransTypes, Carriers
<1>2. Result[1] = 0
  BY DEF Result
<1> QED
  BY <1>1, <1>2 DEF TreeFacts, KeptFacts, Rooted

LEMMA LevelStart ==
  ASSUME RequireInv, TransInv, TreeInv, RemoveEnds
  PROVE  LevelInv'
<1>1. /\ pc = "prune" /\ pending' = {} /\ UNCHANGED <<used_nodes, network, parsed_nodes>>
      /\ used_connections' = used_connections \cup {Result} /\ todo' = From(UsedInputs)
  BY DEF RemoveEnds, netVars
<1>2. parsed_nodes = {} /\ Rooted /\ 0 \in used_nodes /\ used_nodes \subseteq Keys
  BY <1>1, Roots DEF TreeInv, TransInv, NeededPart, Pruned
<1> SUFFICES ASSUME NEW level \in [used_nodes' -> 0 .. Cardinality(Keys)],
                    NEW D \in 0 .. Cardinality(Keys), Shape(level, D)'
             PROVE  \E cur \in Int : Progress(level, D, cur)'
  BY DEF LevelInv
<1>3. \A a \in used_nodes : IF a \in Inputs THEN level[a] = D ELSE level[a] < D
  BY <1>1 DEF Shape
<1>4. D \in Int /\ \A a \in used_nodes : level[a] \in Int
  BY <1>1
<1>5. \A c \in used_connections' : c[1] \in used_nodes
  BY <1>1, <1>2 DEF Rooted, Result
<1>6. Result[1] = 0 /\ 0 \notin Inputs
  BY Roots DEF Result
<1>7. \A c \in used_connections' : c \in todo' <=> level[c[1]] = D
  BY <1>1, <1>3, <1>4, <1>5, <1>6 DEF From, UsedInputs
<1>8. \A c \in used_connections' : ~(level[c[1]] > D)
  BY <1>3, <1>4, <1>5
<1>9. todo' \subseteq used_connections'
  BY <1>1 DEF From
<1>10. Progress(level, D, D)'
  BY <1>1, <1>2, <1>4, <1>7, <1>8, <1>9 DEF Progress, At
<1> QED
  BY <1>4, <1>10

LEMMA LevelSweep ==
  ASSUME TreeFacts, LevelInv, NextSweep
  PROVE  LevelInv'
<1>1. /\ pc = "translate" /\ todo = {}
      /\ UNCHANGED <<network, used_nodes, used_connections, parsed_nodes>>
      /\ \/ pending = {} /\ todo' = {} /\ pending' = {}
         \/ todo' = From(pending) /\ pending' = {}
  BY DEF NextSweep, netVars
<1> SUFFICES ASSUME NEW level \in [used_nodes' -> 0 .. Cardinality(Keys)],
                    NEW D \in 0 .. Cardinality(Keys), Shape(level, D)'
             PROVE  \E cur \in Int : Progress(level, D, cur)'
  BY DEF LevelInv
<1>2. level \in [used_nodes -> 0 .. Cardinality(Keys)] /\ Shape(level, D)
  BY <1>1 DEF Shape, Links
<1>3. PICK cur \in Int : Progress(level, D, cur)
  BY <1>1, <1>2 DEF LevelInv, Pruned, TreeFacts
<1>t. Term(FALSE)' = Term(FALSE)
  BY <1>1 DEF Term, Links
<1>4. D \in Int /\ \A a \in used_nodes : level[a] \in Int
  BY <1>2
<1>5. CASE pending = {} /\ todo' = {} /\ pending' = {}
  <2>1. Progress(level, D, cur)'
    BY <1>1, <1>3, <1>5, <1>t DEF Progress, At
  <2> QED
    BY <2>1
<1>6. CASE todo' = From(pending) /\ pending' = {}
  <2>1. ASSUME NEW c \in used_connections, level[c[1]] = cur - 1 PROVE c \in todo'
    <3>1. c[1] \in used_nodes /\ cur <= D
      BY <1>3 DEF TreeFacts, KeptFacts, Progress
    <3>2. PICK x : x \in Links(c[1])
      BY <1>2, <1>4, <2>1, <3>1 DEF Shape
    <3>3. x \in used_nodes /\ level[x] = cur /\ <<x, c[1]>> \in used_connections
      BY <1>2, <1>4, <2>1, <3>1, <3>2 DEF Shape
    <3>4. <<x, c[1]>> \in At(level, cur) \ todo
      BY <1>1, <3>3 DEF At
    <3>5. c[1] \in pending
      BY <1>3, <3>4 DEF Progress
    <3> QED
      BY <1>6, <3>5 DEF From
  <2>2. ASSUME NEW c \in todo' PROVE c \in used_connections /\ level[c[1]] = cur - 1
    <3>1. c \in used_connections /\ c[1] \in pending
      BY <1>6, <2>2 DEF From
    <3>2. c[1] # 999
      BY <3>1 DEF TreeFacts, KeptFacts, CycleThroughResult
    <3> QED
      BY <1>3, <3>1, <3>2 DEF Progress
  <2>3. ASSUME NEW c \in used_connections, level[c[1]] > cur - 1
        PROVE  \E p \in parsed_nodes : p[1] = c
    <3>1. level[c[1]] \in Int
      BY <1>4 DEF TreeFacts, KeptFacts
    <3>2. level[c[1]] > cur \/ c \in At(level, cur) \ todo
      BY <1>1, <2>3, <3>1 DEF At
    <3> QED
      BY <1>3, <3>2 DEF Progress
  <2>4. cur - 1 \in Int /\ cur - 1 <= D
    BY <1>3, <1>4 DEF Progress
  <2>5. At(level, cur - 1)' = todo'
    BY <1>1, <2>1, <2>2 DEF At
  <2>6. \A p \in parsed_nodes, d \in 0 .. Cardinality(Keys) :
          d >= D - level[p[1][1]] => p[2] = Term(FALSE)[d][p[1]]
    BY <1>3 DEF Progress
  <2>7. Progress(level, D, cur - 1)'
    BY <1>1, <1>6, <1>t, <2>3, <2>4, <2>5, <2>6 DEF Progress
  <2> QED
    BY <2>4, <2>7
<1> QED
  BY <1>1, <1>5, <1>6

LEMMA LevelParse ==
  ASSUME TreeFacts, LevelInv, ParseConnection
  PROVE  LevelInv'
<1>1. pc = "translate" /\ UNCHANGED <<network, used_nodes, used_connections>>
  BY DEF ParseConnection, netVars
<1>2. PICK c \in todo :
        /\ todo' = todo \ {c} /\ pending' = pending \cup {c[2]}
        /\ parsed_nodes' = parsed_nodes \cup {<<c, Expression(c[1], c[2])>>}
  BY DEF ParseConnection, TreeFacts
<1> SUFFICES ASSUME NEW level \in [used_nodes' -> 0 .. Cardinality(Keys)],
                    NEW D \in 0 .. Cardinality(Keys), Shape(level, D)'
             PROVE  \E cur \in Int : Progress(level, D, cur)'
  BY DEF LevelInv
<1>3. level \in [used_nodes -> 0 .. Cardinality(Keys)] /\ Shape(level, D)
  BY <1>1 DEF Shape, Links
<1>4. PICK cur \in Int : Progress(level, D, cur)
  BY <1>1, <1>3 DEF LevelInv, Pruned, TreeFacts
<1>t. Term(FALSE)' = Term(FALSE)
  BY <1>1 DEF Term, Links
<1>5. D \in Int /\ cur <= D /\ \A a \in used_nodes : level[a] \in Nat
  BY <1>3, <1>4 DEF Progress
<1>6. /\ c \in used_connections /\ c \in Carriers /\ level[c[1]] = cur
      /\ c[1] \in used_nodes /\ (c # Result => c[2] \in used_nodes)
  BY <1>4 DEF Progress, At, TreeFacts, KeptFacts
<1>c. c = <<c[1], c[2]>>
  <2>1. CASE c = Result
    BY <2>1 DEF Result
  <2>2. CASE c \in network.enabled
    BY <2>2, NetworkFacts DEF TreeFacts, KeptFacts
  <2> QED
    BY <1>6, <2>1, <2>2 DEF Carriers
<1> DEFINE e == Expression(c[1], c[2])
           new == <<c, e>>
<1>7. ASSUME NEW d \in 0 .. Cardinality(Keys), d >= D - cur PROVE e = Term(FALSE)[d][c]
  <2>1. CASE c[1] \in Inputs
    <3>1. e = [node |-> c[1], weight |-> c, args |-> {}]
      BY <1>6, <1>c, <2>1 DEF Expression, UsedInputs
    <3> QED
      BY <1>6, <2>1, <3>1, TermOfInput DEF TreeFacts, KeptFacts
  <2>2. CASE c[1] \notin Inputs
    <3>1. cur < D /\ d \in Nat /\ d # 0 /\ d - 1 \in 0 .. Cardinality(Keys)
          /\ d - 1 >= D - (cur + 1) /\ d \in 1 .. Cardinality(Keys)
      BY <1>3, <1>5, <1>6, <1>7, <2>2, KeysFinite DEF Shape
    <3>2. e = [node |-> c[1], weight |-> Unweighted, args |-> Into(c[1])]
      BY <2>2 DEF Expression, UsedInputs, Into
    <3>3. ASSUME NEW p \in parsed_nodes, p[1][2] = c[1]
          PROVE  \E a \in Links(c[1]) : p[2] = Term(FALSE)[d - 1][<<a, c[1]>>]
      <4>1. p[1] \in used_connections /\ p[1] # Result
        BY <1>6, <3>3 DEF TreeFacts, KeptFacts, Parsed, Result, CycleThroughResult
      <4>2. p[1] \in network.enabled
        BY <4>1 DEF TreeFacts, KeptFacts, Carriers
      <4>3. p[1] = <<p[1][1], c[1]>> /\ p[1][1] \in Links(c[1])
        BY <3>3, <4>2, NetworkFacts DEF TreeFacts, KeptFacts, Links
      <4>4. level[p[1][1]] = cur + 1
        BY <1>3, <1>6, <4>3 DEF Shape
      <4>5. p[2] = Term(FALSE)[d - 1][p[1]]
        BY <1>4, <3>1, <4>4 DEF Progress
      <4> QED
        BY <4>3, <4>5
    <3>4. ASSUME NEW a \in Links(c[1])
          PROVE  \E p \in parsed_nodes : p[1][2] = c[1] /\ p[2] = Term(FALSE)[d - 1][<<a, c[1]>>]
      <4>1. a \in used_nodes /\ level[a] = cur + 1 /\ <<a, c[1]>> \in used_connections
        BY <1>3, <1>6 DEF Shape
      <4>2. level[<<a, c[1]>>[1]] > cur
        BY <4>1
      <4>3. PICK p \in parsed_nodes : p[1] = <<a, c[1]>>
        BY <1>4, <4>1, <4>2 DEF Progress
      <4>4. p[1][1] = a /\ p[1][2] = c[1]
        BY <4>3
      <4>5. d - 1 >= D - level[p[1][1]]
        BY <3>1, <4>1, <4>4
      <4>6. p[2] = Term(FALSE)[d - 1][p[1]]
        BY <1>4, <3>1, <4>5 DEF Progress
      <4>7. p[2] = Term(FALSE)[d - 1][<<a, c[1]>>]
        BY <4>3, <4>6
      <4> QED
        BY <4>4, <4>7
    <3>5. Into(c[1]) = {Term(FALSE)[d - 1][<<a, c[1]>>] : a \in Links(c[1])}
      BY <3>3, <3>4 DEF Into
    <3> QED
      BY <1>6, <2>2, <3>1, <3>2, <3>5, TermOfNode
  <2> QED
    BY <2>1, <2>2
<1>8. new[1] = c /\ new[2] = e /\ parsed_nodes' = parsed_nodes \cup {new}
  BY <1>2
<1> HIDE DEF e, new
<1>9. Progress(level, D, cur)'
  <2>1. todo' \subseteq At(level, cur)' /\ cur <= D
    BY <1>1, <1>2, <1>4 DEF Progress, At
  <2>2. ASSUME NEW b \in pending' PROVE b = 999 \/ (b \in used_nodes' /\ level[b] = cur - 1)
    <3>1. CASE b \in pending
      BY <1>1, <1>4, <3>1 DEF Progress
    <3>2. CASE b = c[2] /\ c = Result
      BY <3>2 DEF Result
    <3>3. CASE b = c[2] /\ c # Result
      <4>1. c \in network.enabled /\ b \in used_nodes
        BY <1>6, <3>3 DEF Carriers
      <4>2. c[1] \in Links(b)
        BY <1>c, <3>3, <4>1, <1>6 DEF Links, TreeFacts, KeptFacts
      <4>3. level[c[1]] = level[b] + 1
        BY <1>3, <4>1, <4>2 DEF Shape
      <4> QED
        BY <1>1, <1>5, <1>6, <4>1, <4>3
    <3> QED
      BY <1>2, <2>2, <3>1, <3>2, <3>3
  <2>3. ASSUME NEW g \in At(level, cur)' \ todo' PROVE g[2] \in pending'
    BY <1>1, <1>2, <1>4, <2>3 DEF Progress, At
  <2>4. ASSUME NEW g \in used_connections',
               level[g[1]] > cur \/ g \in At(level, cur)' \ todo'
        PROVE  \E p \in parsed_nodes' : p[1] = g
    <3>1. CASE g = c
      BY <1>8, <3>1
    <3>2. CASE g # c
      BY <1>1, <1>2, <1>4, <1>8, <2>4, <3>2 DEF Progress, At
    <3> QED
      BY <3>1, <3>2
  <2>5. ASSUME NEW p \in parsed_nodes', NEW d \in 0 .. Cardinality(Keys),
               d >= D - level[p[1][1]]
        PROVE  p[2] = Term(FALSE)[d][p[1]]
    <3>1. CASE p = new
      BY <1>6, <1>7, <1>8, <2>5, <3>1
    <3>2. CASE p \in parsed_nodes
      BY <1>4, <2>5, <3>2 DEF Progress
    <3> QED
      BY <1>8, <3>1, <3>2
  <2> QED
    BY <2>1, <2>2, <2>3, <2>4, <2>5, <1>t DEF Progress
<1> QED
  BY <1>9

LEMMA LevelInitInv == Init => LevelInv
BY DEF Init, NetInit, LevelInv, Pruned

LEMMA LevelUnchanged ==
  ASSUME LevelInv, UNCHANGED <<pc, network, transVars>> \/ pc' \notin Pruned
  PROVE  LevelInv'
<1>1. CASE pc' \notin Pruned
  BY <1>1 DEF LevelInv, Pruned
<1>2. CASE UNCHANGED <<pc, network, transVars>>
  <2>1. UNCHANGED <<pc, used_nodes, used_connections, todo, pending, parsed_nodes>>
    BY <1>2 DEF transVars
  <2>n. \A n : Links(n)' = Links(n)
    BY <1>2 DEF Links
  <2>t. Term(FALSE)' = Term(FALSE)
    BY <1>2 DEF Term, Links
  <2>2. ASSUME NEW level, NEW D PROVE Shape(level, D)' <=> Shape(level, D)
    BY <2>1, <2>n, Zenon DEF Shape
  <2>3. ASSUME NEW level, NEW D, NEW cur, Progress(level, D, cur)
        PROVE  Progress(level, D, cur)'
    <3>1. At(level, cur)' = At(level, cur)
      BY <2>1 DEF At
    <3>2. \A p \in parsed_nodes, d \in 0 .. Cardinality(Keys) :
            d >= D - level[p[1][1]] => p[2] = Term(FALSE)[d][p[1]]
      BY <2>3 DEF Progress
    <3>3. \A p \in parsed_nodes', d \in 0 .. Cardinality(Keys) :
            d >= D - level[p[1][1]] => p[2] = Term(FALSE)'[d][p[1]]
      BY <2>1, <2>t, <3>2, Zenon
    <3>4. /\ todo' \subseteq At(level, cur)' /\ cur <= D
          /\ \A b \in pending' : b = 999 \/ (b \in used_nodes' /\ level[b] = cur - 1)
          /\ \A c \in At(level, cur)' \ todo' : c[2] \in pending'
      BY <2>1, <2>3, <3>1 DEF Progress
    <3>5. \A c \in used_connections' :
            level[c[1]] > cur \/ c \in At(level, cur)' \ todo' => \E p \in parsed_nodes' : p[1] = c
      BY <2>1, <2>3, <3>1 DEF Progress
    <3> QED
      BY <3>3, <3>4, <3>5, Zenon DEF Progress
  <2>4. (pc \in Pruned /\ ~CycleThroughResult)' <=> (pc \in Pruned /\ ~CycleThroughResult)
    BY <2>1 DEF CycleThroughResult, Pruned
  <2> QED
    BY <2>1, <2>2, <2>3, <2>4 DEF LevelInv
<1> QED
  BY <1>1, <1>2

LEMMA LevelStep ==
  RequireInv /\ TransInv /\ TransTypes /\ TreeInv /\ LevelInv /\ [Next]_vars => LevelInv'
<1> SUFFICES ASSUME RequireInv, TransInv, TransTypes, TreeInv, LevelInv, [Next]_vars
             PROVE  LevelInv'
  OBVIOUS
<1>1. CASE RemoveEnds
  BY <1>1, LevelStart
<1>2. CASE ParseConnection \/ NextSweep
  <2>c. CASE CycleThroughResult
    BY <1>2, <2>c DEF ParseConnection, NextSweep, CycleThroughResult, LevelInv
  <2> SUFFICES ASSUME ~CycleThroughResult PROVE LevelInv'
    BY <2>c
  <2>1. TreeFacts
    BY <1>2, TreeFactsHold DEF ParseConnection, NextSweep, Pruned
  <2> QED
    BY <1>2, <2>1, LevelParse, LevelSweep
<1>3. CASE FormatSweep \/ RemoveSweep
  BY <1>3, LevelUnchanged DEF FormatSweep, RemoveSweep, Pruned
<1>4. CASE Build
  BY <1>4, LevelUnchanged DEF Build, NetNext, Require, AddLayer, Pruned
<1>5. CASE Activate
  BY <1>5, LevelUnchanged DEF Activate, RecNext, Gather, Call, BeginTurn, EvalNode, SumCurrent,
    AdvanceNeurons, EndTurn, EndCall, Reset, SetNodeValue, Pruned
<1>6. CASE UNCHANGED vars
  BY <1>6, LevelUnchanged DEF vars, netVars
<1> QED
  BY <1>1, <1>2, <1>3, <1>4, <1>5, <1>6 DEF Next, Translate, TransNext

\* A level tree has inputs, and they are its deepest keys.
LEMMA ShapeExists ==
  ASSUME RequireInv, TransInv, TransTypes, TreeInv, pc \in Pruned, LevelTree
  PROVE  /\ UsedInputs # {}
         /\ \E level \in [used_nodes -> 0 .. Cardinality(Keys)], D \in 0 .. Cardinality(Keys) :
              Shape(level, D)
<1>1. KeptFacts /\ 0 \in used_nodes /\ ClosedBut(used_nodes, {})
  BY TreeFactsHold, Roots DEF TransInv, NeededPart
<1>2. used_nodes \cap Nodes = required
  BY NodesAgree DEF Pruned
<1>3. PICK level \in [used_nodes -> 0 .. Cardinality(Keys)] :
        /\ \A b \in used_nodes : \A a \in Links(b) : level[a] = level[b] + 1
        /\ \A i, j \in UsedInputs : level[i] = level[j]
  BY DEF LevelTree
<1>4. \A b \in used_nodes : Links(b) \subseteq used_nodes
  BY <1>1 DEF ClosedBut
<1>5. \A a \in used_nodes \ Inputs : Links(a) # {}
  <2>1. \A a \in used_nodes \ Inputs : a \in required
    BY <1>1, <1>2 DEF KeptFacts, Keys
  <2> QED
    BY <2>1 DEF LevelTree, Starved
<1>6. ASSUME NEW m \in Nat, \A i \in UsedInputs : level[i] <= m,
             NEW b \in used_nodes \ Inputs, level[b] >= m
      PROVE  FALSE
  <2> DEFINE Deep == {n \in Nat : \E a \in used_nodes \ Inputs : level[a] >= m + n}
  <2>1. 0 \in Deep
    BY <1>6
  <2>2. ASSUME NEW n \in Deep PROVE n + 1 \in Deep
    <3>1. PICK a \in used_nodes \ Inputs : level[a] >= m + n
      OBVIOUS
    <3>2. PICK x \in Links(a) : x \in used_nodes /\ level[x] = level[a] + 1
      BY <1>3, <1>4, <1>5, <3>1
    <3>3. level[a] \in Nat /\ level[x] \in Nat /\ n \in Nat
      BY <1>3, <3>1, <3>2
    <3>4. x \notin Inputs
      BY <1>6, <3>1, <3>2, <3>3 DEF UsedInputs
    <3> QED
      BY <1>6, <3>1, <3>2, <3>3, <3>4
  <2>3. Deep \in SUBSET Nat
    OBVIOUS
  <2> HIDE DEF Deep
  <2>4. Cardinality(Keys) + 1 \in Deep
    BY <2>1, <2>2, <2>3, KeysFinite, InductionOnNat
  <2>5. PICK a \in used_nodes : level[a] >= m + (Cardinality(Keys) + 1)
    BY <2>4 DEF Deep
  <2>6. level[a] \in 0 .. Cardinality(Keys)
    BY <1>3
  <2> QED
    BY <1>6, <2>5, <2>6, KeysFinite
<1>7. UsedInputs # {}
  <2> SUFFICES ASSUME UsedInputs = {} PROVE FALSE
    OBVIOUS
  <2>1. 0 \in used_nodes \ Inputs /\ level[0] >= 0
    BY <1>1, <1>3, KeysFinite, Roots
  <2> QED
    BY <1>6, <2>1
<1>8. PICK i \in UsedInputs : TRUE
  BY <1>7
<1> DEFINE D == level[i]
<1>9. D \in 0 .. Cardinality(Keys) /\ D \in Nat
  BY <1>3, KeysFinite DEF UsedInputs
<1>10. \A j \in UsedInputs : level[j] = D
  BY <1>3
<1> HIDE DEF D
<1>11. \A a \in used_nodes : IF a \in Inputs THEN level[a] = D ELSE level[a] < D /\ Links(a) # {}
  <2>1. \A a \in used_nodes \cap Inputs : level[a] = D
    BY <1>10 DEF UsedInputs
  <2>2. ASSUME NEW a \in used_nodes \ Inputs PROVE level[a] < D
    <3>1. \A j \in UsedInputs : level[j] <= D
      BY <1>9, <1>10
    <3>2. ~(level[a] >= D)
      BY <1>6, <1>9, <3>1
    <3>3. level[a] \in Nat
      BY <1>3
    <3> QED
      BY <1>9, <3>2, <3>3
  <2> QED
    BY <1>5, <2>1, <2>2
<1>12. ASSUME NEW b \in used_nodes, NEW a \in Links(b) PROVE <<a, b>> \in used_connections
  <2>1. a \in used_nodes /\ level[a] = level[b] + 1
    BY <1>3, <1>4
  <2>2. ASSUME NEW c \in used_connections \ {Result}
        PROVE  c[2] \in used_nodes /\ c[1] \in Links(c[2]) /\ c = <<c[1], c[2]>>
               /\ level[c[1]] = level[c[2]] + 1
    <3>1. c \in network.enabled /\ network.enabled \subseteq Keys \X Nodes /\ c[2] \in used_nodes
      BY <1>1, <2>2, NetworkFacts DEF KeptFacts, Carriers
    <3>2. c[1] \in Links(c[2]) /\ c = <<c[1], c[2]>>
      BY <3>1 DEF Links
    <3> QED
      BY <1>3, <3>1, <3>2
  <2>3. a # 0
    <3> SUFFICES ASSUME a = 0 PROVE FALSE
      OBVIOUS
    <3> DEFINE Above == {y \in used_nodes : level[y] < level[0]}
    <3>1. \A y \in used_nodes : level[y] \in Nat
      BY <1>3
    <3>2. b \in Above /\ 0 \notin Above
      BY <1>1, <2>1, <3>1
    <3>3. \A c \in used_connections \ {Result} : c[1] \in Above => c[2] \in Above
      BY <1>1, <2>2, <3>1
    <3>4. Above \in SUBSET used_nodes
      OBVIOUS
    <3> HIDE DEF Above
    <3> QED
      BY <1>1, <3>2, <3>3, <3>4 DEF KeptFacts, Rooted
  <2>4. PICK c \in used_connections \ {Result} : c[1] = a
    <3>1. {a} \in SUBSET used_nodes /\ {a} # {} /\ 0 \notin {a}
      BY <2>1, <2>3
    <3>2. \E c \in used_connections \ {Result} : c[1] \in {a} /\ c[2] \notin {a}
      BY <1>1, <3>1 DEF KeptFacts, Rooted
    <3> QED
      BY <3>2
  <2> DEFINE Fed == {x \in used_nodes : a \in Links(x)}
  <2>5. Cardinality(Fed) = 1
    BY <2>1, <2>3, Roots DEF LevelTree
  <2>6. IsFiniteSet(Fed)
    <3>1. Fed \in SUBSET Keys
      BY <1>1 DEF KeptFacts
    <3> QED
      BY <3>1, KeysFinite, FS_Subset
  <2>7. b \in Fed /\ c[2] \in Fed
    BY <2>2, <2>4
  <2> HIDE DEF Fed
  <2>8. b = c[2]
    <3>1. \E x : Fed = {x}
      BY <2>5, <2>6, FS_Singleton
    <3> QED
      BY <2>7, <3>1
  <2> QED
    BY <2>2, <2>4, <2>8
<1>13. Shape(level, D)
  BY <1>3, <1>4, <1>11, <1>12 DEF Shape
<1> QED
  BY <1>7, <1>9, <1>13

LEMMA TreesFromInv ==
  RequireInv /\ TransInv /\ TransTypes /\ TreeInv /\ LevelInv => TranslatesTrees
<1> SUFFICES ASSUME RequireInv, TransInv, TransTypes, TreeInv, LevelInv,
                    pc = "translated", LevelTree
             PROVE  final_expression = Term(FALSE)[Cardinality(Keys)][Result]
  BY DEF TranslatesTrees, Computes
<1>2. UsedInputs # {}
  BY ShapeExists DEF Pruned
<1>1. pc \in Pruned /\ todo = {} /\ pending = {} /\ TreeFacts /\ 0 \in used_nodes
  BY <1>2, TreeFactsHold, Roots DEF TreeInv, TransInv, NeededPart, Pruned, Endless
<1>3. PICK level \in [used_nodes -> 0 .. Cardinality(Keys)], D \in 0 .. Cardinality(Keys) :
        Shape(level, D)
  BY <1>1, ShapeExists
<1>4. PICK cur \in Int : Progress(level, D, cur)
  BY <1>1, <1>3 DEF LevelInv, TreeFacts
<1>5. final_expression # Empty
  <2> SUFFICES ASSUME final_expression = Empty PROVE FALSE
    OBVIOUS
  <2>1. Into(0) \subseteq {}
    BY <1>1 DEF TreeFacts, KeptFacts, Parsed, Empty
  <2> QED
    BY <1>1, <1>2, <2>1, AllHeard DEF TreeFacts
<1>6. PICK p \in parsed_nodes : p[1][1] = 0 /\ p[2] = final_expression
  BY <1>1, <1>5 DEF TreeFacts, KeptFacts, Parsed
<1>7. p[1] = Result
  <2> SUFFICES ASSUME p[1] # Result PROVE FALSE
    OBVIOUS
  <2>1. \A y \in used_nodes : level[y] \in Nat
    BY <1>3
  <2>2. ASSUME NEW c \in used_connections \ {Result}
        PROVE  c[2] \in used_nodes /\ level[c[1]] = level[c[2]] + 1
    <3>1. c \in network.enabled /\ network.enabled \subseteq Keys \X Nodes /\ c[2] \in used_nodes
      BY <1>1, <2>2, NetworkFacts DEF TreeFacts, KeptFacts, Carriers
    <3>2. c[1] \in Links(c[2])
      BY <3>1 DEF Links
    <3> QED
      BY <1>3, <3>1, <3>2 DEF Shape
  <2>3. p[1] \in used_connections \ {Result}
    BY <1>1 DEF TreeFacts, KeptFacts, Parsed
  <2> DEFINE Above == {y \in used_nodes : level[y] < level[0]}
  <2>4. p[1][2] \in Above /\ 0 \notin Above
    BY <1>1, <1>6, <2>1, <2>2, <2>3
  <2>5. \A c \in used_connections \ {Result} : c[1] \in Above => c[2] \in Above
    BY <1>1, <2>1, <2>2
  <2>6. Above \in SUBSET used_nodes
    OBVIOUS
  <2> HIDE DEF Above
  <2> QED
    BY <1>1, <2>4, <2>5, <2>6 DEF TreeFacts, KeptFacts, Rooted
<1>8. level[p[1][1]] \in Nat /\ Cardinality(Keys) \in 0 .. Cardinality(Keys)
      /\ Cardinality(Keys) >= D - level[p[1][1]]
  BY <1>1, <1>3, <1>6, KeysFinite
<1>9. p[2] = Term(FALSE)[Cardinality(Keys)][p[1]]
  BY <1>4, <1>8 DEF Progress
<1> QED
  BY <1>6, <1>7, <1>9

\* Where a network is a tree with its inputs equally far from the output, its
\* task computes what the network does, weights of inner connections apart.
THEOREM TreesAreTranslated == Spec => []TranslatesTrees
BY RequireInit, RequireStep, TransInitInv, TransStep, TypesInit, TransTypesStep, TreeInit,
  TreeStep, LevelInitInv, LevelStep, TreesFromInv, PTL DEF Spec
==============================================================================
