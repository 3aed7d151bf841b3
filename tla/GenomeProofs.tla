---------------------------- MODULE GenomeProofs ----------------------------
(* Theorems about Genome, for every value of its constants. *)
EXTENDS Genome, TLAPS

-----------------------------------------------------------------------------
(* Acyclic sets of connections. *)

LEMMA KeyFacts == /\ InputKeys \subseteq Keys /\ NodeKeys \subseteq Keys
                  /\ InputKeys \cap NodeKeys = {} /\ InputKeys \cap OutputKeys = {}
                  /\ Keys \subseteq Int /\ OutputKeys \subseteq Nat /\ NodeKeys \subseteq Nat
BY GenomeAssumption DEF InputKeys, NodeKeys, OutputKeys, Keys

\* Removing connections closes no cycle.
LEMMA FewerAreAcyclic ==
  ASSUME NEW C, Acyclic(C), NEW D \in SUBSET C
  PROVE  Acyclic(D)
BY DEF Acyclic

\* The nodes reached from o are closed under C and contain o.
LEMMA VisitedIsClosed ==
  ASSUME NEW C \in SUBSET (Keys \X Keys), NEW o \in Keys
  PROVE  /\ o \in Visited(C, o)
         /\ \A x \in Visited(C, o), y \in Keys : <<x, y>> \in C => y \in Visited(C, o)
BY DEF Visited, Closed

\* A connection that creates_cycle accepts leaves the set acyclic: were
\* S a set without a sink, the part of it reached from o would be one
\* before the connection was added.
LEMMA ConnectIsAcyclic ==
  ASSUME NEW C \in SUBSET (Keys \X Keys), Acyclic(C),
         NEW i \in Keys, NEW o \in Keys, ~creates_cycle(C, i, o)
  PROVE  Acyclic(C \cup {<<i, o>>})
<1> SUFFICES ASSUME NEW S \in SUBSET Keys, S # {},
                    \A x \in S : \E y \in S : <<x, y>> \in C \cup {<<i, o>>}
             PROVE  FALSE
  BY DEF Acyclic
<1>1. i # o /\ i \notin Visited(C, o)
  BY DEF creates_cycle
<1>2. i \in S /\ o \in S
  <2>1. PICK x \in S : \A y \in S : <<x, y>> \notin C
    BY DEF Acyclic
  <2> QED
    BY <2>1
<1> DEFINE R == Visited(C, o) \cap S
<1>3. R \in SUBSET Keys /\ R # {}
  BY <1>2, VisitedIsClosed
<1>4. PICK x \in R : \A y \in R : <<x, y>> \notin C
  BY <1>3 DEF Acyclic
<1>5. PICK y \in S : <<x, y>> \in C \cup {<<i, o>>}
  OBVIOUS
<1>6. <<x, y>> \in C
  BY <1>1, <1>4, <1>5
<1> QED
  BY <1>4, <1>5, <1>6, VisitedIsClosed

\* Splitting a connection at a new node closes no cycle: skipping the new
\* node turns a set without a sink into one that existed before.
LEMMA SplitIsAcyclic ==
  ASSUME NEW C \in SUBSET (Keys \X Keys), Acyclic(C), NEW i \in Keys, NEW o \in Keys,
         <<i, o>> \in C, NEW n \in Keys, \A x \in Keys : <<x, n>> \notin C /\ <<n, x>> \notin C
  PROVE  Acyclic(C \cup {<<i, n>>, <<n, o>>})
<1> SUFFICES ASSUME NEW S \in SUBSET Keys, S # {},
                    \A x \in S : \E y \in S : <<x, y>> \in C \cup {<<i, n>>, <<n, o>>}
             PROVE  FALSE
  BY DEF Acyclic
<1>1. n # i /\ n # o
  OBVIOUS
<1> DEFINE T == S \ {n}
<1>2. T \in SUBSET Keys /\ T # {}
  <2>1. PICK x \in S : TRUE
    OBVIOUS
  <2>2. PICK y \in S : <<x, y>> \in C \cup {<<i, n>>, <<n, o>>}
    BY <2>1
  <2>3. x # n \/ y # n
    BY <1>1, <2>2
  <2> QED
    BY <2>1, <2>2, <2>3
<1>3. PICK x \in T : \A y \in T : <<x, y>> \notin C
  BY <1>2 DEF Acyclic
<1>4. PICK y \in S : <<x, y>> \in C \cup {<<i, n>>, <<n, o>>}
  OBVIOUS
<1>5. y = n /\ x = i
  BY <1>3, <1>4
<1>6. n \in S /\ o \in S
  <2>1. n \in S
    BY <1>5
  <2>2. PICK z \in S : <<n, z>> \in C \cup {<<i, n>>, <<n, o>>}
    BY <2>1
  <2>3. <<n, z>> \notin C
    BY <2>2
  <2> QED
    BY <1>1, <2>1, <2>2, <2>3
<1> QED
  BY <1>1, <1>3, <1>5, <1>6

\* Connections from inputs to hidden or output nodes and from hidden nodes
\* to output nodes contain no cycle.
LEMMA LayeredIsAcyclic ==
  ASSUME NEW H \in SUBSET Keys, H \cap (InputKeys \cup OutputKeys) = {},
         NEW C, \A c \in C : /\ c = <<c[1], c[2]>>
                             /\ \/ c[1] \in InputKeys /\ c[2] \in H \cup OutputKeys
                                \/ c[1] \in H /\ c[2] \in OutputKeys
  PROVE  Acyclic(C)
<1> SUFFICES ASSUME NEW S \in SUBSET Keys, S # {} PROVE \E x \in S : \A y \in S : <<x, y>> \notin C
  BY DEF Acyclic
<1>1. \A x, y : <<x, y>> \in C => \/ x \in InputKeys /\ y \in H \cup OutputKeys
                                  \/ x \in H /\ y \in OutputKeys
  OBVIOUS
<1>2. CASE \E x \in S : x \in OutputKeys
  BY <1>1, <1>2, KeyFacts
<1>3. CASE (\E x \in S : x \in H) /\ ~\E x \in S : x \in OutputKeys
  BY <1>1, <1>3, KeyFacts
<1>4. CASE ~\E x \in S : x \in H \cup OutputKeys
  BY <1>1, <1>4
<1> QED
  BY <1>2, <1>3, <1>4

-----------------------------------------------------------------------------
(* Well-formed genomes. *)

WellFormed(g) ==
  /\ g \in Genomes
  /\ OutputKeys \subseteq g.nodes
  /\ \A c \in g.conns : /\ c[1] \in g.nodes \cup InputKeys /\ c[2] \in g.nodes
                        /\ {c[1], c[2]} \subseteq OutputKeys => c[1] = c[2]
  /\ FeedForward => Acyclic(g.conns)

\* Bound(next): no key in use reaches it; the key the indexer gives next.
Bound(next) == IF next = NoIndexer THEN NumOutputs ELSE next

LEMMA BoundGrows ==
  ASSUME NEW a, NEW b, a = NoIndexer \/ a \in NumOutputs .. MaxKey,
         b = NoIndexer \/ b \in NumOutputs .. MaxKey, a <= b
  PROVE  Bound(a) \in Int /\ Bound(b) \in Int /\ Bound(a) <= Bound(b)
<1>1. NumOutputs \in Nat /\ MaxKey \in Nat /\ NoIndexer = -1
  BY GenomeAssumption DEF NoIndexer
<1>2. /\ a = NoIndexer => Bound(a) = NumOutputs
      /\ b = NoIndexer => Bound(b) = NumOutputs
      /\ a # NoIndexer => Bound(a) = a
      /\ b # NoIndexer => Bound(b) = b
  BY DEF Bound
<1>3. CASE a = NoIndexer /\ b = NoIndexer
  BY <1>1, <1>2, <1>3
<1>4. CASE a = NoIndexer /\ b # NoIndexer
  BY <1>1, <1>2, <1>4
<1>5. CASE a # NoIndexer /\ b = NoIndexer
  BY <1>1, <1>2, <1>5
<1>6. CASE a # NoIndexer /\ b # NoIndexer
  BY <1>1, <1>2, <1>6
<1> QED
  BY <1>3, <1>4, <1>5, <1>6

\* A genome with an indexer above its keys.  Beyond MaxKey nothing is said.
Good(g, next) ==
  /\ next \in Int /\ (next = NoIndexer \/ next >= NumOutputs)
  /\ next <= MaxKey => WellFormed(g) /\ \A n \in g.nodes : n < Bound(next)

LEMMA NewKey ==
  ASSUME NEW g, NEW next, Good(g, next), next <= MaxKey
  PROVE  get_new_node_key(g.nodes, next) = Bound(next)
<1>1. /\ g.nodes \in SUBSET NodeKeys /\ OutputKeys \subseteq g.nodes
      /\ \A n \in g.nodes : n < Bound(next)
  BY DEF Good, WellFormed, Genomes
<1>2. CASE next = NoIndexer
  <2>1. /\ NumOutputs \in Nat \ {0} /\ NumOutputs - 1 \in g.nodes
        /\ \A n \in g.nodes : n \in Int /\ n <= NumOutputs - 1
    <3>1. NumOutputs \in Nat \ {0} /\ NumOutputs - 1 \in OutputKeys
      BY GenomeAssumption DEF OutputKeys
    <3>2. \A n \in g.nodes : n \in Int /\ n < NumOutputs
      BY <1>1, <1>2, KeyFacts DEF Bound
    <3> QED
      BY <1>1, <3>1, <3>2
  <2>2. (CHOOSE m \in g.nodes : \A n \in g.nodes : n <= m) = NumOutputs - 1
    BY <2>1
  <2> QED
    BY <1>2, <2>1, <2>2 DEF get_new_node_key, Bound
<1>3. CASE next # NoIndexer
  BY <1>3 DEF get_new_node_key, Bound
<1> QED
  BY <1>2, <1>3

LEMMA AddConnectionIsGood ==
  ASSUME NEW g, NEW next, Good(g, next), NEW r \in mutate_add_connection(g, next)
  PROVE  Good(r.genome, r.indexer) /\ next <= r.indexer
<1> DEFINE R(i, o) == Result(IF Refused(g, i, o) THEN g ELSE Connect(g, <<i, o>>), next)
<1>0. r \in {R(i, o) : i \in g.nodes \cup InputKeys, o \in g.nodes}
  <2>1. mutate_add_connection(g, next) = {R(i, o) : i \in g.nodes \cup InputKeys, o \in g.nodes}
    BY DEF mutate_add_connection
  <2> QED
    BY <2>1
<1> HIDE DEF R
<1>1. PICK i \in g.nodes \cup InputKeys, o \in g.nodes : r = R(i, o)
  BY <1>0
<1> USE DEF R
<1>2. CASE Refused(g, i, o)
  BY <1>1, <1>2 DEF Result, Good
<1>3. CASE ~Refused(g, i, o) /\ next <= MaxKey
  <2>1. WellFormed(g)
    BY <1>3 DEF Good
  <2>2. /\ g = [nodes |-> g.nodes, conns |-> g.conns] /\ g.nodes \in SUBSET NodeKeys
        /\ g.conns \in SUBSET (Keys \X Keys) /\ i \in Keys /\ o \in Keys
    BY <2>1, KeyFacts DEF WellFormed, Genomes
  <2>3. Connect(g, <<i, o>>) = [nodes |-> g.nodes, conns |-> g.conns \cup {<<i, o>>}]
    BY <2>2 DEF Connect
  <2>4. FeedForward => Acyclic(g.conns \cup {<<i, o>>})
    BY <1>3, <2>1, <2>2, ConnectIsAcyclic DEF Refused, WellFormed
  <2>5. WellFormed(Connect(g, <<i, o>>))
    <3> DEFINE h == [nodes |-> g.nodes, conns |-> g.conns \cup {<<i, o>>}]
    <3>1. h \in Genomes
      BY <2>2 DEF Genomes
    <3>2. \A c \in h.conns : /\ c[1] \in h.nodes \cup InputKeys /\ c[2] \in h.nodes
                             /\ {c[1], c[2]} \subseteq OutputKeys => c[1] = c[2]
      BY <1>1, <1>3, <2>1 DEF WellFormed, Refused
    <3>3. OutputKeys \subseteq h.nodes /\ (FeedForward => Acyclic(h.conns))
      BY <2>1, <2>4 DEF WellFormed
    <3> QED
      BY <2>3, <3>1, <3>2, <3>3 DEF WellFormed
  <2> QED
    BY <1>1, <1>3, <2>3, <2>5 DEF Result, Good
<1>4. CASE ~(next <= MaxKey)
  BY <1>1, <1>4 DEF Result, Good
<1> QED
  BY <1>2, <1>3, <1>4

LEMMA AddNodeIsGood ==
  ASSUME NEW g, NEW next, Good(g, next), NEW r \in mutate_add_node(g, next)
  PROVE  Good(r.genome, r.indexer) /\ next <= r.indexer
<1>1. CASE g.conns = {}
  BY <1>1, AddConnectionIsGood DEF mutate_add_node, Result, Good
<1>2. CASE g.conns # {} /\ next <= MaxKey
  <2> DEFINE n == Bound(next)
  <2>1. PICK c \in g.conns : r = Result(Split(g, c, n), n + 1)
    BY <1>2, NewKey DEF mutate_add_node
  <2>2. /\ n \in Nat /\ n >= NumOutputs /\ next <= n + 1 /\ n + 1 # NoIndexer
        /\ NumOutputs \in Nat \ {0} /\ MaxKey \in Nat
    BY <1>2, GenomeAssumption DEF Good, Bound, NoIndexer
  <2>3. WellFormed(g) /\ \A k \in g.nodes : k < n
    BY <1>2 DEF Good
  <2>4. /\ g.nodes \in SUBSET NodeKeys /\ g.conns \in SUBSET (Keys \X Keys)
        /\ c = <<c[1], c[2]>> /\ c[1] \in Keys /\ c[2] \in Keys /\ n \notin g.nodes
        /\ n \notin OutputKeys /\ n \notin InputKeys
    BY <2>1, <2>2, <2>3, KeyFacts DEF WellFormed, Genomes, OutputKeys, InputKeys
  <2>5. ASSUME n + 1 <= MaxKey PROVE WellFormed(Split(g, c, n))
    <3> DEFINE h == Split(g, c, n)
    <3>1. n \in NodeKeys /\ n \in Keys
      BY <2>2, <2>5, KeyFacts DEF NodeKeys
    <3>2. h \in Genomes
      BY <2>4, <3>1 DEF Split, Genomes
    <3>3. \A x \in Keys : <<x, n>> \notin g.conns /\ <<n, x>> \notin g.conns
      BY <2>3, <2>4 DEF WellFormed
    <3>4. FeedForward => Acyclic(h.conns)
      BY <2>1, <2>3, <2>4, <3>1, <3>3, SplitIsAcyclic DEF Split, WellFormed
    <3>5. \A d \in h.conns : /\ d[1] \in h.nodes \cup InputKeys /\ d[2] \in h.nodes
                             /\ {d[1], d[2]} \subseteq OutputKeys => d[1] = d[2]
      BY <2>1, <2>3, <2>4 DEF Split, WellFormed
    <3> HIDE DEF h
    <3>6. OutputKeys \subseteq h.nodes
      BY <2>3 DEF h, Split, WellFormed
    <3> QED
      BY <3>2, <3>4, <3>5, <3>6 DEF WellFormed, h
  <2>6. ASSUME n + 1 <= MaxKey PROVE \A k \in Split(g, c, n).nodes : k < Bound(n + 1)
    <3>1. Split(g, c, n).nodes = g.nodes \cup {n} /\ Bound(n + 1) = n + 1
      BY <2>2 DEF Split, Bound
    <3>2. \A k \in g.nodes : k \in Int /\ k < n
      BY <2>3, <2>4, KeyFacts
    <3> HIDE DEF n
    <3> QED
      BY <2>2, <3>1, <3>2
  <2>7. r.genome = Split(g, c, n) /\ r.indexer = n + 1
    BY <2>1 DEF Result
  <2> HIDE DEF n
  <2> QED
    BY <2>2, <2>5, <2>6, <2>7 DEF Good
<1>3. CASE g.conns # {} /\ ~(next <= MaxKey)
  <2>1. PICK c \in g.conns : /\ r.indexer = get_new_node_key(g.nodes, next) + 1
    BY <1>3 DEF mutate_add_node, Result
  <2>2. next # NoIndexer /\ next \in Int /\ MaxKey \in Nat /\ next >= NumOutputs
    BY <1>3, GenomeAssumption DEF Good, NoIndexer
  <2>3. r.indexer = next + 1
    BY <2>1, <2>2 DEF get_new_node_key
  <2> QED
    BY <1>3, <2>2, <2>3, GenomeAssumption DEF Good
<1> QED
  BY <1>1, <1>2, <1>3

LEMMA DeleteNodeIsGood ==
  ASSUME NEW g, NEW next, Good(g, next), NEW r \in mutate_delete_node(g, next)
  PROVE  Good(r.genome, r.indexer) /\ next <= r.indexer
<1>1. CASE hidden(g.nodes) = {}
  BY <1>1 DEF mutate_delete_node, Result, Good
<1>2. CASE hidden(g.nodes) # {}
  <2>1. PICK n \in hidden(g.nodes) :
          r = Result([nodes |-> g.nodes \ {n},
                      conns |-> {c \in g.conns : n \notin {c[1], c[2]}}], next)
    BY <1>2 DEF mutate_delete_node
  <2> DEFINE h == [nodes |-> g.nodes \ {n}, conns |-> {c \in g.conns : n \notin {c[1], c[2]}}]
  <2>2. ASSUME next <= MaxKey PROVE WellFormed(h) /\ \A k \in h.nodes : k < Bound(next)
    <3>1. WellFormed(g) /\ \A k \in g.nodes : k < Bound(next)
      BY <2>2 DEF Good
    <3>2. h \in Genomes /\ n \notin OutputKeys
      BY <2>1, <3>1 DEF WellFormed, Genomes, hidden
    <3>3. FeedForward => Acyclic(h.conns)
      BY <3>1, FewerAreAcyclic DEF WellFormed
    <3> QED
      BY <3>1, <3>2, <3>3 DEF WellFormed
  <2>3. r.genome = h /\ r.indexer = next
    BY <2>1 DEF Result
  <2> HIDE DEF h
  <2> QED
    BY <2>2, <2>3 DEF Good
<1> QED
  BY <1>1, <1>2

LEMMA DeleteConnectionIsGood ==
  ASSUME NEW g, NEW next, Good(g, next), NEW r \in mutate_delete_connection(g, next)
  PROVE  Good(r.genome, r.indexer) /\ next <= r.indexer
<1>1. CASE g.conns = {}
  BY <1>1 DEF mutate_delete_connection, Result, Good
<1>2. CASE g.conns # {}
  <2>1. PICK c \in g.conns : r = Result([nodes |-> g.nodes, conns |-> g.conns \ {c}], next)
    BY <1>2 DEF mutate_delete_connection
  <2> DEFINE h == [nodes |-> g.nodes, conns |-> g.conns \ {c}]
  <2>2. ASSUME next <= MaxKey PROVE WellFormed(h) /\ \A k \in h.nodes : k < Bound(next)
    <3>1. WellFormed(g) /\ \A k \in g.nodes : k < Bound(next)
      BY <2>2 DEF Good
    <3>2. h = [nodes |-> g.nodes, conns |-> g.conns \ {c}]
      BY <3>1 DEF WellFormed, Genomes
    <3>3. FeedForward => Acyclic(g.conns \ {c})
      BY <3>1, FewerAreAcyclic DEF WellFormed
    <3> HIDE DEF h
    <3> QED
      BY <3>1, <3>2, <3>3 DEF WellFormed, Genomes
  <2>3. r.genome = h /\ r.indexer = next
    BY <2>1 DEF Result
  <2> HIDE DEF h
  <2> QED
    BY <2>2, <2>3 DEF Good
<1> QED
  BY <1>1, <1>2

\* Whatever the random choices, mutate yields a well-formed genome from one.
LEMMA MutateIsGood ==
  ASSUME NEW g, NEW next, Good(g, next), NEW r \in mutate(g, next)
  PROVE  Good(r.genome, r.indexer) /\ next <= r.indexer
<1>0. /\ Result(g, next).genome = g /\ Result(g, next).indexer = next
      /\ next \in Int /\ \A h, k : Good(h, k) => k \in Int
  BY DEF Result, Good
<1>1. CASE SingleStructural
  BY <1>0, <1>1, AddNodeIsGood, AddConnectionIsGood, DeleteNodeIsGood, DeleteConnectionIsGood DEF mutate
<1>2. CASE ~SingleStructural
  <2>1. PICK r1 \in Maybe(mutate_add_node(g, next), Result(g, next)) :
             \E r2 \in Maybe(mutate_delete_node(r1.genome, r1.indexer), r1) :
             \E r3 \in Maybe(mutate_add_connection(r2.genome, r2.indexer), r2) :
               r \in Maybe(mutate_delete_connection(r3.genome, r3.indexer), r3)
    BY <1>2 DEF mutate
  <2>2. PICK r2 \in Maybe(mutate_delete_node(r1.genome, r1.indexer), r1) :
             \E r3 \in Maybe(mutate_add_connection(r2.genome, r2.indexer), r2) :
               r \in Maybe(mutate_delete_connection(r3.genome, r3.indexer), r3)
    BY <2>1
  <2>3. PICK r3 \in Maybe(mutate_add_connection(r2.genome, r2.indexer), r2) :
               r \in Maybe(mutate_delete_connection(r3.genome, r3.indexer), r3)
    BY <2>2
  <2>4. Good(r1.genome, r1.indexer) /\ next <= r1.indexer
    BY <1>0, AddNodeIsGood DEF Maybe
  <2>5. Good(r2.genome, r2.indexer) /\ r1.indexer <= r2.indexer
    BY <1>0, <2>4, DeleteNodeIsGood DEF Maybe
  <2>6. Good(r3.genome, r3.indexer) /\ r2.indexer <= r3.indexer
    BY <1>0, <2>5, AddConnectionIsGood DEF Maybe
  <2>7. Good(r.genome, r.indexer) /\ r3.indexer <= r.indexer
    BY <1>0, <2>3, <2>6, DeleteConnectionIsGood DEF Maybe
  <2> QED
    BY <1>0, <2>4, <2>5, <2>6, <2>7
<1> QED
  BY <1>1, <1>2

\* A node of the result is inherited or has a key the indexer had not
\* given before.
Inherits(g, next, r) ==
  r.indexer <= MaxKey => \A n \in r.genome.nodes : n \in g.nodes \/ n >= Bound(next)

LEMMA MutateInherits ==
  ASSUME NEW g, NEW next, Good(g, next), NEW r \in mutate(g, next)
  PROVE  Inherits(g, next, r)
<1>0. /\ Result(g, next).genome = g /\ Result(g, next).indexer = next
      /\ \A h, k : Good(h, k) => k \in Int
      /\ \A h, k : Result(h, k).genome = h /\ Result(h, k).indexer = k
      /\ MaxKey \in Nat
  BY GenomeAssumption DEF Result, Good
<1>1. ASSUME NEW h, NEW k, Good(h, k), NEW q \in mutate_add_connection(h, k)
      PROVE  q.genome.nodes = h.nodes
  <2>1. PICK i \in h.nodes \cup InputKeys, o \in h.nodes :
          q = Result(IF Refused(h, i, o) THEN h ELSE Connect(h, <<i, o>>), k)
    BY <1>1 DEF mutate_add_connection
  <2>2. Connect(h, <<i, o>>).nodes = h.nodes
    BY DEF Connect
  <2> QED
    BY <1>0, <2>1, <2>2
<1>2. ASSUME NEW h, NEW k, NEW q \in mutate_delete_node(h, k)
      PROVE  q.genome.nodes \subseteq h.nodes
  <2>1. CASE hidden(h.nodes) = {}
    BY <1>0, <1>2, <2>1 DEF mutate_delete_node
  <2>2. CASE hidden(h.nodes) # {}
    <3>1. PICK n \in hidden(h.nodes) :
            q = Result([nodes |-> h.nodes \ {n},
                        conns |-> {c \in h.conns : n \notin {c[1], c[2]}}], k)
      BY <1>2, <2>2 DEF mutate_delete_node
    <3>2. q.genome.nodes = h.nodes \ {n}
      BY <3>1 DEF Result
    <3> QED
      BY <3>2
  <2> QED
    BY <2>1, <2>2
<1>3. ASSUME NEW h, NEW k, NEW q \in mutate_delete_connection(h, k)
      PROVE  q.genome.nodes = h.nodes
  <2>1. CASE h.conns = {}
    BY <1>0, <1>3, <2>1 DEF mutate_delete_connection
  <2>2. CASE h.conns # {}
    <3>1. PICK c \in h.conns : q = Result([nodes |-> h.nodes, conns |-> h.conns \ {c}], k)
      BY <1>3, <2>2 DEF mutate_delete_connection
    <3>2. [nodes |-> h.nodes, conns |-> h.conns \ {c}].nodes = h.nodes
      OBVIOUS
    <3> QED
      BY <1>0, <3>1, <3>2
  <2> QED
    BY <2>1, <2>2
<1>4. ASSUME NEW q \in mutate_add_node(g, next)
      PROVE  Inherits(g, next, q)
  <2>1. CASE g.conns = {}
    BY <1>0, <1>1, <1>4, <2>1 DEF mutate_add_node, Inherits
  <2>2. CASE g.conns # {} /\ q.indexer <= MaxKey
    <3>1. next <= MaxKey
      BY <1>0, <1>4, <2>2, AddNodeIsGood
    <3>2. PICK c \in g.conns : q = Result(Split(g, c, Bound(next)), Bound(next) + 1)
      BY <1>4, <2>2, <3>1, NewKey DEF mutate_add_node
    <3>3. q.genome.nodes = g.nodes \cup {Bound(next)} /\ Bound(next) \in Int
      BY <1>0, <3>2, GenomeAssumption DEF Split, Bound, Good
    <3> QED
      BY <3>3 DEF Inherits
  <2> QED
    BY <2>1, <2>2 DEF Inherits
<1>5. Inherits(g, next, Result(g, next))
  BY <1>0 DEF Inherits
<1>6. CASE SingleStructural
  BY <1>0, <1>1, <1>2, <1>3, <1>4, <1>5, <1>6 DEF mutate, Inherits
<1>7. CASE ~SingleStructural
  <2>1. PICK r1 \in Maybe(mutate_add_node(g, next), Result(g, next)) :
             \E r2 \in Maybe(mutate_delete_node(r1.genome, r1.indexer), r1) :
             \E r3 \in Maybe(mutate_add_connection(r2.genome, r2.indexer), r2) :
               r \in Maybe(mutate_delete_connection(r3.genome, r3.indexer), r3)
    BY <1>7 DEF mutate
  <2>2. PICK r2 \in Maybe(mutate_delete_node(r1.genome, r1.indexer), r1) :
             \E r3 \in Maybe(mutate_add_connection(r2.genome, r2.indexer), r2) :
               r \in Maybe(mutate_delete_connection(r3.genome, r3.indexer), r3)
    BY <2>1
  <2>3. PICK r3 \in Maybe(mutate_add_connection(r2.genome, r2.indexer), r2) :
               r \in Maybe(mutate_delete_connection(r3.genome, r3.indexer), r3)
    BY <2>2
  <2>4. Good(r1.genome, r1.indexer) /\ Inherits(g, next, r1)
    BY <1>0, <1>4, <1>5, AddNodeIsGood DEF Maybe
  <2>5. Good(r2.genome, r2.indexer) /\ r1.indexer <= r2.indexer /\ r2.genome.nodes \subseteq r1.genome.nodes
    BY <1>0, <1>2, <2>4, DeleteNodeIsGood DEF Maybe
  <2>6. Good(r3.genome, r3.indexer) /\ r2.indexer <= r3.indexer /\ r3.genome.nodes = r2.genome.nodes
    BY <1>0, <1>1, <2>5, AddConnectionIsGood DEF Maybe
  <2>7. Good(r.genome, r.indexer) /\ r3.indexer <= r.indexer /\ r.genome.nodes = r3.genome.nodes
    BY <1>0, <1>3, <2>3, <2>6, DeleteConnectionIsGood DEF Maybe
  <2>8. {r1.indexer, r2.indexer, r3.indexer, r.indexer} \subseteq Int
    BY <1>0, <2>4, <2>5, <2>6, <2>7
  <2> QED
    BY <1>0, <2>4, <2>5, <2>6, <2>7, <2>8 DEF Inherits
<1> QED
  BY <1>6, <1>7

-----------------------------------------------------------------------------
(* New genomes. *)

LEMMA InitialShape ==
  ASSUME NEW nodes, NEW C \in InitialConnections(nodes), OutputKeys \subseteq nodes, NEW c \in C
  PROVE  /\ c = <<c[1], c[2]>>
         /\ \/ c[1] \in InputKeys /\ c[2] \in nodes
            \/ c[1] \in hidden(nodes) /\ c[2] \in OutputKeys
            \/ ~FeedForward /\ c[1] = c[2] /\ c[2] \in nodes
<1>1. ASSUME NEW direct, c \in compute_full_connections(nodes, direct)
      PROVE  /\ c = <<c[1], c[2]>>
             /\ \/ c[1] \in InputKeys /\ c[2] \in nodes
                \/ c[1] \in hidden(nodes) /\ c[2] \in OutputKeys
                \/ ~FeedForward /\ c[1] = c[2] /\ c[2] \in nodes
  BY <1>1 DEF compute_full_connections, hidden
<1>2. CASE \E i \in InputKeys : c \in {i} \X nodes
  BY <1>2
<1>3. CASE InitialConnection = "unconnected"
  BY <1>3 DEF InitialConnections
<1>4. CASE InitialConnection \in {"fs_neat_nohidden", "fs_neat"}
  <2>1. PICK i \in InputKeys : C = {i} \X OutputKeys
    BY <1>4 DEF InitialConnections
  <2> QED
    BY <1>2, <2>1
<1>5. CASE InitialConnection = "fs_neat_hidden"
  <2>1. PICK i \in InputKeys : C = {i} \X nodes
    BY <1>5 DEF InitialConnections
  <2> QED
    BY <1>2, <2>1
<1>6. CASE InitialConnection \in {"full_nodirect", "full", "partial_nodirect", "partial"}
  <2>1. c \in compute_full_connections(nodes, FALSE)
    BY <1>6 DEF InitialConnections
  <2> QED
    BY <1>1, <2>1
<1>7. CASE InitialConnection \in {"full_direct", "partial_direct"}
  <2>1. c \in compute_full_connections(nodes, TRUE)
    BY <1>7 DEF InitialConnections
  <2> QED
    BY <1>1, <2>1
<1> QED
  BY <1>3, <1>4, <1>5, <1>6, <1>7, GenomeAssumption DEF Connectivity

GenomeInv ==
  /\ genomes \in [Slots -> Genomes] /\ used \in SUBSET NodeKeys
  /\ node_indexer = NoIndexer \/ node_indexer \in NumOutputs .. MaxKey
  /\ \A s \in Slots : /\ genomes[s] = NoGenome \/ WellFormed(genomes[s])
                      /\ genomes[s].nodes \subseteq used
  /\ \A n \in used : n < Bound(node_indexer)

LEMMA NewIsGood ==
  ASSUME GenomeInv, NEW s \in Slots, configure_new(s)
  PROVE  \E g, next : /\ Place(s, g, next) /\ Good(g, next) /\ node_indexer <= next
                      /\ \A n \in g.nodes : n \in OutputKeys \/ n >= Bound(node_indexer)
<1> DEFINE first == get_new_node_key(OutputKeys, node_indexer)
           nodes == IF NumHidden = 0 THEN OutputKeys ELSE OutputKeys \cup first .. (first + NumHidden - 1)
           next  == IF NumHidden = 0 THEN node_indexer ELSE first + NumHidden
<1>0. /\ NumOutputs \in Nat \ {0} /\ NumHidden \in Nat /\ MaxKey \in Nat /\ NumOutputs <= MaxKey
      /\ node_indexer \in Int /\ node_indexer <= MaxKey
      /\ node_indexer = NoIndexer \/ node_indexer >= NumOutputs
      /\ NoIndexer = -1
      /\ OutputKeys \subseteq NodeKeys /\ \A n \in OutputKeys : n \in Nat /\ n < NumOutputs
  BY GenomeAssumption DEF GenomeInv, NoIndexer, OutputKeys, NodeKeys
<1>1. PICK C \in InitialConnections(nodes) : Place(s, [nodes |-> nodes, conns |-> C], next)
  BY DEF configure_new
<1> DEFINE g == [nodes |-> nodes, conns |-> C]
<1>2. first = Bound(node_indexer) /\ first \in Nat /\ first >= NumOutputs
  <2> DEFINE h == [nodes |-> OutputKeys, conns |-> {}]
  <2>1. Good(h, node_indexer)
    BY <1>0 DEF Good, WellFormed, Genomes, Bound, Acyclic
  <2>2. h.nodes = OutputKeys
    OBVIOUS
  <2> HIDE DEF h
  <2>3. first = Bound(node_indexer)
    BY <1>0, <2>1, <2>2, NewKey
  <2> QED
    BY <1>0, <2>3 DEF Bound, NoIndexer
<1>3. next \in Int /\ node_indexer <= next /\ (next = NoIndexer \/ next >= NumOutputs)
  BY <1>0, <1>2 DEF Bound, NoIndexer
<1>4. /\ OutputKeys \subseteq nodes
      /\ \A n \in nodes : n \in Nat /\ (n \in OutputKeys \/ n >= Bound(node_indexer)) /\ n < Bound(next)
  BY <1>0, <1>2 DEF Bound, NoIndexer
<1>5. ASSUME next <= MaxKey PROVE WellFormed(g)
  <2>1. nodes \in SUBSET NodeKeys
    <3>1. CASE NumHidden = 0
      BY <1>0, <3>1
    <3>2. CASE NumHidden # 0
      <4>1. nodes = OutputKeys \cup first .. (first + NumHidden - 1) /\ first + NumHidden <= MaxKey
        BY <1>5, <3>2
      <4> HIDE DEF nodes, next, first
      <4>2. first .. (first + NumHidden - 1) \subseteq NodeKeys
        BY <1>0, <1>2, <4>1 DEF NodeKeys
      <4> QED
        BY <1>0, <4>1, <4>2
    <3> QED
      BY <3>1, <3>2
  <2> HIDE DEF nodes, next
  <2>2. \A c \in C : /\ c = <<c[1], c[2]>>
                     /\ \/ c[1] \in InputKeys /\ c[2] \in nodes
                        \/ c[1] \in hidden(nodes) /\ c[2] \in OutputKeys
                        \/ ~FeedForward /\ c[1] = c[2] /\ c[2] \in nodes
    BY <1>4, InitialShape
  <2>3. \A c \in C : c[1] \in nodes \cup InputKeys /\ c[2] \in nodes /\ c \in Keys \X Keys
    BY <1>4, <2>1, <2>2, KeyFacts DEF hidden
  <2>4. \A c \in C : {c[1], c[2]} \subseteq OutputKeys => c[1] = c[2]
    BY <2>2, KeyFacts DEF hidden
  <2>5. hidden(nodes) \in SUBSET Keys /\ hidden(nodes) \cap (InputKeys \cup OutputKeys) = {}
        /\ nodes = hidden(nodes) \cup OutputKeys
    BY <1>4, <2>1, KeyFacts DEF hidden
  <2>6. FeedForward => Acyclic(C)
    BY <2>2, <2>5, LayeredIsAcyclic
  <2> QED
    BY <1>4, <2>1, <2>3, <2>4, <2>6 DEF WellFormed, Genomes
<1> HIDE DEF next, nodes
<1>6. Good(g, next)
  BY <1>3, <1>4, <1>5 DEF Good
<1> QED
  BY <1>1, <1>3, <1>4, <1>6

LEMMA ChildIsGood ==
  ASSUME GenomeInv, NEW s \in Slots, NEW p \in Slots, Reproduce(s, p)
  PROVE  \E r : /\ Place(s, r.genome, r.indexer) /\ Good(r.genome, r.indexer)
                /\ node_indexer <= r.indexer /\ Inherits(genomes[p], node_indexer, r)
<1>1. WellFormed(genomes[p]) /\ Good(genomes[p], node_indexer)
  BY GenomeAssumption DEF Reproduce, GenomeInv, Good, NoIndexer, WellFormed
<1>2. configure_crossover(genomes[p]) = genomes[p]
  BY <1>1 DEF configure_crossover, WellFormed, Genomes
<1>3. PICK r \in mutate(genomes[p], node_indexer) : Place(s, r.genome, r.indexer)
  BY <1>2 DEF Reproduce
<1> QED
  BY <1>1, <1>3, MutateIsGood, MutateInherits

-----------------------------------------------------------------------------
(* The inductive invariant and what follows from it. *)

LEMMA GenomeInit == Init => GenomeInv
BY GenomeAssumption DEF Init, GenomeInv, NoGenome, Genomes

\* What one placed genome does to the variables.
Placed(s, g) ==
  /\ s \in Slots /\ genomes' = [genomes EXCEPT ![s] = g] /\ used' = used \cup g.nodes
  /\ WellFormed(g)
  /\ node_indexer' \in Int /\ node_indexer <= node_indexer' /\ node_indexer' <= MaxKey
  /\ node_indexer' = NoIndexer \/ node_indexer' >= NumOutputs
  /\ \A n \in g.nodes : n < Bound(node_indexer')

LEMMA NextPlaces ==
  ASSUME GenomeInv, Next
  PROVE  \E s, g : Placed(s, g)
<1>1. PICK s \in Slots : configure_new(s) \/ \E p \in Slots : Reproduce(s, p)
  BY DEF Next
<1>2. PICK g, next : Place(s, g, next) /\ Good(g, next) /\ node_indexer <= next
  BY <1>1, NewIsGood, ChildIsGood
<1> QED
  BY <1>2 DEF Place, Good, Placed

LEMMA GenomeStep == GenomeInv /\ [Next]_vars => GenomeInv'
<1> SUFFICES ASSUME GenomeInv, Next PROVE GenomeInv'
  BY DEF vars, GenomeInv, Bound
<1>1. PICK s, g : Placed(s, g)
  BY NextPlaces
<1>2. g \in Genomes /\ g.nodes \in SUBSET NodeKeys
  BY <1>1 DEF Placed, WellFormed, Genomes
<1>3. genomes' \in [Slots -> Genomes] /\ used' \in SUBSET NodeKeys
  BY <1>1, <1>2 DEF Placed, GenomeInv
<1>4. node_indexer' = NoIndexer \/ node_indexer' \in NumOutputs .. MaxKey
  BY <1>1, GenomeAssumption DEF Placed
<1>5. ASSUME NEW t \in Slots
      PROVE  /\ genomes'[t] = NoGenome \/ WellFormed(genomes'[t])
             /\ genomes'[t].nodes \subseteq used'
  BY <1>1 DEF Placed, GenomeInv
<1>6. Bound(node_indexer) <= Bound(node_indexer')
      /\ Bound(node_indexer) \in Int /\ Bound(node_indexer') \in Int
  <2>1. /\ NumOutputs \in Nat /\ NoIndexer = -1
        /\ node_indexer = NoIndexer \/ node_indexer \in NumOutputs .. MaxKey
        /\ node_indexer' = NoIndexer \/ node_indexer' \in NumOutputs .. MaxKey
        /\ node_indexer <= node_indexer' /\ MaxKey \in Nat
    BY <1>1, <1>4, GenomeAssumption DEF Placed, GenomeInv, NoIndexer
  <2> QED
    BY <2>1, BoundGrows
<1>7. ASSUME NEW n \in used' PROVE n < Bound(node_indexer')
  <2>1. n \in Int
    BY <1>3, KeyFacts
  <2> QED
    BY <1>1, <1>6, <1>7, <2>1 DEF Placed, GenomeInv
<1> QED
  BY <1>3, <1>4, <1>5, <1>7 DEF GenomeInv, WellFormed, Bound

LEMMA GenomeInvariant == Spec => []GenomeInv
BY GenomeInit, GenomeStep, PTL DEF Spec

\* Every operation keeps genomes, indexer and history within their types.
THEOREM TypeCorrect == Spec => []TypeOK
<1>1. GenomeInv => TypeOK
  BY GenomeAssumption DEF GenomeInv, TypeOK
<1> QED
  BY <1>1, GenomeInvariant, PTL

\* No operation of configure_new, crossover and mutate leaves a dangling
\* connection.
THEOREM NoDanglingConnection == Spec => []EndpointsExist
<1>1. GenomeInv => EndpointsExist
  BY DEF GenomeInv, EndpointsExist, WellFormed, NoGenome
<1> QED
  BY <1>1, GenomeInvariant, PTL

\* No operation deletes an output node or connects two of them.
THEOREM OutputsSurvive == Spec => []OutputsKept
<1>1. GenomeInv => OutputsKept
  BY DEF GenomeInv, OutputsKept, WellFormed
<1> QED
  BY <1>1, GenomeInvariant, PTL

\* With feed_forward, neither creates_cycle-guarded additions nor splits
\* nor inheritance ever close a cycle.
THEOREM FeedForwardStaysAcyclic == Spec => []FeedForwardIsAcyclic
<1>1. Acyclic({})
  BY DEF Acyclic
<1>2. GenomeInv => FeedForwardIsAcyclic
  BY <1>1 DEF GenomeInv, FeedForwardIsAcyclic, WellFormed, NoGenome
<1> QED
  BY <1>2, GenomeInvariant, PTL

\* get_new_node_key never gives a key that some genome, living or gone,
\* already had.
THEOREM KeysStayFresh == Spec => KeysAreFresh
<1> DEFINE Fresh ==
      \A s \in Slots :
        /\ (genomes[s]'.nodes \ OutputKeys) \cap used # {} => ~configure_new(s)
        /\ \A p \in Slots : (genomes[s]'.nodes \ genomes[p].nodes) \cap used # {} => ~Reproduce(s, p)
<1>1. ASSUME GenomeInv, NEW n \in used PROVE ~(n >= Bound(node_indexer))
  <2>1. n < Bound(node_indexer) /\ n \in Int /\ Bound(node_indexer) \in Int
    BY <1>1, KeyFacts, GenomeAssumption DEF GenomeInv, Bound, NoIndexer
  <2> QED
    BY <2>1
<1>2. ASSUME GenomeInv, NEW s \in Slots, configure_new(s)
      PROVE  (genomes[s]'.nodes \ OutputKeys) \cap used = {}
  <2>1. PICK g, next : /\ Place(s, g, next)
                       /\ \A n \in g.nodes : n \in OutputKeys \/ n >= Bound(node_indexer)
    BY <1>2, NewIsGood
  <2>2. genomes[s]' = g
    BY <1>2, <2>1 DEF Place, GenomeInv
  <2> QED
    BY <1>1, <1>2, <2>1, <2>2
<1>3. ASSUME GenomeInv, NEW s \in Slots, NEW p \in Slots, Reproduce(s, p)
      PROVE  (genomes[s]'.nodes \ genomes[p].nodes) \cap used = {}
  <2>1. PICK r : Place(s, r.genome, r.indexer) /\ Inherits(genomes[p], node_indexer, r)
    BY <1>3, ChildIsGood
  <2>2. genomes[s]' = r.genome /\ r.indexer <= MaxKey
    BY <1>3, <2>1 DEF Place, GenomeInv
  <2> QED
    BY <1>1, <1>3, <2>1, <2>2 DEF Inherits
<1>4. GenomeInv => Fresh
  BY <1>2, <1>3
<1> QED
  BY <1>4, GenomeInvariant, PTL DEF Spec, KeysAreFresh
=============================================================================
