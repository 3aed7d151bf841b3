------------------------- MODULE DistributedProofs -------------------------
(***************************************************************************)
(* The distributed evaluator does what Population.run expects of a fitness *)
(* function, for any number of secondaries, genomes, calls and restarts,   *)
(* and whatever connection breaks or secondary fails.                      *)
(***************************************************************************)
EXTENDS Distributed, FiniteSetTheorems, TLAPS

\* The queues hold chunks; evaluate puts chunks until it has put all.
TypeOK ==
  /\ primary \in {"off", "idle", "put", "collect", "stopping"}
  /\ calls \in 0 .. MaxCalls /\ sent \in 0 .. n_tasks
  /\ inqueue \in Seq(SUBSET Genomes) /\ outqueue \in Seq(SUBSET Genomes)
  /\ tresults \in Seq(SUBSET Genomes)
  /\ pc \in [Secondaries -> {"unborn", "reset", "loop", "get", "eval", "exited", "raised"}]
  /\ tasks \in [Secondaries -> SUBSET Genomes]
  /\ primary = "put" => sent < n_tasks
  /\ primary = "collect" => sent = n_tasks
  /\ Busy => calls > 0

\* Where a chunk can be, and how many places are taken.
Holders == {s \in Secondaries : pc[s] = "eval"}
Held    == {tasks[s] : s \in Holders}
Found   == Range(inqueue) \cup Range(outqueue) \cup Range(tresults) \cup Held
Count   == Len(inqueue) + Len(outqueue) + Len(tresults) + Cardinality(Holders)

\* The chunks of the current call that were put in the queue.
Chunks == {chunked(calls, c) : c \in 1 .. sent}

\* A chunk may be lost, but none is ever in two places: there are at least
\* as many chunks as places with one.
Apart == Busy => Found \subseteq Chunks /\ Cardinality(Found) >= Count

\* Between two calls no place holds a chunk.
Quiet == ~Busy => inqueue = <<>> /\ outqueue = <<>> /\ Holders = {}

Inv == TypeOK /\ Apart /\ Quiet

-----------------------------------------------------------------------------
LEMMA Constants ==
  /\ PopSize \in Nat \ {0} /\ secondary_chunksize \in Nat \ {0} /\ MaxCalls \in Nat \ {0}
  /\ IsFiniteSet(Secondaries)
BY DistributedAssumption

\* Division as the code uses it, for chunk sizes of any value.
LEMMA Quotient ==
  ASSUME NEW x \in Nat, NEW d \in Nat \ {0}
  PROVE  x \div d \in Nat /\ d * (x \div d) <= x /\ x < d * (x \div d) + d
OBVIOUS

LEMMA QuotientIs ==
  ASSUME NEW x \in Nat, NEW d \in Nat \ {0}, NEW q \in Nat, d * q <= x, x < d * q + d
  PROVE  x \div d = q
<1> DEFINE r == x \div d
<1>1. r \in Nat /\ d * r <= x /\ x < d * r + d
  BY Quotient
<1> HIDE DEF r
<1>2. CASE r < q
  <2>1. d * r + d <= d * q
    <3>1. q - r - 1 \in Nat
      BY <1>1, <1>2
    <3>2. d * (q - r - 1) >= 0
      BY <3>1
    <3> QED
      BY <1>1, <3>2
  <2> QED
    BY <1>1, <2>1
<1>3. CASE q < r
  <2>1. d * q + d <= d * r
    <3>1. r - q - 1 \in Nat
      BY <1>1, <1>3
    <3>2. d * (r - q - 1) >= 0
      BY <3>1
    <3> QED
      BY <1>1, <3>2
  <2> QED
    BY <1>1, <2>1
<1> QED
  BY <1>1, <1>2, <1>3 DEF r

LEMMA NumberOfChunks == n_tasks \in Nat
BY Constants, Quotient DEF n_tasks

\* Each chunk has a genome that is in no other chunk: its first one.
LEMMA FirstOfChunk ==
  ASSUME NEW g \in Nat, NEW c \in 1 .. n_tasks
  PROVE  \E x : x \in chunked(g, c) /\ \A d \in 1 .. n_tasks : d # c => x \notin chunked(g, d)
<1> DEFINE K == secondary_chunksize
           y == K * (c - 1)
<1>1. K \in Nat \ {0} /\ n_tasks \in Nat /\ c - 1 \in Nat /\ y \in Nat
  BY Constants, NumberOfChunks
<1>2. y + 1 <= PopSize
  <2>1. K * n_tasks <= PopSize + K - 1
    BY Constants, Quotient DEF n_tasks
  <2>2. K * (n_tasks - c) >= 0
    BY <1>1
  <2>3. K * n_tasks = K * (n_tasks - c) + y + K
    BY <1>1
  <2> QED
    BY <1>1, <2>1, <2>2, <2>3, Constants
<1>3. y \div K = c - 1
  <2> HIDE DEF y
  <2>1. K * (c - 1) <= y /\ y < K * (c - 1) + K
    BY <1>1 DEF y
  <2> QED
    BY <1>1, <2>1, QuotientIs
<1>4. <<g, y + 1>> \in Population(g) /\ (y + 1) - 1 = y
  BY <1>1, <1>2, Constants DEF Population
<1> HIDE DEF y
<1>5. <<g, y + 1>> \in chunked(g, c)
  BY <1>3, <1>4 DEF chunked
<1>6. \A d \in 1 .. n_tasks : d # c => <<g, y + 1>> \notin chunked(g, d)
  BY <1>1, <1>3, <1>4 DEF chunked
<1> QED
  BY <1>5, <1>6

\* The chunks are those of the population.
LEMMA ChunksCover ==
  ASSUME NEW g \in Nat
  PROVE  UNION {chunked(g, c) : c \in 1 .. n_tasks} = Population(g)
<1>1. ASSUME NEW x \in Population(g) PROVE \E c \in 1 .. n_tasks : x \in chunked(g, c)
  <2> DEFINE K == secondary_chunksize
             q == (x[2] - 1) \div K
  <2>1. K \in Nat \ {0} /\ x[2] \in 1 .. PopSize /\ x[2] - 1 \in Nat
    BY Constants, <1>1 DEF Population
  <2>2. q \in Nat /\ K * q <= x[2] - 1
    BY <2>1, Quotient
  <2>3. PopSize + K - 1 < K * n_tasks + K /\ n_tasks \in Nat
    BY Constants, Quotient DEF n_tasks
  <2> HIDE DEF q
  <2>4. q < n_tasks
    <3>1. SUFFICES ASSUME q >= n_tasks PROVE FALSE
      BY <2>2, <2>3
    <3>2. K * (q - n_tasks) >= 0
      BY <2>1, <2>2, <2>3, <3>1
    <3>3. K * q >= K * n_tasks
      BY <2>1, <2>2, <2>3, <3>2
    <3> QED
      BY <2>1, <2>2, <2>3, <3>3, Constants
  <2>5. q + 1 \in 1 .. n_tasks /\ (q + 1) - 1 = q
    BY <2>2, <2>3, <2>4
  <2> QED
    BY <2>5, <1>1 DEF chunked, q
<1>2. \A c : chunked(g, c) \subseteq Population(g)
  BY DEF chunked
<1> QED
  BY <1>1, <1>2

-----------------------------------------------------------------------------
\* What Append and Tail do to the places of a queue.
LEMMA Appended ==
  ASSUME NEW T, NEW s \in Seq(T), NEW e \in T
  PROVE  /\ Append(s, e) \in Seq(T) /\ Len(Append(s, e)) = Len(s) + 1
         /\ Range(Append(s, e)) = Range(s) \cup {e}
<1> DEFINE t == Append(s, e)
<1>1. t \in Seq(T) /\ Len(t) = Len(s) + 1 /\ t[Len(s) + 1] = e /\ Len(s) \in Nat
  OBVIOUS
<1>2. \A j \in 1 .. Len(s) : t[j] = s[j]
  OBVIOUS
<1>3. DOMAIN t = 1 .. Len(t) /\ DOMAIN s = 1 .. Len(s)
  BY <1>1
<1>4. Range(t) = Range(s) \cup {e}
  <2> HIDE DEF t
  <2>1. 1 .. Len(t) = (1 .. Len(s)) \cup {Len(s) + 1}
    BY <1>1
  <2> QED
    BY <1>1, <1>2, <1>3, <2>1 DEF Range
<1> QED
  BY <1>1, <1>4

LEMMA Taken ==
  ASSUME NEW T, NEW s \in Seq(T), s # <<>>
  PROVE  /\ Head(s) \in T /\ Tail(s) \in Seq(T) /\ Len(Tail(s)) = Len(s) - 1
         /\ Range(s) = Range(Tail(s)) \cup {Head(s)}
<1> DEFINE t == Tail(s)
<1>1. /\ Head(s) \in T /\ t \in Seq(T) /\ Len(s) = Len(t) + 1 /\ Len(t) \in Nat
      /\ s[1] = Head(s)
  OBVIOUS
<1>2. \A j \in 1 .. Len(t) : t[j] = s[j + 1]
  OBVIOUS
<1>3. DOMAIN t = 1 .. Len(t) /\ DOMAIN s = 1 .. Len(s)
  BY <1>1
<1>4. Range(s) = Range(t) \cup {Head(s)}
  <2> HIDE DEF t
  <2>1. ASSUME NEW j \in 1 .. Len(s) PROVE s[j] \in Range(t) \cup {Head(s)}
    <3>1. CASE j = 1
      BY <1>1, <3>1
    <3>2. CASE j # 1
      <4>1. j - 1 \in 1 .. Len(t) /\ (j - 1) + 1 = j
        BY <1>1, <3>2
      <4>2. t[j - 1] = s[j]
        BY <1>2, <4>1
      <4> QED
        BY <1>3, <4>1, <4>2 DEF Range
    <3> QED
      BY <3>1, <3>2
  <2>2. ASSUME NEW j \in 1 .. Len(t) PROVE t[j] \in Range(s)
    <3>1. j + 1 \in 1 .. Len(s)
      BY <1>1
    <3> QED
      BY <1>2, <1>3, <3>1 DEF Range
  <2>3. Head(s) \in Range(s)
    <3>1. 1 \in 1 .. Len(s)
      BY <1>1
    <3> QED
      BY <1>1, <1>3, <3>1 DEF Range
  <2> QED
    BY <1>3, <2>1, <2>2, <2>3 DEF Range
<1> QED
  BY <1>1, <1>4

LEMMA EmptyQueue == Range(<<>>) = {} /\ Len(<<>>) = 0
BY DEF Range

LEMMA HoldersFinite == IsFiniteSet(Holders) /\ Cardinality(Holders) \in Nat
BY Constants, FS_Subset, FS_CardinalityType DEF Holders

\* There are at most as many chunks as evaluate put.
LEMMA ChunksFinite ==
  ASSUME sent \in Nat
  PROVE  IsFiniteSet(Chunks) /\ Cardinality(Chunks) \in Nat /\ Cardinality(Chunks) <= sent
<1> DEFINE f == [c \in 1 .. sent |-> chunked(calls, c)]
<1>1. f \in Surjection(1 .. sent, Chunks)
  BY DEF Surjection, Chunks
<1>2. IsFiniteSet(1 .. sent) /\ Cardinality(1 .. sent) = sent
  BY FS_Interval
<1> HIDE DEF f
<1> QED
  BY <1>1, <1>2, FS_Surjection, FS_CardinalityType

\* While a call is under way, counting is possible.
LEMMA Countable ==
  ASSUME Inv
  PROVE  /\ Len(inqueue) \in Nat /\ Len(outqueue) \in Nat /\ Len(tresults) \in Nat
         /\ Count \in Nat /\ sent \in Nat
         /\ Busy => IsFiniteSet(Found) /\ Cardinality(Found) \in Nat /\ Cardinality(Found) <= sent
<1>1. Len(inqueue) \in Nat /\ Len(outqueue) \in Nat /\ Len(tresults) \in Nat /\ sent \in Nat
  BY NumberOfChunks DEF Inv, TypeOK
<1>2. Count \in Nat
  BY <1>1, HoldersFinite DEF Count
<1>3. ASSUME Busy
      PROVE  IsFiniteSet(Found) /\ Cardinality(Found) \in Nat /\ Cardinality(Found) <= sent
  <2>1. Found \subseteq Chunks
    BY <1>3 DEF Inv, Apart
  <2>2. IsFiniteSet(Found) /\ Cardinality(Found) <= Cardinality(Chunks)
    BY <1>1, <2>1, ChunksFinite, FS_Subset
  <2>3. Cardinality(Found) \in Nat
    BY <2>2, FS_CardinalityType
  <2> QED
    BY <1>1, <2>2, <2>3, ChunksFinite
<1> QED
  BY <1>1, <1>2, <1>3

LEMMA AtMostOneMore ==
  ASSUME NEW S, NEW R, IsFiniteSet(S), NEW e, R \subseteq S \cup {e}
  PROVE  IsFiniteSet(R) /\ Cardinality(R) <= Cardinality(S) + 1
         /\ Cardinality(R) \in Nat /\ Cardinality(S) \in Nat
<1>1. Cardinality(S) \in Nat /\ IsFiniteSet(S \cup {e})
  BY FS_CardinalityType, FS_AddElement
<1>2. Cardinality(S \cup {e}) \in {Cardinality(S), Cardinality(S) + 1}
  BY FS_AddElement
<1>3. IsFiniteSet(R) /\ Cardinality(R) <= Cardinality(S \cup {e})
  BY <1>1, FS_Subset
<1>4. Cardinality(R) \in Nat
  BY <1>3, FS_CardinalityType
<1> QED
  BY <1>1, <1>2, <1>3, <1>4

\* A chunk that moves from one place to another, or is lost.
LEMMA MovedOrLost ==
  ASSUME Inv, UNCHANGED <<primary, calls, sent>>, NEW e,
         \/ Found' = Found /\ Count' = Count
         \/ Found' \subseteq Found /\ Found \subseteq Found' \cup {e} /\ Count' = Count - 1
  PROVE  Apart'
<1> SUFFICES ASSUME Busy PROVE Found' \subseteq Chunks' /\ Cardinality(Found') >= Count'
  BY DEF Apart, Busy
<1>1. Chunks' = Chunks
  BY DEF Chunks, chunked, Population
<1>2. Found \subseteq Chunks /\ Cardinality(Found) >= Count /\ IsFiniteSet(Found)
      /\ Cardinality(Found) \in Nat /\ Count \in Nat
  BY Countable DEF Inv, Apart
<1>3. CASE Found' = Found /\ Count' = Count
  BY <1>1, <1>2, <1>3
<1>4. CASE Found' \subseteq Found /\ Found \subseteq Found' \cup {e} /\ Count' = Count - 1
  <2>1. IsFiniteSet(Found') /\ Cardinality(Found') \in Nat
    BY <1>2, <1>4, FS_Subset, FS_CardinalityType
  <2>2. Cardinality(Found) <= Cardinality(Found') + 1
    BY <1>4, <2>1, AtMostOneMore
  <2> QED
    BY <1>1, <1>2, <1>4, <2>1, <2>2
<1> QED
  BY <1>3, <1>4

LEMMA InvInit == Init => Inv
<1> SUFFICES ASSUME Init PROVE Inv
  OBVIOUS
<1>1. /\ primary = "off" /\ calls = 0 /\ sent = 0
      /\ inqueue = <<>> /\ outqueue = <<>> /\ tresults = <<>>
      /\ pc = [s \in Secondaries |-> "unborn"] /\ tasks = [s \in Secondaries |-> {}]
  BY DEF Init
<1>2. inqueue \in Seq(SUBSET Genomes) /\ outqueue \in Seq(SUBSET Genomes) /\ tresults \in Seq(SUBSET Genomes)
  BY <1>1
<1>3. calls \in 0 .. MaxCalls /\ sent \in 0 .. n_tasks
  BY <1>1, Constants, NumberOfChunks
<1>4. /\ pc \in [Secondaries -> {"unborn", "reset", "loop", "get", "eval", "exited", "raised"}]
      /\ tasks \in [Secondaries -> SUBSET Genomes]
  BY <1>1
<1>5. ~Busy /\ Holders = {}
  BY <1>1 DEF Busy, Holders
<1> QED
  BY <1>1, <1>2, <1>3, <1>4, <1>5 DEF Inv, TypeOK, Apart, Quiet

\* The primary.
LEMMA InvEvaluate == Inv /\ Evaluate => Inv'
<1> SUFFICES ASSUME Inv, Evaluate PROVE Inv'
  OBVIOUS
<1>1. /\ primary' = "put" /\ calls' = calls + 1 /\ sent' = 0 /\ tresults' = <<>>
      /\ UNCHANGED <<inqueue, outqueue, pc, tasks>> /\ calls < MaxCalls /\ ~Busy
  BY DEF Evaluate, secondaryVars, Busy
<1>2. inqueue = <<>> /\ outqueue = <<>> /\ Holders = {}
  BY <1>1 DEF Inv, Quiet
<1>3. n_tasks > 0
  <2>1. PopSize + secondary_chunksize - 1 < secondary_chunksize * n_tasks + secondary_chunksize
    BY Constants, Quotient DEF n_tasks
  <2> QED
    BY <2>1, Constants, NumberOfChunks
<1>4. TypeOK'
  <2>1. tresults' \in Seq(SUBSET Genomes)
    BY <1>1
  <2>2. calls' \in 0 .. MaxCalls /\ sent' \in 0 .. n_tasks /\ sent' < n_tasks /\ calls' > 0
    BY <1>1, <1>3, Constants, NumberOfChunks DEF Inv, TypeOK
  <2> QED
    BY <1>1, <2>1, <2>2 DEF Inv, TypeOK, n_tasks
<1>5. Holders' = {} /\ Held' = {} /\ Busy'
  BY <1>1, <1>2 DEF Holders, Held, Busy
<1>6. Found' = {} /\ Count' = 0
  BY <1>1, <1>2, <1>5, EmptyQueue, FS_EmptySet DEF Found, Count
<1> QED
  BY <1>4, <1>5, <1>6, FS_EmptySet DEF Inv, Apart, Quiet

LEMMA InvPut == Inv /\ Put => Inv'
<1> SUFFICES ASSUME Inv, Put PROVE Inv'
  OBVIOUS
<1> DEFINE e == chunked(calls, sent + 1)
<1>0. TypeOK /\ Busy /\ Found \subseteq Chunks /\ Cardinality(Found) >= Count
  BY DEF Inv, Apart, Put, Busy
<1>1. /\ primary = "put" /\ sent' = sent + 1 /\ inqueue' = Append(inqueue, e)
      /\ primary' = (IF sent' = n_tasks THEN "collect" ELSE "put")
      /\ UNCHANGED <<calls, tresults, outqueue, pc, tasks>>
  BY DEF Put, secondaryVars
<1>2. sent \in Nat /\ sent < n_tasks /\ n_tasks \in Nat /\ calls \in 1 .. MaxCalls /\ sent + 1 \in 1 .. n_tasks
  BY <1>0, <1>1, NumberOfChunks, Constants DEF TypeOK
<1>3. e \in SUBSET Genomes
  BY <1>2 DEF chunked, Population, Genomes
<1>4. /\ inqueue' \in Seq(SUBSET Genomes) /\ Len(inqueue') = Len(inqueue) + 1
      /\ Range(inqueue') = Range(inqueue) \cup {e}
  <2>1. inqueue \in Seq(SUBSET Genomes)
    BY <1>0 DEF TypeOK
  <2> HIDE DEF e
  <2> QED
    BY <1>1, <1>3, <2>1, Appended
<1>5. Busy'
  BY <1>1 DEF Busy
<1>6. TypeOK'
  <2>1. sent' \in 0 .. n_tasks /\ (primary' = "put" => sent' < n_tasks) /\ (primary' = "collect" => sent' = n_tasks)
    BY <1>1, <1>2
  <2>2. primary' \in {"put", "collect"}
    BY <1>1
  <2> QED
    BY <1>0, <1>1, <1>2, <1>4, <2>1, <2>2 DEF TypeOK, n_tasks
<1>7. Holders' = Holders /\ Held' = Held
  BY <1>1 DEF Holders, Held
<1>8. Found' = Found \cup {e}
  BY <1>1, <1>4, <1>7 DEF Found
<1>9. Count' = Count + 1
  BY <1>1, <1>4, <1>7, Countable, HoldersFinite DEF Count
<1>10. Chunks' = Chunks \cup {e}
  <2>1. 1 .. (sent + 1) = (1 .. sent) \cup {sent + 1}
    BY <1>2
  <2> QED
    BY <1>1, <2>1 DEF Chunks, chunked, Population
<1>11. e \notin Found
  <2>1. \A d \in 1 .. sent : d \in 1 .. n_tasks /\ d # sent + 1
    BY <1>2
  <2>2. PICK x : x \in e /\ \A d \in 1 .. n_tasks : d # sent + 1 => x \notin chunked(calls, d)
    BY <1>2, FirstOfChunk
  <2>3. e \notin Chunks
    BY <2>1, <2>2 DEF Chunks
  <2> QED
    BY <1>0, <2>3
<1>12. Cardinality(Found \cup {e}) = Cardinality(Found) + 1
  BY <1>0, <1>11, Countable, FS_AddElement
<1>13. Cardinality(Found') >= Count'
  BY <1>0, <1>8, <1>9, <1>12, Countable
<1> QED
  BY <1>0, <1>5, <1>6, <1>8, <1>10, <1>13 DEF Inv, Apart, Quiet

LEMMA InvCollect == Inv /\ Collect => Inv'
<1> SUFFICES ASSUME Inv, Collect PROVE Inv'
  OBVIOUS
<1> DEFINE e == Head(outqueue)
<1>1. /\ outqueue # <<>> /\ outqueue' = Tail(outqueue) /\ tresults' = Append(tresults, e)
      /\ UNCHANGED <<primary, calls, sent, inqueue, pc, tasks>> /\ Busy
  BY DEF Collect, secondaryVars, Busy
<1>2. /\ e \in SUBSET Genomes /\ outqueue' \in Seq(SUBSET Genomes)
      /\ Len(outqueue') = Len(outqueue) - 1 /\ Range(outqueue) = Range(outqueue') \cup {e}
  BY <1>1, Taken DEF Inv, TypeOK
<1>3. /\ tresults' \in Seq(SUBSET Genomes) /\ Len(tresults') = Len(tresults) + 1
      /\ Range(tresults') = Range(tresults) \cup {e}
  BY <1>1, <1>2, Appended DEF Inv, TypeOK
<1>4. Holders' = Holders /\ Held' = Held /\ Busy'
  BY <1>1 DEF Holders, Held, Busy
<1>5. TypeOK'
  BY <1>1, <1>2, <1>3, <1>4 DEF Inv, TypeOK, n_tasks
<1>6. Found' = Found /\ Count' = Count
  <2>1. Found' = Found
    BY <1>1, <1>2, <1>3, <1>4 DEF Found
  <2>2. Count' = Count
    BY <1>1, <1>2, <1>3, <1>4, Countable, HoldersFinite DEF Count
  <2> QED
    BY <2>1, <2>2
<1>7. Apart'
  BY <1>1, <1>6, MovedOrLost
<1> QED
  BY <1>4, <1>5, <1>7 DEF Inv, Quiet

\* When evaluate has as many results as it put chunks, these are all of them.
LEMMA AllCollected ==
  ASSUME Inv, Assign
  PROVE  /\ inqueue = <<>> /\ outqueue = <<>> /\ Holders = {}
         /\ UNION Range(tresults) = Population(calls)
<1>1. primary = "collect" /\ Len(tresults) = n_tasks /\ Busy
  BY DEF Assign, Returns, Busy
<1>2. sent = n_tasks /\ calls \in Nat
  BY <1>1, Constants DEF Inv, TypeOK
<1>3. Cardinality(Found) >= Count /\ Cardinality(Found) <= sent
  BY <1>1, Countable DEF Inv, Apart
<1>4. Len(inqueue) = 0 /\ Len(outqueue) = 0 /\ Cardinality(Holders) = 0 /\ Cardinality(Found) = sent
  BY <1>1, <1>2, <1>3, Countable, HoldersFinite DEF Count
<1>5. inqueue = <<>> /\ outqueue = <<>>
  BY <1>4 DEF Inv, TypeOK
<1>6. Holders = {}
  BY <1>4, HoldersFinite, FS_EmptySet
<1>7. Found = Range(tresults)
  BY <1>5, <1>6, EmptyQueue DEF Found, Held
<1>8. Found = Chunks
  <2>1. IsFiniteSet(Chunks) /\ Cardinality(Chunks) <= sent /\ Cardinality(Chunks) \in Nat /\ Found \subseteq Chunks
    BY <1>1, ChunksFinite, Countable DEF Inv, Apart
  <2>2. Cardinality(Found) <= Cardinality(Chunks)
    BY <2>1, FS_Subset
  <2>3. Cardinality(Found) = Cardinality(Chunks)
    BY <1>1, <1>4, <2>1, <2>2, Countable
  <2> QED
    BY <2>1, <2>3, FS_Subset
<1>9. UNION Chunks = Population(calls)
  BY <1>2, ChunksCover DEF Chunks
<1> QED
  BY <1>5, <1>6, <1>7, <1>8, <1>9

LEMMA InvPrimaryRests ==
  ASSUME Inv, Assign \/ Shutdown \/ Start \/ \E force \in BOOLEAN : Stop(force)
  PROVE  Inv'
<1>1. /\ primary' \in {"off", "idle", "stopping"}
      /\ UNCHANGED <<calls, sent, tresults, pc, tasks>>
      /\ (inqueue' = inqueue /\ outqueue' = outqueue) \/ (inqueue' = <<>> /\ outqueue' = <<>>)
  BY DEF Assign, Returns, Shutdown, Start, Stop, secondaryVars
<1>2. inqueue = <<>> /\ outqueue = <<>> /\ Holders = {}
  <2>1. CASE Assign
    BY <2>1, AllCollected
  <2>2. CASE ~Assign
    BY <2>2 DEF Shutdown, Start, Stop, Inv, Quiet, Busy
  <2> QED
    BY <2>1, <2>2
<1>3. ~Busy' /\ Holders' = {}
  BY <1>1, <1>2 DEF Busy, Holders
<1>4. inqueue' = inqueue /\ outqueue' = outqueue
  BY <1>1, <1>2
<1>5. TypeOK'
  BY <1>1, <1>3, <1>4 DEF Inv, TypeOK, n_tasks
<1> QED
  BY <1>2, <1>3, <1>4, <1>5 DEF Inv, Apart, Quiet

-----------------------------------------------------------------------------
\* A secondary.
LEMMA InvGet == ASSUME Inv, NEW s \in Secondaries, Get(s) PROVE Inv'
<1> DEFINE e == Head(inqueue)
<1>1. /\ pc[s] = "get" /\ pc' = [pc EXCEPT ![s] = "eval"]
      /\ inqueue # <<>> /\ inqueue' = Tail(inqueue) /\ tasks' = [tasks EXCEPT ![s] = e]
      /\ UNCHANGED <<primary, calls, sent, tresults, outqueue>>
  BY DEF Get, Goes, primaryVars
<1>2. Busy /\ Busy'
  BY <1>1 DEF Inv, Quiet, Busy
<1>3. inqueue \in Seq(SUBSET Genomes)
  BY DEF Inv, TypeOK
<1>4. /\ e \in SUBSET Genomes /\ inqueue' \in Seq(SUBSET Genomes)
      /\ Len(inqueue') = Len(inqueue) - 1 /\ Range(inqueue) = Range(inqueue') \cup {e}
  BY <1>1, <1>3, Taken
<1> HIDE DEF e
<1>5. TypeOK'
  <2>1. pc' \in [Secondaries -> {"unborn", "reset", "loop", "get", "eval", "exited", "raised"}]
    BY <1>1 DEF Inv, TypeOK
  <2>2. tasks' \in [Secondaries -> SUBSET Genomes]
    BY <1>1, <1>4 DEF Inv, TypeOK
  <2> QED
    BY <1>1, <1>2, <1>4, <2>1, <2>2 DEF Inv, TypeOK, n_tasks
<1>6. Holders' = Holders \cup {s} /\ s \notin Holders
  BY <1>1 DEF Holders, Inv, TypeOK
<1>7. Held' = Held \cup {e}
  <2>1. tasks'[s] = e /\ \A r \in Holders : tasks'[r] = tasks[r]
    BY <1>1, <1>6 DEF Inv, TypeOK, Holders
  <2> QED
    BY <1>6, <2>1 DEF Held
<1>8. Found' = Found
  BY <1>1, <1>4, <1>7 DEF Found
<1>9. Count' = Count
  <2>1. Cardinality(Holders \cup {s}) = Cardinality(Holders) + 1
    BY <1>6, HoldersFinite, FS_AddElement
  <2> QED
    BY <1>1, <1>4, <1>6, <2>1, Countable, HoldersFinite DEF Count
<1>10. Apart'
  BY <1>1, <1>8, <1>9, MovedOrLost
<1> QED
  BY <1>2, <1>5, <1>10 DEF Inv, Quiet

\* The chunk a secondary holds is delivered, or lost with its failure.
LEMMA InvLetsGo ==
  ASSUME Inv, NEW s \in Secondaries, Deliver(s) \/ DeliverFails(s) \/ EvalRaises(s)
  PROVE  Inv'
<1> DEFINE e == tasks[s]
<1>1. PICK to \in {"loop", "reset", "exited", "raised"} :
        /\ pc[s] = "eval" /\ pc' = [pc EXCEPT ![s] = to]
        /\ tasks' = [tasks EXCEPT ![s] = {}]
        /\ outqueue' = outqueue \/ outqueue' = Append(outqueue, e)
        /\ UNCHANGED <<primary, calls, sent, tresults, inqueue>>
  BY DEF Deliver, DeliverFails, EvalRaises, AfterFailure, Goes, Left, primaryVars
<1>2. s \in Holders /\ Busy /\ Busy'
  BY <1>1 DEF Inv, Quiet, Busy, Holders
<1>3. outqueue \in Seq(SUBSET Genomes) /\ e \in SUBSET Genomes
  BY DEF Inv, TypeOK
<1>4. outqueue' = Append(outqueue, e) =>
        /\ outqueue' \in Seq(SUBSET Genomes) /\ Len(outqueue') = Len(outqueue) + 1
        /\ Range(outqueue') = Range(outqueue) \cup {e}
  <2> HIDE DEF e
  <2> QED
    BY <1>3, Appended
<1>5. TypeOK'
  <2>1. pc' \in [Secondaries -> {"unborn", "reset", "loop", "get", "eval", "exited", "raised"}]
    BY <1>1 DEF Inv, TypeOK
  <2>2. tasks' \in [Secondaries -> SUBSET Genomes]
    BY <1>1 DEF Inv, TypeOK
  <2>3. outqueue' \in Seq(SUBSET Genomes)
    BY <1>1, <1>3, <1>4
  <2> QED
    BY <1>1, <1>2, <2>1, <2>2, <2>3 DEF Inv, TypeOK, n_tasks
<1>6. Holders' = Holders \ {s}
  BY <1>1 DEF Holders, Inv, TypeOK
<1>7. Held' \subseteq Held /\ Held \subseteq Held' \cup {e} /\ e \in Held
  <2>1. \A r \in Holders' : tasks'[r] = tasks[r]
    BY <1>1, <1>6 DEF Inv, TypeOK, Holders
  <2> QED
    BY <1>2, <1>6, <2>1 DEF Held
<1>8. Cardinality(Holders \ {s}) = Cardinality(Holders) - 1
  BY <1>2, HoldersFinite, FS_RemoveElement
<1>9. CASE outqueue' = Append(outqueue, e)
  <2>1. Found' = Found
    BY <1>1, <1>4, <1>7, <1>9 DEF Found
  <2>2. Count' = Count
    BY <1>1, <1>4, <1>6, <1>8, <1>9, Countable, HoldersFinite DEF Count
  <2> QED
    BY <1>1, <1>2, <1>5, <2>1, <2>2, MovedOrLost DEF Inv, Quiet
<1>10. CASE outqueue' = outqueue
  <2>1. Found' \subseteq Found /\ Found \subseteq Found' \cup {e}
    BY <1>1, <1>7, <1>10 DEF Found
  <2>2. Count' = Count - 1
    BY <1>1, <1>6, <1>8, <1>10, Countable, HoldersFinite DEF Count
  <2> QED
    BY <1>1, <1>2, <1>5, <2>1, <2>2, MovedOrLost DEF Inv, Quiet
<1> QED
  BY <1>1, <1>9, <1>10

\* A get that fails may have taken a chunk with it; the other steps of a
\* secondary touch no queue.
LEMMA InvMoves ==
  ASSUME Inv, NEW s \in Secondaries,
         Begin(s) \/ Reset(s) \/ Cycle(s) \/ Empty(s) \/ GetFails(s)
  PROVE  Inv'
<1> DEFINE e == Head(inqueue)
<1>1. PICK to \in {"reset", "loop", "get", "exited", "raised"} :
        /\ pc[s] # "eval" /\ pc' = [pc EXCEPT ![s] = to]
        /\ inqueue' = inqueue \/ (inqueue # <<>> /\ inqueue' = Tail(inqueue))
        /\ UNCHANGED <<primary, calls, sent, tresults, outqueue, tasks>>
  <2>1. CASE Begin(s) \/ Reset(s)
    BY <2>1 DEF Begin, Reset, Goes, primaryVars
  <2>2. CASE Cycle(s)
    <3>1. pc[s] # "eval" /\ UNCHANGED <<inqueue, primary, calls, sent, tresults, outqueue, tasks>>
      BY <2>2 DEF Cycle, Goes, primaryVars
    <3>2. \E to \in {"reset", "loop", "get", "exited", "raised"} : pc' = [pc EXCEPT ![s] = to]
      BY <2>2 DEF Cycle, Goes, Left
    <3> QED
      BY <3>1, <3>2
  <2>3. CASE Empty(s) \/ GetFails(s)
    BY <2>3 DEF Empty, GetFails, AfterFailure, Goes, Left, primaryVars
  <2> QED
    BY <2>1, <2>2, <2>3
<1>2. inqueue \in Seq(SUBSET Genomes)
  BY DEF Inv, TypeOK
<1>3. inqueue # <<>> =>
        /\ Tail(inqueue) \in Seq(SUBSET Genomes) /\ Len(Tail(inqueue)) = Len(inqueue) - 1
        /\ Range(inqueue) = Range(Tail(inqueue)) \cup {e}
  BY <1>2, Taken
<1> HIDE DEF e
<1>4. Holders' = Holders /\ Held' = Held
  <2>1. Holders' = Holders
    BY <1>1 DEF Holders, Inv, TypeOK
  <2> QED
    BY <1>1, <2>1 DEF Held
<1>5. Busy' = Busy
  BY <1>1 DEF Busy
<1>6. TypeOK'
  <2>1. pc' \in [Secondaries -> {"unborn", "reset", "loop", "get", "eval", "exited", "raised"}]
    BY <1>1 DEF Inv, TypeOK
  <2>2. inqueue' \in Seq(SUBSET Genomes)
    BY <1>1, <1>2, <1>3
  <2> QED
    BY <1>1, <1>5, <2>1, <2>2 DEF Inv, TypeOK, n_tasks
<1>7. Quiet'
  BY <1>1, <1>4, <1>5 DEF Inv, Quiet
<1>8. CASE inqueue' = inqueue
  <2>1. Found' = Found /\ Count' = Count
    BY <1>1, <1>4, <1>8 DEF Found, Count
  <2> QED
    BY <1>1, <1>6, <1>7, <2>1, MovedOrLost DEF Inv
<1>9. CASE inqueue # <<>> /\ inqueue' = Tail(inqueue)
  <2>1. Found' \subseteq Found /\ Found \subseteq Found' \cup {e}
    BY <1>1, <1>3, <1>4, <1>9 DEF Found
  <2>2. Count' = Count - 1
    BY <1>1, <1>3, <1>4, <1>9, Countable, HoldersFinite DEF Count
  <2> QED
    BY <1>1, <1>6, <1>7, <2>1, <2>2, MovedOrLost DEF Inv
<1> QED
  BY <1>1, <1>8, <1>9

LEMMA InvStep == Inv /\ [Next]_vars => Inv'
<1> SUFFICES ASSUME Inv, [Next]_vars PROVE Inv'
  OBVIOUS
<1>1. CASE UNCHANGED vars
  <2>1. UNCHANGED <<primary, calls, sent, tresults, inqueue, outqueue, pc, tasks>>
    BY <1>1 DEF vars, primaryVars, secondaryVars
  <2>2. Found' = Found /\ Count' = Count /\ Chunks' = Chunks /\ Holders' = Holders /\ Busy' = Busy
    BY <2>1 DEF Found, Count, Chunks, chunked, Population, Holders, Held, Busy
  <2>3. TypeOK'
    BY <2>1, <2>2 DEF Inv, TypeOK, n_tasks
  <2> QED
    BY <2>1, <2>2, <2>3 DEF Inv, Apart, Quiet
<1>2. ASSUME NEW s \in Secondaries, Begin(s) \/ SecondaryStep(s) PROVE Inv'
  BY <1>2, InvGet, InvLetsGo, InvMoves DEF SecondaryStep
<1> QED
  BY <1>1, <1>2, InvEvaluate, InvPut, InvCollect, InvPrimaryRests DEF Next, PrimaryStep

-----------------------------------------------------------------------------
\* evaluate returns only when every genome of the call has its fitness, and
\* gives it to no other one, for every interleaving of primary and
\* secondaries and whatever chunks their failures lose.
THEOREM DistributedImplements == Spec => ImplementsPromise
<1>1. Init => Promise!Init
  BY DEF Init, Promise!Init, Busy
<1>2. Inv /\ Inv' /\ [Next]_vars => [Promise!Next]_(Promise!vars)
  <2> SUFFICES ASSUME Inv, Inv', [Next]_vars PROVE [Promise!Next]_(Promise!vars)
    OBVIOUS
  <2> USE DEF Promise!vars
  <2>1. CASE Evaluate
    <3>1. calls' \in 1 .. MaxCalls /\ ~Busy /\ Busy' /\ evaluated' = evaluated
      BY <2>1, Constants DEF Evaluate, Inv, TypeOK, Busy
    <3>2. Population(calls') \in SUBSET Genomes /\ calls' # 0
      BY <3>1 DEF Population, Genomes
    <3>3. Promise!Call
      BY <3>1, <3>2 DEF Promise!Call
    <3> QED
      BY <3>3 DEF Promise!Next
  <2>2. CASE Assign
    <3>1. calls # 0 /\ Busy /\ ~Busy' /\ calls' = calls /\ evaluated' = evaluated \cup UNION Range(tresults)
      BY <2>2 DEF Assign, Returns, Inv, TypeOK, Busy
    <3>2. evaluated' = evaluated \cup Population(calls)
      BY <2>2, <3>1, AllCollected
    <3>3. Promise!Return
      BY <3>1, <3>2 DEF Promise!Return, Population
    <3> QED
      BY <3>3 DEF Promise!Next
  <2>3. CASE Put \/ Collect \/ Start \/ Shutdown \/ \E force \in BOOLEAN : Stop(force)
    <3>1. calls' = calls /\ evaluated' = evaluated
      BY <2>3 DEF Put, Collect, Start, Shutdown, Stop
    <3>2. Busy' = Busy
      BY <2>3 DEF Put, Collect, Start, Shutdown, Stop, Busy
    <3> QED
      BY <3>1, <3>2 DEF Population
  <2>4. CASE UNCHANGED vars
    BY <2>4 DEF vars, primaryVars, Busy, Population
  <2>5. ASSUME NEW s \in Secondaries, Begin(s) \/ SecondaryStep(s) PROVE [Promise!Next]_(Promise!vars)
    <3>1. UNCHANGED <<primary, calls, evaluated>>
      BY <2>5 DEF SecondaryStep, Begin, Reset, Cycle, Get, Empty, GetFails, Deliver, DeliverFails,
                  EvalRaises, primaryVars
    <3> QED
      BY <3>1 DEF Busy, Population
  <2> QED
    BY <2>1, <2>2, <2>3, <2>4, <2>5 DEF Next, PrimaryStep
<1> QED
  BY <1>1, <1>2, InvInit, InvStep, PTL DEF Spec, ImplementsPromise, Promise!Spec
=============================================================================
