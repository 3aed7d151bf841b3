----------------------------- MODULE DataMonitor -----------------------------
(***************************************************************************)
(* The data monitors of module Diagnoser together with the interfaces they *)
(* use inside their locked blocks: the query loop of get_data              *)
(* (diagnoser/cassandra.py), what load_data makes of its rows              *)
(* (diagnoser/profiler.py), and getHigherVersionID (diagnoser/tools.py),   *)
(* which asks the app catalogue for one version after the other.  The main *)
(* loop and the NEAT runs go on beside them.                               *)
(*                                                                         *)
(* A row is its app id, its service, and whether its time is in one of the *)
(* configured ranges.  Every query may answer anything, as data arrives    *)
(* and versions are installed all the time, and may raise.                 *)
(***************************************************************************)
EXTENDS Diagnoser, Sequences

CONSTANTS
  AppIds,      \* app ids, as numbers in the order pandas sorts them
  Rows,        \* the rows a partition may hold
  Partitions,  \* BOUND: partitions of a query, its minutes times its resource types
  RowLimit,    \* row_limit (2**16 in the code)
  Versions,    \* the versions the catalogue may hold, as sequences of parts
  PartLimit,   \* 10**4: the weights of version_string_to_int are
  LastLimit    \* 10**6 and its products with powers of 10**4

ASSUME DataMonitorAssumption ==
  /\ AppIds \subseteq Nat /\ IsFiniteSet(AppIds)
  /\ Rows \subseteq [app : AppIds, service : Services \cup {None}, in_range : BOOLEAN]
  /\ IsFiniteSet(Rows)
  /\ Partitions \in Nat \ {0} /\ RowLimit \in Nat \ {0}
  /\ Versions \subseteq Seq(Nat)
  /\ PartLimit \in Nat \ {0} /\ LastLimit \in Nat \ {0}

\* The first four parts, filled up with zeros.
Part(version, i) == IF i <= Len(version) THEN version[i] ELSE 0

\* Larger parts would spill over into the number of the part before.
ASSUME VersionsFit ==
  \A v \in Versions : Part(v, 2) < PartLimit /\ Part(v, 3) < PartLimit /\ Part(v, 4) < LastLimit

VARIABLES
  data,       \* per monitor, the answers of this iteration, partition by partition
  asked,      \* per monitor, the app ids asked for so far
  nID,        \* per monitor, the ids and versions collected from the answers
  app_id      \* per monitor, what getHigherVersionID returned

dataVars    == <<data, asked, nID, app_id>>
monitorVars == <<vars, dataVars>>

NoApp == 0

MonitorInit ==
  /\ Init
  /\ data = [m \in Ids |-> <<>>] /\ asked = [m \in Ids |-> {}]
  /\ nID = [m \in Ids |-> {}] /\ app_id = [m \in Ids |-> NoApp]

\* The locals of an iteration are forgotten with the iteration.
Forget(m) ==
  /\ data' = [data EXCEPT ![m] = <<>>] /\ asked' = [asked EXCEPT ![m] = {}]
  /\ nID' = [nID EXCEPT ![m] = {}] /\ app_id' = [app_id EXCEPT ![m] = NoApp]

-----------------------------------------------------------------------------
(* get_data and load_data, under the lock. *)

Count(answers) == Cardinality({pr \in (DOMAIN answers) \X Rows : pr[2] \in answers[pr[1]]})

\* Mutant: the limit has to be exceeded.
LimitExceeded(answers) == Count(answers) > RowLimit

\* Tested before each partition only, so the last one may exceed the limit.
LimitHit(answers) == Count(answers) >= RowLimit

Queried(m) == Len(data[m]) = Partitions \/ LimitHit(data[m])

Query(m) ==
  /\ monPc[m] = "loading" /\ ~Queried(m)
  /\ \E rows \in SUBSET Rows : data' = [data EXCEPT ![m] = Append(@, rows)]
  /\ UNCHANGED <<vars, asked, nID, app_id>>

Read(m) == UNION {data[m][p] : p \in DOMAIN data[m]}

\* The rows of the alarm's service; a missing value equals nothing, another
\* missing value included.
OfService(rows, service) == {r \in rows : service # None /\ r.service = service}

\* process_data: the rows in a range.
InRange(rows) == {r \in rows : r.in_range}

\* The app ids with rows that are left.
app_ids(m) == {r.app : r \in InRange(OfService(Read(m), monArgs[m].service))}

\* All partitions are read, and the number of app ids decides; or the
\* connection or a query raised.
Loaded(m) ==
  /\ MonLoad(m)
  /\ monPc'[m] # "failed" =>
       Queried(m) /\ (monPc'[m] = "version" <=> Cardinality(app_ids(m)) >= 2)
  /\ IF monPc'[m] = "version" THEN UNCHANGED dataVars ELSE Forget(m)

-----------------------------------------------------------------------------
(* getHigherVersionID, under the lock. *)

\* Mutant: the last two parts have the same weight.
version_string_to_sum(version) ==
  (Part(version, 1) * PartLimit + Part(version, 2)) * PartLimit + Part(version, 3) + Part(version, 4)

version_string_to_int(version) ==
  ((Part(version, 1) * PartLimit + Part(version, 2)) * PartLimit + Part(version, 3)) * LastLimit
    + Part(version, 4)

\* One request, in the order of the ids; an app without a version is passed
\* over.
Ask(m) ==
  /\ monPc[m] = "versioning"
  /\ \E id \in app_ids(m) \ asked[m] :
       /\ \A later \in app_ids(m) \ asked[m] : id <= later
       /\ asked' = [asked EXCEPT ![m] = @ \cup {id}]
       /\ \/ UNCHANGED nID
          \/ \E version \in Versions : nID' = [nID EXCEPT ![m] = @ \cup {<<id, version>>}]
  /\ UNCHANGED <<vars, data, app_id>>

\* idxmax: the first of the highest numbers.
IsIdxmax(n, ns) ==
  \A o \in ns :
    LET x == version_string_to_int(n[2])
        y == version_string_to_int(o[2])
    IN  y <= x /\ (y = x => n[1] <= o[1])

\* Without any version idxmax raises, as may each request before.
Picked(m) ==
  /\ MonVersion(m)
  /\ \/ monPc'[m] = "failed" /\ Forget(m)
     \/ /\ monPc'[m] = "evaluate" /\ asked[m] = app_ids(m)
        /\ \E n \in nID[m] : IsIdxmax(n, nID[m]) /\ app_id' = [app_id EXCEPT ![m] = n[1]]
        /\ UNCHANGED <<data, asked, nID>>

-----------------------------------------------------------------------------
\* A new iteration, or the end of the thread, forgets its locals.
Evaluated(m) ==
  /\ MonEvaluate(m)
  /\ IF monPc'[m] = "trigger" THEN UNCHANGED dataVars ELSE Forget(m)

Triggered(m) == MonTrigger(m) /\ Forget(m)

Locks(m) == (MonLockLoad(m) \/ MonLockVersion(m) \/ MonLockTrigger(m)) /\ UNCHANGED dataVars

MonitorStep(m) ==
  \/ Locks(m) \/ Query(m) \/ Loaded(m) \/ Ask(m) \/ Picked(m) \/ Evaluated(m) \/ Triggered(m)

OtherStep(A) == A /\ UNCHANGED dataVars

MonitorNext ==
  \/ OtherStep(Receive) \/ OtherStep(LoopStep) \/ (\E r \in Ids : OtherStep(RunStep(r))) \/ OtherStep(Idle)
  \/ \E m \in Ids : MonitorStep(m)

MonitorSpec == MonitorInit /\ [][MonitorNext]_monitorVars

MonitorFairness ==
  /\ WF_monitorVars(OtherStep(LoopStep))
  /\ \A k \in Ids : WF_monitorVars(OtherStep(RunStep(k))) /\ WF_monitorVars(MonitorStep(k))

FairMonitorSpec == MonitorSpec /\ MonitorFairness

-----------------------------------------------------------------------------
\* Types of the locals.
DataTypeOK ==
  /\ data \in [Ids -> Seq(SUBSET Rows)] /\ asked \in [Ids -> SUBSET AppIds]
  /\ nID \in [Ids -> SUBSET (AppIds \X Versions)] /\ app_id \in [Ids -> AppIds \cup {NoApp}]

\* v is an older version than w, part by part.
Older(v, w) ==
  \E i \in 1 .. 4 : Part(v, i) < Part(w, i) /\ \A j \in 1 .. (i - 1) : Part(v, j) = Part(w, j)

Decided(m) == monPc[m] \in {"evaluate", "trigger", "triggering"}

\* The app that is profiled, and whose id the healing script gets, has data
\* of the time that is asked for, and for the service of the alarm that
\* started the monitor, which has one; and of all such apps that have a
\* version it has the highest, the first of equals: what the name
\* getHigherVersionID says, with numbers made of parts, rows of other
\* services and times, and apps without a version in between.
PicksHighestVersion ==
  \A m \in Ids : Decided(m) =>
    LET present == {id \in AppIds :
          \E p \in DOMAIN data[m] : [app |-> id, service |-> log[m].service, in_range |-> TRUE] \in data[m][p]}
        answered == {n \in nID[m] : n[1] \in present}
    IN  /\ log[m].service # None /\ asked[m] = present
        /\ \E n \in answered :
             /\ n[1] = app_id[m]
             /\ \A o \in answered : ~Older(n[2], o[2]) /\ (o[1] < n[1] => Older(o[2], n[2]))

\* A monitor that goes on from its query read the whole window, or every
\* partition up to the one that reached the limit and no further.
ReadsUpToLimit ==
  \A m \in Ids : monPc[m] \in {"version", "versioning"} \/ Decided(m) =>
    LET before == {pr \in (1 .. (Len(data[m]) - 1)) \X Rows : pr[2] \in data[m][pr[1]]}
        last   == data[m][Len(data[m])]
    IN  /\ Cardinality(before) < RowLimit
        /\ Len(data[m]) = Partitions \/ Cardinality(before) + Cardinality(last) >= RowLimit
=============================================================================
