-------------------------- MODULE DataMonitorProofs --------------------------
(***************************************************************************)
(* The data monitors with their interfaces still are the monitors of       *)
(* module Diagnoser, the version they pick is the highest one, and they    *)
(* read as many rows as they should.                                       *)
(***************************************************************************)
EXTENDS DataMonitor, DiagnoserProofs, FiniteSetTheorems

LEMMA MonitorStepIsStep == [MonitorNext]_monitorVars => [Next]_vars
<1> SUFFICES ASSUME [MonitorNext]_monitorVars PROVE [Next]_vars
  OBVIOUS
<1>1. CASE UNCHANGED monitorVars
  BY <1>1 DEF monitorVars
<1>2. CASE OtherStep(Receive) \/ OtherStep(LoopStep) \/ OtherStep(Idle)
  BY <1>2 DEF OtherStep, Next
<1>3. ASSUME NEW r \in Ids, OtherStep(RunStep(r)) PROVE [Next]_vars
  BY <1>3 DEF OtherStep, Next
<1>4. ASSUME NEW m \in Ids, MonitorStep(m) PROVE [Next]_vars
  <2>1. CASE Query(m) \/ Ask(m)
    BY <2>1 DEF Query, Ask
  <2>2. CASE Locks(m) \/ Loaded(m) \/ Picked(m) \/ Evaluated(m) \/ Triggered(m)
    <3>1. MonStep(m)
      BY <2>2 DEF Locks, Loaded, Picked, Evaluated, Triggered, MonStep
    <3> QED
      BY <3>1 DEF Next
  <2> QED
    BY <1>4, <2>1, <2>2 DEF MonitorStep
<1> QED
  BY <1>1, <1>2, <1>3, <1>4 DEF MonitorNext

\* Every behaviour with the queries and requests in detail is one of the
\* main loop and its threads as Diagnoser describes them: what is proved
\* there holds here.
THEOREM MonitorsImplement == MonitorSpec => Spec
<1>1. MonitorInit => Init
  BY DEF MonitorInit
<1> QED
  BY <1>1, MonitorStepIsStep, PTL DEF MonitorSpec, Spec

-----------------------------------------------------------------------------
(* The numbers of versions. *)

LEMMA Weighted ==
  ASSUME NEW L \in Nat \ {0}, NEW x \in Nat, NEW y \in Nat, NEW p \in Nat, NEW q \in Nat,
         x < y, p < L
  PROVE  x * L + p < y * L + q
<1>1. PICK d \in Nat : y = x + 1 + d
  <2>1. y - x - 1 \in Nat /\ y = x + 1 + (y - x - 1)
    OBVIOUS
  <2> QED
    BY <2>1
<1>2. d * L \in Nat /\ x * L \in Nat
  OBVIOUS
<1>3. y * L = x * L + L + d * L
  BY <1>1
<1> QED
  BY <1>2, <1>3

LEMMA PartType == ASSUME NEW v \in Versions, NEW i \in 1 .. 4 PROVE Part(v, i) \in Nat
BY DataMonitorAssumption DEF Part

\* version_string_to_int keeps the order of versions: a version that is
\* older part by part has the smaller number, whatever the parts, as long as
\* they fit.
THEOREM OlderIsSmaller ==
  ASSUME NEW v \in Versions, NEW w \in Versions, Older(v, w)
  PROVE  version_string_to_int(v) < version_string_to_int(w)
<1> DEFINE a(u) == Part(u, 1)
           b(u) == a(u) * PartLimit + Part(u, 2)
           c(u) == b(u) * PartLimit + Part(u, 3)
<1>0. PartLimit \in Nat \ {0} /\ LastLimit \in Nat \ {0}
  BY DataMonitorAssumption
<1>1. \A u \in {v, w} : /\ a(u) \in Nat /\ Part(u, 2) \in Nat /\ Part(u, 3) \in Nat /\ Part(u, 4) \in Nat
                        /\ Part(u, 2) < PartLimit /\ Part(u, 3) < PartLimit /\ Part(u, 4) < LastLimit
  BY PartType, VersionsFit
<1>2. \A u \in {v, w} : b(u) \in Nat
  BY <1>0, <1>1
<1>3. \A u \in {v, w} : c(u) \in Nat
  <2> HIDE DEF b
  <2> QED
    BY <1>0, <1>1, <1>2
<1>4. \A u \in {v, w} : version_string_to_int(u) = c(u) * LastLimit + Part(u, 4)
  BY DEF version_string_to_int
<1>5. PICK i \in 1 .. 4 : Part(v, i) < Part(w, i) /\ \A j \in 1 .. (i - 1) : Part(v, j) = Part(w, j)
  BY DEF Older
<1>6. a(v) < a(w) => b(v) < b(w)
  <2> HIDE DEF a
  <2> QED
    BY <1>0, <1>1, Weighted
<1>7. b(v) < b(w) => c(v) < c(w)
  <2> HIDE DEF b
  <2> QED
    BY <1>0, <1>1, <1>2, Weighted
<1>8. c(v) < c(w) => version_string_to_int(v) < version_string_to_int(w)
  <2> HIDE DEF c
  <2> QED
    BY <1>0, <1>1, <1>3, <1>4, Weighted
<1>9. CASE i = 1
  BY <1>5, <1>6, <1>7, <1>8, <1>9
<1>10. CASE i = 2
  <2>1. a(v) = a(w) /\ Part(v, 2) < Part(w, 2)
    BY <1>5, <1>10
  <2>2. b(v) < b(w)
    <3> HIDE DEF a
    <3>1. a(v) * PartLimit = a(w) * PartLimit /\ a(v) * PartLimit \in Nat
      BY <1>0, <1>1, <2>1
    <3> QED
      BY <1>1, <2>1, <3>1
  <2> QED
    BY <1>7, <1>8, <2>2
<1>11. CASE i = 3
  <2>1. a(v) = a(w) /\ Part(v, 2) = Part(w, 2) /\ Part(v, 3) < Part(w, 3)
    BY <1>5, <1>11
  <2>2. b(v) = b(w)
    BY <2>1
  <2>3. c(v) < c(w)
    <3> HIDE DEF b
    <3>1. b(v) * PartLimit = b(w) * PartLimit /\ b(v) * PartLimit \in Nat
      BY <1>0, <1>2, <2>2
    <3> QED
      BY <1>1, <2>1, <3>1
  <2> QED
    BY <1>8, <2>3
<1>12. CASE i = 4
  <2>1. a(v) = a(w) /\ Part(v, 2) = Part(w, 2) /\ Part(v, 3) = Part(w, 3) /\ Part(v, 4) < Part(w, 4)
    BY <1>5, <1>12
  <2>2. c(v) = c(w)
    BY <2>1
  <2> HIDE DEF c
  <2>3. c(v) * LastLimit = c(w) * LastLimit /\ c(v) * LastLimit \in Nat
    BY <1>0, <1>3, <2>2
  <2> QED
    BY <1>1, <1>4, <2>1, <2>3
<1> QED
  BY <1>5, <1>9, <1>10, <1>11, <1>12

\* Of two versions one is older, or their numbers are the same.
LEMMA Comparable ==
  ASSUME NEW v \in Versions, NEW w \in Versions
  PROVE  Older(v, w) \/ Older(w, v) \/ version_string_to_int(v) = version_string_to_int(w)
<1>1. \A i \in 1 .. 4 : Part(v, i) \in Nat /\ Part(w, i) \in Nat
  BY PartType
<1>2. CASE Part(v, 1) # Part(w, 1)
  BY <1>1, <1>2 DEF Older
<1>3. CASE Part(v, 1) = Part(w, 1) /\ Part(v, 2) # Part(w, 2)
  BY <1>1, <1>3 DEF Older
<1>4. CASE Part(v, 1) = Part(w, 1) /\ Part(v, 2) = Part(w, 2) /\ Part(v, 3) # Part(w, 3)
  <2>1. \A j \in 1 .. 2 : Part(v, j) = Part(w, j)
    BY <1>4
  <2> QED
    BY <1>1, <1>4, <2>1 DEF Older
<1>5. CASE /\ Part(v, 1) = Part(w, 1) /\ Part(v, 2) = Part(w, 2)
           /\ Part(v, 3) = Part(w, 3) /\ Part(v, 4) # Part(w, 4)
  <2>1. \A j \in 1 .. 3 : Part(v, j) = Part(w, j)
    BY <1>5
  <2> QED
    BY <1>1, <1>5, <2>1 DEF Older
<1>6. CASE /\ Part(v, 1) = Part(w, 1) /\ Part(v, 2) = Part(w, 2)
           /\ Part(v, 3) = Part(w, 3) /\ Part(v, 4) = Part(w, 4)
  BY <1>6 DEF version_string_to_int
<1> QED
  BY <1>2, <1>3, <1>4, <1>5, <1>6

LEMMA NumberType == ASSUME NEW v \in Versions PROVE version_string_to_int(v) \in Nat
<1>1. /\ Part(v, 1) \in Nat /\ Part(v, 2) \in Nat /\ Part(v, 3) \in Nat /\ Part(v, 4) \in Nat
      /\ PartLimit \in Nat /\ LastLimit \in Nat
  BY PartType, DataMonitorAssumption
<1>2. Part(v, 1) * PartLimit + Part(v, 2) \in Nat
  BY <1>1
<1>3. (Part(v, 1) * PartLimit + Part(v, 2)) * PartLimit + Part(v, 3) \in Nat
  BY <1>1, <1>2
<1> QED
  BY <1>1, <1>3 DEF version_string_to_int

-----------------------------------------------------------------------------
(* The locals of the monitors. *)

LEMMA AppsType == ASSUME DataTypeOK, NEW m \in Ids PROVE app_ids(m) \subseteq AppIds
BY DataMonitorAssumption DEF DataTypeOK, app_ids, InRange, OfService, Read

LEMMA DataType2 == DataTypeOK /\ TypeInv /\ [MonitorNext]_monitorVars => DataTypeOK'
<1> SUFFICES ASSUME DataTypeOK, TypeInv, [MonitorNext]_monitorVars PROVE DataTypeOK'
  OBVIOUS
<1>1. CASE UNCHANGED dataVars
  BY <1>1 DEF DataTypeOK, dataVars
<1>2. ASSUME NEW m \in Ids, Forget(m) PROVE DataTypeOK'
  BY <1>2 DEF DataTypeOK, Forget
<1>3. ASSUME NEW m \in Ids, MonitorStep(m) PROVE DataTypeOK'
  <2>1. CASE Query(m)
    <3>1. PICK rows \in SUBSET Rows : data' = [data EXCEPT ![m] = Append(@, rows)]
      BY <2>1 DEF Query
    <3>2. Append(data[m], rows) \in Seq(SUBSET Rows)
      BY DEF DataTypeOK
    <3> QED
      BY <2>1, <3>1, <3>2 DEF Query, DataTypeOK
  <2>2. CASE Ask(m)
    <3>1. PICK id \in app_ids(m) :
            /\ asked' = [asked EXCEPT ![m] = @ \cup {id}]
            /\ \/ UNCHANGED nID
               \/ \E version \in Versions : nID' = [nID EXCEPT ![m] = @ \cup {<<id, version>>}]
      BY <2>2 DEF Ask
    <3>2. id \in AppIds
      BY AppsType
    <3>3. asked' \in [Ids -> SUBSET AppIds]
      BY <3>1, <3>2 DEF DataTypeOK
    <3>4. nID' \in [Ids -> SUBSET (AppIds \X Versions)]
      <4>1. CASE UNCHANGED nID
        BY <4>1 DEF DataTypeOK
      <4>2. ASSUME NEW version \in Versions, nID' = [nID EXCEPT ![m] = @ \cup {<<id, version>>}]
            PROVE  nID' \in [Ids -> SUBSET (AppIds \X Versions)]
        <5>1. nID[m] \cup {<<id, version>>} \in SUBSET (AppIds \X Versions)
          BY <3>2 DEF DataTypeOK
        <5> QED
          BY <4>2, <5>1 DEF DataTypeOK
      <4> QED
        BY <3>1, <4>1, <4>2
    <3> QED
      BY <2>2, <3>3, <3>4 DEF Ask, DataTypeOK
  <2>3. CASE Picked(m)
    <3>1. ASSUME NEW n \in nID[m], app_id' = [app_id EXCEPT ![m] = n[1]], UNCHANGED <<data, asked, nID>>
          PROVE  DataTypeOK'
      <4>1. n[1] \in AppIds
        BY DEF DataTypeOK
      <4> QED
        BY <3>1, <4>1 DEF DataTypeOK
    <3> QED
      BY <1>2, <2>3, <3>1 DEF Picked
  <2> QED
    BY <1>1, <1>2, <1>3, <2>1, <2>2, <2>3 DEF MonitorStep, Locks, Loaded, Evaluated, Triggered
<1> QED
  BY <1>1, <1>3 DEF MonitorNext, OtherStep, monitorVars

\* What a monitor has collected, by where it is: nothing before it asks for
\* versions, then answers for the ids it asked for, at last the answer that
\* idxmax picked of all of them.
Gathered(m) ==
  /\ monPc[m] \in {"unborn", "load", "loading", "version"} => asked[m] = {} /\ nID[m] = {}
  /\ monPc[m] = "versioning" => asked[m] \subseteq app_ids(m) /\ \A n \in nID[m] : n[1] \in asked[m]
  /\ Decided(m) => /\ asked[m] = app_ids(m) /\ \A n \in nID[m] : n[1] \in asked[m]
                   /\ \E n \in nID[m] : n[1] = app_id[m] /\ IsIdxmax(n, nID[m])

LocalInv == DataTypeOK /\ AlarmInv /\ \A m \in Ids : Gathered(m)

\* A step that leaves a monitor, its arguments and its locals alone.
LEMMA GatheredFrame ==
  ASSUME NEW m \in Ids, Gathered(m), monPc'[m] = monPc[m], monArgs'[m] = monArgs[m],
         data'[m] = data[m], asked'[m] = asked[m], nID'[m] = nID[m], app_id'[m] = app_id[m]
  PROVE  Gathered(m)'
BY DEF Gathered, Decided, app_ids, InRange, OfService, Read, IsIdxmax

LEMMA GatheredStep ==
  ASSUME LocalInv, NEW k \in Ids, MonitorStep(k)
  PROVE  \A m \in Ids : Gathered(m)'
<1>0. /\ monPc \in [Ids -> MonStates] /\ DataTypeOK /\ \A m \in Ids : Gathered(m)
  BY DEF LocalInv, AlarmInv, ThreadInv, TypeInv, TypeOK
<1>1. CASE Query(k) \/ Ask(k)
  <2>1. UNCHANGED vars
    BY <1>1 DEF Query, Ask
  <2>2. monPc' = monPc /\ monArgs' = monArgs
    BY <2>1 DEF vars, monVars
  <2>3. \A m \in Ids \ {k} : /\ data'[m] = data[m] /\ asked'[m] = asked[m]
                             /\ nID'[m] = nID[m] /\ app_id'[m] = app_id[m]
    BY <1>0, <1>1 DEF Query, Ask, DataTypeOK
  <2>4. \A m \in Ids \ {k} : Gathered(m)'
    BY <1>0, <2>2, <2>3, GatheredFrame
  <2>5. CASE Query(k)
    BY <1>0, <2>2, <2>4, <2>5 DEF Query, Gathered, Decided
  <2>6. CASE Ask(k)
    <3>1. PICK id \in app_ids(k) :
            /\ asked' = [asked EXCEPT ![k] = @ \cup {id}]
            /\ \/ UNCHANGED nID
               \/ \E version \in Versions : nID' = [nID EXCEPT ![k] = @ \cup {<<id, version>>}]
      BY <2>6 DEF Ask
    <3>2. /\ monPc[k] = "versioning" /\ monPc'[k] = "versioning" /\ app_ids(k)' = app_ids(k)
      BY <2>2, <2>6 DEF Ask, app_ids, InRange, OfService, Read
    <3>3. asked'[k] = asked[k] \cup {id} /\ \A n \in nID'[k] : n \in nID[k] \/ n[1] = id
      BY <1>0, <3>1 DEF DataTypeOK
    <3>4. Gathered(k)'
      BY <1>0, <3>2, <3>3 DEF Gathered, Decided
    <3> QED
      BY <2>4, <3>4
  <2> QED
    BY <1>1, <2>5, <2>6
<1>2. CASE Locks(k) \/ Loaded(k) \/ Picked(k) \/ Evaluated(k) \/ Triggered(k)
  <2>1. MonStep(k)
    BY <1>2 DEF Locks, Loaded, Picked, Evaluated, Triggered, MonStep
  <2>2. UNCHANGED monArgs /\ \E to \in MonStates : monPc' = [monPc EXCEPT ![k] = to]
    BY <2>1, MonHasEffect DEF MonEffect, LocalInv, AlarmInv, ThreadInv
  <2>3. dataVars' = dataVars \/ Forget(k) \/ (UNCHANGED <<data, asked, nID>> /\ \E x : app_id' = [app_id EXCEPT ![k] = x])
    BY <1>2 DEF Locks, Loaded, Picked, Evaluated, Triggered
  <2>4. \A m \in Ids \ {k} : /\ data'[m] = data[m] /\ asked'[m] = asked[m]
                             /\ nID'[m] = nID[m] /\ app_id'[m] = app_id[m] /\ monPc'[m] = monPc[m]
    BY <1>0, <2>2, <2>3 DEF Forget, dataVars, DataTypeOK
  <2>5. \A m \in Ids \ {k} : Gathered(m)'
    BY <1>0, <2>2, <2>4, GatheredFrame
  <2>6. ASSUME Forget(k), monPc'[k] \in {"load", "failed", "gaveup", "done"} PROVE Gathered(k)'
    BY <1>0, <2>6 DEF Forget, Gathered, Decided, DataTypeOK
  <2> SUFFICES Gathered(k)'
    BY <2>5
  <2>7. CASE Locks(k)
    <3>1. UNCHANGED dataVars /\ app_ids(k)' = app_ids(k)
      BY <2>2, <2>7 DEF Locks, dataVars, app_ids, InRange, OfService, Read
    <3>2. \/ monPc[k] = "load" /\ monPc'[k] = "loading"
          \/ monPc[k] = "version" /\ monPc'[k] = "versioning"
          \/ monPc[k] = "trigger" /\ monPc'[k] = "triggering"
      BY <1>0, <2>7 DEF Locks, MonLockLoad, MonLockVersion, MonLockTrigger, MonGoes
    <3>3. asked' = asked /\ nID' = nID /\ app_id' = app_id
      BY <3>1 DEF dataVars
    <3> QED
      BY <1>0, <3>1, <3>2, <3>3 DEF Gathered, Decided, IsIdxmax
  <2>8. CASE Loaded(k)
    <3>1. monPc[k] = "loading" /\ monPc'[k] \in {"version", "load", "failed", "gaveup"}
      BY <1>0, <2>8 DEF Loaded, MonLoad, MonRetry, MonGoes
    <3>2. CASE monPc'[k] = "version"
      BY <1>0, <2>8, <3>1, <3>2 DEF Loaded, Gathered, Decided, dataVars
    <3> QED
      BY <2>6, <2>8, <3>1, <3>2 DEF Loaded
  <2>9. CASE Picked(k)
    <3>1. ASSUME monPc'[k] = "evaluate", asked[k] = app_ids(k), NEW n \in nID[k], IsIdxmax(n, nID[k]),
                 app_id' = [app_id EXCEPT ![k] = n[1]], UNCHANGED <<data, asked, nID>>
          PROVE  Gathered(k)'
      <4>1. monPc[k] = "versioning"
        BY <2>9 DEF Picked, MonVersion, MonGoes
      <4>2. app_ids(k)' = app_ids(k)
        BY <2>2, <3>1 DEF app_ids, InRange, OfService, Read
      <4>3. app_id'[k] = n[1] /\ nID'[k] = nID[k] /\ asked'[k] = asked[k]
        BY <1>0, <3>1 DEF DataTypeOK
      <4>4. IsIdxmax(n, nID[k])'
        BY <3>1 DEF IsIdxmax
      <4> QED
        BY <1>0, <3>1, <4>1, <4>2, <4>3, <4>4 DEF Gathered, Decided, IsIdxmax
    <3> QED
      BY <2>6, <2>9, <3>1 DEF Picked
  <2>10. CASE Evaluated(k)
    <3>1. monPc[k] = "evaluate" /\ monPc'[k] \in {"trigger", "load", "failed", "gaveup", "done"}
      BY <1>0, <2>10 DEF Evaluated, MonEvaluate, MonRetry, MonGoes
    <3>2. CASE monPc'[k] = "trigger"
      <4>1. UNCHANGED <<data, asked, nID, app_id>> /\ app_ids(k)' = app_ids(k)
        BY <2>2, <2>10, <3>2 DEF Evaluated, dataVars, app_ids, InRange, OfService, Read
      <4> QED
        BY <1>0, <3>1, <3>2, <4>1 DEF Gathered, Decided, IsIdxmax
    <3> QED
      BY <2>6, <2>10, <3>1, <3>2 DEF Evaluated
  <2>11. CASE Triggered(k)
    <3>1. monPc'[k] \in {"failed", "done"}
      BY <1>0, <2>11 DEF Triggered, MonTrigger, MonGoes
    <3> QED
      BY <2>6, <2>11, <3>1 DEF Triggered
  <2> QED
    BY <1>2, <2>7, <2>8, <2>9, <2>10, <2>11
<1> QED
  BY <1>1, <1>2 DEF MonitorStep

LEMMA LocalInit == MonitorInit => LocalInv
<1> SUFFICES ASSUME MonitorInit PROVE LocalInv
  OBVIOUS
<1>1. AlarmInv
  BY ThreadInit DEF MonitorInit, Init, AlarmInv, MonOrigin, TriggersMatchAlarms
<1>2. DataTypeOK
  BY DEF MonitorInit, DataTypeOK
<1>3. \A m \in Ids : Gathered(m)
  BY DEF MonitorInit, Init, Gathered, Decided
<1> QED
  BY <1>1, <1>2, <1>3 DEF LocalInv

\* Only StartMonitor touches a monitor from outside, and one that has
\* collected nothing.
LEMMA GatheredOther ==
  ASSUME LocalInv, UNCHANGED dataVars,
         UNCHANGED <<monPc, monArgs>> \/ StartMonitor
  PROVE  \A m \in Ids : Gathered(m)'
<1>0. /\ monPc \in [Ids -> MonStates] /\ monArgs \in [Ids -> MonArgs] /\ DataTypeOK
      /\ main # "receive" => received \in Ids
      /\ Origin /\ \A m \in Ids : Gathered(m)
  BY DiagnoserAssumption DEF LocalInv, AlarmInv, ThreadInv, TypeInv, TypeOK, AtHand
<1>4. profiling_thread \in Nat /\ Ids \subseteq Nat
  BY DiagnoserAssumption DEF Ids, LocalInv, AlarmInv, ThreadInv, TypeInv, TypeOK
<1>1. data' = data /\ asked' = asked /\ nID' = nID /\ app_id' = app_id
  BY DEF dataVars
<1>2. CASE UNCHANGED <<monPc, monArgs>>
  BY <1>0, <1>1, <1>2, GatheredFrame
<1>3. CASE StartMonitor
  <2>1. PICK k \in Ids : k = received
    BY <1>0, <1>3 DEF StartMonitor
  <2>2. /\ monPc' = [monPc EXCEPT ![k] = "load"]
        /\ \A m \in Ids \ {k} : monArgs'[m] = monArgs[m]
    BY <1>0, <1>3, <2>1 DEF StartMonitor
  <2>3. \A m \in Ids \ {k} : Gathered(m)'
    BY <1>0, <1>1, <2>2, GatheredFrame
  <2>4. monPc[k] = "unborn"
    <3>1. main # "receive"
      BY <1>3 DEF StartMonitor
    <3>2. profiling_thread < k /\ (monPc[k] # "unborn" => k <= profiling_thread)
      BY <1>0, <2>1, <3>1 DEF Origin
    <3>3. profiling_thread \in Nat /\ k \in Nat
      BY <1>4
    <3> QED
      BY <3>2, <3>3
  <2>5. monPc'[k] = "load" /\ asked'[k] = {} /\ nID'[k] = {}
    BY <1>0, <1>1, <2>2, <2>4 DEF Gathered
  <2>6. Gathered(k)'
    BY <2>5 DEF Gathered, Decided
  <2> QED
    BY <2>3, <2>6
<1> QED
  BY <1>2, <1>3

LEMMA LocalStep == LocalInv /\ [MonitorNext]_monitorVars => LocalInv'
<1> SUFFICES ASSUME LocalInv, [MonitorNext]_monitorVars PROVE LocalInv'
  OBVIOUS
<1>1. AlarmInv'
  BY MonitorStepIsStep, AlarmStep DEF LocalInv
<1>2. DataTypeOK'
  BY DataType2 DEF LocalInv, AlarmInv, ThreadInv
<1>3. \A m \in Ids : Gathered(m)'
  <2>1. CASE UNCHANGED monitorVars \/ OtherStep(Idle)
    <3>1. UNCHANGED dataVars /\ UNCHANGED <<monPc, monArgs>>
      BY <2>1 DEF monitorVars, vars, monVars, OtherStep, Idle
    <3> QED
      BY <3>1, GatheredOther
  <2>2. CASE (OtherStep(LoopStep) /\ ~StartMonitor) \/ OtherStep(Receive)
    <3>1. UNCHANGED dataVars /\ UNCHANGED <<monPc, monArgs>>
      BY <2>2 DEF OtherStep, monVars, Receive, LoopStep, SkipLabels, CollectLabels, StartNeat, IgnoreQos
    <3> QED
      BY <3>1, GatheredOther
  <2>3. CASE OtherStep(LoopStep) /\ StartMonitor
    BY <2>3, GatheredOther DEF OtherStep
  <2>4. ASSUME NEW r \in Ids, OtherStep(RunStep(r)) PROVE \A m \in Ids : Gathered(m)'
    <3>1. RunEffect(r)
      BY <2>4, RunHasEffect DEF OtherStep, LocalInv, AlarmInv, ThreadInv
    <3>2. UNCHANGED dataVars /\ UNCHANGED <<monPc, monArgs>>
      BY <2>4, <3>1 DEF OtherStep, RunEffect, monVars
    <3> QED
      BY <3>2, GatheredOther
  <2>5. ASSUME NEW k \in Ids, MonitorStep(k) PROVE \A m \in Ids : Gathered(m)'
    BY <2>5, GatheredStep
  <2> QED
    BY <2>1, <2>2, <2>3, <2>4, <2>5 DEF MonitorNext
<1> QED
  BY <1>1, <1>2, <1>3 DEF LocalInv

LEMMA HighestOfPicked == LocalInv => PicksHighestVersion
<1> SUFFICES ASSUME LocalInv, NEW m \in Ids, Decided(m)
             PROVE  LET present == {id \in AppIds :
                          \E p \in DOMAIN data[m] : [app |-> id, service |-> log[m].service, in_range |-> TRUE] \in data[m][p]}
                        answered == {n \in nID[m] : n[1] \in present}
                    IN  /\ log[m].service # None /\ asked[m] = present
                        /\ \E n \in answered :
                             /\ n[1] = app_id[m]
                             /\ \A o \in answered : ~Older(n[2], o[2]) /\ (o[1] < n[1] => Older(o[2], n[2]))
  BY DEF PicksHighestVersion
<1> DEFINE present == {id \in AppIds :
                 \E p \in DOMAIN data[m] : [app |-> id, service |-> log[m].service, in_range |-> TRUE] \in data[m][p]}
           answered == {n \in nID[m] : n[1] \in present}
<1>0. Gathered(m) /\ DataTypeOK /\ MonOrigin /\ monPc[m] # "unborn"
  BY DEF LocalInv, AlarmInv, Decided
<1>1. log[m].service # None
  <2>1. PICK n \in nID[m] : n[1] \in app_ids(m)
    BY <1>0 DEF Gathered
  <2> QED
    BY <1>0, <2>1 DEF app_ids, InRange, OfService, MonOrigin
<1>2. app_ids(m) = present
  <2>1. monArgs[m].service = log[m].service
    BY <1>0 DEF MonOrigin
  <2>2. \A r \in Read(m) : r.app \in AppIds /\ r = [app |-> r.app, service |-> r.service, in_range |-> r.in_range]
    BY <1>0, DataMonitorAssumption DEF DataTypeOK, Read
  <2>3. ASSUME NEW id \in app_ids(m) PROVE id \in present
    <3>1. PICK r \in Read(m) : r.service = log[m].service /\ r.in_range = TRUE /\ id = r.app
      BY <1>0, <2>1, DataMonitorAssumption DEF app_ids, InRange, OfService, Read, DataTypeOK
    <3>2. PICK p \in DOMAIN data[m] : r \in data[m][p]
      BY DEF Read
    <3> QED
      BY <2>2, <3>1, <3>2
  <2>4. ASSUME NEW id \in present PROVE id \in app_ids(m)
    <3> DEFINE r == [app |-> id, service |-> log[m].service, in_range |-> TRUE]
    <3>1. r \in Read(m)
      BY DEF Read
    <3> QED
      BY <1>1, <2>1, <3>1 DEF app_ids, InRange, OfService
  <2> QED
    BY <2>3, <2>4
<1>3. answered = nID[m] /\ asked[m] = present
  BY <1>0, <1>2 DEF Gathered
<1>4. PICK n \in nID[m] : n[1] = app_id[m] /\ IsIdxmax(n, nID[m])
  BY <1>0 DEF Gathered
<1>5. ASSUME NEW o \in nID[m] PROVE ~Older(n[2], o[2]) /\ (o[1] < n[1] => Older(o[2], n[2]))
  <2>0. nID[m] \in SUBSET (AppIds \X Versions)
    BY <1>0 DEF DataTypeOK
  <2>1. n[2] \in Versions /\ o[2] \in Versions /\ n[1] \in Nat /\ o[1] \in Nat
    BY <2>0, DataMonitorAssumption
  <2>2. /\ version_string_to_int(n[2]) \in Nat /\ version_string_to_int(o[2]) \in Nat
        /\ version_string_to_int(o[2]) <= version_string_to_int(n[2])
        /\ version_string_to_int(o[2]) = version_string_to_int(n[2]) => n[1] <= o[1]
    BY <1>4, <2>1, NumberType DEF IsIdxmax
  <2>3. ~Older(n[2], o[2])
    BY <2>1, <2>2, OlderIsSmaller
  <2> QED
    BY <2>1, <2>2, <2>3, Comparable
<1> QED
  BY <1>3, <1>4, <1>5, <1>1

\* The app a monitor decides about is the one with the highest version among
\* those with data for the service of its alarm.
THEOREM MonitorsPickHighest == MonitorSpec => []PicksHighestVersion
<1> QED
  BY LocalInit, LocalStep, HighestOfPicked, PTL DEF MonitorSpec

-----------------------------------------------------------------------------
(* How far a monitor reads. *)

\* The rows of all answers but the last, as Count counts them.
RowsOf(d, n) == {pr \in (1 .. n) \X Rows : pr[2] \in d[pr[1]]}
Before(d)    == RowsOf(d, Len(d) - 1)

\* The answers of an iteration: none before it, never another one after the
\* limit, and all of them once the monitor goes on.
Window(m) ==
  /\ monPc[m] \in {"unborn", "load"} => data[m] = <<>>
  /\ data[m] # <<>> => Cardinality(Before(data[m])) < RowLimit
  /\ monPc[m] \in {"version", "versioning"} \/ Decided(m) => Queried(m)

WindowInv == LocalInv /\ \A m \in Ids : Window(m)

LEMMA RowsFinite ==
  ASSUME NEW d, NEW n \in Nat
  PROVE  IsFiniteSet(RowsOf(d, n)) /\ Cardinality(RowsOf(d, n)) \in Nat
<1>1. IsFiniteSet(1 .. n) /\ IsFiniteSet(Rows)
  BY FS_Interval, DataMonitorAssumption
<1> DEFINE P == (1 .. n) \X Rows
<1>2. IsFiniteSet(P)
  BY <1>1, FS_Product
<1>3. RowsOf(d, n) \in SUBSET P
  BY DEF RowsOf
<1> HIDE DEF P
<1>4. IsFiniteSet(RowsOf(d, n))
  BY <1>2, <1>3, FS_Subset
<1> QED
  BY <1>4, FS_CardinalityType

\* The rows of one answer more.
LEMMA OneMore ==
  ASSUME NEW n \in Nat \ {0}, NEW d, d[n] \in SUBSET Rows
  PROVE  Cardinality(RowsOf(d, n)) = Cardinality(RowsOf(d, n - 1)) + Cardinality(d[n])
<1> DEFINE S == RowsOf(d, n - 1)
           T == {n} \X d[n]
<1>1. IsFiniteSet(d[n])
  BY DataMonitorAssumption, FS_Subset
<1>2. IsFiniteSet(T) /\ Cardinality(T) = Cardinality(d[n]) /\ Cardinality(d[n]) \in Nat
  <2>1. IsFiniteSet({n}) /\ Cardinality({n}) = 1
    BY FS_Singleton
  <2>2. IsFiniteSet(T) /\ Cardinality(T) = Cardinality({n}) * Cardinality(d[n])
    BY <1>1, <2>1, FS_Product
  <2>3. Cardinality(d[n]) \in Nat
    BY <1>1, FS_CardinalityType
  <2> HIDE DEF T
  <2> QED
    BY <2>1, <2>2, <2>3
<1>3. IsFiniteSet(S) /\ Cardinality(S) \in Nat
  BY RowsFinite
<1>4. S \cap T = {} /\ RowsOf(d, n) = S \cup T
  <2>1. 1 .. n = (1 .. (n - 1)) \cup {n} /\ n \notin 1 .. (n - 1)
    OBVIOUS
  <2> QED
    BY <2>1 DEF RowsOf
<1> HIDE DEF S, T
<1>5. Cardinality(S \cup T) = Cardinality(S) + Cardinality(T) - Cardinality(S \cap T)
  BY <1>2, <1>3, FS_Union
<1>6. Cardinality(S \cap T) = 0
  BY <1>4, FS_EmptySet
<1>7. Cardinality(S \cup T) = Cardinality(S) + Cardinality(d[n])
  BY <1>2, <1>3, <1>5, <1>6
<1> QED
  BY <1>4, <1>7 DEF S

LEMMA CountIs ==
  ASSUME NEW d \in Seq(SUBSET Rows)
  PROVE  /\ Count(d) = Cardinality(RowsOf(d, Len(d))) /\ Count(d) \in Nat
         /\ d = <<>> => Count(d) = 0
         /\ d # <<>> => Count(d) = Cardinality(Before(d)) + Cardinality(d[Len(d)])
<1>1. DOMAIN d = 1 .. Len(d) /\ Len(d) \in Nat
  OBVIOUS
<1>2. Count(d) = Cardinality(RowsOf(d, Len(d)))
  BY <1>1 DEF Count, RowsOf
<1>3. Count(d) \in Nat
  BY <1>1, <1>2, RowsFinite
<1>4. ASSUME d = <<>> PROVE Count(d) = 0
  <2>1. RowsOf(d, Len(d)) = {}
    <3>1. 1 .. Len(d) = {}
      BY <1>4
    <3> QED
      BY <3>1 DEF RowsOf
  <2> QED
    BY <1>2, <2>1, FS_EmptySet
<1>5. ASSUME d # <<>>
      PROVE  Count(d) = Cardinality(Before(d)) + Cardinality(d[Len(d)])
  <2>1. Len(d) \in Nat \ {0} /\ d[Len(d)] \in SUBSET Rows
    BY <1>5
  <2> QED
    BY <1>2, <2>1, OneMore DEF Before
<1> QED
  BY <1>2, <1>3, <1>4, <1>5

\* A step that leaves a monitor and its answers alone, or goes on to another
\* place where they are still there.
LEMMA WindowFrame ==
  ASSUME NEW m \in Ids, Window(m), data'[m] = data[m],
         \/ monPc'[m] = monPc[m]
         \/ monPc'[m] = "loading"
         \/ Queried(m) /\ monPc'[m] \notin {"unborn", "load"}
  PROVE  Window(m)'
<1>1. Queried(m)' = Queried(m)
  BY DEF Queried, LimitHit, Count
<1>2. (data[m] # <<>> => Cardinality(Before(data[m])) < RowLimit)'
  BY DEF Window, Before, RowsOf
<1> QED
  BY <1>1, <1>2 DEF Window, Decided

LEMMA WindowForgotten ==
  ASSUME NEW m \in Ids, DataTypeOK, Forget(m), monPc'[m] \in {"load", "failed", "gaveup", "done"}
  PROVE  Window(m)'
<1>1. data'[m] = <<>>
  BY DEF Forget, DataTypeOK
<1> QED
  BY <1>1 DEF Window, Decided

LEMMA WindowStep ==
  ASSUME WindowInv, NEW k \in Ids, MonitorStep(k)
  PROVE  \A m \in Ids : Window(m)'
<1>0. monPc \in [Ids -> MonStates] /\ DataTypeOK /\ \A m \in Ids : Window(m)
  BY DEF WindowInv, LocalInv, AlarmInv, ThreadInv, TypeInv, TypeOK
<1>1. CASE Query(k)
  <2>1. monPc' = monPc /\ monPc[k] = "loading" /\ ~Queried(k)
    BY <1>1 DEF Query, vars, monVars
  <2>2. PICK rows \in SUBSET Rows : data' = [data EXCEPT ![k] = Append(@, rows)]
    BY <1>1 DEF Query
  <2>3. \A m \in Ids \ {k} : Window(m)'
    BY <1>0, <2>1, <2>2, WindowFrame DEF DataTypeOK
  <2>4. Window(k)'
    <3> DEFINE d == data[k]  e == Append(d, rows)
    <3>1. d \in Seq(SUBSET Rows) /\ data'[k] = e
      BY <1>0, <2>2 DEF DataTypeOK
    <3>2. e # <<>> /\ Len(e) = Len(d) + 1 /\ \A i \in 1 .. Len(d) : e[i] = d[i]
      BY <3>1
    <3>3. Before(e) = RowsOf(d, Len(d))
      <4> HIDE DEF e, d
      <4>1. Len(e) - 1 = Len(d)
        BY <3>1, <3>2
      <4> QED
        BY <3>2, <4>1 DEF Before, RowsOf
    <3>4. Count(d) < RowLimit
      <4>1. Count(d) \in Nat
        BY <3>1, CountIs
      <4> QED
        BY <2>1, <4>1, DataMonitorAssumption DEF Queried, LimitHit
    <3>5. Cardinality(Before(e)) < RowLimit
      BY <3>1, <3>3, <3>4, CountIs
    <3> HIDE DEF e
    <3>6. (data[k] # <<>> => Cardinality(Before(data[k])) < RowLimit)'
      BY <3>1, <3>5 DEF Before, RowsOf
    <3> QED
      BY <2>1, <3>6 DEF Window, Decided
  <2> QED
    BY <2>3, <2>4
<1>2. CASE Ask(k)
  <2>1. monPc' = monPc /\ data' = data
    BY <1>2 DEF Ask, vars, monVars
  <2> QED
    BY <1>0, <2>1, WindowFrame
<1>3. CASE Locks(k) \/ Loaded(k) \/ Picked(k) \/ Evaluated(k) \/ Triggered(k)
  <2>1. MonStep(k)
    BY <1>3 DEF Locks, Loaded, Picked, Evaluated, Triggered, MonStep
  <2>2. \E to \in MonStates : monPc' = [monPc EXCEPT ![k] = to]
    BY <2>1, MonHasEffect DEF MonEffect, WindowInv, LocalInv, AlarmInv, ThreadInv
  <2>3. \A m \in Ids \ {k} : data'[m] = data[m] /\ monPc'[m] = monPc[m]
    BY <1>0, <1>3, <2>2 DEF Locks, Loaded, Picked, Evaluated, Triggered, Forget, dataVars, DataTypeOK
  <2>4. \A m \in Ids \ {k} : Window(m)'
    BY <1>0, <2>3, WindowFrame
  <2> SUFFICES Window(k)'
    BY <2>4
  <2>5. CASE Locks(k)
    <3>1. data' = data
      BY <2>5 DEF Locks, dataVars
    <3>2. \/ monPc[k] = "load" /\ monPc'[k] = "loading"
          \/ monPc[k] = "version" /\ monPc'[k] = "versioning"
          \/ monPc[k] = "trigger" /\ monPc'[k] = "triggering"
      BY <1>0, <2>5 DEF Locks, MonLockLoad, MonLockVersion, MonLockTrigger, MonGoes
    <3>3. monPc[k] \in {"version", "trigger"} => Queried(k)
      BY <1>0 DEF Window, Decided
    <3> QED
      BY <1>0, <3>1, <3>2, <3>3, WindowFrame
  <2>6. CASE Loaded(k)
    <3>1. monPc'[k] \in {"version", "load", "failed", "gaveup"}
      BY <1>0, <2>6 DEF Loaded, MonLoad, MonRetry, MonGoes
    <3>2. CASE monPc'[k] = "version"
      <4>1. Queried(k) /\ data' = data
        BY <2>6, <3>2 DEF Loaded, dataVars
      <4> QED
        BY <1>0, <3>2, <4>1, WindowFrame
    <3> QED
      BY <1>0, <2>6, <3>1, <3>2, WindowForgotten DEF Loaded
  <2>7. CASE Picked(k)
    <3>1. CASE Forget(k) /\ monPc'[k] = "failed"
      BY <1>0, <3>1, WindowForgotten
    <3>2. CASE monPc'[k] = "evaluate" /\ UNCHANGED data
      <4>1. monPc[k] = "versioning"
        BY <2>7 DEF Picked, MonVersion, MonGoes
      <4>2. Queried(k)
        BY <1>0, <4>1 DEF Window
      <4> QED
        BY <1>0, <3>2, <4>2, WindowFrame
    <3> QED
      BY <2>7, <3>1, <3>2 DEF Picked
  <2>8. CASE Evaluated(k)
    <3>1. monPc[k] = "evaluate" /\ monPc'[k] \in {"trigger", "load", "failed", "gaveup", "done"}
      BY <1>0, <2>8 DEF Evaluated, MonEvaluate, MonRetry, MonGoes
    <3>2. CASE monPc'[k] = "trigger"
      <4>1. Queried(k) /\ data' = data
        BY <1>0, <2>8, <3>1, <3>2 DEF Evaluated, dataVars, Window, Decided
      <4> QED
        BY <1>0, <3>2, <4>1, WindowFrame
    <3> QED
      BY <1>0, <2>8, <3>1, <3>2, WindowForgotten DEF Evaluated
  <2>9. CASE Triggered(k)
    <3>1. monPc'[k] \in {"failed", "done"}
      BY <1>0, <2>9 DEF Triggered, MonTrigger, MonGoes
    <3> QED
      BY <1>0, <2>9, <3>1, WindowForgotten DEF Triggered
  <2> QED
    BY <1>3, <2>5, <2>6, <2>7, <2>8, <2>9
<1> QED
  BY <1>1, <1>2, <1>3 DEF MonitorStep

\* The main loop only starts monitors that were not started before.
LEMMA StartedMonitor ==
  ASSUME LocalInv, StartMonitor
  PROVE  \E k \in Ids : monPc[k] = "unborn" /\ monPc' = [monPc EXCEPT ![k] = "load"]
<1>0. received \in Ids /\ Origin
  BY DiagnoserAssumption DEF StartMonitor, LocalInv, AlarmInv, ThreadInv, TypeInv, TypeOK, AtHand
<1>1. profiling_thread \in Nat /\ received \in Nat
  BY <1>0, DiagnoserAssumption DEF Ids, LocalInv, AlarmInv, ThreadInv, TypeInv, TypeOK
<1>2. profiling_thread < received
  BY <1>0 DEF Origin, StartMonitor
<1>3. monPc[received] = "unborn"
  BY <1>0, <1>1, <1>2 DEF Origin
<1> QED
  BY <1>0, <1>3 DEF StartMonitor

LEMMA WindowKept == WindowInv /\ [MonitorNext]_monitorVars => WindowInv'
<1> SUFFICES ASSUME WindowInv, [MonitorNext]_monitorVars PROVE WindowInv'
  OBVIOUS
<1>0. /\ monPc \in [Ids -> MonStates] /\ LocalInv /\ \A m \in Ids : Window(m)
  BY DEF WindowInv, LocalInv, AlarmInv, ThreadInv, TypeInv, TypeOK
<1>1. LocalInv'
  BY LocalStep DEF WindowInv
<1>2. ASSUME UNCHANGED <<data, monPc>> PROVE \A m \in Ids : Window(m)'
  BY <1>0, <1>2, WindowFrame
<1>3. \A m \in Ids : Window(m)'
  <2>1. CASE UNCHANGED monitorVars \/ OtherStep(Idle)
    BY <1>2, <2>1 DEF monitorVars, vars, monVars, dataVars, OtherStep, Idle
  <2>2. CASE (OtherStep(LoopStep) /\ ~StartMonitor) \/ OtherStep(Receive)
    BY <1>2, <2>2 DEF OtherStep, monVars, dataVars, Receive, LoopStep, SkipLabels, CollectLabels, StartNeat, IgnoreQos
  <2>3. CASE OtherStep(LoopStep) /\ StartMonitor
    <3>1. data' = data
      BY <2>3 DEF OtherStep, dataVars
    <3>2. PICK k \in Ids : monPc[k] = "unborn" /\ monPc' = [monPc EXCEPT ![k] = "load"]
      BY <1>0, <2>3, StartedMonitor
    <3>3. \A m \in Ids \ {k} : Window(m)'
      BY <1>0, <3>1, <3>2, WindowFrame
    <3>4. monPc'[k] = "load" /\ data'[k] = <<>>
      BY <1>0, <3>1, <3>2 DEF Window
    <3>5. Window(k)'
      BY <3>4 DEF Window, Decided
    <3> QED
      BY <3>3, <3>5
  <2>4. ASSUME NEW r \in Ids, OtherStep(RunStep(r)) PROVE \A m \in Ids : Window(m)'
    <3>1. RunEffect(r)
      BY <1>0, <2>4, RunHasEffect DEF OtherStep, LocalInv, AlarmInv, ThreadInv
    <3> QED
      BY <1>2, <2>4, <3>1 DEF OtherStep, RunEffect, monVars, dataVars
  <2>5. ASSUME NEW k \in Ids, MonitorStep(k) PROVE \A m \in Ids : Window(m)'
    BY <2>5, WindowStep
  <2> QED
    BY <2>1, <2>2, <2>3, <2>4, <2>5 DEF MonitorNext
<1> QED
  BY <1>1, <1>3 DEF WindowInv

LEMMA WindowInit == MonitorInit => WindowInv
<1> SUFFICES ASSUME MonitorInit PROVE WindowInv
  OBVIOUS
<1>1. \A m \in Ids : data[m] = <<>> /\ monPc[m] = "unborn"
  BY DEF MonitorInit, Init
<1>2. \A m \in Ids : Window(m)
  BY <1>1 DEF Window, Decided
<1> QED
  BY <1>2, LocalInit DEF WindowInv

LEMMA WindowIsRead == WindowInv => ReadsUpToLimit
<1> SUFFICES ASSUME WindowInv, NEW m \in Ids,
                    monPc[m] \in {"version", "versioning"} \/ Decided(m)
             PROVE  LET before == {pr \in (1 .. (Len(data[m]) - 1)) \X Rows : pr[2] \in data[m][pr[1]]}
                        last   == data[m][Len(data[m])]
                    IN  /\ Cardinality(before) < RowLimit
                        /\ Len(data[m]) = Partitions \/ Cardinality(before) + Cardinality(last) >= RowLimit
  BY DEF ReadsUpToLimit
<1> DEFINE d == data[m]
<1>1. Queried(m) /\ (d # <<>> => Cardinality(Before(d)) < RowLimit) /\ d \in Seq(SUBSET Rows)
  BY DEF WindowInv, Window, LocalInv, DataTypeOK
<1> HIDE DEF d
<1>2. Len(d) = Partitions \/ Count(d) >= RowLimit
  BY <1>1 DEF Queried, LimitHit, d
<1>3. d # <<>>
  <2>1. SUFFICES ASSUME d = <<>> PROVE FALSE
    OBVIOUS
  <2>2. Len(d) = 0 /\ Count(d) = 0
    BY <1>1, <2>1, CountIs
  <2> QED
    BY <1>2, <2>2, DataMonitorAssumption
<1>4. Count(d) = Cardinality(Before(d)) + Cardinality(d[Len(d)])
  BY <1>1, <1>3, CountIs
<1>5. /\ Cardinality(Before(d)) < RowLimit
      /\ Len(d) = Partitions \/ Cardinality(Before(d)) + Cardinality(d[Len(d)]) >= RowLimit
  BY <1>1, <1>2, <1>3, <1>4
<1> QED
  BY <1>5 DEF Before, RowsOf, d

\* A monitor that goes on from its query read the whole window, or every
\* partition up to the one that reached the limit and no further.
THEOREM MonitorsReadEnough == MonitorSpec => []ReadsUpToLimit
<1> QED
  BY WindowInit, WindowKept, WindowIsRead, PTL DEF MonitorSpec
=============================================================================
