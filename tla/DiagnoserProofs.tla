-------------------------- MODULE DiagnoserProofs --------------------------
(* Theorems about Diagnoser, for every value of its constants. *)
EXTENDS Diagnoser, TLAPS

USE DEF Ids, Report, RunStates, MonStates, RunArgs, MonArgs, labels, mainVars, runVars, monVars

\* A report is at hand whenever the loop body is past Receive.
AtHand == main # "receive" => received \in Ids

TypeInv == TypeOK /\ AtHand

LEMMA InitType == Init => TypeInv
BY DiagnoserAssumption DEF Init, TypeInv, TypeOK, AtHand, Blank, RunHolds, RunEnded, MonHolds, MonEnded

LEMMA DataType == TypeInv /\ main # "receive" =>
                    /\ received \in Ids /\ Data \in Report /\ Timestamp \in 0 .. MaxReports
                    /\ MergedCC \in CCs \cup {None} /\ MergedZombies \in SUBSET Zombies
                    /\ CapturedRunArgs \in RunArgs
BY DiagnoserAssumption
DEF TypeInv, TypeOK, AtHand, Data, Timestamp, MergedCC, MergedZombies, CapturedRunArgs

LEMMA LoopType == TypeInv /\ (Receive \/ LoopStep) => TypeInv'
<1> SUFFICES ASSUME TypeInv, Receive \/ LoopStep PROVE TypeInv'
  OBVIOUS
<1> USE DiagnoserAssumption DEF TypeInv, TypeOK, AtHand
<1>1. CASE Receive
  BY <1>1 DEF Receive
<1>2. CASE SkipLabels
  BY <1>2 DEF SkipLabels
<1>3. CASE CollectLabels
  BY <1>3, DataType DEF CollectLabels
<1>4. CASE StartNeat
  <2>1. received \in Ids /\ CapturedRunArgs \in RunArgs
    BY <1>4, DataType DEF StartNeat
  <2> HIDE DEF RunArgs, MonArgs, Report
  <2>2. /\ runPc' = [runPc EXCEPT ![received] = "begin"]
        /\ runArgs' = [runArgs EXCEPT ![received] = CapturedRunArgs]
        /\ neat_thread' = received /\ received' = received
        /\ c_and_c_ip' = None /\ zombie_ips' = {} /\ main' = "qos"
        /\ UNCHANGED <<log, profiling_thread, service_id, holder, polls, monPc, monArgs, monIter, triggers>>
    BY <1>4 DEF StartNeat
  <2>3. runArgs' \in [Ids -> RunArgs]
    BY <2>1, <2>2
  <2> QED
    BY <2>1, <2>2, <2>3
<1>5. CASE IgnoreQos
  BY <1>5 DEF IgnoreQos
<1>6. CASE StartMonitor
  <2>1. Data.service \in Services \cup {None} /\ Timestamp \in 0 .. MaxReports /\ received \in Ids
    BY <1>6, DataType DEF StartMonitor
  <2> HIDE DEF RunArgs, Report, RunStates, Trigger
  <2>2. monArgs' \in [Ids -> MonArgs]
    BY <1>6, <2>1 DEF StartMonitor, MonArgs
  <2> HIDE DEF MonArgs
  <2>3. monPc' \in [Ids -> MonStates] /\ main' \in {"receive", "snort", "qos"}
    BY <1>6, <2>1 DEF StartMonitor, MonStates
  <2> QED
    BY <1>6, <2>1, <2>2, <2>3 DEF StartMonitor
<1> QED
  BY <1>1, <1>2, <1>3, <1>4, <1>5, <1>6 DEF LoopStep

LEMMA RunType == TypeInv /\ (\E k \in Ids : RunStep(k)) => TypeInv'
<1> SUFFICES ASSUME TypeInv, NEW k \in Ids, RunStep(k) PROVE TypeInv'
  OBVIOUS
<1> USE DiagnoserAssumption DEF TypeInv, TypeOK, AtHand, RunGoes, Acquire, Release, RunHolds, RunEnded
<1>1. CASE RunBegin(k)
  BY <1>1 DEF RunBegin
<1>2. CASE RunLockFetch(k)
  BY <1>2 DEF RunLockFetch
<1>3. CASE RunFetch(k)
  BY <1>3 DEF RunFetch
<1>4. CASE RunEvolve(k)
  BY <1>4 DEF RunEvolve
<1>8. CASE RunTranslate(k)
  BY <1>8 DEF RunTranslate
<1>5. CASE RunLockDeploy(k)
  BY <1>5 DEF RunLockDeploy
<1>6. CASE RunDeploy(k)
  BY <1>6 DEF RunDeploy
<1>7. CASE RunPoll(k)
  <2>1. /\ polls \in [Ids -> 0 .. MaxPolls] /\ MaxPolls \in Nat
    OBVIOUS
  <2>2. polls' \in [Ids -> 0 .. MaxPolls]
    <3> HIDE DEF Ids, TypeInv
    <3>1. CASE UNCHANGED polls
      BY <2>1, <3>1
    <3>2. CASE polls' = [polls EXCEPT ![k] = @ + 1] /\ polls[k] + 1 \in 0 .. MaxPolls
      BY <2>1, <3>2
    <3> QED
      BY <1>7, <2>1, <3>1, <3>2 DEF RunPoll
  <2>3. runPc' \in [Ids -> RunStates] /\ holder' \in {holder, Free}
    BY <1>7 DEF RunPoll
  <2> QED
    BY <1>7, <2>2, <2>3 DEF RunPoll
<1> QED
  BY <1>1, <1>2, <1>3, <1>4, <1>5, <1>6, <1>7, <1>8 DEF RunStep

LEMMA RetryType ==
  ASSUME TypeInv, NEW k \in Ids, NEW from, MonRetry(k, from)
  PROVE  monPc' \in [Ids -> MonStates] /\ monIter' \in [Ids -> 0 .. MaxIterations]
<1>1. /\ monPc \in [Ids -> MonStates] /\ monIter \in [Ids -> 0 .. MaxIterations]
      /\ MaxIterations \in Nat
  BY DiagnoserAssumption DEF TypeInv, TypeOK
<1> HIDE DEF Ids
<1>2. monIter[k] + 1 \in 0 .. MaxIterations
  BY <1>1 DEF MonRetry
<1>3. monPc' \in [Ids -> MonStates]
  BY <1>1 DEF MonRetry, MonGoes, MonEnded
<1> QED
  BY <1>1, <1>2, <1>3 DEF MonRetry

LEMMA MonType == TypeInv /\ (\E k \in Ids : MonStep(k)) => TypeInv'
<1> SUFFICES ASSUME TypeInv, NEW k \in Ids, MonStep(k) PROVE TypeInv'
  OBVIOUS
<1> USE DiagnoserAssumption DEF TypeInv, TypeOK, AtHand, MonGoes, Acquire, Release, MonHolds, MonEnded
<1>1. CASE MonLockLoad(k)
  BY <1>1 DEF MonLockLoad
<1>2. CASE MonLoad(k)
  BY <1>2, RetryType DEF MonLoad
<1>3. CASE MonLockVersion(k)
  BY <1>3 DEF MonLockVersion
<1>4. CASE MonVersion(k)
  BY <1>4 DEF MonVersion
<1>5. CASE MonEvaluate(k)
  BY <1>5, RetryType DEF MonEvaluate
<1>6. CASE MonLockTrigger(k)
  BY <1>6 DEF MonLockTrigger
<1>7. CASE MonTrigger(k)
  <2>1. TriggerOf(k) \in Trigger
    BY DEF Trigger, TriggerOf
  <2>2. triggers' \in SUBSET Trigger
    BY <1>7, <2>1 DEF MonTrigger
  <2> HIDE DEF RunArgs, MonArgs, Report
  <2>3. /\ monPc' \in [Ids -> MonStates] /\ holder' = Free
        /\ UNCHANGED <<mainVars, runVars, monArgs, monIter>>
    BY <1>7 DEF MonTrigger
  <2> QED
    BY <2>2, <2>3
<1> QED
  BY <1>1, <1>2, <1>3, <1>4, <1>5, <1>6, <1>7 DEF MonStep

LEMMA TypeStep == TypeInv /\ [Next]_vars => TypeInv'
<1> SUFFICES ASSUME TypeInv, [Next]_vars PROVE TypeInv'
  OBVIOUS
<1>1. CASE UNCHANGED vars
  BY <1>1 DEF TypeInv, TypeOK, AtHand, vars
<1>2. CASE Idle
  BY <1>1, <1>2 DEF Idle
<1> QED
  BY <1>1, <1>2, LoopType, RunType, MonType DEF Next

\* The variables of start and of its threads always have their types.
THEOREM TypeCorrect == Spec => []TypeOK
BY InitType, TypeStep, PTL DEF Spec, TypeInv

-----------------------------------------------------------------------------
(* What one step of a thread changes. *)

RunLive(k) == runPc[k] \notin RunEnded \cup {"unborn"}
MonLive(k) == monPc[k] \notin MonEnded \cup {"unborn"}

\* A thread at `from' goes to `to': it keeps, takes or releases the lock,
\* according to which of the two places are inside a `with lock' block.
LockEffect(from, to, holds, t) ==
  \/ (from \in holds <=> to \in holds) /\ holder' = holder
  \/ from \notin holds /\ to \in holds /\ holder = Free /\ holder' = t
  \/ from \in holds /\ to \notin holds /\ holder' = Free

RunEffect(k) ==
  /\ RunLive(k)
  /\ \E to \in RunStates \ {"unborn"} : /\ runPc' = [runPc EXCEPT ![k] = to]
                                        /\ LockEffect(runPc[k], to, RunHolds, Neat(k))
  /\ UNCHANGED <<mainVars, runArgs, monVars>>

\* The trigger of a monitor in some iteration.
AlarmTrigger(k, i) ==
  [alarm |-> k, iteration |-> i, service |-> monArgs[k].service, stamp |-> monArgs[k].stamp]

MonEffect(k) ==
  /\ MonLive(k)
  /\ \E to \in MonStates \ {"unborn"} :
       /\ monPc' = [monPc EXCEPT ![k] = to]
       /\ LockEffect(monPc[k], to, MonHolds, Sh(k))
       /\ \/ UNCHANGED triggers
          \/ /\ to \in {"done", "failed"}
             /\ \E i \in 0 .. MaxIterations :
                  triggers' = triggers \cup {AlarmTrigger(k, i)}
  /\ UNCHANGED <<mainVars, runVars, monArgs>>

LEMMA RunHasEffect == ASSUME TypeInv, NEW k \in Ids, RunStep(k) PROVE RunEffect(k)
<1> USE DEF RunEffect, RunLive, LockEffect, RunGoes, Acquire, Release, RunHolds, RunEnded
<1>1. CASE RunBegin(k)
  BY <1>1 DEF RunBegin
<1>2. CASE RunLockFetch(k)
  BY <1>2 DEF RunLockFetch
<1>3. CASE RunFetch(k)
  BY <1>3 DEF RunFetch
<1>4. CASE RunEvolve(k)
  BY <1>4 DEF RunEvolve
<1>8. CASE RunTranslate(k)
  BY <1>8 DEF RunTranslate
<1>5. CASE RunLockDeploy(k)
  BY <1>5 DEF RunLockDeploy
<1>6. CASE RunDeploy(k)
  BY <1>6 DEF RunDeploy
<1>7. CASE RunPoll(k)
  BY <1>7 DEF RunPoll
<1> QED
  BY <1>1, <1>2, <1>3, <1>4, <1>5, <1>6, <1>7, <1>8 DEF RunStep

LEMMA MonHasEffect == ASSUME TypeInv, NEW k \in Ids, MonStep(k) PROVE MonEffect(k)
<1> USE DEF MonEffect, MonLive, LockEffect, MonGoes, Acquire, Release, MonHolds, MonEnded
<1>1. CASE MonLockLoad(k)
  BY <1>1 DEF MonLockLoad
<1>2. CASE MonLoad(k)
  BY <1>2 DEF MonLoad, MonRetry
<1>3. CASE MonLockVersion(k)
  BY <1>3 DEF MonLockVersion
<1>4. CASE MonVersion(k)
  BY <1>4 DEF MonVersion
<1>5. CASE MonEvaluate(k)
  BY <1>5 DEF MonEvaluate, MonRetry
<1>6. CASE MonLockTrigger(k)
  BY <1>6 DEF MonLockTrigger
<1>7. CASE MonTrigger(k)
  <2>1. monIter[k] \in 0 .. MaxIterations
    BY DEF TypeInv, TypeOK
  <2> QED
    BY <1>7, <2>1 DEF MonTrigger, TriggerOf, AlarmTrigger
<1> QED
  BY <1>1, <1>2, <1>3, <1>4, <1>5, <1>6, <1>7 DEF MonStep

-----------------------------------------------------------------------------
(* Which reports the threads come from. *)

Origin ==
  /\ main = "snort" => neat_thread < received
  /\ main # "receive" => profiling_thread < received
  /\ \A k \in Ids : /\ runPc[k] # "unborn" => k <= neat_thread
                    /\ monPc[k] # "unborn" => k <= profiling_thread
  /\ neat_thread # 0 => runPc[neat_thread] # "unborn"

\* Inductive: the lock and the threads.
ThreadInv == TypeInv /\ Origin /\ LockDiscipline /\ OneThreadOfEachKind

LEMMA Holders ==
  \A r, s : /\ Neat(r) = Neat(s) <=> r = s
            /\ Sh(r) = Sh(s) <=> r = s
            /\ Neat(r) # Sh(s) /\ Neat(r) # Free /\ Sh(r) # Free
BY DEF Neat, Sh, Free

LEMMA ThreadLoop == ThreadInv /\ (Receive \/ LoopStep) => Origin' /\ LockDiscipline' /\ OneThreadOfEachKind'
<1> SUFFICES ASSUME ThreadInv, Receive \/ LoopStep
             PROVE  Origin' /\ LockDiscipline' /\ OneThreadOfEachKind'
  OBVIOUS
<1>0. /\ main # "receive" => received \in Ids
      /\ received \in 0 .. MaxReports /\ MaxReports \in Nat
      /\ neat_thread \in 0 .. received /\ profiling_thread \in 0 .. received
      /\ runPc \in [Ids -> RunStates] /\ monPc \in [Ids -> MonStates]
  BY DiagnoserAssumption DEF ThreadInv, TypeInv, AtHand, TypeOK
<1>1. Origin /\ LockDiscipline /\ OneThreadOfEachKind
  BY DEF ThreadInv
<1> USE DEF Origin, LockDiscipline, OneThreadOfEachKind
<1>2. CASE Receive
  BY <1>0, <1>1, <1>2 DEF Receive
<1>3. CASE SkipLabels
  BY <1>0, <1>1, <1>3 DEF SkipLabels
<1>4. CASE CollectLabels
  BY <1>0, <1>1, <1>4 DEF CollectLabels
<1>5. CASE StartNeat
  <2>1. runPc[received] = "unborn" /\ \A k \in Ids : runPc[k] \in RunEnded \cup {"unborn"}
    BY <1>0, <1>1, <1>5 DEF StartNeat, ReadyToRun, NeatAlive
  <2> QED
    BY <1>0, <1>1, <1>5, <2>1 DEF StartNeat, RunHolds, RunEnded
<1>6. CASE IgnoreQos
  BY <1>0, <1>1, <1>6 DEF IgnoreQos
<1>7. CASE StartMonitor
  <2>1. monPc[received] = "unborn" /\ \A k \in Ids : monPc[k] \in MonEnded \cup {"unborn"}
    BY <1>0, <1>1, <1>7 DEF StartMonitor, ProfilingAlive
  <2> QED
    BY <1>0, <1>1, <1>7, <2>1 DEF StartMonitor, MonHolds, MonEnded
<1> QED
  BY <1>2, <1>3, <1>4, <1>5, <1>6, <1>7 DEF LoopStep

LEMMA ThreadRun ==
  ASSUME ThreadInv, NEW k \in Ids, RunStep(k)
  PROVE  Origin' /\ LockDiscipline' /\ OneThreadOfEachKind'
<1>1. RunEffect(k)
  BY RunHasEffect DEF ThreadInv
<1>2. PICK to \in RunStates \ {"unborn"} : /\ runPc' = [runPc EXCEPT ![k] = to]
                                         /\ LockEffect(runPc[k], to, RunHolds, Neat(k))
  BY <1>1 DEF RunEffect
<1>3. runPc \in [Ids -> RunStates] /\ neat_thread \in Nat
  BY DEF ThreadInv, TypeInv, TypeOK
<1>4. Origin'
  BY <1>1, <1>2, <1>3 DEF ThreadInv, Origin, RunEffect, RunLive
<1>5. LockDiscipline'
  BY <1>1, <1>2, <1>3, Holders DEF ThreadInv, LockDiscipline, RunEffect, LockEffect
<1>6. OneThreadOfEachKind'
  BY <1>1, <1>2, <1>3 DEF ThreadInv, OneThreadOfEachKind, RunEffect, RunLive
<1> QED
  BY <1>4, <1>5, <1>6

LEMMA ThreadMon ==
  ASSUME ThreadInv, NEW k \in Ids, MonStep(k)
  PROVE  Origin' /\ LockDiscipline' /\ OneThreadOfEachKind'
<1>1. MonEffect(k)
  BY MonHasEffect DEF ThreadInv
<1>2. PICK to \in MonStates \ {"unborn"} : /\ monPc' = [monPc EXCEPT ![k] = to]
                                         /\ LockEffect(monPc[k], to, MonHolds, Sh(k))
  BY <1>1 DEF MonEffect
<1>3. monPc \in [Ids -> MonStates] /\ profiling_thread \in Nat
  BY DEF ThreadInv, TypeInv, TypeOK
<1>4. Origin'
  BY <1>1, <1>2, <1>3 DEF ThreadInv, Origin, MonEffect, MonLive
<1>5. LockDiscipline'
  BY <1>1, <1>2, <1>3, Holders DEF ThreadInv, LockDiscipline, MonEffect, LockEffect
<1>6. OneThreadOfEachKind'
  BY <1>1, <1>2, <1>3 DEF ThreadInv, OneThreadOfEachKind, MonEffect, MonLive
<1> QED
  BY <1>4, <1>5, <1>6

LEMMA ThreadStep == ThreadInv /\ [Next]_vars => ThreadInv'
<1> SUFFICES ASSUME ThreadInv, [Next]_vars PROVE ThreadInv'
  OBVIOUS
<1>1. TypeInv'
  BY TypeStep DEF ThreadInv
<1>2. CASE UNCHANGED vars
  BY <1>1, <1>2 DEF ThreadInv, Origin, LockDiscipline, OneThreadOfEachKind, vars
<1>3. CASE Idle
  BY <1>2, <1>3 DEF Idle
<1> QED
  BY <1>1, <1>2, <1>3, ThreadLoop, ThreadRun, ThreadMon DEF Next, ThreadInv

LEMMA ThreadInit == Init => ThreadInv
<1> SUFFICES ASSUME Init PROVE ThreadInv
  OBVIOUS
<1>1. TypeInv
  BY InitType
<1> QED
  BY <1>1, Holders DEF Init, ThreadInv, Origin, LockDiscipline, OneThreadOfEachKind, RunHolds, MonHolds

\* Exactly the thread inside a `with lock' block holds interface_lock, and
\* no thread ends with it: the external interfaces see one caller at a time.
THEOREM LockIsHeldByItsUser == Spec => []LockDiscipline
BY ThreadInit, ThreadStep, PTL DEF Spec, ThreadInv

\* The is_alive() guards admit one NEAT run and one data monitor at a time.
THEOREM OneRunOneMonitor == Spec => []OneThreadOfEachKind
BY ThreadInit, ThreadStep, PTL DEF Spec, ThreadInv

-----------------------------------------------------------------------------
(* The data monitors and their alarms. *)

\* A started monitor carries the service and the time of its own report, a QoS alarm,
\* and has triggered the script only if it is at its end.
MonOrigin ==
  /\ \A m \in Ids : monPc[m] # "unborn" =>
       /\ m <= received /\ log[m].qos /\ monArgs[m].service = log[m].service
       /\ monArgs[m].stamp = (IF log[m].stamped THEN m ELSE 0)
  /\ \A t \in triggers : monPc[t.alarm] \in {"done", "failed"}

AlarmInv == ThreadInv /\ MonOrigin /\ TriggersMatchAlarms

LEMMA AlarmLoop == AlarmInv /\ (Receive \/ LoopStep) => MonOrigin' /\ TriggersMatchAlarms'
<1> SUFFICES ASSUME AlarmInv, Receive \/ LoopStep PROVE MonOrigin' /\ TriggersMatchAlarms'
  OBVIOUS
<1>0. /\ main # "receive" => received \in Ids
      /\ received \in 0 .. MaxReports /\ MaxReports \in Nat
      /\ profiling_thread \in 0 .. received
      /\ monPc \in [Ids -> MonStates] /\ monArgs \in [Ids -> MonArgs]
      /\ log \in [Ids -> Report] /\ triggers \in SUBSET Trigger
      /\ \A t \in triggers : t.alarm \in Ids
  BY DiagnoserAssumption DEF AlarmInv, ThreadInv, TypeInv, AtHand, TypeOK, Trigger
<1>1. MonOrigin /\ TriggersMatchAlarms /\ Origin
  BY DEF AlarmInv, ThreadInv
<1>2. CASE UNCHANGED <<monPc, monArgs, triggers, log, received>>
  BY <1>1, <1>2 DEF MonOrigin, TriggersMatchAlarms
<1>3. CASE Receive
  <2>1. \A m \in Ids : m <= received => log'[m] = log[m]
    BY <1>0, <1>3 DEF Receive
  <2>2. received' = received + 1 /\ UNCHANGED <<monPc, monArgs, triggers>>
    BY <1>3 DEF Receive
  <2>3. \A t \in triggers : t.alarm <= received
    BY <1>0, <1>1 DEF MonOrigin
  <2> QED
    BY <1>0, <1>1, <2>1, <2>2, <2>3 DEF MonOrigin, TriggersMatchAlarms
<1>4. CASE StartMonitor
  <2>1. monPc[received] = "unborn" /\ received \in Ids /\ log[received].qos
    BY <1>0, <1>1, <1>4 DEF StartMonitor, Origin, Data
  <2>2. /\ monPc' = [monPc EXCEPT ![received] = "load"]
        /\ UNCHANGED <<received, log, triggers>>
        /\ \A m \in Ids :
             IF m = received
               THEN /\ monArgs'[m].service = log[m].service
                    /\ monArgs'[m].stamp = (IF log[m].stamped THEN m ELSE 0)
               ELSE monArgs'[m] = monArgs[m]
    BY <1>0, <1>4 DEF StartMonitor, Data, Timestamp
  <2>3. \A t \in triggers : t.alarm # received /\ monPc'[t.alarm] = monPc[t.alarm]
    BY <1>0, <1>1, <2>1, <2>2 DEF MonOrigin
  <2>4. \A m \in Ids : monPc'[m] # "unborn" =>
          /\ m <= received /\ log[m].qos /\ monArgs'[m].service = log[m].service
          /\ monArgs'[m].stamp = (IF log[m].stamped THEN m ELSE 0)
    <3> TAKE m \in Ids
    <3>1. CASE m = received
      BY <2>1, <2>2, <3>1
    <3>2. CASE m # received
      <4>1. monPc'[m] = monPc[m] /\ monArgs'[m] = monArgs[m]
        BY <1>0, <2>2, <3>2
      <4> QED
        BY <1>1, <4>1 DEF MonOrigin
    <3> QED
      BY <3>1, <3>2
  <2>5. UNCHANGED <<received, log, triggers>>
    BY <2>2
  <2>6. MonOrigin'
    BY <1>1, <2>3, <2>4, <2>5 DEF MonOrigin
  <2> QED
    BY <1>1, <2>5, <2>6 DEF TriggersMatchAlarms
<1>5. CASE SkipLabels
  BY <1>2, <1>5 DEF SkipLabels
<1>6. CASE CollectLabels
  BY <1>2, <1>6 DEF CollectLabels
<1>7. CASE StartNeat
  BY <1>2, <1>7 DEF StartNeat
<1>8. CASE IgnoreQos
  BY <1>2, <1>8 DEF IgnoreQos
<1> QED
  BY <1>3, <1>4, <1>5, <1>6, <1>7, <1>8 DEF LoopStep

LEMMA AlarmMon ==
  ASSUME AlarmInv, NEW k \in Ids, MonStep(k)
  PROVE  MonOrigin' /\ TriggersMatchAlarms'
<1>1. MonEffect(k)
  BY MonHasEffect DEF AlarmInv, ThreadInv
<1>2. PICK to \in MonStates \ {"unborn"} :
        /\ monPc' = [monPc EXCEPT ![k] = to]
        /\ \/ UNCHANGED triggers
           \/ /\ to \in {"done", "failed"}
              /\ \E i \in 0 .. MaxIterations : triggers' = triggers \cup {AlarmTrigger(k, i)}
  BY <1>1 DEF MonEffect
<1>3. /\ monPc \in [Ids -> MonStates] /\ \A t \in triggers : t.alarm \in Ids
  BY DEF AlarmInv, ThreadInv, TypeInv, TypeOK, Trigger
<1>4. UNCHANGED <<received, log, monArgs>> /\ monPc[k] \notin {"unborn", "done", "failed"}
  BY <1>1 DEF MonEffect, MonLive, MonEnded
<1>5. MonOrigin /\ TriggersMatchAlarms
  BY DEF AlarmInv
<1>6. \A t \in triggers : t.alarm # k
  BY <1>4, <1>5 DEF MonOrigin
<1>7. CASE UNCHANGED triggers
  BY <1>2, <1>3, <1>4, <1>5, <1>6, <1>7 DEF MonOrigin, TriggersMatchAlarms
<1>8. ASSUME NEW i \in 0 .. MaxIterations, to \in {"done", "failed"},
             triggers' = triggers \cup {AlarmTrigger(k, i)}
      PROVE  MonOrigin' /\ TriggersMatchAlarms'
  <2> DEFINE new == AlarmTrigger(k, i)
  <2>1. /\ log[k].qos /\ new.alarm = k /\ new.service = log[k].service
        /\ new.stamp = (IF log[k].stamped THEN k ELSE 0)
    BY <1>4, <1>5 DEF MonOrigin, AlarmTrigger
  <2> HIDE DEF new
  <2>2. triggers' = triggers \cup {new}
    BY <1>8 DEF new
  <2> QED
    BY <1>2, <1>3, <1>4, <1>5, <1>6, <1>8, <2>1, <2>2 DEF MonOrigin, TriggersMatchAlarms
<1> QED
  BY <1>2, <1>7, <1>8

LEMMA AlarmStep == AlarmInv /\ [Next]_vars => AlarmInv'
<1> SUFFICES ASSUME AlarmInv, [Next]_vars PROVE AlarmInv'
  OBVIOUS
<1>1. ThreadInv'
  BY ThreadStep DEF AlarmInv
<1>2. CASE UNCHANGED <<monPc, monArgs, triggers, log, received>>
  BY <1>1, <1>2 DEF AlarmInv, MonOrigin, TriggersMatchAlarms
<1>3. ASSUME NEW k \in Ids, RunStep(k) PROVE AlarmInv'
  BY <1>2, <1>3, RunHasEffect DEF RunEffect, AlarmInv, ThreadInv
<1>4. CASE UNCHANGED vars
  BY <1>2, <1>4 DEF vars
<1>5. CASE Idle
  BY <1>4, <1>5 DEF Idle
<1> QED
  BY <1>1, <1>3, <1>4, <1>5, AlarmLoop, AlarmMon DEF Next, AlarmInv

\* The self-healing script is triggered at most once per alarm, for the
\* service of that alarm.
THEOREM TriggersAreJustified == Spec => []TriggersMatchAlarms
<1>1. Init => AlarmInv
  BY ThreadInit DEF Init, AlarmInv, MonOrigin, TriggersMatchAlarms
<1> QED
  BY <1>1, AlarmStep, PTL DEF Spec, AlarmInv

-----------------------------------------------------------------------------
(* The labels of the NEAT runs. *)

\* The reports whose labels wait for the next run.
Past == IF main = "snort" THEN received - 1 ELSE received
Pending == {k \in 1 .. Past : log[k].snort /\ neat_thread < k}

\* First(cc, B): cc is the first C&C address in the batch B.
First(cc, B) == \E k \in B : /\ log[k].cc = cc /\ log[k].cc # None
                             /\ \A j \in B : j < k => log[j].cc = None

Collected ==
  /\ zombie_ips = UNION {log[k].src : k \in Pending}
  /\ \/ c_and_c_ip = None /\ \A k \in Pending : log[k].cc = None
     \/ First(c_and_c_ip, Pending)

LabelInv == ThreadInv /\ Collected /\ RunLabels

\* What the invariants say of the state before a step of the loop.
LEMMA LabelFacts ==
  ASSUME LabelInv
  PROVE  /\ main # "receive" => received \in Ids
         /\ received \in 0 .. MaxReports /\ MaxReports \in Nat
         /\ neat_thread \in 0 .. received
         /\ main = "snort" => neat_thread < received
         /\ runPc \in [Ids -> RunStates] /\ runArgs \in [Ids -> RunArgs]
         /\ log \in [Ids -> Report]
         /\ \A k \in Ids : runPc[k] # "unborn" => k <= neat_thread
         /\ neat_thread # 0 => runPc[neat_thread] # "unborn"
         /\ None \notin CCs
BY DiagnoserAssumption DEF LabelInv, ThreadInv, TypeInv, AtHand, TypeOK, Origin

\* RunLabels depends only on the runs started and on the reports up to them.
LEMMA RunLabelsKept ==
  ASSUME LabelInv,
         \A k \in Ids : k <= neat_thread => log'[k] = log[k],
         \A k \in Ids : runPc'[k] # "unborn" <=> runPc[k] # "unborn",
         runArgs' = runArgs
  PROVE  RunLabels'
<1> SUFFICES ASSUME NEW r \in Ids, runPc'[r] # "unborn"
             PROVE  /\ OverrideZombies = None =>
                         runArgs'[r].zombies = UNION {log'[k].src : k \in Batch(r)'}
                    /\ OverrideCC = None =>
                         \E k \in Batch(r)' : /\ log'[k].cc = runArgs'[r].cc /\ log'[k].cc # None
                                              /\ \A j \in Batch(r)' : j < k => log'[j].cc = None
  BY DEF RunLabels
<1>0. runPc[r] # "unborn" /\ runArgs'[r] = runArgs[r] /\ RunLabels
  BY DEF LabelInv
<1>1. \A k \in 1 .. r : k \in Ids /\ log'[k] = log[k]
  <2>1. r <= neat_thread
    BY <1>0, LabelFacts
  <2>2. neat_thread \in Nat /\ MaxReports \in Nat
    BY LabelFacts
  <2>3. \A k \in 1 .. r : k \in Ids /\ k <= neat_thread
    BY <2>1, <2>2
  <2> QED
    BY <2>3
<1>2. \A s \in 1 .. (r - 1) : s \in Ids
  BY LabelFacts
<1>3. Batch(r)' = Batch(r)
  BY <1>1, <1>2 DEF Batch
<1>4. \A k \in Batch(r) : log'[k] = log[k]
  BY <1>1 DEF Batch
<1>5. {log'[k].src : k \in Batch(r)} = {log[k].src : k \in Batch(r)}
  BY <1>4
<1> QED
  BY <1>0, <1>3, <1>4, <1>5 DEF RunLabels

\* Merging the report at hand extends what is collected by that report.
Extended == {k \in 1 .. received : log[k].snort /\ neat_thread < k}

LEMMA Merge ==
  ASSUME LabelInv, main = "snort", Data.snort
  PROVE  /\ MergedZombies = UNION {log[k].src : k \in Extended}
         /\ \/ MergedCC = None /\ \A k \in Extended : log[k].cc = None
            \/ First(MergedCC, Extended)
<1>1. /\ received \in Ids /\ received \in Extended /\ Extended = Pending \cup {received}
      /\ \A k \in Pending : k \in Nat /\ k < received
  BY LabelFacts DEF Pending, Past, Data, Extended
<1>2. Collected
  BY DEF LabelInv
<1>3. MergedZombies = UNION {log[k].src : k \in Extended}
  BY <1>1, <1>2 DEF Collected, MergedZombies, Data
<1>4. CASE c_and_c_ip = None /\ \A k \in Pending : log[k].cc = None
  <2>1. MergedCC = log[received].cc
    BY <1>4 DEF MergedCC, Data
  <2>2. CASE log[received].cc = None
    BY <1>1, <1>3, <1>4, <2>1, <2>2
  <2>3. CASE log[received].cc # None
    <3>1. \A j \in Extended : j < received => j \in Pending
      BY <1>1
    <3> QED
      BY <1>1, <1>3, <1>4, <2>1, <2>3, <3>1 DEF First
  <2> QED
    BY <2>2, <2>3
<1>5. CASE First(c_and_c_ip, Pending)
  <2>1. c_and_c_ip # None /\ MergedCC = c_and_c_ip
    BY <1>5 DEF First, MergedCC
  <2>2. PICK k \in Pending : /\ log[k].cc = c_and_c_ip /\ log[k].cc # None
                             /\ \A j \in Pending : j < k => log[j].cc = None
    BY <1>5 DEF First
  <2>3. k \in Extended /\ \A j \in Extended : j < k => j \in Pending
    BY <1>1, <2>2, LabelFacts
  <2> QED
    BY <1>3, <2>1, <2>2, <2>3 DEF First
<1> QED
  BY <1>2, <1>3, <1>4, <1>5 DEF Collected

\* A run that starts takes everything collected since the run before it.
LEMMA StartNeatLabels ==
  ASSUME LabelInv, StartNeat
  PROVE  RunLabels' /\ Collected'
<1>1. /\ received \in Ids /\ runPc[received] = "unborn" /\ neat_thread < received
      /\ received \in Nat /\ neat_thread \in Nat /\ MaxReports \in Nat
  BY LabelFacts DEF StartNeat
<1>2. /\ runPc' = [runPc EXCEPT ![received] = "begin"]
      /\ runArgs' = [runArgs EXCEPT ![received] = CapturedRunArgs]
      /\ neat_thread' = received /\ UNCHANGED <<log, received>>
      /\ c_and_c_ip' = None /\ zombie_ips' = {} /\ main = "snort" /\ main' = "qos"
      /\ Data.snort /\ MergedCC # None
  BY DEF StartNeat, ReadyToRun
<1>3. Collected'
  <2>1. Pending' = {}
    BY <1>1, <1>2 DEF Pending, Past
  <2> QED
    BY <1>2, <2>1 DEF Collected
<1>4. ASSUME NEW r \in Ids, runPc'[r] # "unborn"
      PROVE  /\ OverrideZombies = None =>
                  runArgs'[r].zombies = UNION {log'[k].src : k \in Batch(r)'}
             /\ OverrideCC = None =>
                  \E k \in Batch(r)' : /\ log'[k].cc = runArgs'[r].cc /\ log'[k].cc # None
                                       /\ \A j \in Batch(r)' : j < k => log'[j].cc = None
  <2>1. CASE r = received
    <3>1. \A s \in 1 .. (r - 1) : runPc'[s] # "unborn" <=> (s \in Ids /\ runPc[s] # "unborn")
      BY <1>1, <1>2, <2>1, LabelFacts
    <3>2. Batch(r)' = Extended
      <4>1. ASSUME NEW k \in 1 .. received
            PROVE  (\A s \in 1 .. (r - 1) : runPc'[s] # "unborn" => s < k) <=> neat_thread < k
        <5>1. CASE neat_thread < k
          BY <1>1, <3>1, <5>1, LabelFacts
        <5>2. CASE neat_thread >= k
          <6>1. neat_thread \in 1 .. (r - 1) /\ runPc'[neat_thread] # "unborn"
            BY <1>1, <2>1, <3>1, <5>2, LabelFacts
          <6> QED
            BY <1>1, <5>2, <6>1
        <5> QED
          BY <1>1, <5>1, <5>2
      <4> QED
        BY <1>2, <2>1, <4>1 DEF Batch, Extended
    <3>3. runArgs'[r] = CapturedRunArgs
      BY <1>1, <1>2, <2>1, LabelFacts
    <3>4. MergedZombies = UNION {log[k].src : k \in Extended} /\ First(MergedCC, Extended)
      BY <1>2, Merge
    <3> QED
      BY <1>2, <3>2, <3>3, <3>4 DEF CapturedRunArgs, First
  <2>2. CASE r # received
    <3>1. runPc[r] # "unborn" /\ runArgs'[r] = runArgs[r] /\ r <= neat_thread
      BY <1>1, <1>2, <2>2, <1>4, LabelFacts
    <3>2. \A s \in 1 .. (r - 1) : runPc'[s] = runPc[s]
      BY <1>1, <1>2, <3>1, LabelFacts
    <3>3. Batch(r)' = Batch(r) /\ log' = log
      BY <1>2, <3>2 DEF Batch
    <3> QED
      BY <3>1, <3>3 DEF LabelInv, RunLabels
  <2> QED
    BY <2>1, <2>2
<1>5. RunLabels'
  BY <1>4 DEF RunLabels
<1> QED
  BY <1>3, <1>5

LEMMA LabelLoop == LabelInv /\ (Receive \/ LoopStep) => RunLabels' /\ Collected'
<1> SUFFICES ASSUME LabelInv, Receive \/ LoopStep PROVE RunLabels' /\ Collected'
  OBVIOUS
<1>0. Collected
  BY DEF LabelInv
<1>1. CASE Receive
  <2>1. /\ \A k \in Ids : k <= received => log'[k] = log[k]
        /\ UNCHANGED <<runPc, runArgs, neat_thread, c_and_c_ip, zombie_ips>>
        /\ main = "receive" /\ main' = "snort" /\ received' = received + 1
    BY <1>1, LabelFacts DEF Receive
  <2>2. RunLabels'
    BY <2>1, RunLabelsKept, LabelFacts
  <2>3. Past' = Past /\ Past = received
    BY <2>1, LabelFacts DEF Past
  <2>4. \A k \in 1 .. received : k \in Ids /\ log'[k] = log[k]
    BY <2>1, LabelFacts
  <2>5. Pending' = Pending /\ \A k \in Pending : log'[k] = log[k]
    BY <2>1, <2>3, <2>4 DEF Pending
  <2>6. {log'[k].src : k \in Pending} = {log[k].src : k \in Pending}
    BY <2>5
  <2>7. First(c_and_c_ip, Pending) => First(c_and_c_ip, Pending)'
    BY <2>1, <2>5 DEF First
  <2> QED
    BY <1>0, <2>1, <2>2, <2>5, <2>6, <2>7 DEF Collected
<1>2. ASSUME UNCHANGED <<log, received, runPc, runArgs, neat_thread, c_and_c_ip, zombie_ips>>,
             Pending' = Pending
      PROVE  RunLabels' /\ Collected'
  <2>1. RunLabels'
    BY <1>2, RunLabelsKept
  <2> QED
    BY <1>0, <1>2, <2>1 DEF Collected, First
<1>3. CASE SkipLabels
  <2>1. Pending' = Pending
    BY <1>3, LabelFacts DEF SkipLabels, Pending, Past, Data
  <2> QED
    BY <1>2, <1>3, <2>1 DEF SkipLabels
<1>4. CASE CollectLabels
  <2>1. /\ UNCHANGED <<log, received, runPc, runArgs, neat_thread>>
        /\ c_and_c_ip' = MergedCC /\ zombie_ips' = MergedZombies
        /\ main = "snort" /\ main' = "qos" /\ Data.snort
    BY <1>4 DEF CollectLabels
  <2>2. RunLabels'
    BY <2>1, RunLabelsKept
  <2>3. Pending' = Extended
    BY <2>1 DEF Pending, Past, Extended
  <2> QED
    BY <2>1, <2>2, <2>3, Merge DEF Collected, First
<1>5. CASE StartNeat
  BY <1>5, StartNeatLabels
<1>6. CASE IgnoreQos
  <2>1. Pending' = Pending
    BY <1>6 DEF IgnoreQos, Pending, Past
  <2> QED
    BY <1>2, <1>6, <2>1 DEF IgnoreQos
<1>7. CASE StartMonitor
  <2>1. Pending' = Pending
    BY <1>7 DEF StartMonitor, Pending, Past
  <2> QED
    BY <1>2, <1>7, <2>1 DEF StartMonitor
<1> QED
  BY <1>1, <1>3, <1>4, <1>5, <1>6, <1>7 DEF LoopStep

LEMMA LabelStep == LabelInv /\ [Next]_vars => LabelInv'
<1> SUFFICES ASSUME LabelInv, [Next]_vars PROVE LabelInv'
  OBVIOUS
<1>1. ThreadInv'
  BY ThreadStep DEF LabelInv
<1>2. ASSUME UNCHANGED <<mainVars, runArgs>>,
             \A k \in Ids : runPc'[k] # "unborn" <=> runPc[k] # "unborn"
      PROVE  LabelInv'
  <2>1. RunLabels'
    BY <1>2, RunLabelsKept
  <2>2. Collected'
    BY <1>2 DEF LabelInv, Collected, Pending, Past, First
  <2> QED
    BY <1>1, <2>1, <2>2 DEF LabelInv
<1>3. ASSUME NEW k \in Ids, RunStep(k) PROVE LabelInv'
  <2>1. RunEffect(k) /\ runPc \in [Ids -> RunStates]
    BY <1>3, RunHasEffect, LabelFacts DEF LabelInv, ThreadInv
  <2> QED
    BY <1>2, <2>1 DEF RunEffect, RunLive
<1>4. ASSUME NEW k \in Ids, MonStep(k) PROVE LabelInv'
  BY <1>2, <1>4, MonHasEffect DEF MonEffect, LabelInv, ThreadInv
<1>5. CASE UNCHANGED vars
  BY <1>2, <1>5 DEF vars
<1>6. CASE Idle
  BY <1>5, <1>6 DEF Idle
<1> QED
  BY <1>1, <1>3, <1>4, <1>5, <1>6, LabelLoop DEF Next, LabelInv

\* A run works on exactly the zombies reported since the run before it was
\* started and on the first C&C address among those reports.
THEOREM RunsGetTheirLabels == Spec => []RunLabels
<1>1. Init => LabelInv
  <2> SUFFICES ASSUME Init PROVE LabelInv
    OBVIOUS
  <2>1. Pending = {}
    BY DEF Init, Pending, Past
  <2>2. Collected
    BY <2>1 DEF Init, Collected
  <2> QED
    BY <2>2, ThreadInit DEF Init, LabelInv, RunLabels
<1> QED
  BY <1>1, LabelStep, PTL DEF Spec, LabelInv
=============================================================================
