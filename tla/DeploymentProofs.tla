-------------------------- MODULE DeploymentProofs --------------------------
(***************************************************************************)
(* Proofs about Deployment, for any number of runs, cleanups, retries and  *)
(* polls: its types, that a run whose requests were accepted installs its  *)
(* loop, and what a cleanup leaves.                                        *)
(***************************************************************************)
EXTENDS Deployment, TLAPS

\* The bounds of the two loops hold where a turn begins.
BoundsLeft ==
  /\ pc = "delete" => depth < RecursionLimit
  /\ pc = "poll" => polls < MaxPolls
  /\ pc \in Steps \ {"poll"} => polls = 0

\* A run has a number, so that what it installs differs from nothing.
RunIsNumbered == pc # "idle" => run # 0

\* No cleanup is under way since a run that no cleanup overlaps began.
CalmMeansNoCleanup == calm => cpc = "idle"

\* What a run whose requests were accepted has installed at each step.
InstalledSoFar ==
  accepted /\ calm =>
    /\ pc \in Steps \ {"task", "put"} => task = run
    /\ pc \in Steps \ {"task", "put", "alarm"} => alarm # 0
    /\ pc \in {"disableI", "disableII", "poll"} => rule[RunTenant] = run
    /\ pc \in {"disableII", "poll"} => "SP_LOOP_I" \notin oldLoops
    /\ pc = "poll" => "SP_LOOP_II" \notin oldLoops

\* What a cleanup has removed at each step, while no run is active.
CleanedSoFar ==
  cleanAlone =>
    /\ pc = "idle"
    /\ cpc = "alarm" => cid = alarm
    /\ cpc \in {"task", "tal", "done"} => alarm = 0
    /\ cpc \in {"tal", "done"} => task = 0

IInv == TypeOK /\ BoundsLeft /\ RunIsNumbered /\ CalmMeansNoCleanup /\ InstalledSoFar

-----------------------------------------------------------------------------
\* The first state of the services and of the run: nothing is installed.
LEMMA InitIInv == Init => IInv
<1> SUFFICES ASSUME Init PROVE IInv
  OBVIOUS
<1> USE DeploymentAssumption DEF Init
<1>1. RunTypes /\ BoundsLeft
  BY DEF RunTypes, BoundsLeft, Steps
<1>2. ServiceTypes
  BY DEF ServiceTypes, Tenants
<1>3. CleanupTypes
  BY DEF CleanupTypes
<1>6. FlagTypes
  BY DEF FlagTypes
<1>4. RunIsNumbered /\ CalmMeansNoCleanup
  BY DEF RunIsNumbered, CalmMeansNoCleanup
<1>5. InstalledSoFar
  BY DEF InstalledSoFar, Steps
<1> QED
  BY <1>1, <1>2, <1>3, <1>4, <1>5, <1>6 DEF IInv, TypeOK

-----------------------------------------------------------------------------
\* send_tal recurses and the wait polls only below their limits.
LEMMA RunStepRunTypes ==
  ASSUME RunTypes, BoundsLeft, StartRun \/ RunStep
  PROVE  RunTypes' /\ BoundsLeft'
<1> USE DeploymentAssumption DEF RunTypes, BoundsLeft, Steps
<1>1. CASE StartRun
  BY <1>1 DEF StartRun
<1>2. CASE PostTask
  BY <1>2 DEF PostTask
<1>3. CASE PutTask
  BY <1>3 DEF PutTask
<1>4. CASE CreateAlarm
  BY <1>4 DEF CreateAlarm
<1>5. CASE PostRule
  BY <1>5 DEF PostRule
<1>6. CASE RemoveRule
  BY <1>6 DEF RemoveRule
<1>7. CASE DisableI
  BY <1>7 DEF DisableI, DisableOldScript
<1>8. CASE DisableII
  BY <1>8 DEF DisableII, DisableOldScript
<1>9. CASE Poll
  BY <1>9 DEF Poll, EndRun
<1>10. CASE RunRaises
  BY <1>10 DEF RunRaises, EndRun
<1> QED
  BY <1>1, <1>2, <1>3, <1>4, <1>5, <1>6, <1>7, <1>8, <1>9, <1>10 DEF RunStep

\* What a run hands to the services is its own number.
LEMMA RunStepServiceTypes ==
  ASSUME RunTypes, ServiceTypes, StartRun \/ RunStep
  PROVE  ServiceTypes'
<1> USE DeploymentAssumption DEF RunTypes, ServiceTypes, services
<1>1. CASE StartRun
  BY <1>1 DEF StartRun
<1>2. CASE PostTask
  BY <1>2 DEF PostTask
<1>3. CASE PutTask
  BY <1>3 DEF PutTask
<1>4. CASE CreateAlarm
  BY <1>4 DEF CreateAlarm
<1>5. CASE PostRule
  BY <1>5 DEF PostRule, Tenants, RunTenant
<1>6. CASE RemoveRule
  BY <1>6 DEF RemoveRule, Tenants, RunTenant
<1>7. CASE DisableI
  BY <1>7 DEF DisableI, DisableOldScript
<1>8. CASE DisableII
  BY <1>8 DEF DisableII, DisableOldScript
<1>9. CASE Poll
  BY <1>9 DEF Poll, EndRun
<1>10. CASE RunRaises
  BY <1>10 DEF RunRaises, EndRun
<1> QED
  BY <1>1, <1>2, <1>3, <1>4, <1>5, <1>6, <1>7, <1>8, <1>9, <1>10 DEF RunStep

\* A run shares with the cleanup only the record that it was alone.
LEMMA RunStepCleanupTypes ==
  ASSUME CleanupTypes, StartRun \/ RunStep
  PROVE  CleanupTypes'
<1> USE DEF CleanupTypes, cleanupVars
<1>1. CASE StartRun
  BY <1>1 DEF StartRun
<1>2. CASE PostTask
  BY <1>2 DEF PostTask
<1>3. CASE PutTask
  BY <1>3 DEF PutTask
<1>4. CASE CreateAlarm
  BY <1>4 DEF CreateAlarm
<1>5. CASE PostRule
  BY <1>5 DEF PostRule
<1>6. CASE RemoveRule
  BY <1>6 DEF RemoveRule
<1>7. CASE DisableI
  BY <1>7 DEF DisableI, DisableOldScript
<1>8. CASE DisableII
  BY <1>8 DEF DisableII, DisableOldScript
<1>9. CASE Poll
  BY <1>9 DEF Poll, EndRun
<1>10. CASE RunRaises
  BY <1>10 DEF RunRaises, EndRun
<1> QED
  BY <1>1, <1>2, <1>3, <1>4, <1>5, <1>6, <1>7, <1>8, <1>9, <1>10 DEF RunStep

\* The flag of the rule and the histories stay truth values.
LEMMA RunStepFlagTypes ==
  ASSUME FlagTypes, StartRun \/ RunStep
  PROVE  FlagTypes'
<1> USE DEF FlagTypes, services, cleanupVars, Accept, Refuse
<1>1. CASE StartRun
  BY <1>1 DEF StartRun
<1>2. CASE PostTask
  BY <1>2 DEF PostTask
<1>3. CASE PutTask
  BY <1>3 DEF PutTask
<1>4. CASE CreateAlarm
  BY <1>4 DEF CreateAlarm
<1>5. CASE PostRule
  BY <1>5 DEF PostRule
<1>6. CASE RemoveRule
  BY <1>6 DEF RemoveRule
<1>7. CASE DisableI
  BY <1>7 DEF DisableI, DisableOldScript
<1>8. CASE DisableII
  BY <1>8 DEF DisableII, DisableOldScript
<1>9. CASE Poll
  BY <1>9 DEF Poll, EndRun
<1>10. CASE RunRaises
  BY <1>10 DEF RunRaises, EndRun
<1> QED
  BY <1>1, <1>2, <1>3, <1>4, <1>5, <1>6, <1>7, <1>8, <1>9, <1>10 DEF RunStep

\* The engine and the cleanup leave the run's locals alone.
LEMMA OtherStepRunTypes ==
  ASSUME RunTypes, BoundsLeft, EngineDeactivates \/ CleanupStep
  PROVE  RunTypes' /\ BoundsLeft'
<1>1. UNCHANGED runVars
  BY DEF EngineDeactivates, CleanupStep, CleanupStart, CleanupAlarm, CleanupTask,
         CleanupRule, CleanupEnds
<1> QED
  BY <1>1 DEF runVars, RunTypes, BoundsLeft

\* They only take away what a service holds.
LEMMA OtherStepServiceTypes ==
  ASSUME ServiceTypes, EngineDeactivates \/ CleanupStep
  PROVE  ServiceTypes'
<1> USE DeploymentAssumption DEF ServiceTypes, services
<1>1. CASE EngineDeactivates
  BY <1>1 DEF EngineDeactivates
<1>2. CASE CleanupStart
  BY <1>2 DEF CleanupStart
<1>3. CASE CleanupAlarm
  BY <1>3 DEF CleanupAlarm
<1>4. CASE CleanupTask
  BY <1>4 DEF CleanupTask
<1>5. CASE CleanupRule
  BY <1>5 DEF CleanupRule, Tenants, CleanupTenant
<1>6. CASE CleanupEnds
  BY <1>6 DEF CleanupEnds
<1> QED
  BY <1>1, <1>2, <1>3, <1>4, <1>5, <1>6 DEF CleanupStep

\* The number a cleanup remembers is that of an alarm.
LEMMA OtherStepCleanupTypes ==
  ASSUME ServiceTypes, CleanupTypes, EngineDeactivates \/ CleanupStep
  PROVE  CleanupTypes'
<1> USE DeploymentAssumption DEF ServiceTypes, CleanupTypes, cleanupVars
<1>1. CASE EngineDeactivates
  BY <1>1 DEF EngineDeactivates
<1>2. CASE CleanupStart
  BY <1>2 DEF CleanupStart
<1>3. CASE CleanupAlarm
  BY <1>3 DEF CleanupAlarm
<1>4. CASE CleanupTask
  BY <1>4 DEF CleanupTask
<1>5. CASE CleanupRule
  BY <1>5 DEF CleanupRule
<1>6. CASE CleanupEnds
  BY <1>6 DEF CleanupEnds
<1> QED
  BY <1>1, <1>2, <1>3, <1>4, <1>5, <1>6 DEF CleanupStep

\* The flag of the rule and the histories stay truth values.
LEMMA OtherStepFlagTypes ==
  ASSUME FlagTypes, EngineDeactivates \/ CleanupStep
  PROVE  FlagTypes'
<1> USE DEF FlagTypes, services, cleanupVars
<1>1. CASE EngineDeactivates
  BY <1>1 DEF EngineDeactivates
<1>2. CASE CleanupStart
  BY <1>2 DEF CleanupStart
<1>3. CASE CleanupAlarm
  BY <1>3 DEF CleanupAlarm
<1>4. CASE CleanupTask
  BY <1>4 DEF CleanupTask
<1>5. CASE CleanupRule
  BY <1>5 DEF CleanupRule
<1>6. CASE CleanupEnds
  BY <1>6 DEF CleanupEnds
<1> QED
  BY <1>1, <1>2, <1>3, <1>4, <1>5, <1>6 DEF CleanupStep

-----------------------------------------------------------------------------
\* A run gets the next number and is calm only if no cleanup is under way.
LEMMA RunStepCalm ==
  ASSUME RunTypes, RunIsNumbered, CalmMeansNoCleanup, StartRun \/ RunStep
  PROVE  RunIsNumbered' /\ CalmMeansNoCleanup'
<1> USE DEF RunTypes, RunIsNumbered, CalmMeansNoCleanup, Steps, cleanupVars
<1>1. CASE StartRun
  <2>1. RunIsNumbered'
    BY <1>1 DEF StartRun
  <2>2. CalmMeansNoCleanup'
    BY <1>1, Zenon DEF StartRun
  <2> QED
    BY <2>1, <2>2
<1>2. CASE PostTask
  BY <1>2 DEF PostTask
<1>3. CASE PutTask
  BY <1>3 DEF PutTask
<1>4. CASE CreateAlarm
  BY <1>4 DEF CreateAlarm
<1>5. CASE PostRule
  BY <1>5 DEF PostRule
<1>6. CASE RemoveRule
  BY <1>6 DEF RemoveRule
<1>7. CASE DisableI
  BY <1>7 DEF DisableI, DisableOldScript
<1>8. CASE DisableII
  BY <1>8 DEF DisableII, DisableOldScript
<1>9. CASE Poll
  BY <1>9 DEF Poll, EndRun
<1>10. CASE RunRaises
  BY <1>10 DEF RunRaises, EndRun
<1> QED
  BY <1>1, <1>2, <1>3, <1>4, <1>5, <1>6, <1>7, <1>8, <1>9, <1>10 DEF RunStep

\* Each step of the run adds its part to what is installed and keeps the
\* parts before it.
LEMMA RunStepInstalls ==
  ASSUME TypeOK, RunIsNumbered, InstalledSoFar, StartRun \/ RunStep
  PROVE  InstalledSoFar'
<1> USE DEF TypeOK, RunTypes, ServiceTypes, RunIsNumbered, InstalledSoFar, Steps, services,
        Accept, Refuse
<1>1. CASE StartRun
  BY <1>1 DEF StartRun
<1>2. CASE PostTask
  BY <1>2 DEF PostTask
<1>3. CASE PutTask
  BY <1>3 DEF PutTask
<1>4. CASE CreateAlarm
  BY <1>4 DEF CreateAlarm
<1>5. CASE PostRule
  BY <1>5 DEF PostRule, Tenants, RunTenant
<1>6. CASE RemoveRule
  BY <1>6 DEF RemoveRule
<1>7. CASE DisableI
  BY <1>7 DEF DisableI, DisableOldScript
<1>8. CASE DisableII
  BY <1>8 DEF DisableII, DisableOldScript
<1>9. CASE Poll
  BY <1>9 DEF Poll, EndRun
<1>10. CASE RunRaises
  BY <1>10 DEF RunRaises, EndRun
<1> QED
  BY <1>1, <1>2, <1>3, <1>4, <1>5, <1>6, <1>7, <1>8, <1>9, <1>10 DEF RunStep

\* A run that a cleanup overlaps is not calm.
LEMMA OtherStepCalm ==
  ASSUME RunIsNumbered, CalmMeansNoCleanup, EngineDeactivates \/ CleanupStep
  PROVE  RunIsNumbered' /\ CalmMeansNoCleanup'
<1> USE DEF RunIsNumbered, CalmMeansNoCleanup, runVars, cleanupVars
<1>1. CASE EngineDeactivates
  BY <1>1 DEF EngineDeactivates
<1>2. CASE CleanupStart
  BY <1>2 DEF CleanupStart
<1>3. CASE CleanupAlarm
  BY <1>3 DEF CleanupAlarm
<1>4. CASE CleanupTask
  BY <1>4 DEF CleanupTask
<1>5. CASE CleanupRule
  BY <1>5 DEF CleanupRule
<1>6. CASE CleanupEnds
  BY <1>6 DEF CleanupEnds
<1> QED
  BY <1>1, <1>2, <1>3, <1>4, <1>5, <1>6 DEF CleanupStep

\* The engine only clears the flag, and what a cleanup removes is not from a
\* calm run.
LEMMA OtherStepInstalls ==
  ASSUME CalmMeansNoCleanup, InstalledSoFar, EngineDeactivates \/ CleanupStep
  PROVE  InstalledSoFar'
<1> USE DEF CalmMeansNoCleanup, InstalledSoFar, runVars, services
<1>1. CASE EngineDeactivates
  BY <1>1 DEF EngineDeactivates
<1>2. CASE CleanupStart
  BY <1>2 DEF CleanupStart
<1>3. CASE CleanupAlarm
  BY <1>3 DEF CleanupAlarm
<1>4. CASE CleanupTask
  BY <1>4 DEF CleanupTask
<1>5. CASE CleanupRule
  BY <1>5 DEF CleanupRule
<1>6. CASE CleanupEnds
  BY <1>6 DEF CleanupEnds
<1> QED
  BY <1>1, <1>2, <1>3, <1>4, <1>5, <1>6 DEF CleanupStep

LEMMA NextIInv == IInv /\ [Next]_vars => IInv'
<1> SUFFICES ASSUME IInv, [Next]_vars PROVE IInv'
  OBVIOUS
<1>1. CASE StartRun \/ RunStep
  BY <1>1, RunStepRunTypes, RunStepServiceTypes, RunStepCleanupTypes, RunStepFlagTypes,
     RunStepCalm, RunStepInstalls
  DEF IInv, TypeOK
<1>2. CASE EngineDeactivates \/ CleanupStep
  BY <1>2, OtherStepRunTypes, OtherStepServiceTypes, OtherStepCleanupTypes,
     OtherStepFlagTypes, OtherStepCalm, OtherStepInstalls
  DEF IInv, TypeOK
<1>3. CASE UNCHANGED vars
  <2> USE <1>3 DEF vars
  <2>1. TypeOK'
    BY DEF IInv, TypeOK, RunTypes, ServiceTypes, CleanupTypes, FlagTypes,
           runVars, services, cleanupVars
  <2>2. BoundsLeft' /\ RunIsNumbered' /\ CalmMeansNoCleanup'
    BY DEF IInv, BoundsLeft, RunIsNumbered, CalmMeansNoCleanup, runVars, cleanupVars
  <2>3. InstalledSoFar'
    BY DEF IInv, InstalledSoFar, runVars, services
  <2> QED
    BY <2>1, <2>2, <2>3 DEF IInv
<1> QED
  BY <1>1, <1>2, <1>3 DEF Next

\* A run that is active, or begins, means that no cleanup is alone, and a
\* cleanup goes on only with what it removed.
LEMMA NextCleaned == CleanedSoFar /\ [Next]_vars => CleanedSoFar'
<1> SUFFICES ASSUME CleanedSoFar, [Next]_vars PROVE CleanedSoFar'
  OBVIOUS
<1> USE DEF CleanedSoFar
<1>1. CASE StartRun
  BY <1>1 DEF StartRun
<1>2. CASE RunStep
  <2>1. pc \in Steps /\ UNCHANGED cleanupVars
    BY <1>2 DEF RunStep, PostTask, PutTask, CreateAlarm, PostRule, RemoveRule, DisableI,
                DisableII, DisableOldScript, Poll, RunRaises, Steps
  <2> QED
    BY <2>1 DEF Steps, cleanupVars
<1>3. CASE EngineDeactivates
  BY <1>3 DEF EngineDeactivates, runVars, cleanupVars
<1>4. CASE CleanupStart
  BY <1>4 DEF CleanupStart, runVars, services
<1>5. CASE CleanupAlarm
  BY <1>5 DEF CleanupAlarm, runVars
<1>6. CASE CleanupTask
  BY <1>6 DEF CleanupTask, runVars
<1>7. CASE CleanupRule
  BY <1>7 DEF CleanupRule, runVars
<1>8. CASE CleanupEnds
  BY <1>8 DEF CleanupEnds
<1>9. CASE UNCHANGED vars
  BY <1>9 DEF vars, runVars, services, cleanupVars
<1> QED
  BY <1>1, <1>2, <1>3, <1>4, <1>5, <1>6, <1>7, <1>8, <1>9 DEF Next, CleanupStep

LEMMA Inductive == Spec => []IInv
BY InitIInv, NextIInv, PTL DEF Spec

-----------------------------------------------------------------------------
\* The locals of a run and what the services hold keep their types; depth
\* and polls stay within the limits that end the two loops.
THEOREM DeploymentTypes == Spec => []TypeOK
<1>1. IInv => TypeOK
  BY DEF IInv
<1> QED
  BY <1>1, Inductive, PTL

\* A run whose requests were all accepted and that no cleanup overlapped has
\* its own task and rule, an alarm and neither old loop once it waits
\* (run_sp_neat), whatever the runs before it left behind.
THEOREM AcceptedRunInstalls == Spec => []CompleteRunInstalls
<1>1. IInv => CompleteRunInstalls
  BY DEF IInv, TypeOK, ServiceTypes, InstalledSoFar, CompleteRunInstalls, Steps
<1> QED
  BY <1>1, Inductive, PTL

\* A cleanup alone whose requests were accepted leaves neither alarm nor task
\* (clean_after_loop), whatever the runs before it left behind.
THEOREM CleanupsRemove == Spec => []CleanupRemoves
<1>1. Init => CleanedSoFar
  BY DEF Init, CleanedSoFar
<1>2. CleanedSoFar => CleanupRemoves
  BY DEF CleanedSoFar, CleanupRemoves
<1> QED
  BY <1>1, <1>2, NextCleaned, PTL DEF Spec
=============================================================================
