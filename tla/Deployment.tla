---------------------------- MODULE Deployment ----------------------------
(***************************************************************************)
(* The last part of a NEAT run (diagnoser/neattools.py, run_sp_neat, under *)
(* interface_lock): the calls to the Task Manager (taskman.py), Monasca    *)
(* (monasca.py) and the TAL engine (talcom.py), and the wait for the rule  *)
(* to be deactivated.  cleanup.py runs as a process of its own and does    *)
(* not take the lock.                                                      *)
(*                                                                         *)
(* The runs follow each other: Diagnoser shows that two are never alive at *)
(* once.  Task, alarm and rule have fixed names in the configuration, so   *)
(* each service holds at most one of them: the number of the run it came   *)
(* from, or 0.  A service answers with success, with the conflict its      *)
(* state implies, with another status, or the client raises.               *)
(***************************************************************************)
EXTENDS Naturals

CONSTANTS
  MaxRuns,         \* BOUND: number of runs
  MaxCleanups,     \* BOUND: number of executions of cleanup.py
  RecursionLimit,  \* BOUND: depth of send_tal, Python's recursion limit
  MaxPolls         \* polls for the deactivation (16 in the code)

ASSUME DeploymentAssumption ==
  /\ MaxRuns \in Nat /\ MaxCleanups \in Nat
  /\ RecursionLimit \in Nat \ {0} /\ MaxPolls \in Nat \ {0}

VARIABLES
  pc, run, depth, polls,          \* the run
  last,                           \* how the last run ended
  task, alarm, rule, enabled,     \* what the services hold
  oldLoops,                       \* the enabled ones of SP_LOOP_I, SP_LOOP_II
  cpc, cid, cleanups,             \* cleanup.py
  accepted, calm, cleanAlone \* history, see below

runVars     == <<pc, run, depth, polls, last>>
services    == <<task, alarm, rule, enabled, oldLoops>>
cleanupVars == <<cpc, cid, cleanups, cleanAlone>>
vars        == <<runVars, services, cleanupVars, accepted, calm>>

-----------------------------------------------------------------------------
Tenants == {"alksd", "talhero"}
RunTenant == "alksd"        \* default of talcom.send_tal and remove_tal
CleanupTenant == "talhero"  \* default of cleanup.remove_tal

\* The steps in the order the run takes them; "put" follows a conflict.
Steps == {"task", "put", "alarm", "tal", "delete", "disableI", "disableII", "poll"}

Init ==
  /\ pc = "idle" /\ run = 0 /\ depth = 0 /\ polls = 0 /\ last = "none"
  /\ task = 0 /\ alarm = 0 /\ rule = [t \in Tenants |-> 0] /\ enabled = FALSE
  /\ oldLoops = {"SP_LOOP_I", "SP_LOOP_II"}
  /\ cpc = "idle" /\ cid = 0 /\ cleanups = 0
  /\ accepted = TRUE /\ calm = TRUE /\ cleanAlone = FALSE

\* accepted: the services accepted every request of this run; calm: no
\* cleanup ran since the run began; cleanAlone: the services accepted every
\* request of this cleanup and no run was active since it began.
Accept == UNCHANGED accepted
Refuse == accepted' = FALSE

-----------------------------------------------------------------------------
(* The run.  The dry-run test in front of it is `if False'.                *)

StartRun ==
  /\ pc = "idle" /\ run < MaxRuns
  /\ run' = run + 1 /\ pc' = "task" /\ depth' = 0 /\ polls' = 0
  /\ accepted' = TRUE /\ calm' = (cpc = "idle") /\ cleanAlone' = FALSE
  /\ UNCHANGED <<last, services, cpc, cid, cleanups>>

\* send_task: the POST creates the task or finds it there; another status
\* is printed and the run goes on.
PostTask ==
  /\ pc = "task"
  /\ \/ task = 0 /\ task' = run /\ pc' = "alarm" /\ Accept
     \/ task # 0 /\ pc' = "put" /\ UNCHANGED task /\ Accept
     \/ pc' = "alarm" /\ UNCHANGED task /\ Refuse
  /\ UNCHANGED <<run, depth, polls, last, alarm, rule, enabled, oldLoops, cleanupVars, calm>>

\* Mutant: a conflict counts as success and the old task stays.
PutTaskSkipped ==
  /\ pc = "put" /\ pc' = "alarm" /\ Accept
  /\ UNCHANGED <<run, depth, polls, last, task, alarm, rule, enabled, oldLoops, cleanupVars, calm>>

\* send_task: the PUT after a conflict; its status is not looked at.
PutTask ==
  /\ pc = "put" /\ pc' = "alarm"
  /\ \/ task # 0 /\ task' = run /\ Accept
     \/ UNCHANGED task /\ Refuse
  /\ UNCHANGED <<run, depth, polls, last, alarm, rule, enabled, oldLoops, cleanupVars, calm>>

\* create_alarm: a conflict is caught and leaves the older alarm in place.
CreateAlarm ==
  /\ pc = "alarm" /\ pc' = "tal"
  /\ alarm' = IF alarm = 0 THEN run ELSE alarm
  /\ UNCHANGED <<run, depth, polls, last, task, rule, enabled, oldLoops, cleanupVars, accepted, calm>>

\* send_tal: created, in the way, or refused.
PostRule ==
  /\ pc = "tal" /\ depth < RecursionLimit
  /\ \/ /\ rule[RunTenant] = 0
        /\ rule' = [rule EXCEPT ![RunTenant] = run] /\ enabled' = TRUE
        /\ pc' = "disableI" /\ Accept
     \/ rule[RunTenant] # 0 /\ pc' = "delete" /\ UNCHANGED <<rule, enabled>> /\ Accept
     \/ pc' = "disableI" /\ UNCHANGED <<rule, enabled>> /\ Refuse
  /\ UNCHANGED <<run, depth, polls, last, task, alarm, oldLoops, cleanupVars, calm>>

\* Mutant: send_tal is retried without a limit.
RemoveRuleForever ==
  /\ pc = "delete" /\ pc' = "tal"
  /\ \/ rule' = [rule EXCEPT ![RunTenant] = 0] /\ enabled' = FALSE
     \/ UNCHANGED <<rule, enabled>>
  /\ UNCHANGED <<run, depth, polls, last, task, alarm, oldLoops, cleanupVars, accepted, calm>>

\* send_tal after a conflict: remove_tal, whose status is not looked at,
\* then send_tal calls itself.
RemoveRule ==
  /\ pc = "delete" /\ pc' = "tal" /\ depth' = depth + 1
  /\ \/ rule' = [rule EXCEPT ![RunTenant] = 0] /\ enabled' = FALSE
     \/ UNCHANGED <<rule, enabled>>
  /\ UNCHANGED <<run, polls, last, task, alarm, oldLoops, cleanupVars, accepted, calm>>

DisableOldScript(from, script, to) ==
  /\ pc = from /\ pc' = to
  /\ \/ oldLoops' = oldLoops \ {script} /\ Accept
     \/ UNCHANGED oldLoops /\ Refuse
  /\ UNCHANGED <<run, depth, polls, last, task, alarm, rule, enabled, cleanupVars, calm>>

DisableI  == DisableOldScript("disableI", "SP_LOOP_I", "disableII")
DisableII == DisableOldScript("disableII", "SP_LOOP_II", "poll")

\* check_script: whether the engine, asked with this status, reports the
\* rule enabled.  Any status but 200 counts as not enabled.
CheckScript(answered) == answered /\ rule[RunTenant] # 0 /\ enabled

EndRun(how) == pc' = "idle" /\ last' = how

\* Mutant: one poll too many.
PollOnceMore ==
  /\ pc = "poll"
  /\ \E answered \in BOOLEAN :
       \/ ~CheckScript(answered) /\ EndRun("finished") /\ UNCHANGED polls
       \/ /\ CheckScript(answered) /\ polls' = polls + 1
          /\ \/ polls < MaxPolls /\ UNCHANGED <<pc, last>>
             \/ polls = MaxPolls /\ EndRun("timedout")
  /\ UNCHANGED <<run, depth, services, cleanupVars, accepted, calm>>

\* One turn of the wait: the engine answers with status 200 or another one.
Poll ==
  /\ pc = "poll"
  /\ \E answered \in BOOLEAN :
       \/ ~CheckScript(answered) /\ EndRun("finished") /\ UNCHANGED polls
       \/ /\ CheckScript(answered) /\ polls' = polls + 1
          /\ \/ polls + 1 < MaxPolls /\ UNCHANGED <<pc, last>>
             \/ polls + 1 = MaxPolls /\ EndRun("timedout")
  /\ UNCHANGED <<run, depth, services, cleanupVars, accepted, calm>>

\* Any call raises, or send_tal exceeds the recursion limit: the exception
\* unwinds the thread.
RunRaises ==
  /\ pc \in Steps /\ EndRun("raised")
  /\ UNCHANGED <<run, depth, polls, services, cleanupVars, accepted, calm>>

RunStep ==
  \/ PostTask \/ PutTask \/ CreateAlarm \/ PostRule \/ RemoveRule
  \/ DisableI \/ DisableII \/ Poll \/ RunRaises

-----------------------------------------------------------------------------
(* The TAL engine deactivates the rule once its reaction is in place. *)

EngineDeactivates ==
  /\ enabled /\ enabled' = FALSE
  /\ UNCHANGED <<runVars, task, alarm, rule, oldLoops, cleanupVars, accepted, calm>>

-----------------------------------------------------------------------------
(* cleanup.py, clean_after_loop.  No status is looked at; a request that   *)
(* raises ends the script.                                                 *)

\* get_alarm_id: the id, or None after any exception.
CleanupStart ==
  /\ cpc = "idle" /\ cleanups < MaxCleanups
  /\ cleanups' = cleanups + 1 /\ cpc' = "alarm" /\ calm' = FALSE
  /\ \/ cid' = alarm /\ cleanAlone' = (pc = "idle")
     \/ cid' = 0 /\ cleanAlone' = FALSE
  /\ UNCHANGED <<runVars, services, accepted>>

\* Mutant: the test for a missing id is the wrong way round.
CleanupAlarmInverted ==
  /\ cpc = "alarm" /\ cpc' = "task"
  /\ alarm' = (IF cid = 0 THEN 0 ELSE alarm) /\ UNCHANGED cleanAlone
  /\ UNCHANGED <<runVars, task, rule, enabled, oldLoops, cid, cleanups, accepted, calm>>

\* The alarm is deleted by the id of the start, if there was one.
CleanupAlarm ==
  /\ cpc = "alarm" /\ cpc' = "task"
  /\ \/ alarm' = (IF alarm = cid THEN 0 ELSE alarm) /\ UNCHANGED cleanAlone
     \/ cid # 0 /\ UNCHANGED alarm /\ cleanAlone' = FALSE
  /\ UNCHANGED <<runVars, task, rule, enabled, oldLoops, cid, cleanups, accepted, calm>>

CleanupTask ==
  /\ cpc = "task" /\ cpc' = "tal"
  /\ \/ task' = 0 /\ UNCHANGED cleanAlone
     \/ UNCHANGED task /\ cleanAlone' = FALSE
  /\ UNCHANGED <<runVars, alarm, rule, enabled, oldLoops, cid, cleanups, accepted, calm>>

CleanupRule ==
  /\ cpc = "tal" /\ cpc' = "done"
  /\ \/ /\ rule' = [rule EXCEPT ![CleanupTenant] = 0]
        /\ enabled' = (enabled /\ rule'[RunTenant] # 0)
        /\ UNCHANGED cleanAlone
     \/ UNCHANGED <<rule, enabled>> /\ cleanAlone' = FALSE
  /\ UNCHANGED <<runVars, task, alarm, oldLoops, cid, cleanups, accepted, calm>>

CleanupEnds ==
  /\ cpc # "idle" /\ cpc' = "idle" /\ cleanAlone' = FALSE
  /\ UNCHANGED <<runVars, services, cid, cleanups, accepted, calm>>

CleanupStep == CleanupStart \/ CleanupAlarm \/ CleanupTask \/ CleanupRule \/ CleanupEnds

-----------------------------------------------------------------------------
Next == StartRun \/ RunStep \/ EngineDeactivates \/ CleanupStep

Spec == Init /\ [][Next]_vars

\* The thread is scheduled and every request returns or raises.
FairSpec == Spec /\ WF_vars(RunStep)

-----------------------------------------------------------------------------
RunTypes ==
  /\ pc \in Steps \cup {"idle"} /\ run \in 0 .. MaxRuns
  /\ depth \in 0 .. RecursionLimit /\ polls \in 0 .. MaxPolls
  /\ last \in {"none", "finished", "timedout", "raised"}

ServiceTypes ==
  /\ task \in 0 .. MaxRuns /\ alarm \in 0 .. MaxRuns
  /\ rule \in [Tenants -> 0 .. MaxRuns]
  /\ oldLoops \subseteq {"SP_LOOP_I", "SP_LOOP_II"}

CleanupTypes ==
  /\ cpc \in {"idle", "alarm", "task", "tal", "done"} /\ cid \in 0 .. MaxRuns
  /\ cleanups \in 0 .. MaxCleanups

FlagTypes ==
  /\ enabled \in BOOLEAN
  /\ accepted \in BOOLEAN /\ calm \in BOOLEAN /\ cleanAlone \in BOOLEAN

\* Types of the run's locals and of what the services hold.
TypeOK == RunTypes /\ ServiceTypes /\ CleanupTypes /\ FlagTypes

\* run_sp_neat installs its loop whatever earlier runs that raised, timed
\* out or were cleaned up halfway left behind: once a run whose requests
\* were all accepted waits for the rule, the task and the rule are its own,
\* an alarm exists and the hand-written loops are off.
CompleteRunInstalls ==
  pc = "poll" /\ accepted /\ calm =>
    task = run /\ rule[RunTenant] = run /\ alarm # 0 /\ oldLoops = {}

\* A deployment that began ends, even if the engine refuses forever to
\* delete the rule that is in the way: the lock it holds is not kept.
RunEnds == pc # "idle" ~> pc = "idle"

\* A cleanup whose requests were all accepted, and that no run overlapped,
\* leaves neither alarm nor task, whatever runs left behind (cleanup.py:97-107).
\* Of the rule this cannot be said: it belongs to another tenant.
CleanupRemoves == cpc = "done" /\ cleanAlone => alarm = 0 /\ task = 0
=============================================================================
