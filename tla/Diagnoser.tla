----------------------------- MODULE Diagnoser -----------------------------
(***************************************************************************)
(* The main loop of the diagnoser (diagnoser/diagnoser.py, start) and the  *)
(* two kinds of thread it spawns: the NEAT run of the self-protection loop *)
(* (diagnoser/neattools.py, run_sp_neat) and the data monitor of the       *)
(* self-healing loop (sh_data_monitor, a closure inside start).  The       *)
(* threads share one interface_lock, which is held around every call to an *)
(* external interface except the Model DB.                                 *)
(*                                                                         *)
(* A thread is named by the number of the report that started it, so that  *)
(* its arguments can be compared with the reports received so far.         *)
(***************************************************************************)
EXTENDS Naturals, FiniteSets

CONSTANTS
  CCs,              \* addresses of command-and-control servers
  Zombies,          \* addresses of botnet members
  Services,         \* service identifiers carried by QoS alarms
  None,             \* Python's None
  Messages,         \* the reports that may arrive, a subset of Report
  MaxReports,       \* BOUND: number of reports received
  MaxZombieIps,     \* sp.max_zombie_ips
  OverrideCC,       \* sp.c_and_c_ip, None when unset
  OverrideZombies,  \* sp.zombie_ips, None when unset
  HasTimeWindow,    \* is sp.time_window set?
  MaxIterations,    \* max_iterations of the monitor (10 in the code)
  MaxPolls          \* polls for the deactivation of the rule (16 in the code)

Report == [snort : BOOLEAN, cc : CCs \cup {None}, src : SUBSET Zombies,
           stamped : BOOLEAN, qos : BOOLEAN, service : Services \cup {None}]

ASSUME DiagnoserAssumption ==
  /\ None \notin CCs /\ None \notin Services
  /\ Messages \subseteq Report
  /\ MaxReports \in Nat /\ MaxZombieIps \in Nat
  /\ OverrideCC \in CCs \cup {None}
  /\ OverrideZombies \in (SUBSET Zombies) \cup {None}
  /\ HasTimeWindow \in BOOLEAN
  /\ MaxIterations \in Nat \ {0} /\ MaxPolls \in Nat \ {0}

VARIABLES
  main,         \* where the loop body is
  received,     \* c, the number of reports received
  log,          \* the reports received; log[received] is the loop's data
  c_and_c_ip, zombie_ips, neat_thread, profiling_thread,
  service_id,   \* local of start, assigned for a QoS alarm only
  holder,       \* the thread that holds interface_lock
  runPc, runArgs, polls,            \* the NEAT runs
  monPc, monArgs, monIter,          \* the data monitors
  triggers      \* the requests that reached SH_LOOP_II

labels   == <<c_and_c_ip, zombie_ips>>
runVars  == <<runPc, runArgs, polls>>
monVars  == <<monPc, monArgs, monIter, triggers>>
mainVars == <<main, received, log, labels, neat_thread, profiling_thread, service_id>>
vars     == <<mainVars, holder, runVars, monVars>>

-----------------------------------------------------------------------------
Ids == 1 .. MaxReports

RunEnded == {"finished", "timedout", "failed"}
RunHolds == {"fetching", "deploying", "polling"}
RunStates == {"unborn", "begin", "fetch", "evolve", "translate", "stuck", "deploy"}
               \cup RunHolds \cup RunEnded
MonEnded == {"done", "gaveup", "failed"}
MonHolds == {"loading", "versioning", "triggering"}
MonStates == {"unborn", "load", "version", "evaluate", "trigger"} \cup MonHolds \cup MonEnded

RunArgs == [cc : CCs \cup {None}, zombies : SUBSET Zombies, stamp : 0 .. MaxReports]
MonArgs == [service : Services \cup {None}, stamp : 0 .. MaxReports]
Trigger == [alarm : Ids, iteration : 0 .. MaxIterations, service : Services \cup {None},
            stamp : 0 .. MaxReports]

Free    == <<"free", 0>>
Neat(r) == <<"neat", r>>
Sh(m)   == <<"sh", m>>

Blank == [snort |-> FALSE, cc |-> None, src |-> {}, stamped |-> FALSE,
          qos |-> FALSE, service |-> None]

Init ==
  /\ main = "receive" /\ received = 0 /\ log = [k \in Ids |-> Blank]
  /\ c_and_c_ip = None /\ zombie_ips = {}
  /\ neat_thread = 0 /\ profiling_thread = 0 /\ service_id = None
  /\ holder = Free
  /\ runPc = [r \in Ids |-> "unborn"] /\ polls = [r \in Ids |-> 0]
  /\ runArgs = [r \in Ids |-> [cc |-> None, zombies |-> {}, stamp |-> 0]]
  /\ monPc = [m \in Ids |-> "unborn"] /\ monIter = [m \in Ids |-> 0]
  /\ monArgs = [m \in Ids |-> [service |-> None, stamp |-> 0]]
  /\ triggers = {}

-----------------------------------------------------------------------------
(* The loop body. *)

\* The next element yielded by wrap_kafka_consumer.
Receive ==
  /\ main = "receive" /\ received < MaxReports
  /\ \E m \in Messages : log' = [log EXCEPT ![received + 1] = m]
  /\ received' = received + 1
  /\ main' = "snort"
  /\ UNCHANGED <<labels, neat_thread, profiling_thread, service_id, holder, runVars, monVars>>

Data == log[received]

\* The report's timestamp, 0 when the report has none.
Timestamp == IF Data.stamped THEN received ELSE 0

\* Mutant: a run counts as alive only while it holds the lock.
NeatAliveInLock == neat_thread # 0 /\ runPc[neat_thread] \in RunHolds

\* neat_thread.is_alive() and profiling_thread.is_alive(); 0 is the
\* Thread() object made before the loop, which is never started.
NeatAlive == neat_thread # 0 /\ runPc[neat_thread] \notin RunEnded
ProfilingAlive == profiling_thread # 0 /\ monPc[profiling_thread] \notin MonEnded

\* Mutant: the addresses of the last report replace the collected ones.
LastZombiesOnly == Data.src

\* The labels once the report at hand is merged: the first C&C address is
\* kept until a run takes it, the source addresses accumulate.
MergedCC == IF c_and_c_ip = None THEN Data.cc ELSE c_and_c_ip
MergedZombies == zombie_ips \cup Data.src

\* The throttle on last_neat_run is not a conjunct: the code never assigns
\* last_neat_run after its initial year 1, so the comparison always holds.
ReadyToRun == MergedCC # None /\ Cardinality(MergedZombies) >= MaxZombieIps /\ ~NeatAlive

SkipLabels ==
  /\ main = "snort" /\ ~Data.snort
  /\ main' = "qos"
  /\ UNCHANGED <<received, log, labels, neat_thread, profiling_thread, service_id, holder, runVars, monVars>>

CollectLabels ==
  /\ main = "snort" /\ Data.snort /\ ~ReadyToRun
  /\ c_and_c_ip' = MergedCC /\ zombie_ips' = MergedZombies
  /\ main' = "qos"
  /\ UNCHANGED <<received, log, neat_thread, profiling_thread, service_id, holder, runVars, monVars>>

\* What the lambda's default arguments capture.
CapturedRunArgs ==
  [cc      |-> IF OverrideCC # None THEN OverrideCC ELSE MergedCC,
   zombies |-> IF OverrideZombies # None THEN OverrideZombies ELSE MergedZombies,
   stamp   |-> Timestamp]

StartNeat ==
  /\ main = "snort" /\ Data.snort /\ ReadyToRun
  /\ runPc' = [runPc EXCEPT ![received] = "begin"]
  /\ runArgs' = [runArgs EXCEPT ![received] = CapturedRunArgs]
  /\ neat_thread' = received
  /\ c_and_c_ip' = None /\ zombie_ips' = {}
  /\ main' = "qos"
  /\ UNCHANGED <<received, log, profiling_thread, service_id, holder, polls, monVars>>

IgnoreQos ==
  /\ main = "qos" /\ (~Data.qos \/ ProfilingAlive)
  /\ main' = "receive"
  /\ UNCHANGED <<received, log, labels, neat_thread, profiling_thread, service_id, holder, runVars, monVars>>

StartMonitor ==
  /\ main = "qos" /\ Data.qos /\ ~ProfilingAlive
  /\ service_id' = Data.service
  /\ monArgs' = [monArgs EXCEPT ![received] = [service |-> service_id', stamp |-> Timestamp]]
  /\ monPc' = [monPc EXCEPT ![received] = "load"]
  /\ profiling_thread' = received
  /\ main' = "receive"
  /\ UNCHANGED <<received, log, labels, neat_thread, holder, runVars, monIter, triggers>>

-----------------------------------------------------------------------------
(* interface_lock: `with lock' acquires it and releases it on every exit,  *)
(* exceptions included.                                                    *)

Acquire(t) == holder = Free /\ holder' = t
Release    == holder' = Free

(* The NEAT run. *)

RunGoes(r, from, to) == runPc[r] = from /\ runPc' = [runPc EXCEPT ![r] = to]

\* The query window: sp.time_window, or the ten minutes before the
\* timestamp.  With neither the run raises, and so does a value pandas
\* makes no time of.
RunBegin(r) ==
  /\ \/ RunGoes(r, "begin", "fetch") /\ (HasTimeWindow \/ runArgs[r].stamp # 0)
     \/ RunGoes(r, "begin", "failed")
  /\ UNCHANGED <<mainVars, holder, runArgs, polls, monVars>>

RunLockFetch(r) ==
  /\ RunGoes(r, "fetch", "fetching") /\ Acquire(Neat(r))
  /\ UNCHANGED <<mainVars, runArgs, polls, monVars>>

\* Mutant: the lock is released by hand, and not when load_data raises.
RunFetchKeepsLock(r) ==
  /\ \/ RunGoes(r, "fetching", "evolve") /\ Release
     \/ RunGoes(r, "fetching", "failed") /\ UNCHANGED holder
  /\ UNCHANGED <<mainVars, runArgs, polls, monVars>>

RunFetch(r) ==
  /\ \E to \in {"evolve", "failed"} : RunGoes(r, "fetching", to)
  /\ Release
  /\ UNCHANGED <<mainVars, runArgs, polls, monVars>>

\* Aggregation, evolution and the Model DB (outside the lock).  Any of them
\* but the Model DB may raise.
RunEvolve(r) ==
  /\ \E to \in {"translate", "failed"} : RunGoes(r, "evolve", to)
  /\ UNCHANGED <<mainVars, holder, runArgs, polls, monVars>>

\* translate_model and the task file.  The translation of some winners does
\* not end (module ModelTranslation): the run is stuck in it.
RunTranslate(r) ==
  /\ \E to \in {"deploy", "failed", "stuck"} : RunGoes(r, "translate", to)
  /\ UNCHANGED <<mainVars, holder, runArgs, polls, monVars>>

RunLockDeploy(r) ==
  /\ RunGoes(r, "deploy", "deploying") /\ Acquire(Neat(r))
  /\ UNCHANGED <<mainVars, runArgs, polls, monVars>>

\* The calls that install task, alarm and rule (module Deployment).
RunDeploy(r) ==
  /\ \/ RunGoes(r, "deploying", "polling") /\ UNCHANGED holder
     \/ RunGoes(r, "deploying", "failed") /\ Release
  /\ UNCHANGED <<mainVars, runArgs, polls, monVars>>

\* One turn of the loop around check_script.  The lock is held throughout.
RunPoll(r) ==
  /\ \/ /\ RunGoes(r, "polling", "polling") /\ polls[r] + 1 < MaxPolls
        /\ polls' = [polls EXCEPT ![r] = @ + 1] /\ UNCHANGED holder
     \/ /\ RunGoes(r, "polling", "timedout") /\ polls[r] + 1 = MaxPolls
        /\ polls' = [polls EXCEPT ![r] = @ + 1] /\ Release
     \/ /\ \E to \in {"finished", "failed"} : RunGoes(r, "polling", to)
        /\ Release /\ UNCHANGED polls
  /\ UNCHANGED <<mainVars, runArgs, monVars>>

RunStep(r) ==
  \/ RunBegin(r) \/ RunLockFetch(r) \/ RunFetch(r) \/ RunEvolve(r) \/ RunTranslate(r)
  \/ RunLockDeploy(r) \/ RunDeploy(r) \/ RunPoll(r)

-----------------------------------------------------------------------------
(* The data monitor. *)

MonGoes(m, from, to) == monPc[m] = from /\ monPc' = [monPc EXCEPT ![m] = to]

\* Mutants: one iteration too many, and iterations that are not counted.
MonRetryOnceMore(m, from) ==
  /\ \/ MonGoes(m, from, "load") /\ monIter[m] < MaxIterations
     \/ MonGoes(m, from, "gaveup") /\ monIter[m] = MaxIterations
  /\ monIter' = [monIter EXCEPT ![m] = @ + 1]
MonRetryForever(m, from) == MonGoes(m, from, "load") /\ UNCHANGED monIter

\* `continue', or the end of the loop after the last iteration.
MonRetry(m, from) ==
  /\ \/ MonGoes(m, from, "load") /\ monIter[m] + 1 < MaxIterations
     \/ MonGoes(m, from, "gaveup") /\ monIter[m] + 1 = MaxIterations
  /\ monIter' = [monIter EXCEPT ![m] = @ + 1]

MonLockLoad(m) ==
  /\ MonGoes(m, "load", "loading") /\ Acquire(Sh(m))
  /\ UNCHANGED <<mainVars, runVars, monArgs, monIter, triggers>>

\* load_data, then the number of application ids decides.
MonLoad(m) ==
  /\ \/ MonRetry(m, "loading")
     \/ (\E to \in {"version", "failed"} : MonGoes(m, "loading", to)) /\ UNCHANGED monIter
  /\ Release
  /\ UNCHANGED <<mainVars, runVars, monArgs, triggers>>

MonLockVersion(m) ==
  /\ MonGoes(m, "version", "versioning") /\ Acquire(Sh(m))
  /\ UNCHANGED <<mainVars, runVars, monArgs, monIter, triggers>>

\* getHigherVersionID
MonVersion(m) ==
  /\ \E to \in {"evaluate", "failed"} : MonGoes(m, "versioning", to)
  /\ Release
  /\ UNCHANGED <<mainVars, runVars, monArgs, monIter, triggers>>

\* Too little data: another iteration.  Otherwise the anomaly rating
\* decides whether the script is triggered.
MonEvaluate(m) ==
  /\ \/ MonRetry(m, "evaluate")
     \/ (\E to \in {"trigger", "done", "failed"} : MonGoes(m, "evaluate", to)) /\ UNCHANGED monIter
  /\ UNCHANGED <<mainVars, holder, runVars, monArgs, triggers>>

MonLockTrigger(m) ==
  /\ MonGoes(m, "trigger", "triggering") /\ Acquire(Sh(m))
  /\ UNCHANGED <<mainVars, runVars, monArgs, monIter, triggers>>

\* The request for the service of the alarm, decided on the window before
\* its time.
TriggerOf(m) ==
  [alarm |-> m, iteration |-> monIter[m], service |-> monArgs[m].service, stamp |-> monArgs[m].stamp]

\* Mutant: the loop goes on after the script was triggered.
MonTriggerAgain(m) ==
  /\ MonRetry(m, "triggering")
  /\ triggers' = triggers \cup {TriggerOf(m)}
  /\ Release
  /\ UNCHANGED <<mainVars, runVars, monArgs>>

\* trigger_script; a request that raises may still have been delivered.
MonTrigger(m) ==
  /\ \/ MonGoes(m, "triggering", "failed") /\ UNCHANGED triggers
     \/ /\ \E to \in {"done", "failed"} : MonGoes(m, "triggering", to)
        /\ triggers' = triggers \cup {TriggerOf(m)}
  /\ Release
  /\ UNCHANGED <<mainVars, runVars, monArgs, monIter>>

MonStep(m) ==
  \/ MonLockLoad(m) \/ MonLoad(m) \/ MonLockVersion(m) \/ MonVersion(m)
  \/ MonEvaluate(m) \/ MonLockTrigger(m) \/ MonTrigger(m)

-----------------------------------------------------------------------------
LoopStep == SkipLabels \/ CollectLabels \/ StartNeat \/ IgnoreQos \/ StartMonitor

\* All reports of the bound are handled and every thread has ended or is
\* stuck: the consumer blocks in Kafka.
Idle ==
  /\ main = "receive" /\ received = MaxReports
  /\ \A k \in Ids : /\ runPc[k] \in RunEnded \cup {"unborn", "stuck"}
                   /\ monPc[k] \in MonEnded \cup {"unborn"}
  /\ UNCHANGED vars

Next == Receive \/ LoopStep \/ (\E k \in Ids : RunStep(k) \/ MonStep(k)) \/ Idle

Spec == Init /\ [][Next]_vars

\* The operating system schedules every runnable thread, and every external
\* call returns or raises.
Fairness == WF_vars(LoopStep) /\ \A k \in Ids : WF_vars(RunStep(k)) /\ WF_vars(MonStep(k))

FairSpec == Spec /\ Fairness

-----------------------------------------------------------------------------
\* Types of the variables of start and of the two closures.
TypeOK ==
  /\ main \in {"receive", "snort", "qos"}
  /\ received \in 0 .. MaxReports /\ log \in [Ids -> Report]
  /\ c_and_c_ip \in CCs \cup {None} /\ zombie_ips \in SUBSET Zombies
  /\ neat_thread \in 0 .. received /\ profiling_thread \in 0 .. received
  /\ service_id \in Services \cup {None}
  /\ holder \in {Free} \cup {Neat(r) : r \in Ids} \cup {Sh(m) : m \in Ids}
  /\ runPc \in [Ids -> RunStates] /\ runArgs \in [Ids -> RunArgs]
  /\ polls \in [Ids -> 0 .. MaxPolls]
  /\ monPc \in [Ids -> MonStates] /\ monArgs \in [Ids -> MonArgs]
  /\ monIter \in [Ids -> 0 .. MaxIterations]
  /\ triggers \in SUBSET Trigger

\* interface_lock: exactly the thread inside a `with lock' block holds it,
\* so at most one thread talks to the external interfaces, and a thread
\* that ended, normally or by an exception, left it free.
LockDiscipline ==
  \A k \in Ids : /\ runPc[k] \in RunHolds <=> holder = Neat(k)
                 /\ monPc[k] \in MonHolds <=> holder = Sh(k)

\* The is_alive() guards of start: at any time at most one NEAT run and at
\* most one data monitor are alive, and they are the ones the loop watches.
OneThreadOfEachKind ==
  \A k \in Ids : /\ runPc[k] \notin RunEnded \cup {"unborn"} => k = neat_thread
                 /\ monPc[k] \notin MonEnded \cup {"unborn"} => k = profiling_thread

\* The reports of run r's batch: those after the start of the run before it.
Batch(r) == {k \in 1 .. r : log[k].snort /\ \A s \in 1 .. (r - 1) : runPc[s] # "unborn" => s < k}

\* A run works on exactly the zombies reported since the run before it was
\* started, and on the first C&C address reported since then, however many
\* reports arrived, and whatever the loop collected after the start; the
\* configuration overrides either.
RunLabels ==
  \A r \in Ids : runPc[r] # "unborn" =>
    /\ OverrideZombies = None => runArgs[r].zombies = UNION {log[k].src : k \in Batch(r)}
    /\ OverrideCC = None =>
         \E k \in Batch(r) : /\ log[k].cc = runArgs[r].cc /\ log[k].cc # None
                             /\ \A j \in Batch(r) : j < k => log[j].cc = None

\* The self-healing script is triggered at most once per alarm, with the
\* service and for the time of the alarm that started the monitor, not of a
\* later one that the loop has taken meanwhile.
TriggersMatchAlarms ==
  \A t \in triggers :
    /\ log[t.alarm].qos /\ t.service = log[t.alarm].service
    /\ t.stamp = IF log[t.alarm].stamped THEN t.alarm ELSE 0
    /\ \A u \in triggers : u.alarm = t.alarm => u = t

\* Every thread the loop starts comes to an end, whichever calls fail, but
\* for a run whose translation does not; and a monitor ends beside that one.
ThreadsEnd ==
  \A k \in Ids : /\ runPc[k] # "unborn" ~> runPc[k] \in RunEnded \cup {"stuck"}
                 /\ monPc[k] # "unborn" ~> monPc[k] \in MonEnded
=============================================================================
