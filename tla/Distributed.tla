---------------------------- MODULE Distributed ----------------------------
(***************************************************************************)
(* DistributedEvaluator (neat/distributed.py): the primary starts a        *)
(* manager process that holds two queues and the state of the secondaries, *)
(* puts chunks of genomes and collects as many results as it put chunks;   *)
(* secondaries connect to the manager, evaluate chunks and look at the     *)
(* state every fifth cycle.                                                *)
(***************************************************************************)
EXTENDS Integers, Sequences, FiniteSets, Functions

CONSTANTS
  Secondaries,
  PopSize, secondary_chunksize,
  Reconnect,      \* the argument of start in the secondaries
  MaxCalls,       \* BOUND: calls of evaluate
  MaxStarts,      \* BOUND: starts of the primary
  MayFail         \* can a call of a secondary fail while the manager runs?

ASSUME DistributedAssumption ==
  /\ Secondaries # {} /\ IsFiniteSet(Secondaries)
  /\ {PopSize, secondary_chunksize, MaxCalls, MaxStarts} \subseteq Nat \ {0}
  /\ {Reconnect, MayFail} \subseteq BOOLEAN

VARIABLES
  primary,                       \* where the primary is
  starts, calls,
  up, secondary_state,           \* the manager
  inqueue, outqueue,
  sent, tresults,                \* of evaluate
  evaluated,
  pc, i, linked, tasks           \* the secondaries

managed == <<up, secondary_state>>
primaryVars == <<primary, starts, calls, sent, tresults, evaluated>>
secondaryVars == <<pc, i, linked, tasks>>
vars == <<primaryVars, managed, inqueue, outqueue, secondaryVars>>

-----------------------------------------------------------------------------
Population(g) == {g} \X (1 .. PopSize)
Genomes == (1 .. MaxCalls) \X (1 .. PopSize)

n_tasks == (PopSize + secondary_chunksize - 1) \div secondary_chunksize

\* The c-th chunk of a population.
chunked(g, c) == {x \in Population(g) : (x[2] - 1) \div secondary_chunksize = c - 1}

Init ==
  /\ primary = "off" /\ starts = 0 /\ calls = 0
  /\ up = FALSE /\ secondary_state = "running"
  /\ inqueue = <<>> /\ outqueue = <<>>
  /\ sent = 0 /\ tresults = <<>> /\ evaluated = {}
  /\ pc = [s \in Secondaries |-> "unborn"] /\ i = [s \in Secondaries |-> 0]
  /\ linked = [s \in Secondaries |-> FALSE] /\ tasks = [s \in Secondaries |-> {}]

-----------------------------------------------------------------------------
(* The primary. *)

\* Each manager process has queues of its own.
Start ==
  /\ primary = "off" /\ starts < MaxStarts
  /\ primary' = "idle" /\ starts' = starts + 1
  /\ up' = TRUE /\ secondary_state' = "running" /\ inqueue' = <<>> /\ outqueue' = <<>>
  /\ UNCHANGED <<calls, sent, tresults, evaluated, secondaryVars>>

Evaluate ==
  /\ primary = "idle" /\ calls < MaxCalls
  /\ primary' = "put" /\ calls' = calls + 1 /\ sent' = 0 /\ tresults' = <<>>
  /\ UNCHANGED <<starts, evaluated, managed, inqueue, outqueue, secondaryVars>>

Put ==
  /\ primary = "put"
  /\ sent' = sent + 1 /\ inqueue' = Append(inqueue, chunked(calls, sent'))
  /\ primary' = IF sent' = n_tasks THEN "collect" ELSE "put"
  /\ UNCHANGED <<starts, calls, tresults, evaluated, managed, outqueue, secondaryVars>>

\* A get that finds nothing in its 0.2 s is tried again.
Collect ==
  /\ primary = "collect" /\ Len(tresults) < n_tasks /\ outqueue # <<>>
  /\ tresults' = Append(tresults, Head(outqueue)) /\ outqueue' = Tail(outqueue)
  /\ UNCHANGED <<primary, starts, calls, sent, evaluated, managed, inqueue, secondaryVars>>

Returns(count) ==
  /\ primary = "collect" /\ Len(tresults) = count
  /\ primary' = "idle" /\ evaluated' = evaluated \cup UNION Range(tresults)
  /\ UNCHANGED <<starts, calls, sent, tresults, managed, inqueue, outqueue, secondaryVars>>

\* Mutants: one result too few, one too many.
AssignEarly == Returns(n_tasks - 1)
AssignLate  == Returns(n_tasks + 1)

Assign == Returns(n_tasks)

Stop(force_secondary_shutdown) ==
  /\ primary = "idle" /\ primary' = "stopping"
  /\ secondary_state' = IF force_secondary_shutdown THEN "forced_shutdown" ELSE "shutdown"
  /\ UNCHANGED <<starts, calls, sent, tresults, evaluated, up, inqueue, outqueue, secondaryVars>>

\* The rest of stop, after its wait: the connections break.
Shutdown ==
  /\ primary = "stopping" /\ primary' = "off"
  /\ up' = FALSE /\ linked' = [s \in Secondaries |-> FALSE]
  /\ UNCHANGED <<starts, calls, sent, tresults, evaluated, secondary_state, inqueue, outqueue, pc, i, tasks>>

-----------------------------------------------------------------------------
(* A secondary.  The calls on the queues use its connection, reading the   *)
(* state opens a new one.                                                  *)

Goes(s, from, to) == pc[s] = from /\ pc' = [pc EXCEPT ![s] = to]

\* The break of the inner loop.
Left == IF Reconnect THEN "reset" ELSE "exited"

\* start; _start_secondary raises without a manager.
Begin(s) ==
  /\ Goes(s, "unborn", IF up THEN "reset" ELSE "raised")
  /\ UNCHANGED <<primaryVars, managed, inqueue, outqueue, i, linked, tasks>>

\* _reset_em; where it fails the outer loop tries it again.
Reset(s) ==
  /\ up /\ Goes(s, "reset", "loop")
  /\ linked' = [linked EXCEPT ![s] = TRUE] /\ i' = [i EXCEPT ![s] = 0]
  /\ UNCHANGED <<primaryVars, managed, inqueue, outqueue, tasks>>

\* The top of the inner loop.  i counts modulo 5.
Cycle(s) ==
  /\ i' = [i EXCEPT ![s] = (@ + 1) % 5]
  /\ \/ i'[s] # 0 /\ Goes(s, "loop", "get")
     \/ /\ i'[s] = 0 /\ up
        /\ Goes(s, "loop", CASE secondary_state = "running"  -> "get"
                             [] secondary_state = "shutdown" -> Left
                             [] OTHER                        -> "exited")
     \/ i'[s] = 0 /\ (~up \/ MayFail) /\ Goes(s, "loop", IF Reconnect THEN "reset" ELSE "raised")
  /\ UNCHANGED <<primaryVars, managed, inqueue, outqueue, linked, tasks>>

Get(s) ==
  /\ linked[s] /\ inqueue # <<>> /\ Goes(s, "get", "eval")
  /\ tasks' = [tasks EXCEPT ![s] = Head(inqueue)] /\ inqueue' = Tail(inqueue)
  /\ UNCHANGED <<primaryVars, managed, outqueue, i, linked>>

Empty(s) ==
  /\ linked[s] /\ inqueue = <<>> /\ Goes(s, "get", "loop")
  /\ UNCHANGED <<primaryVars, managed, inqueue, outqueue, i, linked, tasks>>

\* Mutant: the inner loop goes on.
GetFailsUnseen(s) ==
  /\ ~linked[s] /\ Goes(s, "get", "loop")
  /\ UNCHANGED <<primaryVars, managed, inqueue, outqueue, i, linked, tasks>>

\* Where a call goes that fails although the connection stands: it breaks
\* now, or the error of the manager is one to go on after, or an unknown one.
AfterFailure == {Left, "loop", "raised"}

\* The connection is lost, or the call fails, with or without the chunk.
GetFails(s) ==
  /\ \/ ~linked[s] /\ Goes(s, "get", Left) /\ UNCHANGED inqueue
     \/ /\ MayFail /\ linked[s]
        /\ \E to \in AfterFailure : Goes(s, "get", to)
        /\ UNCHANGED inqueue \/ (inqueue # <<>> /\ inqueue' = Tail(inqueue))
  /\ UNCHANGED <<primaryVars, managed, outqueue, i, linked, tasks>>

Deliver(s) ==
  /\ linked[s] /\ Goes(s, "eval", "loop")
  /\ outqueue' = Append(outqueue, tasks[s]) /\ tasks' = [tasks EXCEPT ![s] = {}]
  /\ UNCHANGED <<primaryVars, managed, inqueue, i, linked>>

\* The result is lost, or arrives although the call failed.
DeliverFails(s) ==
  /\ \/ ~linked[s] /\ Goes(s, "eval", Left) /\ UNCHANGED outqueue
     \/ /\ MayFail /\ linked[s]
        /\ \E to \in AfterFailure : Goes(s, "eval", to)
        /\ outqueue' \in {outqueue, Append(outqueue, tasks[s])}
  /\ tasks' = [tasks EXCEPT ![s] = {}]
  /\ UNCHANGED <<primaryVars, managed, inqueue, i, linked>>

\* eval_function raises, or its worker does not answer within worker_timeout.
EvalRaises(s) ==
  /\ MayFail /\ Goes(s, "eval", "raised")
  /\ tasks' = [tasks EXCEPT ![s] = {}]
  /\ UNCHANGED <<primaryVars, managed, inqueue, outqueue, i, linked>>

SecondaryStep(s) ==
  Reset(s) \/ Cycle(s) \/ Get(s) \/ Empty(s) \/ GetFails(s) \/ Deliver(s) \/ DeliverFails(s) \/ EvalRaises(s)

PrimaryStep == Put \/ Collect \/ Assign \/ Shutdown

Next ==
  \/ Start \/ Evaluate \/ PrimaryStep
  \/ \E force \in BOOLEAN : Stop(force)
  \/ \E s \in Secondaries : Begin(s) \/ SecondaryStep(s)

Spec == Init /\ [][Next]_vars

\* Processes are scheduled, eval_function ends, and a connection that breaks
\* again and again lets a get through at last.  Nobody must start a
\* secondary, call evaluate or stop.
Fairness ==
  WF_vars(PrimaryStep) /\ \A s \in Secondaries : WF_vars(SecondaryStep(s)) /\ SF_vars(Get(s))

FairSpec == Spec /\ Fairness

-----------------------------------------------------------------------------
Looping(s) == pc[s] \in {"loop", "get", "eval"}
HasEnded(s) == pc[s] \in {"exited", "raised"}
Busy == primary \in {"put", "collect"}

Promise ==
  INSTANCE GenomeEvaluation WITH
    busy <- Busy, asked <- IF calls = 0 THEN {} ELSE Population(calls)

\* evaluate does what Population.run expects of a fitness function, whatever
\* fails: it returns only with a fitness for every genome of the call, and
\* assigns none to another one.
ImplementsPromise == Promise!Spec

\* A chunk of the call that nobody has any more.
ChunkLost ==
  \E c \in 1 .. sent :
    /\ chunked(calls, c) \notin Range(inqueue) \cup Range(outqueue) \cup Range(tresults)
    /\ \A s \in Secondaries : tasks[s] # chunked(calls, c)

AtWork == {s \in Secondaries : pc[s] = "reset" \/ Looping(s)}

\* With one secondary at work every call of evaluate ends, unless a failure
\* lost a chunk, which is never sent again, or an unknown error ended the
\* last secondary.
EvaluateReturns ==
  AtWork # {} /\ Busy ~> ~Busy \/ ChunkLost \/ AtWork = {}

\* A secondary notices that its connection is gone, also when the primary
\* has started another manager in the meantime.
NoticesLoss == \A s \in Secondaries : Looping(s) /\ ~linked[s] ~> ~Looping(s)

\* "shutdown the secondary nodes even if they are started with
\* 'reconnect=True'" (distributed.py:434-435).
ForcedShutdownEnds ==
  \A s \in Secondaries :
    pc[s] # "unborn" /\ secondary_state = "forced_shutdown" ~> HasEnded(s) \/ secondary_state = "running"
=============================================================================
