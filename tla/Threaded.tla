------------------------------ MODULE Threaded ------------------------------
(***************************************************************************)
(* ThreadedEvaluator (neat/threaded.py): evaluate puts the genomes in      *)
(* inqueue, worker threads put results in outqueue, and evaluate takes as  *)
(* many results as it put genomes.  The caller is Population.run, which    *)
(* evaluates one generation after the other.                               *)
(***************************************************************************)
EXTENDS Naturals, Sequences, FiniteSets

CONSTANTS
  Workers,        \* the threads
  PopSize,        \* genomes of a generation
  MaxCalls        \* BOUND: number of calls of evaluate

ASSUME ThreadedAssumption ==
  /\ Workers # {} /\ IsFiniteSet(Workers)
  /\ {PopSize, MaxCalls} \subseteq Nat \ {0}

VARIABLES
  main,               \* where the calling thread is
  calls,              \* the calls so far, each with a generation of its own
  p,                  \* the p of evaluate
  inqueue, outqueue,
  working,
  pc, task,           \* the workers
  evaluated           \* genomes whose fitness was assigned

vars == <<main, calls, p, inqueue, outqueue, working, pc, task, evaluated>>

-----------------------------------------------------------------------------
Population(g) == {g} \X (1 .. PopSize)
Genomes == (1 .. MaxCalls) \X (1 .. PopSize)
NoTask  == <<0, 0>>
Ended   == {"unborn", "ended", "dead"}

Init ==
  /\ main = "idle" /\ calls = 0 /\ p = 0
  /\ inqueue = <<>> /\ outqueue = <<>> /\ working = FALSE
  /\ pc = [w \in Workers |-> "unborn"] /\ task = [w \in Workers |-> NoTask]
  /\ evaluated = {}

-----------------------------------------------------------------------------
(* The calling thread. *)

\* evaluate, which calls start unless the threads are working.
Evaluate ==
  /\ main = "idle" /\ calls < MaxCalls
  /\ main' = "put" /\ calls' = calls + 1 /\ p' = 0
  /\ working' = TRUE
  /\ pc' = IF working THEN pc ELSE [w \in Workers |-> "check"]
  /\ UNCHANGED <<inqueue, outqueue, task, evaluated>>

Put ==
  /\ main = "put"
  /\ p' = p + 1 /\ inqueue' = Append(inqueue, <<calls, p'>>)
  /\ main' = IF p' = PopSize THEN "collect" ELSE "put"
  /\ UNCHANGED <<calls, outqueue, working, pc, task, evaluated>>

\* The get on outqueue has no timeout.
Collect ==
  /\ main = "collect" /\ p > 0 /\ outqueue # <<>>
  /\ p' = p - 1 /\ outqueue' = Tail(outqueue)
  /\ evaluated' = evaluated \cup {Head(outqueue)}
  /\ UNCHANGED <<main, calls, inqueue, working, pc, task>>

\* Mutant: "while p >= 0" waits for a result too many.
ReturnOneLate ==
  /\ main = "collect" /\ p = 0 /\ outqueue # <<>>
  /\ outqueue' = Tail(outqueue) /\ main' = "idle"
  /\ UNCHANGED <<calls, p, inqueue, working, pc, task, evaluated>>

Return ==
  /\ main = "collect" /\ p = 0 /\ main' = "idle"
  /\ UNCHANGED <<calls, p, inqueue, outqueue, working, pc, task, evaluated>>

\* Mutant: stop forgets the flag.
StopUnseen ==
  /\ main = "idle" /\ working /\ main' = "join" /\ UNCHANGED working
  /\ UNCHANGED <<calls, p, inqueue, outqueue, pc, task, evaluated>>

\* stop, up to the joins.
Stop ==
  /\ main = "idle" /\ working
  /\ working' = FALSE /\ main' = "join"
  /\ UNCHANGED <<calls, p, inqueue, outqueue, pc, task, evaluated>>

Joined ==
  /\ main = "join" /\ \A w \in Workers : pc[w] \in Ended
  /\ main' = "idle"
  /\ UNCHANGED <<calls, p, inqueue, outqueue, working, pc, task, evaluated>>

-----------------------------------------------------------------------------
(* _worker *)

Goes(w, from, to) == pc[w] = from /\ pc' = [pc EXCEPT ![w] = to]
Local == UNCHANGED <<main, calls, p, working, evaluated>>

Check(w) ==
  /\ Goes(w, "check", IF working THEN "get" ELSE "ended")
  /\ Local /\ UNCHANGED <<inqueue, outqueue, task>>

\* Mutant: the task stays in the queue while it is evaluated.
Peek(w) ==
  /\ inqueue # <<>> /\ Goes(w, "get", "eval")
  /\ task' = [task EXCEPT ![w] = Head(inqueue)] /\ UNCHANGED inqueue
  /\ Local /\ UNCHANGED outqueue

Get(w) ==
  /\ inqueue # <<>> /\ Goes(w, "get", "eval")
  /\ task' = [task EXCEPT ![w] = Head(inqueue)] /\ inqueue' = Tail(inqueue)
  /\ Local /\ UNCHANGED outqueue

\* queue.Empty after the timeout.
Empty(w) ==
  /\ inqueue = <<>> /\ Goes(w, "get", "check")
  /\ Local /\ UNCHANGED <<inqueue, outqueue, task>>

Deliver(w) ==
  /\ Goes(w, "eval", "check")
  /\ outqueue' = Append(outqueue, task[w]) /\ task' = [task EXCEPT ![w] = NoTask]
  /\ Local /\ UNCHANGED inqueue

\* eval_function raises: the thread ends, and with it the task.
Dies(w) ==
  /\ Goes(w, "eval", "dead")
  /\ task' = [task EXCEPT ![w] = NoTask]
  /\ Local /\ UNCHANGED <<inqueue, outqueue>>

WorkerStep(w) == Check(w) \/ Get(w) \/ Empty(w) \/ Deliver(w) \/ Dies(w)

\* No thread needs to do anything more.
Idle == main = "idle" /\ calls = MaxCalls /\ ~working /\ UNCHANGED vars

Next ==
  \/ Evaluate \/ Put \/ Collect \/ Return \/ Stop \/ Joined \/ Idle
  \/ \E w \in Workers : WorkerStep(w)

Spec == Init /\ [][Next]_vars

\* Threads are scheduled and eval_function returns or raises.  The caller
\* need not call evaluate or stop.
Fairness ==
  /\ WF_vars(Put) /\ WF_vars(Collect) /\ WF_vars(Return) /\ WF_vars(Joined)
  /\ \A w \in Workers : WF_vars(WorkerStep(w))

FairSpec == Spec /\ Fairness

-----------------------------------------------------------------------------
Busy == main \in {"put", "collect"}

Promise ==
  INSTANCE GenomeEvaluation WITH
    busy <- Busy, asked <- IF calls = 0 THEN {} ELSE Population(calls)

\* The evaluator does what Population.run expects of a fitness function,
\* for every interleaving of the workers.
ImplementsPromise == Promise!Spec

\* evaluate, which waits without a timeout, waits in vain only for the
\* result of a worker that died.
EvaluateEnds == Busy ~> ~Busy \/ \E w \in Workers : pc[w] = "dead"

\* stop joins all threads.
StopEnds == main = "join" ~> main = "idle"

\* Between calls no task is queued, under evaluation or unclaimed: what a
\* worker finishes late cannot be taken for a result of a later call.
NothingLeftOver ==
  ~Busy => inqueue = <<>> /\ outqueue = <<>> /\ \A w \in Workers : task[w] = NoTask
=============================================================================
