--------------------------- MODULE ThreadedProofs ---------------------------
(***************************************************************************)
(* The threaded evaluator does what Population.run expects of a fitness    *)
(* function, for any number of workers, genomes and calls.                 *)
(***************************************************************************)
EXTENDS Threaded, FiniteSetTheorems, TLAPS

USE DEF Ended, NoTask, Population

\* The queues hold genomes, a worker has a task exactly while it evaluates.
TypeOK ==
  /\ main \in {"idle", "put", "collect", "join"}
  /\ calls \in 0 .. MaxCalls /\ p \in 0 .. PopSize
  /\ inqueue \in Seq(Genomes) /\ outqueue \in Seq(Genomes) /\ working \in BOOLEAN
  /\ pc \in [Workers -> Ended \cup {"check", "get", "eval"}]
  /\ task \in [Workers -> Genomes \cup {NoTask}]
  /\ \A w \in Workers : pc[w] # "eval" => task[w] = NoTask
  /\ evaluated \subseteq Genomes
  /\ main = "put" => p < PopSize
  /\ Busy => calls > 0

\* Workers that hold a task, or died with one: a call in which a worker dies
\* never returns, so all of them belong to the current call.
Engaged == {w \in Workers : pc[w] \in {"eval", "dead"}}
Counted == p = Len(inqueue) + Len(outqueue) + Cardinality(Engaged) /\ (~Busy => p = 0)

Elements(s) == {s[j] : j \in 1 .. Len(s)}
Tasks       == {task[w] : w \in {v \in Workers : pc[v] = "eval"}}
Underway    == Elements(inqueue) \cup Elements(outqueue) \cup Tasks

\* The genomes of the current call that evaluate put in the queue.
Placed == IF main = "put" THEN {calls} \X (1 .. p) ELSE Population(calls)

\* None of them is lost, unless with a worker.
Located ==
  /\ Busy => Underway \subseteq Population(calls)
  /\ Busy /\ (\A w \in Workers : pc[w] # "dead") => Placed \subseteq evaluated \cup Underway

Inv == TypeOK /\ Counted /\ Located

LEMMA Constants == PopSize \in Nat \ {0} /\ MaxCalls \in Nat \ {0} /\ IsFiniteSet(Workers)
BY ThreadedAssumption

\* What Append and Tail do to the elements of a queue.
LEMMA Appended ==
  ASSUME NEW s \in Seq(Genomes), NEW g \in Genomes
  PROVE  /\ Append(s, g) \in Seq(Genomes) /\ Len(Append(s, g)) = Len(s) + 1
         /\ Elements(Append(s, g)) = Elements(s) \cup {g}
<1> DEFINE t == Append(s, g)
<1>1. t \in Seq(Genomes) /\ Len(t) = Len(s) + 1 /\ t[Len(s) + 1] = g /\ Len(s) \in Nat
  OBVIOUS
<1>2. \A j \in 1 .. Len(s) : t[j] = s[j]
  OBVIOUS
<1>3. Elements(t) = Elements(s) \cup {g}
  <2> HIDE DEF t
  <2>1. 1 .. Len(t) = (1 .. Len(s)) \cup {Len(s) + 1}
    BY <1>1
  <2> QED
    BY <1>1, <1>2, <2>1 DEF Elements
<1> QED
  BY <1>1, <1>3

LEMMA Taken ==
  ASSUME NEW s \in Seq(Genomes), s # <<>>
  PROVE  /\ Head(s) \in Genomes /\ Tail(s) \in Seq(Genomes) /\ Len(s) = Len(Tail(s)) + 1
         /\ Len(Tail(s)) \in Nat
         /\ Elements(s) = Elements(Tail(s)) \cup {Head(s)}
<1> DEFINE t == Tail(s)
<1>1. /\ Head(s) \in Genomes /\ t \in Seq(Genomes) /\ Len(s) = Len(t) + 1 /\ Len(t) \in Nat
      /\ s[1] = Head(s)
  OBVIOUS
<1>2. \A j \in 1 .. Len(t) : t[j] = s[j + 1]
  OBVIOUS
<1>3. Elements(s) = Elements(t) \cup {Head(s)}
  <2> HIDE DEF t
  <2>1. ASSUME NEW j \in 1 .. Len(s) PROVE s[j] \in Elements(t) \cup {Head(s)}
    <3>1. CASE j = 1
      BY <1>1, <3>1
    <3>2. CASE j # 1
      <4>1. j - 1 \in 1 .. Len(t) /\ (j - 1) + 1 = j
        BY <1>1, <3>2
      <4>2. t[j - 1] = s[j]
        BY <1>2, <4>1
      <4> QED
        BY <4>1, <4>2 DEF Elements
    <3> QED
      BY <3>1, <3>2
  <2>2. ASSUME NEW j \in 1 .. Len(t) PROVE t[j] \in Elements(s)
    <3>1. j + 1 \in 1 .. Len(s)
      BY <1>1
    <3> QED
      BY <1>2, <3>1 DEF Elements
  <2>3. Head(s) \in Elements(s)
    <3>1. 1 \in 1 .. Len(s)
      BY <1>1
    <3> QED
      BY <1>1, <3>1 DEF Elements
  <2> QED
    BY <2>1, <2>2, <2>3 DEF Elements
<1> QED
  BY <1>1, <1>3

LEMMA Finite == IsFiniteSet(Engaged) /\ Cardinality(Engaged) \in Nat
BY Constants, FS_Subset, FS_CardinalityType DEF Engaged

\* Nobody is engaged between two calls, and nothing is queued.
LEMMA Between ==
  ASSUME Inv, p = 0, ~Busy \/ main = "collect"
  PROVE  Engaged = {} /\ inqueue = <<>> /\ outqueue = <<>> /\ Underway = {}
<1>1. Len(inqueue) \in Nat /\ Len(outqueue) \in Nat /\ Cardinality(Engaged) \in Nat
  BY Finite DEF Inv, TypeOK
<1>2. Len(inqueue) = 0 /\ Len(outqueue) = 0 /\ Cardinality(Engaged) = 0
  BY <1>1 DEF Inv, Counted
<1>3. Engaged = {}
  BY <1>2, Finite, FS_EmptySet
<1>4. inqueue = <<>> /\ outqueue = <<>>
  BY <1>2 DEF Inv, TypeOK
<1>5. Elements(inqueue) = {} /\ Elements(outqueue) = {}
  BY <1>2 DEF Elements
<1>6. Tasks = {}
  BY <1>3 DEF Engaged, Tasks
<1> QED
  BY <1>3, <1>4, <1>5, <1>6 DEF Underway

LEMMA InvInit == Init => Inv
<1> SUFFICES ASSUME Init PROVE Inv
  OBVIOUS
<1>1. TypeOK
  <2>1. /\ main = "idle" /\ calls = 0 /\ p = 0 /\ inqueue = <<>> /\ outqueue = <<>> /\ working = FALSE
        /\ evaluated = {}
    BY DEF Init
  <2>2. /\ pc \in [Workers -> Ended \cup {"check", "get", "eval"}] /\ task \in [Workers -> Genomes \cup {NoTask}]
        /\ \A w \in Workers : task[w] = NoTask
    BY DEF Init
  <2>3. inqueue \in Seq(Genomes) /\ outqueue \in Seq(Genomes)
    BY <2>1
  <2>4. calls \in 0 .. MaxCalls /\ p \in 0 .. PopSize
    BY <2>1, Constants
  <2>5. working \in BOOLEAN /\ evaluated \subseteq Genomes
    BY <2>1
  <2>6. main \in {"idle", "put", "collect", "join"} /\ main # "put" /\ ~Busy
    BY <2>1 DEF Busy
  <2> QED
    BY <2>2, <2>3, <2>4, <2>5, <2>6 DEF TypeOK
<1>2. Engaged = {}
  BY DEF Init, Engaged
<1>3. Counted
  BY <1>2, FS_EmptySet DEF Init, Counted
<1> QED
  BY <1>1, <1>3 DEF Init, Inv, Located, Busy

\* The caller.
LEMMA InvEvaluate == Inv /\ Evaluate => Inv'
<1> SUFFICES ASSUME Inv, Evaluate PROVE Inv'
  OBVIOUS
<1>0. TypeOK /\ Counted /\ ~Busy /\ p = 0
  BY DEF Inv, Evaluate, Busy, Counted
<1>1. TypeOK'
  <2>1. /\ main' = "put" /\ calls' = calls + 1 /\ p' = 0 /\ working' = TRUE
        /\ UNCHANGED <<inqueue, outqueue, task, evaluated>> /\ calls < MaxCalls
    BY DEF Evaluate
  <2>2. pc' = pc \/ pc' = [w \in Workers |-> "check"]
    BY DEF Evaluate
  <2>3. pc' \in [Workers -> Ended \cup {"check", "get", "eval"}]
    BY <1>0, <2>2 DEF TypeOK
  <2>4. \A w \in Workers : task'[w] = NoTask
    BY <1>0, <2>1, Between DEF Engaged, TypeOK
  <2> QED
    BY <1>0, <2>1, <2>3, <2>4, Constants DEF TypeOK, Busy
<1>2. Engaged = {} /\ Underway = {}
  BY <1>0, Between
<1>3. Engaged' = {} /\ Tasks' = {}
  BY <1>2 DEF Engaged, Tasks, Evaluate
<1>4. Counted'
  BY <1>0, <1>2, <1>3 DEF Counted, Evaluate, Busy
<1>5. Underway' = {}
  BY <1>2, <1>3 DEF Underway, Elements, Evaluate
<1>6. Placed' = {}
  BY DEF Placed, Evaluate
<1> QED
  BY <1>1, <1>4, <1>5, <1>6 DEF Inv, Located

LEMMA InvPut == Inv /\ Put => Inv'
<1> SUFFICES ASSUME Inv, Put PROVE Inv'
  OBVIOUS
<1> DEFINE g == <<calls, p + 1>>
<1>0. TypeOK /\ Counted /\ Located /\ Busy
  BY DEF Inv, Put, Busy
<1>1. p \in Nat /\ p < PopSize /\ calls \in 1 .. MaxCalls /\ p + 1 \in 1 .. PopSize
  BY <1>0, Constants DEF TypeOK, Put
<1>2. g \in Population(calls) /\ g \in Genomes
  BY <1>1 DEF Genomes
<1>3. /\ inqueue' = Append(inqueue, g) /\ p' = p + 1 /\ main = "put" /\ main' \in {"put", "collect"}
      /\ main' = "put" => p + 1 # PopSize
      /\ main' = "collect" => p + 1 = PopSize
      /\ UNCHANGED <<calls, outqueue, working, pc, task, evaluated>>
  BY DEF Put
<1>4. inqueue' \in Seq(Genomes) /\ Len(inqueue') = Len(inqueue) + 1 /\ Elements(inqueue)' = Elements(inqueue) \cup {g}
  BY <1>0, <1>2, <1>3, Appended DEF TypeOK, Elements
<1>5. TypeOK'
  BY <1>0, <1>1, <1>3, <1>4, Constants DEF TypeOK, Busy
<1>6. Engaged' = Engaged /\ Tasks' = Tasks
  BY <1>3 DEF Engaged, Tasks
<1>7. Counted'
  <2>1. Len(inqueue) \in Nat /\ Len(outqueue) \in Nat
    BY <1>0 DEF TypeOK
  <2> QED
    BY <1>0, <1>1, <1>3, <1>4, <1>6, <2>1, Finite DEF Counted, Busy
<1>8. Underway' = Underway \cup {g}
  BY <1>3, <1>4, <1>6 DEF Underway, Elements
<1>9. Placed' = Placed \cup {g}
  <2>1. 1 .. (p + 1) = (1 .. p) \cup {p + 1}
    BY <1>1
  <2> QED
    BY <1>1, <1>3, <2>1 DEF Placed
<1>10. Located'
  BY <1>0, <1>2, <1>3, <1>8, <1>9 DEF Located
<1> QED
  BY <1>5, <1>7, <1>10 DEF Inv

LEMMA InvCollect == Inv /\ Collect => Inv' /\ Head(outqueue) \in Population(calls)
<1> SUFFICES ASSUME Inv, Collect PROVE Inv' /\ Head(outqueue) \in Population(calls)
  OBVIOUS
<1> DEFINE g == Head(outqueue)
<1>0. TypeOK /\ Counted /\ Located /\ Busy
  BY DEF Inv, Collect, Busy
<1>1. /\ outqueue' = Tail(outqueue) /\ outqueue # <<>> /\ p' = p - 1 /\ p > 0
      /\ main = "collect" /\ evaluated' = evaluated \cup {g}
      /\ UNCHANGED <<main, calls, inqueue, working, pc, task>>
  BY DEF Collect
<1>2. /\ g \in Genomes /\ outqueue' \in Seq(Genomes) /\ Len(outqueue) = Len(outqueue') + 1
      /\ Len(outqueue') \in Nat /\ Elements(outqueue) = Elements(outqueue)' \cup {g}
  BY <1>0, <1>1, Taken DEF TypeOK, Elements
<1>3. TypeOK'
  BY <1>0, <1>1, <1>2, Constants DEF TypeOK, Busy
<1>4. Engaged' = Engaged /\ Tasks' = Tasks
  BY <1>1 DEF Engaged, Tasks
<1>5. Counted'
  <2>1. Len(inqueue) \in Nat /\ p \in Nat
    BY <1>0 DEF TypeOK
  <2> QED
    BY <1>0, <1>1, <1>2, <1>4, <2>1, Finite DEF Counted, Busy
<1>6. Underway = Underway' \cup {g}
  BY <1>1, <1>2, <1>4 DEF Underway, Elements
<1>7. Placed' = Placed
  BY <1>1 DEF Placed
<1>8. Located' /\ g \in Population(calls)
  BY <1>0, <1>1, <1>6, <1>7 DEF Located, Busy
<1> QED
  BY <1>3, <1>5, <1>8 DEF Inv

LEMMA InvReturn == Inv /\ (Return \/ Stop \/ Joined) => Inv'
<1> SUFFICES ASSUME Inv, Return \/ Stop \/ Joined PROVE Inv'
  OBVIOUS
<1>0. TypeOK /\ Counted
  BY DEF Inv
<1>1. /\ main' \in {"idle", "join"} /\ p = 0 /\ working' \in BOOLEAN
      /\ UNCHANGED <<calls, p, inqueue, outqueue, pc, task, evaluated>>
  BY <1>0 DEF Return, Stop, Joined, Counted, Busy, TypeOK
<1>2. Engaged' = Engaged /\ ~Busy'
  BY <1>1 DEF Engaged, Busy
<1>3. TypeOK'
  BY <1>0, <1>1, <1>2 DEF TypeOK
<1>4. Counted'
  BY <1>0, <1>1, <1>2 DEF Counted
<1> QED
  BY <1>2, <1>3, <1>4 DEF Inv, Located

-----------------------------------------------------------------------------
\* The workers.
LEMMA InvGet == ASSUME Inv, NEW w \in Workers, Get(w) PROVE Inv'
<1> DEFINE g == Head(inqueue)
<1>0. TypeOK /\ Counted /\ Located
  BY DEF Inv
<1>1. /\ pc[w] = "get" /\ pc' = [pc EXCEPT ![w] = "eval"] /\ task' = [task EXCEPT ![w] = g]
      /\ inqueue # <<>> /\ inqueue' = Tail(inqueue)
      /\ UNCHANGED <<main, calls, p, outqueue, working, evaluated>>
  BY DEF Get, Goes, Local
<1>2. /\ g \in Genomes /\ inqueue' \in Seq(Genomes) /\ Len(inqueue) = Len(inqueue') + 1
      /\ Len(inqueue') \in Nat /\ Elements(inqueue) = Elements(inqueue)' \cup {g}
  BY <1>0, <1>1, Taken DEF TypeOK, Elements
<1>3. TypeOK'
  <2>1. pc' \in [Workers -> Ended \cup {"check", "get", "eval"}] /\ task' \in [Workers -> Genomes \cup {NoTask}]
    BY <1>0, <1>1, <1>2 DEF TypeOK
  <2>2. \A v \in Workers : pc'[v] # "eval" => task'[v] = NoTask
    BY <1>0, <1>1 DEF TypeOK
  <2> QED
    BY <1>0, <1>1, <1>2, <2>1, <2>2 DEF TypeOK, Busy
<1>4. Engaged' = Engaged \cup {w} /\ w \notin Engaged
  BY <1>0, <1>1 DEF Engaged, TypeOK
<1>5. Counted'
  <2>1. Cardinality(Engaged \cup {w}) = Cardinality(Engaged) + 1
    BY <1>4, Finite, FS_AddElement
  <2>2. Len(outqueue) \in Nat
    BY <1>0 DEF TypeOK
  <2> QED
    BY <1>0, <1>1, <1>2, <1>4, <2>1, <2>2, Finite DEF Counted, Busy
<1>6. Tasks' = Tasks \cup {g}
  BY <1>0, <1>1 DEF Tasks, TypeOK
<1>7. Underway' = Underway /\ Placed' = Placed
  BY <1>1, <1>2, <1>6 DEF Underway, Elements, Placed
<1>8. (\A v \in Workers : pc'[v] # "dead") => \A v \in Workers : pc[v] # "dead"
  BY <1>0, <1>1 DEF TypeOK
<1>9. Located'
  BY <1>0, <1>1, <1>7, <1>8 DEF Located, Busy
<1> QED
  BY <1>3, <1>5, <1>9 DEF Inv

LEMMA InvDeliver == ASSUME Inv, NEW w \in Workers, Deliver(w) PROVE Inv'
<1> DEFINE g == task[w]
<1>0. TypeOK /\ Counted /\ Located
  BY DEF Inv
<1>1. /\ pc[w] = "eval" /\ pc' = [pc EXCEPT ![w] = "check"] /\ task' = [task EXCEPT ![w] = NoTask]
      /\ outqueue' = Append(outqueue, g)
      /\ UNCHANGED <<main, calls, p, inqueue, working, evaluated>>
  BY DEF Deliver, Goes, Local
<1>2. w \in Engaged /\ g \in Tasks
  BY <1>1 DEF Engaged, Tasks
<1>3. Busy
  <2>1. Engaged # {}
    BY <1>2
  <2>2. Inv
    OBVIOUS
  <2> QED
    BY <1>0, <2>1, <2>2, Between DEF Counted
<1>4. g \in Genomes
  <2>1. g \in Population(calls) /\ calls \in 1 .. MaxCalls
    BY <1>0, <1>2, <1>3, Constants DEF Located, Underway, TypeOK
  <2> QED
    BY <2>1 DEF Genomes
<1>5. outqueue' \in Seq(Genomes) /\ Len(outqueue') = Len(outqueue) + 1 /\ Elements(outqueue)' = Elements(outqueue) \cup {g}
  BY <1>0, <1>1, <1>4, Appended DEF TypeOK, Elements
<1>6. TypeOK'
  BY <1>0, <1>1, <1>5 DEF TypeOK, Busy
<1>7. Engaged' = Engaged \ {w}
  BY <1>0, <1>1 DEF Engaged, TypeOK
<1>8. Counted'
  <2>1. Cardinality(Engaged \ {w}) = Cardinality(Engaged) - 1
    BY <1>2, Finite, FS_RemoveElement
  <2>2. Len(inqueue) \in Nat /\ Len(outqueue) \in Nat
    BY <1>0 DEF TypeOK
  <2> QED
    BY <1>0, <1>1, <1>5, <1>7, <2>1, <2>2, Finite DEF Counted, Busy
<1>9. Tasks \subseteq Tasks' \cup {g} /\ Tasks' \subseteq Tasks
  BY <1>0, <1>1 DEF Tasks, TypeOK
<1>10. Underway' = Underway /\ Placed' = Placed
  BY <1>1, <1>2, <1>5, <1>9 DEF Underway, Elements, Placed
<1>11. (\A v \in Workers : pc'[v] # "dead") => \A v \in Workers : pc[v] # "dead"
  BY <1>0, <1>1 DEF TypeOK
<1>12. Located'
  BY <1>0, <1>1, <1>10, <1>11 DEF Located, Busy
<1> QED
  BY <1>6, <1>8, <1>12 DEF Inv

LEMMA InvDies == ASSUME Inv, NEW w \in Workers, Dies(w) PROVE Inv'
<1>0. TypeOK /\ Counted /\ Located
  BY DEF Inv
<1>1. /\ pc[w] = "eval" /\ pc' = [pc EXCEPT ![w] = "dead"] /\ task' = [task EXCEPT ![w] = NoTask]
      /\ UNCHANGED <<main, calls, p, inqueue, outqueue, working, evaluated>>
  BY DEF Dies, Goes, Local
<1>2. TypeOK'
  BY <1>0, <1>1 DEF TypeOK, Busy
<1>3. Engaged' = Engaged /\ pc'[w] = "dead"
  BY <1>0, <1>1 DEF Engaged, TypeOK
<1>4. Counted'
  BY <1>0, <1>1, <1>3 DEF Counted, Busy
<1>5. Tasks' \subseteq Tasks
  BY <1>0, <1>1 DEF Tasks, TypeOK
<1>6. Located'
  BY <1>0, <1>1, <1>3, <1>5 DEF Located, Busy, Underway, Elements
<1> QED
  BY <1>2, <1>4, <1>6 DEF Inv

LEMMA InvPoll == ASSUME Inv, NEW w \in Workers, Check(w) \/ Empty(w) PROVE Inv'
<1>0. TypeOK /\ Counted /\ Located
  BY DEF Inv
<1>1. PICK to \in {"check", "get", "ended"} :
        /\ pc[w] \notin {"eval", "dead"} /\ pc' = [pc EXCEPT ![w] = to]
        /\ UNCHANGED <<main, calls, p, inqueue, outqueue, working, task, evaluated>>
  BY DEF Check, Empty, Goes, Local
<1>2. TypeOK'
  BY <1>0, <1>1 DEF TypeOK, Busy
<1>3. \A v \in Workers : (pc'[v] = "eval" <=> pc[v] = "eval") /\ (pc'[v] = "dead" <=> pc[v] = "dead")
  BY <1>0, <1>1 DEF TypeOK
<1>4. Engaged' = Engaged /\ Tasks' = Tasks
  BY <1>1, <1>3 DEF Engaged, Tasks
<1>5. Counted'
  BY <1>0, <1>1, <1>4 DEF Counted, Busy
<1>6. Located'
  BY <1>0, <1>1, <1>3, <1>4 DEF Located, Busy, Underway, Elements, Placed
<1> QED
  BY <1>2, <1>5, <1>6 DEF Inv

LEMMA InvStep == Inv /\ [Next]_vars => Inv'
<1> SUFFICES ASSUME Inv, [Next]_vars PROVE Inv'
  OBVIOUS
<1>1. CASE UNCHANGED vars
  <2>0. /\ main' = main /\ calls' = calls /\ p' = p /\ inqueue' = inqueue /\ outqueue' = outqueue
        /\ working' = working /\ pc' = pc /\ task' = task /\ evaluated' = evaluated
    BY <1>1 DEF vars
  <2>1. Engaged' = Engaged /\ Underway' = Underway /\ Placed' = Placed /\ (Busy' <=> Busy)
    BY <2>0 DEF Engaged, Placed, Underway, Elements, Tasks, Busy
  <2>2. TypeOK'
    BY <2>0, <2>1 DEF Inv, TypeOK
  <2>3. Counted'
    BY <2>0, <2>1 DEF Inv, Counted
  <2>4. Located'
    BY <2>0, <2>1 DEF Inv, Located
  <2> QED
    BY <2>2, <2>3, <2>4 DEF Inv
<1>2. CASE Idle
  BY <1>1, <1>2 DEF Idle
<1>3. ASSUME NEW w \in Workers, WorkerStep(w) PROVE Inv'
  BY <1>3, InvGet, InvDeliver, InvDies, InvPoll DEF WorkerStep
<1> QED
  BY <1>1, <1>2, <1>3, InvEvaluate, InvPut, InvCollect, InvReturn DEF Next

-----------------------------------------------------------------------------
\* Between two calls nothing is queued, under evaluation or unclaimed.
THEOREM NothingIsLeftOver == Spec => []NothingLeftOver
<1>1. Inv => NothingLeftOver
  <2> SUFFICES ASSUME Inv, ~Busy
               PROVE  inqueue = <<>> /\ outqueue = <<>> /\ \A w \in Workers : task[w] = NoTask
    BY DEF NothingLeftOver
  <2>1. Engaged = {} /\ inqueue = <<>> /\ outqueue = <<>>
    BY Between DEF Inv, Counted
  <2> QED
    BY <2>1 DEF Engaged, Inv, TypeOK
<1> QED
  BY <1>1, InvInit, InvStep, PTL DEF Spec

\* evaluate returns only when every genome of the call has its fitness, and
\* assigns none outside the call, for every interleaving of the workers and
\* whichever of them die.
THEOREM ThreadedImplements == Spec => ImplementsPromise
<1>1. Init => Promise!Init
  BY DEF Init, Promise!Init, Busy
<1>2. Inv /\ Inv' /\ [Next]_vars => [Promise!Next]_(Promise!vars)
  <2> SUFFICES ASSUME Inv, Inv', [Next]_vars PROVE [Promise!Next]_(Promise!vars)
    OBVIOUS
  <2> USE DEF Promise!vars
  <2>1. CASE Evaluate
    <3>1. calls' \in 1 .. MaxCalls
      BY <2>1, Constants DEF Evaluate, Inv, TypeOK
    <3>2. Population(calls') \in SUBSET Genomes
      BY <3>1 DEF Genomes
    <3>3. calls' # 0 /\ ~Busy /\ Busy' /\ evaluated' = evaluated
      BY <2>1, <3>1 DEF Evaluate, Busy
    <3>4. Promise!Call
      BY <3>2, <3>3 DEF Promise!Call
    <3> QED
      BY <3>4 DEF Promise!Next
  <2>2. CASE Collect
    <3>1. calls # 0 /\ Busy /\ Busy' /\ calls' = calls
      BY <2>2 DEF Collect, Inv, TypeOK, Busy
    <3>2. evaluated' = evaluated \cup {Head(outqueue)} /\ Head(outqueue) \in Population(calls)
      BY <2>2, InvCollect DEF Collect
    <3>3. Promise!Assign
      BY <3>1, <3>2 DEF Promise!Assign
    <3> QED
      BY <3>3 DEF Promise!Next
  <2>3. CASE Return
    <3>1. calls # 0 /\ Busy /\ ~Busy' /\ calls' = calls /\ evaluated' = evaluated /\ p = 0 /\ main = "collect"
      BY <2>3 DEF Return, Inv, TypeOK, Busy
    <3>2. Engaged = {} /\ Underway = {}
      BY <3>1, Between
    <3>3. Population(calls) \subseteq evaluated
      BY <3>1, <3>2 DEF Inv, Located, Placed, Engaged
    <3>4. Promise!Return
      BY <3>1, <3>3 DEF Promise!Return
    <3> QED
      BY <3>4 DEF Promise!Next
  <2>4. CASE Put \/ Stop \/ Joined
    <3>1. calls' = calls /\ evaluated' = evaluated
      BY <2>4 DEF Put, Stop, Joined
    <3>2. Busy' = Busy
      BY <2>4 DEF Put, Stop, Joined, Busy
    <3> QED
      BY <3>1, <3>2
  <2>5. CASE UNCHANGED vars \/ Idle
    BY <2>5 DEF vars, Idle, Busy
  <2>6. ASSUME NEW w \in Workers, WorkerStep(w) PROVE [Promise!Next]_(Promise!vars)
    BY <2>6 DEF WorkerStep, Check, Get, Empty, Deliver, Dies, Local, Busy
  <2> QED
    BY <2>1, <2>2, <2>3, <2>4, <2>5, <2>6 DEF Next
<1> QED
  BY <1>1, <1>2, InvInit, InvStep, PTL DEF Spec, ImplementsPromise, Promise!Spec
=============================================================================
