-------------------------- MODULE TaskServiceProofs --------------------------
(***************************************************************************)
(* What ThreadedTaskService promises for any number of workers, clients,   *)
(* tasks and names and any queue size: its bounded queue holds no          *)
(* duplicates, activeTasks holds no element that no worker would remove,   *)
(* and the service implements RequestService.                              *)
(***************************************************************************)
EXTENDS TaskService, FiniteSetTheorems, FunctionTheorems, SequenceTheorems, TLAPS

USE DEF Names

-----------------------------------------------------------------------------
(* The queue *)

\* A queue's elements, by position.
LEMMA QueuePositions ==
  ASSUME queue \in Seq(Tasks)
  PROVE  /\ Len(queue) \in Nat
         /\ DOMAIN queue = 1..Len(queue)
         /\ \A i \in 1..Len(queue) : queue[i] \in Tasks
         /\ Queued \subseteq Tasks
<1>1. Len(queue) \in Nat /\ DOMAIN queue = 1..Len(queue)
      /\ \A i \in 1..Len(queue) : queue[i] \in Tasks
  BY LenProperties
<1> QED BY <1>1 DEF Queued

\* Appending a task that equals() no queued one.
LEMMA QueueAppended ==
  ASSUME queue \in Seq(Tasks), NEW x \in Tasks, queue' = Append(queue, x)
  PROVE  /\ queue' \in Seq(Tasks)
         /\ Len(queue') = Len(queue) + 1
         /\ Queued' = Queued \cup {x}
         /\ NoDuplicateQueued /\ ~QueueContains(x) => NoDuplicateQueued'
<1>1. /\ queue' \in Seq(Tasks)
      /\ Len(queue') = Len(queue) + 1
      /\ \A i \in 1..Len(queue) : queue'[i] = queue[i]
      /\ queue'[Len(queue) + 1] = x
  BY AppendProperties
<1>2. Len(queue) \in Nat /\ DOMAIN queue = 1..Len(queue)
      /\ DOMAIN queue' = 1..(Len(queue) + 1)
  BY <1>1, LenProperties
<1>3. Queued' = Queued \cup {x}
  <2>1. Queued' \subseteq Queued \cup {x}
    BY <1>1, <1>2 DEF Queued
  <2>2. Queued \cup {x} \subseteq Queued'
    <3>1. ASSUME NEW i \in DOMAIN queue PROVE queue[i] \in Queued'
      BY <1>1, <1>2 DEF Queued
    <3>2. x \in Queued'
      BY <1>1, <1>2 DEF Queued
    <3> QED BY <3>1, <3>2 DEF Queued
  <2> QED BY <2>1, <2>2
<1>4. ASSUME NoDuplicateQueued, ~QueueContains(x) PROVE NoDuplicateQueued'
  <2>1. \A i \in 1..Len(queue) : Name[queue[i]] # Name[x]
    BY <1>2, <1>4 DEF QueueContains, Queued
  <2>2. \A i \in 1..(Len(queue) + 1) : i \in 1..Len(queue) \/ i = Len(queue) + 1
    BY <1>2
  <2>3. \A i, j \in 1..Len(queue) : Name[queue[i]] = Name[queue[j]] => i = j
    BY <1>2, <1>4 DEF NoDuplicateQueued
  <2> QED BY <1>1, <1>2, <2>1, <2>2, <2>3 DEF NoDuplicateQueued
<1> QED BY <1>1, <1>3, <1>4

\* Taking the head off the queue.
LEMMA QueueTaken ==
  ASSUME queue \in Seq(Tasks), queue # << >>, queue' = Tail(queue)
  PROVE  /\ queue' \in Seq(Tasks)
         /\ Len(queue') <= Len(queue)
         /\ Head(queue) \in Queued
         /\ Queued' \subseteq Queued
         /\ Queued \subseteq Queued' \cup {Head(queue)}
         /\ NoDuplicateQueued => NoDuplicateQueued' /\ Head(queue) \notin Queued'
<1>1. /\ queue' \in Seq(Tasks)
      /\ Len(queue') = Len(queue) - 1
      /\ \A i \in 1..Len(queue') : queue'[i] = queue[i + 1]
  BY HeadTailProperties
<1>2. /\ Len(queue) \in Nat \ {0} /\ DOMAIN queue = 1..Len(queue)
      /\ DOMAIN queue' = 1..(Len(queue) - 1)
  BY <1>1, LenProperties, EmptySeq
<1>3. Head(queue) = queue[1] /\ 1 \in DOMAIN queue
  BY <1>2
<1>4. Queued' \subseteq Queued /\ Head(queue) \in Queued
  BY <1>1, <1>2, <1>3 DEF Queued
<1>5. Queued \subseteq Queued' \cup {Head(queue)}
  <2>1. ASSUME NEW i \in DOMAIN queue, i # 1 PROVE queue[i] \in Queued'
    <3>1. i - 1 \in DOMAIN queue' /\ queue'[i - 1] = queue[i]
      BY <1>1, <1>2, <2>1
    <3> QED BY <3>1 DEF Queued
  <2> QED BY <1>3, <2>1 DEF Queued
<1>6. ASSUME NoDuplicateQueued PROVE NoDuplicateQueued' /\ Head(queue) \notin Queued'
  <2>1. \A i \in DOMAIN queue' : i + 1 \in DOMAIN queue /\ i + 1 # 1 /\ queue'[i] = queue[i + 1]
    BY <1>1, <1>2
  <2>2. NoDuplicateQueued'
    <3> SUFFICES ASSUME NEW i \in DOMAIN queue', NEW j \in DOMAIN queue',
                        Name[queue'[i]] = Name[queue'[j]]
                 PROVE  i = j
      BY DEF NoDuplicateQueued
    <3>1. i + 1 = j + 1
      BY <1>6, <2>1 DEF NoDuplicateQueued
    <3> QED BY <1>2, <3>1
  <2>3. \A i \in DOMAIN queue' : queue'[i] # queue[1]
    BY <1>3, <1>6, <2>1 DEF NoDuplicateQueued
  <2> QED BY <1>3, <2>2, <2>3 DEF Queued
<1> QED BY <1>1, <1>2, <1>4, <1>5, <1>6

-----------------------------------------------------------------------------
(* Counting *)

\* The workers executing tasks of one name are finitely many.
LEMMA FiniteCounts ==
  ASSUME NEW n
  PROVE  IsFiniteSet(RegisteredFor(n)) /\ Cardinality(RegisteredFor(n)) \in Nat
<1>1. RegisteredFor(n) \in SUBSET Workers
  BY DEF RegisteredFor, Registered
<1> QED BY <1>1, PoolAssumption, FS_Subset, FS_CardinalityType

\* A step after which every registered worker is still registered, for the same
\* task, and the list has not grown.
LEMMA RegisteredKept ==
  ASSUME TypeOK, ActiveNotStale,
         \A w \in Registered : w \in Registered' /\ task'[w] = task[w],
         \A n \in Names : active'[n] \in Nat /\ active'[n] <= active[n]
  PROVE  ActiveNotStale'
<1> SUFFICES ASSUME NEW n \in Names PROVE active'[n] <= Cardinality(RegisteredFor(n)')
  BY DEF ActiveNotStale
<1>1. RegisteredFor(n) \subseteq RegisteredFor(n)' /\ RegisteredFor(n)' \in SUBSET Workers
  BY DEF RegisteredFor, Registered
<1>2. /\ IsFiniteSet(RegisteredFor(n)')
      /\ Cardinality(RegisteredFor(n)') \in Nat
      /\ Cardinality(RegisteredFor(n)) \in Nat
      /\ Cardinality(RegisteredFor(n)) <= Cardinality(RegisteredFor(n)')
  BY <1>1, PoolAssumption, FiniteCounts, FS_Subset, FS_CardinalityType
<1>3. active[n] \in Nat /\ active[n] <= Cardinality(RegisteredFor(n))
  BY DEF TypeOK, ActiveNotStale
<1> HIDE DEF Names
<1> QED BY <1>2, <1>3

-----------------------------------------------------------------------------
(* The invariant *)

\* A new service, as the constructor leaves it, satisfies the invariant.
LEMMA InitIInv == Init => IInv
<1> SUFFICES ASSUME Init PROVE IInv
  OBVIOUS
<1> USE DEF Init, PoolInit
<1>1. TypeOK
  <2>1. PoolTypeOK
    BY ServiceAssumption DEF PoolTypeOK, Stages
  <2>2. cleared \in BOOLEAN
    BY Zenon
  <2>3. queue \in Seq(Tasks) /\ Len(queue) = 0
    BY EmptySeq
  <2> QED BY <2>1, <2>2, <2>3, ServiceAssumption DEF TypeOK
<1>2. MonitorInv /\ QueueStillFree /\ NoDuplicateQueued
  BY ServiceAssumption DEF MonitorInv, QueueStillFree, NoDuplicateQueued
<1>3. \A n \in Names : Cardinality(RegisteredFor(n)) \in Nat
  BY FiniteCounts
<1>4. ActiveNotStale
  BY <1>3 DEF ActiveNotStale
<1> QED BY <1>1, <1>2, <1>4 DEF IInv

\* What the clients know is not disturbed by a step that leaves them alone and
\* puts no task into the queue.
LEMMA ClientsUndisturbed ==
  ASSUME IInv, UNCHANGED clientVars, Queued' \subseteq Queued
  PROVE  MonitorInv' /\ QueueStillFree'
BY DEF IInv, clientVars, MonitorInv, QueueStillFree, QueueContains

\* The steps of addTask() preserve the invariant.
LEMMA ClientIInv ==
  ASSUME IInv, NEW c \in Clients, ClientStep(c)
  PROVE  IInv'
<1>0. TypeOK /\ MonitorInv /\ QueueStillFree /\ NoDuplicateQueued /\ ActiveNotStale
  BY DEF IInv
<1>1. ASSUME NEW x \in Tasks, AddTask(c, x) PROVE IInv'
  <2>1. TypeOK'
    BY <1>0, <1>1, PoolAssumption DEF AddTask, TypeOK, PoolTypeOK, poolVars
  <2>2. MonitorInv' /\ QueueStillFree' /\ NoDuplicateQueued'
    BY <1>0, <1>1, ServiceAssumption
    DEF AddTask, TypeOK, MonitorInv, QueueStillFree, QueueContains, Queued, NoDuplicateQueued
  <2>3. ActiveNotStale'
    BY <1>0, <1>1 DEF AddTask, poolVars, ActiveNotStale, RegisteredFor, Registered
  <2> QED BY <2>1, <2>2, <2>3 DEF IInv
<1>2. CASE LookInQueue(c)
  <2>1. TypeOK'
    BY <1>0, <1>2 DEF LookInQueue, TypeOK, PoolTypeOK, poolVars
  <2>2. MonitorInv' /\ QueueStillFree' /\ NoDuplicateQueued'
    BY <1>0, <1>2, ServiceAssumption
    DEF LookInQueue, TypeOK, MonitorInv, QueueStillFree, QueueContains, Queued, NoDuplicateQueued
  <2>3. ActiveNotStale'
    BY <1>0, <1>2 DEF LookInQueue, poolVars, ActiveNotStale, RegisteredFor, Registered
  <2> QED BY <2>1, <2>2, <2>3 DEF IInv
<1>3. CASE Execute(c)
  <2>0. /\ arg[c] \in Tasks
        /\ ~QueueContains(arg[c])
        /\ monitor = c
        /\ at' = [at EXCEPT ![c] = "idle"]
        /\ arg' = [arg EXCEPT ![c] = NoTask]
        /\ monitor' = NoClient
        /\ UNCHANGED <<active, interrupted, submitted, finished, cleared>>
    BY <1>0, <1>3 DEF Execute, TypeOK, QueueStillFree, MonitorInv
  <2>1. \/ /\ \E w \in Workers \ Alive : Assign(w, arg[c])
           /\ UNCHANGED <<queue, dropped>>
        \/ /\ Len(queue) < QueueSize
           /\ queue' = Append(queue, arg[c])
           /\ UNCHANGED <<poolVars, dropped>>
        \/ /\ dropped' = dropped \cup {arg[c]}
           /\ UNCHANGED <<poolVars, queue>>
    BY <1>3 DEF Execute, ExecutorAccepts, StartWorker
  <2>2. PoolTypeOK' /\ \A w \in Registered : w \in Registered' /\ task'[w] = task[w]
    <3>1. CASE UNCHANGED poolVars
      BY <1>0, <3>1 DEF TypeOK, PoolTypeOK, poolVars, Registered
    <3>2. ASSUME NEW w \in Workers \ Alive, Assign(w, arg[c])
          PROVE  PoolTypeOK' /\ \A v \in Registered : v \in Registered' /\ task'[v] = task[v]
      BY <1>0, <2>0, <3>2, PoolAssumption
      DEF Assign, TypeOK, PoolTypeOK, Stages, Alive, Registered
    <3> QED BY <2>1, <3>1, <3>2
  <2>3. queue' \in Seq(Tasks) /\ Len(queue') <= QueueSize /\ NoDuplicateQueued'
    <3>1. CASE queue' = queue
      BY <1>0, <3>1 DEF TypeOK, NoDuplicateQueued
    <3>2. CASE Len(queue) < QueueSize /\ queue' = Append(queue, arg[c])
      <4>1. Len(queue) \in Nat /\ queue \in Seq(Tasks)
        BY <1>0, QueuePositions DEF TypeOK
      <4>2. queue' \in Seq(Tasks) /\ Len(queue') = Len(queue) + 1 /\ NoDuplicateQueued'
        BY <1>0, <2>0, <3>2, <4>1, QueueAppended
      <4> QED BY <3>2, <4>1, <4>2, ServiceAssumption
    <3> QED BY <2>1, <3>1, <3>2
  <2>4. TypeOK'
    BY <1>0, <2>0, <2>1, <2>2, <2>3 DEF TypeOK
  <2>5. MonitorInv'
    BY <1>0, <2>0, ServiceAssumption DEF TypeOK, MonitorInv
  <2>6. QueueStillFree'
    BY <1>0, <2>0, <2>5 DEF TypeOK, MonitorInv, QueueStillFree
  <2>7. ActiveNotStale'
    BY <1>0, <2>0, <2>2, RegisteredKept DEF TypeOK
  <2> QED BY <2>3, <2>4, <2>5, <2>6, <2>7 DEF IInv
<1> QED BY <1>1, <1>2, <1>3 DEF ClientStep

\* A step of a worker that leaves clients, queue and activeTasks alone and moves
\* the worker to a stage at which it still counts, if it counted before.
LEMMA WorkerMoves ==
  ASSUME IInv, NEW w \in Workers, NEW s \in Stages \ {"none", "idle"}, GoTo(w, s),
         task[w] # NoTask,
         w \in Registered => s \in {"run", "call", "after"},
         UNCHANGED <<queue, active, clientVars, dropped, finished, cleared>>,
         interrupted' \subseteq Workers
  PROVE  IInv'
<1>0. TypeOK /\ NoDuplicateQueued /\ ActiveNotStale
  BY DEF IInv
<1>1. TypeOK'
  BY <1>0 DEF GoTo, TypeOK, PoolTypeOK, clientVars
<1>2. MonitorInv' /\ QueueStillFree' /\ NoDuplicateQueued'
  BY <1>0, ClientsUndisturbed DEF Queued, NoDuplicateQueued
<1>3. \A v \in Registered : v \in Registered' /\ task'[v] = task[v]
  BY <1>0 DEF GoTo, TypeOK, PoolTypeOK, Registered
<1>4. ActiveNotStale'
  BY <1>0, <1>3, RegisteredKept DEF TypeOK
<1> QED BY <1>1, <1>2, <1>4 DEF IInv

\* Every step of a worker preserves the invariant.
LEMMA WorkerIInv ==
  ASSUME IInv, NEW w \in Workers, WorkerStep(w)
  PROVE  IInv'
<1>0. TypeOK /\ NoDuplicateQueued /\ ActiveNotStale
  BY DEF IInv
<1>1. CASE Take(w)
  <2>1. Assign(w, Head(queue)) /\ queue # << >> /\ queue' = Tail(queue) /\ stage[w] = "idle"
    BY <1>1 DEF Take, CanTake
  <2>2. /\ queue' \in Seq(Tasks) /\ Len(queue') <= Len(queue)
        /\ Head(queue) \in Queued /\ Queued' \subseteq Queued /\ NoDuplicateQueued'
    BY <1>0, <2>1, QueueTaken DEF TypeOK
  <2>3. Head(queue) \in Tasks /\ Len(queue) \in Nat /\ Len(queue') \in Nat
    BY <1>0, <2>2, QueuePositions, LenProperties DEF TypeOK
  <2>4. PoolTypeOK'
    BY <1>0, <2>1, <2>3, PoolAssumption DEF Assign, TypeOK, PoolTypeOK, Stages
  <2>5. TypeOK'
    BY <1>0, <1>1, <2>2, <2>3, <2>4, ServiceAssumption DEF Take, TypeOK, clientVars
  <2>6. MonitorInv' /\ QueueStillFree'
    BY <1>1, <2>2, ClientsUndisturbed DEF Take
  <2>7. \A v \in Registered : v \in Registered' /\ task'[v] = task[v]
    BY <1>0, <2>1 DEF Assign, TypeOK, PoolTypeOK, Registered
  <2>8. ActiveNotStale'
    BY <1>0, <1>1, <2>7, RegisteredKept DEF Take, TypeOK
  <2> QED BY <2>2, <2>5, <2>6, <2>8 DEF IInv
<1>2. CASE BeforeExecute(w)
  <2>1. task[w] # NoTask /\ w \notin Registered /\ interrupted' \subseteq Workers
    BY <1>0, <1>2 DEF BeforeExecute, TypeOK, PoolTypeOK, Registered
  <2>2. GoTo(w, "run") \/ GoTo(w, "register")
    BY <1>2 DEF BeforeExecute
  <2>3. UNCHANGED <<queue, active, clientVars, dropped, finished, cleared>>
    BY <1>2 DEF BeforeExecute
  <2> QED BY <2>1, <2>2, <2>3, WorkerMoves DEF Stages
<1>3. CASE AddToActive(w)
  <2>t. task[w] \in Tasks
    BY <1>0, <1>3 DEF AddToActive, TypeOK, PoolTypeOK
  <2>0. PICK a \in Names : a = Name[task[w]]
    BY <2>t
  <2>1. TypeOK'
    BY <1>0, <1>3, <2>t DEF AddToActive, GoTo, TypeOK, PoolTypeOK, Stages, clientVars
  <2>2. MonitorInv' /\ QueueStillFree' /\ NoDuplicateQueued'
    BY <1>0, <1>3, ClientsUndisturbed DEF AddToActive, Queued, NoDuplicateQueued
  <2>3. /\ RegisteredFor(a)' = RegisteredFor(a) \cup {w}
        /\ w \notin RegisteredFor(a)
        /\ \A n \in Names : n # a => RegisteredFor(n)' = RegisteredFor(n)
    BY <1>0, <1>3, <2>0 DEF AddToActive, GoTo, TypeOK, PoolTypeOK, Registered, RegisteredFor
  <2>4. Cardinality(RegisteredFor(a)') = Cardinality(RegisteredFor(a)) + 1
    BY <2>3, FiniteCounts, FS_AddElement
  <2>5. ActiveNotStale'
    <3> SUFFICES ASSUME NEW n \in Names PROVE active'[n] <= Cardinality(RegisteredFor(n)')
      BY DEF ActiveNotStale
    <3>1. /\ active[n] \in Nat /\ Cardinality(RegisteredFor(n)) \in Nat
          /\ active[n] <= Cardinality(RegisteredFor(n))
      BY <1>0, FiniteCounts DEF TypeOK, ActiveNotStale
    <3>2. active'[n] = IF n = a THEN active[n] + 1 ELSE active[n]
      BY <1>0, <1>3, <2>0 DEF AddToActive, TypeOK
    <3>3. CASE n = a
      <4>1. Cardinality(RegisteredFor(n)') = Cardinality(RegisteredFor(n)) + 1
        BY <2>4, <3>3
      <4> QED BY <3>1, <3>2, <3>3, <4>1
    <3>4. CASE n # a
      <4>1. RegisteredFor(n)' = RegisteredFor(n)
        BY <2>3, <3>4
      <4> QED BY <3>1, <3>2, <3>4, <4>1
    <3> QED BY <3>3, <3>4
  <2> QED BY <2>1, <2>2, <2>5 DEF IInv
<1>4. CASE Run(w) \/ CallEnds(w)
  <2>1. task[w] # NoTask /\ interrupted' \subseteq Workers
    BY <1>0, <1>4 DEF Run, CallEnds, TypeOK, PoolTypeOK
  <2>2. GoTo(w, "call") \/ GoTo(w, "after")
    BY <1>4 DEF Run, CallEnds
  <2>3. UNCHANGED <<queue, active, clientVars, dropped, finished, cleared>>
    BY <1>4 DEF Run, CallEnds
  <2> QED BY <2>1, <2>2, <2>3, WorkerMoves DEF Stages
<1>5. CASE AfterExecute(w)
  <2>t. task[w] \in Tasks
    BY <1>0, <1>5 DEF AfterExecute, TypeOK, PoolTypeOK
  <2>0. PICK a \in Names : a = Name[task[w]]
    BY <2>t
  <2>1. TypeOK'
    BY <1>0, <1>5, <2>t DEF AfterExecute, Release, TypeOK, PoolTypeOK, Stages, clientVars
  <2>2. MonitorInv' /\ QueueStillFree' /\ NoDuplicateQueued'
    BY <1>0, <1>5, ClientsUndisturbed DEF AfterExecute, Queued, NoDuplicateQueued
  <2>3. /\ RegisteredFor(a)' = RegisteredFor(a) \ {w}
        /\ w \in RegisteredFor(a)
        /\ \A n \in Names : n # a => RegisteredFor(n)' = RegisteredFor(n)
    BY <1>0, <1>5, <2>0
    DEF AfterExecute, Release, TypeOK, PoolTypeOK, Registered, RegisteredFor
  <2>4. /\ Cardinality(RegisteredFor(a)') = Cardinality(RegisteredFor(a)) - 1
        /\ Cardinality(RegisteredFor(a)') \in Nat
    <3>1. IsFiniteSet(RegisteredFor(a))
      BY FiniteCounts
    <3>2. IsFiniteSet(RegisteredFor(a) \ {w})
      BY <3>1, FS_RemoveElement
    <3>3. Cardinality(RegisteredFor(a) \ {w}) = Cardinality(RegisteredFor(a)) - 1
      BY <2>3, <3>1, FS_RemoveElement
    <3>4. Cardinality(RegisteredFor(a) \ {w}) \in Nat
      BY <3>2, FS_CardinalityType
    <3> QED BY <2>3, <3>3, <3>4
  <2>5. ActiveNotStale'
    <3> SUFFICES ASSUME NEW n \in Names PROVE active'[n] <= Cardinality(RegisteredFor(n)')
      BY DEF ActiveNotStale
    <3>1. /\ active[n] \in Nat /\ Cardinality(RegisteredFor(n)) \in Nat
          /\ active[n] <= Cardinality(RegisteredFor(n))
      BY <1>0, FiniteCounts DEF TypeOK, ActiveNotStale
    <3>2. active'[n] = IF n # a THEN active[n]
                       ELSE IF active[n] > 0 THEN active[n] - 1 ELSE 0
      BY <1>0, <1>5, <2>0 DEF AfterExecute, TypeOK
    <3>3. CASE n = a
      <4>1. /\ Cardinality(RegisteredFor(n)') = Cardinality(RegisteredFor(n)) - 1
            /\ Cardinality(RegisteredFor(n)') \in Nat
        BY <2>4, <3>3
      <4> QED BY <3>1, <3>2, <3>3, <4>1
    <3>4. CASE n # a
      <4>1. RegisteredFor(n)' = RegisteredFor(n)
        BY <2>3, <3>4
      <4> QED BY <3>1, <3>2, <3>4, <4>1
    <3> QED BY <3>3, <3>4
  <2> QED BY <2>1, <2>2, <2>5 DEF IInv
<1>6. CASE Exit(w)
  <2>1. stage[w] = "idle" /\ GoTo(w, "none")
    BY <1>6 DEF Exit, ExitWorker
  <2>2. TypeOK'
    BY <1>0, <1>6, <2>1 DEF Exit, GoTo, TypeOK, PoolTypeOK, Stages, clientVars
  <2>3. MonitorInv' /\ QueueStillFree' /\ NoDuplicateQueued'
    BY <1>0, <1>6, ClientsUndisturbed DEF Exit, Queued, NoDuplicateQueued
  <2>4. \A v \in Registered : v \in Registered' /\ task'[v] = task[v]
    BY <1>0, <2>1 DEF GoTo, TypeOK, PoolTypeOK, Registered
  <2>5. ActiveNotStale'
    BY <1>0, <1>6, <2>4, RegisteredKept DEF Exit, TypeOK
  <2> QED BY <2>2, <2>3, <2>5 DEF IInv
<1> QED BY <1>1, <1>2, <1>3, <1>4, <1>5, <1>6 DEF WorkerStep

\* Every step of the service preserves the invariant.
LEMMA NextIInv == IInv /\ [Next]_vars => IInv'
<1> SUFFICES ASSUME IInv, [Next]_vars PROVE IInv'
  OBVIOUS
<1>0. TypeOK /\ NoDuplicateQueued /\ ActiveNotStale
  BY DEF IInv
<1>1. ASSUME NEW b \in BOOLEAN, Shutdown(b) PROVE IInv'
  <2>1. /\ poolState' \in {"shutdown", "stop"}
        /\ queue' \in {queue, << >>}
        /\ dropped' \in {dropped, dropped \cup Queued}
        /\ interrupted' \in {interrupted, interrupted \cup Alive}
        /\ UNCHANGED <<stage, task, coreSize, maxSize, active, clientVars, finished, cleared>>
    BY <1>1 DEF Shutdown, StopPool
  <2>2. /\ queue' \in Seq(Tasks) /\ Len(queue') <= QueueSize
        /\ Queued' \subseteq Queued /\ NoDuplicateQueued'
    <3>1. CASE queue' = queue
      BY <1>0, <3>1 DEF TypeOK, Queued, NoDuplicateQueued
    <3>2. CASE queue' = << >>
      BY <3>2, EmptySeq, ServiceAssumption DEF Queued, NoDuplicateQueued
    <3> QED BY <2>1, <3>1, <3>2
  <2>3. dropped' \subseteq Tasks /\ interrupted' \subseteq Workers
    BY <1>0, <2>1, QueuePositions DEF TypeOK, Alive
  <2>4. TypeOK'
    BY <1>0, <2>1, <2>2, <2>3 DEF TypeOK, PoolTypeOK, clientVars
  <2>5. MonitorInv' /\ QueueStillFree'
    BY <2>1, <2>2, ClientsUndisturbed
  <2>6. ActiveNotStale'
    BY <1>0, <2>1, RegisteredKept DEF TypeOK, Registered
  <2> QED BY <2>2, <2>4, <2>5, <2>6 DEF IInv
<1>2. CASE ClearActive
  <2>1. cleared' \in BOOLEAN /\ active' = [n \in Names |-> 0]
    BY <1>2, Zenon DEF ClearActive
  <2>2. TypeOK'
    BY <1>0, <1>2, <2>1 DEF ClearActive, TypeOK, PoolTypeOK, poolVars, clientVars
  <2>3. MonitorInv' /\ QueueStillFree' /\ NoDuplicateQueued'
    BY <1>0, <1>2, ClientsUndisturbed DEF ClearActive, Queued, NoDuplicateQueued
  <2>4. ActiveNotStale'
    BY <1>0, <1>2, <2>1, RegisteredKept DEF ClearActive, poolVars, TypeOK, Registered
  <2> QED BY <2>2, <2>3, <2>4 DEF IInv
<1>3. CASE UNCHANGED vars
  <2>1. TypeOK'
    BY <1>0, <1>3 DEF vars, TypeOK, PoolTypeOK, poolVars, clientVars
  <2>2. MonitorInv' /\ QueueStillFree' /\ NoDuplicateQueued'
    BY <1>0, <1>3, ClientsUndisturbed DEF vars, Queued, NoDuplicateQueued
  <2>3. ActiveNotStale'
    BY <1>0, <1>3 DEF vars, poolVars, ActiveNotStale, RegisteredFor, Registered
  <2> QED BY <2>1, <2>2, <2>3 DEF IInv
<1> QED BY <1>1, <1>2, <1>3, ClientIInv, WorkerIInv DEF Next

-----------------------------------------------------------------------------
(* The theorems about the queue and activeTasks *)

\* The inductive invariant of the service holds in every reachable state.
THEOREM Invariance == Spec => []IInv
BY InitIInv, NextIInv, PTL DEF Spec

\* Every reachable state is well typed; in particular the queue never grows beyond
\* the configured size, although addTask() and the workers do not share a lock.
THEOREM TypeCorrect == Spec => []TypeOK
<1>1. IInv => TypeOK
  BY DEF IInv
<1> QED BY <1>1, Invariance, PTL

\* No two queued tasks equal() each other, for any number of threads calling
\* addTask(), which looks before it adds.
THEOREM QueueHasNoDuplicates == Spec => []NoDuplicateQueued
<1>1. IInv => NoDuplicateQueued
  BY DEF IInv
<1> QED BY <1>1, Invariance, PTL

\* activeTasks holds no element without a worker that will remove it, whatever
\* duplicates slip through and whenever shutdown() empties the list.
THEOREM ActiveIsNotStale == Spec => []ActiveNotStale
<1>1. IInv => ActiveNotStale
  BY DEF IInv
<1> QED BY <1>1, Invariance, PTL

-----------------------------------------------------------------------------
(* Every task has one place *)

\* A new service has no tasks.
LEMMA InitPlaceInv == Init => PlaceInv
BY DEF Init, PoolInit, PlaceInv, Busy, Queued

\* A step that neither moves a task nor adds one keeps every task in its place.
LEMMA PlacesKept ==
  ASSUME PlaceInv, UNCHANGED <<arg, submitted>>,
         Queued' \subseteq Queued,
         \A w \in Workers : task'[w] \in {task[w], NoTask}
  PROVE  PlaceInv'
<1>1. Busy' \subseteq Busy /\ \A w \in Busy' : task'[w] = task[w]
  BY DEF Busy
<1> QED BY <1>1 DEF PlaceInv

\* Every step of the service keeps each task in one place.
LEMMA NextPlaceInv == IInv /\ PlaceInv /\ [Next]_vars => PlaceInv'
<1> SUFFICES ASSUME IInv, PlaceInv, [Next]_vars PROVE PlaceInv'
  OBVIOUS
<1>0. TypeOK /\ MonitorInv /\ NoDuplicateQueued
  BY DEF IInv
<1>1. ASSUME NEW c \in Clients, NEW x \in Tasks, AddTask(c, x) PROVE PlaceInv'
  <2>1. Queued' = Queued /\ Busy' = Busy /\ task' = task
    BY <1>1 DEF AddTask, poolVars, Queued, Busy
  <2>2. \A d \in Clients : arg'[d] \in {arg[d], x}
    BY <1>0, <1>1 DEF AddTask, TypeOK
  <2> QED BY <1>1, <2>1, <2>2 DEF AddTask, PlaceInv
<1>2. ASSUME NEW c \in Clients, LookInQueue(c) PROVE PlaceInv'
  <2>1. Queued' = Queued /\ Busy' = Busy /\ task' = task
    BY <1>2 DEF LookInQueue, poolVars, Queued, Busy
  <2>2. \A d \in Clients : arg'[d] \in {arg[d], NoTask}
    BY <1>0, <1>2 DEF LookInQueue, TypeOK
  <2> QED BY <1>2, <2>1, <2>2 DEF LookInQueue, PlaceInv
<1>3. ASSUME NEW c \in Clients, Execute(c) PROVE PlaceInv'
  <2>0. PICK x \in Tasks : x = arg[c]
    BY <1>0, <1>3 DEF Execute, TypeOK
  <2>1. /\ x # NoTask /\ x \in submitted \ Queued
        /\ \A w \in Busy : task[w] # x
        /\ \A d \in Clients : arg'[d] = NoTask
        /\ submitted' = submitted
    BY <1>0, <1>3, <2>0, PoolAssumption DEF Execute, TypeOK, MonitorInv, PlaceInv
  <2>2. ASSUME NEW w \in Workers \ Alive, Assign(w, x), queue' = queue
        PROVE  PlaceInv'
    <3>1. \A v \in Workers : task'[v] = IF v = w THEN x ELSE task[v]
      BY <1>0, <2>2 DEF Assign, TypeOK, PoolTypeOK
    <3>2. Busy' = Busy \cup {w} /\ w \notin Busy /\ Busy \subseteq Workers
      BY <1>0, <2>1, <2>2, <3>1 DEF TypeOK, PoolTypeOK, Busy, Alive
    <3>3. Queued' = Queued
      BY <2>2 DEF Queued
    <3> QED BY <2>1, <3>1, <3>2, <3>3 DEF PlaceInv
  <2>3. ASSUME UNCHANGED poolVars, queue' = Append(queue, x) PROVE PlaceInv'
    <3>1. Queued' = Queued \cup {x}
      BY <1>0, <2>3, QueueAppended DEF TypeOK
    <3>2. Busy' = Busy /\ task' = task
      BY <2>3 DEF poolVars, Busy
    <3> QED BY <2>1, <3>1, <3>2 DEF PlaceInv
  <2>4. ASSUME UNCHANGED poolVars, queue' = queue PROVE PlaceInv'
    <3>1. Queued' = Queued /\ Busy' = Busy /\ task' = task
      BY <2>4 DEF poolVars, Queued, Busy
    <3> QED BY <2>1, <3>1 DEF PlaceInv
  <2> QED BY <1>3, <2>0, <2>2, <2>3, <2>4 DEF Execute, ExecutorAccepts, StartWorker
<1>4. ASSUME NEW w \in Workers, Take(w) PROVE PlaceInv'
  <2>0. PICK x : x = Head(queue)
    OBVIOUS
  <2>1. x \in Queued /\ x \notin Queued' /\ Queued' \subseteq Queued
    BY <1>0, <1>4, <2>0, QueueTaken DEF Take, TypeOK
  <2>2. x \in Tasks /\ x # NoTask /\ w \notin Busy /\ Busy \subseteq Workers
    BY <1>0, <1>4, <2>1, QueuePositions, PoolAssumption
    DEF Take, CanTake, TypeOK, PoolTypeOK, Busy
  <2>3. \A v \in Workers : task'[v] = IF v = w THEN x ELSE task[v]
    BY <1>0, <1>4, <2>0 DEF Take, Assign, TypeOK, PoolTypeOK
  <2>4. Busy' = Busy \cup {w}
    BY <2>2, <2>3 DEF Busy
  <2>5. UNCHANGED <<arg, submitted>>
    BY <1>4 DEF Take, clientVars
  <2> QED BY <2>1, <2>2, <2>3, <2>4, <2>5 DEF PlaceInv
<1>5. ASSUME NEW w \in Workers,
             \/ BeforeExecute(w) \/ AddToActive(w) \/ Run(w) \/ CallEnds(w)
             \/ AfterExecute(w) \/ Exit(w)
      PROVE  PlaceInv'
  <2>1. UNCHANGED <<arg, submitted, queue>>
    BY <1>5
    DEF BeforeExecute, AddToActive, Run, CallEnds, AfterExecute, Exit, clientVars
  <2>2. \A v \in Workers : task'[v] \in {task[v], NoTask}
    BY <1>0, <1>5
    DEF BeforeExecute, AddToActive, Run, CallEnds, AfterExecute, Exit, ExitWorker, GoTo,
        Release, TypeOK, PoolTypeOK
  <2> QED BY <2>1, <2>2, PlacesKept DEF Queued
<1>6. ASSUME NEW b \in BOOLEAN, Shutdown(b) PROVE PlaceInv'
  <2>1. UNCHANGED <<arg, submitted, task>> /\ queue' \in {queue, << >>}
    BY <1>6 DEF Shutdown, StopPool, clientVars
  <2>2. Queued' \subseteq Queued
    BY <2>1 DEF Queued
  <2> QED BY <2>1, <2>2, PlacesKept
<1>7. CASE ClearActive \/ UNCHANGED vars
  <2>1. UNCHANGED <<arg, submitted, task, queue>>
    BY <1>7 DEF ClearActive, vars, poolVars, clientVars
  <2> QED BY <2>1, PlacesKept DEF Queued
<1> QED
  BY <1>1, <1>2, <1>3, <1>4, <1>5, <1>6, <1>7 DEF Next, ClientStep, WorkerStep

\* In every reachable state a submitted task is with the client that adds it, in
\* the queue, with exactly one worker, or nowhere any more.
THEOREM PlaceIsUnique == Spec => []PlaceInv
BY Invariance, InitPlaceInv, NextPlaceInv, PTL DEF Spec

-----------------------------------------------------------------------------
(* The refinement mapping *)

Status == [x \in Tasks |-> TaskStatus(x)]

BeingAdded(x) == \E c \in Clients : arg[c] = x

\* A step that does not touch a task leaves its status alone.
LEMMA StatusKept ==
  ASSUME NEW y \in Tasks,
         y \in Queued' <=> y \in Queued,
         y \in submitted' <=> y \in submitted,
         BeingAdded(y)' <=> BeingAdded(y),
         \A w \in Workers : /\ task'[w] = y <=> task[w] = y
                            /\ task[w] = y => stage'[w] = stage[w]
  PROVE  TaskStatus(y)' = TaskStatus(y)
<1>1. \A s : AtWork(y, s)' <=> AtWork(y, s)
  BY DEF AtWork
<1> QED BY <1>1 DEF TaskStatus, BeingAdded

\* The status of a task that a worker has, which only depends on that worker.
LEMMA StatusAtWork ==
  ASSUME TypeOK, PlaceInv, NEW w \in Busy
  PROVE  TaskStatus(task[w]) =
           IF stage[w] = "call" THEN "running"
           ELSE IF stage[w] \in {"begin", "register", "run"} THEN "waiting" ELSE "over"
<1>1. \A s : AtWork(task[w], s) <=> stage[w] \in s
  BY DEF AtWork, PlaceInv, Busy
<1>2. task[w] \notin Queued /\ task[w] \in submitted /\ task[w] # NoTask
  BY DEF PlaceInv, Busy
<1>3. \A c \in Clients : arg[c] # task[w]
  BY <1>2 DEF PlaceInv
<1> QED BY <1>1, <1>2, <1>3 DEF TaskStatus

\* The status of a task that no worker has.
LEMMA StatusNotAtWork ==
  ASSUME NEW y \in Tasks, \A w \in Workers : task[w] # y
  PROVE  TaskStatus(y) = IF y \in Queued THEN "waiting"
                         ELSE IF y \notin submitted \/ BeingAdded(y) THEN "none" ELSE "over"
BY DEF TaskStatus, AtWork, BeingAdded

\* While a worker has not begun its task yet, fewer tasks than there are workers
\* are running.
LEMMA RoomToRun ==
  ASSUME TypeOK, NEW w \in Workers, stage[w] = "run"
  PROVE  Cardinality(Service!Running) < Cardinality(Workers)
<1> DEFINE R == Service!Running
           f == [x \in R |-> CHOOSE v \in Workers : task[v] = x /\ stage[v] = "call"]
<1>1. \A x \in R : \E v \in Workers : task[v] = x /\ stage[v] = "call"
  BY DEF Service!Running, TaskStatus, AtWork
<1>2. \A x \in R : f[x] \in Workers /\ task[f[x]] = x /\ stage[f[x]] = "call"
  BY <1>1
<1>3. f \in [R -> Workers]
  BY <1>2
<1> HIDE DEF R, f
<1>4. f \in Injection(R, Workers)
  BY <1>2, <1>3, Fun_IsInj
<1>5. f \notin Surjection(R, Workers)
  BY <1>2 DEF Surjection
<1>6. IsFiniteSet(R) /\ Cardinality(R) <= Cardinality(Workers)
      /\ Cardinality(R) # Cardinality(Workers)
  BY <1>4, <1>5, FS_Injection, PoolAssumption
<1>7. Cardinality(R) \in Nat /\ Cardinality(Workers) \in Nat
  BY <1>6, FS_CardinalityType, PoolAssumption
<1> QED BY <1>6, <1>7 DEF R

\* Initially no task has been added.
LEMMA InitRefines == Init => Service!Init
<1> SUFFICES ASSUME Init PROVE Service!Init
  OBVIOUS
<1>1. \A x \in Tasks : TaskStatus(x) = "none"
  BY DEF Init, PoolInit, TaskStatus, AtWork, Queued
<1> QED BY <1>1 DEF Service!Init

\* addTask() submits a task, or refuses it as a duplicate; the executor may drop it.
LEMMA ClientRefines ==
  ASSUME IInv, PlaceInv, NEW c \in Clients, ClientStep(c)
  PROVE  [Service!Next]_Status
<1>0. TypeOK /\ MonitorInv
  BY DEF IInv
<1>1. ASSUME NEW x \in Tasks, AddTask(c, x) PROVE [Service!Next]_Status
  <2>1. UNCHANGED <<stage, task, queue>> /\ Queued' = Queued
    BY <1>1 DEF AddTask, poolVars, Queued
  <2>2. /\ x \notin Queued /\ x \notin submitted /\ x \in submitted' /\ ~BeingAdded(x)
        /\ \A w \in Workers : task[w] # x
    BY <1>1, PoolAssumption DEF AddTask, PlaceInv, Busy, BeingAdded
  <2>3. TaskStatus(x) = "none"
    BY <2>2, StatusNotAtWork
  <2>4. arg[c] = NoTask /\ \A d \in Clients : d # c => arg'[d] = arg[d]
    BY <1>0, <1>1 DEF AddTask, TypeOK
  <2>5. arg'[c] \in {x, NoTask}
    BY <1>0, <1>1, <2>4 DEF AddTask, TypeOK
  <2>6. \A y \in Tasks : y # x => (BeingAdded(y)' <=> BeingAdded(y))
    BY <2>4, <2>5, PoolAssumption DEF BeingAdded
  <2>7. \A y \in Tasks : y # x => TaskStatus(y)' = TaskStatus(y)
    BY <1>1, <2>1, <2>6, StatusKept DEF AddTask
  <2>8. TaskStatus(x)' = IF BeingAdded(x)' THEN "none" ELSE "over"
    BY <2>1, <2>2 DEF TaskStatus, AtWork, BeingAdded
  <2>9. CASE BeingAdded(x)'
    BY <2>3, <2>7, <2>8, <2>9 DEF Status
  <2>10. CASE ~BeingAdded(x)'
    <3>1. Service!Reject(x)
      BY <2>3, <2>7, <2>8, <2>10 DEF Service!Reject, Status
    <3> QED BY <3>1 DEF Service!Next
  <2> QED BY <2>9, <2>10
<1>2. CASE LookInQueue(c) \/ Execute(c)
  <2>0. PICK x \in Tasks : x = arg[c]
    BY <1>0, <1>2 DEF LookInQueue, Execute, TypeOK
  <2>1. /\ x \notin Queued /\ x \in submitted /\ BeingAdded(x) /\ submitted' = submitted
        /\ \A w \in Workers : task[w] # x
        /\ \A d \in Clients : d # c => arg[d] = NoTask /\ arg'[d] = NoTask
    BY <1>0, <1>2, <2>0, PoolAssumption
    DEF LookInQueue, Execute, TypeOK, MonitorInv, PlaceInv, Busy, BeingAdded
  <2>2. Status[x] = "none"
    BY <2>1, StatusNotAtWork DEF Status
  <2>3. arg'[c] = arg[c] \/ arg'[c] = NoTask
    BY <1>0, <1>2 DEF LookInQueue, Execute, TypeOK
  <2>4. \A y \in Tasks : y # x => (BeingAdded(y)' <=> BeingAdded(y))
    BY <2>0, <2>1, <2>3, PoolAssumption DEF BeingAdded
  <2>5. CASE LookInQueue(c) /\ arg'[c] = arg[c]
    <3>1. UNCHANGED <<stage, task, queue>> /\ Queued' = Queued
      BY <2>5 DEF LookInQueue, poolVars, Queued
    <3>2. \A d \in Clients : arg'[d] = arg[d]
      BY <2>1, <2>5
    <3>3. \A y \in Tasks : TaskStatus(y)' = TaskStatus(y)
      BY <2>1, <3>1, <3>2, StatusKept DEF BeingAdded
    <3> QED BY <3>3 DEF Status
  <2>6. ASSUME arg'[c] = NoTask, UNCHANGED <<stage, task, queue>> PROVE Service!Reject(x)
    <3>1. Queued' = Queued /\ ~BeingAdded(x)'
      BY <2>1, <2>6, PoolAssumption DEF Queued, BeingAdded
    <3>2. TaskStatus(x)' = "over"
      BY <2>1, <2>6, <3>1 DEF TaskStatus, AtWork, BeingAdded
    <3>3. \A y \in Tasks : y # x => TaskStatus(y)' = TaskStatus(y)
      BY <2>1, <2>4, <2>6, <3>1, StatusKept
    <3> QED BY <2>2, <3>2, <3>3 DEF Service!Reject, Status
  <2>7. ASSUME NEW w \in Workers \ Alive, Assign(w, x), queue' = queue
        PROVE  Service!Submit(x)
    <3>1. \A v \in Workers : /\ task'[v] = IF v = w THEN x ELSE task[v]
                             /\ stage'[v] = IF v = w THEN "begin" ELSE stage[v]
      BY <1>0, <2>7 DEF Assign, TypeOK, PoolTypeOK
    <3>2. task[w] = NoTask /\ Queued' = Queued
      BY <1>0, <2>7 DEF TypeOK, PoolTypeOK, Alive, Queued
    <3>3. TaskStatus(x)' = "waiting"
      <4>1. \A s : AtWork(x, s)' <=> "begin" \in s
        BY <2>1, <3>1 DEF AtWork
      <4> QED BY <4>1 DEF TaskStatus
    <3>4. \A y \in Tasks : y # x => TaskStatus(y)' = TaskStatus(y)
      BY <2>1, <2>4, <3>1, <3>2, StatusKept, PoolAssumption
    <3> QED BY <2>2, <3>3, <3>4 DEF Service!Submit, Status
  <2>8. ASSUME UNCHANGED poolVars, queue' = Append(queue, x) PROVE Service!Submit(x)
    <3>1. Queued' = Queued \cup {x}
      BY <1>0, <2>8, QueueAppended DEF TypeOK
    <3>2. TaskStatus(x)' = "waiting"
      BY <2>1, <2>8, <3>1 DEF TaskStatus, AtWork, poolVars
    <3>3. \A y \in Tasks : y # x => TaskStatus(y)' = TaskStatus(y)
      BY <2>1, <2>4, <2>8, <3>1, StatusKept DEF poolVars
    <3> QED BY <2>2, <3>2, <3>3 DEF Service!Submit, Status
  <2>9. CASE LookInQueue(c) /\ arg'[c] = NoTask
    <3>1. Service!Reject(x)
      BY <2>6, <2>9 DEF LookInQueue, poolVars
    <3> QED BY <3>1 DEF Service!Next
  <2>10. CASE Execute(c)
    <3>1. arg'[c] = NoTask
      BY <1>0, <2>10 DEF Execute, TypeOK
    <3>2. ASSUME UNCHANGED <<poolVars, queue>> PROVE Service!Reject(x)
      BY <2>6, <3>1, <3>2 DEF poolVars
    <3>3. \/ \E w \in Workers \ Alive : Assign(w, x) /\ queue' = queue
          \/ UNCHANGED poolVars /\ queue' = Append(queue, x)
          \/ UNCHANGED <<poolVars, queue>>
      BY <2>0, <2>10 DEF Execute, ExecutorAccepts, StartWorker
    <3> QED BY <2>7, <2>8, <3>2, <3>3 DEF Service!Next
  <2> QED BY <1>2, <2>3, <2>5, <2>9, <2>10
<1> QED BY <1>1, <1>2 DEF ClientStep

\* A worker's step starts or ends a task, drops an interrupted one, or is not seen
\* by the client.
LEMMA WorkerRefines ==
  ASSUME IInv, PlaceInv, NEW w \in Workers, WorkerStep(w)
  PROVE  [Service!Next]_Status
<1>0. TypeOK /\ NoDuplicateQueued
  BY DEF IInv
<1>c. UNCHANGED <<arg, submitted>>
  BY DEF WorkerStep, Take, BeforeExecute, AddToActive, Run, CallEnds, AfterExecute, Exit,
         clientVars
<1>b. \A y : BeingAdded(y)' <=> BeingAdded(y)
  BY <1>c DEF BeingAdded
<1>s. ASSUME \A y \in Tasks : TaskStatus(y)' = TaskStatus(y) PROVE UNCHANGED Status
  BY <1>s DEF Status
<1>1. CASE Take(w)
  <2>0. PICK x : x = Head(queue)
    OBVIOUS
  <2>1. x \in Queued /\ x \notin Queued' /\ Queued' \subseteq Queued /\ Queued \subseteq Queued' \cup {x}
    BY <1>0, <1>1, <2>0, QueueTaken DEF Take, TypeOK
  <2>2. x \in Tasks /\ task[w] = NoTask /\ \A v \in Workers : task[v] # x
    BY <1>0, <1>1, <2>1, QueuePositions, PoolAssumption
    DEF Take, CanTake, TypeOK, PoolTypeOK, PlaceInv, Busy
  <2>3. \A v \in Workers : /\ task'[v] = IF v = w THEN x ELSE task[v]
                           /\ stage'[v] = IF v = w THEN "begin" ELSE stage[v]
    BY <1>0, <1>1, <2>0 DEF Take, Assign, TypeOK, PoolTypeOK
  <2>4. \A y \in Tasks : y # x => TaskStatus(y)' = TaskStatus(y)
    BY <1>b, <1>c, <2>1, <2>2, <2>3, StatusKept, PoolAssumption
  <2>5. TaskStatus(x) = "waiting" /\ TaskStatus(x)' = "waiting"
    <3>1. \A s : AtWork(x, s)' <=> "begin" \in s
      BY <2>2, <2>3 DEF AtWork
    <3> QED BY <2>1, <2>2, <3>1, StatusNotAtWork DEF TaskStatus
  <2> QED BY <1>s, <2>4, <2>5
<1>2. CASE ~Take(w) /\ ~Exit(w)
  <2>1. w \in Busy /\ task[w] \in Tasks /\ UNCHANGED queue
    BY <1>0, <1>2
    DEF WorkerStep, BeforeExecute, AddToActive, Run, CallEnds, AfterExecute, TypeOK,
        PoolTypeOK, Busy
  <2>x. PICK x \in Tasks : x = task[w]
    BY <2>1
  <2>q. Queued' = Queued /\ x \notin Queued /\ x \in submitted /\ ~BeingAdded(x)
    BY <2>1, <2>x, PoolAssumption DEF Queued, PlaceInv, BeingAdded
  <2>2. \A v \in Workers \ {w} : task[v] # x /\ task'[v] = task[v] /\ stage'[v] = stage[v]
    BY <2>x, <1>0, <1>2, <2>1
    DEF WorkerStep, BeforeExecute, AddToActive, Run, CallEnds, AfterExecute, GoTo, Release,
        TypeOK, PoolTypeOK, PlaceInv, Busy
  <2>3. task'[w] \in {x, NoTask}
    BY <2>x, <1>0, <1>2
    DEF WorkerStep, BeforeExecute, AddToActive, Run, CallEnds, AfterExecute, GoTo, Release,
        TypeOK, PoolTypeOK
  <2>4. \A y \in Tasks \ {x} : TaskStatus(y)' = TaskStatus(y)
    BY <1>b, <1>c, <2>x, <2>q, <2>2, <2>3, StatusKept, PoolAssumption
  <2>5. TaskStatus(x) = IF stage[w] = "call" THEN "running"
           ELSE IF stage[w] \in {"begin", "register", "run"} THEN "waiting" ELSE "over"
    BY <2>x, <1>0, <2>1, StatusAtWork
  <2>6. ASSUME NEW s \in Stages, GoTo(w, s)
        PROVE  TaskStatus(x)' = IF s = "call" THEN "running"
                 ELSE IF s \in {"begin", "register", "run"} THEN "waiting" ELSE "over"
    <3>1. \A t : AtWork(x, t)' <=> s \in t
      BY <2>x, <1>0, <2>2, <2>6 DEF GoTo, TypeOK, PoolTypeOK, AtWork
    <3> QED BY <1>b, <1>c, <2>q, <3>1 DEF TaskStatus, BeingAdded
  <2>7. CASE BeforeExecute(w) \/ AddToActive(w)
    <3>1. TaskStatus(x) = "waiting"
      BY <2>5, <2>7 DEF BeforeExecute, AddToActive
    <3>2. GoTo(w, "run") \/ GoTo(w, "register")
      BY <2>7 DEF BeforeExecute, AddToActive
    <3>3. TaskStatus(x)' = "waiting"
      BY <2>6, <3>2 DEF Stages
    <3> QED BY <1>s, <2>4, <3>1, <3>3
  <2>8. CASE Run(w) /\ GoTo(w, "call")
    <3>1. TaskStatus(x) = "waiting" /\ TaskStatus(x)' = "running"
      BY <2>5, <2>6, <2>8 DEF Run, Stages
    <3>2. Cardinality(Service!Running) < Cardinality(Workers)
      BY <1>0, <2>8, RoomToRun DEF Run
    <3>3. /\ [y \in Tasks |-> TaskStatus(y)][x] = "waiting"
          /\ [y \in Tasks |-> TaskStatus(y)]' =
               [[y \in Tasks |-> TaskStatus(y)] EXCEPT ![x] = "running"]
      BY <2>4, <3>1
    <3>4. Service!Start(x)
      BY <3>2, <3>3, Zenon DEF Service!Start, Service!Cardinality, Cardinality
    <3> QED BY <3>4 DEF Service!Next
  <2>9. CASE Run(w) /\ GoTo(w, "after")
    <3>1. TaskStatus(x) = "waiting" /\ TaskStatus(x)' = "over"
      BY <2>5, <2>6, <2>9 DEF Run, Stages
    <3>2. Service!DropAll({x})
      BY <2>4, <3>1 DEF Service!DropAll, Status
    <3> QED BY <3>2 DEF Service!Next
  <2>10. CASE CallEnds(w)
    <3>1. TaskStatus(x) = "running" /\ TaskStatus(x)' = "over"
      BY <2>5, <2>6, <2>10 DEF CallEnds, Stages
    <3>2. Service!End(x)
      BY <2>4, <3>1 DEF Service!End, Status
    <3> QED BY <3>2 DEF Service!Next
  <2>11. CASE AfterExecute(w)
    <3>1. TaskStatus(x) = "over"
      BY <2>5, <2>11 DEF AfterExecute
    <3>2. \A v \in Workers : task'[v] # x
      BY <1>0, <2>2, <2>11, PoolAssumption
      DEF AfterExecute, Release, TypeOK, PoolTypeOK
    <3>3. TaskStatus(x)' = "over"
      BY <1>b, <1>c, <2>q, <3>2 DEF TaskStatus, AtWork, BeingAdded
    <3> QED BY <1>s, <2>4, <3>1, <3>3
  <2> QED BY <1>2, <2>7, <2>8, <2>9, <2>10, <2>11 DEF WorkerStep, Run
<1>3. CASE Exit(w)
  <2>1. stage[w] = "idle" /\ GoTo(w, "none") /\ UNCHANGED queue
    BY <1>3 DEF Exit, ExitWorker
  <2>2. task[w] = NoTask /\ \A v \in Workers : v # w => stage'[v] = stage[v]
    BY <1>0, <2>1 DEF GoTo, TypeOK, PoolTypeOK
  <2>3. Queued' = Queued
    BY <2>1 DEF Queued
  <2>4. \A y \in Tasks : TaskStatus(y)' = TaskStatus(y)
    BY <1>b, <1>c, <2>1, <2>2, <2>3, StatusKept, PoolAssumption DEF GoTo
  <2> QED BY <1>s, <2>4
<1> QED BY <1>1, <1>2, <1>3

\* Shutting down drops the queued tasks, or none.
LEMMA NextRefines ==
  IInv /\ PlaceInv /\ [Next]_vars => [Service!Next]_Status
<1> SUFFICES ASSUME IInv, PlaceInv, [Next]_vars PROVE [Service!Next]_Status
  OBVIOUS
<1>0. TypeOK
  BY DEF IInv
<1>1. ASSUME UNCHANGED <<stage, task, queue, arg, submitted>> PROVE UNCHANGED Status
  <2>1. \A y \in Tasks : TaskStatus(y)' = TaskStatus(y)
    BY <1>1, StatusKept DEF Queued, BeingAdded
  <2> QED BY <2>1 DEF Status
<1>2. ASSUME NEW b \in BOOLEAN, Shutdown(b) PROVE [Service!Next]_Status
  <2>1. UNCHANGED <<stage, task, arg, submitted>> /\ queue' \in {queue, << >>}
    BY <1>2 DEF Shutdown, StopPool, clientVars
  <2>2. CASE queue' = << >>
    <3>1. Queued' = {} /\ Queued \subseteq Tasks
      BY <1>0, <2>2, QueuePositions DEF Queued, TypeOK
    <3>2. \A x \in Queued : x \in submitted /\ ~BeingAdded(x) /\ \A w \in Workers : task[w] # x
      BY <3>1, PoolAssumption DEF PlaceInv, Busy, BeingAdded
    <3>3. \A x \in Queued : TaskStatus(x) = "waiting" /\ TaskStatus(x)' = "over"
      BY <2>1, <3>1, <3>2 DEF TaskStatus, AtWork, BeingAdded
    <3>4. \A y \in Tasks : y \notin Queued => TaskStatus(y)' = TaskStatus(y)
      BY <2>1, <3>1, StatusKept DEF BeingAdded
    <3>5. Service!DropAll(Queued)
      BY <3>1, <3>3, <3>4 DEF Service!DropAll, Status
    <3> QED BY <3>1, <3>5 DEF Service!Next
  <2> QED BY <1>1, <2>1, <2>2
<1>3. CASE ClearActive \/ UNCHANGED vars
  BY <1>1, <1>3 DEF ClearActive, vars, poolVars, clientVars
<1> QED BY <1>2, <1>3, ClientRefines, WorkerRefines DEF Next

\* ThreadedTaskService implements RequestService: whatever its threads do, a task
\* that was added runs at most once, not after it was refused, dropped, drained or
\* interrupted, and stays over once it is over.
THEOREM Refinement == Spec => ImplementsRequestService
<1>1. IInv /\ PlaceInv /\ [Next]_vars => [Service!Next]_[x \in Tasks |-> TaskStatus(x)]
  BY NextRefines DEF Status
<1> QED
  BY <1>1, InitRefines, Invariance, PlaceIsUnique, PTL
  DEF Spec, ImplementsRequestService, Service!Spec
==============================================================================
