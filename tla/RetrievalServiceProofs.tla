----------------------- MODULE RetrievalServiceProofs -----------------------
(***************************************************************************)
(* What BasicRetrievalService promises for any number of workers, clients, *)
(* requests and URLs and any queue and pool size: the queue holds no       *)
(* duplicates, activeTasks agrees with what the workers execute, the queue *)
(* outgrows its size by less than the number of clients, and the service   *)
(* implements RequestService: under the refinement mapping RequestStatus   *)
(* each step is a step of the abstract specification or leaves the         *)
(* abstract state alone.                                                   *)
(***************************************************************************)
EXTENDS RetrievalService, FiniteSetTheorems, FunctionTheorems, TLAPS

USE DEF Urls

-----------------------------------------------------------------------------
(* Lemmas *)

\* A step that moves no worker into or out of the registered stages, and gives
\* none of those another task, leaves the agreement with activeTasks alone.
LEMMA RegisteredUnchanged ==
  ASSUME ActiveMatchesRegistered,
         \A w \in Workers : w \in Registered' <=> w \in Registered,
         \A w \in Workers : w \in Registered => task'[w] = task[w],
         active' = active,
         cleared' = cleared
  PROVE  ActiveMatchesRegistered'
<1>1. ASSUME NEW u PROVE RegisteredFor(u)' = RegisteredFor(u)
  BY DEF RegisteredFor, Registered
<1> QED BY <1>1 DEF ActiveMatchesRegistered

\* The workers executing a URL are finitely many, and so are the queued tasks and
\* the admitted clients.
LEMMA FiniteCounts ==
  ASSUME TypeOK
  PROVE  /\ \A u : IsFiniteSet(RegisteredFor(u)) /\ Cardinality(RegisteredFor(u)) \in Nat
         /\ IsFiniteSet(queue) /\ Cardinality(queue) \in Nat
         /\ IsFiniteSet(Admitted) /\ Cardinality(Admitted) \in Nat
         /\ Cardinality(Clients) \in Nat
<1>1. ASSUME NEW u PROVE IsFiniteSet(RegisteredFor(u))
  <2>1. RegisteredFor(u) \in SUBSET Workers
    BY DEF RegisteredFor, Registered
  <2> QED BY <2>1, PoolAssumption, FS_Subset
<1>2. IsFiniteSet(queue)
  BY PoolAssumption, FS_Subset DEF TypeOK
<1>3. IsFiniteSet(Admitted)
  <2>1. Admitted \in SUBSET Clients
    BY DEF Admitted
  <2> QED BY <2>1, ServiceAssumption, FS_Subset
<1> QED BY <1>1, <1>2, <1>3, ServiceAssumption, FS_CardinalityType

\* A new service, as the constructor leaves it, satisfies the invariant.
LEMMA InitIInv == Init => IInv
<1> SUFFICES ASSUME Init PROVE IInv
  OBVIOUS
<1> USE DEF Init, PoolInit
<1>1. TypeOK
  <2>1. PoolTypeOK
    BY ServiceAssumption DEF PoolTypeOK, Stages
  <2>2. cleared \in BOOLEAN
    BY Zenon
  <2> QED BY <2>1, <2>2, ServiceAssumption DEF TypeOK
<1>2. MonitorInv /\ QueueStillFree /\ NoDuplicateQueued
  BY ServiceAssumption DEF MonitorInv, QueueStillFree, NoDuplicateQueued
<1>3. \A u : RegisteredFor(u) = {}
  BY DEF RegisteredFor, Registered
<1>4. ActiveMatchesRegistered
  BY <1>3, FS_EmptySet DEF ActiveMatchesRegistered
<1>5. Admitted = {}
  BY DEF Admitted
<1>6. OverrunInv
  BY <1>1, <1>5, FiniteCounts, FS_EmptySet, ServiceAssumption DEF OverrunInv
<1> QED BY <1>1, <1>2, <1>4, <1>6 DEF IInv

\* What the clients know is not disturbed by a step that touches neither them nor
\* the queue, nor by one that only takes tasks off the queue.
LEMMA ClientsUndisturbed ==
  ASSUME IInv, TypeOK', UNCHANGED clientVars, queue' \subseteq queue
  PROVE  MonitorInv' /\ QueueStillFree' /\ NoDuplicateQueued' /\ OverrunInv'
<1>1. MonitorInv' /\ QueueStillFree' /\ NoDuplicateQueued'
  BY DEF IInv, clientVars, MonitorInv, QueueStillFree, QueueContains, NoDuplicateQueued
<1>2. Admitted' = Admitted
  BY DEF clientVars, Admitted
<1>3. IsFiniteSet(queue) /\ Cardinality(queue) \in Nat
      /\ Cardinality(Admitted) \in Nat /\ Cardinality(Clients) \in Nat
  BY FiniteCounts DEF IInv
<1>4. Cardinality(queue') <= Cardinality(queue) /\ Cardinality(queue') \in Nat
  BY <1>3, FS_Subset, FS_CardinalityType
<1>5. OverrunInv'
  BY <1>2, <1>3, <1>4, ServiceAssumption DEF IInv, OverrunInv
<1> QED BY <1>1, <1>5

\* A client that leaves runRetriever() without submitting anything.
LEMMA ClientLeaves ==
  ASSUME IInv, TypeOK', NEW c \in Clients,
         at' = [at EXCEPT ![c] = "idle"], queue' = queue
  PROVE  OverrunInv'
<1>1. Admitted' = Admitted \ {c}
  BY DEF IInv, TypeOK, Admitted
<1>2. IsFiniteSet(Admitted) /\ Cardinality(queue) \in Nat
      /\ Cardinality(Admitted) \in Nat /\ Cardinality(Clients) \in Nat
  BY FiniteCounts DEF IInv
<1>3. Cardinality(Admitted') <= Cardinality(Admitted) /\ Cardinality(Admitted') \in Nat
  <2>1. Admitted' \in SUBSET Admitted
    BY <1>1
  <2> QED BY <1>2, <2>1, FS_Subset, FS_CardinalityType
<1> QED BY <1>2, <1>3, ServiceAssumption DEF IInv, OverrunInv

-----------------------------------------------------------------------------
(* The steps of a client *)

\* The steps of isAvailable() and runRetriever() preserve the invariant.
LEMMA ClientIInv ==
  ASSUME IInv, NEW c \in Clients, ClientStep(c)
  PROVE  IInv'
<1>0. TypeOK /\ MonitorInv /\ QueueStillFree /\ NoDuplicateQueued
      /\ ActiveMatchesRegistered /\ OverrunInv
  BY DEF IInv
<1>1. CASE IsAvailable(c)
  <2>1. TypeOK'
    BY <1>0, <1>1 DEF IsAvailable, TypeOK, PoolTypeOK, poolVars
  <2>2. MonitorInv' /\ QueueStillFree' /\ NoDuplicateQueued'
    BY <1>0, <1>1
    DEF IsAvailable, TypeOK, MonitorInv, QueueStillFree, QueueContains, NoDuplicateQueued
  <2>3. ActiveMatchesRegistered'
    BY <1>0, <1>1, RegisteredUnchanged DEF IsAvailable, poolVars, Registered
  <2>4. OverrunInv'
    <3>1. Admitted' \in SUBSET Clients
      BY DEF Admitted
    <3>2. Cardinality(Admitted') <= Cardinality(Clients) /\ Cardinality(Admitted') \in Nat
      BY <3>1, FS_Subset, FS_CardinalityType, ServiceAssumption
    <3> QED BY <1>0, <1>1, <3>2, FiniteCounts, ServiceAssumption DEF IsAvailable, OverrunInv
  <2> QED BY <2>1, <2>2, <2>3, <2>4 DEF IInv
<1>2. ASSUME NEW x \in Tasks, RunRetriever(c, x) PROVE IInv'
  <2>1. TypeOK'
    BY <1>0, <1>2, PoolAssumption DEF RunRetriever, TypeOK, PoolTypeOK, poolVars
  <2>2. MonitorInv' /\ QueueStillFree' /\ NoDuplicateQueued'
    BY <1>0, <1>2, ServiceAssumption
    DEF RunRetriever, TypeOK, MonitorInv, QueueStillFree, QueueContains, NoDuplicateQueued
  <2>3. ActiveMatchesRegistered'
    BY <1>0, <1>2, RegisteredUnchanged DEF RunRetriever, poolVars, Registered
  <2>4. OverrunInv'
    <3>1. CASE ActiveContains(x)
      BY <1>2, <2>1, <3>1, ClientLeaves DEF RunRetriever
    <3>2. CASE ~ActiveContains(x)
      <4>1. Admitted' = Admitted
        BY <1>0, <1>2, <3>2 DEF RunRetriever, TypeOK, Admitted
      <4> QED BY <1>0, <1>2, <4>1 DEF RunRetriever, OverrunInv
    <3> QED BY <3>1, <3>2
  <2> QED BY <2>1, <2>2, <2>3, <2>4 DEF IInv
<1>3. CASE LookInQueue(c)
  <2>1. TypeOK'
    BY <1>0, <1>3 DEF LookInQueue, TypeOK, PoolTypeOK, poolVars
  <2>2. MonitorInv' /\ QueueStillFree' /\ NoDuplicateQueued'
    BY <1>0, <1>3, ServiceAssumption
    DEF LookInQueue, TypeOK, MonitorInv, QueueStillFree, QueueContains, NoDuplicateQueued
  <2>3. ActiveMatchesRegistered'
    BY <1>0, <1>3, RegisteredUnchanged DEF LookInQueue, poolVars, Registered
  <2>4. OverrunInv'
    <3>1. CASE QueueContains(arg[c])
      BY <1>3, <2>1, <3>1, ClientLeaves DEF LookInQueue
    <3>2. CASE ~QueueContains(arg[c])
      <4>1. Admitted' = Admitted
        BY <1>0, <1>3, <3>2 DEF LookInQueue, TypeOK, Admitted
      <4> QED BY <1>0, <1>3, <4>1 DEF LookInQueue, OverrunInv
    <3> QED BY <3>1, <3>2
  <2> QED BY <2>1, <2>2, <2>3, <2>4 DEF IInv
<1>4. CASE Execute(c)
  <2>0. /\ arg[c] \in Tasks
        /\ ~QueueContains(arg[c])
        /\ at[c] = "execute" /\ monitor = c
        /\ at' = [at EXCEPT ![c] = "idle"]
        /\ arg' = [arg EXCEPT ![c] = NoTask]
        /\ monitor' = NoClient
        /\ future' = [future EXCEPT ![arg[c]] = "new"]
        /\ UNCHANGED <<active, aged, cleared>>
    BY <1>0, <1>4 DEF Execute, TypeOK, QueueStillFree, MonitorInv
  <2>1. \/ /\ \E w \in Workers \ Alive : Assign(w, arg[c])
           /\ UNCHANGED <<queue, rejected>>
        \/ /\ queue' = queue \cup {arg[c]}
           /\ UNCHANGED <<poolVars, rejected>>
        \/ /\ rejected' = rejected \cup {arg[c]}
           /\ UNCHANGED <<poolVars, queue>>
    BY <1>4 DEF Execute, ExecutorAccepts, StartWorker
  <2>2. PoolTypeOK' /\ (\A w \in Workers : w \in Registered' <=> w \in Registered)
        /\ \A w \in Workers : w \in Registered => task'[w] = task[w]
    <3>1. CASE UNCHANGED poolVars
      BY <1>0, <3>1 DEF TypeOK, PoolTypeOK, poolVars, Registered
    <3>2. ASSUME NEW w \in Workers \ Alive, Assign(w, arg[c])
          PROVE  /\ PoolTypeOK'
                 /\ \A v \in Workers : v \in Registered' <=> v \in Registered
                 /\ \A v \in Workers : v \in Registered => task'[v] = task[v]
      BY <1>0, <2>0, <3>2, PoolAssumption
      DEF Assign, TypeOK, PoolTypeOK, Stages, Alive, Registered
    <3> QED BY <2>1, <3>1, <3>2
  <2>3. TypeOK'
    BY <1>0, <2>0, <2>1, <2>2 DEF TypeOK
  <2>4. MonitorInv'
    BY <1>0, <2>0, ServiceAssumption DEF TypeOK, MonitorInv
  <2>5. QueueStillFree'
    BY <1>0, <2>0, <2>4 DEF TypeOK, MonitorInv, QueueStillFree
  <2>6. NoDuplicateQueued'
    BY <1>0, <2>0, <2>1 DEF NoDuplicateQueued, QueueContains
  <2>7. ActiveMatchesRegistered'
    BY <1>0, <2>0, <2>2, RegisteredUnchanged
  <2>8. OverrunInv'
    <3>1. Admitted' = Admitted \ {c} /\ c \in Admitted
      BY <1>0, <2>0 DEF TypeOK, Admitted
    <3>2. IsFiniteSet(Admitted) /\ Cardinality(Admitted) \in Nat
          /\ IsFiniteSet(queue) /\ Cardinality(queue) \in Nat
          /\ Cardinality(Clients) \in Nat
      BY <1>0, FiniteCounts
    <3>3. Cardinality(Admitted') = Cardinality(Admitted) - 1
      BY <3>1, <3>2, FS_RemoveElement
    <3>4. queue' = queue \/ queue' = queue \cup {arg[c]}
      BY <2>1
    <3>5. Cardinality(queue') \in {Cardinality(queue), Cardinality(queue) + 1}
      BY <3>2, <3>4, FS_AddElement
    <3> QED BY <1>0, <3>2, <3>3, <3>5, ServiceAssumption DEF OverrunInv
  <2> QED BY <2>3, <2>4, <2>5, <2>6, <2>7, <2>8 DEF IInv
<1> QED BY <1>1, <1>2, <1>3, <1>4 DEF ClientStep

-----------------------------------------------------------------------------
(* The steps of a worker *)

\* Every step of a worker touches the worker's own stage and task only.
LEMMA WorkerIInv ==
  ASSUME IInv, NEW w \in Workers, WorkerStep(w)
  PROVE  IInv'
<1>0. TypeOK /\ ActiveMatchesRegistered
  BY DEF IInv
<1>1. CASE Take(w)
  <2>1. PICK x \in queue : Assign(w, x) /\ queue' = queue \ {x}
    BY <1>1 DEF Take
  <2>2. TypeOK'
    BY <1>0, <1>1, <2>1, PoolAssumption
    DEF Take, Assign, TypeOK, PoolTypeOK, Stages, clientVars
  <2>3. ActiveMatchesRegistered'
    BY <1>0, <1>1, <2>1, RegisteredUnchanged
    DEF Take, CanTake, Assign, TypeOK, PoolTypeOK, Registered
  <2> QED BY <1>1, <2>1, <2>2, <2>3, ClientsUndisturbed DEF Take, IInv
<1>2. CASE BeforeExecute(w)
  <2>1. TypeOK'
    BY <1>0, <1>2
    DEF BeforeExecute, Cancelled, GoTo, TypeOK, PoolTypeOK, Stages, clientVars
  <2>2. ActiveMatchesRegistered'
    BY <1>0, <1>2, RegisteredUnchanged DEF BeforeExecute, GoTo, TypeOK, PoolTypeOK, Registered
  <2> QED BY <1>2, <2>1, <2>2, ClientsUndisturbed DEF BeforeExecute, IInv
<1>3. CASE AddToActive(w)
  <2>t. task[w] \in Tasks
    BY <1>0, <1>3 DEF AddToActive, TypeOK, PoolTypeOK
  <2>0. PICK a \in Urls : a = Url[task[w]]
    BY <2>t DEF Urls
  <2>1. TypeOK'
    BY <1>0, <1>3, <2>t DEF AddToActive, GoTo, TypeOK, PoolTypeOK, Stages, clientVars
  <2>2. /\ RegisteredFor(a)' = RegisteredFor(a) \cup {w}
        /\ w \notin RegisteredFor(a)
        /\ \A u \in Urls : u # a => RegisteredFor(u)' = RegisteredFor(u)
    BY <1>0, <1>3, <2>0 DEF AddToActive, GoTo, TypeOK, PoolTypeOK, Registered, RegisteredFor
  <2>3. Cardinality(RegisteredFor(a)') = Cardinality(RegisteredFor(a)) + 1
    BY <1>0, <2>2, FiniteCounts, FS_AddElement
  <2>4. ActiveMatchesRegistered'
    <3> SUFFICES ASSUME NEW u \in Urls
                 PROVE  /\ active'[u] <= Cardinality(RegisteredFor(u)')
                        /\ ~cleared => active'[u] = Cardinality(RegisteredFor(u)')
      BY <1>3 DEF AddToActive, ActiveMatchesRegistered
    <3>1. /\ active[u] \in Nat /\ Cardinality(RegisteredFor(u)) \in Nat
          /\ active[u] <= Cardinality(RegisteredFor(u))
          /\ ~cleared => active[u] = Cardinality(RegisteredFor(u))
      BY <1>0, FiniteCounts DEF TypeOK, ActiveMatchesRegistered
    <3>2. active'[u] = IF u = a THEN active[u] + 1 ELSE active[u]
      BY <1>0, <1>3, <2>0 DEF AddToActive, TypeOK
    <3>3. CASE u = a
      <4>1. Cardinality(RegisteredFor(u)') = Cardinality(RegisteredFor(u)) + 1
        BY <2>3, <3>3
      <4> QED BY <3>1, <3>2, <3>3, <4>1
    <3>4. CASE u # a
      <4>1. RegisteredFor(u)' = RegisteredFor(u)
        BY <2>2, <3>4
      <4> QED BY <3>1, <3>2, <3>4, <4>1
    <3> QED BY <3>3, <3>4
  <2> QED BY <1>3, <2>1, <2>4, ClientsUndisturbed DEF AddToActive, IInv
<1>4. CASE Run(w)
  <2>1. GoTo(w, "call") \/ GoTo(w, "after")
    BY <1>4 DEF Run
  <2>2. TypeOK'
    BY <1>0, <1>4, <2>1 DEF Run, GoTo, TypeOK, PoolTypeOK, Stages, clientVars
  <2>3. ActiveMatchesRegistered'
    BY <1>0, <1>4, <2>1, RegisteredUnchanged DEF Run, GoTo, TypeOK, PoolTypeOK, Registered
  <2> QED BY <1>4, <2>2, <2>3, ClientsUndisturbed DEF Run, IInv
<1>5. CASE CallEnds(w)
  <2>1. TypeOK'
    BY <1>0, <1>5 DEF CallEnds, GoTo, TypeOK, PoolTypeOK, Stages, clientVars
  <2>2. ActiveMatchesRegistered'
    BY <1>0, <1>5, RegisteredUnchanged DEF CallEnds, GoTo, TypeOK, PoolTypeOK, Registered
  <2> QED BY <1>5, <2>1, <2>2, ClientsUndisturbed DEF CallEnds, IInv
<1>6. CASE AfterExecute(w)
  <2>t. task[w] \in Tasks
    BY <1>0, <1>6 DEF AfterExecute, TypeOK, PoolTypeOK
  <2>0. PICK a \in Urls : a = Url[task[w]]
    BY <2>t DEF Urls
  <2>1. TypeOK'
    BY <1>0, <1>6, <2>t
    DEF AfterExecute, RemoveFromActive, Release, TypeOK, PoolTypeOK, Stages, clientVars
  <2>2. /\ RegisteredFor(a)' = RegisteredFor(a) \ {w}
        /\ w \in RegisteredFor(a)
        /\ \A u \in Urls : u # a => RegisteredFor(u)' = RegisteredFor(u)
    BY <1>0, <1>6, <2>0
    DEF AfterExecute, Release, TypeOK, PoolTypeOK, Registered, RegisteredFor
  <2>3. /\ Cardinality(RegisteredFor(a)') = Cardinality(RegisteredFor(a)) - 1
        /\ Cardinality(RegisteredFor(a)') \in Nat
    <3>1. IsFiniteSet(RegisteredFor(a))
      BY <1>0, FiniteCounts
    <3>2. IsFiniteSet(RegisteredFor(a) \ {w})
      BY <3>1, FS_RemoveElement
    <3>3. Cardinality(RegisteredFor(a) \ {w}) = Cardinality(RegisteredFor(a)) - 1
      BY <2>2, <3>1, FS_RemoveElement
    <3>4. Cardinality(RegisteredFor(a) \ {w}) \in Nat
      BY <3>2, FS_CardinalityType
    <3> QED BY <2>2, <3>3, <3>4
  <2>4. ActiveMatchesRegistered'
    <3> SUFFICES ASSUME NEW u \in Urls
                 PROVE  /\ active'[u] <= Cardinality(RegisteredFor(u)')
                        /\ ~cleared => active'[u] = Cardinality(RegisteredFor(u)')
      BY <1>6 DEF AfterExecute, ActiveMatchesRegistered
    <3>1. /\ active[u] \in Nat /\ Cardinality(RegisteredFor(u)) \in Nat
          /\ active[u] <= Cardinality(RegisteredFor(u))
          /\ ~cleared => active[u] = Cardinality(RegisteredFor(u))
      BY <1>0, FiniteCounts DEF TypeOK, ActiveMatchesRegistered
    <3>2. active'[u] = IF u # a THEN active[u]
                       ELSE IF active[u] > 0 THEN active[u] - 1 ELSE 0
      BY <1>0, <1>6, <2>0 DEF AfterExecute, RemoveFromActive, TypeOK
    <3>3. CASE u = a
      <4>1. /\ Cardinality(RegisteredFor(u)') = Cardinality(RegisteredFor(u)) - 1
            /\ Cardinality(RegisteredFor(u)') \in Nat
        BY <2>3, <3>3
      <4> QED BY <3>1, <3>2, <3>3, <4>1
    <3>4. CASE u # a
      <4>1. RegisteredFor(u)' = RegisteredFor(u)
        BY <2>2, <3>4
      <4> QED BY <3>1, <3>2, <3>4, <4>1
    <3> QED BY <3>3, <3>4
  <2> QED BY <1>6, <2>1, <2>4, ClientsUndisturbed DEF AfterExecute, IInv
<1>7. CASE Exit(w)
  <2>1. stage[w] = "idle" /\ GoTo(w, "none")
    BY <1>7 DEF Exit, ExitWorker
  <2>2. TypeOK'
    BY <1>0, <1>7, <2>1 DEF Exit, GoTo, TypeOK, PoolTypeOK, Stages, clientVars
  <2>3. ActiveMatchesRegistered'
    BY <1>0, <1>7, <2>1, RegisteredUnchanged DEF Exit, GoTo, TypeOK, PoolTypeOK, Registered
  <2> QED BY <1>7, <2>2, <2>3, ClientsUndisturbed DEF Exit, IInv
<1> QED BY <1>1, <1>2, <1>3, <1>4, <1>5, <1>6, <1>7 DEF WorkerStep

-----------------------------------------------------------------------------
(* The other steps *)

\* Every step of the service preserves the invariant: those of the clients and the
\* workers above, cancelling, ageing, resizing the pool and shutting down.
LEMMA NextIInv == IInv /\ [Next]_vars => IInv'
<1> SUFFICES ASSUME IInv, [Next]_vars PROVE IInv'
  OBVIOUS
<1>0. TypeOK /\ ActiveMatchesRegistered
  BY DEF IInv
<1>1. ASSUME NEW x \in Tasks, CancelFuture(x) PROVE IInv'
  <2>1. TypeOK'
    BY <1>0, <1>1
    DEF CancelFuture, Cancelled, TypeOK, PoolTypeOK, poolVars, clientVars
  <2>2. ActiveMatchesRegistered'
    BY <1>0, <1>1, RegisteredUnchanged DEF CancelFuture, poolVars, Registered
  <2> QED BY <1>1, <2>1, <2>2, ClientsUndisturbed DEF CancelFuture, IInv
<1>2. ASSUME NEW x \in Tasks, Age(x) PROVE IInv'
  <2>1. TypeOK'
    BY <1>0, <1>2 DEF Age, TypeOK, PoolTypeOK, poolVars, clientVars
  <2>2. ActiveMatchesRegistered'
    BY <1>0, <1>2, RegisteredUnchanged DEF Age, poolVars, Registered
  <2> QED BY <1>2, <2>1, <2>2, ClientsUndisturbed DEF Age, IInv
<1>3. ASSUME NEW n \in PoolSizes, SetRetrieverPoolSize(n) PROVE IInv'
  <2>1. /\ coreSize' = n /\ n \in Nat \ {0}
        /\ UNCHANGED <<task, maxSize, poolState>>
    BY <1>3, ServiceAssumption DEF SetRetrieverPoolSize, ResizeCore
  <2>2. PICK W \in SUBSET (Workers \ Alive) :
          stage' = [w \in Workers |-> IF w \in W THEN "idle" ELSE stage[w]]
    BY <1>3 DEF SetRetrieverPoolSize, ResizeCore
  <2>3. PoolTypeOK'
    BY <1>0, <2>1, <2>2 DEF TypeOK, PoolTypeOK, Stages, Alive
  <2>4. TypeOK'
    BY <1>0, <1>3, <2>3 DEF SetRetrieverPoolSize, TypeOK, clientVars
  <2>5. ActiveMatchesRegistered'
    BY <1>0, <1>3, <2>1, <2>2, RegisteredUnchanged DEF SetRetrieverPoolSize, Registered, Alive
  <2> QED BY <1>3, <2>4, <2>5, ClientsUndisturbed DEF SetRetrieverPoolSize, IInv
<1>4. ASSUME NEW b \in BOOLEAN, Shutdown(b) PROVE IInv'
  <2>1. /\ poolState' \in {"shutdown", "stop"}
        /\ queue' \subseteq queue
        /\ UNCHANGED <<stage, task, coreSize, maxSize>>
    BY <1>4 DEF Shutdown, StopPool
  <2>2. TypeOK'
    BY <1>0, <1>4, <2>1 DEF Shutdown, TypeOK, PoolTypeOK, clientVars
  <2>3. ActiveMatchesRegistered'
    BY <1>0, <1>4, <2>1, RegisteredUnchanged DEF Shutdown, Registered
  <2> QED BY <1>4, <2>1, <2>2, <2>3, ClientsUndisturbed DEF Shutdown, IInv
<1>5. CASE ClearActive
  <2>1. cleared' \in BOOLEAN /\ cleared' /\ active' = [u \in Urls |-> 0]
    BY <1>5, Zenon DEF ClearActive
  <2>2. TypeOK'
    BY <1>0, <1>5, <2>1 DEF ClearActive, TypeOK, PoolTypeOK, poolVars, clientVars
  <2>3. \A u : RegisteredFor(u)' = RegisteredFor(u) /\ Cardinality(RegisteredFor(u)) \in Nat
    BY <1>0, <1>5, FiniteCounts DEF ClearActive, poolVars, RegisteredFor, Registered
  <2>4. ActiveMatchesRegistered'
    BY <2>1, <2>3 DEF ActiveMatchesRegistered
  <2> QED BY <1>5, <2>2, <2>4, ClientsUndisturbed DEF ClearActive, IInv
<1>6. CASE UNCHANGED vars
  <2>1. TypeOK'
    BY <1>0, <1>6 DEF vars, TypeOK, PoolTypeOK, poolVars, clientVars
  <2>2. ActiveMatchesRegistered'
    BY <1>0, <1>6, RegisteredUnchanged DEF vars, poolVars, Registered
  <2> QED BY <1>6, <2>1, <2>2, ClientsUndisturbed DEF vars, IInv
<1>7. CASE SetMaximumSize
  <2>1. TypeOK'
    BY <1>0, <1>7 DEF SetMaximumSize, ResizeMaximum, TypeOK, PoolTypeOK, clientVars
  <2>2. ActiveMatchesRegistered'
    BY <1>0, <1>7, RegisteredUnchanged DEF SetMaximumSize, ResizeMaximum, Registered
  <2> QED BY <1>7, <2>1, <2>2, ClientsUndisturbed DEF SetMaximumSize, IInv
<1> QED
  BY <1>1, <1>2, <1>3, <1>4, <1>5, <1>6, <1>7, ClientIInv, WorkerIInv DEF Next

-----------------------------------------------------------------------------
(* The theorems about the queue and activeTasks *)

\* The inductive invariant of the service holds in every reachable state.
THEOREM Invariance == Spec => []IInv
BY InitIInv, NextIInv, PTL DEF Spec

\* Every reachable state is well typed; in particular a client has a task exactly
\* while it is inside runRetriever(), and the pool never becomes empty.
THEOREM TypeCorrect == Spec => []TypeOK
<1>1. IInv => TypeOK
  BY DEF IInv
<1> QED BY <1>1, Invariance, PTL

\* No two queued tasks are for the same URL, for any number of clients.
THEOREM QueueHasNoDuplicates == Spec => []NoDuplicateQueued
<1>1. IInv => NoDuplicateQueued
  BY DEF IInv
<1> QED BY <1>1, Invariance, PTL

\* activeTasks has as many tasks for a URL as workers are executing, for any
\* number of workers and duplicates, and never more after shutdown().
THEOREM ActiveAgrees == Spec => []ActiveMatchesRegistered
<1>1. IInv => ActiveMatchesRegistered
  BY DEF IInv
<1> QED BY <1>1, Invariance, PTL

\* N clients that ask isAvailable() first overrun the queue size by at most N - 1.
THEOREM OverrunIsBounded == Spec => []QueueOverrunBounded
<1>1. IInv => QueueOverrunBounded
  BY FiniteCounts, ServiceAssumption DEF IInv, OverrunInv, QueueOverrunBounded
<1> QED BY <1>1, Invariance, PTL

-----------------------------------------------------------------------------
(* Every queued task has a thread *)

\* A step after which every thread is still there and nothing new is queued.
LEMMA StillServed ==
  ASSUME ServedInv,
         \A w \in Workers : stage[w] # "none" => stage'[w] # "none",
         queue' \subseteq queue,
         poolState' = "stop" => poolState = "stop" \/ queue' = {}
  PROVE  ServedInv'
BY DEF ServedInv, QueueIsServed, Alive

\* The threads are finitely many, and with a positive number there is one.
LEMMA SomebodyAlive ==
  /\ IsFiniteSet(Alive) /\ Cardinality(Alive) \in Nat
  /\ Cardinality(Alive) >= 1 => Alive # {}
<1>1. Alive \in SUBSET Workers
  BY DEF Alive
<1>2. IsFiniteSet(Alive)
  BY <1>1, PoolAssumption, FS_Subset
<1> QED BY <1>2, FS_CardinalityType, FS_EmptySet

\* No step leaves a queued task without a thread: a task is queued only when the
\* pool is full of threads, and the last thread leaves only an empty queue,
\* also while a resized pool has its new core size and still its old maximum.
LEMMA NextServedInv == IInv /\ ServedInv /\ [Next]_vars => ServedInv'
<1> SUFFICES ASSUME IInv, ServedInv, [Next]_vars PROVE ServedInv'
  OBVIOUS
<1>0. TypeOK
  BY DEF IInv
<1>1. ASSUME NEW c \in Clients, ClientStep(c) PROVE ServedInv'
  <2>1. CASE IsAvailable(c) \/ LookInQueue(c) \/ \E x \in Tasks : RunRetriever(c, x)
    BY <2>1, StillServed DEF IsAvailable, LookInQueue, RunRetriever, poolVars
  <2>2. CASE Execute(c)
    <3>1. CASE queue' = queue /\ \E w \in Workers \ Alive : Assign(w, arg[c])
      BY <1>0, <3>1, StillServed DEF Assign, Alive, TypeOK, PoolTypeOK
    <3>2. CASE ~CanStart /\ poolState = "running" /\ UNCHANGED poolVars
      <4>1. coreSize \in Nat \ {0} /\ ~(Cardinality(Alive) < coreSize)
        BY <1>0, <3>2 DEF CanStart, TypeOK, PoolTypeOK
      <4>2. Alive # {}
        BY <4>1, SomebodyAlive
      <4> QED BY <3>2, <4>2 DEF ServedInv, QueueIsServed, Alive, poolVars
    <3>3. CASE UNCHANGED <<poolVars, queue>>
      BY <3>3, StillServed DEF poolVars
    <3> QED BY <2>2, <3>1, <3>2, <3>3 DEF Execute, ExecutorAccepts, StartWorker
  <2> QED BY <1>1, <2>1, <2>2 DEF ClientStep
<1>2. ASSUME NEW w \in Workers, WorkerStep(w) PROVE ServedInv'
  <2>1. CASE Take(w)
    BY <1>0, <2>1, StillServed DEF Take, Assign, TypeOK, PoolTypeOK
  <2>2. CASE BeforeExecute(w) \/ AddToActive(w) \/ Run(w) \/ CallEnds(w)
    <3>1. \/ GoTo(w, "register") \/ GoTo(w, "run")
          \/ GoTo(w, "call") \/ GoTo(w, "after")
      BY <2>2 DEF BeforeExecute, AddToActive, Run, CallEnds
    <3>2. queue' = queue
      BY <2>2 DEF BeforeExecute, AddToActive, Run, CallEnds
    <3> QED BY <1>0, <3>1, <3>2, StillServed DEF GoTo, TypeOK, PoolTypeOK
  <2>3. CASE AfterExecute(w)
    BY <1>0, <2>3, StillServed DEF AfterExecute, Release, TypeOK, PoolTypeOK
  <2>4. CASE Exit(w)
    <3>1. /\ queue' = queue /\ poolState' = poolState
          /\ stage' = [stage EXCEPT ![w] = "none"]
          /\ \/ poolState = "stop"
             \/ poolState = "shutdown" /\ queue = {}
             \/ Cardinality(Alive) > maxSize
             \/ Cardinality(Alive) > coreSize
      BY <2>4 DEF Exit, ExitWorker, GoTo
    <3>2. CASE queue = {}
      BY <3>1, <3>2 DEF ServedInv, QueueIsServed
    <3>3. CASE queue # {}
      <4>1. Cardinality(Alive) > 1 /\ poolState # "stop"
        BY <1>0, <3>1, <3>3, SomebodyAlive DEF ServedInv, TypeOK, PoolTypeOK
      <4>2. w \in Alive
        BY <2>4 DEF Exit, ExitWorker, Alive
      <4>3. Alive' = Alive \ {w}
        BY <1>0, <3>1 DEF Alive, TypeOK, PoolTypeOK
      <4>4. Cardinality(Alive \ {w}) = Cardinality(Alive) - 1
        BY <4>2, SomebodyAlive, FS_RemoveElement
      <4>5. Alive \ {w} # {}
        <5>1. Cardinality(Alive \ {w}) # 0
          BY <4>1, <4>4, SomebodyAlive
        <5>2. Cardinality({}) = 0
          BY FS_EmptySet
        <5> QED BY <5>1, <5>2, Zenon
      <4> QED BY <3>1, <4>1, <4>3, <4>5 DEF ServedInv, QueueIsServed
    <3> QED BY <3>2, <3>3
  <2> QED BY <1>2, <2>1, <2>2, <2>3, <2>4 DEF WorkerStep
<1>3. ASSUME NEW x \in Tasks, CancelFuture(x) \/ Age(x) PROVE ServedInv'
  BY <1>3, StillServed DEF CancelFuture, Age, poolVars
<1>4. ASSUME NEW n \in PoolSizes, SetRetrieverPoolSize(n) PROVE ServedInv'
  BY <1>4, StillServed DEF SetRetrieverPoolSize, ResizeCore
<1>5. ASSUME NEW b \in BOOLEAN, Shutdown(b) PROVE ServedInv'
  BY <1>5, StillServed DEF Shutdown, StopPool
<1>6. CASE ClearActive \/ UNCHANGED vars
  BY <1>6, StillServed DEF ClearActive, vars, poolVars
<1>7. CASE SetMaximumSize
  BY <1>7, StillServed DEF SetMaximumSize, ResizeMaximum
<1> QED BY <1>1, <1>2, <1>3, <1>4, <1>5, <1>6, <1>7 DEF Next

\* A queued request always has a thread, whatever the pool is resized to and
\* whenever the service is shut down.
THEOREM EveryQueuedHasAThread == Spec => []QueueIsServed
<1>1. Init => ServedInv
  BY DEF Init, PoolInit, ServedInv, QueueIsServed
<1>2. ServedInv => QueueIsServed
  BY DEF ServedInv
<1> QED BY <1>1, <1>2, NextServedInv, Invariance, PTL DEF Spec

-----------------------------------------------------------------------------
(* Every task has one place *)

\* A new service has no tasks.
LEMMA InitPlaceInv == Init => PlaceInv
BY DEF Init, PoolInit, PlaceInv, Busy

\* A step that neither moves a task nor creates one keeps every task in its place.
LEMMA PlacesKept ==
  ASSUME IInv, PlaceInv, UNCHANGED arg,
         queue' \subseteq queue,
         \A w \in Workers : task'[w] \in {task[w], NoTask},
         \A x \in Tasks : future'[x] = "none" <=> future[x] = "none"
  PROVE  PlaceInv'
<1>1. TypeOK
  BY DEF IInv
<1>2. Busy' \subseteq Busy /\ \A w \in Busy' : task'[w] = task[w]
  BY DEF Busy
<1> QED BY <1>1, <1>2 DEF PlaceInv, Busy, TypeOK, PoolTypeOK

\* Every step of the service keeps each task in one place.
LEMMA NextPlaceInv == IInv /\ PlaceInv /\ [Next]_vars => PlaceInv'
<1> SUFFICES ASSUME IInv, PlaceInv, [Next]_vars PROVE PlaceInv'
  OBVIOUS
<1>0. TypeOK /\ MonitorInv
  BY DEF IInv
<1>1. ASSUME NEW c \in Clients, ClientStep(c) PROVE PlaceInv'
  <2>1. CASE IsAvailable(c)
    BY <1>0, <2>1, PlacesKept DEF IsAvailable, poolVars, TypeOK
  <2>2. ASSUME NEW x \in Tasks, RunRetriever(c, x) PROVE PlaceInv'
    BY <1>0, <2>2 DEF RunRetriever, poolVars, TypeOK, PlaceInv, Busy
  <2>3. CASE LookInQueue(c)
    BY <1>0, <2>3 DEF LookInQueue, poolVars, TypeOK, PlaceInv, Busy
  <2>4. CASE Execute(c)
    <3>1. /\ arg[c] \in Tasks /\ future[arg[c]] = "none" /\ arg[c] # NoTask
          /\ arg' = [arg EXCEPT ![c] = NoTask]
          /\ future' = [future EXCEPT ![arg[c]] = "new"]
          /\ \A d \in Clients : d # c => arg[d] = NoTask
      BY <1>0, <2>4, PoolAssumption DEF Execute, TypeOK, MonitorInv, PlaceInv
    <3>2. /\ arg[c] \notin queue
          /\ \A w \in Busy : task[w] # arg[c]
      BY <3>1 DEF PlaceInv
    <3>3. \A d \in Clients : arg'[d] = NoTask
      BY <1>0, <3>1 DEF TypeOK
    <3>4. \A x \in Tasks : future'[x] = IF x = arg[c] THEN "new" ELSE future[x]
      BY <1>0, <3>1 DEF TypeOK
    <3>5. ASSUME NEW w \in Workers \ Alive, Assign(w, arg[c]), queue' = queue
          PROVE  PlaceInv'
      <4>1. Busy' = Busy \cup {w} /\ w \notin Busy
        BY <1>0, <3>1, <3>5 DEF Assign, TypeOK, PoolTypeOK, Busy, Alive
      <4>2. \A v \in Workers : task'[v] = IF v = w THEN arg[c] ELSE task[v]
        BY <1>0, <3>5 DEF Assign, TypeOK, PoolTypeOK
      <4>3. \A v \in Busy : task[v] \in Tasks /\ v \in Workers
        BY <1>0 DEF TypeOK, PoolTypeOK, Busy
      <4>4. queue \subseteq Tasks
        BY <1>0 DEF TypeOK
      <4> QED BY <3>1, <3>2, <3>3, <3>4, <3>5, <4>1, <4>2, <4>3, <4>4 DEF PlaceInv
    <3>6. ASSUME UNCHANGED poolVars, queue' \subseteq queue \cup {arg[c]}
          PROVE  PlaceInv'
      <4>1. Busy' = Busy /\ task' = task
        BY <3>6 DEF Busy, poolVars
      <4>2. \A v \in Busy : task[v] \in Tasks
        BY <1>0 DEF TypeOK, PoolTypeOK, Busy
      <4>3. queue \subseteq Tasks
        BY <1>0 DEF TypeOK
      <4> QED BY <3>1, <3>2, <3>3, <3>4, <3>6, <4>1, <4>2, <4>3 DEF PlaceInv
    <3> QED BY <2>4, <3>5, <3>6 DEF Execute, ExecutorAccepts, StartWorker
  <2> QED BY <1>1, <2>1, <2>2, <2>3, <2>4 DEF ClientStep
<1>2. ASSUME NEW w \in Workers, WorkerStep(w) PROVE PlaceInv'
  <2>1. CASE Take(w)
    <3>1. PICK x \in queue : Assign(w, x) /\ queue' = queue \ {x}
      BY <2>1 DEF Take
    <3>2. w \notin Busy /\ x \in Tasks /\ x # NoTask
      BY <1>0, <2>1, <3>1, PoolAssumption DEF Take, CanTake, TypeOK, PoolTypeOK, Busy
    <3>3. \A v \in Workers : task'[v] = IF v = w THEN x ELSE task[v]
      BY <1>0, <3>1 DEF Assign, TypeOK, PoolTypeOK
    <3>4. Busy' = Busy \cup {w}
      BY <3>2, <3>3 DEF Busy
    <3>5. UNCHANGED <<future, arg>>
      BY <2>1 DEF Take, clientVars
    <3>6. \A v \in Busy : v \in Workers
      BY DEF Busy
    <3> QED BY <3>1, <3>2, <3>3, <3>4, <3>5, <3>6 DEF PlaceInv
  <2>2. CASE BeforeExecute(w)
    BY <1>0, <2>2, PlacesKept
    DEF BeforeExecute, Cancelled, GoTo, TypeOK, PoolTypeOK, clientVars
  <2>3. CASE AddToActive(w) \/ Run(w)
    BY <1>0, <2>3, PlacesKept
    DEF AddToActive, Run, GoTo, TypeOK, PoolTypeOK, clientVars
  <2>4. CASE CallEnds(w)
    BY <1>0, <2>4, PlacesKept DEF CallEnds, GoTo, TypeOK, PoolTypeOK, clientVars
  <2>5. CASE AfterExecute(w)
    BY <1>0, <2>5, PlacesKept DEF AfterExecute, Release, TypeOK, PoolTypeOK, clientVars
  <2>6. CASE Exit(w)
    BY <1>0, <2>6, PlacesKept
    DEF Exit, ExitWorker, GoTo, TypeOK, PoolTypeOK, clientVars
  <2> QED BY <1>2, <2>1, <2>2, <2>3, <2>4, <2>5, <2>6 DEF WorkerStep
<1>3. ASSUME NEW x \in Tasks, CancelFuture(x) PROVE PlaceInv'
  BY <1>0, <1>3, PlacesKept DEF CancelFuture, Cancelled, TypeOK, poolVars, clientVars
<1>4. ASSUME NEW x \in Tasks, Age(x) PROVE PlaceInv'
  BY <1>0, <1>4, PlacesKept DEF Age, TypeOK, poolVars, clientVars
<1>5. ASSUME NEW n \in PoolSizes, SetRetrieverPoolSize(n) PROVE PlaceInv'
  BY <1>0, <1>5, PlacesKept DEF SetRetrieverPoolSize, ResizeCore, TypeOK, clientVars
<1>6. ASSUME NEW b \in BOOLEAN, Shutdown(b) PROVE PlaceInv'
  BY <1>0, <1>6, PlacesKept DEF Shutdown, StopPool, TypeOK, clientVars
<1>7. CASE ClearActive
  BY <1>0, <1>7, PlacesKept DEF ClearActive, TypeOK, poolVars, clientVars
<1>8. CASE UNCHANGED vars
  BY <1>0, <1>8, PlacesKept DEF vars, TypeOK, poolVars, clientVars
<1>9. CASE SetMaximumSize
  BY <1>0, <1>9, PlacesKept DEF SetMaximumSize, ResizeMaximum, TypeOK, clientVars
<1> QED BY <1>1, <1>2, <1>3, <1>4, <1>5, <1>6, <1>7, <1>8, <1>9 DEF Next

\* In every reachable state a submitted task is in the queue, with exactly one
\* worker, or nowhere any more.
THEOREM PlaceIsUnique == Spec => []PlaceInv
BY Invariance, InitPlaceInv, NextPlaceInv, PTL DEF Spec

-----------------------------------------------------------------------------
(* The refinement mapping *)

Status == [x \in Tasks |-> RequestStatus(x)]

\* A step that does not touch a task leaves its status alone.
LEMMA StatusKept ==
  ASSUME NEW y \in Tasks,
         future'[y] = future[y],
         y \in queue' <=> y \in queue,
         \A w \in Workers : /\ task'[w] = y <=> task[w] = y
                            /\ task[w] = y => stage'[w] = stage[w]
  PROVE  RequestStatus(y)' = RequestStatus(y)
<1>1. \A s : AtWork(y, s)' <=> AtWork(y, s)
  BY DEF AtWork
<1> QED BY <1>1 DEF RequestStatus

\* The status of a task that a worker has, which only depends on that worker.
LEMMA StatusAtWork ==
  ASSUME TypeOK, PlaceInv, NEW w \in Busy
  PROVE  RequestStatus(task[w]) =
           IF stage[w] = "call" THEN "running"
           ELSE IF future[task[w]] = "new" /\ stage[w] \in {"begin", "register", "run"}
                THEN "waiting" ELSE "over"
<1>1. \A s : AtWork(task[w], s) <=> stage[w] \in s
  BY DEF AtWork, PlaceInv, Busy
<1>2. future[task[w]] # "none" /\ task[w] \notin queue
  BY DEF PlaceInv
<1> QED BY <1>1, <1>2 DEF RequestStatus

\* The status of a task that no worker has.
LEMMA StatusNotAtWork ==
  ASSUME NEW y \in Tasks, \A w \in Workers : task[w] # y
  PROVE  RequestStatus(y) = IF future[y] = "none" THEN "none"
                            ELSE IF future[y] = "new" /\ y \in queue THEN "waiting" ELSE "over"
BY DEF RequestStatus, AtWork

\* While a worker has not called its task yet, fewer tasks than there are workers
\* are being called.
LEMMA RoomToRun ==
  ASSUME TypeOK, NEW w \in Workers, stage[w] = "run"
  PROVE  Cardinality(Service!Running) < Cardinality(Workers)
<1> DEFINE R == Service!Running
           f == [x \in R |-> CHOOSE v \in Workers : task[v] = x /\ stage[v] = "call"]
<1>1. \A x \in R : \E v \in Workers : task[v] = x /\ stage[v] = "call"
  BY DEF Service!Running, RequestStatus, AtWork
<1>2. \A x \in R : f[x] \in Workers /\ task[f[x]] = x /\ stage[f[x]] = "call"
  BY <1>1
<1>3. f \in [R -> Workers]
  BY <1>2
<1> HIDE DEF R, f
<1>4. f \in Injection(R, Workers)
  BY <1>2, <1>3, Fun_IsInj
<1>5. f \notin Surjection(R, Workers)
  BY <1>2 DEF Surjection
<1>6. IsFiniteSet(R) /\ Cardinality(R) <= Cardinality(Workers)
      /\ Cardinality(R) # Cardinality(Workers)
  BY <1>4, <1>5, FS_Injection, PoolAssumption
<1>7. Cardinality(R) \in Nat /\ Cardinality(Workers) \in Nat
  BY <1>6, FS_CardinalityType, PoolAssumption
<1> QED BY <1>6, <1>7 DEF R

\* Initially no task has been submitted.
LEMMA InitRefines == Init => Service!Init
<1> SUFFICES ASSUME Init PROVE Service!Init
  OBVIOUS
<1>1. \A x \in Tasks : RequestStatus(x) = "none"
  BY DEF Init, RequestStatus
<1> QED BY <1>1 DEF Service!Init

\* runRetriever() submits a request, or the service rejects it.
LEMMA ClientRefines ==
  ASSUME IInv, PlaceInv, PlaceInv', IInv', NEW c \in Clients, ClientStep(c)
  PROVE  [Service!Next]_Status
<1>0. TypeOK /\ MonitorInv
  BY DEF IInv
<1>1. CASE ~Execute(c)
  <2>1. UNCHANGED <<stage, task, queue, future>>
    BY <1>1 DEF ClientStep, IsAvailable, RunRetriever, LookInQueue, poolVars
  <2>2. \A y \in Tasks : RequestStatus(y)' = RequestStatus(y)
    BY <2>1, StatusKept
  <2> QED BY <2>2 DEF Status
<1>2. CASE Execute(c)
  <2>0. PICK x \in Tasks : x = arg[c]
    BY <1>0, <1>2 DEF Execute, TypeOK
  <2>1. /\ future[x] = "none"
        /\ future' = [future EXCEPT ![x] = "new"]
        /\ x \notin queue
        /\ \A w \in Workers : task[w] # x
    BY <1>0, <1>2, <2>0, PoolAssumption DEF Execute, TypeOK, PlaceInv, Busy
  <2>2. Status[x] = "none"
    BY <2>1 DEF Status, RequestStatus
  <2>3. future'[x] = "new" /\ \A y \in Tasks : y # x => future'[y] = future[y]
    BY <1>0, <2>1 DEF TypeOK
  <2>4. ASSUME NEW w \in Workers \ Alive, Assign(w, x), queue' = queue
        PROVE  Service!Submit(x)
    <3>1. \A v \in Workers : /\ task'[v] = IF v = w THEN x ELSE task[v]
                             /\ stage'[v] = IF v = w THEN "begin" ELSE stage[v]
      BY <1>0, <2>4 DEF Assign, TypeOK, PoolTypeOK
    <3>2. task[w] = NoTask /\ x # NoTask /\ x \notin queue'
      BY <1>0, <2>1, <2>4, PoolAssumption DEF TypeOK, PoolTypeOK, Alive
    <3>3. RequestStatus(x)' = "waiting"
      <4>1. \A s : AtWork(x, s)' <=> "begin" \in s
        BY <2>1, <3>1 DEF AtWork
      <4> QED BY <2>3, <4>1 DEF RequestStatus
    <3>4. \A y \in Tasks : y # x => RequestStatus(y)' = RequestStatus(y)
      BY <2>3, <2>4, <3>1, <3>2, StatusKept, PoolAssumption
    <3> QED BY <2>1, <2>2, <3>3, <3>4 DEF Service!Submit, Status
  <2>5. ASSUME UNCHANGED poolVars, queue' = queue \cup {x}
        PROVE  Service!Submit(x)
    <3>1. RequestStatus(x)' = "waiting"
      BY <2>1, <2>3, <2>5 DEF RequestStatus, AtWork, poolVars
    <3>2. \A y \in Tasks : y # x => RequestStatus(y)' = RequestStatus(y)
      BY <2>3, <2>5, StatusKept DEF poolVars
    <3> QED BY <2>1, <2>2, <3>1, <3>2 DEF Service!Submit, Status
  <2>6. ASSUME UNCHANGED poolVars, queue' = queue
        PROVE  Service!Reject(x)
    <3>1. RequestStatus(x)' = "over"
      BY <2>1, <2>3, <2>6 DEF RequestStatus, AtWork, poolVars
    <3>2. \A y \in Tasks : y # x => RequestStatus(y)' = RequestStatus(y)
      BY <2>3, <2>6, StatusKept DEF poolVars
    <3> QED BY <2>1, <2>2, <3>1, <3>2 DEF Service!Reject, Status
  <2> QED BY <1>2, <2>0, <2>4, <2>5, <2>6 DEF Execute, ExecutorAccepts, StartWorker, Service!Next
<1> QED BY <1>1, <1>2

\* A worker's step starts or ends a request, drops it in beforeExecute(), or is
\* not seen by the client.
LEMMA WorkerRefines ==
  ASSUME IInv, PlaceInv, IInv', PlaceInv', NEW w \in Workers, WorkerStep(w)
  PROVE  [Service!Next]_Status
<1>0. TypeOK /\ TypeOK'
  BY DEF IInv
<1>s. ASSUME \A y \in Tasks : RequestStatus(y)' = RequestStatus(y) PROVE UNCHANGED Status
  BY <1>s DEF Status
<1>1. CASE Take(w)
  <2>1. PICK x \in queue : Assign(w, x) /\ queue' = queue \ {x}
    BY <1>1 DEF Take
  <2>2. /\ x \in Tasks /\ x # NoTask /\ task[w] = NoTask
        /\ \A v \in Workers : task[v] # x
        /\ UNCHANGED future
    BY <1>0, <1>1, <2>1, PoolAssumption
    DEF Take, CanTake, TypeOK, PoolTypeOK, PlaceInv, Busy
  <2>3. \A v \in Workers : /\ task'[v] = IF v = w THEN x ELSE task[v]
                           /\ stage'[v] = IF v = w THEN "begin" ELSE stage[v]
    BY <1>0, <2>1 DEF Assign, TypeOK, PoolTypeOK
  <2>4. \A y \in Tasks : y # x => RequestStatus(y)' = RequestStatus(y)
    BY <2>1, <2>2, <2>3, StatusKept, PoolAssumption
  <2>5. RequestStatus(x)' = RequestStatus(x)
    <3>1. \A s : AtWork(x, s)' <=> "begin" \in s
      BY <2>2, <2>3 DEF AtWork
    <3>2. future'[x] = future[x] /\ future[x] # "none"
      BY <2>2 DEF PlaceInv
    <3> QED BY <2>1, <2>2, <3>1, <3>2, StatusNotAtWork DEF RequestStatus
  <2> QED BY <1>s, <2>4, <2>5
<1>2. CASE ~Take(w) /\ ~Exit(w)
  <2>1. w \in Busy /\ task[w] \in Tasks /\ stage[w] \notin {"none", "idle"} /\ UNCHANGED queue
    BY <1>0, <1>2
    DEF WorkerStep, BeforeExecute, AddToActive, Run, CallEnds, AfterExecute, TypeOK,
        PoolTypeOK, Busy
  <2>x. PICK x \in Tasks : x = task[w]
    BY <2>1
  <2>2. \A v \in Workers \ {w} : task[v] # x /\ task'[v] = task[v] /\ stage'[v] = stage[v]
    BY <2>x, <1>0, <1>2, <2>1
    DEF WorkerStep, BeforeExecute, AddToActive, Run, CallEnds, AfterExecute, GoTo, Release,
        TypeOK, PoolTypeOK, PlaceInv, Busy
  <2>3. \A y \in Tasks \ {x} : future'[y] = future[y]
    BY <2>x, <1>0, <1>2, <2>1
    DEF WorkerStep, BeforeExecute, AddToActive, Run, CallEnds, AfterExecute, TypeOK
  <2>4. task'[w] \in {x, NoTask}
    BY <2>x, <1>0, <1>2
    DEF WorkerStep, BeforeExecute, AddToActive, Run, CallEnds, AfterExecute, GoTo, Release,
        TypeOK, PoolTypeOK
  <2>5. \A y \in Tasks \ {x} : RequestStatus(y)' = RequestStatus(y)
    BY <2>x, <2>1, <2>2, <2>3, <2>4, StatusKept, PoolAssumption
  <2>6. RequestStatus(x) = IF stage[w] = "call" THEN "running"
           ELSE IF future[x] = "new" /\ stage[w] \in {"begin", "register", "run"}
                THEN "waiting" ELSE "over"
    BY <2>x, <1>0, <2>1, StatusAtWork
  <2>7. future[x] # "none" /\ x \notin queue
    BY <2>x, <2>1 DEF PlaceInv
  <2>8. ASSUME NEW s \in Stages, GoTo(w, s)
        PROVE  /\ stage'[w] = s /\ x \notin queue'
               /\ \A t : AtWork(x, t)' <=> s \in t
    BY <2>x, <1>0, <2>1, <2>2, <2>7, <2>8 DEF GoTo, TypeOK, PoolTypeOK, AtWork
  <2>9. CASE BeforeExecute(w)
    <3>1. \A t : AtWork(x, t)' <=> "register" \in t
      BY <2>x, <2>8, <2>9 DEF BeforeExecute, Stages
    <3>2. x \notin queue' /\ stage[w] = "begin"
      BY <2>x, <2>1, <2>7, <2>9 DEF BeforeExecute
    <3>3. future'[x] = future[x] \/ (future[x] = "new" /\ future'[x] = "cancelled")
      BY <2>x, <1>0, <2>1, <2>9 DEF BeforeExecute, Cancelled, TypeOK
    <3>4. CASE future'[x] = future[x]
      <4>1. RequestStatus(x)' = RequestStatus(x)
        BY <2>x, <2>6, <2>7, <3>1, <3>2, <3>4 DEF RequestStatus
      <4> QED BY <1>s, <2>5, <4>1
    <3>5. CASE future[x] = "new" /\ future'[x] = "cancelled"
      <4>1. RequestStatus(x) = "waiting" /\ RequestStatus(x)' = "over"
        BY <2>x, <2>6, <3>1, <3>2, <3>5 DEF RequestStatus
      <4>2. Service!DropAll({x})
        BY <2>x, <2>1, <2>5, <4>1 DEF Service!DropAll, Status
      <4> QED BY <2>x, <2>1, <4>2 DEF Service!Next
    <3> QED BY <2>x, <3>3, <3>4, <3>5
  <2>10. CASE AddToActive(w)
    <3>1. \A t : AtWork(x, t)' <=> "run" \in t
      BY <2>x, <2>8, <2>10 DEF AddToActive, Stages
    <3>2. RequestStatus(x)' = RequestStatus(x)
      BY <2>x, <2>1, <2>6, <2>7, <2>10, <3>1 DEF RequestStatus, AddToActive
    <3> QED BY <1>s, <2>5, <3>2
  <2>11. CASE Run(w) /\ future[x] = "new"
    <3>1. \A t : AtWork(x, t)' <=> "call" \in t
      BY <2>x, <2>8, <2>11 DEF Run, Stages
    <3>2. RequestStatus(x) = "waiting" /\ RequestStatus(x)' = "running"
      BY <2>x, <2>6, <2>7, <2>11, <3>1 DEF RequestStatus, Run
    <3>3. Cardinality(Service!Running) < Cardinality(Workers)
      BY <2>x, <1>0, <2>11, RoomToRun DEF Run
    <3>4. /\ [y \in Tasks |-> RequestStatus(y)][x] = "waiting"
          /\ [y \in Tasks |-> RequestStatus(y)]' =
               [[y \in Tasks |-> RequestStatus(y)] EXCEPT ![x] = "running"]
      BY <2>5, <3>2
    <3>5. Service!Start(x)
      BY <3>3, <3>4, Zenon DEF Service!Start, Service!Cardinality, Cardinality
    <3> QED BY <2>x, <2>1, <3>5 DEF Service!Next
  <2>12. CASE Run(w) /\ future[x] # "new"
    <3>1. \A t : AtWork(x, t)' <=> "after" \in t
      BY <2>x, <2>8, <2>12 DEF Run, Stages
    <3>2. RequestStatus(x)' = RequestStatus(x)
      BY <2>x, <2>6, <2>7, <2>12, <3>1 DEF RequestStatus, Run
    <3> QED BY <1>s, <2>5, <3>2
  <2>13. CASE CallEnds(w)
    <3>1. \A t : AtWork(x, t)' <=> "after" \in t
      BY <2>x, <2>8, <2>13 DEF CallEnds, Stages
    <3>2. future'[x] # "none" /\ future'[x] # "new"
      BY <2>x, <1>0, <2>1, <2>7, <2>13 DEF CallEnds, TypeOK
    <3>3. RequestStatus(x) = "running" /\ RequestStatus(x)' = "over"
      BY <2>x, <2>6, <2>13, <3>1, <3>2 DEF RequestStatus, CallEnds
    <3>4. Service!End(x)
      BY <2>x, <2>1, <2>5, <3>3 DEF Service!End, Status
    <3> QED BY <2>x, <2>1, <3>4 DEF Service!Next
  <2>14. CASE AfterExecute(w)
    <3>1. RequestStatus(x) = "over"
      BY <2>x, <2>6, <2>14 DEF AfterExecute
    <3>2. \A v \in Workers : task'[v] # x
      BY <2>x, <1>0, <2>1, <2>2, <2>14, PoolAssumption
      DEF AfterExecute, Release, TypeOK, PoolTypeOK
    <3>3. future'[x] = future[x] /\ future[x] \in {"done", "cancelled"}
      BY <2>x, <2>14 DEF AfterExecute
    <3>4. RequestStatus(x)' = "over"
      BY <2>x, <3>2, <3>3 DEF RequestStatus, AtWork
    <3> QED BY <1>s, <2>5, <3>1, <3>4
  <2> QED BY <2>x, <1>2, <2>9, <2>10, <2>11, <2>12, <2>13, <2>14 DEF WorkerStep
<1>3. CASE Exit(w)
  <2>1. stage[w] = "idle" /\ GoTo(w, "none") /\ UNCHANGED <<queue, future>>
    BY <1>3 DEF Exit, ExitWorker
  <2>2. task[w] = NoTask /\ \A v \in Workers : v # w => stage'[v] = stage[v]
    BY <1>0, <2>1 DEF GoTo, TypeOK, PoolTypeOK
  <2>3. \A y \in Tasks : RequestStatus(y)' = RequestStatus(y)
    BY <2>1, <2>2, StatusKept, PoolAssumption DEF GoTo
  <2> QED BY <1>s, <2>3
<1> QED BY <1>1, <1>2, <1>3

\* Every other step drops waiting requests, or none.
LEMMA NextRefines ==
  IInv /\ PlaceInv /\ IInv' /\ PlaceInv' /\ [Next]_vars => [Service!Next]_Status
<1> SUFFICES ASSUME IInv, PlaceInv, IInv', PlaceInv', [Next]_vars
             PROVE  [Service!Next]_Status
  OBVIOUS
<1>0. TypeOK
  BY DEF IInv
<1>1. ASSUME UNCHANGED <<stage, task, queue, future>> PROVE UNCHANGED Status
  <2>1. \A y \in Tasks : RequestStatus(y)' = RequestStatus(y)
    BY <1>1, StatusKept
  <2> QED BY <2>1 DEF Status
<1>2. ASSUME NEW x \in Tasks, CancelFuture(x) PROVE [Service!Next]_Status
  <2>1. /\ UNCHANGED <<stage, task, queue>>
        /\ future[x] = "new" /\ future'[x] = "cancelled"
        /\ \A y \in Tasks : y # x => future'[y] = future[y]
    BY <1>0, <1>2 DEF CancelFuture, Cancelled, poolVars, TypeOK
  <2>2. \A y \in Tasks : y # x => RequestStatus(y)' = RequestStatus(y)
    BY <2>1, StatusKept
  <2>3. \A s : AtWork(x, s)' <=> AtWork(x, s)
    BY <2>1 DEF AtWork
  <2>4. CASE RequestStatus(x) = "waiting"
    <3>1. RequestStatus(x)' = "over"
      BY <2>1, <2>3, <2>4 DEF RequestStatus
    <3>2. Service!DropAll({x})
      BY <2>2, <2>4, <3>1 DEF Service!DropAll, Status
    <3> QED BY <3>2 DEF Service!Next
  <2>5. CASE RequestStatus(x) # "waiting"
    <3>1. RequestStatus(x)' = RequestStatus(x)
      BY <2>1, <2>3, <2>5 DEF RequestStatus
    <3> QED BY <2>2, <3>1 DEF Status
  <2> QED BY <2>4, <2>5
<1>3. ASSUME NEW n \in PoolSizes, SetRetrieverPoolSize(n) PROVE UNCHANGED Status
  <2>1. PICK W \in SUBSET (Workers \ Alive) :
          stage' = [w \in Workers |-> IF w \in W THEN "idle" ELSE stage[w]]
    BY <1>3 DEF SetRetrieverPoolSize, ResizeCore
  <2>2. UNCHANGED <<task, queue, future>>
    BY <1>3 DEF SetRetrieverPoolSize, ResizeCore
  <2>3. \A w \in Workers : task[w] \in Tasks => stage'[w] = stage[w]
    BY <1>0, <2>1, PoolAssumption DEF TypeOK, PoolTypeOK, Alive
  <2>4. \A y \in Tasks : RequestStatus(y)' = RequestStatus(y)
    BY <2>2, <2>3, StatusKept
  <2> QED BY <2>4 DEF Status
<1>4. ASSUME NEW b \in BOOLEAN, Shutdown(b) PROVE [Service!Next]_Status
  <2>1. UNCHANGED <<stage, task, future>> /\ queue' \in {queue, {}}
    BY <1>4 DEF Shutdown, StopPool
  <2>2. CASE queue' = {}
    <3> DEFINE S == {x \in queue : future[x] = "new"}
    <3>1. \A x \in queue : x \in Tasks /\ future[x] # "none" /\ \A w \in Workers : task[w] # x
      BY <1>0, PoolAssumption DEF TypeOK, PlaceInv, Busy
    <3>2. \A x \in S : RequestStatus(x) = "waiting" /\ RequestStatus(x)' = "over"
      BY <2>1, <2>2, <3>1 DEF RequestStatus, AtWork
    <3>3. \A y \in Tasks : y \notin S => RequestStatus(y)' = RequestStatus(y)
      <4> SUFFICES ASSUME NEW y \in Tasks, y \notin S
                   PROVE  RequestStatus(y)' = RequestStatus(y)
        OBVIOUS
      <4>1. \A s : AtWork(y, s)' <=> AtWork(y, s)
        BY <2>1 DEF AtWork
      <4> QED BY <2>1, <2>2, <4>1 DEF RequestStatus
    <3>4. S \subseteq Tasks
      BY <3>1
    <3>5. Service!DropAll(S)
      BY <3>2, <3>3, <3>4 DEF Service!DropAll, Status
    <3> QED BY <3>4, <3>5 DEF Service!Next
  <2> QED BY <1>1, <2>1, <2>2
<1>5. CASE SetMaximumSize \/ ClearActive \/ (\E x \in Tasks : Age(x)) \/ UNCHANGED vars
  BY <1>1, <1>5 DEF SetMaximumSize, ResizeMaximum, ClearActive, Age, vars, poolVars
<1> QED BY <1>2, <1>3, <1>4, <1>5, ClientRefines, WorkerRefines DEF Next

\* BasicRetrievalService implements RequestService: whatever its threads do, a
\* request that was accepted is called at most once, not after it was cancelled,
\* dropped or rejected, and stays over once it is over.
THEOREM Refinement == Spec => ImplementsRequestService
<1>1. IInv /\ PlaceInv /\ IInv' /\ PlaceInv' /\ [Next]_vars
      => [Service!Next]_[x \in Tasks |-> RequestStatus(x)]
  BY NextRefines DEF Status
<1> QED
  BY <1>1, InitRefines, Invariance, PlaceIsUnique, PTL
  DEF Spec, ImplementsRequestService, Service!Spec
=============================================================================
