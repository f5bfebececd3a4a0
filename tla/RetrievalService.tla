-------------------------- MODULE RetrievalService --------------------------
(***************************************************************************)
(* gov.nasa.worldwind.retrieve.BasicRetrievalService: threaded retrieval   *)
(* of data, with duplicate requests filtered out.                          *)
(*                                                                         *)
(* A RetrievalTask object is a member of Tasks; two tasks are equals() if  *)
(* their retrievers are for the same URL, Url[x] = Url[y].  The task's own *)
(* code, the retriever's call(), is the stage "call" of its worker.        *)
(*                                                                         *)
(* runRetriever() is synchronized, but the workers are not: it looks into  *)
(* activeTasks and then into the queue, and a worker takes a task off the  *)
(* queue some time before beforeExecute() adds it to activeTasks.          *)
(***************************************************************************)
EXTENDS ThreadPool

CONSTANTS
  Url,         \* task -> the URL it retrieves
  Clients,     \* threads that call runRetriever()
  NoClient,    \* nobody is inside the synchronized runRetriever()
  QueueSize,   \* the configured RETRIEVAL_QUEUE_SIZE
  PoolSizes,   \* values applications pass to setRetrieverPoolSize()
  InitialPoolSize,
  MayShutDown  \* whether shutdown() is called

ASSUME ServiceAssumption ==
  /\ IsFiniteSet(Clients)
  /\ NoClient \notin Clients
  /\ QueueSize \in Nat \ {0}
  /\ PoolSizes \subseteq Nat
  /\ InitialPoolSize \in Nat \ {0}
  /\ MayShutDown \in BOOLEAN

VARIABLES
  queue,       \* tasks in the executor's PriorityBlockingQueue
  active,      \* activeTasks: URL -> number of its tasks in the list
  future,      \* state of each task as a FutureTask
  aged,        \* tasks submitted longer ago than the stale request limit
  at,          \* where each client stands in its call
  arg,         \* the task each client has created
  monitor,     \* the client inside runRetriever(), or NoClient
  rejected,    \* history: tasks handed to rejectedExecution()
  cleared      \* shutdown() has emptied activeTasks

clientVars == <<at, arg, monitor>>
vars == <<poolVars, queue, active, future, aged, clientVars, rejected, cleared>>
-----------------------------------------------------------------------------

Urls == {Url[x] : x \in Tasks}

\* contains() on the queue or on activeTasks compares with equals().
QueueContains(x) == \E y \in queue : Url[y] = Url[x]
ActiveContains(x) == active[Url[x]] > 0

Registered == {w \in Workers : stage[w] \in {"run", "call", "after"}}

Init ==
  /\ PoolInit(InitialPoolSize)
  /\ queue = {}
  /\ active = [u \in Urls |-> 0]
  /\ future = [x \in Tasks |-> "none"]
  /\ aged = {}
  /\ at = [c \in Clients |-> "idle"]
  /\ arg = [c \in Clients |-> NoTask]
  /\ monitor = NoClient
  /\ rejected = {}
  /\ cleared = FALSE

-----------------------------------------------------------------------------
(* Clients *)

\* Mutant of IsAvailable: the comparison is off by one.
IsAvailableAtSize(c) ==
  /\ at[c] = "idle"
  /\ Cardinality(queue) <= QueueSize
  /\ at' = [at EXCEPT ![c] = "available"]
  /\ UNCHANGED <<poolVars, queue, active, future, aged, arg, monitor,
                 rejected, cleared>>

\* The tile layers, the elevation models and the file store ask isAvailable()
\* before they build a retriever.
IsAvailable(c) ==
  /\ at[c] = "idle"
  /\ Cardinality(queue) < QueueSize
  /\ at' = [at EXCEPT ![c] = "available"]
  /\ UNCHANGED <<poolVars, queue, active, future, aged, arg, monitor,
                 rejected, cleared>>

\* Mutant of RunRetriever: the method is not synchronized.
RunRetrieverUnsynchronized(c, x) ==
  /\ at[c] = "available"
  /\ future[x] = "none"
  /\ x \notin {arg[d] : d \in Clients}
  /\ IF ActiveContains(x)
     THEN /\ at' = [at EXCEPT ![c] = "idle"]
          /\ UNCHANGED <<arg, monitor>>
     ELSE /\ at' = [at EXCEPT ![c] = "lookInQueue"]
          /\ arg' = [arg EXCEPT ![c] = x]
          /\ monitor' = c
  /\ UNCHANGED <<poolVars, queue, active, future, aged, rejected, cleared>>

\* runRetriever() is entered, makes the task and looks into activeTasks.
RunRetriever(c, x) ==
  /\ at[c] = "available"
  /\ monitor = NoClient
  /\ future[x] = "none"
  /\ x \notin {arg[d] : d \in Clients}
  /\ IF ActiveContains(x)
     THEN /\ at' = [at EXCEPT ![c] = "idle"]
          /\ UNCHANGED <<arg, monitor>>
     ELSE /\ at' = [at EXCEPT ![c] = "lookInQueue"]
          /\ arg' = [arg EXCEPT ![c] = x]
          /\ monitor' = c
  /\ UNCHANGED <<poolVars, queue, active, future, aged, rejected,
                 cleared>>

\* Mutant of LookInQueue: the queue is not looked into.
LookInQueueNot(c) ==
  /\ at[c] = "lookInQueue"
  /\ at' = [at EXCEPT ![c] = "execute"]
  /\ UNCHANGED <<poolVars, queue, active, future, aged, arg, monitor,
                 rejected, cleared>>

\* ... then it looks into the executor's queue.
LookInQueue(c) ==
  /\ at[c] = "lookInQueue"
  /\ IF QueueContains(arg[c])
     THEN /\ at' = [at EXCEPT ![c] = "idle"]
          /\ arg' = [arg EXCEPT ![c] = NoTask]
          /\ monitor' = NoClient
     ELSE /\ at' = [at EXCEPT ![c] = "execute"]
          /\ UNCHANGED <<arg, monitor>>
  /\ UNCHANGED <<poolVars, queue, active, future, aged, rejected,
                 cleared>>

\* The executor starts a thread for the task, puts it into its unbounded queue
\* or, once shut down, drops it in rejectedExecution().
ExecutorAccepts(x) ==
  \/ /\ CanStart
     /\ StartWorker(x)
     /\ UNCHANGED <<queue, rejected>>
  \/ /\ ~CanStart
     /\ poolState = "running"
     /\ queue' = queue \cup {x}
     /\ UNCHANGED <<poolVars, rejected>>
  \/ /\ poolState # "running"
     /\ rejected' = rejected \cup {x}
     /\ UNCHANGED <<poolVars, queue>>

\* executor.execute(task), and runRetriever() returns the task as a future,
\* whatever the executor did with it.
Execute(c) ==
  /\ at[c] = "execute"
  /\ ExecutorAccepts(arg[c])
  /\ future' = [future EXCEPT ![arg[c]] = "new"]
  /\ at' = [at EXCEPT ![c] = "idle"]
  /\ arg' = [arg EXCEPT ![c] = NoTask]
  /\ monitor' = NoClient
  /\ UNCHANGED <<active, aged, cleared>>

\* FutureTask.cancel() takes effect only while the task has no outcome.
Cancelled(x) == IF future[x] = "new" THEN "cancelled" ELSE future[x]

\* A client cancels the future it was given.
CancelFuture(x) ==
  /\ future[x] = "new"
  /\ future' = [future EXCEPT ![x] = Cancelled(x)]
  /\ UNCHANGED <<poolVars, queue, active, aged, clientVars, rejected, cleared>>

\* Time passes: the request has now waited beyond the stale request limit, and
\* beforeExecute(), the only reader of that, has not been called yet.
Age(x) ==
  /\ x \in queue \/ \E w \in Workers : task[w] = x /\ stage[w] = "begin"
  /\ aged' = aged \cup {x}
  /\ UNCHANGED <<poolVars, queue, active, future, clientVars, rejected, cleared>>

-----------------------------------------------------------------------------
(* Workers *)

\* The queue's order depends on submit times and on priorities the clients
\* choose freely, so any queued task may be the next.
Take(w) ==
  /\ CanTake(w)
  /\ \E x \in queue : /\ Assign(w, x)
                      /\ queue' = queue \ {x}
  /\ UNCHANGED <<active, future, aged, clientVars, rejected,
                 cleared>>

\* beforeExecute(): cancel a request that is stale or already active ...
BeforeExecute(w) ==
  /\ stage[w] = "begin"
  /\ future' = [future EXCEPT ![task[w]] =
                  IF task[w] \in aged \/ ActiveContains(task[w])
                  THEN Cancelled(task[w]) ELSE @]
  /\ GoTo(w, "register")
  /\ UNCHANGED <<queue, active, aged, clientVars, rejected,
                 cleared>>

\* Mutant of AddToActive: a cancelled task is not added.
AddToActiveUnlessCancelled(w) ==
  /\ stage[w] = "register"
  /\ active' = [active EXCEPT ![Url[task[w]]] =
                  IF future[task[w]] = "cancelled" THEN @ ELSE @ + 1]
  /\ GoTo(w, "run")
  /\ UNCHANGED <<queue, future, aged, clientVars, rejected, cleared>>

\* ... and add it to activeTasks in any case.
AddToActive(w) ==
  /\ stage[w] = "register"
  /\ active' = [active EXCEPT ![Url[task[w]]] = @ + 1]
  /\ GoTo(w, "run")
  /\ UNCHANGED <<queue, future, aged, clientVars, rejected, cleared>>

\* Mutant of Run: a task that is done or cancelled does not come back.
RunUnlessCancelled(w) ==
  /\ stage[w] = "run"
  /\ future[task[w]] = "new"
  /\ GoTo(w, "call")
  /\ UNCHANGED <<queue, active, future, aged, clientVars, rejected, cleared>>

\* Mutant of Run: a task that is done or cancelled is called all the same.
RunAnyway(w) ==
  /\ stage[w] = "run"
  /\ GoTo(w, "call")
  /\ UNCHANGED <<queue, active, future, aged, clientVars, rejected, cleared>>

\* RetrievalTask.run() does nothing for a task that is done or cancelled.
Run(w) ==
  /\ stage[w] = "run"
  /\ IF future[task[w]] = "new"
     THEN GoTo(w, "call")
     ELSE GoTo(w, "after")
  /\ UNCHANGED <<queue, active, future, aged, clientVars, rejected,
                 cleared>>

\* Mutant of CallEnds: the outcome is not stored in the future.
CallEndsUnset(w) ==
  /\ stage[w] = "call"
  /\ GoTo(w, "after")
  /\ UNCHANGED <<queue, active, future, aged, clientVars, rejected, cleared>>

\* The retriever's call() returns or throws; a cancelled future stays so.
CallEnds(w) ==
  /\ stage[w] = "call"
  /\ future' = [future EXCEPT ![task[w]] = IF @ = "new" THEN "done" ELSE @]
  /\ GoTo(w, "after")
  /\ UNCHANGED <<queue, active, aged, clientVars, rejected,
                 cleared>>

\* activeTasks.remove(task) removes one element that equals() the task, which
\* may be another object than the task itself, or none.
RemoveFromActive(x) ==
  active' = [active EXCEPT ![Url[x]] = IF @ > 0 THEN @ - 1 ELSE 0]

\* afterExecute(): its task.get() does not wait, the future has its outcome.
AfterExecute(w) ==
  /\ stage[w] = "after"
  /\ future[task[w]] \in {"done", "cancelled"}
  /\ RemoveFromActive(task[w])
  /\ Release(w)
  /\ UNCHANGED <<queue, future, aged, clientVars, rejected, cleared>>

Exit(w) ==
  /\ ExitWorker(w, queue = {})
  /\ UNCHANGED <<queue, active, future, aged, clientVars, rejected, cleared>>

-----------------------------------------------------------------------------
(* Administration *)

\* Mutant of SetRetrieverPoolSize: the value is not checked.
SetRetrieverPoolSizeUnchecked(n) ==
  /\ coreSize = maxSize
  /\ ResizeCore(n, Cardinality(queue))
  /\ UNCHANGED <<queue, active, future, aged, clientVars, rejected, cleared>>

\* setRetrieverPoolSize() sets the core size ...  The sizes differ exactly while
\* a call is between its two steps; an application makes one call at a time.
SetRetrieverPoolSize(n) ==
  /\ n >= 1
  /\ coreSize = maxSize
  /\ ResizeCore(n, Cardinality(queue))
  /\ UNCHANGED <<queue, active, future, aged, clientVars, rejected, cleared>>

\* ... and then the maximum size to the same value.  In between the executor has
\* two sizes: an enlarged core has threads beyond the maximum, which may leave.
SetMaximumSize ==
  /\ coreSize # maxSize
  /\ ResizeMaximum(coreSize)
  /\ UNCHANGED <<queue, active, future, aged, clientVars, rejected, cleared>>

\* shutdown(), called once, when World Wind is shut down, stops the executor;
\* shutdownNow() also drains the queue.
Shutdown(immediately) ==
  /\ MayShutDown
  /\ poolState = "running"
  /\ StopPool(immediately)
  /\ queue' = IF immediately THEN {} ELSE queue
  /\ UNCHANGED <<active, future, aged, clientVars, rejected,
                 cleared>>

\* ... and then it empties activeTasks.
ClearActive ==
  /\ poolState # "running"
  /\ ~cleared
  /\ active' = [u \in Urls |-> 0]
  /\ cleared' = TRUE
  /\ UNCHANGED <<poolVars, queue, future, aged, clientVars, rejected>>

-----------------------------------------------------------------------------

ClientStep(c) ==
  \/ IsAvailable(c)
  \/ \E x \in Tasks : RunRetriever(c, x)
  \/ LookInQueue(c)
  \/ Execute(c)

WorkerStep(w) ==
  \/ Take(w)
  \/ BeforeExecute(w)
  \/ AddToActive(w)
  \/ Run(w)
  \/ CallEnds(w)
  \/ AfterExecute(w)
  \/ Exit(w)

Next ==
  \/ \E c \in Clients : ClientStep(c)
  \/ \E x \in Tasks : CancelFuture(x) \/ Age(x)
  \/ \E w \in Workers : WorkerStep(w)
  \/ \E n \in PoolSizes : SetRetrieverPoolSize(n)
  \/ SetMaximumSize
  \/ \E b \in BOOLEAN : Shutdown(b)
  \/ ClearActive

Spec == Init /\ [][Next]_vars

\* The JVM schedules the workers, and a call() ends: connecting and reading
\* have timeouts (URLRetriever sets both).
FairSpec == Spec /\ \A w \in Workers : WF_vars(WorkerStep(w))
-----------------------------------------------------------------------------
(* Properties *)

\* The types of the variables; a client has a task exactly while it is inside
\* runRetriever(), a worker exactly while it works on one, and the pool never
\* becomes empty.
TypeOK ==
  /\ PoolTypeOK
  /\ queue \subseteq Tasks
  /\ active \in [Urls -> Nat]
  /\ future \in [Tasks -> {"none", "new", "done", "cancelled"}]
  /\ aged \subseteq Tasks
  /\ at \in [Clients -> {"idle", "available", "lookInQueue", "execute"}]
  /\ arg \in [Clients -> Tasks \cup {NoTask}]
  /\ \A c \in Clients : arg[c] = NoTask <=> at[c] \in {"idle", "available"}
  /\ monitor \in Clients \cup {NoClient}
  /\ rejected \subseteq Tasks
  /\ cleared \in BOOLEAN

\* "Do not queue duplicates": no two tasks of the queue are for the same URL,
\* although runRetriever() is called from many threads and looks before it adds.
NoDuplicateQueued ==
  \A x, y \in queue : Url[x] = Url[y] => x = y

RegisteredFor(u) == {w \in Registered : Url[task[w]] = u}

\* activeTasks holds as many tasks for a URL as workers are executing, although
\* a duplicate may remove the other task's element: so contains() says true for
\* as long as a retrieval runs, and false again when the last one has ended.
\* After shutdown() has emptied the list, nothing is left behind in it.
ActiveMatchesRegistered ==
  \A u \in Urls :
    /\ active[u] <= Cardinality(RegisteredFor(u))
    /\ ~cleared => active[u] = Cardinality(RegisteredFor(u))

\* Clients that ask isAvailable() first can overrun the queue size only by what
\* the other clients submit between the question and the submission.
QueueOverrunBounded ==
  Cardinality(queue) <= QueueSize - 1 + Cardinality(Clients)

\* A queued request always has a thread that can take it, while the pool is made
\* larger and smaller, its threads leave, and the service is shut down: the
\* executor starts threads on submission only, so a request left in the queue
\* without one would wait for somebody else's.
QueueIsServed == queue # {} => Alive # {}

\* Once submissions stop, every future gets its outcome, unless the service
\* was stopped with the task still waiting or rejected the task.
EveryFutureSettles ==
  \A x \in Tasks :
    future[x] = "new" ~>
      \/ future[x] \in {"done", "cancelled"}
      \/ poolState = "stop"
      \/ x \in rejected

\* shutdown() ends: every worker thread leaves, with the queue run dry or drained.
ShutdownEnds ==
  poolState # "running" ~> queue = {} /\ \A w \in Workers : stage[w] = "none"

-----------------------------------------------------------------------------
(* What the service promises *)

AtWork(x, stages) == \E w \in Workers : task[w] = x /\ stage[w] \in stages

\* A request as its client sees it.
RequestStatus(x) ==
  IF future[x] = "none" THEN "none"
  ELSE IF AtWork(x, {"call"}) THEN "running"
  ELSE IF future[x] = "new" /\ (x \in queue \/ AtWork(x, {"begin", "register", "run"}))
       THEN "waiting"
  ELSE "over"

Service == INSTANCE RequestService
             WITH Requests <- Tasks,
                  MaxRunning <- Cardinality(Workers),
                  status <- [x \in Tasks |-> RequestStatus(x)]

\* The service implements RequestService: a request that was submitted is called
\* at most once, never after it was cancelled or dropped, and once it is over it
\* stays so, although tasks are moved from the queue to the workers without a lock.
ImplementsRequestService == Service!Spec

-----------------------------------------------------------------------------
(* The inductive strengthening of the safety properties *)

\* The monitor belongs to the one client inside runRetriever().
MonitorInv == \A c \in Clients : monitor = c <=> at[c] \in {"lookInQueue", "execute"}

\* What runRetriever() has found out about the queue still holds when it acts on
\* it: meanwhile tasks may leave the queue, but only this client can add one.
QueueStillFree == \A c \in Clients : at[c] = "execute" => ~QueueContains(arg[c])

\* The clients that have been told the service is available.
Admitted == {c \in Clients : at[c] # "idle"}

OverrunInv ==
  Cardinality(queue) + Cardinality(Admitted) <= QueueSize - 1 + Cardinality(Clients)

\* A submitted task has one place: it is in the queue, with one worker, or nowhere.
PlaceInv ==
  /\ \A x \in queue : future[x] # "none"
  /\ \A w \in Busy : future[task[w]] # "none" /\ task[w] \notin queue
  /\ \A v, w \in Busy : task[v] = task[w] => v = w
  /\ \A c \in Clients : arg[c] # NoTask => future[arg[c]] = "none"

\* A pool that was stopped has no queue any more, and takes no new tasks.
ServedInv == QueueIsServed /\ (poolState = "stop" => queue = {})

IInv ==
  /\ TypeOK
  /\ MonitorInv
  /\ QueueStillFree
  /\ NoDuplicateQueued
  /\ ActiveMatchesRegistered
  /\ OverrunInv
=============================================================================
