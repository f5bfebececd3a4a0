---------------------------- MODULE TaskService ----------------------------
(***************************************************************************)
(* gov.nasa.worldwind.util.ThreadedTaskService: the pool of threads that   *)
(* reads tiles from disk and runs other short tasks off the rendering      *)
(* thread.  Its queue is bounded and first in, first out; a task that does *)
(* not fit is dropped.                                                     *)
(*                                                                         *)
(* Like BasicRetrievalService it filters duplicates by looking into        *)
(* activeTasks and into the queue, but it treats one that slips through    *)
(* differently: beforeExecute() interrupts its thread, does not add it to  *)
(* activeTasks, and trusts the task to look at the interrupt flag.         *)
(***************************************************************************)
EXTENDS ThreadPool, Sequences

CONSTANTS
  Name,        \* task -> what its equals() compares, such as the tile
  Clients,     \* threads that call addTask()
  NoClient,    \* nobody is inside the synchronized addTask()
  QueueSize,   \* the configured TASK_QUEUE_SIZE
  InitialPoolSize,
  MayShutDown  \* whether shutdown() is called

ASSUME ServiceAssumption ==
  /\ NoClient \notin Clients
  /\ QueueSize \in Nat \ {0}
  /\ InitialPoolSize \in Nat \ {0}
  /\ MayShutDown \in BOOLEAN

VARIABLES
  queue,        \* the executor's ArrayBlockingQueue
  active,       \* activeTasks: name -> number of its tasks in the list
  interrupted,  \* workers whose interrupt flag is set
  at,           \* where each client stands in addTask()
  arg,          \* the task each client is adding
  monitor,      \* the client inside addTask(), or NoClient
  submitted,    \* tasks given to addTask() so far
  dropped,      \* history: tasks handed to rejectedExecution() or drained
  finished,     \* history: tasks whose worker has let go of them
  cleared       \* shutdown() has emptied activeTasks

clientVars == <<at, arg, monitor, submitted>>
vars == <<poolVars, queue, active, interrupted, clientVars, dropped, finished,
          cleared>>
-----------------------------------------------------------------------------

Names == {Name[x] : x \in Tasks}

Queued == {queue[i] : i \in DOMAIN queue}

\* contains() on the queue or on activeTasks compares with equals().
QueueContains(x) == \E y \in Queued : Name[y] = Name[x]
ActiveContains(x) == active[Name[x]] > 0

Init ==
  /\ PoolInit(InitialPoolSize)
  /\ queue = << >>
  /\ active = [n \in Names |-> 0]
  /\ interrupted = {}
  /\ at = [c \in Clients |-> "idle"]
  /\ arg = [c \in Clients |-> NoTask]
  /\ monitor = NoClient
  /\ submitted = {}
  /\ dropped = {}
  /\ finished = {}
  /\ cleared = FALSE

-----------------------------------------------------------------------------
(* Clients *)

\* addTask() is entered and looks into activeTasks.
AddTask(c, x) ==
  /\ at[c] = "idle"
  /\ monitor = NoClient
  /\ x \notin submitted
  /\ submitted' = submitted \cup {x}
  /\ IF ActiveContains(x)
     THEN UNCHANGED <<at, arg, monitor>>
     ELSE /\ at' = [at EXCEPT ![c] = "lookInQueue"]
          /\ arg' = [arg EXCEPT ![c] = x]
          /\ monitor' = c
  /\ UNCHANGED <<poolVars, queue, active, interrupted, dropped, finished, cleared>>

\* Mutant of LookInQueue: the queue is not looked into.
LookInQueueNot(c) ==
  /\ at[c] = "lookInQueue"
  /\ at' = [at EXCEPT ![c] = "execute"]
  /\ UNCHANGED <<poolVars, queue, active, interrupted, arg, monitor, submitted,
                 dropped, finished, cleared>>

\* ... then it looks into the executor's queue.
LookInQueue(c) ==
  /\ at[c] = "lookInQueue"
  /\ IF QueueContains(arg[c])
     THEN /\ at' = [at EXCEPT ![c] = "idle"]
          /\ arg' = [arg EXCEPT ![c] = NoTask]
          /\ monitor' = NoClient
     ELSE /\ at' = [at EXCEPT ![c] = "execute"]
          /\ UNCHANGED <<arg, monitor>>
  /\ UNCHANGED <<poolVars, queue, active, interrupted, submitted, dropped,
                 finished, cleared>>

\* Mutant of ExecutorAccepts: the queue has no bound.
ExecutorAcceptsUnbounded(x) ==
  \/ /\ CanStart
     /\ StartWorker(x)
     /\ UNCHANGED <<queue, dropped>>
  \/ /\ ~CanStart
     /\ queue' = Append(queue, x)
     /\ UNCHANGED <<poolVars, dropped>>

\* The executor starts a thread for the task, puts it into its bounded queue or,
\* when that is full or the executor shut down, drops it in rejectedExecution().
ExecutorAccepts(x) ==
  \/ /\ CanStart
     /\ StartWorker(x)
     /\ UNCHANGED <<queue, dropped>>
  \/ /\ ~CanStart
     /\ poolState = "running"
     /\ Len(queue) < QueueSize
     /\ queue' = Append(queue, x)
     /\ UNCHANGED <<poolVars, dropped>>
  \/ /\ ~CanStart
     /\ poolState # "running" \/ Len(queue) >= QueueSize
     /\ dropped' = dropped \cup {x}
     /\ UNCHANGED <<poolVars, queue>>

\* executor.execute(task), and addTask() returns.
Execute(c) ==
  /\ at[c] = "execute"
  /\ ExecutorAccepts(arg[c])
  /\ at' = [at EXCEPT ![c] = "idle"]
  /\ arg' = [arg EXCEPT ![c] = NoTask]
  /\ monitor' = NoClient
  /\ UNCHANGED <<active, interrupted, submitted, finished, cleared>>

-----------------------------------------------------------------------------
(* Workers *)

\* The executor clears the thread's interrupt flag between two tasks.
Take(w) ==
  /\ CanTake(w)
  /\ queue # << >>
  /\ Assign(w, Head(queue))
  /\ queue' = Tail(queue)
  /\ interrupted' = interrupted \ {w}
  /\ UNCHANGED <<active, clientVars, dropped, finished, cleared>>

\* beforeExecute(): a task that is already active is only interrupted ...
BeforeExecute(w) ==
  /\ stage[w] = "begin"
  /\ IF ActiveContains(task[w])
     THEN interrupted' = interrupted \cup {w} /\ GoTo(w, "run")
     ELSE GoTo(w, "register") /\ UNCHANGED interrupted
  /\ UNCHANGED <<queue, active, clientVars, dropped, finished, cleared>>

\* ... and any other is added to activeTasks.
AddToActive(w) ==
  /\ stage[w] = "register"
  /\ active' = [active EXCEPT ![Name[task[w]]] = @ + 1]
  /\ GoTo(w, "run")
  /\ UNCHANGED <<queue, interrupted, clientVars, dropped, finished, cleared>>

\* The task's run() returns at once if its thread is interrupted, as the
\* RequestTasks of the layers and elevation models do.
Run(w) ==
  /\ stage[w] = "run"
  /\ GoTo(w, IF w \in interrupted THEN "after" ELSE "call")
  /\ UNCHANGED <<queue, active, interrupted, clientVars, dropped, finished, cleared>>

\* run() returns or throws.  After an exception the executor replaces the thread
\* by a new one, once afterExecute() has been called.
CallEnds(w) ==
  /\ stage[w] = "call"
  /\ GoTo(w, "after")
  /\ UNCHANGED <<queue, active, interrupted, clientVars, dropped, finished, cleared>>

\* Mutant of AfterExecute: a task waits until it has an element to remove.
AfterExecuteExpectingElement(w) ==
  /\ stage[w] = "after"
  /\ ActiveContains(task[w])
  /\ active' = [active EXCEPT ![Name[task[w]]] = @ - 1]
  /\ finished' = finished \cup {task[w]}
  /\ Release(w)
  /\ UNCHANGED <<queue, interrupted, clientVars, dropped, cleared>>

\* Mutant of AfterExecute: an interrupted task leaves the list alone.  That
\* protects the original of a duplicate, but a task that shutdownNow() interrupts
\* leaves its element behind.
AfterExecuteUnlessInterrupted(w) ==
  /\ stage[w] = "after"
  /\ active' = [active EXCEPT ![Name[task[w]]] =
                  IF @ > 0 /\ w \notin interrupted THEN @ - 1 ELSE @]
  /\ finished' = finished \cup {task[w]}
  /\ Release(w)
  /\ UNCHANGED <<queue, interrupted, clientVars, dropped, cleared>>

\* Mutant of AfterExecute: a task that was interrupted is queued for another try.
AfterExecuteRetrying(w) ==
  /\ stage[w] = "after"
  /\ active' = [active EXCEPT ![Name[task[w]]] = IF @ > 0 THEN @ - 1 ELSE 0]
  /\ queue' = IF w \in interrupted /\ Len(queue) < QueueSize
              THEN Append(queue, task[w]) ELSE queue
  /\ finished' = finished \cup {task[w]}
  /\ Release(w)
  /\ UNCHANGED <<interrupted, clientVars, dropped, cleared>>

\* afterExecute() removes one element that equals() the task, whether or not
\* beforeExecute() has added one for it.
AfterExecute(w) ==
  /\ stage[w] = "after"
  /\ active' = [active EXCEPT ![Name[task[w]]] = IF @ > 0 THEN @ - 1 ELSE 0]
  /\ finished' = finished \cup {task[w]}
  /\ Release(w)
  /\ UNCHANGED <<queue, interrupted, clientVars, dropped, cleared>>

Exit(w) ==
  /\ ExitWorker(w, queue = << >>)
  /\ UNCHANGED <<queue, active, interrupted, clientVars, dropped, finished, cleared>>

-----------------------------------------------------------------------------
(* Administration *)

\* shutdown(), called once, stops the executor; shutdownNow() also drains the
\* queue and interrupts the workers.
Shutdown(immediately) ==
  /\ MayShutDown
  /\ poolState = "running"
  /\ StopPool(immediately)
  /\ IF immediately
     THEN /\ queue' = << >>
          /\ dropped' = dropped \cup Queued
          /\ interrupted' = interrupted \cup Alive
     ELSE UNCHANGED <<queue, dropped, interrupted>>
  /\ UNCHANGED <<active, clientVars, finished, cleared>>

\* ... and then it empties activeTasks.
ClearActive ==
  /\ poolState # "running"
  /\ ~cleared
  /\ active' = [n \in Names |-> 0]
  /\ cleared' = TRUE
  /\ UNCHANGED <<poolVars, queue, interrupted, clientVars, dropped, finished>>

-----------------------------------------------------------------------------

ClientStep(c) ==
  \/ \E x \in Tasks : AddTask(c, x)
  \/ LookInQueue(c)
  \/ Execute(c)

WorkerStep(w) ==
  \/ Take(w)
  \/ BeforeExecute(w)
  \/ AddToActive(w)
  \/ Run(w)
  \/ CallEnds(w)
  \/ AfterExecute(w)
  \/ Exit(w)

Next ==
  \/ \E c \in Clients : ClientStep(c)
  \/ \E w \in Workers : WorkerStep(w)
  \/ \E b \in BOOLEAN : Shutdown(b)
  \/ ClearActive

Spec == Init /\ [][Next]_vars

\* The JVM schedules the workers, and the tasks are finite computations.
FairSpec == Spec /\ \A w \in Workers : WF_vars(WorkerStep(w))
-----------------------------------------------------------------------------
(* Properties *)

\* The types of the variables; a client has a task exactly while it is inside
\* addTask(), and the queue never grows beyond its size.
TypeOK ==
  /\ PoolTypeOK
  /\ queue \in Seq(Tasks)
  /\ Len(queue) <= QueueSize
  /\ active \in [Names -> Nat]
  /\ interrupted \subseteq Workers
  /\ at \in [Clients -> {"idle", "lookInQueue", "execute"}]
  /\ arg \in [Clients -> Tasks \cup {NoTask}]
  /\ \A c \in Clients : arg[c] = NoTask <=> at[c] = "idle"
  /\ monitor \in Clients \cup {NoClient}
  /\ submitted \subseteq Tasks
  /\ dropped \subseteq Tasks
  /\ finished \subseteq Tasks
  /\ cleared \in BOOLEAN

\* "Do not queue duplicates": no two tasks of the queue are equal, although
\* addTask() is called from many threads and looks before it adds.
NoDuplicateQueued ==
  \A i, j \in DOMAIN queue : Name[queue[i]] = Name[queue[j]] => i = j

Registered == {w \in Workers : stage[w] \in {"run", "call", "after"}}
RegisteredFor(n) == {w \in Registered : Name[task[w]] = n}

\* No element of activeTasks is left behind: there is never more than one per
\* worker executing such a task.  A leftover would make addTask() refuse the
\* tile's tasks for the rest of the session.
ActiveNotStale ==
  \A n \in Names : active[n] <= Cardinality(RegisteredFor(n))

\* A queued task is executed, or drained by shutdown(): it is never forgotten.
QueuedTaskEnds ==
  \A x \in Tasks : x \in Queued ~> x \in finished \cup dropped

\* addTask() does not refuse equal tasks for ever.
ActiveEnds ==
  \A n \in Names : active[n] > 0 ~> active[n] = 0

-----------------------------------------------------------------------------
(* A statement of the source that the code does not live up to *)

\* activeTasks "holds the list of currently executing tasks".  It does not, once
\* a duplicate has removed the element of the task it duplicates.
ExecutingAreActive ==
  \A w \in Workers : stage[w] = "call" => ActiveContains(task[w])

-----------------------------------------------------------------------------
(* What the service promises *)

AtWork(x, stages) == \E w \in Workers : task[w] = x /\ stage[w] \in stages

\* A task as the layer that adds it sees it; one refused as a duplicate is over.
TaskStatus(x) ==
  IF AtWork(x, {"call"}) THEN "running"
  ELSE IF x \in Queued \/ AtWork(x, {"begin", "register", "run"}) THEN "waiting"
  ELSE IF x \notin submitted \/ (\E c \in Clients : arg[c] = x) THEN "none"
  ELSE "over"

Service == INSTANCE RequestService
             WITH Requests <- Tasks,
                  MaxRunning <- Cardinality(Workers),
                  status <- [x \in Tasks |-> TaskStatus(x)]

\* The service implements RequestService: a task that was added runs at most
\* once, never after it was refused, dropped or interrupted, and once it is over
\* it stays so, although tasks move from the queue to the workers without a lock.
ImplementsRequestService == Service!Spec

-----------------------------------------------------------------------------
(* The inductive strengthening of the safety properties *)

\* The monitor belongs to the one client inside addTask().
MonitorInv == \A c \in Clients : monitor = c <=> at[c] # "idle"

\* What addTask() has found out about the queue still holds when it acts on it:
\* meanwhile tasks may leave the queue, but only this client can add one.
QueueStillFree == \A c \in Clients : at[c] = "execute" => ~QueueContains(arg[c])

\* A submitted task has one place: with the client adding it, in the queue, with
\* one worker, or nowhere.
PlaceInv ==
  /\ Queued \subseteq submitted
  /\ \A w \in Busy : task[w] \in submitted \ Queued
  /\ \A v, w \in Busy : task[v] = task[w] => v = w
  /\ \A c \in Clients : arg[c] # NoTask =>
       arg[c] \in submitted \ Queued /\ \A w \in Busy : task[w] # arg[c]

IInv ==
  /\ TypeOK
  /\ MonitorInv
  /\ QueueStillFree
  /\ NoDuplicateQueued
  /\ ActiveNotStale
=============================================================================
