----------------------------- MODULE ThreadPool -----------------------------
(***************************************************************************)
(* The worker threads of a java.util.concurrent.ThreadPoolExecutor whose   *)
(* core and maximum size are the same, except while it is being resized,   *)
(* as BasicRetrievalService and ThreadedTaskService create it.  The        *)
(* executor is part of the JDK: this module states what the two services   *)
(* rely on.  The work queue belongs to the service, because the two use    *)
(* different ones.                                                         *)
(*                                                                         *)
(* A worker w is at stage[w] of the work on task[w]:                       *)
(*   "none"     the thread does not exist                                  *)
(*   "idle"     it waits for a task                                        *)
(*   "begin"    it has a task, beforeExecute() is about to be called       *)
(*   "register" beforeExecute() has looked for duplicates, and is about to *)
(*              add the task to activeTasks                                *)
(*   "run"      beforeExecute() has returned                               *)
(*   "call"     the task's own code is running                             *)
(*   "after"    it has ended, afterExecute() is about to be called         *)
(***************************************************************************)
EXTENDS Naturals, FiniteSets

CONSTANTS
  Workers,    \* the threads the pool may create
  Tasks,      \* the task objects submitted in one execution
  NoTask      \* a worker without a task

ASSUME PoolAssumption ==
  /\ IsFiniteSet(Workers)
  /\ IsFiniteSet(Tasks)
  /\ NoTask \notin Tasks

VARIABLES
  stage,      \* worker -> its stage
  task,       \* worker -> the task it works on, or NoTask
  coreSize,   \* core pool size
  maxSize,    \* maximum pool size
  poolState   \* "running", "shutdown" or "stop" (shutdownNow)

poolVars == <<stage, task, coreSize, maxSize, poolState>>

Stages == {"none", "idle", "begin", "register", "run", "call", "after"}

PoolTypeOK ==
  /\ stage \in [Workers -> Stages]
  /\ task \in [Workers -> Tasks \cup {NoTask}]
  /\ \A w \in Workers : task[w] = NoTask <=> stage[w] \in {"none", "idle"}
  /\ coreSize \in Nat \ {0}
  /\ maxSize \in Nat \ {0}
  /\ poolState \in {"running", "shutdown", "stop"}

PoolInit(n) ==
  /\ stage = [w \in Workers |-> "none"]
  /\ task = [w \in Workers |-> NoTask]
  /\ coreSize = n
  /\ maxSize = n
  /\ poolState = "running"

Alive == {w \in Workers : stage[w] # "none"}
Busy == {w \in Workers : task[w] # NoTask}

\* execute() starts a thread for the task while there are fewer than coreSize,
\* even when another thread is idle.
CanStart == poolState = "running" /\ Cardinality(Alive) < coreSize

\* Thread w takes up task t: its first task, or one taken from the queue.
Assign(w, t) ==
  /\ stage' = [stage EXCEPT ![w] = "begin"]
  /\ task' = [task EXCEPT ![w] = t]
  /\ UNCHANGED <<coreSize, maxSize, poolState>>

StartWorker(t) == \E w \in Workers \ Alive : Assign(w, t)

GoTo(w, s) ==
  /\ stage' = [stage EXCEPT ![w] = s]
  /\ UNCHANGED <<task, coreSize, maxSize, poolState>>

\* afterExecute() has returned: the worker asks the queue for the next task.
Release(w) ==
  /\ stage' = [stage EXCEPT ![w] = "idle"]
  /\ task' = [task EXCEPT ![w] = NoTask]
  /\ UNCHANGED <<coreSize, maxSize, poolState>>

\* An idle worker may take a task unless the pool was stopped.
CanTake(w) == stage[w] = "idle" /\ poolState # "stop"

\* An idle worker ends when the pool is stopped, when it is shut down and the
\* queue has run dry, or when there are more workers than the pool may or need
\* have: at once above the maximum, after the keep-alive time above the core.
ExitWorker(w, queueEmpty) ==
  /\ stage[w] = "idle"
  /\ \/ poolState = "stop"
     \/ poolState = "shutdown" /\ queueEmpty
     \/ Cardinality(Alive) > maxSize
     \/ Cardinality(Alive) > coreSize
  /\ GoTo(w, "none")

Least(a, b) == IF a < b THEN a ELSE b
Excess(a, b) == IF a > b THEN a - b ELSE 0

\* setCorePoolSize(): enlarging the core starts a thread for each queued task
\* there is now room for, unless the pool was stopped.  The JDKs this code was
\* written for let the core exceed the maximum; later ones refuse it.
ResizeCore(n, queueLength) ==
  /\ coreSize' = n
  /\ LET started == Least(Excess(n, Cardinality(Alive)),
                          Least(Excess(n, coreSize), queueLength))
     IN \E W \in SUBSET (Workers \ Alive) :
          /\ Cardinality(W) = IF poolState = "stop" THEN 0 ELSE started
          /\ stage' = [w \in Workers |-> IF w \in W THEN "idle" ELSE stage[w]]
  /\ UNCHANGED <<task, maxSize, poolState>>

\* setMaximumPoolSize() starts no thread; it wakes the idle ones above it.
ResizeMaximum(n) ==
  /\ maxSize' = n
  /\ UNCHANGED <<stage, task, coreSize, poolState>>

\* shutdown() lets the queued tasks run, shutdownNow() does not.
StopPool(immediately) ==
  /\ poolState' = IF immediately THEN "stop"
                  ELSE IF poolState = "stop" THEN "stop" ELSE "shutdown"
  /\ UNCHANGED <<stage, task, coreSize, maxSize>>
=============================================================================
