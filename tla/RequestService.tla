--------------------------- MODULE RequestService ---------------------------
(***************************************************************************)
(* What the retrieval service and the task service promise to their        *)
(* clients, without their queues, their lists of active tasks and their    *)
(* threads: a request that is submitted waits, is executed at most once or *)
(* dropped, and is then over for good; only so many are executed at a      *)
(* time.  They do not promise an order, nor that two equal requests are    *)
(* not executed together.                                                  *)
(***************************************************************************)
EXTENDS Naturals, FiniteSets

CONSTANTS
  Requests,
  MaxRunning   \* most requests that are executed at a time

VARIABLE status

Running == {x \in Requests : status[x] = "running"}

Init == status = [x \in Requests |-> "none"]

\* runRetriever() or addTask() accepts the request ...
Submit(x) ==
  /\ status[x] = "none"
  /\ status' = [status EXCEPT ![x] = "waiting"]

\* ... or it is refused: a duplicate, or the queue is full or shut down.
Reject(x) ==
  /\ status[x] = "none"
  /\ status' = [status EXCEPT ![x] = "over"]

\* A worker calls the retriever, or the task's run().
Start(x) ==
  /\ status[x] = "waiting"
  /\ Cardinality(Running) < MaxRunning
  /\ status' = [status EXCEPT ![x] = "running"]

\* That call returns or throws.
End(x) ==
  /\ status[x] = "running"
  /\ status' = [status EXCEPT ![x] = "over"]

\* Waiting requests are dropped: stale, duplicate, cancelled or interrupted ones,
\* one by one, or all in the queue of a service that is stopped.
DropAll(S) ==
  /\ \A x \in S : status[x] = "waiting"
  /\ status' = [x \in Requests |-> IF x \in S THEN "over" ELSE status[x]]

Next ==
  \/ \E x \in Requests : Submit(x) \/ Reject(x) \/ Start(x) \/ End(x)
  \/ \E S \in SUBSET Requests : DropAll(S)

Spec == Init /\ [][Next]_status
=============================================================================
