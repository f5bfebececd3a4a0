--------------------------- MODULE MCTaskService ---------------------------
(***************************************************************************)
(* Model-checking instances of TaskService: two or three tasks for one     *)
(* tile next to tasks for others.                                          *)
(***************************************************************************)
EXTENDS TaskService, TLC

CONSTANTS a1, a2, a3, b1, c1

MCTasks == {a1, a2, a3, b1, c1}
MCThreeTasks == {a1, a2, b1}
MCName == [x \in MCTasks |-> CASE x = b1 -> "b" [] x = c1 -> "c" [] OTHER -> "a"]

\* Equal tasks, workers and clients are interchangeable.
Symmetry == Permutations(Tasks \ {b1, c1}) \cup Permutations(Workers)
            \cup Permutations(Clients)
=============================================================================
