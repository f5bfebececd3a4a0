------------------------- MODULE MCRetrievalService -------------------------
(***************************************************************************)
(* Model-checking instances of RetrievalService: two requests for one URL  *)
(* next to requests for others.                                            *)
(***************************************************************************)
EXTENDS RetrievalService, TLC

CONSTANTS a1, a2, b1, c1

MCTasks == {a1, a2, b1, c1}
MCThreeTasks == {a1, a2, b1}

MCUrl == [x \in {a1, a2, b1, c1} |->
            CASE x = b1 -> "b" [] x = c1 -> "c" [] OTHER -> "a"]

\* Requests for the same URL, workers and clients are interchangeable.
Symmetry == Permutations(Tasks \ {b1, c1}) \cup Permutations(Workers)
            \cup Permutations(Clients)
=============================================================================
