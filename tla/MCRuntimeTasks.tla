--------------------------- MODULE MCRuntimeTasks ---------------------------
(* Instances of RuntimeTasks for TLC: clients, and recoveries, are alike. *)
EXTENDS RuntimeTasks, TLC

ClientSymmetry == Permutations(Clients)
Symmetry == Permutations(Clients) \cup Permutations(Recoverers)
=============================================================================
