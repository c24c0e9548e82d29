------------------------------ MODULE MCReports ------------------------------
(* Instances of Reports for TLC: sessions, tasks and cleanups are alike. *)
EXTENDS Reports, TLC

Symmetry == Permutations(Agents) \cup Permutations(Tasks) \cup Permutations(Cleaners)
=============================================================================
