--------------------------- MODULE MCRunLifecycle ---------------------------
(* Instances of RunLifecycle for TLC: loops are alike. *)
EXTENDS RunLifecycle, TLC

LoopSymmetry == Permutations(Loops)
=============================================================================
