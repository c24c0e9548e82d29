----------------------------- MODULE MCInSession -----------------------------
(* Instances of InSession for TLC: calls are alike. *)
EXTENDS InSession, TLC

\* The first task is done, two are left to do.
OneDone == [t \in Tasks |-> IF t = 1 THEN "done" ELSE "todo"]

CallSymmetry == Permutations(Calls)
=============================================================================
