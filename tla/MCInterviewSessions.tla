------------------------- MODULE MCInterviewSessions -------------------------
(* Instances of InterviewSessions for TLC: sessions and cleanups are alike. *)
EXTENDS InterviewSessions, TLC

Symmetry == Permutations(Sessions) \cup Permutations(Sweepers) \cup Permutations(Servers)
=============================================================================
