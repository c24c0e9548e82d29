----------------------------- MODULE MCInterview -----------------------------
(* Instances of Interview for TLC: replies on both sides of each threshold. *)
EXTENDS Interview

\* Ambiguities 150, 165, 250 and 265 in both modes.
SomeClarity ==
    {<<10, 10, 10, 10, 0>>, <<10, 10, 10, 9, 0>>, <<10, 5, 10, 0, 10>>, <<10, 5, 10, 0, 9>>}

\* Risks 380 and 400.
SomeRisk == {<<3, 3, 10, 0>>, <<0, 0, 10, 10>>}
=============================================================================
