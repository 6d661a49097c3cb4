----------------------------- MODULE MCAiReview -----------------------------
(* AiReview on small instances; see the cfg files for the bounds.          *)
EXTENDS AiReview, TLC

Symmetry == Permutations(Callers) \cup Permutations(Workers)
=============================================================================
