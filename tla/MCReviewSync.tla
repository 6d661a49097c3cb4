----------------------------- MODULE MCReviewSync -----------------------------
(* ReviewSync with the sets that TLC permutes.                             *)
EXTENDS ReviewSync, TLC

Symmetry == Permutations(Requests) \cup Permutations(Reviewers)

=============================================================================
