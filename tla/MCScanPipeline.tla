--------------------------- MODULE MCScanPipeline ---------------------------
(* ScanPipeline on small instances; see the cfg files for the bounds.      *)
EXTENDS ScanPipeline, TLC

Symmetry == Permutations(Requests) \cup Permutations(Workers)
=============================================================================
