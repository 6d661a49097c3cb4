----------------------------- MODULE MCMembers ------------------------------
(* Members on small instances; see the cfg files for the bounds.           *)
EXTENDS Members, TLC

Symmetry == Permutations(Requests) \cup Permutations(Users \ {Founder})
=============================================================================
