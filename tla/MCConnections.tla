--------------------------- MODULE MCConnections ---------------------------
(* Connections on small instances; see the cfg files for the bounds.       *)
EXTENDS Connections, TLC

Symmetry == Permutations(Slots) \cup Permutations(Orgs)
            \cup Permutations(Installs) \cup Permutations(Intents)
=============================================================================
