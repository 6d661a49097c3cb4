----------------------------- MODULE MCCommentSync -----------------------------
(* CommentSync with the sets that TLC permutes.                            *)
EXTENDS CommentSync, TLC

Symmetry == Permutations(Requests) \cup Permutations(Hooks)
            \cup Permutations(Workers)

=============================================================================
