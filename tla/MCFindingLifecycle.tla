------------------------- MODULE MCFindingLifecycle -------------------------
(* Small instances of FindingLifecycle. *)
EXTENDS FindingLifecycle

CONSTANTS TitleA, TitleB
TwoTitles == {TitleA, TitleB}
Synonyms == {TwoTitles}
Symmetry == Permutations(TwoTitles)

(* A profile with all tiers on, and one without the tier of these rules.   *)
SomeOff == {{}, {"secret", "key"} \cup TwoTitles}
=============================================================================
