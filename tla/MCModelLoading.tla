--------------------------- MODULE MCModelLoading ---------------------------
(* Instances of ModelLoading for TLC. *)
EXTENDS ModelLoading, TLC

CONSTANTS m1, m2, o1, o2

MCModels == {m1, m2}
MCOneModel == {m1}
MCObjects == {o1, o2}

Symmetry == Permutations(MCModels) \cup Permutations(MCObjects)

=============================================================================
