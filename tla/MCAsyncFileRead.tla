--------------------------- MODULE MCAsyncFileRead ---------------------------
(* Small instances of AsyncFileRead: three request objects.                *)
EXTENDS AsyncFileRead

CONSTANTS o1, o2, o3

MCObjects == {o1, o2, o3}
MCTwoObjects == {o1, o2}
Symmetry == Permutations(MCObjects)
=============================================================================
