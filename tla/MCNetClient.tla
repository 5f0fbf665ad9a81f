----------------------------- MODULE MCNetClient -----------------------------
(* Instances of NetClient for TLC. *)
EXTENDS NetClient, TLC

CONSTANTS c1, c2, c3

MCConnections == {c1, c2, c3}
MCTwoConnections == {c1, c2}

Symmetry == Permutations(MCConnections)

=============================================================================
