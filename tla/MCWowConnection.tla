--------------------------- MODULE MCWowConnection ---------------------------
(* Instances of WowConnection for TLC. *)
EXTENDS WowConnection, TLC

CONSTANTS c1, c2, c3, w1, w2

MCConnections == {c1, c2}
MCThreeConnections == {c1, c2, c3}
MCStream == {c1}
MCOneWorker == {w1}
MCTwoWorkers == {w1, w2}

=============================================================================
