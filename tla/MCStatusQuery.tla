--------------------------- MODULE MCStatusQuery ---------------------------
(* Small instances of StatusQuery for TLC.                                 *)
EXTENDS StatusQuery, TLC

CONSTANTS u1, u2, u3, w1, w2

MCUsers == {u1, u2, u3}
MCWorkers == {w1, w2}

Symmetry == Permutations(MCWorkers)

=============================================================================
