----------------------------- MODULE MCTokenGate -----------------------------
(* Small instances of TokenGate for TLC.                                   *)
EXTENDS TokenGate, TLC

CONSTANTS u1, a1, s1, s2, w1, w2

MCUsers == {u1}
MCApps == {a1}
MCSecrets == {s1, s2}
MCWorkers == {w1, w2}

Symmetry == Permutations(MCWorkers)

=============================================================================
