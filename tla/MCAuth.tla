------------------------------- MODULE MCAuth -------------------------------
(* Small instances of Auth for TLC.                                        *)
EXTENDS Auth, TLC

CONSTANTS e1, e2, a1, a2, w1, w2

MCOneEmail == {e1}
MCEmails == {e1, e2}
MCOneApp == {a1}
MCApps == {a1, a2}
MCOneWorker == {w1}
MCWorkers == {w1, w2}

Symmetry == Permutations(MCWorkers)

=============================================================================
