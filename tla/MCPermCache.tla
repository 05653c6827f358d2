----------------------------- MODULE MCPermCache -----------------------------
(* Small instance of PermCache for TLC: users, apps and workers are model   *)
(* values, so that the runs can declare users and workers symmetric.        *)
EXTENDS PermCache, TLC

CONSTANTS u1, u2, a1, a2, w1, w2

MCUsers == {u1, u2}
MCApps == {a1}

\* For the app-scoping run: one user, a request app a2 with no row.
MCOneUser == {u1}
MCTwoApps == {a1, a2}
MCOneWorker == {w1}
MCWorkers == {w1, w2}

Symmetry == Permutations(MCUsers) \cup Permutations(MCWorkers)
=============================================================================
