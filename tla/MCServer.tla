------------------------------ MODULE MCServer ------------------------------
(* Small instances of Server for TLC.                                      *)
EXTENDS Server, TLC

CONSTANTS e1, a1, a2, s1, w1, w2

MCUsers == {e1}
MCApps == {a1, a2}
MCWorkers == {w1, w2}

\* A token of user e1 for app a1 signed elsewhere with the validator's
\* secret and a string uid: the only kind ValidateToken accepts.
MCGoodToken == [uid |-> e1, uidType |-> "str", app |-> a1, exp |-> 1,
                alg |-> "HS256", key |-> s1]

\* Both clients hold it.
MCMinted == {MCGoodToken}

\* No client holds a token to begin with.
MCMintedNone == {}

Symmetry == Permutations(MCWorkers)

=============================================================================
