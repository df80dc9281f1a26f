-------------------------- MODULE MCRefreshTokens --------------------------
(* A small instance of RefreshTokens.                                      *)
EXTENDS RefreshTokens, TLC

CONSTANTS u1, u2, t1, t2, t3, r1, r2

Users2 == {u1, u2}
Tokens3 == {t1, t2, t3}
Requests2 == {r1, r2}

Symmetry == Permutations(Users2) \cup Permutations(Tokens3) \cup Permutations(Requests2)
=============================================================================
