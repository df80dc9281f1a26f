------------------------------- MODULE MCShop -------------------------------
(* A small instance of Shop: one address with two spellings, another with  *)
(* one, and a barber who may be a client too.                              *)
EXTENDS Shop, TLC

CONSTANTS lower, mixed, other, p1, p2, f1, f2, id1, id2, i1, r1, r2

MCSpellings == {lower, mixed, other}
MCFold == [s \in MCSpellings |-> IF s = mixed THEN lower ELSE s]
MCUserIds == {id1, id2}
MCPasswords == {p1, p2}
MCProfiles == {f1, f2}
MCRequests == {r1, r2}
MCIds == {i1}

Symmetry == Permutations(MCUserIds) \cup Permutations(MCPasswords)
            \cup Permutations(MCProfiles) \cup Permutations(MCRequests)

(* No step reads answer: states that differ in it have the same future,    *)
(* and the action properties look at it on every step taken.               *)
View == <<users, barbers, call, welcomed, shop>>
=============================================================================
