----------------------------- MODULE MCDirectory -----------------------------
(* A small instance of Directory: two addresses, one with two spellings.   *)
EXTENDS Directory, TLC

CONSTANTS lower, mixed, other, p1, p2, f1, f2, id1, id2, r1, r2

MCSpellings == {lower, mixed, other}
MCFold == [s \in MCSpellings |-> IF s = mixed THEN lower ELSE s]
MCIds == {id1, id2}
MCPasswords == {p1, p2}
MCProfiles == {f1, f2}
MCRequests == {r1, r2}

Symmetry == Permutations(MCIds) \cup Permutations(MCPasswords)
            \cup Permutations(MCProfiles) \cup Permutations(MCRequests)
=============================================================================
