----------------------------- MODULE MCSchedule -----------------------------
(* A small instance of Schedule: room for three slots in a row.            *)
EXTENDS Schedule, TLC

CONSTANTS ann, bob, nobody, i1, i2, i3

MCIds == {i1, i2, i3}
MCAccounts == {ann}
MCBarbers == {bob}
MCAskedBarbers == {bob, nobody}
MCTimes == 0..3
MCBounds == {None, 1}
MCLimits == {1, 2}
Symmetry == Permutations(MCIds)
=============================================================================
