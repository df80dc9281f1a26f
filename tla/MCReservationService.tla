------------------------ MODULE MCReservationService ------------------------
(* Small instances of ReservationService.                                  *)
EXTENDS ReservationService, TLC

CONSTANTS ann, bob, i1, i2, r1, r2

(* bob is the barber and may book himself; ann is a client, a stranger to  *)
(* bob's own booking, and nobody's barber.                                 *)
MCAccounts == {ann, bob}
MCBarbers == {bob}
MCAskedBarbers == {bob, ann}

(* Overlapping, adjacent and inverted periods.                             *)
MCPeriods == {<<1, 3>>, <<2, 3>>, <<3, 4>>, <<3, 2>>}

Requests2 == {r1, r2}
Requests1 == {r1}
Ids2 == {i1, i2}

Symmetry == Permutations(Ids2) \cup Permutations(Requests2)
=============================================================================
