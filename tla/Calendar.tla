------------------------------ MODULE Calendar ------------------------------
(***************************************************************************)
(* What the reservation service promises, with no requests, no copies and  *)
(* no clock: a book of reservations in which a barber is never double      *)
(* booked.  Spec is the promise of docs/use-cases.md (UC-02, UC-03, UC-09): *)
(* a reservation is booked, moved while it is active, cancelled once.      *)
(* LooseSpec is what remains of it when requests overlap: a row keeps its  *)
(* parties and never clashes, but a late write may revive it or give it    *)
(* back a period it had left.                                              *)
(***************************************************************************)
EXTENDS Integers

CONSTANTS Ids, Accounts, Barbers, Times

VARIABLE book      \* id -> reservation

vars == <<book>>

Reservations == [user: Accounts, barber: Barbers, start: Times, end: Times,
                 status: {"active", "cancelled"}]

Overlap(a, b) ==
  /\ a.status = "active" /\ b.status = "active" /\ a.barber = b.barber
  /\ a.start < b.end /\ b.start < a.end

(* Row id can hold e: nobody else holds that time. *)
Free(id, e) == \A i \in DOMAIN book \ {id} : ~Overlap(e, book[i])

Write(id, e) == book' = [i \in DOMAIN book \cup {id} |-> IF i = id THEN e ELSE book[i]]

Init == book = [i \in {} |-> i]

Book(id) ==
  /\ id \notin DOMAIN book
  /\ \E e \in Reservations : /\ e.status = "active" /\ e.start < e.end
                             /\ Free(id, e) /\ Write(id, e)

(* Row id holds something else from now on, the same parties, if that time *)
(* is free.                                                                *)
Change(id, s, t, st) ==
  LET e == [book[id] EXCEPT !.start = s, !.end = t, !.status = st] IN
    s < t /\ Free(id, e) /\ Write(id, e)

Move(id) ==
  /\ id \in DOMAIN book
  /\ book[id].status = "active"
  /\ \E s, t \in Times : Change(id, s, t, "active")

Cancel(id) ==
  /\ id \in DOMAIN book
  /\ book[id].status = "active"
  /\ Change(id, book[id].start, book[id].end, "cancelled")

Amend(id) ==
  /\ id \in DOMAIN book
  /\ \E s, t \in Times, st \in {"active", "cancelled"} : Change(id, s, t, st)

Next == \E id \in Ids : Book(id) \/ Move(id) \/ Cancel(id)
LooseNext == \E id \in Ids : Book(id) \/ Amend(id)

Spec == Init /\ [][Next]_vars
LooseSpec == Init /\ [][LooseNext]_vars
=============================================================================
