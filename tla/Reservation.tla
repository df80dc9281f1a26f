---------------------------- MODULE Reservation ----------------------------
(***************************************************************************)
(* The reservation entity: the rules a reservation obeys by itself, with   *)
(* no clock and no database of its own.  A reservation is a record         *)
(*   [user, barber, start, end, status]                                    *)
(* and each operation is a refusal (the error it throws, or "ok") and the  *)
(* entity it leaves behind.  createdAt is never read by a rule.            *)
(***************************************************************************)
EXTENDS Integers

CONSTANT Notice     \* the notice a client owes: one hour, in clock units

ASSUME NoticeAssumption == Notice \in Nat

Statuses == {"active", "cancelled"}

(* A requested period <<start, end>> the entity accepts. *)
ValidPeriod(p) == p[1] < p[2]

(* Reservation.create *)
NewReservation(user, barber, p) ==
  [user |-> user, barber |-> barber, start |-> p[1], end |-> p[2], status |-> "active"]

(* Faults: anyone may act; a cancelled reservation is as good as any; the  *)
(* start itself still counts as the future.                                *)
AnyoneMay(res, actor, time) ==
  IF res.status = "cancelled" THEN "Cancelled"
  ELSE IF time >= res.start THEN "Past"
  ELSE IF actor = res.user /\ time >= res.start - Notice THEN "Late"
  ELSE "ok"
AnyStatusMay(res, actor, time) ==
  IF actor \notin {res.user, res.barber} THEN "Unauthorized"
  ELSE IF time >= res.start THEN "Past"
  ELSE IF actor = res.user /\ time >= res.start - Notice THEN "Late"
  ELSE "ok"
StartIsFuture(res, actor, time) ==
  IF res.status = "cancelled" THEN "Cancelled"
  ELSE IF actor \notin {res.user, res.barber} THEN "Unauthorized"
  ELSE IF time > res.start THEN "Past"
  ELSE IF actor = res.user /\ time >= res.start - Notice THEN "Late"
  ELSE "ok"

(* The checks cancel and reschedule share, in the order the code makes them. *)
Refusal(res, actor, time) ==
  IF res.status = "cancelled" THEN "Cancelled"
  ELSE IF actor \notin {res.user, res.barber} THEN "Unauthorized"
  ELSE IF time >= res.start THEN "Past"
  ELSE IF actor = res.user /\ time >= res.start - Notice THEN "Late"
  ELSE "ok"

(* Reservation.cancel *)
CancelRefusal(res, actor, time) == Refusal(res, actor, time)
Cancelled(res) == [res EXCEPT !.status = "cancelled"]

(* Reservation.reschedule: the new start is not compared with the clock. *)
RescheduleRefusal(res, actor, time, p) ==
  IF Refusal(res, actor, time) # "ok" THEN Refusal(res, actor, time)
  ELSE IF ~ValidPeriod(p) THEN "InvalidTime"
  ELSE "ok"
Rescheduled(res, p) == [res EXCEPT !.start = p[1], !.end = p[2]]

(* Two half-open periods of one barber share an instant.                   *)
SamePlace(a, b) == a.barber = b.barber /\ a.start < b.end /\ b.start < a.end

(* A fault, and the constraint of migration 0002: status is not looked at. *)
ClashAnyStatus(a, b) == SamePlace(a, b)

(* The pair the exclusion constraint forbids: cancelled rows take no room. *)
Clash(a, b) == a.status = "active" /\ b.status = "active" /\ SamePlace(a, b)
=============================================================================
