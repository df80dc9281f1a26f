---------------------------- MODULE ErrorsProofs ----------------------------
(* What the translation of errors comes to, for the errors the tables and  *)
(* a broken connection can throw.                                          *)
EXTENDS Errors, TLAPS

(* A broken connection is answered 400 or 500, by luck: by whether its     *)
(* error happens to carry a code.                                          *)
LEMMA LostNames == Lost = {"BadRequest", "ServerError"}
BY DEF Lost, Respond, ExtractCode, Thrown

(* What the repository of reservations makes of its table's objections.    *)
LEMMA ReservationRefusals ==
  /\ ReservationRefusal(Thrown("23P01", "none")) = "Conflict"
  /\ ReservationRefusal(Thrown("40P01", "none")) = "Conflict"
  /\ ReservationRefusal(Thrown("23503", "user_id")) = "UserNotFound"
  /\ ReservationRefusal(Thrown("23503", "barber_id")) = "BarberNotFound"
<1>1. \A code, column : /\ ExtractCode(Thrown(code, column)) = code
                        /\ ForeignKeyColumn(Thrown(code, column)) = column
  BY DEF ExtractCode, ForeignKeyColumn, Thrown
<1>. QED  BY <1>1 DEF ReservationRefusal, IsConcurrencyError, IsForeignKeyViolation

(* What the other two repositories make of a key that is taken.            *)
LEMMA TakenKeys ==
  /\ UserRefusal(Thrown("23505", "none")) = "UserExists"
  /\ BarberRefusal(Thrown("23505", "none")) = "AlreadyBarber"
BY DEF UserRefusal, BarberRefusal, IsUniqueViolation, ExtractCode, Thrown
=============================================================================
