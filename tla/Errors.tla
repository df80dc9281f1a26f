------------------------------- MODULE Errors -------------------------------
(***************************************************************************)
(* What becomes of the error a statement throws: PostgresErrorMapper, the  *)
(* catch blocks of the three repositories, and GlobalExceptionFilter.      *)
(* There is no state here: an error goes in, the name of an answer comes   *)
(* out.  "none" stands for a code or a column that is not there.           *)
(***************************************************************************)
EXTENDS Naturals

(* An error as a repository catches it.  The driver's own error carries    *)
(* the code and, for a foreign key, the column its detail names; drizzle   *)
(* wraps it once, so that it is the cause, one deep.                       *)
Thrown(code, column) == [code |-> code, column |-> column, depth |-> 1]

(* The code is looked for on the error and on its cause.  The fault does   *)
(* not look at the cause.                                                  *)
DirectCode(e) == IF e.depth = 0 THEN e.code ELSE "none"
ExtractCode(e) == IF e.depth \in {0, 1} THEN e.code ELSE "none"

(* The column of "Key (column)=(value)" in the detail, found the same way. *)
ForeignKeyColumn(e) == IF e.depth \in {0, 1} THEN e.column ELSE "none"

IsUniqueViolation(e) == ExtractCode(e) = "23505"
IsForeignKeyViolation(e) == ExtractCode(e) = "23503"

(* Deadlock, serialization failure, unique and exclusion violation.        *)
IsConcurrencyError(e) == ExtractCode(e) \in {"40P01", "40001", "23505", "23P01"}

(* An error no repository translated reaches the filter: any code at all,  *)
(* even the socket's, is answered 400 "Database constraint violation", an  *)
(* error without one 500.  The fault answers the code as it is.            *)
BareCode(e) == ExtractCode(e)
Respond(e) == IF ExtractCode(e) # "none" THEN "BadRequest" ELSE "ServerError"

(* The catch blocks of the repositories' save.                             *)
ReservationRefusal(e) ==
  CASE IsConcurrencyError(e) -> "Conflict"
    [] IsForeignKeyViolation(e) /\ ForeignKeyColumn(e) = "user_id" -> "UserNotFound"
    [] IsForeignKeyViolation(e) /\ ForeignKeyColumn(e) = "barber_id" -> "BarberNotFound"
    [] IsForeignKeyViolation(e) /\ ForeignKeyColumn(e) \notin {"user_id", "barber_id"}
         -> "DependencyNotFound"
    [] OTHER -> Respond(e)
UserRefusal(e) == IF IsUniqueViolation(e) THEN "UserExists" ELSE Respond(e)
BarberRefusal(e) == IF IsUniqueViolation(e) THEN "AlreadyBarber" ELSE Respond(e)

(* A connection that breaks: the socket's error has a code, the driver's   *)
(* "Connection terminated" and the pool's timeout have none.               *)
Lost == {Respond(Thrown("ECONNRESET", "none")), Respond(Thrown("none", "none"))}

(* The HTTP status of each refusal.  Invalid is what a refresh, a logout   *)
(* and RefreshTokens' logins answer for credentials they do not accept.    *)
Status ==
  [Unauthenticated |-> 401, InvalidCredentials |-> 401, Invalid |-> 401, Reuse |-> 401,
   Unauthorized |-> 403,
   NotFound |-> 404, UserNotFound |-> 404, BarberNotFound |-> 404,
   DependencyNotFound |-> 404, Cancelled |-> 409, Conflict |-> 409,
   UserExists |-> 409, AlreadyBarber |-> 409, Inactive |-> 410,
   InvalidTime |-> 422, Past |-> 422, Late |-> 422,
   InvalidEmail |-> 400, BadRequest |-> 400, ServerError |-> 500]

ClientErrors == {a \in DOMAIN Status : Status[a] \in 400..499}
=============================================================================
