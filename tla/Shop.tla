-------------------------------- MODULE Shop --------------------------------
(***************************************************************************)
(* The directory with what is built on it: the access tokens a login       *)
(* hands out, the requests they open, and the reservations that name users *)
(* and barbers.  A guarded request is never in flight: its token is judged *)
(* without a look at the tables, and it runs one statement.  Of a          *)
(* reservation only its parties are kept here; its period and its status   *)
(* are the matter of ReservationService.                                   *)
(***************************************************************************)
EXTENDS Directory

CONSTANT Ids    \* reservation ids randomUUID may draw

VARIABLES reservations, \* the table: id -> its parties
          inactive,     \* barbers whose row says active = false
          badges,       \* users an access token was issued to
          shown         \* what was answered to whom: barbers, and <<user, reservation>>

shop == <<reservations, inactive, badges, shown>>
shopVars == <<vars, shop>>

(* ReservationMapper.toPersistence and BarberMapper.toDomain.              *)
Row(user, barber) == [user |-> user, barber |-> barber]
Barber(id) == [profile |-> barbers[id], active |-> id \notin inactive]

ShopAnswers == Answers \cup {"Unauthenticated", "BarberNotFound", "Inactive", "NotFound",
                             "Unauthorized", "Conflict"}

ShopTypeOK ==
  /\ IsTable(users, UserIds, [email: {Fold[s] : s \in Spellings},
                              passwordHash: {Hash(p) : p \in Passwords}])
  /\ IsTable(barbers, UserIds, Profiles)
  /\ IsTable(call, Requests, Calls)
  /\ welcomed \subseteq Spellings \X Passwords
  /\ IsTable(reservations, Ids, [user: UserIds, barber: UserIds])
  /\ inactive \subseteq UserIds
  /\ badges \subseteq UserIds
  /\ shown \in [barbers: SUBSET UserIds, reservations: SUBSET (UserIds \X Ids)]
  /\ answer \in ShopAnswers

ShopInit ==
  /\ Init
  /\ reservations = [i \in {} |-> i]
  /\ inactive = {}
  /\ badges = {}
  /\ shown = [barbers |-> {}, reservations |-> {}]
-----------------------------------------------------------------------------
(* What each guarded request finds.  Faults: anyone's reservations are     *)
(* listed; the barber's foreign key is missing.                            *)
GetMe(u) == IF u \in DOMAIN users THEN "ok" ELSE "UserNotFound"

AllActive == {b \in DOMAIN barbers : Barber(b).active}

GetBarber(b) ==
  IF b \notin DOMAIN barbers THEN "BarberNotFound"
  ELSE IF ~Barber(b).active THEN "Inactive"
  ELSE "ok"

Everyones(u) == DOMAIN reservations
ManyByUserId(u) == {i \in DOMAIN reservations : reservations[i].user = u}

GetReservation(u, i) ==
  IF i \notin DOMAIN reservations THEN "NotFound"
  ELSE IF u \notin {reservations[i].user, reservations[i].barber} THEN "Unauthorized"
  ELSE "ok"

UserKeyOnly(u, b) ==
  IF u \notin DOMAIN users THEN ReservationRefusal(Thrown("23503", "user_id"))
  ELSE "ok"
BookingVerdict(u, b) ==
  IF u \notin DOMAIN users THEN ReservationRefusal(Thrown("23503", "user_id"))
  ELSE IF b \notin DOMAIN barbers THEN ReservationRefusal(Thrown("23503", "barber_id"))
  ELSE "ok"
-----------------------------------------------------------------------------
(* The directory's own requests; POST /barbers is behind the guard.        *)
Manage(r) ==
  /\ \/ SignUp(r) \/ Login(r) \/ InsertUser(r) \/ FindUser(r) \/ FindBarber(r)
     \/ StatementLost(r) \/ Die(r)
     \/ badges # {} /\ Promote(r)
  /\ UNCHANGED shop

(* A promotion answered 201 carries the barber's id.                       *)
Employ(r) ==
  /\ InsertBarber(r)
  /\ shown' = IF answer' = "ok" THEN [shown EXCEPT !.barbers = @ \cup {call[r].id}] ELSE shown
  /\ UNCHANGED <<reservations, inactive, badges>>

(* A login answered 200 carries a token signed for the user it found.      *)
Generate(found) == badges \cup found
Enter(r) ==
  /\ Authenticate(r)
  /\ badges' = IF answer' = "ok"
               THEN Generate({i \in DOMAIN users : users[i].email = call[r].spelling})
               ELSE badges
  /\ UNCHANGED <<reservations, inactive, shown>>

(* No row, and nothing on the way of another request, changes.             *)
Reads(a) == answer' = a /\ UNCHANGED <<users, barbers, call, welcomed, reservations, inactive,
                                       badges>>

(* The guard: without a token, or with one that is forged or expired, 401; *)
(* otherwise the request is that of the token's sub, whoever that still is.*)
TurnedAway == Reads("Unauthenticated") /\ UNCHANGED shown
Sub == badges

(* The one statement of a guarded request fails.                           *)
VisitLost == (\E a \in Lost : Reads(a)) /\ UNCHANGED shown

(* GET /users/me *)
Me == (\E u \in Sub : Reads(GetMe(u))) /\ UNCHANGED shown

(* GET /users/me/reservations *)
MyReservations ==
  \E u \in Sub :
    /\ Reads("ok")
    /\ shown' = [shown EXCEPT !.reservations = @ \cup {u} \X ManyByUserId(u)]

(* GET /barbers *)
AllBarbers ==
  /\ Sub # {}
  /\ Reads("ok")
  /\ shown' = [shown EXCEPT !.barbers = @ \cup AllActive]

(* GET /barbers/:id *)
BarberById ==
  /\ Sub # {}
  /\ \E b \in UserIds :
       /\ Reads(GetBarber(b))
       /\ shown' = IF GetBarber(b) = "ok" THEN [shown EXCEPT !.barbers = @ \cup {b}] ELSE shown

(* GET /reservations/:id *)
ReservationById ==
  \E u \in Sub, i \in Ids :
    /\ Reads(GetReservation(u, i))
    /\ shown' = IF GetReservation(u, i) = "ok"
                THEN [shown EXCEPT !.reservations = @ \cup {<<u, i>>}] ELSE shown

(* POST /reservations, for a period the entity accepts: a conflict is for  *)
(* the exclusion constraint to say.  The 201 carries the id, and may be    *)
(* lost; a barber's active flag is not looked at.                          *)
Book ==
  /\ \E u \in Sub, b \in UserIds, i \in Ids \ DOMAIN reservations :
       \/ /\ BookingVerdict(u, b) # "ok"
          /\ Reads(BookingVerdict(u, b))
          /\ UNCHANGED shown
       \/ /\ BookingVerdict(u, b) = "ok"
          /\ Reads("Conflict")
          /\ UNCHANGED shown
       \/ /\ BookingVerdict(u, b) = "ok"
          /\ reservations' = Insert(reservations, i, Row(u, b))
          /\ \E a \in {"ok", "none"} \cup Lost :
               /\ answer' = a
               /\ shown' = IF a = "ok"
                           THEN [shown EXCEPT !.reservations = @ \cup {<<u, i>>}] ELSE shown
          /\ UNCHANGED <<users, barbers, call, welcomed, inactive, badges>>

(* Barber.deactivate.  No use case calls it: the flag is set by hand.      *)
Deactivate ==
  /\ \E b \in DOMAIN barbers \ inactive : inactive' = inactive \cup {b}
  /\ answer' = "none"
  /\ UNCHANGED <<users, barbers, call, welcomed, reservations, badges, shown>>

Visit == \/ TurnedAway \/ VisitLost \/ Me \/ MyReservations \/ AllBarbers \/ BarberById
         \/ ReservationById \/ Book

ShopNext == \/ \E r \in Requests : Manage(r) \/ Employ(r) \/ Enter(r)
            \/ Visit \/ Deactivate

ShopSpec == ShopInit /\ [][ShopNext]_shopVars
-----------------------------------------------------------------------------
(* Whoever is named exists: a barber is a user, a token's bearer too, and  *)
(* a reservation's parties are a user and a barber.  ReservationService    *)
(* takes this for granted of its constants.                                *)
PartiesExist ==
  /\ DOMAIN barbers \subseteq DOMAIN users
  /\ inactive \subseteq DOMAIN barbers
  /\ badges \subseteq DOMAIN users
  /\ \A i \in DOMAIN reservations :
       reservations[i].user \in DOMAIN users /\ reservations[i].barber \in DOMAIN barbers

(* What was shown can be acted on for ever.  A token keeps opening its     *)
(* user's doors though it is never checked against the table; a barber     *)
(* once listed, read or promoted is never unknown again, to a reader or to *)
(* a booking; a reservation once listed, read or made is never missing or  *)
(* forbidden to the one it was shown to.                                   *)
ShownStays ==
  /\ \A u \in badges : GetMe(u) = "ok"
  /\ \A b \in shown.barbers : /\ GetBarber(b) # "BarberNotFound"
                              /\ \A u \in badges : BookingVerdict(u, b) = "ok"
  /\ \A s \in shown.reservations : GetReservation(s[1], s[2]) = "ok"

(* UC-02 of docs/use-cases.md: the barber must be active.                  *)
BookedBarberIsActive ==
  [][\A i \in DOMAIN reservations' \ DOMAIN reservations :
       reservations'[i].barber \notin inactive]_shopVars
=============================================================================
