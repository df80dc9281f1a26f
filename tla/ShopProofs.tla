----------------------------- MODULE ShopProofs -----------------------------
(***************************************************************************)
(* Theorems about Shop, and so about Directory within it, for every value  *)
(* of the constants: any number of accounts, requests and reservations.    *)
(*                                                                         *)
(* No property here is inductive alone.  That an address is one account's  *)
(* rests on the ids drawn for sign-ups in flight being new; that a welcome *)
(* is kept rests on the account it was for; that what was shown stays      *)
(* rests on every table only growing.  IInv puts them together.            *)
(***************************************************************************)
EXTENDS Shop, ErrorsProofs, TLAPS

(* The ids of the sign-ups in flight are new and their own; the user a     *)
(* promotion has found is there.                                           *)
InFlight ==
  \A r \in DOMAIN call :
    /\ At(r, "insertUser") =>
         /\ call[r].id \notin DOMAIN users
         /\ \A q \in DOMAIN call \ {r} : At(q, "insertUser") => call[q].id # call[r].id
    /\ At(r, "findBarber") \/ At(r, "insertBarber") => call[r].id \in DOMAIN users

(* An address is stored once, in lower case; a sign-up that was welcomed   *)
(* has its account, with its password.                                     *)
Addresses ==
  /\ \A i \in DOMAIN users : Fold[users[i].email] = users[i].email
  /\ \A i, j \in DOMAIN users : users[i].email = users[j].email => i = j
Welcomes ==
  /\ \A a \in welcomed : \E i \in DOMAIN users :
       users[i].email = Fold[a[1]] /\ users[i].passwordHash = Hash(a[2])
  /\ \A a, b \in welcomed : Fold[a[1]] = Fold[b[1]] => a = b

(* What was shown is in the tables, and to whom it was shown is a party.   *)
ShownRows ==
  /\ shown.barbers \subseteq DOMAIN barbers
  /\ \A s \in shown.reservations :
       /\ s[2] \in DOMAIN reservations
       /\ s[1] \in {reservations[s[2]].user, reservations[s[2]].barber}

IInv == ShopTypeOK /\ InFlight /\ Addresses /\ Welcomes /\ PartiesExist /\ ShownRows

(* Tables only grow. *)
Grows(t, u) == \A k \in DOMAIN t : k \in DOMAIN u /\ u[k] = t[k]

-----------------------------------------------------------------------------
(* What the keys of the tables let through. *)
LEMMA UserVerdictIs ==
  ASSUME NEW email
  PROVE  UserVerdict(email) = IF Taken(email) THEN "UserExists" ELSE "ok"
BY TakenKeys DEF UserVerdict

LEMMA BarberVerdictIs ==
  ASSUME NEW id
  PROVE  BarberVerdict(id) = IF id \in DOMAIN barbers THEN "AlreadyBarber"
                             ELSE IF id \notin DOMAIN users THEN "BadRequest" ELSE "ok"
<1>1. BarberRefusal(Thrown("23503", "id")) = "BadRequest"
  BY DEF BarberRefusal, IsUniqueViolation, Respond, ExtractCode, Thrown
<1>. QED  BY <1>1, TakenKeys DEF BarberVerdict

LEMMA BookingVerdictIs ==
  ASSUME NEW u, NEW b
  PROVE  BookingVerdict(u, b) = IF u \notin DOMAIN users THEN "UserNotFound"
                                ELSE IF b \notin DOMAIN barbers THEN "BarberNotFound" ELSE "ok"
BY ReservationRefusals DEF BookingVerdict

(* What the helpers do to the requests in flight and to a table. *)
LEMMA GotoTypes ==
  ASSUME IsTable(call, Requests, Calls), NEW r \in Requests, NEW c \in Calls, Goto(r, c)
  PROVE  IsTable(call', Requests, Calls) /\ answer' = "none"
BY DEF IsTable, Goto

LEMMA FinishTypes ==
  ASSUME IsTable(call, Requests, Calls), NEW r, NEW a, Finish(r, a)
  PROVE  IsTable(call', Requests, Calls) /\ answer' = a
BY DEF IsTable, Finish

LEMMA InsertTypes ==
  ASSUME NEW table, NEW keys, NEW rows, IsTable(table, keys, rows),
         NEW key \in keys, NEW row \in rows
  PROVE  IsTable(Insert(table, key, row), keys, rows)
BY DEF IsTable, Insert

LEMMA InsertGrows ==
  ASSUME NEW table, NEW key, NEW row, key \notin DOMAIN table
  PROVE  Grows(table, Insert(table, key, row))
BY DEF Grows, Insert
-----------------------------------------------------------------------------
(* The directory's part of the types, and that each of its steps keeps it. *)
Tables ==
  /\ IsTable(users, UserIds, [email: {Fold[s] : s \in Spellings},
                              passwordHash: {Hash(p) : p \in Passwords}])
  /\ IsTable(barbers, UserIds, Profiles)
  /\ IsTable(call, Requests, Calls)
  /\ welcomed \subseteq Spellings \X Passwords

(* A request at a step has the record of that step.                        *)
LEMMA StepTypes ==
  ASSUME IsTable(call, Requests, Calls), NEW r \in DOMAIN call
  PROVE  /\ call[r].step = "insertUser" => call[r] \in SignUpCall
         /\ call[r].step = "login" => call[r] \in LoginCall
         /\ call[r].step \in {"findUser", "findBarber", "insertBarber"} => call[r] \in PromoteCall
BY DEF IsTable, Calls, SignUpCall, LoginCall, PromoteCall

LEMMA DirectoryTypes ==
  ASSUME Tables, NEW r \in Requests,
         \/ SignUp(r) \/ Login(r) \/ Promote(r) \/ InsertUser(r) \/ Authenticate(r)
         \/ FindUser(r) \/ FindBarber(r) \/ InsertBarber(r) \/ StatementLost(r) \/ Die(r)
  PROVE  Tables' /\ answer' \in Answers
<1>1. ASSUME NEW a \in Answers, Finish(r, a), UNCHANGED <<users, barbers, welcomed>>
      PROVE  Tables' /\ answer' \in Answers
  BY <1>1, FinishTypes DEF Tables
<1>2. ASSUME NEW c \in Calls, Goto(r, c), UNCHANGED <<users, barbers, welcomed>>
      PROVE  Tables' /\ answer' \in Answers
  BY <1>2, GotoTypes DEF Tables, Answers
<1>3. CASE SignUp(r)
  <2>1. ASSUME NEW id \in FreshIds, NEW s \in Spellings, NEW p \in Passwords
        PROVE  [step |-> "insertUser", id |-> id, spelling |-> s, password |-> p] \in Calls
    BY DEF FreshIds, SignUpCall, Calls
  <2>. QED  BY <1>1, <1>2, <1>3, <2>1 DEF SignUp, Answers
<1>4. CASE Login(r)
  <2>1. ASSUME NEW s \in Spellings, NEW p \in Passwords
        PROVE  [step |-> "login", spelling |-> s, password |-> p] \in Calls
    BY DEF LoginCall, Calls
  <2>. QED  BY <1>2, <1>4, <2>1 DEF Login
<1>5. CASE Promote(r)
  <2>1. ASSUME NEW id \in UserIds, NEW profile \in Profiles
        PROVE  [step |-> "findUser", id |-> id, profile |-> profile] \in Calls
    BY DEF PromoteCall, Calls
  <2>. QED  BY <1>2, <1>5, <2>1 DEF Promote
<1>6. CASE InsertUser(r)
  <2>1. call[r] \in SignUpCall
    BY <1>6, StepTypes DEF InsertUser, At, Tables
  <2>2. CASE UserVerdict(Email(call[r].spelling)) # "ok"
    BY <1>1, <1>6, <2>2, UserVerdictIs DEF InsertUser, Answers
  <2>3. CASE UserVerdict(Email(call[r].spelling)) = "ok"
    <3>1. PICK a \in {"ok", "none"} \cup Lost : Finish(r, a)
      BY <1>6, <2>3 DEF InsertUser
    <3>2. IsTable(call', Requests, Calls) /\ answer' \in Answers
      BY <3>1, FinishTypes, LostNames DEF Tables, Answers
    <3>3. [email |-> Email(call[r].spelling), passwordHash |-> Hash(call[r].password)]
            \in [email: {Fold[s] : s \in Spellings}, passwordHash: {Hash(p) : p \in Passwords}]
      BY <2>1 DEF SignUpCall, Email
    <3>4. call[r].id \in UserIds /\ <<call[r].spelling, call[r].password>> \in Spellings \X Passwords
      BY <2>1 DEF SignUpCall
    <3>5. users' = Insert(users, call[r].id, [email |-> Email(call[r].spelling),
                                             passwordHash |-> Hash(call[r].password)])
      BY <1>6, <2>3 DEF InsertUser
    <3>6. IsTable(users', UserIds, [email: {Fold[s] : s \in Spellings},
                                    passwordHash: {Hash(p) : p \in Passwords}])
      BY <3>3, <3>4, <3>5, InsertTypes DEF Tables
    <3>7. welcomed' \subseteq Spellings \X Passwords /\ barbers' = barbers
      BY <1>6, <2>3, <3>4 DEF InsertUser, Tables
    <3>. QED  BY <3>2, <3>6, <3>7 DEF Tables
  <2>. QED  BY <2>2, <2>3
<1>7. CASE Authenticate(r)
  BY <1>1, <1>7 DEF Authenticate, Answers
<1>8. CASE FindUser(r) \/ FindBarber(r)
  <2>1. call[r] \in PromoteCall
    BY <1>8, StepTypes DEF FindUser, FindBarber, At, Tables
  <2>2. \A step \in {"findBarber", "insertBarber"} : [call[r] EXCEPT !.step = step] \in Calls
    BY <2>1 DEF PromoteCall, Calls
  <2>. QED  BY <1>1, <1>2, <1>8, <2>2 DEF FindUser, FindBarber, Answers
<1>9. CASE InsertBarber(r)
  <2>1. call[r] \in PromoteCall
    BY <1>9, StepTypes DEF InsertBarber, At, Tables
  <2>2. CASE BarberVerdict(call[r].id) # "ok"
    BY <1>1, <1>9, <2>2, BarberVerdictIs DEF InsertBarber, Answers
  <2>3. CASE BarberVerdict(call[r].id) = "ok"
    <3>1. PICK a \in {"ok", "none"} \cup Lost : Finish(r, a)
      BY <1>9, <2>3 DEF InsertBarber
    <3>2. IsTable(call', Requests, Calls) /\ answer' \in Answers
      BY <3>1, FinishTypes, LostNames DEF Tables, Answers
    <3>3. call[r].id \in UserIds /\ call[r].profile \in Profiles
      BY <2>1 DEF PromoteCall
    <3>4. IsTable(barbers', UserIds, Profiles)
      BY <1>9, <2>3, <3>3, InsertTypes DEF InsertBarber, Tables
    <3>. QED  BY <1>9, <3>2, <3>4 DEF InsertBarber, Tables
  <2>. QED  BY <2>2, <2>3
<1>10. CASE StatementLost(r) \/ Die(r)
  BY <1>1, <1>10, LostNames DEF StatementLost, Die, Answers
<1>. QED  BY <1>3, <1>4, <1>5, <1>6, <1>7, <1>8, <1>9, <1>10
-----------------------------------------------------------------------------
(* Every step of the shop keeps the types. *)
Showing == [barbers: SUBSET UserIds, reservations: SUBSET (UserIds \X Ids)]

LEMMA TypeStep ==
  ASSUME ShopTypeOK, [ShopNext]_shopVars
  PROVE  ShopTypeOK'
<1>. USE DEF ShopTypeOK
<1>1. CASE UNCHANGED shopVars
  BY <1>1 DEF shopVars, shop, vars
<1>2. Tables
  BY DEF Tables
<1>3. ASSUME NEW r \in Requests, Manage(r)
      PROVE  ShopTypeOK'
  <2>1. Tables' /\ answer' \in Answers
    BY <1>2, <1>3, DirectoryTypes DEF Manage
  <2>. QED  BY <1>3, <2>1 DEF Manage, shop, Tables, ShopAnswers
<1>4. ASSUME NEW r \in Requests, Employ(r)
      PROVE  ShopTypeOK'
  <2>1. Tables' /\ answer' \in Answers
    BY <1>2, <1>4, DirectoryTypes DEF Employ
  <2>2. call[r].id \in UserIds
    BY <1>4, StepTypes DEF Employ, InsertBarber, At, PromoteCall
  <2>3. shown' \in Showing
    BY <1>4, <2>2 DEF Employ, Showing
  <2>. QED  BY <1>4, <2>1, <2>3 DEF Employ, Tables, ShopAnswers, Showing
<1>5. ASSUME NEW r \in Requests, Enter(r)
      PROVE  ShopTypeOK'
  <2>1. Tables' /\ answer' \in Answers
    BY <1>2, <1>5, DirectoryTypes DEF Enter
  <2>2. badges' \subseteq UserIds
    BY <1>5 DEF Enter, Generate, IsTable
  <2>. QED  BY <1>5, <2>1, <2>2 DEF Enter, Tables, ShopAnswers
<1>6. ASSUME NEW a \in ShopAnswers, Reads(a), shown' \in Showing
      PROVE  ShopTypeOK'
  BY <1>6 DEF Reads, Showing
<1>7. CASE TurnedAway \/ VisitLost \/ Me
  BY <1>6, <1>7, LostNames DEF TurnedAway, VisitLost, Me, GetMe, ShopAnswers, Answers, Showing
<1>8. CASE MyReservations
  <2>1. PICK u \in Sub : /\ Reads("ok")
                         /\ shown' = [shown EXCEPT !.reservations = @ \cup {u} \X ManyByUserId(u)]
    BY <1>8 DEF MyReservations
  <2>2. u \in UserIds /\ ManyByUserId(u) \subseteq Ids
    BY DEF Sub, ManyByUserId, IsTable
  <2>3. shown' \in Showing
    BY <2>1, <2>2 DEF Showing
  <2>. QED  BY <1>6, <2>1, <2>3 DEF ShopAnswers, Answers
<1>9. CASE AllBarbers
  <2>1. AllActive \subseteq UserIds
    BY DEF AllActive, IsTable
  <2>2. shown' \in Showing
    BY <1>9, <2>1 DEF AllBarbers, Showing
  <2>. QED  BY <1>6, <1>9, <2>2 DEF AllBarbers, ShopAnswers, Answers
<1>10. CASE BarberById
  <2>1. PICK b \in UserIds :
          /\ Reads(GetBarber(b))
          /\ shown' = IF GetBarber(b) = "ok" THEN [shown EXCEPT !.barbers = @ \cup {b}] ELSE shown
    BY <1>10 DEF BarberById
  <2>2. shown' \in Showing
    BY <2>1 DEF Showing
  <2>. QED  BY <1>6, <2>1, <2>2 DEF GetBarber, ShopAnswers, Answers
<1>11. CASE ReservationById
  <2>1. PICK u \in Sub, i \in Ids :
          /\ Reads(GetReservation(u, i))
          /\ shown' = IF GetReservation(u, i) = "ok"
                      THEN [shown EXCEPT !.reservations = @ \cup {<<u, i>>}] ELSE shown
    BY <1>11 DEF ReservationById
  <2>2. u \in UserIds
    BY DEF Sub
  <2>3. shown' \in Showing
    BY <2>1, <2>2 DEF Showing
  <2>. QED  BY <1>6, <2>1, <2>3 DEF GetReservation, ShopAnswers, Answers
<1>12. CASE Book
  <2>1. PICK u \in Sub, b \in UserIds, i \in Ids \ DOMAIN reservations :
          \/ /\ BookingVerdict(u, b) # "ok"
             /\ Reads(BookingVerdict(u, b)) /\ UNCHANGED shown
          \/ Reads("Conflict") /\ UNCHANGED shown
          \/ /\ reservations' = Insert(reservations, i, Row(u, b))
             /\ \E a \in {"ok", "none"} \cup Lost :
                  /\ answer' = a
                  /\ shown' = IF a = "ok"
                              THEN [shown EXCEPT !.reservations = @ \cup {<<u, i>>}] ELSE shown
             /\ UNCHANGED <<users, barbers, call, welcomed, inactive, badges>>
    BY <1>12 DEF Book
  <2>2. CASE UNCHANGED shown /\ \E a \in ShopAnswers : Reads(a)
    BY <1>6, <2>2 DEF Showing
  <2>3. BookingVerdict(u, b) \in ShopAnswers \cup {"BarberNotFound"} /\ "Conflict" \in ShopAnswers
    BY BookingVerdictIs DEF ShopAnswers, Answers
  <2>4. CASE reservations' = Insert(reservations, i, Row(u, b)) /\ UNCHANGED <<users, barbers, call,
             welcomed, inactive, badges>> /\ \E a \in {"ok", "none"} \cup Lost :
                  /\ answer' = a
                  /\ shown' = IF a = "ok"
                              THEN [shown EXCEPT !.reservations = @ \cup {<<u, i>>}] ELSE shown
    <3>1. u \in UserIds
      BY DEF Sub
    <3>2. IsTable(reservations', Ids, [user: UserIds, barber: UserIds])
      BY <2>4, <3>1, InsertTypes DEF Row
    <3>3. shown' \in Showing
      BY <2>4, <3>1 DEF Showing
    <3>4. answer' \in ShopAnswers
      BY <2>4, LostNames DEF ShopAnswers, Answers
    <3>. QED  BY <2>4, <3>2, <3>3, <3>4 DEF Showing
  <2>. QED  BY <2>1, <2>2, <2>3, <2>4 DEF ShopAnswers
<1>13. CASE Deactivate
  BY <1>13 DEF Deactivate, IsTable, ShopAnswers, Answers
<1>. QED
  BY <1>1, <1>3, <1>4, <1>5, <1>7, <1>8, <1>9, <1>10, <1>11, <1>12, <1>13 DEF ShopNext, Visit
-----------------------------------------------------------------------------
(* Who writes what. *)
LEMMA Writers ==
  ASSUME [ShopNext]_shopVars
  PROVE  /\ UNCHANGED <<users, welcomed>> \/ \E r \in Requests : InsertUser(r)
         /\ UNCHANGED barbers \/ \E r \in Requests : Employ(r)
         /\ UNCHANGED badges \/ \E r \in Requests : Enter(r)
         /\ UNCHANGED reservations \/ Book
         /\ UNCHANGED inactive \/ Deactivate
<1>1. CASE UNCHANGED shopVars
  BY <1>1 DEF shopVars, vars, shop
<1>2. ASSUME NEW r \in Requests, Manage(r)
      PROVE  /\ UNCHANGED <<users, welcomed>> \/ InsertUser(r)
             /\ UNCHANGED <<barbers, reservations, inactive, badges>>
  BY <1>2 DEF Manage, SignUp, Login, Promote, InsertUser, FindUser, FindBarber, StatementLost, Die,
              shop
<1>3. ASSUME NEW r \in Requests, Employ(r)
      PROVE  UNCHANGED <<users, welcomed, reservations, inactive, badges>>
  BY <1>3 DEF Employ, InsertBarber
<1>4. ASSUME NEW r \in Requests, Enter(r)
      PROVE  UNCHANGED <<users, welcomed, barbers, reservations, inactive>>
  BY <1>4 DEF Enter, Authenticate
<1>5. CASE Visit
  BY <1>5 DEF Visit, TurnedAway, VisitLost, Me, MyReservations, AllBarbers, BarberById,
              ReservationById, Book, Reads
<1>6. CASE Deactivate
  BY <1>6 DEF Deactivate
<1>. QED  BY <1>1, <1>2, <1>3, <1>4, <1>5, <1>6 DEF ShopNext

(* What a successful write writes. *)
LEMMA UserWritten ==
  ASSUME NEW r \in Requests, InsertUser(r), UserVerdict(Email(call[r].spelling)) = "ok"
  PROVE  /\ ~Taken(Email(call[r].spelling))
         /\ users' = Insert(users, call[r].id, [email |-> Email(call[r].spelling),
                                               passwordHash |-> Hash(call[r].password)])
         /\ \/ welcomed' = welcomed
            \/ welcomed' = welcomed \cup {<<call[r].spelling, call[r].password>>}
BY UserVerdictIs DEF InsertUser

LEMMA BarberWritten ==
  ASSUME NEW r \in Requests, Employ(r), BarberVerdict(call[r].id) = "ok"
  PROVE  /\ call[r].id \notin DOMAIN barbers /\ call[r].id \in DOMAIN users
         /\ barbers' = Insert(barbers, call[r].id, call[r].profile)
<1>1. call[r].id \in DOMAIN barbers => BarberVerdict(call[r].id) # "ok"
  BY BarberVerdictIs
<1>2. call[r].id \notin DOMAIN users => BarberVerdict(call[r].id) # "ok"
  BY BarberVerdictIs
<1>. QED  BY <1>1, <1>2 DEF Employ, InsertBarber

(* Every table only grows: no row is altered. *)
LEMMA TablesGrow ==
  ASSUME InFlight, [ShopNext]_shopVars
  PROVE  Grows(users, users') /\ Grows(barbers, barbers') /\ Grows(reservations, reservations')
<1>1. Grows(users, users')
  <2>1. CASE UNCHANGED users
    BY <2>1 DEF Grows
  <2>2. ASSUME NEW r \in Requests, InsertUser(r)
        PROVE  Grows(users, users')
    <3>1. CASE UserVerdict(Email(call[r].spelling)) = "ok"
      <4>1. call[r].id \notin DOMAIN users
        BY <2>2 DEF InsertUser, At, InFlight
      <4>. QED  BY <2>2, <3>1, <4>1, UserWritten, InsertGrows
    <3>2. CASE UserVerdict(Email(call[r].spelling)) # "ok"
      BY <2>2, <3>2 DEF InsertUser, Grows
    <3>. QED  BY <3>1, <3>2
  <2>. QED  BY <2>1, <2>2, Writers
<1>2. Grows(barbers, barbers')
  <2>1. CASE UNCHANGED barbers
    BY <2>1 DEF Grows
  <2>2. ASSUME NEW r \in Requests, Employ(r)
        PROVE  Grows(barbers, barbers')
    <3>1. CASE BarberVerdict(call[r].id) = "ok"
      BY <2>2, <3>1, BarberWritten, InsertGrows
    <3>2. CASE BarberVerdict(call[r].id) # "ok"
      BY <2>2, <3>2 DEF Employ, InsertBarber, Grows
    <3>. QED  BY <3>1, <3>2
  <2>. QED  BY <2>1, <2>2, Writers
<1>3. Grows(reservations, reservations')
  <2>1. CASE UNCHANGED reservations
    BY <2>1 DEF Grows
  <2>2. CASE Book
    BY <2>2, InsertGrows DEF Book, Reads, Grows
  <2>. QED  BY <2>1, <2>2, Writers
<1>. QED  BY <1>1, <1>2, <1>3
-----------------------------------------------------------------------------
(* Whoever is named exists, after every step. *)
LEMMA PartiesStep ==
  ASSUME PartiesExist, InFlight, [ShopNext]_shopVars
  PROVE  PartiesExist'
<1>1. DOMAIN users \subseteq DOMAIN users' /\ DOMAIN barbers \subseteq DOMAIN barbers'
  BY TablesGrow DEF Grows
<1>2. DOMAIN barbers' \subseteq DOMAIN users'
  <2>1. CASE UNCHANGED barbers
    BY <1>1, <2>1 DEF PartiesExist
  <2>2. ASSUME NEW r \in Requests, Employ(r)
        PROVE  DOMAIN barbers' \subseteq DOMAIN users'
    <3>1. CASE BarberVerdict(call[r].id) = "ok"
      <4>1. call[r].id \in DOMAIN users
        BY <2>2, <3>1, BarberWritten
      <4>2. barbers' = Insert(barbers, call[r].id, call[r].profile)
        BY <2>2, <3>1, BarberWritten
      <4>3. DOMAIN barbers' = DOMAIN barbers \cup {call[r].id}
        BY <4>2 DEF Insert
      <4>. QED  BY <1>1, <4>1, <4>3 DEF PartiesExist
    <3>2. CASE BarberVerdict(call[r].id) # "ok"
      BY <1>1, <2>2, <3>2 DEF Employ, InsertBarber, PartiesExist
    <3>. QED  BY <3>1, <3>2
  <2>. QED  BY <2>1, <2>2, Writers
<1>3. badges' \subseteq DOMAIN users'
  <2>1. CASE UNCHANGED badges
    BY <1>1, <2>1 DEF PartiesExist
  <2>2. ASSUME NEW r \in Requests, Enter(r)
        PROVE  badges' \subseteq DOMAIN users'
    BY <1>1, <2>2 DEF Enter, Generate, PartiesExist
  <2>. QED  BY <2>1, <2>2, Writers
<1>4. inactive' \subseteq DOMAIN barbers'
  BY <1>1, Writers DEF Deactivate, PartiesExist
<1>5. ASSUME NEW i \in DOMAIN reservations'
      PROVE  reservations'[i].user \in DOMAIN users' /\ reservations'[i].barber \in DOMAIN barbers'
  <2>1. CASE i \in DOMAIN reservations
    <3>1. reservations'[i] = reservations[i]
      BY <2>1, TablesGrow DEF Grows
    <3>. QED  BY <1>1, <2>1, <3>1 DEF PartiesExist
  <2>2. CASE i \notin DOMAIN reservations
    <3>1. Book
      BY <1>5, <2>2, Writers
    <3>2. PICK u \in Sub, b \in UserIds, j \in Ids \ DOMAIN reservations :
            BookingVerdict(u, b) = "ok" /\ reservations' = Insert(reservations, j, Row(u, b))
      BY <1>5, <2>2, <3>1 DEF Book, Reads
    <3>3. u \in DOMAIN users
      BY <3>2, BookingVerdictIs
    <3>4. b \in DOMAIN barbers
      BY <3>2, <3>3, BookingVerdictIs
    <3>5. reservations'[i] = Row(u, b)
      BY <1>5, <2>2, <3>2 DEF Insert
    <3>. QED  BY <1>1, <3>3, <3>4, <3>5 DEF Row
  <2>. QED  BY <2>1, <2>2
<1>. QED  BY <1>2, <1>3, <1>4, <1>5 DEF PartiesExist
-----------------------------------------------------------------------------
(* What a step does to the requests in flight: nothing, or one leaves, or  *)
(* one moves on, with the facts InFlight is about.                         *)
LEMMA CallMoves ==
  ASSUME Tables, InFlight, [ShopNext]_shopVars
  PROVE  \/ UNCHANGED <<call, users>>
         \/ \E r \in Requests : \E a : Finish(r, a) /\ UNCHANGED users
         \/ \E r \in Requests : \E a : /\ Finish(r, a) /\ At(r, "insertUser")
                                         /\ DOMAIN users' = DOMAIN users \cup {call[r].id}
         \/ \E r \in Requests, c \in Calls :
              /\ Goto(r, c) /\ UNCHANGED users
              /\ r \in DOMAIN call => call[r].step # "insertUser"
              /\ c.step = "insertUser" => c.id \in FreshIds
              /\ c.step \in {"findBarber", "insertBarber"} => c.id \in DOMAIN users
<1>1. CASE UNCHANGED shopVars
  BY <1>1 DEF shopVars, vars
<1>2. CASE Visit \/ Deactivate
  BY <1>2 DEF Visit, TurnedAway, VisitLost, Me, MyReservations, AllBarbers, BarberById,
              ReservationById, Book, Reads, Deactivate
<1>3. ASSUME NEW r \in Requests, SignUp(r)
      PROVE  \/ \E a : Finish(r, a) /\ UNCHANGED users
             \/ \E c \in SignUpCall : Goto(r, c) /\ UNCHANGED users /\ r \notin DOMAIN call
                                      /\ c.id \in FreshIds
  <2>1. CASE \E a : Finish(r, a) /\ UNCHANGED users
    BY <2>1
  <2>2. CASE \E id \in FreshIds, s \in Spellings, p \in Passwords :
               Goto(r, [step |-> "insertUser", id |-> id, spelling |-> s, password |-> p])
    <3>1. PICK id \in FreshIds, s \in Spellings, p \in Passwords :
            Goto(r, [step |-> "insertUser", id |-> id, spelling |-> s, password |-> p])
      BY <2>2
    <3>2. [step |-> "insertUser", id |-> id, spelling |-> s, password |-> p] \in SignUpCall
      BY DEF SignUpCall, FreshIds
    <3>. QED  BY <1>3, <3>1, <3>2 DEF SignUp
  <2>. QED  BY <1>3, <2>1, <2>2 DEF SignUp
<1>4. ASSUME NEW r \in Requests, Login(r) \/ Promote(r)
      PROVE  \E c \in LoginCall \cup PromoteCall :
               Goto(r, c) /\ UNCHANGED users /\ r \notin DOMAIN call /\ c.step \in {"login", "findUser"}
  <2>1. CASE Login(r)
    <3>1. PICK s \in Spellings, p \in Passwords :
            Goto(r, [step |-> "login", spelling |-> s, password |-> p])
      BY <2>1 DEF Login
    <3>2. [step |-> "login", spelling |-> s, password |-> p] \in LoginCall
      BY DEF LoginCall
    <3>. QED  BY <2>1, <3>1, <3>2 DEF Login
  <2>2. CASE Promote(r)
    <3>1. PICK id \in UserIds, profile \in Profiles :
            Goto(r, [step |-> "findUser", id |-> id, profile |-> profile])
      BY <2>2 DEF Promote
    <3>2. [step |-> "findUser", id |-> id, profile |-> profile] \in PromoteCall
      BY DEF PromoteCall
    <3>. QED  BY <2>2, <3>1, <3>2 DEF Promote
  <2>. QED  BY <1>4, <2>1, <2>2
<1>5. ASSUME NEW r \in Requests, InsertUser(r)
      PROVE  \/ \E a : Finish(r, a) /\ UNCHANGED users
             \/ \E a : /\ Finish(r, a) /\ At(r, "insertUser")
                       /\ DOMAIN users' = DOMAIN users \cup {call[r].id}
  BY <1>5 DEF InsertUser, Insert
<1>6. ASSUME NEW r \in Requests, FindUser(r) \/ FindBarber(r)
      PROVE  \/ \E a : Finish(r, a) /\ UNCHANGED users
             \/ \E c \in PromoteCall : Goto(r, c) /\ UNCHANGED users /\ call[r].step # "insertUser"
                                       /\ c.id \in DOMAIN users
  <2>1. call[r] \in PromoteCall /\ r \in DOMAIN call
    BY <1>6, StepTypes DEF FindUser, FindBarber, At, Tables
  <2>2. \A step \in {"findBarber", "insertBarber"} :
          /\ [call[r] EXCEPT !.step = step] \in PromoteCall
          /\ [call[r] EXCEPT !.step = step].id = call[r].id
    BY <2>1 DEF PromoteCall
  <2>3. call[r].step = "findBarber" => call[r].id \in DOMAIN users
    BY <2>1 DEF InFlight, At
  <2>. QED  BY <1>6, <2>1, <2>2, <2>3 DEF FindUser, FindBarber, At
<1>7. ASSUME NEW r \in Requests, Authenticate(r) \/ InsertBarber(r) \/ StatementLost(r) \/ Die(r)
      PROVE  \E a : Finish(r, a) /\ UNCHANGED users
  BY <1>7 DEF Authenticate, InsertBarber, StatementLost, Die
<1>8. ASSUME NEW r \in Requests, Manage(r) \/ Employ(r) \/ Enter(r)
      PROVE  \/ \E a : Finish(r, a) /\ UNCHANGED users
             \/ \E a : /\ Finish(r, a) /\ At(r, "insertUser")
                       /\ DOMAIN users' = DOMAIN users \cup {call[r].id}
             \/ \E c \in Calls :
                  /\ Goto(r, c) /\ UNCHANGED users
                  /\ r \in DOMAIN call => call[r].step # "insertUser"
                  /\ c.step = "insertUser" => c.id \in FreshIds
                  /\ c.step \in {"findBarber", "insertBarber"} => c.id \in DOMAIN users
  <2>1. CASE SignUp(r)
    BY <1>3, <2>1 DEF Calls, SignUpCall
  <2>2. CASE Login(r) \/ Promote(r)
    BY <1>4, <2>2 DEF Calls
  <2>3. CASE InsertUser(r)
    BY <1>5, <2>3
  <2>4. CASE FindUser(r) \/ FindBarber(r)
    BY <1>6, <2>4 DEF Calls, PromoteCall
  <2>5. CASE Authenticate(r) \/ InsertBarber(r) \/ StatementLost(r) \/ Die(r)
    BY <1>7, <2>5
  <2>. QED  BY <1>8, <2>1, <2>2, <2>3, <2>4, <2>5 DEF Manage, Employ, Enter
<1>. QED
  <2>1. CASE \E r \in Requests : Manage(r) \/ Employ(r) \/ Enter(r)
    BY <1>8, <2>1
  <2>. QED  BY <1>1, <1>2, <2>1 DEF ShopNext

LEMMA InFlightStep ==
  ASSUME Tables, InFlight, [ShopNext]_shopVars
  PROVE  InFlight'
<1>1. CASE UNCHANGED <<call, users>>
  BY <1>1 DEF InFlight, At
<1>2. ASSUME NEW r \in Requests, NEW a, Finish(r, a), UNCHANGED users
      PROVE  InFlight'
  BY <1>2 DEF InFlight, At, Finish
<1>3. ASSUME NEW r \in Requests, NEW a, Finish(r, a), At(r, "insertUser"),
             DOMAIN users' = DOMAIN users \cup {call[r].id}
      PROVE  InFlight'
  BY <1>3 DEF InFlight, At, Finish
<1>4. ASSUME NEW r \in Requests, NEW c \in Calls, Goto(r, c), UNCHANGED users,
             r \in DOMAIN call => call[r].step # "insertUser",
             c.step = "insertUser" => c.id \in FreshIds,
             c.step \in {"findBarber", "insertBarber"} => c.id \in DOMAIN users
      PROVE  InFlight'
  <2>1. c.step = "insertUser" => /\ c.id \notin DOMAIN users
                                 /\ \A q \in DOMAIN call : At(q, "insertUser") => call[q].id # c.id
    BY <1>4 DEF FreshIds
  <2>2. DOMAIN call' = DOMAIN call \cup {r}
    BY <1>4 DEF Goto
  <2>3. \A q \in DOMAIN call' : call'[q] = IF q = r THEN c ELSE call[q]
    BY <1>4 DEF Goto
  <2>. QED  BY <1>4, <2>1, <2>2, <2>3 DEF InFlight, At
<1>. QED  BY <1>1, <1>2, <1>3, <1>4, CallMoves
-----------------------------------------------------------------------------
(* An address is stored once, after every step.                            *)
LEMMA AddressesStep ==
  ASSUME Tables, Addresses, [ShopNext]_shopVars
  PROVE  Addresses'
<1>1. CASE UNCHANGED users
  BY <1>1 DEF Addresses
<1>2. ASSUME NEW r \in Requests, InsertUser(r)
      PROVE  Addresses'
  <2>1. CASE UserVerdict(Email(call[r].spelling)) # "ok"
    BY <1>1, <1>2, <2>1 DEF InsertUser
  <2>2. CASE UserVerdict(Email(call[r].spelling)) = "ok"
    <3>. DEFINE s == call[r].spelling
    <3>1. s \in Spellings
      BY <1>2, StepTypes DEF InsertUser, At, Tables, SignUpCall
    <3>2. Fold[Fold[s]] = Fold[s]
      BY <3>1, DirectoryAssumption
    <3>3. \A i \in DOMAIN users : users[i].email # Fold[s]
      BY <1>2, <2>2, UserWritten DEF Taken, Email
    <3>4. users' = Insert(users, call[r].id, [email |-> Fold[s],
                                             passwordHash |-> Hash(call[r].password)])
      BY <1>2, <2>2, UserWritten DEF Email
    <3>. HIDE DEF s
    <3>. QED  BY <3>2, <3>3, <3>4 DEF Addresses, Insert
  <2>. QED  BY <2>1, <2>2
<1>. QED  BY <1>1, <1>2, Writers

(* A welcomed sign-up keeps its account, after every step.                 *)
LEMMA WelcomesStep ==
  ASSUME Tables, InFlight, Addresses, Welcomes, [ShopNext]_shopVars
  PROVE  Welcomes'
<1>1. \A a \in welcomed : \E i \in DOMAIN users' :
        users'[i].email = Fold[a[1]] /\ users'[i].passwordHash = Hash(a[2])
  BY TablesGrow DEF Welcomes, Grows
<1>2. CASE welcomed' = welcomed
  BY <1>1, <1>2 DEF Welcomes
<1>3. ASSUME NEW r \in Requests, InsertUser(r), welcomed' # welcomed
      PROVE  Welcomes'
  <2>. DEFINE s == call[r].spelling
              p == call[r].password
              id == call[r].id
  <2>1. UserVerdict(Email(s)) = "ok"
    BY <1>3 DEF InsertUser
  <2>2. welcomed' = welcomed \cup {<<s, p>>}
    BY <1>3, <2>1, UserWritten
  <2>3. users' = Insert(users, id, [email |-> Fold[s], passwordHash |-> Hash(p)])
    BY <1>3, <2>1, UserWritten DEF Email
  <2>4. \A a \in welcomed : Fold[a[1]] # Fold[s]
    BY <1>3, <2>1, UserWritten DEF Welcomes, Taken, Email
  <2>5. id \in DOMAIN users' /\ users'[id] = [email |-> Fold[s], passwordHash |-> Hash(p)]
    BY <2>3 DEF Insert
  <2>. HIDE DEF s, p, id
  <2>6. \A a \in welcomed' : \E i \in DOMAIN users' :
          users'[i].email = Fold[a[1]] /\ users'[i].passwordHash = Hash(a[2])
    BY <1>1, <2>2, <2>5
  <2>7. \A a, b \in welcomed' : Fold[a[1]] = Fold[b[1]] => a = b
    BY <2>2, <2>4 DEF Welcomes
  <2>. QED  BY <2>6, <2>7 DEF Welcomes
<1>. QED  BY <1>2, <1>3, Writers
-----------------------------------------------------------------------------
(* What was shown is in the tables, after every step: each answer shows    *)
(* rows it has just found or written, and no row goes.                     *)
Listed(b) == b \in DOMAIN barbers
PartyOf(u, i) == i \in DOMAIN reservations
                 /\ u \in {reservations[i].user, reservations[i].barber}

LEMMA ShownOnly ==
  ASSUME ShopTypeOK, InFlight, ShownRows, [ShopNext]_shopVars,
         \A b \in shown'.barbers : b \in shown.barbers \/ Listed(b)',
         \A s \in shown'.reservations : s \in shown.reservations \/ PartyOf(s[1], s[2])'
  PROVE  ShownRows'
<1>1. Grows(barbers, barbers') /\ Grows(reservations, reservations')
  BY TablesGrow
<1>2. \A b \in shown'.barbers : b \in DOMAIN barbers'
  BY <1>1 DEF ShownRows, Grows, Listed
<1>3. ASSUME NEW s \in shown'.reservations
      PROVE  /\ s[2] \in DOMAIN reservations'
             /\ s[1] \in {reservations'[s[2]].user, reservations'[s[2]].barber}
  <2>1. CASE s \in shown.reservations
    <3>1. /\ s[2] \in DOMAIN reservations
          /\ s[1] \in {reservations[s[2]].user, reservations[s[2]].barber}
      BY <2>1 DEF ShownRows
    <3>2. s[2] \in DOMAIN reservations' /\ reservations'[s[2]] = reservations[s[2]]
      BY <1>1, <3>1 DEF Grows
    <3>. QED  BY <3>1, <3>2
  <2>2. CASE PartyOf(s[1], s[2])'
    BY <2>2 DEF PartyOf
  <2>. QED  BY <1>3, <2>1, <2>2
<1>. QED  BY <1>2, <1>3 DEF ShownRows

LEMMA ShownRowsStep ==
  ASSUME ShopTypeOK, InFlight, ShownRows, [ShopNext]_shopVars
  PROVE  ShownRows'
<1>1. CASE UNCHANGED shown
  BY <1>1, ShownOnly
<1>2. ASSUME NEW r \in Requests, Employ(r)
      PROVE  ShownRows'
  <2>1. CASE BarberVerdict(call[r].id) = "ok"
    <3>1. call[r].id \in DOMAIN barbers'
      BY <1>2, <2>1, BarberWritten DEF Insert
    <3>2. \/ shown' = shown
          \/ shown' = [shown EXCEPT !.barbers = @ \cup {call[r].id}]
      BY <1>2 DEF Employ
    <3>3. /\ \A b \in shown'.barbers : b \in shown.barbers \/ b = call[r].id
          /\ shown'.reservations = shown.reservations
      BY <3>2 DEF ShopTypeOK
    <3>. QED  BY <3>1, <3>3, ShownOnly DEF Listed
  <2>2. CASE BarberVerdict(call[r].id) # "ok"
    BY <1>1, <1>2, <2>2 DEF Employ, InsertBarber, Finish
  <2>. QED  BY <2>1, <2>2
<1>3. CASE MyReservations
  <2>1. PICK u \in Sub : /\ Reads("ok")
                         /\ shown' = [shown EXCEPT !.reservations = @ \cup {u} \X ManyByUserId(u)]
    BY <1>3 DEF MyReservations
  <2>2. shown'.barbers = shown.barbers
    BY <2>1 DEF ShopTypeOK
  <2>3. \A s \in shown'.reservations :
          s \in shown.reservations \/ (s[1] = u /\ s[2] \in ManyByUserId(u))
    BY <2>1 DEF ShopTypeOK
  <2>4. \A s \in shown'.reservations : s \in shown.reservations \/ PartyOf(s[1], s[2])'
    BY <2>1, <2>3 DEF Reads, ManyByUserId, PartyOf
  <2>. QED  BY <2>2, <2>4, ShownOnly
<1>4. CASE AllBarbers
  <2>1. /\ shown' = [shown EXCEPT !.barbers = @ \cup AllActive]
        /\ barbers' = barbers
    BY <1>4 DEF AllBarbers, Reads
  <2>2. /\ \A b \in shown'.barbers : b \in shown.barbers \/ b \in AllActive
        /\ shown'.reservations = shown.reservations
    BY <2>1 DEF ShopTypeOK
  <2>. QED  BY <2>1, <2>2, ShownOnly DEF AllActive, Listed
<1>5. CASE BarberById
  <2>1. PICK b \in UserIds :
          /\ Reads(GetBarber(b))
          /\ shown' = IF GetBarber(b) = "ok" THEN [shown EXCEPT !.barbers = @ \cup {b}] ELSE shown
    BY <1>5 DEF BarberById
  <2>2. CASE GetBarber(b) = "ok"
    <3>1. b \in DOMAIN barbers'
      BY <2>1, <2>2 DEF GetBarber, Reads
    <3>2. /\ \A c \in shown'.barbers : c \in shown.barbers \/ c = b
          /\ shown'.reservations = shown.reservations
      BY <2>1, <2>2 DEF ShopTypeOK
    <3>. QED  BY <3>1, <3>2, ShownOnly DEF Listed
  <2>. QED  BY <1>1, <2>1, <2>2
<1>6. CASE ReservationById
  <2>1. PICK u \in Sub, i \in Ids :
          /\ Reads(GetReservation(u, i))
          /\ shown' = IF GetReservation(u, i) = "ok"
                      THEN [shown EXCEPT !.reservations = @ \cup {<<u, i>>}] ELSE shown
    BY <1>6 DEF ReservationById
  <2>2. CASE GetReservation(u, i) = "ok"
    <3>1. PartyOf(u, i)'
      BY <2>1, <2>2 DEF GetReservation, Reads, PartyOf
    <3>2. /\ \A s \in shown'.reservations : s \in shown.reservations \/ (s[1] = u /\ s[2] = i)
          /\ shown'.barbers = shown.barbers
      BY <2>1, <2>2 DEF ShopTypeOK
    <3>3. \A s \in shown'.reservations : s \in shown.reservations \/ PartyOf(s[1], s[2])'
      BY <3>1, <3>2 DEF PartyOf
    <3>. QED  BY <3>2, <3>3, ShownOnly
  <2>. QED  BY <1>1, <2>1, <2>2
<1>7. CASE Book
  <2>1. PICK u \in Sub, b \in UserIds, i \in Ids \ DOMAIN reservations :
          \/ UNCHANGED shown
          \/ /\ reservations' = Insert(reservations, i, Row(u, b))
             /\ shown' = [shown EXCEPT !.reservations = @ \cup {<<u, i>>}]
    BY <1>7 DEF Book
  <2>2. CASE /\ reservations' = Insert(reservations, i, Row(u, b))
             /\ shown' = [shown EXCEPT !.reservations = @ \cup {<<u, i>>}]
    <3>1. PartyOf(u, i)'
      BY <2>2 DEF PartyOf, Insert, Row
    <3>2. /\ \A s \in shown'.reservations : s \in shown.reservations \/ (s[1] = u /\ s[2] = i)
          /\ shown'.barbers = shown.barbers
      BY <2>2 DEF ShopTypeOK
    <3>3. \A s \in shown'.reservations : s \in shown.reservations \/ PartyOf(s[1], s[2])'
      BY <3>1, <3>2 DEF PartyOf
    <3>. QED  BY <3>2, <3>3, ShownOnly
  <2>. QED  BY <1>1, <2>1, <2>2
<1>8. CASE Deactivate \/ TurnedAway \/ VisitLost \/ Me
  BY <1>1, <1>8 DEF Deactivate, TurnedAway, VisitLost, Me
<1>9. ASSUME NEW r \in Requests, Manage(r) \/ Enter(r)
      PROVE  ShownRows'
  BY <1>1, <1>9 DEF Manage, Enter, shop
<1>10. CASE UNCHANGED shopVars
  BY <1>1, <1>10 DEF shopVars, shop
<1>. QED
  BY <1>2, <1>3, <1>4, <1>5, <1>6, <1>7, <1>8, <1>9, <1>10 DEF ShopNext, Visit
-----------------------------------------------------------------------------
(* The invariant of every run. *)
LEMMA Invariance == ShopSpec => []IInv
<1>1. ShopInit => IInv
  <2>. SUFFICES ASSUME ShopInit  PROVE IInv
    OBVIOUS
  <2>1. DOMAIN users = {} /\ DOMAIN barbers = {} /\ DOMAIN call = {} /\ DOMAIN reservations = {}
    BY DEF ShopInit, Init
  <2>2. welcomed = {} /\ inactive = {} /\ badges = {} /\ answer = "none"
        /\ shown = [barbers |-> {}, reservations |-> {}]
    BY DEF ShopInit, Init
  <2>3. ASSUME NEW K, NEW R  PROVE IsTable([i \in {} |-> i], K, R)
    BY DEF IsTable
  <2>4. ShopTypeOK
    BY <2>2, <2>3 DEF ShopInit, Init, ShopTypeOK, ShopAnswers, Answers
  <2>. QED  BY <2>1, <2>2, <2>4 DEF IInv, InFlight, Addresses, Welcomes, PartiesExist, ShownRows
<1>2. IInv /\ [ShopNext]_shopVars => IInv'
  <2>. SUFFICES ASSUME IInv, [ShopNext]_shopVars  PROVE IInv'
    OBVIOUS
  <2>1. Tables
    BY DEF IInv, ShopTypeOK, Tables
  <2>. QED  BY <2>1, TypeStep, InFlightStep, AddressesStep, WelcomesStep, PartiesStep, ShownRowsStep
            DEF IInv
<1>. QED  BY <1>1, <1>2, PTL DEF ShopSpec
-----------------------------------------------------------------------------
(* The tables, the requests in flight and the answers have their types,    *)
(* whatever the requests and the visits do and in whatever order.          *)
THEOREM ShopTypes == ShopSpec => []ShopTypeOK
BY Invariance, PTL DEF IInv

(* Whoever is named exists: a barber and a token's bearer are users, and a *)
(* reservation's parties a user and a barber, though no two of the         *)
(* statements that check and insert share a transaction.                   *)
THEOREM PartiesAlwaysExist == ShopSpec => []PartiesExist
BY Invariance, PTL DEF IInv

(* What was shown can be acted on for ever: a token opens its user's       *)
(* doors, a barber that was shown is found and can be booked, and a        *)
(* reservation is still there and still its reader's.                      *)
THEOREM ShownAlwaysStays == ShopSpec => []ShownStays
<1>1. IInv => ShownStays
  <2>. SUFFICES ASSUME IInv  PROVE ShownStays
    OBVIOUS
  <2>1. \A u \in badges : u \in DOMAIN users
    BY DEF IInv, PartiesExist
  <2>2. \A b \in shown.barbers : b \in DOMAIN barbers
    BY DEF IInv, ShownRows
  <2>3. \A b \in shown.barbers : GetBarber(b) # "BarberNotFound"
    BY <2>2 DEF GetBarber
  <2>4. ASSUME NEW b \in shown.barbers, NEW u \in badges
        PROVE  BookingVerdict(u, b) = "ok"
    BY <2>1, <2>2, BookingVerdictIs
  <2>5. \A s \in shown.reservations : GetReservation(s[1], s[2]) = "ok"
    BY DEF IInv, ShownRows, GetReservation
  <2>. QED  BY <2>1, <2>3, <2>4, <2>5 DEF ShownStays, GetMe
<1>. QED  BY <1>1, Invariance, PTL

(* An email is one account's, in whatever case it is typed, and no two     *)
(* sign-ups of one address are both welcomed, however many race.           *)
THEOREM EmailsAreSingle == ShopSpec => []OneAccountPerEmail
<1>1. IInv => OneAccountPerEmail
  BY DEF IInv, Addresses, Welcomes, OneAccountPerEmail
<1>. QED  BY <1>1, Invariance, PTL

(* The checks before an insert foresee all but the races, and the races    *)
(* are refused by name.                                                    *)
THEOREM InsertsForeseen == ShopSpec => []OnlyForeseenRefusals
<1>1. IInv => OnlyForeseenRefusals
  <2>. SUFFICES ASSUME IInv, NEW r \in Requests
       PROVE  /\ At(r, "insertUser") => UserVerdict(Email(call[r].spelling)) \in {"ok", "UserExists"}
              /\ At(r, "insertBarber") => BarberVerdict(call[r].id) \in {"ok", "AlreadyBarber"}
    BY DEF OnlyForeseenRefusals
  <2>1. At(r, "insertUser") => UserVerdict(Email(call[r].spelling)) \in {"ok", "UserExists"}
    BY UserVerdictIs
  <2>2. At(r, "insertBarber") => call[r].id \in DOMAIN users
    BY DEF IInv, InFlight, At
  <2>. QED  BY <2>1, <2>2, BarberVerdictIs
<1>. QED  BY <1>1, Invariance, PTL

(* No account and no barber's profile is ever altered or lost: of two      *)
(* promotions that both found no barber, the second changes nothing.       *)
THEOREM FirstWriterAlwaysStays == ShopSpec => FirstWriterStays
<1>1. IInv /\ [ShopNext]_shopVars =>
        [/\ \A i \in DOMAIN users : i \in DOMAIN users' /\ users'[i] = users[i]
         /\ \A b \in DOMAIN barbers : b \in DOMAIN barbers' /\ barbers'[b] = barbers[b]]_vars
  BY TablesGrow DEF IInv, Grows
<1>. QED  BY <1>1, Invariance, PTL DEF ShopSpec, FirstWriterStays

(* Only the password check answers "invalid credentials".                  *)
LEMMA RefusedBy ==
  ASSUME [ShopNext]_shopVars, NEW r \in Requests, Refused(r)
  PROVE  Authenticate(r)
<1>1. ASSUME NEW q, NEW a, Finish(q, a)
      PROVE  q = r /\ a = "InvalidCredentials"
  BY <1>1 DEF Refused, At, Finish
<1>2. ASSUME NEW q, NEW c  PROVE ~Goto(q, c)
  BY DEF Refused, Goto
<1>3. CASE UNCHANGED call
  BY <1>3 DEF Refused, At
<1>4. CASE Visit \/ Deactivate \/ UNCHANGED shopVars
  BY <1>3, <1>4 DEF Visit, TurnedAway, VisitLost, Me, MyReservations, AllBarbers, BarberById,
                    ReservationById, Book, Reads, Deactivate, shopVars, vars
<1>5. ASSUME NEW q \in Requests, Manage(q) \/ Employ(q) \/ Enter(q)
      PROVE  Authenticate(r)
  <2>1. At(r, "login")
    BY DEF Refused
  <2>2. ~SignUp(q) /\ ~Login(q) /\ ~Promote(q)
    <3>1. "InvalidEmail" # "InvalidCredentials"
      OBVIOUS
    <3>2. ~Finish(q, "InvalidEmail")
      BY <1>1, <3>1
    <3>3. ~SignUp(q)
      BY <1>2, <3>2 DEF SignUp
    <3>4. ~Login(q)
      BY <1>2 DEF Login
    <3>5. ~Promote(q)
      BY <1>2 DEF Promote
    <3>. QED  BY <3>3, <3>4, <3>5
  <2>3. ~FindUser(q) /\ ~FindBarber(q)
    BY <1>1, <1>2 DEF FindUser, FindBarber
  <2>4. ~StatementLost(q) /\ ~Die(q)
    BY <1>1, LostNames DEF StatementLost, Die
  <2>5. ~InsertUser(q)
    <3>1. ASSUME InsertUser(q)  PROVE FALSE
      <4>1. \E a : Finish(q, a)
        BY <3>1 DEF InsertUser
      <4>. QED  BY <1>1, <2>1, <3>1, <4>1 DEF InsertUser, At
    <3>. QED  BY <3>1
  <2>6. ~InsertBarber(q)
    <3>1. ASSUME InsertBarber(q)  PROVE FALSE
      <4>1. \E a : Finish(q, a)
        BY <3>1 DEF InsertBarber
      <4>. QED  BY <1>1, <2>1, <3>1, <4>1 DEF InsertBarber, At
    <3>. QED  BY <3>1
  <2>7. Authenticate(q) => Authenticate(r)
    <3>1. ASSUME Authenticate(q)  PROVE q = r
      <4>1. \E a : Finish(q, a)
        BY <3>1 DEF Authenticate
      <4>. QED  BY <1>1, <4>1
    <3>. QED  BY <3>1
  <2>. QED  BY <1>5, <2>2, <2>3, <2>4, <2>5, <2>6, <2>7 DEF Manage, Employ, Enter
<1>. QED  BY <1>4, <1>5 DEF ShopNext

(* A welcomed account can be entered for ever: the login that presents the *)
(* lower-case spelling of its address and its password is not refused.     *)
THEOREM WelcomedAlwaysEnter == ShopSpec => WelcomedMayEnter
<1>1. ASSUME IInv, [ShopNext]_shopVars, NEW r \in Requests, NEW a \in welcomed, Refused(r),
             call[r] = [step |-> "login", spelling |-> Fold[a[1]], password |-> a[2]]
      PROVE  FALSE
  <2>1. Authenticate(r)
    BY <1>1, RefusedBy
  <2>2. PICK i \in DOMAIN users : /\ users[i].email = Fold[a[1]]
                                 /\ users[i].passwordHash = Hash(a[2])
    BY <1>1 DEF IInv, Welcomes
  <2>3. call[r].spelling = Fold[a[1]] /\ call[r].password = a[2]
    BY <1>1
  <2>4. \A j \in DOMAIN users : users[j].email = call[r].spelling => j = i
    BY <1>1, <2>2, <2>3 DEF IInv, Addresses
  <2>5. Verifies(users[i].passwordHash, call[r].password)
    BY <2>2, <2>3 DEF Verifies
  <2>6. Finish(r, "ok")
    BY <2>1, <2>2, <2>3, <2>4, <2>5 DEF Authenticate
  <2>. QED  BY <1>1, <2>6 DEF Finish, Refused
<1>2. IInv /\ [ShopNext]_shopVars =>
        [\A r \in Requests, a \in welcomed :
           Refused(r) => call[r] # [step |-> "login", spelling |-> Fold[a[1]],
                                    password |-> a[2]]]_vars
  BY <1>1
<1>. QED  BY <1>2, Invariance, PTL DEF ShopSpec, WelcomedMayEnter
=============================================================================
