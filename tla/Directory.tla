----------------------------- MODULE Directory -----------------------------
(***************************************************************************)
(* Accounts and barbers: sign-up, the account lookup a login starts with,  *)
(* and the promotion of a user to barber, over the tables users and        *)
(* barbers.  Sign-up is one insert judged by the unique index on email;    *)
(* promotion checks twice and then inserts, with no transaction around.    *)
(*                                                                         *)
(* An email is a spelling, a member of Spellings; Fold maps a spelling to  *)
(* its lower-case form.                                                    *)
(***************************************************************************)
EXTENDS FiniteSets, Errors

CONSTANTS UserIds,    \* ids randomUUID may draw, or a promotion may name
          Spellings,  \* email addresses of a valid format
          Fold,       \* toLowerCase
          Passwords,
          Profiles,   \* name and bio of a barber
          Requests    \* requests that can be in flight together

ASSUME DirectoryAssumption ==
  /\ Fold \in [Spellings -> Spellings]
  /\ \A s \in Spellings : Fold[Fold[s]] = Fold[s]

VARIABLES users,      \* the table: id -> [email, password]
          barbers,    \* the table: user id -> profile
          call,       \* the requests in flight: request -> where it is
          answer,     \* what the last step answered its request, if it did
          welcomed    \* <<spelling, password>> of the sign-ups answered 201

vars == <<users, barbers, call, answer, welcomed>>

SignUpCall  == [step: {"insertUser"}, id: UserIds, spelling: Spellings, password: Passwords]
LoginCall   == [step: {"login"}, spelling: Spellings, password: Passwords]
PromoteCall == [step: {"findUser", "findBarber", "insertBarber"}, id: UserIds,
                profile: Profiles]
Calls == SignUpCall \cup LoginCall \cup PromoteCall

Answers == {"none", "ok", "InvalidEmail", "UserExists", "InvalidCredentials", "UserNotFound",
            "AlreadyBarber", "BadRequest", "ServerError"}

(* Argon2PasswordHasher: what is stored is not the password, and only that *)
(* password verifies against it.                                           *)
Hash(password) == [argon2id |-> password]
Verifies(hash, password) == hash = Hash(password)

IsTable(f, keys, rows) ==
  /\ DOMAIN f \subseteq keys
  /\ f = [k \in DOMAIN f |-> f[k]]
  /\ \A k \in DOMAIN f : f[k] \in rows

TypeOK ==
  /\ IsTable(users, UserIds, [email: {Fold[s] : s \in Spellings},
                              passwordHash: {Hash(p) : p \in Passwords}])
  /\ IsTable(barbers, UserIds, Profiles)
  /\ IsTable(call, Requests, Calls)
  /\ answer \in Answers
  /\ welcomed \subseteq Spellings \X Passwords

Init ==
  /\ users = [i \in {} |-> i]
  /\ barbers = [i \in {} |-> i]
  /\ call = [r \in {} |-> r]
  /\ answer = "none"
  /\ welcomed = {}
-----------------------------------------------------------------------------
At(r, step) == r \in DOMAIN call /\ call[r].step = step

Goto(r, c) ==
  /\ call' = [q \in DOMAIN call \cup {r} |-> IF q = r THEN c ELSE call[q]]
  /\ answer' = "none"
Finish(r, a) ==
  /\ call' = [q \in DOMAIN call \ {r} |-> call[q]]
  /\ answer' = a

Insert(table, key, row) ==
  [k \in DOMAIN table \cup {key} |-> IF k = key THEN row ELSE table[k]]

(* Email.create.  The fault keeps the address as it was typed. *)
AsTyped(spelling) == spelling
Email(spelling) == Fold[spelling]

(* The unique index on users.email; the fault is a table without it.       *)
NeverTaken(email) == FALSE
Taken(email) == \E i \in DOMAIN users : users[i].email = email

(* What the repositories make of the tables' objections to a new row: a    *)
(* taken email; a barber's id that is taken, or is no user's.  The fault   *)
(* is a table without keys.                                                *)
UserVerdict(email) == IF Taken(email) THEN UserRefusal(Thrown("23505", "none")) ELSE "ok"
NoKeys(id) == "ok"
BarberVerdict(id) ==
  IF id \in DOMAIN barbers THEN BarberRefusal(Thrown("23505", "none"))
  ELSE IF id \notin DOMAIN users THEN BarberRefusal(Thrown("23503", "id"))
  ELSE "ok"

FreshIds == UserIds \ (DOMAIN users \cup
                       {call[r].id : r \in {q \in DOMAIN call : At(q, "insertUser")}})
-----------------------------------------------------------------------------
(* POST /users: the password is hashed and the entity made, touching no    *)
(* state, before the insert.                                               *)
SignUp(r) ==
  /\ r \notin DOMAIN call
  /\ \/ Finish(r, "InvalidEmail")
     \/ \E id \in FreshIds, s \in Spellings, p \in Passwords :
          Goto(r, [step |-> "insertUser", id |-> id, spelling |-> s, password |-> p])
  /\ UNCHANGED <<users, barbers, welcomed>>

(* The 201 may be lost on its way. *)
InsertUser(r) ==
  /\ At(r, "insertUser")
  /\ LET c == call[r] IN
       \/ /\ UserVerdict(Email(c.spelling)) # "ok"
          /\ Finish(r, UserVerdict(Email(c.spelling)))
          /\ UNCHANGED <<users, welcomed>>
       \/ /\ UserVerdict(Email(c.spelling)) = "ok"
          /\ users' = Insert(users, c.id, [email |-> Email(c.spelling),
                                           passwordHash |-> Hash(c.password)])
          /\ \E a \in {"ok", "none"} \cup Lost :
               /\ Finish(r, a)
               /\ welcomed' = IF a = "ok" THEN welcomed \cup {<<c.spelling, c.password>>}
                              ELSE welcomed
  /\ UNCHANGED barbers

(* POST /auth/login, up to the issue of the tokens. *)
Login(r) ==
  /\ r \notin DOMAIN call
  /\ \E s \in Spellings, p \in Passwords :
       Goto(r, [step |-> "login", spelling |-> s, password |-> p])
  /\ UNCHANGED <<users, barbers, welcomed>>

(* findByEmail looks for the spelling as it came; the password is compared *)
(* with the copy of the row, which never changes.                          *)
Authenticate(r) ==
  /\ At(r, "login")
  /\ LET found == {i \in DOMAIN users : users[i].email = call[r].spelling} IN
       \/ /\ \E i \in found : Verifies(users[i].passwordHash, call[r].password)
          /\ Finish(r, "ok")
       \/ /\ \E i \in found : ~Verifies(users[i].passwordHash, call[r].password)
          /\ Finish(r, "InvalidCredentials")
       \/ /\ found = {}
          /\ Finish(r, "InvalidCredentials")
  /\ UNCHANGED <<users, barbers, welcomed>>

(* POST /barbers: any account may be named. *)
Promote(r) ==
  /\ r \notin DOMAIN call
  /\ \E id \in UserIds, profile \in Profiles :
       Goto(r, [step |-> "findUser", id |-> id, profile |-> profile])
  /\ UNCHANGED <<users, barbers, welcomed>>

(* A fault: the user is not looked up. *)
AssumeUser(r) ==
  /\ At(r, "findUser")
  /\ Goto(r, [call[r] EXCEPT !.step = "findBarber"])
  /\ UNCHANGED <<users, barbers, welcomed>>

FindUser(r) ==
  /\ At(r, "findUser")
  /\ \/ /\ call[r].id \notin DOMAIN users
        /\ Finish(r, "UserNotFound")
     \/ /\ call[r].id \in DOMAIN users
        /\ Goto(r, [call[r] EXCEPT !.step = "findBarber"])
  /\ UNCHANGED <<users, barbers, welcomed>>

FindBarber(r) ==
  /\ At(r, "findBarber")
  /\ \/ /\ call[r].id \in DOMAIN barbers
        /\ Finish(r, "AlreadyBarber")
     \/ /\ call[r].id \notin DOMAIN barbers
        /\ Goto(r, [call[r] EXCEPT !.step = "insertBarber"])
  /\ UNCHANGED <<users, barbers, welcomed>>

InsertBarber(r) ==
  /\ At(r, "insertBarber")
  /\ LET c == call[r] IN
       \/ /\ BarberVerdict(c.id) # "ok"
          /\ Finish(r, BarberVerdict(c.id))
          /\ UNCHANGED barbers
       \/ /\ BarberVerdict(c.id) = "ok"
          /\ barbers' = Insert(barbers, c.id, c.profile)
          /\ \E a \in {"ok", "none"} \cup Lost : Finish(r, a)
  /\ UNCHANGED <<users, welcomed>>

(* A statement that never ran, and an instance that is gone. *)
StatementLost(r) ==
  /\ r \in DOMAIN call
  /\ \E a \in Lost : Finish(r, a)
  /\ UNCHANGED <<users, barbers, welcomed>>
Die(r) ==
  /\ r \in DOMAIN call
  /\ Finish(r, "none")
  /\ UNCHANGED <<users, barbers, welcomed>>

Serve(r) == InsertUser(r) \/ Authenticate(r) \/ FindUser(r) \/ FindBarber(r) \/ InsertBarber(r)

Next == \E r \in Requests : \/ SignUp(r) \/ Login(r) \/ Promote(r) \/ Serve(r)
                            \/ StatementLost(r) \/ Die(r)

Spec == Init /\ [][Next]_vars
-----------------------------------------------------------------------------
(* UC-00: an email is one account's.  Two spellings of an address are one  *)
(* email, and two sign-ups welcomed are of different emails, however they  *)
(* raced.                                                                  *)
OneAccountPerEmail ==
  /\ \A i, j \in DOMAIN users : Fold[users[i].email] = Fold[users[j].email] => i = j
  /\ \A a, b \in welcomed : Fold[a[1]] = Fold[b[1]] => a = b

(* An account, once there, is never altered, and neither is a barber's     *)
(* profile: of two promotions that both found no barber, the second is     *)
(* refused and leaves the first one's row alone.                           *)
FirstWriterStays ==
  [][/\ \A i \in DOMAIN users : i \in DOMAIN users' /\ users'[i] = users[i]
     /\ \A b \in DOMAIN barbers : b \in DOMAIN barbers' /\ barbers'[b] = barbers[b]]_vars

(* The checks before an insert foresee all but a race: an address taken    *)
(* meanwhile, a promotion that came first.  Both races are refused by      *)
(* name, and the user a promotion has found is still there.                *)
OnlyForeseenRefusals ==
  \A r \in Requests :
    /\ At(r, "insertUser") => UserVerdict(Email(call[r].spelling)) \in {"ok", "UserExists"}
    /\ At(r, "insertBarber") => BarberVerdict(call[r].id) \in {"ok", "AlreadyBarber"}

Refused(r) == At(r, "login") /\ r \notin DOMAIN call' /\ answer' = "InvalidCredentials"

(* A welcomed account can be entered for ever: the lower-case spelling of  *)
(* its address and its password are not refused.                           *)
WelcomedMayEnter ==
  [][\A r \in Requests, a \in welcomed :
       Refused(r) => call[r] # [step |-> "login", spelling |-> Fold[a[1]],
                                password |-> a[2]]]_vars

(* UC-08: the system looks up the user by email.  So the address and the   *)
(* password an account was opened with are not refused.                    *)
CredentialsAsGivenEnter ==
  [][\A r \in Requests, a \in welcomed :
       Refused(r) => call[r] # [step |-> "login", spelling |-> a[1],
                                password |-> a[2]]]_vars
=============================================================================
