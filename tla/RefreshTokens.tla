---------------------------- MODULE RefreshTokens ----------------------------
(***************************************************************************)
(* Login, token rotation and logout over the refresh_tokens table.         *)
(*                                                                         *)
(* A request runs one statement at a time, each atomic, with no            *)
(* transaction around them: POST /auth/refresh reads the token (Find),     *)
(* judges the copy (Judge), revokes the row (Revoke), inserts its          *)
(* successor (Insert) and replies; logout and login are parts of the same  *)
(* walk.  Between any two of them other requests run, time passes, or the  *)
(* instance dies.                                                          *)
(*                                                                         *)
(* The code only asks whether revoked_at is null.  Here it is the set of   *)
(* reasons it was set for, {} when null.  Three fields are history, which  *)
(* the code does not store and only the properties read: from, the token a *)
(* row was issued for, None after a login; writes, how many updates have   *)
(* touched the row; and seen, in a request, how many it knows of.          *)
(***************************************************************************)
EXTENDS Integers, FiniteSets, Errors

CONSTANTS Users, Tokens, Requests, Lifetime, Horizon, None

ASSUME TokenAssumption ==
  /\ None \notin Tokens
  /\ Lifetime \in Nat
  /\ Horizon \in Nat

VARIABLES tokens,   \* the table: id -> row
          now,      \* the clock
          call,     \* the requests in flight: request -> where it is
          answer,   \* what the last step answered its request, if it did
          held      \* tokens whose text has reached a client

vars == <<tokens, now, call, answer, held>>

Reasons == {"rotated", "logout", "reuse"}
Row == [user: Users, expiresAt: Nat, revokedAt: SUBSET Reasons, from: Tokens \cup {None},
        writes: Nat]

(* A token presented to refresh or logout; good: its secret part is right. *)
FindCall   == [step: {"find"}, op: {"refresh", "logout"}, token: Tokens, good: BOOLEAN]
JudgeCall  == [step: {"judge"}, op: {"refresh", "logout"}, token: Tokens, good: BOOLEAN,
               copy: Row]
RevokeCall == [step: {"revoke", "revokeAll"}, op: {"refresh", "logout"}, token: Tokens,
               user: Users, seen: Nat]
InsertCall == [step: {"insert"}, token: Tokens \cup {None}, user: Users, seen: Nat,
               since: Nat]
ReplyCall  == [step: {"reply"}, token: Tokens]
Calls == FindCall \cup JudgeCall \cup RevokeCall \cup InsertCall \cup ReplyCall

Answers == {"none", "ok", "Invalid", "Reuse", "BadRequest", "ServerError"}

TableOK ==
  /\ DOMAIN tokens \subseteq Tokens
  /\ tokens = [t \in DOMAIN tokens |-> tokens[t]]
  /\ \A t \in DOMAIN tokens : tokens[t] \in Row

CallsOK ==
  /\ DOMAIN call \subseteq Requests
  /\ call = [r \in DOMAIN call |-> call[r]]
  /\ \A r \in DOMAIN call : call[r] \in Calls

TypeOK ==
  /\ TableOK
  /\ CallsOK
  /\ now \in 0..Horizon
  /\ answer \in Answers
  /\ held \subseteq Tokens

Init ==
  /\ tokens = [t \in {} |-> t]
  /\ now = 0
  /\ call = [r \in {} |-> r]
  /\ answer = "none"
  /\ held = {}

Revoked(t) == tokens[t].revokedAt # {}
-----------------------------------------------------------------------------
At(r, step) == r \in DOMAIN call /\ call[r].step = step

Goto(r, c) ==
  /\ call' = [q \in DOMAIN call \cup {r} |-> IF q = r THEN c ELSE call[q]]
  /\ answer' = "none"
Finish(r, a) ==
  /\ call' = [q \in DOMAIN call \ {r} |-> call[q]]
  /\ answer' = a

(* The bound on the number of tokens: a request that reads or issues one   *)
(* begins, and a refresh goes on to issue, only while a token is left      *)
(* beside those of the requests already heading for an insert.             *)
Issuing == {q \in DOMAIN call : At(q, "insert") \/ (At(q, "revoke") /\ call[q].op = "refresh")}
Room == Cardinality(DOMAIN tokens) + Cardinality(Issuing) < Cardinality(Tokens)
-----------------------------------------------------------------------------
(* POST /auth/refresh and /auth/logout.  A request without a cookie, or    *)
(* whose token has no dot, is Invalid at once, and an id that is no uuid   *)
(* is refused by the database.  The right secret can only come from a      *)
(* client the token was sent to; an id may be anything.                    *)
Malformed == {"Invalid", Respond(Thrown("22P02", "none"))}

Present(r) ==
  /\ r \notin DOMAIN call
  /\ \/ \E a \in Malformed : Finish(r, a)
     \/ \E op \in {"refresh", "logout"}, t \in Tokens, good \in BOOLEAN :
          /\ Room
          /\ good => t \in held
          /\ Goto(r, [step |-> "find", op |-> op, token |-> t, good |-> good])
  /\ UNCHANGED <<tokens, now, held>>

(* POST /auth/login: findByEmail and the password's comparison come first, *)
(* and touch no state; a wrong email or password ends there.               *)
Login(r) ==
  /\ r \notin DOMAIN call
  /\ \/ \E a \in {"Invalid"} \cup Lost : Finish(r, a)
     \/ \E u \in Users :
          Room /\ Goto(r, [step |-> "insert", token |-> None, user |-> u, seen |-> 0,
                           since |-> now])
  /\ UNCHANGED <<tokens, now, held>>

(* findById *)
Find(r) ==
  /\ At(r, "find")
  /\ LET c == call[r] IN
       \/ /\ c.token \notin DOMAIN tokens
          /\ Finish(r, "Invalid")
       \/ /\ c.token \in DOMAIN tokens
          /\ Goto(r, [step |-> "judge", op |-> c.op, token |-> c.token, good |-> c.good,
                      copy |-> tokens[c.token]])
  /\ UNCHANGED <<tokens, now, held>>

(* The two checks on the copy; their faults forget the expiry, or take     *)
(* reuse detection for the only revocation.                                *)
NeverExpired(copy) == FALSE
Expired(copy) == copy.expiresAt < now
SpentByReuse(copy) == "reuse" \in copy.revokedAt
Spent(copy) == copy.revokedAt # {}

Pass(r, step) == Goto(r, [step |-> step, op |-> call[r].op, token |-> call[r].token,
                          user |-> call[r].copy.user, seen |-> call[r].copy.writes])

(* A refresh: the expiry before the revocation, the secret last. *)
JudgeRefresh(r) ==
  LET c == call[r] IN
  /\ c.op = "refresh"
  /\ \/ Expired(c.copy) /\ Finish(r, "Invalid")
     \/ ~Expired(c.copy) /\ Spent(c.copy) /\ Pass(r, "revokeAll")
     \/ ~Expired(c.copy) /\ ~Spent(c.copy) /\ ~c.good /\ Finish(r, "Invalid")
     \/ ~Expired(c.copy) /\ ~Spent(c.copy) /\ c.good /\ Room /\ Pass(r, "revoke")

(* A logout: a revoked token ends it quietly, the expiry is not looked at. *)
JudgeLogout(r) ==
  LET c == call[r] IN
  /\ c.op = "logout"
  /\ \/ Spent(c.copy) /\ Finish(r, "ok")
     \/ ~Spent(c.copy) /\ ~c.good /\ Finish(r, "Invalid")
     \/ ~Spent(c.copy) /\ c.good /\ Pass(r, "revoke")

Judge(r) ==
  /\ At(r, "judge")
  /\ JudgeRefresh(r) \/ JudgeLogout(r)
  /\ UNCHANGED <<tokens, now, held>>

(* A fault: the update matches no row. *)
MarkNone(t, reason) == tokens

(* update: revokedAt is set again even if it was set since the copy.       *)
Mark(t, reason) ==
  [tokens EXCEPT ![t].revokedAt = @ \cup {reason}, ![t].writes = @ + 1]

RevokeRotated(r) ==
  /\ call[r].op = "refresh"
  /\ tokens' = Mark(call[r].token, "rotated")
  /\ Goto(r, [step |-> "insert", token |-> call[r].token, user |-> call[r].user,
              seen |-> call[r].seen + 1, since |-> now])

RevokeLoggedOut(r) ==
  /\ call[r].op = "logout"
  /\ tokens' = Mark(call[r].token, "logout")
  /\ \E a \in {"ok"} \cup Lost : Finish(r, a)

Revoke(r) ==
  /\ At(r, "revoke")
  /\ RevokeRotated(r) \/ RevokeLoggedOut(r)
  /\ UNCHANGED <<now, held>>

(* Faults: no row matches, or the rows that do are deleted. *)
RevokeNobody(u) == tokens
DeleteUser(u) == [t \in {i \in DOMAIN tokens : tokens[i].user # u} |-> tokens[t]]

(* revokeAllByUserId, then RefreshTokenReuseError.                         *)
RevokeUser(u) ==
  [t \in DOMAIN tokens |->
     IF tokens[t].user = u /\ ~Revoked(t)
       THEN [tokens[t] EXCEPT !.revokedAt = {"reuse"}, !.writes = @ + 1]
       ELSE tokens[t]]

RevokeAll(r) ==
  /\ At(r, "revokeAll")
  /\ tokens' = RevokeUser(call[r].user)
  /\ \E a \in {"Reuse"} \cup Lost : Finish(r, a)
  /\ UNCHANGED <<now, held>>

(* The row of a new token, seven days ahead of the clock as it was at; a   *)
(* fault has it expire before it is issued.                                *)
BornExpired(c, at) == [user |-> c.user, expiresAt |-> at - Lifetime - 1, revokedAt |-> {},
                       from |-> c.token, writes |-> 0]
NewToken(c, at) == [user |-> c.user, expiresAt |-> at + Lifetime, revokedAt |-> {},
                    from |-> c.token, writes |-> 0]

(* save of a new token under a random id.  The clock was read after the    *)
(* statement before, and before this one was sent.                         *)
Insert(r) ==
  /\ At(r, "insert")
  /\ \E t \in Tokens \ DOMAIN tokens, at \in call[r].since..now :
       /\ tokens' = [i \in DOMAIN tokens \cup {t} |->
                       IF i = t THEN NewToken(call[r], at) ELSE tokens[i]]
       /\ Goto(r, [step |-> "reply", token |-> t])
  /\ UNCHANGED <<now, held>>

(* The user is found, the access token signed, the cookie set.             *)
Reply(r) ==
  /\ At(r, "reply")
  /\ held' = held \cup {call[r].token}
  /\ Finish(r, "ok")
  /\ UNCHANGED <<tokens, now>>

(* A statement, or its acknowledgement, is lost.                           *)
StatementLost(r) ==
  /\ r \in DOMAIN call
  /\ call[r].step # "judge"
  /\ \E a \in Lost : Finish(r, a)
  /\ UNCHANGED <<tokens, now, held>>

(* The instance that served r is gone, or the reply never arrives.         *)
Die(r) ==
  /\ r \in DOMAIN call
  /\ Finish(r, "none")
  /\ UNCHANGED <<tokens, now, held>>

Tick ==
  /\ now < Horizon
  /\ now' = now + 1
  /\ answer' = "none"
  /\ UNCHANGED <<tokens, call, held>>

Serve(r) == Find(r) \/ Judge(r) \/ Revoke(r) \/ RevokeAll(r) \/ Insert(r) \/ Reply(r)

Next ==
  \/ Tick
  \/ \E r \in Requests : \/ Present(r) \/ Login(r) \/ Serve(r)
                         \/ StatementLost(r) \/ Die(r)

Spec == Init /\ [][Next]_vars
-----------------------------------------------------------------------------
(* A token is issued only for one already burnt, of the same user: there   *)
(* is no moment, and no crash, at which both could be used.                *)
IssuedForBurnt ==
  \A t \in DOMAIN tokens : tokens[t].from # None =>
    LET parent == tokens[t].from IN
      /\ parent \in DOMAIN tokens
      /\ Revoked(parent)
      /\ tokens[parent].user = tokens[t].user

(* What a request has read stays true of the row, except that the row may  *)
(* have been revoked since; when it comes to insert, the row has been.     *)
Agrees(c) ==
  /\ c.step \in {"judge", "revoke", "revokeAll"} => c.token \in DOMAIN tokens
  /\ c.step = "judge" => /\ c.copy.user = tokens[c.token].user
                         /\ c.copy.expiresAt = tokens[c.token].expiresAt
                         /\ c.copy.revokedAt \subseteq tokens[c.token].revokedAt
  /\ c.step \in {"revoke", "revokeAll"} => c.user = tokens[c.token].user
  /\ c.step = "insert" /\ c.token # None => /\ c.token \in DOMAIN tokens
                                            /\ Revoked(c.token)
                                            /\ c.user = tokens[c.token].user

CopiesAgree == \A r \in DOMAIN call : Agrees(call[r])

RotationBurnsFirst == IssuedForBurnt /\ CopiesAgree

(* No row is deleted, handed to another user, extended or un-revoked, and  *)
(* no reason for a revocation is forgotten.                                *)
RevocationIsPermanent ==
  [][\A t \in DOMAIN tokens :
       /\ t \in DOMAIN tokens'
       /\ tokens'[t].user = tokens[t].user
       /\ tokens'[t].from = tokens[t].from
       /\ tokens'[t].expiresAt = tokens[t].expiresAt
       /\ tokens[t].revokedAt \subseteq tokens'[t].revokedAt]_vars

Usable(row) == row.revokedAt = {} /\ row.expiresAt >= now

(* Request r may still issue a token for t: it has, or may yet accept, a   *)
(* copy of t that was usable.                                              *)
Rotating(r, t) ==
  /\ r \in DOMAIN call
  /\ call[r].token = t
  /\ \/ At(r, "insert")
     \/ At(r, "revoke") /\ call[r].op = "refresh"
     \/ At(r, "judge") /\ call[r].op = "refresh" /\ Usable(call[r].copy)

SpentForGood(t) ==
  /\ t \in DOMAIN tokens
  /\ ~Usable(tokens[t])
  /\ \A r \in Requests : ~Rotating(r, t)

Successors(t) == {s \in DOMAIN tokens : tokens[s].from = t}

(* Once a token is revoked or expired and the refreshes that read it       *)
(* before are over, no token is ever issued for it again.                  *)
SpentTokensSettle ==
  [][\A t \in Tokens : SpentForGood(t) =>
       SpentForGood(t)' /\ Successors(t)' = Successors(t)]_vars

LoggingIn(r, u) == At(r, "insert") /\ call[r].token = None /\ call[r].user = u

LockedOut(u) ==
  /\ \A t \in DOMAIN tokens : tokens[t].user = u => SpentForGood(t)
  /\ \A r \in Requests : ~LoggingIn(r, u)

(* Only a password opens a session: once all of a user's tokens are spent  *)
(* and nothing for the user is in flight, it stays so until a login.       *)
OnlyALoginReopens ==
  [][\A u \in Users : LockedOut(u) =>
       LockedOut(u)' \/ \E r \in Requests : r \notin DOMAIN call /\ LoggingIn(r, u)']_vars

(* Request r leaves, told a. *)
Told(r, a) == r \in DOMAIN call /\ r \notin DOMAIN call' /\ answer' = a

(* Nothing in flight may still issue a token for user u.                   *)
Quiet(u) ==
  \A r \in Requests : /\ ~LoggingIn(r, u)
                      /\ \A t \in DOMAIN tokens : tokens[t].user = u => ~Rotating(r, t)

(* ADR 0014, reuse detection: whoever is told of a reuse, none of the      *)
(* user's tokens is left alive, whenever and by whichever login it was     *)
(* issued; and if nothing of the user's was in flight, no token works      *)
(* again before a login (OnlyALoginReopens).                               *)
ReuseRevokesAll ==
  [][\A r \in Requests, u \in Users : (Told(r, "Reuse") /\ call[r].user = u) =>
       /\ \A t \in DOMAIN tokens' : tokens'[t].user = u => tokens'[t].revokedAt # {}
       /\ Quiet(u) => LockedOut(u)']_vars

(* A logout told ok has its token dead, by itself or already.  Unless the  *)
(* token was rotated, before the logout or beside it, the session ends     *)
(* there: it has no successor, and once no refresh that read it alive is   *)
(* in flight, never will.  The successor of a rotated one is left alive.   *)
LogoutRevokesItsToken ==
  [][\A r \in Requests, t \in Tokens :
       (Told(r, "ok") /\ ~At(r, "reply") /\ call[r].token = t) =>
         /\ t \in DOMAIN tokens'
         /\ tokens'[t].revokedAt # {}
         /\ \/ "rotated" \in tokens'[t].revokedAt
            \/ /\ Successors(t)' = {}
               /\ (\A q \in Requests \ {r} : ~Rotating(q, t)) => SpentForGood(t)']_vars

(* ADR 0014, rotation: each successful use of a token invalidates it and   *)
(* issues one new token.                                                   *)
RotatedOnce == \A t \in DOMAIN tokens : Cardinality(Successors(t)) <= 1

(* ADR 0014, reuse detection: the entire session is invalidated, so that   *)
(* no live token descends from one that reuse detection revoked.           *)
NothingOutlivesReuse ==
  \A t \in DOMAIN tokens : tokens[t].from # None /\ ~Revoked(t) =>
    "reuse" \notin tokens[tokens[t].from].revokedAt
-----------------------------------------------------------------------------
(* ADR 0014's view of a row: the state of a session, and where it is from. *)
State(row) ==
  IF row.revokedAt = {} THEN "live"
  ELSE IF row.revokedAt = {"rotated"} THEN "rotated"
  ELSE "ended"
Session(t) == [user |-> tokens[t].user, from |-> tokens[t].from, state |-> State(tokens[t])]
Sessions == INSTANCE Sessions WITH session <- [t \in DOMAIN tokens |-> Session(t)]

(* However requests overlap, and whatever is lost, the table goes through  *)
(* sessions of the looser kind: what was used never comes back to life.    *)
ImplementsLooseSessions == Sessions!LooseSpec

(* Request r is about to update or succeed a token that another has        *)
(* updated since r read it.                                                *)
Stale(r) ==
  /\ At(r, "revoke") \/ At(r, "insert")
  /\ call[r].token \in DOMAIN tokens
  /\ tokens[call[r].token].writes # call[r].seen

(* The step is another's. *)
Waits(r) == r \in DOMAIN call' /\ call'[r] = call[r]

(* The sessions of ADR 0014 are broken in one way only: by a request that  *)
(* acts on a row another has updated since it read it.  Every other step,  *)
(* however many requests overlap, is a step of Sessions!Spec: a live token *)
(* is used once, by a rotation or a logout, and a rotated one that has no  *)
(* successor gets one.                                                     *)
OnlyStaleStepsBreakSessions ==
  [][tokens' # tokens =>
       \/ [Sessions!Next]_(Sessions!vars)
       \/ \E r \in Requests : Stale(r) /\ ~Waits(r)]_vars
=============================================================================
