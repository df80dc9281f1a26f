------------------------- MODULE RefreshTokensProofs -------------------------
(***************************************************************************)
(* Theorems about RefreshTokens, for every value of its constants.         *)
(*                                                                         *)
(* The inductive invariant is the types and RotationBurnsFirst, whose      *)
(* second half, CopiesAgree, ties what every request in flight carries to  *)
(* the rows: without it an insert could be for a token nobody revoked.     *)
(***************************************************************************)
EXTENDS RefreshTokens, ErrorsProofs, TLAPS

IInv == TypeOK /\ RotationBurnsFirst

(* The insertion of a new token. *)
Adding(t, row) ==
  /\ t \in Tokens \ DOMAIN tokens
  /\ tokens' = [i \in DOMAIN tokens \cup {t} |-> IF i = t THEN row ELSE tokens[i]]

(* Rows may appear, and may be revoked; nothing else happens to them.      *)
Grows ==
  \A t \in DOMAIN tokens :
    /\ t \in DOMAIN tokens'
    /\ tokens'[t].user = tokens[t].user
    /\ tokens'[t].from = tokens[t].from
    /\ tokens'[t].expiresAt = tokens[t].expiresAt
    /\ tokens[t].revokedAt \subseteq tokens'[t].revokedAt

-----------------------------------------------------------------------------
(* What the helpers do to the requests in flight. *)
LEMMA MalformedNames == Malformed = {"Invalid", "BadRequest"}
BY DEF Malformed, Respond, ExtractCode, Thrown

LEMMA GotoTypes ==
  ASSUME CallsOK, NEW r \in Requests, NEW c \in Calls, Goto(r, c)
  PROVE  CallsOK' /\ answer' \in Answers
BY DEF CallsOK, Goto, Answers

LEMMA FinishTypes ==
  ASSUME CallsOK, NEW r \in Requests, NEW a \in Answers, Finish(r, a)
  PROVE  CallsOK' /\ answer' \in Answers
BY DEF CallsOK, Finish

(* What the statements do to the table. *)
LEMMA UpdatedRow ==
  ASSUME NEW row \in Row, NEW reasons \in SUBSET Reasons
  PROVE  [row EXCEPT !.revokedAt = reasons, !.writes = @ + 1] \in Row
<1>1. row.writes + 1 \in Nat
  BY DEF Row
<1>2. ASSUME NEW n \in Nat
      PROVE  [row EXCEPT !.revokedAt = reasons, !.writes = n] \in Row
  BY <1>2 DEF Row
<1>. QED  BY <1>1, <1>2

LEMMA MarkTable ==
  ASSUME TableOK, NEW t \in DOMAIN tokens, NEW reason \in Reasons, tokens' = Mark(t, reason)
  PROVE  TableOK' /\ Grows /\ DOMAIN tokens' = DOMAIN tokens
<1>1. tokens[t] \in Row
  BY DEF TableOK
<1>. DEFINE row == [tokens[t] EXCEPT !.revokedAt = @ \cup {reason}, !.writes = @ + 1]
<1>2. Mark(t, reason)[t] = row
  BY <1>1 DEF Mark, TableOK, Row
<1>3. DOMAIN Mark(t, reason) = DOMAIN tokens
  BY DEF Mark, TableOK
<1>4. \A i \in DOMAIN tokens \ {t} : Mark(t, reason)[i] = tokens[i]
  BY DEF Mark, TableOK
<1>5. Mark(t, reason)[t] \in Row
  <2>1. tokens[t].revokedAt \cup {reason} \in SUBSET Reasons
    BY <1>1 DEF Row
  <2>. QED  BY <1>1, <1>2, <2>1, UpdatedRow
<1>6. TableOK'
  <2>1. tokens' = [i \in DOMAIN tokens' |-> tokens'[i]]
    BY DEF Mark, TableOK
  <2>. QED  BY <1>3, <1>4, <1>5, <2>1 DEF TableOK
<1>7. Grows
  BY <1>1, <1>2, <1>3, <1>4 DEF Grows, Row
<1>. QED  BY <1>3, <1>6, <1>7

LEMMA RevokeUserTable ==
  ASSUME TableOK, NEW u, tokens' = RevokeUser(u)
  PROVE  TableOK' /\ Grows /\ DOMAIN tokens' = DOMAIN tokens
<1>1. \A t \in DOMAIN tokens : /\ tokens[t] \in Row
                               /\ [tokens[t] EXCEPT !.revokedAt = {"reuse"},
                                                    !.writes = @ + 1] \in Row
  <2>1. {"reuse"} \in SUBSET Reasons
    BY DEF Reasons
  <2>. QED  BY <2>1, UpdatedRow DEF TableOK
<1>2. TableOK' /\ DOMAIN tokens' = DOMAIN tokens
  BY <1>1 DEF TableOK, RevokeUser
<1>3. Grows
  BY <1>1 DEF Grows, RevokeUser, Revoked, Row
<1>. QED  BY <1>2, <1>3

LEMMA AddTable ==
  ASSUME TableOK, NEW t, NEW row \in Row, Adding(t, row)
  PROVE  TableOK' /\ Grows /\ DOMAIN tokens' = DOMAIN tokens \cup {t}
BY DEF TableOK, Adding, Grows

(* A row made for an insertion is a row. *)
LEMMA NewTokenTypes ==
  ASSUME now \in 0..Horizon, NEW c \in InsertCall, NEW at \in c.since..now
  PROVE  NewToken(c, at) \in Row
BY TokenAssumption DEF NewToken, InsertCall, Row

(* Which record a request at each step holds. *)
LEMMA StepTypes ==
  ASSUME CallsOK, NEW r \in DOMAIN call
  PROVE  /\ At(r, "find") => call[r] \in FindCall
         /\ At(r, "judge") => call[r] \in JudgeCall
         /\ At(r, "revoke") \/ At(r, "revokeAll") => call[r] \in RevokeCall
         /\ At(r, "insert") => call[r] \in InsertCall
         /\ At(r, "reply") => call[r] \in ReplyCall
BY DEF CallsOK, Calls, At, FindCall, JudgeCall, RevokeCall, InsertCall, ReplyCall
-----------------------------------------------------------------------------
(* Every step keeps the types, and the table only grows.                   *)
LEMMA TypeStep ==
  ASSUME TypeOK, CopiesAgree, [Next]_vars
  PROVE  TypeOK' /\ Grows
<1>. USE DEF TypeOK
<1>0. ASSUME UNCHANGED tokens
      PROVE  TableOK' /\ Grows
  BY <1>0 DEF TableOK, Grows, Row
<1>1. CASE UNCHANGED vars
  BY <1>0, <1>1 DEF vars, CallsOK
<1>2. CASE Tick
  BY <1>0, <1>2, TokenAssumption DEF Tick, CallsOK, Answers
<1>3. ASSUME NEW r \in Requests, NEW a \in Answers, Finish(r, a), UNCHANGED <<tokens, now>>,
             held' \subseteq Tokens
      PROVE  TypeOK' /\ Grows
  BY <1>0, <1>3, FinishTypes
<1>4. ASSUME NEW r \in Requests, NEW c \in Calls, Goto(r, c), UNCHANGED <<tokens, now, held>>
      PROVE  TypeOK' /\ Grows
  BY <1>0, <1>4, GotoTypes
<1>5. ASSUME NEW r \in Requests, Present(r)
      PROVE  TypeOK' /\ Grows
  <2>1. CASE \E a \in Malformed : Finish(r, a)
    BY <1>3, <1>5, <2>1, MalformedNames DEF Present, Answers
  <2>2. CASE \E c \in FindCall : Goto(r, c)
    BY <1>4, <1>5, <2>2 DEF Present, Calls
  <2>. QED  BY <1>5, <2>1, <2>2 DEF Present, FindCall
<1>6. ASSUME NEW r \in Requests, Login(r)
      PROVE  TypeOK' /\ Grows
  <2>1. CASE \E a \in {"Invalid"} \cup Lost : Finish(r, a)
    BY <1>3, <1>6, <2>1, LostNames DEF Login, Answers
  <2>2. CASE \E c \in InsertCall : Goto(r, c)
    BY <1>4, <1>6, <2>2 DEF Login, Calls
  <2>3. now \in Nat
    BY TokenAssumption
  <2>. QED  BY <1>6, <2>1, <2>2, <2>3 DEF Login, InsertCall
<1>7. ASSUME NEW r \in Requests, Find(r)
      PROVE  TypeOK' /\ Grows
  <2>1. call[r] \in FindCall
    BY <1>7, StepTypes DEF Find, At
  <2>2. CASE Finish(r, "Invalid")
    BY <1>3, <1>7, <2>2 DEF Find, Answers
  <2>3. CASE /\ call[r].token \in DOMAIN tokens
             /\ Goto(r, [step |-> "judge", op |-> call[r].op, token |-> call[r].token,
                         good |-> call[r].good, copy |-> tokens[call[r].token]])
    <3>1. [step |-> "judge", op |-> call[r].op, token |-> call[r].token,
           good |-> call[r].good, copy |-> tokens[call[r].token]] \in Calls
      BY <2>1, <2>3 DEF TableOK, FindCall, JudgeCall, Calls
    <3>. QED  BY <1>4, <1>7, <2>3, <3>1 DEF Find
  <2>. QED  BY <1>7, <2>2, <2>3 DEF Find
<1>8. ASSUME NEW r \in Requests, Judge(r)
      PROVE  TypeOK' /\ Grows
  <2>1. call[r] \in JudgeCall
    BY <1>8, StepTypes DEF Judge, JudgeRefresh, JudgeLogout, Pass, At
  <2>2. \A s \in {"revoke", "revokeAll"} :
          [step |-> s, op |-> call[r].op, token |-> call[r].token,
           user |-> call[r].copy.user, seen |-> call[r].copy.writes] \in Calls
    BY <2>1 DEF JudgeCall, RevokeCall, Row, Calls
  <2>3. \/ \E a \in Answers : Finish(r, a)
        \/ \E s \in {"revoke", "revokeAll"} :
             Goto(r, [step |-> s, op |-> call[r].op, token |-> call[r].token,
                      user |-> call[r].copy.user, seen |-> call[r].copy.writes])
    BY <1>8 DEF Judge, JudgeRefresh, JudgeLogout, Pass, Answers
  <2>. QED  BY <1>3, <1>4, <1>8, <2>2, <2>3 DEF Judge
<1>9. ASSUME NEW r \in Requests, Revoke(r)
      PROVE  TypeOK' /\ Grows
  <2>1. call[r] \in RevokeCall /\ r \in DOMAIN call
    BY <1>9, StepTypes DEF Revoke, RevokeRotated, RevokeLoggedOut, At
  <2>2. call[r].token \in DOMAIN tokens
    BY <1>9, <2>1 DEF Revoke, RevokeRotated, RevokeLoggedOut, At, CopiesAgree, Agrees
  <2>3. TableOK' /\ Grows
    BY <1>9, <2>2, MarkTable DEF Revoke, RevokeRotated, RevokeLoggedOut, Reasons
  <2>4. [step |-> "insert", token |-> call[r].token, user |-> call[r].user,
         seen |-> call[r].seen + 1, since |-> now] \in Calls
    BY <2>1, TokenAssumption DEF RevokeCall, InsertCall, Calls
  <2>5. CallsOK' /\ answer' \in Answers
    BY <1>9, <2>4, GotoTypes, FinishTypes, LostNames DEF Revoke, RevokeRotated, RevokeLoggedOut, Answers
  <2>. QED  BY <1>9, <2>3, <2>5 DEF Revoke
<1>10. ASSUME NEW r \in Requests, RevokeAll(r)
       PROVE  TypeOK' /\ Grows
  BY <1>10, RevokeUserTable, FinishTypes, LostNames DEF RevokeAll, Answers
<1>11. ASSUME NEW r \in Requests, Insert(r)
       PROVE  TypeOK' /\ Grows
  <2>1. call[r] \in InsertCall
    BY <1>11, StepTypes DEF Insert, At
  <2>2. PICK t \in Tokens \ DOMAIN tokens, at \in call[r].since..now :
          Adding(t, NewToken(call[r], at)) /\ Goto(r, [step |-> "reply", token |-> t])
    BY <1>11 DEF Insert, Adding
  <2>3. TableOK' /\ Grows
    BY <2>1, <2>2, NewTokenTypes, AddTable
  <2>4. [step |-> "reply", token |-> t] \in Calls
    BY DEF ReplyCall, Calls
  <2>. QED  BY <1>11, <2>2, <2>3, <2>4, GotoTypes DEF Insert
<1>12. ASSUME NEW r \in Requests, Reply(r)
       PROVE  TypeOK' /\ Grows
  <2>1. call[r] \in ReplyCall
    BY <1>12, StepTypes DEF Reply, At
  <2>. QED  BY <1>3, <1>12, <2>1 DEF Reply, ReplyCall, Answers
<1>13. ASSUME NEW r \in Requests, StatementLost(r) \/ Die(r)
       PROVE  TypeOK' /\ Grows
  BY <1>3, <1>13, LostNames DEF StatementLost, Die, Answers
<1>. QED
  BY <1>1, <1>2, <1>5, <1>6, <1>7, <1>8, <1>9, <1>10, <1>11, <1>12, <1>13 DEF Next, Serve
-----------------------------------------------------------------------------
(* A growing table contradicts no copy, and un-burns no parent.            *)
LEMMA GrowsKeepsCopies ==
  ASSUME Grows, NEW c, Agrees(c)
  PROVE  /\ c.step \in {"judge", "revoke", "revokeAll"} => c.token \in DOMAIN tokens'
         /\ c.step = "judge" => /\ c.copy.user = tokens'[c.token].user
                                /\ c.copy.expiresAt = tokens'[c.token].expiresAt
                                /\ c.copy.revokedAt \subseteq tokens'[c.token].revokedAt
         /\ c.step \in {"revoke", "revokeAll"} => c.user = tokens'[c.token].user
         /\ c.step = "insert" /\ c.token # None => /\ c.token \in DOMAIN tokens'
                                                   /\ tokens'[c.token].revokedAt # {}
                                                   /\ c.user = tokens'[c.token].user
BY DEF Agrees, Grows, Revoked

LEMMA FinishKeepsCopies ==
  ASSUME Grows, CopiesAgree, NEW r, NEW a, Finish(r, a)
  PROVE  CopiesAgree'
<1>1. ASSUME NEW q \in DOMAIN call'
      PROVE  Agrees(call[q]) /\ call'[q] = call[q]
  BY <1>1 DEF Finish, CopiesAgree
<1>. QED  BY <1>1, GrowsKeepsCopies DEF CopiesAgree, Agrees, Revoked

LEMMA GotoKeepsCopies ==
  ASSUME Grows, CopiesAgree, NEW r, NEW c, Goto(r, c), Agrees(c)'
  PROVE  CopiesAgree'
<1>1. ASSUME NEW q \in DOMAIN call', q # r
      PROVE  Agrees(call[q])'
  <2>1. Agrees(call[q]) /\ call'[q] = call[q]
    BY <1>1 DEF Goto, CopiesAgree
  <2>. QED  BY <2>1, GrowsKeepsCopies DEF Agrees, Revoked
<1>2. r \in DOMAIN call' => call'[r] = c
  BY DEF Goto
<1>3. r \in DOMAIN call' => Agrees(call[r])'
  BY <1>2 DEF Agrees, Revoked
<1>. QED  BY <1>1, <1>3 DEF CopiesAgree

LEMMA CopiesStep ==
  ASSUME TypeOK, CopiesAgree, [Next]_vars
  PROVE  CopiesAgree'
<1>. USE DEF TypeOK
<1>0. Grows
  BY TypeStep
<1>1. CASE UNCHANGED vars \/ Tick
  BY <1>1 DEF vars, Tick, CopiesAgree, Agrees, Revoked
<1>2. ASSUME NEW r, NEW a, Finish(r, a)
      PROVE  CopiesAgree'
  BY <1>0, <1>2, FinishKeepsCopies
<1>3. ASSUME NEW r, NEW c, Goto(r, c),
             \/ c.step \in {"find", "reply"}
             \/ c.step = "insert" /\ c.token = None
      PROVE  CopiesAgree'
  BY <1>0, <1>3, GotoKeepsCopies DEF Agrees
<1>4. ASSUME NEW r \in Requests, Present(r)
      PROVE  CopiesAgree'
  BY <1>2, <1>3, <1>4 DEF Present
<1>5. ASSUME NEW r \in Requests, Login(r)
      PROVE  CopiesAgree'
  BY <1>2, <1>3, <1>5 DEF Login
<1>6. ASSUME NEW r \in Requests, Find(r)
      PROVE  CopiesAgree'
  <2>1. CASE Finish(r, "Invalid")
    BY <1>2, <2>1
  <2>2. CASE /\ call[r].token \in DOMAIN tokens
             /\ Goto(r, [step |-> "judge", op |-> call[r].op, token |-> call[r].token,
                         good |-> call[r].good, copy |-> tokens[call[r].token]])
    <3>1. PICK c : /\ Goto(r, c) /\ c.step = "judge" /\ c.token \in DOMAIN tokens
                   /\ c.copy = tokens[c.token]
      BY <2>2
    <3>2. Agrees(c)'
      BY <1>6, <3>1 DEF Find, Agrees
    <3>. QED  BY <1>0, <3>1, <3>2, GotoKeepsCopies
  <2>. QED  BY <1>6, <2>1, <2>2 DEF Find
<1>7. ASSUME NEW r \in Requests, Judge(r)
      PROVE  CopiesAgree'
  <2>1. CASE \E a : Finish(r, a)
    BY <1>2, <2>1
  <2>2. ASSUME NEW s \in {"revoke", "revokeAll"},
               Goto(r, [step |-> s, op |-> call[r].op, token |-> call[r].token,
                        user |-> call[r].copy.user, seen |-> call[r].copy.writes])
        PROVE  CopiesAgree'
    <3>1. Agrees(call[r])
      BY <1>7 DEF Judge, JudgeRefresh, JudgeLogout, Pass, At, CopiesAgree
    <3>2. PICK c : /\ Goto(r, c) /\ c.step \in {"revoke", "revokeAll"}
                   /\ c.token = call[r].token /\ c.user = call[r].copy.user
      BY <2>2
    <3>3. Agrees(c)'
      BY <1>7, <3>1, <3>2 DEF Judge, JudgeRefresh, JudgeLogout, Pass, At, Agrees
    <3>. QED  BY <1>0, <3>2, <3>3, GotoKeepsCopies
  <2>3. \/ \E a : Finish(r, a)
        \/ \E s \in {"revoke", "revokeAll"} :
             Goto(r, [step |-> s, op |-> call[r].op, token |-> call[r].token,
                      user |-> call[r].copy.user, seen |-> call[r].copy.writes])
    BY <1>7 DEF Judge, JudgeRefresh, JudgeLogout, Pass
  <2>. QED  BY <2>1, <2>2, <2>3
<1>8. ASSUME NEW r \in Requests, Revoke(r)
      PROVE  CopiesAgree'
  <2>1. CASE \E a : Finish(r, a)
    BY <1>2, <2>1
  <2>2. CASE /\ tokens' = Mark(call[r].token, "rotated")
             /\ Goto(r, [step |-> "insert", token |-> call[r].token, user |-> call[r].user,
                         seen |-> call[r].seen + 1, since |-> now])
    <3>1. call[r].token \in DOMAIN tokens /\ call[r].user = tokens[call[r].token].user
      BY <1>8 DEF Revoke, RevokeRotated, RevokeLoggedOut, At, CopiesAgree, Agrees
    <3>2. PICK c : /\ Goto(r, c) /\ c.step = "insert"
                   /\ c.token = call[r].token /\ c.user = call[r].user
      BY <2>2
    <3>3. tokens'[c.token].revokedAt # {}
      <4>1. tokens[c.token] \in Row
        BY <3>1, <3>2 DEF TableOK
      <4>2. tokens'[c.token].revokedAt = tokens[c.token].revokedAt \cup {"rotated"}
        BY <2>2, <3>1, <3>2, <4>1 DEF Mark, TableOK, Row
      <4>. QED  BY <4>2
    <3>4. c.token \in DOMAIN tokens' /\ c.user = tokens'[c.token].user
      BY <1>0, <3>1, <3>2 DEF Grows
    <3>5. Agrees(c)'
      BY <3>2, <3>3, <3>4 DEF Agrees, Revoked
    <3>. QED  BY <1>0, <3>2, <3>5, GotoKeepsCopies
  <2>. QED  BY <1>8, <2>1, <2>2 DEF Revoke, RevokeRotated, RevokeLoggedOut
<1>9. ASSUME NEW r \in Requests, Insert(r)
      PROVE  CopiesAgree'
  BY <1>3, <1>9 DEF Insert
<1>10. ASSUME NEW r \in Requests, RevokeAll(r) \/ Reply(r) \/ StatementLost(r) \/ Die(r)
       PROVE  CopiesAgree'
  BY <1>2, <1>10 DEF RevokeAll, Reply, StatementLost, Die
<1>. QED
  BY <1>1, <1>4, <1>5, <1>6, <1>7, <1>8, <1>9, <1>10 DEF Next, Serve

(* Rows come into the table by Insert alone.                               *)
LEMMA OnlyInsertAdds ==
  ASSUME TypeOK, CopiesAgree, [Next]_vars
  PROVE  DOMAIN tokens' = DOMAIN tokens \/ \E r \in Requests : Insert(r)
<1>1. ASSUME NEW r \in Requests, Revoke(r)
      PROVE  DOMAIN tokens' = DOMAIN tokens
  BY <1>1 DEF Revoke, RevokeRotated, RevokeLoggedOut, Mark, TypeOK, TableOK
<1>2. ASSUME NEW r \in Requests, RevokeAll(r)
      PROVE  DOMAIN tokens' = DOMAIN tokens
  BY <1>2 DEF RevokeAll, RevokeUser
<1>. QED
  BY <1>1, <1>2 DEF Next, Serve, vars, Tick, Present, Login, Find, Judge,
                    JudgeRefresh, JudgeLogout, Pass, Reply, StatementLost, Die

LEMMA BurntStep ==
  ASSUME IInv, [Next]_vars
  PROVE  IssuedForBurnt'
<1>. USE DEF IInv, RotationBurnsFirst
<1>1. Grows
  BY TypeStep
<1>2. ASSUME NEW t \in DOMAIN tokens, tokens[t].from # None
      PROVE  /\ tokens'[t].from \in DOMAIN tokens'
             /\ tokens'[tokens'[t].from].revokedAt # {}
             /\ tokens'[tokens'[t].from].user = tokens'[t].user
  BY <1>1, <1>2 DEF IssuedForBurnt, Grows, Revoked
<1>3. CASE DOMAIN tokens' = DOMAIN tokens
  BY <1>1, <1>2, <1>3 DEF IssuedForBurnt, Grows, Revoked
<1>4. ASSUME NEW r \in Requests, Insert(r)
      PROVE  IssuedForBurnt'
  <2>1. PICK t \in Tokens \ DOMAIN tokens, at \in Int : Adding(t, NewToken(call[r], at))
    BY <1>4 DEF Insert, Adding
  <2>2. Agrees(call[r])
    BY <1>4 DEF Insert, At, CopiesAgree
  <2>3. tokens'[t].from = call[r].token /\ tokens'[t].user = call[r].user
    BY <2>1 DEF Adding, NewToken
  <2>4. call[r].token # None => /\ call[r].token \in DOMAIN tokens'
                               /\ tokens'[call[r].token].revokedAt # {}
                               /\ tokens'[call[r].token].user = call[r].user
    BY <1>1, <1>4, <2>2 DEF Insert, At, Agrees, Grows, Revoked
  <2>5. DOMAIN tokens' = DOMAIN tokens \cup {t}
    BY <2>1 DEF Adding
  <2>. QED  BY <1>1, <1>2, <2>3, <2>4, <2>5 DEF IssuedForBurnt, Grows, Revoked
<1>. QED  BY <1>3, <1>4, OnlyInsertAdds
-----------------------------------------------------------------------------
(* The invariant holds at start and every step keeps it. *)
THEOREM Invariance == Spec => []IInv
<1>1. Init => IInv
  BY TokenAssumption
     DEF Init, IInv, TypeOK, TableOK, CallsOK, Answers, RotationBurnsFirst, IssuedForBurnt,
         CopiesAgree
<1>2. IInv /\ [Next]_vars => IInv'
  BY TypeStep, CopiesStep, BurntStep DEF IInv, RotationBurnsFirst
<1>. QED  BY <1>1, <1>2, PTL DEF Spec

(* The table, the requests in flight, the clock and the answers have their *)
(* types, whatever is revoked, lost or interleaved.                        *)
THEOREM TypeCorrect == Spec => []TypeOK
BY Invariance, PTL DEF IInv

(* A successor is stored only for a token already revoked, whatever the    *)
(* interleaving and wherever an instance dies.                             *)
THEOREM BurntBeforeIssued == Spec => []RotationBurnsFirst
<1>1. IInv => RotationBurnsFirst
  BY DEF IInv
<1>. QED  BY <1>1, Invariance, PTL

(* Revocations are never undone and rows never edited otherwise.           *)
THEOREM RevocationsKept == Spec => RevocationIsPermanent
<1>1. IInv /\ [Next]_vars => [Grows]_vars
  BY TypeStep DEF IInv, RotationBurnsFirst
<1>. QED  BY <1>1, Invariance, PTL DEF Spec, RevocationIsPermanent, Grows
-----------------------------------------------------------------------------
(* Time passes and rows are revoked: a row that is not usable stays so.    *)
LEMMA StaysSpent ==
  ASSUME IInv, [Next]_vars, NEW t \in DOMAIN tokens, ~Usable(tokens[t])
  PROVE  t \in DOMAIN tokens' /\ ~Usable(tokens[t])'
<1>1. Grows /\ tokens[t] \in Row /\ now \in Int
  BY TypeStep, TokenAssumption DEF IInv, TypeOK, TableOK, RotationBurnsFirst
<1>2. now' = now \/ now' = now + 1
  BY DEF Next, Serve, vars, Tick, Present, Login, Find, Judge, JudgeRefresh,
         JudgeLogout, Pass, Revoke, RevokeRotated, RevokeLoggedOut, RevokeAll, Insert,
         Reply, StatementLost, Die
<1>. QED  BY <1>1, <1>2 DEF Grows, Usable, Row

(* No step makes a request that may rotate a spent token.                  *)
LEMMA NoNewRotation ==
  ASSUME IInv, [Next]_vars, NEW t \in DOMAIN tokens, ~Usable(tokens[t]),
         \A r \in Requests : ~Rotating(r, t)
  PROVE  \A r \in Requests : ~Rotating(r, t)'
<1>. USE DEF IInv, TypeOK
<1>0. t # None
  BY TokenAssumption DEF TableOK
<1>1. CASE UNCHANGED vars
  BY <1>1 DEF vars, Rotating, At, Usable
<1>2. CASE Tick
  <2>. SUFFICES ASSUME NEW r \in Requests, Rotating(r, t)'
                PROVE  Rotating(r, t)
    OBVIOUS
  <2>1. At(r, "judge") => call[r].copy.expiresAt \in Nat
    BY StepTypes DEF At, JudgeCall, Row
  <2>. QED  BY <1>2, <2>1, TokenAssumption DEF Tick, Rotating, At, Usable
<1>3. ASSUME NEW q \in Requests, NEW a, Finish(q, a), UNCHANGED now
      PROVE  \A r \in Requests : ~Rotating(r, t)'
  BY <1>3 DEF Finish, Rotating, At, Usable
<1>4. ASSUME NEW q \in Requests, NEW c, Goto(q, c), UNCHANGED now,
             \/ c.token # t
             \/ c.step \in {"find", "reply", "revokeAll"}
             \/ c.step = "judge" /\ ~Usable(c.copy)
             \/ c.step = "revoke" /\ c.op # "refresh"
      PROVE  \A r \in Requests : ~Rotating(r, t)'
  BY <1>4 DEF Goto, Rotating, At, Usable
<1>5. ASSUME NEW q \in Requests, Present(q)
      PROVE  \A r \in Requests : ~Rotating(r, t)'
  BY <1>3, <1>4, <1>5 DEF Present
<1>6. ASSUME NEW q \in Requests, Login(q)
      PROVE  \A r \in Requests : ~Rotating(r, t)'
  BY <1>0, <1>3, <1>4, <1>6 DEF Login
<1>7. ASSUME NEW q \in Requests, Find(q)
      PROVE  \A r \in Requests : ~Rotating(r, t)'
  <2>1. CASE Finish(q, "Invalid")
    BY <1>3, <1>7, <2>1 DEF Find
  <2>2. CASE Goto(q, [step |-> "judge", op |-> call[q].op, token |-> call[q].token,
                      good |-> call[q].good, copy |-> tokens[call[q].token]])
    BY <1>4, <1>7, <2>2 DEF Find
  <2>. QED  BY <1>7, <2>1, <2>2 DEF Find
<1>8. ASSUME NEW q \in Requests, Judge(q)
      PROVE  \A r \in Requests : ~Rotating(r, t)'
  <2>0. call[q] \in JudgeCall /\ q \in DOMAIN call
    BY <1>8, StepTypes DEF Judge, JudgeRefresh, JudgeLogout, Pass, At
  <2>1. CASE \E a : Finish(q, a)
    BY <1>3, <1>8, <2>1 DEF Judge
  <2>2. CASE Goto(q, [step |-> "revokeAll", op |-> call[q].op, token |-> call[q].token,
                      user |-> call[q].copy.user, seen |-> call[q].copy.writes])
    BY <1>4, <1>8, <2>2 DEF Judge
  <2>3. CASE /\ ~(call[q].op = "refresh" /\ Expired(call[q].copy)) /\ ~Spent(call[q].copy)
             /\ Goto(q, [step |-> "revoke", op |-> call[q].op, token |-> call[q].token,
                         user |-> call[q].copy.user, seen |-> call[q].copy.writes])
    <3>1. now \in Int /\ call[q].copy.expiresAt \in Int
      BY <2>0, TokenAssumption DEF JudgeCall, Row
    <3>2. call[q].op = "refresh" => Usable(call[q].copy)
      BY <2>3, <3>1 DEF Expired, Spent, Usable
    <3>3. call[q].op = "refresh" => call[q].token # t
      BY <1>8, <2>0, <3>2 DEF Judge, JudgeRefresh, JudgeLogout, Pass, Rotating
    <3>. QED  BY <1>4, <1>8, <2>3, <3>3 DEF Judge
  <2>4. \/ \E a : Finish(q, a)
        \/ Goto(q, [step |-> "revokeAll", op |-> call[q].op, token |-> call[q].token,
                    user |-> call[q].copy.user, seen |-> call[q].copy.writes])
        \/ /\ ~(call[q].op = "refresh" /\ Expired(call[q].copy)) /\ ~Spent(call[q].copy)
           /\ Goto(q, [step |-> "revoke", op |-> call[q].op, token |-> call[q].token,
                       user |-> call[q].copy.user, seen |-> call[q].copy.writes])
    BY <1>8 DEF Judge, JudgeRefresh, JudgeLogout, Pass
  <2>. QED  BY <2>1, <2>2, <2>3, <2>4
<1>9. ASSUME NEW q \in Requests, Revoke(q)
      PROVE  \A r \in Requests : ~Rotating(r, t)'
  <2>1. CASE \E a : Finish(q, a)
    BY <1>3, <1>9, <2>1 DEF Revoke
  <2>2. CASE /\ call[q].op = "refresh"
             /\ Goto(q, [step |-> "insert", token |-> call[q].token, user |-> call[q].user,
                         seen |-> call[q].seen + 1, since |-> now])
    <3>1. call[q].token # t
      BY <1>9, <2>2 DEF Revoke, RevokeRotated, RevokeLoggedOut, At, Rotating
    <3>. QED  BY <1>4, <1>9, <2>2, <3>1 DEF Revoke
  <2>. QED  BY <1>9, <2>1, <2>2 DEF Revoke, RevokeRotated, RevokeLoggedOut
<1>10. ASSUME NEW q \in Requests, Insert(q)
       PROVE  \A r \in Requests : ~Rotating(r, t)'
  BY <1>4, <1>10 DEF Insert
<1>11. ASSUME NEW q \in Requests, RevokeAll(q) \/ Reply(q) \/ StatementLost(q) \/ Die(q)
       PROVE  \A r \in Requests : ~Rotating(r, t)'
  BY <1>3, <1>11 DEF RevokeAll, Reply, StatementLost, Die
<1>. QED
  BY <1>1, <1>2, <1>5, <1>6, <1>7, <1>8, <1>9, <1>10, <1>11 DEF Next, Serve

(* A spent token stays spent, and no successor of it appears.              *)
LEMMA SpentStep ==
  ASSUME IInv, [Next]_vars, NEW t, SpentForGood(t)
  PROVE  SpentForGood(t)' /\ Successors(t)' = Successors(t)
<1>1. SpentForGood(t)'
  BY StaysSpent, NoNewRotation DEF SpentForGood
<1>2. Grows /\ TypeOK /\ CopiesAgree
  BY TypeStep DEF IInv, RotationBurnsFirst
<1>3. CASE DOMAIN tokens' = DOMAIN tokens
  <2>1. \A s \in DOMAIN tokens : tokens'[s].from = tokens[s].from
    BY <1>2 DEF Grows
  <2>2. {s \in DOMAIN tokens : tokens'[s].from = t} = {s \in DOMAIN tokens : tokens[s].from = t}
    BY <2>1
  <2>. QED  BY <1>1, <1>3, <2>2 DEF Successors
<1>4. ASSUME NEW r \in Requests, Insert(r)
      PROVE  Successors(t)' = Successors(t)
  <2>1. call[r].token # t
    BY <1>4 DEF Insert, At, SpentForGood, Rotating
  <2>2. PICK s \in Tokens \ DOMAIN tokens, at \in Int : Adding(s, NewToken(call[r], at))
    BY <1>4 DEF Insert, Adding
  <2>3. tokens'[s].from # t /\ DOMAIN tokens' = DOMAIN tokens \cup {s}
    BY <2>1, <2>2 DEF Adding, NewToken
  <2>. QED  BY <1>2, <2>3 DEF Grows, Successors
<1>. QED  BY <1>1, <1>2, <1>3, <1>4, OnlyInsertAdds

(* A spent token is never rotated again.                                   *)
THEOREM SpentIsSpent == Spec => SpentTokensSettle
<1>. DEFINE Settled == \A t \in Tokens : SpentForGood(t) =>
                         SpentForGood(t)' /\ Successors(t)' = Successors(t)
<1>1. IInv /\ [Next]_vars => [Settled]_vars
  BY SpentStep
<1>. QED  BY <1>1, Invariance, PTL DEF Spec, SpentTokensSettle

(* A request under way does not turn into a login.                         *)
LEMMA NoNewLogin ==
  ASSUME IInv, [Next]_vars, NEW u, NEW r \in DOMAIN call, ~LoggingIn(r, u)
  PROVE  ~LoggingIn(r, u)'
<1>1. CASE UNCHANGED vars \/ Tick
  BY <1>1 DEF vars, Tick, LoggingIn, At
<1>2. ASSUME NEW q, NEW a, Finish(q, a)
      PROVE  ~LoggingIn(r, u)'
  BY <1>2 DEF Finish, LoggingIn, At
<1>3. ASSUME NEW q, NEW c, Goto(q, c), q # r \/ c.step # "insert" \/ c.token # None
      PROVE  ~LoggingIn(r, u)'
  BY <1>3 DEF Goto, LoggingIn, At
<1>4. ASSUME NEW q \in Requests, Present(q) \/ Login(q)
      PROVE  ~LoggingIn(r, u)'
  BY <1>2, <1>3, <1>4 DEF Present, Login
<1>5. ASSUME NEW q \in Requests, Find(q)
      PROVE  ~LoggingIn(r, u)'
  BY <1>2, <1>3, <1>5 DEF Find
<1>6. ASSUME NEW q \in Requests, Judge(q)
      PROVE  ~LoggingIn(r, u)'
  BY <1>2, <1>3, <1>6 DEF Judge, JudgeRefresh, JudgeLogout, Pass
<1>7. ASSUME NEW q \in Requests, Revoke(q)
      PROVE  ~LoggingIn(r, u)'
  <2>1. call[q].token # None
    BY <1>7, TokenAssumption
       DEF Revoke, RevokeRotated, RevokeLoggedOut, At, IInv, TypeOK, TableOK,
           RotationBurnsFirst, CopiesAgree, Agrees
  <2>. QED  BY <1>2, <1>3, <1>7, <2>1 DEF Revoke, RevokeRotated, RevokeLoggedOut
<1>8. ASSUME NEW q \in Requests,
             RevokeAll(q) \/ Insert(q) \/ Reply(q) \/ StatementLost(q) \/ Die(q)
      PROVE  ~LoggingIn(r, u)'
  BY <1>2, <1>3, <1>8 DEF RevokeAll, Insert, Reply, StatementLost, Die
<1>. QED
  BY <1>1, <1>4, <1>5, <1>6, <1>7, <1>8 DEF Next, Serve

(* A user whose sessions are all over gets a new one by logging in, and in *)
(* no other way.                                                           *)
THEOREM OnlyLoginReopensSessions == Spec => OnlyALoginReopens
<1>. DEFINE Opened(u) == \E r \in Requests : r \notin DOMAIN call /\ LoggingIn(r, u)'
            Closed == \A u \in Users : LockedOut(u) => LockedOut(u)' \/ Opened(u)
<1>1. ASSUME IInv, [Next]_vars, NEW u \in Users, LockedOut(u), ~Opened(u)
      PROVE  LockedOut(u)'
  <2>0. Grows /\ TypeOK /\ CopiesAgree
    BY <1>1, TypeStep DEF IInv, RotationBurnsFirst
  <2>1. ASSUME NEW r \in Requests
        PROVE  ~LoggingIn(r, u)'
    <3>1. CASE r \notin DOMAIN call
      BY <1>1, <3>1
    <3>2. CASE r \in DOMAIN call
      BY <1>1, <3>2, NoNewLogin DEF LockedOut
    <3>. QED  BY <3>1, <3>2
  <2>2. ASSUME NEW t \in DOMAIN tokens', tokens'[t].user = u
        PROVE  SpentForGood(t)'
    <3>1. CASE t \in DOMAIN tokens
      BY <1>1, <2>0, <2>2, <3>1, SpentStep DEF Grows, LockedOut
    <3>2. CASE t \notin DOMAIN tokens
      <4>1. PICK r \in Requests : Insert(r)
        BY <1>1, <2>0, <2>2, <3>2, OnlyInsertAdds
      <4>2. PICK s \in Tokens \ DOMAIN tokens, at \in Int : Adding(s, NewToken(call[r], at))
        BY <4>1 DEF Insert, Adding
      <4>3. t = s /\ call[r].user = u
        BY <2>2, <3>2, <4>2 DEF Adding, NewToken
      <4>4. call[r].token # None
        BY <1>1, <4>1, <4>3 DEF Insert, LockedOut, LoggingIn
      <4>5. call[r].token \in DOMAIN tokens /\ tokens[call[r].token].user = u
        BY <2>0, <4>1, <4>3, <4>4 DEF Insert, At, CopiesAgree, Agrees
      <4>6. Rotating(r, call[r].token)
        BY <4>1 DEF Insert, At, Rotating
      <4>. QED  BY <1>1, <4>5, <4>6 DEF LockedOut, SpentForGood
    <3>. QED  BY <3>1, <3>2
  <2>. QED  BY <2>1, <2>2 DEF LockedOut
<1>2. IInv /\ [Next]_vars => [Closed]_vars
  BY <1>1
<1>. QED  BY <1>2, Invariance, PTL DEF Spec, OnlyALoginReopens
-----------------------------------------------------------------------------

=============================================================================
