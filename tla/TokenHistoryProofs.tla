------------------------- MODULE TokenHistoryProofs -------------------------
(***************************************************************************)
(* What a request that overlaps others still knows, for every value of the *)
(* constants.  The invariant is History, about the fields the code does    *)
(* not store: a row never updated is live, a request about to update read  *)
(* a live row, and a token updated just once whose successor is on its way *)
(* has no other.  From it and IInv follow what a logout and reuse          *)
(* detection may say, and, in SessionsProofs, that only stale requests     *)
(* break ADR 0014's sessions.                                              *)
(***************************************************************************)
EXTENDS RefreshTokensProofs

(* What the history fields say: writes counts the updates of a row, seen   *)
(* is its value in the copy a request acts on, plus its own update, and a  *)
(* token that has a successor, or for which one is on its way, was rotated.*)
Counted(row) == row.revokedAt = {} <=> row.writes = 0

Knows(c) ==
  /\ c.step = "judge" => Counted(c.copy)
  /\ c.step = "revoke" => c.seen = 0
  /\ c.step = "insert" /\ c.token # None =>
       c.seen = 1 /\ "rotated" \in tokens[c.token].revokedAt

Inserting(r, t) == At(r, "insert") /\ call[r].token = t

(* A token updated once, with a successor on its way, is still without one *)
(* and nobody else issues one.                                             *)
Alone(r, t) ==
  Inserting(r, t) /\ tokens[t].writes = 1 =>
    /\ tokens[t].revokedAt = {"rotated"}
    /\ Successors(t) = {}
    /\ \A q \in Requests : Inserting(q, t) => q = r

AllCounted == \A t \in DOMAIN tokens : Counted(tokens[t])
ParentsRotated ==
  \A t \in DOMAIN tokens : tokens[t].from # None =>
    "rotated" \in tokens[tokens[t].from].revokedAt
AllKnow == \A r \in DOMAIN call : Knows(call[r])
AllAlone == \A r \in Requests, t \in DOMAIN tokens : Alone(r, t)

History == AllCounted /\ ParentsRotated /\ AllKnow /\ AllAlone

(* An update, seen from the rows there before it.                          *)
LEMMA MarkOne ==
  ASSUME TableOK, NEW t \in DOMAIN tokens, NEW reason, tokens' = Mark(t, reason)
  PROVE  /\ DOMAIN tokens' = DOMAIN tokens
         /\ tokens'[t].revokedAt = tokens[t].revokedAt \cup {reason}
         /\ tokens'[t].writes = tokens[t].writes + 1
         /\ \A i \in DOMAIN tokens \ {t} : tokens'[i] = tokens[i]
<1>1. tokens[t] \in Row
  BY DEF TableOK
<1>2. /\ tokens'[t].revokedAt = tokens[t].revokedAt \cup {reason}
      /\ tokens'[t].writes = tokens[t].writes + 1
  BY <1>1 DEF Mark, TableOK, Row
<1>. QED  BY <1>2 DEF Mark, TableOK

LEMMA RevokeUserOnes ==
  ASSUME TableOK, NEW u, tokens' = RevokeUser(u)
  PROVE  /\ DOMAIN tokens' = DOMAIN tokens
         /\ \A t \in DOMAIN tokens :
              \/ tokens'[t] = tokens[t] /\ (tokens[t].user = u => Revoked(t))
              \/ /\ ~Revoked(t)
                 /\ tokens'[t].revokedAt = {"reuse"}
                 /\ tokens'[t].writes = tokens[t].writes + 1
<1>1. ASSUME NEW t \in DOMAIN tokens
      PROVE  \/ tokens'[t] = tokens[t] /\ (tokens[t].user = u => Revoked(t))
             \/ /\ ~Revoked(t)
                /\ tokens'[t].revokedAt = {"reuse"}
                /\ tokens'[t].writes = tokens[t].writes + 1
  <2>1. tokens[t] \in Row
    BY DEF TableOK
  <2>2. CASE tokens[t].user = u /\ ~Revoked(t)
    BY <2>1, <2>2 DEF RevokeUser, Row
  <2>3. CASE ~(tokens[t].user = u /\ ~Revoked(t))
    BY <2>3 DEF RevokeUser
  <2>. QED  BY <2>2, <2>3
<1>. QED  BY <1>1 DEF RevokeUser

(* The steps that touch the table. *)
LEMMA OnlyThreeWrite ==
  ASSUME [Next]_vars
  PROVE  \/ UNCHANGED tokens
         \/ \E r \in Requests : Revoke(r) \/ RevokeAll(r) \/ Insert(r)
BY DEF Next, Serve, vars, Tick, Present, Login, Find, Judge, Reply, StatementLost, Die

(* A revocation is of a row that is there. *)
LEMMA RevokesOne ==
  ASSUME IInv, NEW r \in Requests, Revoke(r)
  PROVE  /\ r \in DOMAIN call
         /\ call[r] \in RevokeCall
         /\ call[r].token \in DOMAIN tokens
         /\ call[r].user = tokens[call[r].token].user
         /\ \E reason \in {"rotated", "logout"} : tokens' = Mark(call[r].token, reason)
<1>1. r \in DOMAIN call /\ call[r] \in RevokeCall
  BY StepTypes DEF Revoke, At, IInv, TypeOK
<1>. QED
  BY <1>1 DEF Revoke, RevokeRotated, RevokeLoggedOut, At, IInv, RotationBurnsFirst,
              CopiesAgree, Agrees

(* A row is as it was, or has been updated once more.                      *)
LEMMA WritesGrow ==
  ASSUME IInv, [Next]_vars, NEW t \in DOMAIN tokens
  PROVE  \/ tokens'[t] = tokens[t]
         \/ /\ tokens'[t].revokedAt # {}
            /\ tokens'[t].writes = tokens[t].writes + 1
            /\ Revoked(t) => \E r \in Requests : Revoke(r) /\ call[r].token = t
<1>1. ASSUME NEW r \in Requests, Revoke(r)
      PROVE  \/ tokens'[t] = tokens[t]
             \/ /\ tokens'[t].revokedAt # {}
                /\ tokens'[t].writes = tokens[t].writes + 1
                /\ call[r].token = t
  BY <1>1, RevokesOne, MarkOne DEF IInv, TypeOK
<1>2. ASSUME NEW r \in Requests, RevokeAll(r)
      PROVE  \/ tokens'[t] = tokens[t]
             \/ /\ tokens'[t].revokedAt # {}
                /\ tokens'[t].writes = tokens[t].writes + 1
                /\ ~Revoked(t)
  BY <1>2, RevokeUserOnes DEF RevokeAll, IInv, TypeOK
<1>3. ASSUME NEW r \in Requests, Insert(r)
      PROVE  tokens'[t] = tokens[t]
  BY <1>3 DEF Insert
<1>. QED  BY <1>1, <1>2, <1>3, OnlyThreeWrite

(* How a request comes to insert a successor. *)
LEMMA BeginsToInsert ==
  ASSUME IInv, [Next]_vars, NEW q \in Requests, NEW t, t # None, Inserting(q, t)'
  PROVE  \/ Inserting(q, t) /\ call'[q] = call[q]
         \/ /\ Revoke(q) /\ call[q].token = t /\ tokens' = Mark(t, "rotated")
            /\ Goto(q, [step |-> "insert", token |-> t, user |-> call[q].user,
                        seen |-> call[q].seen + 1, since |-> now])
<1>. DEFINE Kept == Inserting(q, t) /\ call'[q] = call[q]
<1>1. CASE UNCHANGED vars \/ Tick
  BY <1>1 DEF vars, Tick, Inserting, At
<1>2. ASSUME NEW r, NEW a, Finish(r, a)
      PROVE  Kept
  BY <1>2 DEF Finish, Inserting, At
<1>3. ASSUME NEW r, NEW c, Goto(r, c), r # q \/ c.step # "insert" \/ c.token = None
      PROVE  Kept
  BY <1>3 DEF Goto, Inserting, At
<1>4. ASSUME NEW r \in Requests, Present(r) \/ Login(r) \/ Find(r) \/ RevokeAll(r) \/ Insert(r)
                                   \/ Reply(r) \/ StatementLost(r) \/ Die(r)
      PROVE  Kept
  <2>1. CASE Present(r)
    BY <1>2, <1>3, <2>1 DEF Present
  <2>2. CASE Login(r)
    BY <1>2, <1>3, <2>2 DEF Login
  <2>3. CASE Find(r)
    BY <1>2, <1>3, <2>3 DEF Find
  <2>4. CASE RevokeAll(r) \/ Insert(r) \/ Reply(r) \/ StatementLost(r) \/ Die(r)
    BY <1>2, <1>3, <2>4 DEF RevokeAll, Insert, Reply, StatementLost, Die
  <2>. QED  BY <1>4, <2>1, <2>2, <2>3, <2>4
<1>5. ASSUME NEW r \in Requests, Judge(r)
      PROVE  Kept
  <2>1. CASE \E a : Finish(r, a)
    BY <1>2, <2>1
  <2>2. CASE \E c : Goto(r, c) /\ c.step # "insert"
    BY <1>3, <2>2
  <2>. QED  BY <1>5, <2>1, <2>2 DEF Judge, JudgeRefresh, JudgeLogout, Pass
<1>6. ASSUME NEW r \in Requests, Revoke(r), ~Kept
      PROVE  /\ Revoke(q) /\ call[q].token = t /\ tokens' = Mark(t, "rotated")
             /\ Goto(q, [step |-> "insert", token |-> t, user |-> call[q].user,
                         seen |-> call[q].seen + 1, since |-> now])
  <2>1. ~RevokeLoggedOut(r)
    BY <1>2, <1>6 DEF RevokeLoggedOut
  <2>2. RevokeRotated(r)
    BY <1>6, <2>1 DEF Revoke
  <2>3. r = q
    BY <1>3, <1>6, <2>2 DEF RevokeRotated
  <2>4. call'[q].token = call[q].token
    BY <2>2, <2>3 DEF RevokeRotated, Goto
  <2>5. call[q].token = t
    BY <2>4 DEF Inserting
  <2>. QED  BY <1>6, <2>2, <2>3, <2>5 DEF RevokeRotated
<1>. QED  BY <1>1, <1>4, <1>5, <1>6 DEF Next, Serve

LEMMA CountedStep ==
  ASSUME IInv, AllCounted, [Next]_vars
  PROVE  AllCounted'
<1>1. ASSUME NEW t \in DOMAIN tokens
      PROVE  Counted(tokens'[t])
  <2>1. tokens[t].writes \in Nat
    BY DEF IInv, TypeOK, TableOK, Row
  <2>2. tokens'[t].writes = tokens[t].writes + 1 => tokens'[t].writes # 0
    BY <2>1
  <2>. QED  BY <2>2, WritesGrow DEF AllCounted, Counted
<1>2. ASSUME NEW r \in Requests, Insert(r), NEW t \in DOMAIN tokens' \ DOMAIN tokens
      PROVE  Counted(tokens'[t])
  BY <1>2 DEF Insert, NewToken, Counted
<1>. QED  BY <1>1, <1>2, OnlyInsertAdds DEF AllCounted, IInv, RotationBurnsFirst

LEMMA ParentsStep ==
  ASSUME IInv, History, [Next]_vars
  PROVE  ParentsRotated'
<1>1. Grows
  BY TypeStep DEF IInv, RotationBurnsFirst
<1>2. ASSUME NEW t \in DOMAIN tokens, tokens'[t].from # None
      PROVE  "rotated" \in tokens'[tokens'[t].from].revokedAt
  BY <1>1, <1>2 DEF History, ParentsRotated, Grows, IInv, RotationBurnsFirst, IssuedForBurnt
<1>3. ASSUME NEW r \in Requests, Insert(r), NEW t \in DOMAIN tokens' \ DOMAIN tokens,
             tokens'[t].from # None
      PROVE  "rotated" \in tokens'[tokens'[t].from].revokedAt
  <2>1. tokens'[t].from = call[r].token
    BY <1>3 DEF Insert, NewToken
  <2>2. /\ call[r].token \in DOMAIN tokens
        /\ "rotated" \in tokens[call[r].token].revokedAt
    BY <1>3, <2>1
       DEF Insert, At, History, AllKnow, Knows, IInv, RotationBurnsFirst, CopiesAgree, Agrees
  <2>. QED  BY <1>1, <2>1, <2>2 DEF Grows
<1>. QED  BY <1>2, <1>3, OnlyInsertAdds DEF ParentsRotated, IInv, RotationBurnsFirst

(* The requests in flight know what they have read. *)
LEMMA KnowStep ==
  ASSUME IInv, History, [Next]_vars
  PROVE  AllKnow'
<1>0. Grows
  BY TypeStep DEF IInv, RotationBurnsFirst
<1>1. ASSUME NEW q \in DOMAIN call, q \in DOMAIN call', call'[q] = call[q]
      PROVE  Knows(call[q])'
  <2>1. Knows(call[q]) /\ Agrees(call[q])
    BY <1>1 DEF History, AllKnow, IInv, RotationBurnsFirst, CopiesAgree
  <2>2. call[q].step = "insert" /\ call[q].token # None =>
          "rotated" \in tokens'[call[q].token].revokedAt
    BY <1>0, <2>1 DEF Knows, Agrees, Grows
  <2>. QED  BY <1>1, <2>1, <2>2 DEF Knows
<1>2. CASE call' = call
  BY <1>1, <1>2 DEF AllKnow
<1>3. ASSUME NEW r, NEW a, Finish(r, a)
      PROVE  AllKnow'
  BY <1>1, <1>3 DEF Finish, AllKnow
<1>4. ASSUME NEW r, NEW c, Goto(r, c), Knows(c)'
      PROVE  AllKnow'
  <2>1. ASSUME NEW q \in DOMAIN call', q # r
        PROVE  Knows(call[q])'
    BY <1>1, <1>4, <2>1 DEF Goto
  <2>2. r \in DOMAIN call' => call'[r] = c
    BY <1>4 DEF Goto
  <2>3. r \in DOMAIN call' => Knows(call[r])'
    BY <1>4, <2>2 DEF Knows
  <2>. QED  BY <2>1, <2>3 DEF AllKnow
<1>5. ASSUME NEW r, NEW c, Goto(r, c),
             \/ c.step \in {"find", "revokeAll", "reply"}
             \/ c.step = "insert" /\ c.token = None
      PROVE  AllKnow'
  BY <1>4, <1>5 DEF Knows
<1>6. ASSUME NEW r \in Requests, Present(r) \/ Login(r) \/ RevokeAll(r) \/ Insert(r)
                                   \/ Reply(r) \/ StatementLost(r) \/ Die(r)
      PROVE  AllKnow'
  <2>1. CASE Present(r)
    BY <1>3, <1>5, <2>1 DEF Present
  <2>2. CASE Login(r)
    BY <1>3, <1>5, <2>2 DEF Login
  <2>3. CASE RevokeAll(r) \/ Insert(r) \/ Reply(r) \/ StatementLost(r) \/ Die(r)
    BY <1>3, <1>5, <2>3 DEF RevokeAll, Insert, Reply, StatementLost, Die
  <2>. QED  BY <1>6, <2>1, <2>2, <2>3
<1>7. ASSUME NEW r \in Requests, Find(r)
      PROVE  AllKnow'
  <2>1. CASE \E a : Finish(r, a)
    BY <1>3, <2>1
  <2>2. CASE /\ call[r].token \in DOMAIN tokens
             /\ \E c : Goto(r, c) /\ c.step = "judge" /\ c.copy = tokens[call[r].token]
    <3>1. PICK c : Goto(r, c) /\ c.step = "judge" /\ c.copy = tokens[call[r].token]
      BY <2>2
    <3>2. Counted(c.copy)
      BY <2>2, <3>1 DEF History, AllCounted
    <3>3. Knows(c)'
      BY <3>1, <3>2 DEF Knows
    <3>. QED  BY <1>4, <3>1, <3>3
  <2>. QED  BY <1>7, <2>1, <2>2 DEF Find
<1>8. ASSUME NEW r \in Requests, Judge(r)
      PROVE  AllKnow'
  <2>1. CASE \E a : Finish(r, a)
    BY <1>3, <2>1
  <2>2. CASE Pass(r, "revokeAll")
    BY <1>5, <2>2 DEF Pass
  <2>3. CASE ~Spent(call[r].copy) /\ Pass(r, "revoke")
    <3>1. PICK c : Goto(r, c) /\ c.step = "revoke" /\ c.seen = call[r].copy.writes
      BY <2>3 DEF Pass
    <3>2. Counted(call[r].copy)
      BY <1>8 DEF Judge, At, History, AllKnow, Knows
    <3>3. Knows(c)'
      BY <2>3, <3>1, <3>2 DEF Spent, Counted, Knows
    <3>. QED  BY <1>4, <3>1, <3>3
  <2>. QED  BY <1>8, <2>1, <2>2, <2>3 DEF Judge, JudgeRefresh, JudgeLogout
<1>9. ASSUME NEW r \in Requests, Revoke(r)
      PROVE  AllKnow'
  <2>1. CASE RevokeLoggedOut(r)
    BY <1>3, <2>1 DEF RevokeLoggedOut
  <2>2. CASE RevokeRotated(r)
    <3>1. call[r].seen = 0
      BY <1>9 DEF Revoke, At, History, AllKnow, Knows
    <3>2. PICK c : Goto(r, c) /\ c.step = "insert" /\ c.token = call[r].token
                   /\ c.seen = call[r].seen + 1
      BY <2>2 DEF RevokeRotated
    <3>3. "rotated" \in tokens'[call[r].token].revokedAt
      BY <1>9, <2>2, RevokesOne, MarkOne DEF RevokeRotated, IInv, TypeOK
    <3>4. Knows(c)'
      BY <3>1, <3>2, <3>3 DEF Knows
    <3>. QED  BY <1>4, <3>2, <3>4
  <2>. QED  BY <1>9, <2>1, <2>2 DEF Revoke
<1>. QED
  BY <1>2, <1>6, <1>7, <1>8, <1>9 DEF Next, Serve, vars, Tick

(* A token is given a successor by an insert for it and in no other way.   *)
LEMMA SuccessorsStep ==
  ASSUME IInv, [Next]_vars, NEW t
  PROVE  \/ Successors(t)' = Successors(t)
         \/ \E r \in Requests : Insert(r) /\ Inserting(r, t)
<1>0. Grows
  BY TypeStep DEF IInv, RotationBurnsFirst
<1>1. CASE DOMAIN tokens' = DOMAIN tokens
  BY <1>0, <1>1 DEF Grows, Successors
<1>2. ASSUME NEW r \in Requests, Insert(r), ~Inserting(r, t)
      PROVE  Successors(t)' = Successors(t)
  <2>1. PICK s \in Tokens \ DOMAIN tokens, at \in Int : Adding(s, NewToken(call[r], at))
    BY <1>2 DEF Insert, Adding
  <2>2. tokens'[s].from # t /\ DOMAIN tokens' = DOMAIN tokens \cup {s}
    BY <1>2, <2>1 DEF Adding, NewToken, Insert, Inserting
  <2>. QED  BY <1>0, <2>2 DEF Grows, Successors
<1>. QED  BY <1>1, <1>2, OnlyInsertAdds DEF IInv, RotationBurnsFirst

LEMMA AloneStep ==
  ASSUME IInv, History, [Next]_vars
  PROVE  AllAlone'
<1>. SUFFICES ASSUME NEW r \in Requests, NEW t \in DOMAIN tokens', Inserting(r, t)',
                     tokens'[t].writes = 1
              PROVE  /\ tokens'[t].revokedAt = {"rotated"}
                     /\ Successors(t)' = {}
                     /\ \A q \in Requests : Inserting(q, t)' => q = r
  BY DEF AllAlone, Alone, Inserting
<1>0. t \in Tokens /\ t # None
  BY TypeStep, TokenAssumption DEF IInv, RotationBurnsFirst, TypeOK, TableOK
<1>1. \A q \in Requests : Inserting(q, t) => /\ t \in DOMAIN tokens
                                             /\ Revoked(t)
                                             /\ tokens[t].writes \in Nat
                                             /\ tokens[t].writes # 0
  BY <1>0 DEF Inserting, At, IInv, RotationBurnsFirst, CopiesAgree, Agrees, TypeOK, TableOK,
              Row, History, AllCounted, Counted, Revoked
<1>2. CASE Inserting(r, t) /\ call'[r] = call[r]
  <2>1. t \in DOMAIN tokens /\ tokens[t].writes \in Nat /\ tokens[t].writes # 0 /\ Revoked(t)
    BY <1>1, <1>2
  <2>2. tokens'[t] = tokens[t]
    <3>1. tokens'[t].writes # tokens[t].writes + 1
      BY <2>1
    <3>. QED  BY <2>1, <3>1, WritesGrow
  <2>3. /\ tokens[t].revokedAt = {"rotated"}
        /\ Successors(t) = {}
        /\ \A q \in Requests : Inserting(q, t) => q = r
    BY <1>2, <2>1, <2>2 DEF History, AllAlone, Alone
  <2>4. ~Insert(r)
    <3>1. ASSUME NEW s, Goto(r, [step |-> "reply", token |-> s])
          PROVE  FALSE
      BY <1>2, <3>1 DEF Goto, Inserting, At
    <3>. QED  BY <3>1 DEF Insert
  <2>5. Successors(t)' = {}
    BY <2>3, <2>4, SuccessorsStep
  <2>6. ASSUME NEW q \in Requests, Inserting(q, t)'
        PROVE  q = r
    <3>1. CASE Inserting(q, t)
      BY <2>3, <3>1
    <3>2. CASE tokens' = Mark(t, "rotated")
      <4>1. tokens'[t].writes = tokens[t].writes + 1
        BY <2>1, <3>2, MarkOne DEF IInv, TypeOK
      <4>. QED  BY <2>1, <4>1
    <3>. QED  BY <1>0, <2>6, <3>1, <3>2, BeginsToInsert
  <2>. QED  BY <2>2, <2>3, <2>5, <2>6
<1>3. CASE /\ Revoke(r) /\ call[r].token = t /\ tokens' = Mark(t, "rotated")
           /\ Goto(r, [step |-> "insert", token |-> t, user |-> call[r].user,
                       seen |-> call[r].seen + 1, since |-> now])
  <2>1. t \in DOMAIN tokens /\ tokens[t].writes \in Nat
    BY <1>3, RevokesOne DEF IInv, TypeOK, TableOK, Row
  <2>2. /\ DOMAIN tokens' = DOMAIN tokens
        /\ tokens'[t].revokedAt = tokens[t].revokedAt \cup {"rotated"}
        /\ tokens'[t].writes = tokens[t].writes + 1
    BY <1>3, <2>1, MarkOne DEF IInv, TypeOK
  <2>3. tokens[t].writes = 0
    BY <2>1, <2>2
  <2>4. tokens[t].revokedAt = {}
    BY <2>1, <2>3 DEF History, AllCounted, Counted
  <2>5. Successors(t) = {}
    BY <1>0, <2>4 DEF Successors, IInv, RotationBurnsFirst, IssuedForBurnt, Revoked
  <2>6. Successors(t)' = {}
    BY <1>1, <2>3, <2>5, SuccessorsStep
  <2>7. ASSUME NEW q \in Requests, Inserting(q, t)', q # r
        PROVE  FALSE
    <3>1. ~Inserting(q, t)
      BY <1>1, <2>3
    <3>2. Revoke(q)
      BY <1>0, <2>7, <3>1, BeginsToInsert
    <3>3. q \in DOMAIN call /\ call'[q] = call[q] /\ call[q].step = "revoke"
      BY <1>3, <2>7, <3>2 DEF Goto, Revoke, At
    <3>. QED  BY <2>7, <3>3 DEF Inserting, At
  <2>. QED  BY <2>2, <2>4, <2>6, <2>7
<1>. QED  BY <1>0, <1>2, <1>3, BeginsToInsert

LEMMA HistoryInvariance == Spec => [](IInv /\ History)
<1>1. Init => History
  BY DEF Init, History, AllCounted, ParentsRotated, AllKnow, AllAlone
<1>2. IInv /\ History /\ [Next]_vars => History'
  BY CountedStep, ParentsStep, KnowStep, AloneStep DEF History
<1>. QED  BY <1>1, <1>2, Invariance, PTL DEF Spec
-----------------------------------------------------------------------------
(* Only its own step ends a request. *)
LEMMA Leaves ==
  ASSUME [Next]_vars, NEW r \in Requests, NEW a, Told(r, a)
  PROVE  /\ Serve(r) \/ StatementLost(r) \/ Die(r)
         /\ \A q \in DOMAIN call \ {r} : q \in DOMAIN call' /\ call'[q] = call[q]
         /\ now' = now
<1>1. \A q, b : Finish(q, b) => q = r
  BY DEF Finish, Told
<1>2. ~UNCHANGED call
  BY DEF Told
<1>3. ASSUME NEW q \in Requests, Present(q) \/ Login(q)
      PROVE  FALSE
  <2>1. \A b : ~Finish(q, b)
    BY <1>1, <1>3 DEF Present, Login, Told
  <2>2. PICK c : Goto(q, c)
    BY <1>3, <2>1 DEF Present, Login
  <2>. QED  BY <2>2 DEF Goto, Told
<1>4. ASSUME NEW q \in Requests, Serve(q) \/ StatementLost(q) \/ Die(q)
      PROVE  q = r /\ (\E b : Finish(q, b)) /\ now' = now
  <2>1. \/ \E b : Finish(q, b)
        \/ \E c : Goto(q, c)
    BY <1>4 DEF Serve, Find, Judge, JudgeRefresh, JudgeLogout, Pass, Revoke, RevokeRotated,
                RevokeLoggedOut, RevokeAll, Insert, Reply, StatementLost, Die
  <2>2. \A c : ~Goto(q, c)
    BY DEF Goto, Told
  <2>3. now' = now
    BY <1>4 DEF Serve, Find, Judge, Revoke, RevokeAll, Insert, Reply, StatementLost, Die
  <2>. QED  BY <1>1, <2>1, <2>2, <2>3
<1>5. \E q \in Requests : Serve(q) \/ StatementLost(q) \/ Die(q)
  BY <1>2, <1>3 DEF Next, vars, Tick
<1>. QED  BY <1>4, <1>5 DEF Finish

(* What may still issue a token after a step that ends a request, could    *)
(* before.                                                                 *)
LEMMA LeavesNothingNew ==
  ASSUME NEW r \in Requests, NEW a, Told(r, a), now' = now,
         \A q \in DOMAIN call \ {r} : q \in DOMAIN call' /\ call'[q] = call[q],
         DOMAIN call' \subseteq DOMAIN call
  PROVE  /\ \A q \in Requests : \A t : Rotating(q, t)' => q # r /\ Rotating(q, t)
         /\ \A q \in Requests : \A u : LoggingIn(q, u)' => q # r /\ LoggingIn(q, u)
BY DEF Told, Rotating, LoggingIn, At, Usable

(* Whoever is told of a reuse, all of the user's tokens are dead, and the  *)
(* user is locked out if nothing of the user's was in flight.              *)
THEOREM ReuseLocksOut == Spec => ReuseRevokesAll
<1>1. ASSUME IInv, [Next]_vars, NEW r \in Requests, NEW u \in Users, Told(r, "Reuse"),
             call[r].user = u
      PROVE  /\ \A t \in DOMAIN tokens' : tokens'[t].user = u => tokens'[t].revokedAt # {}
             /\ Quiet(u) => LockedOut(u)'
  <2>1. RevokeAll(r)
    <3>1. /\ Serve(r) \/ StatementLost(r) \/ Die(r)
          /\ answer' = "Reuse" /\ r \notin DOMAIN call'
      BY <1>1, Leaves DEF Told
    <3>. QED
      BY <3>1, LostNames DEF Serve, Find, Judge, JudgeRefresh, JudgeLogout, Pass, Revoke,
         RevokeRotated, RevokeLoggedOut, Insert, Reply, StatementLost, Die, Goto, Finish
  <2>2. /\ DOMAIN tokens' = DOMAIN tokens
        /\ \A t \in DOMAIN tokens :
             \/ tokens'[t] = tokens[t] /\ (tokens[t].user = u => Revoked(t))
             \/ tokens'[t].revokedAt = {"reuse"}
    BY <1>1, <2>1, RevokeUserOnes DEF RevokeAll, IInv, TypeOK
  <2>3. \A t \in DOMAIN tokens' : tokens'[t].user = u => tokens'[t].revokedAt # {}
    BY <2>2 DEF Revoked
  <2>4. \A t \in DOMAIN tokens : tokens'[t].user = tokens[t].user
    BY <1>1, TypeStep DEF IInv, RotationBurnsFirst, Grows
  <2>5. /\ \A q \in Requests : \A t : Rotating(q, t)' => Rotating(q, t)
        /\ \A q \in Requests : LoggingIn(q, u)' => LoggingIn(q, u)
    <3>1. DOMAIN call' \subseteq DOMAIN call
      BY <2>1 DEF RevokeAll, Finish
    <3>. QED  BY <1>1, <3>1, Leaves, LeavesNothingNew
  <2>6. ASSUME Quiet(u)
        PROVE  LockedOut(u)'
    <3>1. ASSUME NEW t \in DOMAIN tokens', tokens'[t].user = u
          PROVE  SpentForGood(t)'
      <4>1. ~Usable(tokens[t])'
        BY <2>3, <3>1 DEF Usable
      <4>2. \A q \in Requests : ~Rotating(q, t)'
        BY <2>2, <2>4, <2>5, <2>6, <3>1 DEF Quiet
      <4>. QED  BY <3>1, <4>1, <4>2 DEF SpentForGood
    <3>2. \A q \in Requests : ~LoggingIn(q, u)'
      BY <2>5, <2>6 DEF Quiet
    <3>. QED  BY <3>1, <3>2 DEF LockedOut
  <2>. QED  BY <2>3, <2>6
<1>2. IInv /\ [Next]_vars =>
        [\A r \in Requests, u \in Users : (Told(r, "Reuse") /\ call[r].user = u) =>
           /\ \A t \in DOMAIN tokens' : tokens'[t].user = u => tokens'[t].revokedAt # {}
           /\ Quiet(u) => LockedOut(u)']_vars
  BY <1>1
<1>. QED  BY <1>2, Invariance, PTL DEF Spec, ReuseRevokesAll

(* Whoever is told that a logout is done, its token is dead; and unless it *)
(* was rotated, nothing was or, without a refresh in flight, will be       *)
(* issued for it.                                                          *)
THEOREM LogoutIsFinal == Spec => LogoutRevokesItsToken
<1>1. ASSUME IInv, History, [Next]_vars, NEW r \in Requests, NEW t \in Tokens,
             Told(r, "ok"), ~At(r, "reply"), call[r].token = t
      PROVE  /\ t \in DOMAIN tokens'
             /\ tokens'[t].revokedAt # {}
             /\ \/ "rotated" \in tokens'[t].revokedAt
                \/ /\ Successors(t)' = {}
                   /\ (\A q \in Requests \ {r} : ~Rotating(q, t)) => SpentForGood(t)'
  <2>1. \/ At(r, "judge") /\ JudgeLogout(r) /\ Spent(call[r].copy) /\ UNCHANGED tokens
        \/ Revoke(r)
    <3>1. /\ Serve(r) \/ StatementLost(r) \/ Die(r)
          /\ answer' = "ok" /\ r \notin DOMAIN call'
      BY <1>1, Leaves DEF Told
    <3>. QED
      BY <1>1, <3>1, LostNames DEF Serve, Find, Judge, JudgeRefresh, JudgeLogout, Pass,
         RevokeAll, Insert, Reply, StatementLost, Die, Goto, Finish
  <2>2. t \in DOMAIN tokens /\ tokens'[t].revokedAt # {}
    <3>1. CASE At(r, "judge") /\ Spent(call[r].copy) /\ UNCHANGED tokens
      <4>1. Agrees(call[r])
        BY <1>1, <3>1 DEF At, IInv, RotationBurnsFirst, CopiesAgree
      <4>. QED  BY <1>1, <3>1, <4>1 DEF At, Spent, Agrees
    <3>2. CASE Revoke(r)
      <4>1. t \in DOMAIN tokens /\ \E reason : tokens' = Mark(t, reason)
        BY <1>1, <3>2, RevokesOne
      <4>2. TableOK
        BY <1>1 DEF IInv, TypeOK
      <4>3. PICK reason : tokens'[t].revokedAt = tokens[t].revokedAt \cup {reason}
        BY <4>1, <4>2, MarkOne
      <4>. QED  BY <4>1, <4>3
    <3>. QED  BY <2>1, <3>1, <3>2
  <2>3. Grows /\ t # None /\ DOMAIN tokens' = DOMAIN tokens
    <3>1. Grows
      BY <1>1, TypeStep DEF IInv, RotationBurnsFirst
    <3>2. Revoke(r) => DOMAIN tokens' = DOMAIN tokens
      BY <1>1, RevokesOne, MarkOne DEF IInv, TypeOK
    <3>. QED  BY <2>1, <3>1, <3>2, TokenAssumption
  <2>4. "rotated" \notin tokens'[t].revokedAt => Successors(t)' = {}
    <3>1. Successors(t)' = Successors(t)
      BY <2>3 DEF Grows, Successors
    <3>2. \A s \in Successors(t) : "rotated" \in tokens[t].revokedAt
      BY <1>1, <2>3 DEF Successors, History, ParentsRotated
    <3>. QED  BY <2>2, <2>3, <3>1, <3>2 DEF Grows
  <2>5. ASSUME \A q \in Requests \ {r} : ~Rotating(q, t)
        PROVE  SpentForGood(t)'
    <3>1. DOMAIN call' \subseteq DOMAIN call
      BY <1>1, <2>1 DEF JudgeLogout, Revoke, RevokeRotated, RevokeLoggedOut, Pass, Finish,
                        Goto, Told
    <3>2. \A q \in Requests : ~Rotating(q, t)'
      BY <1>1, <2>5, <3>1, Leaves, LeavesNothingNew
    <3>3. ~Usable(tokens[t])'
      BY <2>2 DEF Usable
    <3>. QED  BY <2>2, <2>3, <3>2, <3>3 DEF SpentForGood
  <2>. QED  BY <2>2, <2>3, <2>4, <2>5
<1>2. IInv /\ History /\ [Next]_vars =>
        [\A r \in Requests, t \in Tokens :
           (Told(r, "ok") /\ ~At(r, "reply") /\ call[r].token = t) =>
             /\ t \in DOMAIN tokens'
             /\ tokens'[t].revokedAt # {}
             /\ \/ "rotated" \in tokens'[t].revokedAt
                \/ /\ Successors(t)' = {}
                   /\ (\A q \in Requests \ {r} : ~Rotating(q, t)) => SpentForGood(t)']_vars
  BY <1>1
<1>. QED  BY <1>2, HistoryInvariance, PTL DEF Spec, LogoutRevokesItsToken
=============================================================================
