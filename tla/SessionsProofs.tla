--------------------------- MODULE SessionsProofs ---------------------------
(***************************************************************************)
(* RefreshTokens implements the looser Sessions, and the strict one but    *)
(* for stale requests, for every value of its constants.  Revoke is a      *)
(* rotation or a logout, RevokeAll an EndAll, Insert an opening or a       *)
(* succession; every other step is a stutter.  IInv gives an insert a      *)
(* parent that has been used; History gives one that is not stale a parent *)
(* that is rotated and not yet succeeded.                                  *)
(***************************************************************************)
EXTENDS TokenHistoryProofs

(* The sessions of the two states of a step, one token at a time. *)
LEMMA SameSessions == UNCHANGED tokens => UNCHANGED Sessions!vars
BY DEF Sessions!vars, Session

LEMMA IssueAdds ==
  ASSUME NEW t, NEW row, Adding(t, row), row.revokedAt = {}
  PROVE  Sessions!Issue(t, row.user, row.from)
BY DEF Adding, Sessions!Issue, Session, State

LEMMA BecomeMarks ==
  ASSUME Grows, DOMAIN tokens' = DOMAIN tokens, NEW T, NEW state,
         \A t \in DOMAIN tokens :
           State(tokens'[t]) = IF t \in T THEN state ELSE State(tokens[t])
  PROVE  Sessions!Become(T, state)
<1>1. \A t \in DOMAIN tokens :
        tokens'[t].user = tokens[t].user /\ tokens'[t].from = tokens[t].from
  BY DEF Grows
<1>. QED  BY <1>1 DEF Sessions!Become, Session

(* What an update of one row does to its session. *)
LEMMA MarkSpends ==
  ASSUME TableOK, NEW t \in DOMAIN tokens, NEW reason \in Reasons, tokens' = Mark(t, reason)
  PROVE  /\ tokens'[t].revokedAt = tokens[t].revokedAt \cup {reason}
         /\ State(tokens'[t]) \in {"rotated", "ended"}
         /\ State(tokens[t]) = "ended" => State(tokens'[t]) = "ended"
         /\ Sessions!Become({t}, State(tokens'[t]))
<1>1. tokens[t] \in Row
  BY DEF TableOK
<1>2. tokens'[t].revokedAt = tokens[t].revokedAt \cup {reason}
  BY <1>1 DEF Mark, TableOK, Row
<1>3. State(tokens'[t]) \in {"rotated", "ended"}
  BY <1>2 DEF State
<1>4. State(tokens[t]) = "ended" => State(tokens'[t]) = "ended"
  BY <1>2 DEF State
<1>5. \A i \in DOMAIN tokens \ {t} : tokens'[i] = tokens[i]
  BY DEF Mark, TableOK
<1>6. Sessions!Become({t}, State(tokens'[t]))
  BY <1>5, MarkTable, BecomeMarks
<1>. QED  BY <1>2, <1>3, <1>4, <1>6

(* Reuse detection ends the user's live sessions and no other. *)
LEMMA RevokeUserEnds ==
  ASSUME TableOK, NEW u, tokens' = RevokeUser(u)
  PROVE  Sessions!EndAll(u)
<1>. DEFINE live == {t \in DOMAIN tokens : tokens[t].user = u /\ ~Revoked(t)}
<1>1. Sessions!Live(u) = live
  BY DEF Sessions!Live, Session, State, Revoked
<1>2. ASSUME NEW t \in DOMAIN tokens
      PROVE  State(tokens'[t]) = IF t \in live THEN "ended" ELSE State(tokens[t])
  <2>1. tokens[t] \in Row
    BY DEF TableOK
  <2>2. CASE t \in live
    <3>1. tokens'[t].revokedAt = {"reuse"}
      BY <2>1, <2>2 DEF RevokeUser, Row
    <3>. QED  BY <2>2, <3>1 DEF State
  <2>3. CASE t \notin live
    BY <2>3 DEF RevokeUser
  <2>. QED  BY <2>2, <2>3
<1>. HIDE DEF live
<1>3. Sessions!Become(live, "ended")
  BY <1>2, RevokeUserTable, BecomeMarks
<1>. QED  BY <1>1, <1>3 DEF Sessions!EndAll

LEMMA RevokeAllEnds ==
  ASSUME IInv, NEW r \in Requests, RevokeAll(r)
  PROVE  \E u \in Users : Sessions!EndAll(u)
<1>1. call[r] \in RevokeCall
  BY StepTypes DEF RevokeAll, At, IInv, TypeOK
<1>. QED
  BY <1>1, RevokeUserEnds DEF RevokeAll, RevokeCall, IInv, TypeOK

(* An insert opens a session, or is for a parent whose session it reads.   *)
LEMMA InsertIssues ==
  ASSUME IInv, NEW r \in Requests, Insert(r)
  PROVE  \E s \in Tokens : LET c == call[r] IN
           \/ Sessions!Open(s)
           \/ /\ c.token # None
              /\ c.token \in DOMAIN tokens
              /\ Revoked(c.token)
              /\ Sessions!Issue(s, Session(c.token).user, c.token)
<1>. DEFINE c == call[r]
<1>1. c \in InsertCall /\ r \in DOMAIN call
  BY StepTypes DEF Insert, At, IInv, TypeOK
<1>2. PICK s \in Tokens \ DOMAIN tokens, at \in Int : Adding(s, NewToken(c, at))
  BY DEF Insert, Adding
<1>3. Sessions!Issue(s, c.user, c.token)
  BY <1>2, IssueAdds DEF NewToken
<1>4. CASE c.token = None
  BY <1>1, <1>3, <1>4 DEF Sessions!Open, InsertCall
<1>5. CASE c.token # None
  <2>1. c.token \in DOMAIN tokens /\ Revoked(c.token) /\ c.user = tokens[c.token].user
    BY <1>1, <1>5 DEF Insert, At, IInv, RotationBurnsFirst, CopiesAgree, Agrees
  <2>. QED  BY <1>2, <1>3, <1>5, <2>1 DEF Session
<1>. QED  BY <1>4, <1>5
-----------------------------------------------------------------------------
(* Whatever overlaps, is lost or dies, ADR 0014's sessions are kept in     *)
(* this much: nothing that was used comes back to life, and a token is     *)
(* issued by a login or for one already used, of the same user.            *)
THEOREM RefinesLooseSessions == Spec => ImplementsLooseSessions
<1>1. Init => Sessions!Init
  BY DEF Init, Sessions!Init, Session
<1>2. ASSUME IInv, NEW r \in Requests, Revoke(r)
      PROVE  Sessions!LooseNext
  <2>. DEFINE p == call[r].token
  <2>1. p \in DOMAIN tokens
    BY <1>2 DEF Revoke, At, IInv, RotationBurnsFirst, CopiesAgree, Agrees
  <2>2. PICK reason \in Reasons : tokens' = Mark(p, reason)
    BY <1>2 DEF Revoke, RevokeRotated, RevokeLoggedOut, Reasons
  <2>. HIDE DEF p
  <2>3. Sessions!Spend(p)
    <3>1. /\ State(tokens'[p]) \in {"rotated", "ended"}
          /\ State(tokens[p]) = "ended" => State(tokens'[p]) = "ended"
          /\ Sessions!Become({p}, State(tokens'[p]))
      BY <1>2, <2>1, <2>2, MarkSpends DEF IInv, TypeOK
    <3>2. Session(p).state = State(tokens[p])
      BY DEF Session
    <3>. QED  BY <2>1, <3>1, <3>2 DEF Sessions!Spend
  <2>4. p \in Tokens
    BY <1>2, <2>1 DEF IInv, TypeOK, TableOK
  <2>. QED  BY <2>3, <2>4 DEF Sessions!LooseNext
<1>3. ASSUME IInv, NEW r \in Requests, RevokeAll(r)
      PROVE  Sessions!LooseNext
  BY <1>3, RevokeAllEnds DEF Sessions!LooseNext
<1>4. ASSUME IInv, NEW r \in Requests, Insert(r)
      PROVE  Sessions!LooseNext
  <2>1. PICK s \in Tokens : LET c == call[r] IN
          \/ Sessions!Open(s)
          \/ /\ c.token # None
             /\ c.token \in DOMAIN tokens
             /\ Revoked(c.token)
             /\ Sessions!Issue(s, Session(c.token).user, c.token)
    BY <1>4, InsertIssues
  <2>2. CASE Sessions!Open(s)
    BY <2>1, <2>2 DEF Sessions!LooseNext
  <2>3. ASSUME NEW p \in DOMAIN tokens, Revoked(p), Sessions!Issue(s, Session(p).user, p)
        PROVE  Sessions!LooseNext
    <3>1. Sessions!SucceedLate(p, s)
      BY <2>3 DEF Sessions!SucceedLate, Session, State, Revoked
    <3>2. p \in Tokens
      BY <1>4, <2>3 DEF IInv, TypeOK, TableOK
    <3>. QED  BY <3>1, <3>2 DEF Sessions!LooseNext
  <2>. QED  BY <2>1, <2>2, <2>3
<1>5. IInv /\ [Next]_vars => [Sessions!LooseNext]_(Sessions!vars)
  BY <1>2, <1>3, <1>4, OnlyThreeWrite, SameSessions
<1>. QED
  BY <1>1, <1>5, Invariance, PTL DEF Spec, ImplementsLooseSessions, Sessions!LooseSpec

(* However many requests overlap, only one that acts on a row updated      *)
(* since it read it breaks ADR 0014's sessions: any other update is of a   *)
(* live token, and any other insert opens a session or succeeds a rotated  *)
(* token that has no successor.                                            *)
THEOREM OnlyStaleRequestsBreakSessions == Spec => OnlyStaleStepsBreakSessions
<1>. DEFINE Sound == \/ [Sessions!Next]_(Sessions!vars)
                     \/ \E r \in Requests : Stale(r) /\ ~Waits(r)
<1>1. ASSUME IInv, History, NEW r \in Requests, Revoke(r), ~Stale(r)
      PROVE  Sessions!Next
  <2>. DEFINE p == call[r].token
  <2>1. PICK reason \in {"rotated", "logout"} : p \in DOMAIN tokens /\ tokens' = Mark(p, reason)
    BY <1>1, RevokesOne
  <2>2. tokens[p].writes = call[r].seen /\ call[r].seen = 0
    BY <1>1, <2>1 DEF Stale, Revoke, At, History, AllKnow, Knows
  <2>3. tokens[p].revokedAt = {}
    BY <1>1, <2>1, <2>2 DEF History, AllCounted, Counted
  <2>. HIDE DEF p
  <2>4. /\ tokens'[p].revokedAt = tokens[p].revokedAt \cup {reason}
        /\ Sessions!Become({p}, State(tokens'[p]))
    BY <1>1, <2>1, MarkSpends DEF Reasons, IInv, TypeOK
  <2>5. State(tokens'[p]) = IF reason = "rotated" THEN "rotated" ELSE "ended"
    BY <2>3, <2>4 DEF State
  <2>6. Session(p).state = "live"
    BY <2>3 DEF Session, State
  <2>7. Sessions!Rotate(p) \/ Sessions!Logout(p)
    BY <2>1, <2>4, <2>5, <2>6 DEF Sessions!Rotate, Sessions!Logout
  <2>8. p \in Tokens
    BY <1>1, <2>1 DEF IInv, TypeOK, TableOK
  <2>. QED  BY <2>7, <2>8 DEF Sessions!Next
<1>2. ASSUME IInv, NEW r \in Requests, RevokeAll(r)
      PROVE  Sessions!Next
  BY <1>2, RevokeAllEnds DEF Sessions!Next
<1>3. ASSUME IInv, History, NEW r \in Requests, Insert(r), ~Stale(r)
      PROVE  Sessions!Next
  <2>. DEFINE p == call[r].token
  <2>1. PICK s \in Tokens :
          \/ Sessions!Open(s)
          \/ p # None /\ p \in DOMAIN tokens /\ Sessions!Issue(s, Session(p).user, p)
    BY <1>3, InsertIssues
  <2>2. p # None /\ p \in DOMAIN tokens => tokens[p].writes = call[r].seen
    BY <1>3 DEF Stale, Insert
  <2>3. p # None /\ p \in DOMAIN tokens => call[r].seen = 1
    BY <1>3 DEF Insert, At, History, AllKnow, Knows
  <2>4. p # None /\ p \in DOMAIN tokens => /\ tokens[p].revokedAt = {"rotated"}
                                           /\ Successors(p) = {}
    BY <1>3, <2>2, <2>3 DEF Insert, Inserting, History, AllAlone, Alone
  <2>. HIDE DEF p
  <2>5. CASE Sessions!Open(s)
    BY <2>1, <2>5 DEF Sessions!Next
  <2>6. CASE p # None /\ p \in DOMAIN tokens /\ Sessions!Issue(s, Session(p).user, p)
    <3>1. Session(p).state = "rotated" /\ \A i \in DOMAIN tokens : Session(i).from # p
      BY <2>4, <2>6 DEF Session, State, Successors
    <3>2. Sessions!Succeed(p, s)
      BY <2>6, <3>1 DEF Sessions!Succeed
    <3>3. p \in Tokens
      BY <1>3, <2>6 DEF IInv, TypeOK, TableOK
    <3>. QED  BY <3>2, <3>3 DEF Sessions!Next
  <2>. QED  BY <2>1, <2>5, <2>6
<1>4. ASSUME NEW r \in Requests, Revoke(r) \/ Insert(r)
      PROVE  ~Waits(r)
  <2>1. ASSUME NEW a, Finish(r, a)
        PROVE  ~Waits(r)
    BY <2>1 DEF Finish, Waits
  <2>2. ASSUME NEW c, Goto(r, c), c.step # call[r].step
        PROVE  ~Waits(r)
    BY <2>2 DEF Goto, Waits
  <2>3. CASE Revoke(r)
    BY <2>1, <2>2, <2>3 DEF Revoke, RevokeRotated, RevokeLoggedOut, At
  <2>4. CASE Insert(r)
    BY <2>2, <2>4 DEF Insert, At
  <2>. QED  BY <1>4, <2>3, <2>4
<1>. HIDE DEF Sound
<1>5. IInv /\ History /\ [Next]_vars => [tokens' # tokens => Sound]_vars
  BY <1>1, <1>2, <1>3, <1>4, OnlyThreeWrite DEF Sound
<1>. QED
  BY <1>5, HistoryInvariance, PTL DEF Spec, OnlyStaleStepsBreakSessions, Sound

(* So the sessions are ADR 0014's in every behaviour in which no request   *)
(* is overtaken, however many there are and whatever is lost.              *)
COROLLARY OvertakenByNone ==
  Spec /\ [][\A r \in Requests : Stale(r) => Waits(r)]_vars => Sessions!Spec
<1>1. Init => Sessions!Init
  BY DEF Init, Sessions!Init, Session
<1>2. [tokens' # tokens => \/ [Sessions!Next]_(Sessions!vars)
                          \/ \E r \in Requests : Stale(r) /\ ~Waits(r)]_vars
        /\ [\A r \in Requests : Stale(r) => Waits(r)]_vars
        => [Sessions!Next]_(Sessions!vars)
  BY SameSessions DEF vars
<1>. QED
  BY <1>1, <1>2, OnlyStaleRequestsBreakSessions, PTL
     DEF Spec, OnlyStaleStepsBreakSessions, Sessions!Spec
=============================================================================
