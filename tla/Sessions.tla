------------------------------ MODULE Sessions ------------------------------
(***************************************************************************)
(* What ADR 14 promises of refresh tokens, with no requests, no copies, no *)
(* clock and no crashes: a session is opened by a login, its token is used *)
(* up by one rotation, succeeded by one token, and what a logout or reuse  *)
(* detection has ended is succeeded by none.                               *)
(* LooseSpec is what remains of it when requests overlap: a used token     *)
(* never comes back, and only a used one is succeeded, but it may be used  *)
(* again, or ended between its use and its successor.                      *)
(***************************************************************************)
CONSTANTS Users, Tokens, None

VARIABLE session   \* token -> [user, from: the token it succeeds, state]

vars == <<session>>

Init == session = [t \in {} |-> t]

Issue(t, u, parent) ==
  /\ t \in Tokens \ DOMAIN session
  /\ session' = [i \in DOMAIN session \cup {t} |->
                   IF i = t THEN [user |-> u, from |-> parent, state |-> "live"]
                   ELSE session[i]]

Become(T, state) ==
  session' = [t \in DOMAIN session |->
                IF t \in T THEN [session[t] EXCEPT !.state = state] ELSE session[t]]

Live(u) == {t \in DOMAIN session : session[t].user = u /\ session[t].state = "live"}

Open(t) == \E u \in Users : Issue(t, u, None)

Rotate(t) ==
  /\ t \in DOMAIN session
  /\ session[t].state = "live"
  /\ Become({t}, "rotated")

Succeed(t, s) ==
  /\ t \in DOMAIN session
  /\ session[t].state = "rotated"
  /\ \A i \in DOMAIN session : session[i].from # t
  /\ Issue(s, session[t].user, t)

Logout(t) ==
  /\ t \in DOMAIN session
  /\ session[t].state = "live"
  /\ Become({t}, "ended")

EndAll(u) == Become(Live(u), "ended")

Next ==
  \/ \E t \in Tokens : Open(t) \/ Rotate(t) \/ Logout(t)
  \/ \E t, s \in Tokens : Succeed(t, s)
  \/ \E u \in Users : EndAll(u)

Spec == Init /\ [][Next]_vars
-----------------------------------------------------------------------------
(* A used token is used again, or ended as well. *)
Spend(t) ==
  /\ t \in DOMAIN session
  /\ \E state \in {"rotated", "ended"} :
       /\ session[t].state = "ended" => state = "ended"
       /\ Become({t}, state)

SucceedLate(t, s) ==
  /\ t \in DOMAIN session
  /\ session[t].state # "live"
  /\ Issue(s, session[t].user, t)

LooseNext ==
  \/ \E t \in Tokens : Open(t) \/ Spend(t)
  \/ \E t, s \in Tokens : SucceedLate(t, s)
  \/ \E u \in Users : EndAll(u)

LooseSpec == Init /\ [][LooseNext]_vars
=============================================================================
