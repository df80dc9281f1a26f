---------------------- MODULE ReservationServiceProofs ----------------------
(***************************************************************************)
(* Theorems about ReservationService, for every value of its constants.    *)
(*                                                                         *)
(* The inductive invariant is IInv: the types, no overlap, and CopiesAgree, *)
(* without which a step could not be shown to keep a row's parties: it is  *)
(* what says that the copy a request is about to write is a copy of the    *)
(* row it overwrites.  What the use cases promise needs CopiesKnown too:   *)
(* how the copy came from the row as its request read it.                  *)
(***************************************************************************)
EXTENDS ReservationService, ErrorsProofs, TLAPS

IInv == TypeOK /\ NoOverlap /\ CopiesAgree

-----------------------------------------------------------------------------
(* What the helpers do to the requests in flight. *)

(* Moving a request to a well-formed record keeps call well-formed. *)
LEMMA GotoTypes ==
  ASSUME CallsOK, NEW r \in Requests, NEW c \in Calls, Goto(r, c)
  PROVE  CallsOK' /\ answer' \in Answers
BY DEF CallsOK, Goto, Answers

(* Answering a request keeps call and answer well-formed. *)
LEMMA FinishTypes ==
  ASSUME CallsOK, NEW r \in Requests, NEW a \in Answers, Finish(r, a)
  PROVE  CallsOK' /\ answer' \in Answers
BY DEF CallsOK, Finish

(* The entity's rules answer with one of the errors, and keep the type. *)
LEMMA EntityTypes ==
  ASSUME NEW c \in DecideCall, NEW t \in Int, now = t
  PROVE  /\ Refused(c) \in Answers
         /\ Changed(c) \in Entity
<1>1. Refused(c) \in Answers
  BY DEF Refused, CancelRefusal, RescheduleRefusal, Refusal, Answers
<1>2. c.to[1] \in Times /\ c.to[2] \in Times
  BY DEF DecideCall, Times
<1>3. Changed(c) \in Entity
  BY <1>2 DEF DecideCall, Changed, Cancelled, Rescheduled, Entity, Statuses
<1>. QED  BY <1>1, <1>3

(* The mapper loses nothing of a stored row. *)
LEMMA MapperKeepsRow ==
  ASSUME TableOK, NEW id \in DOMAIN reservations
  PROVE  ToDomain(reservations[id]) = reservations[id]
BY DEF TableOK, Entity, ToDomain

(* What the table answers an upsert, by name. *)
LEMMA VerdictIs ==
  ASSUME NEW table, NEW id, NEW e
  PROVE  Verdict(table, id, e) =
           IF Excluded(table, id, e) THEN "Conflict"
           ELSE IF id \notin DOMAIN table /\ e.user \notin Accounts THEN "UserNotFound"
           ELSE IF id \notin DOMAIN table /\ e.barber \notin Barbers THEN "BarberNotFound"
           ELSE "ok"
BY ReservationRefusals DEF Verdict

LEMMA VerdictTypes ==
  ASSUME NEW table, NEW id, NEW e
  PROVE  Verdict(table, id, e) \in Answers
BY VerdictIs DEF Answers

(* What an accepted upsert met. *)
LEMMA VerdictOk ==
  ASSUME NEW table, NEW id, NEW e, Verdict(table, id, e) = "ok"
  PROVE  /\ ~Excluded(table, id, e)
         /\ id \in DOMAIN table \/ e.barber \in Barbers
<1>1. Excluded(table, id, e) => Verdict(table, id, e) = "Conflict"
  BY VerdictIs
<1>2. id \notin DOMAIN table /\ e.barber \notin Barbers => Verdict(table, id, e) # "ok"
  BY VerdictIs
<1>. QED  BY <1>1, <1>2

(* An upsert of an entity keeps the table well-formed. *)
LEMMA UpsertTypes ==
  ASSUME TableOK, NEW id \in Ids, NEW e \in Entity, reservations' = Upsert(reservations, id, e)
  PROVE  TableOK'
BY DEF TableOK, Upsert

(* Answering a request, with the table left alone, disturbs no other copy. *)
LEMMA FinishKeepsCopies ==
  ASSUME CopiesAgree, NEW r, NEW a, Finish(r, a), reservations' = reservations
  PROVE  CopiesAgree'
BY DEF CopiesAgree, StoredRows, InFlightCopies, SoundCopy, SameParties, Finish

(* An accepted upsert clashes with no other row, so it brings no overlap.  *)
LEMMA UpsertKeepsNoOverlap ==
  ASSUME NoOverlap, NEW id, NEW e, Verdict(reservations, id, e) = "ok",
         reservations' = Upsert(reservations, id, e)
  PROVE  NoOverlap'
<1>1. \A i \in DOMAIN reservations \ {id} : ~Clash(e, reservations[i])
  BY VerdictOk DEF Excluded
<1>2. ASSUME NEW i \in DOMAIN reservations', NEW j \in DOMAIN reservations', i # j
      PROVE  ~Clash(reservations'[i], reservations'[j])
  <2>1. CASE i = id
    BY <1>1, <1>2, <2>1 DEF Upsert
  <2>2. CASE j = id
    BY <1>1, <1>2, <2>2 DEF Upsert, Clash, SamePlace
  <2>3. CASE i # id /\ j # id
    BY <1>2, <2>3 DEF Upsert, NoOverlap
  <2>. QED  BY <2>1, <2>2, <2>3
<1>. QED  BY <1>2 DEF NoOverlap
-----------------------------------------------------------------------------
(* Every step keeps the types: the only type error a step could make is in *)
(* the record it leaves for a request or the row it writes.                *)
LEMMA TypeStep ==
  ASSUME TypeOK, [Next]_vars
  PROVE  TypeOK'
<1>. USE DEF TypeOK
<1>1. CASE UNCHANGED vars
  BY <1>1 DEF vars, TableOK, CallsOK
<1>2. CASE Tick
  BY <1>2, ServiceAssumption DEF Tick, TableOK, CallsOK, Answers
<1>3. ASSUME NEW r \in Requests, Create(r)
      PROVE  TypeOK'
  <2>0. TableOK' /\ now' \in 0..Horizon
    BY <1>3 DEF Create, TableOK
  <2>1. CASE Finish(r, "InvalidTime")
    BY <2>0, <2>1, FinishTypes DEF Answers
  <2>2. ASSUME NEW actor \in Accounts, NEW barber \in AskedBarbers, NEW p \in Periods,
               NEW id \in FreshIds,
               Goto(r, [step |-> "save", op |-> "create", actor |-> actor, id |-> id,
                        read |-> NewReservation(actor, barber, p),
                        entity |-> NewReservation(actor, barber, p)])
        PROVE  TypeOK'
    <3>1. NewReservation(actor, barber, p) \in Entity
      BY DEF NewReservation, Entity, Statuses, Times
    <3>2. [step |-> "save", op |-> "create", actor |-> actor, id |-> id,
           read |-> NewReservation(actor, barber, p),
           entity |-> NewReservation(actor, barber, p)] \in Calls
      BY <3>1 DEF Calls, SaveCall, FreshIds
    <3>. QED  BY <2>0, <2>2, <3>2, GotoTypes
  <2>. QED  BY <1>3, <2>1, <2>2 DEF Create
<1>4. ASSUME NEW r \in Requests, Call(r)
      PROVE  TypeOK'
  <2>0. TableOK' /\ now' \in 0..Horizon
    BY <1>4 DEF Call, TableOK
  <2>1. PICK c \in LoadCall : Goto(r, c)
    BY <1>4 DEF Call, LoadCall
  <2>. QED  BY <2>0, <2>1, GotoTypes DEF Calls
<1>5. ASSUME NEW r \in Requests, Load(r)
      PROVE  TypeOK'
  <2>0. TableOK' /\ now' \in 0..Horizon
    BY <1>5 DEF Load, TableOK
  <2>1. call[r] \in LoadCall
    BY <1>5 DEF Load, At, CallsOK, Calls, LoadCall, DecideCall, SaveCall
  <2>2. CASE Finish(r, "NotFound")
    BY <2>0, <2>2, FinishTypes DEF Answers
  <2>3. CASE /\ call[r].id \in DOMAIN reservations
             /\ Goto(r, [step |-> "decide", op |-> call[r].op, actor |-> call[r].actor,
                         id |-> call[r].id, to |-> call[r].to, read |-> reservations[call[r].id],
                         entity |-> ToDomain(reservations[call[r].id])])
    <3>1. [step |-> "decide", op |-> call[r].op, actor |-> call[r].actor,
           id |-> call[r].id, to |-> call[r].to, read |-> reservations[call[r].id],
           entity |-> ToDomain(reservations[call[r].id])] \in Calls
      BY <2>1, <2>3, MapperKeepsRow DEF TableOK, Calls, LoadCall, DecideCall
    <3>. QED  BY <2>0, <2>3, <3>1, GotoTypes
  <2>. QED  BY <1>5, <2>2, <2>3 DEF Load
<1>6. ASSUME NEW r \in Requests, Decide(r)
      PROVE  TypeOK'
  <2>0. TableOK' /\ now' \in 0..Horizon /\ now \in Int
    BY <1>6, ServiceAssumption DEF Decide, TableOK
  <2>1. call[r] \in DecideCall
    BY <1>6 DEF Decide, At, CallsOK, Calls, LoadCall, DecideCall, SaveCall
  <2>2. Refused(call[r]) \in Answers /\ Changed(call[r]) \in Entity
    BY <2>0, <2>1, EntityTypes
  <2>3. CASE Finish(r, Refused(call[r]))
    BY <2>0, <2>2, <2>3, FinishTypes
  <2>4. CASE Goto(r, [step |-> "save", op |-> call[r].op, actor |-> call[r].actor,
                      id |-> call[r].id, read |-> call[r].read, entity |-> Changed(call[r])])
    <3>1. [step |-> "save", op |-> call[r].op, actor |-> call[r].actor,
           id |-> call[r].id, read |-> call[r].read, entity |-> Changed(call[r])] \in Calls
      BY <2>1, <2>2 DEF Calls, DecideCall, SaveCall
    <3>. QED  BY <2>0, <2>4, <3>1, GotoTypes
  <2>. QED  BY <1>6, <2>3, <2>4 DEF Decide
<1>7. ASSUME NEW r \in Requests, Commit(r)
      PROVE  TypeOK'
  <2>1. call[r] \in SaveCall
    BY <1>7 DEF Commit, At, CallsOK, Calls, LoadCall, DecideCall, SaveCall
  <2>2. TableOK'
    BY <1>7, <2>1, UpsertTypes DEF Commit, SaveCall
  <2>3. CallsOK' /\ answer' \in Answers
    BY <1>7, FinishTypes, LostNames DEF Commit, Answers
  <2>. QED  BY <1>7, <2>2, <2>3 DEF Commit
<1>8. ASSUME NEW r \in Requests, NEW a \in Answers, Finish(r, a), UNCHANGED <<reservations, now>>
      PROVE  TypeOK'
  BY <1>8, FinishTypes DEF TableOK
<1>9. ASSUME NEW r \in Requests, Reject(r) \/ DeadlockVictim(r) \/ StatementLost(r) \/ Die(r)
      PROVE  TypeOK'
  BY <1>8, <1>9, VerdictTypes, LostNames, ReservationRefusals
     DEF Reject, DeadlockVictim, StatementLost, Die, Answers
<1>. QED
  BY <1>1, <1>2, <1>3, <1>4, <1>5, <1>6, <1>7, <1>9 DEF Next, Serve
-----------------------------------------------------------------------------
(* Only an accepted upsert touches the table. *)
LEMMA OnlyCommitWrites ==
  ASSUME [Next]_vars
  PROVE  reservations' = reservations \/ \E r \in Requests : Commit(r)
BY DEF Next, Serve, vars, Tick, Create, Call, Load, Decide, Reject, DeadlockVictim,
       StatementLost, Die

LEMMA NoOverlapStep ==
  ASSUME NoOverlap, [Next]_vars
  PROVE  NoOverlap'
<1>1. CASE reservations' = reservations
  BY <1>1 DEF NoOverlap
<1>2. ASSUME NEW r \in Requests, Commit(r)
      PROVE  NoOverlap'
  BY <1>2, UpsertKeepsNoOverlap DEF Commit
<1>. QED  BY <1>1, <1>2, OnlyCommitWrites

(* A step keeps every copy in flight a copy of its row.                    *)
LEMMA CopiesStep ==
  ASSUME TypeOK, CopiesAgree, [Next]_vars
  PROVE  CopiesAgree'
<1>. USE DEF CopiesAgree
<1>1. CASE UNCHANGED vars \/ Tick
  BY <1>1 DEF vars, Tick, StoredRows, InFlightCopies, SoundCopy, SameParties
<1>2. ASSUME NEW r \in Requests, Create(r)
      PROVE  CopiesAgree'
  <2>0. StoredRows'
    BY <1>2 DEF Create, StoredRows
  <2>1. CASE Finish(r, "InvalidTime")
    BY <1>2, <2>1, FinishKeepsCopies DEF Create
  <2>2. ASSUME NEW actor \in Accounts, NEW barber \in AskedBarbers, NEW p \in Periods,
               ValidPeriod(p), NEW id \in FreshIds,
               Goto(r, [step |-> "save", op |-> "create", actor |-> actor, id |-> id,
                        read |-> NewReservation(actor, barber, p),
                        entity |-> NewReservation(actor, barber, p)])
        PROVE  InFlightCopies'
    <3>1. SoundCopy(r)'
      BY <1>2, <2>2 DEF Create, Goto, SoundCopy, NewReservation, ValidPeriod, FreshIds
    <3>2. ASSUME NEW q \in DOMAIN call, q # r, call[q].step # "load"
          PROVE  SoundCopy(q)'
      BY <1>2, <2>2, <3>2
         DEF Create, Goto, FreshIds, InFlightCopies, SoundCopy, SameParties
    <3>. QED  BY <2>2, <3>1, <3>2 DEF Goto, InFlightCopies
  <2>. QED  BY <1>2, <2>0, <2>1, <2>2 DEF Create
<1>3. ASSUME NEW r \in Requests, Call(r)
      PROVE  CopiesAgree'
  <2>1. PICK c \in LoadCall : Goto(r, c)
    BY <1>3 DEF Call, LoadCall
  <2>. QED
    BY <1>3, <2>1 DEF Call, LoadCall, Goto, StoredRows, InFlightCopies, SoundCopy, SameParties
<1>4. ASSUME NEW r \in Requests, Load(r)
      PROVE  CopiesAgree'
  <2>1. call[r] \in LoadCall
    BY <1>4 DEF Load, At, TypeOK, CallsOK, Calls, LoadCall, DecideCall, SaveCall
  <2>2. CASE Finish(r, "NotFound")
    BY <1>4, <2>2, FinishKeepsCopies DEF Load
  <2>3. CASE /\ call[r].id \in DOMAIN reservations
             /\ Goto(r, [step |-> "decide", op |-> call[r].op, actor |-> call[r].actor,
                         id |-> call[r].id, to |-> call[r].to, read |-> reservations[call[r].id],
                         entity |-> ToDomain(reservations[call[r].id])])
    BY <1>4, <2>1, <2>3, MapperKeepsRow
       DEF TypeOK, Load, LoadCall, Goto, StoredRows, InFlightCopies, SoundCopy, SameParties
  <2>. QED  BY <1>4, <2>2, <2>3 DEF Load
<1>5. ASSUME NEW r \in Requests, Decide(r)
      PROVE  CopiesAgree'
  <2>1. call[r] \in DecideCall /\ r \in DOMAIN call
    BY <1>5 DEF Decide, At, TypeOK, CallsOK, Calls, LoadCall, DecideCall, SaveCall
  <2>2. CASE Finish(r, Refused(call[r]))
    BY <1>5, <2>2, FinishKeepsCopies DEF Decide
  <2>3. CASE /\ Refused(call[r]) = "ok"
             /\ Goto(r, [step |-> "save", op |-> call[r].op, actor |-> call[r].actor,
                         id |-> call[r].id, read |-> call[r].read, entity |-> Changed(call[r])])
    <3>1. SoundCopy(r)
      BY <2>1 DEF InFlightCopies, DecideCall
    <3>2. /\ SameParties(Changed(call[r]), call[r].entity)
          /\ Changed(call[r]).start < Changed(call[r]).end
          /\ call[r].actor \in {call[r].entity.user, call[r].entity.barber}
          /\ call[r].op = "cancel" => Changed(call[r]).status = "cancelled"
      BY <2>1, <2>3, <3>1
         DEF Refused, Changed, CancelRefusal, RescheduleRefusal, Refusal, ValidPeriod,
             Cancelled, Rescheduled, SameParties, DecideCall, Entity, SoundCopy
    <3>3. SoundCopy(r)'
      BY <1>5, <2>1, <2>3, <3>1, <3>2 DEF Decide, DecideCall, Goto, SoundCopy, SameParties
    <3>4. ASSUME NEW q \in DOMAIN call, q # r, call[q].step # "load"
          PROVE  SoundCopy(q)'
      BY <1>5, <2>1, <2>3, <3>4
         DEF Decide, DecideCall, Goto, InFlightCopies, SoundCopy, SameParties
    <3>. QED  BY <1>5, <2>3, <3>3, <3>4 DEF Decide, Goto, StoredRows, InFlightCopies
  <2>. QED  BY <1>5, <2>2, <2>3 DEF Decide
<1>6. ASSUME NEW r \in Requests, Commit(r)
      PROVE  CopiesAgree'
  <2>1. call[r] \in SaveCall /\ r \in DOMAIN call
    BY <1>6 DEF Commit, At, TypeOK, CallsOK, Calls, LoadCall, DecideCall, SaveCall
  <2>2. SoundCopy(r)
    BY <2>1 DEF InFlightCopies, SaveCall
  <2>3. StoredRows'
    BY <1>6, <2>1, <2>2, VerdictOk
       DEF Commit, SaveCall, Upsert, SoundCopy, SameParties, StoredRows
  <2>4. ASSUME NEW q \in DOMAIN call, q # r, call[q].step # "load"
        PROVE  SoundCopy(q)'
    BY <1>6, <2>1, <2>2, <2>4
       DEF Commit, SaveCall, Finish, Upsert, InFlightCopies, SoundCopy, SameParties
  <2>. QED  BY <1>6, <2>3, <2>4 DEF Commit, Finish, InFlightCopies
<1>7. ASSUME NEW r \in Requests, Reject(r) \/ DeadlockVictim(r) \/ StatementLost(r) \/ Die(r)
      PROVE  CopiesAgree'
  BY <1>7, FinishKeepsCopies DEF Reject, DeadlockVictim, StatementLost, Die
<1>. QED
  BY <1>1, <1>2, <1>3, <1>4, <1>5, <1>6, <1>7 DEF Next, Serve
-----------------------------------------------------------------------------
(* The invariant holds at start and every step keeps it. *)
THEOREM Invariance == Spec => []IInv
<1>1. Init => IInv
  BY ServiceAssumption
     DEF Init, IInv, TypeOK, TableOK, CallsOK, Answers, NoOverlap, CopiesAgree, StoredRows,
         InFlightCopies
<1>2. IInv /\ [Next]_vars => IInv'
  BY TypeStep, NoOverlapStep, CopiesStep DEF IInv
<1>. QED  BY <1>1, <1>2, PTL DEF Spec

(* Every reachable state is well typed. *)
THEOREM TypeCorrect == Spec => []TypeOK
<1>1. IInv => TypeOK
  BY DEF IInv
<1>. QED  BY <1>1, Invariance, PTL

(* A barber is never double booked, for any number of requests, accounts,  *)
(* periods and ids: old copies written late cannot get past the constraint. *)
THEOREM NeverDoubleBooked == Spec => []NoOverlap
<1>1. IInv => NoOverlap
  BY DEF IInv
<1>. QED  BY <1>1, Invariance, PTL

(* An upsert that is about to run meets nothing the rules did not foresee. *)
(* A cancelled row takes no room, so nothing clashes with it; a row a copy *)
(* was taken from is still there, so no foreign key is checked again.      *)
LEMMA ForeseenByInvariant ==
  ASSUME IInv
  PROVE  OnlyForeseenRefusals
<1>. SUFFICES ASSUME NEW r \in Requests, At(r, "save")
              PROVE  Verdict(reservations, call[r].id, call[r].entity) \in Foreseen(call[r].op)
  BY DEF OnlyForeseenRefusals
<1>. DEFINE id == call[r].id
            e == call[r].entity
<1>1. call[r] \in SaveCall /\ r \in DOMAIN call
  BY DEF At, IInv, TypeOK, CallsOK, Calls, LoadCall, DecideCall, SaveCall
<1>2. SoundCopy(r)
  BY <1>1 DEF IInv, CopiesAgree, InFlightCopies, SaveCall
<1>3. CASE call[r].op = "create"
  <2>1. e.user \in Accounts
    BY <1>1 DEF SaveCall, Entity
  <2>2. Verdict(reservations, id, e) \in {"ok", "Conflict", "BarberNotFound"}
    BY <2>1, VerdictIs
  <2>. QED  BY <1>3, <2>2 DEF Foreseen
<1>4. CASE call[r].op # "create"
  <2>1. id \in DOMAIN reservations
    BY <1>2, <1>4 DEF SoundCopy
  <2>2. Verdict(reservations, id, e) = IF Excluded(reservations, id, e) THEN "Conflict" ELSE "ok"
    BY <2>1, VerdictIs
  <2>3. CASE call[r].op = "reschedule"
    BY <2>2, <2>3 DEF Foreseen
  <2>4. CASE call[r].op = "cancel"
    <3>1. e.status = "cancelled"
      BY <1>2, <2>4 DEF SoundCopy, At
    <3>2. ~Excluded(reservations, id, e)
      BY <3>1 DEF Excluded, Clash
    <3>. QED  BY <2>2, <2>4, <3>2 DEF Foreseen
  <2>. QED  BY <1>1, <1>4, <2>3, <2>4 DEF SaveCall
<1>. QED  BY <1>3, <1>4

(* The table refuses only what the rules foresee, and by name.             *)
THEOREM RefusalsForeseen == Spec => []OnlyForeseenRefusals
<1>1. IInv => OnlyForeseenRefusals
  BY ForeseenByInvariant
<1>. QED  BY Invariance, <1>1, PTL

(* Only the table answers "conflict": what the entity refuses has other    *)
(* names, and a lost statement others again.                               *)
LEMMA ConflictBy ==
  ASSUME [Next]_vars, NEW r \in DOMAIN call, r \notin DOMAIN call', answer' = "Conflict"
  PROVE  Reject(r) \/ DeadlockVictim(r)
<1>1. ASSUME NEW q, NEW a, Finish(q, a)
      PROVE  q = r /\ a = "Conflict"
  BY <1>1 DEF Finish
<1>2. ASSUME NEW q, NEW c  PROVE ~Goto(q, c)
  BY DEF Goto
<1>3. ~UNCHANGED call
  OBVIOUS
<1>4. "Conflict" \notin {"ok", "none", "NotFound", "InvalidTime", "BadRequest", "ServerError"}
  OBVIOUS
<1>5. ASSUME NEW q \in Requests
      PROVE  ~Create(q) /\ ~Call(q)
  <2>1. ~Create(q)
    <3>1. ~Finish(q, "InvalidTime")
      BY <1>1, <1>4
    <3>. QED  BY <1>2, <3>1 DEF Create
  <2>2. ~Call(q)
    BY <1>2 DEF Call
  <2>. QED  BY <2>1, <2>2
<1>6. ASSUME NEW q \in Requests
      PROVE  ~Load(q) /\ ~Decide(q)
  <2>1. ~Load(q)
    <3>1. ~Finish(q, "NotFound")
      BY <1>1, <1>4
    <3>. QED  BY <1>2, <3>1 DEF Load
  <2>2. ~Finish(q, Refused(call[q]))
    <3>1. Refused(call[q]) # "Conflict"
      BY DEF Refused, CancelRefusal, RescheduleRefusal, Refusal
    <3>. QED  BY <1>1, <3>1
  <2>3. ~Decide(q)
    BY <1>2, <2>2 DEF Decide
  <2>. QED  BY <2>1, <2>3
<1>7. ASSUME NEW q \in Requests
      PROVE  ~Commit(q) /\ ~StatementLost(q) /\ ~Die(q)
  BY <1>1, <1>4, LostNames DEF Commit, StatementLost, Die
<1>8. ASSUME NEW q \in Requests, Reject(q) \/ DeadlockVictim(q)
      PROVE  q = r
  BY <1>1, <1>8 DEF Reject, DeadlockVictim
<1>. QED  BY <1>3, <1>5, <1>6, <1>7, <1>8 DEF Next, Serve, Tick, vars

(* A conflict is answered only for a reason: an active rival, stored or    *)
(* about to be, takes part of the period.                                  *)
THEOREM ConflictsHaveRivals == Spec => ConflictHasRival
<1>1. ASSUME IInv, [Next]_vars, NEW r \in DOMAIN call, r \notin DOMAIN call',
             answer' = "Conflict"
      PROVE  /\ call[r].entity.status = "active"
             /\ \/ \E i \in DOMAIN reservations \ {call[r].id} :
                     /\ reservations[i].status = "active"
                     /\ SamePlace(call[r].entity, reservations[i])
                \/ \E q \in DOMAIN call \ {r} :
                     /\ At(q, "save") /\ call[q].id # call[r].id
                     /\ call[q].entity.status = "active"
                     /\ SamePlace(call[r].entity, call[q].entity)
  <2>1. CASE DeadlockVictim(r)
    BY <2>1 DEF DeadlockVictim, Clash
  <2>2. CASE Reject(r)
    <3>1. Verdict(reservations, call[r].id, call[r].entity) = "Conflict"
      BY <1>1, <2>2 DEF Reject, Finish
    <3>2. Excluded(reservations, call[r].id, call[r].entity)
      BY <3>1, VerdictIs
    <3>. QED  BY <3>2 DEF Excluded, Clash
  <2>. QED  BY <1>1, <2>1, <2>2, ConflictBy
<1>2. IInv /\ [Next]_vars =>
        [\A r \in DOMAIN call :
           (r \notin DOMAIN call' /\ answer' = "Conflict") =>
             LET e == call[r].entity  id == call[r].id IN
             /\ e.status = "active"
             /\ \/ \E i \in DOMAIN reservations \ {id} :
                     /\ reservations[i].status = "active" /\ SamePlace(e, reservations[i])
                \/ \E q \in DOMAIN call \ {r} :
                     /\ At(q, "save") /\ call[q].id # id
                     /\ call[q].entity.status = "active" /\ SamePlace(e, call[q].entity)]_vars
  BY <1>1
<1>. QED  BY <1>2, Invariance, PTL DEF Spec, ConflictHasRival

(* The copies in flight agree with the table on every row's parties.       *)
THEOREM CopiesAlwaysAgree == Spec => []CopiesAgree
<1>1. IInv => CopiesAgree
  BY DEF IInv
<1>. QED  BY <1>1, Invariance, PTL
-----------------------------------------------------------------------------
(* A row keeps its parties for ever, and only one of them changes it.      *)
THEOREM PartiesKept == Spec => OnlyItsPartiesChangeARow
<1>. DEFINE Kept ==
       \A id \in DOMAIN reservations :
         /\ id \in DOMAIN reservations'
         /\ reservations'[id].user = reservations[id].user
         /\ reservations'[id].barber = reservations[id].barber
         /\ reservations'[id] # reservations[id] =>
              \E r \in DOMAIN call : /\ r \notin DOMAIN call' /\ call[r].id = id
                                     /\ call[r].actor \in {reservations[id].user,
                                                           reservations[id].barber}
<1>1. ASSUME IInv, [Next]_vars
      PROVE  Kept
  <2>1. CASE reservations' = reservations
    BY <2>1
  <2>2. ASSUME NEW r \in Requests, Commit(r)
        PROVE  Kept
    <3>1. call[r] \in SaveCall /\ r \in DOMAIN call
      BY <1>1, <2>2 DEF Commit, At, IInv, TypeOK, CallsOK, Calls, LoadCall, DecideCall, SaveCall
    <3>2. SoundCopy(r)
      BY <1>1, <3>1 DEF IInv, CopiesAgree, InFlightCopies, SaveCall
    <3>. QED
      BY <2>2, <3>1, <3>2 DEF Commit, SaveCall, Upsert, Finish, SoundCopy, SameParties
  <2>. QED  BY <1>1, <2>1, <2>2, OnlyCommitWrites
<1>2. IInv /\ [Next]_vars => [Kept]_vars
  BY <1>1
<1>. QED  BY <1>2, Invariance, PTL DEF Spec, OnlyItsPartiesChangeARow

(* Nothing a step does gives row id a new writer, if the row is cancelled  *)
(* or has started: Load finds the row as it is, and the entity's rules     *)
(* refuse such a copy; a new reservation has another id.                   *)
LEMMA NoNewWriter ==
  ASSUME IInv, [Next]_vars, NEW id \in DOMAIN reservations,
         reservations[id].status = "cancelled" \/ reservations[id].start <= now,
         \A r \in Requests : ~HoldsWrite(r, id)
  PROVE  \A r \in Requests : ~HoldsWrite(r, id)'
<1>. USE DEF IInv, TypeOK
<1>0. now \in Int /\ reservations[id].start \in Int
  BY ServiceAssumption DEF TableOK, Entity, Times
<1>1. CASE UNCHANGED vars
  BY <1>1 DEF vars, HoldsWrite
<1>2. CASE Tick
  <2>. SUFFICES ASSUME NEW r \in Requests, HoldsWrite(r, id)'
                PROVE  HoldsWrite(r, id)
    OBVIOUS
  <2>1. call[r].step = "decide" => call[r].entity.start \in Int
    BY <1>2, ServiceAssumption
       DEF Tick, HoldsWrite, CallsOK, Calls, LoadCall, DecideCall, SaveCall, Entity, Times
  <2>. QED  BY <1>0, <1>2, <2>1 DEF Tick, HoldsWrite
<1>3. ASSUME NEW q \in Requests, NEW a, Finish(q, a), UNCHANGED now
      PROVE  \A r \in Requests : ~HoldsWrite(r, id)'
  BY <1>3 DEF Finish, HoldsWrite
<1>4. ASSUME NEW q \in Requests, NEW c, Goto(q, c), UNCHANGED now,
             \/ c.id # id
             \/ c.step = "load"
             \/ c.step = "decide" /\ (c.entity.status # "active" \/ ~(c.entity.start > now))
      PROVE  \A r \in Requests : ~HoldsWrite(r, id)'
  BY <1>4 DEF Goto, HoldsWrite
<1>5. ASSUME NEW q \in Requests, Create(q)
      PROVE  \A r \in Requests : ~HoldsWrite(r, id)'
  <2>1. CASE Finish(q, "InvalidTime")
    BY <1>3, <1>5, <2>1 DEF Create
  <2>2. ASSUME NEW actor \in Accounts, NEW barber \in AskedBarbers, NEW p \in Periods,
               NEW i \in FreshIds,
               Goto(q, [step |-> "save", op |-> "create", actor |-> actor, id |-> i,
                        read |-> NewReservation(actor, barber, p),
                        entity |-> NewReservation(actor, barber, p)])
        PROVE  \A r \in Requests : ~HoldsWrite(r, id)'
    <3>1. i # id
      BY DEF FreshIds
    <3>. QED  BY <1>4, <1>5, <2>2, <3>1 DEF Create
  <2>3. \/ Finish(q, "InvalidTime")
        \/ \E actor \in Accounts, barber \in AskedBarbers, p \in Periods, i \in FreshIds :
             Goto(q, [step |-> "save", op |-> "create", actor |-> actor, id |-> i,
                      read |-> NewReservation(actor, barber, p),
                      entity |-> NewReservation(actor, barber, p)])
    BY <1>5 DEF Create
  <2>. QED  BY <2>1, <2>2, <2>3
<1>6. ASSUME NEW q \in Requests, Call(q)
      PROVE  \A r \in Requests : ~HoldsWrite(r, id)'
  BY <1>4, <1>6 DEF Call
<1>7. ASSUME NEW q \in Requests, Load(q)
      PROVE  \A r \in Requests : ~HoldsWrite(r, id)'
  <2>1. CASE Finish(q, "NotFound")
    BY <1>3, <1>7, <2>1 DEF Load
  <2>2. CASE /\ call[q].id \in DOMAIN reservations
             /\ Goto(q, [step |-> "decide", op |-> call[q].op, actor |-> call[q].actor,
                         id |-> call[q].id, to |-> call[q].to, read |-> reservations[call[q].id],
                         entity |-> ToDomain(reservations[call[q].id])])
    BY <1>0, <1>4, <1>7, <2>2, MapperKeepsRow DEF Load
  <2>. QED  BY <1>7, <2>1, <2>2 DEF Load
<1>8. ASSUME NEW q \in Requests, Decide(q)
      PROVE  \A r \in Requests : ~HoldsWrite(r, id)'
  <2>1. CASE Finish(q, Refused(call[q]))
    BY <1>3, <1>8, <2>1 DEF Decide
  <2>2. CASE /\ Refused(call[q]) = "ok"
             /\ Goto(q, [step |-> "save", op |-> call[q].op, actor |-> call[q].actor,
                         id |-> call[q].id, read |-> call[q].read, entity |-> Changed(call[q])])
    <3>1. call[q] \in DecideCall /\ q \in DOMAIN call
      BY <1>8 DEF Decide, At, CallsOK, Calls, LoadCall, DecideCall, SaveCall
    <3>2. call[q].entity.status = "active" /\ call[q].entity.start > now
      BY <1>0, <2>2, <3>1, ServiceAssumption
         DEF Refused, CancelRefusal, RescheduleRefusal, Refusal, DecideCall, Entity,
             Statuses, Times
    <3>3. call[q].id # id
      BY <3>1, <3>2 DEF HoldsWrite, DecideCall
    <3>. QED  BY <1>4, <1>8, <2>2, <3>3 DEF Decide
  <2>. QED  BY <1>8, <2>1, <2>2 DEF Decide
<1>9. ASSUME NEW q \in Requests,
             Commit(q) \/ Reject(q) \/ DeadlockVictim(q) \/ StatementLost(q) \/ Die(q)
      PROVE  \A r \in Requests : ~HoldsWrite(r, id)'
  BY <1>3, <1>9 DEF Commit, Reject, DeadlockVictim, StatementLost, Die
<1>. QED
  BY <1>1, <1>2, <1>5, <1>6, <1>7, <1>8, <1>9 DEF Next, Serve

(* A row no request can write is left as it is. *)
LEMMA NoWriterNoWrite ==
  ASSUME IInv, [Next]_vars, NEW id \in DOMAIN reservations,
         \A r \in Requests : ~HoldsWrite(r, id)
  PROVE  id \in DOMAIN reservations' /\ reservations'[id] = reservations[id]
<1>1. ASSUME NEW q \in Requests, Commit(q)
      PROVE  id \in DOMAIN reservations' /\ reservations'[id] = reservations[id]
  BY <1>1 DEF Commit, At, HoldsWrite, Upsert
<1>. QED  BY <1>1, OnlyCommitWrites

(* The clock only moves forward. *)
LEMMA ClockStep ==
  ASSUME IInv, [Next]_vars
  PROVE  now \in Int /\ now' \in Int /\ now <= now'
<1>1. now' = now \/ now' = now + 1
  BY DEF Next, Serve, vars, Tick, Create, Call, Load, Decide, Commit, Reject,
         DeadlockVictim, StatementLost, Die
<1>. QED  BY <1>1, ServiceAssumption DEF IInv, TypeOK

(* A cancellation that no earlier reader can undo is final.                *)
THEOREM CancellationsSettle == Spec => CancellationSettles
<1>. DEFINE Final == \A id \in Ids : CancelledForGood(id) =>
                       CancelledForGood(id)' /\ reservations'[id] = reservations[id]
<1>1. ASSUME IInv, [Next]_vars
      PROVE  Final
  BY <1>1, NoNewWriter, NoWriterNoWrite DEF CancelledForGood
<1>2. IInv /\ [Next]_vars => [Final]_vars
  BY <1>1
<1>. QED  BY <1>2, Invariance, PTL DEF Spec, CancellationSettles

(* A started reservation that no write on its way and no copy still ahead  *)
(* of the clock can reach is history.                                      *)
THEOREM HistoryKept == Spec => HistorySettles
<1>. DEFINE Past == \A id \in Ids : StartedForGood(id) =>
                      StartedForGood(id)' /\ reservations'[id] = reservations[id]
<1>1. ASSUME IInv, [Next]_vars, NEW id \in Ids, StartedForGood(id)
      PROVE  StartedForGood(id)' /\ reservations'[id] = reservations[id]
  <2>1. id \in DOMAIN reservations' /\ reservations'[id] = reservations[id]
    BY <1>1, NoWriterNoWrite DEF StartedForGood
  <2>2. reservations[id].start \in Int
    BY <1>1, ServiceAssumption DEF StartedForGood, IInv, TypeOK, TableOK, Entity, Times
  <2>3. reservations[id].start <= now'
    BY <1>1, <2>2, ClockStep DEF StartedForGood
  <2>. QED  BY <1>1, <2>1, <2>3, NoNewWriter DEF StartedForGood
<1>2. IInv /\ [Next]_vars => [Past]_vars
  BY <1>1
<1>. QED  BY <1>2, Invariance, PTL DEF Spec, HistorySettles
-----------------------------------------------------------------------------
(* The write of a create books a new row; any other write amends one.      *)
LEMMA CommitBooksOrAmends ==
  ASSUME IInv, NEW r \in Requests, Commit(r)
  PROVE  Calendar!LooseNext
<1>. DEFINE id == call[r].id
            e == call[r].entity
<1>1. call[r] \in SaveCall /\ r \in DOMAIN call
  BY DEF Commit, At, IInv, TypeOK, CallsOK, Calls, LoadCall, DecideCall, SaveCall
<1>2. SoundCopy(r)
  BY <1>1 DEF IInv, CopiesAgree, InFlightCopies, SaveCall
<1>3. e \in Entity /\ id \in Ids /\ e.start < e.end
  BY <1>1, <1>2 DEF SaveCall, SoundCopy
<1>4. Calendar!Free(id, e) /\ Calendar!Write(id, e)
  BY VerdictOk DEF Commit, Excluded, Upsert, Clash, SamePlace, Calendar!Free, Calendar!Overlap,
                   Calendar!Write
<1>5. CASE id \notin DOMAIN reservations /\ e.status = "active"
  <2>1. e \in Calendar!Reservations
    BY <1>3, <1>5, VerdictOk
       DEF Commit, Entity, Statuses, Calendar!Reservations
  <2>. QED  BY <1>3, <1>4, <1>5, <2>1 DEF Calendar!Book, Calendar!LooseNext
<1>6. CASE id \in DOMAIN reservations
  <2>1. reservations[id] \in Entity
    BY <1>6 DEF IInv, TypeOK, TableOK
  <2>2. SameParties(e, reservations[id])
    BY <1>1, <1>2, <1>6 DEF SoundCopy, SaveCall
  <2>3. e = [reservations[id] EXCEPT !.start = e.start, !.end = e.end, !.status = e.status]
    BY <1>3, <2>1, <2>2 DEF SameParties, Entity
  <2>4. e.start \in Times /\ e.end \in Times /\ e.status \in {"active", "cancelled"}
    BY <1>3 DEF Entity, Statuses
  <2>5. Calendar!Change(id, e.start, e.end, e.status)
    BY <1>3, <1>4, <2>3 DEF Calendar!Change
  <2>. QED  BY <1>3, <1>6, <2>4, <2>5 DEF Calendar!Amend, Calendar!LooseNext
<1>7. id \notin DOMAIN reservations => e.status = "active"
  BY <1>1, <1>2 DEF SoundCopy, SaveCall
<1>. QED  BY <1>5, <1>6, <1>7

(* Whatever the requests do to each other, the table is a loose calendar:  *)
(* every step of the service books or amends one reservation, or none.     *)
THEOREM RefinesLooseCalendar == Spec => ImplementsLooseCalendar
<1>1. Init => Calendar!Init
  BY DEF Init, Calendar!Init
<1>2. ASSUME IInv, [Next]_vars
      PROVE  [Calendar!LooseNext]_reservations
  BY <1>2, OnlyCommitWrites, CommitBooksOrAmends
<1>3. IInv /\ [Next]_vars => [Calendar!LooseNext]_(Calendar!vars)
  BY <1>2 DEF Calendar!vars
<1>. QED
  BY <1>1, <1>3, Invariance, PTL DEF Spec, ImplementsLooseCalendar, Calendar!LooseSpec
-----------------------------------------------------------------------------
(* What a request knows of its row, whatever the others do to the table    *)
(* meanwhile: before the rules its copy is the row as it read it; after    *)
(* them it was active then, and the copy is its cancellation or a move.    *)
Known(c) ==
  /\ c.step = "decide" => c.entity = c.read
  /\ c.step = "save" /\ c.op # "create" =>
       /\ c.read.status = "active"
       /\ \/ c.entity = Cancelled(c.read)
          \/ c.entity = [c.read EXCEPT !.start = c.entity.start, !.end = c.entity.end]

CopiesKnown == \A r \in DOMAIN call : Known(call[r])

LEMMA KnownStep ==
  ASSUME IInv, CopiesKnown, [Next]_vars
  PROVE  CopiesKnown'
<1>1. CASE UNCHANGED vars \/ Tick
  BY <1>1 DEF vars, Tick, CopiesKnown
<1>2. ASSUME NEW q, NEW a, Finish(q, a)
      PROVE  CopiesKnown'
  BY <1>2 DEF Finish, CopiesKnown
<1>3. ASSUME NEW q, NEW c, Goto(q, c), Known(c)
      PROVE  CopiesKnown'
  BY <1>3 DEF Goto, CopiesKnown
<1>4. ASSUME NEW q \in Requests, Create(q)
      PROVE  CopiesKnown'
  <2>1. CASE Finish(q, "InvalidTime")
    BY <1>2, <2>1
  <2>2. ASSUME NEW actor, NEW i, NEW e,
               Goto(q, [step |-> "save", op |-> "create", actor |-> actor, id |-> i,
                        read |-> e, entity |-> e])
        PROVE  CopiesKnown'
    BY <1>3, <2>2 DEF Known
  <2>. QED  BY <1>4, <2>1, <2>2 DEF Create
<1>5. ASSUME NEW q \in Requests, Call(q)
      PROVE  CopiesKnown'
  <2>1. PICK c \in LoadCall : Goto(q, c)
    BY <1>5 DEF Call, LoadCall
  <2>. QED  BY <1>3, <2>1 DEF LoadCall, Known
<1>6. ASSUME NEW q \in Requests, Load(q)
      PROVE  CopiesKnown'
  <2>1. CASE Finish(q, "NotFound")
    BY <1>2, <2>1
  <2>2. CASE /\ call[q].id \in DOMAIN reservations
             /\ Goto(q, [step |-> "decide", op |-> call[q].op, actor |-> call[q].actor,
                         id |-> call[q].id, to |-> call[q].to, read |-> reservations[call[q].id],
                         entity |-> ToDomain(reservations[call[q].id])])
    <3>1. PICK c : Goto(q, c) /\ c.step = "decide" /\ c.entity = c.read
      BY <2>2, MapperKeepsRow DEF IInv, TypeOK
    <3>. QED  BY <1>3, <3>1 DEF Known
  <2>. QED  BY <1>6, <2>1, <2>2 DEF Load
<1>7. ASSUME NEW q \in Requests, Decide(q)
      PROVE  CopiesKnown'
  <2>1. call[q] \in DecideCall /\ q \in DOMAIN call
    BY <1>7 DEF Decide, At, IInv, TypeOK, CallsOK, Calls, LoadCall, DecideCall, SaveCall
  <2>2. CASE /\ Refused(call[q]) = "ok"
             /\ Goto(q, [step |-> "save", op |-> call[q].op, actor |-> call[q].actor,
                         id |-> call[q].id, read |-> call[q].read, entity |-> Changed(call[q])])
    <3>. DEFINE was == call[q].read
                new == Changed(call[q])
    <3>1. call[q].entity = was /\ was \in Entity
      BY <2>1 DEF CopiesKnown, Known, DecideCall
    <3>2. was.status = "active"
      BY <2>1, <2>2, <3>1
         DEF Refused, CancelRefusal, RescheduleRefusal, Refusal, Entity, Statuses
    <3>3. new = Cancelled(was) \/ new = [was EXCEPT !.start = new.start, !.end = new.end]
      BY <3>1 DEF Changed, Rescheduled, Entity
    <3>. HIDE DEF was, new
    <3>4. Known([step |-> "save", op |-> call[q].op, actor |-> call[q].actor,
                 id |-> call[q].id, read |-> was, entity |-> new])
      BY <3>2, <3>3 DEF Known
    <3>. QED  BY <1>3, <2>2, <3>4 DEF was, new
  <2>. QED  BY <1>2, <1>7, <2>2 DEF Decide
<1>8. ASSUME NEW q \in Requests,
             Commit(q) \/ Reject(q) \/ DeadlockVictim(q) \/ StatementLost(q) \/ Die(q)
      PROVE  CopiesKnown'
  BY <1>2, <1>8 DEF Commit, Reject, DeadlockVictim, StatementLost, Die
<1>. QED
  BY <1>1, <1>4, <1>5, <1>6, <1>7, <1>8 DEF Next, Serve

(* A write that is not stale keeps the use cases' promises: it books a new *)
(* row, moves an active one, or cancels an active one and keeps its period.*)
LEMMA FreshCommit ==
  ASSUME IInv, CopiesKnown, NEW r \in Requests, Commit(r), ~Stale(r)
  PROVE  Calendar!Next
<1>. DEFINE id == call[r].id
            e == call[r].entity
            row == reservations[id]
<1>1. call[r] \in SaveCall /\ r \in DOMAIN call
  BY DEF Commit, At, IInv, TypeOK, CallsOK, Calls, LoadCall, DecideCall, SaveCall
<1>2. SoundCopy(r) /\ Known(call[r])
  BY <1>1 DEF IInv, CopiesAgree, InFlightCopies, CopiesKnown, SaveCall
<1>3. e \in Entity /\ id \in Ids /\ e.start < e.end
  BY <1>1, <1>2 DEF SaveCall, SoundCopy
<1>4. Calendar!Free(id, e) /\ Calendar!Write(id, e)
  BY VerdictOk DEF Commit, Excluded, Upsert, Clash, SamePlace, Calendar!Free, Calendar!Overlap,
                   Calendar!Write
<1>5. CASE call[r].op = "create"
  <2>1. e \in Calendar!Reservations /\ id \notin DOMAIN reservations /\ e.status = "active"
    BY <1>2, <1>3, <1>5, VerdictOk
       DEF SoundCopy, Commit, Entity, Statuses, Calendar!Reservations
  <2>. QED  BY <1>3, <1>4, <2>1 DEF Calendar!Book, Calendar!Next
<1>6. CASE call[r].op # "create"
  <2>1. call[r].read = row
    BY <1>6 DEF Stale, Commit
  <2>2. id \in DOMAIN reservations /\ row \in Entity /\ row.status = "active"
    BY <1>1, <1>2, <1>6, <2>1 DEF SoundCopy, Known, SaveCall, IInv, TypeOK, TableOK
  <2>3. CASE e = Cancelled(row)
    <3>1. e = [row EXCEPT !.start = row.start, !.end = row.end, !.status = "cancelled"]
      BY <2>2, <2>3 DEF Cancelled, Entity
    <3>2. row.start < row.end
      BY <1>3, <2>2, <2>3 DEF Cancelled, Entity
    <3>. QED
      BY <1>3, <1>4, <2>2, <3>1, <3>2 DEF Calendar!Change, Calendar!Cancel, Calendar!Next
  <2>4. CASE e = [row EXCEPT !.start = e.start, !.end = e.end]
    <3>1. e = [row EXCEPT !.start = e.start, !.end = e.end, !.status = "active"]
      BY <2>2, <2>4 DEF Entity
    <3>2. e.start \in Times /\ e.end \in Times
      BY <1>3 DEF Entity
    <3>3. Calendar!Change(id, e.start, e.end, "active")
      BY <1>3, <1>4, <3>1 DEF Calendar!Change
    <3>4. Calendar!Move(id)
      BY <2>2, <3>2, <3>3 DEF Calendar!Move
    <3>. QED  BY <1>3, <3>4 DEF Calendar!Next
  <2>. QED  BY <1>1, <1>2, <1>6, <2>1, <2>3, <2>4 DEF Known, SaveCall
<1>. QED  BY <1>5, <1>6

(* However many requests overlap, only the write of a copy whose row has   *)
(* changed since it was read can break what docs/use-cases.md promises.    *)
THEOREM OnlyStaleWritesBreak == Spec => OnlyStaleWritesBreakTheRules
<1>. DEFINE Kept == Calendar!Next \/ \E r \in Requests : Stale(r) /\ r \notin DOMAIN call'
<1>1. Init => CopiesKnown
  BY DEF Init, CopiesKnown
<1>2. IInv /\ CopiesKnown /\ [Next]_vars => CopiesKnown'
  BY KnownStep
<1>3. ASSUME NEW r \in Requests, Commit(r)
      PROVE  r \notin DOMAIN call'
  BY <1>3 DEF Commit, Finish
<1>4. IInv /\ CopiesKnown /\ [Next]_vars => [Kept]_reservations
  BY <1>3, FreshCommit, OnlyCommitWrites
<1>. QED
  BY <1>1, <1>2, <1>4, Invariance, PTL DEF Spec, OnlyStaleWritesBreakTheRules

(* So the calendar is that of the use cases, and a cancellation final, in  *)
(* every behaviour in which no stale copy is written, however many the     *)
(* requests and whatever is lost.                                          *)
COROLLARY NoStaleWrite ==
  Spec /\ [][\A r \in Requests : Stale(r) /\ r \notin DOMAIN call'
                                   => reservations' = reservations]_vars
    => ImplementsCalendar /\ CancelledIsFinal
<1>. DEFINE Final == \A id \in DOMAIN reservations :
       reservations[id].status = "cancelled" => reservations'[id].status = "cancelled"
            Kept == Calendar!Next \/ \E r \in Requests : Stale(r) /\ r \notin DOMAIN call'
            NoneWritten == \A r \in Requests : Stale(r) /\ r \notin DOMAIN call'
                                                 => reservations' = reservations
<1>1. Init => Calendar!Init
  BY DEF Init, Calendar!Init
<1>2. [Kept]_reservations /\ [NoneWritten]_vars => [Calendar!Next]_(Calendar!vars)
  BY DEF Calendar!vars, vars
<1>3. ASSUME Calendar!Next
      PROVE  Final
  <2>1. PICK i \in Ids : Calendar!Book(i) \/ Calendar!Move(i) \/ Calendar!Cancel(i)
    BY <1>3 DEF Calendar!Next
  <2>2. i \in DOMAIN reservations => reservations[i].status = "active"
    BY <2>1 DEF Calendar!Book, Calendar!Move, Calendar!Cancel
  <2>3. \A id \in DOMAIN reservations \ {i} : reservations'[id] = reservations[id]
    BY <2>1 DEF Calendar!Book, Calendar!Move, Calendar!Cancel, Calendar!Change, Calendar!Write
  <2>. QED  BY <2>2, <2>3
<1>4. [Calendar!Next]_(Calendar!vars) => [Final]_vars
  BY <1>3 DEF Calendar!vars
<1>. QED
  BY <1>1, <1>2, <1>4, OnlyStaleWritesBreak, PTL
     DEF Spec, ImplementsCalendar, Calendar!Spec, OnlyStaleWritesBreakTheRules,
         CancelledIsFinal
=============================================================================
