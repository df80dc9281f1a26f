------------------------- MODULE ReservationService -------------------------
(***************************************************************************)
(* The reservation use cases over the reservations table.                  *)
(*                                                                         *)
(* A request is an HTTP call being served by some instance of the service. *)
(* The use cases open no transaction: a cancellation or a reschedule reads *)
(* the row (Load), runs the entity's rules on that copy with the clock of  *)
(* the moment (Decide), and writes the whole copy back (Commit), and every *)
(* other request, the clock and a crash may come between.  A statement is  *)
(* one atomic step here; the table's constraints judge it as it runs.      *)
(* read is history: the row as Load found it, which the code does not keep *)
(* and only the properties look at.                                        *)
(***************************************************************************)
EXTENDS Reservation, Errors, FiniteSets

CONSTANTS Accounts,     \* ids in the users table
          Barbers,      \* ids in the barbers table
          AskedBarbers, \* barber ids a request may name, known or not
          Ids,          \* reservation ids randomUUID may draw
          Requests,     \* requests that can be in flight together
          Periods,      \* <<start, end>> pairs a request may ask for
          Horizon       \* bound of the clock

ASSUME ServiceAssumption ==
  /\ Barbers \subseteq Accounts
  /\ Barbers \subseteq AskedBarbers
  /\ Periods \subseteq Int \X Int
  /\ Horizon \in Nat

VARIABLES reservations, \* the table: id -> row
          now,          \* the clock
          call,         \* the requests in flight: request -> where it is
          answer        \* what the last step answered its request, if it did

vars == <<reservations, now, call, answer>>

Times == {p[1] : p \in Periods} \cup {p[2] : p \in Periods}
Entity == [user: Accounts, barber: AskedBarbers, start: Times, end: Times, status: Statuses]

(* A request before its SELECT, between the SELECT and the rules, and      *)
(* between the rules and its upsert.  entity is its copy of the row.       *)
LoadCall   == [step: {"load"}, op: {"cancel", "reschedule"},
               actor: Accounts, id: Ids, to: Periods]
DecideCall == [step: {"decide"}, op: {"cancel", "reschedule"},
               actor: Accounts, id: Ids, to: Periods, read: Entity, entity: Entity]
SaveCall   == [step: {"save"}, op: {"create", "cancel", "reschedule"},
               actor: Accounts, id: Ids, read: Entity, entity: Entity]

Answers == {"none", "ok", "NotFound", "InvalidTime", "Cancelled", "Unauthorized", "Past", "Late",
            "Conflict", "UserNotFound", "BarberNotFound", "BadRequest", "ServerError"}

Calls == LoadCall \cup DecideCall \cup SaveCall

TableOK ==
  /\ DOMAIN reservations \subseteq Ids
  /\ reservations = [i \in DOMAIN reservations |-> reservations[i]]
  /\ \A i \in DOMAIN reservations : reservations[i] \in Entity

CallsOK ==
  /\ DOMAIN call \subseteq Requests
  /\ call = [r \in DOMAIN call |-> call[r]]
  /\ \A r \in DOMAIN call : call[r] \in Calls

TypeOK ==
  /\ TableOK
  /\ CallsOK
  /\ now \in 0..Horizon
  /\ answer \in Answers

Init ==
  /\ reservations = [i \in {} |-> i]
  /\ now = 0
  /\ call = [r \in {} |-> r]
  /\ answer = "none"
-----------------------------------------------------------------------------
At(r, step) == r \in DOMAIN call /\ call[r].step = step

(* Request r moves to c, or leaves with an answer. *)
Goto(r, c) ==
  /\ call' = [q \in DOMAIN call \cup {r} |-> IF q = r THEN c ELSE call[q]]
  /\ answer' = "none"
Finish(r, a) ==
  /\ call' = [q \in DOMAIN call \ {r} |-> call[q]]
  /\ answer' = a

(* INSERT ... ON CONFLICT (id) DO UPDATE SET every column. *)
Upsert(table, id, e) == [i \in DOMAIN table \cup {id} |-> IF i = id THEN e ELSE table[i]]

(* ReservationMapper.toDomain.  The fault leaves the status to a default.  *)
DefaultStatus(row) == [user |-> row.user, barber |-> row.barber, start |-> row.start,
                       end |-> row.end, status |-> "active"]
ToDomain(row) == [user |-> row.user, barber |-> row.barber, start |-> row.start,
                  end |-> row.end, status |-> row.status]

(* A fault: the constraint looks at new rows only. *)
ExcludedWhenNew(table, id, e) ==
  id \notin DOMAIN table /\ \E i \in DOMAIN table : Clash(e, table[i])

(* The exclusion constraint refuses e: a row other than its own clashes.   *)
Excluded(table, id, e) == \E i \in DOMAIN table \ {id} : Clash(e, table[i])

(* A fault: the barber's foreign key is missing. *)
NoBarberKey(table, id, e) ==
  IF Excluded(table, id, e) THEN ReservationRefusal(Thrown("23P01", "none"))
  ELSE IF id \notin DOMAIN table /\ e.user \notin Accounts
    THEN ReservationRefusal(Thrown("23503", "user_id"))
  ELSE "ok"

(* What the table says to the upsert of e under id, and the repository     *)
(* makes of it.  The exclusion index is checked as the row is written, the *)
(* foreign keys when the statement ends, user before barber, and only if   *)
(* the row is new.                                                         *)
Verdict(table, id, e) ==
  IF Excluded(table, id, e) THEN ReservationRefusal(Thrown("23P01", "none"))
  ELSE IF id \notin DOMAIN table /\ e.user \notin Accounts
    THEN ReservationRefusal(Thrown("23503", "user_id"))
  ELSE IF id \notin DOMAIN table /\ e.barber \notin Barbers
    THEN ReservationRefusal(Thrown("23503", "barber_id"))
  ELSE "ok"

(* A fault: an id unused in the table is taken for a fresh one. *)
UnstoredIds == Ids \ DOMAIN reservations

(* randomUUID never repeats an id, stored or about to be. *)
FreshIds == Ids \ (DOMAIN reservations \cup {call[r].id : r \in DOMAIN call})
-----------------------------------------------------------------------------
(* POST /reservations: create runs before the first await. *)
Create(r) ==
  /\ r \notin DOMAIN call
  /\ UNCHANGED <<reservations, now>>
  /\ \E actor \in Accounts, barber \in AskedBarbers, p \in Periods :
       \/ /\ ~ValidPeriod(p)
          /\ Finish(r, "InvalidTime")
       \/ /\ ValidPeriod(p)
          /\ \E id \in FreshIds :
               Goto(r, [step |-> "save", op |-> "create", actor |-> actor, id |-> id,
                        read |-> NewReservation(actor, barber, p),
                        entity |-> NewReservation(actor, barber, p)])

(* DELETE and PATCH /reservations/:id.  A cancellation carries no period.  *)
Call(r) ==
  /\ r \notin DOMAIN call
  /\ \E op \in {"cancel", "reschedule"}, actor \in Accounts, id \in Ids, p \in Periods :
       /\ op = "cancel" => p = CHOOSE q \in Periods : TRUE
       /\ Goto(r, [step |-> "load", op |-> op, actor |-> actor, id |-> id, to |-> p])
  /\ UNCHANGED <<reservations, now>>

(* findById takes its snapshot. *)
Load(r) ==
  /\ At(r, "load")
  /\ LET c == call[r] IN
       \/ /\ c.id \notin DOMAIN reservations
          /\ Finish(r, "NotFound")
       \/ /\ c.id \in DOMAIN reservations
          /\ Goto(r, [step |-> "decide", op |-> c.op, actor |-> c.actor, id |-> c.id,
                      to |-> c.to, read |-> reservations[c.id],
                      entity |-> ToDomain(reservations[c.id])])
  /\ UNCHANGED <<reservations, now>>

(* The entity's rules, on the copy and new Date(), and the save they issue *)
(* in the same turn of the event loop.                                     *)
Refused(c) == IF c.op = "cancel" THEN CancelRefusal(c.entity, c.actor, now)
              ELSE RescheduleRefusal(c.entity, c.actor, now, c.to)
Changed(c) == IF c.op = "cancel" THEN Cancelled(c.entity)
              ELSE Rescheduled(c.entity, c.to)

Decide(r) ==
  /\ At(r, "decide")
  /\ LET c == call[r] IN
       \/ /\ Refused(c) # "ok"
          /\ Finish(r, Refused(c))
       \/ /\ Refused(c) = "ok"
          /\ Goto(r, [step |-> "save", op |-> c.op, actor |-> c.actor, id |-> c.id,
                      read |-> c.read, entity |-> Changed(c)])
  /\ UNCHANGED <<reservations, now>>

(* The upsert commits.  Its acknowledgement may be lost on the way: the    *)
(* caller then gets what the filter makes of the broken connection, or     *)
(* nothing when the instance is the one that died.                         *)
Commit(r) ==
  /\ At(r, "save")
  /\ Verdict(reservations, call[r].id, call[r].entity) = "ok"
  /\ reservations' = Upsert(reservations, call[r].id, call[r].entity)
  /\ \E a \in {"ok", "none"} \cup Lost : Finish(r, a)
  /\ UNCHANGED now

(* A fault: errors other than a conflict never settle the promise.         *)
RejectConflicts(r) ==
  /\ At(r, "save")
  /\ Verdict(reservations, call[r].id, call[r].entity) = "Conflict"
  /\ Finish(r, "Conflict")
  /\ UNCHANGED <<reservations, now>>

(* The upsert breaks a constraint and leaves no trace. *)
Reject(r) ==
  /\ At(r, "save")
  /\ Verdict(reservations, call[r].id, call[r].entity) # "ok"
  /\ Finish(r, Verdict(reservations, call[r].id, call[r].entity))
  /\ UNCHANGED <<reservations, now>>

(* Two upserts that clash can each have written its tuple and wait for the *)
(* other's transaction; Postgres aborts one, 40P01, a ReservationConflict. *)
DeadlockVictim(r) ==
  /\ At(r, "save")
  /\ \E q \in DOMAIN call \ {r} :
       /\ At(q, "save")
       /\ call[q].id # call[r].id
       /\ Clash(call[r].entity, call[q].entity)
  /\ Finish(r, ReservationRefusal(Thrown("40P01", "none")))
  /\ UNCHANGED <<reservations, now>>

(* The statement never ran: the pool or the connection failed. *)
StatementLost(r) ==
  /\ At(r, "load") \/ At(r, "save")
  /\ \E a \in Lost : Finish(r, a)
  /\ UNCHANGED <<reservations, now>>

(* The instance that served r is gone, and r with it. *)
Die(r) ==
  /\ r \in DOMAIN call
  /\ Finish(r, "none")
  /\ UNCHANGED <<reservations, now>>

Tick ==
  /\ now < Horizon
  /\ now' = now + 1
  /\ answer' = "none"
  /\ UNCHANGED <<reservations, call>>

Serve(r) == Load(r) \/ Decide(r) \/ Commit(r) \/ Reject(r)

Next ==
  \/ Tick
  \/ \E r \in Requests : \/ Create(r) \/ Call(r) \/ Serve(r)
                         \/ DeadlockVictim(r) \/ StatementLost(r) \/ Die(r)

Spec == Init /\ [][Next]_vars

(* Node runs every ready continuation and Postgres every statement; callers, failures and
   the clock owe nothing. *)
FairSpec == Spec /\ \A r \in Requests : WF_vars(Serve(r))
-----------------------------------------------------------------------------
(* No double booking: two active reservations of a barber never share an   *)
(* instant, whatever the use cases wrote from old copies (migration 0009). *)
NoOverlap ==
  \A i, j \in DOMAIN reservations :
    i # j => ~Clash(reservations[i], reservations[j])

(* What the table and the requests in flight never disagree about.  A row  *)
(* has a registered barber and a period that is not empty; a copy is of a  *)
(* row that is still there, has its parties, and once decided was decided  *)
(* by one of them; a reservation being created has an id of its own.       *)
StoredRows ==
  \A i \in DOMAIN reservations :
    reservations[i].barber \in Barbers /\ reservations[i].start < reservations[i].end

SameParties(a, b) == a.user = b.user /\ a.barber = b.barber

SoundCopy(r) ==
  LET c == call[r] IN
    /\ c.entity.start < c.entity.end
    /\ c.step = "save" => /\ c.actor \in {c.entity.user, c.entity.barber}
                          /\ c.op = "cancel" => c.entity.status = "cancelled"
    /\ c.op # "create" => /\ c.id \in DOMAIN reservations
                          /\ SameParties(c.entity, reservations[c.id])
    /\ c.op = "create" => /\ c.entity.status = "active"
                          /\ c.id \notin DOMAIN reservations
                          /\ \A q \in DOMAIN call \ {r} :
                               call[q].op = "create" => call[q].id # c.id

InFlightCopies == \A r \in DOMAIN call : call[r].step # "load" => SoundCopy(r)

CopiesAgree == StoredRows /\ InFlightCopies

(* The table has no surprise for the rules: a cancellation the entity      *)
(* accepted is never refused, a move only for a conflict, a creation for   *)
(* that or a barber that does not exist; and each of these refusals        *)
(* reaches the caller by its name, not as a bare database error.           *)
Foreseen(op) ==
  CASE op = "cancel" -> {"ok"}
    [] op = "reschedule" -> {"ok", "Conflict"}
    [] op = "create" -> {"ok", "Conflict", "BarberNotFound"}

OnlyForeseenRefusals ==
  \A r \in Requests : At(r, "save") =>
    Verdict(reservations, call[r].id, call[r].entity) \in Foreseen(call[r].op)

(* Request r could still write row id: it holds a copy its rules may yet   *)
(* accept, or has one on its way to the table.                             *)
HoldsWrite(r, id) ==
  /\ r \in DOMAIN call
  /\ call[r].id = id
  /\ \/ call[r].step = "save"
     \/ /\ call[r].step = "decide"
        /\ call[r].entity.status = "active"
        /\ call[r].entity.start > now

(* A cancelled row that no copy taken while it was active can reach.       *)
CancelledForGood(id) ==
  /\ id \in DOMAIN reservations
  /\ reservations[id].status = "cancelled"
  /\ \A r \in Requests : ~HoldsWrite(r, id)

(* Once cancelled, and once the requests that read the row as active are   *)
(* over, a reservation stays as it is for ever: no request that starts     *)
(* afterwards gets past the entity's status check.                         *)
CancellationSettles ==
  [][\A id \in Ids : CancelledForGood(id) =>
       CancelledForGood(id)' /\ reservations'[id] = reservations[id]]_vars

(* A started row whose remaining copies have started too.                  *)
StartedForGood(id) ==
  /\ id \in DOMAIN reservations
  /\ reservations[id].start <= now
  /\ \A r \in Requests : ~HoldsWrite(r, id)

(* History does not change: a reservation that has started, once no write  *)
(* of it is on its way and no copy of it is left that the rules may yet    *)
(* accept, is never cancelled or moved again.                              *)
HistorySettles ==
  [][\A id \in Ids : StartedForGood(id) =>
       StartedForGood(id)' /\ reservations'[id] = reservations[id]]_vars

(* A conflict is answered only for a reason: an active row of the barber,  *)
(* or one in a rival's upsert in flight, takes part of the period asked.   *)
(* Cancelled rows, adjacent periods and the row itself block nobody.       *)
ConflictHasRival ==
  [][\A r \in DOMAIN call :
       (r \notin DOMAIN call' /\ answer' = "Conflict") =>
         LET e == call[r].entity  id == call[r].id IN
         /\ e.status = "active"
         /\ \/ \E i \in DOMAIN reservations \ {id} :
                 /\ reservations[i].status = "active" /\ SamePlace(e, reservations[i])
            \/ \E q \in DOMAIN call \ {r} :
                 /\ At(q, "save") /\ call[q].id # id
                 /\ call[q].entity.status = "active" /\ SamePlace(e, call[q].entity)]_vars

(* A row is never deleted and never changes hands, and only its client or  *)
(* its barber changes it: a copy saved late is still a copy of that row.   *)
OnlyItsPartiesChangeARow ==
  [][\A id \in DOMAIN reservations :
       /\ id \in DOMAIN reservations'
       /\ reservations'[id].user = reservations[id].user
       /\ reservations'[id].barber = reservations[id].barber
       /\ reservations'[id] # reservations[id] =>
            \E r \in DOMAIN call : /\ r \notin DOMAIN call' /\ call[r].id = id
                                   /\ call[r].actor \in {reservations[id].user,
                                                         reservations[id].barber}]_vars

(* Every request in flight is over in the end. *)
EveryCallEnds == \A r \in Requests : r \in DOMAIN call ~> r \notin DOMAIN call

(* The table is a calendar in which rows keep their parties and never      *)
(* clash, whatever order the requests' steps come in.                      *)
Calendar == INSTANCE Calendar WITH book <- reservations
ImplementsLooseCalendar == Calendar!LooseSpec

(* Request r is about to write back a copy of a row that has changed since.*)
Stale(r) ==
  /\ At(r, "save")
  /\ call[r].op # "create"
  /\ reservations[call[r].id] # call[r].read

(* The use cases' promises are broken in one way only: by the write of a   *)
(* request whose row was changed by another after it was read.  Every      *)
(* other write, however many requests overlap, is a step of Calendar!Spec: *)
(* a booking, a move of an active row or its one final cancellation.       *)
OnlyStaleWritesBreakTheRules ==
  [][Calendar!Next \/ \E r \in Requests : Stale(r) /\ r \notin DOMAIN call']_reservations

(* One request at a time, the service keeps every promise of the use       *)
(* cases: bookings, moves of active rows, one final cancellation.          *)
ImplementsCalendar == Calendar!Spec

(* UC-03 and UC-09 of docs/use-cases.md: a cancelled reservation cannot be *)
(* rescheduled, so it never comes back.                                    *)
CancelledIsFinal ==
  [][\A id \in DOMAIN reservations :
       reservations[id].status = "cancelled" => reservations'[id].status = "cancelled"]_vars

(* A client error is a refusal: "Database constraint violation", says the  *)
(* filter, so the database took nothing (global-exception.filter.ts:48).   *)
RefusalWritesNothing ==
  [][answer' \in ClientErrors => reservations' = reservations]_vars
=============================================================================
