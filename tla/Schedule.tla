------------------------------ MODULE Schedule ------------------------------
(***************************************************************************)
(* A client reads a barber's schedule, page after page, while the book     *)
(* changes.  GET /barbers/:id/reservations looks the barber up, then sends *)
(* two statements at once, one for the page's rows and one for their       *)
(* total; each sees the table as it is when it runs.                       *)
(*                                                                         *)
(* The writers are the steps of Calendar!LooseSpec, which the reservation  *)
(* service implements: what they may do to the table is all that matters.  *)
(* A row shows its period and its id; who may see more is left out.        *)
(***************************************************************************)
EXTENDS Integers, FiniteSets, SequencesExt

CONSTANTS Ids, Accounts, Barbers, Times,  \* as in Calendar
          AskedBarbers,  \* barber ids a client may name, known or not
          Bounds,        \* startTime and endTime of a query, None when absent
          Limits,        \* page sizes
          None

ASSUME ScheduleAssumption ==
  /\ Times \subseteq Nat
  /\ Bounds \subseteq Times \cup {None}
  /\ None \notin Times
  /\ Limits \subseteq Nat \ {0}

VARIABLES book,    \* the table, as in Calendar
          reader   \* the client's walk over the pages

vars == <<book, reader>>

Writers == INSTANCE Calendar

Queries == [barber: AskedBarbers, from: Bounds, to: Bounds, limit: Limits]
Slots == [id: Ids, start: Times, end: Times]

(* History the client does not keep.  quiet: nothing was written since the *)
(* walk began; seen: its pages so far, kept while it is quiet; steady:     *)
(* nothing was written between the two statements of the current page.     *)
Walking == [step: {"barber", "query", "answered", "finished"}, query: Queries,
            page: Nat \ {0}, rows: Seq(Slots), total: Nat,
            pending: SUBSET {"rows", "count"}, quiet: BOOLEAN, seen: Seq(Slots),
            steady: BOOLEAN]
Idle == [step |-> "idle"]

TypeOK ==
  /\ DOMAIN book \subseteq Ids
  /\ \A i \in DOMAIN book : book[i] \in Writers!Reservations
  /\ reader # Idle => reader \in Walking /\ Len(reader.rows) <= reader.query.limit

Init == Writers!Init /\ reader = Idle
-----------------------------------------------------------------------------
Least(m, n) == IF m < n THEN m ELSE n

(* The where clause; the fault forgets the status.                         *)
InWindow(row, q) ==
  /\ q.from # None => row.start >= q.from
  /\ q.to # None => row.end <= q.to
EvenCancelled(q) == {i \in DOMAIN book : book[i].barber = q.barber /\ InWindow(book[i], q)}
Matching(q) ==
  {i \in DOMAIN book : /\ book[i].barber = q.barber
                       /\ book[i].status = "active"
                       /\ InWindow(book[i], q)}

(* The faults count pages from zero, and take whole pages only.            *)
FromZero(page, limit) == page * limit
Offset(page, limit) == (page - 1) * limit
WholePages(total, limit) == total \div limit
TotalPages(total, limit) == (total + limit - 1) \div limit

Slot(i) == [id |-> i, start |-> book[i].start, end |-> book[i].end]
Found(q) == {Slot(i) : i \in Matching(q)}

(* ORDER BY start_time: rows that start together come in any order.        *)
Sorted(q) ==
  {rows \in [1..Cardinality(Found(q)) -> Found(q)] :
     /\ IsInjective(rows)
     /\ \A m, n \in DOMAIN rows : m < n => rows[m].start <= rows[n].start}

(* LIMIT limit OFFSET offset, whatever page it is; a fault without LIMIT.  *)
NoLimit(rows, limit, page) == SubSeq(rows, Offset(page, limit) + 1, Len(rows))
Page(rows, limit, page) ==
  LET before == Offset(page, limit) IN
    SubSeq(rows, before + 1, Least(before + limit, Len(rows)))

(* The statement for the total has the same conditions; a fault has only   *)
(* the first two.                                                          *)
CountAll(q) == Cardinality(Matching([q EXCEPT !.from = None, !.to = None]))
Count(q) == Cardinality(Matching(q))
-----------------------------------------------------------------------------
Ask ==
  /\ reader.step \in {"idle", "finished"}
  /\ \E q \in Queries :
       reader' = [step |-> "barber", query |-> q, page |-> 1, rows |-> <<>>, total |-> 0,
                  pending |-> {"rows", "count"}, quiet |-> TRUE, seen |-> <<>>,
                  steady |-> TRUE]
  /\ UNCHANGED book

EmptyWindow(q) == q.from # None /\ q.to # None /\ q.from >= q.to

(* findById of the barber, and the check of the window: a 404 or a 422.    *)
FindBarber ==
  /\ reader.step = "barber"
  /\ \/ /\ reader.query.barber \notin Barbers \/ EmptyWindow(reader.query)
        /\ reader' = Idle
     \/ /\ reader.query.barber \in Barbers /\ ~EmptyWindow(reader.query)
        /\ reader' = [reader EXCEPT !.step = "query"]
  /\ UNCHANGED book

(* Promise.all: the two statements run in either order. *)
ReadRows ==
  /\ reader.step = "query" /\ "rows" \in reader.pending
  /\ \E rows \in Sorted(reader.query) :
       reader' = [reader EXCEPT !.rows = Page(rows, reader.query.limit, reader.page),
                                !.pending = @ \ {"rows"}]
  /\ UNCHANGED book
ReadCount ==
  /\ reader.step = "query" /\ "count" \in reader.pending
  /\ reader' = [reader EXCEPT !.total = Count(reader.query), !.pending = @ \ {"count"}]
  /\ UNCHANGED book

Answer ==
  /\ reader.step = "query" /\ reader.pending = {}
  /\ reader' = [reader EXCEPT !.step = "answered",
                            !.seen = IF reader.quiet THEN @ \o reader.rows ELSE @]
  /\ UNCHANGED book

(* The client asks for the next page as long as the answer promises one.   *)
Turn ==
  /\ reader.step = "answered"
  /\ LET last == TotalPages(reader.total, reader.query.limit) IN
       \/ /\ reader.page < last
          /\ reader' = [reader EXCEPT !.step = "barber", !.page = @ + 1, !.rows = <<>>,
                                      !.total = 0, !.pending = {"rows", "count"},
                                      !.steady = TRUE]
       \/ /\ reader.page >= last
          /\ reader' = [reader EXCEPT !.step = "finished"]
  /\ UNCHANGED book

(* A statement fails, the instance dies, or the client gives up. *)
GiveUp ==
  /\ reader # Idle
  /\ reader' = Idle
  /\ UNCHANGED book

Write ==
  /\ Writers!LooseNext
  /\ reader' = IF reader = Idle THEN Idle
               ELSE [reader EXCEPT !.quiet = FALSE, !.seen = <<>>,
                                   !.steady = @ /\ reader.pending \notin {{"rows"}, {"count"}}]

Next ==
  \/ Ask \/ FindBarber \/ ReadRows \/ ReadCount \/ Answer \/ Turn \/ GiveUp
  \/ Write

Spec == Init /\ [][Next]_vars
-----------------------------------------------------------------------------
(* start_time is no key, yet ORDER BY start_time leaves one order of the   *)
(* rows of a query only: no two pages can show a row twice for that.       *)
OneListing == \A q \in Queries : Cardinality(Sorted(q)) = 1

(* Whatever is written meanwhile, a page is a possible morning of the      *)
(* barber: in order, inside the window, and no two slots share an instant. *)
PageIsASchedule ==
  reader # Idle =>
    /\ \A m, n \in DOMAIN reader.rows :
         m < n => reader.rows[m].end <= reader.rows[n].start
    /\ \A n \in DOMAIN reader.rows : InWindow(reader.rows[n], reader.query)

(* How many rows page `page' of `total' has. *)
Due(total, page, limit) ==
  LET before == Offset(page, limit) IN
    Least(limit, IF total > before THEN total - before ELSE 0)

(* The page and the total of an answer agree, if nothing was written       *)
(* between their two snapshots, whatever was written before and after: no  *)
(* page is short unless it is the last, and none beyond the last has rows. *)
SteadyAnswerAgrees ==
  (reader # Idle /\ reader.step = "answered" /\ reader.steady) =>
    Len(reader.rows) = Due(reader.total, reader.page, reader.query.limit)

(* A walk over the pages that nobody disturbs shows every active           *)
(* reservation of the window once.                                         *)
QuietWalkIsComplete ==
  (reader # Idle /\ reader.step = "finished" /\ reader.quiet) =>
    /\ ToSet(reader.seen) = Found(reader.query)
    /\ IsInjective(reader.seen)
=============================================================================
