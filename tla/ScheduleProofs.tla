--------------------------- MODULE ScheduleProofs ---------------------------
(* Theorems about Schedule: whatever the writers do, the rows a page can   *)
(* hold have one order, and a page and a walk are what they promise.       *)
EXTENDS Schedule, FiniteSetTheorems, SequenceTheorems, TLAPS

(* The book as the writers keep it.                                        *)
BookSound ==
  /\ DOMAIN book \subseteq Ids /\ IsFiniteSet(DOMAIN book)
  /\ \A i \in DOMAIN book : /\ book[i] \in Writers!Reservations
                            /\ book[i].start < book[i].end
  /\ \A i, j \in DOMAIN book : i # j => ~Writers!Overlap(book[i], book[j])

LEMMA BookStartsSound == Writers!Init => BookSound
<1>. SUFFICES ASSUME Writers!Init
              PROVE  BookSound
  OBVIOUS
<1>1. DOMAIN book = {}
  BY DEF Writers!Init
<1>. QED  BY <1>1, FS_EmptySet DEF BookSound

(* Row id becomes e, which overlaps none of the others.                    *)
LEMMA WriteKeepsBook ==
  ASSUME BookSound, NEW id \in Ids, NEW e \in Writers!Reservations, e.start < e.end,
         Writers!Free(id, e), Writers!Write(id, e)
  PROVE  BookSound'
<1>1. /\ DOMAIN book' = DOMAIN book \cup {id}
      /\ book'[id] = e
      /\ \A i \in DOMAIN book \ {id} : book'[i] = book[i]
  BY DEF Writers!Write
<1>2. IsFiniteSet(DOMAIN book')
  BY <1>1, FS_AddElement DEF BookSound
<1>3. \A i \in DOMAIN book' : /\ book'[i] \in Writers!Reservations
                              /\ book'[i].start < book'[i].end
  BY <1>1 DEF BookSound
<1>4. \A i \in DOMAIN book \ {id} : /\ ~Writers!Overlap(e, book[i])
                                    /\ ~Writers!Overlap(book[i], e)
  BY DEF Writers!Free, Writers!Overlap
<1>5. \A i, j \in DOMAIN book' : i # j => ~Writers!Overlap(book'[i], book'[j])
  BY <1>1, <1>4 DEF BookSound
<1>. QED  BY <1>1, <1>2, <1>3, <1>5 DEF BookSound

LEMMA WritersKeepBook ==
  ASSUME BookSound, Writers!LooseNext
  PROVE  BookSound'
<1>1. PICK id \in Ids : Writers!Book(id) \/ Writers!Amend(id)
  BY DEF Writers!LooseNext
<1>2. CASE Writers!Book(id)
  BY <1>2, WriteKeepsBook DEF Writers!Book
<1>3. CASE Writers!Amend(id)
  <2>1. PICK s \in Times, t \in Times, st \in {"active", "cancelled"} :
          Writers!Change(id, s, t, st)
    BY <1>3 DEF Writers!Amend
  <2>. DEFINE e == [book[id] EXCEPT !.start = s, !.end = t, !.status = st]
  <2>2. book[id] \in Writers!Reservations
    BY <1>3 DEF Writers!Amend, BookSound
  <2>3. e \in Writers!Reservations /\ e.start = s /\ e.end = t
    BY <2>2 DEF Writers!Reservations
  <2>4. s < t /\ Writers!Free(id, e) /\ Writers!Write(id, e)
    BY <2>1 DEF Writers!Change
  <2>. HIDE DEF e
  <2>. QED  BY <2>3, <2>4, WriteKeepsBook
<1>. QED  BY <1>1, <1>2, <1>3
-----------------------------------------------------------------------------
(* Two slots that a query finds do not overlap, and the query asks for     *)
(* them.                                                                   *)
LEMMA FoundApart ==
  ASSUME BookSound, NEW q \in Queries
  PROVE  /\ Found(q) \subseteq Slots
         /\ \A a \in Found(q) : /\ a.start \in Nat /\ a.end \in Nat /\ a.start < a.end
                                /\ InWindow(a, q)
         /\ \A a, b \in Found(q) : a # b => a.end <= b.start \/ b.end <= a.start
<1>1. \A i \in Matching(q) :
        /\ i \in DOMAIN book /\ i \in Ids /\ book[i] \in Writers!Reservations
        /\ book[i].start \in Times /\ book[i].end \in Times
        /\ book[i].start < book[i].end
        /\ book[i].status = "active" /\ book[i].barber = q.barber
        /\ InWindow(book[i], q)
  BY DEF Matching, BookSound, Writers!Reservations
<1>2. Times \subseteq Nat
  BY ScheduleAssumption DEF ScheduleAssumption
<1>3. Found(q) \subseteq Slots
  BY <1>1 DEF Found, Slot, Slots
<1>4. ASSUME NEW a \in Found(q)
      PROVE  a.start \in Nat /\ a.end \in Nat /\ a.start < a.end /\ InWindow(a, q)
  <2>1. PICK i \in Matching(q) : a = Slot(i)
    BY DEF Found
  <2>2. a.start = book[i].start /\ a.end = book[i].end
    BY <2>1 DEF Slot
  <2>3. InWindow(a, q)
    BY <1>1, <2>2 DEF InWindow
  <2>. QED  BY <1>1, <1>2, <2>2, <2>3
<1>5. ASSUME NEW i \in Matching(q), NEW j \in Matching(q), i # j
      PROVE  book[i].end <= book[j].start \/ book[j].end <= book[i].start
  <2>1. ~Writers!Overlap(book[i], book[j])
    BY <1>1, <1>5 DEF BookSound
  <2>2. /\ book[i].start \in Nat /\ book[i].end \in Nat
        /\ book[j].start \in Nat /\ book[j].end \in Nat
    BY <1>1, <1>2
  <2>. QED  BY <1>1, <2>1, <2>2 DEF Writers!Overlap
<1>6. \A a, b \in Found(q) : a # b => a.end <= b.start \/ b.end <= a.start
  BY <1>5 DEF Found, Slot
<1>. QED  BY <1>3, <1>4, <1>6

(* There are as many slots to show as rows to count.                       *)
LEMMA FoundCount ==
  ASSUME BookSound, NEW q \in Queries
  PROVE  /\ IsFiniteSet(Found(q))
         /\ Cardinality(Found(q)) \in Nat
         /\ Count(q) = Cardinality(Found(q))
<1>. DEFINE f == [i \in Matching(q) |-> Slot(i)]
<1>1. IsFiniteSet(Matching(q))
  BY FS_Subset DEF BookSound, Matching
<1>2. f \in Bijection(Matching(q), Found(q))
  BY DEF Found, Slot, Bijection, Injection, Surjection, IsInjective
<1>3. ExistsBijection(Matching(q), Found(q))
  BY <1>2 DEF ExistsBijection
<1>4. IsFiniteSet(Found(q)) /\ Cardinality(Found(q)) = Cardinality(Matching(q))
  BY <1>1, <1>3, FS_Bijection
<1>. QED  BY <1>4, FS_CardinalityType DEF Count
-----------------------------------------------------------------------------
(* A sorted listing has every slot found, once, each over before the next  *)
(* begins.                                                                 *)
LEMMA SortedListing ==
  ASSUME BookSound, NEW q \in Queries, NEW rows \in Sorted(q)
  PROVE  /\ rows \in Seq(Slots)
         /\ Len(rows) = Cardinality(Found(q)) /\ Len(rows) \in Nat
         /\ DOMAIN rows = 1..Len(rows)
         /\ rows \in Bijection(1..Len(rows), Found(q))
         /\ \A n \in 1..Len(rows) : rows[n] \in Found(q)
         /\ \A s \in Found(q) : \E n \in 1..Len(rows) : rows[n] = s
         /\ \A m, n \in 1..Len(rows) : m < n => rows[m].end <= rows[n].start
<1>. DEFINE N == Cardinality(Found(q))
<1>1. IsFiniteSet(Found(q)) /\ N \in Nat
  BY FoundCount
<1>2. /\ rows \in [1..N -> Found(q)] /\ IsInjective(rows)
      /\ \A m, n \in 1..N : m < n => rows[m].start <= rows[n].start
  BY DEF Sorted
<1>3. rows \in Seq(Found(q)) /\ Len(rows) = N /\ DOMAIN rows = 1..N
  BY <1>1, <1>2
<1>4. rows \in Seq(Slots)
  BY <1>3, FoundApart
<1>5. rows \in Injection(1..N, Found(q))
  BY <1>2 DEF Injection
<1>6. Cardinality(1..N) = N
  BY <1>1, FS_Interval
<1>7. rows \in Surjection(1..N, Found(q))
  BY <1>1, <1>5, <1>6, FS_Injection
<1>8. ASSUME NEW m \in 1..N, NEW n \in 1..N, m < n
      PROVE  rows[m].end <= rows[n].start
  <2>1. rows[m] \in Found(q) /\ rows[n] \in Found(q)
    BY <1>2
  <2>2. rows[m] # rows[n]
    BY <1>2, <1>8 DEF IsInjective
  <2>3. rows[m].start <= rows[n].start
    BY <1>2, <1>8
  <2>. QED  BY <2>1, <2>2, <2>3, FoundApart
<1>9. \A s \in Found(q) : \E n \in 1..N : rows[n] = s
  BY <1>7 DEF Surjection
<1>. QED  BY <1>1, <1>2, <1>3, <1>4, <1>5, <1>7, <1>8, <1>9 DEF Bijection

(* How many of the slots found begin no later than s.                      *)
UpTo(q, s) == {t \in Found(q) : t.start <= s.start}
Rank(q, s) == Cardinality(UpTo(q, s))

(* The place of a slot in a sorted listing is its rank.                    *)
LEMMA PlaceIsRank ==
  ASSUME BookSound, NEW q \in Queries, NEW rows \in Sorted(q), NEW n \in 1..Len(rows)
  PROVE  Rank(q, rows[n]) = n
<1>. DEFINE first == [m \in 1..n |-> rows[m]]
<1>1. /\ n \in Nat /\ Len(rows) \in Nat
      /\ \A m \in 1..Len(rows) : rows[m] \in Found(q)
  BY SortedListing
<1>2. \A m \in 1..Len(rows) : rows[m].start \in Nat /\ rows[m].start < rows[m].end
                                /\ rows[m].end \in Nat
  BY <1>1, FoundApart
<1>3. \A m \in 1..Len(rows) : rows[m].start <= rows[n].start <=> m <= n
  <2>. SUFFICES ASSUME NEW m \in 1..Len(rows)
                PROVE  rows[m].start <= rows[n].start <=> m <= n
    OBVIOUS
  <2>1. CASE m < n
    <3>1. rows[m].end <= rows[n].start
      BY <2>1, SortedListing
    <3>. QED  BY <1>1, <1>2, <2>1, <3>1
  <2>2. CASE n < m
    <3>1. rows[n].end <= rows[m].start
      BY <2>2, SortedListing
    <3>. QED  BY <1>1, <1>2, <2>2, <3>1
  <2>3. CASE m = n
    BY <1>1, <1>2, <2>3
  <2>. QED  BY <1>1, <2>1, <2>2, <2>3
<1>4. UpTo(q, rows[n]) = {rows[m] : m \in 1..n}
  BY <1>1, <1>3, SortedListing DEF UpTo
<1>5. rows \in Injection(1..Len(rows), Found(q))
  BY SortedListing DEF Bijection
<1>6. first \in Bijection(1..n, UpTo(q, rows[n]))
  <2>1. \A a, b \in 1..n : rows[a] = rows[b] => a = b
    BY <1>1, <1>5 DEF Injection, IsInjective
  <2>. QED  BY <1>4, <2>1 DEF Bijection, Injection, Surjection, IsInjective
<1>. QED  BY <1>1, <1>6, FS_CountingElements DEF ExistsBijection, Rank

(* ORDER BY start_time leaves nothing open: start_time is no key, but the  *)
(* active rows of a barber never start together.                           *)
LEMMA OneOrder ==
  ASSUME BookSound, NEW q \in Queries, NEW rows \in Sorted(q), NEW others \in Sorted(q)
  PROVE  rows = others
<1>1. Len(rows) = Len(others) /\ Len(rows) \in Nat
  BY SortedListing
<1>2. ASSUME NEW n \in 1..Len(rows)
      PROVE  rows[n] = others[n]
  <2>1. rows[n] \in Found(q)
    BY SortedListing
  <2>2. PICK m \in 1..Len(others) : others[m] = rows[n]
    BY <2>1, SortedListing
  <2>3. Rank(q, rows[n]) = n /\ Rank(q, others[m]) = m
    BY PlaceIsRank
  <2>. QED  BY <2>2, <2>3
<1>. QED  BY <1>1, <1>2, SortedListing

(* The other slots that begin no later than s begin before it.             *)
LEMMA RankOrders ==
  ASSUME BookSound, NEW q \in Queries, NEW s \in Found(q)
  PROVE  /\ Rank(q, s) \in 1..Cardinality(Found(q))
         /\ \A t \in Found(q) : t.start < s.start => Rank(q, t) < Rank(q, s)
         /\ \A t \in Found(q) : t # s => t.start < s.start \/ s.start < t.start
<1>1. IsFiniteSet(Found(q)) /\ Cardinality(Found(q)) \in Nat
  BY FoundCount
<1>2. \A t \in Found(q) : t.start \in Nat /\ t.end \in Nat /\ t.start < t.end
  BY FoundApart
<1>3. \A t \in Found(q) : /\ UpTo(q, t) \in SUBSET Found(q)
                          /\ IsFiniteSet(UpTo(q, t)) /\ Rank(q, t) \in Nat
                          /\ Rank(q, t) <= Cardinality(Found(q))
  BY <1>1, FS_Subset, FS_CardinalityType DEF UpTo, Rank
<1>4. Rank(q, s) # 0
  <2>1. s \in UpTo(q, s)
    BY <1>2 DEF UpTo
  <2>. QED  BY <1>3, <2>1, FS_EmptySet DEF Rank
<1>5. ASSUME NEW t \in Found(q), t.start < s.start
      PROVE  Rank(q, t) < Rank(q, s)
  <2>1. UpTo(q, t) \in SUBSET UpTo(q, s)
    BY <1>2, <1>5 DEF UpTo
  <2>2. s \in UpTo(q, s) /\ s \notin UpTo(q, t)
    BY <1>2, <1>5 DEF UpTo
  <2>3. Rank(q, t) <= Rank(q, s) /\ Rank(q, t) # Rank(q, s)
    BY <1>3, <2>1, <2>2, FS_Subset DEF Rank
  <2>. QED  BY <1>3, <2>3
<1>6. \A t \in Found(q) : t # s => t.start < s.start \/ s.start < t.start
  <2>. SUFFICES ASSUME NEW t \in Found(q), t # s
                PROVE  t.start < s.start \/ s.start < t.start
    OBVIOUS
  <2>1. t.end <= s.start \/ s.end <= t.start
    BY FoundApart
  <2>. QED  BY <1>2, <2>1
<1>. QED  BY <1>1, <1>3, <1>4, <1>5, <1>6

(* There is always an order: the database has a page to answer.            *)
LEMMA SomeOrder ==
  ASSUME BookSound, NEW q \in Queries
  PROVE  \E rows : rows \in Sorted(q)
<1>. DEFINE N == Cardinality(Found(q))
            rank == [s \in Found(q) |-> Rank(q, s)]
            rows == [n \in 1..N |-> CHOOSE s \in Found(q) : Rank(q, s) = n]
<1>1. IsFiniteSet(Found(q)) /\ N \in Nat
  BY FoundCount
<1>2. \A s \in Found(q) : Rank(q, s) \in 1..N
  BY RankOrders
<1>3. \A s, t \in Found(q) : Rank(q, s) = Rank(q, t) => s = t
  <2>. SUFFICES ASSUME NEW s \in Found(q), NEW t \in Found(q), s # t
                PROVE  Rank(q, s) # Rank(q, t)
    OBVIOUS
  <2>1. Rank(q, s) < Rank(q, t) \/ Rank(q, t) < Rank(q, s)
    BY RankOrders
  <2>2. Rank(q, s) \in Nat /\ Rank(q, t) \in Nat
    BY <1>1, <1>2
  <2>. QED  BY <2>1, <2>2
<1>4. rank \in Injection(Found(q), 1..N)
  BY <1>2, <1>3 DEF Injection, IsInjective
<1>5. IsFiniteSet(1..N) /\ Cardinality(1..N) = N
  BY <1>1, FS_Interval
<1>6. rank \in Surjection(Found(q), 1..N)
  BY <1>4, <1>5, FS_Injection
<1>7. \A n \in 1..N : \E s \in Found(q) : Rank(q, s) = n
  BY <1>6 DEF Surjection
<1>8. \A n \in 1..N : rows[n] \in Found(q) /\ Rank(q, rows[n]) = n
  BY <1>7
<1>9. rows \in [1..N -> Found(q)] /\ DOMAIN rows = 1..N
  BY <1>8
<1>10. IsInjective(rows)
  BY <1>8, <1>9 DEF IsInjective
<1>11. ASSUME NEW m \in 1..N, NEW n \in 1..N, m < n
       PROVE  rows[m].start <= rows[n].start
  <2>1. rows[n].start < rows[m].start => n < m
    BY <1>8, RankOrders
  <2>2. rows[m].start \in Nat /\ rows[n].start \in Nat
    BY <1>8, FoundApart
  <2>3. ~(n < m)
    BY <1>1, <1>11
  <2>. HIDE DEF rows
  <2>. QED  BY <2>1, <2>2, <2>3
<1>12. rows \in Sorted(q)
  <2>. HIDE DEF rows
  <2>. QED  BY <1>9, <1>10, <1>11 DEF Sorted
<1>. QED  BY <1>12
-----------------------------------------------------------------------------
(* What is pending when: both statements before they are sent, none once   *)
(* they are answered.                                                      *)
Pending ==
  reader # Idle =>
    /\ reader.step = "barber" => reader.pending = {"rows", "count"}
    /\ reader.step \in {"answered", "finished"} => reader.pending = {}

(* An undisturbed walk r has seen the listing, which has `found' rows,     *)
(* from its beginning to where it is, and has counted it.                  *)
WalkAt(r, found, listings) ==
  LET before == Offset(r.page, r.query.limit)
      after == Least(before + r.query.limit, found) IN
    /\ r.step \in {"barber", "query"} =>
         /\ before <= found
         /\ \A rows \in listings : r.seen = SubSeq(rows, 1, before)
    /\ r.step \in {"answered", "finished"} =>
         \A rows \in listings : r.seen = SubSeq(rows, 1, after)
    /\ "count" \notin r.pending => r.total = found
    /\ "rows" \notin r.pending =>
         \A rows \in listings : r.rows = Page(rows, r.query.limit, r.page)
    /\ r.step = "finished" => found <= before + r.query.limit

Walk ==
  (reader # Idle /\ reader.quiet) =>
    WalkAt(reader, Cardinality(Found(reader.query)), Sorted(reader.query))

(* The rows and the total of r's page agree as far as they are there, and  *)
(* between the two statements of a page with the table, which has `found'  *)
(* rows to show.                                                           *)
AgreesAt(r, found) ==
  r.steady =>
    /\ r.pending = {} => Len(r.rows) = Due(r.total, r.page, r.query.limit)
    /\ r.pending = {"count"} => Len(r.rows) = Due(found, r.page, r.query.limit)
    /\ r.pending = {"rows"} => r.total = found

Agree == reader # Idle => AgreesAt(reader, Cardinality(Found(reader.query)))

IInv == TypeOK /\ BookSound /\ Pending /\ PageIsASchedule /\ Walk /\ Agree
-----------------------------------------------------------------------------
(* The pages of a listing follow one another without gap.                  *)
LEMMA Offsets ==
  ASSUME NEW page \in Nat \ {0}, NEW limit \in Nat \ {0}
  PROVE  /\ Offset(page, limit) \in Nat
         /\ Offset(1, limit) = 0
         /\ Offset(page + 1, limit) = Offset(page, limit) + limit
<1>1. page - 1 \in Nat
  OBVIOUS
<1>2. \A a, b \in Nat : a * b \in Nat
  OBVIOUS
<1>3. Offset(page, limit) \in Nat
  BY <1>1, <1>2 DEF Offset
<1>4. page * limit = (page - 1) * limit + limit
  OBVIOUS
<1>. QED  BY <1>3, <1>4 DEF Offset

(* As long as totalPages promises another page, it has rows; the last one  *)
(* ends the listing.                                                       *)
LEMMA LastPage ==
  ASSUME NEW page \in Nat \ {0}, NEW limit \in Nat \ {0}, NEW total \in Nat
  PROVE  /\ page < TotalPages(total, limit) => Offset(page + 1, limit) < total
         /\ page >= TotalPages(total, limit) => total <= Offset(page + 1, limit)
<1>. DEFINE last == TotalPages(total, limit)  all == last * limit  so == page * limit
<1>1. last \in Nat /\ all \in Nat /\ so \in Nat
  BY DEF TotalPages
<1>2. all <= total + limit - 1 /\ total + limit - 1 < all + limit
  BY DEF TotalPages
<1>3. Offset(page + 1, limit) = so
  BY DEF Offset
<1>4. ASSUME page < last
      PROVE  so < total
  <2>1. so + limit <= all
    <3>1. (page + 1) * limit <= last * limit
      BY <1>1, <1>4
    <3>. QED  BY <3>1
  <2>. HIDE DEF so, all, last
  <2>. QED  BY <1>1, <1>2, <2>1
<1>5. ASSUME page >= last
      PROVE  total <= so
  <2>1. all <= so
    BY <1>1, <1>5
  <2>. HIDE DEF so, all, last
  <2>. QED  BY <1>1, <1>2, <2>1
<1>. QED  BY <1>3, <1>4, <1>5
LEMMA QueryTypes ==
  ASSUME NEW q \in Queries
  PROVE  q.limit \in Nat \ {0}
BY ScheduleAssumption DEF ScheduleAssumption, Queries

(* A page is the stretch of the listing behind the pages before it, as     *)
(* long as the limit and the listing allow.                                *)
LEMMA PageIsAStretch ==
  ASSUME BookSound, NEW q \in Queries, NEW rows \in Sorted(q), NEW page \in Nat \ {0}
  PROVE  LET p == Page(rows, q.limit, page)
             before == Offset(page, q.limit) IN
           /\ p \in Seq(Slots) /\ DOMAIN p = 1..Len(p)
           /\ Len(p) = Least(q.limit, IF Len(rows) > before THEN Len(rows) - before ELSE 0)
           /\ Len(p) \in Nat /\ Len(p) <= q.limit
           /\ \A k \in 1..Len(p) : /\ before + k \in 1..Len(rows)
                                   /\ p[k] = rows[before + k]
<1>. DEFINE before == Offset(page, q.limit)
            last == Least(before + q.limit, Len(rows))
            p == SubSeq(rows, before + 1, last)
<1>1. q.limit \in Nat \ {0} /\ before \in Nat
  BY QueryTypes, Offsets
<1>2. Len(rows) \in Nat /\ rows \in Seq(Slots) /\ DOMAIN rows = 1..Len(rows)
  BY SortedListing
<1>3. last \in Nat /\ last <= Len(rows) /\ last <= before + q.limit
  BY <1>1, <1>2 DEF Least
<1>4. \A k \in (before + 1)..last : k \in 1..Len(rows) /\ rows[k] \in Slots
  BY <1>1, <1>2, <1>3
<1>5. /\ p \in Seq(Slots)
      /\ Len(p) = IF before + 1 <= last THEN last - (before + 1) + 1 ELSE 0
      /\ \A k \in 1..(last - (before + 1) + 1) : p[k] = rows[before + 1 + k - 1]
  <2>. HIDE DEF before, last
  <2>. QED  BY <1>1, <1>3, <1>4, SubSeqProperties
<1>6. Len(p) = IF before + 1 <= last THEN last - before ELSE 0
  <2>. HIDE DEF before, last, p
  <2>. QED  BY <1>1, <1>3, <1>5
<1>7. ASSUME NEW k \in 1..Len(p)
      PROVE  before + k \in 1..Len(rows) /\ p[k] = rows[before + k]
  <2>. HIDE DEF before, last, p
  <2>1. k \in 1..(last - (before + 1) + 1) /\ before + 1 + k - 1 = before + k
    BY <1>1, <1>3, <1>6
  <2>2. before + k \in (before + 1)..last
    BY <1>1, <1>3, <2>1
  <2>. QED  BY <1>4, <1>5, <2>1, <2>2
<1>8. Len(p) = Least(q.limit, IF Len(rows) > before THEN Len(rows) - before ELSE 0)
  <2>. DEFINE len == Len(p)
  <2>1. len = IF before + 1 <= last THEN last - before ELSE 0
    BY <1>6
  <2>. HIDE DEF before, len
  <2>. QED  BY <1>1, <1>2, <2>1 DEF Least, len
<1>9. Len(p) \in Nat /\ Len(p) <= q.limit
  <2>. DEFINE len == Len(p)
  <2>1. len = IF before + 1 <= last THEN last - before ELSE 0
    BY <1>6
  <2>. HIDE DEF before, len
  <2>. QED  BY <1>1, <1>3, <2>1 DEF len
<1>10. DOMAIN p = 1..Len(p)
  BY <1>5
<1>11. Page(rows, q.limit, page) = p
  BY DEF Page
<1>. HIDE DEF p
<1>. QED  BY <1>5, <1>7, <1>8, <1>9, <1>10, <1>11
-----------------------------------------------------------------------------
(* The same table answers the same query with the same rows.               *)
LEMMA SameListing ==
  ASSUME UNCHANGED book, reader'.query = reader.query
  PROVE  /\ Found(reader.query)' = Found(reader.query)
         /\ Sorted(reader.query)' = Sorted(reader.query)
<1>1. Found(reader.query)' = Found(reader.query)
  BY DEF Found, Slot, Matching, InWindow
<1>. QED  BY <1>1 DEF Sorted

LEMMA SameBook ==
  ASSUME UNCHANGED book
  PROVE  BookSound => BookSound'
BY DEF BookSound

(* The rows a page shows, and what is said about them in PageIsASchedule.  *)
PageSound(rows, q) ==
  /\ \A m, n \in DOMAIN rows : m < n => rows[m].end <= rows[n].start
  /\ \A n \in DOMAIN rows : InWindow(rows[n], q)

(* A step of the client under which the table stays: what has to be shown. *)
LEMMA ClientKeeps ==
  ASSUME IInv, UNCHANGED book, reader' # Idle,
         reader' \in Walking, reader'.query = reader.query,
         Len(reader'.rows) <= reader'.query.limit,
         PageSound(reader'.rows, reader'.query),
         reader'.step = "barber" => reader'.pending = {"rows", "count"},
         reader'.step \in {"answered", "finished"} => reader'.pending = {},
         reader'.quiet =>
           WalkAt(reader', Cardinality(Found(reader.query)), Sorted(reader.query)),
         AgreesAt(reader', Cardinality(Found(reader.query)))
  PROVE  IInv'
<1>1. TypeOK'
  BY DEF IInv, TypeOK
<1>2. BookSound'
  BY SameBook DEF IInv
<1>3. Pending'
  BY DEF Pending
<1>4. PageIsASchedule'
  BY DEF PageIsASchedule, PageSound
<1>5. Walk'
  BY SameListing DEF Walk
<1>6. Agree'
  BY SameListing DEF Agree
<1>. QED  BY <1>1, <1>2, <1>3, <1>4, <1>5, <1>6 DEF IInv

(* A client at some step of its walk, and what the invariant says of it.   *)
LEMMA Walks ==
  ASSUME IInv, reader.step # "idle"
  PROVE  /\ reader # Idle /\ reader \in Walking
         /\ reader.query \in Queries /\ reader.query.limit \in Nat \ {0}
         /\ reader.page \in Nat \ {0} /\ reader.total \in Nat
         /\ Len(reader.rows) <= reader.query.limit
         /\ PageSound(reader.rows, reader.query)
         /\ reader.step = "barber" => reader.pending = {"rows", "count"}
         /\ reader.step \in {"answered", "finished"} => reader.pending = {}
         /\ reader.quiet =>
              WalkAt(reader, Cardinality(Found(reader.query)), Sorted(reader.query))
         /\ AgreesAt(reader, Cardinality(Found(reader.query)))
<1>1. reader # Idle
  BY DEF Idle
<1>2. reader \in Walking /\ Len(reader.rows) <= reader.query.limit
  BY <1>1 DEF IInv, TypeOK
<1>3. /\ reader.query \in Queries /\ reader.page \in Nat \ {0}
      /\ reader.total \in Nat
  BY <1>2 DEF Walking
<1>4. PageSound(reader.rows, reader.query)
  BY <1>1 DEF IInv, PageIsASchedule, PageSound
<1>. QED  BY <1>1, <1>2, <1>3, <1>4, QueryTypes DEF IInv, Pending, Walk, Agree

LEMMA BecomesIdle ==
  ASSUME IInv, UNCHANGED book, reader' = Idle
  PROVE  IInv'
<1>1. TypeOK'
  BY DEF IInv, TypeOK
<1>2. BookSound'
  BY SameBook DEF IInv
<1>. QED  BY <1>1, <1>2 DEF IInv, Pending, PageIsASchedule, Walk, Agree
LEMMA AskKeeps ==
  ASSUME IInv, Ask
  PROVE  IInv'
<1>1. PICK q \in Queries :
        reader' = [step |-> "barber", query |-> q, page |-> 1, rows |-> <<>>, total |-> 0,
                   pending |-> {"rows", "count"}, quiet |-> TRUE, seen |-> <<>>,
                   steady |-> TRUE]
  BY DEF Ask
<1>2. BookSound /\ BookSound' /\ UNCHANGED book
  BY SameBook DEF Ask, IInv
<1>3. /\ reader' \in Walking /\ reader'.query = q /\ reader'.rows = <<>>
      /\ reader'.step = "barber" /\ reader'.pending = {"rows", "count"}
      /\ reader'.page = 1 /\ reader'.seen = <<>> /\ reader' # Idle
  BY <1>1 DEF Walking, Idle
<1>4. q.limit \in Nat \ {0} /\ Cardinality(Found(q)) \in Nat
  BY <1>2, QueryTypes, FoundCount
<1>5. Cardinality(Found(reader.query)') = Cardinality(Found(q))
  BY <1>2, <1>3 DEF Found, Slot, Matching, InWindow
<1>6. TypeOK'
  BY <1>2, <1>3, <1>4 DEF IInv, TypeOK
<1>7. Pending'
  BY <1>3 DEF Pending
<1>8. PageIsASchedule'
  BY <1>3 DEF PageIsASchedule
<1>9. Walk'
  <2>1. Offset(1, q.limit) = 0
    BY <1>4, Offsets
  <2>2. \A rows : SubSeq(rows, 1, 0) = <<>>
    BY SubSeqEmpty
  <2>. QED  BY <1>3, <1>4, <1>5, <2>1, <2>2 DEF Walk, WalkAt
<1>10. Agree'
  BY <1>3 DEF Agree, AgreesAt
<1>. QED  BY <1>2, <1>6, <1>7, <1>8, <1>9, <1>10 DEF IInv

LEMMA FindBarberKeeps ==
  ASSUME IInv, FindBarber
  PROVE  IInv'
<1>1. CASE reader' = Idle
  BY <1>1, BecomesIdle DEF FindBarber
<1>2. CASE reader' = [reader EXCEPT !.step = "query"]
  <2>1. reader.step = "barber" /\ UNCHANGED book
    BY DEF FindBarber
  <2>2. reader \in Walking
    BY <2>1, Walks
  <2>3. /\ reader' \in Walking /\ reader' # Idle
        /\ reader'.step = "query" /\ reader'.query = reader.query
        /\ reader'.page = reader.page /\ reader'.rows = reader.rows
        /\ reader'.total = reader.total /\ reader'.pending = reader.pending
        /\ reader'.quiet = reader.quiet /\ reader'.seen = reader.seen
        /\ reader'.steady = reader.steady
    BY <1>2, <2>2 DEF Walking, Idle
  <2>4. reader'.quiet =>
          WalkAt(reader', Cardinality(Found(reader.query)), Sorted(reader.query))
    BY <2>1, <2>3, Walks DEF WalkAt
  <2>5. AgreesAt(reader', Cardinality(Found(reader.query)))
    BY <2>1, <2>3, Walks DEF AgreesAt
  <2>. QED  BY <2>1, <2>3, <2>4, <2>5, Walks, ClientKeeps
<1>. QED  BY <1>1, <1>2 DEF FindBarber

LEMMA ReadRowsKeeps ==
  ASSUME IInv, ReadRows
  PROVE  IInv'
<1>1. reader.step = "query" /\ UNCHANGED book /\ BookSound
  BY DEF ReadRows, IInv
<1>2. PICK rows \in Sorted(reader.query) :
        reader' = [reader EXCEPT !.rows = Page(rows, reader.query.limit, reader.page),
                                 !.pending = @ \ {"rows"}]
  BY DEF ReadRows
<1>. DEFINE q == reader.query  p == Page(rows, q.limit, reader.page)
            before == Offset(reader.page, q.limit)
<1>3. reader \in Walking /\ q \in Queries /\ reader.page \in Nat \ {0}
  BY <1>1, Walks
<1>4. /\ p \in Seq(Slots) /\ DOMAIN p = 1..Len(p) /\ Len(p) \in Nat /\ Len(p) <= q.limit
      /\ before \in Nat
      /\ \A k \in 1..Len(p) : before + k \in 1..Len(rows) /\ p[k] = rows[before + k]
  BY <1>1, <1>3, PageIsAStretch, QueryTypes, Offsets
<1>5. PageSound(p, q)
  <2>1. ASSUME NEW m \in DOMAIN p, NEW n \in DOMAIN p, m < n
        PROVE  p[m].end <= p[n].start
    <3>1. /\ before + m \in 1..Len(rows) /\ before + n \in 1..Len(rows)
          /\ p[m] = rows[before + m] /\ p[n] = rows[before + n]
      BY <1>4
    <3>2. before + m < before + n
      <4>. HIDE DEF before, p
      <4>. QED  BY <1>4, <2>1
    <3>. QED  BY <1>1, <1>3, <3>1, <3>2, SortedListing
  <2>2. ASSUME NEW n \in DOMAIN p
        PROVE  InWindow(p[n], q)
    <3>1. p[n] \in Found(q)
      BY <1>1, <1>3, <1>4, SortedListing
    <3>. QED  BY <1>1, <1>3, <3>1, FoundApart
  <2>. QED  BY <2>1, <2>2 DEF PageSound
<1>6. /\ reader' \in Walking /\ reader' # Idle
      /\ reader'.step = "query" /\ reader'.query = q
      /\ reader'.page = reader.page /\ reader'.rows = p
      /\ reader'.total = reader.total /\ reader'.pending = reader.pending \ {"rows"}
      /\ reader'.quiet = reader.quiet /\ reader'.seen = reader.seen
      /\ reader'.steady = reader.steady
  <2>. HIDE DEF p
  <2>. QED  BY <1>1, <1>2, <1>3, <1>4 DEF Walking, Idle, p
<1>7. \A others \in Sorted(q) : p = Page(others, q.limit, reader.page)
  BY <1>1, <1>3, OneOrder
<1>8. reader'.quiet => WalkAt(reader', Cardinality(Found(q)), Sorted(q))
  <2>. HIDE DEF p
  <2>. QED  BY <1>1, <1>6, <1>7, Walks DEF WalkAt
<1>9. Len(p) = Due(Cardinality(Found(q)), reader.page, q.limit)
  BY <1>1, <1>3, PageIsAStretch, SortedListing DEF Due
<1>10. AgreesAt(reader', Cardinality(Found(q)))
  <2>1. "rows" \in reader.pending /\ reader.pending \in SUBSET {"rows", "count"}
    BY <1>3 DEF ReadRows, Walking
  <2>2. reader'.pending = {} => reader.pending = {"rows"}
    BY <1>6, <2>1
  <2>3. reader.steady /\ reader.pending = {"rows"} => reader.total = Cardinality(Found(q))
    BY <1>1, Walks DEF AgreesAt
  <2>. HIDE DEF p
  <2>. QED  BY <1>6, <1>9, <2>2, <2>3 DEF AgreesAt
<1>. QED  BY <1>1, <1>4, <1>5, <1>6, <1>8, <1>10, ClientKeeps

LEMMA ReadCountKeeps ==
  ASSUME IInv, ReadCount
  PROVE  IInv'
<1>1. reader.step = "query" /\ UNCHANGED book /\ BookSound
  BY DEF ReadCount, IInv
<1>2. reader' = [reader EXCEPT !.total = Count(reader.query), !.pending = @ \ {"count"}]
  BY DEF ReadCount
<1>. DEFINE found == Cardinality(Found(reader.query))
<1>3. reader \in Walking /\ reader.query \in Queries
  BY <1>1, Walks
<1>4. Count(reader.query) = found /\ found \in Nat
  BY <1>1, <1>3, FoundCount
<1>5. /\ reader' \in Walking /\ reader' # Idle
      /\ reader'.step = "query" /\ reader'.query = reader.query
      /\ reader'.page = reader.page /\ reader'.rows = reader.rows
      /\ reader'.total = found /\ reader'.pending = reader.pending \ {"count"}
      /\ reader'.quiet = reader.quiet /\ reader'.seen = reader.seen
      /\ reader'.steady = reader.steady
  <2>. HIDE DEF found
  <2>. QED  BY <1>1, <1>2, <1>3, <1>4 DEF Walking, Idle
<1>6. reader'.quiet => WalkAt(reader', found, Sorted(reader.query))
  BY <1>1, <1>5, Walks DEF WalkAt
<1>7. AgreesAt(reader', found)
  <2>1. "count" \in reader.pending /\ reader.pending \in SUBSET {"rows", "count"}
    BY <1>3 DEF ReadCount, Walking
  <2>2. reader'.pending = {} => reader.pending = {"count"}
    BY <1>5, <2>1
  <2>3. reader.steady /\ reader.pending = {"count"}
          => Len(reader.rows) = Due(found, reader.page, reader.query.limit)
    BY <1>1, Walks DEF AgreesAt
  <2>. HIDE DEF found
  <2>. QED  BY <1>5, <2>2, <2>3 DEF AgreesAt
<1>. QED  BY <1>1, <1>5, <1>6, <1>7, Walks, ClientKeeps
(* A page joins what was seen before it to the beginning of the listing.   *)
LEMMA PageJoins ==
  ASSUME BookSound, NEW q \in Queries, NEW rows \in Sorted(q), NEW page \in Nat \ {0},
         Offset(page, q.limit) <= Len(rows)
  PROVE  LET before == Offset(page, q.limit) IN
           SubSeq(rows, 1, before) \o Page(rows, q.limit, page)
             = SubSeq(rows, 1, Least(before + q.limit, Len(rows)))
<1>. DEFINE before == Offset(page, q.limit)
            after == Least(before + q.limit, Len(rows))
<1>1. before \in Nat /\ q.limit \in Nat \ {0}
  BY QueryTypes, Offsets
<1>2. rows \in Seq(Slots) /\ Len(rows) \in Nat
  BY SortedListing
<1>3. 1 \in 1..(Len(rows) + 1) /\ before \in 0..Len(rows) /\ after \in before..Len(rows)
  <2>. HIDE DEF before
  <2>1. before <= Len(rows)
    BY DEF before
  <2>. QED  BY <1>1, <1>2, <2>1 DEF Least
<1>4. SubSeq(rows, 1, before) \o SubSeq(rows, before + 1, after) = SubSeq(rows, 1, after)
  <2>. HIDE DEF before, after
  <2>. QED  BY <1>2, <1>3, ConcatAdjacentSubSeq
<1>. QED  BY <1>4 DEF Page

LEMMA AnswerKeeps ==
  ASSUME IInv, Answer
  PROVE  IInv'
<1>1. reader.step = "query" /\ reader.pending = {} /\ UNCHANGED book /\ BookSound
  BY DEF Answer, IInv
<1>. DEFINE q == reader.query  found == Cardinality(Found(q))
            before == Offset(reader.page, q.limit)
            now == IF reader.quiet THEN reader.seen \o reader.rows ELSE reader.seen
<1>2. reader' = [reader EXCEPT !.step = "answered", !.seen = now]
  BY DEF Answer
<1>3. reader \in Walking /\ q \in Queries /\ reader.page \in Nat \ {0}
  BY <1>1, Walks
<1>4. now \in Seq(Slots)
  BY <1>3 DEF Walking
<1>5. /\ reader' \in Walking /\ reader' # Idle
      /\ reader'.step = "answered" /\ reader'.query = q
      /\ reader'.page = reader.page /\ reader'.rows = reader.rows
      /\ reader'.total = reader.total /\ reader'.pending = {}
      /\ reader'.quiet = reader.quiet /\ reader'.seen = now
      /\ reader'.steady = reader.steady
  <2>. HIDE DEF now
  <2>. QED  BY <1>1, <1>2, <1>3, <1>4 DEF Walking, Idle
<1>6. ASSUME reader.quiet, NEW rows \in Sorted(q)
      PROVE  now = SubSeq(rows, 1, Least(before + q.limit, found))
  <2>1. WalkAt(reader, found, Sorted(q))
    BY <1>1, <1>6, Walks
  <2>2. /\ before <= found
        /\ reader.seen = SubSeq(rows, 1, before)
        /\ reader.rows = Page(rows, q.limit, reader.page)
    BY <1>1, <2>1 DEF WalkAt
  <2>3. Len(rows) = found
    BY <1>1, <1>3, SortedListing
  <2>4. SubSeq(rows, 1, before) \o Page(rows, q.limit, reader.page)
          = SubSeq(rows, 1, Least(before + q.limit, found))
    BY <1>1, <1>3, <2>2, <2>3, PageJoins
  <2>. HIDE DEF before, found, q
  <2>. QED  BY <1>6, <2>2, <2>4
<1>7. reader'.quiet => WalkAt(reader', found, Sorted(q))
  <2>1. reader.quiet => /\ reader.total = found
                        /\ \A rows \in Sorted(q) :
                             reader.rows = Page(rows, q.limit, reader.page)
    BY <1>1, Walks DEF WalkAt
  <2>. HIDE DEF now, found
  <2>. QED  BY <1>5, <1>6, <2>1 DEF WalkAt
<1>8. AgreesAt(reader', found)
  <2>. HIDE DEF now, found
  <2>. QED  BY <1>1, <1>5, Walks DEF AgreesAt, found
<1>. QED  BY <1>1, <1>5, <1>7, <1>8, Walks, ClientKeeps

LEMMA TurnKeeps ==
  ASSUME IInv, Turn
  PROVE  IInv'
<1>1. reader.step = "answered" /\ UNCHANGED book /\ BookSound
  BY DEF Turn, IInv
<1>. DEFINE q == reader.query  found == Cardinality(Found(q))
            before == Offset(reader.page, q.limit)
            last == TotalPages(reader.total, q.limit)
<1>2. /\ reader \in Walking /\ q \in Queries /\ q.limit \in Nat \ {0}
      /\ reader.page \in Nat \ {0} /\ reader.total \in Nat /\ reader.pending = {}
  BY <1>1, Walks
<1>3. /\ before \in Nat
      /\ Offset(reader.page + 1, q.limit) = before + q.limit
      /\ reader.page < last => before + q.limit < reader.total
      /\ reader.page >= last => reader.total <= before + q.limit
  BY <1>2, Offsets, LastPage
<1>4. reader.quiet =>
        /\ reader.total = found
        /\ \A rows \in Sorted(q) :
             /\ reader.seen = SubSeq(rows, 1, Least(before + q.limit, found))
             /\ reader.rows = Page(rows, q.limit, reader.page)
  BY <1>1, <1>2, Walks DEF WalkAt
<1>5. CASE /\ reader.page < last
           /\ reader' = [reader EXCEPT !.step = "barber", !.page = @ + 1, !.rows = <<>>,
                                       !.total = 0, !.pending = {"rows", "count"},
                                       !.steady = TRUE]
  <2>1. /\ reader' \in Walking /\ reader' # Idle
        /\ reader'.step = "barber" /\ reader'.query = q
        /\ reader'.page = reader.page + 1 /\ reader'.rows = <<>>
        /\ reader'.total = 0 /\ reader'.pending = {"rows", "count"}
        /\ reader'.quiet = reader.quiet /\ reader'.seen = reader.seen
    <3>. DEFINE none == <<>>  page == reader.page + 1
    <3>1. none \in Seq(Slots) /\ page \in Nat \ {0}
      BY <1>2
    <3>2. reader' = [reader EXCEPT !.step = "barber", !.page = page, !.rows = none,
                                   !.total = 0, !.pending = {"rows", "count"},
                                   !.steady = TRUE]
      BY <1>5
    <3>. HIDE DEF none, page
    <3>. QED  BY <1>2, <3>1, <3>2 DEF Walking, Idle, none, page
  <2>2. PageSound(<<>>, q) /\ Len(<<>>) <= q.limit
    BY <1>2 DEF PageSound
  <2>3. reader.quiet => /\ before + q.limit <= found
                        /\ Least(before + q.limit, found) = before + q.limit
    <3>. HIDE DEF before, last, found
    <3>. QED  BY <1>2, <1>3, <1>4, <1>5 DEF Least
  <2>4. reader'.quiet => WalkAt(reader', found, Sorted(q))
    <3>. HIDE DEF found
    <3>. QED  BY <1>3, <1>4, <2>1, <2>3 DEF WalkAt
  <2>5. AgreesAt(reader', found)
    BY <2>1 DEF AgreesAt
  <2>. QED  BY <1>1, <2>1, <2>2, <2>4, <2>5, ClientKeeps
<1>6. CASE reader.page >= last /\ reader' = [reader EXCEPT !.step = "finished"]
  <2>1. /\ reader' \in Walking /\ reader' # Idle
        /\ reader'.step = "finished" /\ reader'.query = q
        /\ reader'.page = reader.page /\ reader'.rows = reader.rows
        /\ reader'.total = reader.total /\ reader'.pending = {}
        /\ reader'.quiet = reader.quiet /\ reader'.seen = reader.seen
        /\ reader'.steady = reader.steady
    BY <1>2, <1>6 DEF Walking, Idle
  <2>2. reader'.quiet => WalkAt(reader', found, Sorted(q))
    <3>. HIDE DEF found
    <3>. QED  BY <1>3, <1>4, <1>6, <2>1 DEF WalkAt
  <2>3. AgreesAt(reader', found)
    BY <1>1, <2>1, Walks DEF AgreesAt
  <2>. QED  BY <1>1, <2>1, <2>2, <2>3, Walks, ClientKeeps
<1>. QED  BY <1>5, <1>6 DEF Turn

LEMMA WriteKeeps ==
  ASSUME IInv, Write
  PROVE  IInv'
<1>1. BookSound'
  BY WritersKeepBook DEF IInv, Write
<1>2. CASE reader = Idle
  <2>1. reader' = Idle
    BY <1>2 DEF Write
  <2>2. TypeOK'
    BY <1>1, <2>1 DEF TypeOK, BookSound
  <2>. QED  BY <1>1, <2>1, <2>2 DEF IInv, Pending, PageIsASchedule, Walk, Agree
<1>3. CASE reader # Idle
  <2>. DEFINE calm == reader.steady /\ reader.pending \notin {{"rows"}, {"count"}}
  <2>1. /\ reader \in Walking
        /\ reader' = [reader EXCEPT !.quiet = FALSE, !.seen = <<>>, !.steady = calm]
    BY <1>3 DEF IInv, TypeOK, Write
  <2>2. /\ reader' \in Walking /\ reader' # Idle
        /\ reader'.step = reader.step /\ reader'.query = reader.query
        /\ reader'.rows = reader.rows /\ reader'.pending = reader.pending
        /\ reader'.page = reader.page /\ reader'.total = reader.total
        /\ reader'.quiet = FALSE /\ reader'.steady = calm
    <3>. DEFINE none == <<>>
    <3>1. none \in Seq(Slots) /\ calm \in BOOLEAN
      BY <2>1 DEF Walking
    <3>. HIDE DEF none, calm
    <3>. QED  BY <2>1, <3>1 DEF Walking, Idle, none
  <2>3. TypeOK'
    BY <1>1, <1>3, <2>2 DEF IInv, TypeOK, BookSound
  <2>4. Pending'
    BY <1>3, <2>2 DEF IInv, Pending
  <2>5. PageIsASchedule'
    BY <1>3, <2>2 DEF IInv, PageIsASchedule
  <2>6. Walk'
    BY <2>2 DEF Walk
  <2>7. Agree'
    <3>1. AgreesAt(reader, Cardinality(Found(reader.query)))
      BY <1>3 DEF IInv, Agree
    <3>2. calm => reader.steady /\ reader.pending # {"rows"} /\ reader.pending # {"count"}
      OBVIOUS
    <3>. HIDE DEF calm
    <3>. QED  BY <2>2, <3>1, <3>2 DEF Agree, AgreesAt
  <2>. QED  BY <1>1, <2>3, <2>4, <2>5, <2>6, <2>7 DEF IInv
<1>. QED  BY <1>2, <1>3

LEMMA Inductive == IInv /\ [Next]_vars => IInv'
<1>. SUFFICES ASSUME IInv, [Next]_vars
              PROVE  IInv'
  OBVIOUS
<1>1. CASE GiveUp
  BY <1>1, BecomesIdle DEF GiveUp
<1>2. CASE UNCHANGED vars
  <2>1. UNCHANGED book /\ reader' = reader
    BY <1>2 DEF vars
  <2>2. CASE reader = Idle
    BY <2>1, <2>2, BecomesIdle
  <2>3. CASE reader # Idle
    <3>1. reader \in Walking
      BY <2>3 DEF IInv, TypeOK
    <3>2. reader.step # "idle"
      BY <3>1 DEF Walking
    <3>. QED  BY <2>1, <2>3, <3>2, Walks, ClientKeeps
  <2>. QED  BY <2>2, <2>3
<1>. QED
  BY <1>1, <1>2, AskKeeps, FindBarberKeeps, ReadRowsKeeps, ReadCountKeeps, AnswerKeeps,
     TurnKeeps, WriteKeeps DEF Next

LEMMA Initially == Init => IInv
<1>. SUFFICES ASSUME Init
              PROVE  IInv
  OBVIOUS
<1>1. BookSound /\ reader = Idle
  BY BookStartsSound DEF Init
<1>2. TypeOK
  BY <1>1 DEF TypeOK, BookSound
<1>. QED  BY <1>1, <1>2 DEF IInv, Pending, PageIsASchedule, Walk, Agree

LEMMA Invariance == Spec => []IInv
BY Initially, Inductive, PTL DEF Spec
-----------------------------------------------------------------------------
LEMMA SteadyAnswer == IInv => SteadyAnswerAgrees
<1>. SUFFICES ASSUME IInv, reader # Idle, reader.step = "answered", reader.steady
              PROVE  Len(reader.rows) = Due(reader.total, reader.page, reader.query.limit)
  BY DEF SteadyAnswerAgrees
<1>. QED  BY Walks DEF AgreesAt

LEMMA QuietWalk == IInv => QuietWalkIsComplete
<1>. SUFFICES ASSUME IInv, reader # Idle, reader.step = "finished", reader.quiet
              PROVE  /\ ToSet(reader.seen) = Found(reader.query)
                     /\ IsInjective(reader.seen)
  BY DEF QuietWalkIsComplete
<1>. DEFINE q == reader.query  found == Cardinality(Found(q))
            end == Offset(reader.page, q.limit) + q.limit
<1>1. /\ q \in Queries /\ q.limit \in Nat \ {0} /\ reader.page \in Nat \ {0}
      /\ WalkAt(reader, found, Sorted(q)) /\ BookSound
  BY Walks DEF IInv
<1>2. PICK rows : rows \in Sorted(q)
  BY <1>1, SomeOrder
<1>3. reader.seen = SubSeq(rows, 1, Least(end, found)) /\ found <= end
  BY <1>1, <1>2 DEF WalkAt
<1>4. /\ Len(rows) = found /\ found \in Nat /\ rows \in Seq(Slots)
      /\ DOMAIN rows = 1..Len(rows)
      /\ \A n \in 1..Len(rows) : rows[n] \in Found(q)
      /\ \A s \in Found(q) : \E n \in 1..Len(rows) : rows[n] = s
      /\ IsInjective(rows)
  BY <1>1, <1>2, SortedListing DEF Sorted
<1>5. Least(end, found) = Len(rows)
  <2>1. end \in Nat
    <3>1. Offset(reader.page, q.limit) \in Nat
      BY <1>1, Offsets
    <3>. QED  BY <1>1, <3>1
  <2>. HIDE DEF end, found
  <2>. QED  BY <1>3, <1>4, <2>1 DEF Least
<1>6. SubSeq(rows, 1, Len(rows)) = rows
  BY <1>4, SubSeqFull
<1>7. reader.seen = rows
  BY <1>3, <1>5, <1>6
<1>8. ToSet(rows) = Found(q)
  BY <1>4 DEF ToSet
<1>. QED  BY <1>4, <1>7, <1>8

(* A page holds slots of the book, as many as the query's limit at most.   *)
THEOREM ScheduleTypes == Spec => []TypeOK
<1>1. IInv => TypeOK
  BY DEF IInv
<1>. QED  BY <1>1, Invariance, PTL

(* start_time is no key, and pages are cut by offset: yet at every moment  *)
(* ORDER BY start_time leaves exactly one order of the rows of a query, so *)
(* that no row can trade places between two pages.                         *)
THEOREM ListingsAreDetermined == Spec => []OneListing
<1>1. IInv => OneListing
  <2>. SUFFICES ASSUME BookSound, NEW q \in Queries
                PROVE  Cardinality(Sorted(q)) = 1
    BY DEF IInv, OneListing
  <2>1. PICK rows : rows \in Sorted(q)
    BY SomeOrder
  <2>2. Sorted(q) = {rows}
    BY <2>1, OneOrder
  <2>. QED  BY <2>2, FS_Singleton
<1>. QED  BY <1>1, Invariance, PTL

(* A page of a barber's schedule is in order, inside the window and free   *)
(* of overlaps, whatever the writers did since the last one.               *)
THEOREM PagesAreSchedules == Spec => []PageIsASchedule
<1>1. IInv => PageIsASchedule
  BY DEF IInv
<1>. QED  BY <1>1, Invariance, PTL

(* Rows and total of an answer agree when nothing was written between the  *)
(* snapshots of the two statements.                                        *)
THEOREM SteadyAnswersAgree == Spec => []SteadyAnswerAgrees
BY SteadyAnswer, Invariance, PTL

(* A client that turns the pages until totalPages has seen every active    *)
(* reservation of the window once, when nothing was written meanwhile.     *)
THEOREM QuietWalksAreComplete == Spec => []QuietWalkIsComplete
BY QuietWalk, Invariance, PTL
=============================================================================
