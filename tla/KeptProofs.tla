------------------------------ MODULE KeptProofs ------------------------------
(***************************************************************************)
(* Proofs about TicketingServer for the behaviours in which one function   *)
(* at a time uses the connection, whatever the clock does meanwhile and    *)
(* wherever the process dies: what clients were told stays true, the       *)
(* counters are right and the tables agree.  Nothing in the code keeps the *)
(* functions apart, except the lock when all requests queue for it; the    *)
(* condition is a hypothesis of every theorem, and the runs server_booking *)
(* server_durable and server_sold show what happens without it.            *)
(***************************************************************************)
EXTENDS ServerProofs

-----------------------------------------------------------------------------
(* The conditions. *)

IsRunning(p) == pc[p] \notin {"idle", "waiting"}

\* At most one function has sent BEGIN and has not been answered.
OneAtATime == \A p, o \in Processes : IsRunning(p) /\ IsRunning(o) => p = o

\* All calls in flight queue for one lock.
OneQueue ==
  \A p, o \in Processes : InCall(p) /\ InCall(o) /\ p # o => SameLock(request[p], request[o])

-----------------------------------------------------------------------------
(* The invariant. *)

\* The one transaction is the outermost one, and no save() needs a savepoint in it.
Settled ==
  /\ (\A p \in Processes : ~InTransaction(p)) => undo = <<>> /\ depth = 0
  /\ \A p \in Processes :
       /\ pc[p] = "begin" => read[p] = 0 /\ active
       /\ InTransaction(p) => Len(undo) = 1 /\ depth = 1 /\ active /\ ~saving[p].own
       /\ pc[p] \in {"commit", "rollback"} => read[p] = 1

\* Tables that agree, but that the tickets of the completed rows in `paid' are not
\* sold yet.
Agree(d, paid) ==
  LET rs == d.reservations
  IN  /\ \A i \in ReservationIds : IsRow(rs, i) =>
           rs[i].concertId = ConcertOf[rs[i].ticketId] /\ rs[i].concertId \in d.listed
      /\ UniqueTicketIds(rs)
      /\ \A i \in ReservationIds :
           /\ IsPending(rs, i) \/ i \in paid => d.tickets[rs[i].ticketId] = "RESERVED"
           /\ rs[i].status = "COMPLETED" /\ i \notin paid => d.tickets[rs[i].ticketId] = "SOLD"
      /\ \A t \in Tickets : d.tickets[t] = "SOLD" =>
           \E i \in ReservationIds : rs[i].status = "COMPLETED" /\ rs[i].ticketId = t

OnSale(tk, c) == {t \in TicketsOf(c) : tk[t] \in {"ABSENT", "AVAILABLE"}}

\* The counters are right, but that n units of c are gone whose tickets are on sale.
Counted(d, c, n) ==
  \A k \in d.listed :
    d.stock[k] + (IF k = c THEN n ELSE 0) = Cardinality(OnSale(d.tickets, k))

Exact(d) == \A k \in d.listed : d.stock[k] = Cardinality(OnSale(d.tickets, k))

Good(d) == Agree(d, {}) /\ Exact(d)

\* The clock aside, of rows.
Alike(row, old) ==
  /\ row.userId = old.userId /\ row.ticketId = old.ticketId
  /\ row.concertId = old.concertId /\ row.status = old.status

\* A row with another status, and the table it is in.
WithStatus(row, status) == [row EXCEPT !.status = status]

StatusSet(rs, i, status) == [rs EXCEPT ![i] = WithStatus(rs[i], status)]

Owns(d, i, u, t) ==
  /\ i \in ReservationIds /\ IsRow(d.reservations, i)
  /\ d.reservations[i].userId = u /\ d.reservations[i].ticketId = t

\* What a function has found and done so far in its transaction: its next statement
\* is `label', its save has come to s, it was asked for r and keeps m.
ReserveFine(d, label, s, r, m) ==
  /\ label \in {"find", "take", "diagnose", "insert"} => Good(d)
  /\ label \in {"take", "pick", "mark", "insert"} => r.concert \in d.listed
  /\ label \in {"pick", "mark"} => Agree(d, {}) /\ Counted(d, r.concert, r.quantity)
  /\ label = "mark" => m \in CheapestFirst(AvailableTickets(d.tickets, r.concert), r.quantity)
  /\ label = "insert" /\ s.stage = "write" =>
       /\ m.first \in Tickets /\ ConcertOf[m.first] = r.concert
       /\ d.tickets[m.first] = "RESERVED"
  /\ label = "insert" /\ s.stage = "reload" => Owns(d, m.id, r.user, m.first)

Bought(d, r, m) ==
  Owns(d, r.id, r.user, m.ticketId) /\ d.reservations[r.id].status = "COMPLETED"

PurchaseFine(d, label, s, r, m) ==
  /\ label = "findRow" => Good(d)
  /\ label = "saveRow" /\ s.stage # "reload" =>
       Good(d) /\ m.status = "PENDING" /\ m.userId = r.user /\ Alike(d.reservations[r.id], m)
  /\ label = "saveRow" /\ s.stage = "write" => Alike(s.old, m)
  /\ \/ label = "saveRow" /\ s.stage = "reload"
     \/ label = "saveTicket" /\ s.stage # "reload"
     => Agree(d, {r.id}) /\ Exact(d) /\ Bought(d, r, m)
  /\ label = "saveTicket" /\ s.stage = "reload" => Good(d) /\ Bought(d, r, m)

StillPending(d, m, ids) ==
  \A j \in ids : m.rows[j].status = "PENDING" /\ Alike(d.reservations[j], m.rows[j])

CleanupFine(d, label, s, m) ==
  LET i == CHOOSE j \in m.todo : TRUE
      row == m.rows[i]
  IN  /\ label = "findExpired" => Good(d)
      /\ label = "cancelRow" /\ s.stage # "reload" => Good(d) /\ StillPending(d, m, m.todo)
      /\ label = "cancelRow" /\ s.stage = "write" => Alike(s.old, row)
      /\ (label = "cancelRow" /\ s.stage = "reload") \/ label = "freeTicket" =>
           /\ Good(d) /\ StillPending(d, m, m.todo \ {i})
           /\ Alike(d.reservations[i], WithStatus(row, "CANCELLED"))
           /\ d.tickets[row.ticketId] = "RESERVED"
      /\ label = "addStock" =>
           Agree(d, {}) /\ Counted(d, row.concertId, 1) /\ StillPending(d, m, m.todo \ {i})

EndFine(d, label, r, m, v) ==
  label = "commit" =>
    /\ Good(d)
    /\ v = "reserved" => Owns(d, m.id, r.user, m.first)
    /\ v = "purchased" => Bought(d, r, m)

FineAt(d, label, s, r, m, v) ==
  /\ ReserveFine(d, label, s, r, m)
  /\ PurchaseFine(d, label, s, r, m)
  /\ CleanupFine(d, label, s, m)
  /\ EndFine(d, label, r, m, v)

Fine(p) == FineAt(db, pc[p], saving[p], request[p], local[p], verdict[p])

\* No row of d is lost in e, gets another ticket or user, or ceases to be completed,
\* and no sold ticket ceases to be sold.
Preserves(d, e) ==
  /\ \A i \in ReservationIds : IsRow(d.reservations, i) =>
       /\ IsRow(e.reservations, i)
       /\ e.reservations[i].ticketId = d.reservations[i].ticketId
       /\ e.reservations[i].userId = d.reservations[i].userId
       /\ d.reservations[i].status = "COMPLETED" => e.reservations[i].status = "COMPLETED"
  /\ \A t \in Tickets : d.tickets[t] = "SOLD" => e.tickets[t] = "SOLD"

\* What a client was told is in the tables.
IsTrueIn(d, a) ==
  /\ Owns(d, a.id, a.to, a.ticket)
  /\ a.what = "purchased" => d.reservations[a.id].status = "COMPLETED"

AckedOnDisk == \A a \in acked : IsTrueIn(disk, a)

\* All of it but Inv, and the inductive invariant.
Sound ==
  /\ Settled
  /\ Good(disk) /\ Preserves(disk, db)
  /\ AckedOnDisk
  /\ \A p \in Processes : Fine(p)

Kept == Inv /\ Sound

-----------------------------------------------------------------------------
(* Tables. *)

LEMMA OnSaleFinite ==
  ASSUME NEW tk, NEW c
  PROVE  IsFiniteSet(OnSale(tk, c)) /\ Cardinality(OnSale(tk, c)) \in Nat
<1>1. OnSale(tk, c) \subseteq Tickets
  BY DEF OnSale, TicketsOf
<1>2. QED
  BY <1>1, TablesAssumption, FS_Subset, FS_CardinalityType

\* Tickets that are reserved are no longer on sale.
LEMMA MarkedCount ==
  ASSUME NEW tk, NEW c, NEW ids, ids \subseteq AvailableTickets(tk, c)
  PROVE  /\ Cardinality(OnSale(SetTicketStatus(tk, ids, "RESERVED"), c)) =
              Cardinality(OnSale(tk, c)) - Cardinality(ids)
         /\ \A k : k # c =>
              OnSale(SetTicketStatus(tk, ids, "RESERVED"), k) = OnSale(tk, k)
<1>1. OnSale(SetTicketStatus(tk, ids, "RESERVED"), c) = OnSale(tk, c) \ ids
  BY DEF OnSale, SetTicketStatus, TicketsOf, AvailableTickets
<1>2. OnSale(tk, c) \cap ids = ids
  BY DEF OnSale, AvailableTickets
<1>3. \A k : k # c => OnSale(SetTicketStatus(tk, ids, "RESERVED"), k) = OnSale(tk, k)
  BY DEF OnSale, SetTicketStatus, TicketsOf, AvailableTickets
<1>4. QED
  BY <1>1, <1>2, <1>3, OnSaleFinite, FS_Difference

\* A reserved ticket that is freed is on sale again, one that is sold is not.
LEMMA FreedCount ==
  ASSUME NEW tk, NEW t \in Tickets, tk[t] = "RESERVED"
  PROVE  /\ Cardinality(OnSale(SetTicketStatus(tk, {t}, "AVAILABLE"), ConcertOf[t])) =
              Cardinality(OnSale(tk, ConcertOf[t])) + 1
         /\ \A k : k # ConcertOf[t] =>
              OnSale(SetTicketStatus(tk, {t}, "AVAILABLE"), k) = OnSale(tk, k)
<1>1. OnSale(SetTicketStatus(tk, {t}, "AVAILABLE"), ConcertOf[t]) =
        OnSale(tk, ConcertOf[t]) \cup {t}
  BY DEF OnSale, SetTicketStatus, TicketsOf
<1>2. t \notin OnSale(tk, ConcertOf[t])
  BY DEF OnSale
<1>3. \A k : k # ConcertOf[t] =>
        OnSale(SetTicketStatus(tk, {t}, "AVAILABLE"), k) = OnSale(tk, k)
  BY DEF OnSale, SetTicketStatus, TicketsOf
<1>4. QED
  BY <1>1, <1>2, <1>3, OnSaleFinite, FS_AddElement

LEMMA SoldCount ==
  ASSUME NEW tk, NEW t \in Tickets, tk[t] = "RESERVED"
  PROVE  \A k : OnSale(SetTicketStatus(tk, {t}, "SOLD"), k) = OnSale(tk, k)
BY DEF OnSale, SetTicketStatus, TicketsOf

\* Moving stock touches the stock and the version only.
LEMMA StockMovedFields ==
  ASSUME db \in Databases, NEW c, NEW n
  PROVE  /\ StockMoved(c, n).listed = db.listed
         /\ StockMoved(c, n).stock = AddStock(db.stock, c, n)
         /\ StockMoved(c, n).tickets = db.tickets
         /\ StockMoved(c, n).reservations = db.reservations
BY DEF Databases, StockMoved

\* The rows of a table.
LEMMA RowFacts ==
  ASSUME NEW d \in Databases, NEW i \in ReservationIds
  PROVE  /\ d.reservations[i] \in ReservationRows \cup {NoRow}
         /\ IsRow(d.reservations, i) <=> d.reservations[i] # NoRow
         /\ IsRow(d.reservations, i) <=> d.reservations[i] \in ReservationRows
         /\ d.reservations[i].status \in ReservationStatuses <=> IsRow(d.reservations, i)
<1>1. d.reservations[i] \in ReservationRows \cup {NoRow}
  BY DEF Databases, ReservationTable
<1>2. QED
  BY <1>1 DEF IsRow, NoRow, ReservationRows, ReservationStatuses

\* Nothing is lost from one moment to the next, hence from an earlier one.
LEMMA PreservesOn ==
  ASSUME NEW a, NEW b, NEW c, Preserves(a, b), Preserves(b, c)
  PROVE  Preserves(a, c)
BY DEF Preserves

LEMMA PreservesSame ==
  ASSUME NEW a, NEW b, b.tickets = a.tickets, b.reservations = a.reservations
  PROVE  Preserves(a, b)
BY DEF Preserves

-----------------------------------------------------------------------------
(* What each statement does to tables that agree.                           *)

\* Only the clock has moved.
LEMMA Aged ==
  ASSUME NEW d, NEW e, e.listed = d.listed, e.stock = d.stock, e.tickets = d.tickets,
         \A i \in ReservationIds : Alike(e.reservations[i], d.reservations[i])
  PROVE  /\ \A paid : Agree(d, paid) => Agree(e, paid)
         /\ Exact(d) => Exact(e)
         /\ \A c, n : Counted(d, c, n) => Counted(e, c, n)
         /\ \A i, u, t : Owns(d, i, u, t) => Owns(e, i, u, t)
         /\ Preserves(d, e) /\ Preserves(e, d)
<1>1. ASSUME NEW paid, Agree(d, paid)
      PROVE  Agree(e, paid)
  <2>1. \A i \in ReservationIds :
          /\ IsRow(e.reservations, i) <=> IsRow(d.reservations, i)
          /\ IsPending(e.reservations, i) <=> IsPending(d.reservations, i)
          /\ e.reservations[i].ticketId = d.reservations[i].ticketId
          /\ e.reservations[i].concertId = d.reservations[i].concertId
          /\ e.reservations[i].status = d.reservations[i].status
    BY DEF Alike, IsRow, IsPending
  <2>2. UniqueTicketIds(e.reservations)
    BY <1>1, <2>1 DEF Agree, UniqueTicketIds
  <2>3. \A t \in Tickets : e.tickets[t] = "SOLD" =>
          \E i \in ReservationIds :
            e.reservations[i].status = "COMPLETED" /\ e.reservations[i].ticketId = t
    BY <1>1, <2>1 DEF Agree
  <2>4. QED
    BY <1>1, <2>1, <2>2, <2>3 DEF Agree
<1>2. /\ Exact(d) => Exact(e)
      /\ \A c, n : Counted(d, c, n) => Counted(e, c, n)
  BY DEF Exact, Counted
<1>3. /\ \A i, u, t : Owns(d, i, u, t) => Owns(e, i, u, t)
      /\ Preserves(d, e) /\ Preserves(e, d)
  BY DEF Owns, Preserves, Alike, IsRow
<1>4. QED
  BY <1>1, <1>2, <1>3

\* The tickets of a batch are marked.
LEMMA MarkGood ==
  ASSUME NEW d \in Databases, NEW e, NEW c \in d.listed, NEW q \in Nat,
         Agree(d, {}), Counted(d, c, q),
         NEW b \in CheapestFirst(AvailableTickets(d.tickets, c), q),
         e.listed = d.listed, e.stock = d.stock, e.reservations = d.reservations,
         e.tickets = SetTicketStatus(d.tickets, b.ids, "RESERVED")
  PROVE  /\ Good(e) /\ Preserves(d, e)
         /\ b.first \in Tickets /\ ConcertOf[b.first] = c /\ e.tickets[b.first] = "RESERVED"
<1>1. /\ b.ids \subseteq AvailableTickets(d.tickets, c)
      /\ Cardinality(b.ids) = q /\ b.first \in b.ids
  BY DEF CheapestFirst
<1>2. \A t \in b.ids : t \in Tickets /\ ConcertOf[t] = c /\ d.tickets[t] = "AVAILABLE"
  BY <1>1 DEF AvailableTickets, TicketsOf
<1>3. \A t \in Tickets : e.tickets[t] = IF t \in b.ids THEN "RESERVED" ELSE d.tickets[t]
  BY DEF SetTicketStatus
<1>4. Exact(e)
  <2>1. SUFFICES ASSUME NEW k \in d.listed
                 PROVE  d.stock[k] = Cardinality(OnSale(e.tickets, k))
    BY DEF Exact
  <2>2. d.stock[k] \in Nat
    BY DEF Databases
  <2>3. d.stock[k] + (IF k = c THEN q ELSE 0) = Cardinality(OnSale(d.tickets, k))
    BY DEF Counted
  <2>4. Cardinality(OnSale(d.tickets, k)) \in Nat
    BY OnSaleFinite
  <2>5. k = c => Cardinality(OnSale(e.tickets, c)) = Cardinality(OnSale(d.tickets, c)) - q
    BY <1>1, MarkedCount
  <2>6. k # c => OnSale(e.tickets, k) = OnSale(d.tickets, k)
    BY <1>2, <1>3 DEF OnSale, TicketsOf
  <2>7. QED
    BY <2>2, <2>3, <2>4, <2>5, <2>6
<1>5. \A i \in ReservationIds : IsRow(d.reservations, i) => d.reservations[i].ticketId \in Tickets
  BY RowFacts DEF ReservationRows
<1>6. Agree(e, {})
  BY <1>2, <1>3, <1>5 DEF Agree, IsRow, IsPending
<1>7. Preserves(d, e)
  BY <1>2, <1>3 DEF Preserves
<1>8. QED
  BY <1>1, <1>2, <1>3, <1>4, <1>6, <1>7 DEF Good

\* A row is inserted for a reserved ticket that has none.
LEMMA InsertGood ==
  ASSUME NEW d \in Databases, NEW e, Good(d), NEW id \in ReservationIds, NEW u \in Users,
         NEW t \in Tickets, ConcertOf[t] \in d.listed, d.tickets[t] = "RESERVED",
         IsNextId(d.reservations, id), TicketIdIsFree(d.reservations, t),
         e.listed = d.listed, e.stock = d.stock, e.tickets = d.tickets,
         e.reservations = InsertReservation(d.reservations, id, u, t, ConcertOf[t])
  PROVE  Good(e) /\ Preserves(d, e) /\ Owns(e, id, u, t)
<1> DEFINE row == [userId |-> u, ticketId |-> t, concertId |-> ConcertOf[t],
                   status |-> "PENDING", left |-> TTL]
<1>1. \A i \in ReservationIds :
        e.reservations[i] = IF i = id THEN row ELSE d.reservations[i]
  BY DEF InsertReservation, Databases, ReservationTable
<1>2. ~IsRow(d.reservations, id)
  BY TablesAssumption DEF IsNextId
<1>3. /\ row.userId = u /\ row.ticketId = t /\ row.concertId = ConcertOf[t]
      /\ row.status = "PENDING"
  OBVIOUS
<1> HIDE DEF row
<1>4. \A i \in ReservationIds :
        /\ IsRow(e.reservations, i) <=> i = id \/ IsRow(d.reservations, i)
        /\ IsPending(e.reservations, i) <=> i = id \/ IsPending(d.reservations, i)
        /\ e.reservations[i].status = "COMPLETED" <=> d.reservations[i].status = "COMPLETED"
  BY <1>1, <1>2, <1>3 DEF IsRow, IsPending
<1>5. UniqueTicketIds(e.reservations)
  BY <1>1, <1>3, <1>4 DEF Good, Agree, UniqueTicketIds, TicketIdIsFree
<1>6. Agree(e, {})
  <2>1. \A i \in ReservationIds : IsRow(e.reservations, i) =>
           /\ e.reservations[i].concertId = ConcertOf[e.reservations[i].ticketId]
           /\ e.reservations[i].concertId \in e.listed
    BY <1>1, <1>3, <1>4 DEF Good, Agree
  <2>2. \A i \in ReservationIds :
           /\ IsPending(e.reservations, i) => e.tickets[e.reservations[i].ticketId] = "RESERVED"
           /\ e.reservations[i].status = "COMPLETED" =>
                e.tickets[e.reservations[i].ticketId] = "SOLD"
    BY <1>1, <1>3, <1>4 DEF Good, Agree
  <2>3. \A s \in Tickets : e.tickets[s] = "SOLD" =>
           \E i \in ReservationIds :
             e.reservations[i].status = "COMPLETED" /\ e.reservations[i].ticketId = s
    <3>1. \A i \in ReservationIds : d.reservations[i].status = "COMPLETED" =>
            e.reservations[i] = d.reservations[i]
      BY <1>1, <1>2 DEF IsRow
    <3>2. QED
      BY <3>1 DEF Good, Agree
  <2>4. QED
    BY <1>5, <2>1, <2>2, <2>3 DEF Agree
<1>7. Exact(e)
  BY DEF Good, Exact
<1>8. Preserves(d, e) /\ Owns(e, id, u, t)
  BY <1>1, <1>2, <1>3, <1>4 DEF Preserves, Owns
<1>9. QED
  BY <1>6, <1>7, <1>8 DEF Good

\* The status of a pending row is changed.
LEMMA StatusGood ==
  ASSUME NEW d \in Databases, NEW e, Good(d), NEW i \in ReservationIds,
         IsPending(d.reservations, i), NEW status \in {"COMPLETED", "CANCELLED"},
         e.listed = d.listed, e.stock = d.stock, e.tickets = d.tickets,
         e.reservations = StatusSet(d.reservations, i, status)
  PROVE  /\ status = "COMPLETED" => Agree(e, {i})
         /\ status = "CANCELLED" => Agree(e, {})
         /\ Exact(e)
         /\ Preserves(d, e)
         /\ Alike(e.reservations[i], WithStatus(d.reservations[i], status))
         /\ \A j \in ReservationIds \ {i} : e.reservations[j] = d.reservations[j]
         /\ e.reservations[i].status = status
         /\ Owns(e, i, d.reservations[i].userId, d.reservations[i].ticketId)
         /\ d.reservations[i].ticketId \in Tickets
         /\ e.tickets[d.reservations[i].ticketId] = "RESERVED"
<1>1. d.reservations[i] \in ReservationRows
  BY RowFacts DEF IsPending, IsRow
<1>2. /\ e.reservations[i] = WithStatus(d.reservations[i], status)
      /\ \A j \in ReservationIds \ {i} : e.reservations[j] = d.reservations[j]
  BY DEF Databases, ReservationTable, StatusSet
<1>3. /\ e.reservations[i].status = status
      /\ e.reservations[i].userId = d.reservations[i].userId
      /\ e.reservations[i].ticketId = d.reservations[i].ticketId
      /\ e.reservations[i].concertId = d.reservations[i].concertId
  BY <1>1, <1>2 DEF ReservationRows, WithStatus
<1>4. /\ \A j \in ReservationIds :
           /\ IsRow(e.reservations, j) <=> IsRow(d.reservations, j)
           /\ e.reservations[j].ticketId = d.reservations[j].ticketId
           /\ e.reservations[j].userId = d.reservations[j].userId
           /\ e.reservations[j].concertId = d.reservations[j].concertId
      /\ \A j \in ReservationIds \ {i} : e.reservations[j].status = d.reservations[j].status
      /\ d.reservations[i].status = "PENDING" /\ e.reservations[i].status = status
  BY <1>2, <1>3 DEF IsRow, IsPending
<1>5. Agree(e, IF status = "COMPLETED" THEN {i} ELSE {})
  <2>1. UniqueTicketIds(e.reservations)
    BY <1>4 DEF Good, Agree, UniqueTicketIds
  <2>2. \A j \in ReservationIds : IsRow(e.reservations, j) =>
           /\ e.reservations[j].concertId = ConcertOf[e.reservations[j].ticketId]
           /\ e.reservations[j].concertId \in e.listed
    BY <1>4 DEF Good, Agree
  <2>3. \A j \in ReservationIds :
           /\ IsPending(e.reservations, j) \/ (status = "COMPLETED" /\ j = i) =>
                e.tickets[e.reservations[j].ticketId] = "RESERVED"
           /\ e.reservations[j].status = "COMPLETED" /\ ~(status = "COMPLETED" /\ j = i) =>
                e.tickets[e.reservations[j].ticketId] = "SOLD"
    BY <1>4 DEF Good, Agree, IsPending
  <2>4. \A t \in Tickets : e.tickets[t] = "SOLD" =>
           \E j \in ReservationIds :
             e.reservations[j].status = "COMPLETED" /\ e.reservations[j].ticketId = t
    <3>1. \A j \in ReservationIds : d.reservations[j].status = "COMPLETED" =>
            e.reservations[j] = d.reservations[j]
      BY <1>2, <1>4
    <3>2. QED
      BY <3>1 DEF Good, Agree
  <2>5. QED
    BY <2>1, <2>2, <2>3, <2>4 DEF Agree
<1>6. Exact(e)
  BY DEF Good, Exact
<1>7. Preserves(d, e) /\ Owns(e, i, d.reservations[i].userId, d.reservations[i].ticketId)
  BY <1>4 DEF Preserves, Owns, IsPending, IsRow
<1>8. /\ d.reservations[i].ticketId \in Tickets
      /\ e.tickets[d.reservations[i].ticketId] = "RESERVED"
  BY <1>1 DEF Good, Agree, ReservationRows
<1>9. Alike(e.reservations[i], WithStatus(d.reservations[i], status))
  BY <1>2 DEF Alike
<1>10. QED
  BY <1>2, <1>3, <1>5, <1>6, <1>7, <1>8, <1>9

\* The ticket of a completed row is sold.
LEMMA SellGood ==
  ASSUME NEW d \in Databases, NEW e, NEW i \in ReservationIds, NEW t,
         Agree(d, {i}), Exact(d), d.reservations[i].status = "COMPLETED",
         t = d.reservations[i].ticketId,
         e.listed = d.listed, e.stock = d.stock, e.reservations = d.reservations,
         e.tickets = SetTicketStatus(d.tickets, {t}, "SOLD")
  PROVE  Good(e) /\ Preserves(d, e)
<1>1. t \in Tickets /\ d.tickets[t] = "RESERVED" /\ IsRow(d.reservations, i)
  <2>1. IsRow(d.reservations, i)
    BY DEF IsRow
  <2>2. d.reservations[i] \in ReservationRows
    BY <2>1, RowFacts
  <2>3. QED
    BY <2>1, <2>2 DEF Agree, ReservationRows
<1>2. \A s \in Tickets : e.tickets[s] = IF s = t THEN "SOLD" ELSE d.tickets[s]
  BY DEF SetTicketStatus
<1>3. \A j \in ReservationIds : IsRow(d.reservations, j) => d.reservations[j].ticketId \in Tickets
  BY RowFacts DEF ReservationRows
<1>4. \A j \in ReservationIds : IsRow(d.reservations, j) /\ d.reservations[j].ticketId = t => j = i
  BY <1>1 DEF Agree, UniqueTicketIds
<1>5. Agree(e, {})
  <2>1. ASSUME NEW j \in ReservationIds, IsPending(d.reservations, j)
        PROVE  e.tickets[d.reservations[j].ticketId] = "RESERVED"
    <3>1. j # i /\ IsRow(d.reservations, j)
      BY <2>1 DEF IsPending, IsRow
    <3>2. d.reservations[j].ticketId # t /\ d.reservations[j].ticketId \in Tickets
      BY <3>1, <1>3, <1>4
    <3>3. d.tickets[d.reservations[j].ticketId] = "RESERVED"
      BY <2>1 DEF Agree
    <3>4. QED
      BY <3>2, <3>3, <1>2
  <2>2. ASSUME NEW j \in ReservationIds, d.reservations[j].status = "COMPLETED"
        PROVE  e.tickets[d.reservations[j].ticketId] = "SOLD"
    <3>1. IsRow(d.reservations, j) /\ d.reservations[j].ticketId \in Tickets
      BY <2>2, <1>3 DEF IsRow
    <3>2. j # i => d.tickets[d.reservations[j].ticketId] = "SOLD"
      BY <2>2 DEF Agree
    <3>3. QED
      BY <3>1, <3>2, <1>2
  <2>3. /\ \A j \in ReservationIds : IsRow(e.reservations, j) =>
             /\ e.reservations[j].concertId = ConcertOf[e.reservations[j].ticketId]
             /\ e.reservations[j].concertId \in e.listed
        /\ UniqueTicketIds(e.reservations)
    BY DEF Agree
  <2>4. \A j \in ReservationIds :
          /\ IsPending(e.reservations, j) => e.tickets[e.reservations[j].ticketId] = "RESERVED"
          /\ e.reservations[j].status = "COMPLETED" =>
               e.tickets[e.reservations[j].ticketId] = "SOLD"
    BY <2>1, <2>2
  <2>5. \A s \in Tickets : e.tickets[s] = "SOLD" =>
          \E j \in ReservationIds :
            e.reservations[j].status = "COMPLETED" /\ e.reservations[j].ticketId = s
    BY <1>1, <1>2 DEF Agree
  <2>6. QED
    BY <2>3, <2>4, <2>5 DEF Agree
<1>6. Exact(e)
  BY <1>1, SoldCount DEF Exact
<1>7. Preserves(d, e)
  BY <1>2 DEF Preserves
<1>8. QED
  BY <1>5, <1>6, <1>7 DEF Good

\* The ticket of a cancelled row is freed.
LEMMA FreeGood ==
  ASSUME NEW d \in Databases, NEW e, NEW i \in ReservationIds, NEW t,
         Good(d), d.reservations[i].status = "CANCELLED", t = d.reservations[i].ticketId,
         d.tickets[t] = "RESERVED",
         e.listed = d.listed, e.stock = d.stock, e.reservations = d.reservations,
         e.tickets = SetTicketStatus(d.tickets, {t}, "AVAILABLE")
  PROVE  Agree(e, {}) /\ Counted(e, d.reservations[i].concertId, 1) /\ Preserves(d, e)
<1>1. t \in Tickets /\ IsRow(d.reservations, i) /\ d.reservations[i].concertId = ConcertOf[t]
  <2>1. IsRow(d.reservations, i)
    BY DEF IsRow
  <2>2. d.reservations[i] \in ReservationRows
    BY <2>1, RowFacts
  <2>3. QED
    BY <2>1, <2>2 DEF Good, Agree, ReservationRows
<1>2. \A s \in Tickets : e.tickets[s] = IF s = t THEN "AVAILABLE" ELSE d.tickets[s]
  BY DEF SetTicketStatus
<1>3. \A j \in ReservationIds : IsRow(d.reservations, j) => d.reservations[j].ticketId \in Tickets
  BY RowFacts DEF ReservationRows
<1>4. \A j \in ReservationIds : IsRow(d.reservations, j) /\ d.reservations[j].ticketId = t => j = i
  BY <1>1 DEF Good, Agree, UniqueTicketIds
<1>5. Agree(e, {})
  <2>1. ASSUME NEW j \in ReservationIds,
               IsPending(d.reservations, j) \/ d.reservations[j].status = "COMPLETED"
        PROVE  e.tickets[d.reservations[j].ticketId] = d.tickets[d.reservations[j].ticketId]
    <3>1. j # i /\ IsRow(d.reservations, j)
      BY <2>1 DEF IsPending, IsRow
    <3>2. d.reservations[j].ticketId # t /\ d.reservations[j].ticketId \in Tickets
      BY <3>1, <1>3, <1>4
    <3>3. QED
      BY <3>2, <1>2
  <2>2. \A j \in ReservationIds :
          /\ IsPending(d.reservations, j) => d.tickets[d.reservations[j].ticketId] = "RESERVED"
          /\ d.reservations[j].status = "COMPLETED" =>
               d.tickets[d.reservations[j].ticketId] = "SOLD"
    BY DEF Good, Agree
  <2>3. /\ \A j \in ReservationIds : IsRow(e.reservations, j) =>
             /\ e.reservations[j].concertId = ConcertOf[e.reservations[j].ticketId]
             /\ e.reservations[j].concertId \in e.listed
        /\ UniqueTicketIds(e.reservations)
    BY DEF Good, Agree
  <2>4. \A j \in ReservationIds :
          /\ IsPending(e.reservations, j) => e.tickets[e.reservations[j].ticketId] = "RESERVED"
          /\ e.reservations[j].status = "COMPLETED" =>
               e.tickets[e.reservations[j].ticketId] = "SOLD"
    BY <2>1, <2>2
  <2>5. \A s \in Tickets : e.tickets[s] = "SOLD" =>
          \E j \in ReservationIds :
            e.reservations[j].status = "COMPLETED" /\ e.reservations[j].ticketId = s
    BY <1>2 DEF Good, Agree
  <2>6. QED
    BY <2>3, <2>4, <2>5 DEF Agree
<1>6. Counted(e, ConcertOf[t], 1)
  <2>1. SUFFICES ASSUME NEW k \in d.listed
                 PROVE  d.stock[k] + (IF k = ConcertOf[t] THEN 1 ELSE 0) =
                          Cardinality(OnSale(e.tickets, k))
    BY DEF Counted
  <2>2. d.stock[k] = Cardinality(OnSale(d.tickets, k)) /\ d.stock[k] \in Nat
    BY DEF Good, Exact, Databases
  <2>3. k = ConcertOf[t] =>
          Cardinality(OnSale(e.tickets, k)) = Cardinality(OnSale(d.tickets, k)) + 1
    BY <1>1, FreedCount
  <2>4. k # ConcertOf[t] => OnSale(e.tickets, k) = OnSale(d.tickets, k)
    BY <1>1, FreedCount
  <2>5. QED
    BY <2>2, <2>3, <2>4
<1>7. Preserves(d, e)
  BY <1>1, <1>2 DEF Preserves
<1>8. QED
  BY <1>1, <1>5, <1>6, <1>7

\* Stock moved between the counter and the tickets a function holds.
LEMMA StockGood ==
  ASSUME db \in Databases, NEW c \in db.listed, NEW n \in Int, NEW k \in Int,
         Agree(db, {}), Counted(db, c, k)
  PROVE  /\ Agree(StockMoved(c, n), {}) /\ Counted(StockMoved(c, n), c, k - n)
         /\ Preserves(db, StockMoved(c, n))
<1> DEFINE e == StockMoved(c, n)
<1>1. /\ e.listed = db.listed /\ e.stock = AddStock(db.stock, c, n)
      /\ e.tickets = db.tickets /\ e.reservations = db.reservations
  BY StockMovedFields
<1> HIDE DEF e
<1>2. Agree(e, {})
  BY <1>1 DEF Agree
<1>3. Preserves(db, e)
  BY <1>1, PreservesSame
<1>4. Counted(e, c, k - n)
  <2>1. SUFFICES ASSUME NEW j \in db.listed
                 PROVE  e.stock[j] + (IF j = c THEN k - n ELSE 0) =
                          Cardinality(OnSale(db.tickets, j))
    BY <1>1 DEF Counted
  <2>2. db.stock[j] \in Nat /\ j \in DOMAIN db.stock
    BY DEF Databases
  <2>3. e.stock[j] = IF j = c THEN db.stock[j] + n ELSE db.stock[j]
    BY <1>1, <2>2 DEF AddStock
  <2>4. db.stock[j] + (IF j = c THEN k ELSE 0) = Cardinality(OnSale(db.tickets, j))
    BY DEF Counted
  <2>5. QED
    BY <2>2, <2>3, <2>4
<1>5. QED
  BY <1>2, <1>3, <1>4 DEF e

\* The counters are right when no unit is missing.
LEMMA ExactCount ==
  ASSUME NEW d \in Databases, NEW c
  PROVE  Exact(d) <=> Counted(d, c, 0)
<1>1. \A k \in d.listed : d.stock[k] \in Nat
  BY DEF Databases
<1>2. QED
  BY <1>1 DEF Exact, Counted

-----------------------------------------------------------------------------
(* A function that runs has the connection to itself.                       *)

\* Nothing is asked of a function that rolls back or does not run, and only its own
\* part of one that does.
LEMMA FineWhere ==
  ASSUME NEW d, NEW label, NEW s, NEW r, NEW m, NEW v
  PROVE  /\ label \in Outside \cup {"giveback", "rollback"} => FineAt(d, label, s, r, m, v)
         /\ label \in ReserveLabels /\ ReserveFine(d, label, s, r, m) =>
              FineAt(d, label, s, r, m, v)
         /\ label \in {"findRow", "saveRow", "saveTicket"} /\ PurchaseFine(d, label, s, r, m) =>
              FineAt(d, label, s, r, m, v)
         /\ label \in {"findExpired", "cancelRow", "freeTicket", "addStock"}
              /\ CleanupFine(d, label, s, m) => FineAt(d, label, s, r, m, v)
         /\ EndFine(d, "commit", r, m, v) => FineAt(d, "commit", s, r, m, v)
BY DEF FineAt, ReserveFine, PurchaseFine, CleanupFine, EndFine, ReserveLabels, Outside

\* What a function in its transaction knows.
LEMMA InsideFacts ==
  ASSUME Kept, OneAtATime, NEW p \in Processes, InTransaction(p)
  PROVE  /\ undo # <<>> /\ Len(undo) = 1 /\ depth = 1 /\ active /\ ~saving[p].own
         /\ db \in Databases /\ disk \in Databases
         /\ \A o \in Processes \ {p} : ~IsRunning(o)
         /\ Good(disk) /\ Preserves(disk, db) /\ AckedOnDisk
         /\ FineAt(db, pc[p], saving[p], request[p], local[p], verdict[p])
<1>1. Inv /\ Sound
  BY DEF Kept
<1>2. Len(undo) = 1 /\ depth = 1 /\ active /\ ~saving[p].own
  BY <1>1 DEF Sound, Settled
<1>3. db \in Databases /\ disk \in Databases /\ undo # <<>>
  BY <1>1, <1>2, StackFacts DEF Inv, TypeOK, ConnectionOK
<1>4. \A o \in Processes \ {p} : ~IsRunning(o)
  BY DEF OneAtATime, IsRunning, InTransaction
<1>5. QED
  BY <1>1, <1>2, <1>3, <1>4 DEF Sound, Fine

\* A statement leaves the stack and the file alone.
InPlace == disk' = disk /\ undo' = undo /\ depth' = depth /\ active' = active

LEMMA Inside1 ==
  ASSUME undo # <<>>
  PROVE  /\ Select => InPlace /\ db' = db /\ Preserves(db, db')
         /\ \A new : Execute(new) => InPlace /\ db' = new
         /\ \A new : Write(new) /\ active' = active => InPlace /\ db' = new
         /\ Load /\ active' = active => InPlace /\ db' = db /\ Preserves(db, db')
BY PreservesSame DEF Select, connection, Execute, Write, Load, InPlace

\* It may go anywhere inside with what is true there.
LEMMA InsideMove ==
  ASSUME Kept, OneAtATime, NEW p \in Processes, InTransaction(p),
         NEW label \in Inside, NEW s \in Saves, NEW m,
         GotoStage(p, label, s), Keeping(p, m), UNCHANGED <<request, acked>>,
         InPlace, Preserves(db, db'), ~s.own,
         label \in {"commit", "rollback"} => read'[p] = 1,
         FineAt(db', label, s, request[p], m, verdict'[p])
  PROVE  Sound'
<1>1. /\ Len(undo) = 1 /\ depth = 1 /\ active
      /\ \A o \in Processes \ {p} : ~IsRunning(o)
      /\ Good(disk) /\ Preserves(disk, db) /\ AckedOnDisk
  BY InsideFacts
<1>2. /\ \A o \in Processes : pc'[o] = IF o = p THEN label ELSE pc[o]
      /\ \A o \in Processes : saving'[o] = IF o = p THEN s ELSE saving[o]
  BY BusyMoves DEF Kept, Inv, TypeOK, ControlOK, Inside
<1>3. label \notin Outside
  BY DEF Inside
<1>4. \A o \in Processes \ {p} : pc'[o] \in {"idle", "waiting"}
  BY <1>1, <1>2 DEF IsRunning
<1>5. Settled'
  BY <1>1, <1>2, <1>3, <1>4 DEF Settled, InTransaction, InPlace, Outside
<1>6. Fine(p)'
  <2>1. pc'[p] = label /\ saving'[p] = s /\ request'[p] = request[p] /\ local'[p] = m
    BY <1>2 DEF Keeping
  <2>2. QED
    BY <2>1 DEF Fine
<1>7. \A o \in Processes \ {p} : Fine(o)'
  BY <1>4, FineWhere DEF Fine, Outside
<1>8. Good(disk)' /\ AckedOnDisk' /\ Preserves(disk, db)'
  BY <1>1, PreservesOn DEF InPlace, AckedOnDisk
<1>9. QED
  BY <1>5, <1>6, <1>7, <1>8 DEF Sound

\* To its next statement ...
LEMMA InsideProceed ==
  ASSUME Kept, OneAtATime, NEW p \in Processes, InTransaction(p), InPlace, Preserves(db, db'),
         NEW label \in Inside \ {"commit", "rollback"}, NEW m, Proceed(p, m, label),
         FineAt(db', label, NoSave, request[p], m, verdict[p])
  PROVE  Sound'
<1>1. /\ GotoStage(p, label, NoSave) /\ Keeping(p, m)
      /\ UNCHANGED <<request, acked>> /\ verdict'[p] = verdict[p]
  BY Keeps DEF Proceed, Goto, Rest, Kept
<1>2. NoSave \in Saves /\ ~NoSave.own
  BY NoSaveFacts DEF NoSave
<1>3. QED
  BY <1>1, <1>2, InsideMove

\* ... to the next statement of a save ...
LEMMA InsideStage ==
  ASSUME Kept, OneAtATime, NEW p \in Processes, InTransaction(p), InPlace, Preserves(db, db'),
         pc[p] \in Sites, NEW stage \in Stages, Stage(p, stage), NEW m, Keeping(p, m),
         UNCHANGED <<verdict, Rest>>,
         FineAt(db', pc[p], [saving[p] EXCEPT !.stage = stage], request[p], m, verdict[p])
  PROVE  Sound'
<1> DEFINE s == [saving[p] EXCEPT !.stage = stage]
<1>1. s \in Saves /\ ~s.own
  BY UnitFacts, InsideFacts DEF Kept, Saves
<1>2. GotoStage(p, pc[p], s) /\ UNCHANGED <<request, acked>>
  BY DEF Stage, Rest
<1>3. pc[p] \in Inside \ {"commit", "rollback"}
  BY DEF Sites, Inside, Labels, Outside
<1> HIDE DEF s
<1>4. QED
  BY <1>1, <1>2, <1>3, InsideMove DEF s

LEMMA InsidePersist ==
  ASSUME Kept, OneAtATime, NEW p \in Processes, InTransaction(p), InPlace, Preserves(db, db'),
         NEW label \in Sites, NEW old \in ReservationRows \cup {NoRow} \cup [status: TicketStatuses],
         Persist(p, label, old),
         FineAt(db', label, [stage |-> "write", own |-> FALSE, old |-> old],
                request[p], local[p], verdict[p])
  PROVE  Sound'
<1> DEFINE s == [stage |-> "write", own |-> FALSE, old |-> old]
<1>1. s \in Saves /\ ~s.own
  BY DEF Saves, Stages
<1>2. GotoStage(p, label, s) /\ UNCHANGED <<request, acked, verdict, local>>
  BY InsideFacts DEF Persist, Rest
<1>3. label \in Inside \ {"commit", "rollback"}
  BY DEF Sites, Inside, Labels, Outside
<1>4. Keeping(p, local[p])
  BY <1>2, Keeps DEF Kept
<1> HIDE DEF s
<1>5. QED
  BY <1>1, <1>2, <1>3, <1>4, InsideMove DEF s

\* ... or to its end.
LEMMA InsideSend ==
  ASSUME Kept, OneAtATime, NEW p \in Processes, InTransaction(p), InPlace, Preserves(db, db'),
         NEW label \in {"commit", "rollback"}, NEW m, NEW v, Send(p, label, m, v),
         FineAt(db', label, NoSave, request[p], m, v)
  PROVE  Sound'
<1>1. active' /\ depth' = 1
  BY InsideFacts DEF InPlace
<1>2. /\ GotoStage(p, label, NoSave) /\ Keep(p, m) /\ Decide(p, v)
      /\ read' = [read EXCEPT ![p] = 1] /\ UNCHANGED <<request, acked>>
  BY <1>1 DEF Send, Goto, Rest
<1>3. verdict'[p] = v /\ read'[p] = 1 /\ Keeping(p, m)
  BY <1>2, Keeps DEF Decide, Kept, Inv, TypeOK
<1>4. NoSave \in Saves /\ ~NoSave.own
  BY NoSaveFacts DEF NoSave
<1>5. label \in Inside
  BY DEF Inside, Labels, Outside
<1>6. QED
  BY <1>2, <1>3, <1>4, <1>5, InsideMove

LEMMA InsideSucceed ==
  ASSUME Kept, OneAtATime, NEW p \in Processes, InTransaction(p), InPlace, Preserves(db, db'),
         NEW m, NEW v, Succeed(p, v, m), EndFine(db', "commit", request[p], m, v)
  PROVE  Sound'
BY FineWhere, InsideSend DEF Succeed

LEMMA InsideThrow ==
  ASSUME Kept, OneAtATime, NEW p \in Processes, InTransaction(p), InPlace, Preserves(db, db'),
         NEW v, Throw(p, v)
  PROVE  Sound'
BY FineWhere, InsideSend DEF Throw

\* A save that fails has no savepoint to roll back.
LEMMA InsideSaveFails ==
  ASSUME Kept, OneAtATime, NEW p \in Processes, InTransaction(p), SaveFails(p)
  PROVE  Sound'
BY InsideFacts, Inside1, InsideThrow DEF SaveFails

-----------------------------------------------------------------------------
(* Reserve. *)

LEMMA ReserveKept ==
  ASSUME Kept, OneAtATime, NEW p \in Processes,
         \/ Find(p) \/ Take(p) \/ Diagnose(p) \/ Pick(p)
         \/ GiveBack(p) \/ Mark(p) \/ Insert(p)
  PROVE  Sound'
<1> DEFINE r == request[p]
           c == request[p].concert
           q == request[p].quantity
<1>1. pc[p] \in ReserveLabels
  BY DEF Find, Take, Diagnose, Pick, GiveBack, Mark, Insert, Saving, At, ReserveLabels
<1>2. /\ InTransaction(p) /\ r \in Requests /\ c \in Concerts /\ r.user \in Users /\ q \in Nat
  BY <1>1, ReserveFacts DEF Kept
<1>3. /\ undo # <<>> /\ db \in Databases
      /\ FineAt(db, pc[p], saving[p], r, local[p], verdict[p])
  BY <1>2, InsideFacts
<1>4. ReserveFine(db, pc[p], saving[p], r, local[p])
  BY <1>3 DEF FineAt
<1>5. ASSUME InPlace, db' = db, NEW v, Throw(p, v)
      PROVE  Sound'
  BY <1>2, <1>5, PreservesSame, InsideThrow
<1>6. ASSUME InPlace, Preserves(db, db'), NEW label \in {"take", "diagnose", "pick", "giveback", "mark"},
             NEW m, Proceed(p, m, label), ReserveFine(db', label, NoSave, r, m)
      PROVE  Sound'
  <2>1. label \in ReserveLabels /\ label \in Inside \ {"commit", "rollback"}
    BY DEF ReserveLabels, Inside, Labels, Outside
  <2>2. FineAt(db', label, NoSave, r, m, verdict[p])
    BY <1>6, <2>1, FineWhere
  <2>3. QED
    BY <1>2, <1>6, <2>1, <2>2, InsideProceed
<1>7. CASE Find(p)
  <2>1. pc[p] = "find" /\ InPlace /\ db' = db /\ Preserves(db, db')
    BY <1>3, <1>7, Inside1 DEF Find, At
  <2>2. CASE Throw(p, "NotFoundError")
    BY <2>1, <2>2, <1>5
  <2>3. CASE c \in db.listed /\ Proceed(p, [version |-> db.version[c]], "take")
    <3>1. ReserveFine(db', "take", NoSave, r, [version |-> db.version[c]])
      BY <1>4, <2>1, <2>3 DEF ReserveFine
    <3>2. QED
      BY <2>1, <2>3, <3>1, <1>6
  <2>4. QED
    BY <1>7, <2>2, <2>3 DEF Find
<1>8. CASE Take(p)
  <2>1. pc[p] = "take" /\ Good(db) /\ c \in db.listed
    BY <1>4, <1>8 DEF Take, At, ReserveFine
  <2>2. CASE Execute(StockMoved(c, -q)) /\ Continue(p, "pick")
    <3>1. InPlace /\ db' = StockMoved(c, -q)
      BY <1>3, <2>2, Inside1
    <3>2. Agree(db, {}) /\ Counted(db, c, 0)
      BY <1>3, <2>1, ExactCount DEF Good
    <3>3. -q \in Int /\ 0 - (-q) = q
      BY <1>2
    <3>4. Agree(db', {}) /\ Counted(db', c, q) /\ Preserves(db, db')
      BY <1>3, <2>1, <3>1, <3>2, <3>3, StockGood
    <3>5. c \in db'.listed
      BY <1>3, <2>1, <3>1, StockMovedFields
    <3>6. ReserveFine(db', "pick", NoSave, r, local[p])
      BY <3>4, <3>5 DEF ReserveFine
    <3>7. QED
      BY <2>2, <3>1, <3>4, <3>6, <1>6 DEF Continue
  <2>3. CASE Select /\ Throw(p, "ConflictError")
    BY <1>3, <1>5, <2>3, Inside1
  <2>4. CASE Select /\ Proceed(p, Nothing, "diagnose")
    <3>1. InPlace /\ db' = db /\ Preserves(db, db')
      BY <1>3, <2>4, Inside1
    <3>2. ReserveFine(db', "diagnose", NoSave, r, Nothing)
      BY <2>1, <3>1 DEF ReserveFine
    <3>3. QED
      BY <2>4, <3>1, <3>2, <1>6
  <2>5. QED
    BY <1>8, <2>2, <2>3, <2>4 DEF Take
<1>9. CASE Diagnose(p)
  BY <1>3, <1>5, <1>9, Inside1 DEF Diagnose
<1>10. CASE Pick(p)
  <2>1. pc[p] = "pick" /\ InPlace /\ db' = db /\ Preserves(db, db')
    BY <1>3, <1>10, Inside1 DEF Pick, At
  <2>2. CASE Proceed(p, Nothing, "giveback")
    <3>1. ReserveFine(db', "giveback", NoSave, r, Nothing)
      BY DEF ReserveFine
    <3>2. QED
      BY <2>1, <2>2, <3>1, <1>6
  <2>3. CASE \E b \in CheapestFirst(AvailableTickets(db.tickets, c), q) : Proceed(p, b, "mark")
    <3>1. PICK b \in CheapestFirst(AvailableTickets(db.tickets, c), q) : Proceed(p, b, "mark")
      BY <2>3
    <3>2. ReserveFine(db', "mark", NoSave, r, b)
      BY <1>4, <2>1 DEF ReserveFine
    <3>3. QED
      BY <2>1, <3>1, <3>2, <1>6
  <2>4. QED
    BY <1>10, <2>2, <2>3 DEF Pick
<1>11. CASE GiveBack(p)
  <2>1. InPlace /\ db' = StockMoved(c, q)
    BY <1>3, <1>11, Inside1 DEF GiveBack
  <2>2. Preserves(db, db')
    BY <1>3, <2>1, StockMovedFields, PreservesSame
  <2>3. QED
    BY <1>2, <1>11, <2>1, <2>2, InsideThrow DEF GiveBack
<1>12. CASE Mark(p)
  <2> DEFINE ids == local[p].ids
             s == [stage |-> "write", own |-> FALSE, old |-> NoRow]
  <2>1. /\ c \in db.listed /\ Agree(db, {}) /\ Counted(db, c, q)
        /\ local[p] \in CheapestFirst(AvailableTickets(db.tickets, c), q)
    BY <1>4, <1>12 DEF Mark, At, ReserveFine
  <2>2. active' = active
    BY <1>2, <1>12, InsideFacts DEF Mark, Persist
  <2>3. InPlace /\ db' = [db EXCEPT !.tickets = SetTicketStatus(@, ids, "RESERVED")]
    BY <1>3, <1>12, <2>2, Inside1 DEF Mark
  <2>4. /\ db'.listed = db.listed /\ db'.stock = db.stock
        /\ db'.reservations = db.reservations
        /\ db'.tickets = SetTicketStatus(db.tickets, ids, "RESERVED")
    BY <1>3, <2>3 DEF Databases
  <2>5. /\ Good(db') /\ Preserves(db, db')
        /\ local[p].first \in Tickets /\ ConcertOf[local[p].first] = c
        /\ db'.tickets[local[p].first] = "RESERVED"
    BY <1>2, <1>3, <2>1, <2>4, MarkGood
  <2>6. ReserveFine(db', "insert", s, r, local[p])
    BY <2>1, <2>4, <2>5 DEF ReserveFine
  <2>7. FineAt(db', "insert", s, r, local[p], verdict[p])
    BY <2>6, FineWhere DEF ReserveLabels
  <2>8. Persist(p, "insert", NoRow) /\ "insert" \in Sites
    BY <1>12 DEF Mark, Sites
  <2>9. QED
    BY <1>2, <2>3, <2>5, <2>7, <2>8, InsidePersist
<1>13. CASE Insert(p)
  <2> DEFINE t == local[p].first
  <2>1. /\ pc[p] = "insert" /\ saving[p].stage = "write"
        /\ Good(db) /\ c \in db.listed
        /\ t \in Tickets /\ ConcertOf[t] = c /\ db.tickets[t] = "RESERVED"
    BY <1>4, <1>13 DEF Insert, Saving, At, ReserveFine
  <2>2. CASE SaveFails(p)
    BY <1>2, <2>2, InsideSaveFails
  <2>3. ASSUME TicketIdIsFree(db.reservations, t), NEW id \in ReservationIds,
               IsNextId(db.reservations, id),
               Execute([db EXCEPT !.reservations = InsertReservation(@, id, r.user, t, c)]),
               Keep(p, [id |-> id, first |-> t]), Stage(p, "reload"),
               UNCHANGED <<verdict, read, Rest>>
        PROVE  Sound'
    <3> DEFINE m == [id |-> id, first |-> t]
               s == [saving[p] EXCEPT !.stage = "reload"]
    <3>1. /\ InPlace
          /\ db' = [db EXCEPT !.reservations = InsertReservation(@, id, r.user, t, c)]
      BY <1>3, <2>3, Inside1
    <3>2. /\ db'.listed = db.listed /\ db'.stock = db.stock /\ db'.tickets = db.tickets
          /\ db'.reservations = InsertReservation(db.reservations, id, r.user, t, ConcertOf[t])
      BY <1>3, <2>1, <3>1 DEF Databases
    <3>3. Good(db') /\ Preserves(db, db') /\ Owns(db', id, r.user, t)
      BY <1>2, <1>3, <2>1, <2>3, <3>2, InsertGood
    <3>4. s.stage = "reload"
      BY <1>2, UnitFacts DEF Kept, Saves
    <3>5. ReserveFine(db', "insert", s, r, m)
      BY <2>1, <3>2, <3>3, <3>4 DEF ReserveFine
    <3>6. FineAt(db', pc[p], s, r, m, verdict[p])
      BY <2>1, <3>5, FineWhere DEF ReserveLabels
    <3>7. Keeping(p, m) /\ pc[p] \in Sites /\ "reload" \in Stages
      BY <2>1, <2>3, Keeps DEF Kept, Sites, Stages
    <3>8. QED
      BY <1>2, <2>3, <3>1, <3>3, <3>6, <3>7, InsideStage
  <2>4. QED
    BY <1>13, <2>2, <2>3 DEF Insert
<1>14. QED
  BY <1>7, <1>8, <1>9, <1>10, <1>11, <1>12, <1>13

-----------------------------------------------------------------------------
(* The save() of a row, and purchase. *)

\* A row that was pending when it was read and is to get another status has to be
\* written, and what is written is the status.
LEMMA WritesStatus ==
  ASSUME NEW now \in ReservationRows, NEW old \in ReservationRows, NEW m \in ReservationRows,
         Alike(now, m), Alike(old, m), NEW status, m.status # status
  PROVE  /\ ~NothingToWrite(old, WithStatus(m, status))
         /\ Updated(now, old, WithStatus(m, status)) = WithStatus(now, status)
<1> DEFINE row == WithStatus(m, status)
<1>1. /\ row.userId = m.userId /\ row.ticketId = m.ticketId
      /\ row.concertId = m.concertId /\ row.status = status
  BY DEF ReservationRows, WithStatus
<1>2. old # NoRow /\ now # NoRow
  BY DEF ReservationRows, ReservationStatuses, NoRow
<1>3. [row EXCEPT !.left = old.left].status = status
  BY DEF ReservationRows, WithStatus
<1>4. ~NothingToWrite(old, row)
  BY <1>3 DEF NothingToWrite, Alike
<1>5. WithStatus(now, status) =
        [userId |-> now.userId, ticketId |-> now.ticketId, concertId |-> now.concertId,
         status |-> status, left |-> now.left]
  BY DEF ReservationRows, WithStatus
<1> HIDE DEF row
<1>6. Updated(now, old, row) =
        [userId |-> now.userId, ticketId |-> now.ticketId, concertId |-> now.concertId,
         status |-> status, left |-> now.left]
  BY <1>1, <1>2 DEF Updated, Alike
<1>7. QED
  BY <1>4, <1>5, <1>6 DEF row

LEMMA LoadRowKept ==
  ASSUME Kept, OneAtATime, NEW p \in Processes, pc[p] \in {"saveRow", "cancelRow"},
         NEW i \in ReservationIds, NEW m \in ReservationRows, NEW status,
         m.status # status, Alike(db.reservations[i], m), IsRow(db.reservations, i),
         LoadRow(p, i, WithStatus(m, status)),
         \A old : Alike(old, m) =>
           FineAt(db, pc[p], [stage |-> "write", own |-> FALSE, old |-> old],
                  request[p], local[p], verdict[p])
  PROVE  Sound'
<1> DEFINE old == db.reservations[i]
<1>1. InTransaction(p) /\ pc[p] \in Sites
  BY DEF InTransaction, Sites
<1>2. db \in Databases /\ undo # <<>> /\ active
  BY <1>1, InsideFacts
<1>3. old \in ReservationRows
  BY <1>2, RowFacts
<1>4. Load /\ Persist(p, pc[p], old)
  BY <1>3, WritesStatus DEF LoadRow
<1>5. InPlace /\ db' = db /\ Preserves(db, db')
  BY <1>2, <1>4, Inside1 DEF Persist
<1>6. QED
  BY <1>1, <1>3, <1>4, <1>5, InsidePersist

LEMMA WriteRowKept ==
  ASSUME Kept, OneAtATime, NEW p \in Processes, pc[p] \in {"saveRow", "cancelRow"},
         saving[p].stage = "write", Good(db),
         NEW i \in ReservationIds, NEW m \in ReservationRows,
         NEW status \in {"COMPLETED", "CANCELLED"},
         m.status = "PENDING", Alike(db.reservations[i], m), Alike(saving[p].old, m),
         WriteRow(p, i, WithStatus(m, status)),
         \A d : /\ d.listed = db.listed /\ d.stock = db.stock /\ d.tickets = db.tickets
                /\ d.reservations = StatusSet(db.reservations, i, status)
                => FineAt(d, pc[p], [saving[p] EXCEPT !.stage = "reload"],
                          request[p], local[p], verdict[p])
  PROVE  Sound'
<1> DEFINE row == WithStatus(m, status)
           now == db.reservations[i]
<1>0. m.status # status
  OBVIOUS
<1>1. InTransaction(p) /\ pc[p] \in Sites
  BY DEF InTransaction, Sites
<1>2. db \in Databases /\ undo # <<>>
  BY <1>1, InsideFacts
<1>3. IsPending(db.reservations, i) /\ IsRow(db.reservations, i) /\ now \in ReservationRows
  BY <1>2, RowFacts DEF Alike, IsPending, IsRow
<1>4. saving[p].old \in ReservationRows
  <2>1. saving[p].old \in ReservationRows \cup {NoRow}
    BY DEF Kept, Inv, CallsOK, CallOK, SaveFits
  <2>2. saving[p].old # NoRow
    BY DEF Alike, NoRow
  <2>3. QED
    BY <2>1, <2>2
<1>5. CASE SaveFails(p)
  BY <1>1, <1>5, InsideSaveFails
<1>6. CASE /\ Execute([db EXCEPT !.reservations[i] = Updated(now, saving[p].old, row)])
           /\ Stage(p, "reload") /\ UNCHANGED <<local, verdict, read, Rest>>
  <2>1. Updated(now, saving[p].old, row) = WithStatus(now, status)
    BY <1>3, <1>4, <1>0, WritesStatus
  <2>2. InPlace /\ db' = [db EXCEPT !.reservations[i] = WithStatus(now, status)]
    BY <1>2, <1>6, <2>1, Inside1
  <2>3. /\ db'.listed = db.listed /\ db'.stock = db.stock /\ db'.tickets = db.tickets
        /\ db'.reservations = StatusSet(db.reservations, i, status)
    BY <1>2, <2>2 DEF Databases, StatusSet
  <2>4. Preserves(db, db')
    BY <1>2, <1>3, <2>3, StatusGood
  <2>5. FineAt(db', pc[p], [saving[p] EXCEPT !.stage = "reload"],
               request[p], local[p], verdict[p])
    BY <2>3
  <2>6. Keeping(p, local[p]) /\ "reload" \in Stages
    BY <1>6, Keeps DEF Kept, Stages
  <2>7. QED
    BY <1>1, <1>6, <2>2, <2>4, <2>5, <2>6, InsideStage
<1>7. QED
  BY <1>5, <1>6 DEF WriteRow

LEMMA PurchaseKept ==
  ASSUME Kept, OneAtATime, NEW p \in Processes, FindRow(p) \/ Complete(p) \/ SaveTicket(p)
  PROVE  Sound'
<1> DEFINE r == request[p]
           i == request[p].id
           m == local[p]
<1>1. InTransaction(p) /\ pc[p] \in {"findRow", "saveRow", "saveTicket"}
  BY DEF FindRow, Complete, SaveTicket, Saving, At, InTransaction
<1>2. i \in ReservationIds
  <2>1. r \in Requests /\ r.kind = "purchase"
    BY <1>1 DEF Kept, Inv, CallsOK, CallOK, Fits
  <2>2. QED
    BY <2>1 DEF Requests, ReserveKinds
<1>3. /\ undo # <<>> /\ db \in Databases
      /\ FineAt(db, pc[p], saving[p], r, m, verdict[p])
  BY <1>1, InsideFacts
<1>4. PurchaseFine(db, pc[p], saving[p], r, m)
  BY <1>3 DEF FineAt
<1>5. pc[p] # "findRow" => m \in ReservationRows
  BY <1>1 DEF Kept, Inv, CallsOK, CallOK, Fits
<1>6. CASE FindRow(p)
  <2> DEFINE row == db.reservations[i]
  <2>1. pc[p] = "findRow" /\ InPlace /\ db' = db /\ Preserves(db, db')
    BY <1>3, <1>6, Inside1 DEF FindRow, At
  <2>2. ASSUME NEW v, Throw(p, v)
        PROVE  Sound'
    BY <1>1, <2>1, <2>2, InsideThrow
  <2>3. CASE Payable(p, row) /\ Proceed(p, row, "saveRow")
    <3>1. PurchaseFine(db', "saveRow", NoSave, r, row)
      BY <1>4, <2>1, <2>3 DEF PurchaseFine, Payable, Alike, NoSave
    <3>2. FineAt(db', "saveRow", NoSave, r, row, verdict[p])
      BY <3>1, FineWhere
    <3>3. "saveRow" \in Inside \ {"commit", "rollback"}
      BY DEF Inside, Labels, Outside
    <3>4. QED
      BY <1>1, <2>1, <2>3, <3>2, <3>3, InsideProceed
  <2>4. QED
    BY <1>6, <2>2, <2>3 DEF FindRow
<1>7. CASE Complete(p)
  <2>1. pc[p] = "saveRow" /\ saving[p].stage \in {"load", "write"}
    BY <1>7 DEF Complete, Saving, At
  <2>2. /\ Good(db) /\ m.status = "PENDING" /\ m.userId = r.user
        /\ Alike(db.reservations[i], m)
        /\ saving[p].stage = "write" => Alike(saving[p].old, m)
    BY <1>4, <2>1 DEF PurchaseFine
  <2>3. IsRow(db.reservations, i)
    BY <2>2 DEF Alike, IsRow
  <2>4. CASE LoadRow(p, i, WithStatus(m, "COMPLETED"))
    <3>1. ASSUME NEW old, Alike(old, m)
          PROVE  FineAt(db, pc[p], [stage |-> "write", own |-> FALSE, old |-> old],
                        r, m, verdict[p])
      <4>1. PurchaseFine(db, "saveRow", [stage |-> "write", own |-> FALSE, old |-> old], r, m)
        BY <2>2, <3>1 DEF PurchaseFine
      <4>2. QED
        BY <2>1, <4>1, FineWhere
    <3>2. QED
      BY <1>2, <1>5, <2>1, <2>2, <2>3, <2>4, <3>1, LoadRowKept
  <2>5. CASE saving[p].stage = "write" /\ WriteRow(p, i, WithStatus(m, "COMPLETED"))
    <3>1. ASSUME NEW d, d.listed = db.listed, d.stock = db.stock, d.tickets = db.tickets,
                 d.reservations = StatusSet(db.reservations, i, "COMPLETED")
          PROVE  FineAt(d, pc[p], [saving[p] EXCEPT !.stage = "reload"], r, m, verdict[p])
      <4> DEFINE s == [saving[p] EXCEPT !.stage = "reload"]
      <4>1. s.stage = "reload"
        BY <1>1, UnitFacts DEF Kept, Saves
      <4>2. IsPending(db.reservations, i)
        BY <2>2 DEF Alike, IsPending
      <4>3. "COMPLETED" \in {"COMPLETED", "CANCELLED"}
        OBVIOUS
      <4>4. /\ Agree(d, {i}) /\ Exact(d)
            /\ Owns(d, i, db.reservations[i].userId, db.reservations[i].ticketId)
            /\ d.reservations[i].status = "COMPLETED"
        <5>1. Good(db) /\ i \in ReservationIds /\ db \in Databases
          BY <1>2, <1>3, <2>2
        <5>2. QED
          BY <5>1, <3>1, <4>2, <4>3, StatusGood
      <4>5. Bought(d, r, m)
        BY <2>2, <4>4 DEF Bought, Alike
      <4>6. PurchaseFine(d, "saveRow", s, r, m)
        BY <4>1, <4>4, <4>5 DEF PurchaseFine
      <4> HIDE DEF s
      <4>7. FineAt(d, "saveRow", s, r, m, verdict[p])
        BY <4>6, FineWhere
      <4>8. QED
        BY <2>1, <4>7 DEF s
    <3>2. QED
      BY <1>2, <1>5, <2>1, <2>2, <2>5, <3>1, WriteRowKept
  <2>6. QED
    BY <1>7, <2>4, <2>5 DEF Complete, Saving, WithStatus
<1>8. CASE SaveTicket(p)
  <2>1. pc[p] = "saveTicket" /\ pc[p] \in Sites /\ saving[p].stage \in {"load", "write"}
    BY <1>8 DEF SaveTicket, Saving, At, Sites
  <2>2. Agree(db, {i}) /\ Exact(db) /\ Bought(db, r, m)
    BY <1>4, <2>1 DEF PurchaseFine
  <2>3. /\ db.reservations[i].status = "COMPLETED" /\ db.reservations[i].ticketId = m.ticketId
        /\ db.tickets[m.ticketId] = "RESERVED" /\ m.ticketId \in Tickets
    BY <1>2, <1>5, <2>1, <2>2 DEF Bought, Owns, Agree, ReservationRows
  <2>4. CASE LoadTicket(p)
    <3> DEFINE old == [status |-> db.tickets[m.ticketId]]
               s == [stage |-> "write", own |-> FALSE, old |-> old]
    <3>1. Load /\ Persist(p, "saveTicket", old)
      BY <2>1, <2>3, <2>4 DEF LoadTicket
    <3>2. InPlace /\ db' = db /\ Preserves(db, db')
      BY <1>1, <1>3, <3>1, Inside1, InsideFacts DEF Persist
    <3>3. old \in [status: TicketStatuses]
      BY <2>3 DEF TicketStatuses
    <3>4. PurchaseFine(db', "saveTicket", s, r, m)
      BY <2>2, <3>2 DEF PurchaseFine
    <3>5. FineAt(db', "saveTicket", s, r, m, verdict[p])
      BY <3>4, FineWhere
    <3>6. QED
      BY <1>1, <2>1, <3>1, <3>2, <3>3, <3>5, InsidePersist
  <2>5. CASE WriteTicket(p)
    <3> DEFINE s == [saving[p] EXCEPT !.stage = "reload"]
    <3>1. /\ InPlace
          /\ db' = [db EXCEPT !.tickets = SetTicketStatus(@, {m.ticketId}, "SOLD")]
      BY <1>3, <2>5, Inside1 DEF WriteTicket
    <3>2. /\ db'.listed = db.listed /\ db'.stock = db.stock
          /\ db'.reservations = db.reservations
          /\ db'.tickets = SetTicketStatus(db.tickets, {m.ticketId}, "SOLD")
      BY <1>3, <3>1 DEF Databases
    <3>3. Good(db') /\ Preserves(db, db')
      BY <1>2, <1>3, <2>2, <2>3, <3>2, SellGood
    <3>4. Bought(db', r, m)
      BY <2>2, <3>2 DEF Bought, Owns
    <3>5. s.stage = "reload"
      BY <1>1, UnitFacts DEF Kept, Saves
    <3>6. PurchaseFine(db', "saveTicket", s, r, m)
      BY <3>3, <3>4, <3>5 DEF PurchaseFine
    <3>7. FineAt(db', pc[p], s, r, m, verdict[p])
      BY <2>1, <3>6, FineWhere
    <3>8. Keeping(p, m) /\ "reload" \in Stages
      BY <2>5, Keeps DEF WriteTicket, Kept, Stages
    <3>9. QED
      BY <1>1, <2>1, <2>5, <3>1, <3>3, <3>7, <3>8, InsideStage DEF WriteTicket
  <2>6. QED
    BY <1>8, <2>4, <2>5 DEF SaveTicket
<1>9. QED
  BY <1>6, <1>7, <1>8

-----------------------------------------------------------------------------
(* Cleanup. *)

\* A round begins with tables that agree and rows that are as they were read.
LEMMA RoundKept ==
  ASSUME Kept, OneAtATime, NEW p \in Processes, InTransaction(p), InPlace, Preserves(db, db'),
         Good(db'), NEW todo, NEW m, m.todo = todo, StillPending(db', m, todo),
         NextRound(p, todo, m)
  PROVE  Sound'
<1>1. CASE Succeed(p, "released", Nothing)
  <2>1. EndFine(db', "commit", request[p], Nothing, "released")
    BY DEF EndFine
  <2>2. QED
    BY <1>1, <2>1, InsideSucceed
<1>2. CASE Proceed(p, m, "cancelRow")
  <2>1. CleanupFine(db', "cancelRow", NoSave, m)
    BY DEF CleanupFine, NoSave
  <2>2. FineAt(db', "cancelRow", NoSave, request[p], m, verdict[p])
    BY <2>1, FineWhere
  <2>3. "cancelRow" \in Inside \ {"commit", "rollback"}
    BY DEF Inside, Labels, Outside
  <2>4. QED
    BY <1>2, <2>2, <2>3, InsideProceed
<1>3. QED
  BY <1>1, <1>2 DEF NextRound

\* The row a round is about.
LEMMA RoundFacts ==
  ASSUME Kept, NEW p \in Processes, pc[p] \in {"cancelRow", "freeTicket", "addStock"}
  PROVE  /\ InTransaction(p)
         /\ local[p].todo \subseteq ReservationIds
         /\ Current(p) \in local[p].todo /\ Current(p) \in ReservationIds
         /\ CurrentRow(p) \in ReservationRows
         /\ Current(p) = CHOOSE j \in local[p].todo : TRUE
         /\ CurrentRow(p) = local[p].rows[Current(p)]
<1>1. local[p] \in Rounds
  BY DEF Kept, Inv, CallsOK, CallOK, Fits
<1>2. Current(p) \in local[p].todo
  BY <1>1 DEF Current, Rounds
<1>3. QED
  BY <1>1, <1>2 DEF Rounds, CurrentRow, Current, InTransaction

\* CleanupFine, said of that row.
LEMMA RoundFine ==
  ASSUME NEW d, NEW label, NEW s, NEW p \in Processes
  PROVE  LET i == Current(p)
             m == local[p]
             row == CurrentRow(p)
         IN  CleanupFine(d, label, s, m) <=>
               /\ label = "findExpired" => Good(d)
               /\ label = "cancelRow" /\ s.stage # "reload" => Good(d) /\ StillPending(d, m, m.todo)
               /\ label = "cancelRow" /\ s.stage = "write" => Alike(s.old, row)
               /\ (label = "cancelRow" /\ s.stage = "reload") \/ label = "freeTicket" =>
                    /\ Good(d) /\ StillPending(d, m, m.todo \ {i})
                    /\ Alike(d.reservations[i], WithStatus(row, "CANCELLED"))
                    /\ d.tickets[row.ticketId] = "RESERVED"
               /\ label = "addStock" =>
                    Agree(d, {}) /\ Counted(d, row.concertId, 1) /\ StillPending(d, m, m.todo \ {i})
BY DEF CleanupFine, Current, CurrentRow

LEMMA CleanupKept ==
  ASSUME Kept, OneAtATime, NEW p \in Processes,
         FindExpired(p) \/ Cancel(p) \/ FreeTicket(p) \/ GiveUnit(p)
  PROVE  Sound'
<1> DEFINE r == request[p]
           m == local[p]
           i == Current(p)
           row == CurrentRow(p)
<1>1. InTransaction(p) /\ pc[p] \in {"findExpired", "cancelRow", "freeTicket", "addStock"}
  BY DEF FindExpired, Cancel, FreeTicket, GiveUnit, Saving, At, InTransaction
<1>2. /\ undo # <<>> /\ db \in Databases
      /\ FineAt(db, pc[p], saving[p], r, m, verdict[p])
  BY <1>1, InsideFacts
<1>3. CleanupFine(db, pc[p], saving[p], m)
  BY <1>2 DEF FineAt
<1>4. CASE FindExpired(p)
  <2> DEFINE expired == ExpiredReservations(db.reservations)
             data == [todo |-> expired, rows |-> db.reservations]
  <2>1. pc[p] = "findExpired" /\ InPlace /\ db' = db /\ Preserves(db, db')
    BY <1>2, <1>4, Inside1 DEF FindExpired, At
  <2>2. Good(db')
    BY <1>3, <2>1 DEF CleanupFine
  <2>3. StillPending(db', data, expired)
    BY <2>1 DEF StillPending, Alike, ExpiredReservations, IsPending
  <2>4. NextRound(p, expired, data)
    BY <1>4 DEF FindExpired
  <2>5. data.todo = expired
    OBVIOUS
  <2> HIDE DEF expired, data
  <2>6. QED
    BY <1>1, <2>1, <2>2, <2>3, <2>4, <2>5, RoundKept
<1>5. CASE Cancel(p)
  <2>1. pc[p] = "cancelRow" /\ saving[p].stage \in {"load", "write"}
    BY <1>5 DEF Cancel, Saving, At
  <2>2. i \in m.todo /\ i \in ReservationIds /\ row \in ReservationRows /\ row = m.rows[i]
    BY <2>1, RoundFacts
  <2>3. /\ Good(db) /\ StillPending(db, m, m.todo)
        /\ saving[p].stage = "write" => Alike(saving[p].old, row)
    BY <1>3, <2>1, RoundFine
  <2>4. row.status = "PENDING" /\ Alike(db.reservations[i], row)
    BY <2>2, <2>3 DEF StillPending
  <2>5. IsRow(db.reservations, i) /\ IsPending(db.reservations, i)
    BY <2>4 DEF Alike, IsRow, IsPending
  <2>6. CASE LoadRow(p, i, WithStatus(row, "CANCELLED"))
    <3>1. ASSUME NEW old, Alike(old, row)
          PROVE  FineAt(db, pc[p], [stage |-> "write", own |-> FALSE, old |-> old],
                        r, m, verdict[p])
      <4> DEFINE s == [stage |-> "write", own |-> FALSE, old |-> old]
      <4>1. s.stage = "write" /\ s.old = old
        OBVIOUS
      <4> HIDE DEF s
      <4>2. CleanupFine(db, "cancelRow", s, m)
        BY <2>3, <3>1, <4>1, RoundFine
      <4>3. FineAt(db, "cancelRow", s, r, m, verdict[p])
        BY <4>2, FineWhere
      <4>4. QED
        BY <2>1, <4>3 DEF s
    <3>2. row.status # "CANCELLED"
      BY <2>4
    <3>3. QED
      BY <2>1, <2>2, <2>4, <2>5, <2>6, <3>1, <3>2, LoadRowKept
  <2>7. CASE saving[p].stage = "write" /\ WriteRow(p, i, WithStatus(row, "CANCELLED"))
    <3>1. ASSUME NEW d, d.listed = db.listed, d.stock = db.stock, d.tickets = db.tickets,
                 d.reservations = StatusSet(db.reservations, i, "CANCELLED")
          PROVE  FineAt(d, pc[p], [saving[p] EXCEPT !.stage = "reload"], r, m, verdict[p])
      <4> DEFINE s == [saving[p] EXCEPT !.stage = "reload"]
      <4>1. s.stage = "reload"
        BY <1>1, UnitFacts DEF Kept, Saves
      <4>2. "CANCELLED" \in {"COMPLETED", "CANCELLED"}
        OBVIOUS
      <4>3. Good(db) /\ i \in ReservationIds /\ db \in Databases
        BY <1>2, <2>2, <2>3
      <4>4. /\ Agree(d, {}) /\ Exact(d)
            /\ Alike(d.reservations[i], WithStatus(db.reservations[i], "CANCELLED"))
            /\ \A j \in ReservationIds \ {i} : d.reservations[j] = db.reservations[j]
            /\ d.tickets[db.reservations[i].ticketId] = "RESERVED"
        <5>1. Agree(d, {}) /\ Exact(d)
          BY <2>5, <3>1, <4>2, <4>3, StatusGood
        <5>2. Alike(d.reservations[i], WithStatus(db.reservations[i], "CANCELLED"))
          BY <2>5, <3>1, <4>2, <4>3, StatusGood
        <5>3. \A j \in ReservationIds \ {i} : d.reservations[j] = db.reservations[j]
          BY <2>5, <3>1, <4>2, <4>3, StatusGood
        <5>4. d.tickets[db.reservations[i].ticketId] = "RESERVED"
          BY <2>5, <3>1, <4>3 DEF Good, Agree
        <5>5. QED
          BY <5>1, <5>2, <5>3, <5>4
      <4>5. StillPending(d, m, m.todo \ {i})
        BY <2>1, <2>3, <4>4, RoundFacts DEF StillPending
      <4>6. Alike(d.reservations[i], WithStatus(row, "CANCELLED"))
        <5>1. db.reservations[i] \in ReservationRows
          BY <1>2, <2>2, <2>5, RowFacts
        <5>2. QED
          BY <2>2, <2>4, <4>4, <5>1 DEF Alike, WithStatus, ReservationRows
      <4>7. d.tickets[row.ticketId] = "RESERVED"
        BY <2>4, <4>4 DEF Alike
      <4> HIDE DEF s
      <4>8. CleanupFine(d, "cancelRow", s, m)
        BY <4>1, <4>4, <4>5, <4>6, <4>7, RoundFine DEF Good
      <4>9. FineAt(d, "cancelRow", s, r, m, verdict[p])
        BY <4>8, FineWhere
      <4>10. QED
        BY <2>1, <4>9 DEF s
    <3>2. QED
      BY <2>1, <2>2, <2>3, <2>4, <2>7, <3>1, WriteRowKept
  <2>8. QED
    BY <1>5, <2>6, <2>7 DEF Cancel, Saving, WithStatus
<1>6. CASE FreeTicket(p)
  <2> DEFINE t == row.ticketId
  <2>1. pc[p] = "freeTicket"
    BY <1>6 DEF FreeTicket, At
  <2>2. i \in ReservationIds /\ row \in ReservationRows
    BY <2>1, RoundFacts
  <2>3. /\ Good(db) /\ StillPending(db, m, m.todo \ {i})
        /\ Alike(db.reservations[i], WithStatus(row, "CANCELLED"))
        /\ db.tickets[t] = "RESERVED"
    BY <1>3, <2>1, RoundFine
  <2>4. /\ db.reservations[i].status = "CANCELLED" /\ db.reservations[i].ticketId = t
        /\ db.reservations[i].concertId = row.concertId
    BY <2>2, <2>3 DEF Alike, WithStatus, ReservationRows
  <2>5. InPlace /\ db' = [db EXCEPT !.tickets = SetTicketStatus(@, {t}, "AVAILABLE")]
    BY <1>2, <1>6, Inside1 DEF FreeTicket
  <2>6. /\ db'.listed = db.listed /\ db'.stock = db.stock
        /\ db'.reservations = db.reservations
        /\ db'.tickets = SetTicketStatus(db.tickets, {t}, "AVAILABLE")
    BY <1>2, <2>5 DEF Databases
  <2>7. Agree(db', {}) /\ Counted(db', row.concertId, 1) /\ Preserves(db, db')
    BY <1>2, <2>2, <2>3, <2>4, <2>6, FreeGood
  <2>8. StillPending(db', m, m.todo \ {i})
    BY <2>3, <2>6 DEF StillPending
  <2>9. CleanupFine(db', "addStock", NoSave, m)
    BY <2>7, <2>8, RoundFine
  <2>10. FineAt(db', "addStock", NoSave, r, m, verdict[p])
    BY <2>9, FineWhere
  <2>11. Proceed(p, m, "addStock") /\ "addStock" \in Inside \ {"commit", "rollback"}
    BY <1>6 DEF FreeTicket, Continue, Inside, Labels, Outside
  <2>12. QED
    BY <1>1, <2>5, <2>7, <2>10, <2>11, InsideProceed
<1>7. CASE GiveUnit(p)
  <2> DEFINE c == row.concertId
             left == m.todo \ {i}
             data == [m EXCEPT !.todo = left]
  <2>1. pc[p] = "addStock"
    BY <1>7 DEF GiveUnit, At
  <2>2. i \in ReservationIds /\ row \in ReservationRows
    BY <2>1, RoundFacts
  <2>3. Agree(db, {}) /\ Counted(db, c, 1) /\ StillPending(db, m, left)
    BY <1>3, <2>1, RoundFine
  <2>4. InPlace /\ db' = StockMoved(c, 1)
    BY <1>2, <1>7, Inside1 DEF GiveUnit
  <2>5. /\ db' \in Databases /\ db'.listed = db.listed /\ db'.reservations = db.reservations
    <3>1. db.stock[c] + 1 >= 0 /\ c \in Concerts
      BY <1>2, <2>2 DEF Databases, ReservationRows
    <3>2. ConnectionOK
      BY DEF Kept, Inv, TypeOK
    <3>3. QED
      BY <1>2, <2>4, <3>1, <3>2, StockMovedType, StockMovedFields
  <2>6. Good(db') /\ Preserves(db, db')
    <3>1. CASE c \in db.listed
      <4>1. /\ Agree(StockMoved(c, 1), {}) /\ Counted(StockMoved(c, 1), c, 1 - 1)
            /\ Preserves(db, StockMoved(c, 1))
        BY <1>2, <2>3, <3>1, StockGood
      <4>2. QED
        BY <2>4, <2>5, <4>1, ExactCount DEF Good
    <3>2. CASE c \notin db.listed
      <4>1. /\ db'.stock = AddStock(db.stock, c, 1) /\ db'.tickets = db.tickets
        BY <1>2, <2>4, StockMovedFields
      <4>2. Agree(db', {}) /\ Preserves(db, db')
        BY <2>3, <2>5, <4>1, PreservesSame DEF Agree
      <4>3. Exact(db')
        <5>1. SUFFICES ASSUME NEW k \in db.listed
                       PROVE  db'.stock[k] = Cardinality(OnSale(db.tickets, k))
          BY <2>5, <4>1 DEF Exact
        <5>2. k # c /\ db.stock[k] \in Nat /\ k \in DOMAIN db.stock
          BY <1>2, <3>2 DEF Databases
        <5>3. db'.stock[k] = db.stock[k]
          BY <4>1, <5>2 DEF AddStock
        <5>4. QED
          BY <2>3, <5>2, <5>3 DEF Counted
      <4>4. QED
        BY <4>2, <4>3 DEF Good
    <3>3. QED
      BY <3>1, <3>2
  <2>7. m \in Rounds
    BY <2>1 DEF Kept, Inv, CallsOK, CallOK, Fits
  <2>8. data.todo = left /\ data.rows = m.rows
    BY <2>7 DEF Rounds
  <2>9. StillPending(db', data, left)
    BY <2>3, <2>5, <2>8 DEF StillPending
  <2>10. NextRound(p, left, data)
    BY <1>7 DEF GiveUnit
  <2> HIDE DEF left, data
  <2>11. QED
    BY <1>1, <2>4, <2>6, <2>8, <2>9, <2>10, RoundKept
<1>8. QED
  BY <1>4, <1>5, <1>6, <1>7

-----------------------------------------------------------------------------
(* The other statements of a save. *)

\* They have no savepoint to open, close or undo, and after the reload the function
\* goes on.
LEMMA SaveKept ==
  ASSUME Kept, OneAtATime, NEW p \in Processes, Open(p) \/ Reload(p) \/ Close(p) \/ Undo(p)
  PROVE  Sound'
<1> DEFINE r == request[p]
           m == local[p]
<1>1. pc[p] \in Sites /\ InTransaction(p)
  BY DEF Open, Reload, Close, Undo, SavingAt, Saving, At, Sites, InTransaction
<1>2. ~saving[p].own /\ undo # <<>> /\ FineAt(db, pc[p], saving[p], r, m, verdict[p])
  BY <1>1, InsideFacts
<1>3. saving[p].stage \notin {"open", "close", "undo"}
  BY <1>2 DEF Kept, Inv, CallsOK, CallOK, SaveFits
<1>4. saving[p].stage = "reload" /\ Select /\ Saved(p)
  BY <1>2, <1>3 DEF Open, Reload, Close, Undo, SavingAt, Saving
<1>5. InPlace /\ db' = db /\ Preserves(db, db')
  BY <1>2, <1>4, Inside1
<1>6. CASE pc[p] = "insert"
  <2>1. Good(db) /\ Owns(db, m.id, r.user, m.first)
    BY <1>2, <1>4, <1>6 DEF FineAt, ReserveFine
  <2>2. EndFine(db', "commit", r, m, "reserved")
    BY <1>5, <2>1 DEF EndFine
  <2>3. QED
    BY <1>1, <1>4, <1>5, <1>6, <2>2, InsideSucceed DEF Saved
<1>7. CASE pc[p] = "saveRow"
  <2>1. Agree(db, {r.id}) /\ Exact(db) /\ Bought(db, r, m)
    BY <1>2, <1>4, <1>7 DEF FineAt, PurchaseFine
  <2>2. PurchaseFine(db', "saveTicket", NoSave, r, m)
    BY <1>5, <2>1 DEF PurchaseFine, NoSave
  <2>3. FineAt(db', "saveTicket", NoSave, r, m, verdict[p])
    BY <2>2, FineWhere
  <2>4. "saveTicket" \in Inside \ {"commit", "rollback"}
    BY DEF Inside, Labels, Outside
  <2>5. QED
    BY <1>1, <1>4, <1>5, <1>7, <2>3, <2>4, InsideProceed DEF Saved, Continue
<1>8. CASE pc[p] = "saveTicket"
  <2>1. Good(db) /\ Bought(db, r, m)
    BY <1>2, <1>4, <1>8 DEF FineAt, PurchaseFine
  <2>2. EndFine(db', "commit", r, m, "purchased")
    BY <1>5, <2>1 DEF EndFine
  <2>3. QED
    BY <1>1, <1>4, <1>5, <1>8, <2>2, InsideSucceed DEF Saved
<1>9. CASE pc[p] = "cancelRow"
  <2>1. CleanupFine(db, "cancelRow", saving[p], m)
    BY <1>2, <1>9 DEF FineAt
  <2>2. CleanupFine(db', "freeTicket", NoSave, m)
    BY <1>4, <1>5, <2>1, RoundFine
  <2>3. FineAt(db', "freeTicket", NoSave, r, m, verdict[p])
    BY <2>2, FineWhere
  <2>4. "freeTicket" \in Inside \ {"commit", "rollback"}
    BY DEF Inside, Labels, Outside
  <2>5. QED
    BY <1>1, <1>4, <1>5, <1>9, <2>3, <2>4, InsideProceed DEF Saved, Continue
<1>10. QED
  BY <1>1, <1>6, <1>7, <1>8, <1>9 DEF Sites

-----------------------------------------------------------------------------
(* Calls begin and end. *)

\* A function that sends BEGIN finds the connection in autocommit.
LEMMA SendBeginKept ==
  ASSUME Kept, OneAtATime', NEW p \in Processes, pc[p] \in {"idle", "waiting"},
         SendBegin(p), acked' = acked
  PROVE  Sound'
<1>1. /\ Inv /\ Settled /\ Good(disk) /\ Preserves(disk, db) /\ AckedOnDisk
  BY DEF Kept, Sound
<1>2. /\ active' = TRUE /\ UNCHANGED <<db, disk, undo, depth>>
      /\ GotoStage(p, "begin", NoSave) /\ read' = [read EXCEPT ![p] = depth]
  BY DEF SendBegin, SendStart, Goto
<1>3. \A o \in Processes : pc'[o] = IF o = p THEN "begin" ELSE pc[o]
  BY <1>1, <1>2, BusyMoves, NoSaveFacts DEF Inv, TypeOK, ControlOK, Labels
<1>4. \A o \in Processes \ {p} : pc[o] \in {"idle", "waiting"}
  BY <1>3 DEF OneAtATime, IsRunning
<1>5. undo = <<>> /\ depth = 0
  BY <1>1, <1>4 DEF Settled, InTransaction
<1>6. read'[p] = 0
  BY <1>1, <1>2, <1>5 DEF Inv, TypeOK
<1>7. Settled'
  BY <1>2, <1>3, <1>4, <1>5, <1>6 DEF Settled, InTransaction
<1>8. \A o \in Processes : Fine(o)'
  BY <1>3, <1>4, FineWhere DEF Fine, Outside
<1>9. QED
  BY <1>1, <1>2, <1>7, <1>8 DEF Sound, AckedOnDisk

LEMMA CallKept ==
  ASSUME Kept, OneAtATime', NEW p \in Processes, NEW r, Call(p, r)
  PROVE  Sound'
<1>1. pc[p] = "idle" /\ acked' = acked /\ local' = local /\ verdict' = verdict
      /\ request' = [request EXCEPT ![p] = r]
  BY DEF Call, InCall
<1>2. CASE SendBegin(p)
  BY <1>1, <1>2, SendBeginKept
<1>3. CASE Goto(p, "waiting") /\ UNCHANGED <<connection, read>>
  <2>1. /\ UNCHANGED <<db, disk, undo, depth, active, read>>
        /\ \A o \in Processes : pc'[o] = IF o = p THEN "waiting" ELSE pc[o]
        /\ \A o \in Processes : saving'[o] = IF o = p THEN NoSave ELSE saving[o]
    BY <1>3, BusyMoves, NoSaveFacts
       DEF connection, Goto, Kept, Inv, TypeOK, ControlOK, Labels
  <2>2. Settled'
    BY <1>1, <2>1 DEF Kept, Sound, Settled, InTransaction
  <2>3. ASSUME NEW o \in Processes \ {p}
        PROVE  Fine(o)'
    <3>1. request'[o] = request[o]
      BY <1>1 DEF Kept, Inv, CallsOK
    <3>2. Fine(o)
      BY DEF Kept, Sound
    <3>3. QED
      BY <1>1, <2>1, <3>1, <3>2 DEF Fine
  <2>4. Fine(p)'
    BY <2>1, FineWhere DEF Fine, Outside
  <2>5. QED
    BY <1>1, <2>1, <2>2, <2>3, <2>4 DEF Kept, Sound, AckedOnDisk
<1>4. QED
  BY <1>2, <1>3 DEF Call

\* BEGIN is executed: the function sees what is on disk.
LEMMA BeginKept ==
  ASSUME Kept, OneAtATime, NEW p \in Processes, Begin(p)
  PROVE  Sound'
<1>1. /\ Inv /\ Settled /\ Good(disk) /\ AckedOnDisk /\ pc[p] = "begin"
  BY DEF Kept, Sound, Begin, At
<1>2. \A o \in Processes \ {p} : pc[o] \in {"idle", "waiting"}
  BY <1>1 DEF OneAtATime, IsRunning
<1>3. undo = <<>> /\ depth = 0 /\ read[p] = 0 /\ active
  BY <1>1, <1>2 DEF Settled, InTransaction
<1>4. db = disk
  BY <1>1, <1>3 DEF Inv, TypeOK, ConnectionOK
<1> DEFINE label == FirstStatement(request[p].kind)
<1>5. StartTransaction(0) /\ Proceed(p, local[p], label)
  BY <1>3 DEF Begin, Opens, Continue
<1>6. label \in {"find", "findRow", "findExpired"}
  BY DEF FirstStatement
<1> HIDE DEF label
<1>7. /\ GotoStage(p, label, NoSave) /\ Keeping(p, local[p]) /\ UNCHANGED <<request, acked>>
  BY <1>1, <1>5, Keeps DEF Proceed, Goto, Rest
<1>8. /\ \A o \in Processes : pc'[o] = IF o = p THEN label ELSE pc[o]
      /\ \A o \in Processes : saving'[o] = IF o = p THEN NoSave ELSE saving[o]
  BY <1>1, <1>6, <1>7, BusyMoves, NoSaveFacts DEF Inv, TypeOK, ControlOK, Labels
<1>9. Len(undo') = 1 /\ depth' = 1 /\ active' /\ UNCHANGED <<db, disk>>
  BY <1>3, <1>5 DEF StartTransaction
<1>10. Settled'
  BY <1>2, <1>6, <1>8, <1>9 DEF Settled, InTransaction, NoSave
<1>11. Fine(p)'
  <2>1. FineAt(db, label, NoSave, request[p], local[p], verdict'[p])
    BY <1>1, <1>4, <1>6, FineWhere
       DEF ReserveFine, PurchaseFine, CleanupFine, ReserveLabels
  <2>2. QED
    BY <1>7, <1>8, <1>9, <2>1 DEF Fine, Keeping
<1>12. \A o \in Processes \ {p} : Fine(o)'
  BY <1>2, <1>8, FineWhere DEF Fine, Outside
<1>13. Preserves(disk, db)'
  BY <1>4, <1>9, PreservesSame
<1>14. QED
  BY <1>1, <1>7, <1>9, <1>10, <1>11, <1>12, <1>13 DEF Sound, AckedOnDisk

\* What COMMIT and ROLLBACK end is the one transaction there is.
LEMMA EndsOutermost ==
  ASSUME Kept, OneAtATime, NEW p \in Processes, pc[p] \in {"commit", "rollback"}
  PROVE  /\ Closes(read[p])
         /\ CommitTransaction(read[p]) =>
              undo' = <<>> /\ depth' = 0 /\ db' = db /\ disk' = db
         /\ RollbackTransaction(read[p]) =>
              undo' = <<>> /\ depth' = 0 /\ db' = disk /\ disk' = disk
<1>1. InTransaction(p) /\ ConnectionOK /\ read[p] = 1
  BY DEF InTransaction, Kept, Sound, Settled, Inv, TypeOK
<1>2. Len(undo) = 1 /\ depth = 1 /\ undo # <<>>
  BY <1>1, InsideFacts
<1>3. DOMAIN undo = 1 .. 1 /\ undo \in Seq(Entry)
  BY <1>1, <1>2, StackFacts
<1>4. Entries(1) = {1}
  BY <1>3 DEF Entries
<1>5. Newest(1) = {1}
  BY <1>4 DEF Newest
<1>6. undo[1].before = disk
  BY <1>1, <1>2 DEF ConnectionOK
<1>7. SubSeq(undo, 1, 0) = <<>>
  BY <1>3
<1>8. QED
  BY <1>1, <1>2, <1>4, <1>5, <1>6, <1>7
     DEF Closes, CommitTransaction, RollbackTransaction, Ended

LEMMA AnswerKept ==
  ASSUME Kept, OneAtATime, NEW p \in Processes, InTransaction(p), NEW v, Answer(p, v),
         undo' = <<>>, depth' = 0, db' = disk', Good(disk'), AckedOnDisk'
  PROVE  Sound'
<1>1. \A o \in Processes \ {p} : pc[o] \in {"idle", "waiting"}
  BY InsideFacts DEF IsRunning
<1>2. \A o \in Processes : pc'[o] = IF o = p THEN "idle" ELSE pc[o]
  BY BusyMoves, NoSaveFacts DEF Answer, Goto, Kept, Inv, TypeOK, ControlOK, Labels
<1>3. \A o \in Processes : pc'[o] \in {"idle", "waiting"}
  BY <1>1, <1>2
<1>4. Settled'
  BY <1>3 DEF Settled, InTransaction
<1>5. \A o \in Processes : Fine(o)'
  BY <1>3, FineWhere DEF Fine, Outside
<1>6. QED
  BY <1>4, <1>5, PreservesSame DEF Sound

LEMMA CommitKept ==
  ASSUME Kept, OneAtATime, NEW p \in Processes, Commit(p)
  PROVE  Sound'
<1>1. pc[p] = "commit" /\ InTransaction(p)
  BY DEF Commit, At, InTransaction
<1>2. /\ undo' = <<>> /\ depth' = 0 /\ db' = db /\ disk' = db
      /\ acked' = acked \cup Acknowledgement(p) /\ Answer(p, verdict[p])
  BY <1>1, EndsOutermost DEF Commit
<1>3. /\ Preserves(disk, db) /\ AckedOnDisk
      /\ EndFine(db, "commit", request[p], local[p], verdict[p])
  BY <1>1, InsideFacts DEF FineAt
<1>4. \A a \in acked : IsTrueIn(db, a)
  BY <1>3 DEF AckedOnDisk, IsTrueIn, Owns, Preserves
<1>5. \A a \in Acknowledgement(p) : IsTrueIn(db, a)
  BY <1>3 DEF EndFine, Acknowledgement, IsTrueIn, Bought
<1>6. Good(disk') /\ AckedOnDisk'
  BY <1>2, <1>3, <1>4, <1>5 DEF EndFine, AckedOnDisk
<1>7. QED
  BY <1>1, <1>2, <1>6, AnswerKept

LEMMA RollbackKept ==
  ASSUME Kept, OneAtATime, NEW p \in Processes, Rollback(p)
  PROVE  Sound'
<1>1. pc[p] = "rollback" /\ InTransaction(p)
  BY DEF Rollback, At, InTransaction
<1>2. /\ undo' = <<>> /\ depth' = 0 /\ db' = disk /\ disk' = disk
      /\ acked' = acked /\ Answer(p, verdict[p])
  BY <1>1, EndsOutermost DEF Rollback, Fail
<1>3. Good(disk') /\ AckedOnDisk'
  BY <1>1, <1>2, InsideFacts DEF AckedOnDisk
<1>4. QED
  BY <1>1, <1>2, <1>3, AnswerKept

-----------------------------------------------------------------------------
(* The surroundings. *)

\* Nothing a function relies on depends on the clock.
LEMMA FineAges ==
  ASSUME NEW d, NEW e, e.listed = d.listed, e.stock = d.stock, e.tickets = d.tickets,
         \A i \in ReservationIds : Alike(e.reservations[i], d.reservations[i]),
         NEW p \in Processes, Kept,
         FineAt(d, pc[p], saving[p], request[p], local[p], verdict[p])
  PROVE  FineAt(e, pc[p], saving[p], request[p], local[p], verdict[p])
<1> DEFINE r == request[p]
           m == local[p]
           s == saving[p]
<1>1. /\ \A paid : Agree(d, paid) => Agree(e, paid)
      /\ Exact(d) => Exact(e)
      /\ \A c, n : Counted(d, c, n) => Counted(e, c, n)
      /\ \A i, u, t : Owns(d, i, u, t) => Owns(e, i, u, t)
  BY Aged
<1>2. Good(d) => Good(e)
  BY <1>1 DEF Good
<1>3. ReserveFine(e, pc[p], s, r, m)
  BY <1>1, <1>2 DEF FineAt, ReserveFine
<1>4. PurchaseFine(e, pc[p], s, r, m) /\ EndFine(e, pc[p], r, m, verdict[p])
  <2>1. Bought(d, r, m) => Bought(e, r, m)
    BY <1>1 DEF Bought, Owns, Alike
  <2>2. ASSUME pc[p] = "saveRow", Alike(d.reservations[r.id], m)
        PROVE  Alike(e.reservations[r.id], m)
    <3>1. r \in Requests /\ r.kind = "purchase"
      BY <2>2 DEF Kept, Inv, CallsOK, CallOK, Fits
    <3>2. r.id \in ReservationIds
      BY <3>1 DEF Requests, ReserveKinds
    <3>3. QED
      BY <2>2, <3>2 DEF Alike
  <2>3. QED
    BY <1>1, <1>2, <2>1, <2>2 DEF FineAt, PurchaseFine, EndFine
<1>5. CleanupFine(e, pc[p], s, m)
  <2>1. CASE pc[p] \in {"cancelRow", "freeTicket", "addStock"}
    <3> DEFINE row == CurrentRow(p)
               cancelled == WithStatus(row, "CANCELLED")
               left == m.todo \ {Current(p)}
    <3>1. m.todo \subseteq ReservationIds /\ Current(p) \in ReservationIds
      BY <2>1, RoundFacts
    <3>2. \A ids : ids \subseteq m.todo /\ StillPending(d, m, ids) => StillPending(e, m, ids)
      BY <3>1 DEF StillPending, Alike
    <3>3. /\ StillPending(d, m, m.todo) => StillPending(e, m, m.todo)
          /\ StillPending(d, m, left) => StillPending(e, m, left)
      BY <3>2
    <3>4. Alike(d.reservations[Current(p)], cancelled) => Alike(e.reservations[Current(p)], cancelled)
      BY <3>1 DEF Alike
    <3>5. /\ Agree(d, {}) => Agree(e, {})
          /\ Counted(d, row.concertId, 1) => Counted(e, row.concertId, 1)
          /\ d.tickets[row.ticketId] = "RESERVED" => e.tickets[row.ticketId] = "RESERVED"
      BY <1>1
    <3>6. CleanupFine(d, pc[p], s, m)
      BY DEF FineAt
    <3>7. CASE pc[p] = "cancelRow"
      <4>1. CASE s.stage # "reload"
        <5>1. /\ Good(e) /\ StillPending(e, m, m.todo)
              /\ s.stage = "write" => Alike(s.old, row)
          BY <1>2, <3>3, <3>6, <3>7, <4>1, RoundFine
        <5>2. QED
          BY <3>7, <4>1, <5>1, RoundFine
      <4>2. CASE s.stage = "reload"
        <5>1. /\ Good(e) /\ StillPending(e, m, left)
              /\ Alike(e.reservations[Current(p)], cancelled)
              /\ e.tickets[row.ticketId] = "RESERVED"
          BY <1>2, <3>3, <3>4, <3>5, <3>6, <3>7, <4>2, RoundFine
        <5>2. QED
          BY <3>7, <4>2, <5>1, RoundFine
      <4>3. QED
        BY <4>1, <4>2
    <3>8. CASE pc[p] = "freeTicket"
      <4>1. /\ Good(e) /\ StillPending(e, m, left)
            /\ Alike(e.reservations[Current(p)], cancelled)
            /\ e.tickets[row.ticketId] = "RESERVED"
        BY <1>2, <3>3, <3>4, <3>5, <3>6, <3>8, RoundFine
      <4>2. QED
        BY <3>8, <4>1, RoundFine
    <3>9. CASE pc[p] = "addStock"
      <4>1. Agree(e, {}) /\ Counted(e, row.concertId, 1) /\ StillPending(e, m, left)
        BY <3>3, <3>5, <3>6, <3>9, RoundFine
      <4>2. QED
        BY <3>9, <4>1, RoundFine
    <3>10. QED
      BY <2>1, <3>7, <3>8, <3>9
  <2>2. CASE pc[p] \notin {"cancelRow", "freeTicket", "addStock"}
    BY <1>2, <2>2 DEF FineAt, CleanupFine
  <2>3. QED
    BY <2>1, <2>2
<1>6. QED
  BY <1>3, <1>4, <1>5 DEF FineAt

\* The clock leaves all of a row but its time as it is.
LEMMA AgeAlike ==
  ASSUME NEW d \in Databases, NEW i \in ReservationIds
  PROVE  Alike(Age(d.reservations)[i], d.reservations[i])
<1>1. CASE d.reservations[i] \in ReservationRows
  BY <1>1 DEF Alike, Age, ReservationRows
<1>2. CASE ~IsPending(d.reservations, i)
  BY <1>2 DEF Alike, Age
<1>3. QED
  BY <1>1, <1>2, RowFacts DEF IsPending, IsRow

LEMMA TickKept ==
  ASSUME Kept, Tick
  PROVE  Sound'
<1> DEFINE Older(d) == [d EXCEPT !.reservations = Age(@)]
<1>1. /\ Settled /\ Good(disk) /\ Preserves(disk, db) /\ AckedOnDisk
      /\ \A p \in Processes : Fine(p)
      /\ ConnectionOK /\ db \in Databases /\ disk \in Databases
  BY DEF Kept, Sound, Inv, TypeOK, ConnectionOK
<1>2. /\ PassTime /\ db' = Older(db) /\ disk' = Older(disk) /\ UNCHANGED <<depth, active>>
      /\ UNCHANGED <<pc, request, local, verdict, read, saving, acked>>
  BY DEF Tick, PassTime, control
<1>3. Len(undo') = Len(undo) /\ (undo = <<>> => undo' = <<>>)
  <2>1. DOMAIN undo' = 1 .. Len(undo)
    BY <1>1, <1>2, StackFacts DEF PassTime
  <2>2. undo' \in Seq([name : Nat, before : Databases])
    BY <1>1, <1>2, TimeType DEF ConnectionOK
  <2>3. Len(undo') = Len(undo)
    BY <1>1, <2>1, <2>2, StackFacts, LenProperties
  <2>4. QED
    BY <1>1, <2>2, <2>3, StackFacts, EmptySeq
<1>4. ASSUME NEW d \in Databases
      PROVE  /\ Older(d).listed = d.listed /\ Older(d).stock = d.stock
             /\ Older(d).tickets = d.tickets
             /\ \A i \in ReservationIds : Alike(Older(d).reservations[i], d.reservations[i])
  <2>1. /\ Older(d).listed = d.listed /\ Older(d).stock = d.stock
        /\ Older(d).tickets = d.tickets /\ Older(d).reservations = Age(d.reservations)
    BY DEF Databases
  <2>2. QED
    BY <2>1, AgeAlike
<1> HIDE DEF Older
<1>5. Preserves(disk', disk) /\ Preserves(disk, disk') /\ Preserves(db, db')
  BY <1>1, <1>2, <1>4, Aged
<1>6. Preserves(disk, db)'
  BY <1>1, <1>5, PreservesOn
<1>7. Good(disk)'
  BY <1>1, <1>2, <1>4, Aged DEF Good
<1>8. AckedOnDisk'
  BY <1>1, <1>2, <1>5 DEF AckedOnDisk, IsTrueIn, Owns, Preserves
<1>9. Settled'
  BY <1>1, <1>2, <1>3 DEF Settled, InTransaction
<1>10. ASSUME NEW p \in Processes
       PROVE  Fine(p)'
  <2>1. FineAt(db, pc[p], saving[p], request[p], local[p], verdict[p])
    BY <1>1 DEF Fine
  <2>2. FineAt(db', pc[p], saving[p], request[p], local[p], verdict[p])
    BY <1>1, <1>2, <1>4, <2>1, FineAges
  <2>3. QED
    BY <1>2, <2>2 DEF Fine
<1>11. QED
  BY <1>6, <1>7, <1>8, <1>9, <1>10 DEF Sound

\* Nobody runs in a process that has just started.
LEMMA CrashKept ==
  ASSUME Kept, Crash
  PROVE  Sound'
<1>1. /\ db' = disk /\ disk' = disk /\ undo' = <<>> /\ depth' = 0 /\ acked' = acked
      /\ pc' = [p \in Processes |-> "idle"]
  BY DEF Crash, Reconnect
<1>2. Settled' /\ \A p \in Processes : Fine(p)'
  BY <1>1, FineWhere DEF Settled, InTransaction, Fine, Outside
<1>3. QED
  BY <1>1, <1>2, PreservesSame DEF Kept, Sound, AckedOnDisk

LEMMA StutterKept ==
  ASSUME Kept, UNCHANGED vars
  PROVE  Sound'
<1>1. UNCHANGED <<db, disk, undo, depth, active, pc, request, local, verdict, read, saving, acked>>
  BY DEF vars, connection, control
<1>2. QED
  BY <1>1 DEF Kept, Sound, Settled, InTransaction, AckedOnDisk, Fine

\* The server starts so on tables that agree.
LEMMA KeptInit ==
  Init /\ Good(db) => Kept
<1> SUFFICES ASSUME Init, Good(db)
             PROVE  Kept
  OBVIOUS
<1>1. Inv
  BY InvInit
<1>2. disk = db /\ undo = <<>> /\ depth = 0 /\ acked = {} /\ pc = [p \in Processes |-> "idle"]
  BY DEF Init, Idle
<1>3. Settled /\ \A p \in Processes : Fine(p)
  BY <1>2, FineWhere DEF Settled, InTransaction, Fine, Outside
<1>4. QED
  BY <1>1, <1>2, <1>3, PreservesSame DEF Kept, Sound, AckedOnDisk

LEMMA KeptStep ==
  Kept /\ OneAtATime /\ OneAtATime' /\ [Next]_vars => Kept'
<1> SUFFICES ASSUME Kept, OneAtATime, OneAtATime', [Next]_vars
             PROVE  Kept'
  OBVIOUS
<1>1. Inv'
  BY InvNext DEF Kept
<1>2. CASE UNCHANGED vars
  BY <1>1, <1>2, StutterKept DEF Kept
<1>3. ASSUME NEW p \in Processes, NEW r, Call(p, r)
      PROVE  Kept'
  BY <1>1, <1>3, CallKept DEF Kept
<1>4. ASSUME NEW p \in Processes, Lock(p)
      PROVE  Kept'
  <2>1. pc[p] = "waiting" /\ SendBegin(p) /\ acked' = acked
    BY <1>4 DEF Lock, Rest
  <2>2. QED
    BY <1>1, <2>1, SendBeginKept DEF Kept
<1>5. ASSUME NEW p \in Processes, Step(p)
      PROVE  Kept'
  BY <1>1, <1>4, <1>5, BeginKept, ReserveKept, PurchaseKept, SaveKept, CleanupKept,
     CommitKept, RollbackKept DEF Step, Kept
<1>6. QED
  BY <1>1, <1>2, <1>3, <1>5, TickKept, CrashKept DEF Next, Processes, Kept

-----------------------------------------------------------------------------
(* What a step does to the file. *)

\* Inside a transaction only its COMMIT writes the file.
LEMMA StepOnDisk ==
  ASSUME Kept, OneAtATime, NEW p \in Processes, Step(p)
  PROVE  disk' \in {disk, db}
<1>1. CASE Lock(p) \/ Begin(p)
  BY <1>1 DEF Lock, Begin, SendBegin, SendStart, StartTransaction, connection
<1>2. CASE InTransaction(p)
  <2>1. undo # <<>>
    BY <1>2, InsideFacts
  <2>2. /\ Select => disk' = disk
        /\ Load => disk' = disk
        /\ \A new : Execute(new) \/ Write(new) => disk' = disk
        /\ \A n : StartTransaction(n) \/ RollbackTransaction(n) => disk' = disk
        /\ \A n : CommitTransaction(n) => disk' \in {disk, db}
        /\ SaveFails(p) => disk' = disk
    BY <2>1 DEF Select, connection, Load, Execute, Write, StartTransaction,
                RollbackTransaction, CommitTransaction, SaveFails, EndSave
  <2>3. CASE Find(p) \/ Take(p) \/ Diagnose(p) \/ Pick(p) \/ GiveBack(p) \/ Mark(p) \/ Insert(p)
    BY <2>2, <2>3 DEF Find, Take, Diagnose, Pick, GiveBack, Mark, Insert
  <2>4. CASE FindRow(p) \/ Complete(p) \/ SaveTicket(p)
    BY <2>2, <2>4 DEF FindRow, Complete, SaveTicket, LoadRow, WriteRow, LoadTicket, WriteTicket
  <2>5. CASE Open(p) \/ Reload(p) \/ Close(p) \/ Undo(p)
    BY <2>2, <2>5 DEF Open, Reload, Close, Undo, EndSave
  <2>6. CASE FindExpired(p) \/ Cancel(p) \/ FreeTicket(p) \/ GiveUnit(p)
    BY <2>2, <2>6 DEF FindExpired, Cancel, FreeTicket, GiveUnit, LoadRow, WriteRow
  <2>7. CASE Commit(p) \/ Rollback(p)
    BY <2>2, <2>7 DEF Commit, Rollback, connection
  <2>8. QED
    BY <1>1, <2>3, <2>4, <2>5, <2>6, <2>7 DEF Step
<1>3. CASE pc[p] \in Outside
  <2>1. Lock(p) \/ Begin(p)
    BY <1>3 DEF Step, At, Saving, SavingAt, Outside, Sites,
       Find, Take, Diagnose, Pick, GiveBack, Mark, Insert, FindRow, Complete, SaveTicket,
       Open, Reload, Close, Undo, FindExpired, Cancel, FreeTicket, GiveUnit, Commit, Rollback
  <2>2. QED
    BY <1>1, <2>1
<1>4. QED
  BY <1>2, <1>3 DEF InTransaction, Outside

\* Nothing is lost from the file.
LEMMA StepPreserves ==
  ASSUME Kept, OneAtATime, [Next]_vars
  PROVE  Preserves(disk, disk')
<1>1. Preserves(disk, disk) /\ Preserves(disk, db)
  BY PreservesSame DEF Kept, Sound
<1>2. CASE disk' \in {disk, db}
  BY <1>1, <1>2
<1>3. CASE Tick
  <2>1. disk' = [disk EXCEPT !.reservations = Age(@)] /\ disk \in Databases
    BY <1>3 DEF Tick, PassTime, Kept, Inv, TypeOK, ConnectionOK
  <2>2. /\ disk'.listed = disk.listed /\ disk'.stock = disk.stock
        /\ disk'.tickets = disk.tickets /\ disk'.reservations = Age(disk.reservations)
    BY <2>1 DEF Databases
  <2>3. \A i \in ReservationIds : Alike(disk'.reservations[i], disk.reservations[i])
    BY <2>1, <2>2, AgeAlike
  <2>4. QED
    BY <2>2, <2>3, Aged
<1>4. CASE Crash \/ UNCHANGED vars \/ (\E p \in Processes : \E r : Call(p, r))
  <2>1. disk' = disk
    BY <1>4 DEF Crash, Reconnect, vars, connection, Call, SendBegin, SendStart
  <2>2. QED
    BY <1>2, <2>1
<1>5. QED
  BY <1>2, <1>3, <1>4, StepOnDisk DEF Next, Processes

-----------------------------------------------------------------------------
(* The condition.  What keeps functions apart in the code is the lock, as    *)
(* long as all calls in flight queue for it.                                 *)

\* Two calls that run would both head its queue.
LEMMA LockKeepsApart ==
  Inv /\ OneQueue => OneAtATime
<1> SUFFICES ASSUME Inv, OneQueue, NEW p \in Processes, NEW o \in Processes,
                    IsRunning(p), IsRunning(o), p # o
             PROVE  FALSE
  BY DEF OneAtATime
<1>1. /\ InCall(p) /\ (InTransaction(p) \/ pc[p] = "begin")
      /\ InCall(o) /\ (InTransaction(o) \/ pc[o] = "begin")
  BY DEF IsRunning, InCall, InTransaction
<1>2. SameLock(request[p], request[o])
  BY <1>1 DEF OneQueue
<1>3. queue[request[p].concert][1] = p /\ queue[request[o].concert][1] = o
  BY <1>1, <1>2, HeadsQueue DEF SameLock
<1>4. QED
  BY <1>2, <1>3 DEF SameLock

-----------------------------------------------------------------------------
(* The theorems.  Good(db): the server is started on tables that agree.      *)

LEMMA StaysKept == Spec /\ Good(db) /\ []OneAtATime => []Kept
BY KeptInit, KeptStep, PTL DEF Spec

\* An instance has copies of the operators on tables, which are the same operators.
LEMMA SameTables ==
  /\ \A S : Service!Cardinality(S) = Cardinality(S)
  /\ \A rs, i : /\ Service!IsRow(rs, i) <=> IsRow(rs, i)
                /\ Service!IsPending(rs, i) <=> IsPending(rs, i)
  /\ \A tk, c : Service!Unsold(tk, c) = OnSale(tk, c)
BY DEF Service!Cardinality, Cardinality, Service!IsRow, IsRow, Service!IsPending, IsPending,
       Service!Unsold, OnSale, Service!TicketsOf, TicketsOf

\* A client that got a 201 answer has its row: as long as one function at a time
\* uses the connection the row is on disk when the answer is sent, with the ticket
\* and the user of the answer, and no later call, cleanup or crash takes it away.
\* Without the condition it may be rolled back by another call (server_booking) or
\* never reach the disk (server_durable).
THEOREM ReservedStays == Spec /\ Good(db) /\ []OneAtATime => []ReservedIsKept
<1>1. Kept => ReservedIsKept
  BY DEF Kept, Sound, AckedOnDisk, IsTrueIn, Owns, ReservedIsKept
<1>2. QED
  BY <1>1, StaysKept, PTL

\* A ticket whose purchase was confirmed is sold and stays sold, as long as one
\* function at a time uses the connection, also if its hold lapses while the purchase
\* is in progress.  A cleanup that overlaps the purchase puts it back on sale
\* (server_sold).
THEOREM PurchasedStays == Spec /\ Good(db) /\ []OneAtATime => []PurchasedIsKept
<1>1. ASSUME Kept, NEW a \in acked, a.what = "purchased"
      PROVE  db.tickets[a.ticket] = "SOLD"
  <2>1. /\ a.id \in ReservationIds /\ IsRow(disk.reservations, a.id)
        /\ disk.reservations[a.id].ticketId = a.ticket
        /\ disk.reservations[a.id].status = "COMPLETED"
    BY <1>1 DEF Kept, Sound, AckedOnDisk, IsTrueIn, Owns
  <2>2. a.ticket \in Tickets
    BY <1>1, <2>1, RowFacts DEF Kept, Inv, TypeOK, ConnectionOK, ReservationRows
  <2>3. disk.tickets[a.ticket] = "SOLD"
    BY <1>1, <2>1 DEF Kept, Sound, Good, Agree
  <2>4. QED
    BY <1>1, <2>2, <2>3 DEF Kept, Sound, Preserves
<1>2. Kept => PurchasedIsKept
  BY <1>1 DEF PurchasedIsKept
<1>3. QED
  BY <1>2, StaysKept, PTL

\* As long as one function at a time uses the connection, two customers are never told
\* that they hold the same ticket, nor that they have bought it: the two answers would
\* name one row, and a row has one user.
THEOREM NoDouble == Spec /\ Good(db) /\ []OneAtATime => []NoDoubleBooking
<1>1. ASSUME Kept, NEW a \in acked, NEW b \in acked, a.ticket = b.ticket
      PROVE  a.to = b.to
  <2>1. /\ Owns(disk, a.id, a.to, a.ticket) /\ Owns(disk, b.id, b.to, b.ticket)
        /\ UniqueTicketIds(disk.reservations)
    BY <1>1 DEF Kept, Sound, AckedOnDisk, IsTrueIn, Good, Agree
  <2>2. a.id = b.id
    BY <1>1, <2>1 DEF Owns, UniqueTicketIds
  <2>3. QED
    BY <2>1, <2>2 DEF Owns
<1>2. Kept => NoDoubleBooking
  BY <1>1 DEF NoDoubleBooking
<1>3. QED
  BY <1>2, StaysKept, PTL

\* As long as one function at a time uses the connection, the counter of a concert is,
\* between transactions, the number of its tickets nobody holds or has bought, whatever
\* was reserved, given back, refused or lost in a crash.
THEOREM StockRight == Spec /\ Good(db) /\ []OneAtATime => []StockNeverLost
<1>1. ASSUME Kept, undo = <<>>
      PROVE  \A c \in db.listed : db.stock[c] = Cardinality(Service!Unsold(db.tickets, c))
  <2>1. Exact(db)
    BY <1>1 DEF Kept, Sound, Good, Inv, TypeOK, ConnectionOK
  <2>2. QED
    BY <2>1, SameTables DEF Exact
<1>2. Kept => StockNeverLost
  BY <1>1 DEF StockNeverLost
<1>3. QED
  BY <1>2, StaysKept, PTL

\* As long as one function at a time uses the connection, each ends the transaction it
\* began, on every path that answers or throws, and the runner's depth is the height of
\* SQLite's stack.  When a COMMIT is in flight while another function begins, a
\* transaction stays open (server_durable).
THEOREM Balanced == Spec /\ Good(db) /\ []OneAtATime => []TransactionsBalanced
<1>1. ASSUME Kept, OneAtATime
      PROVE  TransactionsBalanced
  <2>1. CASE \A p \in Processes : ~InTransaction(p)
    <3>1. {p \in Processes : InTransaction(p)} = {}
      BY <2>1
    <3>2. undo = <<>> /\ depth = 0
      BY <1>1, <2>1 DEF Kept, Sound, Settled
    <3>3. QED
      BY <3>1, <3>2, FS_EmptySet DEF TransactionsBalanced
  <2>2. ASSUME NEW p \in Processes, InTransaction(p)
        PROVE  TransactionsBalanced
    <3>1. \A o \in Processes : InTransaction(o) => o = p
      BY <1>1, <2>2 DEF OneAtATime, IsRunning, InTransaction
    <3>2. {o \in Processes : InTransaction(o)} = {p}
      BY <2>2, <3>1
    <3>3. Cardinality({o \in Processes : InTransaction(o)}) = 1
      BY <3>2, FS_Singleton
    <3>4. Len(undo) = 1 /\ depth = 1
      BY <1>1, <2>2, InsideFacts
    <3>5. QED
      BY <3>3, <3>4 DEF TransactionsBalanced
  <2>3. QED
    BY <2>1, <2>2
<1>2. Kept /\ OneAtATime => TransactionsBalanced
  BY <1>1
<1>3. QED
  BY <1>2, StaysKept, PTL

\* As long as one function at a time uses the connection, nothing waits for a later
\* commit when no call is in flight: all that was done is in the file.  The run
\* server_durable shows how an overlap breaks it.
THEOREM DurableWhenQuiet == Spec /\ Good(db) /\ []OneAtATime => []QuietIsDurable
<1>1. Kept => QuietIsDurable
  BY DEF Kept, Sound, Settled, QuietIsDurable, Quiet, InCall, InTransaction, Inv, TypeOK,
         ConnectionOK
<1>2. QED
  BY <1>1, StaysKept, PTL

\* As long as one function at a time uses the connection, what a crash leaves agrees:
\* at every statement the rows on disk name their tickets, the two tables match and the
\* counters are right.
THEOREM DiskAgrees ==
  Spec /\ Good(db) /\ []OneAtATime =>
    [](/\ Service!RowsNameTheirTickets
       /\ Service!ReservationsMatchTickets
       /\ Service!StockMatchesTickets)
<1>1. Kept => Service!RowsNameTheirTickets
  BY SameTables DEF Kept, Sound, Good, Agree, UniqueTicketIds, Service!RowsNameTheirTickets
<1>2. Kept => Service!ReservationsMatchTickets
  BY SameTables DEF Kept, Sound, Good, Agree, Service!ReservationsMatchTickets
<1>3. Kept => Service!StockMatchesTickets
  BY SameTables DEF Kept, Sound, Good, Exact, Service!StockMatchesTickets
<1>4. QED
  BY <1>1, <1>2, <1>3, StaysKept, PTL

\* As long as one function at a time uses the connection, no transaction, whether it
\* commits, is rolled back or dies, puts a sold ticket of the file back on sale.
THEOREM SalesStayOnDisk ==
  Spec /\ Good(db) /\ []OneAtATime => Service!SoldIsFinal
<1>1. Kept /\ OneAtATime /\ [Next]_vars =>
        [\A t \in Tickets : disk.tickets[t] = "SOLD" => disk.tickets'[t] = "SOLD"]_(Service!vars)
  BY StepPreserves DEF Preserves
<1>2. QED
  BY <1>1, StaysKept, PTL DEF Spec, Service!SoldIsFinal

-----------------------------------------------------------------------------
(* The constant OneLock of the configurations. *)

\* A step of a function keeps its request, or is its last and clears it.
Moved(p) ==
  \E label \in Labels :
    /\ pc' = [pc EXCEPT ![p] = label]
    /\ \/ request' = request
       \/ label = "idle" /\ request' = [request EXCEPT ![p] = Nothing]

LEMMA HelpersMove ==
  ASSUME NEW p \in Processes
  PROVE  /\ \A label \in Labels : Goto(p, label) /\ request' = request => Moved(p)
         /\ \A m, label : label \in Labels /\ Proceed(p, m, label) => Moved(p)
         /\ \A e : Fail(p, e) \/ Answer(p, e) => Moved(p)
         /\ \A v, m : Succeed(p, v, m) => Moved(p)
         /\ \A e : Throw(p, e) => Moved(p)
<1>1. \A label \in Labels : Goto(p, label) /\ request' = request => Moved(p)
  BY DEF Goto, GotoStage, Moved
<1>2. \A m, label : label \in Labels /\ Proceed(p, m, label) => Moved(p)
  BY <1>1 DEF Proceed, Rest
<1>3. \A e : Fail(p, e) \/ Answer(p, e) => Moved(p)
  BY DEF Fail, Answer, Goto, GotoStage, Moved, Labels
<1>4. \A label \in Labels : \A m, v : Send(p, label, m, v) => Moved(p)
  BY <1>1, <1>3 DEF Send, Rest
<1>5. QED
  BY <1>1, <1>2, <1>3, <1>4 DEF Succeed, Throw, Labels

LEMMA StepMoves ==
  ASSUME Inv, NEW p \in Processes, Step(p)
  PROVE  InCall(p) /\ Moved(p)
<1>1. InCall(p)
  BY DEF Step, At, Saving, SavingAt, Sites, InCall, Lock, Begin,
     Find, Take, Diagnose, Pick, GiveBack, Mark, Insert, FindRow, Complete, SaveTicket,
     Open, Reload, Close, Undo, FindExpired, Cancel, FreeTicket, GiveUnit, Commit, Rollback
<1> SUFFICES Moved(p)
  BY <1>1
<1>2. /\ \A m : Proceed(p, m, "take") \/ Proceed(p, m, "diagnose") \/ Proceed(p, m, "giveback")
                \/ Proceed(p, m, "mark") \/ Proceed(p, m, "saveRow") \/ Proceed(p, m, "cancelRow")
                => Moved(p)
      /\ \A label \in Labels : Continue(p, label) => Moved(p)
  BY HelpersMove DEF Continue, Labels
<1>3. pc[p] \in Labels
  BY DEF Inv, TypeOK
<1>4. /\ \A label \in Labels : \A s : GotoStage(p, label, s) /\ UNCHANGED Rest => Moved(p)
      /\ \A stage : Stage(p, stage) /\ UNCHANGED Rest => Moved(p)
  BY <1>3 DEF GotoStage, Stage, Rest, Moved
<1>5. /\ \A old : Persist(p, "insert", old) \/ Persist(p, pc[p], old) => Moved(p)
      /\ \A stage : EndSave(p, stage) => Moved(p)
  <2>1. \A label \in Labels : \A old : Persist(p, label, old) => Moved(p)
    BY <1>4 DEF Persist, Rest
  <2>2. \A stage : EndSave(p, stage) => Moved(p)
    BY <1>4 DEF EndSave, Rest
  <2>3. QED
    BY <1>3, <2>1, <2>2 DEF Labels
<1>6. SaveFails(p) \/ Saved(p) => Moved(p)
  BY <1>2, <1>5, HelpersMove DEF SaveFails, Saved, Labels
<1>7. CASE Lock(p)
  <2>1. Goto(p, "begin") /\ request' = request
    BY <1>7 DEF Lock, SendBegin, Rest
  <2>2. QED
    BY <2>1, HelpersMove DEF Labels
<1>8. CASE Begin(p)
  <2>1. FirstStatement(request[p].kind) \in Labels
    BY DEF FirstStatement, Labels
  <2>2. QED
    BY <1>2, <1>8, <2>1, HelpersMove DEF Begin
<1>9. CASE Find(p) \/ Diagnose(p)
  BY <1>2, <1>9, HelpersMove DEF Find, Diagnose
<1>10. CASE Take(p) \/ Pick(p) \/ GiveBack(p)
  <2>1. Continue(p, "pick") => Moved(p)
    BY <1>2 DEF Labels
  <2>2. QED
    BY <1>2, <1>10, <2>1, HelpersMove DEF Take, Pick, GiveBack
<1>11. CASE Mark(p) \/ Insert(p)
  <2>1. Mark(p) => Moved(p)
    BY <1>5 DEF Mark
  <2>2. CASE Insert(p) /\ ~SaveFails(p)
    <3>1. Stage(p, "reload") /\ UNCHANGED Rest
      BY <2>2 DEF Insert, Rest
    <3>2. QED
      BY <1>4, <3>1
  <2>3. QED
    BY <1>6, <1>11, <2>1, <2>2
<1>12. \A i, row : LoadRow(p, i, row) \/ WriteRow(p, i, row) => Moved(p)
  <2>1. ASSUME NEW i, NEW row, WriteRow(p, i, row), ~SaveFails(p)
        PROVE  Stage(p, "reload") /\ UNCHANGED Rest
    BY <2>1 DEF WriteRow, Rest
  <2>2. \A i, row : WriteRow(p, i, row) => Moved(p)
    BY <1>4, <1>6, <2>1
  <2>3. \A i, row : LoadRow(p, i, row) => Moved(p)
    BY <1>5, <1>6 DEF LoadRow
  <2>4. QED
    BY <2>2, <2>3
<1>13. CASE FindRow(p)
  BY <1>2, <1>13, HelpersMove DEF FindRow
<1>14. CASE Complete(p) \/ Cancel(p)
  BY <1>12, <1>14 DEF Complete, Cancel
<1>15. CASE SaveTicket(p)
  <2>1. WriteTicket(p) => Stage(p, "reload") /\ UNCHANGED Rest
    BY DEF WriteTicket, Rest
  <2>2. LoadTicket(p) => Moved(p)
    BY <1>5, <1>6 DEF LoadTicket
  <2>3. QED
    BY <1>4, <1>15, <2>1, <2>2 DEF SaveTicket
<1>16. CASE Open(p)
  <2>1. Stage(p, "write") /\ UNCHANGED Rest
    BY <1>16 DEF Open, Rest
  <2>2. QED
    BY <1>4, <2>1
<1>17. CASE Reload(p) \/ Close(p)
  BY <1>5, <1>6, <1>17 DEF Reload, Close
<1>18. CASE Undo(p)
  BY <1>18, HelpersMove DEF Undo
<1>19. \A todo, m : NextRound(p, todo, m) => Moved(p)
  BY <1>2, HelpersMove DEF NextRound
<1>20. CASE FindExpired(p) \/ FreeTicket(p) \/ GiveUnit(p)
  <2>1. Continue(p, "addStock") => Moved(p)
    BY <1>2 DEF Labels
  <2>2. QED
    BY <1>19, <1>20, <2>1 DEF FindExpired, FreeTicket, GiveUnit
<1>21. CASE Commit(p) \/ Rollback(p)
  BY <1>21, HelpersMove DEF Commit, Rollback
<1>22. QED
  BY <1>7, <1>8, <1>9, <1>10, <1>11, <1>13, <1>14, <1>15, <1>16, <1>17, <1>18,
     <1>20, <1>21 DEF Step

LEMMA OneQueueStep ==
  ASSUME OneLock, Inv, OneQueue, [Next]_vars
  PROVE  OneQueue'
<1>1. DOMAIN request = Processes /\ pc \in [Processes -> Labels]
  BY DEF Inv, CallsOK, TypeOK
<1>2. CASE UNCHANGED <<pc, request>>
  BY <1>2 DEF OneQueue, InCall
<1>3. ASSUME NEW p \in Processes, NEW r, Call(p, r)
      PROVE  OneQueue'
  <2>1. /\ \A o \in Processes : pc[o] # "idle" => SameLock(r, request[o])
        /\ request' = [request EXCEPT ![p] = r]
        /\ \A o \in Processes \ {p} : pc'[o] = pc[o]
    BY <1>1, <1>3 DEF Call, InCall, SendBegin, Goto, GotoStage
  <2>2. QED
    BY <1>1, <2>1 DEF OneQueue, InCall, SameLock
<1>4. ASSUME NEW p \in Processes, Step(p)
      PROVE  OneQueue'
  <2>1. InCall(p) /\ Moved(p)
    BY <1>4, StepMoves
  <2>2. \A o \in Processes : InCall(o)' => InCall(o) /\ request'[o] = request[o]
    BY <1>1, <2>1 DEF Moved, InCall
  <2>3. QED
    BY <2>2 DEF OneQueue
<1>5. CASE Crash
  BY <1>5 DEF Crash, OneQueue, InCall
<1>6. CASE Tick \/ UNCHANGED vars
  BY <1>2, <1>6 DEF Tick, control, vars
<1>7. QED
  BY <1>3, <1>4, <1>5, <1>6 DEF Next, Processes

\* With OneLock all calls in flight queue for one lock at all times, so that the runs
\* with that constant are instances of the theorems above.
LEMMA OneLockApart ==
  ASSUME OneLock
  PROVE  Spec => [](OneQueue /\ OneAtATime)
<1>1. Init => OneQueue
  BY DEF Init, OneQueue, InCall
<1>2. Inv /\ OneQueue /\ [Next]_vars => OneQueue'
  BY OneQueueStep
<1>3. QED
  BY <1>1, <1>2, LockKeepsApart, Invariance, PTL DEF Spec

\* What the lock is for.  While all requests in flight are pessimistic reserves of one
\* concert, however many wait and in whatever order they and the crashes come,
\* withConcertLock alone makes every promise hold: who was told of a ticket keeps
\* it, nobody else is told of it, the counters are right and the transactions end.
THEOREM LockSuffices ==
  Spec /\ Good(db) /\ []OneQueue =>
    [](/\ ReservedIsKept /\ PurchasedIsKept /\ NoDoubleBooking
       /\ StockNeverLost /\ TransactionsBalanced)
<1>1. Spec /\ []OneQueue => []OneAtATime
  BY LockKeepsApart, Invariance, PTL
<1>2. QED
  BY <1>1, ReservedStays, PurchasedStays, NoDouble, StockRight, Balanced, PTL
=============================================================================
