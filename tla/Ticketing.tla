------------------------------ MODULE Ticketing ------------------------------
(***************************************************************************)
(* The ticketing service with isolated transactions: every service function*)
(* runs its whole transaction, from startTransaction to commit or rollback,*)
(* as one step, which is how the comments of reservationService.ts         *)
(* ("SQLite serialises all writes") describe it and how it behaves while   *)
(* requests do not overlap.  A transaction that throws is rolled back and  *)
(* changes no table; `outcome' keeps what the caller was told.             *)
(*                                                                         *)
(* The seed script fills the tables, possibly while the service runs, and  *)
(* may die between its two statements for a concert.                       *)
(***************************************************************************)
EXTENDS TicketTables

VARIABLES
  listed,        \* the concerts that have a row
  stock,         \* concerts.availableStock
  tickets,       \* tickets.status
  reservations,  \* the reservations table
  seeding,       \* the concert the seed script has saved without its tickets
  outcome        \* how the last service call ended

tables == <<listed, stock, tickets, reservations>>
vars   == <<listed, stock, tickets, reservations, seeding, outcome>>

Outcomes ==
  {"none", "reserved", "purchased", "released",
   "NotFoundError", "ConflictError", "QueryFailedError"}

\* The counter of a concert never goes below zero: no reservation is granted
\* for more units than are left.
TypeOK ==
  /\ listed \subseteq Concerts
  /\ stock \in [Concerts -> Nat]
  /\ tickets \in TicketTable
  /\ reservations \in ReservationTable
  /\ seeding \subseteq Concerts
  /\ outcome \in Outcomes

\* The state after the migrations: three empty tables.
Init ==
  /\ listed = {}
  /\ stock = [c \in Concerts |-> 0]
  /\ tickets = [t \in Tickets |-> "ABSENT"]
  /\ reservations = [i \in ReservationIds |-> NoRow]
  /\ seeding = {}
  /\ outcome = "none"

-----------------------------------------------------------------------------
(* The seed script.  It has no transaction around a concert and its tickets:*)
(* save(concert) commits, then save(tickets) commits.                       *)

\* findOne by name: an existing concert is skipped, whatever tickets it has.
SeedConcert(c) ==
  /\ seeding = {}
  /\ c \notin listed
  /\ listed' = listed \cup {c}
  /\ stock' = [stock EXCEPT ![c] = Cardinality(TicketsOf(c))]
  /\ seeding' = {c}
  /\ UNCHANGED <<tickets, reservations, outcome>>

SeedTickets(c) ==
  /\ seeding = {c}
  /\ tickets' = SetTicketStatus(tickets, TicketsOf(c), "AVAILABLE")
  /\ seeding' = {}
  /\ UNCHANGED <<listed, stock, reservations, outcome>>

\* The process dies, or save(tickets) rejects, between the two commits.
SeedDies ==
  /\ seeding # {}
  /\ seeding' = {}
  /\ UNCHANGED <<tables, outcome>>

-----------------------------------------------------------------------------
(* Reserve.  `batches' is the set of answers the ticket SELECT may give.    *)

Throw(error) ==
  /\ outcome' = error
  /\ UNCHANGED <<tables, seeding>>

\* Mutants of Reserved: the stock is decremented by the quantity once for each
\* ticket of the batch; the ticket rows are never marked.
ReservedQuantityTwice(u, c, q, b) ==
  /\ stock' = AddStock(stock, c, -q * q)
  /\ tickets' = SetTicketStatus(tickets, b.ids, "RESERVED")
  /\ \E id \in ReservationIds :
        /\ IsNextId(reservations, id)
        /\ reservations' = InsertReservation(reservations, id, u, b.first, c)

ReservedUnmarked(u, c, q, b) ==
  /\ stock' = AddStock(stock, c, -q)
  /\ \E id \in ReservationIds :
        /\ IsNextId(reservations, id)
        /\ reservations' = InsertReservation(reservations, id, u, b.first, c)
  /\ UNCHANGED tickets

\* The three writes of a reservation that commits.  Whatever the quantity,
\* one row is inserted, for the first ticket of the batch.
Reserved(u, c, q, b) ==
  /\ stock' = AddStock(stock, c, -q)
  /\ tickets' = SetTicketStatus(tickets, b.ids, "RESERVED")
  /\ \E id \in ReservationIds :
        /\ IsNextId(reservations, id)
        /\ reservations' = InsertReservation(reservations, id, u, b.first, c)

\* reserveTicketAtomic, and with isolated transactions also
\* reserveTicketOptimistic (the version it compares is the version it has just
\* read) and reserveTicketPessimistic (which calls reserveTicketAtomic).
Reserve(u, c, q) ==
  LET available == AvailableTickets(tickets, c)
      batches   == CheapestFirst(available, q)
  IN  \/ c \notin listed /\ Throw("NotFoundError")
      \/ c \in listed /\ stock[c] < q /\ Throw("ConflictError")
      \/ /\ c \in listed /\ stock[c] >= q
         /\ Cardinality(available) < q
         /\ Throw("ConflictError")
      \/ /\ c \in listed /\ stock[c] >= q
         /\ \E b \in batches : ~TicketIdIsFree(reservations, b.first)
         /\ Throw("QueryFailedError")
      \/ /\ c \in listed /\ stock[c] >= q
         /\ \E b \in batches :
               /\ TicketIdIsFree(reservations, b.first)
               /\ Reserved(u, c, q, b)
         /\ outcome' = "reserved"
         /\ UNCHANGED <<listed, seeding>>

\* reserveTicket of reservationService.ts, which the integration test calls:
\* one ticket, in no particular order.  Its errors are plain Errors; the
\* outcome names the class the hardened functions use for the same refusal.
LegacyReserve(u, c) ==
  LET available == AvailableTickets(tickets, c)
  IN  \/ c \notin listed /\ Throw("NotFoundError")
      \/ c \in listed /\ stock[c] <= 0 /\ Throw("ConflictError")
      \/ c \in listed /\ stock[c] > 0 /\ available = {} /\ Throw("ConflictError")
      \/ /\ c \in listed /\ stock[c] > 0
         /\ \E t \in available : ~TicketIdIsFree(reservations, t)
         /\ Throw("QueryFailedError")
      \/ /\ c \in listed /\ stock[c] > 0
         /\ \E t \in available :
               /\ TicketIdIsFree(reservations, t)
               /\ Reserved(u, c, 1, [ids |-> {t}, first |-> t])
         /\ outcome' = "reserved"
         /\ UNCHANGED <<listed, seeding>>

-----------------------------------------------------------------------------
(* Purchase. *)

\* The checks of purchaseHandler after the row is found: the row belongs to
\* the user, it is PENDING, and the clock is not past expiresAt.
MayPurchase(u, i) ==
  /\ reservations[i].userId = u
  /\ IsPending(reservations, i)
  /\ reservations[i].left >= 0

\* purchaseHandler of the hardened router; purchaseTicket of
\* reservationService.ts makes the same checks and the same writes.
Purchase(u, i) ==
  \/ ~IsRow(reservations, i) /\ Throw("NotFoundError")
  \/ /\ IsRow(reservations, i)
     /\ ~MayPurchase(u, i)
     /\ Throw("ConflictError")
  \/ /\ IsRow(reservations, i)
     /\ MayPurchase(u, i)
     /\ reservations' = SetReservationStatus(reservations, {i}, "COMPLETED")
     /\ tickets' = SetTicketStatus(tickets, {reservations[i].ticketId}, "SOLD")
     /\ outcome' = "purchased"
     /\ UNCHANGED <<listed, stock, seeding>>

-----------------------------------------------------------------------------
(* Cleanup of expired holds, run by the cron job every minute.              *)

\* Mutant of ExpiredHolds: expiry is off by one, so that it is never reached.
NeverExpired ==
  {i \in ReservationIds : IsPending(reservations, i) /\ reservations[i].left < -1}

ExpiredHolds == ExpiredReservations(reservations)

\* Mutants of Released: the counter is restored once per concert and run; the
\* ticket rows are left as they are.
ReleasedOncePerConcert(E) ==
  /\ reservations' = SetReservationStatus(reservations, E, "CANCELLED")
  /\ tickets' = SetTicketStatus(tickets, TicketIdsOf(reservations, E),
                                "AVAILABLE")
  /\ stock' = [c \in Concerts |->
                 stock[c] + IF \E i \in E : reservations[i].concertId = c
                            THEN 1 ELSE 0]

ReleasedUnfreed(E) ==
  /\ reservations' = SetReservationStatus(reservations, E, "CANCELLED")
  /\ stock' = [c \in Concerts |->
                 stock[c] + Cardinality({i \in E : reservations[i].concertId = c})]
  /\ UNCHANGED tickets

\* The loop over the expired rows: cancel the row, free its ticket, and give
\* the concert back one unit for each row.
Released(E) ==
  /\ reservations' = SetReservationStatus(reservations, E, "CANCELLED")
  /\ tickets' = SetTicketStatus(tickets, TicketIdsOf(reservations, E),
                                "AVAILABLE")
  /\ stock' = [c \in Concerts |->
                 stock[c] + Cardinality({i \in E : reservations[i].concertId = c})]

Cleanup ==
  /\ Released(ExpiredHolds)
  /\ outcome' = "released"
  /\ UNCHANGED <<listed, seeding>>

-----------------------------------------------------------------------------
\* Time passes; what has expired stays until the next cleanup.
Tick ==
  /\ \E i \in ReservationIds : IsPending(reservations, i) /\ reservations[i].left >= 0
  /\ reservations' = Age(reservations)
  /\ UNCHANGED <<listed, stock, tickets, seeding, outcome>>

Next ==
  \/ \E c \in Concerts : SeedConcert(c) \/ SeedTickets(c)
  \/ SeedDies
  \/ \E u \in Users, c \in Concerts, q \in Quantities : Reserve(u, c, q)
  \/ \E u \in Users, c \in Concerts : LegacyReserve(u, c)
  \/ \E u \in Users, i \in ReservationIds : Purchase(u, i)
  \/ Cleanup
  \/ Tick

Spec == Init /\ [][Next]_vars

\* The wall clock advances and node-cron calls the cleanup every minute; no
\* client is obliged to do anything.
FairSpec == Spec /\ WF_vars(Tick) /\ WF_vars(Cleanup)

-----------------------------------------------------------------------------
(* Properties. *)

Unsold(tk, c) == {t \in TicketsOf(c) : tk[t] \in {"ABSENT", "AVAILABLE"}}

\* The counter of a concert is the number of its tickets nobody holds or has
\* bought.  Three functions maintain the counter and the rows separately
\* (reserve by the quantity, cleanup by rows of another table, seed by the size
\* of a list), so nothing but all of them together keeps the two equal.  Once
\* the tickets are seeded it makes the second stock check of reserve (rows
\* found < quantity) unreachable.  Tickets that were not seeded count as unsold:
\* a concert whose seeding died has stock and nothing to sell.
StockMatchesTickets ==
  \A c \in listed : stock[c] = Cardinality(Unsold(tickets, c))

\* The two tables agree: a pending hold has its ticket reserved, a completed
\* one has it sold, and a ticket is sold only through a completed reservation.
\* Purchase and cleanup write the ticket from the reservation row alone,
\* without looking at the ticket's status.
ReservationsMatchTickets ==
  /\ \A i \in ReservationIds :
       /\ IsPending(reservations, i) => tickets[reservations[i].ticketId] = "RESERVED"
       /\ reservations[i].status = "COMPLETED" => tickets[reservations[i].ticketId] = "SOLD"
  /\ \A t \in Tickets : tickets[t] = "SOLD" =>
       \E i \in ReservationIds :
          reservations[i].status = "COMPLETED" /\ reservations[i].ticketId = t

\* What a step relies on besides the two: a row belongs to the concert of its
\* ticket and no ticket has two rows (purchase and cleanup act on the row
\* alone), and until the seed script saves its tickets a concert has none.
RowsNameTheirTickets ==
  /\ \A i \in ReservationIds : IsRow(reservations, i) =>
       /\ reservations[i].concertId = ConcertOf[reservations[i].ticketId]
       /\ reservations[i].concertId \in listed
  /\ \A i, j \in ReservationIds :
       IsRow(reservations, i) /\ IsRow(reservations, j)
       /\ reservations[i].ticketId = reservations[j].ticketId => i = j

SeedOrder ==
  /\ seeding \subseteq listed
  /\ \A c \in Concerts : c \notin listed \/ c \in seeding =>
       \A t \in TicketsOf(c) : tickets[t] = "ABSENT"

\* The inductive invariant of the proofs.
Inv ==
  /\ TypeOK
  /\ RowsNameTheirTickets
  /\ SeedOrder
  /\ ReservationsMatchTickets
  /\ StockMatchesTickets

\* A sold ticket is never put back on sale or sold to somebody else, whatever
\* cleanup, purchase and the seed script do later.
SoldIsFinal ==
  [][\A t \in Tickets : tickets[t] = "SOLD" => tickets'[t] = "SOLD"]_vars

\* A hold never lasts for ever: it is bought or it is released.
HoldsEnd ==
  \A i \in ReservationIds :
     IsPending(reservations, i) ~> ~IsPending(reservations, i)

\* What cleanup announces, "released ... back to stock": a ticket that is on
\* sale can be reserved.
AvailableIsReservable ==
  \A t \in Tickets : tickets[t] = "AVAILABLE" => TicketIdIsFree(reservations, t)

\* A reserved ticket is a hold that expires: some pending reservation will
\* either buy it or give it back.
ReservedIsHeld ==
  \A t \in Tickets : tickets[t] = "RESERVED" =>
     \E i \in ReservationIds :
        IsPending(reservations, i) /\ reservations[i].ticketId = t
=============================================================================
