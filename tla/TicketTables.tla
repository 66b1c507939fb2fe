---------------------------- MODULE TicketTables ----------------------------
(***************************************************************************)
(* The rows of database.sqlite and the SQL statements the services issue,  *)
(* as pure operators on tables.  A table is a function from its primary    *)
(* key; every module that models a handler is built from these operators.  *)
(*                                                                         *)
(* Data left out: names, venues, dates, categories and audit columns.  The *)
(* version column of concerts matters only when transactions interleave    *)
(* and is kept by the module that interleaves them.                        *)
(***************************************************************************)
EXTENDS Integers, FiniteSets

CONSTANTS
  Concerts,        \* concert ids a request may name
  Tickets,         \* ticket ids
  Users,           \* user ids
  ConcertOf,       \* the concertId column of each ticket
  Price,           \* the price column of each ticket
  ReservationIds,  \* reservation ids; a bound on the size of the table
  MaxQuantity,     \* largest quantity of a request (5 in the request schema)
  TTL              \* RESERVATION_TTL_MINUTES, in ticks of the clock

ASSUME TablesAssumption ==
  /\ IsFiniteSet(Tickets)
  /\ ConcertOf \in [Tickets -> Concerts]
  /\ Price \in [Tickets -> Nat]
  /\ IsFiniteSet(ReservationIds) /\ ReservationIds \subseteq Nat
  /\ MaxQuantity \in Nat \ {0}
  /\ TTL \in Nat \ {0}

-----------------------------------------------------------------------------
(* Rows. *)

Quantities == 1 .. MaxQuantity

\* "ABSENT" stands for a ticket row that has not been inserted.
TicketStatuses == {"ABSENT", "AVAILABLE", "RESERVED", "SOLD"}

ReservationStatuses == {"PENDING", "COMPLETED", "CANCELLED"}

\* `left' is expiresAt minus the clock: negative once the clock is past it.
ReservationRows ==
  [userId: Users, ticketId: Tickets, concertId: Concerts,
   status: ReservationStatuses, left: -1 .. TTL]

NoRow == [status |-> "NONE"]

TicketTable      == [Tickets -> TicketStatuses]
ReservationTable == [ReservationIds -> ReservationRows \cup {NoRow}]

IsRow(rs, i)     == rs[i].status # "NONE"
IsPending(rs, i) == rs[i].status = "PENDING"

-----------------------------------------------------------------------------
(* SELECT statements. *)

TicketsOf(c) == {t \in Tickets : ConcertOf[t] = c}

\* tickets WHERE concertId = c AND status = 'AVAILABLE'
AvailableTickets(tk, c) == {t \in TicketsOf(c) : tk[t] = "AVAILABLE"}

\* The answers to ORDER BY price ASC LIMIT q over the rows A.  SQL leaves the
\* order of equal prices open, so there may be several, and `first', the head
\* of the answer, may be any of the cheapest.
CheapestFirst(A, q) ==
  {b \in [ids: SUBSET A, first: A] :
     /\ Cardinality(b.ids) = q
     /\ b.first \in b.ids
     /\ \A t \in b.ids : Price[b.first] <= Price[t]
     /\ \A t \in b.ids, u \in A \ b.ids : Price[t] <= Price[u]}

\* Mutant of ExpiredReservations: the status filter is dropped.
OverdueReservations(rs) ==
  {i \in ReservationIds : IsRow(rs, i) /\ rs[i].left <= 0}

\* reservations WHERE status = 'PENDING' AND expiresAt < now
ExpiredReservations(rs) ==
  {i \in ReservationIds : IsPending(rs, i) /\ rs[i].left < 0}

TicketIdsOf(rs, ids) == {rs[i].ticketId : i \in ids}

-----------------------------------------------------------------------------
(* INSERT and UPDATE statements. *)

SetTicketStatus(tk, ids, status) ==
  [t \in Tickets |-> IF t \in ids THEN status ELSE tk[t]]

AddStock(st, c, n) == [st EXCEPT ![c] = @ + n]

\* AUTOINCREMENT: the next id is above every id in the table, with no gap.
IsNextId(rs, id) ==
  /\ \A i \in ReservationIds : IsRow(rs, i) => i < id
  /\ \A i \in ReservationIds :
        i < id => \E j \in ReservationIds : i <= j /\ IsRow(rs, j)

\* CONSTRAINT "UQ_reservation_ticket" UNIQUE ("ticketId").  Rows are never
\* deleted, so a cancelled reservation keeps its ticketId.
UniqueTicketIds(rs) ==
  \A i, j \in ReservationIds :
    IsRow(rs, i) /\ IsRow(rs, j) /\ rs[i].ticketId = rs[j].ticketId => i = j

\* Mutant of TicketIdIsFree: a cancelled row gives its ticketId up.
TicketIdIsFreeIfCancelled(rs, t) ==
  \A i \in ReservationIds : IsRow(rs, i) /\ rs[i].status # "CANCELLED" => rs[i].ticketId # t

TicketIdIsFree(rs, t) ==
  \A i \in ReservationIds : IsRow(rs, i) => rs[i].ticketId # t

InsertReservation(rs, id, user, t, c) ==
  [rs EXCEPT ![id] = [userId |-> user, ticketId |-> t, concertId |-> c,
                      status |-> "PENDING", left |-> TTL]]

SetReservationStatus(rs, ids, status) ==
  [i \in ReservationIds |->
     IF i \in ids THEN [rs[i] EXCEPT !.status = status] ELSE rs[i]]

-----------------------------------------------------------------------------
(* The clock moves one tick: every hold is one tick closer to expiresAt.   *)

Age(rs) ==
  [i \in ReservationIds |->
     IF IsPending(rs, i) /\ rs[i].left >= 0
     THEN [rs[i] EXCEPT !.left = @ - 1] ELSE rs[i]]
=============================================================================
