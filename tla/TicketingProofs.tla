-------------------------- MODULE TicketingProofs --------------------------
(***************************************************************************)
(* Proofs about Ticketing, for every set of concerts, tickets and users,   *)
(* every price list, quantity limit and time to live.                      *)
(***************************************************************************)
EXTENDS Ticketing, TLAPS, FiniteSetTheorems

-----------------------------------------------------------------------------
(* The SQL statements return tables of the right type.                      *)

\* What is not the empty row is a row.
LEMMA RowType ==
  ASSUME NEW rs \in ReservationTable, NEW i \in ReservationIds, IsRow(rs, i)
  PROVE  rs[i] \in ReservationRows
BY DEF ReservationTable, IsRow, NoRow

\* A concert has finitely many tickets.
LEMMA TicketsOfFinite ==
  ASSUME NEW c
  PROVE  IsFiniteSet(TicketsOf(c)) /\ Cardinality(TicketsOf(c)) \in Nat
BY TablesAssumption, FS_Subset, FS_CardinalityType DEF TicketsOf

\* UPDATE tickets SET status keeps the tickets table well typed.
LEMMA SetTicketStatusType ==
  ASSUME NEW tk \in TicketTable, NEW ids, NEW s \in TicketStatuses
  PROVE  SetTicketStatus(tk, ids, s) \in TicketTable
BY DEF TicketTable, SetTicketStatus

\* INSERT INTO reservations keeps the table well typed.
LEMMA InsertReservationType ==
  ASSUME NEW rs \in ReservationTable, NEW id \in ReservationIds,
         NEW u \in Users, NEW t \in Tickets, NEW c \in Concerts
  PROVE  InsertReservation(rs, id, u, t, c) \in ReservationTable
<1> DEFINE row == [userId |-> u, ticketId |-> t, concertId |-> c,
                   status |-> "PENDING", left |-> TTL]
<1>1. TTL \in -1 .. TTL
  BY TablesAssumption
<1>2. row \in ReservationRows
  BY <1>1 DEF ReservationRows, ReservationStatuses
<1>3. QED
  BY <1>2 DEF InsertReservation, ReservationTable

\* UPDATE reservations SET status keeps the table well typed.
LEMMA SetReservationStatusType ==
  ASSUME NEW rs \in ReservationTable, NEW ids \in SUBSET ReservationIds,
         \A i \in ids : IsRow(rs, i), NEW s \in ReservationStatuses
  PROVE  SetReservationStatus(rs, ids, s) \in ReservationTable
<1>1. ASSUME NEW i \in ids
      PROVE  [rs[i] EXCEPT !.status = s] \in ReservationRows
  <2>1. rs[i] \in ReservationRows
    BY RowType
  <2>2. QED
    BY <2>1 DEF ReservationRows
<1>2. QED
  BY <1>1 DEF SetReservationStatus, ReservationTable

\* The passing of time keeps the reservations table well typed.
LEMMA AgeType ==
  ASSUME NEW rs \in ReservationTable
  PROVE  Age(rs) \in ReservationTable
<1>1. ASSUME NEW i \in ReservationIds, IsPending(rs, i), rs[i].left >= 0
      PROVE  [rs[i] EXCEPT !.left = @ - 1] \in ReservationRows
  <2>1. rs[i] \in ReservationRows
    BY <1>1, RowType DEF IsPending, IsRow
  <2>2. rs[i].left - 1 \in -1 .. TTL
    BY <1>1, <2>1, TablesAssumption DEF ReservationRows
  <2>3. QED
    BY <2>1, <2>2 DEF ReservationRows
<1>2. QED
  BY <1>1 DEF Age, ReservationTable

-----------------------------------------------------------------------------
(* What the reservation queries return. *)

\* The ticket SELECT answers with as many available tickets as were asked for.
LEMMA BatchFacts ==
  ASSUME NEW c, NEW q, NEW b \in CheapestFirst(AvailableTickets(tickets, c), q)
  PROVE  /\ b.ids \subseteq AvailableTickets(tickets, c)
         /\ b.first \in b.ids
         /\ Cardinality(b.ids) = q
BY DEF CheapestFirst

\* The next AUTOINCREMENT id has no row yet.
LEMMA NextIdIsFree ==
  ASSUME NEW id \in ReservationIds, IsNextId(reservations, id)
  PROVE  ~IsRow(reservations, id)
BY TablesAssumption DEF IsNextId

\* The rows cleanup selects are pending rows.
LEMMA ExpiredFacts ==
  ASSUME NEW i \in ExpiredHolds
  PROVE  i \in ReservationIds /\ IsPending(reservations, i) /\ IsRow(reservations, i)
BY DEF ExpiredHolds, ExpiredReservations, IsPending, IsRow

-----------------------------------------------------------------------------
(* Types. *)

\* A reservation that commits keeps the types and leaves the stock a natural
\* number, because the request was checked against it.
LEMMA ReservedType ==
  ASSUME TypeOK, NEW u \in Users, NEW c \in Concerts, NEW q \in Nat, NEW b,
         b.ids \subseteq AvailableTickets(tickets, c), b.first \in b.ids,
         stock[c] >= q, Reserved(u, c, q, b)
  PROVE  /\ stock' \in [Concerts -> Nat]
         /\ tickets' \in TicketTable
         /\ reservations' \in ReservationTable
<1>1. stock[c] + (-q) \in Nat
  BY DEF TypeOK
<1>2. stock' \in [Concerts -> Nat]
  BY <1>1 DEF TypeOK, Reserved, AddStock
<1>3. tickets' \in TicketTable
  BY SetTicketStatusType DEF TypeOK, Reserved, TicketStatuses
<1>4. b.first \in Tickets
  BY DEF AvailableTickets, TicketsOf
<1>5. reservations' \in ReservationTable
  BY <1>4, InsertReservationType DEF TypeOK, Reserved
<1>6. QED
  BY <1>2, <1>3, <1>5

\* Every step of the service keeps the types.
LEMMA TypeStep ==
  ASSUME TypeOK, [Next]_vars
  PROVE  TypeOK'
<1> USE DEF TypeOK
<1>1. ASSUME NEW c \in Concerts, SeedConcert(c)
      PROVE  TypeOK'
  BY <1>1, TicketsOfFinite DEF SeedConcert
<1>2. ASSUME NEW c \in Concerts, SeedTickets(c)
      PROVE  TypeOK'
  BY <1>2, SetTicketStatusType DEF SeedTickets, TicketStatuses
<1>3. ASSUME SeedDies
      PROVE  TypeOK'
  BY <1>3 DEF SeedDies, tables
<1>4. ASSUME NEW e \in Outcomes, Throw(e)
      PROVE  TypeOK'
  BY <1>4 DEF Throw, tables
<1>5. ASSUME NEW u \in Users, NEW c \in Concerts, NEW q \in Quantities, Reserve(u, c, q)
      PROVE  TypeOK'
  <2>1. ASSUME c \in listed, stock[c] >= q,
               NEW b \in CheapestFirst(AvailableTickets(tickets, c), q),
               Reserved(u, c, q, b), outcome' = "reserved", UNCHANGED <<listed, seeding>>
        PROVE  TypeOK'
    <3>1. q \in Nat
      BY TablesAssumption DEF Quantities
    <3>2. QED
      BY <2>1, <3>1, BatchFacts, ReservedType DEF Outcomes
  <2>2. QED
    BY <1>4, <1>5, <2>1 DEF Reserve, Outcomes
<1>6. ASSUME NEW u \in Users, NEW c \in Concerts, LegacyReserve(u, c)
      PROVE  TypeOK'
  <2>1. ASSUME stock[c] > 0, NEW t \in AvailableTickets(tickets, c),
               Reserved(u, c, 1, [ids |-> {t}, first |-> t]),
               outcome' = "reserved", UNCHANGED <<listed, seeding>>
        PROVE  TypeOK'
    BY <2>1, ReservedType DEF Outcomes
  <2>2. QED
    BY <1>4, <1>6, <2>1 DEF LegacyReserve, Outcomes
<1>7. ASSUME NEW u \in Users, NEW i \in ReservationIds, Purchase(u, i)
      PROVE  TypeOK'
  <2>1. ASSUME IsRow(reservations, i),
               reservations' = SetReservationStatus(reservations, {i}, "COMPLETED"),
               tickets' = SetTicketStatus(tickets, {reservations[i].ticketId}, "SOLD"),
               outcome' = "purchased", UNCHANGED <<listed, stock, seeding>>
        PROVE  TypeOK'
    <3>1. reservations' \in ReservationTable
      BY <2>1, SetReservationStatusType DEF ReservationStatuses
    <3>2. tickets' \in TicketTable
      BY <2>1, SetTicketStatusType DEF TicketStatuses
    <3>3. QED
      BY <2>1, <3>1, <3>2 DEF Outcomes
  <2>2. QED
    BY <1>4, <1>7, <2>1 DEF Purchase, Outcomes
<1>8. ASSUME Cleanup
      PROVE  TypeOK'
  <2> DEFINE E == ExpiredHolds
  <2>1. E \in SUBSET ReservationIds /\ \A i \in E : IsRow(reservations, i)
    BY ExpiredFacts
  <2>2. reservations' \in ReservationTable
    BY <1>8, <2>1, SetReservationStatusType DEF Cleanup, Released, ReservationStatuses
  <2>3. tickets' \in TicketTable
    BY <1>8, SetTicketStatusType DEF Cleanup, Released, TicketStatuses
  <2>4. ASSUME NEW c \in Concerts
        PROVE  Cardinality({i \in E : reservations[i].concertId = c}) \in Nat
    <3>1. {i \in E : reservations[i].concertId = c} \in SUBSET ReservationIds
      BY <2>1
    <3>2. QED
      BY <3>1, TablesAssumption, FS_Subset, FS_CardinalityType
  <2>5. stock' \in [Concerts -> Nat]
    BY <1>8, <2>4 DEF Cleanup, Released
  <2>6. QED
    BY <1>8, <2>2, <2>3, <2>5 DEF Cleanup, Outcomes
<1>9. ASSUME Tick
      PROVE  TypeOK'
  BY <1>9, AgeType DEF Tick
<1>10. CASE UNCHANGED vars
  BY <1>10 DEF vars
<1>11. QED
  BY <1>1, <1>2, <1>3, <1>5, <1>6, <1>7, <1>8, <1>9, <1>10 DEF Next

\* The empty tables have their types.
LEMMA TypeInit ==
  Init => TypeOK
BY DEF Init, TypeOK, TicketTable, TicketStatuses, ReservationTable, Outcomes

\* The tables keep their types and no stock counter ever goes below zero.
THEOREM TypeCorrect == Spec => []TypeOK
BY TypeInit, TypeStep, PTL DEF Spec

-----------------------------------------------------------------------------
(* The rows of the two tables stay consistent.  A step that writes tables is *)
(* one of five kinds; the lemmas below treat the three that write rows.      *)

Links == RowsNameTheirTickets /\ SeedOrder /\ ReservationsMatchTickets

\* A reservation that commits keeps rows and tickets linked: its ticket is free
\* of rows, so the new row is the only one that names it.
LEMMA ReservedLinks ==
  ASSUME TypeOK, Links, NEW u \in Users, NEW c \in listed, NEW q \in Nat, NEW b,
         b.ids \subseteq AvailableTickets(tickets, c), b.first \in b.ids,
         TicketIdIsFree(reservations, b.first), Reserved(u, c, q, b),
         UNCHANGED <<listed, seeding>>
  PROVE  Links'
<1>1. PICK id \in ReservationIds :
         /\ IsNextId(reservations, id)
         /\ reservations' = InsertReservation(reservations, id, u, b.first, c)
  BY DEF Reserved
<1>2. ~IsRow(reservations, id)
  BY <1>1, NextIdIsFree
<1>3. /\ b.first \in Tickets
      /\ ConcertOf[b.first] = c
      /\ \A t \in b.ids : t \in TicketsOf(c) /\ tickets[t] = "AVAILABLE"
  BY DEF AvailableTickets, TicketsOf
<1>4. /\ reservations'[id] = [userId |-> u, ticketId |-> b.first, concertId |-> c,
                               status |-> "PENDING", left |-> TTL]
      /\ \A i \in ReservationIds \ {id} : reservations'[i] = reservations[i]
  BY <1>1 DEF InsertReservation, TypeOK, ReservationTable
<1>5. \A t \in Tickets : tickets'[t] = IF t \in b.ids THEN "RESERVED" ELSE tickets[t]
  BY DEF Reserved, SetTicketStatus
<1>6. \A i \in ReservationIds : IsRow(reservations, i) =>
         /\ reservations[i].ticketId \in Tickets
         /\ reservations[i].ticketId # b.first
  BY RowType DEF TypeOK, TicketIdIsFree, ReservationRows
<1>7. RowsNameTheirTickets'
  BY <1>3, <1>4, <1>6 DEF Links, RowsNameTheirTickets, IsRow
<1>8. SeedOrder'
  BY <1>3, <1>5 DEF Links, SeedOrder, TicketsOf
<1>9. ReservationsMatchTickets'
  <2>1. ASSUME NEW i \in ReservationIds
        PROVE  /\ IsPending(reservations', i) => tickets'[reservations'[i].ticketId] = "RESERVED"
               /\ reservations'[i].status = "COMPLETED" => tickets'[reservations'[i].ticketId] = "SOLD"
    <3>1. CASE i = id
      BY <1>3, <1>4, <1>5, <3>1 DEF IsPending
    <3>2. CASE i # id
      BY <1>3, <1>4, <1>5, <1>6, <3>2 DEF Links, ReservationsMatchTickets, IsPending, IsRow
    <3>3. QED
      BY <3>1, <3>2
  <2>2. ASSUME NEW t \in Tickets, tickets'[t] = "SOLD"
        PROVE  \E i \in ReservationIds :
                 reservations'[i].status = "COMPLETED" /\ reservations'[i].ticketId = t
    BY <1>2, <1>4, <1>5, <2>2 DEF Links, ReservationsMatchTickets, IsRow
  <2>3. QED
    BY <2>1, <2>2 DEF ReservationsMatchTickets
<1>10. QED
  BY <1>7, <1>8, <1>9 DEF Links

\* Purchase and cleanup rewrite the status of a set of pending rows and of the
\* tickets these rows name; nothing else of the two tables changes.
Rewritten(ids, s, ts) ==
  /\ \A i \in ReservationIds : IsRow(reservations, i) =>
        /\ reservations[i].ticketId \in Tickets
        /\ reservations'[i].ticketId = reservations[i].ticketId
        /\ reservations'[i].concertId = reservations[i].concertId
        /\ reservations'[i].status = IF i \in ids THEN s ELSE reservations[i].status
        /\ tickets'[reservations[i].ticketId] =
             IF i \in ids THEN ts ELSE tickets[reservations[i].ticketId]
  /\ \A i \in ReservationIds \ ids : reservations'[i] = reservations[i]
  /\ \A t \in Tickets : tickets[t] # "RESERVED" => tickets'[t] = tickets[t]

\* Purchase and cleanup rewrite pending rows and the tickets those rows name.
LEMMA RewriteFacts ==
  ASSUME TypeOK, Links, NEW ids \in SUBSET ReservationIds,
         \A i \in ids : IsPending(reservations, i), NEW s, NEW ts,
         reservations' = SetReservationStatus(reservations, ids, s),
         tickets' = SetTicketStatus(tickets, TicketIdsOf(reservations, ids), ts)
  PROVE  Rewritten(ids, s, ts)
<1>1. ASSUME NEW i \in ReservationIds, IsRow(reservations, i)
      PROVE  /\ reservations[i] \in ReservationRows
             /\ reservations[i].ticketId \in Tickets
  BY <1>1, RowType DEF TypeOK, ReservationRows
<1>2. \A i \in ids : IsRow(reservations, i)
  BY DEF IsPending, IsRow
<1>3. \A t \in Tickets :
         tickets'[t] = IF \E j \in ids : reservations[j].ticketId = t THEN ts ELSE tickets[t]
  BY DEF SetTicketStatus, TicketIdsOf
<1>4. ASSUME NEW i \in ids
      PROVE  reservations'[i] = [reservations[i] EXCEPT !.status = s]
  BY DEF SetReservationStatus
<1>5. \A i \in ReservationIds \ ids : reservations'[i] = reservations[i]
  BY DEF SetReservationStatus
<1>6. ASSUME NEW i \in ReservationIds, IsRow(reservations, i)
      PROVE  /\ reservations'[i].ticketId = reservations[i].ticketId
             /\ reservations'[i].concertId = reservations[i].concertId
             /\ reservations'[i].status = IF i \in ids THEN s ELSE reservations[i].status
  BY <1>1, <1>4, <1>5, <1>6 DEF ReservationRows
<1>7. ASSUME NEW i \in ReservationIds, IsRow(reservations, i)
      PROVE  tickets'[reservations[i].ticketId] =
               IF i \in ids THEN ts ELSE tickets[reservations[i].ticketId]
  BY <1>1, <1>2, <1>3, <1>7 DEF Links, RowsNameTheirTickets
<1>8. ASSUME NEW t \in Tickets, tickets[t] # "RESERVED"
      PROVE  tickets'[t] = tickets[t]
  BY <1>3, <1>8 DEF Links, ReservationsMatchTickets
<1>9. QED
  BY <1>1, <1>5, <1>6, <1>7, <1>8 DEF Rewritten

\* A purchase keeps rows and tickets linked.
LEMMA PurchasedLinks ==
  ASSUME TypeOK, Links, NEW i \in ReservationIds, IsPending(reservations, i),
         reservations' = SetReservationStatus(reservations, {i}, "COMPLETED"),
         tickets' = SetTicketStatus(tickets, {reservations[i].ticketId}, "SOLD"),
         UNCHANGED <<listed, seeding>>
  PROVE  Links'
<1> DEFINE I == {i}
<1>1. /\ I \in SUBSET ReservationIds /\ \A j \in I : IsPending(reservations, j)
      /\ reservations' = SetReservationStatus(reservations, I, "COMPLETED")
      /\ tickets' = SetTicketStatus(tickets, TicketIdsOf(reservations, I), "SOLD")
  BY DEF TicketIdsOf
<1>i. \A j : j \in I <=> j = i
  OBVIOUS
<1> HIDE DEF I
<1>2. Rewritten(I, "COMPLETED", "SOLD")
  BY <1>1, RewriteFacts
<1>3. IsRow(reservations, i)
  BY DEF IsPending, IsRow
<1>4. \A j \in ReservationIds : IsRow(reservations, j)' <=> IsRow(reservations, j)
  BY <1>i, <1>2, <1>3 DEF IsRow, Rewritten
<1>5. RowsNameTheirTickets'
  BY <1>2, <1>4 DEF Links, RowsNameTheirTickets, Rewritten
<1>6. SeedOrder'
  BY <1>2 DEF Links, SeedOrder, TicketsOf, Rewritten
<1>7. ReservationsMatchTickets'
  <2>1. ASSUME NEW j \in ReservationIds
        PROVE  /\ IsPending(reservations', j) => tickets'[reservations'[j].ticketId] = "RESERVED"
               /\ reservations'[j].status = "COMPLETED" => tickets'[reservations'[j].ticketId] = "SOLD"
    <3>1. CASE j = i
      BY <1>i, <1>2, <1>3, <3>1 DEF IsPending, Rewritten
    <3>2. CASE j # i
      <4>1. reservations'[j] = reservations[j]
        BY <1>i, <1>2, <3>2 DEF Rewritten
      <4>2. IsRow(reservations, j) => tickets'[reservations[j].ticketId] = tickets[reservations[j].ticketId]
        BY <1>i, <1>2, <3>2 DEF Rewritten
      <4>3. QED
        BY <4>1, <4>2 DEF Links, ReservationsMatchTickets, IsPending, IsRow
    <3>3. QED
      BY <3>1, <3>2
  <2>2. ASSUME NEW t \in Tickets, tickets'[t] = "SOLD"
        PROVE  \E j \in ReservationIds :
                 reservations'[j].status = "COMPLETED" /\ reservations'[j].ticketId = t
    <3>1. CASE tickets[t] = "SOLD"
      <4>1. PICK j \in ReservationIds :
               reservations[j].status = "COMPLETED" /\ reservations[j].ticketId = t
        BY <3>1 DEF Links, ReservationsMatchTickets
      <4>2. j \notin I
        BY <1>i, <4>1 DEF IsPending
      <4>3. QED
        BY <1>2, <4>1, <4>2 DEF Rewritten
    <3>2. CASE tickets[t] # "SOLD"
      <4>1. t = reservations[i].ticketId
        BY <2>2, <3>2 DEF SetTicketStatus
      <4>2. QED
        BY <1>i, <1>2, <1>3, <4>1 DEF Rewritten
    <3>3. QED
      BY <3>1, <3>2
  <2>3. QED
    BY <2>1, <2>2 DEF ReservationsMatchTickets
<1>8. QED
  BY <1>5, <1>6, <1>7 DEF Links

\* Cleanup keeps rows and tickets linked.
LEMMA CleanupLinks ==
  ASSUME TypeOK, Links, Cleanup
  PROVE  Links'
<1> DEFINE E == ExpiredHolds
<1>1. E \in SUBSET ReservationIds /\ \A i \in E : IsPending(reservations, i)
  BY ExpiredFacts
<1> HIDE DEF E
<1>2. Rewritten(E, "CANCELLED", "AVAILABLE")
  <2>1. /\ reservations' = SetReservationStatus(reservations, E, "CANCELLED")
        /\ tickets' = SetTicketStatus(tickets, TicketIdsOf(reservations, E), "AVAILABLE")
    BY DEF Cleanup, Released, E
  <2>2. QED
    BY <1>1, <2>1, RewriteFacts
<1>3. \A i \in ReservationIds : IsRow(reservations, i)' <=> IsRow(reservations, i)
  BY <1>1, <1>2 DEF IsRow, IsPending, Rewritten
<1>4. UNCHANGED <<listed, seeding>>
  BY DEF Cleanup
<1>5. RowsNameTheirTickets'
  BY <1>2, <1>3, <1>4 DEF Links, RowsNameTheirTickets, Rewritten
<1>6. SeedOrder'
  BY <1>2, <1>4 DEF Links, SeedOrder, TicketsOf, Rewritten
<1>7. ReservationsMatchTickets'
  <2>1. \A i \in ReservationIds :
          /\ IsPending(reservations', i) => tickets'[reservations'[i].ticketId] = "RESERVED"
          /\ reservations'[i].status = "COMPLETED" => tickets'[reservations'[i].ticketId] = "SOLD"
    BY <1>1, <1>2 DEF Links, ReservationsMatchTickets, IsPending, IsRow, Rewritten
  <2>2. ASSUME NEW t \in Tickets, tickets'[t] = "SOLD"
        PROVE  \E i \in ReservationIds :
                 reservations'[i].status = "COMPLETED" /\ reservations'[i].ticketId = t
    <3>1. tickets[t] = "SOLD"
      BY <2>2 DEF Cleanup, Released, SetTicketStatus
    <3>2. QED
      BY <1>1, <1>2, <3>1 DEF Links, ReservationsMatchTickets, IsRow, IsPending, Rewritten
  <2>3. QED
    BY <2>1, <2>2 DEF ReservationsMatchTickets
<1>8. QED
  BY <1>5, <1>6, <1>7 DEF Links

\* The steps of a service function, as the lemmas above take them: each either
\* throws and changes no table, or makes the writes of its success.
LEMMA ReserveCases ==
  ASSUME NEW u, NEW c, NEW q, Reserve(u, c, q)
  PROVE  \/ UNCHANGED <<tables, seeding>>
         \/ /\ c \in listed /\ stock[c] >= q
            /\ UNCHANGED <<listed, seeding>>
            /\ \E b : /\ b.ids \subseteq AvailableTickets(tickets, c)
                     /\ b.first \in b.ids
                     /\ Cardinality(b.ids) = q
                     /\ TicketIdIsFree(reservations, b.first)
                     /\ Reserved(u, c, q, b)
BY BatchFacts DEF Reserve, Throw

\* reserveTicket of reservationService.ts throws or makes the writes of a request
\* for one ticket.
LEMMA LegacyReserveCases ==
  ASSUME NEW u, NEW c, LegacyReserve(u, c)
  PROVE  \/ UNCHANGED <<tables, seeding>>
         \/ /\ c \in listed /\ stock[c] > 0
            /\ UNCHANGED <<listed, seeding>>
            /\ \E b : /\ b.ids \subseteq AvailableTickets(tickets, c)
                     /\ b.first \in b.ids
                     /\ Cardinality(b.ids) = 1
                     /\ TicketIdIsFree(reservations, b.first)
                     /\ Reserved(u, c, 1, b)
<1>1. ASSUME NEW t \in AvailableTickets(tickets, c), TicketIdIsFree(reservations, t),
             Reserved(u, c, 1, [ids |-> {t}, first |-> t])
      PROVE  \E b : /\ b.ids \subseteq AvailableTickets(tickets, c)
                   /\ b.first \in b.ids
                   /\ Cardinality(b.ids) = 1
                   /\ TicketIdIsFree(reservations, b.first)
                   /\ Reserved(u, c, 1, b)
  <2> DEFINE b == [ids |-> {t}, first |-> t]
  <2>1. b.ids = {t} /\ b.first = t
    OBVIOUS
  <2>2. Reserved(u, c, 1, b)
    BY <1>1
  <2> HIDE DEF b
  <2>3. QED
    BY <1>1, <2>1, <2>2, FS_Singleton
<1>2. QED
  BY <1>1 DEF LegacyReserve, Throw

\* A purchase throws or completes a row that is pending and belongs to the user.
LEMMA PurchaseCases ==
  ASSUME NEW u, NEW i, Purchase(u, i)
  PROVE  \/ UNCHANGED <<tables, seeding>>
         \/ /\ IsPending(reservations, i)
            /\ reservations' = SetReservationStatus(reservations, {i}, "COMPLETED")
            /\ tickets' = SetTicketStatus(tickets, {reservations[i].ticketId}, "SOLD")
            /\ UNCHANGED <<listed, stock, seeding>>
BY DEF Purchase, MayPurchase, Throw

\* Every step keeps rows and tickets linked.
LEMMA LinksStep ==
  ASSUME TypeOK, Links, [Next]_vars
  PROVE  Links'
<1>1. ASSUME NEW c \in Concerts, SeedConcert(c)
      PROVE  Links'
  BY <1>1 DEF SeedConcert, Links, RowsNameTheirTickets, SeedOrder,
              ReservationsMatchTickets, TypeOK
<1>2. ASSUME NEW c \in Concerts, SeedTickets(c)
      PROVE  Links'
  <2>1. /\ \A t \in TicketsOf(c) : tickets[t] = "ABSENT" /\ tickets'[t] = "AVAILABLE"
        /\ \A t \in Tickets \ TicketsOf(c) : tickets'[t] = tickets[t]
    BY <1>2 DEF SeedTickets, SetTicketStatus, Links, SeedOrder, TicketsOf
  <2>2. ReservationsMatchTickets'
    <3>1. \A i \in ReservationIds : IsRow(reservations, i) => reservations[i].ticketId \in Tickets
      BY RowType DEF TypeOK, ReservationRows
    <3>2. \A t \in Tickets : tickets[t] \in {"RESERVED", "SOLD"} => tickets'[t] = tickets[t]
      BY <2>1
    <3>3. \A t \in Tickets : tickets'[t] = "SOLD" => tickets[t] = "SOLD"
      BY <2>1
    <3>4. QED
      BY <1>2, <3>1, <3>2, <3>3 DEF SeedTickets, Links, ReservationsMatchTickets, IsPending, IsRow
  <2>3. SeedOrder'
    BY <1>2, <2>1 DEF SeedTickets, Links, SeedOrder, TicketsOf
  <2>4. RowsNameTheirTickets'
    BY <1>2 DEF SeedTickets, Links, RowsNameTheirTickets
  <2>5. QED
    BY <2>2, <2>3, <2>4 DEF Links
<1>3. ASSUME SeedDies
      PROVE  Links'
  BY <1>3 DEF SeedDies, tables, Links, RowsNameTheirTickets, SeedOrder, ReservationsMatchTickets
<1>4. ASSUME UNCHANGED <<tables, seeding>>
      PROVE  Links'
  BY <1>4 DEF tables, Links, RowsNameTheirTickets, SeedOrder, ReservationsMatchTickets
<1>5. ASSUME NEW u \in Users, NEW c \in Concerts, NEW q \in Quantities, Reserve(u, c, q)
      PROVE  Links'
  BY <1>4, <1>5, ReserveCases, ReservedLinks, TablesAssumption DEF Quantities
<1>6. ASSUME NEW u \in Users, NEW c \in Concerts, LegacyReserve(u, c)
      PROVE  Links'
  BY <1>4, <1>6, LegacyReserveCases, ReservedLinks
<1>7. ASSUME NEW u \in Users, NEW i \in ReservationIds, Purchase(u, i)
      PROVE  Links'
  BY <1>4, <1>7, PurchaseCases, PurchasedLinks
<1>8. ASSUME Cleanup
      PROVE  Links'
  BY <1>8, CleanupLinks
<1>9. ASSUME Tick
      PROVE  Links'
  <2>1. ASSUME NEW i \in ReservationIds
        PROVE  /\ reservations'[i].status = reservations[i].status
               /\ IsRow(reservations, i) =>
                    /\ reservations'[i].ticketId = reservations[i].ticketId
                    /\ reservations'[i].concertId = reservations[i].concertId
    <3>1. CASE IsRow(reservations, i)
      BY <1>9, <3>1, RowType DEF Tick, Age, TypeOK, ReservationRows
    <3>2. CASE ~IsRow(reservations, i)
      BY <1>9, <3>2 DEF Tick, Age, IsRow, IsPending
    <3>3. QED
      BY <3>1, <3>2
  <2>2. UNCHANGED <<listed, tickets, seeding>>
    BY <1>9 DEF Tick
  <2>3. QED
    BY <2>1, <2>2 DEF Links, RowsNameTheirTickets, SeedOrder, ReservationsMatchTickets,
                      IsRow, IsPending
<1>10. CASE UNCHANGED vars
  BY <1>4, <1>10 DEF vars, tables
<1>11. QED
  BY <1>1, <1>2, <1>3, <1>5, <1>6, <1>7, <1>8, <1>9, <1>10 DEF Next

-----------------------------------------------------------------------------
(* The counter. *)

\* The unsold tickets of a concert can be counted.
LEMMA UnsoldFinite ==
  ASSUME NEW tk, NEW c
  PROVE  IsFiniteSet(Unsold(tk, c)) /\ Cardinality(Unsold(tk, c)) \in Nat
BY TicketsOfFinite, FS_Subset, FS_CardinalityType DEF Unsold

\* A reservation takes exactly its batch out of the unsold tickets.
LEMMA ReservedStock ==
  ASSUME TypeOK, StockMatchesTickets, NEW u, NEW c \in listed, NEW q \in Nat, NEW b,
         b.ids \subseteq AvailableTickets(tickets, c), Cardinality(b.ids) = q,
         Reserved(u, c, q, b), UNCHANGED <<listed, seeding>>
  PROVE  StockMatchesTickets'
<1>1. \A t \in Tickets : tickets'[t] = IF t \in b.ids THEN "RESERVED" ELSE tickets[t]
  BY DEF Reserved, SetTicketStatus
<1>2. \A t \in b.ids : t \in TicketsOf(c) /\ ConcertOf[t] = c /\ tickets[t] = "AVAILABLE"
  BY DEF AvailableTickets, TicketsOf
<1>3. stock' = [stock EXCEPT ![c] = @ + (-q)]
  BY DEF Reserved, AddStock
<1>4. stock'[c] = Cardinality(Unsold(tickets', c))
  <2>1. Unsold(tickets', c) = Unsold(tickets, c) \ b.ids
    BY <1>1, <1>2 DEF Unsold, TicketsOf
  <2>2. Unsold(tickets, c) \cap b.ids = b.ids
    BY <1>2 DEF Unsold
  <2>3. Cardinality(Unsold(tickets', c)) = Cardinality(Unsold(tickets, c)) - q
    BY <2>1, <2>2, UnsoldFinite, FS_Difference
  <2>4. stock[c] = Cardinality(Unsold(tickets, c)) /\ c \in Concerts
    BY DEF StockMatchesTickets, TypeOK
  <2>5. QED
    BY <1>3, <2>3, <2>4 DEF TypeOK
<1>5. ASSUME NEW d \in listed, d # c
      PROVE  stock'[d] = Cardinality(Unsold(tickets', d))
  <2>1. Unsold(tickets', d) = Unsold(tickets, d)
    BY <1>1, <1>2, <1>5 DEF Unsold, TicketsOf
  <2>2. QED
    BY <1>3, <1>5, <2>1 DEF StockMatchesTickets, TypeOK
<1>6. QED
  BY <1>4, <1>5 DEF StockMatchesTickets

\* Cleanup gives a concert one unit for each expired row; no two rows name the
\* same ticket, so that is one unit for each ticket it frees.
LEMMA CleanupStock ==
  ASSUME TypeOK, Links, StockMatchesTickets, Cleanup
  PROVE  StockMatchesTickets'
<1> DEFINE E == ExpiredHolds
<1>1. \A i \in E : /\ i \in ReservationIds
                   /\ IsPending(reservations, i)
                   /\ IsRow(reservations, i)
  BY ExpiredFacts
<1>2. /\ tickets' = SetTicketStatus(tickets, TicketIdsOf(reservations, E), "AVAILABLE")
      /\ stock' = [c \in Concerts |->
                     stock[c] + Cardinality({i \in E : reservations[i].concertId = c})]
      /\ listed' = listed
  BY DEF Cleanup, Released
<1> HIDE DEF E
<1>3. SUFFICES ASSUME NEW c \in listed
               PROVE  stock'[c] = Cardinality(Unsold(tickets', c))
  BY <1>2 DEF StockMatchesTickets
<1> DEFINE Ec == {i \in E : reservations[i].concertId = c}
           Tc == {reservations[i].ticketId : i \in Ec}
           f  == [i \in Ec |-> reservations[i].ticketId]
<1>4. \A i \in Ec : /\ reservations[i].ticketId \in TicketsOf(c)
                    /\ tickets[reservations[i].ticketId] = "RESERVED"
  BY <1>1, RowType DEF TypeOK, ReservationRows, Links, RowsNameTheirTickets,
                       ReservationsMatchTickets, TicketsOf
<1>5. IsFiniteSet(Ec) /\ Cardinality(Ec) \in Nat
  <2>1. Ec \in SUBSET ReservationIds
    BY <1>1
  <2>2. QED
    BY <2>1, TablesAssumption, FS_Subset, FS_CardinalityType
<1>6. f \in Bijection(Ec, Tc)
  <2>1. f \in [Ec -> Tc]
    OBVIOUS
  <2>2. \A i, j \in Ec : f[i] = f[j] => i = j
    BY <1>1 DEF Links, RowsNameTheirTickets
  <2>3. \A t \in Tc : \E i \in Ec : f[i] = t
    OBVIOUS
  <2> HIDE DEF f, Ec, Tc
  <2>4. f \in Injection(Ec, Tc)
    BY <2>1, <2>2 DEF Injection, IsInjective
  <2>5. f \in Surjection(Ec, Tc)
    BY <2>1, <2>3 DEF Surjection
  <2>6. QED
    BY <2>4, <2>5 DEF Bijection
<1>7. IsFiniteSet(Tc) /\ Cardinality(Tc) = Cardinality(Ec)
  <2> HIDE DEF f, Ec, Tc
  <2>1. ExistsBijection(Ec, Tc)
    BY <1>6 DEF ExistsBijection
  <2>2. QED
    BY <1>5, <2>1, FS_Bijection
<1>8. Unsold(tickets', c) = Unsold(tickets, c) \cup Tc
  <2>1. ASSUME NEW t \in TicketsOf(c)
        PROVE  t \in TicketIdsOf(reservations, E) <=> t \in Tc
    BY <1>1, <2>1 DEF TicketIdsOf, TicketsOf, Links, RowsNameTheirTickets
  <2>2. Tc \subseteq TicketsOf(c)
    BY <1>4
  <2>3. TicketsOf(c) \subseteq Tickets
    BY DEF TicketsOf
  <2> HIDE DEF Tc
  <2>4. QED
    BY <1>2, <2>1, <2>2, <2>3 DEF Unsold, SetTicketStatus
<1>9. Unsold(tickets, c) \cap Tc = {}
  BY <1>4 DEF Unsold
<1>10. Cardinality(Unsold(tickets', c)) = Cardinality(Unsold(tickets, c)) + Cardinality(Ec)
  <2> DEFINE U == Unsold(tickets, c)
  <2>1. IsFiniteSet(U) /\ Cardinality(U) \in Nat
    BY UnsoldFinite
  <2>2. Cardinality(U \cap Tc) = 0
    BY <1>9, FS_EmptySet
  <2> HIDE DEF Ec, Tc, U
  <2>3. Cardinality(U \cup Tc) = Cardinality(U) + Cardinality(Tc) - Cardinality(U \cap Tc)
    BY <1>7, <2>1, FS_Union
  <2>4. Cardinality(U \cup Tc) = Cardinality(U) + Cardinality(Ec)
    BY <1>5, <1>7, <2>1, <2>2, <2>3
  <2>5. QED
    BY <1>8, <2>4 DEF U
<1>11. stock[c] = Cardinality(Unsold(tickets, c)) /\ c \in Concerts
  BY DEF StockMatchesTickets, TypeOK
<1>12. stock'[c] = stock[c] + Cardinality(Ec)
  BY <1>2, <1>11
<1>13. QED
  BY <1>10, <1>11, <1>12

\* Every step keeps the counters equal to the numbers of unsold tickets.
LEMMA StockStep ==
  ASSUME TypeOK, Links, StockMatchesTickets, [Next]_vars
  PROVE  StockMatchesTickets'
<1>1. ASSUME UNCHANGED <<listed, stock>>,
             \A t \in Tickets : (tickets'[t] \in {"ABSENT", "AVAILABLE"})
                               <=> (tickets[t] \in {"ABSENT", "AVAILABLE"})
      PROVE  StockMatchesTickets'
  <2>1. ASSUME NEW c
        PROVE  Unsold(tickets', c) = Unsold(tickets, c)
    BY <1>1 DEF Unsold, TicketsOf
  <2>2. QED
    BY <1>1, <2>1 DEF StockMatchesTickets
<1>2. ASSUME NEW c \in Concerts, SeedConcert(c)
      PROVE  StockMatchesTickets'
  <2>1. Unsold(tickets, c) = TicketsOf(c)
    BY <1>2 DEF SeedConcert, Unsold, Links, SeedOrder
  <2>2. QED
    BY <1>2, <2>1 DEF SeedConcert, StockMatchesTickets, TypeOK
<1>3. ASSUME NEW c \in Concerts, SeedTickets(c)
      PROVE  StockMatchesTickets'
  <2>1. \A t \in Tickets : IF t \in TicketsOf(c)
                           THEN tickets[t] = "ABSENT" /\ tickets'[t] = "AVAILABLE"
                           ELSE tickets'[t] = tickets[t]
    BY <1>3 DEF SeedTickets, SetTicketStatus, Links, SeedOrder, TypeOK
  <2>2. QED
    BY <1>1, <1>3, <2>1 DEF SeedTickets
<1>4. ASSUME UNCHANGED <<tables, seeding>>
      PROVE  StockMatchesTickets'
  BY <1>1, <1>4 DEF tables
<1>5. ASSUME NEW u \in Users, NEW c \in Concerts, NEW q \in Quantities, Reserve(u, c, q)
      PROVE  StockMatchesTickets'
  BY <1>4, <1>5, ReserveCases, ReservedStock, TablesAssumption DEF Quantities
<1>6. ASSUME NEW u \in Users, NEW c \in Concerts, LegacyReserve(u, c)
      PROVE  StockMatchesTickets'
  BY <1>4, <1>6, LegacyReserveCases, ReservedStock
<1>7. ASSUME NEW u \in Users, NEW i \in ReservationIds, Purchase(u, i)
      PROVE  StockMatchesTickets'
  <2>1. ASSUME IsPending(reservations, i),
               tickets' = SetTicketStatus(tickets, {reservations[i].ticketId}, "SOLD"),
               UNCHANGED <<listed, stock, seeding>>
        PROVE  StockMatchesTickets'
    <3>1. tickets[reservations[i].ticketId] = "RESERVED"
      BY <2>1 DEF Links, ReservationsMatchTickets
    <3>2. QED
      BY <1>1, <2>1, <3>1 DEF SetTicketStatus
  <2>2. QED
    BY <1>4, <1>7, <2>1, PurchaseCases
<1>8. ASSUME Cleanup
      PROVE  StockMatchesTickets'
  BY <1>8, CleanupStock
<1>9. CASE SeedDies \/ Tick \/ UNCHANGED vars
  BY <1>1, <1>9 DEF SeedDies, Tick, vars, tables
<1>10. QED
  BY <1>2, <1>3, <1>5, <1>6, <1>7, <1>8, <1>9 DEF Next

-----------------------------------------------------------------------------
(* The inductive invariant and what follows from it. *)

\* The empty tables satisfy the inductive invariant.
LEMMA InvInit ==
  Init => Inv
BY TypeInit DEF Init, Inv, RowsNameTheirTickets, SeedOrder, ReservationsMatchTickets,
                StockMatchesTickets, IsRow, IsPending, NoRow, TicketsOf

\* Inv is inductive: seeding, reserving, buying, cleaning up and time preserve it.
LEMMA InvStep ==
  ASSUME Inv, [Next]_vars
  PROVE  Inv'
<1>1. TypeOK /\ Links /\ StockMatchesTickets
  BY DEF Inv, Links
<1>2. TypeOK' /\ Links' /\ StockMatchesTickets'
  BY <1>1, TypeStep, LinksStep, StockStep
<1>3. QED
  BY <1>2 DEF Inv, Links

\* In every behaviour of the isolated service the tables keep their types, agree
\* with each other and with the counters.
THEOREM Invariance == Spec => []Inv
BY InvInit, InvStep, PTL DEF Spec

\* The stock counter of a listed concert is always the number of its tickets
\* that are neither held nor sold.
THEOREM StockIsRight == Spec => []StockMatchesTickets
<1>1. Inv => StockMatchesTickets
  BY DEF Inv
<1>2. QED
  BY <1>1, Invariance, PTL

\* The reservations table and the tickets table never disagree.
THEOREM TablesAgree == Spec => []ReservationsMatchTickets
<1>1. Inv => ReservationsMatchTickets
  BY DEF Inv
<1>2. QED
  BY <1>1, Invariance, PTL

\* No step of the service takes a sold ticket back.
LEMMA SoldStep ==
  ASSUME Inv, [Next]_vars, NEW t \in Tickets, tickets[t] = "SOLD"
  PROVE  tickets'[t] = "SOLD"
<1>1. TypeOK /\ Links
  BY DEF Inv, Links
<1>2. ASSUME NEW c \in Concerts, SeedTickets(c)
      PROVE  tickets'[t] = "SOLD"
  BY <1>1, <1>2 DEF SeedTickets, SetTicketStatus, Links, SeedOrder, TypeOK
<1>3. ASSUME NEW u, NEW c, NEW q, NEW b, b.ids \subseteq AvailableTickets(tickets, c),
             Reserved(u, c, q, b)
      PROVE  tickets'[t] = "SOLD"
  BY <1>3 DEF Reserved, SetTicketStatus, AvailableTickets
<1>4. ASSUME UNCHANGED tables
      PROVE  tickets'[t] = "SOLD"
  BY <1>4 DEF tables
<1>5. ASSUME NEW u \in Users, NEW c \in Concerts, NEW q \in Quantities, Reserve(u, c, q)
      PROVE  tickets'[t] = "SOLD"
  BY <1>3, <1>4, <1>5, ReserveCases
<1>6. ASSUME NEW u \in Users, NEW c \in Concerts, LegacyReserve(u, c)
      PROVE  tickets'[t] = "SOLD"
  BY <1>3, <1>4, <1>6, LegacyReserveCases
<1>7. ASSUME NEW u \in Users, NEW i \in ReservationIds, Purchase(u, i)
      PROVE  tickets'[t] = "SOLD"
  BY <1>4, <1>7, PurchaseCases DEF SetTicketStatus
<1>8. ASSUME Cleanup
      PROVE  tickets'[t] = "SOLD"
  <2> DEFINE E == ExpiredHolds
  <2>1. \A i \in E : tickets[reservations[i].ticketId] = "RESERVED"
    BY <1>1, ExpiredFacts DEF Links, ReservationsMatchTickets
  <2>2. tickets' = SetTicketStatus(tickets, TicketIdsOf(reservations, E), "AVAILABLE")
    BY <1>8 DEF Cleanup, Released
  <2> HIDE DEF E
  <2>3. QED
    BY <2>1, <2>2 DEF SetTicketStatus, TicketIdsOf
<1>9. CASE SeedDies \/ Tick \/ UNCHANGED vars \/ \E c \in Concerts : SeedConcert(c)
  BY <1>9 DEF SeedDies, Tick, vars, tables, SeedConcert
<1>10. QED
  BY <1>2, <1>5, <1>6, <1>7, <1>8, <1>9 DEF Next

\* No step takes a sold ticket back.
THEOREM SalesAreFinal == Spec => SoldIsFinal
<1>1. Inv /\ [Next]_vars => [\A t \in Tickets : tickets[t] = "SOLD" => tickets'[t] = "SOLD"]_vars
  BY SoldStep
<1>2. QED
  BY <1>1, Invariance, PTL DEF Spec, SoldIsFinal
=============================================================================
