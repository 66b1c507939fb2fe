---------------------------- MODULE SeatsProofs ----------------------------
(***************************************************************************)
(* The refinement of TicketingSeats, for every set of concerts, tickets    *)
(* and users, every price list and time to live: as long as a request is   *)
(* for one ticket, the tickets and reservations tables implement Seats.    *)
(***************************************************************************)
EXTENDS TicketingSeats, TicketingProofs

-----------------------------------------------------------------------------
(* The view, as an operator on two tables. *)

ViewOf(tk, rs) ==
  LET User(t, status) ==
        LET i == CHOOSE i \in ReservationIds : rs[i].status = status /\ rs[i].ticketId = t
        IN  rs[i].userId
  IN  [t \in Tickets |->
         CASE tk[t] = "RESERVED" -> [state |-> "held", by |-> User(t, "PENDING")]
           [] tk[t] = "SOLD"     -> [state |-> "sold", by |-> User(t, "COMPLETED")]
           [] OTHER              -> [state |-> "free"]]

LEMMA SeatViewIs ==
  /\ SeatView = ViewOf(tickets, reservations)
  /\ SeatView' = ViewOf(tickets', reservations')
BY DEF SeatView, ViewOf, UserOf

\* Tables in which every reserved and every sold ticket has its one row.
Consistent(tk, rs) ==
  /\ \A i, j \in ReservationIds :
       IsRow(rs, i) /\ IsRow(rs, j) /\ rs[i].ticketId = rs[j].ticketId => i = j
  /\ \A t \in Tickets : tk[t] = "RESERVED" =>
       \E i \in ReservationIds : rs[i].status = "PENDING" /\ rs[i].ticketId = t
  /\ \A t \in Tickets : tk[t] = "SOLD" =>
       \E i \in ReservationIds : rs[i].status = "COMPLETED" /\ rs[i].ticketId = t

\* In such tables the view of a ticket is read from any row that fits.
LEMMA SeatOf ==
  ASSUME NEW tk, NEW rs, Consistent(tk, rs), NEW t \in Tickets
  PROVE  /\ \A i \in ReservationIds :
              tk[t] = "RESERVED" /\ rs[i].status = "PENDING" /\ rs[i].ticketId = t =>
                ViewOf(tk, rs)[t] = [state |-> "held", by |-> rs[i].userId]
         /\ \A i \in ReservationIds :
              tk[t] = "SOLD" /\ rs[i].status = "COMPLETED" /\ rs[i].ticketId = t =>
                ViewOf(tk, rs)[t] = [state |-> "sold", by |-> rs[i].userId]
         /\ tk[t] \notin {"RESERVED", "SOLD"} => ViewOf(tk, rs)[t] = [state |-> "free"]
<1>1. ASSUME NEW s \in {"PENDING", "COMPLETED"}, NEW i \in ReservationIds,
             rs[i].status = s, rs[i].ticketId = t
      PROVE  (CHOOSE j \in ReservationIds : rs[j].status = s /\ rs[j].ticketId = t) = i
  <2> DEFINE j == CHOOSE j \in ReservationIds : rs[j].status = s /\ rs[j].ticketId = t
  <2>1. j \in ReservationIds /\ rs[j].status = s /\ rs[j].ticketId = t
    BY <1>1
  <2> HIDE DEF j
  <2>2. j = i
    BY <1>1, <2>1 DEF Consistent, IsRow
  <2>3. QED
    BY <2>2 DEF j
<1>2. ASSUME NEW i \in ReservationIds, tk[t] = "RESERVED",
             rs[i].status = "PENDING", rs[i].ticketId = t
      PROVE  ViewOf(tk, rs)[t] = [state |-> "held", by |-> rs[i].userId]
  BY <1>1, <1>2 DEF ViewOf
<1>3. ASSUME NEW i \in ReservationIds, tk[t] = "SOLD",
             rs[i].status = "COMPLETED", rs[i].ticketId = t
      PROVE  ViewOf(tk, rs)[t] = [state |-> "sold", by |-> rs[i].userId]
  BY <1>1, <1>3 DEF ViewOf
<1>4. ASSUME tk[t] \notin {"RESERVED", "SOLD"}
      PROVE  ViewOf(tk, rs)[t] = [state |-> "free"]
  BY <1>4 DEF ViewOf
<1>5. QED
  BY <1>2, <1>3, <1>4

-----------------------------------------------------------------------------
(* The invariant behind the view. *)

SeatInv == Inv /\ ReservedIsHeld

LEMMA SeatInvConsistent ==
  /\ SeatInv => Consistent(tickets, reservations)
  /\ SeatInv' => Consistent(tickets', reservations')
BY DEF SeatInv, Inv, RowsNameTheirTickets, ReservationsMatchTickets, ReservedIsHeld,
       Consistent, IsPending

\* The four kinds of steps: what a customer sees does not change ...
Unseen ==
  /\ \A t \in Tickets :
       tickets'[t] = tickets[t] \/ {tickets[t], tickets'[t]} \subseteq {"ABSENT", "AVAILABLE"}
  /\ \A i \in ReservationIds :
       /\ reservations'[i].status = reservations[i].status
       /\ reservations'[i].ticketId = reservations[i].ticketId
       /\ reservations'[i].userId = reservations[i].userId

\* ... one ticket is reserved by inserting a row ...
Holds(u, t, id) ==
  /\ tickets[t] = "AVAILABLE" /\ ~IsRow(reservations, id)
  /\ tickets' = SetTicketStatus(tickets, {t}, "RESERVED")
  /\ \A i \in ReservationIds \ {id} : reservations'[i] = reservations[i]
  /\ reservations'[id].status = "PENDING"
  /\ reservations'[id].ticketId = t
  /\ reservations'[id].userId = u

\* ... or pending rows and their tickets are rewritten, by a purchase or a cleanup.
Rewrites(ids, s, ts) ==
  /\ ids \subseteq ReservationIds
  /\ \A i \in ids : IsPending(reservations, i)
  /\ \A i \in ReservationIds \ ids : reservations'[i] = reservations[i]
  /\ \A i \in ids :
       /\ reservations'[i].status = s
       /\ reservations'[i].ticketId = reservations[i].ticketId
       /\ reservations'[i].userId = reservations[i].userId
  /\ tickets' = SetTicketStatus(tickets, TicketIdsOf(reservations, ids), ts)

\* The writes of a reservation of one ticket.
LEMMA ReservedHolds ==
  ASSUME Inv, NEW u, NEW c, NEW b, b.ids \subseteq AvailableTickets(tickets, c),
         b.first \in b.ids, Cardinality(b.ids) = 1, Reserved(u, c, 1, b)
  PROVE  \E id \in ReservationIds : b.first \in Tickets /\ Holds(u, b.first, id)
<1>1. b.ids = {b.first} /\ b.first \in Tickets /\ tickets[b.first] = "AVAILABLE"
  <2>1. b.ids \subseteq Tickets
    BY DEF AvailableTickets, TicketsOf
  <2>2. IsFiniteSet(b.ids)
    BY <2>1, TablesAssumption, FS_Subset
  <2>3. \E x : b.ids = {x}
    BY <2>2, FS_Singleton
  <2>4. QED
    BY <2>3 DEF AvailableTickets, TicketsOf
<1>2. PICK id \in ReservationIds :
         /\ IsNextId(reservations, id)
         /\ reservations' = InsertReservation(reservations, id, u, b.first, c)
  BY DEF Reserved
<1>3. ~IsRow(reservations, id)
  BY <1>2, NextIdIsFree
<1>4. /\ reservations'[id] = [userId |-> u, ticketId |-> b.first, concertId |-> c,
                               status |-> "PENDING", left |-> TTL]
      /\ \A i \in ReservationIds \ {id} : reservations'[i] = reservations[i]
  BY <1>2 DEF InsertReservation, Inv, TypeOK, ReservationTable
<1>5. QED
  BY <1>1, <1>3, <1>4 DEF Reserved, Holds

\* UPDATE reservations SET status leaves the user and the ticket of a row alone.
LEMMA StatusRewrites ==
  ASSUME Inv, NEW ids \in SUBSET ReservationIds, NEW s, NEW ts,
         \A i \in ids : IsPending(reservations, i),
         reservations' = SetReservationStatus(reservations, ids, s),
         tickets' = SetTicketStatus(tickets, TicketIdsOf(reservations, ids), ts)
  PROVE  Rewrites(ids, s, ts)
<1>1. ASSUME NEW i \in ids
      PROVE  /\ reservations'[i].status = s
             /\ reservations'[i].ticketId = reservations[i].ticketId
             /\ reservations'[i].userId = reservations[i].userId
  <2>1. reservations[i] \in ReservationRows
    BY RowType DEF Inv, TypeOK, IsPending, IsRow
  <2>2. reservations'[i] = [reservations[i] EXCEPT !.status = s]
    BY DEF SetReservationStatus
  <2>3. QED
    BY <2>1, <2>2 DEF ReservationRows
<1>2. \A i \in ReservationIds \ ids : reservations'[i] = reservations[i]
  BY DEF SetReservationStatus
<1>3. QED
  BY <1>1, <1>2 DEF Rewrites

\* Every step of the service is of one of the four kinds.
LEMMA Kinds ==
  ASSUME MaxQuantity = 1, Inv, [Next]_vars
  PROVE  \/ Unseen
         \/ \E u \in Users, t \in Tickets, id \in ReservationIds : Holds(u, t, id)
         \/ \E i \in ReservationIds : Rewrites({i}, "COMPLETED", "SOLD")
         \/ \E ids \in SUBSET ReservationIds : Rewrites(ids, "CANCELLED", "AVAILABLE")
<1>1. ASSUME UNCHANGED <<tickets, reservations>>
      PROVE  Unseen
  BY <1>1 DEF Unseen
<1>2. ASSUME NEW c \in Concerts, SeedConcert(c) \/ SeedTickets(c)
      PROVE  Unseen
  <2>1. CASE SeedConcert(c)
    BY <1>1, <2>1 DEF SeedConcert
  <2>2. CASE SeedTickets(c)
    <3>1. \A t \in TicketsOf(c) : tickets[t] = "ABSENT"
      BY <2>2 DEF SeedTickets, Inv, SeedOrder
    <3>2. QED
      BY <2>2, <3>1 DEF SeedTickets, SetTicketStatus, Unseen
  <2>3. QED
    BY <1>2, <2>1, <2>2
<1>3. ASSUME NEW u \in Users, NEW c \in Concerts, NEW q \in Quantities, Reserve(u, c, q)
      PROVE  Unseen \/ \E t \in Tickets, id \in ReservationIds : Holds(u, t, id)
  <2>1. q = 1
    BY DEF Quantities
  <2>2. QED
    BY <1>1, <1>3, <2>1, ReserveCases, ReservedHolds DEF tables
<1>4. ASSUME NEW u \in Users, NEW c \in Concerts, LegacyReserve(u, c)
      PROVE  Unseen \/ \E t \in Tickets, id \in ReservationIds : Holds(u, t, id)
  BY <1>1, <1>4, LegacyReserveCases, ReservedHolds DEF tables
<1>5. ASSUME NEW u \in Users, NEW i \in ReservationIds, Purchase(u, i)
      PROVE  Unseen \/ Rewrites({i}, "COMPLETED", "SOLD")
  <2>1. CASE UNCHANGED <<tables, seeding>>
    BY <1>1, <2>1 DEF tables
  <2>2. CASE /\ IsPending(reservations, i)
             /\ reservations' = SetReservationStatus(reservations, {i}, "COMPLETED")
             /\ tickets' = SetTicketStatus(tickets, {reservations[i].ticketId}, "SOLD")
    <3>1. TicketIdsOf(reservations, {i}) = {reservations[i].ticketId}
      BY DEF TicketIdsOf
    <3>2. QED
      BY <2>2, <3>1, StatusRewrites
  <2>3. QED
    BY <1>5, <2>1, <2>2, PurchaseCases
<1>6. ASSUME Cleanup
      PROVE  Rewrites(ExpiredHolds, "CANCELLED", "AVAILABLE") /\ ExpiredHolds \in SUBSET ReservationIds
  BY <1>6, ExpiredFacts, StatusRewrites DEF Cleanup, Released
<1>7. ASSUME Tick
      PROVE  Unseen
  <2>1. tickets' = tickets /\ reservations' = Age(reservations)
    BY <1>7 DEF Tick
  <2>2. ASSUME NEW i \in ReservationIds
        PROVE  /\ reservations'[i].status = reservations[i].status
               /\ reservations'[i].ticketId = reservations[i].ticketId
               /\ reservations'[i].userId = reservations[i].userId
    <3>1. CASE ~IsPending(reservations, i)
      BY <2>1, <3>1 DEF Age
    <3>2. CASE IsPending(reservations, i)
      <4>1. reservations[i] \in ReservationRows
        BY <3>2, RowType DEF Inv, TypeOK, IsPending, IsRow
      <4>2. reservations'[i] \in {reservations[i], [reservations[i] EXCEPT !.left = @ - 1]}
        BY <2>1 DEF Age
      <4>3. QED
        BY <4>1, <4>2 DEF ReservationRows
    <3>3. QED
      BY <3>1, <3>2
  <2>3. QED
    BY <2>1, <2>2 DEF Unseen
<1>8. CASE SeedDies \/ UNCHANGED vars
  BY <1>1, <1>8 DEF SeedDies, vars, tables
<1>9. QED
  BY <1>2, <1>3, <1>4, <1>5, <1>6, <1>7, <1>8 DEF Next

-----------------------------------------------------------------------------
(* Every reserved ticket keeps a pending row.                               *)

LEMMA HeldStep ==
  ASSUME MaxQuantity = 1, SeatInv, [Next]_vars
  PROVE  ReservedIsHeld'
<1> USE DEF SeatInv
<1>1. CASE Unseen
  BY <1>1 DEF Unseen, ReservedIsHeld, IsPending
<1>2. ASSUME NEW u \in Users, NEW t \in Tickets, NEW id \in ReservationIds, Holds(u, t, id)
      PROVE  ReservedIsHeld'
  <2> SUFFICES ASSUME NEW v \in Tickets, tickets'[v] = "RESERVED"
               PROVE  \E i \in ReservationIds :
                        IsPending(reservations', i) /\ reservations'[i].ticketId = v
    BY DEF ReservedIsHeld
  <2>1. CASE v = t
    BY <1>2, <2>1 DEF Holds, IsPending
  <2>2. CASE v # t
    <3>1. tickets[v] = "RESERVED"
      BY <1>2, <2>2 DEF Holds, SetTicketStatus
    <3>2. PICK i \in ReservationIds : IsPending(reservations, i) /\ reservations[i].ticketId = v
      BY <3>1 DEF ReservedIsHeld
    <3>3. i # id
      BY <1>2, <3>2 DEF Holds, IsRow, IsPending
    <3>4. QED
      BY <1>2, <3>2, <3>3 DEF Holds, IsPending
  <2>3. QED
    BY <2>1, <2>2
<1>3. ASSUME NEW ids \in SUBSET ReservationIds, NEW s, NEW ts \in {"SOLD", "AVAILABLE"},
             Rewrites(ids, s, ts)
      PROVE  ReservedIsHeld'
  <2> SUFFICES ASSUME NEW v \in Tickets, tickets'[v] = "RESERVED"
               PROVE  \E i \in ReservationIds :
                        IsPending(reservations', i) /\ reservations'[i].ticketId = v
    BY DEF ReservedIsHeld
  <2>1. tickets[v] = "RESERVED" /\ v \notin TicketIdsOf(reservations, ids)
    BY <1>3 DEF Rewrites, SetTicketStatus
  <2>2. PICK i \in ReservationIds : IsPending(reservations, i) /\ reservations[i].ticketId = v
    BY <2>1 DEF ReservedIsHeld
  <2>3. i \notin ids
    BY <2>1, <2>2 DEF TicketIdsOf
  <2>4. QED
    BY <1>3, <2>2, <2>3 DEF Rewrites, IsPending
<1>4. QED
  <2>1. \A i \in ReservationIds : {i} \in SUBSET ReservationIds
    OBVIOUS
  <2>2. QED
    BY <1>1, <1>2, <1>3, <2>1, Kinds

LEMMA SeatInvStep ==
  ASSUME MaxQuantity = 1, SeatInv, [Next]_vars
  PROVE  SeatInv'
BY HeldStep, InvStep DEF SeatInv

LEMMA SeatInvInit ==
  Init => SeatInv
BY InvInit DEF Init, SeatInv, ReservedIsHeld

-----------------------------------------------------------------------------
(* What a customer sees of each kind of step.                               *)

\* The view is a function of the tickets.
LEMMA ViewIsFunction ==
  ASSUME NEW tk, NEW rs
  PROVE  ViewOf(tk, rs) = [t \in Tickets |-> ViewOf(tk, rs)[t]]
BY DEF ViewOf

\* Two views are the same when they agree on every ticket.
LEMMA SameView ==
  ASSUME \A t \in Tickets :
           ViewOf(tickets', reservations')[t] = ViewOf(tickets, reservations)[t]
  PROVE  SeatView' = SeatView
<1>1. [t \in Tickets |-> ViewOf(tickets', reservations')[t]]
        = [t \in Tickets |-> ViewOf(tickets, reservations)[t]]
  OBVIOUS
<1>2. QED
  BY <1>1, ViewIsFunction, SeatViewIs

\* The seat of a ticket whose status and rows stay as they are stays as it is.
LEMMA SeatStays ==
  ASSUME SeatInv, SeatInv', NEW t \in Tickets,
         tickets'[t] = tickets[t] \/ {tickets[t], tickets'[t]} \subseteq {"ABSENT", "AVAILABLE"},
         \A i \in ReservationIds : IsRow(reservations, i) /\ reservations[i].ticketId = t =>
           /\ reservations'[i].status = reservations[i].status
           /\ reservations'[i].ticketId = t
           /\ reservations'[i].userId = reservations[i].userId
  PROVE  ViewOf(tickets', reservations')[t] = ViewOf(tickets, reservations)[t]
<1>1. Consistent(tickets, reservations) /\ Consistent(tickets', reservations')
  BY SeatInvConsistent
<1>2. CASE tickets[t] \notin {"RESERVED", "SOLD"}
  BY <1>1, <1>2, SeatOf
<1>3. CASE tickets[t] = "RESERVED"
  <2>1. PICK i \in ReservationIds : reservations[i].status = "PENDING" /\ reservations[i].ticketId = t
    BY <1>1, <1>3 DEF Consistent
  <2>2. /\ reservations'[i].status = "PENDING" /\ reservations'[i].ticketId = t
        /\ reservations'[i].userId = reservations[i].userId
        /\ tickets'[t] = "RESERVED"
    BY <1>3, <2>1 DEF IsRow
  <2>3. ViewOf(tickets, reservations)[t] = [state |-> "held", by |-> reservations[i].userId]
    BY <1>1, <1>3, <2>1, SeatOf
  <2>4. ViewOf(tickets', reservations')[t] = [state |-> "held", by |-> reservations'[i].userId]
    BY <1>1, <2>2, SeatOf
  <2>5. QED
    BY <2>2, <2>3, <2>4
<1>4. CASE tickets[t] = "SOLD"
  <2>1. PICK i \in ReservationIds : reservations[i].status = "COMPLETED" /\ reservations[i].ticketId = t
    BY <1>1, <1>4 DEF Consistent
  <2>2. /\ reservations'[i].status = "COMPLETED" /\ reservations'[i].ticketId = t
        /\ reservations'[i].userId = reservations[i].userId
        /\ tickets'[t] = "SOLD"
    BY <1>4, <2>1 DEF IsRow
  <2>3. ViewOf(tickets, reservations)[t] = [state |-> "sold", by |-> reservations[i].userId]
    BY <1>1, <1>4, <2>1, SeatOf
  <2>4. ViewOf(tickets', reservations')[t] = [state |-> "sold", by |-> reservations'[i].userId]
    BY <1>1, <2>2, SeatOf
  <2>5. QED
    BY <2>2, <2>3, <2>4
<1>5. QED
  BY <1>2, <1>3, <1>4

\* Seeding, errors and the clock change no seat.
LEMMA UnseenView ==
  ASSUME SeatInv, SeatInv', Unseen
  PROVE  SeatView' = SeatView
<1>1. ASSUME NEW t \in Tickets
      PROVE  ViewOf(tickets', reservations')[t] = ViewOf(tickets, reservations)[t]
  BY SeatStays DEF Unseen
<1>2. QED
  BY <1>1, SameView

\* A reservation holds a free seat.
LEMMA HoldView ==
  ASSUME SeatInv, SeatInv', NEW u \in Users, NEW t \in Tickets, NEW id \in ReservationIds,
         Holds(u, t, id)
  PROVE  Promise!Hold(u, t)
<1> DEFINE old == ViewOf(tickets, reservations)
           new == ViewOf(tickets', reservations')
<1>1. Consistent(tickets, reservations) /\ Consistent(tickets', reservations')
  BY SeatInvConsistent
<1>2. old[t] = [state |-> "free"]
  BY <1>1, SeatOf DEF Holds
<1>3. new[t] = [state |-> "held", by |-> u]
  <2>1. tickets'[t] = "RESERVED"
    BY DEF Holds, SetTicketStatus
  <2>2. QED
    BY <1>1, <2>1, SeatOf DEF Holds
<1>4. ASSUME NEW v \in Tickets, v # t
      PROVE  new[v] = old[v]
  <2>1. tickets'[v] = tickets[v]
    BY <1>4 DEF Holds, SetTicketStatus
  <2>2. \A i \in ReservationIds : IsRow(reservations, i) => reservations'[i] = reservations[i]
    BY DEF Holds
  <2>3. QED
    BY <2>1, <2>2, SeatStays
<1>5. new = [v \in Tickets |-> new[v]] /\ old = [v \in Tickets |-> old[v]]
  BY ViewIsFunction
<1> HIDE DEF old, new
<1>6. new = [old EXCEPT ![t] = [state |-> "held", by |-> u]]
  BY <1>3, <1>4, <1>5
<1>7. SeatView = old /\ SeatView' = new
  BY SeatViewIs DEF old, new
<1>8. QED
  BY <1>2, <1>6, <1>7 DEF Promise!Hold, Promise!Free, Promise!Held

\* A purchase sells a held seat to its holder.
LEMMA BuyView ==
  ASSUME SeatInv, SeatInv', NEW i \in ReservationIds, Rewrites({i}, "COMPLETED", "SOLD")
  PROVE  \E u \in Users, t \in Tickets : Promise!Buy(u, t)
<1> DEFINE old == ViewOf(tickets, reservations)
           new == ViewOf(tickets', reservations')
           t == reservations[i].ticketId
           u == reservations[i].userId
<1>1. Consistent(tickets, reservations) /\ Consistent(tickets', reservations')
  BY SeatInvConsistent
<1>2. IsPending(reservations, i) /\ IsRow(reservations, i)
  BY DEF Rewrites, IsPending, IsRow
<1>3. t \in Tickets /\ u \in Users /\ tickets[t] = "RESERVED"
  <2>1. reservations[i] \in ReservationRows
    BY <1>2, RowType DEF SeatInv, Inv, TypeOK
  <2>2. QED
    BY <1>2, <2>1 DEF SeatInv, Inv, ReservationsMatchTickets, ReservationRows
<1>4. /\ reservations'[i].status = "COMPLETED"
      /\ reservations'[i].ticketId = t
      /\ reservations'[i].userId = u
  BY DEF Rewrites
<1>5. \A v \in Tickets : tickets'[v] = IF v = t THEN "SOLD" ELSE tickets[v]
  BY DEF Rewrites, SetTicketStatus, TicketIdsOf
<1> HIDE DEF t, u
<1>6. old[t] = [state |-> "held", by |-> u]
  BY <1>1, <1>2, <1>3, SeatOf DEF IsPending, t, u
<1>7. new[t] = [state |-> "sold", by |-> u]
  BY <1>1, <1>3, <1>4, <1>5, SeatOf
<1>8. ASSUME NEW v \in Tickets, v # t
      PROVE  new[v] = old[v]
  <2>1. \A j \in ReservationIds : reservations[j].ticketId = v => reservations'[j] = reservations[j]
    BY <1>8 DEF Rewrites, t
  <2>2. QED
    BY <1>5, <1>8, <2>1, SeatStays
<1>9. new = [v \in Tickets |-> new[v]] /\ old = [v \in Tickets |-> old[v]]
  BY ViewIsFunction
<1> HIDE DEF old, new
<1>10. new = [old EXCEPT ![t] = [state |-> "sold", by |-> u]]
  BY <1>7, <1>8, <1>9
<1>11. SeatView = old /\ SeatView' = new
  BY SeatViewIs DEF old, new
<1>12. QED
  BY <1>3, <1>6, <1>10, <1>11 DEF Promise!Buy, Promise!Sold, Promise!Held

\* A cleanup frees held seats, several at once if need be.
LEMMA LapseView ==
  ASSUME SeatInv, SeatInv', NEW ids \in SUBSET ReservationIds,
         Rewrites(ids, "CANCELLED", "AVAILABLE")
  PROVE  \E T \in SUBSET Tickets : Promise!Lapse(T)
<1> DEFINE old == ViewOf(tickets, reservations)
           new == ViewOf(tickets', reservations')
           T == TicketIdsOf(reservations, ids)
<1>1. Consistent(tickets, reservations) /\ Consistent(tickets', reservations')
  BY SeatInvConsistent
<1>2. ASSUME NEW i \in ids
      PROVE  /\ i \in ReservationIds
             /\ reservations[i].status = "PENDING"
             /\ reservations[i].ticketId \in Tickets
             /\ tickets[reservations[i].ticketId] = "RESERVED"
  <2>1. i \in ReservationIds /\ IsPending(reservations, i) /\ IsRow(reservations, i)
    BY DEF Rewrites, IsPending, IsRow
  <2>2. reservations[i] \in ReservationRows
    BY <2>1, RowType DEF SeatInv, Inv, TypeOK
  <2>3. QED
    BY <2>1, <2>2 DEF SeatInv, Inv, ReservationsMatchTickets, ReservationRows, IsPending
<1>3. T \in SUBSET Tickets
  BY <1>2 DEF TicketIdsOf
<1>4. \A v \in Tickets : tickets'[v] = IF v \in T THEN "AVAILABLE" ELSE tickets[v]
  BY DEF Rewrites, SetTicketStatus
<1>5. ASSUME NEW v \in T
      PROVE  old[v].state = "held" /\ new[v] = [state |-> "free"]
  <2>1. PICK i \in ids : reservations[i].ticketId = v
    BY DEF TicketIdsOf
  <2>2. old[v] = [state |-> "held", by |-> reservations[i].userId]
    BY <1>1, <1>2, <2>1, SeatOf
  <2>3. new[v] = [state |-> "free"]
    BY <1>1, <1>3, <1>4, SeatOf
  <2>4. QED
    BY <2>2, <2>3
<1>6. ASSUME NEW v \in Tickets, v \notin T
      PROVE  new[v] = old[v]
  <2>1. \A i \in ReservationIds : reservations[i].ticketId = v => reservations'[i] = reservations[i]
    BY <1>6 DEF Rewrites, TicketIdsOf
  <2> HIDE DEF T
  <2>2. QED
    BY <1>4, <1>6, <2>1, SeatStays
<1>7. new = [v \in Tickets |-> new[v]]
  BY ViewIsFunction
<1>8. SeatView = old /\ SeatView' = new
  BY SeatViewIs
<1> HIDE DEF old, new, T
<1>9. new = [v \in Tickets |-> IF v \in T THEN [state |-> "free"] ELSE old[v]]
  BY <1>3, <1>5, <1>6, <1>7
<1>10. QED
  BY <1>3, <1>5, <1>8, <1>9 DEF Promise!Lapse, Promise!Free

\* Each step of the service is a step of Seats, or changes no seat.
LEMMA StepIsSeen ==
  ASSUME MaxQuantity = 1, SeatInv, SeatInv', [Next]_vars
  PROVE  [Promise!Next]_SeatView
<1>1. Inv
  BY DEF SeatInv
<1>2. CASE Unseen
  BY <1>2, UnseenView
<1>3. CASE \E u \in Users, t \in Tickets, id \in ReservationIds : Holds(u, t, id)
  BY <1>3, HoldView DEF Promise!Next
<1>4. CASE \E i \in ReservationIds : Rewrites({i}, "COMPLETED", "SOLD")
  BY <1>4, BuyView DEF Promise!Next
<1>5. CASE \E ids \in SUBSET ReservationIds : Rewrites(ids, "CANCELLED", "AVAILABLE")
  BY <1>5, LapseView DEF Promise!Next
<1>6. QED
  BY <1>1, <1>2, <1>3, <1>4, <1>5, Kinds

\* The empty tables show free seats only.
LEMMA InitIsSeen ==
  Init => Promise!Init
BY DEF Init, Promise!Init, Promise!Free, SeatView

\* When a request is for one ticket, the service keeps the promise of Seats: only
\* the holder buys, a lapsed hold frees its ticket, a sale is for ever.
THEOREM Refinement ==
  ASSUME MaxQuantity = 1
  PROVE  Spec => KeepsThePromise
<1>1. SeatInv /\ [Next]_vars => SeatInv'
  BY SeatInvStep
<1>2. SeatInv /\ SeatInv' /\ [Next]_vars => [Promise!Next]_SeatView
  BY StepIsSeen
<1>3. QED
  BY <1>1, <1>2, SeatInvInit, InitIsSeen, PTL DEF Spec, KeepsThePromise, Promise!Spec

\* And every reserved ticket has a hold that expires.
THEOREM HeldTickets ==
  ASSUME MaxQuantity = 1
  PROVE  Spec => []ReservedIsHeld
<1>1. SeatInv /\ [Next]_vars => SeatInv'
  BY SeatInvStep
<1>2. SeatInv => ReservedIsHeld
  BY DEF SeatInv
<1>3. QED
  BY <1>1, <1>2, SeatInvInit, PTL DEF Spec
=============================================================================
