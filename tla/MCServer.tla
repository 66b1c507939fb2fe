------------------------------ MODULE MCServer ------------------------------
(***************************************************************************)
(* Instances of TicketingServer for TLC: a concert with two tickets of     *)
(* different prices and one with a single ticket.                          *)
(***************************************************************************)
EXTENDS TicketingServer, TLC

CONSTANTS c1, c2, t1, t2, t3, u1, u2, p1, p2, p3, cron1

TwoConcerts == {c1, c2}
OneConcert  == {c1}
AllTickets  == {t1, t2, t3}
TicketsOfC1 == {t1, t2}
MCConcertOf == [t \in Tickets |-> IF t = t3 THEN c2 ELSE c1]
MCPrice     == [t \in Tickets |-> IF t = t2 THEN 2 ELSE 1]
MCUsers     == {u1, u2}
OneUser     == {u1}

\* Ids grow by one for each insertion: the row of the initial database and one
\* for each call suffice.
MCReservationIds == 1 .. 4

AllKinds == ReserveKinds \cup {"purchase", "cleanup"}
AtomicOnly == {"atomic"}
AtomicAndCleanup == {"atomic", "cleanup"}
PurchaseAndCleanup == {"purchase", "cleanup"}

-----------------------------------------------------------------------------
(* Databases the server may be started on. *)

\* Seeded, nothing reserved.
Fresh ==
  [listed |-> Concerts,
   stock |-> [c \in Concerts |-> Cardinality(TicketsOf(c))],
   version |-> [c \in Concerts |-> 1],
   tickets |-> [t \in Tickets |-> "AVAILABLE"],
   reservations |-> [i \in ReservationIds |-> NoRow]]

\* t1 was reserved by u1, and its hold has `left' ticks to go.
HeldFor(left) ==
  [Fresh EXCEPT !.stock[c1] = @ - 1, !.tickets[t1] = "RESERVED",
     !.reservations[1] = [userId |-> u1, ticketId |-> t1, concertId |-> c1,
                          status |-> "PENDING", left |-> left]]

\* The hold on t1 was released.
Released ==
  [Fresh EXCEPT !.reservations[1] =
     [userId |-> u1, ticketId |-> t1, concertId |-> c1,
      status |-> "CANCELLED", left |-> -1]]

\* The seed script died after saving c1 and before saving its tickets.
HalfSeeded ==
  [Fresh EXCEPT !.listed = {c1}, !.tickets = [t \in Tickets |-> "ABSENT"],
     !.stock = [c \in Concerts |-> IF c = c1 THEN @[c] ELSE 0]]

AllStarts   == {Fresh, HeldFor(0), HeldFor(-1), Released, HalfSeeded}
FreshStart  == {Fresh}
BusyStarts  == {HeldFor(-1), Released, HalfSeeded}
HeldStart   == {HeldFor(0)}

OneClient    == {p1}
TwoClients   == {p1, p2}
ThreeClients == {p1, p2, p3}
NoRun        == {}
OneRun       == {cron1}
MCSymmetry   == Permutations(Clients) \cup Permutations(CronRuns)
=============================================================================
