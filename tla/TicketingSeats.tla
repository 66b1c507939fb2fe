--------------------------- MODULE TicketingSeats ---------------------------
(***************************************************************************)
(* The service with isolated transactions implements Seats when a request  *)
(* is for one ticket.  The seat of a ticket is read from its status and    *)
(* from the reservation row that names it.                                 *)
(***************************************************************************)
EXTENDS Ticketing

\* The user of a reservation row for t with the given status.
UserOf(t, status) ==
  LET i == CHOOSE i \in ReservationIds :
             reservations[i].status = status /\ reservations[i].ticketId = t
  IN  reservations[i].userId

SeatView ==
  [t \in Tickets |->
     CASE tickets[t] = "RESERVED" -> [state |-> "held", by |-> UserOf(t, "PENDING")]
       [] tickets[t] = "SOLD"     -> [state |-> "sold", by |-> UserOf(t, "COMPLETED")]
       [] OTHER                   -> [state |-> "free"]]

Promise == INSTANCE Seats WITH seat <- SeatView

\* The database never shows a customer anything Seats does not allow: a held
\* ticket is bought by its holder only, a lapsed hold frees it, and a sale is
\* for ever.  The code keeps the holder in one table and the status in another,
\* and cleanup and purchase each rewrite both.
KeepsThePromise == Promise!Spec
=============================================================================
