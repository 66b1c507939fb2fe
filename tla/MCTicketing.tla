----------------------------- MODULE MCTicketing -----------------------------
(***************************************************************************)
(* Instances of Ticketing for TLC: one concert with a VIP and two equally  *)
(* priced General tickets, one with a single ticket.                       *)
(***************************************************************************)
EXTENDS TicketingSeats, TLC

CONSTANTS c1, c2, t1, t2, t3, t4, u1, u2

MCConcerts  == {c1, c2}
MCTickets   == {t1, t2, t3, t4}
MCUsers     == {u1, u2}
MCConcertOf == (t1 :> c1) @@ (t2 :> c1) @@ (t3 :> c1) @@ (t4 :> c2)
MCPrice     == (t1 :> 2) @@ (t2 :> 1) @@ (t3 :> 1) @@ (t4 :> 1)

\* UNIQUE("ticketId") and the absence of DELETE bound the table by the number
\* of tickets, so this bound is never met.
MCReservationIds == 1 .. 4

\* The instance of the run about Seats.
MCThreeTickets == {t1, t2, t3}
MCConcertOf3   == (t1 :> c1) @@ (t2 :> c1) @@ (t3 :> c1)
MCPrice3       == (t1 :> 2) @@ (t2 :> 1) @@ (t3 :> 1)

\* The smaller instance of the two counterexamples.
MCOneConcert  == {c1}
MCTwoTickets  == {t1, t2}
MCConcertOf2  == (t1 :> c1) @@ (t2 :> c1)
MCPrice2      == (t1 :> 2) @@ (t2 :> 1)

\* Users are interchangeable, and so are the two tickets of the same concert
\* and price.  Used by the runs without liveness properties.
MCSymmetry == Permutations(MCUsers) \cup Permutations({t2, t3})
=============================================================================
