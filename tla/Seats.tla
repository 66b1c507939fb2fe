-------------------------------- MODULE Seats --------------------------------
(***************************************************************************)
(* What the service promises about a ticket, without tables, counters or   *)
(* clocks: a free ticket may be held by one user, only that user may buy   *)
(* it, a hold may lapse, and a sold ticket stays sold to its buyer.        *)
(***************************************************************************)
CONSTANTS Tickets, Users

VARIABLE seat   \* each ticket is free, or held by or sold to a user

Free    == [state |-> "free"]
Held(u) == [state |-> "held", by |-> u]
Sold(u) == [state |-> "sold", by |-> u]

Init == seat = [t \in Tickets |-> Free]

Hold(u, t) ==
  /\ seat[t] = Free
  /\ seat' = [seat EXCEPT ![t] = Held(u)]

Buy(u, t) ==
  /\ seat[t] = Held(u)
  /\ seat' = [seat EXCEPT ![t] = Sold(u)]

\* Several holds may lapse at once: one cleanup releases them together.
Lapse(T) ==
  /\ \A t \in T : seat[t].state = "held"
  /\ seat' = [t \in Tickets |-> IF t \in T THEN Free ELSE seat[t]]

Next ==
  \/ \E u \in Users, t \in Tickets : Hold(u, t) \/ Buy(u, t)
  \/ \E T \in SUBSET Tickets : Lapse(T)

Spec == Init /\ [][Next]_seat
=============================================================================
