\* Requests for one ticket: the service implements Seats, every reserved ticket
\* has a hold, and every hold ends.
SPECIFICATION FairSpec
CONSTANTS
  c1 = c1
  c2 = c2
  t1 = t1
  t2 = t2
  t3 = t3
  t4 = t4
  u1 = u1
  u2 = u2
  Concerts <- MCOneConcert
  Tickets <- MCThreeTickets
  Users <- MCUsers
  ConcertOf <- MCConcertOf3
  Price <- MCPrice3
  ReservationIds <- MCReservationIds
  MaxQuantity = 1
  TTL = 1
INVARIANTS
  ReservedIsHeld
PROPERTIES
  KeepsThePromise
  HoldsEnd
