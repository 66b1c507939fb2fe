\* Isolated transactions, requests for one or two tickets, safety.
SPECIFICATION Spec
CONSTANTS
  c1 = c1
  c2 = c2
  t1 = t1
  t2 = t2
  t3 = t3
  t4 = t4
  u1 = u1
  u2 = u2
  Concerts <- MCConcerts
  Tickets <- MCTickets
  Users <- MCUsers
  ConcertOf <- MCConcertOf
  Price <- MCPrice
  ReservationIds <- MCReservationIds
  MaxQuantity = 2
  TTL = 1
SYMMETRY MCSymmetry
INVARIANTS
  TypeOK
  StockMatchesTickets
  ReservationsMatchTickets
PROPERTIES
  SoldIsFinal
