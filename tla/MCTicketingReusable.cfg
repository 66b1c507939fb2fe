\* Can a ticket that was released be reserved again?
SPECIFICATION Spec
CONSTANTS
  c1 = c1
  c2 = c2
  t1 = t1
  t2 = t2
  t3 = t3
  t4 = t4
  u1 = u1
  u2 = u2
  Concerts <- MCOneConcert
  Tickets <- MCTwoTickets
  Users <- MCUsers
  ConcertOf <- MCConcertOf2
  Price <- MCPrice2
  ReservationIds <- MCReservationIds
  MaxQuantity = 1
  TTL = 1
INVARIANTS
  AvailableIsReservable
