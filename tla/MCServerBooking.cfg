\* Can two customers be told they have the same ticket?
SPECIFICATION Spec
CONSTANTS
  c1 = c1
  c2 = c2
  t1 = t1
  t2 = t2
  t3 = t3
  u1 = u1
  u2 = u2
  p1 = p1
  p2 = p2
  p3 = p3
  cron1 = cron1
  Concerts <- TwoConcerts
  Tickets <- AllTickets
  Users <- MCUsers
  ConcertOf <- MCConcertOf
  Price <- MCPrice
  ReservationIds <- MCReservationIds
  MaxQuantity = 1
  TTL = 1
  Clients <- ThreeClients
  CronRuns <- NoRun
  Kinds <- AtomicOnly
  InitialDb <- FreshStart
  MaxCalls = 3
  MaxOpen = 2
  MaxCrashes = 0
  TimeFlows = FALSE
  OneLock = FALSE
  InOrder = TRUE
SYMMETRY MCSymmetry
INVARIANTS
  NoDoubleBooking
CHECK_DEADLOCK FALSE
