\* Calls one at a time, or in the queue of one lock, with crashes.
SPECIFICATION Spec
CONSTANTS
  c1 = c1
  c2 = c2
  t1 = t1
  t2 = t2
  t3 = t3
  u1 = u1
  u2 = u2
  p1 = p1
  p2 = p2
  p3 = p3
  cron1 = cron1
  Concerts <- TwoConcerts
  Tickets <- AllTickets
  Users <- MCUsers
  ConcertOf <- MCConcertOf
  Price <- MCPrice
  ReservationIds <- MCReservationIds
  MaxQuantity = 2
  TTL = 1
  Clients <- TwoClients
  CronRuns <- OneRun
  Kinds <- AllKinds
  InitialDb <- AllStarts
  MaxCalls = 3
  MaxOpen = 2
  MaxCrashes = 1
  TimeFlows = FALSE
  OneLock = TRUE
  InOrder = FALSE
SYMMETRY MCSymmetry
INVARIANTS
  ReservedIsKept
  PurchasedIsKept
  NoDoubleBooking
  StockNeverLost
  TransactionsBalanced
PROPERTIES
  ImplementsService
CHECK_DEADLOCK FALSE
