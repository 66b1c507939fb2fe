\* Calls of every kind, two at a time, and a crash.
SPECIFICATION FairSpec
CONSTANTS
  c1 = c1
  c2 = c2
  t1 = t1
  t2 = t2
  t3 = t3
  u1 = u1
  u2 = u2
  p1 = p1
  p2 = p2
  p3 = p3
  cron1 = cron1
  Concerts <- OneConcert
  Tickets <- TicketsOfC1
  Users <- OneUser
  ConcertOf <- MCConcertOf
  Price <- MCPrice
  ReservationIds <- MCReservationIds
  MaxQuantity = 1
  TTL = 1
  Clients <- TwoClients
  CronRuns <- OneRun
  Kinds <- AllKinds
  InitialDb <- BusyStarts
  MaxCalls = 3
  MaxOpen = 2
  MaxCrashes = 1
  TimeFlows = FALSE
  OneLock = FALSE
  InOrder = TRUE
INVARIANTS
  TypeOK
  EndsAtMostOnce
  OneRowPerTicket
PROPERTIES
  CommittedRowsStay
  EveryCallEnds
CHECK_DEADLOCK FALSE
