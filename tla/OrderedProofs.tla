----------------------------- MODULE OrderedProofs -----------------------------
(***************************************************************************)
(* The exact refinement: what a function has written at each statement, so *)
(* that what its COMMIT brings to disk is the one-step function of         *)
(* Ticketing.  The condition of KeptProofs stays (one function at a time   *)
(* uses the connection), and the clock stands still while a transaction is *)
(* open, as the one-step functions read it once.                           *)
(***************************************************************************)
EXTENDS KeptProofs

-----------------------------------------------------------------------------
(* What the open transaction has written so far: k is the disk, d what the   *)
(* connection reads.                                                         *)

Written(k, d, st, tk, rs) ==
  d.listed = k.listed /\ d.stock = st /\ d.tickets = tk /\ d.reservations = rs

\* Reserve, for r: the batches that may be picked.
Offers(k, r) == CheapestFirst(AvailableTickets(k.tickets, r.concert), r.quantity)

TooFew(k, r) == Cardinality(AvailableTickets(k.tickets, r.concert)) < r.quantity

Granted(k, r) == r.concert \in k.listed /\ k.stock[r.concert] >= r.quantity

StockTaken(k, r) == AddStock(k.stock, r.concert, -r.quantity)

Marked(k, ids) == SetTicketStatus(k.tickets, ids, "RESERVED")

\* All of it is there.
Reserves(k, d, r, m) ==
  /\ Granted(k, r) /\ m.id \in ReservationIds /\ IsNextId(k.reservations, m.id)
  /\ TicketIdIsFree(k.reservations, m.first)
  /\ \E b \in Offers(k, r) :
       /\ b.first = m.first
       /\ Written(k, d, StockTaken(k, r), Marked(k, b.ids),
                  InsertReservation(k.reservations, m.id, r.user, m.first, r.concert))

ReserveSoFar(k, d, label, s, r, m) ==
  /\ label \in {"find", "take", "diagnose"} => d = k
  /\ label \in {"take", "diagnose"} => r.concert \in k.listed
  /\ label = "take" => m.version = k.version[r.concert]
  /\ label = "diagnose" => k.stock[r.concert] < r.quantity
  /\ label \in {"pick", "giveback", "mark"} =>
       Granted(k, r) /\ Written(k, d, StockTaken(k, r), k.tickets, k.reservations)
  /\ label = "giveback" => TooFew(k, r)
  /\ label = "mark" => m \in Offers(k, r)
  /\ label = "insert" /\ s.stage = "write" =>
       /\ Granted(k, r) /\ m \in Offers(k, r)
       /\ Written(k, d, StockTaken(k, r), Marked(k, m.ids), k.reservations)
  /\ label = "insert" /\ s.stage = "reload" => Reserves(k, d, r, m)

\* Purchase.
MayBuy(k, r, m) ==
  /\ m = k.reservations[r.id]
  /\ m.userId = r.user /\ m.status = "PENDING" /\ m.left >= 0

BoughtRows(k, r) == StatusSet(k.reservations, r.id, "COMPLETED")

Purchases(k, d, r, m) ==
  /\ MayBuy(k, r, m)
  /\ Written(k, d, k.stock, SetTicketStatus(k.tickets, {m.ticketId}, "SOLD"), BoughtRows(k, r))

PurchaseSoFar(k, d, label, s, r, m) ==
  /\ label = "findRow" => d = k
  /\ label = "saveRow" /\ s.stage # "reload" => d = k /\ MayBuy(k, r, m)
  /\ label = "saveRow" /\ s.stage = "write" => s.old = m
  /\ \/ label = "saveRow" /\ s.stage = "reload"
     \/ label = "saveTicket" /\ s.stage # "reload"
     => MayBuy(k, r, m) /\ Written(k, d, k.stock, k.tickets, BoughtRows(k, r))
  /\ label = "saveTicket" /\ s.stage = "reload" => Purchases(k, d, r, m)

\* Cleanup: the rows cancelled, those whose tickets are freed, and those whose
\* unit was given back.
Expired(k) == ExpiredReservations(k.reservations)

Restocked(k, rows) ==
  [c \in Concerts |->
     k.stock[c] + Cardinality({i \in rows : k.reservations[i].concertId = c})]

Freed(k, rows) ==
  SetTicketStatus(k.tickets, TicketIdsOf(k.reservations, rows), "AVAILABLE")

Cancelled(k, rows) == SetReservationStatus(k.reservations, rows, "CANCELLED")

Releases(k, d) ==
  Written(k, d, Restocked(k, Expired(k)), Freed(k, Expired(k)), Cancelled(k, Expired(k)))

RoundSoFar(k, d, label, s, m, i) ==
  LET done == Expired(k) \ m.todo
      more == done \cup {i}
  IN  /\ label = "findExpired" => d = k
      /\ label \in {"cancelRow", "freeTicket", "addStock"} =>
           m.rows = k.reservations /\ m.todo \subseteq Expired(k)
      /\ label = "cancelRow" /\ s.stage # "reload" =>
           Written(k, d, Restocked(k, done), Freed(k, done), Cancelled(k, done))
      /\ label = "cancelRow" /\ s.stage = "write" => s.old = k.reservations[i]
      /\ (label = "cancelRow" /\ s.stage = "reload") \/ label = "freeTicket" =>
           Written(k, d, Restocked(k, done), Freed(k, done), Cancelled(k, more))
      /\ label = "addStock" =>
           Written(k, d, Restocked(k, done), Freed(k, more), Cancelled(k, more))

CleanupSoFar(k, d, label, s, m) ==
  RoundSoFar(k, d, label, s, m, CHOOSE i \in m.todo : TRUE)

\* ROLLBACK: what is on disk is a reason to refuse.
RefusesReserve(k, r, v) ==
  /\ r.kind \in ReserveKinds
  /\ \/ v = "NotFoundError" /\ r.concert \notin k.listed
     \/ v = "ConflictError" /\ r.concert \in k.listed /\ k.stock[r.concert] < r.quantity
     \/ v = "ConflictError" /\ Granted(k, r) /\ TooFew(k, r)
     \/ /\ v = "QueryFailedError" /\ Granted(k, r)
        /\ \E b \in Offers(k, r) : ~TicketIdIsFree(k.reservations, b.first)

RefusesPurchase(k, r, v) ==
  /\ r.kind = "purchase"
  /\ \/ v = "NotFoundError" /\ ~IsRow(k.reservations, r.id)
     \/ /\ v = "ConflictError" /\ IsRow(k.reservations, r.id)
        /\ ~MayBuy(k, r, k.reservations[r.id])

Concludes(k, d, label, r, m, v) ==
  /\ label = "commit" =>
       \/ v = "reserved" /\ r.kind \in ReserveKinds /\ Reserves(k, d, r, m)
       \/ v = "purchased" /\ r.kind = "purchase" /\ Purchases(k, d, r, m)
       \/ v = "released" /\ Releases(k, d)
  /\ label = "rollback" => RefusesReserve(k, r, v) \/ RefusesPurchase(k, r, v)

SoFarAt(k, d, label, s, r, m, v) ==
  /\ ReserveSoFar(k, d, label, s, r, m)
  /\ PurchaseSoFar(k, d, label, s, r, m)
  /\ CleanupSoFar(k, d, label, s, m)
  /\ Concludes(k, d, label, r, m, v)

SoFar(p) == SoFarAt(disk, db, pc[p], saving[p], request[p], local[p], verdict[p])

Exactly == \A p \in Processes : SoFar(p)

\* The inductive invariant.
Ordered == Kept /\ Exactly

-----------------------------------------------------------------------------
(* The instance of Ticketing in TicketingServer, and the proofs about it.   *)

\* Ticketing again, with what TicketingProofs says of it.
Isolated == INSTANCE SeatsProofs WITH
  listed <- disk.listed, stock <- disk.stock, tickets <- disk.tickets,
  reservations <- disk.reservations, seeding <- {}, outcome <- outcome

\* An instance has copies of the operators on tables, which are the same operators.
LEMMA SameCardinality ==
  \A S : /\ Service!Cardinality(S) = Cardinality(S)
         /\ Isolated!Cardinality(S) = Cardinality(S)
BY DEF Service!Cardinality, Isolated!Cardinality, Cardinality

LEMMA SameFiniteness ==
  \A S : Isolated!IsFiniteSet(S) <=> IsFiniteSet(S)
BY DEF Isolated!IsFiniteSet, IsFiniteSet

LEMMA ServiceTables ==
  /\ Service!Quantities = Quantities
  /\ \A tk, c : Service!AvailableTickets(tk, c) = AvailableTickets(tk, c)
  /\ \A A, q : Service!CheapestFirst(A, q) = CheapestFirst(A, q)
  /\ \A rs : Service!ExpiredReservations(rs) = ExpiredReservations(rs)
  /\ \A rs, ids : Service!TicketIdsOf(rs, ids) = TicketIdsOf(rs, ids)
  /\ \A tk, ids, s : Service!SetTicketStatus(tk, ids, s) = SetTicketStatus(tk, ids, s)
  /\ \A st, c, n : Service!AddStock(st, c, n) = AddStock(st, c, n)
  /\ \A rs, i : Service!IsNextId(rs, i) = IsNextId(rs, i)
  /\ \A rs, t : Service!TicketIdIsFree(rs, t) = TicketIdIsFree(rs, t)
  /\ \A rs, i, u, t, c :
       Service!InsertReservation(rs, i, u, t, c) = InsertReservation(rs, i, u, t, c)
  /\ \A rs, ids, s : Service!SetReservationStatus(rs, ids, s) = SetReservationStatus(rs, ids, s)
  /\ \A rs : Service!Age(rs) = Age(rs)
  /\ \A rs, i : Service!IsRow(rs, i) = IsRow(rs, i)
  /\ \A rs, i : Service!IsPending(rs, i) = IsPending(rs, i)
BY SameCardinality
   DEF Service!Quantities, Quantities, Service!AvailableTickets, AvailableTickets,
       Service!TicketsOf, TicketsOf, Service!CheapestFirst, CheapestFirst,
       Service!ExpiredReservations, ExpiredReservations, Service!IsPending, IsPending,
       Service!TicketIdsOf, TicketIdsOf, Service!SetTicketStatus, SetTicketStatus,
       Service!AddStock, AddStock, Service!IsNextId, IsNextId, Service!IsRow, IsRow,
       Service!TicketIdIsFree, TicketIdIsFree, Service!InsertReservation, InsertReservation,
       Service!SetReservationStatus, SetReservationStatus, Service!Age, Age

LEMMA IsolatedTables ==
  /\ Isolated!Quantities = Quantities
  /\ \A tk, c : Isolated!AvailableTickets(tk, c) = AvailableTickets(tk, c)
  /\ \A A, q : Isolated!CheapestFirst(A, q) = CheapestFirst(A, q)
  /\ \A rs : Isolated!ExpiredReservations(rs) = ExpiredReservations(rs)
  /\ \A rs, ids : Isolated!TicketIdsOf(rs, ids) = TicketIdsOf(rs, ids)
  /\ \A tk, ids, s : Isolated!SetTicketStatus(tk, ids, s) = SetTicketStatus(tk, ids, s)
  /\ \A st, c, n : Isolated!AddStock(st, c, n) = AddStock(st, c, n)
  /\ \A rs, i : Isolated!IsNextId(rs, i) = IsNextId(rs, i)
  /\ \A rs, t : Isolated!TicketIdIsFree(rs, t) = TicketIdIsFree(rs, t)
  /\ \A rs, i, u, t, c :
       Isolated!InsertReservation(rs, i, u, t, c) = InsertReservation(rs, i, u, t, c)
  /\ \A rs, ids, s : Isolated!SetReservationStatus(rs, ids, s) = SetReservationStatus(rs, ids, s)
  /\ \A rs : Isolated!Age(rs) = Age(rs)
  /\ \A rs, i : Isolated!IsRow(rs, i) = IsRow(rs, i)
  /\ \A rs, i : Isolated!IsPending(rs, i) = IsPending(rs, i)
BY SameCardinality
   DEF Isolated!Quantities, Quantities, Isolated!AvailableTickets, AvailableTickets,
       Isolated!TicketsOf, TicketsOf, Isolated!CheapestFirst, CheapestFirst,
       Isolated!ExpiredReservations, ExpiredReservations, Isolated!IsPending, IsPending,
       Isolated!TicketIdsOf, TicketIdsOf, Isolated!SetTicketStatus, SetTicketStatus,
       Isolated!AddStock, AddStock, Isolated!IsNextId, IsNextId, Isolated!IsRow, IsRow,
       Isolated!TicketIdIsFree, TicketIdIsFree, Isolated!InsertReservation, InsertReservation,
       Isolated!SetReservationStatus, SetReservationStatus, Isolated!Age, Age

\* The actions of Ticketing that the server takes: it seeds nothing, and only the
\* test script reserves by the legacy function.
ServiceStep ==
  \/ \E u \in Users, c \in Concerts, q \in Quantities : Service!Reserve(u, c, q)
  \/ \E u \in Users, i \in ReservationIds : Service!Purchase(u, i)
  \/ Service!Cleanup
  \/ Service!Tick
  \/ UNCHANGED Service!vars

LEMMA ServiceStepIsNext ==
  ServiceStep => [Service!Next]_(Service!vars)
BY ServiceTables DEF ServiceStep, Service!Next

LEMMA SameReserve ==
  ASSUME NEW u, NEW c, NEW q, Service!Reserve(u, c, q)
  PROVE  Isolated!Reserve(u, c, q)
<1>1. \A e : Service!Throw(e) <=> Isolated!Throw(e)
  BY DEF Service!Throw, Isolated!Throw, Service!tables, Isolated!tables
<1>2. \A b : Service!Reserved(u, c, q, b) => Isolated!Reserved(u, c, q, b)
  BY ServiceTables, IsolatedTables DEF Service!Reserved, Isolated!Reserved
<1>3. QED
  BY ServiceTables, IsolatedTables, SameCardinality, <1>1, <1>2
     DEF Service!Reserve, Isolated!Reserve

LEMMA SamePurchase ==
  ASSUME NEW u, NEW i, Service!Purchase(u, i)
  PROVE  Isolated!Purchase(u, i)
BY ServiceTables, IsolatedTables
   DEF Service!Throw, Isolated!Throw, Service!tables, Isolated!tables,
       Service!Purchase, Isolated!Purchase, Service!MayPurchase, Isolated!MayPurchase

LEMMA SameCleanup ==
  ASSUME Service!Cleanup
  PROVE  Isolated!Cleanup
BY ServiceTables, IsolatedTables, SameCardinality
   DEF Service!Cleanup, Isolated!Cleanup, Service!Released, Isolated!Released,
       Service!ExpiredHolds, Isolated!ExpiredHolds

LEMMA SameTick ==
  ASSUME Service!Tick
  PROVE  Isolated!Tick
BY ServiceTables, IsolatedTables DEF Service!Tick, Isolated!Tick

LEMMA SameInv ==
  Service!Inv <=> Isolated!Inv
BY SameCardinality, ServiceTables, IsolatedTables
   DEF Service!Inv, Isolated!Inv, Service!TypeOK, Isolated!TypeOK,
       Service!RowsNameTheirTickets, Isolated!RowsNameTheirTickets,
       Service!SeedOrder, Isolated!SeedOrder,
       Service!ReservationsMatchTickets, Isolated!ReservationsMatchTickets,
       Service!StockMatchesTickets, Isolated!StockMatchesTickets,
       Service!Outcomes, Isolated!Outcomes, Service!TicketTable, Isolated!TicketTable,
       Service!TicketStatuses, Isolated!TicketStatuses,
       Service!ReservationTable, Isolated!ReservationTable,
       Service!ReservationRows, Isolated!ReservationRows,
       Service!ReservationStatuses, Isolated!ReservationStatuses,
       Service!NoRow, Isolated!NoRow, Service!TicketsOf, Isolated!TicketsOf,
       Service!Unsold, Isolated!Unsold

\* A step of the service is one that the proofs about Ticketing speak of.
LEMMA IsolatedStep ==
  ServiceStep => [Isolated!Next]_(Isolated!vars)
<1>1. CASE \E u \in Users, c \in Concerts, q \in Quantities : Service!Reserve(u, c, q)
  BY <1>1, SameReserve, IsolatedTables DEF Isolated!Next
<1>2. CASE \E u \in Users, i \in ReservationIds : Service!Purchase(u, i)
  BY <1>2, SamePurchase DEF Isolated!Next
<1>3. CASE Service!Cleanup
  BY <1>3, SameCleanup DEF Isolated!Next
<1>4. CASE Service!Tick
  BY <1>4, SameTick DEF Isolated!Next
<1>5. CASE UNCHANGED Service!vars
  BY <1>5 DEF Service!vars, Isolated!vars
<1>6. QED
  BY <1>1, <1>2, <1>3, <1>4, <1>5 DEF ServiceStep

\* Tables on which Ticketing's invariant holds agree.
LEMMA AgreeingTables ==
  Service!Inv => Good(disk)
<1> SUFFICES ASSUME Service!Inv
             PROVE  Good(disk)
  OBVIOUS
<1>1. /\ Service!RowsNameTheirTickets /\ Service!ReservationsMatchTickets
      /\ Service!StockMatchesTickets
  BY DEF Service!Inv
<1>2. Agree(disk, {})
  BY <1>1, SameTables
     DEF Agree, UniqueTicketIds, Service!RowsNameTheirTickets, Service!ReservationsMatchTickets
<1>3. Exact(disk)
  BY <1>1, SameTables DEF Exact, Service!StockMatchesTickets
<1>4. QED
  BY <1>2, <1>3 DEF Good

-----------------------------------------------------------------------------
(* The function that runs goes on. *)

\* What a step has to show: that the service takes it too, or stutters, and that the
\* writes are still known.
Follows == ServiceStep /\ Exactly'

LEMMA SoFarWhere ==
  ASSUME NEW k, NEW d, NEW label, NEW s, NEW r, NEW m, NEW v
  PROVE  /\ label \in Outside => SoFarAt(k, d, label, s, r, m, v)
         /\ label \in ReserveLabels /\ ReserveSoFar(k, d, label, s, r, m) =>
              SoFarAt(k, d, label, s, r, m, v)
         /\ label \in {"findRow", "saveRow", "saveTicket"}
              /\ PurchaseSoFar(k, d, label, s, r, m) => SoFarAt(k, d, label, s, r, m, v)
         /\ label \in {"findExpired", "cancelRow", "freeTicket", "addStock"}
              /\ CleanupSoFar(k, d, label, s, m) => SoFarAt(k, d, label, s, r, m, v)
         /\ label \in {"commit", "rollback"} /\ Concludes(k, d, label, r, m, v) =>
              SoFarAt(k, d, label, s, r, m, v)
BY DEF SoFarAt, ReserveSoFar, PurchaseSoFar, CleanupSoFar, RoundSoFar, Concludes,
       ReserveLabels, Outside

LEMMA NothingOnDisk ==
  disk' = disk /\ outcome' = outcome => ServiceStep
BY DEF ServiceStep, Service!vars

\* What a function in its transaction knows of it.
LEMMA ExactFacts ==
  ASSUME Ordered, OneAtATime, NEW p \in Processes, InTransaction(p)
  PROVE  /\ Kept /\ Inv /\ undo # <<>> /\ active /\ ~saving[p].own
         /\ db \in Databases /\ disk \in Databases
         /\ SoFarAt(disk, db, pc[p], saving[p], request[p], local[p], verdict[p])
         /\ FineAt(db, pc[p], saving[p], request[p], local[p], verdict[p])
BY InsideFacts DEF Ordered, Kept, Exactly, SoFar

\* Anywhere inside ...
LEMMA FollowsMove ==
  ASSUME Ordered, OneAtATime, NEW p \in Processes, InTransaction(p), InPlace,
         NEW label \in Inside, NEW s \in Saves, NEW m,
         GotoStage(p, label, s), Keeping(p, m), UNCHANGED <<request, outcome>>,
         SoFarAt(disk, db', label, s, request[p], m, verdict'[p])
  PROVE  Follows
<1>1. Kept /\ Inv
  BY DEF Ordered, Kept
<1>2. /\ \A o \in Processes : pc'[o] = IF o = p THEN label ELSE pc[o]
      /\ \A o \in Processes : saving'[o] = IF o = p THEN s ELSE saving[o]
  BY <1>1, BusyMoves DEF Inv, TypeOK, ControlOK, Inside
<1>3. \A o \in Processes \ {p} : pc'[o] \in {"idle", "waiting"}
  BY <1>1, <1>2, InsideFacts DEF IsRunning
<1>4. SoFar(p)'
  <2>1. pc'[p] = label /\ saving'[p] = s /\ request'[p] = request[p] /\ local'[p] = m
        /\ disk' = disk
    BY <1>2 DEF Keeping, InPlace
  <2>2. QED
    BY <2>1 DEF SoFar
<1>5. \A o \in Processes \ {p} : SoFar(o)'
  BY <1>3, SoFarWhere DEF SoFar, Outside
<1>6. ServiceStep
  BY NothingOnDisk DEF InPlace
<1>7. QED
  BY <1>4, <1>5, <1>6 DEF Follows, Exactly

\* ... to the next statement of the function ...
LEMMA FollowsProceed ==
  ASSUME Ordered, OneAtATime, NEW p \in Processes, InTransaction(p), InPlace,
         NEW label \in Inside, NEW m, Proceed(p, m, label),
         SoFarAt(disk, db', label, NoSave, request[p], m, verdict[p])
  PROVE  Follows
<1>1. /\ GotoStage(p, label, NoSave) /\ Keeping(p, m)
      /\ UNCHANGED <<request, outcome>> /\ verdict'[p] = verdict[p]
  BY Keeps DEF Proceed, Goto, Rest, Ordered, Kept
<1>2. NoSave \in Saves
  BY NoSaveFacts
<1>3. QED
  BY <1>1, <1>2, FollowsMove

\* ... or of its save ...
LEMMA FollowsStage ==
  ASSUME Ordered, OneAtATime, NEW p \in Processes, InTransaction(p), InPlace,
         pc[p] \in Sites, NEW stage \in Stages, Stage(p, stage), NEW m, Keeping(p, m),
         UNCHANGED <<verdict, Rest>>,
         SoFarAt(disk, db', pc[p], [saving[p] EXCEPT !.stage = stage], request[p], m, verdict[p])
  PROVE  Follows
<1> DEFINE s == [saving[p] EXCEPT !.stage = stage]
<1>1. s \in Saves
  BY UnitFacts DEF Ordered, Kept, Saves
<1>2. GotoStage(p, pc[p], s) /\ UNCHANGED <<request, outcome>>
  BY DEF Stage, Rest
<1>3. pc[p] \in Inside
  BY DEF Sites, Inside, Labels, Outside
<1> HIDE DEF s
<1>4. QED
  BY <1>1, <1>2, <1>3, FollowsMove DEF s

LEMMA FollowsPersist ==
  ASSUME Ordered, OneAtATime, NEW p \in Processes, InTransaction(p), InPlace,
         NEW label \in Sites,
         NEW old \in ReservationRows \cup {NoRow} \cup [status: TicketStatuses],
         Persist(p, label, old),
         SoFarAt(disk, db', label, [stage |-> "write", own |-> FALSE, old |-> old],
                 request[p], local[p], verdict[p])
  PROVE  Follows
<1> DEFINE s == [stage |-> "write", own |-> FALSE, old |-> old]
<1>1. s \in Saves
  BY DEF Saves, Stages
<1>2. GotoStage(p, label, s) /\ UNCHANGED <<request, outcome, verdict, local>>
  BY ExactFacts DEF Persist, Rest
<1>3. label \in Inside
  BY DEF Sites, Inside, Labels, Outside
<1>4. Keeping(p, local[p])
  BY <1>2, Keeps DEF Ordered, Kept
<1> HIDE DEF s
<1>5. QED
  BY <1>1, <1>2, <1>3, <1>4, FollowsMove DEF s

\* ... or to its end.
LEMMA FollowsSend ==
  ASSUME Ordered, OneAtATime, NEW p \in Processes, InTransaction(p), InPlace,
         NEW label \in {"commit", "rollback"}, NEW m, NEW v, Send(p, label, m, v),
         Concludes(disk, db', label, request[p], m, v)
  PROVE  Follows
<1>1. active'
  BY ExactFacts DEF InPlace
<1>2. /\ GotoStage(p, label, NoSave) /\ Keep(p, m) /\ Decide(p, v)
      /\ UNCHANGED <<request, outcome>>
  BY <1>1 DEF Send, Goto, Rest
<1>3. verdict'[p] = v /\ Keeping(p, m)
  BY <1>2, Keeps DEF Decide, Ordered, Kept, Inv, TypeOK
<1>4. NoSave \in Saves /\ label \in Inside
  BY NoSaveFacts DEF Inside, Labels, Outside
<1>5. SoFarAt(disk, db', label, NoSave, request[p], m, v)
  BY SoFarWhere
<1>6. QED
  BY <1>2, <1>3, <1>4, <1>5, FollowsMove

LEMMA FollowsThrow ==
  ASSUME Ordered, OneAtATime, NEW p \in Processes, InTransaction(p), InPlace, NEW v,
         Throw(p, v), RefusesReserve(disk, request[p], v) \/ RefusesPurchase(disk, request[p], v)
  PROVE  Follows
<1>1. Concludes(disk, db', "rollback", request[p], local[p], v)
  BY DEF Concludes
<1>2. QED
  BY <1>1, FollowsSend DEF Throw

-----------------------------------------------------------------------------
(* Reserve. *)

LEMMA ReserveFollows ==
  ASSUME Ordered, OneAtATime, NEW p \in Processes,
         \/ Find(p) \/ Take(p) \/ Diagnose(p) \/ Pick(p)
         \/ GiveBack(p) \/ Mark(p) \/ Insert(p)
  PROVE  Follows
<1> DEFINE r == request[p]
           m == local[p]
           c == request[p].concert
           q == request[p].quantity
<1>1. pc[p] \in ReserveLabels
  BY DEF Find, Take, Diagnose, Pick, GiveBack, Mark, Insert, Saving, At, ReserveLabels
<1>2. /\ InTransaction(p) /\ r.kind \in ReserveKinds
      /\ c \in Concerts /\ r.user \in Users /\ q \in Nat
  BY <1>1, ReserveFacts DEF Ordered, Kept
<1>3. /\ undo # <<>> /\ db \in Databases /\ disk \in Databases /\ active /\ Inv
      /\ ReserveSoFar(disk, db, pc[p], saving[p], r, m)
  BY <1>2, ExactFacts DEF SoFarAt
<1>4. disk.stock[c] \in Nat
  BY <1>2, <1>3 DEF Databases
<1>5. ASSUME InPlace, NEW v, Throw(p, v), RefusesReserve(disk, r, v)
      PROVE  Follows
  BY <1>2, <1>5, FollowsThrow
<1>6. ASSUME InPlace, NEW label \in {"take", "diagnose", "pick", "giveback", "mark"},
             NEW n, Proceed(p, n, label), ReserveSoFar(disk, db', label, NoSave, r, n)
      PROVE  Follows
  <2>1. label \in ReserveLabels /\ label \in Inside
    BY DEF ReserveLabels, Inside, Labels, Outside
  <2>2. SoFarAt(disk, db', label, NoSave, r, n, verdict[p])
    BY <1>6, <2>1, SoFarWhere
  <2>3. QED
    BY <1>2, <1>6, <2>1, <2>2, FollowsProceed
<1>7. CASE Find(p)
  <2>1. pc[p] = "find" /\ InPlace /\ db' = db /\ db = disk
    BY <1>3, <1>7, Inside1 DEF Find, At, ReserveSoFar
  <2>2. CASE c \notin db.listed /\ Throw(p, "NotFoundError")
    BY <1>2, <1>5, <2>1, <2>2 DEF RefusesReserve
  <2>3. CASE c \in db.listed /\ Proceed(p, [version |-> db.version[c]], "take")
    <3>1. ReserveSoFar(disk, db', "take", NoSave, r, [version |-> db.version[c]])
      BY <2>1, <2>3 DEF ReserveSoFar
    <3>2. QED
      BY <2>1, <2>3, <3>1, <1>6
  <2>4. QED
    BY <1>7, <2>2, <2>3 DEF Find
<1>8. CASE Take(p)
  <2>1. /\ pc[p] = "take" /\ db = disk /\ c \in disk.listed
        /\ m.version = disk.version[c]
    BY <1>3, <1>8 DEF Take, At, ReserveSoFar
  <2>2. CanTake(p) <=> disk.stock[c] >= q
    BY <2>1 DEF CanTake
  <2>3. CASE /\ CanTake(p) /\ Execute(StockMoved(c, -q)) /\ Continue(p, "pick")
    <3>1. InPlace /\ db' = StockMoved(c, -q)
      BY <1>3, <2>3, Inside1
    <3>2. /\ db'.listed = disk.listed /\ db'.stock = AddStock(disk.stock, c, -q)
          /\ db'.tickets = disk.tickets /\ db'.reservations = disk.reservations
      BY <1>3, <2>1, <3>1, StockMovedFields
    <3>3. ReserveSoFar(disk, db', "pick", NoSave, r, m)
      BY <2>1, <2>2, <2>3, <3>2 DEF ReserveSoFar, Granted, Written, StockTaken
    <3>4. QED
      BY <2>3, <3>1, <3>3, <1>6 DEF Continue
  <2>4. CASE ~CanTake(p) /\ Select /\ Throw(p, "ConflictError")
    <3>1. InPlace
      BY <1>3, <2>4, Inside1
    <3>2. disk.stock[c] < q
      BY <1>2, <1>4, <2>2, <2>4
    <3>3. QED
      BY <1>2, <1>5, <2>1, <2>4, <3>1, <3>2 DEF RefusesReserve
  <2>5. CASE ~CanTake(p) /\ Select /\ Proceed(p, Nothing, "diagnose")
    <3>1. InPlace /\ db' = db
      BY <1>3, <2>5, Inside1
    <3>2. disk.stock[c] < q
      BY <1>2, <1>4, <2>2, <2>5
    <3>3. ReserveSoFar(disk, db', "diagnose", NoSave, r, Nothing)
      BY <2>1, <3>1, <3>2 DEF ReserveSoFar
    <3>4. QED
      BY <2>5, <3>1, <3>3, <1>6
  <2>6. QED
    BY <1>8, <2>3, <2>4, <2>5 DEF Take
<1>9. CASE Diagnose(p)
  <2>1. /\ pc[p] = "diagnose" /\ db = disk /\ c \in disk.listed
        /\ disk.stock[c] < q
    BY <1>3, <1>9 DEF Diagnose, At, ReserveSoFar
  <2>2. InPlace /\ Throw(p, "ConflictError")
    BY <1>3, <1>9, <2>1, Inside1 DEF Diagnose
  <2>3. RefusesReserve(disk, r, "ConflictError")
    BY <1>2, <2>1 DEF RefusesReserve
  <2>4. QED
    BY <1>5, <2>2, <2>3
<1>10. CASE Pick(p)
  <2>1. /\ pc[p] = "pick" /\ InPlace /\ db' = db
        /\ Granted(disk, r) /\ Written(disk, db, StockTaken(disk, r), disk.tickets, disk.reservations)
    BY <1>3, <1>10, Inside1 DEF Pick, At, ReserveSoFar
  <2>2. db.tickets = disk.tickets
    BY <2>1 DEF Written
  <2>3. CASE /\ Cardinality(AvailableTickets(db.tickets, c)) < q
             /\ Proceed(p, Nothing, "giveback")
    <3>1. ReserveSoFar(disk, db', "giveback", NoSave, r, Nothing)
      BY <2>1, <2>2, <2>3 DEF ReserveSoFar, TooFew
    <3>2. QED
      BY <2>1, <2>3, <3>1, <1>6
  <2>4. CASE \E b \in CheapestFirst(AvailableTickets(db.tickets, c), q) : Proceed(p, b, "mark")
    <3>1. PICK b \in CheapestFirst(AvailableTickets(db.tickets, c), q) : Proceed(p, b, "mark")
      BY <2>4
    <3>2. ReserveSoFar(disk, db', "mark", NoSave, r, b)
      BY <2>1, <2>2, <3>1 DEF ReserveSoFar, Offers
    <3>3. QED
      BY <2>1, <3>1, <3>2, <1>6
  <2>5. QED
    BY <1>10, <2>3, <2>4 DEF Pick
<1>11. CASE GiveBack(p)
  <2>1. pc[p] = "giveback" /\ Granted(disk, r) /\ TooFew(disk, r)
    BY <1>3, <1>11 DEF GiveBack, At, ReserveSoFar
  <2>2. InPlace /\ Throw(p, "ConflictError")
    BY <1>3, <1>11, Inside1 DEF GiveBack
  <2>3. RefusesReserve(disk, r, "ConflictError")
    BY <1>2, <2>1 DEF RefusesReserve
  <2>4. QED
    BY <1>5, <2>2, <2>3
<1>12. CASE Mark(p)
  <2> DEFINE s == [stage |-> "write", own |-> FALSE, old |-> NoRow]
  <2>1. /\ Granted(disk, r) /\ m \in Offers(disk, r)
        /\ Written(disk, db, StockTaken(disk, r), disk.tickets, disk.reservations)
    BY <1>3, <1>12 DEF Mark, At, ReserveSoFar
  <2>2. active' = active
    BY <1>3, <1>12 DEF Mark, Persist
  <2>3. InPlace /\ db' = [db EXCEPT !.tickets = SetTicketStatus(@, m.ids, "RESERVED")]
    BY <1>3, <1>12, <2>2, Inside1 DEF Mark
  <2>4. Written(disk, db', StockTaken(disk, r), Marked(disk, m.ids), disk.reservations)
    BY <1>3, <2>1, <2>3 DEF Databases, Written, Marked
  <2>5. ReserveSoFar(disk, db', "insert", s, r, m)
    BY <2>1, <2>4 DEF ReserveSoFar
  <2>6. SoFarAt(disk, db', "insert", s, r, m, verdict[p])
    BY <2>5, SoFarWhere DEF ReserveLabels
  <2>7. Persist(p, "insert", NoRow) /\ "insert" \in Sites
    BY <1>12 DEF Mark, Sites
  <2>8. QED
    BY <1>2, <2>3, <2>6, <2>7, FollowsPersist
<1>13. CASE Insert(p)
  <2> DEFINE t == m.first
  <2>1. /\ pc[p] = "insert" /\ saving[p].stage = "write"
        /\ Granted(disk, r) /\ m \in Offers(disk, r)
        /\ Written(disk, db, StockTaken(disk, r), Marked(disk, m.ids), disk.reservations)
    BY <1>3, <1>13 DEF Insert, Saving, At, ReserveSoFar
  <2>2. db.reservations = disk.reservations
    BY <2>1 DEF Written
  <2>3. CASE ~TicketIdIsFree(db.reservations, t) /\ SaveFails(p)
    <3>1. Select /\ Throw(p, "QueryFailedError")
      BY <1>2, <2>3, ExactFacts DEF SaveFails
    <3>2. InPlace
      BY <1>3, <3>1, Inside1
    <3>3. RefusesReserve(disk, r, "QueryFailedError")
      BY <1>2, <2>1, <2>2, <2>3 DEF RefusesReserve
    <3>4. QED
      BY <1>5, <3>1, <3>2, <3>3
  <2>4. ASSUME TicketIdIsFree(db.reservations, t), NEW id \in ReservationIds,
               IsNextId(db.reservations, id),
               Execute([db EXCEPT !.reservations = InsertReservation(@, id, r.user, t, c)]),
               Keep(p, [id |-> id, first |-> t]), Stage(p, "reload"),
               UNCHANGED <<verdict, read, Rest>>
        PROVE  Follows
    <3> DEFINE n == [id |-> id, first |-> t]
               s == [saving[p] EXCEPT !.stage = "reload"]
    <3>1. /\ InPlace
          /\ db' = [db EXCEPT !.reservations = InsertReservation(@, id, r.user, t, c)]
      BY <1>3, <2>4, Inside1
    <3>2. Written(disk, db', StockTaken(disk, r), Marked(disk, m.ids),
                  InsertReservation(disk.reservations, id, r.user, t, c))
      BY <1>3, <2>1, <3>1 DEF Databases, Written
    <3>3. Reserves(disk, db', r, n)
      BY <2>1, <2>2, <2>4, <3>2 DEF Reserves
    <3>4. s.stage = "reload"
      BY <1>2, <1>3, UnitFacts DEF Saves
    <3>5. ReserveSoFar(disk, db', "insert", s, r, n)
      BY <3>3, <3>4 DEF ReserveSoFar
    <3> HIDE DEF s
    <3>6. SoFarAt(disk, db', "insert", s, r, n, verdict[p])
      BY <3>5, SoFarWhere DEF ReserveLabels
    <3>7. Keeping(p, n) /\ pc[p] \in Sites /\ "reload" \in Stages
      BY <1>3, <2>1, <2>4, Keeps DEF Sites, Stages
    <3>8. QED
      BY <1>2, <2>1, <2>4, <3>1, <3>6, <3>7, FollowsStage DEF s
  <2>5. QED
    BY <1>13, <2>3, <2>4 DEF Insert
<1>14. QED
  BY <1>7, <1>8, <1>9, <1>10, <1>11, <1>12, <1>13


-----------------------------------------------------------------------------
(* save() of a row, and purchase. *)

LEMMA LoadRowFollows ==
  ASSUME Ordered, OneAtATime, NEW p \in Processes, pc[p] \in {"saveRow", "cancelRow"},
         NEW i \in ReservationIds, NEW m \in ReservationRows, m = db.reservations[i],
         NEW status, m.status # status, LoadRow(p, i, WithStatus(m, status)),
         SoFarAt(disk, db, pc[p], [stage |-> "write", own |-> FALSE, old |-> m],
                 request[p], local[p], verdict[p])
  PROVE  Follows
<1>1. InTransaction(p) /\ pc[p] \in Sites
  BY DEF InTransaction, Sites
<1>2. undo # <<>> /\ active
  BY <1>1, ExactFacts
<1>3. Load /\ Persist(p, pc[p], m)
  BY WritesStatus DEF LoadRow, Alike
<1>4. InPlace /\ db' = db
  BY <1>2, <1>3, Inside1 DEF Persist
<1>5. QED
  BY <1>1, <1>3, <1>4, FollowsPersist

\* No other row has the ticketId of a row whose status is written.
LEMMA NoClash ==
  ASSUME NEW m \in ReservationRows, NEW i \in ReservationIds, m = db.reservations[i],
         UniqueTicketIds(db.reservations), IsRow(db.reservations, i),
         NEW status, m.status # status
  PROVE  ~Clashes(i, m, WithStatus(m, status))
<1>1. Updated(m, m, WithStatus(m, status)) = WithStatus(m, status)
  BY WritesStatus DEF Alike
<1>2. m # NoRow
  BY DEF IsRow, NoRow
<1>3. WithStatus(m, status).ticketId = m.ticketId
  BY DEF WithStatus, ReservationRows
<1>4. QED
  BY <1>1, <1>2, <1>3 DEF Clashes, UniqueTicketIds

LEMMA WriteRowFollows ==
  ASSUME Ordered, OneAtATime, NEW p \in Processes, pc[p] \in {"saveRow", "cancelRow"},
         saving[p].stage = "write", Good(db),
         NEW i \in ReservationIds, NEW m \in ReservationRows, m = db.reservations[i],
         saving[p].old = m, m.status = "PENDING",
         NEW status \in {"COMPLETED", "CANCELLED"}, WriteRow(p, i, WithStatus(m, status)),
         \A d : /\ d.listed = db.listed /\ d.stock = db.stock /\ d.tickets = db.tickets
                /\ d.reservations = StatusSet(db.reservations, i, status)
                => SoFarAt(disk, d, pc[p], [saving[p] EXCEPT !.stage = "reload"],
                           request[p], local[p], verdict[p])
  PROVE  Follows
<1> DEFINE row == WithStatus(m, status)
<1>1. InTransaction(p) /\ pc[p] \in Sites
  BY DEF InTransaction, Sites
<1>2. db \in Databases /\ undo # <<>>
  BY <1>1, ExactFacts
<1>3. m.status # status /\ IsRow(db.reservations, i)
  BY DEF IsRow
<1>4. UniqueTicketIds(db.reservations)
  BY DEF Good, Agree
<1>5. ~Clashes(i, m, row)
  BY <1>3, <1>4, NoClash
<1>6. Updated(m, m, row) = row
  BY <1>3, WritesStatus DEF Alike
<1>7. /\ Execute([db EXCEPT !.reservations[i] = row])
      /\ Stage(p, "reload") /\ UNCHANGED <<local, verdict, read, Rest>>
  BY <1>5, <1>6 DEF WriteRow
<1>8. InPlace /\ db' = [db EXCEPT !.reservations[i] = row]
  BY <1>2, <1>7, Inside1
<1>9. /\ db'.listed = db.listed /\ db'.stock = db.stock /\ db'.tickets = db.tickets
      /\ db'.reservations = StatusSet(db.reservations, i, status)
  BY <1>2, <1>8 DEF Databases, StatusSet
<1>10. SoFarAt(disk, db', pc[p], [saving[p] EXCEPT !.stage = "reload"],
               request[p], local[p], verdict[p])
  BY <1>9
<1>11. Keeping(p, local[p]) /\ "reload" \in Stages
  BY <1>7, Keeps DEF Ordered, Kept, Stages
<1>12. QED
  BY <1>1, <1>7, <1>8, <1>10, <1>11, FollowsStage

LEMMA PurchaseFollows ==
  ASSUME Ordered, OneAtATime, NEW p \in Processes, FindRow(p) \/ Complete(p) \/ SaveTicket(p)
  PROVE  Follows
<1> DEFINE r == request[p]
           i == request[p].id
           m == local[p]
<1>1. InTransaction(p) /\ pc[p] \in {"findRow", "saveRow", "saveTicket"}
  BY DEF FindRow, Complete, SaveTicket, Saving, At, InTransaction
<1>2. r.kind = "purchase" /\ i \in ReservationIds
  <2>1. r \in Requests /\ r.kind = "purchase"
    BY <1>1 DEF Ordered, Kept, Inv, CallsOK, CallOK, Fits
  <2>2. QED
    BY <2>1 DEF Requests, ReserveKinds
<1>3. /\ undo # <<>> /\ db \in Databases /\ disk \in Databases /\ active /\ Inv /\ Kept
      /\ PurchaseSoFar(disk, db, pc[p], saving[p], r, m)
      /\ PurchaseFine(db, pc[p], saving[p], r, m)
  BY <1>1, ExactFacts DEF SoFarAt, FineAt
<1>4. pc[p] # "findRow" => m \in ReservationRows
  BY <1>1, <1>3 DEF Inv, CallsOK, CallOK, Fits
<1>5. CASE FindRow(p)
  <2> DEFINE row == db.reservations[i]
  <2>1. pc[p] = "findRow" /\ InPlace /\ db' = db /\ db = disk
    BY <1>3, <1>5, Inside1 DEF FindRow, At, PurchaseSoFar
  <2>2. ASSUME NEW v, Throw(p, v), RefusesPurchase(disk, r, v)
        PROVE  Follows
    BY <1>1, <2>1, <2>2, FollowsThrow
  <2>3. IsRow(disk.reservations, i) <=> row # NoRow
    BY <1>2, <1>3, <2>1, RowFacts
  <2>4. CASE row = NoRow /\ Throw(p, "NotFoundError")
    BY <1>2, <2>2, <2>3, <2>4 DEF RefusesPurchase
  <2>5. CASE row # NoRow /\ ~Payable(p, row) /\ Throw(p, "ConflictError")
    <3>1. ~MayBuy(disk, r, disk.reservations[i])
      BY <2>1, <2>5 DEF MayBuy, Payable
    <3>2. QED
      BY <1>2, <2>2, <2>3, <2>5, <3>1 DEF RefusesPurchase
  <2>6. CASE row # NoRow /\ Payable(p, row) /\ Proceed(p, row, "saveRow")
    <3>1. PurchaseSoFar(disk, db', "saveRow", NoSave, r, row)
      BY <2>1, <2>6 DEF PurchaseSoFar, MayBuy, Payable, NoSave
    <3>2. SoFarAt(disk, db', "saveRow", NoSave, r, row, verdict[p])
      BY <3>1, SoFarWhere
    <3>3. "saveRow" \in Inside
      BY DEF Inside, Labels, Outside
    <3>4. QED
      BY <1>1, <2>1, <2>6, <3>2, <3>3, FollowsProceed
  <2>7. QED
    BY <1>5, <2>4, <2>5, <2>6 DEF FindRow
<1>6. CASE Complete(p)
  <2>1. pc[p] = "saveRow" /\ saving[p].stage \in {"load", "write"}
    BY <1>6 DEF Complete, Saving, At
  <2>2. /\ db = disk /\ MayBuy(disk, r, m) /\ Good(db)
        /\ saving[p].stage = "write" => saving[p].old = m
    BY <1>3, <2>1 DEF PurchaseSoFar, PurchaseFine
  <2>3. m = db.reservations[i] /\ m.status = "PENDING"
    BY <2>2 DEF MayBuy
  <2>4. CASE LoadRow(p, i, WithStatus(m, "COMPLETED"))
    <3> DEFINE s == [stage |-> "write", own |-> FALSE, old |-> m]
    <3>1. PurchaseSoFar(disk, db, "saveRow", s, r, m)
      BY <2>2 DEF PurchaseSoFar
    <3>2. SoFarAt(disk, db, "saveRow", s, r, m, verdict[p])
      BY <3>1, SoFarWhere
    <3>3. QED
      BY <1>2, <1>4, <2>1, <2>3, <2>4, <3>2, LoadRowFollows
  <2>5. CASE saving[p].stage = "write" /\ WriteRow(p, i, WithStatus(m, "COMPLETED"))
    <3>1. ASSUME NEW d, d.listed = db.listed, d.stock = db.stock, d.tickets = db.tickets,
                 d.reservations = StatusSet(db.reservations, i, "COMPLETED")
          PROVE  SoFarAt(disk, d, pc[p], [saving[p] EXCEPT !.stage = "reload"], r, m, verdict[p])
      <4> DEFINE s == [saving[p] EXCEPT !.stage = "reload"]
      <4>1. s.stage = "reload"
        BY <1>1, <1>3, UnitFacts DEF Saves
      <4>2. Written(disk, d, disk.stock, disk.tickets, BoughtRows(disk, r))
        BY <2>2, <3>1 DEF Written, BoughtRows
      <4>3. PurchaseSoFar(disk, d, "saveRow", s, r, m)
        BY <2>2, <4>1, <4>2 DEF PurchaseSoFar
      <4> HIDE DEF s
      <4>4. SoFarAt(disk, d, "saveRow", s, r, m, verdict[p])
        BY <4>3, SoFarWhere
      <4>5. QED
        BY <2>1, <4>4 DEF s
    <3>2. QED
      BY <1>2, <1>4, <2>1, <2>2, <2>3, <2>5, <3>1, WriteRowFollows
  <2>6. QED
    BY <1>6, <2>4, <2>5 DEF Complete, Saving, WithStatus
<1>7. CASE SaveTicket(p)
  <2>1. pc[p] = "saveTicket" /\ pc[p] \in Sites /\ saving[p].stage \in {"load", "write"}
    BY <1>7 DEF SaveTicket, Saving, At, Sites
  <2>2. /\ MayBuy(disk, r, m)
        /\ Written(disk, db, disk.stock, disk.tickets, BoughtRows(disk, r))
    BY <1>3, <2>1 DEF PurchaseSoFar
  <2>3. db.tickets[m.ticketId] = "RESERVED"
    <3>1. Agree(db, {i}) /\ Bought(db, r, m)
      BY <1>3, <2>1 DEF PurchaseFine
    <3>2. QED
      BY <1>2, <3>1 DEF Bought, Owns, Agree
  <2>4. CASE LoadTicket(p)
    <3> DEFINE old == [status |-> db.tickets[m.ticketId]]
               s == [stage |-> "write", own |-> FALSE, old |-> old]
    <3>1. Load /\ Persist(p, "saveTicket", old)
      BY <2>1, <2>3, <2>4 DEF LoadTicket
    <3>2. InPlace /\ db' = db
      BY <1>3, <3>1, Inside1 DEF Persist
    <3>3. old \in [status: TicketStatuses]
      BY <2>3 DEF TicketStatuses
    <3>4. PurchaseSoFar(disk, db', "saveTicket", s, r, m)
      BY <2>2, <3>2 DEF PurchaseSoFar
    <3>5. SoFarAt(disk, db', "saveTicket", s, r, m, verdict[p])
      BY <3>4, SoFarWhere
    <3>6. QED
      BY <1>1, <2>1, <3>1, <3>2, <3>3, <3>5, FollowsPersist
  <2>5. CASE WriteTicket(p)
    <3> DEFINE s == [saving[p] EXCEPT !.stage = "reload"]
    <3>1. /\ InPlace
          /\ db' = [db EXCEPT !.tickets = SetTicketStatus(@, {m.ticketId}, "SOLD")]
      BY <1>3, <2>5, Inside1 DEF WriteTicket
    <3>2. Purchases(disk, db', r, m)
      BY <1>3, <2>2, <3>1 DEF Databases, Written, Purchases
    <3>3. s.stage = "reload"
      BY <1>1, <1>3, UnitFacts DEF Saves
    <3>4. PurchaseSoFar(disk, db', "saveTicket", s, r, m)
      BY <3>2, <3>3 DEF PurchaseSoFar
    <3> HIDE DEF s
    <3>5. SoFarAt(disk, db', pc[p], s, r, m, verdict[p])
      BY <2>1, <3>4, SoFarWhere
    <3>6. Keeping(p, m) /\ "reload" \in Stages
      BY <1>3, <2>5, Keeps DEF WriteTicket, Stages
    <3>7. QED
      BY <1>1, <2>1, <2>5, <3>1, <3>5, <3>6, FollowsStage DEF WriteTicket, s
  <2>6. QED
    BY <1>7, <2>4, <2>5 DEF SaveTicket
<1>8. QED
  BY <1>5, <1>6, <1>7

-----------------------------------------------------------------------------
(* Cleanup. *)

\* What the SELECT found: pending rows with a ticket and a concert.
LEMMA ExpiredRows ==
  ASSUME NEW k \in Databases, NEW i \in Expired(k)
  PROVE  /\ i \in ReservationIds
         /\ k.reservations[i] \in ReservationRows
         /\ k.reservations[i].status = "PENDING"
BY DEF Expired, ExpiredReservations, IsPending, Databases, ReservationTable, NoRow

\* The loop has written nothing before its first round.
LEMMA NoRoundYet ==
  ASSUME NEW k \in Databases
  PROVE  /\ Restocked(k, {}) = k.stock
         /\ Freed(k, {}) = k.tickets
         /\ Cancelled(k, {}) = k.reservations
<1>1. Restocked(k, {}) = k.stock
  <2>1. \A c : {i \in {} : k.reservations[i].concertId = c} = {}
    OBVIOUS
  <2>2. \A c \in Concerts : Restocked(k, {})[c] = k.stock[c]
    BY <2>1, FS_EmptySet DEF Restocked, Databases
  <2>3. QED
    BY <2>2 DEF Restocked, Databases
<1>2. Freed(k, {}) = k.tickets
  <2>1. TicketIdsOf(k.reservations, {}) = {}
    BY DEF TicketIdsOf
  <2>2. QED
    BY <2>1 DEF Freed, SetTicketStatus, Databases, TicketTable
<1>3. Cancelled(k, {}) = k.reservations
  BY DEF Cancelled, SetReservationStatus, Databases, ReservationTable
<1>4. QED
  BY <1>1, <1>2, <1>3

\* A round cancels one row, frees its ticket and gives one unit back.
LEMMA OneRoundMore ==
  ASSUME NEW k \in Databases, NEW done \in SUBSET Expired(k), NEW i \in Expired(k) \ done
  PROVE  LET row == k.reservations[i]
         IN  /\ Cancelled(k, done)[i] = row
             /\ Cancelled(k, done \cup {i}) = StatusSet(Cancelled(k, done), i, "CANCELLED")
             /\ Freed(k, done \cup {i}) =
                  SetTicketStatus(Freed(k, done), {row.ticketId}, "AVAILABLE")
             /\ Restocked(k, done \cup {i}) = AddStock(Restocked(k, done), row.concertId, 1)
<1> DEFINE row == k.reservations[i]
<1>1. i \in ReservationIds /\ row \in ReservationRows /\ row.concertId \in Concerts
  BY ExpiredRows DEF ReservationRows
<1>2. /\ Cancelled(k, done)[i] = row
      /\ Cancelled(k, done \cup {i}) = StatusSet(Cancelled(k, done), i, "CANCELLED")
  BY <1>1 DEF Cancelled, SetReservationStatus, StatusSet, WithStatus
<1>3. Freed(k, done \cup {i}) = SetTicketStatus(Freed(k, done), {row.ticketId}, "AVAILABLE")
  BY DEF Freed, SetTicketStatus, TicketIdsOf
<1>4. Restocked(k, done \cup {i}) = AddStock(Restocked(k, done), row.concertId, 1)
  <2> DEFINE In(rows, c) == {j \in rows : k.reservations[j].concertId = c}
  <2>1. ASSUME NEW c \in Concerts
        PROVE  /\ IsFiniteSet(In(done, c)) /\ Cardinality(In(done, c)) \in Nat
               /\ c # row.concertId => In(done \cup {i}, c) = In(done, c)
               /\ c = row.concertId =>
                    Cardinality(In(done \cup {i}, c)) = Cardinality(In(done, c)) + 1
    <3>1. In(done, c) \subseteq ReservationIds
      BY ExpiredRows
    <3>2. IsFiniteSet(In(done, c)) /\ Cardinality(In(done, c)) \in Nat
      BY <3>1, TablesAssumption, FS_Subset, FS_CardinalityType
    <3>3. c = row.concertId => In(done \cup {i}, c) = In(done, c) \cup {i}
      OBVIOUS
    <3>4. c # row.concertId => In(done \cup {i}, c) = In(done, c)
      OBVIOUS
    <3>5. i \notin In(done, c)
      OBVIOUS
    <3> HIDE DEF In
    <3>6. QED
      BY <3>2, <3>3, <3>4, <3>5, FS_AddElement
  <2>2. \A rows : Restocked(k, rows) = [c \in Concerts |-> k.stock[c] + Cardinality(In(rows, c))]
    BY DEF Restocked
  <2> HIDE DEF In, row
  <2>3. \A c \in Concerts :
          k.stock[c] + Cardinality(In(done \cup {i}, c)) =
            IF c = row.concertId
            THEN k.stock[c] + Cardinality(In(done, c)) + 1
            ELSE k.stock[c] + Cardinality(In(done, c))
    <3> TAKE c \in Concerts
    <3>1. k.stock[c] \in Nat
      BY DEF Databases
    <3>2. /\ Cardinality(In(done, c)) \in Nat
          /\ Cardinality(In(done \cup {i}, c)) =
               IF c = row.concertId THEN Cardinality(In(done, c)) + 1
                                    ELSE Cardinality(In(done, c))
      BY <2>1
    <3>3. QED
      BY <3>1, <3>2
  <2>4. QED
    BY <1>1, <2>2, <2>3 DEF AddStock
<1>5. QED
  BY <1>2, <1>3, <1>4

LEMMA RoundIsCurrent ==
  ASSUME NEW p \in Processes
  PROVE  \A k, d, label, s :
           CleanupSoFar(k, d, label, s, local[p])
             <=> RoundSoFar(k, d, label, s, local[p], Current(p))
BY DEF CleanupSoFar, Current

\* The loop ends with every expired row released, or has a round less to go.
LEMMA RoundFollows ==
  ASSUME Ordered, OneAtATime, NEW p \in Processes, InTransaction(p), InPlace,
         NEW todo \in SUBSET Expired(disk), NEW m, m.todo = todo, m.rows = disk.reservations,
         Written(disk, db', Restocked(disk, Expired(disk) \ todo),
                 Freed(disk, Expired(disk) \ todo), Cancelled(disk, Expired(disk) \ todo)),
         NextRound(p, todo, m)
  PROVE  Follows
<1>1. CASE todo = {} /\ Succeed(p, "released", Nothing)
  <2>1. Releases(disk, db')
    <3>1. Expired(disk) \ todo = Expired(disk)
      BY <1>1
    <3>2. QED
      BY <3>1 DEF Releases
  <2>2. Concludes(disk, db', "commit", request[p], Nothing, "released")
    BY <2>1 DEF Concludes
  <2>3. QED
    BY <1>1, <2>2, FollowsSend DEF Succeed
<1>2. CASE Proceed(p, m, "cancelRow")
  <2>1. CleanupSoFar(disk, db', "cancelRow", NoSave, m)
    BY DEF CleanupSoFar, RoundSoFar, NoSave
  <2>2. SoFarAt(disk, db', "cancelRow", NoSave, request[p], m, verdict[p])
    BY <2>1, SoFarWhere
  <2>3. "cancelRow" \in Inside
    BY DEF Inside, Labels, Outside
  <2>4. QED
    BY <1>2, <2>2, <2>3, FollowsProceed
<1>3. QED
  BY <1>1, <1>2 DEF NextRound

LEMMA CleanupFollows ==
  ASSUME Ordered, OneAtATime, NEW p \in Processes,
         FindExpired(p) \/ Cancel(p) \/ FreeTicket(p) \/ GiveUnit(p)
  PROVE  Follows
<1> DEFINE r == request[p]
           i == Current(p)
           m == local[p]
           row == CurrentRow(p)
           done == Expired(disk) \ m.todo
           more == done \cup {i}
<1>1. InTransaction(p) /\ pc[p] \in {"findExpired", "cancelRow", "freeTicket", "addStock"}
  BY DEF FindExpired, Cancel, FreeTicket, GiveUnit, Saving, At, InTransaction
<1>2. /\ undo # <<>> /\ db \in Databases /\ disk \in Databases /\ active /\ Inv /\ Kept
      /\ RoundSoFar(disk, db, pc[p], saving[p], m, i)
      /\ CleanupFine(db, pc[p], saving[p], m)
  BY <1>1, ExactFacts, RoundIsCurrent DEF SoFarAt, FineAt
<1>3. CASE FindExpired(p)
  <2> DEFINE expired == ExpiredReservations(db.reservations)
             data == [todo |-> expired, rows |-> db.reservations]
  <2>1. pc[p] = "findExpired" /\ InPlace /\ db' = db /\ NextRound(p, expired, data)
    BY <1>2, <1>3, Inside1 DEF FindExpired, At
  <2>2. db = disk
    BY <1>2, <2>1 DEF RoundSoFar
  <2>3. expired = Expired(disk) /\ Expired(disk) \ expired = {}
    BY <2>2 DEF Expired
  <2>4. Written(disk, db', Restocked(disk, {}), Freed(disk, {}), Cancelled(disk, {}))
    BY <1>2, <2>1, <2>2, NoRoundYet DEF Written
  <2>5. data.todo = expired /\ data.rows = disk.reservations
    BY <2>2
  <2> HIDE DEF data, expired
  <2>6. QED
    BY <1>1, <2>1, <2>3, <2>4, <2>5, RoundFollows
<1>4. ASSUME pc[p] \in {"cancelRow", "freeTicket", "addStock"}
      PROVE  /\ i \in m.todo /\ i \in ReservationIds /\ row \in ReservationRows
             /\ m.rows = disk.reservations /\ m.todo \subseteq Expired(disk)
             /\ row = disk.reservations[i] /\ row.status = "PENDING"
             /\ done \in SUBSET Expired(disk) /\ i \in Expired(disk) \ done
             /\ Cancelled(disk, done)[i] = row
             /\ Cancelled(disk, more) = StatusSet(Cancelled(disk, done), i, "CANCELLED")
             /\ Freed(disk, more) =
                  SetTicketStatus(Freed(disk, done), {row.ticketId}, "AVAILABLE")
             /\ Restocked(disk, more) = AddStock(Restocked(disk, done), row.concertId, 1)
  <2>1. /\ i \in m.todo /\ i \in ReservationIds /\ row \in ReservationRows
        /\ row = m.rows[i]
    BY <1>2, <1>4, RoundFacts
  <2>2. m.rows = disk.reservations /\ m.todo \subseteq Expired(disk)
    BY <1>2, <1>4 DEF RoundSoFar
  <2>3. row = disk.reservations[i] /\ done \in SUBSET Expired(disk) /\ i \in Expired(disk) \ done
    BY <2>1, <2>2
  <2> HIDE DEF done, i, row
  <2>4. row.status = "PENDING"
    BY <1>2, <2>3, ExpiredRows
  <2>5. QED
    BY <1>2, <2>1, <2>2, <2>3, <2>4, OneRoundMore
<1>5. CASE Cancel(p)
  <2>1. pc[p] = "cancelRow" /\ saving[p].stage \in {"load", "write"}
    BY <1>5 DEF Cancel, Saving, At
  <2>2. /\ i \in ReservationIds /\ row \in ReservationRows /\ row.status = "PENDING"
        /\ m.rows = disk.reservations /\ m.todo \subseteq Expired(disk)
        /\ row = disk.reservations[i] /\ Cancelled(disk, done)[i] = row
        /\ Cancelled(disk, more) = StatusSet(Cancelled(disk, done), i, "CANCELLED")
    BY <1>4, <2>1
  <2>3. /\ Written(disk, db, Restocked(disk, done), Freed(disk, done), Cancelled(disk, done))
        /\ saving[p].stage = "write" => saving[p].old = disk.reservations[i]
    BY <1>2, <2>1 DEF RoundSoFar
  <2>4. Good(db) /\ row = db.reservations[i] /\ db.reservations = Cancelled(disk, done)
    BY <1>2, <2>1, <2>2, <2>3, RoundFine DEF Written
  <2>5. CASE LoadRow(p, i, WithStatus(row, "CANCELLED"))
    <3> DEFINE s == [stage |-> "write", own |-> FALSE, old |-> row]
    <3>1. CleanupSoFar(disk, db, "cancelRow", s, m)
      <4>1. RoundSoFar(disk, db, "cancelRow", s, m, i)
        BY <2>2, <2>3 DEF RoundSoFar
      <4>2. QED
        BY <4>1, RoundIsCurrent
    <3>2. SoFarAt(disk, db, "cancelRow", s, r, m, verdict[p])
      BY <3>1, SoFarWhere
    <3>3. "cancelRow" \in {"saveRow", "cancelRow"} /\ row.status # "CANCELLED"
      BY <2>2
    <3>4. QED
      BY <2>1, <2>2, <2>4, <2>5, <3>2, <3>3, LoadRowFollows
  <2>6. CASE saving[p].stage = "write" /\ WriteRow(p, i, WithStatus(row, "CANCELLED"))
    <3>1. ASSUME NEW d, d.listed = db.listed, d.stock = db.stock, d.tickets = db.tickets,
                 d.reservations = StatusSet(db.reservations, i, "CANCELLED")
          PROVE  SoFarAt(disk, d, pc[p], [saving[p] EXCEPT !.stage = "reload"], r, m, verdict[p])
      <4> DEFINE s == [saving[p] EXCEPT !.stage = "reload"]
      <4>1. s.stage = "reload"
        BY <1>1, <1>2, UnitFacts DEF Saves
      <4>2. Written(disk, d, Restocked(disk, done), Freed(disk, done), Cancelled(disk, more))
        BY <2>2, <2>3, <2>4, <3>1 DEF Written
      <4> HIDE DEF s
      <4>3. RoundSoFar(disk, d, "cancelRow", s, m, i)
        BY <2>2, <4>1, <4>2 DEF RoundSoFar
      <4>4. SoFarAt(disk, d, "cancelRow", s, r, m, verdict[p])
        BY <4>3, RoundIsCurrent, SoFarWhere
      <4>5. QED
        BY <2>1, <4>4 DEF s
    <3>2. saving[p].old = row
      BY <2>2, <2>3, <2>6
    <3>3. QED
      BY <2>1, <2>2, <2>4, <2>6, <3>1, <3>2, WriteRowFollows
  <2>7. QED
    BY <1>5, <2>5, <2>6 DEF Cancel, Saving, WithStatus
<1>6. CASE FreeTicket(p)
  <2> DEFINE t == row.ticketId
  <2>1. pc[p] = "freeTicket"
    BY <1>6 DEF FreeTicket, At
  <2>2. /\ m.rows = disk.reservations /\ m.todo \subseteq Expired(disk)
        /\ Freed(disk, more) = SetTicketStatus(Freed(disk, done), {t}, "AVAILABLE")
    BY <1>4, <2>1
  <2>3. Written(disk, db, Restocked(disk, done), Freed(disk, done), Cancelled(disk, more))
    BY <1>2, <2>1 DEF RoundSoFar
  <2>4. InPlace /\ db' = [db EXCEPT !.tickets = SetTicketStatus(@, {t}, "AVAILABLE")]
    BY <1>2, <1>6, Inside1 DEF FreeTicket
  <2>5. Written(disk, db', Restocked(disk, done), Freed(disk, more), Cancelled(disk, more))
    <3>1. /\ db'.listed = db.listed /\ db'.stock = db.stock
          /\ db'.reservations = db.reservations
          /\ db'.tickets = SetTicketStatus(db.tickets, {t}, "AVAILABLE")
      BY <1>2, <2>4 DEF Databases
    <3>2. QED
      BY <2>2, <2>3, <3>1 DEF Written
  <2>6. RoundSoFar(disk, db', "addStock", NoSave, m, i)
    BY <2>2, <2>5 DEF RoundSoFar
  <2>7. SoFarAt(disk, db', "addStock", NoSave, r, m, verdict[p])
    BY <2>6, RoundIsCurrent, SoFarWhere
  <2>8. Proceed(p, m, "addStock") /\ "addStock" \in Inside
    BY <1>6 DEF FreeTicket, Continue, Inside, Labels, Outside
  <2>9. QED
    BY <1>1, <2>4, <2>7, <2>8, FollowsProceed
<1>7. CASE GiveUnit(p)
  <2> DEFINE c == row.concertId
             left == m.todo \ {i}
             data == [m EXCEPT !.todo = left]
  <2>1. pc[p] = "addStock"
    BY <1>7 DEF GiveUnit, At
  <2>2. /\ i \in m.todo /\ m.rows = disk.reservations /\ m.todo \subseteq Expired(disk)
        /\ Restocked(disk, more) = AddStock(Restocked(disk, done), c, 1)
    BY <1>4, <2>1
  <2>3. Written(disk, db, Restocked(disk, done), Freed(disk, more), Cancelled(disk, more))
    BY <1>2, <2>1 DEF RoundSoFar
  <2>4. InPlace /\ db' = StockMoved(c, 1)
    BY <1>2, <1>7, Inside1 DEF GiveUnit
  <2>5. Written(disk, db', Restocked(disk, more), Freed(disk, more), Cancelled(disk, more))
    <3>1. /\ db'.listed = db.listed /\ db'.stock = AddStock(db.stock, c, 1)
          /\ db'.tickets = db.tickets /\ db'.reservations = db.reservations
      BY <1>2, <2>4, StockMovedFields
    <3>2. QED
      BY <2>2, <2>3, <3>1 DEF Written
  <2>6. Expired(disk) \ left = more /\ left \in SUBSET Expired(disk)
    BY <2>2
  <2>7. m \in Rounds
    BY <1>2, <2>1 DEF Inv, CallsOK, CallOK, Fits
  <2>8. data.todo = left /\ data.rows = disk.reservations
    BY <2>2, <2>7 DEF Rounds
  <2>9. NextRound(p, left, data)
    BY <1>7 DEF GiveUnit
  <2> HIDE DEF left, data, more
  <2>10. QED
    BY <1>1, <2>4, <2>5, <2>6, <2>8, <2>9, RoundFollows
<1>8. QED
  BY <1>3, <1>5, <1>6, <1>7

-----------------------------------------------------------------------------
(* The reload of a save, after which the function goes on. *)

LEMMA SaveFollows ==
  ASSUME Ordered, OneAtATime, NEW p \in Processes, Open(p) \/ Reload(p) \/ Close(p) \/ Undo(p)
  PROVE  Follows
<1> DEFINE r == request[p]
           m == local[p]
<1>1. pc[p] \in Sites /\ InTransaction(p)
  BY DEF Open, Reload, Close, Undo, SavingAt, Saving, At, Sites, InTransaction
<1>2. /\ ~saving[p].own /\ undo # <<>> /\ Inv /\ Kept
      /\ SoFarAt(disk, db, pc[p], saving[p], r, m, verdict[p])
  BY <1>1, ExactFacts
<1>3. saving[p].stage \notin {"open", "close", "undo"}
  BY <1>2 DEF Inv, CallsOK, CallOK, SaveFits
<1>4. saving[p].stage = "reload" /\ Select /\ Saved(p)
  BY <1>2, <1>3 DEF Open, Reload, Close, Undo, SavingAt, Saving
<1>5. InPlace /\ db' = db
  BY <1>2, <1>4, Inside1
<1>6. CASE pc[p] = "insert"
  <2>1. Reserves(disk, db, r, m)
    BY <1>2, <1>4, <1>6 DEF SoFarAt, ReserveSoFar
  <2>2. r.kind \in ReserveKinds
    BY <1>2, <1>6, ReserveFacts DEF ReserveLabels
  <2>3. Concludes(disk, db', "commit", r, m, "reserved")
    BY <1>5, <2>1, <2>2 DEF Concludes
  <2>4. QED
    BY <1>1, <1>4, <1>5, <1>6, <2>3, FollowsSend DEF Saved, Succeed
<1>7. CASE pc[p] = "saveRow"
  <2>1. /\ MayBuy(disk, r, m)
        /\ Written(disk, db, disk.stock, disk.tickets, BoughtRows(disk, r))
    BY <1>2, <1>4, <1>7 DEF SoFarAt, PurchaseSoFar
  <2>2. PurchaseSoFar(disk, db', "saveTicket", NoSave, r, m)
    BY <1>5, <2>1 DEF PurchaseSoFar, NoSave
  <2>3. SoFarAt(disk, db', "saveTicket", NoSave, r, m, verdict[p])
    BY <2>2, SoFarWhere
  <2>4. "saveTicket" \in Inside
    BY DEF Inside, Labels, Outside
  <2>5. QED
    BY <1>1, <1>4, <1>5, <1>7, <2>3, <2>4, FollowsProceed DEF Saved, Continue
<1>8. CASE pc[p] = "saveTicket"
  <2>1. Purchases(disk, db, r, m)
    BY <1>2, <1>4, <1>8 DEF SoFarAt, PurchaseSoFar
  <2>2. r.kind = "purchase"
    BY <1>2, <1>8 DEF Inv, CallsOK, CallOK, Fits
  <2>3. Concludes(disk, db', "commit", r, m, "purchased")
    BY <1>5, <2>1, <2>2 DEF Concludes
  <2>4. QED
    BY <1>1, <1>4, <1>5, <1>8, <2>3, FollowsSend DEF Saved, Succeed
<1>9. CASE pc[p] = "cancelRow"
  <2>1. CleanupSoFar(disk, db, "cancelRow", saving[p], m)
    BY <1>2, <1>9 DEF SoFarAt
  <2>2. CleanupSoFar(disk, db', "freeTicket", NoSave, m)
    BY <1>4, <1>5, <2>1 DEF CleanupSoFar, RoundSoFar
  <2>3. SoFarAt(disk, db', "freeTicket", NoSave, r, m, verdict[p])
    BY <2>2, SoFarWhere
  <2>4. "freeTicket" \in Inside
    BY DEF Inside, Labels, Outside
  <2>5. QED
    BY <1>1, <1>4, <1>5, <1>9, <2>3, <2>4, FollowsProceed DEF Saved, Continue
<1>10. QED
  BY <1>1, <1>6, <1>7, <1>8, <1>9 DEF Sites

-----------------------------------------------------------------------------
(* Calls begin and end. *)

LEMMA StartFollows ==
  ASSUME Ordered, NEW p \in Processes, NEW label \in {"waiting", "begin"}, Goto(p, label),
         \A o \in Processes \ {p} : request'[o] = request[o],
         UNCHANGED <<db, disk, local, verdict, outcome>>
  PROVE  Follows
<1>1. Kept /\ Inv /\ Exactly
  BY DEF Ordered, Kept
<1>2. /\ \A o \in Processes : pc'[o] = IF o = p THEN label ELSE pc[o]
      /\ \A o \in Processes : saving'[o] = IF o = p THEN NoSave ELSE saving[o]
  BY <1>1, BusyMoves, NoSaveFacts DEF Goto, Inv, TypeOK, ControlOK, Labels
<1>3. SoFar(p)'
  BY <1>2, SoFarWhere DEF SoFar, Outside
<1>4. ASSUME NEW o \in Processes \ {p}
      PROVE  SoFar(o)'
  <2>1. /\ pc'[o] = pc[o] /\ saving'[o] = saving[o] /\ request'[o] = request[o]
        /\ local'[o] = local[o] /\ verdict'[o] = verdict[o]
    BY <1>2
  <2>2. SoFar(o)
    BY <1>1 DEF Exactly
  <2>3. QED
    BY <2>1, <2>2 DEF SoFar
<1>5. QED
  BY <1>3, <1>4, NothingOnDisk DEF Follows, Exactly

LEMMA CallFollows ==
  ASSUME Ordered, NEW p \in Processes, NEW r, Call(p, r)
  PROVE  Follows
<1>1. \/ Goto(p, "waiting") /\ UNCHANGED connection
      \/ SendBegin(p)
  BY DEF Call
<1>2. PICK label \in {"waiting", "begin"} : Goto(p, label) /\ UNCHANGED <<db, disk>>
  BY <1>1 DEF SendBegin, SendStart, connection
<1>3. /\ \A o \in Processes \ {p} : request'[o] = request[o]
      /\ UNCHANGED <<local, verdict, outcome>>
  BY DEF Call, Ordered, Kept, Inv, CallsOK
<1>4. QED
  BY <1>2, <1>3, StartFollows

LEMMA LockFollows ==
  ASSUME Ordered, NEW p \in Processes, Lock(p)
  PROVE  Follows
<1>1. /\ Goto(p, "begin") /\ UNCHANGED <<db, disk, local, verdict, outcome, request>>
  BY DEF Lock, SendBegin, SendStart, Rest
<1>2. QED
  BY <1>1, StartFollows

\* BEGIN is executed: the function sees what is on disk.
LEMMA BeginFollows ==
  ASSUME Ordered, OneAtATime, NEW p \in Processes, Begin(p)
  PROVE  Follows
<1>1. /\ Inv /\ Settled /\ Kept /\ pc[p] = "begin"
  BY DEF Ordered, Kept, Sound, Begin, At
<1>2. \A o \in Processes \ {p} : pc[o] \in {"idle", "waiting"}
  BY <1>1 DEF OneAtATime, IsRunning
<1>3. undo = <<>> /\ depth = 0 /\ read[p] = 0 /\ active
  BY <1>1, <1>2 DEF Settled, InTransaction
<1>4. db = disk
  BY <1>1, <1>3 DEF Inv, TypeOK, ConnectionOK
<1> DEFINE label == FirstStatement(request[p].kind)
<1>5. StartTransaction(0) /\ Proceed(p, local[p], label)
  BY <1>3 DEF Begin, Opens, Continue
<1>6. label \in {"find", "findRow", "findExpired"}
  BY DEF FirstStatement
<1> HIDE DEF label
<1>7. GotoStage(p, label, NoSave) /\ UNCHANGED <<request, outcome>>
  BY <1>5 DEF Proceed, Goto, Rest
<1>8. \A o \in Processes : pc'[o] = IF o = p THEN label ELSE pc[o]
  BY <1>1, <1>6, <1>7, BusyMoves, NoSaveFacts DEF Inv, TypeOK, ControlOK, Labels
<1>9. db' = db /\ disk' = disk
  BY <1>5 DEF StartTransaction
<1>10. SoFar(p)'
  BY <1>4, <1>6, <1>8, <1>9
     DEF SoFar, SoFarAt, ReserveSoFar, PurchaseSoFar, CleanupSoFar, RoundSoFar, Concludes
<1>11. \A o \in Processes \ {p} : SoFar(o)'
  BY <1>2, <1>8, SoFarWhere DEF SoFar, Outside
<1>12. QED
  BY <1>7, <1>9, <1>10, <1>11, NothingOnDisk DEF Follows, Exactly

\* Nobody runs after the answer.
LEMMA AnswerExactly ==
  ASSUME Ordered, OneAtATime, NEW p \in Processes, InTransaction(p), NEW v, Answer(p, v)
  PROVE  Exactly'
<1>1. Kept /\ Inv
  BY DEF Ordered, Kept
<1>2. \A o \in Processes \ {p} : pc[o] \in {"idle", "waiting"}
  BY <1>1, InsideFacts DEF IsRunning
<1>3. \A o \in Processes : pc'[o] = IF o = p THEN "idle" ELSE pc[o]
  BY <1>1, BusyMoves, NoSaveFacts DEF Answer, Goto, Inv, TypeOK, ControlOK, Labels
<1>4. \A o \in Processes : pc'[o] \in {"idle", "waiting"}
  BY <1>2, <1>3
<1>5. QED
  BY <1>4, SoFarWhere DEF Exactly, SoFar, Outside

\* A reservation, a purchase and a cleanup commit.
LEMMA ReserveRefines ==
  ASSUME NEW r, r \in Requests, r.kind \in ReserveKinds, NEW m,
         Reserves(disk, disk', r, m), outcome' = "reserved"
  PROVE  ServiceStep
<1>1. r.user \in Users /\ r.concert \in Concerts /\ r.quantity \in Quantities
  BY DEF Requests, ReserveKinds
<1>2. PICK b \in Offers(disk, r) :
        /\ b.first = m.first
        /\ Written(disk, disk', StockTaken(disk, r), Marked(disk, b.ids),
                   InsertReservation(disk.reservations, m.id, r.user, m.first, r.concert))
  BY DEF Reserves
<1>3. /\ Granted(disk, r) /\ m.id \in ReservationIds /\ IsNextId(disk.reservations, m.id)
      /\ TicketIdIsFree(disk.reservations, m.first)
  BY DEF Reserves
<1>4. Service!Reserved(r.user, r.concert, r.quantity, b)
  BY <1>2, <1>3, ServiceTables DEF Service!Reserved, Written, StockTaken, Marked
<1>5. b \in Service!CheapestFirst(Service!AvailableTickets(disk.tickets, r.concert), r.quantity)
  BY <1>2, ServiceTables DEF Offers
<1>6. disk'.listed = disk.listed
  BY <1>2 DEF Written
<1>7. Service!Reserve(r.user, r.concert, r.quantity)
  BY <1>2, <1>3, <1>4, <1>5, <1>6, ServiceTables DEF Service!Reserve, Granted
<1>8. QED
  BY <1>1, <1>7, ServiceTables DEF ServiceStep

LEMMA PurchaseRefines ==
  ASSUME disk \in Databases, NEW r, r \in Requests, r.kind = "purchase", NEW m,
         Purchases(disk, disk', r, m), outcome' = "purchased"
  PROVE  ServiceStep
<1>1. r.user \in Users /\ r.id \in ReservationIds
  BY DEF Requests, ReserveKinds
<1>2. /\ MayBuy(disk, r, m) /\ m = disk.reservations[r.id]
      /\ disk'.listed = disk.listed /\ disk'.stock = disk.stock
      /\ disk'.tickets = SetTicketStatus(disk.tickets, {m.ticketId}, "SOLD")
      /\ disk'.reservations = BoughtRows(disk, r)
  BY DEF Purchases, Written, MayBuy
<1>3. disk'.reservations = SetReservationStatus(disk.reservations, {r.id}, "COMPLETED")
  BY <1>1, <1>2 DEF BoughtRows, StatusSet, WithStatus, SetReservationStatus,
                    Databases, ReservationTable
<1>4. IsRow(disk.reservations, r.id) /\ IsPending(disk.reservations, r.id)
  BY <1>2 DEF IsRow, IsPending, MayBuy
<1>5. Service!MayPurchase(r.user, r.id)
  BY <1>2, <1>4, ServiceTables DEF Service!MayPurchase, MayBuy
<1>6. Service!Purchase(r.user, r.id)
  BY <1>2, <1>3, <1>4, <1>5, ServiceTables DEF Service!Purchase
<1>7. QED
  BY <1>1, <1>6 DEF ServiceStep

LEMMA CleanupRefines ==
  ASSUME Releases(disk, disk'), outcome' = "released"
  PROVE  ServiceStep
<1>1. /\ disk'.listed = disk.listed /\ disk'.stock = Restocked(disk, Expired(disk))
      /\ disk'.tickets = Freed(disk, Expired(disk))
      /\ disk'.reservations = Cancelled(disk, Expired(disk))
  BY DEF Releases, Written
<1>2. Service!ExpiredHolds = Expired(disk)
  BY ServiceTables DEF Service!ExpiredHolds, Expired
<1>3. Service!Released(Expired(disk))
  BY <1>1, ServiceTables, SameCardinality DEF Service!Released, Restocked, Freed, Cancelled
<1>4. Service!Cleanup
  BY <1>1, <1>2, <1>3 DEF Service!Cleanup
<1>5. QED
  BY <1>4 DEF ServiceStep

\* COMMIT brings the whole step of the service to the disk at once.
LEMMA CommitFollows ==
  ASSUME Ordered, OneAtATime, NEW p \in Processes, Commit(p)
  PROVE  Follows
<1> DEFINE r == request[p]
           m == local[p]
<1>1. pc[p] = "commit" /\ InTransaction(p)
  BY DEF Commit, At, InTransaction
<1>2. Kept /\ Inv /\ disk \in Databases
      /\ SoFarAt(disk, db, pc[p], saving[p], r, m, verdict[p])
  BY <1>1, ExactFacts
<1>3. disk' = db /\ Answer(p, verdict[p])
  BY <1>1, <1>2, EndsOutermost DEF Commit
<1>4. Concludes(disk, disk', "commit", r, m, verdict[p]) /\ outcome' = verdict[p]
  BY <1>1, <1>2, <1>3 DEF SoFarAt, Answer
<1>5. r \in Requests \cup {CleanupRun}
  BY <1>1, <1>2 DEF Inv, CallsOK, CallOK, Fits
<1>6. r.kind \in ReserveKinds \cup {"purchase"} => r \in Requests
  BY <1>5 DEF CleanupRun, ReserveKinds
<1>7. r.kind \in ReserveKinds /\ verdict[p] = "reserved" /\ Reserves(disk, disk', r, m)
        => ServiceStep
  BY <1>4, <1>6, ReserveRefines
<1>8. r.kind = "purchase" /\ verdict[p] = "purchased" /\ Purchases(disk, disk', r, m)
        => ServiceStep
  BY <1>2, <1>4, <1>6, PurchaseRefines
<1>9. verdict[p] = "released" /\ Releases(disk, disk') => ServiceStep
  BY <1>4, CleanupRefines
<1>10. ServiceStep
  BY <1>4, <1>7, <1>8, <1>9 DEF Concludes
<1>11. QED
  BY <1>1, <1>3, <1>10, AnswerExactly DEF Follows

\* ROLLBACK leaves the disk as it was, where the service finds reason to refuse.
LEMMA RollbackFollows ==
  ASSUME Ordered, OneAtATime, NEW p \in Processes, Rollback(p)
  PROVE  Follows
<1> DEFINE r == request[p]
           v == verdict[p]
<1>1. pc[p] = "rollback" /\ InTransaction(p)
  BY DEF Rollback, At, InTransaction
<1>2. Kept /\ Inv /\ SoFarAt(disk, db, pc[p], saving[p], r, local[p], v)
  BY <1>1, ExactFacts
<1>3. disk' = disk /\ Answer(p, v)
  BY <1>1, <1>2, EndsOutermost DEF Rollback, Fail
<1>4. Service!Throw(v)
  BY <1>3 DEF Answer, Service!Throw, Service!tables
<1>5. r \in Requests \cup {CleanupRun}
  BY <1>1, <1>2 DEF Inv, CallsOK, CallOK, Fits
<1>6. ASSUME RefusesReserve(disk, r, v)
      PROVE  ServiceStep
  <2>1. r.user \in Users /\ r.concert \in Concerts /\ r.quantity \in Quantities
    BY <1>5, <1>6 DEF RefusesReserve, Requests, CleanupRun, ReserveKinds
  <2>2. Service!Reserve(r.user, r.concert, r.quantity)
    BY <1>4, <1>6, ServiceTables, SameCardinality
       DEF RefusesReserve, Granted, TooFew, Offers, Service!Reserve
  <2>3. QED
    BY <2>1, <2>2, ServiceTables DEF ServiceStep
<1>7. ASSUME RefusesPurchase(disk, r, v)
      PROVE  ServiceStep
  <2>1. r.user \in Users /\ r.id \in ReservationIds
    BY <1>5, <1>7 DEF RefusesPurchase, Requests, CleanupRun, ReserveKinds
  <2>2. Service!Purchase(r.user, r.id)
    BY <1>4, <1>7, ServiceTables
       DEF RefusesPurchase, MayBuy, IsPending, Service!MayPurchase, Service!Purchase
  <2>3. QED
    BY <2>1, <2>2 DEF ServiceStep
<1>8. ServiceStep
  BY <1>1, <1>2, <1>6, <1>7 DEF SoFarAt, Concludes
<1>9. QED
  BY <1>1, <1>3, <1>8, AnswerExactly DEF Follows

-----------------------------------------------------------------------------
(* The surroundings. *)

\* The clock ticks while nobody has a transaction.
LEMMA TickFollows ==
  ASSUME ~TimeFlows, Ordered, OneAtATime, Tick
  PROVE  Follows
<1>1. /\ undo = <<>> /\ PassTime /\ UNCHANGED <<pc, saving, request, local, verdict, outcome>>
  BY DEF Tick, control
<1>2. \A p \in Processes : pc[p] \in Outside
  BY <1>1, ExactFacts DEF InTransaction, Outside
<1>3. db = disk /\ disk \in Databases
  BY <1>1 DEF Ordered, Kept, Inv, TypeOK, ConnectionOK
<1>4. /\ disk'.listed = disk.listed /\ disk'.stock = disk.stock
      /\ disk'.tickets = disk.tickets /\ disk'.reservations = Age(disk.reservations)
  BY <1>1, <1>3 DEF PassTime, Databases
<1>5. Exactly'
  BY <1>1, <1>2, SoFarWhere DEF Exactly, SoFar
<1>6. Service!Tick
  BY <1>1, <1>3, <1>4, ServiceTables DEF Tick, Service!Tick
<1>7. QED
  BY <1>5, <1>6 DEF Follows, ServiceStep

\* A crash takes the calls with it and leaves the disk.
LEMMA CrashFollows ==
  ASSUME Ordered, Crash
  PROVE  Follows
<1>1. pc' = [p \in Processes |-> "idle"] /\ disk' = disk /\ outcome' = outcome
  BY DEF Crash, Reconnect
<1>2. Exactly'
  BY <1>1, SoFarWhere DEF Exactly, SoFar, Outside
<1>3. QED
  BY <1>1, <1>2, NothingOnDisk DEF Follows

LEMMA StutterFollows ==
  ASSUME Ordered, UNCHANGED vars
  PROVE  Follows
<1>1. UNCHANGED <<db, disk, pc, request, local, verdict, saving, outcome>>
  BY DEF vars, connection, control
<1>2. QED
  BY <1>1, NothingOnDisk DEF Ordered, Exactly, SoFar, Follows

LEMMA OrderedInit ==
  Init /\ Service!Inv => Ordered
<1> SUFFICES ASSUME Init, Service!Inv
             PROVE  Ordered
  OBVIOUS
<1>1. disk = db /\ pc = [p \in Processes |-> "idle"]
  BY DEF Init, Idle
<1>2. Kept
  BY <1>1, KeptInit, AgreeingTables
<1>3. Exactly
  BY <1>1, SoFarWhere DEF Exactly, SoFar, Outside
<1>4. QED
  BY <1>2, <1>3 DEF Ordered

LEMMA OrderedStep ==
  ASSUME ~TimeFlows, Ordered, OneAtATime, OneAtATime', [Next]_vars
  PROVE  Ordered' /\ ServiceStep
<1>1. Kept'
  BY KeptStep DEF Ordered
<1>2. ASSUME NEW p \in Processes, Step(p)
      PROVE  Follows
  BY <1>2, LockFollows, BeginFollows, ReserveFollows, PurchaseFollows, SaveFollows,
     CleanupFollows, CommitFollows, RollbackFollows DEF Step
<1>3. Follows
  BY <1>2, CallFollows, TickFollows, CrashFollows, StutterFollows DEF Next, Processes
<1>4. QED
  BY <1>1, <1>3 DEF Follows, Ordered

-----------------------------------------------------------------------------
(* The theorems. *)

\* Statement by statement, through every error path, savepoint and crash, the
\* functions do on disk what the one-step functions of Ticketing do, as long as one
\* at a time uses the connection and the clock does not tick in a transaction: the
\* outcome of a call is that of one moment, its COMMIT or ROLLBACK.
THEOREM Implements ==
  ASSUME ~TimeFlows
  PROVE  Spec /\ Service!Inv /\ []OneAtATime => ImplementsService
<1>1. Ordered /\ OneAtATime /\ OneAtATime' /\ [Next]_vars => Ordered'
  BY OrderedStep
<1>2. Ordered /\ OneAtATime /\ OneAtATime' /\ [Next]_vars => [Service!Next]_(Service!vars)
  BY OrderedStep, ServiceStepIsNext
<1>3. QED
  BY <1>1, <1>2, OrderedInit, PTL DEF Spec, ImplementsService

\* Under the same conditions, when a request is for one ticket, what customers see of
\* the file is what Seats promises: only the holder of a ticket buys it, a lapsed hold
\* frees it, a sale is for ever, and a crash at any statement is not seen.
THEOREM PromiseOnDisk ==
  ASSUME ~TimeFlows, MaxQuantity = 1
  PROVE  Spec /\ Service!Inv /\ Isolated!ReservedIsHeld /\ []OneAtATime
           => [][Isolated!Promise!Next]_(Isolated!SeatView)
<1> DEFINE Shown == Ordered /\ Isolated!SeatInv
<1>1. ASSUME Shown, OneAtATime, OneAtATime', [Next]_vars
      PROVE  Ordered' /\ Isolated!SeatInv'
  <2>1. [Isolated!Next]_(Isolated!vars) /\ Ordered'
    BY <1>1, OrderedStep, IsolatedStep
  <2>2. QED
    BY <1>1, <2>1, Isolated!SeatInvStep, SameFiniteness, TablesAssumption
<1>2. ASSUME Shown, OneAtATime, OneAtATime', [Next]_vars
      PROVE  [Isolated!Promise!Next]_(Isolated!SeatView)
  <2>1. [Isolated!Next]_(Isolated!vars)
    BY <1>2, OrderedStep, IsolatedStep
  <2>2. QED
    BY <1>1, <1>2, <2>1, Isolated!StepIsSeen, SameFiniteness, TablesAssumption
<1>3. Init /\ Service!Inv /\ Isolated!ReservedIsHeld => Shown
  BY OrderedInit, SameInv DEF Isolated!SeatInv
<1>4. Shown /\ OneAtATime /\ OneAtATime' /\ [Next]_vars => Shown'
  BY <1>1
<1>5. Shown /\ OneAtATime /\ OneAtATime' /\ [Next]_vars
        => [Isolated!Promise!Next]_(Isolated!SeatView)
  BY <1>2
<1> HIDE DEF Shown
<1>6. QED
  BY <1>3, <1>4, <1>5, PTL DEF Spec
=============================================================================
