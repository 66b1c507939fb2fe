---------------------------- MODULE ServerProofs ----------------------------
(***************************************************************************)
(* Proofs about TicketingServer, for every interleaving of any number of   *)
(* handlers, cleanup runs and crashes: whatever the functions do to each   *)
(* other's transactions, the runner's depth covers the calls in flight,    *)
(* the file holds what was committed and the concert lock is exclusive.    *)
(***************************************************************************)
EXTENDS TicketingServer, TLAPS, FiniteSetTheorems, SequenceTheorems

-----------------------------------------------------------------------------
(* The invariant. *)

Batches == [ids: SUBSET Tickets, first: Tickets]

Rounds ==
  {m \in [todo: SUBSET ReservationIds, rows: ReservationTable] :
     m.todo # {} /\ \A i \in m.todo : m.rows[i] \in ReservationRows}

ReserveLabels == {"find", "take", "diagnose", "pick", "giveback", "mark", "insert"}

\* What a function whose next statement is `label' was asked for (r) and has
\* read (m), as far as that statement depends on it.
Fits(label, r, m) ==
  /\ label # "idle" => r \in Requests \cup {CleanupRun}
  /\ label = "waiting" => r.kind = "pessimistic"
  /\ label \in ReserveLabels => r \in Requests /\ r.kind \in ReserveKinds
  /\ label = "mark" => m \in Batches
  /\ label \in {"findRow", "saveRow", "saveTicket"} => r \in Requests /\ r.kind = "purchase"
  /\ label \in {"saveRow", "saveTicket"} => m \in ReservationRows
  /\ label \in {"cancelRow", "freeTicket", "addStock"} => m \in Rounds

\* What a save() at the statement `label' has come to (s), and still depends on.
SaveFits(label, s, m) ==
  /\ label \notin Sites => s = NoSave
  /\ s.stage = "load" => ~s.own
  /\ s.stage \in {"open", "close", "undo"} => s.own
  /\ label \in {"saveRow", "cancelRow"} => s.old \in ReservationRows \cup {NoRow}
  /\ label = "insert" /\ s.stage \in {"open", "write"} => m \in Batches

CallOK(p) ==
  /\ Fits(pc[p], request[p], local[p])
  /\ SaveFits(pc[p], saving[p], local[p])

\* A pessimistic call is in the queue of its concert, and one that runs heads it.
LockOK(p) ==
  InCall(p) /\ request[p].kind = "pessimistic" =>
    /\ \E i \in 1 .. Len(queue[request[p].concert]) : queue[request[p].concert][i] = p
    /\ InTransaction(p) \/ pc[p] = "begin" => queue[request[p].concert][1] = p

CallsOK ==
  /\ DOMAIN request = Processes /\ DOMAIN local = Processes
  /\ \A p \in Processes : CallOK(p)

LocksOK == \A p \in Processes : LockOK(p)

Inv == TypeOK /\ CallsOK /\ LocksOK /\ EndsAtMostOnce

\* Two calls never run under the lock of one concert.
LockIsExclusive ==
  \A p, o \in Processes :
    /\ InTransaction(p) /\ InTransaction(o)
    /\ request[p].kind = "pessimistic" /\ request[o].kind = "pessimistic"
    /\ request[p].concert = request[o].concert
    => p = o

-----------------------------------------------------------------------------
(* The tables of a database. *)

\* Stock that is moved stays a natural number unless more is taken than there is.
LEMMA StockMovedType ==
  ASSUME ConnectionOK, NEW c \in Concerts, NEW n \in Int, db.stock[c] + n >= 0
  PROVE  StockMoved(c, n) \in Databases
<1>1. /\ AddStock(db.stock, c, n) \in [Concerts -> Nat]
      /\ [db.version EXCEPT ![c] = @ + 1] \in [Concerts -> Nat]
  BY DEF ConnectionOK, Databases, AddStock
<1>2. QED
  BY <1>1 DEF ConnectionOK, Databases, StockMoved

\* So does a table of tickets some of which get another status.
LEMMA TicketsSetType ==
  ASSUME ConnectionOK, NEW ids, NEW status \in TicketStatuses
  PROVE  [db EXCEPT !.tickets = SetTicketStatus(@, ids, status)] \in Databases
<1>1. SetTicketStatus(db.tickets, ids, status) \in TicketTable
  BY DEF ConnectionOK, Databases, TicketTable, SetTicketStatus
<1>2. QED
  BY <1>1 DEF ConnectionOK, Databases

\* And a table of reservations that is inserted into or saved to.
LEMMA RowSavedType ==
  ASSUME ConnectionOK, NEW i \in ReservationIds,
         NEW row \in ReservationRows \cup {NoRow}
  PROVE  [db EXCEPT !.reservations[i] = row] \in Databases
<1>1. [db.reservations EXCEPT ![i] = row] \in ReservationTable
  BY DEF ConnectionOK, Databases, ReservationTable
<1>2. QED
  BY <1>1 DEF ConnectionOK, Databases

LEMMA RowInsertedType ==
  ASSUME ConnectionOK, NEW i \in ReservationIds,
         NEW u \in Users, NEW t \in Tickets, NEW c \in Concerts
  PROVE  [db EXCEPT !.reservations = InsertReservation(@, i, u, t, c)] \in Databases
<1> DEFINE row == [userId |-> u, ticketId |-> t, concertId |-> c,
                   status |-> "PENDING", left |-> TTL]
<1>1. row \in ReservationRows
  BY TablesAssumption DEF ReservationRows, ReservationStatuses
<1>2. InsertReservation(db.reservations, i, u, t, c) \in ReservationTable
  BY <1>1 DEF ConnectionOK, Databases, InsertReservation, ReservationTable
<1>3. QED
  BY <1>2 DEF ConnectionOK, Databases

\* The clock keeps every version of the tables well typed.
LEMMA AgedType ==
  ASSUME NEW d \in Databases
  PROVE  [d EXCEPT !.reservations = Age(@)] \in Databases
<1>1. ASSUME NEW i \in ReservationIds,
             IsPending(d.reservations, i), d.reservations[i].left >= 0
      PROVE  [d.reservations[i] EXCEPT !.left = @ - 1] \in ReservationRows
  <2>1. d.reservations[i] \in ReservationRows
    BY <1>1 DEF Databases, ReservationTable, IsPending, NoRow
  <2>2. d.reservations[i].left - 1 \in -1 .. TTL
    BY <1>1, <2>1, TablesAssumption DEF ReservationRows
  <2>3. QED
    BY <2>1, <2>2 DEF ReservationRows
<1>2. Age(d.reservations) \in ReservationTable
  BY <1>1 DEF Databases, Age, ReservationTable
<1>3. QED
  BY <1>2 DEF Databases

-----------------------------------------------------------------------------
(* The connection. *)

Entry == [name: Nat, before: Databases]

\* What the stack of transactions says of the file, in the words of sequences.
LEMMA StackFacts ==
  ASSUME ConnectionOK
  PROVE  /\ undo \in Seq(Entry)
         /\ Len(undo) \in Nat
         /\ DOMAIN undo = 1 .. Len(undo)
         /\ \A i \in 1 .. Len(undo) : undo[i] \in Entry
         /\ undo = <<>> <=> Len(undo) = 0
BY EmptySeq, LenProperties, ElementOfSeq DEF ConnectionOK, Entry

\* A statement outside any transaction is committed, inside it is not.
LEMMA WriteType ==
  ASSUME ConnectionOK, NEW new \in Databases, Write(new), active' \in BOOLEAN
  PROVE  ConnectionOK' /\ depth' = depth
BY DEF ConnectionOK, Write

LEMMA ExecuteType ==
  ASSUME ConnectionOK, NEW new \in Databases, Execute(new)
  PROVE  ConnectionOK' /\ depth' = depth
BY WriteType DEF ConnectionOK, Execute

\* BEGIN and SAVEPOINT put the database as it is on the stack.
LEMMA PushType ==
  ASSUME ConnectionOK, NEW n \in Nat, db' = db, disk' = disk,
         undo' = Append(undo, [name |-> n, before |-> db]),
         depth' \in Nat, active' \in BOOLEAN
  PROVE  ConnectionOK'
<1>1. [name |-> n, before |-> db] \in Entry
  BY DEF ConnectionOK, Entry
<1>2. /\ undo' \in Seq(Entry)
      /\ Len(undo') = Len(undo) + 1
      /\ undo'[1] = IF undo = <<>> THEN [name |-> n, before |-> db] ELSE undo[1]
  BY <1>1, StackFacts, AppendProperties
<1>3. undo' # <<>>
  BY <1>2, StackFacts, EmptySeq
<1>4. disk' = undo'[1].before
  BY <1>2 DEF ConnectionOK
<1>5. QED
  BY <1>2, <1>3, <1>4 DEF ConnectionOK, Entry

LEMMA StartType ==
  ASSUME ConnectionOK, NEW n \in Nat, StartTransaction(n)
  PROVE  ConnectionOK' /\ depth' = depth + 1
BY PushType DEF StartTransaction, ConnectionOK

\* COMMIT, RELEASE, ROLLBACK and ROLLBACK TO cut the stack above the first entry,
\* or empty it when they end the outermost transaction.
LEMMA EndType ==
  ASSUME ConnectionOK, NEW n \in Nat, depth >= 1,
         CommitTransaction(n) \/ RollbackTransaction(n)
  PROVE  ConnectionOK' /\ depth' = depth - 1
<1>1. PICK i \in Newest(n) :
         \/ /\ undo' = SubSeq(undo, 1, i - 1)
            /\ disk' = (IF i = 1 THEN db ELSE disk)
            /\ db' = db
         \/ /\ undo' = (IF n > 1 THEN SubSeq(undo, 1, i) ELSE <<>>)
            /\ db' = undo[i].before
            /\ disk' = disk
  BY DEF CommitTransaction, RollbackTransaction
<1>2. depth' = depth - 1 /\ depth' \in Nat /\ active' \in BOOLEAN
  <2>1. Ended(n)
    BY DEF CommitTransaction, RollbackTransaction
  <2>2. depth' = depth - 1 /\ active' \in BOOLEAN
    BY <2>1, Zenon DEF Ended
  <2>3. depth \in Nat
    BY DEF ConnectionOK
  <2>4. QED
    BY <2>2, <2>3
<1>3. i \in 1 .. Len(undo) /\ (n <= 1 => i = 1)
  BY StackFacts DEF Newest, Entries
<1>4. undo[i] \in Entry /\ undo[i].before \in Databases /\ disk = undo[1].before
  BY <1>3, StackFacts DEF ConnectionOK, Entry
<1>5. ASSUME NEW k \in 0 .. Len(undo)
      PROVE  /\ SubSeq(undo, 1, k) \in Seq(Entry)
             /\ k = 0 => SubSeq(undo, 1, k) = <<>>
             /\ k > 0 => SubSeq(undo, 1, k) # <<>> /\ SubSeq(undo, 1, k)[1] = undo[1]
  <2>1. \A j \in 1 .. k : undo[j] \in Entry
    BY StackFacts
  <2>2. /\ SubSeq(undo, 1, k) \in Seq(Entry)
        /\ Len(SubSeq(undo, 1, k)) = IF 1 <= k THEN k - 1 + 1 ELSE 0
        /\ \A j \in 1 .. k - 1 + 1 : SubSeq(undo, 1, k)[j] = undo[1 + j - 1]
    BY <2>1, StackFacts, SubSeqProperties
  <2>3. QED
    BY <2>2, StackFacts, EmptySeq
<1>6. i \in 0 .. Len(undo) /\ i - 1 \in 0 .. Len(undo)
  BY <1>3, StackFacts
<1>7. undo' \in Seq(Entry) /\ db' \in Databases /\ disk' \in Databases
  BY <1>1, <1>4, <1>5, <1>6, EmptySeq DEF ConnectionOK
<1>8. disk' = IF undo' = <<>> THEN db' ELSE undo'[1].before
  <2>1. CASE undo' = SubSeq(undo, 1, i - 1) /\ db' = db /\ disk' = IF i = 1 THEN db ELSE disk
    BY <2>1, <1>3, <1>4, <1>5, <1>6
  <2>2. CASE n > 1 /\ undo' = SubSeq(undo, 1, i) /\ disk' = disk
    BY <2>2, <1>3, <1>4, <1>5, <1>6
  <2>3. CASE n <= 1 /\ undo' = <<>> /\ db' = undo[i].before /\ disk' = disk
    BY <2>3, <1>3, <1>4
  <2>4. QED
    BY <1>1, <2>1, <2>2, <2>3
<1>9. QED
  BY <1>2, <1>7, <1>8 DEF ConnectionOK, Entry

\* Time passes for the database, the file and every entry of the stack alike.
LEMMA TimeType ==
  ASSUME ConnectionOK, PassTime
  PROVE  ConnectionOK' /\ depth' = depth
<1> DEFINE Older(d) == [d EXCEPT !.reservations = Age(@)]
<1>1. db' = Older(db) /\ disk' = Older(disk)
  BY DEF PassTime
<1>2. undo' = [i \in 1 .. Len(undo) |-> [undo[i] EXCEPT !.before = Older(@)]]
  BY StackFacts DEF PassTime
<1>3. \A d \in Databases : Older(d) \in Databases
  BY AgedType
<1> HIDE DEF Older
<1>4. \A i \in 1 .. Len(undo) :
         /\ [undo[i] EXCEPT !.before = Older(@)] \in Entry
         /\ [undo[i] EXCEPT !.before = Older(@)].before = Older(undo[i].before)
  BY <1>3, StackFacts DEF Entry
<1>5. undo' \in Seq(Entry) /\ Len(undo') = Len(undo)
  BY <1>2, <1>4, StackFacts
<1>6. undo' = <<>> <=> undo = <<>>
  BY <1>5, StackFacts, EmptySeq
<1>7. undo # <<>> => undo'[1].before = Older(undo[1].before)
  BY <1>2, <1>4, StackFacts
<1>8. disk' = IF undo' = <<>> THEN db' ELSE undo'[1].before
  BY <1>1, <1>6, <1>7 DEF ConnectionOK
<1>9. QED
  BY <1>1, <1>3, <1>5, <1>8 DEF ConnectionOK, Entry, PassTime

-----------------------------------------------------------------------------
(* A process moves. *)

ControlOK ==
  /\ pc \in [Processes -> Labels]
  /\ verdict \in [Processes -> Verdicts]
  /\ read \in [Processes -> Nat]
  /\ saving \in [Processes -> Saves]
  /\ queue \in [Concerts -> Seq(Clients)]
  /\ outcome \in Verdicts

Outside == {"idle", "waiting", "begin"}

Inside == Labels \ Outside

Busy == {p \in Processes : InTransaction(p)}
Held == {p \in Processes : OwnSavepoint(p)}

\* What a call at the statement `label' with the save s has open.
Running(label)   == label \notin Outside
HasSavepoint(s)  == s.own /\ s.stage # "open"
Units(label, s)  == (IF Running(label) THEN 1 ELSE 0) + (IF HasSavepoint(s) THEN 1 ELSE 0)

Count == Cardinality(Busy) + Cardinality(Held)

\* Finitely many calls have a transaction or a savepoint.
LEMMA BusyFinite ==
  /\ IsFiniteSet(Busy) /\ Cardinality(Busy) \in Nat
  /\ IsFiniteSet(Held) /\ Cardinality(Held) \in Nat
  /\ Count \in Nat
<1>1. IsFiniteSet(Processes)
  BY ServerAssumption, FS_Union DEF Processes
<1>2. IsFiniteSet(Busy) /\ IsFiniteSet(Held)
  BY <1>1, FS_Subset DEF Busy, Held
<1>3. QED
  BY <1>2, FS_CardinalityType DEF Count

\* Nothing but the labels and the saves decides how many.
LEMMA SameBusy ==
  ASSUME UNCHANGED <<pc, saving>>
  PROVE  Count' = Count
BY DEF Count, Busy, Held, InTransaction, OwnSavepoint

\* A set of which p alone may become or cease to be a member.
LEMMA OneMoves ==
  ASSUME NEW S, NEW T, NEW p, IsFiniteSet(S), \A o : o # p => (o \in S <=> o \in T)
  PROVE  Cardinality(T) = Cardinality(S) - (IF p \in S THEN 1 ELSE 0)
                                         + (IF p \in T THEN 1 ELSE 0)
<1>1. Cardinality(S) \in Nat
  BY FS_CardinalityType
<1>2. CASE p \in T
  <2>1. T = S \cup {p}
    BY <1>2
  <2>2. Cardinality(S \cup {p}) = IF p \in S THEN Cardinality(S) ELSE Cardinality(S) + 1
    BY FS_AddElement
  <2>3. QED
    BY <1>1, <1>2, <2>1, <2>2
<1>3. CASE p \notin T
  <2>1. T = S \ {p}
    BY <1>3
  <2>2. Cardinality(S \ {p}) = IF p \in S THEN Cardinality(S) - 1 ELSE Cardinality(S)
    BY FS_RemoveElement
  <2>3. QED
    BY <1>1, <1>3, <2>1, <2>2
<1>4. QED
  BY <1>2, <1>3

\* A call that goes on changes what it has open itself, and nothing else.
LEMMA BusyMoves ==
  ASSUME ControlOK, NEW p \in Processes, NEW label \in Labels, NEW s \in Saves,
         GotoStage(p, label, s)
  PROVE  /\ pc' \in [Processes -> Labels]
         /\ \A o \in Processes : pc'[o] = IF o = p THEN label ELSE pc[o]
         /\ saving' \in [Processes -> Saves]
         /\ \A o \in Processes : saving'[o] = IF o = p THEN s ELSE saving[o]
         /\ Count' = Count - Units(pc[p], saving[p]) + Units(label, s)
<1>1. /\ pc' \in [Processes -> Labels]
      /\ \A o \in Processes : pc'[o] = IF o = p THEN label ELSE pc[o]
      /\ saving' \in [Processes -> Saves]
      /\ \A o \in Processes : saving'[o] = IF o = p THEN s ELSE saving[o]
  BY DEF GotoStage, ControlOK
<1>2. /\ p \in Busy <=> Running(pc[p])
      /\ p \in Busy' <=> Running(label)
      /\ \A o : o # p => (o \in Busy <=> o \in Busy')
  BY <1>1 DEF Busy, InTransaction, Running, Outside
<1>3. /\ p \in Held <=> HasSavepoint(saving[p])
      /\ p \in Held' <=> HasSavepoint(s)
      /\ \A o : o # p => (o \in Held <=> o \in Held')
  BY <1>1 DEF Held, OwnSavepoint, HasSavepoint
<1>4. Cardinality(Busy') = Cardinality(Busy) - (IF p \in Busy THEN 1 ELSE 0)
                                             + (IF p \in Busy' THEN 1 ELSE 0)
  BY <1>2, BusyFinite, OneMoves
<1>5. Cardinality(Held') = Cardinality(Held) - (IF p \in Held THEN 1 ELSE 0)
                                             + (IF p \in Held' THEN 1 ELSE 0)
  BY <1>3, BusyFinite, OneMoves
<1>6. QED
  BY <1>1, <1>2, <1>3, <1>4, <1>5, BusyFinite DEF Count, Units

LEMMA NoSaveFacts ==
  /\ NoSave \in Saves
  /\ ~HasSavepoint(NoSave)
  /\ \A label, m : label \notin {"saveRow", "cancelRow"} => SaveFits(label, NoSave, m)
  /\ \A label, m : SaveFits(label, NoSave, m)
BY DEF NoSave, Saves, Stages, HasSavepoint, SaveFits

\* What a process at a given statement has open.
LEMMA UnitFacts ==
  ASSUME Inv, NEW p \in Processes
  PROVE  /\ saving[p] \in Saves
         /\ pc[p] \notin Sites => saving[p] = NoSave
         /\ InTransaction(p) <=> Running(pc[p])
         /\ OwnSavepoint(p) <=> HasSavepoint(saving[p])
         /\ OwnSavepoint(p) => InTransaction(p)
         /\ Units(pc[p], saving[p]) = (IF InTransaction(p) THEN 1 ELSE 0)
                                        + (IF OwnSavepoint(p) THEN 1 ELSE 0)
         /\ depth \in Nat /\ Units(pc[p], saving[p]) <= depth
<1>1. /\ saving[p] \in Saves
      /\ pc[p] \notin Sites => saving[p] = NoSave
      /\ InTransaction(p) <=> Running(pc[p])
      /\ OwnSavepoint(p) <=> HasSavepoint(saving[p])
  BY DEF Inv, TypeOK, CallsOK, CallOK, SaveFits, InTransaction, Running, Outside,
         OwnSavepoint, HasSavepoint
<1>2. OwnSavepoint(p) => InTransaction(p)
  BY <1>1, NoSaveFacts DEF Sites, InTransaction
<1>3. depth \in Nat /\ Count <= depth
  BY DEF Inv, TypeOK, ConnectionOK, EndsAtMostOnce, Count, Busy, Held
<1>4. Cardinality(Busy) >= IF InTransaction(p) THEN 1 ELSE 0
  <2>1. InTransaction(p) => Busy # {}
    BY DEF Busy
  <2>2. QED
    BY <2>1, BusyFinite, FS_EmptySet
<1>5. Cardinality(Held) >= IF OwnSavepoint(p) THEN 1 ELSE 0
  <2>1. OwnSavepoint(p) => Held # {}
    BY DEF Held
  <2>2. QED
    BY <2>1, BusyFinite, FS_EmptySet
<1>6. Units(pc[p], saving[p]) = (IF InTransaction(p) THEN 1 ELSE 0)
                                  + (IF OwnSavepoint(p) THEN 1 ELSE 0)
  BY <1>1 DEF Units
<1>7. QED
  BY <1>1, <1>2, <1>3, <1>4, <1>5, <1>6, BusyFinite DEF Count

\* The parts of the invariant that speak of one process stay true of the others
\* when one goes on, and of that one if what it keeps fits where it goes.
LEMMA GoesOn ==
  ASSUME Inv, NEW p \in Processes, NEW label \in Labels, NEW s \in Saves, NEW m,
         InCall(p), GotoStage(p, label, s), UNCHANGED <<request, queue>>,
         DOMAIN local' = Processes,
         \A o \in Processes : local'[o] = IF o = p THEN m ELSE local[o],
         label # "idle", Fits(label, request[p], m), SaveFits(label, s, m),
         request[p].kind = "pessimistic" /\ label # "waiting" =>
           queue[request[p].concert][1] = p
  PROVE  CallsOK' /\ LocksOK'
<1>1. /\ \A o \in Processes : pc'[o] = IF o = p THEN label ELSE pc[o]
      /\ \A o \in Processes : saving'[o] = IF o = p THEN s ELSE saving[o]
  BY BusyMoves DEF Inv, TypeOK, ControlOK
<1>2. CallsOK'
  <2>1. ASSUME NEW o \in Processes
        PROVE  /\ Fits(pc'[o], request[o], local'[o])
               /\ SaveFits(pc'[o], saving'[o], local'[o])
    BY <1>1 DEF Inv, CallsOK, CallOK
  <2>2. QED
    BY <2>1 DEF CallsOK, CallOK, Inv
<1>3. LocksOK'
  <2> SUFFICES ASSUME NEW o \in Processes
               PROVE  LockOK(o)'
    BY DEF LocksOK
  <2>1. LockOK(o)
    BY DEF Inv, LocksOK
  <2>2. CASE o = p
    BY <2>1, <2>2, <1>1 DEF LockOK, InCall, InTransaction
  <2>3. CASE o # p
    BY <2>1, <2>3, <1>1 DEF LockOK, InCall, InTransaction
  <2>4. QED
    BY <2>2, <2>3
<1>4. QED
  BY <1>2, <1>3

\* What a process keeps concerns no other.
Keeping(p, m) ==
  /\ DOMAIN local' = Processes
  /\ \A o \in Processes : local'[o] = IF o = p THEN m ELSE local[o]

LEMMA Keeps ==
  ASSUME Inv, NEW p \in Processes
  PROVE  /\ \A m : Keep(p, m) => Keeping(p, m)
         /\ local' = local => Keeping(p, local[p])
BY DEF Keep, Keeping, Inv, CallsOK

\* A pessimistic call that runs heads its queue.
LEMMA HeadsQueue ==
  ASSUME Inv, NEW p \in Processes, InTransaction(p) \/ pc[p] = "begin",
         request[p].kind = "pessimistic"
  PROVE  queue[request[p].concert][1] = p
BY DEF Inv, LocksOK, LockOK, InCall, InTransaction

\* A pessimistic request names a concert and was made by a client.
LEMMA LockFacts ==
  ASSUME Inv, NEW p \in Processes, InCall(p), request[p].kind = "pessimistic"
  PROVE  /\ request[p].concert \in Concerts
         /\ queue[request[p].concert] \in Seq(Clients)
         /\ queue[request[p].concert] # <<>>
<1>1. request[p] \in Requests \cup {CleanupRun}
  BY DEF Inv, CallsOK, CallOK, Fits, InCall
<1>2. request[p].concert \in Concerts
  BY <1>1 DEF Requests, CleanupRun
<1>3. queue[request[p].concert] \in Seq(Clients)
  BY <1>2 DEF Inv, TypeOK
<1>4. Len(queue[request[p].concert]) # 0
  BY <1>3, LenProperties DEF Inv, LocksOK, LockOK
<1>5. QED
  BY <1>2, <1>3, <1>4, EmptySeq

\* A call that runs and is answered hands the lock to the next in line.
LEMMA Answers ==
  ASSUME Inv, NEW p \in Processes, InTransaction(p) \/ pc[p] = "begin",
         NEW result \in Verdicts, Answer(p, result)
  PROVE  ControlOK' /\ CallsOK' /\ LocksOK'
<1> USE DEF Inv, TypeOK
<1>0. InCall(p)
  BY DEF InCall, InTransaction
<1>1. /\ pc' \in [Processes -> Labels]
      /\ \A o \in Processes : pc'[o] = IF o = p THEN "idle" ELSE pc[o]
      /\ saving' \in [Processes -> Saves]
      /\ \A o \in Processes : saving'[o] = IF o = p THEN NoSave ELSE saving[o]
  BY BusyMoves, NoSaveFacts DEF Answer, Goto, ControlOK, Labels
<1>2. /\ verdict' \in [Processes -> Verdicts]
      /\ read' \in [Processes -> Nat]
      /\ outcome' \in Verdicts
  BY DEF Answer, Decide, Verdicts
<1>3. /\ DOMAIN local' = Processes /\ DOMAIN request' = Processes
      /\ \A o \in Processes \ {p} : local'[o] = local[o] /\ request'[o] = request[o]
  BY DEF Answer, Keep, CallsOK
<1>4. CallsOK'
  <2>1. ASSUME NEW o \in Processes
        PROVE  /\ Fits(pc'[o], request'[o], local'[o])
               /\ SaveFits(pc'[o], saving'[o], local'[o])
    <3>1. CASE o = p
      BY <3>1, <1>1, NoSaveFacts DEF Fits, ReserveLabels
    <3>2. CASE o # p
      BY <3>2, <1>1, <1>3 DEF CallsOK, CallOK
    <3>3. QED
      BY <3>1, <3>2
  <2>2. QED
    BY <2>1, <1>3 DEF CallsOK, CallOK
<1>5. CASE request[p].kind # "pessimistic"
  <2>1. queue' = queue
    BY <1>5 DEF Answer, Unlocked
  <2>2. ASSUME NEW o \in Processes
        PROVE  LockOK(o)'
    <3>1. LockOK(o)
      BY DEF LocksOK
    <3>2. CASE o = p
      BY <3>2, <1>1 DEF LockOK, InCall
    <3>3. CASE o # p
      BY <3>1, <3>3, <2>1, <1>1, <1>3 DEF LockOK, InCall, InTransaction
    <3>4. QED
      BY <3>2, <3>3
  <2>3. QED
    BY <2>1, <2>2, <1>1, <1>2, <1>4 DEF ControlOK, LocksOK
<1>6. CASE request[p].kind = "pessimistic"
  <2> DEFINE c == request[p].concert
  <2>1. c \in Concerts /\ queue[c] \in Seq(Clients) /\ queue[c] # <<>>
    BY <1>0, <1>6, LockFacts
  <2>2. /\ Tail(queue[c]) \in Seq(Clients)
        /\ Len(Tail(queue[c])) = Len(queue[c]) - 1
        /\ Len(queue[c]) \in Nat
        /\ \A i \in 1 .. Len(Tail(queue[c])) : Tail(queue[c])[i] = queue[c][i + 1]
    BY <2>1, HeadTailProperties, LenProperties
  <2>3. queue' = [queue EXCEPT ![c] = Tail(queue[c])]
    BY <1>6 DEF Answer, Unlocked
  <2>4. queue' \in [Concerts -> Seq(Clients)]
    BY <2>2, <2>3
  <2>5. queue[c][1] = p
    BY <1>0, <1>6 DEF LocksOK, LockOK
  <2>6. ASSUME NEW o \in Processes
        PROVE  LockOK(o)'
    <3>1. CASE ~InCall(o)' \/ request'[o].kind # "pessimistic"
      BY <3>1 DEF LockOK
    <3>2. CASE InCall(o)' /\ request'[o].kind = "pessimistic"
      <4>1. o # p
        BY <3>2, <1>1 DEF InCall
      <4>2. /\ InCall(o) /\ request'[o] = request[o]
            /\ InTransaction(o)' = InTransaction(o) /\ pc'[o] = pc[o]
        BY <4>1, <3>2, <1>1, <1>3 DEF InCall, InTransaction
      <4>3. request[o].concert \in Concerts
        BY <4>2, <3>2, LockFacts
      <4>4. PICK i \in 1 .. Len(queue[request[o].concert]) : queue[request[o].concert][i] = o
        BY <4>2, <3>2 DEF LocksOK, LockOK
      <4>5. CASE request[o].concert # c
        <5>1. queue'[request[o].concert] = queue[request[o].concert]
          BY <4>3, <4>5, <2>3
        <5>2. QED
          BY <5>1, <4>2, <4>4, <3>2 DEF LocksOK, LockOK
      <4>6. CASE request[o].concert = c
        <5>1. i # 1 /\ ~(InTransaction(o) \/ pc[o] = "begin")
          BY <4>1, <4>2, <4>4, <4>6, <3>2, <2>5 DEF LocksOK, LockOK
        <5>2. i - 1 \in 1 .. Len(Tail(queue[c])) /\ Tail(queue[c])[i - 1] = o
          BY <5>1, <4>4, <4>6, <2>2
        <5>3. queue'[request'[o].concert] = Tail(queue[c])
          BY <4>2, <4>6, <2>1, <2>3
        <5>4. QED
          BY <5>1, <5>2, <5>3, <4>2 DEF LockOK
      <4>7. QED
        BY <4>5, <4>6
    <3>3. QED
      BY <3>1, <3>2
  <2>7. QED
    BY <2>4, <2>6, <1>1, <1>2, <1>4 DEF ControlOK, LocksOK
<1>7. QED
  BY <1>5, <1>6

-----------------------------------------------------------------------------
(* What a statement of a function may do.                                   *)

\* Inside its transaction a call may go on as long as the depth covers what it
\* has open then ...
LEMMA Moves ==
  ASSUME Inv, NEW p \in Processes, InTransaction(p), ConnectionOK',
         NEW label \in Inside, NEW s \in Saves, NEW m,
         GotoStage(p, label, s), Keeping(p, m), UNCHANGED Rest,
         verdict' \in [Processes -> Verdicts], read' \in [Processes -> Nat],
         depth' >= depth - Units(pc[p], saving[p]) + Units(label, s),
         Fits(label, request[p], m), SaveFits(label, s, m)
  PROVE  Inv'
<1>1. InCall(p) /\ label # "idle" /\ label \in Labels
  BY DEF InCall, InTransaction, Inside, Outside
<1>2. ControlOK
  BY DEF Inv, TypeOK, ControlOK
<1>3. ControlOK' /\ Count' = Count - Units(pc[p], saving[p]) + Units(label, s)
  BY <1>1, <1>2, BusyMoves DEF ControlOK, Rest
<1>4. CallsOK' /\ LocksOK'
  <2>1. /\ DOMAIN local' = Processes
        /\ \A o \in Processes : local'[o] = IF o = p THEN m ELSE local[o]
    BY DEF Keeping
  <2>2. request[p].kind = "pessimistic" => queue[request[p].concert][1] = p
    BY HeadsQueue
  <2>3. UNCHANGED <<request, queue>>
    BY DEF Rest
  <2>4. QED
    BY <1>1, <2>1, <2>2, <2>3, GoesOn
<1>5. EndsAtMostOnce'
  <2>1. /\ Units(pc[p], saving[p]) \in Nat /\ Units(label, s) \in Nat
        /\ depth \in Nat /\ depth' \in Nat
    BY DEF Units, Inv, TypeOK, ConnectionOK
  <2>2. depth >= Count
    BY DEF Inv, EndsAtMostOnce, Count, Busy, Held
  <2>3. depth' >= Count'
    BY <1>3, <2>1, <2>2, BusyFinite
  <2>4. QED
    BY <2>3 DEF EndsAtMostOnce, Count, Busy, Held
<1>6. QED
  BY <1>3, <1>4, <1>5 DEF Inv, TypeOK, ControlOK

\* The depth is what it was, or one less because the savepoint of a save is gone.
Spent(p) == depth' = depth \/ (OwnSavepoint(p) /\ depth' = depth - 1)

\* ... for instance to another statement ...
LEMMA Proceeds ==
  ASSUME Inv, NEW p \in Processes, InTransaction(p), ConnectionOK', Spent(p),
         NEW label \in Inside, NEW m, Proceed(p, m, label),
         Fits(label, request[p], m)
  PROVE  Inv'
<1>1. depth' >= depth - Units(pc[p], saving[p]) + Units(label, NoSave)
  BY UnitFacts, NoSaveFacts DEF Spent, Inside, Running, Units
<1>2. /\ GotoStage(p, label, NoSave) /\ Keeping(p, m) /\ UNCHANGED Rest
      /\ verdict' \in [Processes -> Verdicts] /\ read' \in [Processes -> Nat]
  BY Keeps DEF Proceed, Goto, Inv, TypeOK
<1>3. QED
  BY <1>1, <1>2, NoSaveFacts, Moves

\* ... to commit or rollback ...
LEMMA GoesToItsEnd ==
  ASSUME Inv, NEW p \in Processes, InTransaction(p), ConnectionOK', Spent(p),
         NEW label \in {"commit", "rollback"}, NEW m, NEW v \in Verdicts,
         Goto(p, label), Keep(p, m), Decide(p, v),
         read' = [read EXCEPT ![p] = depth'], UNCHANGED Rest
  PROVE  Inv'
<1>1. label \in Inside
  BY DEF Inside, Outside, Labels
<1>2. depth' >= depth - Units(pc[p], saving[p]) + Units(label, NoSave)
  BY <1>1, UnitFacts, NoSaveFacts DEF Spent, Inside, Running, Units
<1>3. verdict' \in [Processes -> Verdicts] /\ read' \in [Processes -> Nat]
  BY DEF Decide, Inv, TypeOK, ConnectionOK
<1>4. Fits(label, request[p], m)
  BY DEF Inv, CallsOK, CallOK, Fits, InTransaction, ReserveLabels
<1>5. QED
  BY <1>1, <1>2, <1>3, <1>4, NoSaveFacts, Keeps, Moves DEF Goto

\* ... or be answered: the runner still counts a transaction nobody will end, and
\* one that was ended is no longer counted.
LEMMA IsAnswered ==
  ASSUME Inv, NEW p \in Processes, InTransaction(p) \/ pc[p] = "begin", ConnectionOK',
         depth' = depth \/ (InTransaction(p) /\ depth' = depth - 1),
         NEW v \in Verdicts, Answer(p, v)
  PROVE  Inv'
<1>1. ControlOK
  BY DEF Inv, TypeOK, ControlOK
<1>2. ControlOK' /\ CallsOK' /\ LocksOK'
  BY Answers
<1>3. "idle" \in Labels /\ GotoStage(p, "idle", NoSave) /\ Units("idle", NoSave) = 0
  BY NoSaveFacts DEF Answer, Goto, Labels, Units, Running, Outside
<1>4. Count' = Count - Units(pc[p], saving[p]) + Units("idle", NoSave)
  BY <1>1, <1>3, NoSaveFacts, BusyMoves
<1>5. EndsAtMostOnce'
  <2>1. depth >= Count
    BY DEF Inv, EndsAtMostOnce, Count, Busy, Held
  <2>2. depth' >= Count'
    BY <1>3, <1>4, <2>1, BusyFinite, UnitFacts DEF Inv, TypeOK, ConnectionOK
  <2>3. QED
    BY <2>2 DEF EndsAtMostOnce, Count, Busy, Held
<1>6. QED
  BY <1>2, <1>5 DEF Inv, TypeOK, ControlOK

\* commitTransaction() and rollbackTransaction() are sent, or throw.
LEMMA Sends ==
  ASSUME Inv, NEW p \in Processes, InTransaction(p), ConnectionOK', Spent(p),
         NEW label \in {"commit", "rollback"}, NEW m, NEW v \in Verdicts,
         Send(p, label, m, v)
  PROVE  Inv'
<1>1. CASE active'
  BY <1>1, GoesToItsEnd DEF Send
<1>2. CASE ~active'
  <2>1. "TransactionNotStartedError" \in Verdicts
    BY DEF Verdicts
  <2>2. QED
    BY <1>2, <2>1, IsAnswered DEF Send, Fail, Spent
<1>3. QED
  BY <1>1, <1>2

LEMMA Throws ==
  ASSUME Inv, NEW p \in Processes, InTransaction(p), ConnectionOK', Spent(p),
         NEW v \in Verdicts, Throw(p, v)
  PROVE  Inv'
BY Sends DEF Throw

LEMMA Succeeds ==
  ASSUME Inv, NEW p \in Processes, InTransaction(p), ConnectionOK', Spent(p),
         NEW m, NEW v \in Verdicts, Succeed(p, v, m)
  PROVE  Inv'
BY Sends DEF Succeed

\* A SELECT leaves the connection alone.
LEMMA SelectType ==
  ASSUME ConnectionOK, UNCHANGED connection
  PROVE  ConnectionOK' /\ depth' = depth
BY DEF connection, ConnectionOK

-----------------------------------------------------------------------------
(* What a save() may do. *)

\* A save that has something to write sends SAVEPOINT or the statement itself.
LEMMA Persists ==
  ASSUME Inv, NEW p \in Processes, InTransaction(p), ConnectionOK', depth' = depth,
         NEW label \in Sites, NEW old \in ReservationRows \cup {NoRow} \cup [status: TicketStatuses],
         Persist(p, label, old), ~OwnSavepoint(p), Fits(label, request[p], local[p]),
         label \in {"saveRow", "cancelRow"} => old \in ReservationRows \cup {NoRow},
         label = "insert" => local[p] \in Batches
  PROVE  Inv'
<1> DEFINE s == [stage |-> IF active THEN "write" ELSE "open", own |-> ~active, old |-> old]
<1>1. active \in BOOLEAN /\ depth \in Nat
  BY DEF Inv, TypeOK, ConnectionOK
<1>2. s \in Saves /\ ~HasSavepoint(s) /\ SaveFits(label, s, local[p])
  BY <1>1 DEF Saves, Stages, HasSavepoint, SaveFits
<1>3. GotoStage(p, label, s)
  BY DEF Persist
<1> HIDE DEF s
<1>4. label \in Inside
  BY DEF Sites, Inside, Labels, Outside
<1>5. Keeping(p, local[p]) /\ UNCHANGED Rest /\ verdict' = verdict
  BY Keeps DEF Persist
<1>6. read' \in [Processes -> Nat]
  BY <1>1 DEF Persist, Inv, TypeOK
<1>7. depth' >= depth - Units(pc[p], saving[p]) + Units(label, s)
  BY <1>1, <1>2, <1>4, UnitFacts DEF Units, Inside, Running
<1>8. QED
  BY <1>2, <1>3, <1>4, <1>5, <1>6, <1>7, Moves DEF Inv, TypeOK

\* It goes on with its next statement as long as its savepoint is counted.
LEMMA GoesOnSaving ==
  ASSUME Inv, NEW p \in Processes, pc[p] \in Sites, ConnectionOK',
         NEW stage \in {"write", "reload", "close", "undo"}, Stage(p, stage),
         NEW m, Keeping(p, m), UNCHANGED Rest,
         verdict' = verdict, read' \in [Processes -> Nat],
         stage \in {"close", "undo"} => saving[p].own,
         stage = "write" \/ pc[p] # "insert" => m = local[p],
         stage = "write" => saving[p].stage = "open",
         depth' >= depth + (IF saving[p].own /\ ~OwnSavepoint(p) THEN 1 ELSE 0)
  PROVE  Inv'
<1> DEFINE s == [saving[p] EXCEPT !.stage = stage]
<1>1. /\ saving[p] \in Saves /\ s \in Saves
      /\ s.own = saving[p].own /\ s.old = saving[p].old /\ s.stage = stage
  BY DEF Inv, TypeOK, Saves, Stages
<1>2. Fits(pc[p], request[p], m) /\ SaveFits(pc[p], s, m)
  BY <1>1 DEF Inv, CallsOK, CallOK, Fits, SaveFits, Sites, ReserveLabels
<1>3. GotoStage(p, pc[p], s)
  BY DEF Stage
<1> HIDE DEF s
<1>4. pc[p] \in Inside /\ InTransaction(p)
  BY DEF Sites, Inside, Labels, Outside, InTransaction
<1>5. depth' >= depth - Units(pc[p], saving[p]) + Units(pc[p], s)
  <2>1. depth \in Nat /\ depth' \in Nat
    BY DEF Inv, TypeOK, ConnectionOK
  <2>2. HasSavepoint(s) <=> saving[p].own
    BY <1>1 DEF HasSavepoint
  <2>3. OwnSavepoint(p) => saving[p].own
    BY DEF OwnSavepoint
  <2>4. QED
    BY <1>4, <2>1, <2>2, <2>3, UnitFacts DEF Units
<1>6. QED
  BY <1>1, <1>2, <1>3, <1>4, <1>5, Moves DEF Inv, TypeOK

\* When it has ended its function goes on.
LEMMA SavedStep ==
  ASSUME Inv, NEW p \in Processes, pc[p] \in Sites, ConnectionOK', Spent(p), Saved(p)
  PROVE  Inv'
<1>1. InTransaction(p)
  BY DEF Sites, InTransaction
<1>2. {"reserved", "purchased"} \subseteq Verdicts /\ {"saveTicket", "freeTicket"} \subseteq Inside
  BY DEF Verdicts, Inside, Labels, Outside
<1>3. CASE pc[p] \in {"insert", "saveTicket"}
  BY <1>1, <1>2, <1>3, Succeeds DEF Saved
<1>4. CASE pc[p] = "saveRow"
  <2>1. Fits("saveTicket", request[p], local[p])
    BY <1>4 DEF Inv, CallsOK, CallOK, Fits, ReserveLabels
  <2>2. QED
    BY <1>1, <1>2, <1>4, <2>1, Proceeds DEF Saved, Continue
<1>5. CASE pc[p] = "cancelRow"
  <2>1. Fits("freeTicket", request[p], local[p])
    BY <1>5 DEF Inv, CallsOK, CallOK, Fits, ReserveLabels
  <2>2. QED
    BY <1>1, <1>2, <1>5, <2>1, Proceeds DEF Saved, Continue
<1>6. QED
  BY <1>3, <1>4, <1>5 DEF Sites

\* The savepoint of a save is released or rolled back.
LEMMA EndSaveStep ==
  ASSUME Inv, NEW p \in Processes, pc[p] \in Sites, NEW stage \in {"close", "undo"},
         saving[p].own, OwnSavepoint(p), EndSave(p, stage)
  PROVE  Inv'
<1>1. ConnectionOK' /\ depth' = depth
  BY SelectType DEF EndSave, Select, Inv, TypeOK
<1>2. Keeping(p, local[p]) /\ UNCHANGED Rest /\ verdict' = verdict
  BY Keeps DEF EndSave
<1>3. read' \in [Processes -> Nat] /\ depth \in Nat
  BY DEF EndSave, Inv, TypeOK, ConnectionOK
<1>4. QED
  BY <1>1, <1>2, <1>3, GoesOnSaving DEF EndSave

LEMMA SaveFailsStep ==
  ASSUME Inv, NEW p \in Processes, pc[p] \in Sites, saving[p].stage = "write", SaveFails(p)
  PROVE  Inv'
<1>1. CASE saving[p].own /\ EndSave(p, "undo")
  BY <1>1, EndSaveStep DEF OwnSavepoint
<1>2. CASE Select /\ Throw(p, "QueryFailedError")
  <2>1. "QueryFailedError" \in Verdicts /\ InTransaction(p)
    BY DEF Verdicts, Sites, InTransaction
  <2>2. QED
    BY <1>2, <2>1, SelectType, Throws DEF Select, Spent, Inv, TypeOK
<1>3. QED
  BY <1>1, <1>2 DEF SaveFails

\* The statement was executed; what the database generated is read.
LEMMA Writes ==
  ASSUME Inv, NEW p \in Processes, pc[p] \in Sites, saving[p].stage = "write",
         NEW new \in Databases, Execute(new), Stage(p, "reload"), NEW m, Keeping(p, m),
         pc[p] # "insert" => m = local[p], UNCHANGED <<verdict, read, Rest>>
  PROVE  Inv'
<1>1. ConnectionOK' /\ depth' = depth /\ depth \in Nat
  BY ExecuteType DEF Inv, TypeOK, ConnectionOK
<1>2. saving[p].own => OwnSavepoint(p)
  BY DEF OwnSavepoint
<1>3. read' \in [Processes -> Nat]
  BY DEF Inv, TypeOK
<1>4. QED
  BY <1>1, <1>2, <1>3, GoesOnSaving

\* The four statements around it.
LEMMA SaveStep ==
  ASSUME Inv, NEW p \in Processes, Open(p) \/ Reload(p) \/ Close(p) \/ Undo(p)
  PROVE  Inv'
<1>1. pc[p] \in Sites /\ InTransaction(p)
  BY DEF Open, Reload, Close, Undo, SavingAt, Saving, At, Sites, InTransaction
<1>2. ConnectionOK /\ read[p] \in Nat /\ depth \in Nat
  BY DEF Inv, TypeOK, ConnectionOK
<1>3. DOMAIN local = Processes /\ SaveFits(pc[p], saving[p], local[p])
  BY DEF Inv, CallsOK, CallOK
<1>4. CASE Open(p)
  <2>1. saving[p].stage = "open" /\ saving[p].own
    BY <1>3, <1>4 DEF Open, SavingAt, Saving, SaveFits
  <2>2. ConnectionOK' /\ depth' = depth + 1
    BY <1>2, <1>4, StartType DEF Open
  <2>3. /\ Keeping(p, local[p]) /\ UNCHANGED Rest
        /\ verdict' = verdict /\ read' \in [Processes -> Nat]
    BY <1>4, Keeps DEF Open, Inv, TypeOK
  <2>4. Stage(p, "write")
    BY <1>4 DEF Open
  <2>5. depth' >= depth + (IF saving[p].own /\ ~OwnSavepoint(p) THEN 1 ELSE 0)
    BY <1>2, <2>2
  <2>6. QED
    BY <1>1, <2>1, <2>2, <2>3, <2>4, <2>5, GoesOnSaving
<1>5. CASE Reload(p)
  <2>1. saving[p].stage = "reload" /\ (saving[p].own => OwnSavepoint(p))
    BY <1>5 DEF Reload, SavingAt, Saving, OwnSavepoint
  <2>2. CASE saving[p].own /\ EndSave(p, "close")
    BY <1>1, <2>1, <2>2, EndSaveStep
  <2>3. CASE Select /\ Saved(p)
    BY <1>1, <1>2, <2>3, SelectType, SavedStep DEF Select, Spent
  <2>4. QED
    BY <1>5, <2>2, <2>3 DEF Reload
<1>6. CASE Close(p)
  <2>1. saving[p].own /\ OwnSavepoint(p)
    BY <1>3, <1>6 DEF Close, SavingAt, Saving, OwnSavepoint, SaveFits
  <2>2. depth >= 1
    BY <1>1, <1>2, <2>1, UnitFacts
  <2>3. CASE CommitTransaction(read[p]) /\ Saved(p)
    BY <1>1, <1>2, <2>1, <2>2, <2>3, EndType, SavedStep DEF Spent
  <2>4. CASE EndSave(p, "undo")
    BY <1>1, <2>1, <2>4, EndSaveStep
  <2>5. QED
    BY <1>6, <2>3, <2>4 DEF Close
<1>7. CASE Undo(p)
  <2>1. saving[p].own /\ OwnSavepoint(p)
    BY <1>3, <1>7 DEF Undo, SavingAt, Saving, OwnSavepoint, SaveFits
  <2>2. depth >= 1
    BY <1>1, <1>2, <2>1, UnitFacts
  <2>3. ConnectionOK' /\ Spent(p)
    BY <1>2, <1>7, <2>1, <2>2, EndType, SelectType DEF Undo, Select, Spent
  <2>4. "QueryFailedError" \in Verdicts /\ Throw(p, "QueryFailedError")
    BY <1>7 DEF Undo, Verdicts
  <2>5. QED
    BY <1>1, <2>3, <2>4, Throws
<1>8. QED
  BY <1>4, <1>5, <1>6, <1>7

\* What save(Reservation) writes is a row.
LEMMA UpdatedType ==
  ASSUME NEW now \in ReservationRows \cup {NoRow}, NEW old \in ReservationRows \cup {NoRow},
         NEW row \in ReservationRows
  PROVE  Updated(now, old, row) \in ReservationRows \cup {NoRow}
<1>1. CASE old = NoRow \/ now = NoRow
  BY <1>1 DEF Updated
<1>2. CASE old # NoRow /\ now # NoRow
  BY <1>2 DEF Updated, ReservationRows
<1>3. QED
  BY <1>1, <1>2

\* save(Reservation) finds its row as it should be, or writes it, or clashes.
LEMMA SaveRowStep ==
  ASSUME Inv, NEW p \in Processes, pc[p] \in {"saveRow", "cancelRow"},
         NEW i \in ReservationIds, NEW row \in ReservationRows,
         \/ saving[p].stage = "load" /\ LoadRow(p, i, row)
         \/ saving[p].stage = "write" /\ WriteRow(p, i, row)
  PROVE  Inv'
<1>1. ConnectionOK /\ pc[p] \in Sites /\ InTransaction(p) /\ DOMAIN local = Processes
  BY DEF Inv, TypeOK, Sites, InTransaction, CallsOK
<1>2. db.reservations[i] \in ReservationRows \cup {NoRow}
  BY <1>1 DEF ConnectionOK, Databases, ReservationTable
<1>3. CASE saving[p].stage = "load" /\ LoadRow(p, i, row)
  <2>1. CASE Select /\ Saved(p)
    BY <1>1, <2>1, SelectType, SavedStep DEF Select, Spent
  <2>2. CASE Load /\ Persist(p, pc[p], db.reservations[i])
    <3>1. ConnectionOK' /\ depth' = depth
      BY <1>1, <2>2 DEF Load, Persist, ConnectionOK
    <3>2. ~OwnSavepoint(p) /\ Fits(pc[p], request[p], local[p])
      BY <1>3 DEF OwnSavepoint, Inv, CallsOK, CallOK, SaveFits
    <3>3. QED
      BY <1>1, <1>2, <2>2, <3>1, <3>2, Persists
  <2>3. QED
    BY <1>3, <2>1, <2>2 DEF LoadRow
<1>4. CASE saving[p].stage = "write" /\ WriteRow(p, i, row)
  <2> DEFINE new == Updated(db.reservations[i], saving[p].old, row)
  <2>1. saving[p].old \in ReservationRows \cup {NoRow}
    BY DEF Inv, CallsOK, CallOK, SaveFits
  <2>2. new \in ReservationRows \cup {NoRow}
    BY <1>2, <2>1, UpdatedType
  <2>3. CASE SaveFails(p)
    BY <1>1, <1>4, <2>3, SaveFailsStep
  <2>4. CASE /\ Execute([db EXCEPT !.reservations[i] = new])
             /\ Stage(p, "reload") /\ UNCHANGED <<local, verdict, read, Rest>>
    <3> HIDE DEF new
    <3>1. [db EXCEPT !.reservations[i] = new] \in Databases
      BY <1>1, <2>2, RowSavedType
    <3>2. Keeping(p, local[p])
      BY <2>4, Keeps
    <3>3. QED
      BY <1>1, <1>4, <2>4, <3>1, <3>2, Writes
  <2>5. QED
    BY <1>4, <2>3, <2>4 DEF WriteRow
<1>5. QED
  BY <1>3, <1>4

-----------------------------------------------------------------------------
(* Calls begin and end. *)

\* A call is made: a pessimistic one joins the queue, another one sends BEGIN.
LEMMA CallStep ==
  ASSUME Inv, NEW p \in Processes, NEW r \in Requests \cup {CleanupRun}, Call(p, r),
         p \in Clients \/ r = CleanupRun
  PROVE  Inv'
<1> USE DEF Inv, TypeOK
<1>0. /\ pc[p] = "idle" /\ ~InTransaction(p)
      /\ Units(pc[p], saving[p]) = 0
  BY UnitFacts, NoSaveFacts DEF Call, InCall, InTransaction, Sites
<1>1. request' = [request EXCEPT ![p] = r] /\ local' = local
      /\ verdict' = verdict /\ outcome' = outcome
  BY DEF Call
<1>2. /\ \A o \in Processes : request'[o] = IF o = p THEN r ELSE request[o]
      /\ DOMAIN request' = Processes
  BY <1>1 DEF CallsOK
<1>3. ControlOK
  BY DEF ControlOK
<1>4. ASSUME NEW label \in {"waiting", "begin"}, Goto(p, label), queue' \in [Concerts -> Seq(Clients)],
             read' \in [Processes -> Nat], ConnectionOK', depth' = depth,
             label = "waiting" => r.kind = "pessimistic",
             \A o \in Processes : LockOK(o)'
      PROVE  Inv'
  <2>1. label \in Labels /\ Units(label, NoSave) = 0
    BY NoSaveFacts DEF Labels, Outside, Units, Running
  <2>2. /\ pc' \in [Processes -> Labels] /\ saving' \in [Processes -> Saves]
        /\ \A o \in Processes : pc'[o] = IF o = p THEN label ELSE pc[o]
        /\ \A o \in Processes : saving'[o] = IF o = p THEN NoSave ELSE saving[o]
        /\ Count' = Count
    BY <1>0, <1>3, <1>4, <2>1, BusyMoves, BusyFinite, NoSaveFacts DEF Goto
  <2>4. EndsAtMostOnce'
    BY <1>4, <2>2 DEF Count, Busy, Held, EndsAtMostOnce
  <2>5. ASSUME NEW o \in Processes
        PROVE  CallOK(o)'
    <3>1. CASE o = p
      BY <3>1, <1>2, <1>4, <2>2, NoSaveFacts DEF CallOK, Fits, ReserveLabels
    <3>2. CASE o # p
      BY <3>2, <1>1, <1>2, <2>2 DEF CallsOK, CallOK
    <3>3. QED
      BY <3>1, <3>2
  <2>6. CallsOK'
    BY <2>5, <1>1, <1>2 DEF CallsOK
  <2>7. QED
    BY <1>1, <1>4, <2>2, <2>4, <2>6 DEF LocksOK
<1>5. CASE r.kind = "pessimistic"
  <2> DEFINE c == r.concert
  <2>1. c \in Concerts /\ p \in Clients
    BY <1>5 DEF Requests, CleanupRun
  <2>2. queue' = [queue EXCEPT ![c] = Append(queue[c], p)] /\ Goto(p, "waiting")
        /\ UNCHANGED <<connection, read>>
    BY <1>5 DEF Call
  <2>3. queue[c] \in Seq(Clients)
    BY <2>1
  <2>4. /\ Append(queue[c], p) \in Seq(Clients)
        /\ Len(queue[c]) \in Nat
        /\ Len(Append(queue[c], p)) = Len(queue[c]) + 1
        /\ \A i \in 1 .. Len(queue[c]) : Append(queue[c], p)[i] = queue[c][i]
        /\ Append(queue[c], p)[Len(queue[c]) + 1] = p
    BY <2>1, <2>3, AppendProperties, LenProperties
  <2>5. queue' \in [Concerts -> Seq(Clients)]
    BY <2>2, <2>4
  <2>6. \A o \in Processes : pc'[o] = IF o = p THEN "waiting" ELSE pc[o]
    BY <1>3, <2>2, BusyMoves, NoSaveFacts DEF Labels, Goto
  <2>7. ASSUME NEW o \in Processes
        PROVE  LockOK(o)'
    <3>1. CASE o = p
      <4>1. queue'[c] = Append(queue[c], p) /\ request'[o] = r
        BY <3>1, <1>2, <2>1, <2>2
      <4>2. Len(queue[c]) + 1 \in 1 .. Len(queue'[c]) /\ queue'[c][Len(queue[c]) + 1] = p
        BY <4>1, <2>4
      <4>3. QED
        BY <3>1, <4>1, <4>2, <2>6 DEF LockOK, InCall, InTransaction
    <3>2. CASE o # p /\ ~(InCall(o) /\ request[o].kind = "pessimistic")
      BY <3>2, <1>2, <2>6 DEF LockOK, InCall
    <3>3. CASE o # p /\ InCall(o) /\ request[o].kind = "pessimistic"
      <4>1. /\ request'[o] = request[o] /\ pc'[o] = pc[o]
            /\ InTransaction(o)' = InTransaction(o)
        BY <3>3, <1>2, <2>6 DEF InTransaction
      <4>2. /\ request[o].concert \in Concerts
            /\ queue[request[o].concert] \in Seq(Clients)
            /\ LockOK(o)
        BY <3>3, LockFacts DEF LocksOK
      <4>3. CASE request[o].concert # c
        <5>1. queue'[request[o].concert] = queue[request[o].concert]
          BY <4>2, <4>3, <2>2
        <5>2. QED
          BY <5>1, <4>1, <4>2, <3>3 DEF LockOK
      <4>4. CASE request[o].concert = c
        <5>1. queue'[c] = Append(queue[c], p)
          BY <2>1, <2>2
        <5>2. PICK i \in 1 .. Len(queue[c]) : queue[c][i] = o
          BY <4>2, <4>4, <3>3 DEF LockOK
        <5>3. i \in 1 .. Len(queue'[c]) /\ queue'[c][i] = o /\ queue'[c][1] = queue[c][1]
          BY <5>1, <5>2, <2>4
        <5>4. QED
          BY <5>3, <4>1, <4>2, <4>4, <3>3 DEF LockOK
      <4>5. QED
        BY <4>3, <4>4
    <3>4. QED
      BY <3>1, <3>2, <3>3
  <2>8. QED
    BY <1>4, <1>5, <2>2, <2>5, <2>7, SelectType
<1>6. CASE r.kind # "pessimistic"
  <2>1. SendBegin(p) /\ queue' = queue
    BY <1>6 DEF Call
  <2>2. ConnectionOK' /\ depth' = depth /\ read' \in [Processes -> Nat]
    BY <2>1 DEF SendBegin, SendStart, ConnectionOK
  <2>3. \A o \in Processes : pc'[o] = IF o = p THEN "begin" ELSE pc[o]
    BY <1>3, <2>1, BusyMoves, NoSaveFacts DEF SendBegin, Labels, Goto
  <2>4. ASSUME NEW o \in Processes
        PROVE  LockOK(o)'
    <3>1. LockOK(o)
      BY DEF LocksOK
    <3>2. CASE o = p
      BY <3>2, <1>2, <1>6 DEF LockOK
    <3>3. CASE o # p
      BY <3>1, <3>3, <1>2, <2>1, <2>3 DEF LockOK, InCall, InTransaction
    <3>4. QED
      BY <3>2, <3>3
  <2>5. QED
    BY <1>4, <1>6, <2>1, <2>2, <2>4 DEF SendBegin
<1>7. QED
  BY <1>5, <1>6

\* The head of the queue sends BEGIN.
LEMMA LockStep ==
  ASSUME Inv, NEW p \in Processes, Lock(p)
  PROVE  Inv'
<1>1. /\ pc[p] = "waiting" /\ InCall(p) /\ ~InTransaction(p)
      /\ Fits("waiting", request[p], local[p])
  BY DEF Lock, InCall, InTransaction, Inv, CallsOK, CallOK
<1>2. /\ SendStart /\ Goto(p, "begin")
      /\ UNCHANGED <<request, queue, local, verdict, outcome>>
  BY DEF Lock, SendBegin, Rest
<1>3. ConnectionOK' /\ depth' = depth /\ read' \in [Processes -> Nat]
  BY <1>2 DEF Lock, SendBegin, SendStart, ConnectionOK, Inv, TypeOK
<1>4. ControlOK /\ "begin" \in Labels /\ GotoStage(p, "begin", NoSave)
  BY <1>2 DEF Inv, TypeOK, ControlOK, Labels, Goto
<1>5. /\ pc' \in [Processes -> Labels] /\ saving' \in [Processes -> Saves]
      /\ Count' = Count
  <2>1. Units("begin", NoSave) = 0 /\ Units(pc[p], saving[p]) = 0
    BY <1>1, UnitFacts, NoSaveFacts DEF Units, Running, Outside, Sites
  <2>2. QED
    BY <1>4, <2>1, BusyMoves, BusyFinite, NoSaveFacts
<1>6. EndsAtMostOnce'
  BY <1>3, <1>5 DEF Count, Busy, Held, EndsAtMostOnce, Inv
<1>7. queue[request[p].concert][1] = p
  <2>1. request[p].kind = "pessimistic"
    BY <1>1 DEF Fits
  <2>2. Head(queue[request[p].concert]) = queue[request[p].concert][1]
    BY <1>1, <2>1, LockFacts
  <2>3. QED
    BY <2>2 DEF Lock
<1>8. CallsOK' /\ LocksOK'
  <2>1. Fits("begin", request[p], local[p])
    BY <1>1 DEF Fits, ReserveLabels
  <2>2. /\ DOMAIN local' = Processes
        /\ \A o \in Processes : local'[o] = IF o = p THEN local[p] ELSE local[o]
    BY <1>2 DEF Inv, CallsOK
  <2>3. QED
    BY <1>1, <1>2, <1>4, <1>7, <2>1, <2>2, GoesOn, NoSaveFacts
<1>9. QED
  BY <1>2, <1>3, <1>5, <1>6, <1>8 DEF Inv, TypeOK

\* BEGIN is executed, and the runner counts the transaction, or it fails.
LEMMA BeginStep ==
  ASSUME Inv, NEW p \in Processes, Begin(p)
  PROVE  Inv'
<1>1. /\ pc[p] = "begin" /\ InCall(p) /\ ~InTransaction(p)
      /\ Fits("begin", request[p], local[p])
  BY DEF Begin, At, InCall, InTransaction, Inv, CallsOK, CallOK
<1>2. ConnectionOK /\ ControlOK /\ read[p] \in Nat
  BY DEF Inv, TypeOK, ControlOK
<1>3. CASE StartTransaction(read[p]) /\ Continue(p, FirstStatement(request[p].kind))
  <2> DEFINE label == FirstStatement(request[p].kind)
  <2>1. request[p] \in Requests \cup {CleanupRun}
    BY <1>1 DEF Fits
  <2>2. /\ label \in {"find", "findRow", "findExpired"}
        /\ label = "find" => request[p] \in Requests /\ request[p].kind \in ReserveKinds
        /\ label = "findRow" => request[p] \in Requests /\ request[p].kind = "purchase"
    BY <2>1 DEF FirstStatement, Requests, CleanupRun, ReserveKinds
  <2>3. Fits(label, request[p], local[p])
    BY <2>1, <2>2 DEF Fits, ReserveLabels
  <2>4. ConnectionOK' /\ depth' = depth + 1
    BY <1>2, <1>3, StartType
  <2>5. /\ Goto(p, label) /\ Keep(p, local[p])
        /\ UNCHANGED <<verdict, read, request, queue, outcome>>
    BY <1>3 DEF Continue, Proceed, Rest
  <2>6. label \in Labels /\ label \notin Outside
    BY <2>2 DEF Labels, Outside
  <2> HIDE DEF label
  <2>7. /\ pc' \in [Processes -> Labels] /\ saving' \in [Processes -> Saves]
        /\ Count' = Count + 1
    <3>1. Units(label, NoSave) = 1 /\ Units(pc[p], saving[p]) = 0
      BY <1>1, <2>6, UnitFacts, NoSaveFacts DEF Units, Running, Sites
    <3>2. QED
      BY <1>2, <2>5, <2>6, <3>1, BusyMoves, BusyFinite, NoSaveFacts DEF Goto
  <2>8. EndsAtMostOnce'
    BY <2>4, <2>7, BusyFinite DEF Count, Busy, Held, EndsAtMostOnce, Inv, TypeOK, ConnectionOK
  <2>9. CallsOK' /\ LocksOK'
    <3>1. label # "idle"
      BY <2>6 DEF Outside
    <3>2. request[p].kind = "pessimistic" => queue[request[p].concert][1] = p
      BY <1>1, HeadsQueue
    <3>3. /\ DOMAIN local' = Processes
          /\ \A o \in Processes : local'[o] = IF o = p THEN local[p] ELSE local[o]
      BY <2>5, Keeps DEF Keeping
    <3>4. QED
      BY <1>1, <2>3, <2>5, <2>6, <3>1, <3>2, <3>3, GoesOn, NoSaveFacts DEF Goto
  <2>10. QED
    BY <2>4, <2>5, <2>7, <2>8, <2>9 DEF Inv, TypeOK
<1>4. CASE UNCHANGED connection /\ Fail(p, "QueryFailedError")
  <2>1. "QueryFailedError" \in Verdicts
    BY DEF Verdicts
  <2>2. QED
    BY <1>1, <1>2, <1>4, <2>1, SelectType, IsAnswered DEF Fail
<1>5. QED
  BY <1>3, <1>4 DEF Begin

\* Both ways to end a transaction take one from the depth, or throw.
LEMMA EndStep ==
  ASSUME Inv, NEW p \in Processes, Commit(p) \/ Rollback(p)
  PROVE  Inv'
<1>1. InTransaction(p)
  BY DEF Commit, Rollback, At, InTransaction
<1>2. ConnectionOK /\ read[p] \in Nat /\ verdict[p] \in Verdicts /\ "QueryFailedError" \in Verdicts
  BY DEF Inv, TypeOK, Verdicts
<1>3. depth >= 1
  BY <1>1, UnitFacts
<1>4. CASE /\ CommitTransaction(read[p]) \/ RollbackTransaction(read[p])
           /\ Answer(p, verdict[p])
  BY <1>1, <1>2, <1>3, <1>4, EndType, IsAnswered
<1>5. CASE UNCHANGED connection /\ Throw(p, "QueryFailedError")
  BY <1>1, <1>2, <1>5, SelectType, Throws DEF Spent
<1>6. CASE UNCHANGED connection /\ Fail(p, "QueryFailedError")
  BY <1>1, <1>2, <1>6, SelectType, IsAnswered DEF Fail
<1>7. QED
  BY <1>4, <1>5, <1>6 DEF Commit, Rollback, Fail

-----------------------------------------------------------------------------
(* The statements of the functions. *)

\* What a statement of reserve is about.
LEMMA ReserveFacts ==
  ASSUME Inv, NEW p \in Processes, pc[p] \in ReserveLabels
  PROVE  /\ InTransaction(p)
         /\ request[p] \in Requests /\ request[p].kind \in ReserveKinds
         /\ request[p].concert \in Concerts
         /\ request[p].user \in Users
         /\ request[p].quantity \in Nat
<1>1. request[p] \in Requests /\ request[p].kind \in ReserveKinds
  BY DEF Inv, CallsOK, CallOK, Fits
<1>2. QED
  BY <1>1, TablesAssumption DEF Requests, ReserveKinds, Quantities, InTransaction, ReserveLabels

\* Reserve: no statement leaves the stock negative or forgets what it needs.
LEMMA ReserveStep ==
  ASSUME Inv, NEW p \in Processes,
         \/ Find(p) \/ Take(p) \/ Diagnose(p) \/ Pick(p)
         \/ GiveBack(p) \/ Mark(p) \/ Insert(p)
  PROVE  Inv'
<1> DEFINE c == request[p].concert
           q == request[p].quantity
<1>1. pc[p] \in ReserveLabels
  BY DEF Find, Take, Diagnose, Pick, GiveBack, Mark, Insert, Saving, At, ReserveLabels
<1>2. /\ InTransaction(p)
      /\ request[p] \in Requests /\ request[p].kind \in ReserveKinds
      /\ c \in Concerts /\ request[p].user \in Users /\ q \in Nat
  BY <1>1, ReserveFacts
<1>3. ConnectionOK
  BY DEF Inv, TypeOK
<1>4. {"NotFoundError", "ConflictError", "ConcurrencyError", "QueryFailedError", "reserved"}
        \subseteq Verdicts
  BY DEF Verdicts
<1>5. ASSUME NEW label \in {"take", "diagnose", "pick", "giveback", "mark"}, NEW m,
             label = "mark" => m \in Batches,
             ConnectionOK', depth' = depth, Proceed(p, m, label)
      PROVE  Inv'
  <2>1. label \in Inside
    BY DEF Inside, Labels, Outside
  <2>2. Fits(label, request[p], m)
    BY <1>2, <1>5 DEF Fits, ReserveLabels
  <2>3. QED
    BY <1>2, <1>5, <2>1, <2>2, Proceeds DEF Spent
<1>6. CASE Find(p)
  BY <1>2, <1>3, <1>4, <1>5, <1>6, SelectType, Throws DEF Find, Select, Spent
<1>7. CASE Take(p)
  <2>1. CASE /\ CanTake(p) /\ Execute(StockMoved(c, -q)) /\ Continue(p, "pick")
    <3>1. -q \in Int /\ db.stock[c] + (-q) >= 0
      BY <1>2, <1>3, <2>1 DEF CanTake, ConnectionOK, Databases
    <3>2. StockMoved(c, -q) \in Databases
      BY <1>2, <1>3, <3>1, StockMovedType
    <3>3. QED
      BY <1>3, <1>5, <2>1, <3>2, ExecuteType DEF Continue
  <2>2. CASE Select /\ Throw(p, "ConflictError")
    BY <1>2, <1>3, <1>4, <2>2, SelectType, Throws DEF Select, Spent
  <2>3. CASE Select /\ Proceed(p, Nothing, "diagnose")
    BY <1>3, <1>5, <2>3, SelectType DEF Select
  <2>4. QED
    BY <1>7, <2>1, <2>2, <2>3 DEF Take
<1>8. CASE Diagnose(p)
  BY <1>2, <1>3, <1>4, <1>8, SelectType, Throws DEF Diagnose, Select, Spent
<1>9. CASE Pick(p)
  <2> DEFINE available == AvailableTickets(db.tickets, c)
  <2>1. CASE Select /\ Proceed(p, Nothing, "giveback")
    BY <1>3, <1>5, <2>1, SelectType DEF Select
  <2>2. CASE Select /\ \E b \in CheapestFirst(available, q) : Proceed(p, b, "mark")
    <3>1. PICK b \in CheapestFirst(available, q) : Proceed(p, b, "mark")
      BY <2>2
    <3>2. b \in Batches
      BY DEF CheapestFirst, AvailableTickets, TicketsOf, Batches
    <3>3. QED
      BY <1>3, <1>5, <2>2, <3>1, <3>2, SelectType DEF Select
  <2>3. QED
    BY <1>9, <2>1, <2>2 DEF Pick
<1>10. CASE GiveBack(p)
  <2>1. q \in Int /\ db.stock[c] + q >= 0
    BY <1>2, <1>3 DEF ConnectionOK, Databases
  <2>2. StockMoved(c, q) \in Databases
    BY <1>2, <1>3, <2>1, StockMovedType
  <2>3. QED
    BY <1>2, <1>3, <1>4, <1>10, <2>2, ExecuteType, Throws DEF GiveBack, Spent
<1>11. CASE Mark(p)
  <2>1. pc[p] = "mark" /\ local[p] \in Batches
    BY <1>11 DEF Mark, At, Inv, CallsOK, CallOK, Fits
  <2>2. "RESERVED" \in TicketStatuses
    BY DEF TicketStatuses
  <2>3. [db EXCEPT !.tickets = SetTicketStatus(@, local[p].ids, "RESERVED")] \in Databases
    BY <1>3, <2>2, TicketsSetType
  <2>4. ConnectionOK' /\ depth' = depth
    BY <1>3, <1>11, <2>3, WriteType DEF Mark, Persist
  <2>5. ~OwnSavepoint(p)
    BY <2>1, UnitFacts, NoSaveFacts DEF Sites
  <2>6. Fits("insert", request[p], local[p])
    BY <1>2 DEF Fits, ReserveLabels
  <2>7. QED
    BY <1>2, <1>11, <2>1, <2>4, <2>5, <2>6, Persists DEF Mark, Sites
<1>12. CASE Insert(p)
  <2>1. pc[p] = "insert" /\ pc[p] \in Sites /\ saving[p].stage = "write"
    BY <1>12 DEF Insert, Saving, At, Sites
  <2>2. CASE SaveFails(p)
    BY <2>1, <2>2, SaveFailsStep
  <2>3. ASSUME NEW id \in ReservationIds, NEW m,
               Execute([db EXCEPT !.reservations =
                       InsertReservation(@, id, request[p].user, local[p].first, c)]),
               Keeping(p, m), Stage(p, "reload"), UNCHANGED <<verdict, read, Rest>>
        PROVE  Inv'
    <3>1. local[p].first \in Tickets
      BY <2>1 DEF Inv, CallsOK, CallOK, SaveFits, Batches
    <3>2. [db EXCEPT !.reservations =
             InsertReservation(@, id, request[p].user, local[p].first, c)] \in Databases
      BY <1>2, <1>3, <3>1, RowInsertedType
    <3>3. QED
      BY <2>1, <2>3, <3>2, Writes
  <2>4. QED
    BY <1>12, <2>2, <2>3, Keeps DEF Insert
<1>13. QED
  BY <1>6, <1>7, <1>8, <1>9, <1>10, <1>11, <1>12

\* Purchase: the row that is written back is the one that was read.
LEMMA PurchaseStep ==
  ASSUME Inv, NEW p \in Processes, FindRow(p) \/ Complete(p) \/ SaveTicket(p)
  PROVE  Inv'
<1>1. InTransaction(p)
  BY DEF FindRow, Complete, SaveTicket, Saving, At, InTransaction
<1>2. request[p] \in Requests /\ request[p].kind = "purchase" /\ request[p].id \in ReservationIds
  <2>1. request[p] \in Requests /\ request[p].kind = "purchase"
    BY DEF FindRow, Complete, SaveTicket, Saving, At, Inv, CallsOK, CallOK, Fits
  <2>2. QED
    BY <2>1 DEF Requests, ReserveKinds
<1>3. ConnectionOK
  BY DEF Inv, TypeOK
<1>4. {"NotFoundError", "ConflictError", "QueryFailedError", "purchased"} \subseteq Verdicts
  BY DEF Verdicts
<1>5. "saveRow" \in Inside
  BY DEF Inside, Labels, Outside
<1>6. CASE FindRow(p)
  <2> DEFINE row == db.reservations[request[p].id]
  <2>1. CASE Select /\ Throw(p, "NotFoundError")
    BY <1>1, <1>3, <1>4, <2>1, SelectType, Throws DEF Select, Spent
  <2>2. CASE Select /\ Throw(p, "ConflictError")
    BY <1>1, <1>3, <1>4, <2>2, SelectType, Throws DEF Select, Spent
  <2>3. CASE Select /\ row # NoRow /\ Proceed(p, row, "saveRow")
    <3>1. row \in ReservationRows
      BY <1>2, <1>3, <2>3 DEF ConnectionOK, Databases, ReservationTable
    <3>2. Fits("saveRow", request[p], row)
      BY <1>2, <3>1 DEF Fits, ReserveLabels
    <3>3. QED
      BY <1>1, <1>3, <1>5, <2>3, <3>2, SelectType, Proceeds DEF Select, Spent
  <2>4. QED
    BY <1>6, <2>1, <2>2, <2>3 DEF FindRow
<1>7. CASE Complete(p)
  <2>1. pc[p] = "saveRow" /\ local[p] \in ReservationRows
    BY <1>7 DEF Complete, Saving, At, Inv, CallsOK, CallOK, Fits
  <2>2. [local[p] EXCEPT !.status = "COMPLETED"] \in ReservationRows
    BY <2>1 DEF ReservationRows, ReservationStatuses
  <2>3. QED
    BY <1>2, <1>7, <2>1, <2>2, SaveRowStep DEF Complete, Saving
<1>8. CASE SaveTicket(p)
  <2>1. pc[p] = "saveTicket" /\ pc[p] \in Sites /\ DOMAIN local = Processes
    BY <1>8 DEF SaveTicket, Saving, At, Sites, Inv, CallsOK
  <2>2. CASE saving[p].stage = "load" /\ LoadTicket(p)
    <3> DEFINE status == db.tickets[local[p].ticketId]
    <3>1. local[p] \in ReservationRows /\ Fits(pc[p], request[p], local[p])
      BY <2>1 DEF Inv, CallsOK, CallOK, Fits
    <3>2. status \in TicketStatuses
      BY <1>3, <3>1 DEF ConnectionOK, Databases, TicketTable, ReservationRows
    <3>3. CASE Select /\ Saved(p)
      BY <1>3, <2>1, <3>3, SelectType, SavedStep DEF Select, Spent
    <3>4. CASE Load /\ Persist(p, pc[p], [status |-> status])
      <4>1. ConnectionOK' /\ depth' = depth
        BY <1>3, <3>4 DEF Load, Persist, ConnectionOK
      <4>2. ~OwnSavepoint(p)
        BY <2>2 DEF OwnSavepoint, Inv, CallsOK, CallOK, SaveFits
      <4>3. [status |-> status] \in [status: TicketStatuses]
        BY <3>2
      <4>4. QED
        BY <1>1, <2>1, <3>1, <3>4, <4>1, <4>2, <4>3, Persists
    <3>5. QED
      BY <2>2, <3>3, <3>4 DEF LoadTicket
  <2>3. CASE saving[p].stage = "write" /\ WriteTicket(p)
    <3>1. "SOLD" \in TicketStatuses
      BY DEF TicketStatuses
    <3>2. [db EXCEPT !.tickets = SetTicketStatus(@, {local[p].ticketId}, "SOLD")] \in Databases
      BY <1>3, <3>1, TicketsSetType
    <3>3. Keeping(p, local[p])
      BY <2>3, Keeps DEF WriteTicket
    <3>4. QED
      BY <2>1, <2>3, <3>2, <3>3, Writes DEF WriteTicket
  <2>4. QED
    BY <1>8, <2>2, <2>3 DEF SaveTicket, Saving
<1>9. QED
  BY <1>6, <1>7, <1>8

\* The loop of cleanup ends, or goes on with rows that were pending when it read them.
LEMMA RoundStep ==
  ASSUME Inv, NEW p \in Processes, InTransaction(p), ConnectionOK', depth' = depth,
         request[p] \in Requests \cup {CleanupRun},
         NEW todo, NEW m, todo # {} => m \in Rounds, NextRound(p, todo, m)
  PROVE  Inv'
<1>1. CASE todo = {}
  <2>1. "released" \in Verdicts
    BY DEF Verdicts
  <2>2. QED
    BY <1>1, <2>1, Succeeds DEF NextRound, Spent
<1>2. CASE todo # {}
  <2>1. "cancelRow" \in Inside
    BY DEF Inside, Labels, Outside
  <2>2. Fits("cancelRow", request[p], m)
    BY <1>2 DEF Fits, ReserveLabels
  <2>3. QED
    BY <1>2, <2>1, <2>2, Proceeds DEF NextRound, Spent
<1>3. QED
  BY <1>1, <1>2

LEMMA CleanupStep ==
  ASSUME Inv, NEW p \in Processes,
         FindExpired(p) \/ Cancel(p) \/ FreeTicket(p) \/ GiveUnit(p)
  PROVE  Inv'
<1>1. InTransaction(p) /\ request[p] \in Requests \cup {CleanupRun}
  BY DEF FindExpired, Cancel, FreeTicket, GiveUnit, Saving, At, InTransaction,
         Inv, CallsOK, CallOK, Fits
<1>2. ConnectionOK
  BY DEF Inv, TypeOK
<1>3. "addStock" \in Inside
  BY DEF Inside, Labels, Outside
<1>4. CASE FindExpired(p)
  <2> DEFINE expired == ExpiredReservations(db.reservations)
             m == [todo |-> expired, rows |-> db.reservations]
  <2>1. db.reservations \in ReservationTable
    BY <1>2 DEF ConnectionOK, Databases
  <2>2. \A i \in expired : i \in ReservationIds /\ db.reservations[i] \in ReservationRows
    BY <2>1 DEF ExpiredReservations, IsPending, ReservationTable, NoRow
  <2>3. expired # {} => m \in Rounds
    BY <2>1, <2>2 DEF Rounds
  <2>4. UNCHANGED connection /\ NextRound(p, expired, m)
    BY <1>4 DEF FindExpired, Select
  <2> HIDE DEF expired, m
  <2>5. QED
    BY <1>1, <1>2, <2>3, <2>4, SelectType, RoundStep
<1>5. ASSUME Cancel(p) \/ FreeTicket(p) \/ GiveUnit(p)
      PROVE  /\ local[p] \in Rounds
             /\ Current(p) \in local[p].todo
             /\ Current(p) \in ReservationIds
             /\ CurrentRow(p) \in ReservationRows
  <2>1. local[p] \in Rounds
    BY <1>5 DEF Cancel, FreeTicket, GiveUnit, Saving, At, Inv, CallsOK, CallOK, Fits
  <2>2. Current(p) \in local[p].todo
    BY <2>1 DEF Current, Rounds
  <2>3. QED
    BY <2>1, <2>2 DEF Rounds, CurrentRow
<1>6. CASE Cancel(p)
  <2>1. [CurrentRow(p) EXCEPT !.status = "CANCELLED"] \in ReservationRows
    BY <1>5, <1>6 DEF ReservationRows, ReservationStatuses
  <2>2. QED
    BY <1>5, <1>6, <2>1, SaveRowStep DEF Cancel, Saving, At
<1>7. CASE FreeTicket(p)
  <2>1. "AVAILABLE" \in TicketStatuses
    BY DEF TicketStatuses
  <2>2. [db EXCEPT !.tickets = SetTicketStatus(@, {CurrentRow(p).ticketId}, "AVAILABLE")]
          \in Databases
    BY <1>2, <2>1, TicketsSetType
  <2>3. Fits("addStock", request[p], local[p])
    BY <1>1, <1>5, <1>7 DEF Fits, ReserveLabels
  <2>4. QED
    BY <1>1, <1>2, <1>3, <1>7, <2>2, <2>3, ExecuteType, Proceeds DEF FreeTicket, Continue, Spent
<1>8. CASE GiveUnit(p)
  <2> DEFINE left == local[p].todo \ {Current(p)}
             m == [local[p] EXCEPT !.todo = left]
  <2>1. CurrentRow(p).concertId \in Concerts
    BY <1>5, <1>8 DEF ReservationRows
  <2>2. db.stock[CurrentRow(p).concertId] + 1 >= 0
    BY <1>2, <2>1 DEF ConnectionOK, Databases
  <2>3. StockMoved(CurrentRow(p).concertId, 1) \in Databases
    BY <1>2, <2>1, <2>2, StockMovedType
  <2>4. left # {} => m \in Rounds
    BY <1>5, <1>8 DEF Rounds
  <2>5. Execute(StockMoved(CurrentRow(p).concertId, 1)) /\ NextRound(p, left, m)
    BY <1>8 DEF GiveUnit
  <2> HIDE DEF left, m
  <2>6. QED
    BY <1>1, <1>2, <2>3, <2>4, <2>5, ExecuteType, RoundStep
<1>9. QED
  BY <1>4, <1>6, <1>7, <1>8

-----------------------------------------------------------------------------
(* The surroundings, and the theorems. *)

\* The clock changes the tables and nothing else.
LEMMA TickStep ==
  ASSUME Inv, Tick
  PROVE  Inv'
<1>1. PassTime /\ UNCHANGED control
  BY DEF Tick
<1>2. ConnectionOK' /\ depth' = depth
  BY <1>1, TimeType DEF Inv, TypeOK
<1>3. UNCHANGED <<pc, request, local, verdict, read, saving, queue, outcome>>
  BY <1>1 DEF control
<1>4. EndsAtMostOnce'
  BY <1>2, <1>3, SameBusy DEF Inv, EndsAtMostOnce, Count, Busy, Held
<1>5. CallsOK' /\ LocksOK'
  BY <1>3 DEF Inv, CallsOK, CallOK, LocksOK, LockOK, InCall, InTransaction
<1>6. QED
  BY <1>2, <1>3, <1>4, <1>5 DEF Inv, TypeOK

\* A process that has just started is in no call and has no transaction.
LEMMA NothingRuns ==
  ASSUME pc = [p \in Processes |-> "idle"], request = [p \in Processes |-> Nothing],
         local = [p \in Processes |-> Nothing], saving = [p \in Processes |-> NoSave]
  PROVE  CallsOK /\ LocksOK /\ Count = 0
<1>1. Busy = {} /\ Held = {}
  BY NoSaveFacts DEF Busy, InTransaction, Held, OwnSavepoint, HasSavepoint
<1>2. CallsOK /\ LocksOK
  BY NoSaveFacts DEF CallsOK, CallOK, Fits, LocksOK, LockOK, InCall, ReserveLabels
<1>3. QED
  BY <1>1, <1>2, FS_EmptySet DEF Count

\* The server starts so.
LEMMA InvInit ==
  Init => Inv
<1> SUFFICES ASSUME Init
             PROVE  Inv
  OBVIOUS
<1>1. CallsOK /\ LocksOK /\ Count = 0
  BY NothingRuns DEF Init
<1>2. PICK tables \in Databases : Idle(tables)
  BY ServerAssumption DEF Init
<1>3. ConnectionOK /\ depth = 0
  BY <1>2, EmptySeq DEF Idle, ConnectionOK
<1>4. ControlOK
  BY EmptySeq, NoSaveFacts DEF Init, ControlOK, Labels, Verdicts
<1>5. QED
  BY <1>1, <1>3, <1>4 DEF Inv, TypeOK, ControlOK, EndsAtMostOnce, Count, Busy, Held

\* And is started again after a crash on what the file holds.
LEMMA CrashStep ==
  ASSUME Inv, Crash
  PROVE  Inv'
<1>1. /\ pc' = [p \in Processes |-> "idle"]
      /\ request' = [p \in Processes |-> Nothing]
      /\ local' = [p \in Processes |-> Nothing]
      /\ verdict' = [p \in Processes |-> "none"]
      /\ read' = [p \in Processes |-> 0]
      /\ saving' = [p \in Processes |-> NoSave]
      /\ queue' = [c \in Concerts |-> <<>>]
      /\ outcome' = outcome
  BY DEF Crash
<1>2. CallsOK' /\ LocksOK'
  BY <1>1, NoSaveFacts DEF CallsOK, CallOK, Fits, LocksOK, LockOK, InCall, ReserveLabels
<1>3. Busy' = {} /\ Held' = {}
  BY <1>1, NoSaveFacts DEF Busy, InTransaction, Held, OwnSavepoint, HasSavepoint
<1>4. ConnectionOK' /\ depth' = 0
  BY EmptySeq DEF Crash, Reconnect, ConnectionOK, Inv, TypeOK
<1>5. EndsAtMostOnce'
  BY <1>3, <1>4, FS_EmptySet DEF EndsAtMostOnce, Busy, Held
<1>6. ControlOK'
  BY <1>1, EmptySeq, NoSaveFacts DEF ControlOK, Labels, Verdicts, Inv, TypeOK
<1>7. QED
  BY <1>2, <1>4, <1>5, <1>6 DEF Inv, TypeOK, ControlOK

\* Whatever happens next.
LEMMA InvNext ==
  Inv /\ [Next]_vars => Inv'
<1> SUFFICES ASSUME Inv, [Next]_vars
             PROVE  Inv'
  OBVIOUS
<1>1. CASE UNCHANGED vars
  <2>1. UNCHANGED <<connection, pc, request, local, verdict, read, saving, queue, outcome>>
    BY <1>1 DEF vars, control
  <2>2. ConnectionOK' /\ depth' = depth
    BY <2>1, SelectType DEF Inv, TypeOK
  <2>3. EndsAtMostOnce'
    BY <2>1, <2>2, SameBusy DEF Inv, EndsAtMostOnce, Count, Busy, Held
  <2>4. CallsOK' /\ LocksOK'
    BY <2>1 DEF Inv, CallsOK, CallOK, LocksOK, LockOK, InCall, InTransaction
  <2>5. QED
    BY <2>1, <2>2, <2>3, <2>4 DEF Inv, TypeOK
<1>2. ASSUME NEW p \in Clients, NEW r \in Requests, Call(p, r)
      PROVE  Inv'
  BY <1>2, CallStep DEF Processes
<1>3. ASSUME NEW p \in CronRuns, Call(p, CleanupRun)
      PROVE  Inv'
  BY <1>3, CallStep DEF Processes
<1>4. ASSUME NEW p \in Processes, Step(p)
      PROVE  Inv'
  BY <1>4, LockStep, BeginStep, ReserveStep, SaveStep, PurchaseStep,
         CleanupStep, EndStep DEF Step
<1>5. QED
  BY <1>1, <1>2, <1>3, <1>4, TickStep, CrashStep DEF Next

\* The invariant holds of every behaviour of the server.
THEOREM Invariance == Spec => []Inv
<1>1. QED
  BY InvInit, InvNext, PTL DEF Spec

\* However handlers, cleanup runs and crashes interleave, no counter of stock goes
\* below zero, the file is what the last commit of the outermost transaction left,
\* and the queues hold clients.
THEOREM TypeCorrect == Spec => []TypeOK
<1>1. Inv => TypeOK
  BY DEF Inv
<1>2. QED
  BY <1>1, Invariance, PTL

\* The runner counts at least the transactions of the calls in flight: no call goes
\* through commit or rollback more often than it has begun.
THEOREM EndsOnce == Spec => []EndsAtMostOnce
<1>1. Inv => EndsAtMostOnce
  BY DEF Inv
<1>2. QED
  BY <1>1, Invariance, PTL

\* withConcertLock keeps two pessimistic calls for one concert apart from BEGIN to
\* their end, although their transactions are savepoints of others.
THEOREM Exclusive == Spec => []LockIsExclusive
<1>1. Inv => LockIsExclusive
  BY HeadsQueue DEF LockIsExclusive
<1>2. QED
  BY <1>1, Invariance, PTL
=============================================================================
