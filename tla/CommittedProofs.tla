--------------------------- MODULE CommittedProofs ---------------------------
(***************************************************************************)
(* Proofs about what overlapping calls cannot break: however transactions  *)
(* become savepoints of each other and are rolled back by other calls than *)
(* those that began them, no row of the file is lost, and no ticket has    *)
(* two.                                                                    *)
(***************************************************************************)
EXTENDS ServerProofs

-----------------------------------------------------------------------------
(* The invariant. *)

\* Every row of d is a row of e.
Grows(d, e) ==
  \A i \in ReservationIds : IsRow(d.reservations, i) => IsRow(e.reservations, i)

\* No two rows of d are for one ticket.
Clean(d) == UniqueTicketIds(d.reservations)

\* The stack of transactions and savepoints: each has the rows of those below it,
\* and the database has them all; the UNIQUE constraint holds of every version.
Stacked ==
  /\ Clean(db)
  /\ \A i \in 1 .. Len(undo) :
       /\ Clean(undo[i].before)
       /\ Grows(undo[i].before, db)
       /\ \A j \in 1 .. i : Grows(undo[j].before, undo[i].before)

\* The inductive invariant.
InvStacked == Inv /\ Stacked

\* What every step of the connection must keep.
Kept == Stacked' /\ Grows(disk, disk')

LEMMA GrowsFacts ==
  /\ \A d : Grows(d, d)
  /\ \A d, e, f : Grows(d, e) /\ Grows(e, f) => Grows(d, f)
BY DEF Grows

\* The rows of the file are in the database.
LEMMA DiskGrows ==
  ASSUME ConnectionOK, Stacked
  PROVE  Grows(disk, db) /\ Clean(disk)
<1>1. CASE undo = <<>>
  BY <1>1, GrowsFacts DEF ConnectionOK, Stacked
<1>2. CASE undo # <<>>
  <2>1. 1 \in 1 .. Len(undo) /\ disk = undo[1].before
    BY <1>2, StackFacts DEF ConnectionOK
  <2>2. QED
    BY <2>1 DEF Stacked
<1>3. QED
  BY <1>1, <1>2

-----------------------------------------------------------------------------
(* The connection. *)

LEMMA NothingKept ==
  ASSUME UNCHANGED <<db, disk, undo>>, Stacked
  PROVE  Kept
<1>1. Stacked'
  BY DEF Stacked, Grows, Clean
<1>2. QED
  BY <1>1, GrowsFacts DEF Kept

\* A statement that takes no row away from the database.
LEMMA WriteKept ==
  ASSUME ConnectionOK, Stacked, NEW new, Grows(db, new), Clean(new), Write(new)
  PROVE  Kept
<1>1. undo' = undo /\ db' = new /\ disk' = IF undo = <<>> THEN new ELSE disk
  BY DEF Write
<1>2. Stacked'
  BY <1>1, GrowsFacts DEF Stacked, Clean, Grows
<1>3. Grows(disk, disk')
  BY <1>1, GrowsFacts DEF ConnectionOK
<1>4. QED
  BY <1>2, <1>3 DEF Kept

\* BEGIN and SAVEPOINT.
LEMMA StartKept ==
  ASSUME ConnectionOK, Stacked, NEW n \in Nat, StartTransaction(n)
  PROVE  Kept
<1> USE DEF StartTransaction
<1>1. [name |-> n, before |-> db] \in Entry
  BY DEF ConnectionOK, Entry
<1>2. /\ Len(undo') = Len(undo) + 1 /\ Len(undo) \in Nat
      /\ \A i \in 1 .. Len(undo) : undo'[i] = undo[i]
      /\ undo'[Len(undo) + 1].before = db
  BY <1>1, StackFacts, AppendProperties
<1>3. ASSUME NEW i \in 1 .. Len(undo')
      PROVE  /\ Clean(undo'[i].before)
             /\ Grows(undo'[i].before, db)
             /\ \A j \in 1 .. i : Grows(undo'[j].before, undo'[i].before)
  <2>1. CASE i = Len(undo) + 1
    BY <1>2, <2>1, GrowsFacts DEF Stacked
  <2>2. CASE i # Len(undo) + 1
    <3>1. i \in 1 .. Len(undo) /\ \A j \in 1 .. i : j \in 1 .. Len(undo)
      BY <1>2, <2>2
    <3>2. QED
      BY <1>2, <3>1 DEF Stacked
  <2>3. QED
    BY <2>1, <2>2
<1>4. Stacked'
  BY <1>3 DEF Stacked, Grows, Clean
<1>5. QED
  BY <1>4, GrowsFacts DEF Kept

\* COMMIT and ROLLBACK cut the stack; ROLLBACK goes back to the rows of the entry
\* that is ended, which has those of all entries that are left.
LEMMA EndKept ==
  ASSUME ConnectionOK, Stacked, NEW n \in Nat,
         CommitTransaction(n) \/ RollbackTransaction(n)
  PROVE  Kept
<1>1. PICK i \in Newest(n) :
         \/ /\ undo' = SubSeq(undo, 1, i - 1)
            /\ disk' = (IF i = 1 THEN db ELSE disk)
            /\ db' = db
         \/ /\ undo' = (IF n > 1 THEN SubSeq(undo, 1, i) ELSE <<>>)
            /\ db' = undo[i].before
            /\ disk' = disk
  BY DEF CommitTransaction, RollbackTransaction
<1>2. i \in 1 .. Len(undo)
  BY StackFacts DEF Newest, Entries
<1>3. Grows(disk, disk')
  BY <1>1, DiskGrows, GrowsFacts
<1>4. ASSUME NEW k \in 0 .. Len(undo)
      PROVE  /\ Len(SubSeq(undo, 1, k)) = k
             /\ \A j \in 1 .. k : SubSeq(undo, 1, k)[j] = undo[j]
  <2>1. \A j \in 1 .. k : undo[j] \in Entry
    BY StackFacts
  <2>2. /\ Len(SubSeq(undo, 1, k)) = IF 1 <= k THEN k - 1 + 1 ELSE 0
        /\ \A j \in 1 .. k - 1 + 1 : SubSeq(undo, 1, k)[j] = undo[1 + j - 1]
    BY <2>1, StackFacts, SubSeqProperties
  <2>3. QED
    BY <2>2, StackFacts
<1>5. /\ i - 1 \in 0 .. Len(undo) /\ i \in 0 .. Len(undo) /\ 0 \in 0 .. Len(undo)
      /\ Len(<<>>) = 0
  BY <1>2, StackFacts
<1>6. PICK k \in 0 .. Len(undo) :
         /\ Len(undo') = k
         /\ \A j \in 1 .. k : undo'[j] = undo[j]
         /\ db' = db \/ (db' = undo[i].before /\ k <= i)
  <2>1. CASE undo' = SubSeq(undo, 1, i - 1) /\ db' = db
    BY <1>4, <1>5, <2>1
  <2>2. CASE undo' = SubSeq(undo, 1, i) /\ db' = undo[i].before
    BY <1>4, <1>5, <2>2
  <2>3. CASE undo' = <<>> /\ db' = undo[i].before
    BY <1>2, <1>5, <2>3
  <2>4. QED
    BY <1>1, <2>1, <2>2, <2>3
<1>7. ASSUME NEW j \in 1 .. k
      PROVE  /\ Clean(undo'[j].before)
             /\ Grows(undo'[j].before, db')
             /\ \A h \in 1 .. j : Grows(undo'[h].before, undo'[j].before)
  <2>1. j \in 1 .. Len(undo) /\ \A h \in 1 .. j : h \in 1 .. k
    BY <1>7, StackFacts
  <2>2. db' = undo[i].before => j \in 1 .. i \/ db' = db
    BY <1>2, <1>6
  <2>3. QED
    BY <1>2, <1>6, <2>1, <2>2 DEF Stacked
<1>8. Stacked'
  <2>1. Clean(db')
    BY <1>2, <1>6 DEF Stacked
  <2>2. QED
    BY <1>6, <1>7, <2>1 DEF Stacked, Grows, Clean
<1>9. QED
  BY <1>3, <1>8 DEF Kept

\* The clock adds and removes no row.
LEMMA TimeKept ==
  ASSUME ConnectionOK, Stacked, PassTime
  PROVE  Kept
<1> DEFINE Older(d) == [d EXCEPT !.reservations = Age(@)]
<1>1. /\ db' = Older(db) /\ disk' = Older(disk)
      /\ undo' = [i \in 1 .. Len(undo) |-> [undo[i] EXCEPT !.before = Older(@)]]
  BY StackFacts DEF PassTime
<1>2. ASSUME NEW d \in Databases, NEW i \in ReservationIds
      PROVE  /\ IsRow(Older(d).reservations, i) <=> IsRow(d.reservations, i)
             /\ IsRow(d.reservations, i) =>
                  Older(d).reservations[i].ticketId = d.reservations[i].ticketId
  <2>1. d.reservations[i] \in ReservationRows \cup {NoRow}
    BY DEF Databases, ReservationTable
  <2>2. Older(d).reservations[i] =
          IF IsPending(d.reservations, i) /\ d.reservations[i].left >= 0
          THEN [d.reservations[i] EXCEPT !.left = @ - 1] ELSE d.reservations[i]
    BY DEF Databases, Age
  <2>3. /\ [d.reservations[i] EXCEPT !.left = @ - 1].status = d.reservations[i].status
        /\ IsRow(d.reservations, i) =>
             [d.reservations[i] EXCEPT !.left = @ - 1].ticketId = d.reservations[i].ticketId
    BY <2>1 DEF ReservationRows, NoRow, IsRow
  <2>4. QED
    BY <2>2, <2>3 DEF IsRow
<1>3. \A d, e \in Databases : Grows(d, e) => Grows(Older(d), Older(e))
  BY <1>2 DEF Grows
<1>4. /\ \A d \in Databases : Grows(d, Older(d))
      /\ \A d \in Databases : Clean(d) => Clean(Older(d))
  BY <1>2 DEF Grows, Clean, UniqueTicketIds
<1> HIDE DEF Older
<1>5. /\ Len(undo') = Len(undo)
      /\ \A i \in 1 .. Len(undo) : /\ undo[i].before \in Databases
                                   /\ undo'[i].before = Older(undo[i].before)
  BY <1>1, StackFacts DEF Entry
<1>6. db \in Databases /\ disk \in Databases
  BY DEF ConnectionOK
<1>7. ASSUME NEW i \in 1 .. Len(undo)
      PROVE  /\ Clean(undo'[i].before)
             /\ Grows(undo'[i].before, db')
             /\ \A j \in 1 .. i : Grows(undo'[j].before, undo'[i].before)
  <2>1. \A j \in 1 .. i : j \in 1 .. Len(undo)
    BY StackFacts
  <2>2. QED
    BY <1>1, <1>3, <1>4, <1>5, <1>6, <2>1 DEF Stacked
<1>8. Stacked'
  <2>1. Clean(db')
    BY <1>1, <1>4, <1>6 DEF Stacked
  <2>2. QED
    BY <1>5, <1>7, <2>1 DEF Stacked, Grows, Clean
<1>9. QED
  BY <1>1, <1>4, <1>6, <1>8 DEF Kept

\* A crash empties the stack.
LEMMA ReconnectKept ==
  ASSUME ConnectionOK, Stacked, Reconnect
  PROVE  Kept
<1>1. undo' = <<>> /\ disk' = disk /\ db' = disk
  BY DEF Reconnect
<1>2. Stacked'
  BY <1>1, DiskGrows DEF Stacked, Clean
<1>3. QED
  BY <1>1, <1>2, GrowsFacts DEF Kept

-----------------------------------------------------------------------------
(* The statements of the functions. *)

\* An UPDATE of stock or tickets leaves the table of reservations alone.
LEMMA OtherTables ==
  ASSUME ConnectionOK
  PROVE  /\ \A c, n : StockMoved(c, n).reservations = db.reservations
         /\ \A tk : [db EXCEPT !.tickets = tk].reservations = db.reservations
BY DEF ConnectionOK, Databases, StockMoved

LEMMA OtherKept ==
  ASSUME ConnectionOK, Stacked, NEW new, new.reservations = db.reservations, Write(new)
  PROVE  Kept
<1>1. Grows(db, new) /\ Clean(new)
  BY DEF Grows, Stacked, Clean
<1>2. QED
  BY <1>1, WriteKept

\* An INSERT or UPDATE of reservations adds a row, or replaces one by a row, and the
\* constraint is checked.
LEMMA RowSaved ==
  ASSUME ConnectionOK, Stacked, NEW i \in ReservationIds,
         NEW row \in ReservationRows \cup {NoRow},
         row = NoRow => db.reservations[i] = NoRow,
         row # NoRow => \A j \in ReservationIds \ {i} :
           IsRow(db.reservations, j) => db.reservations[j].ticketId # row.ticketId,
         Write([db EXCEPT !.reservations[i] = row])
  PROVE  Kept
<1> DEFINE new == [db EXCEPT !.reservations[i] = row]
<1>1. \A j \in ReservationIds :
        new.reservations[j] = IF j = i THEN row ELSE db.reservations[j]
  BY DEF ConnectionOK, Databases, ReservationTable
<1>2. row # NoRow => row.status # "NONE"
  BY DEF ReservationRows, ReservationStatuses
<1>3. NoRow.status = "NONE"
  BY DEF NoRow
<1> HIDE DEF new
<1>4. Grows(db, new)
  BY <1>1, <1>2, <1>3 DEF Grows, IsRow
<1>5. Clean(new)
  BY <1>1, <1>2, <1>3 DEF Stacked, Clean, UniqueTicketIds, IsRow
<1>6. QED
  BY <1>4, <1>5, WriteKept DEF new

LEMMA SaveRowKept ==
  ASSUME InvStacked, NEW p \in Processes, pc[p] \in {"saveRow", "cancelRow"},
         NEW i \in ReservationIds, NEW row \in ReservationRows,
         LoadRow(p, i, row) \/ WriteRow(p, i, row)
  PROVE  Kept
<1>1. ConnectionOK /\ Stacked
  BY DEF InvStacked, Inv, TypeOK
<1>2. CASE UNCHANGED <<db, disk, undo>>
  BY <1>1, <1>2, NothingKept
<1>3. CASE WriteRow(p, i, row) /\ ~Clashes(i, saving[p].old, row)
  <2> DEFINE now == db.reservations[i]
             old == saving[p].old
             new == Updated(now, old, row)
  <2>1. now \in ReservationRows \cup {NoRow} /\ old \in ReservationRows \cup {NoRow}
    BY <1>1 DEF ConnectionOK, Databases, ReservationTable,
                InvStacked, Inv, CallsOK, CallOK, SaveFits
  <2>2. new \in ReservationRows \cup {NoRow}
    BY <2>1, UpdatedType
  <2>3. new = NoRow => now = NoRow
    <3>1. CASE old = NoRow \/ now = NoRow
      BY <3>1, <2>1 DEF Updated, ReservationRows, ReservationStatuses, NoRow
    <3>2. CASE old # NoRow /\ now # NoRow
      <4>1. now.status # "NONE" /\ row.status # "NONE"
        BY <2>1, <3>2 DEF ReservationRows, ReservationStatuses
      <4>2. new.status \in {now.status, row.status}
        BY <3>2 DEF Updated
      <4>3. QED
        BY <4>1, <4>2 DEF NoRow
    <3>3. QED
      BY <3>1, <3>2
  <2>4. new # NoRow => \A j \in ReservationIds \ {i} :
          IsRow(db.reservations, j) => db.reservations[j].ticketId # new.ticketId
    BY <1>3 DEF Clashes
  <2>5. Write([db EXCEPT !.reservations[i] = new])
    BY <1>3 DEF WriteRow, Execute, SaveFails
  <2>6. QED
    BY <1>1, <2>2, <2>3, <2>4, <2>5, RowSaved
<1>4. QED
  BY <1>2, <1>3 DEF LoadRow, WriteRow, Load, Select, SaveFails, EndSave, connection

LEMMA ReserveKept ==
  ASSUME InvStacked, NEW p \in Processes,
         \/ Find(p) \/ Take(p) \/ Diagnose(p) \/ Pick(p)
         \/ GiveBack(p) \/ Mark(p) \/ Insert(p)
  PROVE  Kept
<1>1. ConnectionOK /\ Stacked
  BY DEF InvStacked, Inv, TypeOK
<1>2. CASE UNCHANGED connection
  BY <1>1, <1>2, NothingKept DEF connection
<1>3. ASSUME NEW c, NEW n, Execute(StockMoved(c, n))
      PROVE  Kept
  BY <1>1, <1>3, OtherTables, OtherKept DEF Execute
<1>4. CASE Mark(p)
  BY <1>1, <1>4, OtherTables, OtherKept DEF Mark
<1>5. CASE Insert(p)
  <2>1. CASE SaveFails(p)
    BY <1>1, <2>1, NothingKept DEF SaveFails, EndSave, Select, connection
  <2>2. ASSUME NEW id \in ReservationIds, NEW u \in Users, NEW t \in Tickets, NEW c \in Concerts,
               TicketIdIsFree(db.reservations, t),
               Execute([db EXCEPT !.reservations = InsertReservation(@, id, u, t, c)])
        PROVE  Kept
    <3> DEFINE row == [userId |-> u, ticketId |-> t, concertId |-> c,
                       status |-> "PENDING", left |-> TTL]
    <3>1. row \in ReservationRows
      BY TablesAssumption DEF ReservationRows, ReservationStatuses
    <3>2. row # NoRow
      BY DEF NoRow
    <3>3. Write([db EXCEPT !.reservations[id] = row])
      BY <2>2 DEF Execute, InsertReservation
    <3>4. \A j \in ReservationIds \ {id} :
            IsRow(db.reservations, j) => db.reservations[j].ticketId # row.ticketId
      BY <2>2 DEF TicketIdIsFree
    <3> HIDE DEF row
    <3>5. QED
      BY <1>1, <3>1, <3>2, <3>3, <3>4, RowSaved
  <2>3. /\ pc[p] = "insert" /\ (saving[p].stage = "write" => local[p].first \in Tickets)
        /\ saving[p].stage = "write"
    BY <1>5 DEF Insert, Saving, At, InvStacked, Inv, CallsOK, CallOK, SaveFits, Batches
  <2>4. request[p].user \in Users /\ request[p].concert \in Concerts
    BY <2>3, ReserveFacts DEF ReserveLabels, InvStacked
  <2>5. QED
    BY <1>5, <2>1, <2>2, <2>3, <2>4 DEF Insert
<1>6. QED
  BY <1>2, <1>3, <1>4, <1>5 DEF Find, Take, Diagnose, Pick, GiveBack, Select

LEMMA PurchaseKept ==
  ASSUME InvStacked, NEW p \in Processes, FindRow(p) \/ Complete(p) \/ SaveTicket(p)
  PROVE  Kept
<1>1. ConnectionOK /\ Stacked
  BY DEF InvStacked, Inv, TypeOK
<1>2. CASE FindRow(p)
  BY <1>1, <1>2, NothingKept DEF FindRow, Select, connection
<1>3. CASE Complete(p)
  <2>1. pc[p] = "saveRow" /\ local[p] \in ReservationRows
    BY <1>3 DEF Complete, Saving, At, InvStacked, Inv, CallsOK, CallOK, Fits
  <2>2. [local[p] EXCEPT !.status = "COMPLETED"] \in ReservationRows
    BY <2>1 DEF ReservationRows, ReservationStatuses
  <2>3. request[p].id \in ReservationIds
    <3>1. request[p] \in Requests /\ request[p].kind = "purchase"
      BY <2>1 DEF InvStacked, Inv, CallsOK, CallOK, Fits
    <3>2. QED
      BY <3>1 DEF Requests, ReserveKinds
  <2>4. QED
    BY <1>3, <2>1, <2>2, <2>3, SaveRowKept DEF Complete
<1>4. CASE SaveTicket(p)
  <2>1. CASE UNCHANGED <<db, disk, undo>>
    BY <1>1, <2>1, NothingKept
  <2>2. CASE WriteTicket(p)
    BY <1>1, <2>2, OtherTables, OtherKept DEF WriteTicket, Execute
  <2>3. QED
    BY <1>4, <2>1, <2>2 DEF SaveTicket, LoadTicket, Select, Load, connection
<1>5. QED
  BY <1>2, <1>3, <1>4

LEMMA CleanupKept ==
  ASSUME InvStacked, NEW p \in Processes,
         FindExpired(p) \/ Cancel(p) \/ FreeTicket(p) \/ GiveUnit(p)
  PROVE  Kept
<1>1. ConnectionOK /\ Stacked
  BY DEF InvStacked, Inv, TypeOK
<1>2. CASE FindExpired(p)
  BY <1>1, <1>2, NothingKept DEF FindExpired, Select, connection
<1>3. CASE Cancel(p)
  <2>1. pc[p] = "cancelRow" /\ local[p] \in Rounds
    BY <1>3 DEF Cancel, Saving, At, InvStacked, Inv, CallsOK, CallOK, Fits
  <2>2. CurrentRow(p) \in ReservationRows /\ Current(p) \in ReservationIds
    BY <2>1 DEF Current, CurrentRow, Rounds
  <2>3. [CurrentRow(p) EXCEPT !.status = "CANCELLED"] \in ReservationRows
    BY <2>2 DEF ReservationRows, ReservationStatuses
  <2>4. QED
    BY <1>3, <2>1, <2>2, <2>3, SaveRowKept DEF Cancel
<1>4. CASE FreeTicket(p)
  BY <1>1, <1>4, OtherTables, OtherKept DEF FreeTicket, Execute
<1>5. CASE GiveUnit(p)
  BY <1>1, <1>5, OtherTables, OtherKept DEF GiveUnit, Execute
<1>6. QED
  BY <1>2, <1>3, <1>4, <1>5

-----------------------------------------------------------------------------
(* Every step, and the theorem. *)

LEMMA StepKept ==
  ASSUME InvStacked, [Next]_vars
  PROVE  Kept
<1>1. /\ ConnectionOK /\ Stacked
      /\ \A p \in Processes : read[p] \in Nat
  BY DEF InvStacked, Inv, TypeOK
<1>2. CASE UNCHANGED <<db, disk, undo>>
  BY <1>1, <1>2, NothingKept
<1>3. CASE UNCHANGED vars
  BY <1>2, <1>3 DEF vars, connection
<1>4. ASSUME NEW p, NEW r, Call(p, r)
      PROVE  Kept
  BY <1>2, <1>4 DEF Call, SendBegin, SendStart, connection
<1>5. ASSUME NEW p \in Processes, Step(p)
      PROVE  Kept
  <2>1. CASE Lock(p)
    BY <1>2, <2>1 DEF Lock, SendBegin, SendStart
  <2>2. CASE Begin(p)
    BY <1>1, <1>2, <2>2, StartKept DEF Begin, connection
  <2>3. CASE Commit(p) \/ Rollback(p)
    BY <1>1, <1>2, <2>3, EndKept DEF Commit, Rollback, connection
  <2>4. CASE Open(p) \/ Close(p) \/ Undo(p) \/ Reload(p)
    BY <1>1, <1>2, <2>4, StartKept, EndKept
       DEF Open, Close, Undo, Reload, EndSave, Select, connection
  <2>5. QED
    BY <1>5, <2>1, <2>2, <2>3, <2>4, ReserveKept, PurchaseKept, CleanupKept DEF Step
<1>6. CASE Tick
  BY <1>1, <1>6, TimeKept DEF Tick
<1>7. CASE Crash
  BY <1>1, <1>7, ReconnectKept DEF Crash
<1>8. QED
  BY <1>3, <1>4, <1>5, <1>6, <1>7 DEF Next

\* The versions of the tables stay stacked.
LEMMA StaysStacked == Spec => []InvStacked
<1>1. Init => InvStacked
  <2> SUFFICES ASSUME Init
               PROVE  InvStacked
    OBVIOUS
  <2>1. PICK tables \in InitialDb : Idle(tables)
    BY DEF Init
  <2>2. Clean(db) /\ undo = <<>>
    BY <2>1, ServerAssumption DEF Idle, Clean
  <2>3. QED
    BY <2>2, InvInit, EmptySeq DEF InvStacked, Stacked
<1>2. InvStacked /\ [Next]_vars => InvStacked'
  BY StepKept, InvNext DEF InvStacked, Kept
<1>3. QED
  BY <1>1, <1>2, PTL DEF Spec

\* However transactions of different calls become savepoints of one another, are
\* committed early or rolled back by the wrong call, and wherever the process dies: a
\* reservation whose row has reached the file keeps a row.
THEOREM CommittedStays == Spec => CommittedRowsStay
<1>1. InvStacked /\ [Next]_vars =>
        [\A i \in ReservationIds :
           IsRow(disk.reservations, i) => IsRow(disk'.reservations, i)]_vars
  BY StepKept DEF Kept, Grows
<1>2. QED
  BY <1>1, StaysStacked, PTL DEF Spec, CommittedRowsStay

\* And for one ticket there is never more than one row, in whatever order the
\* statements of reserves and saves come: what is left of the protection against
\* double booking when nothing keeps the calls apart.
THEOREM OneOwner == Spec => []OneRowPerTicket
<1>1. InvStacked => OneRowPerTicket
  BY DiskGrows DEF InvStacked, Inv, TypeOK, Clean, OneRowPerTicket
<1>2. QED
  BY <1>1, StaysStacked, PTL
=============================================================================
