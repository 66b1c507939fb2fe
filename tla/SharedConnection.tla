-------------------------- MODULE SharedConnection --------------------------
(***************************************************************************)
(* The one connection of the process, modelled from how the services use   *)
(* it.  createQueryRunner() of the sqlite driver always hands out the same *)
(* query runner, and release() does not close it, so a service that starts *)
(* a transaction while another one has not ended gets a savepoint in it.   *)
(*                                                                         *)
(* The runner keeps a depth and a flag.  It reads the depth when it sends  *)
(* BEGIN, COMMIT, ROLLBACK or their savepoint forms, and moves it when the *)
(* answer is back: `read' below is the depth that was read.  A savepoint   *)
(* is named after the depth it was opened at.                              *)
(*                                                                         *)
(* `undo' is SQLite's stack of transactions and savepoints: the name of    *)
(* each, and the database as it was when it was opened.                    *)
(***************************************************************************)
EXTENDS TicketTables, Sequences

VARIABLES
  db,      \* what the connection reads, uncommitted writes included
  disk,    \* what database.sqlite holds after a crash
  undo,    \* the open transaction and its savepoints, oldest first
  depth,   \* transactionDepth of the query runner
  active   \* isTransactionActive of the query runner

connection == <<db, disk, undo, depth, active>>

Databases ==
  [listed: SUBSET Concerts, stock: [Concerts -> Nat], version: [Concerts -> Nat],
   tickets: TicketTable, reservations: ReservationTable]

\* Outside a transaction nothing is pending, and the oldest entry of the stack
\* was opened on what is on disk.
ConnectionOK ==
  /\ db \in Databases /\ disk \in Databases
  /\ undo \in Seq([name: Nat, before: Databases])
  /\ disk = IF undo = <<>> THEN db ELSE undo[1].before
  /\ depth \in Nat /\ active \in BOOLEAN

Idle(tables) ==
  /\ db = tables /\ disk = tables /\ undo = <<>>
  /\ depth = 0 /\ active = FALSE

-----------------------------------------------------------------------------
(* Transactions. *)

\* startTransaction() marks the runner as active before the database answers.
SendStart ==
  /\ active' = TRUE
  /\ UNCHANGED <<db, disk, undo, depth>>

\* BEGIN fails inside a transaction; SAVEPOINT never does.
Opens(read) == read > 0 \/ undo = <<>>

StartTransaction(read) ==
  /\ undo' = Append(undo, [name |-> read, before |-> db])
  /\ depth' = depth + 1
  /\ UNCHANGED <<db, disk, active>>

\* COMMIT and ROLLBACK need a transaction; RELEASE and ROLLBACK TO a savepoint
\* with the name one below the depth that was read.
Entries(read) ==
  {i \in DOMAIN undo : IF read > 1 THEN undo[i].name = read - 1 ELSE i = 1}

Closes(read) == Entries(read) # {}

\* Of several savepoints with that name the newest is meant.
Newest(read) == {i \in Entries(read) : \A j \in Entries(read) : j <= i}

Ended(read) ==
  /\ depth' = depth - 1
  /\ active' = (read > 1 /\ active)

CommitTransaction(read) ==
  \E i \in Newest(read) :
    /\ undo' = SubSeq(undo, 1, i - 1)
    /\ disk' = IF i = 1 THEN db ELSE disk
    /\ UNCHANGED db
    /\ Ended(read)

\* ROLLBACK TO leaves the savepoint itself on the stack.
RollbackTransaction(read) ==
  \E i \in Newest(read) :
    /\ db' = undo[i].before
    /\ undo' = IF read > 1 THEN SubSeq(undo, 1, i) ELSE <<>>
    /\ UNCHANGED disk
    /\ Ended(read)

-----------------------------------------------------------------------------
(* Other statements. *)

\* One INSERT or UPDATE; outside a transaction it is committed at once.
Write(new) ==
  /\ db' = new
  /\ disk' = IF undo = <<>> THEN new ELSE disk
  /\ UNCHANGED <<undo, depth>>

Execute(new) == Write(new) /\ UNCHANGED active

\* The process ends: the journal rolls the file back when it is opened again.
Reconnect ==
  /\ db' = disk /\ undo' = <<>>
  /\ depth' = 0 /\ active' = FALSE
  /\ UNCHANGED disk

\* The clock is the same for every version of the tables.
PassTime ==
  LET Older(d) == [d EXCEPT !.reservations = Age(@)]
  IN  /\ db' = Older(db)
      /\ disk' = Older(disk)
      /\ undo' = [i \in DOMAIN undo |-> [undo[i] EXCEPT !.before = Older(@)]]
      /\ UNCHANGED <<depth, active>>
=============================================================================
