--------------------------- MODULE TicketingServer ---------------------------
(***************************************************************************)
(* The service as it runs: handlers and the cron job share one event loop  *)
(* and one connection, and give way to each other at every await, that is, *)
(* after every SQL statement.  One action per statement: the database      *)
(* executes it, the function goes on with the answer and sends the next    *)
(* statement.  What it sends is chosen then: the depth that COMMIT and     *)
(* ROLLBACK act on is read one step before they are executed.              *)
(*                                                                         *)
(* save() is several statements: it reads the row by its key and, if there *)
(* is something to write, opens a savepoint of its own unless the runner   *)
(* is marked as active, writes, reads what the database generated and      *)
(* releases that savepoint.                                                *)
(***************************************************************************)
EXTENDS SharedConnection

CONSTANTS
  Clients,     \* each has at most one request in flight
  CronRuns,    \* the runs of the cleanup job that may be in progress at once
  Kinds,       \* the request kinds of an instance
  InitialDb,   \* the databases the server may be started on
  MaxCalls,    \* bound on the calls of a behaviour
  MaxOpen,     \* bound on the calls in flight at once
  MaxCrashes,  \* bound on the crashes of a behaviour
  OneLock,     \* whether calls overlap only when they take the same lock
  TimeFlows,   \* whether the clock may tick while a transaction is open
  InOrder      \* whether statements are executed in the order they were sent

ReserveKinds == {"optimistic", "atomic", "pessimistic"}

ASSUME ServerAssumption ==
  /\ IsFiniteSet(Clients) /\ IsFiniteSet(CronRuns) /\ CronRuns \cap Clients = {}
  /\ Kinds \subseteq ReserveKinds \cup {"purchase", "cleanup"}
  /\ InitialDb \subseteq Databases
  /\ \A tables \in InitialDb : UniqueTicketIds(tables.reservations)
  /\ MaxCalls \in Nat /\ MaxOpen \in Nat \ {0} /\ MaxCrashes \in Nat
  /\ OneLock \in BOOLEAN /\ TimeFlows \in BOOLEAN /\ InOrder \in BOOLEAN

Processes == Clients \cup CronRuns

VARIABLES
  pc,       \* the next statement of each process
  request,  \* what each process was asked to do
  local,    \* what its function has read so far
  verdict,  \* the answer it has decided on
  read,     \* the depth it read when it sent BEGIN, COMMIT or ROLLBACK
  saving,   \* how far a save() has come, if it is in one
  queue,    \* the concert locks: holder first, then the waiting, in order
  acked,    \* the successes the clients were told of
  outcome,  \* how the last call ended
  calls, crashes,
  sent      \* if InOrder: the processes whose statement is in flight, oldest first

control ==
  <<pc, request, local, verdict, read, saving, queue, acked, outcome, calls, crashes>>
vars    == <<connection, control, sent>>

Labels ==
  {"idle", "waiting", "begin", "find", "take", "diagnose", "pick", "giveback",
   "mark", "insert", "findRow", "saveRow", "saveTicket", "findExpired",
   "cancelRow", "freeTicket", "addStock", "commit", "rollback"}

Verdicts ==
  {"none", "reserved", "purchased", "released", "NotFoundError", "ConflictError",
   "ConcurrencyError", "QueryFailedError", "TransactionNotStartedError"}

Requests ==
  [kind: Kinds \cap ReserveKinds, user: Users, concert: Concerts, quantity: Quantities]
    \cup [kind: Kinds \cap {"purchase"}, user: Users, id: ReservationIds]

CleanupRun == [kind |-> "cleanup"]

Nothing == [nothing |-> TRUE]

\* `own': whether the save has a savepoint of its own; `old': the row it loaded.
Stages == {"load", "open", "write", "reload", "close", "undo"}

Saves ==
  [stage: Stages, own: BOOLEAN,
   old: ReservationRows \cup {NoRow} \cup [status: TicketStatuses]]

NoSave == [stage |-> "load", own |-> FALSE, old |-> NoRow]

InCall(p) == pc[p] # "idle"
InTransaction(p) == pc[p] \notin {"idle", "waiting", "begin"}
OwnSavepoint(p) == saving[p].own /\ saving[p].stage # "open"
Quiet == \A p \in Processes : ~InCall(p)

Init ==
  /\ \E tables \in InitialDb : Idle(tables)
  /\ pc = [p \in Processes |-> "idle"]
  /\ request = [p \in Processes |-> Nothing]
  /\ local = [p \in Processes |-> Nothing]
  /\ verdict = [p \in Processes |-> "none"]
  /\ read = [p \in Processes |-> 0]
  /\ saving = [p \in Processes |-> NoSave]
  /\ queue = [c \in Concerts |-> <<>>]
  /\ acked = {} /\ outcome = "none"
  /\ calls = 0 /\ crashes = 0
  /\ sent = <<>>

-----------------------------------------------------------------------------
(* Control. *)

\* The driver hands statements to a pool of threads, so that a later one may
\* overtake an earlier one of another call; with InOrder none does.
Queued(p, label) ==
  LET others == SelectSeq(sent, LAMBDA o : o # p)
  IN  IF InOrder /\ label \notin {"idle", "waiting"} THEN Append(others, p) ELSE others

GotoStage(p, label, save) ==
  /\ pc' = [pc EXCEPT ![p] = label]
  /\ saving' = [saving EXCEPT ![p] = save]
  /\ sent' = Queued(p, label)

Goto(p, label) == GotoStage(p, label, NoSave)

\* The statement p has sent is answered now.
At(p, label) ==
  /\ pc[p] = label
  /\ InOrder => Head(sent) = p

Keep(p, data)  == local' = [local EXCEPT ![p] = data]
Decide(p, v)   == verdict' = [verdict EXCEPT ![p] = v]

\* The part of the control a statement in the middle of a function leaves alone.
Rest == <<request, queue, acked, outcome, calls, crashes>>

\* The next statement is sent, with something to remember or without.
Proceed(p, data, label) ==
  Keep(p, data) /\ Goto(p, label) /\ UNCHANGED <<verdict, read, Rest>>

Continue(p, label) == Proceed(p, local[p], label)

\* Mutant of Unlocked: a call that throws keeps its lock.
UnlockedOnSuccess(p) ==
  IF request[p].kind = "pessimistic" /\ verdict[p] = "reserved"
  THEN [queue EXCEPT ![request[p].concert] = Tail(@)] ELSE queue

\* The lock, if any, goes to the next caller.
Unlocked(p) ==
  IF request[p].kind = "pessimistic"
  THEN [queue EXCEPT ![request[p].concert] = Tail(@)] ELSE queue

Answer(p, result) ==
  /\ Goto(p, "idle")
  /\ outcome' = result
  /\ queue' = Unlocked(p)
  /\ request' = [request EXCEPT ![p] = Nothing]
  /\ Keep(p, Nothing)
  /\ Decide(p, "none")
  /\ read' = [read EXCEPT ![p] = 0]
  /\ UNCHANGED <<calls, crashes>>

Fail(p, error) == Answer(p, error) /\ UNCHANGED acked

\* commitTransaction() and rollbackTransaction() throw unless the runner is
\* marked as active, and are called as soon as the last statement is answered.
Send(p, label, data, v) ==
  IF active'
  THEN /\ Goto(p, label) /\ Keep(p, data) /\ Decide(p, v)
       /\ read' = [read EXCEPT ![p] = depth']
       /\ UNCHANGED Rest
  ELSE Fail(p, "TransactionNotStartedError")

\* The last statement of the try block went well; something in it threw.  When
\* commitTransaction() throws, so does the rollback in the catch block.
Succeed(p, v, data) == Send(p, "commit", data, v)
Throw(p, error)     == Send(p, "rollback", local[p], error)

\* A SELECT.
Select == UNCHANGED connection

-----------------------------------------------------------------------------
(* Calls begin. *)

\* createQueryRunner, connect and startTransaction, without giving way.
SendBegin(p) ==
  /\ SendStart
  /\ Goto(p, "begin")
  /\ read' = [read EXCEPT ![p] = depth]

\* Two requests that queue for the same lock.
SameLock(r, s) ==
  r.kind = "pessimistic" /\ s.kind = "pessimistic" /\ r.concert = s.concert

Call(p, r) ==
  /\ ~InCall(p)
  /\ calls < MaxCalls
  /\ Cardinality({o \in Processes : InCall(o)}) < MaxOpen
  /\ OneLock => \A o \in Processes : InCall(o) => SameLock(r, request[o])
  /\ calls' = calls + 1
  /\ request' = [request EXCEPT ![p] = r]
  /\ \/ /\ r.kind = "pessimistic"
        /\ queue' = [queue EXCEPT ![r.concert] = Append(@, p)]
        /\ Goto(p, "waiting")
        /\ UNCHANGED <<connection, read>>
     \/ /\ r.kind # "pessimistic"
        /\ SendBegin(p)
        /\ UNCHANGED queue
  /\ UNCHANGED <<local, verdict, acked, outcome, crashes>>

\* Mutant of Lock: nobody waits.
LockAnyone(p) ==
  /\ pc[p] = "waiting"
  /\ SendBegin(p)
  /\ UNCHANGED <<local, verdict, Rest>>

\* withConcertLock: the callback runs when every earlier caller has finished.
Lock(p) ==
  /\ pc[p] = "waiting"
  /\ Head(queue[request[p].concert]) = p
  /\ SendBegin(p)
  /\ UNCHANGED <<local, verdict, Rest>>

FirstStatement(kind) ==
  CASE kind = "purchase" -> "findRow"
    [] kind = "cleanup"  -> "findExpired"
    [] OTHER             -> "find"

\* startTransaction() stands before the try block: nothing catches its error.
Begin(p) ==
  /\ At(p, "begin")
  /\ \/ /\ Opens(read[p])
        /\ StartTransaction(read[p])
        /\ Continue(p, FirstStatement(request[p].kind))
     \/ /\ ~Opens(read[p])
        /\ UNCHANGED connection
        /\ Fail(p, "QueryFailedError")

-----------------------------------------------------------------------------
(* Calls end. *)

\* A reserve keeps the id of its row and its batch, a purchase its row.
Acknowledgement(p) ==
  CASE verdict[p] = "reserved"  ->
         {[what |-> "reserved", to |-> request[p].user, id |-> local[p].id,
           ticket |-> local[p].first]}
    [] verdict[p] = "purchased" ->
         {[what |-> "purchased", to |-> request[p].user, id |-> request[p].id,
           ticket |-> local[p].ticketId]}
    [] OTHER -> {}

\* Mutant of Commit: the answer is made inside the try block, and cannot be.
CommitThenThrow(p) ==
  /\ At(p, "commit")
  /\ IF Closes(read[p]) THEN CommitTransaction(read[p]) ELSE UNCHANGED connection
  /\ Throw(p, "QueryFailedError")

Commit(p) ==
  /\ At(p, "commit")
  /\ \/ /\ Closes(read[p])
        /\ CommitTransaction(read[p])
        /\ acked' = acked \cup Acknowledgement(p)
        /\ Answer(p, verdict[p])
     \/ /\ ~Closes(read[p])
        /\ UNCHANGED connection
        /\ Throw(p, "QueryFailedError")

\* Mutant of Rollback: the catch block only answers.
AnswerOnly(p) ==
  /\ At(p, "rollback")
  /\ UNCHANGED connection
  /\ Fail(p, verdict[p])

Rollback(p) ==
  /\ At(p, "rollback")
  /\ \/ Closes(read[p])  /\ RollbackTransaction(read[p]) /\ Fail(p, verdict[p])
     \/ ~Closes(read[p]) /\ UNCHANGED connection /\ Fail(p, "QueryFailedError")

-----------------------------------------------------------------------------
(* save(): EntityPersistExecutor of the ORM, modelled from its calls. *)

Saving(p, label, stage) == At(p, label) /\ saving[p].stage = stage

\* The save goes on with its next statement.
Stage(p, stage) == GotoStage(p, pc[p], [saving[p] EXCEPT !.stage = stage])

\* The SELECT of a save that has something to write.
Load == UNCHANGED <<db, disk, undo, depth>>

\* There is something to write: unless the runner is marked as active, a
\* savepoint comes first, for which startTransaction() leaves the mark.
Persist(p, label, old) ==
  /\ GotoStage(p, label, [stage |-> IF active THEN "write" ELSE "open",
                          own |-> ~active, old |-> old])
  /\ read' = [read EXCEPT ![p] = IF active THEN @ ELSE depth]
  /\ active' = TRUE
  /\ UNCHANGED <<local, verdict, Rest>>

\* What the function does after its save().
Saved(p) ==
  \/ pc[p] = "insert"     /\ Succeed(p, "reserved", local[p])
  \/ pc[p] = "saveRow"    /\ Continue(p, "saveTicket")
  \/ pc[p] = "saveTicket" /\ Succeed(p, "purchased", local[p])
  \/ pc[p] = "cancelRow"  /\ Continue(p, "freeTicket")

\* A save ends its savepoint as a function ends its transaction, but never finds
\* the mark gone: what takes it away is a COMMIT of depth 1.
EndSave(p, stage) ==
  /\ active
  /\ Select
  /\ Stage(p, stage)
  /\ read' = [read EXCEPT ![p] = depth]
  /\ UNCHANGED <<local, verdict, Rest>>

SaveFails(p) ==
  \/ saving[p].own /\ EndSave(p, "undo")
  \/ ~saving[p].own /\ Select /\ Throw(p, "QueryFailedError")

Sites == {"insert", "saveRow", "saveTicket", "cancelRow"}

SavingAt(p, stage) == \E label \in Sites : Saving(p, label, stage)

Open(p) ==
  /\ SavingAt(p, "open")
  /\ StartTransaction(read[p])
  /\ Stage(p, "write")
  /\ UNCHANGED <<local, verdict, read, Rest>>

Reload(p) ==
  /\ SavingAt(p, "reload")
  /\ \/ saving[p].own /\ EndSave(p, "close")
     \/ ~saving[p].own /\ Select /\ Saved(p)

Close(p) ==
  /\ SavingAt(p, "close")
  /\ \/ Closes(read[p]) /\ CommitTransaction(read[p]) /\ Saved(p)
     \/ ~Closes(read[p]) /\ EndSave(p, "undo")

\* An error of the rollback itself is dropped.
Undo(p) ==
  /\ SavingAt(p, "undo")
  /\ \/ Closes(read[p]) /\ RollbackTransaction(read[p])
     \/ ~Closes(read[p]) /\ Select
  /\ Throw(p, "QueryFailedError")

-----------------------------------------------------------------------------
(* Reserve: reserveTicketOptimistic, reserveTicketAtomic and, through the   *)
(* lock, reserveTicketPessimistic.                                          *)

\* UPDATE concerts SET availableStock = availableStock + n; the query builder
\* also bumps the version column of every row it updates.
StockMoved(c, n) ==
  [db EXCEPT !.stock = AddStock(@, c, n), !.version[c] = @ + 1]

Find(p) ==
  LET c == request[p].concert
  IN  /\ At(p, "find")
      /\ Select
      /\ \/ c \notin db.listed /\ Throw(p, "NotFoundError")
         \/ c \in db.listed /\ Proceed(p, [version |-> db.version[c]], "take")

\* Mutant of CanTake: the version alone is trusted.
CanTakeIfUnchanged(p) ==
  request[p].kind = "optimistic" => db.version[request[p].concert] = local[p].version

\* The WHERE clause of the guarded UPDATE.
CanTake(p) ==
  LET c == request[p].concert
  IN  /\ db.stock[c] >= request[p].quantity
      /\ request[p].kind = "optimistic" => db.version[c] = local[p].version

Take(p) ==
  /\ At(p, "take")
  /\ \/ /\ CanTake(p)
        /\ Execute(StockMoved(request[p].concert, -request[p].quantity))
        /\ Continue(p, "pick")
     \/ /\ ~CanTake(p) /\ request[p].kind # "optimistic"
        /\ Select /\ Throw(p, "ConflictError")
     \/ /\ ~CanTake(p) /\ request[p].kind = "optimistic"
        /\ Select /\ Proceed(p, Nothing, "diagnose")

\* The second SELECT of the optimistic handler tells why no row was updated.
Diagnose(p) ==
  /\ At(p, "diagnose")
  /\ Select
  /\ IF db.stock[request[p].concert] < request[p].quantity
     THEN Throw(p, "ConflictError")
     ELSE Throw(p, "ConcurrencyError")

Pick(p) ==
  LET available == AvailableTickets(db.tickets, request[p].concert)
  IN  /\ At(p, "pick")
      /\ Select
      /\ \/ /\ Cardinality(available) < request[p].quantity
            /\ Proceed(p, Nothing, "giveback")
         \/ \E b \in CheapestFirst(available, request[p].quantity) : Proceed(p, b, "mark")

GiveBack(p) ==
  /\ At(p, "giveback")
  /\ Execute(StockMoved(request[p].concert, request[p].quantity))
  /\ Throw(p, "ConflictError")

\* Mutant of Mark: the whole batch is taken from the stock, one ticket is marked.
MarkFirst(p) ==
  /\ At(p, "mark")
  /\ Write([db EXCEPT !.tickets = SetTicketStatus(@, {local[p].first}, "RESERVED")])
  /\ Persist(p, "insert", NoRow)

Mark(p) ==
  /\ At(p, "mark")
  /\ Write([db EXCEPT !.tickets = SetTicketStatus(@, local[p].ids, "RESERVED")])
  /\ Persist(p, "insert", NoRow)

Insert(p) ==
  /\ Saving(p, "insert", "write")
  /\ \/ ~TicketIdIsFree(db.reservations, local[p].first) /\ SaveFails(p)
     \/ /\ TicketIdIsFree(db.reservations, local[p].first)
        /\ \E id \in ReservationIds :
              /\ IsNextId(db.reservations, id)
              /\ Execute([db EXCEPT !.reservations =
                            InsertReservation(@, id, request[p].user, local[p].first,
                                              request[p].concert)])
              /\ Keep(p, [id |-> id, first |-> local[p].first])
        /\ Stage(p, "reload")
        /\ UNCHANGED <<verdict, read, Rest>>

-----------------------------------------------------------------------------
(* save() of a reservation row that was read before. *)

\* The clock aside: of a row that is not pending nobody reads `left'.
NothingToWrite(old, row) == old # NoRow /\ old = [row EXCEPT !.left = old.left]

LoadRow(p, i, row) ==
  LET old == db.reservations[i]
  IN  \/ NothingToWrite(old, row) /\ Select /\ Saved(p)
      \/ ~NothingToWrite(old, row) /\ Load /\ Persist(p, pc[p], old)

\* UPDATE writes the columns that differed when the row was loaded, and nothing
\* when the row is gone; a row that was not there is inserted.
Updated(now, old, row) ==
  LET Column(n, o, r) == IF r # o THEN r ELSE n
  IN  CASE old = NoRow -> row
        [] old # NoRow /\ now = NoRow -> NoRow
        [] OTHER ->
             [userId    |-> Column(now.userId, old.userId, row.userId),
              ticketId  |-> Column(now.ticketId, old.ticketId, row.ticketId),
              concertId |-> Column(now.concertId, old.concertId, row.concertId),
              status    |-> Column(now.status, old.status, row.status),
              left      |-> now.left]

\* The key and ticketId are UNIQUE.
Clashes(i, old, row) ==
  LET rs == db.reservations
      new == Updated(rs[i], old, row)
  IN  \/ old = NoRow /\ IsRow(rs, i)
      \/ /\ new # NoRow
         /\ \E j \in ReservationIds \ {i} : IsRow(rs, j) /\ rs[j].ticketId = new.ticketId

WriteRow(p, i, row) ==
  LET old == saving[p].old
  IN  \/ Clashes(i, old, row) /\ SaveFails(p)
      \/ /\ ~Clashes(i, old, row)
         /\ Execute([db EXCEPT !.reservations[i] = Updated(@, old, row)])
         /\ Stage(p, "reload")
         /\ UNCHANGED <<local, verdict, read, Rest>>

(* Purchase: purchaseHandler. *)

\* Mutant of Payable: an expired hold may be bought until it is cleaned up.
PayableUntilCleanup(p, row) ==
  row.userId = request[p].user /\ row.status = "PENDING"

Payable(p, row) ==
  row.userId = request[p].user /\ row.status = "PENDING" /\ row.left >= 0

FindRow(p) ==
  LET row == db.reservations[request[p].id]
  IN  /\ At(p, "findRow")
      /\ Select
      /\ \/ row = NoRow /\ Throw(p, "NotFoundError")
         \/ row # NoRow /\ ~Payable(p, row) /\ Throw(p, "ConflictError")
         \/ row # NoRow /\ Payable(p, row) /\ Proceed(p, row, "saveRow")

Complete(p) ==
  LET row == [local[p] EXCEPT !.status = "COMPLETED"]
  IN  \/ Saving(p, "saveRow", "load") /\ LoadRow(p, request[p].id, row)
      \/ Saving(p, "saveRow", "write") /\ WriteRow(p, request[p].id, row)

LoadTicket(p) ==
  LET status == db.tickets[local[p].ticketId]
  IN  \/ status = "SOLD" /\ Select /\ Saved(p)
      \/ status # "SOLD" /\ Load /\ Persist(p, pc[p], [status |-> status])

WriteTicket(p) ==
  /\ Execute([db EXCEPT !.tickets = SetTicketStatus(@, {local[p].ticketId}, "SOLD")])
  /\ Stage(p, "reload")
  /\ UNCHANGED <<local, verdict, read, Rest>>

SaveTicket(p) ==
  \/ Saving(p, "saveTicket", "load") /\ LoadTicket(p)
  \/ Saving(p, "saveTicket", "write") /\ WriteTicket(p)

(* Cleanup: cleanupExpiredReservations.  `todo' are the rows of the loop that *)
(* are left, in no stated order, `rows' the table as the SELECT saw it.        *)

NextRound(p, todo, data) ==
  IF todo = {} THEN Succeed(p, "released", Nothing) ELSE Proceed(p, data, "cancelRow")

FindExpired(p) ==
  LET expired == ExpiredReservations(db.reservations)
  IN  /\ At(p, "findExpired")
      /\ Select
      /\ NextRound(p, expired, [todo |-> expired, rows |-> db.reservations])

Current(p) == CHOOSE i \in local[p].todo : TRUE
CurrentRow(p) == local[p].rows[Current(p)]

\* Mutant of Cancel: the expired row is deleted.
CancelByDelete(p) ==
  /\ At(p, "cancelRow")
  /\ Execute([db EXCEPT !.reservations[Current(p)] = NoRow])
  /\ Continue(p, "freeTicket")

Cancel(p) ==
  LET row == [CurrentRow(p) EXCEPT !.status = "CANCELLED"]
  IN  \/ Saving(p, "cancelRow", "load") /\ LoadRow(p, Current(p), row)
      \/ Saving(p, "cancelRow", "write") /\ WriteRow(p, Current(p), row)

FreeTicket(p) ==
  /\ At(p, "freeTicket")
  /\ Execute([db EXCEPT !.tickets =
                SetTicketStatus(@, {CurrentRow(p).ticketId}, "AVAILABLE")])
  /\ Continue(p, "addStock")

GiveUnit(p) ==
  LET left == local[p].todo \ {Current(p)}
  IN  /\ At(p, "addStock")
      /\ Execute(StockMoved(CurrentRow(p).concertId, 1))
      /\ NextRound(p, left, [local[p] EXCEPT !.todo = left])

-----------------------------------------------------------------------------
(* The surroundings. *)

Tick ==
  /\ TimeFlows \/ undo = <<>>
  /\ \E i \in ReservationIds : IsPending(db.reservations, i) /\ db.reservations[i].left >= 0
  /\ PassTime
  /\ UNCHANGED <<control, sent>>

\* The process dies and is started again; what it had in memory is lost.
Crash ==
  /\ crashes < MaxCrashes
  /\ ~Quiet
  /\ Reconnect
  /\ pc' = [p \in Processes |-> "idle"]
  /\ request' = [p \in Processes |-> Nothing]
  /\ local' = [p \in Processes |-> Nothing]
  /\ verdict' = [p \in Processes |-> "none"]
  /\ read' = [p \in Processes |-> 0]
  /\ saving' = [p \in Processes |-> NoSave]
  /\ queue' = [c \in Concerts |-> <<>>]
  /\ crashes' = crashes + 1
  /\ sent' = <<>>
  /\ UNCHANGED <<acked, outcome, calls>>

Step(p) ==
  \/ Lock(p) \/ Begin(p)
  \/ Find(p) \/ Take(p) \/ Diagnose(p) \/ Pick(p) \/ GiveBack(p) \/ Mark(p) \/ Insert(p)
  \/ FindRow(p) \/ Complete(p) \/ SaveTicket(p)
  \/ Open(p) \/ Reload(p) \/ Close(p) \/ Undo(p)
  \/ FindExpired(p) \/ Cancel(p) \/ FreeTicket(p) \/ GiveUnit(p)
  \/ Commit(p) \/ Rollback(p)

Next ==
  \/ \E p \in Clients, r \in Requests : Call(p, r)
  \/ \E p \in CronRuns : Call(p, CleanupRun)
  \/ \E p \in Processes : Step(p)
  \/ Tick
  \/ Crash

Spec == Init /\ [][Next]_vars

\* The database answers every statement and the event loop runs every
\* continuation; no client is obliged to call.
FairSpec == Spec /\ \A p \in Processes : WF_vars(Step(p))

-----------------------------------------------------------------------------
(* Properties. *)

TypeOK ==
  /\ ConnectionOK
  /\ pc \in [Processes -> Labels]
  /\ verdict \in [Processes -> Verdicts]
  /\ read \in [Processes -> Nat]
  /\ saving \in [Processes -> Saves]
  /\ queue \in [Concerts -> Seq(Clients)]
  /\ outcome \in Verdicts

\* A function ends the transaction it began, on every path: as long as calls keep
\* apart the connection is back in autocommit whenever no call is in flight.
TransactionsBalanced ==
  /\ Len(undo) = Cardinality({p \in Processes : InTransaction(p)})
  /\ depth = Len(undo)

\* When no call is in flight, all that clients were told is on disk, and nothing
\* else is left for a later commit.
QuietIsDurable == Quiet => disk = db

\* No call ends a transaction of another one by going through commit or rollback
\* twice: the runner counts at least the transactions of the calls in flight and
\* the savepoints of their saves.
EndsAtMostOnce ==
  depth >= Cardinality({p \in Processes : InTransaction(p)})
             + Cardinality({p \in Processes : OwnSavepoint(p)})

\* Every call is answered: no function waits for a lock that is never released
\* or leaves a branch without commit or rollback.
EveryCallEnds == \A p \in Processes : InCall(p) ~> ~InCall(p)

\* Calls roll back each other's writes, but none that was committed: a row of the
\* file is never lost.
CommittedRowsStay ==
  [][\A i \in ReservationIds : IsRow(disk.reservations, i) => IsRow(disk'.reservations, i)]_vars

\* In whatever order statements, rollbacks and crashes come, the file never names
\* two customers for one ticket.
OneRowPerTicket == UniqueTicketIds(disk.reservations)

\* The isolated service of Ticketing, over what is on disk.
Service == INSTANCE Ticketing WITH
  listed <- disk.listed, stock <- disk.stock, tickets <- disk.tickets,
  reservations <- disk.reservations, seeding <- {}, outcome <- outcome

\* Statement by statement, with every error path, the functions do on disk
\* what the one-step functions of Ticketing do, and a crash does nothing.
ImplementsService ==
  Service!Inv /\ [][Service!Next]_(Service!vars)

\* What a client was told stays true: the row of a 201 answer is on disk, and a
\* ticket whose purchase was confirmed is sold.
ReservedIsKept ==
  \A a \in acked : a.what = "reserved" =>
     /\ IsRow(disk.reservations, a.id)
     /\ disk.reservations[a.id].ticketId = a.ticket
     /\ disk.reservations[a.id].userId = a.to

PurchasedIsKept ==
  \A a \in acked : a.what = "purchased" => db.tickets[a.ticket] = "SOLD"

\* No two customers are told that they have the same ticket, unless the hold of
\* one of them was cancelled.
NoDoubleBooking ==
  \A a, b \in acked :
    a.what = b.what /\ a.ticket = b.ticket /\ a.to # b.to =>
      \E o \in {a, b} :
         /\ db.reservations[o.id].status = "CANCELLED"
         /\ db.reservations[o.id].userId = o.to

\* Between calls the counters are right.
StockNeverLost ==
  undo = <<>> => \A c \in db.listed : db.stock[c] = Cardinality(Service!Unsold(db.tickets, c))
=============================================================================
