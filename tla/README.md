# Concert Ticketing API: TLA+ models, model checking and proofs

This directory holds a formal model of the ticketing backend in `src/`: what the
service does to its three tables, what it does when requests overlap on its one
SQLite connection, the in-process lock of the pessimistic endpoint, and the life
of the process from bootstrap to exit. TLC checks the models on small instances;
TLAPS proves the safety properties of the passing runs and both refinements for
every value of the constants, under the conditions section 4 states. Paths below are relative to the repository root
(`src/services/...`); `PROJECT.json` maps every definition to the lines it stands for.

## 1. The system

An Express server (`src/index.ts`) with a cron job, over SQLite through TypeORM.
All handlers and the cron job run on one event loop and one database connection:
the `sqlite` driver of TypeORM hands out the same query runner to every caller of
`createQueryRunner()`.

| Component | State it keeps | Operations | Correct when |
|---|---|---|---|
| Schema (`src/entities`, `src/migrations`) | `concerts.availableStock`, `concerts.version`, `tickets.status`, `reservations` rows, UNIQUE(`ticketId`) | SELECT / INSERT / UPDATE | counters, tickets and reservations agree |
| Reserve (`hardenedReservationService.ts`) | none of its own | optimistic, atomic, pessimistic (lock + atomic on SQLite) | no ticket is promised twice, a failed request changes nothing |
| Purchase (`hardenedReservations.ts`, `purchaseHandler`) | none | find, check owner / PENDING / expiry, two saves | only the holder buys, only in time, a sale is final |
| Cleanup (`reservationService.ts`, `cleanupJob.ts`) | none | every minute: cancel expired rows, free tickets, add stock | every hold ends; what is freed can be reserved again |
| Concert lock (`withConcertLock`) | `concertLocks`: concert id to promise | arrive, enter, leave | one caller per concert at a time, in order of arrival, none forgotten |
| Shared connection (`data-source.ts`, TypeORM) | depth and flag of the query runner, open transactions and savepoints, the file | start, commit, rollback, execute, save | every transaction is ended once, and a rollback undoes its own |
| Seed script (`src/seed.ts`) | none | save concert, then save tickets | a complete run leaves each concert with as many tickets as stock; a rerun skips a concert that exists, so one whose tickets were not saved keeps stock and no tickets |
| Validation, DTOs, error handler (`src/middleware`) | none | map requests and errors | every error reaches the client as its class says |
| Rate limiter (`rateLimiter.ts`) | windows in Redis or memory | count, reject | five requests a minute per address |
| Lifecycle (`index.ts`) | data source, server, connections, timers | bootstrap, shutdown on signal, forced exit | a signalled process ends in time, and a graceful shutdown cuts no handler off |
| Listings (`GET /concerts`, `GET /tickets`) | none | reads outside transactions | shows committed data |

Interaction: routes call service functions; reserve, purchase and cleanup meet
only in the three tables, through the connection; pessimistic requests also meet
in `concertLocks`; a signal meets them when it closes the server and, later, the
data source. The hard behaviours are therefore: interleaving of handlers at
every `await`; transactions that become savepoints of one another, on a runner
whose depth and flag are read when a statement is sent and changed when it is
answered; rows written back long after they were read; a failure in the middle of
a function, and its compensation; a crash between statements; holds that expire
while they are being bought; the timers of a shutdown racing handlers,
connections and further signals. `PROJECT.json` lists each hazard at its line,
with the properties that would catch it or the reason why none does.

## 2. The modules

```
TicketTables            rows and SQL statements as operators
  Ticketing             the service with isolated transactions
    TicketingProofs     theorems about Ticketing
    TicketingSeats      ... implements the abstract specification Seats
      SeatsProofs       the theorem that it does
    MCTicketing         instances for TLC
  SharedConnection      one connection, savepoints, crash recovery
    TicketingServer     handlers and cron job, statement by statement;
                        implements Ticketing when calls keep apart (section 3)
      ServerProofs      theorems about every interleaving
        CommittedProofs what is in the file survives every interleaving
        KeptProofs      theorems about one function at a time: what was told is kept
          OrderedProofs ... and the server implements Ticketing, and through it Seats
      MCServer          instances for TLC
ConcertLock             the promise chain of withConcertLock
  ConcertLockProofs     theorems about it
  MCConcertLock         instance for TLC
Lifecycle               bootstrap, connections, shutdown
  LifecycleProofs       theorems about it
  MCLifecycle           instance for TLC
```

**TicketTables.** A table is a function from primary key to row; a row that does
not exist is `"ABSENT"` (tickets) or `NoRow` (reservations). One operator per
statement. `ORDER BY price LIMIT q` returns any answer SQL allows
(`CheapestFirst`), as equal prices are in no order. Names, venues, dates, ticket
categories and audit columns are left out. `expiresAt` is kept as `left`, the
ticks from the clock to it: 0 means the clock is at `expiresAt`, which purchase
still accepts (`new Date() > expiresAt` is false) and cleanup does not yet take
(`expiresAt < now` is false); -1 means the clock is past it.

**Ticketing.** One step per service function, from `startTransaction` to commit
or rollback. A branch that throws changes only `outcome`, the class of the answer.
`Reserve` is `reserveTicketAtomic`; with isolated transactions the optimistic
function takes the same steps (the version it compares is the one it has just
read), and the pessimistic function calls the atomic one. `LegacyReserve` and
`Purchase` also cover the functions of `reservationService.ts`. `SeedConcert`,
`SeedTickets` and `SeedDies` are the seed script, which may run at any time and
stop between its two commits.

**Seats.** What a customer is promised about a ticket, with no table, counter or
clock: free, held by one user, sold to that user for ever; holds may lapse.

**SharedConnection** (external: modelled from how the services use TypeORM).
`db` is what the connection reads, `disk` what a crash leaves, `undo` SQLite's
stack of transactions and savepoints, each with its name and the database as it
was. `depth` and `active` are the runner's `transactionDepth` and
`isTransactionActive`. `startTransaction` sets `active` at once and moves `depth`
when BEGIN is answered; commit and rollback throw when `active` is not set, send
COMMIT or ROLLBACK for a depth of 1 and the savepoint forms for more, and take one
from `depth` when answered. A savepoint is named after the depth it was opened at;
RELEASE and ROLLBACK TO act on the newest of that name, whoever opened it.
An UPDATE by the query builder bumps the version column of
every row it touches.

**TicketingServer.** One action per SQL statement, for each process that is in a
call: the database executes it, the function goes on with the answer and sends
the next one. `pc` names the statement in flight, `read` the depth that was read
when BEGIN, COMMIT or ROLLBACK was sent, `local` what the function has read so
far. `save()` is several statements, and `saving` says how far it has come: it reads
the row by its key (not for a row without one); if a column differs it opens a
savepoint of its own unless `active` is set (`Persist`, `Open`), writes the columns
that differed when it read, reads what the database generated (`Reload`), and releases
its savepoint (`Close`), or rolls it back when the write fails (`Undo`). Where it ends
its savepoint (`EndSave`) `active` is a guard that always holds, as only a COMMIT of
depth 1 clears the flag and `EndsAtMostOnce` counts the savepoint; if it did not hold
the call would be stuck, which `EveryCallEnds` would report. Clients make the four kinds of request; each process of `CronRuns` is a cleanup run. `Begin`
may fail, outside the `try` block of every function; `Commit` may fail inside it;
`Send` covers the check of `active` that makes either throw
`TransactionNotStartedError`, which then also keeps the `catch` block from rolling
back. `queue` is the concert lock, first come first served; `ConcertLock` shows
that the promise chain is such a lock. `acked` records the successes clients were
told of. `Crash` ends the process at any statement: the memory is lost and the
journal rolls the file back to `disk`. The driver hands statements to a pool of
threads, so one may overtake another: `InOrder` says whether that is left out. The
`!latestConcert` branch of the optimistic function is left out: nothing deletes a
concert. The lookup of a reservation with its ticket (`FindRow`) is one statement,
while TypeORM selects the ids first and then the rows: only the second is acted on,
and no row goes from the table between them but by a rollback.

**ConcertLock.** The map, the two promises each call makes, and which have
settled. `Arrive` is the code up to the first `await` (it runs without giving
way), `Enter` the continuation after `await previous`, `Leave` the `finally` block,
`Settle` the resolution of `previous.then(() => current)`. `ahead` is a history
variable: who was in line when a call arrived.

**Lifecycle.** `Initialize`, `Listen` and `BootFails` are `bootstrap()`; when the
port is taken the server is `"deaf"`: Express gives the error to the listen
callback, which logs that the API is running. A connection is new, busy, kept
alive, or gone; a client that hangs up leaves an `"orphan"` handler. `Signal` is
`gracefulShutdown()`: before the server exists it exits at once, after that it
closes the server and sets the timer of the forced exit, each time a signal comes.
`Closed` is the callback of `server.close()`, which starts the wait of 5 s;
`Destroy` and `ExitCleanly` are what follows it; `ExitByForce` is the other timer.
A handler is opaque: it ends within `HandlerTime`, which the assumption says is
less than the wait. The cron job has no variable: nothing waits for it, and a run
that is cut off is a `Crash` of `TicketingServer`.

Operators whose comment calls them a *mutant* are plausible mistakes in the
operator defined after them. They are used by no specification; each replaces that
operator in a run that must then fail, which shows that the property in question
depends on the code.

## 3. The runs

| cfg | Question | Result |
|---|---|---|
| `MCTicketing` | Do counters, tickets and reservations agree, and are sales final, with isolated transactions? | holds |
| `MCTicketingSeats` | Do the two tables implement `Seats` when a request is for one ticket, has every reserved ticket a hold, and is every hold bought or released? | holds, the last under fairness |
| `MCTicketingHeld` | Is every reserved ticket held by a row that can expire? | **violated** |
| `MCTicketingReusable` | Can a released ticket be reserved again? | **violated** |
| `MCServerOrdered` | When one function at a time uses the connection: do the functions, statement by statement with crashes, implement `Ticketing`, end each transaction, keep the counters right and keep what clients were told? | holds |
| `MCServerOverlap` | With everything overlapping, and a crash: is stock never negative, is no transaction ended twice by one call, does the file never name two customers for one ticket, is no committed row lost, and is every call answered? | holds, the last under fairness |
| `MCServerBooking` | Overlapping atomic requests: can a ticket be confirmed to two users? | **violated** (it can) |
| `MCServerDurable` | When no call is in flight, is everything on disk? | **violated** |
| `MCServerSold` | Purchase during a cleanup run: does a confirmed sale last? | **violated** |
| `MCLifecycle` | Does a signalled process end in time, is no short handler cut off by a clean shutdown, and is a shutdown forced only when connections leave no room for the wait? | holds, the end under fairness |
| `MCConcertLock` | Is the promise chain a fair lock? | holds |
| `MCConcertLockMap` | Is the entry of an idle concert deleted? | **violated** |

What the violated runs show is written up under `findings` in `PROJECT.json`, with
the sentence of the documentation or the code each contradicts. In short: a
request for several tickets leaves all but one reserved for ever; a released
ticket cannot be reserved again, because its cancelled row keeps the unique
`ticketId`; requests that overlap share transactions, so that a rollback of one
undoes what another has confirmed; a cleanup run that begins while a COMMIT is in
flight leaves its transaction open for good, and everything confirmed from then on
is lost when the process ends; the lock map is never emptied.

**Bounds and why they are enough.** `MCTicketing`: a concert with a dearer and two
equally priced tickets and one with a single ticket, two users, requests for one
or two; enough for a shortage, a tie of prices, a batch of more than one ticket
with a single row, two holds that expire in one cleanup, and a seed that dies with
either concert. Rows are never deleted and `ticketId` is unique, so four row ids
are never exhausted: that bound loses nothing. `TTL` is one tick, enough
to see a hold before, at and after `expiresAt`. The run of `Seats` and the two
counterexamples use one concert.

`MCServer`: at most three calls (`MaxCalls`; two in `MCServerSold`), two of them in
flight (`MaxOpen`). `MCServerOrdered` and `MCServerOverlap` allow one crash
(`MaxCrashes`). The first starts on every database the service can be in: fresh, one
hold that is about to expire or has expired, one released hold, a half-finished seed.
`MCServerOverlap` starts where the most error paths are near (expired hold, released
hold, half-finished seed) on one concert. Four row ids suffice, one for the initial row
and one for each call. Two calls in flight are enough to share a transaction, to lose
its mark and to find a savepoint of a save released by the other, and the third call
meets a connection the first two have left in disorder; the proofs cover any number. TLC
uses one cleanup run at a time: two overlap only when one takes more than a minute; the
proofs allow any number.

`MCLifecycle`: two connections, two signals; a tick is 1.25 s, so that the wait is
4 ticks, Node's keep-alive 4 and the forced exit 8 (5 s, 5 s and 10 s), and a
handler takes at most 3. Two connections suffice for one to end while
another keeps the server open. `MCConcertLock`: four callers of one
concert, so that three can queue, and one of another. Users, clients and equal
tickets are symmetric in the runs that say so, none of which has a liveness
property.

`OneLock` restricts the calls of a behaviour, not what a call does: when TRUE, a
call begins only if every call in flight is a pessimistic request for the same
concert. It is TRUE in `MCServerOrdered`. **Nothing in the code enforces this
restriction**: requests of other kinds, for other concerts, purchases and the cron job
begin whenever they come. That run therefore says what the functions do for one caller
at a time and what the lock is worth among the callers that use it; the violated runs
`MCServerBooking`, `MCServerDurable` and `MCServerSold` show that the same properties
fail without it, and `MCServerOverlap` shows what is left.

`TimeFlows` says whether the clock may tick while a transaction is open. It is TRUE in
the purchase race. It is FALSE in `MCServerOrdered`, where statements are compared with
`Ticketing`, whose one-step functions read the clock once (with it TRUE a purchase that
found its hold valid may commit when it no longer is, which the code allows and the
one-step function does not), and in `MCServerOverlap`, where an expired hold is there
from the start. What `KeptProofs` proves does not depend on it; the five invariants
of `MCServerOrdered` also pass TLC with it TRUE (142,676 states).

`InOrder` is FALSE in `MCServerOrdered`. It is TRUE in the violated runs, whose
counterexamples thus need no statement to overtake another, and in `MCServerOverlap`,
for its size; the safety properties of that run are proved for any order, and all five
properties pass with two calls in any order as well (43,492 states).

`CHECK_DEADLOCK FALSE` in the server, lock and lifecycle runs: they stop when the
calls of the bound have been made and answered, or when the process has ended.

**Fairness.** `Ticketing!FairSpec`: the clock advances and node-cron starts a
cleanup every minute; clients, purchases and the seed have none.
`TicketingServer!FairSpec`: the database answers statements and the event loop runs
continuations (`WF` of each process's steps); no client has to call and no crash
has to come. `ConcertLock!FairSpec`: microtasks run and the function under the lock
ends, which `EveryCallEnds` shows of the functions it is used with.
`Lifecycle!FairSpec`: the clock runs, timers and callbacks fire, handlers end and
idle connections expire; clients, `bootstrap()` and `destroy()` have none, so that
`SignalledEnds` also holds when a client never lets go and when `destroy()` hangs.

**Reading the two refinements.** `ImplementsService` is `Service!Inv` and
`[][Service!Next]`, without `Service!Init`, since the server starts on seeded
databases; `Service` reads `disk`, so what it says holds of committed data, at
every crash point. Together with `KeepsThePromise` this gives: as long as calls do
not overlap, or overlap only under one lock, and no hold lapses in the middle of a
transaction, clients see `Seats` (for requests of one ticket) and lose nothing in a
crash. `PromiseOnDisk` (section 4) is that
sentence as a theorem.

## 4. What is proved

`TicketingProofs` proves, for all finite sets of tickets and row ids, all prices
and all bounds (`TablesAssumption`):

- `TypeCorrect`: the tables keep their types; as `stock` is typed by `Nat`, no
  counter goes below zero.
- `StockIsRight`: `availableStock` of a listed concert is the number of its
  tickets that are neither reserved nor sold.
- `TablesAgree`: pending rows have reserved tickets, completed rows sold ones, and
  every sold ticket has a completed row.
- `SalesAreFinal`: no step takes a sold ticket back.

They follow from the invariant `Inv`, which is inductive. `StockMatchesTickets`
alone is not: cleanup gives a concert one unit per *row*, so one has to know that
no two rows name one ticket, that a row belongs to its ticket's concert
(`RowsNameTheirTickets`) and that a pending row's ticket is still reserved
(`ReservationsMatchTickets`). Seeding a concert must find its tickets absent
(`SeedOrder`). The counting lemmas (`ReservedStock`, `CleanupStock`) show that a
batch of q tickets is q fewer unsold ones, and that expired rows and freed tickets
are in bijection.

`SeatsProofs` proves, from the same assumption and `MaxQuantity = 1`:

- `Refinement`: `Spec => KeepsThePromise`, the two tables implement `Seats`.
- `HeldTickets`: every reserved ticket has a pending row (with larger quantities
  this is what `MCTicketingHeld` refutes).

The seat of a ticket is read through a `CHOOSE` over rows. `SeatOf` shows that any
row that fits may be taken, because no two rows name one ticket; `Kinds` sorts the
steps into four (nothing a customer sees, one row inserted, one completed, several
cancelled), and each kind is mapped to a step of `Seats` or to a stutter. The
invariant needed on top of `Inv` is `ReservedIsHeld`: without a row, a reserved
ticket has no holder.

`ServerProofs` proves, for every interleaving of any finite number of clients and
cleanup runs, with crashes, in any order of statements (`TablesAssumption`,
`ServerAssumption`):

- `TypeCorrect`: the types of `TicketingServer`; no counter goes below zero
  however the functions undo each other's writes, and `disk` is the database as
  of the oldest open transaction.
- `EndsOnce`: `depth` is at least the number of calls between BEGIN and their end
  and of the savepoints of their saves.
- `Exclusive`: the concert lock keeps two calls for one concert apart.

The invariant adds what each function has read (`Fits`: a batch of tickets before
it is marked, a row that exists before it is completed, pending rows before they are
cancelled; the guard of the stock update is evaluated with the update, which is why
stale data cannot make a counter negative) and that a pessimistic call is in the
queue of its concert, at the head if it runs (`LockOK`), without which the lock
handed over at the end might not be there. Every statement then reduces to three
ways to go on (`Proceeds`, `GoesToItsEnd`, `IsAnswered`), whatever it did to the
tables.

`CommittedProofs` proves two things for every interleaving as well. `CommittedStays`: a
row of the file is never lost (`CommittedRowsStay`). `OneOwner`: the file never has two
rows for one ticket (`OneRowPerTicket`), which is what is left of the protection against
double booking when nothing keeps calls apart. Calls that overlap roll back each
other's uncommitted writes, which the violated runs show, but not committed ones. The
invariant is about SQLite's stack: each savepoint has the rows of those below it, and
the database has the rows of all (`Stacked`), so that a COMMIT by any call at any
moment writes at least the rows that are there; and no version of the database on the
stack has two rows for one ticket. What the row says may still change: that its user
and ticket stay as well is proved only for calls that keep apart.

`KeptProofs` proves the five invariants of `MCServerOrdered`, for any finite number of
clients and cleanup runs, any requests, clock, crashes and order of statements. Every theorem has
the form `Spec /\ Good(db) /\ []OneAtATime => ...`: the server starts on tables that
agree (`TicketingProofs` shows that the migrations, the seed script and the service
leave such tables), and **at most one function at a time uses the connection**. The
condition is a hypothesis about the behaviour, because nothing in the code ensures it;
`server_booking`, `server_durable` and `server_sold` refute `NoDoubleBooking`,
`QuietIsDurable` and `PurchasedIsKept` without it.

- `ReservedStays`, `PurchasedStays`: an answer that was given is on disk and stays
  true, across later calls, cleanups and crashes.
- `NoDouble`: no two customers are told that they have the same ticket.
- `StockRight`: outside transactions the counters are right.
- `Balanced`: every function ends its transaction, on every path.
- `DurableWhenQuiet`: when no call is in flight everything is on disk.
- `DiskAgrees`: rows, tickets and counters of the file agree at every statement.
- `SalesStayOnDisk`: no transaction puts a sold ticket of the file back on sale.
- `LockSuffices`: when all calls in flight are pessimistic requests for one concert
  (`OneQueue`) the condition holds, because of the lock alone, and the first five follow;
  `OneLockApart` says that the constant `OneLock` makes a behaviour of this kind.

The invariant is `Kept`, that is `Inv` of `ServerProofs` and `Sound`: one transaction at
most is open, at depth 1 with the flag set, so that no save needs a savepoint
(`Settled`); the file is `Good` (rows, tickets and counters agree) and what is not yet
committed takes no row and no sale from it (`Preserves`); what clients were told is
in the file (`AckedOnDisk`); and for the function that is running, by how much the tables
it is changing disagree (`Fine`): after the stock update the counter is less by the
quantity, in the middle of a purchase one completed row has a ticket that is not sold yet,
in a cleanup one ticket is freed and not yet counted. The clock may tick anywhere.

`OrderedProofs` adds the exact refinement, which needs one more condition: `~TimeFlows`,
the clock does not tick while a transaction is open.

- `Implements`: `Spec /\ Service!Inv /\ []OneAtATime => ImplementsService`, the
  refinement of `Ticketing` on disk.
- `PromiseOnDisk`: with `MaxQuantity = 1` and a start where every reserved ticket has
  a pending row, every step of the server is a step of `Seats` on disk, or none.

To know what COMMIT brings to disk one has to know exactly what every statement before
it wrote. The invariant `Ordered` is `Kept` and `Exactly`, which says for each statement
how `db` differs from `disk` (`ReserveSoFar`, `PurchaseSoFar`, `CleanupSoFar`): after
the ticket update the batch is marked as well, in the middle of a cleanup some rows are
cancelled, one fewer is freed and one fewer is counted. At COMMIT (`Concludes`) this is
the whole step of `Ticketing`; at ROLLBACK what is on disk is a reason to refuse, which
is what makes the answer the right one. A statement in the middle changes nothing on
disk; COMMIT (`ReserveRefines`, `PurchaseRefines`, `CleanupRefines`) and ROLLBACK are
steps of the service. `Isolated` is an instance of `SeatsProofs`, whose lemmas are used
with `disk` for the tables.

`ConcertLockProofs` proves, for any number of calls and concerts (nothing is
assumed finite): `TypeCorrect`, `Fairness` (first come, first served) and
`Exclusion`. Mutual exclusion is not inductive, as nothing records who holds the
lock. The invariant says that a settled chained promise means that its call and
all before it are over, that the promise a call waits for covers everyone ahead of
it, and that the promise in the map covers everyone in line; of two callers in line
one is ahead of the other, so both cannot run.

`LifecycleProofs` proves, for any set of connections, any number of signals and any
timers with `HandlerTime < DrainWait` (`LifecycleAssumption`): `EndsOnTime`,
`HandlersFinish` and `ForcedIsLate`, the safety properties of the run. That a
process ends in time needs `ForcedKept`: the timer of the first signal is still
among the timers, and none is ahead of it. That no handler is cut off needs
`HandlersEndFirst`: a handler has less time left than any wait that has begun,
because waits begin when no connection is open (`OpenNeedsServer`), so that only
handlers whose clients have gone are left. `DrainKept` relates the wait to the time a
connection was last open; `BootOrder` says that none of this starts early.

**Only model-checked.** Liveness (`HoldsEnd`, `EveryCallEnds`,
`EveryCallerIsServed`, `SignalledEnds`), which is beyond TLAPS. Every invariant and
action property of a passing run, and both refinements, are theorems, those of
`MCServerOrdered` under the conditions above. The state spaces have 312,747
(`MCTicketing`), 30,351 (`MCTicketingSeats`), 116,962 (`MCServerOrdered`), 164,625
(`MCServerOverlap`), 37,523 (`MCLifecycle`) and 18,445 (`MCConcertLock`) states.

## 5. What reading the code also showed

No run is needed for these; they concern parts that have no module, or no
statement to check.

- **Rate limiter.** `hardenedReservations.ts:133` registers the reserve route with
  the value of a variable that is a pass-through until `initHardenedRoutes` assigns
  the limiter. Express keeps the function it was given, so reserve requests are
  never limited, contrary to `STRESS_TEST_REPORT.md:7`.
- **Error classes.** `errors.ts:13` sets the prototype to `AppError.prototype` in
  the base constructor, so no error is an `instanceof` its subclass. The error
  handler's branches for `ConcurrencyError` (report to Sentry) and `ValidationError`
  (add details) are never taken; status and code are fields and come out right.
- **Listening.** An error of `listen` reaches the callback at `index.ts:69`, which
  logs that the API is running (`"deaf"` in `Lifecycle`).
- **Shutdown.** A connection in use when the signal comes is kept alive for 5 s
  after its answer unless its client closes it; the wait of 5 s then ends when the
  forced exit is due, so that such a shutdown usually exits with code 1. This is the
  case `ForcedOnlyWhenLate` allows.
- **Overlapping cleanup runs.** node-cron starts a run every minute even when the
  last one has not ended; two runs that selected the same rows add the stock twice.
- **Listings** read on the shared connection and show rows that may be rolled back.
- **Seed.** A rerun skips a concert that exists (`seed.ts:44-50`). If the script died
  before saving the tickets, the concert keeps its stock and has none: a reserve takes
  the stock, finds too few tickets and gives up. `SeedDies` and the start `HalfSeeded`
  are in the models, but no property says that such a concert is repaired, and
  `StockMatchesTickets` counts tickets that are not there as unsold.

## 6. Not modelled, and the plan

Not modelled: the Postgres branch of `reserveTicketPessimistic` (unreachable: the
data source is SQLite); the rate limiter and the mapping of error classes, for the
reasons above; the listings, which change nothing; the later migrations, whose order
and transactions are the migration executor's, none of this code; the legacy router,
which is not mounted; logging, Sentry, DTO formatting, Swagger, test and stress
scripts, deployment. `components` in `PROJECT.json` says so part by part.

What could follow, in this order:

1. Cleanup runs that overlap, in a run of their own with stock and rows compared.
2. Requests as they are validated and errors as they are mapped to responses, as
   operators compared with a table of the documented answers.
3. The later migrations as operations on tables, with a round trip of up and down.

## 7. Running

```
tlc -workers 2 -config MCTicketing.cfg MCTicketing
tlc -workers 2 -config MCServerOrdered.cfg MCServer
tlc -workers 2 -config MCServerOverlap.cfg MCServer
tlc -workers 2 -config MCLifecycle.cfg MCLifecycle
tlc -workers 2 -config MCConcertLock.cfg MCConcertLock
tlapm TicketingProofs.tla
tlapm SeatsProofs.tla
tlapm ServerProofs.tla
tlapm CommittedProofs.tla
tlapm KeptProofs.tla
tlapm OrderedProofs.tla
tlapm ConcertLockProofs.tla
tlapm LifecycleProofs.tla
```

The module a configuration belongs to is listed under `runs` in `PROJECT.json`.
