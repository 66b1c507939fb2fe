------------------------------ MODULE Lifecycle ------------------------------
(***************************************************************************)
(* The process from bootstrap() to process.exit(): the data source, the    *)
(* HTTP server with its connections, and gracefulShutdown().  A request    *)
(* handler is opaque here; EveryCallEnds of TicketingServer says that it   *)
(* ends.  The cron job needs no variable: nothing waits for it, and a run  *)
(* that is cut off is a Crash of TicketingServer.                          *)
(*                                                                         *)
(* Timers count down; what is due happens before the clock moves on.       *)
(***************************************************************************)
EXTENDS Naturals

CONSTANTS
  Sockets,      \* the connections that may be in use at once
  HandlerTime,  \* a request handler ends within so many ticks
  KeepAlive,    \* Node ends a connection that has been idle for so long
  DrainWait,    \* from the last connection to destroy()
  ForceAfter,   \* from a signal to the forced exit
  MaxSignals    \* bound on the signals of a behaviour

\* Handlers are local SQL statements; the wait before destroy() is for them.
ASSUME LifecycleAssumption ==
  /\ HandlerTime \in Nat /\ KeepAlive \in Nat /\ DrainWait \in Nat
  /\ ForceAfter \in Nat /\ MaxSignals \in Nat
  /\ HandlerTime < DrainWait

VARIABLES
  process,     \* running, or how it ended
  dataSource,  \* AppDataSource
  server,      \* `server' and, once a signal came, how far close() is
  socket,      \* the state of each connection and of the request it brought
  left,        \* ticks left to a handler, or to an idle connection
  drains,      \* ticks left of each wait before destroy()
  forced,      \* ticks left to each forced exit
  signals,     \* the signals so far
  elapsed,     \* ticks since the first one, as far as ForceAfter + 1
  openUntil    \* history: `elapsed' when a connection was last seen open

net  == <<socket, left>>
vars == <<process, dataSource, server, net, drains, forced, signals, elapsed, openUntil>>

Open(k)    == socket[k] \in {"new", "busy", "kept"}
Running(k) == socket[k] \in {"busy", "orphan"}
Timed(k)   == socket[k] \in {"busy", "orphan", "kept"}

TypeOK ==
  /\ process \in {"running", "exit0", "exit1"}
  /\ dataSource \in {"unset", "open", "closing", "closed"}
  /\ server \in {"unset", "listening", "deaf", "closing", "closed"}
  /\ socket \in [Sockets -> {"none", "new", "busy", "orphan", "kept"}]
  /\ left \in [Sockets -> Nat]
  /\ drains \subseteq Nat /\ forced \subseteq Nat
  /\ signals \in Nat /\ elapsed \in Nat /\ openUntil \in Nat

Init ==
  /\ process = "running" /\ dataSource = "unset" /\ server = "unset"
  /\ socket = [k \in Sockets |-> "none"] /\ left = [k \in Sockets |-> 0]
  /\ drains = {} /\ forced = {}
  /\ signals = 0 /\ elapsed = 0 /\ openUntil = 0

-----------------------------------------------------------------------------
(* Bootstrap. *)

Initialize ==
  /\ process = "running" /\ dataSource = "unset"
  /\ dataSource' = "open"
  /\ UNCHANGED <<process, server, net, drains, forced, signals, elapsed, openUntil>>

\* The routes are mounted before listen() is called.  When the port is taken,
\* Express hands the error to the callback, which does not look at it.
Listen ==
  /\ process = "running" /\ dataSource = "open" /\ server = "unset"
  /\ server' \in {"listening", "deaf"}
  /\ UNCHANGED <<process, dataSource, net, drains, forced, signals, elapsed, openUntil>>

\* initialize() rejects, or listen() refuses the port number.
BootFails ==
  /\ process = "running" /\ server = "unset"
  /\ process' = "exit1"
  /\ UNCHANGED <<dataSource, server, net, drains, forced, signals, elapsed, openUntil>>

-----------------------------------------------------------------------------
(* Connections. *)

Move(k, state, ticks) ==
  /\ process = "running"
  /\ socket' = [socket EXCEPT ![k] = state]
  /\ left' = [left EXCEPT ![k] = ticks]
  /\ UNCHANGED <<process, dataSource, server, drains, forced, signals, elapsed, openUntil>>

Connect(k) == server = "listening" /\ socket[k] = "none" /\ Move(k, "new", 0)

\* A connection that is open brings requests, whether the server is closing or not.
Request(k) == socket[k] \in {"new", "kept"} /\ Move(k, "busy", HandlerTime)

\* The handler ends: with an answer, its own or the error handler's, or with
\* nobody left to answer.
Answer(k) ==
  \/ socket[k] = "busy" /\ Move(k, "kept", KeepAlive)
  \/ socket[k] = "orphan" /\ Move(k, "none", 0)

\* The client ends the connection; a handler that has begun does not notice.
HangUp(k) ==
  \/ socket[k] \in {"new", "kept"} /\ Move(k, "none", 0)
  \/ socket[k] = "busy" /\ Move(k, "orphan", left[k])

Expire(k) == socket[k] = "kept" /\ left[k] = 0 /\ Move(k, "none", 0)

-----------------------------------------------------------------------------
(* Shutdown. *)

\* server.close() ends the connections that are idle between two requests; one
\* that has not sent any yet may stay.
AfterClose(k) ==
  CASE socket[k] = "kept" -> {"none"}
    [] socket[k] = "new"  -> {"new", "none"}
    [] OTHER              -> {socket[k]}

\* Mutants of ForceTimers: one timer that a signal sets again; none at all.
OneForceTimer == {ForceAfter}
NoForceTimer == forced

\* Each signal has a timer of its own.
ForceTimers == forced \cup {ForceAfter}

Signal ==
  /\ process = "running" /\ signals < MaxSignals
  /\ signals' = signals + 1
  /\ \/ /\ server = "unset"
        /\ process' = "exit0"
        /\ UNCHANGED <<server, net, forced>>
     \/ /\ server # "unset"
        /\ server' = "closing"
        /\ socket' \in [Sockets -> {"none", "new", "busy", "orphan"}]
        /\ \A k \in Sockets : socket'[k] \in AfterClose(k)
        /\ forced' = ForceTimers
        /\ UNCHANGED <<process, left>>
  /\ UNCHANGED <<dataSource, drains, elapsed, openUntil>>

\* Mutants of Wait: none; one wait that a signal starts again.
WaitNever == drains \cup {0}
WaitAgain == {DrainWait}

\* Each callback of close() waits on its own.
Wait == drains \cup {DrainWait}

AllClosed == server = "closing" /\ \A k \in Sockets : ~Open(k)

\* The callbacks of close() run when the last connection has ended, and again
\* when a closed server is closed.
Closed ==
  /\ process = "running" /\ AllClosed
  /\ server' = "closed"
  /\ drains' = Wait
  /\ UNCHANGED <<process, dataSource, net, forced, signals, elapsed, openUntil>>

\* destroy() waits for the statement that is executed.  A second call of it
\* queues behind the first.
Destroy ==
  /\ process = "running" /\ 0 \in drains
  /\ drains' = drains \ {0}
  /\ dataSource' = "closing"
  /\ UNCHANGED <<process, server, net, forced, signals, elapsed, openUntil>>

\* Whether destroy() succeeds or throws.
ExitCleanly ==
  /\ process = "running" /\ dataSource = "closing"
  /\ dataSource' = "closed"
  /\ process' = "exit0"
  /\ UNCHANGED <<server, net, drains, forced, signals, elapsed, openUntil>>

ExitByForce ==
  /\ process = "running" /\ 0 \in forced
  /\ process' = "exit1"
  /\ UNCHANGED <<dataSource, server, net, drains, forced, signals, elapsed, openUntil>>

-----------------------------------------------------------------------------
(* The clock. *)

Due ==
  \/ 0 \in drains \cup forced
  \/ AllClosed
  \/ \E k \in Sockets : Timed(k) /\ left[k] = 0

Less(timers) == {t - 1 : t \in timers}

Tick ==
  /\ process = "running" /\ ~Due
  /\ left' = [k \in Sockets |-> IF Timed(k) THEN left[k] - 1 ELSE left[k]]
  /\ drains' = Less(drains)
  /\ forced' = Less(forced)
  /\ elapsed' = IF signals > 0 /\ elapsed <= ForceAfter THEN elapsed + 1 ELSE elapsed
  /\ openUntil' = IF \E k \in Sockets : Open(k) THEN elapsed' ELSE openUntil
  /\ UNCHANGED <<process, dataSource, server, socket, signals>>

-----------------------------------------------------------------------------
Next ==
  \/ Initialize \/ Listen \/ BootFails
  \/ \E k \in Sockets : Connect(k) \/ Request(k) \/ Answer(k) \/ HangUp(k) \/ Expire(k)
  \/ Signal \/ Closed \/ Destroy \/ ExitCleanly \/ ExitByForce
  \/ Tick

Spec == Init /\ [][Next]_vars

\* The clock runs, timers and callbacks fire, handlers end.  Nothing is asked of
\* clients, of bootstrap() or of the database.
FairSpec ==
  /\ Spec
  /\ WF_vars(Tick) /\ WF_vars(Closed) /\ WF_vars(Destroy) /\ WF_vars(ExitByForce)
  /\ \A k \in Sockets : WF_vars(Answer(k)) /\ WF_vars(Expire(k))

-----------------------------------------------------------------------------
(* Properties. *)

\* A process that got a signal is gone ForceAfter later, whatever clients do and
\* however many signals follow.
EndsInTime == elapsed <= ForceAfter

\* The data source is open while a handler runs, also a handler whose client has
\* gone and that close() therefore does not wait for; an exit with code 0 cuts
\* none off.
NoHandlerCutOff ==
  dataSource # "open" \/ process = "exit0" => \A k \in Sockets : ~Running(k)

\* A shutdown is forced only when the last connection ended too late for the wait
\* to fit, or destroy() hangs; a second signal does not make it so.
ForcedOnlyWhenLate ==
  process = "exit1" /\ signals > 0 =>
    openUntil + DrainWait >= ForceAfter \/ dataSource = "closing"

\* A process that got a signal ends.
SignalledEnds == signals > 0 ~> process # "running"

-----------------------------------------------------------------------------
(* The invariant behind them. *)

\* bootstrap() comes first, and a signal ends a process that is not through it.
BootOrder ==
  /\ dataSource = "unset" => server = "unset"
  /\ dataSource = "closed" => process = "exit0"
  /\ server \in {"unset", "listening", "deaf"} =>
       /\ process = "running" => signals = 0
       /\ elapsed = 0 /\ drains = {} /\ dataSource \in {"unset", "open"}
  /\ signals = 0 =>
       /\ elapsed = 0 /\ openUntil = 0 /\ forced = {}
       /\ server \notin {"closing", "closed"}

\* Connections need a server that listened, and are gone before the wait starts.
OpenNeedsServer ==
  \A k \in Sockets : Open(k) =>
    server \in {"listening", "closing"} /\ drains = {} /\ dataSource = "open"

\* A handler has less time left than any wait before destroy().
HandlersEndFirst ==
  \A k \in Sockets : Running(k) =>
    /\ left[k] <= HandlerTime
    /\ \A d \in drains : left[k] < d
    /\ dataSource = "open"
    /\ server # "unset"

\* The timer of the first signal is kept, and none is ahead of it.
ForcedKept ==
  /\ server \in {"closing", "closed"} /\ process = "running" =>
       \E f \in forced : f + elapsed = ForceAfter
  /\ elapsed <= ForceAfter
  /\ \A f \in forced : f + elapsed >= ForceAfter

\* Until destroy() is called either a connection is open, or was until now, or a
\* wait is running that started when the last one ended.
DrainKept ==
  server \in {"closing", "closed"} /\ dataSource = "open" =>
    \/ server = "closing" /\ openUntil = elapsed
    \/ \E d \in drains : d + elapsed <= openUntil + DrainWait

Inv ==
  /\ TypeOK /\ BootOrder /\ OpenNeedsServer /\ HandlersEndFirst
  /\ ForcedKept /\ DrainKept
  /\ NoHandlerCutOff /\ ForcedOnlyWhenLate
=============================================================================
