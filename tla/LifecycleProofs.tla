-------------------------- MODULE LifecycleProofs --------------------------
(***************************************************************************)
(* A process that is asked to end does so in time and cuts no handler off, *)
(* for any number of connections and signals and any lengths of the        *)
(* timers, as long as a handler takes less than the wait before destroy(). *)
(***************************************************************************)
EXTENDS Lifecycle, TLAPS

\* Before bootstrap() there is no connection and no timer.
LEMMA InvInit ==
  Init => Inv
BY LifecycleAssumption
   DEF Init, Inv, TypeOK, BootOrder, OpenNeedsServer, HandlersEndFirst, ForcedKept,
       DrainKept, NoHandlerCutOff, ForcedOnlyWhenLate, Open, Running

\* The invariant looks at nothing but the variables.
LEMMA StutterStep ==
  ASSUME Inv, UNCHANGED vars
  PROVE  Inv'
BY DEF vars, net, Inv, TypeOK, BootOrder, OpenNeedsServer, HandlersEndFirst, ForcedKept,
       DrainKept, NoHandlerCutOff, ForcedOnlyWhenLate, Open, Running

\* The steps of bootstrap() find no connection, no handler and no timer.
LEMMA BootStep ==
  ASSUME Inv, Initialize \/ Listen \/ BootFails
  PROVE  Inv'
<1>1. CASE Initialize
  BY <1>1 DEF Initialize, net, Inv, TypeOK, BootOrder, OpenNeedsServer, HandlersEndFirst,
              ForcedKept, DrainKept, NoHandlerCutOff, ForcedOnlyWhenLate, Open, Running
<1>2. CASE Listen
  BY <1>2 DEF Listen, net, Inv, TypeOK, BootOrder, OpenNeedsServer, HandlersEndFirst,
              ForcedKept, DrainKept, NoHandlerCutOff, ForcedOnlyWhenLate, Open, Running
<1>3. CASE BootFails
  BY <1>3 DEF BootFails, net, Inv, TypeOK, BootOrder, OpenNeedsServer, HandlersEndFirst,
              ForcedKept, DrainKept, NoHandlerCutOff, ForcedOnlyWhenLate, Open, Running
<1>4. QED
  BY <1>1, <1>2, <1>3

\* A connection that moves keeps the invariant if it was open before, where it is
\* open or brings a handler now, and if its handler has the time of one.
LEMMA MoveStep ==
  ASSUME Inv, NEW k \in Sockets, NEW state \in {"none", "new", "busy", "orphan", "kept"},
         NEW ticks \in Nat, Move(k, state, ticks),
         state \in {"new", "busy", "kept"} =>
           Open(k) \/ server = "listening",
         state = "busy" => Open(k) /\ ticks = HandlerTime,
         state = "orphan" => Running(k) /\ ticks = left[k]
  PROVE  Inv'
<1>1. /\ \A j \in Sockets : socket'[j] = IF j = k THEN state ELSE socket[j]
      /\ \A j \in Sockets : left'[j] = IF j = k THEN ticks ELSE left[j]
      /\ UNCHANGED <<process, dataSource, server, drains, forced, signals, elapsed, openUntil>>
      /\ process = "running"
  BY DEF Move, Inv, TypeOK
<1>2. TypeOK'
  BY DEF Move, Inv, TypeOK
<1>3. BootOrder' /\ ForcedKept' /\ DrainKept' /\ ForcedOnlyWhenLate'
  BY <1>1 DEF Inv, BootOrder, ForcedKept, DrainKept, ForcedOnlyWhenLate
<1>4. OpenNeedsServer'
  BY <1>1 DEF Inv, BootOrder, OpenNeedsServer, Open
<1>5. HandlersEndFirst'
  <2> SUFFICES ASSUME NEW j \in Sockets, Running(j)'
               PROVE  /\ left'[j] <= HandlerTime
                      /\ \A d \in drains : left'[j] < d
                      /\ dataSource = "open"
                      /\ server # "unset"
    BY <1>1 DEF HandlersEndFirst
  <2>1. CASE j # k
    BY <2>1, <1>1 DEF Inv, HandlersEndFirst, Running
  <2>2. CASE j = k /\ state = "busy"
    BY <2>2, <1>1, LifecycleAssumption DEF Inv, OpenNeedsServer
  <2>3. CASE j = k /\ state = "orphan"
    BY <2>3, <1>1 DEF Inv, HandlersEndFirst
  <2>4. QED
    BY <2>1, <2>2, <2>3, <1>1 DEF Running
<1>6. NoHandlerCutOff'
  BY <1>1, <1>5 DEF HandlersEndFirst, NoHandlerCutOff
<1>7. QED
  BY <1>2, <1>3, <1>4, <1>5, <1>6 DEF Inv

\* Whatever a client or a handler does is such a move.
LEMMA ConnectionStep ==
  ASSUME Inv, NEW k \in Sockets,
         Connect(k) \/ Request(k) \/ Answer(k) \/ HangUp(k) \/ Expire(k)
  PROVE  Inv'
<1> USE LifecycleAssumption
<1>0. left[k] \in Nat
  BY DEF Inv, TypeOK
<1>1. CASE Connect(k)
  BY <1>1, MoveStep DEF Connect
<1>2. CASE Request(k)
  BY <1>2, MoveStep DEF Request, Open
<1>3. CASE Answer(k)
  <2>1. CASE socket[k] = "busy" /\ Move(k, "kept", KeepAlive)
    BY <2>1, MoveStep DEF Open
  <2>2. CASE socket[k] = "orphan" /\ Move(k, "none", 0)
    BY <2>2, MoveStep
  <2>3. QED
    BY <1>3, <2>1, <2>2 DEF Answer
<1>4. CASE HangUp(k)
  <2>1. CASE Move(k, "none", 0)
    BY <2>1, MoveStep
  <2>2. CASE socket[k] = "busy" /\ Move(k, "orphan", left[k])
    BY <2>2, <1>0, MoveStep DEF Running
  <2>3. QED
    BY <1>4, <2>1, <2>2 DEF HangUp
<1>5. CASE Expire(k)
  BY <1>5, MoveStep DEF Expire
<1>6. QED
  BY <1>1, <1>2, <1>3, <1>4, <1>5

-----------------------------------------------------------------------------
(* Shutdown. *)

\* The first signal finds no timer, a later one finds that of the first.
LEMMA SignalStep ==
  ASSUME Inv, Signal
  PROVE  Inv'
<1> USE LifecycleAssumption
<1>1. CASE server = "unset"
  <2>1. /\ process = "running" /\ process' = "exit0" /\ signals' = signals + 1
        /\ UNCHANGED <<dataSource, server, socket, left, drains, forced, elapsed, openUntil>>
    BY <1>1 DEF Signal, net
  <2>2. signals = 0 /\ elapsed = 0 /\ forced = {} /\ dataSource \in {"unset", "open"}
    BY <1>1, <2>1 DEF Inv, BootOrder
  <2>3. TypeOK' /\ ForcedKept' /\ DrainKept'
    BY <1>1, <2>1, <2>2 DEF Inv, TypeOK, ForcedKept, DrainKept
  <2>4. BootOrder'
    BY <1>1, <2>1, <2>2 DEF Inv, BootOrder
  <2>5. OpenNeedsServer' /\ HandlersEndFirst' /\ NoHandlerCutOff'
    BY <1>1, <2>1 DEF Inv, OpenNeedsServer, HandlersEndFirst, NoHandlerCutOff, Open, Running
  <2>6. ForcedOnlyWhenLate'
    BY <2>1 DEF ForcedOnlyWhenLate
  <2>7. QED
    BY <2>3, <2>4, <2>5, <2>6 DEF Inv
<1>2. CASE server # "unset"
  <2>1. /\ process = "running" /\ process' = process /\ signals' = signals + 1
        /\ server' = "closing" /\ forced' = forced \cup {ForceAfter}
        /\ socket' \in [Sockets -> {"none", "new", "busy", "orphan"}]
        /\ \A k \in Sockets : socket'[k] \in AfterClose(k)
        /\ UNCHANGED <<dataSource, left, drains, elapsed, openUntil>>
    BY <1>2 DEF Signal, ForceTimers
  <2>2. \A k \in Sockets : (Open(k)' => Open(k)) /\ (Running(k)' => Running(k))
    BY <2>1 DEF AfterClose, Open, Running
  <2>3. server \in {"listening", "deaf", "closing", "closed"}
    BY <1>2 DEF Inv, TypeOK
  <2>4. TypeOK'
    BY <2>1 DEF Inv, TypeOK
  <2>5. BootOrder'
    BY <1>2, <2>1 DEF Inv, TypeOK, BootOrder
  <2>6. OpenNeedsServer' /\ HandlersEndFirst' /\ NoHandlerCutOff'
    BY <2>1, <2>2 DEF Inv, OpenNeedsServer, HandlersEndFirst, NoHandlerCutOff
  <2>7. ForcedKept' /\ DrainKept'
    <3>1. CASE server \in {"listening", "deaf"}
      <4>1. elapsed = 0 /\ openUntil = 0 /\ forced = {}
        BY <2>1, <3>1 DEF Inv, BootOrder
      <4>2. QED
        BY <2>1, <4>1 DEF ForcedKept, DrainKept
    <3>2. CASE server \in {"closing", "closed"}
      <4>1. ForcedKept'
        BY <2>1, <3>2 DEF Inv, TypeOK, ForcedKept
      <4>2. DrainKept'
        BY <2>1, <3>2 DEF Inv, DrainKept
      <4>3. QED
        BY <4>1, <4>2
    <3>3. QED
      BY <2>3, <3>1, <3>2
  <2>8. ForcedOnlyWhenLate'
    BY <2>1 DEF ForcedOnlyWhenLate
  <2>9. QED
    BY <2>4, <2>5, <2>6, <2>7, <2>8 DEF Inv
<1>3. QED
  BY <1>1, <1>2

\* The wait that starts when the last connection has ended outlasts the handlers
\* that were left behind.
LEMMA ClosedStep ==
  ASSUME Inv, Closed
  PROVE  Inv'
<1> USE LifecycleAssumption
<1>1. /\ process = "running" /\ server = "closing" /\ server' = "closed"
      /\ drains' = drains \cup {DrainWait}
      /\ \A k \in Sockets : ~Open(k) /\ ~Open(k)' /\ (Running(k)' = Running(k))
      /\ UNCHANGED <<process, dataSource, socket, left, forced, signals, elapsed, openUntil>>
  BY DEF Closed, AllClosed, Wait, net, Open, Running
<1>2. TypeOK'
  BY <1>1 DEF Inv, TypeOK
<1>3. BootOrder' /\ OpenNeedsServer' /\ ForcedKept' /\ ForcedOnlyWhenLate' /\ NoHandlerCutOff'
  BY <1>1 DEF Inv, BootOrder, OpenNeedsServer, ForcedKept, ForcedOnlyWhenLate, NoHandlerCutOff
<1>4. HandlersEndFirst'
  BY <1>1 DEF Inv, TypeOK, HandlersEndFirst
<1>5. DrainKept'
  BY <1>1 DEF Inv, TypeOK, DrainKept
<1>6. QED
  BY <1>2, <1>3, <1>4, <1>5 DEF Inv

\* When a wait is over no handler can have time left.
LEMMA DestroyStep ==
  ASSUME Inv, Destroy
  PROVE  Inv'
<1>1. /\ process = "running" /\ 0 \in drains /\ drains' = drains \ {0}
      /\ dataSource' = "closing"
      /\ UNCHANGED <<process, server, socket, left, forced, signals, elapsed, openUntil>>
  BY DEF Destroy, net
<1>2. \A k \in Sockets : ~Open(k) /\ ~Running(k) /\ ~Open(k)' /\ ~Running(k)'
  BY <1>1 DEF Inv, TypeOK, OpenNeedsServer, HandlersEndFirst, Open, Running
<1>3. server \notin {"unset", "listening", "deaf"}
  BY <1>1 DEF Inv, BootOrder
<1>4. TypeOK'
  BY <1>1 DEF Inv, TypeOK
<1>5. BootOrder' /\ ForcedKept' /\ DrainKept'
  BY <1>1, <1>3 DEF Inv, BootOrder, ForcedKept, DrainKept
<1>6. OpenNeedsServer' /\ HandlersEndFirst' /\ NoHandlerCutOff' /\ ForcedOnlyWhenLate'
  BY <1>1, <1>2 DEF Inv, OpenNeedsServer, HandlersEndFirst, NoHandlerCutOff, ForcedOnlyWhenLate
<1>7. QED
  BY <1>4, <1>5, <1>6 DEF Inv

\* destroy() was called with no handler running, and none has begun since.
LEMMA CleanStep ==
  ASSUME Inv, ExitCleanly
  PROVE  Inv'
<1>1. /\ process' = "exit0" /\ dataSource = "closing" /\ dataSource' = "closed"
      /\ UNCHANGED <<server, socket, left, drains, forced, signals, elapsed, openUntil>>
  BY DEF ExitCleanly, net
<1>2. \A k \in Sockets : ~Open(k) /\ ~Running(k) /\ ~Open(k)' /\ ~Running(k)'
  BY <1>1 DEF Inv, OpenNeedsServer, HandlersEndFirst, Open, Running
<1>3. TypeOK'
  BY <1>1 DEF Inv, TypeOK
<1>4. BootOrder' /\ ForcedKept' /\ DrainKept' /\ ForcedOnlyWhenLate'
  BY <1>1 DEF Inv, BootOrder, ForcedKept, DrainKept, ForcedOnlyWhenLate
<1>5. OpenNeedsServer' /\ HandlersEndFirst' /\ NoHandlerCutOff'
  BY <1>1, <1>2 DEF OpenNeedsServer, HandlersEndFirst, NoHandlerCutOff
<1>6. QED
  BY <1>3, <1>4, <1>5 DEF Inv

\* A forced exit that finds the data source open finds the time used up by the
\* connections.
LEMMA ForceStep ==
  ASSUME Inv, ExitByForce
  PROVE  Inv'
<1> USE LifecycleAssumption
<1>1. /\ process = "running" /\ 0 \in forced /\ process' = "exit1"
      /\ UNCHANGED <<dataSource, server, socket, left, drains, forced, signals, elapsed,
                    openUntil>>
  BY DEF ExitByForce, net
<1>2. TypeOK'
  BY <1>1 DEF Inv, TypeOK
<1>3. dataSource \in {"open", "closing"} /\ server \in {"closing", "closed"}
  BY <1>1 DEF Inv, TypeOK, BootOrder
<1>4. BootOrder' /\ ForcedKept' /\ DrainKept'
  BY <1>1, <1>3 DEF Inv, BootOrder, ForcedKept, DrainKept
<1>5. OpenNeedsServer' /\ HandlersEndFirst' /\ NoHandlerCutOff'
  BY <1>1 DEF Inv, OpenNeedsServer, HandlersEndFirst, NoHandlerCutOff, Open, Running
<1>6. dataSource = "open" => openUntil + DrainWait >= ForceAfter
  <2>1. 0 + elapsed >= ForceAfter
    BY <1>1 DEF Inv, ForcedKept
  <2> SUFFICES ASSUME dataSource = "open"
               PROVE  openUntil + DrainWait >= ForceAfter
    OBVIOUS
  <2>2. CASE openUntil = elapsed
    BY <2>1, <2>2 DEF Inv, TypeOK
  <2>3. CASE \E d \in drains : d + elapsed <= openUntil + DrainWait
    <3>1. PICK d \in drains : d + elapsed <= openUntil + DrainWait
      BY <2>3
    <3>2. QED
      BY <2>1, <3>1 DEF Inv, TypeOK
  <2>4. QED
    BY <1>3, <2>2, <2>3 DEF Inv, DrainKept
<1>7. ForcedOnlyWhenLate'
  BY <1>1, <1>3, <1>6 DEF ForcedOnlyWhenLate
<1>8. QED
  BY <1>2, <1>4, <1>5, <1>7 DEF Inv

\* The clock moves only when nothing is due: every timer has a tick left, and a
\* server that is closing has a connection.
LEMMA TickStep ==
  ASSUME Inv, Tick
  PROVE  Inv'
<1> USE LifecycleAssumption
<1>1. /\ process = "running"
      /\ UNCHANGED <<process, dataSource, server, socket, signals>>
      /\ drains' = {d - 1 : d \in drains} /\ forced' = {f - 1 : f \in forced}
      /\ \A k \in Sockets : left'[k] = IF Timed(k) THEN left[k] - 1 ELSE left[k]
      /\ left' = [k \in Sockets |-> IF Timed(k) THEN left[k] - 1 ELSE left[k]]
      /\ elapsed' = IF signals > 0 /\ elapsed <= ForceAfter THEN elapsed + 1 ELSE elapsed
      /\ openUntil' = IF \E k \in Sockets : Open(k) THEN elapsed' ELSE openUntil
  BY DEF Tick, Less
<1>2. /\ 0 \notin drains /\ 0 \notin forced
      /\ \A k \in Sockets : Timed(k) => left[k] # 0
      /\ server = "closing" => \E k \in Sockets : Open(k)
  BY DEF Tick, Due, AllClosed
<1>3. \A k \in Sockets : (Open(k)' = Open(k)) /\ (Running(k)' = Running(k))
                         /\ (Running(k) => Timed(k))
  BY <1>1 DEF Open, Running, Timed
<1>4. TypeOK'
  BY <1>1, <1>2 DEF Inv, TypeOK
<1>5. BootOrder' /\ ForcedKept' /\ DrainKept'
  <2>1. CASE signals = 0
    <3>1. elapsed' = 0 /\ openUntil' = 0 /\ forced' = {}
      BY <1>1, <2>1 DEF Inv, BootOrder
    <3>2. BootOrder'
      BY <1>1, <2>1, <3>1 DEF Inv, BootOrder
    <3>3. ForcedKept' /\ DrainKept'
      BY <1>1, <2>1, <3>1 DEF Inv, BootOrder, ForcedKept, DrainKept
    <3>4. QED
      BY <3>2, <3>3
  <2>2. CASE signals # 0
    <3>1. server \in {"closing", "closed"} /\ signals > 0
      BY <1>1, <2>2 DEF Inv, TypeOK, BootOrder
    <3>2. PICK f \in forced : f + elapsed = ForceAfter
      BY <1>1, <3>1 DEF Inv, ForcedKept
    <3>3. elapsed' = elapsed + 1 /\ elapsed + 1 <= ForceAfter
      BY <1>1, <1>2, <3>1, <3>2 DEF Inv, TypeOK
    <3>4. BootOrder'
      BY <1>1, <3>1 DEF Inv, BootOrder
    <3>5. ForcedKept'
      <4>1. f - 1 \in forced' /\ f - 1 + elapsed' = ForceAfter
        BY <1>1, <3>2, <3>3 DEF Inv, TypeOK
      <4>2. \A g \in forced' : g + elapsed' >= ForceAfter
        BY <1>1, <3>3 DEF Inv, TypeOK, ForcedKept
      <4>3. QED
        BY <3>3, <4>1, <4>2 DEF ForcedKept
    <3>6. DrainKept'
      <4> SUFFICES ASSUME dataSource = "open"
                   PROVE  \/ server = "closing" /\ openUntil' = elapsed'
                          \/ \E d \in drains' : d + elapsed' <= openUntil' + DrainWait
        BY <1>1 DEF DrainKept
      <4>1. CASE server = "closing" /\ openUntil = elapsed
        BY <1>1, <1>2, <4>1
      <4>2. CASE \E d \in drains : d + elapsed <= openUntil + DrainWait
        <5>1. PICK d \in drains : d + elapsed <= openUntil + DrainWait
          BY <4>2
        <5>2. openUntil' = openUntil
          BY <1>1, <5>1 DEF Inv, OpenNeedsServer
        <5>3. d - 1 \in drains' /\ (d - 1) + elapsed' <= openUntil' + DrainWait
          BY <1>1, <3>3, <5>1, <5>2 DEF Inv, TypeOK
        <5>4. QED
          BY <5>3
      <4>3. QED
        BY <3>1, <4>1, <4>2 DEF Inv, DrainKept
    <3>7. QED
      BY <3>4, <3>5, <3>6
  <2>3. QED
    BY <2>1, <2>2
<1>6. OpenNeedsServer'
  BY <1>1, <1>3 DEF Inv, OpenNeedsServer
<1>7. HandlersEndFirst'
  BY <1>1, <1>2, <1>3 DEF Inv, TypeOK, HandlersEndFirst
<1>8. NoHandlerCutOff' /\ ForcedOnlyWhenLate'
  BY <1>1, <1>3 DEF Inv, NoHandlerCutOff, ForcedOnlyWhenLate
<1>9. QED
  BY <1>4, <1>5, <1>6, <1>7, <1>8 DEF Inv

-----------------------------------------------------------------------------
(* Theorems. *)

\* The inductive invariant of bootstrap, connections and shutdown.
THEOREM Invariance == Spec => []Inv
<1>1. Inv /\ [Next]_vars => Inv'
  <2> SUFFICES ASSUME Inv, [Next]_vars
               PROVE  Inv'
    OBVIOUS
  <2>1. CASE Next
    BY <2>1, BootStep, ConnectionStep, SignalStep, ClosedStep, DestroyStep, CleanStep,
       ForceStep, TickStep DEF Next
  <2>2. CASE UNCHANGED vars
    BY <2>2, StutterStep
  <2>3. QED
    BY <2>1, <2>2
<1>2. QED
  BY InvInit, <1>1, PTL DEF Spec

\* gracefulShutdown: a signalled process has ended when ForceAfter has passed since
\* the first signal.
THEOREM EndsOnTime == Spec => []EndsInTime
<1>1. Inv => EndsInTime
  BY DEF Inv, ForcedKept, EndsInTime
<1>2. QED
  BY Invariance, <1>1, PTL

\* gracefulShutdown: neither destroy() nor exit(0) cuts off a request handler that
\* takes less than the wait.
THEOREM HandlersFinish == Spec => []NoHandlerCutOff
<1>1. Inv => NoHandlerCutOff
  BY DEF Inv
<1>2. QED
  BY Invariance, <1>1, PTL

\* gracefulShutdown: exit(1) needs a connection that stayed open too long, or a
\* destroy() that does not come back.
THEOREM ForcedIsLate == Spec => []ForcedOnlyWhenLate
<1>1. Inv => ForcedOnlyWhenLate
  BY DEF Inv
<1>2. QED
  BY Invariance, <1>1, PTL
=============================================================================
