----------------------------- MODULE ConcertLock -----------------------------
(***************************************************************************)
(* withConcertLock: the in-process lock of the pessimistic handler, one    *)
(* chain of promises per concert.  A call waits for the promise it finds   *)
(* in the map and leaves there a promise that settles after its own        *)
(* release.                                                                *)
(***************************************************************************)
CONSTANTS
  Calls,     \* calls of withConcertLock, each made at most once
  Concerts,
  ConcertAt  \* the concertId of each call

ASSUME CallsAssumption == ConcertAt \in [Calls -> Concerts]

VARIABLES
  concertLocks,  \* the map: for each concert, the promise stored or None
  at,            \* where each call is
  previous,      \* the promise each call waits for
  settled,       \* the promises that have resolved
  ahead          \* history: the calls that were in line when a call arrived

vars == <<concertLocks, at, previous, settled, ahead>>

\* The two promises a call creates: `current', which release() resolves, and
\* the one it puts into the map, previous.then(() => current).
Current(r) == <<"current", r>>
Chained(r) == <<"chained", r>>
None       == <<"none">>

Promises == {Current(r) : r \in Calls} \cup {Chained(r) : r \in Calls}
Chain    == {Chained(r) : r \in Calls} \cup {None}

Positions == {"new", "waiting", "running", "done"}

\* Calls wait for chained promises only: the bare release of a call, which
\* says nothing of the calls before it, never gets into the map.
TypeOK ==
  /\ concertLocks \in [Concerts -> Chain]
  /\ at \in [Calls -> Positions]
  /\ previous \in [Calls -> Chain]
  /\ settled \subseteq Promises
  /\ ahead \in [Calls -> SUBSET Calls]

Init ==
  /\ concertLocks = [c \in Concerts |-> None]
  /\ at = [r \in Calls |-> "new"]
  /\ previous = [r \in Calls |-> None]
  /\ settled = {}
  /\ ahead = [r \in Calls |-> {}]

InLine(c) == {r \in Calls : ConcertAt[r] = c /\ at[r] \in {"waiting", "running"}}

\* Mutant of Stored: the release alone.
StoredUnchained(r) == Current(r)

Stored(r) == Chained(r)

\* Up to the first await: the code runs without giving way.
Arrive(r) ==
  LET c == ConcertAt[r]
  IN  /\ at[r] = "new"
      /\ at' = [at EXCEPT ![r] = "waiting"]
      /\ previous' = [previous EXCEPT ![r] = concertLocks[c]]
      /\ concertLocks' = [concertLocks EXCEPT ![c] = Stored(r)]
      /\ ahead' = [ahead EXCEPT ![r] = InLine(c)]
      /\ UNCHANGED settled

\* `?? Promise.resolve()': a call that finds no promise waits for none.
Over(promise) == promise = None \/ promise \in settled

\* await previous
Enter(r) ==
  /\ at[r] = "waiting"
  /\ Over(previous[r])
  /\ at' = [at EXCEPT ![r] = "running"]
  /\ UNCHANGED <<concertLocks, previous, settled, ahead>>

\* Mutants of AfterRelease: the entry is always deleted; it is replaced by the
\* promise the call itself waited for.
AlwaysDelete(r) == None

PutBackPrevious(r) == previous[r]

\* What the map holds for the concert once r has released.  The entry is
\* compared with `current', which is never what the map holds.
AfterRelease(r) ==
  IF concertLocks[ConcertAt[r]] = Current(r) THEN None ELSE concertLocks[ConcertAt[r]]

\* Mutant of Resolved: the release is forgotten when somebody waits.
ResolvedIfAlone(r) ==
  IF InLine(ConcertAt[r]) = {r} THEN settled \cup {Current(r)} ELSE settled

Resolved(r) == settled \cup {Current(r)}

\* The finally block, whether fn returned or threw.
Leave(r) ==
  /\ at[r] = "running"
  /\ at' = [at EXCEPT ![r] = "done"]
  /\ settled' = Resolved(r)
  /\ concertLocks' = [concertLocks EXCEPT ![ConcertAt[r]] = AfterRelease(r)]
  /\ UNCHANGED <<previous, ahead>>

\* The microtask that resolves previous.then(() => current).
Settle(r) ==
  /\ at[r] # "new"
  /\ Over(previous[r])
  /\ Current(r) \in settled
  /\ Chained(r) \notin settled
  /\ settled' = settled \cup {Chained(r)}
  /\ UNCHANGED <<concertLocks, at, previous, ahead>>

Next == \E r \in Calls : Arrive(r) \/ Enter(r) \/ Leave(r) \/ Settle(r)

Spec == Init /\ [][Next]_vars

\* Microtasks run, and what runs under the lock ends (it is a transaction whose
\* every statement the database answers); nobody has to call.
FairSpec ==
  /\ Spec
  /\ \A r \in Calls : WF_vars(Enter(r)) /\ WF_vars(Leave(r)) /\ WF_vars(Settle(r))

-----------------------------------------------------------------------------
(* Properties. *)

\* Two reservations for one concert never run at the same time, although the
\* map keeps only the newest promise and nobody counts who holds the lock.
MutualExclusion ==
  \A r, s \in Calls :
    at[r] = "running" /\ at[s] = "running" /\ ConcertAt[r] = ConcertAt[s] => r = s

\* Whoever runs had everybody before it served: callers are not overtaken.
FirstComeFirstServed ==
  \A r \in Calls : at[r] \in {"running", "done"} => \A s \in ahead[r] : at[s] = "done"

\* What a step relies on: nothing of a call exists before it arrives, ...
NewIsUnknown ==
  \A r \in Calls : at[r] = "new" =>
    /\ Current(r) \notin settled /\ Chained(r) \notin settled
    /\ \A s \in Calls : r \notin ahead[s] /\ previous[s] # Chained(r)

\* ... a settled promise says that its call, and every call before it, is over, ...
SettledIsOver ==
  \A r \in Calls :
    /\ Current(r) \in settled => at[r] = "done"
    /\ Chained(r) \in settled => at[r] = "done" /\ \A s \in ahead[r] : at[s] = "done"

\* ... the promise a call waits for covers every call before it, ...
PreviousCoversAhead ==
  \A r \in Calls : at[r] # "new" =>
    /\ previous[r] = None => ahead[r] = {}
    /\ \A p \in Calls : previous[r] = Chained(p) => ahead[r] \subseteq ahead[p] \cup {p}

\* ... the promise in the map covers everybody in line, and of two calls in
\* line one is ahead of the other.
MapCoversLine ==
  \A c \in Concerts :
    /\ concertLocks[c] = None => InLine(c) = {}
    /\ \A p \in Calls : concertLocks[c] = Chained(p) =>
         at[p] # "new" /\ InLine(c) \subseteq ahead[p] \cup {p}

LineIsOrdered ==
  \A c \in Concerts : \A r, s \in InLine(c) :
    r # s => r \in ahead[s] \/ s \in ahead[r]

\* The inductive invariant of the proofs.
Inv ==
  /\ TypeOK /\ NewIsUnknown /\ SettledIsOver /\ PreviousCoversAhead
  /\ MapCoversLine /\ LineIsOrdered /\ FirstComeFirstServed

\* No waiting caller is forgotten when the one before it releases.
EveryCallerIsServed ==
  \A r \in Calls : at[r] = "waiting" ~> at[r] = "done"

\* What the delete in the finally block is for: a concert nobody is reserving
\* has no entry in the map.
MapIsEmptiedWhenIdle ==
  \A c \in Concerts :
    InLine(c) = {} => concertLocks[c] = None
=============================================================================
