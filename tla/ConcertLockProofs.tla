-------------------------- MODULE ConcertLockProofs --------------------------
(***************************************************************************)
(* The promise chain of withConcertLock is a fair lock, for any calls and  *)
(* any concerts.                                                           *)
(***************************************************************************)
EXTENDS ConcertLock, TLAPS

\* The promises of two calls, and the two promises of one call, are different.
LEMMA PromisesDiffer ==
  ASSUME NEW r \in Calls, NEW s \in Calls
  PROVE  /\ Chained(r) # Current(s) /\ Chained(r) # None /\ Current(r) # None
         /\ Chained(r) = Chained(s) => r = s
         /\ Current(r) = Current(s) => r = s
BY DEF Chained, Current, None

\* Before the first call the map is empty and nobody is in line.
LEMMA InvInit ==
  Init => Inv
BY DEF Init, Inv, TypeOK, Chain, Positions, NewIsUnknown, SettledIsOver, PreviousCoversAhead,
       MapCoversLine, LineIsOrdered, FirstComeFirstServed, InLine, Promises, None, Chained

\* The map holds chained promises only, so Leave never deletes an entry.
LEMMA MapKeepsItsEntry ==
  ASSUME TypeOK, NEW r \in Calls
  PROVE  AfterRelease(r) = concertLocks[ConcertAt[r]]
BY CallsAssumption, PromisesDiffer DEF TypeOK, AfterRelease, Chain, Current, None, Chained

\* Every step of withConcertLock keeps the types; Leave deletes no entry.
LEMMA TypeStep ==
  ASSUME TypeOK, [Next]_vars
  PROVE  TypeOK'
<1> USE DEF TypeOK
<1>1. ASSUME NEW r \in Calls, Arrive(r)
      PROVE  TypeOK'
  BY <1>1, CallsAssumption DEF Arrive, Stored, Chain, Positions, InLine
<1>2. ASSUME NEW r \in Calls, Enter(r)
      PROVE  TypeOK'
  BY <1>2 DEF Enter, Positions
<1>3. ASSUME NEW r \in Calls, Leave(r)
      PROVE  TypeOK'
  BY <1>3, MapKeepsItsEntry, CallsAssumption DEF Leave, Resolved, Positions, Promises
<1>4. ASSUME NEW r \in Calls, Settle(r)
      PROVE  TypeOK'
  BY <1>4 DEF Settle, Promises
<1>5. CASE UNCHANGED vars
  BY <1>5 DEF vars
<1>6. QED
  BY <1>1, <1>2, <1>3, <1>4, <1>5 DEF Next

\* A new call finds everybody in line behind the promise it will wait for.
LEMMA ArriveStep ==
  ASSUME Inv, NEW r \in Calls, Arrive(r)
  PROVE  Inv'
<1> DEFINE c == ConcertAt[r]
<1>1. TypeOK'
  BY TypeStep DEF Inv, Next
<1>2. /\ c \in Concerts
      /\ at[r] = "new"
      /\ \A s \in Calls : at'[s] = IF s = r THEN "waiting" ELSE at[s]
      /\ \A s \in Calls : previous'[s] = IF s = r THEN concertLocks[c] ELSE previous[s]
      /\ \A d \in Concerts : concertLocks'[d] = IF d = c THEN Chained(r) ELSE concertLocks[d]
      /\ \A s \in Calls : ahead'[s] = IF s = r THEN InLine(c) ELSE ahead[s]
      /\ settled' = settled
  BY CallsAssumption DEF Arrive, Stored, Inv, TypeOK
<1>3. /\ InLine(c)' = InLine(c) \cup {r}
      /\ r \notin InLine(c)
      /\ \A d \in Concerts \ {c} : InLine(d)' = InLine(d)
  BY <1>2 DEF InLine
<1> HIDE DEF c
<1>4. ahead \in [Calls -> SUBSET Calls]
  BY DEF Inv, TypeOK
<1>5. NewIsUnknown'
  <2>1. \A s \in InLine(c) : at[s] # "new"
    BY DEF InLine
  <2>2. ASSUME NEW q \in Calls, at'[q] = "new"
        PROVE  /\ Current(q) \notin settled' /\ Chained(q) \notin settled'
               /\ \A s \in Calls : q \notin ahead'[s] /\ previous'[s] # Chained(q)
    BY <1>2, <2>1, <2>2 DEF Inv, NewIsUnknown, MapCoversLine
  <2>3. QED
    BY <2>2 DEF NewIsUnknown
<1>6. SettledIsOver'
  BY <1>2, <1>4 DEF Inv, SettledIsOver, NewIsUnknown
<1>7. PreviousCoversAhead'
  <2>1. ASSUME NEW s \in Calls, s # r, at[s] # "new"
        PROVE  /\ previous'[s] = None => ahead'[s] = {}
               /\ \A p \in Calls : previous'[s] = Chained(p) => ahead'[s] \subseteq ahead'[p] \cup {p}
    <3>1. previous'[s] = previous[s] /\ ahead'[s] = ahead[s]
      BY <1>2, <2>1
    <3>2. ASSUME NEW p \in Calls, previous[s] = Chained(p)
          PROVE  ahead[s] \subseteq ahead'[p] \cup {p}
      <4>1. p # r
        BY <1>2, <2>1, <3>2 DEF Inv, NewIsUnknown
      <4>2. QED
        BY <1>2, <2>1, <3>2, <4>1 DEF Inv, PreviousCoversAhead
    <3>3. QED
      BY <2>1, <3>1, <3>2 DEF Inv, PreviousCoversAhead
  <2>2. /\ previous'[r] = None => ahead'[r] = {}
        /\ \A p \in Calls : previous'[r] = Chained(p) => ahead'[r] \subseteq ahead'[p] \cup {p}
    BY <1>2 DEF Inv, MapCoversLine
  <2>3. QED
    BY <1>2, <2>1, <2>2 DEF PreviousCoversAhead
<1>8. MapCoversLine'
  BY <1>2, <1>3, PromisesDiffer DEF Inv, MapCoversLine
<1>9. LineIsOrdered'
  <2>1. \A s \in InLine(c) : s \in Calls /\ s # r
    BY <1>3 DEF InLine
  <2>2. \A d \in Concerts \ {c} : \A s \in InLine(d) : s \in Calls /\ s # r
    BY <1>2 DEF InLine
  <2>3. QED
    BY <1>2, <1>3, <2>1, <2>2 DEF Inv, LineIsOrdered
<1>10. FirstComeFirstServed'
  BY <1>2, <1>4 DEF Inv, FirstComeFirstServed, NewIsUnknown
<1>11. QED
  BY <1>1, <1>5, <1>6, <1>7, <1>8, <1>9, <1>10 DEF Inv

\* When the promise a call waits for has settled, all calls before it are over.
LEMMA OverMeansServed ==
  ASSUME Inv, NEW r \in Calls, at[r] # "new", Over(previous[r])
  PROVE  \A s \in ahead[r] : at[s] = "done"
<1>1. previous[r] = None \/ \E p \in Calls : previous[r] = Chained(p)
  BY DEF Inv, TypeOK, Chain
<1>2. CASE previous[r] = None
  BY <1>2 DEF Inv, PreviousCoversAhead
<1>3. ASSUME NEW p \in Calls, previous[r] = Chained(p)
      PROVE  \A s \in ahead[r] : at[s] = "done"
  <2>1. Chained(p) \in settled
    BY <1>3, PromisesDiffer DEF Over
  <2>2. ahead[r] \subseteq ahead[p] \cup {p}
    BY <1>3 DEF Inv, PreviousCoversAhead
  <2>3. QED
    BY <2>1, <2>2 DEF Inv, SettledIsOver
<1>4. QED
  BY <1>1, <1>2, <1>3

\* A call that starts to run has everybody before it served.
LEMMA EnterStep ==
  ASSUME Inv, NEW r \in Calls, Enter(r)
  PROVE  Inv'
<1>1. TypeOK'
  BY TypeStep DEF Inv, Next
<1>2. /\ at[r] = "waiting"
      /\ \A s \in Calls : at'[s] = IF s = r THEN "running" ELSE at[s]
      /\ UNCHANGED <<concertLocks, previous, settled, ahead>>
  BY DEF Enter, Inv, TypeOK
<1>3. \A c \in Concerts : InLine(c)' = InLine(c)
  BY <1>2 DEF InLine
<1>4. \A s \in ahead[r] : at[s] = "done"
  BY <1>2, OverMeansServed DEF Enter
<1>5. ahead \in [Calls -> SUBSET Calls]
  BY DEF Inv, TypeOK
<1>6. NewIsUnknown' /\ SettledIsOver' /\ PreviousCoversAhead'
  BY <1>2, <1>5 DEF Inv, NewIsUnknown, SettledIsOver, PreviousCoversAhead
<1>7. MapCoversLine' /\ LineIsOrdered'
  BY <1>2, <1>3 DEF Inv, MapCoversLine, LineIsOrdered
<1>8. FirstComeFirstServed'
  BY <1>2, <1>4, <1>5 DEF Inv, FirstComeFirstServed
<1>9. QED
  BY <1>1, <1>6, <1>7, <1>8 DEF Inv

\* Releasing the lock keeps the line behind the promise in the map.
LEMMA LeaveStep ==
  ASSUME Inv, NEW r \in Calls, Leave(r)
  PROVE  Inv'
<1>1. TypeOK'
  BY TypeStep DEF Inv, Next
<1>2. /\ at[r] = "running"
      /\ \A s \in Calls : at'[s] = IF s = r THEN "done" ELSE at[s]
      /\ settled' = settled \cup {Current(r)}
      /\ UNCHANGED <<concertLocks, previous, ahead>>
  BY MapKeepsItsEntry, CallsAssumption DEF Leave, Resolved, Inv, TypeOK
<1>3. \A c \in Concerts : InLine(c)' \subseteq InLine(c)
  BY <1>2 DEF InLine
<1>4. ahead \in [Calls -> SUBSET Calls]
  BY DEF Inv, TypeOK
<1>5. NewIsUnknown'
  BY <1>2, <1>4, PromisesDiffer DEF Inv, NewIsUnknown
<1>6. SettledIsOver'
  BY <1>2, <1>4, PromisesDiffer DEF Inv, SettledIsOver
<1>7. PreviousCoversAhead' /\ FirstComeFirstServed'
  BY <1>2, <1>4 DEF Inv, PreviousCoversAhead, FirstComeFirstServed
<1>8. MapCoversLine' /\ LineIsOrdered'
  BY <1>2, <1>3 DEF Inv, MapCoversLine, LineIsOrdered
<1>9. QED
  BY <1>1, <1>5, <1>6, <1>7, <1>8 DEF Inv

\* A chained promise settles after the promise its call waited for.
LEMMA SettleStep ==
  ASSUME Inv, NEW r \in Calls, Settle(r)
  PROVE  Inv'
<1>1. TypeOK'
  BY TypeStep DEF Inv, Next
<1>2. /\ at[r] # "new"
      /\ Current(r) \in settled
      /\ settled' = settled \cup {Chained(r)}
      /\ UNCHANGED <<concertLocks, at, previous, ahead>>
  BY DEF Settle
<1>3. at[r] = "done" /\ \A s \in ahead[r] : at[s] = "done"
  BY <1>2, OverMeansServed DEF Settle, Inv, SettledIsOver
<1>4. NewIsUnknown' /\ SettledIsOver'
  BY <1>2, <1>3, PromisesDiffer DEF Inv, NewIsUnknown, SettledIsOver
<1>5. PreviousCoversAhead' /\ FirstComeFirstServed' /\ MapCoversLine' /\ LineIsOrdered'
  BY <1>2 DEF Inv, PreviousCoversAhead, FirstComeFirstServed, MapCoversLine, LineIsOrdered, InLine
<1>6. QED
  BY <1>1, <1>4, <1>5 DEF Inv

\* Inv is inductive: arriving, entering, leaving and settling preserve it.
LEMMA InvStep ==
  ASSUME Inv, [Next]_vars
  PROVE  Inv'
<1>1. CASE UNCHANGED vars
  BY <1>1 DEF vars, Inv, TypeOK, NewIsUnknown, SettledIsOver, PreviousCoversAhead,
              MapCoversLine, LineIsOrdered, FirstComeFirstServed, InLine
<1>2. QED
  BY <1>1, ArriveStep, EnterStep, LeaveStep, SettleStep DEF Next

\* In every behaviour of the promise chain the map covers the line, whoever runs
\* has its predecessors served, and a settled promise is an ended call.
THEOREM Invariance == Spec => []Inv
BY InvInit, InvStep, PTL DEF Spec

\* Only chained promises are ever stored in concertLocks or waited for.
THEOREM TypeCorrect == Spec => []TypeOK
<1>1. Inv => TypeOK
  BY DEF Inv
<1>2. QED
  BY <1>1, Invariance, PTL

\* Callers of one concert are served in the order in which they came.
THEOREM Fairness == Spec => []FirstComeFirstServed
<1>1. Inv => FirstComeFirstServed
  BY DEF Inv
<1>2. QED
  BY <1>1, Invariance, PTL

\* Two reservations for one concert never run together.
THEOREM Exclusion == Spec => []MutualExclusion
<1>1. Inv => MutualExclusion
  BY CallsAssumption DEF Inv, TypeOK, LineIsOrdered, FirstComeFirstServed, MutualExclusion, InLine
<1>2. QED
  BY <1>1, Invariance, PTL
=============================================================================
