\* Is the map emptied?
SPECIFICATION Spec
CONSTANTS
  r1 = r1
  r2 = r2
  r3 = r3
  r4 = r4
  s1 = s1
  c1 = c1
  c2 = c2
  Calls <- MCCalls
  Concerts <- MCConcerts
  ConcertAt <- MCConcertAt
INVARIANTS
  MapIsEmptiedWhenIdle
\* All calls have been made.
CHECK_DEADLOCK FALSE
