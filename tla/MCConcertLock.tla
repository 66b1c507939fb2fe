---------------------------- MODULE MCConcertLock ----------------------------
(***************************************************************************)
(* Four calls for one concert and one for another: three may queue behind  *)
(* the one that runs.                                                      *)
(***************************************************************************)
EXTENDS ConcertLock, TLC

CONSTANTS r1, r2, r3, r4, s1, c1, c2

MCCalls     == {r1, r2, r3, r4, s1}
MCConcerts  == {c1, c2}
MCConcertAt == [r \in MCCalls |-> IF r = s1 THEN c2 ELSE c1]
=============================================================================
