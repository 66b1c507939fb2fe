---------------------------- MODULE MCLifecycle ----------------------------
(***************************************************************************)
(* An instance of Lifecycle for TLC.  A tick is 1.25 s: Node keeps an idle *)
(* connection for 5 s, the wait is 5 s, the forced exit comes after 10 s.  *)
(***************************************************************************)
EXTENDS Lifecycle, TLC

CONSTANTS k1, k2

MCSockets  == {k1, k2}
=============================================================================
