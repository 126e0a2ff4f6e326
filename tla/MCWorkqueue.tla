---------------------------- MODULE MCWorkqueue ----------------------------
(* Small instances of Workqueue. *)
EXTENDS Workqueue, TLC

CONSTANTS w1, w2

\* A cpu beyond NrCpu, as in src/workqueue/test.c, and "any".
BeyondAndAny == (w1 :> {2}) @@ (w2 :> {-1, 2})
AnyCpu == w1 :> {-1, 0}
TwoAndOne == (w1 :> 2) @@ (w2 :> 1)
Two == w1 :> 2
=============================================================================
