------------------------ MODULE MCCentralizedBarrier ------------------------
(* Small instances: one barrier used over and over, and two in turn. *)
EXTENDS CentralizedBarrier

CONSTANTS b1, b2

OnePlan == [k \in 1..MaxCalls |-> b1]
TwoPlan == [k \in 1..MaxCalls |-> IF k % 2 = 1 THEN b1 ELSE b2]
=============================================================================
