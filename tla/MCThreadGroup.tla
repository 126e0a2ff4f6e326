--------------------------- MODULE MCThreadGroup ---------------------------
(* Small instances of ThreadGroup with groups of two sizes: the programs   *)
(* of src/thread/test.c and src/thread/test_async.c one after the other,   *)
(* and an asynchronous run that nobody waits for.                          *)
EXTENDS ThreadGroup, TLC

CONSTANTS A, B

NrAB == (A :> 1) @@ (B :> 2)

\* A synchronous run of the cluster, then an asynchronous one and the wait.
WaitPlan ==
    << [op |-> "run", groups |-> <<A, B>>],
       [op |-> "async", groups |-> <<A, B>>], [op |-> "wait", groups |-> <<A, B>>] >>

\* The groups are left to the join work.
AutoPlan == <<[op |-> "async", groups |-> <<A, B>>]>>

BothPlans == {WaitPlan, AutoPlan}
OnlyWait == {WaitPlan}
=============================================================================
