------------------------------ MODULE WorkPool ------------------------------
(***************************************************************************)
(* What a workpool promises: a work is run as often as it is scheduled,    *)
(* and the pool is closed only when nothing is left to run.                *)
(***************************************************************************)
EXTENDS Naturals

CONSTANTS Works, MaxCalls   \* MaxCalls: bound on how often each work is scheduled

VARIABLES
    scheduled,  \* times each work has been scheduled
    run,        \* times it has been run
    closed

Init ==
    /\ scheduled = [w \in Works |-> 0] /\ run = [w \in Works |-> 0]
    /\ closed = FALSE

Schedule(w) ==
    /\ ~closed /\ scheduled[w] < MaxCalls[w]
    /\ scheduled' = [scheduled EXCEPT ![w] = @ + 1]
    /\ UNCHANGED <<run, closed>>

Run(w) ==
    /\ run[w] < scheduled[w]
    /\ run' = [run EXCEPT ![w] = @ + 1]
    /\ UNCHANGED <<scheduled, closed>>

\* A work that schedules itself again while it runs.
RunAgain(w) ==
    /\ run[w] < scheduled[w] /\ scheduled[w] < MaxCalls[w]
    /\ run' = [run EXCEPT ![w] = @ + 1]
    /\ scheduled' = [scheduled EXCEPT ![w] = @ + 1]
    /\ UNCHANGED closed

Close ==
    /\ ~closed /\ run = scheduled
    /\ closed' = TRUE
    /\ UNCHANGED <<scheduled, run>>

Next == (\E w \in Works : Schedule(w) \/ Run(w) \/ RunAgain(w)) \/ Close

Spec == Init /\ [][Next]_<<scheduled, run, closed>>
=============================================================================
