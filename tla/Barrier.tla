------------------------------ MODULE Barrier ------------------------------
(***************************************************************************)
(* What a reusable barrier promises: a thread returns from its k-th call   *)
(* only after every thread has made its k-th call.                         *)
(***************************************************************************)
EXTENDS Naturals

CONSTANTS Threads, MaxCalls     \* MaxCalls: bound on the calls of a thread

VARIABLES
    begun,      \* calls of the barrier a thread has made
    done        \* calls it has returned from

Init == begun = [t \in Threads |-> 0] /\ done = [t \in Threads |-> 0]

Enter(t) ==
    /\ begun[t] = done[t] /\ begun[t] < MaxCalls
    /\ begun' = [begun EXCEPT ![t] = @ + 1]
    /\ UNCHANGED done

Leave(t) ==
    /\ begun[t] # done[t]
    /\ \A u \in Threads : begun[u] >= begun[t]
    /\ done' = [done EXCEPT ![t] = begun[t]]
    /\ UNCHANGED begun

Next == \E t \in Threads : Enter(t) \/ Leave(t)

Spec == Init /\ [][Next]_<<begun, done>>
=============================================================================
