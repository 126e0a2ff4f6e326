------------------------- MODULE CentralizedBarrier -------------------------
(***************************************************************************)
(* mthpc_centralized_barrier() (src/centralized_barrier): a sense-reversing*)
(* barrier made of a counter under a spin lock and a flag.  All threads    *)
(* run the same sequence of calls.  The critical section of b->lock is one *)
(* step; the flag is written after it.                                     *)
(***************************************************************************)
EXTENDS Naturals, FiniteSets

CONSTANTS
    Threads,
    Barriers,
    MaxCalls,   \* bound: calls a thread makes
    Plan,       \* Plan[k]: the barrier the k-th call of a thread is made on
    N           \* the n of every call

ASSUME BarrierAssumption ==
    /\ IsFiniteSet(Threads)
    /\ MaxCalls \in Nat
    /\ Plan \in [1..MaxCalls -> Barriers]
    /\ N \in Nat \ {0}

VARIABLES
    flag,       \* b->flag
    count,      \* b->count
    sense,      \* mthpc_local_sense: one per thread, whatever the barrier
    pc,         \* "out", "spin" on the flag, or about to "release" it
    begun,      \* calls the thread has made
    done,       \* calls it has returned from
    round       \* history: releases of the barrier so far

vars == <<flag, count, sense, pc, begun, done, round>>

Init ==
    /\ flag = [b \in Barriers |-> 0]
    /\ count = [b \in Barriers |-> 0]
    /\ sense = [t \in Threads |-> 0]
    /\ pc = [t \in Threads |-> "out"]
    /\ begun = [t \in Threads |-> 0]
    /\ done = [t \in Threads |-> 0]
    /\ round = [b \in Barriers |-> 0]

\* The barrier of the call the thread is in.
Current(t) == Plan[begun[t]]

\* Broken variant: the last to arrive does not reset the counter.
NoReset(t) ==
    /\ pc[t] = "out" /\ begun[t] < MaxCalls
    /\ begun' = [begun EXCEPT ![t] = @ + 1]
    /\ sense' = [sense EXCEPT ![t] = 1 - @]
    /\ LET b == Plan[begun[t] + 1]
           c == count[b] + 1
       IN  /\ count' = [count EXCEPT ![b] = c]
           /\ pc' = [pc EXCEPT ![t] = IF c = N THEN "release"
                                      ELSE IF c < N THEN "spin" ELSE "out"]
           /\ done' = [done EXCEPT ![t] = IF c > N THEN @ + 1 ELSE @]
    /\ UNCHANGED <<flag, round>>

\* Broken variant: post-increment, the old count is compared with n.
OffByOne(t) ==
    /\ pc[t] = "out" /\ begun[t] < MaxCalls
    /\ begun' = [begun EXCEPT ![t] = @ + 1]
    /\ sense' = [sense EXCEPT ![t] = 1 - @]
    /\ LET b == Plan[begun[t] + 1]
           c == count[b]
       IN  /\ count' = [count EXCEPT ![b] = IF c = N THEN 0 ELSE c + 1]
           /\ pc' = [pc EXCEPT ![t] = IF c = N THEN "release" ELSE "spin"]
    /\ UNCHANGED <<flag, done, round>>

\* The last to arrive resets the counter and goes on to release the others;
\* one too many (count > n) only warns and returns.
Arrive(t) ==
    /\ pc[t] = "out" /\ begun[t] < MaxCalls
    /\ begun' = [begun EXCEPT ![t] = @ + 1]
    /\ sense' = [sense EXCEPT ![t] = 1 - @]
    /\ LET b == Plan[begun[t] + 1]
           c == count[b] + 1
       IN  /\ count' = [count EXCEPT ![b] = IF c = N THEN 0 ELSE c]
           /\ pc' = [pc EXCEPT ![t] = IF c = N THEN "release"
                                      ELSE IF c < N THEN "spin" ELSE "out"]
           /\ done' = [done EXCEPT ![t] = IF c > N THEN @ + 1 ELSE @]
    /\ UNCHANGED <<flag, round>>

\* Broken variant: the flag counts the releases instead of taking the sense.
ReleaseCounts(t) ==
    /\ pc[t] = "release"
    /\ flag' = [flag EXCEPT ![Current(t)] = @ + 1]
    /\ round' = [round EXCEPT ![Current(t)] = @ + 1]
    /\ pc' = [pc EXCEPT ![t] = "out"]
    /\ done' = [done EXCEPT ![t] = @ + 1]
    /\ UNCHANGED <<count, sense, begun>>

Release(t) ==
    /\ pc[t] = "release"
    /\ flag' = [flag EXCEPT ![Current(t)] = sense[t]]
    /\ round' = [round EXCEPT ![Current(t)] = @ + 1]
    /\ pc' = [pc EXCEPT ![t] = "out"]
    /\ done' = [done EXCEPT ![t] = @ + 1]
    /\ UNCHANGED <<count, sense, begun>>

\* Broken variant: a spinning thread leaves when the flag is set, not when it
\* equals its sense.
PassIfSet(t) ==
    /\ pc[t] = "spin"
    /\ flag[Current(t)] = 1
    /\ pc' = [pc EXCEPT ![t] = "out"]
    /\ done' = [done EXCEPT ![t] = @ + 1]
    /\ UNCHANGED <<flag, count, sense, begun, round>>

Pass(t) ==
    /\ pc[t] = "spin"
    /\ flag[Current(t)] = sense[t]
    /\ pc' = [pc EXCEPT ![t] = "out"]
    /\ done' = [done EXCEPT ![t] = @ + 1]
    /\ UNCHANGED <<flag, count, sense, begun, round>>

\* An iteration of the loop that finds the flag not yet reversed.
Spin(t) ==
    /\ pc[t] = "spin"
    /\ flag[Current(t)] # sense[t]
    /\ UNCHANGED vars

Finished == (\A t \in Threads : done[t] = MaxCalls) /\ UNCHANGED vars

Next ==
    \/ \E t \in Threads : Arrive(t) \/ Release(t) \/ Pass(t) \/ Spin(t)
    \/ Finished

Spec == Init /\ [][Next]_vars

(* Every participant keeps making its calls, and a thread inside the       *)
(* barrier keeps running.                                                  *)
FairSpec ==
    Spec /\ \A t \in Threads : WF_vars(Arrive(t)) /\ WF_vars(Release(t)) /\ WF_vars(Pass(t))
-----------------------------------------------------------------------------
(* The type of every variable. *)
TypeOK ==
    /\ flag \in [Barriers -> {0, 1}]
    /\ count \in [Barriers -> Nat]
    /\ sense \in [Threads -> {0, 1}]
    /\ pc \in [Threads -> {"out", "spin", "release"}]
    /\ begun \in [Threads -> 0..MaxCalls]
    /\ done \in [Threads -> Nat]
    /\ round \in [Barriers -> Nat]

(* No thread returns from its k-th call before every thread has made its   *)
(* k-th call, however early the fast ones start the next round.            *)
BarrierSync == \A t, u \in Threads : done[t] <= begun[u]

(* The code implements the abstract barrier. *)
Abstract == INSTANCE Barrier WITH Threads <- Threads, MaxCalls <- MaxCalls,
                                 begun <- begun, done <- done
ImplementsBarrier == Abstract!Spec

(* Nobody is left spinning, even if the flag is reversed again before a    *)
(* slow thread has looked at it.                                           *)
EveryoneReturns == \A t \in Threads : pc[t] = "spin" ~> pc[t] = "out"
=============================================================================
