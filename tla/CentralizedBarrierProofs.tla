---------------------- MODULE CentralizedBarrierProofs ----------------------
(***************************************************************************)
(* One barrier, used for any number of rounds by any finite set of threads,*)
(* implements the abstract barrier.                                        *)
(***************************************************************************)
EXTENDS CentralizedBarrier, FiniteSetTheorems, TLAPS

(* All the calls are made on one barrier, by as many threads as it is told.*)
OneBarrier(b) ==
    /\ b \in Barriers /\ Barriers = {b}
    /\ N = Cardinality(Threads)

(* The threads that have arrived in the current round. *)
Arrived(b) == {t \in Threads : begun[t] = round[b] + 1}

(* Threads are at most one round apart; a thread that has arrived in the   *)
(* current round has not returned from it.                                 *)
RoundOf(b) ==
    \A t \in Threads :
        /\ begun[t] \in {round[b], round[b] + 1}
        /\ begun[t] = round[b] + 1 => pc[t] # "out"
        /\ begun[t] = IF pc[t] = "out" THEN done[t] ELSE done[t] + 1

(* The sense of a thread is the parity of its calls, and the flag is the   *)
(* parity of the releases: they agree when the thread's round is over.     *)
SenseIsParity(b) ==
    /\ flag[b] = round[b] % 2
    /\ \A t \in Threads : sense[t] = begun[t] % 2

(* Somebody is about to release only if all have arrived; otherwise the    *)
(* counter is the number of those who have.                                *)
CountIsArrived(b) ==
    \/ \E t \in Threads : /\ pc[t] = "release"
                          /\ \A u \in Threads \ {t} : pc[u] # "release"
                          /\ count[b] = 0 /\ Arrived(b) = Threads
    \/ /\ \A t \in Threads : pc[t] # "release"
       /\ count[b] = Cardinality(Arrived(b)) /\ count[b] < N

BarrierInv(b) ==
    TypeOK /\ RoundOf(b) /\ SenseIsParity(b) /\ CountIsArrived(b)
-----------------------------------------------------------------------------
LEMMA Parity == \A n \in Nat : n % 2 \in {0, 1} /\ (n + 1) % 2 = 1 - (n % 2)
BY Z3

LEMMA OnlyPlan ==
    ASSUME NEW b, OneBarrier(b), NEW k \in 1..MaxCalls PROVE Plan[k] = b
BY BarrierAssumption DEF OneBarrier

(* One more arrival: the set grows by one, and is everybody at n. *)
LEMMA ArrivalCounts ==
    ASSUME NEW b, OneBarrier(b), NEW S \in SUBSET Threads, NEW t \in Threads, t \notin S
    PROVE  /\ Cardinality(S) \in Nat
           /\ Cardinality(S \union {t}) = Cardinality(S) + 1
           /\ Cardinality(S \union {t}) = N => S \union {t} = Threads
<1>1. IsFiniteSet(S) /\ IsFiniteSet(S \union {t}) /\ S \union {t} \subseteq Threads
  BY BarrierAssumption, FS_Subset, FS_AddElement
<1>2. Cardinality(S) \in Nat /\ Cardinality(S \union {t}) = Cardinality(S) + 1
  BY <1>1, FS_CardinalityType, FS_AddElement
<1>3. Cardinality(S \union {t}) = Cardinality(Threads) => S \union {t} = Threads
  BY <1>1, BarrierAssumption, FS_Subset
<1> QED BY <1>2, <1>3 DEF OneBarrier

LEMMA BarrierInit == ASSUME NEW b, OneBarrier(b), Init PROVE BarrierInv(b)
<1> USE BarrierAssumption DEF OneBarrier, Init
<1>1. TypeOK
  BY DEF TypeOK
<1>2. RoundOf(b)
  BY DEF RoundOf
<1>3. SenseIsParity(b)
  <2>1. 0 % 2 = 0
    BY Z3
  <2> QED BY <2>1 DEF SenseIsParity
<1>4. CountIsArrived(b)
  <2>1. Arrived(b) = {}
    BY DEF Arrived
  <2> QED BY <2>1, FS_EmptySet DEF CountIsArrived
<1> QED BY <1>1, <1>2, <1>3, <1>4 DEF BarrierInv

(* What the invariant says of a thread that arrives: nobody is releasing,  *)
(* and the counter does not pass n.                                        *)
ArriveEffect(b, t) ==
    /\ Plan[begun[t] + 1] = b /\ begun[t] = round[b] /\ begun[t] = done[t]
    /\ begun' = [begun EXCEPT ![t] = round[b] + 1]
    /\ sense' = [sense EXCEPT ![t] = 1 - sense[t]]
    /\ UNCHANGED <<flag, round, done>>
    /\ count' \in [Barriers -> Nat]
    /\ \A u \in Threads : pc[u] # "release"
    /\ Arrived(b)' = Arrived(b) \union {t}
    /\ IF Arrived(b)' = Threads
       THEN count'[b] = 0 /\ pc' = [pc EXCEPT ![t] = "release"]
       ELSE /\ count'[b] = Cardinality(Arrived(b)') /\ count'[b] < N
            /\ pc' = [pc EXCEPT ![t] = "spin"]

LEMMA ArriveFacts ==
    ASSUME NEW b, OneBarrier(b), BarrierInv(b), NEW t \in Threads, Arrive(t)
    PROVE  ArriveEffect(b, t)
<1> USE BarrierAssumption DEF BarrierInv, TypeOK
<1>1. begun[t] = round[b] /\ begun[t] = done[t] /\ pc[t] = "out" /\ round[b] \in Nat
  BY DEF Arrive, RoundOf, OneBarrier
<1>2. Plan[begun[t] + 1] = b
  BY OnlyPlan DEF Arrive
<1>3. t \notin Arrived(b) /\ Arrived(b) \subseteq Threads
  BY <1>1 DEF Arrived
<1>4. /\ \A u \in Threads : pc[u] # "release"
      /\ count[b] = Cardinality(Arrived(b)) /\ count[b] < N
  BY <1>3 DEF CountIsArrived
<1>5. /\ begun' = [begun EXCEPT ![t] = round[b] + 1] /\ UNCHANGED <<flag, round>>
      /\ sense' = [sense EXCEPT ![t] = 1 - sense[t]]
  BY <1>1 DEF Arrive
<1>6. Arrived(b)' = Arrived(b) \union {t}
  BY <1>5 DEF Arrived
<1>7. /\ Cardinality(Arrived(b)) \in Nat
      /\ Cardinality(Arrived(b)') = count[b] + 1
      /\ count[b] + 1 = N <=> Arrived(b)' = Threads
  <2> HIDE DEF BarrierInv
  <2>1. /\ Cardinality(Arrived(b)) \in Nat
        /\ Cardinality(Arrived(b) \union {t}) = Cardinality(Arrived(b)) + 1
        /\ Cardinality(Arrived(b) \union {t}) = N => Arrived(b) \union {t} = Threads
    BY <1>3, ArrivalCounts
  <2>2. Arrived(b)' = Threads => Cardinality(Arrived(b)') = N
    BY DEF OneBarrier
  <2> QED BY <1>4, <1>6, <2>1, <2>2
<1>8. /\ count' = [count EXCEPT ![b] = IF count[b] + 1 = N THEN 0 ELSE count[b] + 1]
      /\ pc' = [pc EXCEPT ![t] = IF count[b] + 1 = N THEN "release" ELSE "spin"]
      /\ done' = [done EXCEPT ![t] = done[t]]
  <2>1. count[b] \in Nat /\ N \in Nat /\ count[b] + 1 <= N
    BY <1>4 DEF OneBarrier
  <2>2. count[b] + 1 # N => count[b] + 1 < N
    BY <2>1
  <2>3. ~(count[b] + 1 > N)
    BY <2>1
  <2>4. /\ count' = [count EXCEPT ![b] = IF count[b] + 1 = N THEN 0 ELSE count[b] + 1]
        /\ pc' = [pc EXCEPT ![t] = IF count[b] + 1 = N THEN "release"
                                   ELSE IF count[b] + 1 < N THEN "spin" ELSE "out"]
        /\ done' = [done EXCEPT ![t] = IF count[b] + 1 > N THEN @ + 1 ELSE @]
    BY <1>2, Zenon DEF Arrive
  <2> QED BY <2>2, <2>3, <2>4, Zenon
<1>9. done' = done /\ count'[b] = IF count[b] + 1 = N THEN 0 ELSE count[b] + 1
  BY <1>8 DEF OneBarrier
<1>t. count' \in [Barriers -> Nat]
  BY <1>8 DEF OneBarrier
<1>10. count[b] + 1 # N => count[b] + 1 < N
  BY <1>4 DEF OneBarrier
<1>11. CASE count[b] + 1 = N
  <2>1. pc' = [pc EXCEPT ![t] = "release"] /\ count'[b] = 0 /\ Arrived(b)' = Threads
    BY <1>7, <1>8, <1>9, <1>11
  <2> HIDE DEF BarrierInv, TypeOK
  <2> QED BY <1>1, <1>2, <1>4, <1>5, <1>6, <1>9, <1>t, <2>1 DEF ArriveEffect
<1>12. CASE count[b] + 1 # N
  <2>1. pc' = [pc EXCEPT ![t] = "spin"] /\ count'[b] = count[b] + 1
    BY <1>8, <1>9, <1>12
  <2>2. count'[b] = Cardinality(Arrived(b)') /\ count'[b] < N /\ Arrived(b)' # Threads
    BY <1>7, <1>10, <1>12, <2>1
  <2> HIDE DEF BarrierInv, TypeOK
  <2> QED BY <1>1, <1>2, <1>4, <1>5, <1>6, <1>9, <1>t, <2>1, <2>2 DEF ArriveEffect
<1> QED BY <1>11, <1>12

(* A releasing thread is alone, and everybody has arrived. *)
ReleaseEffect(b, t) ==
    /\ begun[t] = done[t] + 1 /\ count[b] = 0
    /\ \A u \in Threads : begun[u] = round[b] + 1
    /\ \A u \in Threads \ {t} : pc[u] = "spin"
    /\ round' = [round EXCEPT ![b] = round[b] + 1]
    /\ flag' = [flag EXCEPT ![b] = sense[t]]
    /\ pc' = [pc EXCEPT ![t] = "out"]
    /\ done' = [done EXCEPT ![t] = begun[t]]
    /\ UNCHANGED <<count, sense, begun>>

LEMMA ReleaseFacts ==
    ASSUME NEW b, OneBarrier(b), BarrierInv(b), NEW t \in Threads, Release(t)
    PROVE  ReleaseEffect(b, t)
<1> USE BarrierAssumption DEF BarrierInv, TypeOK
<1>1. pc[t] = "release" /\ begun[t] = done[t] + 1
  BY DEF Release, RoundOf
<1>2. Arrived(b) = Threads /\ count[b] = 0 /\ \A u \in Threads \ {t} : pc[u] # "release"
  BY <1>1 DEF CountIsArrived
<1>3. \A u \in Threads : begun[u] = round[b] + 1
  BY <1>2 DEF Arrived
<1>4. \A u \in Threads \ {t} : pc[u] = "spin"
  BY <1>2, <1>3 DEF RoundOf
<1>5. Current(t) = b
  <2>1. begun[t] \in 1..MaxCalls
    BY <1>1
  <2> QED BY <2>1, OnlyPlan DEF Current
<1> QED BY <1>1, <1>2, <1>3, <1>4, <1>5 DEF Release, ReleaseEffect

(* A thread stops spinning only when its round is over. *)
PassEffect(b, t) ==
    /\ begun[t] = done[t] + 1 /\ begun[t] = round[b]
    /\ pc[t] = "spin" /\ pc' = [pc EXCEPT ![t] = "out"]
    /\ done' = [done EXCEPT ![t] = begun[t]]
    /\ UNCHANGED <<flag, count, sense, begun, round>>

LEMMA PassFacts ==
    ASSUME NEW b, OneBarrier(b), BarrierInv(b), NEW t \in Threads, Pass(t)
    PROVE  PassEffect(b, t)
<1> USE BarrierAssumption DEF BarrierInv, TypeOK
<1>1. pc[t] = "spin" /\ begun[t] = done[t] + 1
  BY DEF Pass, RoundOf
<1>2. Current(t) = b
  <2>1. begun[t] \in 1..MaxCalls
    BY <1>1
  <2> QED BY <2>1, OnlyPlan DEF Current
<1>3. begun[t] % 2 = round[b] % 2 /\ round[b] \in Nat
  BY <1>2 DEF Pass, SenseIsParity, OneBarrier
<1>4. begun[t] = round[b]
  <2>1. \A n \in Nat : (n + 1) % 2 # n % 2
    <3> HIDE DEF BarrierInv, TypeOK
    <3> QED BY Z3
  <2> QED BY <1>3, <2>1 DEF RoundOf
<1> QED BY <1>1, <1>4 DEF Pass, PassEffect

LEMMA BarrierStep ==
    ASSUME NEW b, OneBarrier(b), BarrierInv(b), [Next]_vars
    PROVE  BarrierInv(b)' /\ [Abstract!Next]_<<begun, done>>
<1> USE BarrierAssumption
<1>b. b \in Barriers /\ round[b] \in Nat
  BY DEF OneBarrier, BarrierInv, TypeOK
<1>1. ASSUME NEW t \in Threads, Arrive(t)
      PROVE  BarrierInv(b)' /\ Abstract!Enter(t)
  <2>f. ArriveEffect(b, t)
    BY ArriveFacts, <1>1
  <2> USE <2>f DEF ArriveEffect
  <2>1. Abstract!Enter(t)
    BY <1>1 DEF Abstract!Enter, Arrive, BarrierInv, TypeOK
  <2>2. TypeOK'
    <3>1. count' \in [Barriers -> Nat]
      OBVIOUS
    <3> HIDE <2>f DEF ArriveEffect
    <3>2. begun' \in [Threads -> 0..MaxCalls]
      BY <1>1 DEF BarrierInv, TypeOK, Arrive
    <3>3. pc' \in [Threads -> {"out", "spin", "release"}]
      <4>1. pc' = [pc EXCEPT ![t] = "release"] \/ pc' = [pc EXCEPT ![t] = "spin"]
        BY <2>f DEF ArriveEffect
      <4> QED BY <4>1 DEF BarrierInv, TypeOK
    <3>4. sense' \in [Threads -> {0, 1}]
      <4>1. sense[t] \in {0, 1} /\ 1 - sense[t] \in {0, 1}
        BY DEF BarrierInv, TypeOK
      <4>2. sense' = [sense EXCEPT ![t] = 1 - sense[t]]
        BY <2>f DEF ArriveEffect
      <4> QED BY <4>1, <4>2 DEF BarrierInv, TypeOK
    <3>5. UNCHANGED <<flag, round, done>>
      BY <2>f DEF ArriveEffect
    <3> QED BY <3>1, <3>2, <3>3, <3>4, <3>5 DEF BarrierInv, TypeOK
  <2>3. RoundOf(b)'
    <3>1. pc'[t] # "out" /\ \A u \in Threads \ {t} : pc'[u] = pc[u]
      BY DEF BarrierInv, TypeOK
    <3> QED BY <1>b, <3>1 DEF BarrierInv, TypeOK, RoundOf
  <2>4. SenseIsParity(b)'
    <3>1. sense'[t] = 1 - sense[t] /\ begun'[t] = begun[t] + 1 /\ begun[t] \in Nat
      BY DEF BarrierInv, TypeOK
    <3>2. sense'[t] = begun'[t] % 2
      <4> HIDE <2>f DEF ArriveEffect
      <4>1. sense[t] = begun[t] % 2
        BY DEF BarrierInv, SenseIsParity
      <4>2. (begun[t] + 1) % 2 = 1 - (begun[t] % 2)
        BY <3>1, Parity
      <4>3. begun'[t] % 2 = (begun[t] + 1) % 2 /\ sense'[t] = 1 - (begun[t] % 2)
        BY <3>1, <4>1
      <4> QED BY <4>2, <4>3
    <3>3. \A u \in Threads \ {t} : sense'[u] = sense[u] /\ begun'[u] = begun[u]
      BY DEF BarrierInv, TypeOK
    <3>4. flag' = flag /\ round' = round
      OBVIOUS
    <3> HIDE <2>f DEF ArriveEffect
    <3> QED BY <3>2, <3>3, <3>4 DEF BarrierInv, SenseIsParity
  <2>5. CountIsArrived(b)'
    <3>1. CASE Arrived(b)' = Threads
      <4>1. pc' = [pc EXCEPT ![t] = "release"] /\ count'[b] = 0
        BY <3>1
      <4>2. pc'[t] = "release" /\ \A u \in Threads \ {t} : pc'[u] # "release"
        BY <4>1 DEF BarrierInv, TypeOK
      <4> QED BY <3>1, <4>1, <4>2 DEF CountIsArrived
    <3>2. CASE Arrived(b)' # Threads
      <4>1. /\ pc' = [pc EXCEPT ![t] = "spin"] /\ count'[b] < N
            /\ count'[b] = Cardinality(Arrived(b)')
        BY <3>2
      <4>2. \A u \in Threads : pc'[u] # "release"
        BY <4>1 DEF BarrierInv, TypeOK
      <4> QED BY <4>1, <4>2 DEF CountIsArrived
    <3> QED BY <3>1, <3>2
  <2> QED BY <2>1, <2>2, <2>3, <2>4, <2>5 DEF BarrierInv
<1>2. ASSUME NEW t \in Threads, Release(t)
      PROVE  BarrierInv(b)' /\ Abstract!Leave(t)
  <2>f. ReleaseEffect(b, t)
    BY ReleaseFacts, <1>2
  <2> USE <2>f DEF ReleaseEffect
  <2>1. Abstract!Leave(t)
    BY <1>b DEF Abstract!Leave, BarrierInv, TypeOK
  <2>2. TypeOK'
    <3>1. flag' \in [Barriers -> {0, 1}] /\ round' \in [Barriers -> Nat]
      BY <1>b DEF BarrierInv, TypeOK
    <3>2. pc' \in [Threads -> {"out", "spin", "release"}] /\ done' \in [Threads -> Nat]
      BY DEF BarrierInv, TypeOK
    <3> QED BY <3>1, <3>2 DEF BarrierInv, TypeOK
  <2>3. round'[b] = round[b] + 1 /\ flag'[b] = sense[t]
    BY <1>b DEF BarrierInv, TypeOK
  <2>4. RoundOf(b)'
    BY <1>b, <2>3 DEF BarrierInv, TypeOK, RoundOf
  <2>5. SenseIsParity(b)'
    BY <2>3 DEF BarrierInv, SenseIsParity
  <2>6. CountIsArrived(b)'
    <3>1. Arrived(b)' = {}
      BY <1>b, <2>3 DEF Arrived
    <3>2. count'[b] = Cardinality(Arrived(b)') /\ count'[b] < N
      BY <3>1, FS_EmptySet
    <3>3. \A u \in Threads : pc'[u] # "release"
      BY DEF BarrierInv, TypeOK
    <3> QED BY <3>2, <3>3 DEF CountIsArrived
  <2> QED BY <2>1, <2>2, <2>4, <2>5, <2>6 DEF BarrierInv
<1>3. ASSUME NEW t \in Threads, Pass(t)
      PROVE  BarrierInv(b)' /\ Abstract!Leave(t)
  <2>f. PassEffect(b, t)
    BY PassFacts, <1>3
  <2> USE <2>f DEF PassEffect
  <2>1. Abstract!Leave(t)
    <3>1. \A u \in Threads : begun[u] >= begun[t]
      BY <1>b DEF BarrierInv, RoundOf
    <3>2. begun[t] # done[t]
      BY DEF BarrierInv, TypeOK
    <3> QED BY <3>1, <3>2 DEF Abstract!Leave
  <2>2. TypeOK'
    <3>1. pc' \in [Threads -> {"out", "spin", "release"}] /\ done' \in [Threads -> Nat]
      BY DEF BarrierInv, TypeOK
    <3> QED BY <3>1 DEF BarrierInv, TypeOK
  <2>3. RoundOf(b)'
    BY <1>b DEF BarrierInv, TypeOK, RoundOf
  <2>4. SenseIsParity(b)'
    BY DEF BarrierInv, SenseIsParity
  <2>5. CountIsArrived(b)'
    <3>1. Arrived(b)' = Arrived(b)
      BY DEF Arrived
    <3>2. \A u \in Threads : pc'[u] = "release" <=> pc[u] = "release"
      BY DEF BarrierInv, TypeOK
    <3> QED BY <3>1, <3>2 DEF BarrierInv, CountIsArrived
  <2> QED BY <2>1, <2>2, <2>3, <2>4, <2>5 DEF BarrierInv
<1>4. CASE UNCHANGED vars
  BY <1>4 DEF vars, BarrierInv, TypeOK, RoundOf, SenseIsParity, CountIsArrived, Arrived
<1> QED
  BY <1>1, <1>2, <1>3, <1>4 DEF Next, Spin, Finished, Abstract!Next, vars

(* Every variable of a single barrier keeps its type: the count stays a     *)
(* number and flag and senses stay bits, through any number of rounds.     *)
THEOREM BarrierTypeCorrect ==
    ASSUME NEW b, OneBarrier(b) PROVE Spec => []TypeOK
<1>1. Init => BarrierInv(b)
  BY BarrierInit
<1>2. BarrierInv(b) /\ [Next]_vars => BarrierInv(b)'
  BY BarrierStep
<1>3. BarrierInv(b) => TypeOK
  BY DEF BarrierInv
<1> QED BY <1>1, <1>2, <1>3, PTL DEF Spec

(* A single barrier keeps its promise through any number of rounds: no     *)
(* thread returns from its k-th call before all have made theirs.          *)
THEOREM BarrierSafe ==
    ASSUME NEW b, OneBarrier(b) PROVE Spec => []BarrierSync
<1>1. Init => BarrierInv(b)
  BY BarrierInit
<1>2. BarrierInv(b) /\ [Next]_vars => BarrierInv(b)'
  BY BarrierStep
<1>3. BarrierInv(b) => BarrierSync
  <2> SUFFICES ASSUME BarrierInv(b), NEW t \in Threads, NEW u \in Threads
               PROVE  done[t] <= begun[u]
    BY DEF BarrierSync
  <2>1. round[b] \in Nat
    BY DEF OneBarrier, BarrierInv, TypeOK
  <2> QED BY <2>1 DEF BarrierInv, TypeOK, RoundOf
<1> QED BY <1>1, <1>2, <1>3, PTL DEF Spec

(* The code, on a single barrier, implements the abstract barrier. *)
THEOREM BarrierRefines ==
    ASSUME NEW b, OneBarrier(b) PROVE Spec => ImplementsBarrier
<1>1. Init => BarrierInv(b) /\ Abstract!Init
  BY BarrierInit DEF Init, Abstract!Init
<1>2. BarrierInv(b) /\ [Next]_vars => BarrierInv(b)' /\ [Abstract!Next]_<<begun, done>>
  BY BarrierStep
<1> QED BY <1>1, <1>2, PTL DEF Spec, ImplementsBarrier, Abstract!Spec
=============================================================================
