------------------------- MODULE ThreadGroupProofs -------------------------
(***************************************************************************)
(* The barrier object of a cluster of thread groups, for any number of     *)
(* groups, sizes and calls of the main thread.                             *)
(***************************************************************************)
EXTENDS ThreadGroup, SeqLemmas, FiniteSetTheorems, TLAPS

(* No group is used again once it has been run asynchronously, except to   *)
(* be waited for: __mthpc_thread_run() warns of it (thread.c:128), and     *)
(* nr_exited, which a second asynchronous run counts on, is never reset.   *)
AsyncOnce ==
    \A p \in Plans : \A j, k \in 1..Len(p) : \A g \in Groups :
        /\ j < k /\ p[j].op = "async"
        /\ g \in ToSet(p[j].groups) /\ g \in ToSet(p[k].groups)
        => p[k].op = "wait"

(* How far the main thread is with call k: it has its barrier object; the  *)
(* object is on the stack and in scope; threads are being created, and     *)
(* those of g are yet to be; those of g have been joined.                  *)
Cluster(k) == ToSet(plan[k].groups)
Starts(k) == plan[k].op \in {"run", "async"}
Begun(k) == k < call \/ (k = call /\ mpc \in {"link", "create", "join", "queue"})
InScope(k) == k = call /\ plan[k].op = "run" /\ mpc \in {"create", "join"}
Creating(k) == k = call /\ mpc \in {"link", "create"}
Pending(g, k) == Creating(k) /\ \E i \in 1..Len(plan[k].groups) : i >= idx /\ plan[k].groups[i] = g
Joined(g, k) ==
    \/ k < call
    \/ k = call /\ mpc = "join" /\ \E i \in 1..Len(plan[k].groups) : i < idx /\ plan[k].groups[i] = g

Active(t) == pc[t] \notin {"none", "dead"}

MainState ==
    /\ mpc \in {"link", "queue"} => Op = "async"
    /\ mpc = "create" => Op \in {"run", "async"}
    /\ mpc = "join" => Op = "run"
    /\ mpc \in {"wait", "hung"} => Op = "wait"
    /\ idx = 1 \/ mpc \in {"link", "create", "join"} \/ Op = "wait"
    /\ call <= Len(plan) => idx <= Len(plan[call].groups)

(* The barrier object of a group is that of the call that created its      *)
(* threads, until it is put, and they are dead by then.                    *)
ObjectOf(g, k) ==
    /\ k \in 1..Len(plan) /\ Starts(k) /\ Begun(k) /\ g \in Cluster(k) /\ ~Pending(g, k)
    /\ \A t \in Members(g) : pc[t] # "none" /\ entry[t] = plan[k].op
    /\ plan[k].op = "run" /\ Joined(g, k) => \A t \in Members(g) : ~Active(t)

GroupOK(g) ==
    /\ barrier_object[g] = 0 => \A t \in Members(g) : ~Active(t)
    /\ \A k \in Calls : barrier_object[g] = k => ObjectOf(g, k)

GroupState == \A g \in Groups : GroupOK(g)

(* An asynchronous thread comes from an asynchronous call, and those that  *)
(* are through are counted.                                                *)
FromAsync(g) ==
    \E k \in 1..Len(plan) : plan[k].op = "async" /\ Begun(k) /\ g \in Cluster(k) /\ ~Pending(g, k)
Exited(g) == {t \in Members(g) : entry[t] = "async" /\ pc[t] \in {"exit", "dead"}}

ExitState ==
    /\ \A t \in Threads : entry[t] = "async" => FromAsync(t[1])
    /\ \A g \in Groups : nr_exited[g] = Cardinality(Exited(g))

(* A share of object k is a thread whose group refers to it or will.       *)
Shares(k) == {t \in Threads : barrier_object[t[1]] = k \/ Pending(t[1], k)}

ShareOK(k) ==
    /\ Begun(k) /\ plan[k].op = "async" =>
          refcount[k] = Cardinality(Shares(k)) /\ (k \in live <=> refcount[k] > 0)
    /\ InScope(k) => k \in live

ShareState == \A k \in 1..Len(plan) : ShareOK(k)

LiveState == \A t \in Threads : Active(t) => barrier_object[t[1]] \in live

(* The barrier of object k: threads gather at it and nobody has dropped a  *)
(* share; or all threads of the cluster have been there.                   *)
Waiters(k) == {t \in Threads : obj[t] = k /\ pc[t] = "spin"}

Gathering(k) ==
    /\ flag[k] = 0 /\ count[k] = Cardinality(Waiters(k)) /\ refcount[k] = TotalNr(k)
    /\ \A t \in Threads : barrier_object[t[1]] = k => pc[t] \in {"init", "arrive", "spin"}

Passed(k) ==
    \A g \in Cluster(k) :
        /\ barrier_object[g] \in {k, 0}
        /\ \A t \in Members(g) : pc[t] \notin {"none", "init", "arrive"}

BarrierOK(k) ==
    /\ ~Begun(k) => flag[k] = 0 /\ count[k] = 0
    /\ Creating(k) => Gathering(k)
    /\ (\E t \in Threads : Active(t) /\ barrier_object[t[1]] = k) => Gathering(k) \/ Passed(k)

BarrierState == \A k \in Calls : BarrierOK(k)

ThreadOK(t) ==
    /\ obj[t] # 0 <=> pc[t] \in {"arrive", "spin", "release", "func"}
    /\ obj[t] # 0 => obj[t] = barrier_object[t[1]]
    /\ \A k \in Calls : pc[t] = "arrive" /\ obj[t] = k => n[t] = TotalNr(k)
    /\ pc[t] \in {"cleanup", "exit"} => entry[t] = "async"

ThreadState == \A t \in Threads : ThreadOK(t)

ThreadGroupInv ==
    /\ TypeOK /\ MainState /\ GroupState /\ ExitState /\ ShareState
    /\ LiveState /\ BarrierState /\ ThreadState
-----------------------------------------------------------------------------
(* What follows from the assumptions: the threads of the groups, the calls *)
(* of a program.                                                           *)
LEMMA Names ==
    /\ IsFiniteSet(Threads)
    /\ \A k \in Calls : k \in Nat \ {0}
    /\ \A g \in Groups : /\ IsFiniteSet(Members(g)) /\ Cardinality(Members(g)) = Nr[g]
                         /\ Nr[g] \in Nat \ {0} /\ Members(g) # {}
    /\ \A t \in Threads : t[1] \in Groups /\ t \in Members(t[1])
    /\ \A g \in Groups : \A t \in Members(g) : t \in Threads /\ t[1] = g
<1>1. ASSUME NEW g \in Groups
      PROVE  /\ Members(g) = {g} \X (1..Nr[g]) /\ Nr[g] \in Nat \ {0}
             /\ IsFiniteSet(Members(g)) /\ Cardinality(Members(g)) = Nr[g]
             /\ Members(g) # {}
  <2>1. Nr[g] \in Nat \ {0}
    BY ThreadGroupAssumption
  <2>2. \A t : t \in Members(g) <=> t \in {g} \X (1..Nr[g])
    BY DEF Members, Threads
  <2>3. Members(g) = {g} \X (1..Nr[g])
    BY <2>2
  <2>4. IsFiniteSet({g}) /\ Cardinality({g}) = 1
    BY FS_Singleton
  <2>5. IsFiniteSet(1..Nr[g]) /\ Cardinality(1..Nr[g]) = Nr[g]
    BY <2>1, FS_Interval
  <2>6. IsFiniteSet(Members(g)) /\ Cardinality(Members(g)) = Nr[g]
    <3> DEFINE I == 1..Nr[g]
    <3>1. IsFiniteSet(I) /\ Cardinality(I) = Nr[g]
      BY <2>5
    <3> HIDE DEF I
    <3>2. /\ IsFiniteSet({g} \X I)
          /\ Cardinality({g} \X I) = Cardinality({g}) * Cardinality(I)
      BY <2>4, <3>1, FS_Product
    <3>3. Cardinality({g} \X I) = 1 * Nr[g]
      BY <2>4, <3>1, <3>2
    <3>4. Members(g) = {g} \X I
      BY <2>3 DEF I
    <3> QED BY <2>1, <3>2, <3>3, <3>4
  <2>7. <<g, 1>> \in Members(g)
    BY <2>1, <2>3
  <2> QED BY <2>1, <2>3, <2>6, <2>7
<1>2. \A t \in Threads : t[1] \in Groups /\ t \in Members(t[1])
  BY DEF Threads, Members
<1>3. \A g \in Groups : \A t \in Members(g) : t \in Threads /\ t[1] = g
  BY DEF Members
<1>4. IsFiniteSet(Threads)
  <2> DEFINE S == {{g} \X (1..Nr[g]) : g \in Groups}
  <2>1. IsFiniteSet(S)
    <3> DEFINE f == [g \in Groups |-> {g} \X (1..Nr[g])]
    <3>1. f \in [Groups -> S] /\ \A T \in S : \E g \in Groups : f[g] = T
      OBVIOUS
    <3> HIDE DEF f, S
    <3>2. f \in Surjection(Groups, S)
      BY <3>1 DEF Surjection
    <3> QED BY <3>2, FS_Surjection, ThreadGroupAssumption
  <2>2. \A T \in S : IsFiniteSet(T)
    BY <1>1
  <2> HIDE DEF S
  <2>3. IsFiniteSet(UNION S)
    BY <2>1, <2>2, FS_UNION
  <2> QED BY <2>3 DEF Threads, S
<1>5. \A k \in Calls : k \in Nat \ {0}
  BY ThreadGroupAssumption DEF Calls
<1> QED BY <1>1, <1>2, <1>3, <1>4, <1>5

LEMMA PlanFacts ==
    ASSUME MainTypeOK
    PROVE  /\ Len(plan) \in Nat /\ call \in Nat \ {0} /\ idx \in Nat \ {0}
           /\ \A k \in 1..Len(plan) :
                 /\ k \in Calls /\ k \in Nat \ {0} /\ Cluster(k) \subseteq Groups
                 /\ plan[k].op \in {"run", "async", "wait"}
                 /\ Len(plan[k].groups) \in Nat \ {0}
                 /\ \A i \in 1..Len(plan[k].groups) : plan[k].groups[i] \in Groups
                 /\ \A g : g \in Cluster(k) <=>
                              \E i \in 1..Len(plan[k].groups) : plan[k].groups[i] = g
                 /\ \A i, j \in 1..Len(plan[k].groups) :
                       plan[k].groups[i] = plan[k].groups[j] => i = j
<1>1. plan \in Plans /\ Len(plan) \in Nat /\ call \in 1..(Len(plan) + 1) /\ idx \in Nat \ {0}
  BY ThreadGroupAssumption DEF MainTypeOK
<1>2. ASSUME NEW k \in 1..Len(plan)
      PROVE  /\ plan[k].op \in {"run", "async", "wait"}
             /\ plan[k].groups \in Seq(Groups) /\ plan[k].groups # <<>>
             /\ IsInjective(plan[k].groups)
  BY <1>1, ThreadGroupAssumption
<1>3. ASSUME NEW k \in 1..Len(plan)
      PROVE  /\ Len(plan[k].groups) \in Nat \ {0}
             /\ \A i \in 1..Len(plan[k].groups) : plan[k].groups[i] \in Groups
             /\ Cluster(k) \subseteq Groups
  BY <1>2, LenProperties, EmptySeq, InList DEF Cluster
<1>4. ASSUME NEW k \in 1..Len(plan)
      PROVE  \A g : g \in Cluster(k) <=>
                       \E i \in 1..Len(plan[k].groups) : plan[k].groups[i] = g
  BY <1>2, InList DEF Cluster
<1>5. ASSUME NEW k \in 1..Len(plan)
      PROVE  \A i, j \in 1..Len(plan[k].groups) :
                plan[k].groups[i] = plan[k].groups[j] => i = j
  BY <1>2, Injective
<1>6. \A k \in 1..Len(plan) : k \in Calls /\ k \in Nat \ {0}
  BY <1>1 DEF Calls
<1> QED BY <1>1, <1>2, <1>3, <1>4, <1>5, <1>6

(* The group that the main thread is at is one of the call's. *)
LEMMA CurrentFacts ==
    ASSUME MainTypeOK, MainState, mpc # "call" \/ Op # "none"
    PROVE  /\ call \in 1..Len(plan) /\ Op = plan[call].op /\ idx \in 1..Len(plan[call].groups)
           /\ Current \in Groups /\ Current \in Cluster(call)
           /\ Current = plan[call].groups[idx]
<1>1. /\ Len(plan) \in Nat /\ call \in Nat \ {0} /\ idx \in Nat \ {0}
      /\ mpc \in {"call", "link", "create", "join", "queue", "wait", "hung"}
  BY PlanFacts DEF MainTypeOK
<1>2. call \in 1..Len(plan)
  BY <1>1 DEF MainState, Op
<1>3. Op = plan[call].op
  BY <1>1, <1>2 DEF Op
<1>4. idx \in 1..Len(plan[call].groups)
  BY <1>1, <1>2, PlanFacts DEF MainState
<1>5. Current \in Groups /\ Current \in Cluster(call)
  BY <1>2, <1>4, PlanFacts DEF Current
<1> QED BY <1>2, <1>3, <1>4, <1>5 DEF Current
-----------------------------------------------------------------------------
(* Types, step by step. *)

(* Taking a group off the list leaves a list of groups. *)
LEMMA UnlinkType ==
    ASSUME MainTypeOK, NEW g, Unlink(g)
    PROVE  head' \in Seq(Groups) /\ nr_group' \in 0..(Word - 1)
<1>1. head \in Seq(Groups) /\ Word \in Nat \ {0} /\ nr_group \in Int
  BY ThreadGroupAssumption DEF MainTypeOK
<1>2. nr_group' \in 0..(Word - 1)
  BY <1>1 DEF Unlink, OneLess
<1>3. RemoveFirst(head, g) \in Seq(Groups)
  <2>1. CASE \E i \in 1..Len(head) : head[i] = g
    <3> DEFINE I == {i \in 1..Len(head) : head[i] = g}
    <3>1. I # {} /\ I \in SUBSET Nat
      BY <2>1, <1>1, LenProperties
    <3>2. RemoveFirst(head, g) = RemoveAt(head, Min(I))
      BY <2>1, <3>1 DEF RemoveFirst, SelectInSeq
    <3> HIDE DEF I
    <3>3. Min(I) \in I
      BY <3>1, LeastExists
    <3>4. Min(I) \in 1..Len(head)
      BY <3>3 DEF I
    <3> QED BY <1>1, <3>2, <3>4, Removed
  <2>2. CASE ~ \E i \in 1..Len(head) : head[i] = g
    BY <1>1, <2>2 DEF RemoveFirst
  <2> QED BY <2>1, <2>2
<1> QED BY <1>2, <1>3 DEF Unlink

(* The main thread, the list of groups and the join work keep their types. *)
LEMMA MainTypeStep ==
    ASSUME MainTypeOK, MainState, [Next]_vars
    PROVE  MainTypeOK'
<1> USE DEF MainTypeOK, mainVars, infoVars, groupVars, objVars, threadVars, workVars
<1>f. ASSUME mpc # "call" \/ Op # "none"
      PROVE  /\ call \in 1..Len(plan) /\ Current \in Groups /\ Len(plan) \in Nat
             /\ call + 1 \in 1..(Len(plan) + 1) /\ idx + 1 \in Nat \ {0}
  BY <1>f, CurrentFacts, PlanFacts
<1>1. ASSUME mthpc_thread_run_begin PROVE MainTypeOK'
  BY <1>1, <1>f DEF mthpc_thread_run_begin
<1>2. ASSUME mthpc_thread_async_run_link PROVE MainTypeOK'
  <2>1. Current \in Groups
    BY <1>2, <1>f DEF mthpc_thread_async_run_link
  <2>2. Append(head, Current) \in Seq(Groups)
    BY <2>1, AppendProperties
  <2>3. (nr_group + 1) % Word \in 0..(Word - 1)
    BY ThreadGroupAssumption
  <2> QED BY <1>2, <2>1, <2>2, <2>3 DEF mthpc_thread_async_run_link
<1>3. ASSUME mthpc_thread_run_create PROVE MainTypeOK'
  BY <1>3, <1>f DEF mthpc_thread_run_create, Advance
<1>4. ASSUME mthpc_thread_run_join PROVE MainTypeOK'
  BY <1>4, <1>f DEF mthpc_thread_run_join, Advance
<1>5. ASSUME mthpc_queue_thread_work PROVE MainTypeOK'
  BY <1>5, <1>f DEF mthpc_queue_thread_work
<1>6. ASSUME mthpc_thread_async_wait_unlink PROVE MainTypeOK'
  BY <1>6, UnlinkType DEF mthpc_thread_async_wait_unlink
<1>7. ASSUME mthpc_thread_async_wait_join PROVE MainTypeOK'
  BY <1>7, <1>f DEF mthpc_thread_async_wait_join, Advance
<1>8. ASSUME NEW t \in Threads, ThreadStep(t) PROVE MainTypeOK'
  BY <1>8 DEF ThreadStep, vars, mthpc_thread_worker_load, mthpc_centralized_barrier_arrive,
     mthpc_centralized_barrier_release, mthpc_centralized_barrier_pass,
     mthpc_centralized_barrier_spin, mthpc_thread_worker_func, mthpc_thread_async_cleanup,
     pthread_exit
<1>9. ASSUME mthpc_thread_wq_join_lock PROVE MainTypeOK'
  BY <1>9 DEF mthpc_thread_wq_join_lock
<1>10. ASSUME mthpc_thread_wq_join_visit PROVE MainTypeOK'
  <2>1. walk' \in Seq(Groups)
    BY <1>10, HeadTailProperties, TakenFirst DEF mthpc_thread_wq_join_visit
  <2>2. head' \in Seq(Groups) /\ nr_group' \in 0..(Word - 1)
    BY <1>10, UnlinkType DEF mthpc_thread_wq_join_visit
  <2> QED BY <1>10, <2>1, <2>2 DEF mthpc_thread_wq_join_visit
<1>11. ASSUME mthpc_thread_wq_join_unlock PROVE MainTypeOK'
  BY <1>11 DEF mthpc_thread_wq_join_unlock
<1>12. ASSUME mthpc_thread_wq_join_requeue PROVE MainTypeOK'
  BY <1>12 DEF mthpc_thread_wq_join_requeue
<1>13. ASSUME UNCHANGED vars PROVE MainTypeOK'
  BY <1>13 DEF vars
<1>14. ASSUME mthpc_thread_async_wait_hang PROVE MainTypeOK'
  BY <1>14 DEF mthpc_thread_async_wait_hang
<1> QED
  BY <1>1, <1>2, <1>3, <1>4, <1>5, <1>6, <1>7, <1>8, <1>9, <1>10, <1>11, <1>12, <1>13, <1>14
  DEF Next, MainStep, WorkStep, Finished, mthpc_thread_async_wait_spin

(* Groups, barrier objects and threads keep theirs. *)
LEMMA ThreadTypeStep ==
    ASSUME TypeOK, MainState, [Next]_vars
    PROVE  ThreadTypeOK'
<1> USE DEF ThreadTypeOK, mainVars, infoVars, groupVars, objVars, threadVars, workVars
<1>a. MainTypeOK /\ ThreadTypeOK /\ refcount \in [Calls -> Nat]
  BY DEF TypeOK
<1>b. /\ \A k \in Calls : k \in Nat \ {0}
      /\ \A t \in Threads : t[1] \in Groups
  BY Names
<1>f. ASSUME mpc # "call" \/ Op # "none" PROVE call \in Calls /\ Current \in Groups
  BY <1>a, <1>f, CurrentFacts, PlanFacts
<1>p. ASSUME NEW g \in Groups, mthpc_group_put_barrier_object(g)
      PROVE  barrier_object' \in [Groups -> Calls \union {0}] /\ live' \subseteq Calls
  BY <1>a, <1>p DEF mthpc_group_put_barrier_object, Cleared
<1>j. ASSUME NEW g, JoinGroup(g) PROVE joins' \in [Threads -> Nat]
  BY <1>a, <1>j DEF JoinGroup
<1>1. ASSUME mthpc_thread_run_begin PROVE ThreadTypeOK'
  BY <1>1, <1>a, <1>f DEF mthpc_thread_run_begin
<1>2. ASSUME mthpc_thread_async_run_link PROVE ThreadTypeOK'
  BY <1>2, <1>a DEF mthpc_thread_async_run_link
<1>3. ASSUME mthpc_thread_run_create PROVE ThreadTypeOK'
  <2>1. Op \in {"run", "async"}
    BY <1>3 DEF MainState, mthpc_thread_run_create
  <2>2. /\ entry' \in [Threads -> {"run", "async"}] /\ joins' \in [Threads -> Nat]
        /\ pc' \in [Threads -> {"none", "init", "arrive", "spin", "release", "func",
                               "cleanup", "exit", "dead"}]
    BY <1>3, <1>a, <2>1 DEF mthpc_thread_run_create
  <2>3. barrier_object' \in [Groups -> Calls \union {0}]
    BY <1>3, <1>a, <1>f DEF mthpc_thread_run_create
  <2> QED BY <1>3, <1>a, <2>2, <2>3 DEF mthpc_thread_run_create
<1>4. ASSUME mthpc_thread_run_join PROVE ThreadTypeOK'
  BY <1>4, <1>a, <1>j DEF mthpc_thread_run_join
<1>5. ASSUME mthpc_queue_thread_work PROVE ThreadTypeOK'
  BY <1>5, <1>a DEF mthpc_queue_thread_work
<1>6. ASSUME mthpc_thread_async_wait_unlink PROVE ThreadTypeOK'
  BY <1>6, <1>a DEF mthpc_thread_async_wait_unlink
<1>7. ASSUME mthpc_thread_async_wait_join PROVE ThreadTypeOK'
  BY <1>7, <1>a, <1>f, <1>j, <1>p DEF mthpc_thread_async_wait_join
<1>8. ASSUME NEW t \in Threads, mthpc_thread_worker_load(t) PROVE ThreadTypeOK'
  BY <1>8, <1>a, <1>b DEF mthpc_thread_worker_load
<1>9. ASSUME NEW t \in Threads, mthpc_centralized_barrier_arrive(t) PROVE ThreadTypeOK'
  <2> DEFINE c == count[obj[t]] + 1
  <2>1. count' = [count EXCEPT ![obj[t]] = IF c = n[t] THEN 0 ELSE c]
    BY <1>9 DEF mthpc_centralized_barrier_arrive
  <2>2. obj[t] \in Calls => c \in Nat
    BY <1>a
  <2> HIDE DEF c
  <2>3. count' \in [Calls -> Nat]
    BY <1>a, <2>1, <2>2
  <2>4. \E p \in {"release", "spin", "func"} : pc' = [pc EXCEPT ![t] = p]
    BY <1>9 DEF mthpc_centralized_barrier_arrive
  <2>5. pc' \in [Threads -> {"none", "init", "arrive", "spin", "release", "func",
                            "cleanup", "exit", "dead"}]
    BY <1>a, <2>4
  <2> QED BY <1>9, <1>a, <2>3, <2>5 DEF mthpc_centralized_barrier_arrive
<1>10. ASSUME NEW t \in Threads, mthpc_centralized_barrier_release(t) PROVE ThreadTypeOK'
  BY <1>10, <1>a, <1>b DEF mthpc_centralized_barrier_release
<1>11. ASSUME NEW t \in Threads, mthpc_centralized_barrier_pass(t) PROVE ThreadTypeOK'
  BY <1>11, <1>a, <1>b DEF mthpc_centralized_barrier_pass
<1>12. ASSUME NEW t \in Threads, mthpc_thread_worker_func(t) PROVE ThreadTypeOK'
  BY <1>12, <1>a, <1>b DEF mthpc_thread_worker_func
<1>13. ASSUME NEW t \in Threads, mthpc_thread_async_cleanup(t) PROVE ThreadTypeOK'
  BY <1>13, <1>a, <1>b DEF mthpc_thread_async_cleanup, OneMoreExited
<1>14. ASSUME NEW t \in Threads, pthread_exit(t) PROVE ThreadTypeOK'
  BY <1>14, <1>a, <1>b DEF pthread_exit
<1>15. ASSUME mthpc_thread_wq_join_lock PROVE ThreadTypeOK'
  BY <1>15, <1>a DEF mthpc_thread_wq_join_lock
<1>16. ASSUME mthpc_thread_wq_join_visit PROVE ThreadTypeOK'
  <2>1. Head(walk) \in Groups
    BY <1>16, <1>a, TakenFirst DEF MainTypeOK, mthpc_thread_wq_join_visit
  <2> QED BY <1>16, <1>a, <1>j, <1>p, <2>1 DEF mthpc_thread_wq_join_visit
<1>17. ASSUME mthpc_thread_wq_join_unlock PROVE ThreadTypeOK'
  BY <1>17, <1>a DEF mthpc_thread_wq_join_unlock
<1>18. ASSUME mthpc_thread_wq_join_requeue PROVE ThreadTypeOK'
  BY <1>18, <1>a DEF mthpc_thread_wq_join_requeue
<1>19. ASSUME UNCHANGED vars PROVE ThreadTypeOK'
  BY <1>19, <1>a DEF vars
<1>20. ASSUME mthpc_thread_async_wait_hang PROVE ThreadTypeOK'
  BY <1>20, <1>a DEF mthpc_thread_async_wait_hang
<1> QED
  BY <1>1, <1>2, <1>3, <1>4, <1>5, <1>6, <1>7, <1>8, <1>9, <1>10, <1>11, <1>12, <1>13,
     <1>14, <1>15, <1>16, <1>17, <1>18, <1>19, <1>20
  DEF Next, MainStep, ThreadStep, WorkStep, Finished, mthpc_thread_async_wait_spin,
     mthpc_centralized_barrier_spin
-----------------------------------------------------------------------------
(* What the steps do to what the invariant is about. *)

(* No call gets further in what matters to the threads. *)
Same ==
    /\ plan' = plan
    /\ \A k \in 1..Len(plan) :
          /\ Starts(k) => (Begun(k)' <=> Begun(k))
          /\ InScope(k)' => InScope(k)
          /\ \A g \in Groups : Pending(g, k)' <=> Pending(g, k)
          /\ \A g \in Groups : plan[k].op = "run" => (Joined(g, k)' => Joined(g, k))
    /\ \A k \in Calls : (Begun(k) => Begun(k)') /\ (Creating(k)' <=> Creating(k))

Quiet == Same /\ UNCHANGED <<barrier_object, nr_exited, objVars, entry, pc, obj, n>>

(* The share of g in object k is dropped. *)
Reaps(g, k) ==
    /\ Same
    /\ barrier_object[g] = k /\ nr_exited[g] = Nr[g] /\ \A t \in Members(g) : pc[t] = "dead"
    /\ barrier_object' = [barrier_object EXCEPT ![g] = 0]
    /\ refcount' = [refcount EXCEPT ![k] = @ - Nr[g]]
    /\ live' = IF refcount'[k] = 0 THEN live \ {k} ELSE live
    /\ UNCHANGED <<nr_exited, count, flag, entry, pc, obj, n>>

Loads(t, k) ==
    /\ Same
    /\ pc[t] = "init" /\ barrier_object[t[1]] = k
    /\ obj' = [obj EXCEPT ![t] = k] /\ n' = [n EXCEPT ![t] = refcount[k]]
    /\ pc' = [pc EXCEPT ![t] = "arrive"]
    /\ UNCHANGED <<entry, barrier_object, nr_exited, objVars>>

Arrives(t, k) ==
    /\ Same
    /\ pc[t] = "arrive" /\ obj[t] = k
    /\ LET c == count[k] + 1 IN
       /\ count' = [count EXCEPT ![k] = IF c = n[t] THEN 0 ELSE c]
       /\ pc' = [pc EXCEPT ![t] = IF c = n[t] THEN "release"
                                  ELSE IF c < n[t] THEN "spin" ELSE "func"]
    /\ UNCHANGED <<entry, barrier_object, nr_exited, refcount, flag, live, obj, n>>

(* t has been through the barrier and goes on. *)
Goes(t, p) ==
    /\ Same
    /\ pc' = [pc EXCEPT ![t] = p]
    /\ \/ pc[t] = "release" /\ p = "func" /\ flag' = [flag EXCEPT ![obj[t]] = 1]
       \/ pc[t] = "spin" /\ p = "func" /\ flag[obj[t]] = 1 /\ flag' = flag
       \/ /\ pc[t] = "func" /\ p = IF entry[t] = "async" THEN "cleanup" ELSE "dead"
          /\ flag' = flag
       \/ pc[t] = "cleanup" /\ p = "exit" /\ flag' = flag
       \/ pc[t] = "exit" /\ p = "dead" /\ flag' = flag
    /\ obj' = IF pc[t] = "func" THEN [obj EXCEPT ![t] = 0] ELSE obj
    /\ nr_exited' = IF pc[t] = "cleanup" THEN [nr_exited EXCEPT ![t[1]] = @ + 1] ELSE nr_exited
    /\ \A u \in Threads : u # t => n'[u] = n[u]
    /\ UNCHANGED <<entry, barrier_object, refcount, count, live>>

(* The main thread is where its call has it. *)
LEMMA MainStateStep ==
    ASSUME MainTypeOK, MainState, [Next]_vars
    PROVE  MainState'
<1>a. /\ plan \in Plans /\ Len(plan) \in Nat /\ call \in Nat \ {0} /\ idx \in Nat \ {0}
      /\ mpc \in {"call", "link", "create", "join", "queue", "wait", "hung"}
      /\ \A k \in 1..Len(plan) : Len(plan[k].groups) \in Nat \ {0}
  BY PlanFacts DEF MainTypeOK
<1>f. ASSUME mpc # "call" \/ Op # "none"
      PROVE  /\ call \in 1..Len(plan) /\ Op = plan[call].op /\ idx \in 1..Len(plan[call].groups)
             /\ Len(plan[call].groups) \in Nat \ {0}
  BY <1>f, CurrentFacts, <1>a
<1>s. ASSUME plan' = plan, call' = call PROVE Op' = Op
  BY <1>s DEF Op
<1>1. ASSUME mthpc_thread_run_begin PROVE MainState'
  BY <1>1, <1>a, <1>f, <1>s DEF MainState, mthpc_thread_run_begin
<1>2. ASSUME mthpc_thread_async_run_link PROVE MainState'
  BY <1>2, <1>a, <1>f, <1>s DEF MainState, mthpc_thread_async_run_link
<1>3. ASSUME mthpc_thread_run_create PROVE MainState'
  BY <1>3, <1>a, <1>f, <1>s DEF MainState, mthpc_thread_run_create, Advance, LastGroup
<1>4. ASSUME mthpc_thread_run_join PROVE MainState'
  BY <1>4, <1>a, <1>f, <1>s DEF MainState, mthpc_thread_run_join, Advance, LastGroup
<1>5. ASSUME mthpc_queue_thread_work PROVE MainState'
  BY <1>5, <1>a, <1>f DEF MainState, mthpc_queue_thread_work
<1>6. ASSUME mthpc_thread_async_wait_unlink PROVE MainState'
  BY <1>6, <1>a, <1>f, <1>s DEF MainState, mthpc_thread_async_wait_unlink
<1>7. ASSUME mthpc_thread_async_wait_join PROVE MainState'
  BY <1>7, <1>a, <1>f, <1>s DEF MainState, mthpc_thread_async_wait_join, Advance, LastGroup
<1>8. ASSUME UNCHANGED mainVars PROVE MainState'
  BY <1>8, <1>s DEF MainState, mainVars
<1>10. ASSUME mthpc_thread_async_wait_hang PROVE MainState'
  BY <1>10, <1>a, <1>f, <1>s DEF MainState, mthpc_thread_async_wait_hang
<1>9. \/ mthpc_thread_run_begin \/ mthpc_thread_async_run_link
      \/ mthpc_thread_run_create \/ mthpc_thread_run_join
      \/ mthpc_queue_thread_work
      \/ mthpc_thread_async_wait_unlink \/ mthpc_thread_async_wait_join
      \/ mthpc_thread_async_wait_hang \/ UNCHANGED mainVars
  BY Zenon DEF Next, MainStep, ThreadStep, WorkStep, Finished, vars, mainVars,
     mthpc_thread_async_wait_spin, mthpc_thread_worker_load, mthpc_centralized_barrier_arrive,
     mthpc_centralized_barrier_release, mthpc_centralized_barrier_pass,
     mthpc_centralized_barrier_spin, mthpc_thread_worker_func, mthpc_thread_async_cleanup,
     pthread_exit, mthpc_thread_wq_join_lock, mthpc_thread_wq_join_visit,
     mthpc_thread_wq_join_unlock, mthpc_thread_wq_join_requeue
<1> QED BY <1>1, <1>2, <1>3, <1>4, <1>5, <1>6, <1>7, <1>8, <1>9, <1>10

(* The steps that leave all calls where they are. *)
LEMMA SameSteps ==
    ASSUME MainTypeOK, MainState,
           \/ UNCHANGED mainVars
           \/ mthpc_thread_async_run_link \/ mthpc_queue_thread_work
           \/ mthpc_thread_async_wait_unlink \/ mthpc_thread_async_wait_join
           \/ mthpc_thread_async_wait_hang
    PROVE  Same
<1>a. /\ Len(plan) \in Nat /\ call \in Nat \ {0}
      /\ mpc \in {"call", "link", "create", "join", "queue", "wait", "hung"}
      /\ \A k \in Calls : k \in Nat \ {0}
      /\ \A k \in 1..Len(plan) : k \in Calls
  BY PlanFacts, Names DEF MainTypeOK
<1> USE DEF Begun, Creating, InScope, Starts
<1>1. CASE UNCHANGED mainVars
  BY <1>1 DEF mainVars, Same, Pending, Joined
<1>2. CASE mthpc_thread_async_run_link
  <2>1. mpc = "link" /\ mpc' = "create" /\ Op = "async" /\ UNCHANGED <<plan, call, idx>>
    BY <1>2 DEF MainState, mthpc_thread_async_run_link
  <2>2. plan[call].op = "async"
    BY <2>1, CurrentFacts
  <2> QED BY <1>a, <2>1, <2>2 DEF Same, Pending, Joined
<1>3. CASE mthpc_queue_thread_work
  <2>1. /\ mpc = "queue" /\ mpc' = "call" /\ Op = "async" /\ call' = call + 1
        /\ UNCHANGED <<plan, idx>>
    BY <1>3 DEF MainState, mthpc_queue_thread_work
  <2>2. plan[call].op = "async"
    BY <2>1, CurrentFacts
  <2> QED BY <1>a, <2>1, <2>2 DEF Same, Pending, Joined
<1>4. CASE mthpc_thread_async_wait_unlink
  <2>1. mpc = "call" /\ mpc' = "wait" /\ UNCHANGED <<plan, call, idx>>
    BY <1>4 DEF mthpc_thread_async_wait_unlink
  <2> QED BY <1>a, <2>1 DEF Same, Pending, Joined
<1>5. CASE mthpc_thread_async_wait_join
  <2>1. /\ mpc = "wait" /\ mpc' = "call" /\ Op = "wait" /\ call' \in {call, call + 1}
        /\ plan' = plan
    BY <1>5 DEF MainState, mthpc_thread_async_wait_join, Advance
  <2>2. plan[call].op = "wait"
    BY <2>1, CurrentFacts
  <2> QED BY <1>a, <2>1, <2>2 DEF Same, Pending, Joined
<1>6. CASE mthpc_thread_async_wait_hang
  <2>1. mpc = "wait" /\ mpc' = "hung" /\ UNCHANGED <<plan, call, idx>>
    BY <1>6 DEF mthpc_thread_async_wait_hang
  <2> QED BY <1>a, <2>1 DEF Same, Pending, Joined
<1> QED BY <1>1, <1>2, <1>3, <1>4, <1>5, <1>6

(* Dropping the share of a group that is through. *)
LEMMA PutCases ==
    ASSUME ThreadGroupInv, Same, NEW g \in Groups,
           nr_exited[g] = Nr[g], JoinGroup(g), mthpc_group_put_barrier_object(g),
           UNCHANGED <<nr_exited, count, flag, entry, pc, obj, n>>
    PROVE  Quiet \/ \E k \in Calls : Reaps(g, k)
<1>1. barrier_object[g] \in Calls \union {0} /\ barrier_object \in [Groups -> Calls \union {0}]
  BY DEF ThreadGroupInv, TypeOK, ThreadTypeOK
<1>2. CASE barrier_object[g] = 0
  BY <1>2 DEF Quiet, objVars, mthpc_group_put_barrier_object
<1>3. CASE barrier_object[g] # 0
  <2>1. \A t \in Members(g) : pc[t] = "dead"
    BY DEF JoinGroup
  <2>2. Reaps(g, barrier_object[g])
    BY <1>3, <2>1 DEF Reaps, mthpc_group_put_barrier_object, LastShare, Cleared
  <2> QED BY <1>1, <1>3, <2>2
<1> QED BY <1>2, <1>3

(* The steps of the threads of a group. *)
LEMMA ThreadCases ==
    ASSUME ThreadGroupInv, NEW t \in Threads, ThreadStep(t)
    PROVE  Quiet \/ (\E k \in Calls : Loads(t, k) \/ Arrives(t, k)) \/ \E p : Goes(t, p)
<1> USE DEF mainVars, infoVars, groupVars, objVars, threadVars, workVars
<1>s. MainTypeOK /\ MainState /\ ThreadTypeOK
  BY DEF ThreadGroupInv, TypeOK
<1>t. /\ t[1] \in Groups /\ barrier_object[t[1]] \in Calls \union {0}
      /\ obj[t] \in Calls \union {0} /\ obj \in [Threads -> Calls \union {0}]
      /\ n \in [Threads -> Nat]
  BY <1>s, Names DEF ThreadTypeOK
<1>0. Same
  <2>1. UNCHANGED mainVars
    BY DEF ThreadStep, vars, mthpc_thread_worker_load, mthpc_centralized_barrier_arrive,
       mthpc_centralized_barrier_release, mthpc_centralized_barrier_pass,
       mthpc_centralized_barrier_spin, mthpc_thread_worker_func, mthpc_thread_async_cleanup,
       pthread_exit
  <2> QED BY <1>s, <2>1, SameSteps
<1>1. ASSUME mthpc_thread_worker_load(t) PROVE Loads(t, barrier_object[t[1]]) /\ barrier_object[t[1]] # 0
  <2>1. pc[t] = "init" /\ t \in Members(t[1])
    BY <1>1, Names DEF mthpc_thread_worker_load
  <2>2. GroupOK(t[1])
    BY <1>t DEF ThreadGroupInv, GroupState
  <2>3. barrier_object[t[1]] # 0
    BY <2>1, <2>2 DEF GroupOK, Active
  <2> QED BY <1>0, <1>1, <2>3 DEF Loads, mthpc_thread_worker_load
<1>2. ASSUME mthpc_centralized_barrier_arrive(t) PROVE Arrives(t, obj[t]) /\ obj[t] # 0
  <2>1. obj[t] # 0
    BY <1>2 DEF ThreadGroupInv, ThreadState, ThreadOK, mthpc_centralized_barrier_arrive
  <2> QED BY <1>0, <1>2, <2>1 DEF Arrives, mthpc_centralized_barrier_arrive
<1>3. ASSUME mthpc_centralized_barrier_release(t) PROVE Goes(t, "func")
  BY <1>0, <1>3 DEF Goes, mthpc_centralized_barrier_release
<1>4. ASSUME mthpc_centralized_barrier_pass(t) PROVE Goes(t, "func")
  BY <1>0, <1>4 DEF Goes, mthpc_centralized_barrier_pass
<1>5. ASSUME mthpc_centralized_barrier_spin(t) PROVE Quiet
  BY <1>0, <1>5 DEF Quiet, vars, mthpc_centralized_barrier_spin
<1>6. ASSUME mthpc_thread_worker_func(t)
      PROVE  Goes(t, IF entry[t] = "async" THEN "cleanup" ELSE "dead")
  BY <1>0, <1>t, <1>6 DEF Goes, mthpc_thread_worker_func
<1>7. ASSUME mthpc_thread_async_cleanup(t) PROVE Goes(t, "exit")
  BY <1>0, <1>7 DEF Goes, mthpc_thread_async_cleanup, OneMoreExited
<1>8. ASSUME pthread_exit(t) PROVE Goes(t, "dead")
  BY <1>0, <1>8 DEF Goes, pthread_exit
<1> QED
  BY <1>1, <1>2, <1>3, <1>4, <1>5, <1>6, <1>7, <1>8, <1>t DEF ThreadStep

(* Every step is one of these. *)
LEMMA StepCases ==
    ASSUME ThreadGroupInv, [Next]_vars
    PROVE  \/ Quiet
           \/ mthpc_thread_run_begin \/ mthpc_thread_run_create \/ mthpc_thread_run_join
           \/ \E g \in Groups, k \in Calls : Reaps(g, k)
           \/ \E t \in Threads, k \in Calls : Loads(t, k) \/ Arrives(t, k)
           \/ \E t \in Threads : \E p : Goes(t, p)
<1> USE DEF mainVars, infoVars, groupVars, objVars, threadVars, workVars
<1>s. MainTypeOK /\ MainState
  BY DEF ThreadGroupInv, TypeOK
<1>1. ASSUME mthpc_thread_async_run_link PROVE Quiet
  BY <1>s, <1>1, SameSteps DEF Quiet, mthpc_thread_async_run_link
<1>2. ASSUME mthpc_queue_thread_work PROVE Quiet
  BY <1>s, <1>2, SameSteps DEF Quiet, mthpc_queue_thread_work
<1>3. ASSUME mthpc_thread_async_wait_unlink PROVE Quiet
  BY <1>s, <1>3, SameSteps DEF Quiet, mthpc_thread_async_wait_unlink
<1>4. ASSUME mthpc_thread_async_wait_join PROVE Quiet \/ \E g \in Groups, k \in Calls : Reaps(g, k)
  <2>1. Same
    BY <1>s, <1>4, SameSteps
  <2>2. Current \in Groups
    BY <1>s, <1>4, CurrentFacts DEF mthpc_thread_async_wait_join
  <2> DEFINE g == Current
  <2>3. /\ nr_exited[g] = Nr[g] /\ JoinGroup(g) /\ mthpc_group_put_barrier_object(g)
        /\ UNCHANGED <<nr_exited, count, flag, entry, pc, obj, n>>
    BY <1>4 DEF mthpc_thread_async_wait_join
  <2> HIDE DEF g
  <2> QED BY <2>1, <2>2, <2>3, PutCases DEF g
<1>5. ASSUME mthpc_thread_wq_join_visit PROVE Quiet \/ \E g \in Groups, k \in Calls : Reaps(g, k)
  <2>1. Same
    BY <1>s, <1>5, SameSteps DEF mthpc_thread_wq_join_visit
  <2> DEFINE g == Head(walk)
  <2>2. g \in Groups
    BY <1>s, <1>5, TakenFirst DEF MainTypeOK, mthpc_thread_wq_join_visit
  <2>3. CASE nr_exited[g] = Nr[g]
    <3>1. /\ JoinGroup(g) /\ mthpc_group_put_barrier_object(g)
          /\ UNCHANGED <<nr_exited, count, flag, entry, pc, obj, n>>
      BY <1>5, <2>3 DEF mthpc_thread_wq_join_visit
    <3> HIDE DEF g
    <3> QED BY <2>1, <2>2, <2>3, <3>1, PutCases
  <2>4. CASE nr_exited[g] # Nr[g]
    BY <1>5, <2>1, <2>4 DEF Quiet, mthpc_thread_wq_join_visit
  <2> QED BY <2>3, <2>4
<1>6. ASSUME \/ mthpc_thread_wq_join_lock \/ mthpc_thread_wq_join_unlock
             \/ mthpc_thread_wq_join_requeue \/ UNCHANGED vars
      PROVE  Quiet
  <2>1. /\ UNCHANGED mainVars
        /\ UNCHANGED <<barrier_object, nr_exited, objVars, entry, pc, obj, n>>
    BY <1>6 DEF vars, mthpc_thread_wq_join_lock, mthpc_thread_wq_join_unlock,
       mthpc_thread_wq_join_requeue
  <2> QED BY <1>s, <2>1, SameSteps DEF Quiet
<1>7. ASSUME NEW t \in Threads, ThreadStep(t)
      PROVE  \/ Quiet \/ (\E k \in Calls : Loads(t, k) \/ Arrives(t, k))
             \/ \E p : Goes(t, p)
  BY <1>7, ThreadCases
<1>9. ASSUME mthpc_thread_async_wait_hang PROVE Quiet
  BY <1>s, <1>9, SameSteps DEF Quiet, mthpc_thread_async_wait_hang
<1>8. \/ mthpc_thread_run_begin \/ mthpc_thread_async_run_link
      \/ mthpc_thread_run_create \/ mthpc_thread_run_join
      \/ mthpc_queue_thread_work
      \/ mthpc_thread_async_wait_unlink \/ mthpc_thread_async_wait_join
      \/ mthpc_thread_async_wait_hang
      \/ mthpc_thread_wq_join_lock \/ mthpc_thread_wq_join_visit
      \/ mthpc_thread_wq_join_unlock \/ mthpc_thread_wq_join_requeue
      \/ (\E t \in Threads : ThreadStep(t)) \/ UNCHANGED vars
  BY Zenon DEF Next, MainStep, WorkStep, Finished, mthpc_thread_async_wait_spin
<1> QED BY <1>1, <1>2, <1>3, <1>4, <1>5, <1>6, <1>7, <1>8, <1>9, Zenon

(* A call that runs groups begins. *)
LEMMA BeginFacts ==
    ASSUME ThreadGroupInv, mthpc_thread_run_begin
    PROVE  /\ call \in 1..Len(plan) /\ call \in Calls /\ Starts(call) /\ ~Begun(call)
           /\ plan' = plan /\ call' = call /\ Begun(call)'
           /\ \A k \in Calls : k # call => (Begun(k)' <=> Begun(k))
           /\ \A k \in Calls : ~Creating(k) /\ (Creating(k)' <=> k = call)
           /\ \A k \in 1..Len(plan) : \A g \in Groups :
                 /\ ~Pending(g, k) /\ (Pending(g, k)' <=> k = call /\ g \in Cluster(call))
                 /\ Joined(g, k)' => Joined(g, k)
           /\ \A k \in 1..Len(plan) : InScope(k)' => k = call
           /\ \A g \in Groups : barrier_object[g] # call
           /\ refcount' = [refcount EXCEPT ![call] = TotalNr(call)]
           /\ live' = live \union {call}
           /\ UNCHANGED <<barrier_object, nr_exited, count, flag, entry, pc, obj, n>>
<1>1. /\ mpc = "call" /\ Op \in {"run", "async"} /\ mpc' \in {"create", "link"}
      /\ UNCHANGED <<plan, call, idx>>
      /\ refcount' = [refcount EXCEPT ![call] = TotalNr(call)]
      /\ live' = live \union {call}
      /\ UNCHANGED <<barrier_object, nr_exited, count, flag, entry, pc, obj, n>>
  BY DEF mthpc_thread_run_begin, groupVars, threadVars
<1>2. /\ MainTypeOK /\ MainState /\ GroupState /\ ThreadTypeOK
  BY DEF ThreadGroupInv, TypeOK
<1>3. /\ call \in 1..Len(plan) /\ call \in Calls /\ call \in Nat \ {0} /\ Op = plan[call].op
      /\ idx = 1 /\ \A k \in Calls : k \in Nat \ {0}
  BY <1>1, <1>2, CurrentFacts, PlanFacts, Names DEF MainState
<1>4. ASSUME NEW k \in 1..Len(plan), NEW g \in Groups
      PROVE  /\ ~Pending(g, k) /\ (Pending(g, k)' <=> k = call /\ g \in Cluster(call))
             /\ Joined(g, k)' => Joined(g, k)
  <2>1. g \in Cluster(k) <=> \E i \in 1..Len(plan[k].groups) : plan[k].groups[i] = g
    BY <1>2, PlanFacts
  <2> QED BY <1>1, <1>3, <2>1 DEF Pending, Creating, Joined
<1>5. \A g \in Groups : barrier_object[g] # call
  BY <1>1, <1>2, <1>3 DEF GroupState, GroupOK, ObjectOf, Begun
<1> QED BY <1>1, <1>3, <1>4, <1>5 DEF Begun, Creating, InScope, Starts

(* It creates the threads of a group, which nobody is in. *)
LEMMA CreateFacts ==
    ASSUME AsyncOnce, ThreadGroupInv, mthpc_thread_run_create
    PROVE  /\ call \in 1..Len(plan) /\ call \in Calls /\ Starts(call) /\ Begun(call)
           /\ plan' = plan /\ Creating(call)
           /\ Current \in Groups /\ Current \in Cluster(call) /\ Pending(Current, call)
           /\ \A k \in Calls : (Begun(k)' <=> Begun(k)) /\ (Creating(k)' => Creating(k))
           /\ \A k \in 1..Len(plan) : \A g \in Groups :
                 /\ Pending(g, k)' <=> Pending(g, k) /\ ~(k = call /\ g = Current)
                 /\ Joined(g, k)' => Joined(g, k)
           /\ \A k \in 1..Len(plan) : InScope(k)' => InScope(k)
           /\ \A k \in 1..Len(plan) : k < call /\ plan[k].op = "async" => Current \notin Cluster(k)
           /\ \A k \in Calls : barrier_object[Current] = k => k < call /\ plan[k].op = "run"
           /\ \A t \in Members(Current) : ~Active(t) /\ entry[t] = "run"
           /\ barrier_object' = [barrier_object EXCEPT ![Current] = call]
           /\ \A t \in Threads : /\ t[1] = Current => entry'[t] = plan[call].op /\ pc'[t] = "init"
                                 /\ t[1] # Current => entry'[t] = entry[t] /\ pc'[t] = pc[t]
           /\ UNCHANGED <<nr_exited, objVars, obj, n>>
<1>1. /\ mpc = "create" /\ plan' = plan /\ call' = call
      /\ IF Op = "run" THEN Advance("create", "join") ELSE Advance("link", "queue")
      /\ barrier_object' = [barrier_object EXCEPT ![Current] = call]
      /\ UNCHANGED <<nr_exited, objVars, obj, n>>
      /\ \A t \in Threads : /\ t[1] = Current => entry'[t] = Op /\ pc'[t] = "init"
                            /\ t[1] # Current => entry'[t] = entry[t] /\ pc'[t] = pc[t]
  BY DEF mthpc_thread_run_create
<1>2. /\ MainTypeOK /\ MainState /\ GroupState /\ ExitState /\ ThreadTypeOK /\ MainState'
  BY MainStateStep DEF ThreadGroupInv, TypeOK, Next, MainStep
<1>3. /\ call \in 1..Len(plan) /\ call \in Calls /\ call \in Nat \ {0} /\ Op = plan[call].op
      /\ Current \in Groups /\ Current \in Cluster(call) /\ idx \in 1..Len(plan[call].groups)
      /\ Current = plan[call].groups[idx] /\ Len(plan[call].groups) \in Nat
      /\ \A i, j \in 1..Len(plan[call].groups) :
            plan[call].groups[i] = plan[call].groups[j] => i = j
      /\ \A k \in Calls : k \in Nat \ {0}
      /\ \A k \in 1..Len(plan) : k \in Calls
      /\ Op \in {"run", "async"}
  BY <1>1, <1>2, CurrentFacts, PlanFacts, Names DEF MainState
<1>4. \/ /\ idx = Len(plan[call].groups) /\ idx' = 1
         /\ \/ mpc' = "join" /\ plan[call].op = "run"
            \/ mpc' = "queue" /\ plan[call].op = "async"
      \/ /\ idx # Len(plan[call].groups) /\ idx' = idx + 1
         /\ \/ mpc' = "create" /\ plan[call].op = "run"
            \/ mpc' = "link" /\ plan[call].op = "async"
  BY <1>1, <1>3 DEF Advance, LastGroup
<1>5. Pending(Current, call)
  BY <1>1, <1>3 DEF Pending, Creating
<1>6. ASSUME NEW k \in 1..Len(plan), NEW g \in Groups
      PROVE  /\ Pending(g, k)' <=> Pending(g, k) /\ ~(k = call /\ g = Current)
             /\ Joined(g, k)' => Joined(g, k)
  <2>1. CASE k = call
    <3>1. Pending(g, k) <=> \E i \in idx..Len(plan[call].groups) : plan[call].groups[i] = g
      BY <1>1, <1>3, <2>1 DEF Pending, Creating
    <3>2. CASE idx' = idx + 1
      <4>1. Pending(g, k)' <=>
               \E i \in (idx + 1)..Len(plan[call].groups) : plan[call].groups[i] = g
        BY <1>1, <1>3, <2>1, <1>4, <3>2 DEF Pending, Creating
      <4>2. ~Joined(g, k)'
        BY <1>1, <1>3, <2>1, <1>4, <3>2 DEF Joined
      <4>3. \A i \in idx..Len(plan[call].groups) : i = idx \/ i \in (idx + 1)..Len(plan[call].groups)
        BY <1>3
      <4>4. \A i \in (idx + 1)..Len(plan[call].groups) : plan[call].groups[i] # Current
        BY <1>3
      <4>5. CASE g = Current
        BY <2>1, <4>1, <4>2, <4>4, <4>5
      <4>6. CASE g # Current
        <5>1. Pending(g, k) => Pending(g, k)'
          BY <1>3, <3>1, <4>1, <4>3, <4>6
        <5>2. Pending(g, k)' => Pending(g, k)
          <6>1. \A i \in (idx + 1)..Len(plan[call].groups) : i \in idx..Len(plan[call].groups)
            BY <1>3
          <6> QED BY <3>1, <4>1, <6>1
        <5> QED BY <2>1, <4>2, <4>6, <5>1, <5>2
      <4> QED BY <4>5, <4>6
    <3>3. CASE idx' = 1 /\ idx = Len(plan[call].groups)
      <4>1. ~Pending(g, k)'
        BY <1>1, <1>4, <3>3, <1>3 DEF Pending, Creating
      <4>2. ~Joined(g, k)'
        BY <1>1, <1>3, <2>1, <1>4, <3>3 DEF Joined
      <4>3. \A i \in idx..Len(plan[call].groups) : i = idx
        BY <1>3, <3>3
      <4>4. Pending(g, k) => g = Current
        BY <1>3, <3>1, <4>3
      <4> QED BY <2>1, <4>1, <4>2, <4>4
    <3> QED BY <1>4, <3>2, <3>3
  <2>2. CASE k # call
    BY <1>1, <2>2 DEF Pending, Creating, Joined
  <2> QED BY <2>1, <2>2
<1>7. ASSUME NEW k \in 1..Len(plan), k < call, plan[k].op = "async", Current \in Cluster(k)
      PROVE  FALSE
  BY <1>2, <1>3, <1>7 DEF AsyncOnce, Cluster, MainTypeOK
<1>8. \A k \in Calls : barrier_object[Current] = k => k < call /\ plan[k].op = "run"
  <2> SUFFICES ASSUME NEW k \in Calls, barrier_object[Current] = k
               PROVE  k < call /\ plan[k].op = "run"
    OBVIOUS
  <2>1. ObjectOf(Current, k)
    BY <1>2, <1>3 DEF GroupState, GroupOK
  <2>2. /\ k \in 1..Len(plan) /\ Begun(k) /\ Current \in Cluster(k) /\ ~Pending(Current, k)
        /\ plan[k].op \in {"run", "async"}
    BY <2>1 DEF ObjectOf, Starts
  <2>3. k < call
    BY <1>5, <2>2 DEF Begun
  <2> QED BY <1>7, <2>2, <2>3
<1>9. ASSUME NEW t \in Members(Current) PROVE ~Active(t) /\ entry[t] = "run"
  <2>1. ~Active(t)
    <3>1. CASE barrier_object[Current] = 0
      BY <1>2, <1>3, <3>1 DEF GroupState, GroupOK
    <3>2. CASE barrier_object[Current] # 0
      <4>1. PICK k \in Calls : barrier_object[Current] = k
        BY <1>2, <1>3, <3>2 DEF ThreadTypeOK
      <4>2. ObjectOf(Current, k) /\ k < call /\ plan[k].op = "run"
        BY <1>2, <1>3, <1>8, <4>1 DEF GroupState, GroupOK
      <4> QED BY <4>2 DEF ObjectOf, Joined
    <3> QED BY <3>1, <3>2
  <2>2. t \in Threads /\ t[1] = Current
    BY <1>3, Names
  <2>3. ASSUME entry[t] = "async" PROVE FALSE
    <3>1. PICK k \in 1..Len(plan) : /\ plan[k].op = "async" /\ Begun(k)
                                    /\ Current \in Cluster(k) /\ ~Pending(Current, k)
      BY <1>2, <2>2, <2>3 DEF ExitState, FromAsync
    <3>2. k < call
      BY <1>5, <3>1 DEF Begun
    <3> QED BY <1>7, <3>1, <3>2
  <2>4. entry[t] \in {"run", "async"}
    BY <1>2, <2>2 DEF ThreadTypeOK
  <2> QED BY <2>1, <2>3, <2>4
<1>10. \A k \in Calls : (Begun(k)' <=> Begun(k)) /\ (Creating(k)' => Creating(k))
  BY <1>1, <1>3, <1>4 DEF Begun, Creating
<1>11. \A k \in 1..Len(plan) : InScope(k)' => InScope(k)
  BY <1>1, <1>3, <1>4 DEF InScope
<1> QED
  BY <1>1, <1>3, <1>5, <1>6, <1>7, <1>8, <1>9, <1>10, <1>11 DEF Begun, Creating, Starts

(* It joins the threads of a group, in the end of all groups. *)
LEMMA JoinFacts ==
    ASSUME ThreadGroupInv, mthpc_thread_run_join
    PROVE  /\ call \in 1..Len(plan) /\ call \in Calls /\ plan[call].op = "run"
           /\ plan' = plan
           /\ \A t \in Members(Current) : pc[t] = "dead"
           /\ \A k \in Calls : (Begun(k)' <=> Begun(k)) /\ ~Creating(k) /\ ~Creating(k)'
           /\ \A k \in 1..Len(plan) : \A g \in Groups :
                 /\ ~Pending(g, k) /\ ~Pending(g, k)'
                 /\ g \in Cluster(k) /\ Joined(g, k)' => Joined(g, k) \/ g = Current
           /\ \A k \in 1..Len(plan) : InScope(k)' => InScope(k) /\ live' = live
           /\ \/ live' = live
              \/ /\ live' = live \ {call}
                 /\ \A t \in Threads : barrier_object[t[1]] = call => ~Active(t)
           /\ UNCHANGED <<barrier_object, nr_exited, refcount, count, flag, entry, pc, obj, n>>
<1>1. /\ mpc = "join" /\ JoinGroup(Current) /\ plan' = plan
      /\ UNCHANGED <<barrier_object, nr_exited, refcount, count, flag, entry, pc, obj, n>>
      /\ \/ /\ LastGroup /\ call' = call + 1 /\ live' = live \ {call}
            /\ mpc' = "call" /\ idx' = 1
         \/ ~LastGroup /\ UNCHANGED <<call, live, mpc>> /\ mpc' = "join" /\ idx' = idx + 1
  BY DEF mthpc_thread_run_join, Advance, groupVars
<1>2. /\ MainTypeOK /\ MainState /\ GroupState /\ ThreadTypeOK
  BY DEF ThreadGroupInv, TypeOK
<1>3. /\ call \in 1..Len(plan) /\ call \in Calls /\ call \in Nat \ {0} /\ plan[call].op = "run"
      /\ Current \in Groups /\ idx \in 1..Len(plan[call].groups)
      /\ Current = plan[call].groups[idx] /\ Len(plan[call].groups) \in Nat
      /\ \A k \in Calls : k \in Nat \ {0}
      /\ \A k \in 1..Len(plan) : k \in Calls
  BY <1>1, <1>2, CurrentFacts, PlanFacts, Names DEF MainState
<1>4. \A t \in Members(Current) : pc[t] = "dead"
  BY <1>1 DEF JoinGroup
<1>5. ASSUME NEW k \in 1..Len(plan), NEW g \in Groups
      PROVE  /\ ~Pending(g, k) /\ ~Pending(g, k)'
             /\ g \in Cluster(k) /\ Joined(g, k)' => Joined(g, k) \/ g = Current
  <2>1. ~Pending(g, k) /\ ~Pending(g, k)'
    BY <1>1 DEF Pending, Creating
  <2>2. g \in Cluster(k) <=> \E i \in 1..Len(plan[k].groups) : plan[k].groups[i] = g
    BY <1>2, PlanFacts
  <2>3. ASSUME g \in Cluster(k), Joined(g, k)', g # Current PROVE Joined(g, k)
    <3>1. CASE k < call
      BY <3>1 DEF Joined
    <3>2. CASE ~ (k < call)
      <4>1. k = call
        BY <1>1, <1>3, <2>3, <3>2 DEF Joined
      <4>2. PICK i \in 1..Len(plan[call].groups) :
               plan[call].groups[i] = g /\ (LastGroup \/ i < idx + 1)
        BY <1>1, <1>3, <2>2, <2>3, <4>1 DEF Joined
      <4>3. i # idx /\ i < idx + 1
        BY <1>3, <2>3, <4>2 DEF LastGroup
      <4> QED BY <1>1, <1>3, <4>1, <4>2, <4>3 DEF Joined
    <3> QED BY <3>1, <3>2
  <2> QED BY <2>1, <2>3
<1>6. ASSUME LastGroup, NEW t \in Threads, barrier_object[t[1]] = call
      PROVE  ~Active(t)
  <2>1. t[1] \in Groups /\ t \in Members(t[1])
    BY Names
  <2>2. ObjectOf(t[1], call)
    BY <1>2, <1>3, <1>6, <2>1 DEF GroupState, GroupOK
  <2>3. CASE t[1] = Current
    BY <1>4, <2>1, <2>3 DEF Active
  <2>4. CASE t[1] # Current
    <3>1. PICK i \in 1..Len(plan[call].groups) : plan[call].groups[i] = t[1]
      BY <1>2, <1>3, <2>2, PlanFacts DEF ObjectOf
    <3>2. i < idx
      BY <1>3, <1>6, <2>4, <3>1 DEF LastGroup
    <3>3. Joined(t[1], call)
      BY <1>1, <3>1, <3>2 DEF Joined
    <3> QED BY <1>3, <2>1, <2>2, <3>3 DEF ObjectOf
  <2> QED BY <2>3, <2>4
<1>7. \A k \in Calls : (Begun(k)' <=> Begun(k)) /\ ~Creating(k) /\ ~Creating(k)'
  BY <1>1, <1>3 DEF Begun, Creating
<1>8. \A k \in 1..Len(plan) : InScope(k)' => InScope(k) /\ live' = live
  BY <1>1, <1>3 DEF InScope
<1> QED BY <1>1, <1>3, <1>4, <1>5, <1>6, <1>7, <1>8
-----------------------------------------------------------------------------
(* The parts of the invariant, case by case. *)

(* What a program asks for does not change. *)
LEMMA PlanKept ==
    ASSUME plan' = plan
    PROVE  \A k : TotalNr(k)' = TotalNr(k) /\ Cluster(k)' = Cluster(k) /\ (Starts(k)' <=> Starts(k))
BY DEF TotalNr, Cluster, Starts

(* What is known of an active thread's object. *)
LEMMA ActiveFacts ==
    ASSUME ThreadGroupInv, NEW t \in Threads, Active(t)
    PROVE  \E k \in Calls : /\ barrier_object[t[1]] = k /\ ObjectOf(t[1], k) /\ k \in live
                            /\ Gathering(k) \/ Passed(k)
                            /\ pc[t] \in {"init", "arrive"} => Gathering(k) /\ ~Passed(k)
                            /\ pc[t] \notin {"init", "arrive", "spin"} => Passed(k) /\ ~Gathering(k)
                            /\ pc[t] \in {"arrive", "spin", "release", "func"} <=> obj[t] # 0
                            /\ obj[t] \in {0, k}
<1>1. t[1] \in Groups /\ t \in Members(t[1])
  BY Names
<1>2. GroupOK(t[1]) /\ barrier_object[t[1]] \in Calls \union {0} /\ barrier_object[t[1]] \in live
  BY <1>1 DEF ThreadGroupInv, GroupState, TypeOK, ThreadTypeOK, LiveState
<1>3. PICK k \in Calls : barrier_object[t[1]] = k
  BY <1>1, <1>2 DEF GroupOK
<1>4. ObjectOf(t[1], k)
  BY <1>2, <1>3 DEF GroupOK
<1>5. Gathering(k) \/ Passed(k)
  BY <1>3 DEF ThreadGroupInv, BarrierState, BarrierOK
<1>6. ThreadOK(t)
  BY DEF ThreadGroupInv, ThreadState
<1>7. pc[t] \in {"init", "arrive"} => ~Passed(k)
  BY <1>1, <1>4 DEF Passed, ObjectOf
<1>8. pc[t] \notin {"init", "arrive", "spin"} => ~Gathering(k)
  BY <1>3 DEF Gathering
<1>9. obj[t] \in {0, k} /\ (pc[t] \in {"arrive", "spin", "release", "func"} <=> obj[t] # 0)
  BY <1>3, <1>6 DEF ThreadOK
<1> QED BY <1>2, <1>3, <1>4, <1>5, <1>7, <1>8, <1>9

(* A group that is reaped has a share in an asynchronous call's object,    *)
(* and its threads have been through the barrier.                          *)
LEMMA ReapFacts ==
    ASSUME ThreadGroupInv, NEW g \in Groups, NEW k \in Calls, Reaps(g, k)
    PROVE  /\ k \in 1..Len(plan) /\ plan[k].op = "async" /\ Begun(k) /\ ~Gathering(k)
           /\ k \notin {0} /\ barrier_object \in [Groups -> Calls \union {0}]
           /\ Shares(k)' = Shares(k) \ Members(g) /\ IsFiniteSet(Shares(k)')
           /\ refcount'[k] = Cardinality(Shares(k)') /\ refcount'[k] \in Nat
           /\ \A c \in Calls : c # k => refcount'[c] = refcount[c]
           /\ refcount' \in [Calls -> Nat]
<1>1. /\ TypeOK /\ GroupOK(g) /\ nr_exited[g] = Cardinality(Exited(g))
  BY DEF ThreadGroupInv, GroupState, ExitState
<1>2. ObjectOf(g, k)
  BY <1>1 DEF Reaps, GroupOK
<1>3. /\ IsFiniteSet(Members(g)) /\ Cardinality(Members(g)) = Nr[g] /\ Nr[g] \in Nat \ {0}
      /\ IsFiniteSet(Threads) /\ \A t \in Members(g) : t \in Threads /\ t[1] = g
      /\ \A t \in Threads : t[1] \in Groups /\ t \in Members(t[1])
      /\ k \in Nat \ {0}
  BY Names
<1>4. Exited(g) = Members(g)
  BY <1>1, <1>3, FS_Subset DEF Reaps, Exited
<1>5. PICK t \in Members(g) : TRUE
  BY Names
<1>6. plan[k].op = "async"
  BY <1>2, <1>4, <1>5 DEF ObjectOf, Exited
<1>7. ~Gathering(k)
  BY <1>3, <1>5 DEF Reaps, Gathering
<1>8. /\ barrier_object \in [Groups -> Calls \union {0}] /\ refcount \in [Calls -> Nat]
  BY <1>1 DEF TypeOK, ThreadTypeOK
<1>9. /\ k \in 1..Len(plan) /\ Begun(k) /\ ~Pending(g, k)
  BY <1>2 DEF ObjectOf
<1>10. \A x \in Groups : Pending(x, k)' <=> Pending(x, k)
  BY <1>9 DEF Reaps, Same
<1>11. Shares(k)' = Shares(k) \ Members(g)
  <2>1. ASSUME NEW u \in Threads PROVE u \in Shares(k)' <=> u \in Shares(k) /\ u \notin Members(g)
    <3>1. CASE u[1] = g
      BY <1>3, <1>8, <1>9, <1>10, <3>1 DEF Shares, Reaps
    <3>2. CASE u[1] # g
      BY <1>3, <1>8, <1>10, <3>2 DEF Shares, Reaps
    <3> QED BY <3>1, <3>2
  <2> QED BY <2>1 DEF Shares
<1>12. IsFiniteSet(Shares(k)) /\ refcount[k] = Cardinality(Shares(k))
  BY <1>3, <1>6, <1>9, FS_Subset DEF Shares, ThreadGroupInv, ShareState, ShareOK
<1>13. Members(g) = Shares(k) \cap Members(g)
  BY <1>3 DEF Reaps, Shares
<1>14. /\ IsFiniteSet(Shares(k)')
       /\ Cardinality(Shares(k)') = Cardinality(Shares(k)) - Nr[g]
  <2> DEFINE S == Shares(k)
             M == Members(g)
  <2>1. Shares(k)' = S \ M /\ M = S \cap M /\ IsFiniteSet(S) /\ Cardinality(M) = Nr[g]
    BY <1>3, <1>11, <1>12, <1>13
  <2> HIDE DEF S, M
  <2>2. IsFiniteSet(S \ M) /\ Cardinality(S \ M) = Cardinality(S) - Cardinality(S \cap M)
    BY <2>1, FS_Difference
  <2>3. Cardinality(S \ M) = Cardinality(S) - Nr[g]
    BY <2>1, <2>2
  <2> QED BY <2>1, <2>2, <2>3 DEF S
<1>15. refcount'[k] = Cardinality(Shares(k)') /\ \A c \in Calls : c # k => refcount'[c] = refcount[c]
  BY <1>8, <1>12, <1>14 DEF Reaps
<1>16. refcount'[k] \in Nat
  BY <1>14, <1>15, FS_CardinalityType
<1>17. refcount' \in [Calls -> Nat]
  BY <1>8, <1>15, <1>16 DEF Reaps
<1> QED BY <1>3, <1>6, <1>7, <1>8, <1>9, <1>11, <1>14, <1>15, <1>16, <1>17

(* The refcount stays a number, and with it all types are kept. *)
LEMMA TypeStep ==
    ASSUME ThreadGroupInv, [Next]_vars
    PROVE  TypeOK'
<1>1. MainTypeOK' /\ ThreadTypeOK'
  BY MainTypeStep, ThreadTypeStep DEF ThreadGroupInv, TypeOK
<1>2. refcount \in [Calls -> Nat]
  BY DEF ThreadGroupInv, TypeOK
<1>3. ASSUME mthpc_thread_run_begin PROVE refcount' \in [Calls -> Nat]
  <2>1. TotalNr(call) \in Nat
    BY Names, FS_Subset, FS_CardinalityType DEF TotalNr
  <2> QED BY <1>2, <1>3, <2>1, BeginFacts
<1>4. ASSUME NEW g \in Groups, NEW k \in Calls, Reaps(g, k) PROVE refcount' \in [Calls -> Nat]
  BY <1>4, ReapFacts
<1>5. ASSUME refcount' = refcount PROVE refcount' \in [Calls -> Nat]
  BY <1>2, <1>5
<1>6. refcount' \in [Calls -> Nat]
  BY <1>3, <1>4, <1>5, StepCases
     DEF Quiet, Loads, Arrives, Goes, objVars, mthpc_thread_run_create, mthpc_thread_run_join
<1> QED BY <1>1, <1>6 DEF TypeOK

(* Where each thread is in the barrier. *)
LEMMA ThreadStateStep ==
    ASSUME AsyncOnce, ThreadGroupInv, [Next]_vars
    PROVE  ThreadState'
<1> SUFFICES ASSUME NEW u \in Threads PROVE ThreadOK(u)'
  BY DEF ThreadState
<1>a. /\ ThreadTypeOK /\ ThreadOK(u) /\ u[1] \in Groups /\ u \in Members(u[1])
      /\ \A k \in Calls : k # 0
  BY Names DEF ThreadGroupInv, TypeOK, ThreadState
<1>b. ASSUME plan' = plan, UNCHANGED <<barrier_object, entry, pc, obj, n>> PROVE ThreadOK(u)'
  BY <1>a, <1>b, PlanKept DEF ThreadOK
<1>c. ASSUME plan' = plan, UNCHANGED <<entry, barrier_object>>,
             pc'[u] = pc[u], obj'[u] = obj[u], n'[u] = n[u]
      PROVE  ThreadOK(u)'
  BY <1>a, <1>c, PlanKept DEF ThreadOK
<1>1. ASSUME Quiet PROVE ThreadOK(u)'
  BY <1>1, <1>b DEF Quiet, Same
<1>2. ASSUME mthpc_thread_run_begin PROVE ThreadOK(u)'
  BY <1>2, <1>b, BeginFacts
<1>3. ASSUME mthpc_thread_run_create PROVE ThreadOK(u)'
  <2>1. CASE u[1] = Current
    <3>1. /\ ~Active(u) /\ pc'[u] = "init" /\ obj' = obj
      BY <1>3, <1>a, <2>1, CreateFacts
    <3> QED BY <1>a, <3>1 DEF ThreadOK, Active
  <2>2. CASE u[1] # Current
    <3>1. /\ plan' = plan /\ pc'[u] = pc[u] /\ entry'[u] = entry[u]
          /\ UNCHANGED <<obj, n>> /\ barrier_object'[u[1]] = barrier_object[u[1]]
      BY <1>3, <1>a, <2>2, CreateFacts DEF ThreadTypeOK
    <3> QED BY <1>a, <3>1, PlanKept DEF ThreadOK
  <2> QED BY <2>1, <2>2
<1>4. ASSUME mthpc_thread_run_join PROVE ThreadOK(u)'
  BY <1>4, <1>b, JoinFacts
<1>5. ASSUME NEW g \in Groups, NEW k \in Calls, Reaps(g, k) PROVE ThreadOK(u)'
  <2>1. plan' = plan /\ UNCHANGED <<entry, pc, obj, n>>
    BY <1>5 DEF Reaps, Same
  <2>2. obj[u] # 0 => barrier_object'[u[1]] = barrier_object[u[1]]
    BY <1>5, <1>a DEF Reaps, ThreadOK, ThreadTypeOK
  <2> QED BY <1>a, <2>1, <2>2, PlanKept DEF ThreadOK
<1>6. ASSUME NEW t \in Threads, NEW k \in Calls, Loads(t, k) PROVE ThreadOK(u)'
  <2>1. CASE u = t
    <3>1. Gathering(k)
      <4>1. Active(t) /\ pc[t] = "init" /\ barrier_object[t[1]] = k
        BY <1>6 DEF Loads, Active
      <4>2. PICK c \in Calls : /\ barrier_object[t[1]] = c /\ ObjectOf(t[1], c) /\ c \in live
                               /\ Gathering(c) \/ Passed(c)
                               /\ pc[t] \in {"init", "arrive"} => Gathering(c) /\ ~Passed(c)
        BY <4>1, ActiveFacts
      <4>3. c = k
        BY <4>1, <4>2
      <4> QED BY <4>1, <4>2, <4>3
    <3>2. /\ plan' = plan /\ pc'[u] = "arrive" /\ obj'[u] = k /\ n'[u] = TotalNr(k)
          /\ barrier_object'[u[1]] = k
      BY <1>6, <1>a, <2>1, <3>1 DEF Loads, Same, ThreadTypeOK, Gathering
    <3> QED BY <1>a, <3>2, PlanKept DEF ThreadOK
  <2>2. CASE u # t
    BY <1>6, <1>a, <1>c, <2>2 DEF Loads, Same, ThreadTypeOK
  <2> QED BY <2>1, <2>2
<1>7. ASSUME NEW t \in Threads, NEW k \in Calls, Arrives(t, k) PROVE ThreadOK(u)'
  <2>1. CASE u = t
    <3>1. /\ plan' = plan /\ pc'[u] \in {"spin", "release", "func"} /\ obj'[u] = obj[u]
          /\ pc[u] = "arrive" /\ barrier_object'[u[1]] = barrier_object[u[1]]
      BY <1>7, <1>a, <2>1 DEF Arrives, Same, ThreadTypeOK
    <3> QED BY <1>a, <3>1 DEF ThreadOK
  <2>2. CASE u # t
    BY <1>7, <1>a, <1>c, <2>2 DEF Arrives, Same, ThreadTypeOK
  <2> QED BY <2>1, <2>2
<1>8. ASSUME NEW t \in Threads, NEW p, Goes(t, p) PROVE ThreadOK(u)'
  <2>1. CASE u = t
    <3>1. /\ plan' = plan /\ pc'[u] = p /\ barrier_object'[u[1]] = barrier_object[u[1]]
          /\ entry' = entry
          /\ \/ pc[u] \in {"spin", "release"} /\ p = "func" /\ obj'[u] = obj[u]
             \/ /\ pc[u] = "func" /\ p = IF entry[u] = "async" THEN "cleanup" ELSE "dead"
                /\ obj'[u] = 0
             \/ pc[u] = "cleanup" /\ p = "exit" /\ obj'[u] = obj[u]
             \/ pc[u] = "exit" /\ p = "dead" /\ obj'[u] = obj[u]
      BY <1>8, <1>a, <2>1 DEF Goes, Same, ThreadTypeOK
    <3> QED BY <1>a, <3>1 DEF ThreadOK
  <2>2. CASE u # t
    BY <1>8, <1>a, <1>c, <2>2 DEF Goes, Same, ThreadTypeOK
  <2> QED BY <2>1, <2>2
<1> QED BY <1>1, <1>2, <1>3, <1>4, <1>5, <1>6, <1>7, <1>8, StepCases

(* The steps that only take a thread further. *)
Moves ==
    \/ Quiet
    \/ \E t \in Threads, k \in Calls : Loads(t, k) \/ Arrives(t, k)
    \/ \E t \in Threads : \E p : Goes(t, p)

(* They create no thread, and an active one stays active or dies. *)
LEMMA MoveFacts ==
    ASSUME ThreadGroupInv, Moves
    PROVE  /\ Same /\ UNCHANGED <<entry, barrier_object, refcount, live>>
           /\ \A u \in Threads : /\ pc[u] # "none" => pc'[u] # "none"
                                 /\ Active(u)' => Active(u)
<1>a. pc \in [Threads -> {"none", "init", "arrive", "spin", "release", "func",
                         "cleanup", "exit", "dead"}]
  BY DEF ThreadGroupInv, TypeOK, ThreadTypeOK
<1>1. ASSUME Quiet
      PROVE  /\ Same /\ UNCHANGED <<entry, barrier_object, refcount, live>>
             /\ pc' = pc
  BY <1>1 DEF Quiet, objVars
<1>2. ASSUME NEW t \in Threads, NEW k \in Calls, Loads(t, k)
      PROVE  /\ Same /\ UNCHANGED <<entry, barrier_object, refcount, live>>
             /\ pc' = [pc EXCEPT ![t] = "arrive"] /\ Active(t)
  BY <1>2 DEF Loads, objVars, Active
<1>3. ASSUME NEW t \in Threads, NEW k \in Calls, Arrives(t, k)
      PROVE  /\ Same /\ UNCHANGED <<entry, barrier_object, refcount, live>>
             /\ \E p \in {"release", "spin", "func"} : pc' = [pc EXCEPT ![t] = p]
             /\ Active(t)
  BY <1>3 DEF Arrives, Active
<1>4. ASSUME NEW t \in Threads, NEW p, Goes(t, p)
      PROVE  /\ Same /\ UNCHANGED <<entry, barrier_object, refcount, live>>
             /\ pc' = [pc EXCEPT ![t] = p] /\ p # "none"
             /\ Active(t)
  BY <1>4 DEF Goes, Active
<1>5. /\ Same /\ UNCHANGED <<entry, barrier_object, refcount, live>>
  BY <1>1, <1>2, <1>3, <1>4 DEF Moves
<1>6. ASSUME NEW u \in Threads
      PROVE  /\ pc[u] # "none" => pc'[u] # "none"
             /\ Active(u)' => Active(u)
  BY <1>a, <1>1, <1>2, <1>3, <1>4 DEF Moves, Active
<1> QED BY <1>5, <1>6

(* A group's object stays that of the call that created its threads. *)
LEMMA ObjectKept ==
    ASSUME NEW g \in Groups, NEW k \in Calls, ObjectOf(g, k), plan' = plan,
           Begun(k)', ~Pending(g, k)', plan[k].op = "run" => (Joined(g, k)' => Joined(g, k)),
           \A t \in Members(g) : /\ pc[t] # "none" => pc'[t] # "none"
                                 /\ entry'[t] = entry[t] /\ (Active(t)' => Active(t))
    PROVE  ObjectOf(g, k)'
BY PlanKept DEF ObjectOf

LEMMA GroupStateStep ==
    ASSUME AsyncOnce, ThreadGroupInv, [Next]_vars
    PROVE  GroupState'
<1> SUFFICES ASSUME NEW x \in Groups PROVE GroupOK(x)'
  BY DEF GroupState
<1>a. /\ GroupOK(x) /\ barrier_object \in [Groups -> Calls \union {0}]
      /\ \A t \in Members(x) : t \in Threads /\ t[1] = x
      /\ \A k \in Calls : k # 0
  BY Names DEF ThreadGroupInv, GroupState, TypeOK, ThreadTypeOK
<1>b. ASSUME NEW k \in Calls, ObjectOf(x, k), Same,
             \A t \in Members(x) : /\ pc[t] # "none" => pc'[t] # "none"
                                   /\ entry'[t] = entry[t] /\ (Active(t)' => Active(t))
      PROVE  ObjectOf(x, k)'
  <2>1. k \in 1..Len(plan) /\ Starts(k) /\ Begun(k) /\ ~Pending(x, k)
    BY <1>b DEF ObjectOf
  <2>2. /\ plan' = plan /\ Begun(k)' /\ ~Pending(x, k)'
        /\ plan[k].op = "run" => (Joined(x, k)' => Joined(x, k))
    BY <1>b, <2>1 DEF Same
  <2> QED BY <1>b, <2>2, ObjectKept
<1>1. ASSUME Moves PROVE GroupOK(x)'
  <2>1. Same /\ UNCHANGED <<entry, barrier_object>>
    BY <1>1, MoveFacts
  <2>2. \A t \in Members(x) : /\ pc[t] # "none" => pc'[t] # "none"
                              /\ entry'[t] = entry[t] /\ (Active(t)' => Active(t))
    BY <1>1, <1>a, <2>1, MoveFacts
  <2> QED BY <1>a, <1>b, <2>1, <2>2 DEF GroupOK
<1>2. ASSUME mthpc_thread_run_begin PROVE GroupOK(x)'
  <2>1. UNCHANGED <<barrier_object, entry, pc>>
    BY <1>2, BeginFacts
  <2>2. ASSUME NEW k \in Calls, barrier_object[x] = k PROVE ObjectOf(x, k)'
    <3>1. ObjectOf(x, k) /\ k # call
      BY <1>2, <1>a, <2>2, BeginFacts DEF GroupOK
    <3>2. /\ plan' = plan /\ Begun(k)' /\ ~Pending(x, k)' /\ (Joined(x, k)' => Joined(x, k))
      BY <1>2, <3>1, BeginFacts DEF ObjectOf
    <3> QED BY <2>1, <3>1, <3>2, ObjectKept DEF Active
  <2> QED BY <1>a, <2>1, <2>2 DEF GroupOK, Active
<1>3. ASSUME mthpc_thread_run_create PROVE GroupOK(x)'
  <2>1. CASE x = Current
    <3>1. /\ call \in 1..Len(plan) /\ call \in Calls /\ Starts(call) /\ Begun(call) /\ plan' = plan
          /\ Creating(call) /\ Current \in Cluster(call)
          /\ barrier_object' = [barrier_object EXCEPT ![Current] = call]
          /\ \A t \in Threads : t[1] = Current => entry'[t] = plan[call].op /\ pc'[t] = "init"
      BY <1>3, CreateFacts
    <3>0. PICK c \in Calls : c = call
      BY <3>1
    <3>2. c \in 1..Len(plan) /\ x \in Cluster(c) /\ Starts(c) /\ Begun(c) /\ Creating(c)
      BY <2>1, <3>0, <3>1
    <3>3. Begun(c)' /\ ~Pending(x, c)' /\ ~Joined(x, c)'
      <4>1. call \in Nat
        BY PlanFacts DEF ThreadGroupInv, TypeOK
      <4>2. ~Joined(x, c)
        BY <3>2, <4>1 DEF Joined, Creating
      <4> QED BY <1>3, <2>1, <3>0, <3>2, <4>2, CreateFacts
    <3>4. barrier_object'[x] = c
      BY <1>a, <2>1, <3>0, <3>1
    <3>5. \A t \in Members(x) : pc'[t] = "init" /\ entry'[t] = plan[c].op
      BY <1>a, <2>1, <3>0, <3>1
    <3>6. plan' = plan
      BY <3>1
    <3>7. ObjectOf(x, c)'
      BY <3>2, <3>3, <3>5, <3>6, PlanKept DEF ObjectOf
    <3> QED BY <1>a, <3>4, <3>7 DEF GroupOK
  <2>2. CASE x # Current
    <3>1. barrier_object'[x] = barrier_object[x]
      BY <1>3, <1>a, <2>2, CreateFacts
    <3>2. \A t \in Members(x) : entry'[t] = entry[t] /\ pc'[t] = pc[t]
      BY <1>3, <1>a, <2>2, CreateFacts
    <3>3. ASSUME NEW k \in Calls, barrier_object[x] = k PROVE ObjectOf(x, k)'
      <4>1. ObjectOf(x, k)
        BY <1>a, <3>3 DEF GroupOK
      <4>2. /\ plan' = plan /\ Begun(k)' /\ ~Pending(x, k)' /\ (Joined(x, k)' => Joined(x, k))
        BY <1>3, <4>1, CreateFacts DEF ObjectOf
      <4> QED BY <3>2, <4>1, <4>2, ObjectKept DEF Active
    <3> QED BY <1>a, <3>1, <3>2, <3>3 DEF GroupOK, Active
  <2> QED BY <2>1, <2>2
<1>4. ASSUME mthpc_thread_run_join PROVE GroupOK(x)'
  <2>1. UNCHANGED <<barrier_object, entry, pc>> /\ plan' = plan
    BY <1>4, JoinFacts
  <2>2. ASSUME NEW k \in Calls, barrier_object[x] = k PROVE ObjectOf(x, k)'
    <3>1. ObjectOf(x, k)
      BY <1>a, <2>2 DEF GroupOK
    <3>2. Begun(k)' /\ ~Pending(x, k)'
      BY <1>4, <3>1, JoinFacts DEF ObjectOf
    <3>3. Joined(x, k)' => Joined(x, k) \/ \A t \in Members(x) : pc[t] = "dead"
      BY <1>4, <3>1, JoinFacts DEF ObjectOf
    <3> QED BY <2>1, <3>1, <3>2, <3>3, PlanKept DEF ObjectOf, Active
  <2> QED BY <1>a, <2>1, <2>2 DEF GroupOK, Active
<1>5. ASSUME NEW g \in Groups, NEW k \in Calls, Reaps(g, k) PROVE GroupOK(x)'
  <2>1. Same /\ UNCHANGED <<entry, pc>> /\ barrier_object' = [barrier_object EXCEPT ![g] = 0]
    BY <1>5 DEF Reaps
  <2>2. CASE x = g
    <3>1. barrier_object'[x] = 0 /\ \A t \in Members(x) : ~Active(t)'
      BY <1>5, <1>a, <2>1, <2>2 DEF Reaps, Active
    <3> QED BY <1>a, <3>1 DEF GroupOK
  <2>3. CASE x # g
    <3>1. barrier_object'[x] = barrier_object[x]
      BY <1>a, <2>1, <2>3
    <3>2. \A c \in Calls : ObjectOf(x, c) => ObjectOf(x, c)'
      BY <1>b, <2>1 DEF Active
    <3> QED BY <1>a, <2>1, <3>1, <3>2 DEF GroupOK, Active
  <2> QED BY <2>2, <2>3
<1> QED BY <1>1, <1>2, <1>3, <1>4, <1>5, StepCases DEF Moves

(* Threads that are through are counted, each once. *)
LEMMA ExitStateStep ==
    ASSUME AsyncOnce, ThreadGroupInv, [Next]_vars
    PROVE  ExitState'
<1>a. /\ ExitState /\ nr_exited \in [Groups -> Nat] /\ entry \in [Threads -> {"run", "async"}]
      /\ pc \in [Threads -> {"none", "init", "arrive", "spin", "release", "func",
                            "cleanup", "exit", "dead"}]
      /\ \A g \in Groups : \A t \in Members(g) : t \in Threads /\ t[1] = g
      /\ \A t \in Threads : t[1] \in Groups /\ t \in Members(t[1]) /\ ThreadOK(t)
      /\ \A g \in Groups : IsFiniteSet(Members(g))
  BY Names DEF ThreadGroupInv, TypeOK, ThreadTypeOK, ThreadState
<1>f. ASSUME NEW g \in Groups, FromAsync(g), plan' = plan,
             \A k \in 1..Len(plan) : plan[k].op = "async" /\ Begun(k) /\ ~Pending(g, k) =>
                                         Begun(k)' /\ ~Pending(g, k)'
      PROVE  FromAsync(g)'
  BY <1>f, PlanKept DEF FromAsync
<1>e. ASSUME NEW g \in Groups, nr_exited'[g] = nr_exited[g],
             \A t \in Members(g) : entry'[t] = "async" /\ pc'[t] \in {"exit", "dead"}
                                   <=> entry[t] = "async" /\ pc[t] \in {"exit", "dead"}
      PROVE  nr_exited'[g] = Cardinality(Exited(g)')
  <2>1. Exited(g)' = Exited(g)
    BY <1>e DEF Exited
  <2> QED BY <1>a, <1>e, <2>1 DEF ExitState
<1>s. ASSUME Same, NEW g \in Groups, FromAsync(g) PROVE FromAsync(g)'
  <2>1. \A k \in 1..Len(plan) : plan[k].op = "async" /\ Begun(k) /\ ~Pending(g, k) =>
                                    Begun(k)' /\ ~Pending(g, k)'
    BY <1>s DEF Same, Starts
  <2> QED BY <1>f, <1>s, <2>1 DEF Same
<1>1. ASSUME Same, UNCHANGED <<nr_exited, entry, pc>> PROVE ExitState'
  <2>1. \A t \in Threads : entry'[t] = "async" => FromAsync(t[1])'
    BY <1>1, <1>a, <1>s DEF ExitState
  <2>2. \A g \in Groups : nr_exited'[g] = Cardinality(Exited(g)')
    BY <1>1, <1>e
  <2> QED BY <2>1, <2>2 DEF ExitState
<1>2. ASSUME mthpc_thread_run_begin PROVE ExitState'
  <2>1. UNCHANGED <<nr_exited, entry, pc>> /\ plan' = plan
    BY <1>2, BeginFacts
  <2>2. ASSUME NEW t \in Threads, entry'[t] = "async" PROVE FromAsync(t[1])'
    <3>1. FromAsync(t[1]) /\ t[1] \in Groups
      BY <1>a, <2>1, <2>2 DEF ExitState
    <3>2. \A k \in 1..Len(plan) : k \in Calls
      BY PlanFacts DEF ThreadGroupInv, TypeOK
    <3>3. \A k \in 1..Len(plan) : plan[k].op = "async" /\ Begun(k) /\ ~Pending(t[1], k) =>
                                      Begun(k)' /\ ~Pending(t[1], k)'
      BY <1>2, <3>1, <3>2, BeginFacts
    <3> QED BY <1>f, <2>1, <3>1, <3>3
  <2>3. \A g \in Groups : nr_exited'[g] = Cardinality(Exited(g)')
    BY <2>1, <1>e
  <2> QED BY <2>2, <2>3 DEF ExitState
<1>3. ASSUME mthpc_thread_run_create PROVE ExitState'
  <2>1. /\ nr_exited' = nr_exited /\ plan' = plan /\ call \in 1..Len(plan) /\ call \in Calls
        /\ Starts(call) /\ Begun(call) /\ Current \in Groups /\ Current \in Cluster(call)
        /\ \A t \in Members(Current) : ~Active(t) /\ entry[t] = "run"
        /\ \A t \in Threads : /\ t[1] = Current => entry'[t] = plan[call].op /\ pc'[t] = "init"
                              /\ t[1] # Current => entry'[t] = entry[t] /\ pc'[t] = pc[t]
    BY <1>3, CreateFacts
  <2>2. \A k \in 1..Len(plan) : k \in Calls
    BY PlanFacts DEF ThreadGroupInv, TypeOK
  <2>3. ASSUME NEW t \in Threads, entry'[t] = "async" PROVE FromAsync(t[1])'
    <3>1. CASE t[1] = Current
      <4>1. PICK k \in 1..Len(plan) : k = call
        BY <2>1
      <4>2. plan[k].op = "async" /\ t[1] \in Cluster(k)
        BY <2>1, <2>3, <3>1, <4>1
      <4>3. Begun(k)' /\ ~Pending(t[1], k)'
        BY <1>3, <1>a, <2>1, <2>2, <3>1, <4>1, CreateFacts
      <4> QED BY <2>1, <4>2, <4>3, PlanKept DEF FromAsync
    <3>2. CASE t[1] # Current
      <4>1. FromAsync(t[1]) /\ t[1] \in Groups
        BY <1>a, <2>1, <2>3, <3>2 DEF ExitState
      <4>2. \A k \in 1..Len(plan) : plan[k].op = "async" /\ Begun(k) /\ ~Pending(t[1], k) =>
                                        Begun(k)' /\ ~Pending(t[1], k)'
        BY <1>3, <2>2, <4>1, CreateFacts
      <4> QED BY <1>f, <2>1, <4>1, <4>2
    <3> QED BY <3>1, <3>2
  <2>4. ASSUME NEW g \in Groups PROVE nr_exited'[g] = Cardinality(Exited(g)')
    <3>1. \A t \in Members(g) : entry'[t] = "async" /\ pc'[t] \in {"exit", "dead"}
                                <=> entry[t] = "async" /\ pc[t] \in {"exit", "dead"}
      BY <1>a, <2>1
    <3> QED BY <1>e, <2>1, <3>1
  <2> QED BY <2>3, <2>4 DEF ExitState
<1>4. ASSUME mthpc_thread_run_join PROVE ExitState'
  <2>1. UNCHANGED <<nr_exited, entry, pc>> /\ plan' = plan
    BY <1>4, JoinFacts
  <2>2. ASSUME NEW t \in Threads, entry'[t] = "async" PROVE FromAsync(t[1])'
    <3>1. FromAsync(t[1]) /\ t[1] \in Groups
      BY <1>a, <2>1, <2>2 DEF ExitState
    <3>2. \A k \in 1..Len(plan) : k \in Calls
      BY PlanFacts DEF ThreadGroupInv, TypeOK
    <3>3. \A k \in 1..Len(plan) : plan[k].op = "async" /\ Begun(k) /\ ~Pending(t[1], k) =>
                                      Begun(k)' /\ ~Pending(t[1], k)'
      BY <1>4, <3>1, <3>2, JoinFacts
    <3> QED BY <1>f, <2>1, <3>1, <3>3
  <2>3. \A g \in Groups : nr_exited'[g] = Cardinality(Exited(g)')
    BY <2>1, <1>e
  <2> QED BY <2>2, <2>3 DEF ExitState
<1>5. ASSUME NEW g \in Groups, NEW k \in Calls, Reaps(g, k) PROVE ExitState'
  BY <1>1, <1>5 DEF Reaps
<1>6. ASSUME NEW t \in Threads, Same, UNCHANGED <<entry, nr_exited>>, NEW p,
             pc' = [pc EXCEPT ![t] = p],
             entry[t] = "async" => (pc[t] \in {"exit", "dead"} <=> p \in {"exit", "dead"})
      PROVE  ExitState'
  <2>1. \A u \in Threads : entry'[u] = "async" => FromAsync(u[1])'
    BY <1>6, <1>a, <1>s DEF ExitState
  <2>2. \A g \in Groups : nr_exited'[g] = Cardinality(Exited(g)')
    <3>1. \A u \in Threads : entry'[u] = "async" /\ pc'[u] \in {"exit", "dead"}
                             <=> entry[u] = "async" /\ pc[u] \in {"exit", "dead"}
      BY <1>6, <1>a
    <3> QED BY <1>6, <1>a, <1>e, <3>1
  <2> QED BY <2>1, <2>2 DEF ExitState
<1>7. ASSUME NEW t \in Threads, NEW k \in Calls, Loads(t, k) \/ Arrives(t, k) PROVE ExitState'
  <2>1. Same /\ UNCHANGED <<entry, nr_exited>> /\ pc[t] \in {"init", "arrive"}
    BY <1>7 DEF Loads, Arrives
  <2>2. \E p \in {"arrive", "release", "spin", "func"} : pc' = [pc EXCEPT ![t] = p]
    BY <1>7 DEF Loads, Arrives
  <2> QED BY <1>6, <2>1, <2>2
<1>8. ASSUME NEW t \in Threads, NEW p, Goes(t, p) PROVE ExitState'
  <2>1. Same /\ entry' = entry /\ pc' = [pc EXCEPT ![t] = p]
    BY <1>8 DEF Goes
  <2>2. CASE pc[t] # "cleanup"
    <3>1. /\ nr_exited' = nr_exited
          /\ entry[t] = "async" => (pc[t] \in {"exit", "dead"} <=> p \in {"exit", "dead"})
      BY <1>8, <2>2 DEF Goes
    <3> QED BY <1>6, <2>1, <3>1
  <2>3. CASE pc[t] = "cleanup"
    <3>1. p = "exit" /\ nr_exited' = [nr_exited EXCEPT ![t[1]] = @ + 1] /\ entry[t] = "async"
      BY <1>8, <1>a, <2>3 DEF Goes, ThreadOK
    <3>2. \A u \in Threads : entry'[u] = "async" => FromAsync(u[1])'
      BY <1>a, <1>s, <2>1 DEF ExitState
    <3>3. ASSUME NEW g \in Groups PROVE nr_exited'[g] = Cardinality(Exited(g)')
      <4>1. CASE g # t[1]
        <5>1. \A u \in Members(g) : pc'[u] = pc[u]
          BY <1>a, <2>1, <4>1
        <5> QED BY <1>a, <1>e, <2>1, <3>1, <4>1, <5>1
      <4>2. CASE g = t[1]
        <5>1. Exited(g)' = Exited(g) \union {t} /\ t \notin Exited(g)
          BY <1>a, <2>1, <2>3, <3>1, <4>2 DEF Exited
        <5>2. IsFiniteSet(Exited(g))
          BY <1>a, FS_Subset DEF Exited
        <5> DEFINE E == Exited(g)
        <5>3. Exited(g)' = E \union {t} /\ t \notin E /\ IsFiniteSet(E)
          BY <5>1, <5>2
        <5>4. nr_exited[g] = Cardinality(E) /\ nr_exited'[g] = nr_exited[g] + 1
          BY <1>a, <3>1, <4>2 DEF ExitState
        <5> HIDE DEF E
        <5>5. Cardinality(E \union {t}) = Cardinality(E) + 1
          BY <5>3, FS_AddElement
        <5> QED BY <5>3, <5>4, <5>5
      <4> QED BY <4>1, <4>2
    <3> QED BY <3>2, <3>3 DEF ExitState
  <2> QED BY <2>2, <2>3
<1> QED BY <1>1, <1>2, <1>3, <1>4, <1>5, <1>7, <1>8, StepCases DEF Quiet

(* The refcount of an asynchronous call's object is what its groups have.  *)
LEMMA ShareStateStep ==
    ASSUME AsyncOnce, ThreadGroupInv, [Next]_vars
    PROVE  ShareState'
<1>a. /\ ShareState /\ MainTypeOK /\ barrier_object \in [Groups -> Calls \union {0}]
      /\ refcount \in [Calls -> Nat] /\ call \in Nat
      /\ \A g \in Groups : Nr[g] \in Nat \ {0}
      /\ \A t \in Threads : t[1] \in Groups
      /\ \A k \in Calls : k # 0
      /\ \A k \in 1..Len(plan) : k \in Calls
  BY Names, PlanFacts DEF ThreadGroupInv, TypeOK, ThreadTypeOK
<1> SUFFICES ASSUME plan' = plan, NEW k \in 1..Len(plan) PROVE ShareOK(k)'
  <2>1. plan' = plan
    BY StepCases, MoveFacts, BeginFacts, CreateFacts, JoinFacts DEF Moves, Reaps, Same
  <2> QED BY <2>1 DEF ShareState
<1>k. k \in Calls /\ ShareOK(k)
  BY <1>a DEF ShareState
<1>s. ASSUME \A t \in Threads : t \in Shares(k)' <=> t \in Shares(k),
             plan[k].op = "async" => (Begun(k)' => Begun(k)),
             InScope(k)' => InScope(k) /\ (k \in live => k \in live'),
             plan[k].op = "async" => refcount'[k] = refcount[k] /\ (k \in live' <=> k \in live)
      PROVE  ShareOK(k)'
  <2>1. Shares(k)' = Shares(k)
    BY <1>s DEF Shares
  <2> QED BY <1>k, <1>s, <2>1, PlanKept DEF ShareOK
<1>1. ASSUME Moves PROVE ShareOK(k)'
  <2>1. Same /\ UNCHANGED <<barrier_object, refcount, live>>
    BY <1>1, MoveFacts
  <2>2. \A t \in Threads : t \in Shares(k)' <=> t \in Shares(k)
    BY <1>a, <2>1 DEF Shares, Same
  <2> QED BY <1>s, <2>1, <2>2 DEF Same, Starts
<1>2. ASSUME mthpc_thread_run_begin PROVE ShareOK(k)'
  <2>1. CASE k = call
    <3> DEFINE S == {t \in Threads : t[1] \in Cluster(k)}
    <3>1. refcount'[k] = Cardinality(S) /\ k \in live'
      BY <1>2, <1>a, <1>k, <2>1, BeginFacts DEF TotalNr, Cluster
    <3>2. Shares(k)' = S
      <4>1. \A t \in Threads : barrier_object'[t[1]] # k /\ (Pending(t[1], k)' <=> t[1] \in Cluster(k))
        BY <1>2, <1>a, <2>1, BeginFacts
      <4> QED BY <4>1 DEF Shares
    <3>3. \E t : t \in S
      <4>1. plan[k].groups[1] \in Cluster(k) /\ plan[k].groups[1] \in Groups
        BY <1>a, PlanFacts
      <4> QED BY <4>1, Names
    <3>4. IsFiniteSet(S)
      BY Names, FS_Subset
    <3> HIDE DEF S
    <3>5. Cardinality(S) \in Nat /\ Cardinality(S) # 0
      BY <3>3, <3>4, FS_EmptySet, FS_CardinalityType
    <3> QED BY <3>1, <3>2, <3>5 DEF ShareOK
  <2>2. CASE k # call
    <3>1. /\ refcount'[k] = refcount[k] /\ (k \in live' <=> k \in live) /\ barrier_object' = barrier_object
          /\ (Begun(k)' <=> Begun(k)) /\ ~InScope(k)'
          /\ \A g \in Groups : ~Pending(g, k) /\ ~Pending(g, k)'
      BY <1>2, <1>a, <1>k, <2>2, BeginFacts
    <3>2. \A t \in Threads : t \in Shares(k)' <=> t \in Shares(k)
      BY <1>a, <3>1 DEF Shares
    <3> QED BY <1>s, <3>1, <3>2
  <2> QED BY <2>1, <2>2
<1>3. ASSUME mthpc_thread_run_create PROVE ShareOK(k)'
  <2>1. /\ refcount' = refcount /\ live' = live
        /\ barrier_object' = [barrier_object EXCEPT ![Current] = call]
        /\ (Begun(k)' <=> Begun(k)) /\ (InScope(k)' => InScope(k))
        /\ \A g \in Groups : Pending(g, k)' <=> Pending(g, k) /\ ~(k = call /\ g = Current)
        /\ Current \in Groups /\ Pending(Current, call) /\ Current \in Cluster(call)
        /\ plan[k].op = "async" => barrier_object[Current] # k
    BY <1>3, <1>k, CreateFacts DEF objVars
  <2>2. CASE plan[k].op = "async"
    <3>1. ASSUME NEW t \in Threads PROVE t \in Shares(k)' <=> t \in Shares(k)
      <4>1. CASE t[1] = Current /\ k = call
        BY <1>a, <2>1, <4>1 DEF Shares
      <4>2. CASE t[1] = Current /\ k # call
        BY <1>a, <2>1, <2>2, <4>2 DEF Shares
      <4>3. CASE t[1] # Current
        BY <1>a, <2>1, <4>3 DEF Shares
      <4> QED BY <4>1, <4>2, <4>3
    <3> QED BY <1>s, <2>1, <3>1
  <2>3. CASE plan[k].op # "async"
    BY <1>k, <2>1, <2>3, PlanKept DEF ShareOK
  <2> QED BY <2>2, <2>3
<1>4. ASSUME mthpc_thread_run_join PROVE ShareOK(k)'
  <2>1. /\ barrier_object' = barrier_object /\ refcount' = refcount
        /\ (Begun(k)' <=> Begun(k)) /\ (InScope(k)' => InScope(k) /\ live' = live)
        /\ \A g \in Groups : ~Pending(g, k) /\ ~Pending(g, k)'
        /\ plan[call].op = "run" /\ (live' = live \/ live' = live \ {call})
    BY <1>4, <1>k, JoinFacts
  <2>2. \A t \in Threads : t \in Shares(k)' <=> t \in Shares(k)
    BY <1>a, <2>1 DEF Shares
  <2> QED BY <1>s, <2>1, <2>2
<1>5. ASSUME NEW g \in Groups, NEW c \in Calls, Reaps(g, c) PROVE ShareOK(k)'
  <2>1. /\ Same /\ barrier_object' = [barrier_object EXCEPT ![g] = 0] /\ barrier_object[g] = c
        /\ refcount' = [refcount EXCEPT ![c] = @ - Nr[g]]
        /\ live' = IF refcount'[c] = 0 THEN live \ {c} ELSE live
    BY <1>5 DEF Reaps
  <2>2. InScope(k)' => InScope(k)
    BY <2>1 DEF Same
  <2>3. CASE k = c
    <3>1. /\ plan[k].op = "async" /\ Begun(k) /\ refcount'[k] = Cardinality(Shares(k)')
          /\ refcount'[k] \in Nat
      BY <1>5, <2>3, ReapFacts
    <3>2. refcount[k] > 0 /\ k \in live
      <4>1. refcount[k] \in Nat /\ Nr[g] \in Nat \ {0} /\ refcount'[k] = refcount[k] - Nr[g]
        BY <1>a, <1>k, <2>1, <2>3
      <4> QED BY <1>k, <3>1, <4>1 DEF ShareOK
    <3>3. ~InScope(k)'
      BY <2>2, <3>1 DEF InScope
    <3> QED BY <2>1, <2>3, <3>1, <3>2, <3>3 DEF ShareOK
  <2>4. CASE k # c
    <3>1. refcount'[k] = refcount[k] /\ (k \in live' <=> k \in live)
      BY <1>a, <1>k, <2>1, <2>4
    <3>2. \A t \in Threads : t \in Shares(k)' <=> t \in Shares(k)
      BY <1>a, <2>1, <2>4 DEF Shares, Same
    <3> QED BY <1>s, <2>1, <2>2, <3>1, <3>2 DEF Same, Starts
  <2> QED BY <2>3, <2>4
<1> QED BY <1>1, <1>2, <1>3, <1>4, <1>5, StepCases DEF Moves

(* An active thread's object is not freed. *)
LEMMA LiveStateStep ==
    ASSUME AsyncOnce, ThreadGroupInv, [Next]_vars
    PROVE  LiveState'
<1> SUFFICES ASSUME NEW t \in Threads, Active(t)' PROVE (barrier_object[t[1]] \in live)'
  BY DEF LiveState
<1>a. /\ Active(t) => barrier_object[t[1]] \in live
      /\ barrier_object \in [Groups -> Calls \union {0}]
      /\ t[1] \in Groups /\ t \in Members(t[1])
      /\ \A k \in Calls : k # 0
  BY Names DEF ThreadGroupInv, TypeOK, ThreadTypeOK, LiveState
<1>1. ASSUME Moves PROVE (barrier_object[t[1]] \in live)'
  BY <1>1, <1>a, MoveFacts
<1>2. ASSUME mthpc_thread_run_begin PROVE (barrier_object[t[1]] \in live)'
  BY <1>2, <1>a, BeginFacts DEF Active
<1>3. ASSUME mthpc_thread_run_create PROVE (barrier_object[t[1]] \in live)'
  <2>1. /\ barrier_object' = [barrier_object EXCEPT ![Current] = call] /\ live' = live
        /\ t[1] # Current => pc'[t] = pc[t]
        /\ call \in 1..Len(plan) /\ Begun(call) /\ Starts(call) /\ Pending(Current, call)
        /\ mpc = "create" /\ Current \in Groups
    BY <1>3, CreateFacts DEF objVars, mthpc_thread_run_create
  <2>2. CASE t[1] # Current
    BY <1>a, <2>1, <2>2 DEF Active
  <2>3. CASE t[1] = Current
    <3>1. barrier_object'[t[1]] = call /\ ShareOK(call)
      BY <1>a, <2>1, <2>3 DEF ThreadGroupInv, ShareState
    <3>2. CASE plan[call].op = "run"
      BY <2>1, <3>1, <3>2 DEF ShareOK, InScope
    <3>3. CASE plan[call].op = "async"
      <4>1. t \in Shares(call) /\ IsFiniteSet(Shares(call))
        BY <2>1, <2>3, Names, FS_Subset DEF Shares
      <4>2. Cardinality(Shares(call)) \in Nat /\ Cardinality(Shares(call)) # 0
        BY <4>1, FS_EmptySet, FS_CardinalityType
      <4> QED BY <2>1, <3>1, <3>3, <4>2 DEF ShareOK
    <3> QED BY <2>1, <3>2, <3>3 DEF Starts
  <2> QED BY <2>2, <2>3
<1>4. ASSUME mthpc_thread_run_join PROVE (barrier_object[t[1]] \in live)'
  BY <1>4, <1>a, JoinFacts DEF Active
<1>5. ASSUME NEW g \in Groups, NEW k \in Calls, Reaps(g, k)
      PROVE  (barrier_object[t[1]] \in live)'
  <2>1. /\ barrier_object' = [barrier_object EXCEPT ![g] = 0] /\ pc' = pc
        /\ live' = IF refcount'[k] = 0 THEN live \ {k} ELSE live
        /\ \A u \in Members(g) : pc[u] = "dead"
    BY <1>5 DEF Reaps
  <2>2. t[1] # g /\ Active(t) /\ barrier_object'[t[1]] = barrier_object[t[1]]
    BY <1>a, <2>1 DEF Active
  <2>3. CASE barrier_object[t[1]] = k
    <3>1. t \in Shares(k)'
      BY <2>2, <2>3 DEF Shares
    <3>2. IsFiniteSet(Shares(k)') /\ refcount'[k] = Cardinality(Shares(k)')
      BY <1>5, ReapFacts
    <3> DEFINE S == Shares(k)'
    <3>3. t \in S /\ IsFiniteSet(S) /\ refcount'[k] = Cardinality(S)
      BY <3>1, <3>2
    <3> HIDE DEF S
    <3>4. Cardinality(S) # 0
      BY <3>3, FS_EmptySet
    <3> QED BY <1>a, <2>1, <2>2, <3>3, <3>4
  <2> QED BY <1>a, <2>1, <2>2, <2>3
<1> QED BY <1>1, <1>2, <1>3, <1>4, <1>5, StepCases DEF Moves

(* What leaves a barrier at which threads gather, or that all have passed, as it is. *)
LEMMA GatheringKept ==
    ASSUME plan' = plan, NEW k \in Calls, Gathering(k),
           flag'[k] = flag[k], count'[k] = count[k], refcount'[k] = refcount[k],
           \A u \in Threads : u \in Waiters(k)' <=> u \in Waiters(k),
           \A u \in Threads : barrier_object'[u[1]] = k => pc'[u] \in {"init", "arrive", "spin"}
    PROVE  Gathering(k)'
<1>1. Waiters(k)' = Waiters(k)
  BY DEF Waiters
<1> QED BY <1>1, PlanKept DEF Gathering

LEMMA PassedKept ==
    ASSUME plan' = plan, NEW k \in Calls, Passed(k),
           \A g \in Cluster(k) : barrier_object'[g] \in {barrier_object[g], 0},
           \A u \in Threads : u[1] \in Cluster(k) /\ pc[u] \notin {"none", "init", "arrive"} =>
                                  pc'[u] \notin {"none", "init", "arrive"}
    PROVE  Passed(k)'
<1>1. Cluster(k)' = Cluster(k)
  BY PlanKept
<1>2. ASSUME NEW g \in Cluster(k), NEW u \in Members(g)
      PROVE  pc'[u] \notin {"none", "init", "arrive"}
  BY <1>2 DEF Members, Passed
<1> QED BY <1>1, <1>2 DEF Passed

(* A thread that waits at the barrier of an object is one of the cluster.  *)
LEMMA WaiterFacts ==
    ASSUME ThreadGroupInv, NEW u \in Threads, NEW k \in Calls, obj[u] = k
    PROVE  /\ barrier_object[u[1]] = k /\ ObjectOf(u[1], k)
           /\ u[1] \in Cluster(k) /\ u[1] \in Groups
<1>1. u[1] \in Groups /\ k # 0
  BY Names
<1>2. barrier_object[u[1]] = k
  BY <1>1 DEF ThreadGroupInv, ThreadState, ThreadOK
<1>3. ObjectOf(u[1], k)
  BY <1>1, <1>2 DEF ThreadGroupInv, GroupState, GroupOK
<1> QED BY <1>1, <1>2, <1>3 DEF ObjectOf

(* A thread arrives: it waits, or it is the last one of the cluster. *)
LEMMA BarrierArrives ==
    ASSUME ThreadGroupInv, NEW t \in Threads, NEW c \in Calls, Arrives(t, c)
    PROVE  (Gathering(c)' \/ (Passed(c)' /\ ~Creating(c))) /\ Begun(c)
<1>1. /\ Same /\ pc[t] = "arrive" /\ obj[t] = c
      /\ count' = [count EXCEPT ![c] = IF count[c] + 1 = n[t] THEN 0 ELSE count[c] + 1]
      /\ pc' = [pc EXCEPT ![t] = IF count[c] + 1 = n[t] THEN "release"
                                 ELSE IF count[c] + 1 < n[t] THEN "spin" ELSE "func"]
      /\ UNCHANGED <<barrier_object, refcount, flag, obj>>
  BY DEF Arrives
<1>2. /\ pc \in [Threads -> {"none", "init", "arrive", "spin", "release", "func",
                            "cleanup", "exit", "dead"}]
      /\ count \in [Calls -> Nat] /\ GroupState /\ MainTypeOK /\ MainState
  BY DEF ThreadGroupInv, TypeOK, ThreadTypeOK
<1>3. barrier_object[t[1]] = c /\ ObjectOf(t[1], c) /\ t[1] \in Cluster(c) /\ c \in 1..Len(plan)
  BY <1>1, WaiterFacts DEF ObjectOf
<1>4. Gathering(c)
  <2>1. Active(t)
    BY <1>1 DEF Active
  <2> QED BY <1>1, <1>3, <2>1, ActiveFacts
<1>5. n[t] = TotalNr(c)
  BY <1>1 DEF ThreadGroupInv, ThreadState, ThreadOK
<1> DEFINE P == {u \in Threads : u[1] \in Cluster(c)}
           W == Waiters(c) \union {t}
<1>6. W \subseteq P /\ IsFiniteSet(P) /\ n[t] = Cardinality(P)
  <2>1. \A u \in Waiters(c) : u \in P
    BY WaiterFacts DEF Waiters
  <2>2. IsFiniteSet(P)
    BY Names, FS_Subset
  <2> QED BY <1>3, <1>5, <2>1, <2>2 DEF TotalNr, Cluster
<1>7. t \notin Waiters(c) /\ count[c] = Cardinality(Waiters(c))
  BY <1>1, <1>4 DEF Waiters, Gathering
<1>8. IsFiniteSet(W) /\ Cardinality(W) = count[c] + 1
  <2> DEFINE V == Waiters(c)
  <2>1. IsFiniteSet(V) /\ t \notin V /\ count[c] = Cardinality(V) /\ W = V \union {t}
    BY <1>6, <1>7, FS_Subset
  <2> HIDE DEF V, W
  <2> QED BY <2>1, FS_AddElement
<1>9. /\ count[c] + 1 <= n[t] /\ n[t] \in Nat /\ count[c] + 1 \in Nat
      /\ count[c] + 1 = n[t] => W = P
  <2> HIDE DEF P, W
  <2>1. Cardinality(W) <= Cardinality(P) /\ (Cardinality(W) = Cardinality(P) => W = P)
    BY <1>6, <1>8, FS_Subset
  <2> QED BY <1>2, <1>6, <1>8, <2>1, FS_CardinalityType
<1>10. plan' = plan
  BY <1>1 DEF Same
<1>11. CASE count[c] + 1 # n[t]
  <2>1. pc' = [pc EXCEPT ![t] = "spin"] /\ count'[c] = count[c] + 1
    <3>1. count[c] + 1 < n[t]
      <4> HIDE DEF W, P
      <4> QED BY <1>2, <1>9, <1>11
    <3>2. count' = [count EXCEPT ![c] = count[c] + 1]
      BY <1>1, <1>11
    <3>3. pc' = [pc EXCEPT ![t] = "spin"]
      BY <1>1, <1>11, <3>1
    <3> QED BY <1>2, <3>2, <3>3
  <2>2. Waiters(c)' = W
    BY <1>1, <1>2, <2>1 DEF Waiters
  <2>3. \A u \in Threads : barrier_object'[u[1]] = c => pc'[u] \in {"init", "arrive", "spin"}
    BY <1>1, <1>2, <1>4, <2>1 DEF Gathering
  <2>4. Gathering(c)'
    <3> HIDE DEF W
    <3> QED BY <1>1, <1>4, <1>8, <1>10, <2>1, <2>2, <2>3, PlanKept DEF Gathering
  <2> QED BY <1>3, <2>4 DEF ObjectOf
<1>12. CASE count[c] + 1 = n[t]
  <2>1. pc' = [pc EXCEPT ![t] = "release"]
    BY <1>1, <1>12
  <2>2. \A u \in Threads : u[1] \in Cluster(c) => u = t \/ (obj[u] = c /\ pc[u] = "spin")
    BY <1>9, <1>12 DEF Waiters
  <2>3. \A u \in Threads : u[1] \in Cluster(c) => barrier_object[u[1]] = c
    BY <1>1, <2>2, WaiterFacts
  <2>4. ASSUME NEW g \in Cluster(c) PROVE barrier_object[g] = c
    <3>1. g \in Groups
      BY <1>2, <1>3, PlanFacts
    <3>2. PICK u \in Members(g) : TRUE
      BY <3>1, Names
    <3>3. u \in Threads /\ u[1] = g
      BY <3>1, Names
    <3> QED BY <2>3, <3>3
  <2>5. ASSUME NEW g \in Cluster(c), NEW u \in Members(g) PROVE pc'[u] \in {"spin", "release"}
    <3>1. u \in Threads /\ u[1] \in Cluster(c)
      BY <2>5 DEF Members
    <3> QED BY <1>2, <2>1, <2>2, <3>1
  <2>6. Passed(c)'
    <3>1. Cluster(c)' = Cluster(c)
      BY <1>10, PlanKept
    <3> QED BY <1>1, <2>4, <2>5, <3>1 DEF Passed
  <2>7. ASSUME Creating(c) PROVE FALSE
    <3>1. c = call /\ mpc \in {"link", "create"}
      BY <2>7 DEF Creating
    <3>2. Current \in Groups /\ Current \in Cluster(c) /\ Pending(Current, c)
      BY <1>2, <3>1, CurrentFacts, PlanFacts DEF Pending, Creating
    <3>3. ObjectOf(Current, c)
      BY <1>2, <2>4, <3>2 DEF GroupState, GroupOK
    <3> QED BY <3>2, <3>3 DEF ObjectOf
  <2> QED BY <1>3, <2>6, <2>7 DEF ObjectOf
<1> QED BY <1>11, <1>12

(* A thread that goes on has been through the barrier with all others. *)
LEMMA GoerFacts ==
    ASSUME ThreadGroupInv, NEW t \in Threads, NEW p, Goes(t, p)
    PROVE  \E c \in Calls : /\ barrier_object[t[1]] = c /\ ObjectOf(t[1], c)
                            /\ Passed(c) /\ ~Gathering(c) /\ obj[t] \in {0, c}
                            /\ pc[t] \notin {"none", "init", "arrive"}
                            /\ p \notin {"none", "init", "arrive", "spin"}
                            /\ pc' = [pc EXCEPT ![t] = p]
                            /\ \A k \in Calls : k # c => flag'[k] = flag[k]
                            /\ \A u \in Threads : u # t => obj'[u] = obj[u]
                            /\ obj'[t] \in {0, c}
<1>1. /\ pc' = [pc EXCEPT ![t] = p] /\ pc[t] \in {"release", "spin", "func", "cleanup", "exit"}
      /\ p \in {"func", "cleanup", "dead", "exit"}
      /\ pc[t] = "spin" => flag[obj[t]] = 1
      /\ flag' = flag \/ (pc[t] = "release" /\ flag' = [flag EXCEPT ![obj[t]] = 1])
      /\ obj' = obj \/ obj' = [obj EXCEPT ![t] = 0]
  BY DEF Goes
<1>2. Active(t)
  BY <1>1 DEF Active
<1>3. PICK c \in Calls : /\ barrier_object[t[1]] = c /\ ObjectOf(t[1], c)
                         /\ Gathering(c) \/ Passed(c)
                         /\ pc[t] \notin {"init", "arrive", "spin"} => Passed(c) /\ ~Gathering(c)
                         /\ pc[t] \in {"arrive", "spin", "release", "func"} <=> obj[t] # 0
                         /\ obj[t] \in {0, c}
  BY <1>2, ActiveFacts
<1>4. ~Gathering(c)
  BY <1>1, <1>3 DEF Gathering
<1>5. flag \in [Calls -> {0, 1}] /\ obj \in [Threads -> Calls \union {0}]
  BY DEF ThreadGroupInv, TypeOK, ThreadTypeOK
<1>6. \A k \in Calls : k # c => flag'[k] = flag[k]
  BY <1>1, <1>3, <1>5
<1>7. obj'[t] \in {0, c} /\ \A u \in Threads : u # t => obj'[u] = obj[u]
  BY <1>1, <1>3, <1>5
<1> QED BY <1>1, <1>3, <1>4, <1>6, <1>7

(* The barriers while nobody but threads moves. *)
LEMMA BarrierMoves ==
    ASSUME ThreadGroupInv, Moves, NEW k \in Calls
    PROVE  BarrierOK(k)'
<1>a. /\ BarrierOK(k)
      /\ pc \in [Threads -> {"none", "init", "arrive", "spin", "release", "func",
                            "cleanup", "exit", "dead"}]
      /\ obj \in [Threads -> Calls \union {0}] /\ count \in [Calls -> Nat]
      /\ \A c \in Calls : c # 0
  BY Names DEF ThreadGroupInv, TypeOK, ThreadTypeOK, BarrierState
<1>b. /\ Same /\ plan' = plan /\ UNCHANGED <<barrier_object, refcount>>
      /\ (Begun(k) => Begun(k)') /\ (Creating(k)' <=> Creating(k))
      /\ \A u \in Threads : Active(u)' => Active(u)
  BY MoveFacts DEF Same
<1>c. ASSUME flag'[k] = flag[k], count'[k] = count[k],
             Gathering(k) => Gathering(k)',
             ASSUME NEW u \in Threads, Active(u), barrier_object[u[1]] = k, Passed(k)
             PROVE  Passed(k)'
      PROVE  BarrierOK(k)'
  <2>1. ~Begun(k)' => flag'[k] = 0 /\ count'[k] = 0
    BY <1>a, <1>b, <1>c DEF BarrierOK
  <2>2. Creating(k)' => Gathering(k)'
    BY <1>a, <1>b, <1>c DEF BarrierOK
  <2>3. ASSUME NEW u \in Threads, Active(u)', barrier_object'[u[1]] = k
        PROVE  Gathering(k)' \/ Passed(k)'
    <3>1. Active(u) /\ barrier_object[u[1]] = k
      BY <1>b, <2>3
    <3>2. Gathering(k) \/ Passed(k)
      BY <1>a, <3>1 DEF BarrierOK
    <3> QED BY <1>c, <3>1, <3>2
  <2> QED BY <2>1, <2>2, <2>3 DEF BarrierOK
<1>p. ASSUME NEW u \in Threads, Active(u), barrier_object[u[1]] = k, Passed(k),
             \A v \in Threads : pc[v] \notin {"none", "init", "arrive"} =>
                                    pc'[v] \notin {"none", "init", "arrive"}
      PROVE  Passed(k)'
  BY <1>b, <1>p, PassedKept
<1>1. ASSUME Quiet PROVE BarrierOK(k)'
  <2>1. UNCHANGED <<flag, count, refcount, pc, obj>>
    BY <1>1 DEF Quiet, objVars
  <2>2. Gathering(k) => Gathering(k)'
    <3>1. \A u \in Threads : u \in Waiters(k)' <=> u \in Waiters(k)
      BY <2>1 DEF Waiters
    <3>2. Gathering(k) => \A u \in Threads : barrier_object'[u[1]] = k =>
                                                 pc'[u] \in {"init", "arrive", "spin"}
      BY <1>b, <2>1 DEF Gathering
    <3> QED BY <1>b, <2>1, <3>1, <3>2, GatheringKept
  <2> QED BY <1>c, <1>p, <2>1, <2>2
<1>2. ASSUME NEW t \in Threads, NEW c \in Calls, Loads(t, c) PROVE BarrierOK(k)'
  <2>1. /\ UNCHANGED <<flag, count, refcount>> /\ pc[t] = "init"
        /\ pc' = [pc EXCEPT ![t] = "arrive"] /\ obj' = [obj EXCEPT ![t] = c]
    BY <1>2 DEF Loads, objVars
  <2>2. Gathering(k) => Gathering(k)'
    <3>1. \A u \in Threads : u \in Waiters(k)' <=> u \in Waiters(k)
      BY <1>a, <2>1 DEF Waiters
    <3>2. Gathering(k) => \A u \in Threads : barrier_object'[u[1]] = k =>
                                                 pc'[u] \in {"init", "arrive", "spin"}
      BY <1>a, <1>b, <2>1 DEF Gathering
    <3> QED BY <1>b, <2>1, <3>1, <3>2, GatheringKept
  <2>3. ASSUME NEW u \in Threads, Active(u), barrier_object[u[1]] = k, Passed(k)
        PROVE  Passed(k)'
    <3>1. \A v \in Threads : pc[v] \notin {"none", "init", "arrive"} =>
                                 pc'[v] \notin {"none", "init", "arrive"}
      BY <1>a, <2>1
    <3> QED BY <1>p, <2>3, <3>1
  <2> QED BY <1>c, <2>1, <2>2, <2>3
<1>3. ASSUME NEW t \in Threads, NEW c \in Calls, Arrives(t, c) PROVE BarrierOK(k)'
  <2>1. /\ UNCHANGED <<flag, refcount, obj>> /\ pc[t] = "arrive" /\ obj[t] = c
        /\ \E x : count' = [count EXCEPT ![c] = x]
        /\ \E p \in {"release", "spin", "func"} : pc' = [pc EXCEPT ![t] = p]
    BY <1>3 DEF Arrives
  <2>2. CASE k = c
    BY <1>3, <1>b, <2>2, BarrierArrives DEF BarrierOK
  <2>3. CASE k # c
    <3>1. barrier_object[t[1]] = c
      BY <2>1, WaiterFacts
    <3>2. Gathering(k) => Gathering(k)'
      <4>1. \A u \in Threads : u \in Waiters(k)' <=> u \in Waiters(k)
        BY <1>a, <2>1, <2>3 DEF Waiters
      <4>2. Gathering(k) => \A u \in Threads : barrier_object'[u[1]] = k =>
                                                   pc'[u] \in {"init", "arrive", "spin"}
        BY <1>a, <1>b, <2>1, <2>3, <3>1 DEF Gathering
      <4>3. count'[k] = count[k]
        BY <1>a, <2>1, <2>3
      <4> QED BY <1>b, <2>1, <4>1, <4>2, <4>3, GatheringKept
    <3>3. ASSUME NEW u \in Threads, Active(u), barrier_object[u[1]] = k, Passed(k)
          PROVE  Passed(k)'
      <4>1. \A v \in Threads : pc[v] \notin {"none", "init", "arrive"} =>
                                   pc'[v] \notin {"none", "init", "arrive"}
        BY <1>a, <2>1
      <4> QED BY <1>p, <3>3, <4>1
    <3>4. flag'[k] = flag[k] /\ count'[k] = count[k]
      BY <1>a, <2>1, <2>3
    <3> QED BY <1>c, <3>2, <3>3, <3>4
  <2> QED BY <2>2, <2>3
<1>4. ASSUME NEW t \in Threads, NEW p, Goes(t, p) PROVE BarrierOK(k)'
  <2>1. PICK c \in Calls : /\ barrier_object[t[1]] = c /\ ObjectOf(t[1], c)
                           /\ Passed(c) /\ ~Gathering(c) /\ obj[t] \in {0, c}
                           /\ pc[t] \notin {"none", "init", "arrive"}
                           /\ p \notin {"none", "init", "arrive", "spin"}
                           /\ pc' = [pc EXCEPT ![t] = p]
                           /\ \A i \in Calls : i # c => flag'[i] = flag[i]
                           /\ \A u \in Threads : u # t => obj'[u] = obj[u]
                           /\ obj'[t] \in {0, c}
    BY <1>4, GoerFacts
  <2>2. count' = count
    BY <1>4 DEF Goes
  <2>3. \A v \in Threads : pc[v] \notin {"none", "init", "arrive"} =>
                               pc'[v] \notin {"none", "init", "arrive"}
    BY <1>a, <2>1
  <2>4. CASE k = c
    <3>1. Passed(k)'
      BY <1>b, <2>1, <2>3, <2>4, PassedKept
    <3>2. Begun(k)' /\ ~Creating(k)'
      <4>1. Begun(k) /\ ~Creating(k)
        BY <1>a, <2>1, <2>4 DEF ObjectOf, BarrierOK
      <4> QED BY <1>b, <4>1
    <3> QED BY <3>1, <3>2 DEF BarrierOK
  <2>5. CASE k # c
    <3>1. \A u \in Threads : u \in Waiters(k)' <=> u \in Waiters(k)
      BY <1>a, <2>1, <2>5 DEF Waiters
    <3>2. Gathering(k) => \A u \in Threads : barrier_object'[u[1]] = k =>
                                                 pc'[u] \in {"init", "arrive", "spin"}
      BY <1>a, <1>b, <2>1, <2>5 DEF Gathering
    <3>3. flag'[k] = flag[k] /\ count'[k] = count[k] /\ refcount'[k] = refcount[k]
      BY <1>b, <2>1, <2>2, <2>5
    <3>4. Gathering(k) => Gathering(k)'
      BY <1>b, <3>1, <3>2, <3>3, GatheringKept
    <3> QED BY <1>c, <1>p, <2>3, <3>3, <3>4
  <2> QED BY <2>4, <2>5
<1> QED BY <1>1, <1>2, <1>3, <1>4 DEF Moves

(* A call begins with a barrier that nobody is at. *)
LEMMA BarrierBegins ==
    ASSUME ThreadGroupInv, mthpc_thread_run_begin, NEW k \in Calls
    PROVE  BarrierOK(k)'
<1>a. BarrierOK(k) /\ k # 0 /\ refcount \in [Calls -> Nat]
  BY Names DEF ThreadGroupInv, TypeOK, BarrierState
<1>b. /\ plan' = plan /\ (Creating(k)' <=> k = call) /\ (k # call => (Begun(k)' <=> Begun(k)))
      /\ ~Begun(call) /\ refcount' = [refcount EXCEPT ![call] = TotalNr(call)]
      /\ UNCHANGED <<barrier_object, count, flag, pc, obj>>
      /\ \A t \in Threads : barrier_object[t[1]] # call
  BY BeginFacts, Names
<1>1. CASE k = call
  <2>1. flag'[k] = 0 /\ count'[k] = 0 /\ refcount'[k] = TotalNr(k)'
    BY <1>a, <1>b, <1>1, PlanKept DEF BarrierOK
  <2>2. Waiters(k)' = {}
    BY <1>a, <1>b, <1>1, WaiterFacts DEF Waiters
  <2>3. Cardinality({}) = 0
    BY FS_EmptySet
  <2>4. Gathering(k)'
    BY <1>b, <1>1, <2>1, <2>2, <2>3 DEF Gathering
  <2> QED BY <2>1, <2>4 DEF BarrierOK
<1>2. CASE k # call
  <2>1. flag'[k] = flag[k] /\ count'[k] = count[k] /\ refcount'[k] = refcount[k]
    BY <1>a, <1>b, <1>2
  <2>2. Gathering(k) => Gathering(k)'
    <3>1. \A u \in Threads : u \in Waiters(k)' <=> u \in Waiters(k)
      BY <1>b DEF Waiters
    <3>2. Gathering(k) => \A u \in Threads : barrier_object'[u[1]] = k =>
                                                 pc'[u] \in {"init", "arrive", "spin"}
      BY <1>b DEF Gathering
    <3> QED BY <1>b, <2>1, <3>1, <3>2, GatheringKept
  <2>3. Passed(k) => Passed(k)'
    BY <1>b, PassedKept
  <2> QED BY <1>a, <1>b, <1>2, <2>1, <2>2, <2>3 DEF BarrierOK, Active
<1> QED BY <1>1, <1>2

(* More threads are created while the first ones are at the barrier. *)
LEMMA BarrierCreates ==
    ASSUME AsyncOnce, ThreadGroupInv, mthpc_thread_run_create, NEW k \in Calls
    PROVE  BarrierOK(k)'
<1>a. /\ BarrierOK(k) /\ k # 0 /\ barrier_object \in [Groups -> Calls \union {0}] /\ GroupState
      /\ call \in Nat
      /\ \A t \in Threads : t[1] \in Groups /\ t \in Members(t[1])
      /\ \A g \in Groups : \A t \in Members(g) : t \in Threads /\ t[1] = g
  BY Names, PlanFacts DEF ThreadGroupInv, TypeOK, ThreadTypeOK, BarrierState
<1>b. /\ plan' = plan /\ (Creating(k)' => Creating(k)) /\ (Begun(k)' <=> Begun(k))
      /\ Creating(call) /\ Current \in Groups /\ Current \in Cluster(call)
      /\ UNCHANGED <<refcount, count, flag, obj>>
      /\ barrier_object' = [barrier_object EXCEPT ![Current] = call]
      /\ \A t \in Members(Current) : ~Active(t)
      /\ \A t \in Threads : /\ t[1] = Current => pc'[t] = "init"
                            /\ t[1] # Current => pc'[t] = pc[t]
      /\ k < call /\ k \in 1..Len(plan) /\ Current \in Cluster(k) => plan[k].op # "async"
  BY CreateFacts DEF objVars
<1>1. Gathering(k) => Gathering(k)'
  <2>1. \A u \in Threads : u \in Waiters(k)' <=> u \in Waiters(k)
    BY <1>a, <1>b DEF Waiters, Active
  <2>2. Gathering(k) => \A u \in Threads : barrier_object'[u[1]] = k =>
                                               pc'[u] \in {"init", "arrive", "spin"}
    BY <1>a, <1>b DEF Gathering
  <2> QED BY <1>b, <2>1, <2>2, GatheringKept
<1>2. ~Begun(k)' => flag'[k] = 0 /\ count'[k] = 0
  BY <1>a, <1>b DEF BarrierOK
<1>3. Creating(k)' => Gathering(k)'
  BY <1>a, <1>b, <1>1 DEF BarrierOK
<1>4. ASSUME NEW t \in Threads, Active(t)', barrier_object'[t[1]] = k
      PROVE  Gathering(k)' \/ Passed(k)'
  <2>1. CASE k = call
    BY <1>a, <1>b, <1>1, <2>1 DEF BarrierOK
  <2>2. CASE k # call
    <3>1. t[1] # Current /\ Active(t) /\ barrier_object[t[1]] = k
      BY <1>a, <1>b, <1>4, <2>2 DEF Active
    <3>2. ObjectOf(t[1], k) /\ (Gathering(k) \/ Passed(k))
      BY <1>a, <3>1 DEF GroupState, GroupOK, BarrierOK
    <3>3. k < call /\ k \in 1..Len(plan)
      BY <1>a, <2>2, <3>2 DEF ObjectOf, Begun
    <3>4. Current \notin Cluster(k)
      BY <1>a, <1>b, <3>1, <3>2, <3>3 DEF ObjectOf, Starts, Joined
    <3>5. Passed(k) => Passed(k)'
      <4>1. \A g \in Cluster(k) : barrier_object'[g] = barrier_object[g]
        BY <1>a, <1>b, <3>3, <3>4, PlanFacts DEF ThreadGroupInv, TypeOK
      <4>2. \A u \in Threads : u[1] \in Cluster(k) => pc'[u] = pc[u]
        BY <1>b, <3>4
      <4> QED BY <1>b, <4>1, <4>2, PassedKept
    <3> QED BY <1>1, <3>2, <3>5
  <2> QED BY <2>1, <2>2
<1> QED BY <1>2, <1>3, <1>4 DEF BarrierOK

(* A group drops its share only after all threads have passed. *)
LEMMA BarrierReaps ==
    ASSUME ThreadGroupInv, NEW g \in Groups, NEW c \in Calls, Reaps(g, c), NEW k \in Calls
    PROVE  BarrierOK(k)'
<1>a. /\ BarrierOK(k) /\ k # 0 /\ barrier_object \in [Groups -> Calls \union {0}] /\ GroupState
      /\ refcount \in [Calls -> Nat] /\ MainTypeOK
      /\ \A t \in Threads : t[1] \in Groups
  BY Names DEF ThreadGroupInv, TypeOK, ThreadTypeOK, BarrierState
<1>b. /\ plan' = plan /\ (Creating(k)' <=> Creating(k)) /\ (Begun(k) => Begun(k)')
      /\ barrier_object' = [barrier_object EXCEPT ![g] = 0] /\ barrier_object[g] = c
      /\ refcount' = [refcount EXCEPT ![c] = @ - Nr[g]]
      /\ UNCHANGED <<count, flag, pc, obj>>
      /\ Begun(c) /\ ~Gathering(c)
  BY ReapFacts DEF Reaps, Same
<1>1. ASSUME Gathering(k) PROVE Gathering(k)'
  <2>1. k # c
    BY <1>b, <1>1
  <2>2. \A u \in Threads : u \in Waiters(k)' <=> u \in Waiters(k)
    BY <1>b DEF Waiters
  <2>3. \A u \in Threads : barrier_object'[u[1]] = k => pc'[u] \in {"init", "arrive", "spin"}
    BY <1>a, <1>b, <1>1 DEF Gathering
  <2>4. flag'[k] = flag[k] /\ count'[k] = count[k] /\ refcount'[k] = refcount[k]
    BY <1>a, <1>b, <2>1
  <2> QED BY <1>b, <1>1, <2>2, <2>3, <2>4, GatheringKept
<1>2. ~Begun(k)' => flag'[k] = 0 /\ count'[k] = 0
  BY <1>a, <1>b DEF BarrierOK
<1>3. Creating(k)' => Gathering(k)'
  BY <1>a, <1>b, <1>1 DEF BarrierOK
<1>4. ASSUME NEW t \in Threads, Active(t)', barrier_object'[t[1]] = k
      PROVE  Gathering(k)' \/ Passed(k)'
  <2>1. Active(t) /\ barrier_object[t[1]] = k
    BY <1>a, <1>b, <1>4 DEF Active
  <2>2. ObjectOf(t[1], k) /\ (Gathering(k) \/ Passed(k))
    BY <1>a, <2>1 DEF GroupState, GroupOK, BarrierOK
  <2>3. Cluster(k) \subseteq Groups
    BY <1>a, <2>2, PlanFacts DEF ObjectOf
  <2>4. Passed(k) => Passed(k)'
    <3>1. \A x \in Cluster(k) : barrier_object'[x] \in {barrier_object[x], 0}
      BY <1>a, <1>b, <2>3
    <3> QED BY <1>b, <3>1, PassedKept
  <2> QED BY <1>1, <2>2, <2>4
<1> QED BY <1>2, <1>3, <1>4 DEF BarrierOK

(* The barrier of every object. *)
LEMMA BarrierStateStep ==
    ASSUME AsyncOnce, ThreadGroupInv, [Next]_vars
    PROVE  BarrierState'
<1> SUFFICES ASSUME NEW k \in Calls PROVE BarrierOK(k)'
  BY DEF BarrierState
<1>1. ASSUME mthpc_thread_run_join PROVE BarrierOK(k)'
  <2>1. /\ plan' = plan /\ (Begun(k)' <=> Begun(k)) /\ ~Creating(k)'
        /\ UNCHANGED <<barrier_object, refcount, count, flag, pc, obj>>
    BY <1>1, JoinFacts
  <2>2. BarrierOK(k)
    BY DEF ThreadGroupInv, BarrierState
  <2>3. Gathering(k) => Gathering(k)'
    <3>1. \A u \in Threads : u \in Waiters(k)' <=> u \in Waiters(k)
      BY <2>1 DEF Waiters
    <3>2. Gathering(k) => \A u \in Threads : barrier_object'[u[1]] = k =>
                                                 pc'[u] \in {"init", "arrive", "spin"}
      BY <2>1 DEF Gathering
    <3> QED BY <2>1, <3>1, <3>2, GatheringKept
  <2>4. Passed(k) => Passed(k)'
    BY <2>1, PassedKept
  <2> QED BY <2>1, <2>2, <2>3, <2>4 DEF BarrierOK, Active
<1> QED
  BY <1>1, StepCases, BarrierMoves, BarrierBegins, BarrierCreates, BarrierReaps DEF Moves
-----------------------------------------------------------------------------
(* The invariant holds at the start and in every step. *)
LEMMA InitInv == Init => ThreadGroupInv
<1> SUFFICES ASSUME Init PROVE ThreadGroupInv
  OBVIOUS
<1>a. /\ plan \in Plans /\ call = 1 /\ mpc = "call" /\ idx = 1
      /\ barrier_object = [g \in Groups |-> 0] /\ nr_exited = [g \in Groups |-> 0]
      /\ refcount = [k \in Calls |-> 0] /\ count = [k \in Calls |-> 0]
      /\ flag = [k \in Calls |-> 0] /\ live = {} /\ entry = [t \in Threads |-> "run"]
      /\ pc = [t \in Threads |-> "none"] /\ obj = [t \in Threads |-> 0]
  BY DEF Init
<1>1. TypeOK
  <2>1. Len(plan) \in Nat /\ Word \in Nat \ {0, 1}
    BY <1>a, ThreadGroupAssumption
  <2>2. MainTypeOK
    BY <2>1, EmptySeq DEF Init, MainTypeOK
  <2>3. ThreadTypeOK /\ refcount \in [Calls -> Nat]
    BY DEF Init, ThreadTypeOK
  <2> QED BY <2>2, <2>3 DEF TypeOK
<1>2. \A k \in Calls : ~Begun(k) /\ ~Creating(k) /\ ~InScope(k)
  BY <1>a, Names DEF Begun, Creating, InScope
<1>3. \A t \in Threads : ~Active(t) /\ t[1] \in Groups
  BY <1>a, Names DEF Active
<1>4. \A g \in Groups : barrier_object[g] = 0 /\ nr_exited[g] = 0
  BY <1>a
<1>5. \A k \in 1..Len(plan) : k \in Calls
  BY <1>a DEF Calls
<1>6. MainState
  BY <1>1, <1>a, PlanFacts DEF MainState, TypeOK
<1>7. GroupState
  BY <1>3, <1>4, Names DEF GroupState, GroupOK, Members
<1>8. ExitState
  <2>1. \A g \in Groups : Exited(g) = {}
    BY <1>a DEF Exited, Members
  <2> QED BY <1>a, <1>4, <2>1, FS_EmptySet DEF ExitState
<1>9. ShareState
  BY <1>2, <1>5 DEF ShareState, ShareOK
<1>10. LiveState
  BY <1>3 DEF LiveState
<1>11. BarrierState
  BY <1>a, <1>2, <1>3 DEF BarrierState, BarrierOK
<1>12. ThreadState
  BY <1>a DEF ThreadState, ThreadOK
<1> QED BY <1>1, <1>6, <1>7, <1>8, <1>9, <1>10, <1>11, <1>12 DEF ThreadGroupInv

LEMMA InvStep ==
    ASSUME AsyncOnce, ThreadGroupInv, [Next]_vars
    PROVE  ThreadGroupInv'
<1>1. TypeOK' /\ MainState'
  BY TypeStep, MainStateStep DEF ThreadGroupInv, TypeOK
<1>2. GroupState' /\ ExitState' /\ ShareState'
  BY GroupStateStep, ExitStateStep, ShareStateStep
<1>3. LiveState' /\ BarrierState' /\ ThreadState'
  BY LiveStateStep, BarrierStateStep, ThreadStateStep
<1> QED BY <1>1, <1>2, <1>3 DEF ThreadGroupInv

(* It implies the properties of the runs. *)
LEMMA InvStartTogether == ThreadGroupInv => StartTogether
<1> SUFFICES ASSUME ThreadGroupInv, NEW t \in Threads, pc[t] = "func", obj[t] # 0
             PROVE  \A g \in ToSet(plan[obj[t]].groups) :
                       /\ barrier_object[g] \in {obj[t], 0}
                       /\ \A u \in Members(g) : pc[u] \notin {"none", "init", "arrive"}
  BY DEF StartTogether
<1>1. Active(t)
  BY DEF Active
<1>2. Passed(obj[t])
  BY <1>1, ActiveFacts
<1> QED BY <1>2 DEF Passed, Cluster

LEMMA InvBarrierObjectLive == ThreadGroupInv => BarrierObjectLive
<1> SUFFICES ASSUME ThreadGroupInv, NEW t \in Threads
             PROVE  /\ pc[t] \in {"arrive", "spin", "release"} => obj[t] \in live
                    /\ pc[t] = "init" => barrier_object[t[1]] \in live
  BY DEF BarrierObjectLive
<1>1. CASE Active(t)
  BY <1>1, ActiveFacts
<1>2. CASE ~Active(t)
  BY <1>2 DEF Active
<1> QED BY <1>1, <1>2

LEMMA InvSharesCounted == ThreadGroupInv => SharesCounted
<1> SUFFICES ASSUME ThreadGroupInv, NEW k \in 1..(call - 1), plan[k].op = "async"
             PROVE  /\ refcount[k] = Cardinality({t \in Threads : barrier_object[t[1]] = k})
                    /\ k \in live <=> refcount[k] > 0
  BY DEF SharesCounted
<1>1. call \in 1..(Len(plan) + 1) /\ Len(plan) \in Nat
  BY PlanFacts DEF ThreadGroupInv, TypeOK, MainTypeOK
<1>2. k \in 1..Len(plan) /\ k < call
  BY <1>1
<1>3. Begun(k) /\ ~Creating(k) /\ ShareOK(k)
  BY <1>1, <1>2 DEF Begun, Creating, ThreadGroupInv, ShareState
<1>4. Shares(k) = {t \in Threads : barrier_object[t[1]] = k}
  BY <1>3 DEF Shares, Pending
<1> QED BY <1>3, <1>4 DEF ShareOK
-----------------------------------------------------------------------------
(* What holds of every program that uses a group asynchronously at most    *)
(* once, with any number of groups and threads.                            *)

LEMMA InvHolds ==
    ASSUME AsyncOnce
    PROVE  Spec => []ThreadGroupInv
<1>1. Init => ThreadGroupInv
  BY InitInv
<1>2. ThreadGroupInv /\ [Next]_vars => ThreadGroupInv'
  BY InvStep
<1> QED BY <1>1, <1>2, PTL DEF Spec

(* All variables keep their types; in particular no refcount of a barrier  *)
(* object falls below 0, which mthpc_group_put_barrier_object() warns of   *)
(* (thread.c:45).                                                          *)
THEOREM TypeCorrect ==
    ASSUME AsyncOnce
    PROVE  Spec => []TypeOK
<1>1. ThreadGroupInv => TypeOK
  BY DEF ThreadGroupInv
<1> QED BY <1>1, InvHolds, PTL

(* No thread of a cluster runs its function before all have run their init *)
(* function: the start barrier of __mthpc_thread_worker() holds although n *)
(* is read from the refcount, which reaped groups reduce.                  *)
THEOREM StartsTogether ==
    ASSUME AsyncOnce
    PROVE  Spec => []StartTogether
<1> QED BY InvStartTogether, InvHolds, PTL

(* A barrier object is freed, or goes out of scope, after its last user:   *)
(* mthpc_group_put_barrier_object() is called for a group only when all of *)
(* its threads are dead, and __mthpc_thread_run() joins before it returns. *)
THEOREM BarrierObjectStaysLive ==
    ASSUME AsyncOnce
    PROVE  Spec => []BarrierObjectLive
<1> QED BY InvBarrierObjectLive, InvHolds, PTL

(* The join work and mthpc_thread_async_wait() drop the share of each group*)
(* once: the refcount counts the threads of the groups that are left, and  *)
(* the object is freed when there are none.                                *)
THEOREM SharesAreCounted ==
    ASSUME AsyncOnce
    PROVE  Spec => []SharesCounted
<1> QED BY InvSharesCounted, InvHolds, PTL
=============================================================================
