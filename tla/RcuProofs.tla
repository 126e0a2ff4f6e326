----------------------------- MODULE RcuProofs -----------------------------
(***************************************************************************)
(* Proofs about Rcu, for any number of threads and any nesting.            *)
(***************************************************************************)
EXTENDS Rcu, TLAPS

(* What the code takes for granted of (unsigned int)pthread_self(): cutting*)
(* it to an unsigned int does not make two different values equal.         *)
IdsDistinguish ==
    \A t, u \in Threads : Id(t) = Id(u) => Tid[t] = Tid[u]

(* Registered threads have nodes of their own. *)
NodesApart ==
    \A t, u \in Threads : (Registered(t) /\ Registered(u) /\ t # u) => Id(t) # Id(u)

(* A thread is registered under its own id, in the list, while it is live. *)
NodeLinked ==
    \A t \in Threads : Registered(t) =>
        Live(t) /\ node_ptr[t] = Id(t) /\ Id(t) \in head

(* A node whose thread is gone is idle, so that who adopts it starts idle. *)
LeftoversIdle ==
    \A i \in Ids : (\A t \in Threads : node_ptr[t] # i) => node_gp[i].nest = 0

(* Where a thread is inside the library and what it holds there. *)
ControlState ==
    \A t \in Threads :
        /\ pc[t] = "adopt" => ~Registered(t)
        /\ pc[t] = "store" => (Registered(t) /\ depth[t] = 0)
        /\ pc[t] \in {"wait1", "wait2"} <=> lock = t
        /\ pc[t] = "wait1" => snap[t] = gp_seq
        /\ pc[t] = "wait2" => snap[t] = 1 - gp_seq

(* What holds up to the first mishap. *)
RcuInv ==
    /\ TypeOK /\ mishap = "no"
    /\ NodesApart /\ NodeLinked /\ NestIsDepth /\ LeftoversIdle
    /\ ControlState
-----------------------------------------------------------------------------
(* Adding one to a word and taking one from it keep the phase as long as   *)
(* the count neither overflows nor underflows.                             *)
LEMMA IncDec ==
    ASSUME NEW g \in GpSeq
    PROVE  /\ Inc(g) \in GpSeq /\ Dec(g) \in GpSeq
           /\ g.nest # NestMask => Inc(g).nest = g.nest + 1 /\ Inc(g).phase = g.phase
           /\ g.nest > 0 => Dec(g).nest = g.nest - 1 /\ Dec(g).phase = g.phase
BY RcuAssumption DEF GpSeq, Phases, Inc, Dec

LEMMA IdType == \A t \in Threads : Id(t) \in Ids /\ Id(t) \in Nat /\ Id(t) # NULL
BY RcuAssumption DEF Id, Ids

LEMMA IdleType == Idle \in GpSeq /\ Idle.nest = 0
BY RcuAssumption DEF Idle, GpSeq, Phases

(* The bound on nesting is tested in the first half of a read lock; who    *)
(* waits for readers has data->lock.                                       *)
TypeInv ==
    /\ TypeOK
    /\ \A t \in Threads : pc[t] = "store" => depth[t] < MaxNest
    /\ \A t \in Threads : pc[t] \in {"wait1", "wait2"} <=> lock = t

(* Every variable keeps its type, whatever the ids are. *)
LEMMA TypeStep == TypeInv /\ [Next]_rcuVars => TypeInv'
<1> SUFFICES ASSUME TypeInv, [Next]_rcuVars PROVE TypeInv'
  OBVIOUS
<1> USE RcuAssumption DEF TypeInv, TypeOK, listVars
<1>1. ASSUME NEW t \in Threads, pthread_create(t) PROVE TypeInv'
  BY <1>1 DEF pthread_create
<1>2. ASSUME NEW t \in Threads, pthread_exit(t) PROVE TypeInv'
  BY <1>2 DEF pthread_exit
<1>3. ASSUME NEW t \in Threads, mthpc_rcu_thread_init(t) PROVE TypeInv'
  BY <1>3, IdType, IdleType DEF mthpc_rcu_thread_init
<1>3a. ASSUME NEW t \in Threads, mthpc_rcu_add_found(t) PROVE TypeInv'
  BY <1>3a DEF mthpc_rcu_add_found
<1>3b. ASSUME NEW t \in Threads, mthpc_rcu_add_adopt(t) PROVE TypeInv'
  <2>1. mishap' \in Mishaps \union {"no"}
    BY <1>3b DEF mthpc_rcu_add_adopt, Noted, Mishaps
  <2>2. node_ptr' \in [Threads -> Ids \union {NULL}]
    BY <1>3b DEF mthpc_rcu_add_adopt
  <2> QED BY <1>3b, <2>1, <2>2 DEF mthpc_rcu_add_adopt
<1>4. ASSUME NEW t \in Threads, mthpc_rcu_thread_exit(t) PROVE TypeInv'
  BY <1>4, IdType, IdleType DEF mthpc_rcu_thread_exit, Unlink
<1>5. ASSUME NEW t \in Threads, mthpc_rcu_read_lock_load(t) PROVE TypeInv'
  BY <1>5 DEF mthpc_rcu_read_lock_load
<1>6. ASSUME NEW t \in Threads, mthpc_rcu_read_lock_store(t) PROVE TypeInv'
  <2>1. [phase |-> snap[t], nest |-> 1] \in GpSeq
    BY DEF GpSeq, Phases
  <2>2. node_gp' \in [Ids -> GpSeq]
    BY <1>6, <2>1 DEF mthpc_rcu_read_lock_store
  <2> QED BY <1>6, <2>2 DEF mthpc_rcu_read_lock_store, Phases
<1>7. ASSUME NEW t \in Threads, mthpc_rcu_read_lock_nested(t) PROVE TypeInv'
  <2>1. node_gp' \in [Ids -> GpSeq]
    BY <1>7, IncDec DEF mthpc_rcu_read_lock_nested
  <2>2. mishap' \in Mishaps \union {"no"}
    BY <1>7 DEF mthpc_rcu_read_lock_nested, Noted, Mishaps
  <2> QED BY <1>7, <2>1, <2>2 DEF mthpc_rcu_read_lock_nested
<1>8. ASSUME NEW t \in Threads, mthpc_rcu_read_unlock(t) PROVE TypeInv'
  <2>1. node_gp' \in [Ids -> GpSeq]
    BY <1>8, IncDec DEF mthpc_rcu_read_unlock
  <2> QED BY <1>8, <2>1 DEF mthpc_rcu_read_unlock
<1>9. ASSUME NEW t \in Threads, mthpc_synchronize_rcu_lock(t) PROVE TypeInv'
  BY <1>9 DEF mthpc_synchronize_rcu_lock
<1>10. ASSUME NEW t \in Threads, mthpc_wait_for_readers(t) PROVE TypeInv'
  BY <1>10 DEF mthpc_wait_for_readers
<1>11. ASSUME NEW t \in Threads, mthpc_synchronize_rcu_flip(t) PROVE TypeInv'
  BY <1>11 DEF mthpc_synchronize_rcu_flip, Phases, Flip
<1>12. ASSUME NEW t \in Threads, mthpc_synchronize_rcu_unlock(t) PROVE TypeInv'
  BY <1>12 DEF mthpc_synchronize_rcu_unlock, Phases
<1>13. CASE UNCHANGED rcuVars
  BY <1>13 DEF rcuVars
<1> QED
  BY <1>1, <1>2, <1>3, <1>3a, <1>3b, <1>4, <1>5, <1>6, <1>7, <1>8, <1>9, <1>10, <1>11, <1>12,
     <1>13 DEF Next, Finished

LEMMA TypeInit == Init => TypeInv
BY RcuAssumption, IdleType DEF Init, TypeInv, TypeOK, Phases, Mishaps

(* Every reachable state of Rcu is well typed, whatever the ids are. *)
THEOREM RcuTypeCorrect == Spec => []TypeOK
<1>1. TypeInv => TypeOK
  BY DEF TypeInv
<1> QED BY TypeInit, TypeStep, <1>1, PTL DEF Spec
-----------------------------------------------------------------------------
(* The record of what went wrong is never taken back. *)
LEMMA MishapStays == [Next]_rcuVars /\ mishap' = "no" => mishap = "no"
BY DEF Next, rcuVars, listVars, Finished, Noted, Mishaps, pthread_create, pthread_exit,
   mthpc_rcu_thread_init, mthpc_rcu_add_found, mthpc_rcu_add_adopt,
   mthpc_rcu_thread_exit, mthpc_rcu_read_lock_load, mthpc_rcu_read_lock_store,
   mthpc_rcu_read_lock_nested, mthpc_rcu_read_unlock, mthpc_synchronize_rcu_lock,
   mthpc_wait_for_readers, mthpc_synchronize_rcu_flip, mthpc_synchronize_rcu_unlock

LEMMA RcuInvInit == Init => RcuInv
<1> SUFFICES ASSUME Init PROVE RcuInv
  OBVIOUS
<1>1. TypeOK
  BY TypeInit DEF TypeInv
<1>2. \A t \in Threads : ~Live(t) /\ ~Registered(t) /\ depth[t] = 0
                         /\ pc[t] = "unborn" /\ lock # t
  BY RcuAssumption DEF Init, Live, Registered
<1>3. \A i \in Ids : node_gp[i].nest = 0
  BY IdleType DEF Init
<1>4. mishap = "no"
  BY DEF Init
<1> QED BY <1>1, <1>2, <1>3, <1>4 DEF RcuInv, NodesApart, NodeLinked, NestIsDepth,
           LeftoversIdle, ControlState

(* The steps of one thread leave the nodes of the others alone: what       *)
(* follows checks the invariant part by part, action by action.            *)
LEMMA RcuInvStep ==
    ASSUME RcuInv, [Next]_rcuVars, mishap' = "no"
    PROVE  RcuInv'
<1> USE RcuAssumption, IdType
<1>t. TypeOK'
  <2>1. TypeInv
    BY DEF RcuInv, TypeInv, TypeOK, ControlState
  <2> QED BY <2>1, TypeStep DEF TypeInv
<1> USE <1>t DEF TypeOK, listVars
<1>1. ASSUME NEW t \in Threads, pthread_create(t) PROVE RcuInv'
  <2> USE <1>1 DEF RcuInv, pthread_create
  <2>1. ~Registered(t)
    BY DEF NodeLinked, Live
  <2>2. NodesApart'
    BY DEF NodesApart, Registered
  <2>3. NodeLinked'
    BY <2>1 DEF NodeLinked, Live, Registered
  <2>4. NestIsDepth' /\ LeftoversIdle'
    BY DEF NestIsDepth, LeftoversIdle, Registered
  <2>5. ControlState'
    BY DEF ControlState, Registered
  <2> QED BY <2>2, <2>3, <2>4, <2>5
<1>2. ASSUME NEW t \in Threads, pthread_exit(t) PROVE RcuInv'
  <2> USE <1>2 DEF RcuInv, pthread_exit
  <2>1. NodesApart'
    BY DEF NodesApart, Registered
  <2>2. NodeLinked'
    BY DEF NodeLinked, Live, Registered
  <2>3. NestIsDepth'
    BY DEF NestIsDepth, Registered
  <2>4. LeftoversIdle'
    BY DEF LeftoversIdle, NestIsDepth, Registered
  <2>5. ControlState'
    BY DEF ControlState, Registered
  <2> QED BY <2>1, <2>2, <2>3, <2>4, <2>5
<1>3. ASSUME NEW t \in Threads, mthpc_rcu_thread_init(t) PROVE RcuInv'
  <2> USE <1>3 DEF RcuInv, mthpc_rcu_thread_init
  <2>2. NodeLinked'
    BY DEF NodeLinked, Live, Registered
  <2>3. \A u \in Threads : node_ptr[u] # Id(t)
    BY DEF NodeLinked, Registered
  <2>1. NodesApart'
    <3>1. \A u \in Threads : Registered(u) => Id(u) # Id(t)
      BY <2>3 DEF NodeLinked
    <3> QED BY <3>1 DEF NodesApart, Registered
  <2>4. node_gp'[Id(t)].nest = 0 /\ depth[t] = 0
    BY <2>3, IdleType DEF LeftoversIdle, NestIsDepth
  <2>5. NestIsDepth'
    <3> SUFFICES ASSUME NEW u \in Threads
                 PROVE  IF Registered(u)' THEN (node_gp[node_ptr[u]].nest = depth[u])'
                                          ELSE (depth[u] = 0)'
      BY DEF NestIsDepth
    <3>1. CASE u = t
      BY <2>4, <3>1 DEF Registered
    <3>2. CASE u # t
      <4>1. node_ptr'[u] = node_ptr[u] /\ (Registered(u) => node_gp'[node_ptr[u]] = node_gp[node_ptr[u]])
        BY <2>3, <3>2 DEF Registered
      <4> QED BY <4>1 DEF NestIsDepth, Registered
    <3> QED BY <3>1, <3>2
  <2>6. LeftoversIdle'
    <3> SUFFICES ASSUME NEW i \in Ids, \A u \in Threads : node_ptr'[u] # i
                 PROVE  node_gp'[i].nest = 0
      BY DEF LeftoversIdle
    <3>1. i # Id(t)
      OBVIOUS
    <3>2. \A u \in Threads : node_ptr[u] # i
      BY <3>1 DEF Ids, Registered
    <3> QED BY <3>1, <3>2 DEF LeftoversIdle
  <2>7. ControlState'
    BY DEF ControlState, Registered
  <2> QED BY <2>1, <2>2, <2>5, <2>6, <2>7
<1>3a. ASSUME NEW t \in Threads, mthpc_rcu_add_found(t) PROVE RcuInv'
  BY <1>3a DEF RcuInv, mthpc_rcu_add_found, NodesApart, NodeLinked,
     NestIsDepth, LeftoversIdle, ControlState, Live, Registered
<1>3b. ASSUME NEW t \in Threads, mthpc_rcu_add_adopt(t) PROVE RcuInv'
  <2> USE <1>3b DEF RcuInv
  <2>1. /\ pc[t] = "adopt" /\ pc' = [pc EXCEPT ![t] = "idle"]
        /\ UNCHANGED <<gp_seq, lock, head, node_gp, depth, snap>>
    BY DEF mthpc_rcu_add_adopt
  <2>2. /\ node_ptr' = [node_ptr EXCEPT ![t] = Id(t)] /\ Id(t) \in head
        /\ \A u \in Threads : node_ptr[u] # Id(t)
    <3>1. PICK node : /\ node_ptr' = [node_ptr EXCEPT ![t] = node]
                      /\ mishap' = IF t \in dangling THEN Noted("freed")
                                   ELSE IF node = Id(t) /\ node \in head
                                           /\ \A u \in Threads : node_ptr[u] # node
                                   THEN mishap ELSE Noted("foreign")
      BY DEF mthpc_rcu_add_adopt
    <3>2. Noted("freed") # "no" /\ Noted("foreign") # "no"
      BY DEF Noted
    <3> QED BY <3>1, <3>2
  <2>3. \A u \in Threads : (Registered(u) /\ u # t) => Id(u) # Id(t)
    BY <2>2 DEF NodeLinked
  <2>4. NodesApart' /\ NodeLinked'
    BY <2>1, <2>2, <2>3 DEF NodesApart, NodeLinked, Live, Registered
  <2>5. node_gp[Id(t)].nest = 0 /\ depth[t] = 0
    <3>1. ~Registered(t)
      BY <2>1 DEF ControlState
    <3> QED BY <2>2, <3>1 DEF LeftoversIdle, NestIsDepth
  <2>6. NestIsDepth'
    BY <2>1, <2>2, <2>5 DEF NestIsDepth, Registered
  <2>7. LeftoversIdle'
    <3> SUFFICES ASSUME NEW i \in Ids, \A u \in Threads : node_ptr'[u] # i
                 PROVE  node_gp'[i].nest = 0
      BY DEF LeftoversIdle
    <3>1. i # Id(t)
      BY <2>2
    <3>2. \A u \in Threads : u # t => node_ptr[u] # i
      BY <2>2
    <3>3. node_ptr[t] # i
      BY <2>1, RcuAssumption DEF ControlState, Registered, Ids, Id
    <3> QED BY <2>1, <3>2, <3>3 DEF LeftoversIdle
  <2>8. ControlState'
    BY <2>1, <2>2 DEF ControlState, Registered
  <2> QED BY <2>4, <2>6, <2>7, <2>8
<1>4. ASSUME NEW t \in Threads, mthpc_rcu_thread_exit(t) PROVE RcuInv'
  <2> USE <1>4 DEF RcuInv, mthpc_rcu_thread_exit, Unlink
  <2>1. NodesApart'
    BY DEF NodesApart, Registered
  <2>2. \A u \in Threads : (Registered(u) /\ u # t) => Id(u) # Id(t)
    BY DEF NodesApart
  <2>3. NodeLinked'
    BY <2>2 DEF NodeLinked, Live, Registered
  <2>4. NestIsDepth'
    BY <2>2 DEF NestIsDepth, NodeLinked, Registered
  <2>5. LeftoversIdle'
    BY IdleType DEF LeftoversIdle, NodeLinked, Registered
  <2>6. ControlState'
    BY DEF ControlState, Registered
  <2> QED BY <2>1, <2>3, <2>4, <2>5, <2>6
<1>5. ASSUME NEW t \in Threads, mthpc_rcu_read_lock_load(t) PROVE RcuInv'
  <2> USE <1>5 DEF RcuInv, mthpc_rcu_read_lock_load
  <2>1. NodesApart' /\ NodeLinked'
    BY DEF NodesApart, NodeLinked, Live, Registered
  <2>2. NestIsDepth' /\ LeftoversIdle'
    BY DEF NestIsDepth, LeftoversIdle, Registered
  <2>3. ControlState'
    BY DEF ControlState, NestIsDepth, Registered
  <2> QED BY <2>1, <2>2, <2>3
<1>6. ASSUME NEW t \in Threads, mthpc_rcu_read_lock_store(t) PROVE RcuInv'
  <2> USE <1>6 DEF RcuInv, mthpc_rcu_read_lock_store
  <2>1. NodesApart' /\ NodeLinked'
    BY DEF NodesApart, NodeLinked, Live, Registered
  <2>2. Registered(t) /\ depth[t] = 0 /\ node_ptr[t] = Id(t)
    BY DEF ControlState, NodeLinked
  <2>3. \A u \in Threads : (Registered(u) /\ u # t) => node_ptr[u] # Id(t)
    BY <2>2 DEF NodesApart, NodeLinked
  <2>4. NestIsDepth'
    BY <2>2, <2>3 DEF NestIsDepth, Registered
  <2>5. LeftoversIdle'
    BY <2>2 DEF LeftoversIdle
  <2>6. ControlState'
    BY DEF ControlState, Registered
  <2> QED BY <2>1, <2>4, <2>5, <2>6
<1>7. ASSUME NEW t \in Threads, mthpc_rcu_read_lock_nested(t) PROVE RcuInv'
  <2> USE <1>7 DEF RcuInv, mthpc_rcu_read_lock_nested
  <2>1. NodesApart' /\ NodeLinked'
    BY DEF NodesApart, NodeLinked, Live, Registered
  <2>2. node_ptr[t] = Id(t)
    BY DEF NodeLinked
  <2>3. \A u \in Threads : (Registered(u) /\ u # t) => node_ptr[u] # Id(t)
    BY <2>2 DEF NodesApart, NodeLinked
  <2>4. Inc(node_gp[Id(t)]).nest = depth[t] + 1
    <3>1. node_gp[Id(t)] \in GpSeq /\ node_gp[Id(t)].nest = depth[t] /\ depth[t] # NestMask
      BY <2>2 DEF NestIsDepth, Noted, Mishaps
    <3> QED BY <3>1, IncDec
  <2>5. NestIsDepth'
    BY <2>2, <2>3, <2>4 DEF NestIsDepth, Registered
  <2>6. LeftoversIdle'
    BY <2>2 DEF LeftoversIdle
  <2>7. ControlState'
    BY DEF ControlState, Registered
  <2> QED BY <2>1, <2>5, <2>6, <2>7
<1>8. ASSUME NEW t \in Threads, mthpc_rcu_read_unlock(t) PROVE RcuInv'
  <2> USE <1>8 DEF RcuInv, mthpc_rcu_read_unlock
  <2>1. NodesApart' /\ NodeLinked'
    BY DEF NodesApart, NodeLinked, Live, Registered
  <2>2. Registered(t) /\ node_ptr[t] = Id(t)
    BY DEF NodeLinked, NestIsDepth
  <2>3. \A u \in Threads : (Registered(u) /\ u # t) => node_ptr[u] # Id(t)
    BY <2>2 DEF NodesApart, NodeLinked
  <2>4. Dec(node_gp[Id(t)]).nest = depth[t] - 1
    <3>1. node_gp[Id(t)] \in GpSeq /\ node_gp[Id(t)].nest = depth[t] /\ depth[t] > 0
      BY <2>2 DEF NestIsDepth
    <3> QED BY <3>1, IncDec
  <2>5. NestIsDepth'
    BY <2>2, <2>3, <2>4 DEF NestIsDepth, Registered
  <2>6. LeftoversIdle'
    BY <2>2 DEF LeftoversIdle
  <2>7. ControlState'
    BY DEF ControlState, Registered
  <2> QED BY <2>1, <2>5, <2>6, <2>7
<1>9. ASSUME NEW t \in Threads, mthpc_synchronize_rcu_lock(t) PROVE RcuInv'
  BY <1>9 DEF RcuInv, mthpc_synchronize_rcu_lock, NodesApart, NodeLinked,
     NestIsDepth, LeftoversIdle, ControlState, Live, Registered
<1>10. ASSUME NEW t \in Threads, mthpc_wait_for_readers(t) PROVE RcuInv'
  BY <1>10 DEF RcuInv, mthpc_wait_for_readers, NodesApart, NodeLinked,
     NestIsDepth, LeftoversIdle, ControlState, Live, Registered
<1>11. ASSUME NEW t \in Threads, mthpc_synchronize_rcu_flip(t) PROVE RcuInv'
  BY <1>11 DEF RcuInv, mthpc_synchronize_rcu_flip, NodesApart, NodeLinked,
     NestIsDepth, LeftoversIdle, ControlState, Live, Registered, Phases, Flip
<1>12. ASSUME NEW t \in Threads, mthpc_synchronize_rcu_unlock(t) PROVE RcuInv'
  BY <1>12 DEF RcuInv, mthpc_synchronize_rcu_unlock, NodesApart, NodeLinked,
     NestIsDepth, LeftoversIdle, ControlState, Live, Registered
<1>13. CASE UNCHANGED rcuVars
  BY <1>13 DEF rcuVars, RcuInv, NodesApart, NodeLinked, NestIsDepth,
     LeftoversIdle, ControlState, Live, Registered
<1> QED
  BY <1>1, <1>2, <1>3, <1>3a, <1>3b, <1>4, <1>5, <1>6, <1>7, <1>8, <1>9, <1>10, <1>11, <1>12,
     <1>13 DEF Next, Finished

(* Up to the first mishap every registered thread has a node of its own in *)
(* the list, whatever mthpc_rcu_add() and mthpc_rcu_del() do meanwhile.    *)
UpToMishap == TypeInv /\ (mishap = "no" => RcuInv)

LEMMA UpToMishapInit == Init => UpToMishap
BY TypeInit, RcuInvInit DEF UpToMishap

LEMMA UpToMishapStep == UpToMishap /\ [Next]_rcuVars => UpToMishap'
BY TypeStep, RcuInvStep, MishapStays DEF UpToMishap

(* Up to the first mishap every registered thread has a node of its own,   *)
(* linked in data->head, through mthpc_rcu_thread_init(), the adoption of  *)
(* a node that was left and mthpc_rcu_thread_exit().                       *)
THEOREM RcuNodesCorrect == Spec => []NodeOwned
<1>1. UpToMishap => NodeOwned
  BY DEF UpToMishap, NodeOwned, RcuInv, NodesApart, NodeLinked, Registered
<1> QED BY UpToMishapInit, UpToMishapStep, <1>1, PTL DEF Spec

(* Up to the first mishap the count in a thread's node is its nesting      *)
(* depth: read lock and unlock leave the phase bit alone.                  *)
THEOREM RcuNestCorrect == Spec => []NestIsDepth
<1>1. UpToMishap => NestIsDepth
  BY DEF UpToMishap, RcuInv, NestIsDepth
<1> QED BY UpToMishapInit, UpToMishapStep, <1>1, PTL DEF Spec
-----------------------------------------------------------------------------
(* Two live threads never have the same pthread_self(). *)
LiveTidsDiffer ==
    \A t, u \in Threads : (Live(t) /\ Live(u) /\ t # u) => Tid[t] # Tid[u]

(* A thread that has found its id in the list, and whose predecessor there *)
(* has not been freed, will read the node it found.                        *)
AdoptsFound ==
    \A t \in Threads : (pc[t] = "adopt" /\ t \notin dangling) =>
        /\ indirect[t] \in head \union {NULL}
        /\ link[indirect[t]] = Id(t) /\ Id(t) \in head

OwnInv ==
    /\ TypeInv /\ LiveTidsDiffer /\ mishap # "foreign"
    /\ mishap = "no" => RcuInv /\ AdoptsFound

LEMMA LiveIdsDiffer ==
    ASSUME IdsDistinguish, LiveTidsDiffer, NEW t \in Threads, NEW u \in Threads,
           Live(t), Live(u), t # u
    PROVE  Id(t) # Id(u)
BY DEF IdsDistinguish, LiveTidsDiffer

LEMMA LiveTidsStep ==
    ASSUME TypeOK, LiveTidsDiffer, [Next]_rcuVars
    PROVE  LiveTidsDiffer'
<1>1. ASSUME NEW t \in Threads, pthread_create(t) PROVE LiveTidsDiffer'
  BY <1>1 DEF pthread_create, LiveTidsDiffer, Live, TypeOK
<1>2. ASSUME \A t \in Threads : Live(t)' => Live(t) PROVE LiveTidsDiffer'
  BY <1>2 DEF LiveTidsDiffer
<1>3. ASSUME NEW t \in Threads, pc[t] \notin {"unborn", "dead"} \/ pc' = pc,
             pc' = pc \/ \E x : pc' = [pc EXCEPT ![t] = x]
      PROVE  \A u \in Threads : Live(u)' => Live(u)
  BY <1>3 DEF Live, TypeOK
<1> QED
  BY <1>1, <1>2, <1>3 DEF Next, rcuVars, listVars, Finished, pthread_exit, Live,
   mthpc_rcu_thread_init, mthpc_rcu_add_found, mthpc_rcu_add_adopt,
   mthpc_rcu_thread_exit, mthpc_rcu_read_lock_load, mthpc_rcu_read_lock_store,
   mthpc_rcu_read_lock_nested, mthpc_rcu_read_unlock, mthpc_synchronize_rcu_lock,
   mthpc_wait_for_readers, mthpc_synchronize_rcu_flip, mthpc_synchronize_rcu_unlock

LEMMA AdoptsFoundStep ==
    ASSUME IdsDistinguish, TypeOK, RcuInv, LiveTidsDiffer, AdoptsFound, [Next]_rcuVars,
           TypeOK'
    PROVE  AdoptsFound'
<1> USE RcuAssumption, IdType
<1> SUFFICES ASSUME NEW t \in Threads, pc'[t] = "adopt", t \notin dangling'
             PROVE  /\ indirect'[t] \in head' \union {NULL}
                    /\ link'[indirect'[t]] = Id(t) /\ Id(t) \in head'
  BY DEF AdoptsFound
<1>1. ASSUME NEW u \in Threads, mthpc_rcu_add_found(u)
      PROVE  /\ indirect'[t] \in head' \union {NULL}
             /\ link'[indirect'[t]] = Id(t) /\ Id(t) \in head'
  BY <1>1 DEF mthpc_rcu_add_found, AdoptsFound, TypeOK
<1> USE DEF AdoptsFound
<1>2. ASSUME NEW u \in Threads, mthpc_rcu_add_adopt(u)
      PROVE  /\ indirect'[t] \in head' \union {NULL}
             /\ link'[indirect'[t]] = Id(t) /\ Id(t) \in head'
  BY <1>2 DEF mthpc_rcu_add_adopt, TypeOK
<1>3. ASSUME NEW u \in Threads, mthpc_rcu_thread_init(u)
      PROVE  /\ indirect'[t] \in head' \union {NULL}
             /\ link'[indirect'[t]] = Id(t) /\ Id(t) \in head'
  <2>1. pc[t] = "adopt" /\ t \notin dangling /\ indirect' = indirect /\ Id(u) \notin head
        /\ head' = head \union {Id(u)}
    BY <1>3 DEF mthpc_rcu_thread_init
  <2>2. PICK last : /\ link[last] = NULL
                    /\ link' = [link EXCEPT ![last] = Id(u), ![Id(u)] = NULL]
    BY <1>3 DEF mthpc_rcu_thread_init
  <2>3. indirect[t] # last /\ indirect[t] # Id(u)
    BY <2>1, <2>2
  <2> QED BY <2>1, <2>2, <2>3 DEF TypeOK
<1>4. ASSUME NEW u \in Threads, mthpc_rcu_thread_exit(u)
      PROVE  /\ indirect'[t] \in head' \union {NULL}
             /\ link'[indirect'[t]] = Id(t) /\ Id(t) \in head'
  <2>1. pc[t] = "adopt" /\ t \notin dangling /\ indirect' = indirect /\ pc[u] = "idle"
        /\ head' = head \ {Id(u)} /\ indirect[t] # Id(u)
    BY <1>4 DEF mthpc_rcu_thread_exit, Unlink
  <2>2. Id(t) # Id(u)
    BY <2>1, LiveIdsDiffer DEF Live
  <2>3. link'[indirect[t]] = link[indirect[t]]
    BY <1>4, <2>1, <2>2 DEF mthpc_rcu_thread_exit, Unlink, TypeOK
  <2> QED BY <2>1, <2>2, <2>3
<1>5. ASSUME pc[t] = "adopt", UNCHANGED <<head, link, indirect, dangling>>
      PROVE  /\ indirect'[t] \in head' \union {NULL}
             /\ link'[indirect'[t]] = Id(t) /\ Id(t) \in head'
  BY <1>5
<1>6. ASSUME NEW u \in Threads,
             pc' = pc \/ \E x : x # "adopt" /\ pc' = [pc EXCEPT ![u] = x]
      PROVE  pc[t] = "adopt"
  BY <1>6 DEF TypeOK
<1> QED
  BY <1>1, <1>2, <1>3, <1>4, <1>5, <1>6 DEF Next, rcuVars, listVars, Finished,
   pthread_create, pthread_exit, mthpc_rcu_read_lock_load, mthpc_rcu_read_lock_store,
   mthpc_rcu_read_lock_nested, mthpc_rcu_read_unlock, mthpc_synchronize_rcu_lock,
   mthpc_wait_for_readers, mthpc_synchronize_rcu_flip, mthpc_synchronize_rcu_unlock

(* As long as (unsigned int)pthread_self() tells live threads apart,       *)
(* mthpc_rcu_add() never hands out the node of another thread, unless the  *)
(* node that it reads *indirect from has been freed meanwhile.             *)
THEOREM NoForeignNode ==
    ASSUME IdsDistinguish PROVE Spec => [](mishap # "foreign")
<1>1. Init => OwnInv
  <2> SUFFICES ASSUME Init PROVE OwnInv
    OBVIOUS
  <2>1. TypeInv /\ RcuInv /\ mishap = "no" /\ \A t \in Threads : pc[t] = "unborn"
    BY TypeInit, RcuInvInit DEF Init
  <2> QED BY <2>1 DEF OwnInv, LiveTidsDiffer, Live, AdoptsFound
<1>2. OwnInv /\ [Next]_rcuVars => OwnInv'
  <2> SUFFICES ASSUME OwnInv, [Next]_rcuVars PROVE OwnInv'
    OBVIOUS
  <2>1. TypeInv' /\ LiveTidsDiffer' /\ TypeOK /\ TypeOK'
    BY TypeStep, LiveTidsStep DEF OwnInv, TypeInv
  <2>2. mishap' = "no" => RcuInv' /\ AdoptsFound'
    BY <2>1, MishapStays, RcuInvStep, AdoptsFoundStep DEF OwnInv
  <2>3. mishap' # "foreign"
    <3>1. ASSUME NEW t \in Threads, mthpc_rcu_add_adopt(t), mishap = "no",
                 t \notin dangling
          PROVE  mishap' = "no"
      <4>1. PICK node \in {link[indirect[t]]} :
                mishap' = IF node = Id(t) /\ node \in head
                             /\ \A u \in Threads : node_ptr[u] # node
                          THEN mishap ELSE Noted("foreign")
        BY <3>1 DEF mthpc_rcu_add_adopt
      <4>2. node = Id(t) /\ Id(t) \in head
        BY <3>1, <4>1 DEF mthpc_rcu_add_adopt, OwnInv, AdoptsFound
      <4>3. ASSUME NEW u \in Threads, node_ptr[u] = Id(t) PROVE FALSE
        <5>1. Live(u) /\ Id(u) = Id(t) /\ Registered(u)
          BY <3>1, <4>3, IdType DEF OwnInv, RcuInv, NodeLinked, Registered
        <5>2. u # t /\ Live(t)
          BY <3>1, <5>1 DEF mthpc_rcu_add_adopt, OwnInv, RcuInv, ControlState, Live
        <5> QED BY <5>1, <5>2, LiveIdsDiffer DEF OwnInv
      <4> QED BY <3>1, <4>1, <4>2, <4>3
    <3>2. ASSUME NEW t \in Threads, mthpc_rcu_add_adopt(t), mishap # "no" \/ t \in dangling
          PROVE  mishap' # "foreign"
      BY <3>2 DEF mthpc_rcu_add_adopt, Noted, OwnInv
    <3> QED
      BY <3>1, <3>2 DEF OwnInv, Next, rcuVars, listVars, Finished, Noted,
   pthread_create, pthread_exit, mthpc_rcu_thread_init, mthpc_rcu_add_found,
   mthpc_rcu_thread_exit, mthpc_rcu_read_lock_load, mthpc_rcu_read_lock_store,
   mthpc_rcu_read_lock_nested, mthpc_rcu_read_unlock, mthpc_synchronize_rcu_lock,
   mthpc_wait_for_readers, mthpc_synchronize_rcu_flip, mthpc_synchronize_rcu_unlock
  <2> QED BY <2>1, <2>2, <2>3 DEF OwnInv
<1>3. OwnInv => mishap # "foreign"
  BY DEF OwnInv
<1> QED BY <1>1, <1>2, <1>3, PTL DEF Spec
=============================================================================
