-------------------------- MODULE RcuReclaimProofs --------------------------
(***************************************************************************)
(* What mthpc_synchronize_rcu() guarantees to the client of RcuReclaim,    *)
(* for any number of threads, objects and nested locks.                    *)
(***************************************************************************)
EXTENDS RcuReclaim, RcuProofs

Phase(r) == node_gp[Id(r)].phase

(* r got, in its current critical section, an object u is about to free. *)
Holds(u, r) == pending[u] \intersect refs[r] # {}

(* Objects are held inside critical sections only, are replaced before     *)
(* they are pending or freed, and the calls of synchronize are counted     *)
(* from the replace.                                                       *)
ClientState ==
    /\ \A t \in Threads : depth[t] = 0 => refs[t] = {}
    /\ \A t \in Threads : \A o \in pending[t] : o < ptr
    /\ twice \subseteq freed /\ \A o \in freed : o < ptr
    /\ \A t \in Threads : pending[t] = {} => syncs[t] = 0
    /\ \A t \in Threads : (lock = t /\ pending[t] # {}) => syncs[t] < MaxSync

BaseInv == RcuInv /\ ClientTypeOK /\ ClientState

(* A reader whose phase was current when it was stored has the current     *)
(* phase, or the updater in its second wait still has to pass its node.    *)
FreshPhase ==
    \A r \in Threads : (depth[r] > 0 /\ ~stale[r]) =>
        \/ Phase(r) = gp_seq
        \/ (\E h \in Threads : pc[h] = "wait2") /\ Id(r) \in todo

(* Such a reader blocks the first wait of whoever wants to free what it    *)
(* holds, so that the updater gets no further while it holds it.           *)
FreshBlocks ==
    \A u, r \in Threads : (Holds(u, r) /\ ~stale[r]) =>
        /\ pc[u] = "wait1" => Id(r) \in todo
        /\ pc[u] # "wait2"
        /\ syncs[u] = 0

FreshInv == BaseInv /\ FreshPhase /\ FreshBlocks /\ FreshReadersProtected

(* Any reader that survives the first call of synchronize has the current  *)
(* phase from its flip on, so it blocks the first wait of every later call.*)
FirstCallSorts ==
    \A u, r \in Threads : (Holds(u, r) /\ syncs[u] = 0) =>
        /\ (pc[u] = "wait1" /\ Id(r) \notin todo) => Phase(r) # gp_seq
        /\ pc[u] = "wait2" => Phase(r) = gp_seq

SecondCallBlocks ==
    \A u, r \in Threads : (Holds(u, r) /\ syncs[u] # 0) =>
        /\ syncs[u] = 1
        /\ Phase(r) = gp_seq
        /\ \A h \in Threads : pc[h] # "wait2" /\ (pc[h] = "wait1" => Id(r) \in todo)

TwoCallInv == BaseInv /\ FirstCallSorts /\ SecondCallBlocks /\ TwoCallsProtect
-----------------------------------------------------------------------------
(* A step of the composition is a step of Rcu. *)
LEMMA ProjectsToRcu == [NextAll]_vars => [Next]_rcuVars
BY DEF NextAll, Step, Lifecycle, ReadLockLoad, ReadLockStore, ReadLockNested,
   ReadUnlock, SyncLock, SyncWait, SyncFlip, SyncUnlock, mthpc_rcu_dereference,
   mthpc_rcu_replace_pointer, free, Next, vars, rcuVars

(* The steps that do not belong to mthpc_synchronize_rcu() leave the       *)
(* updater's control, its walk and the phase alone.                        *)
Quiet ==
    /\ gp_seq' = gp_seq /\ todo' = todo /\ syncs' = syncs
    /\ \A h \in Threads : /\ pc'[h] = "wait1" <=> pc[h] = "wait1"
                          /\ pc'[h] = "wait2" <=> pc[h] = "wait2"

LEMMA QuietStep ==
    ASSUME TypeOK, [NextAll]_vars
    PROVE  \/ Quiet
           \/ \E t \in Threads : free(t)
           \/ \E t \in Threads : SyncLock(t)
           \/ \E t \in Threads : SyncWait(t)
           \/ \E t \in Threads : SyncFlip(t)
           \/ \E t \in Threads : SyncUnlock(t)
<1> USE DEF TypeOK, Quiet
<1>1. ASSUME NEW t \in Threads, Lifecycle(t) PROVE Quiet
  BY <1>1 DEF Lifecycle, pthread_create, pthread_exit, mthpc_rcu_thread_init,
     mthpc_rcu_add_found, mthpc_rcu_add_adopt, mthpc_rcu_thread_exit, clientVars
<1>2. ASSUME NEW t \in Threads, ReadLockLoad(t) PROVE Quiet
  BY <1>2 DEF ReadLockLoad, mthpc_rcu_read_lock_load, clientVars
<1>3. ASSUME NEW t \in Threads, ReadLockStore(t) PROVE Quiet
  BY <1>3 DEF ReadLockStore, mthpc_rcu_read_lock_store
<1>4. ASSUME NEW t \in Threads, ReadLockNested(t) PROVE Quiet
  BY <1>4 DEF ReadLockNested, mthpc_rcu_read_lock_nested, clientVars
<1>5. ASSUME NEW t \in Threads, ReadUnlock(t) PROVE Quiet
  BY <1>5 DEF ReadUnlock, mthpc_rcu_read_unlock
<1>6. ASSUME NEW t \in Threads, mthpc_rcu_dereference(t) PROVE Quiet
  BY <1>6 DEF mthpc_rcu_dereference, rcuVars
<1>7. ASSUME NEW t \in Threads, mthpc_rcu_replace_pointer(t) PROVE Quiet
  BY <1>7 DEF mthpc_rcu_replace_pointer, rcuVars
<1>8. CASE (Finished /\ UNCHANGED clientVars) \/ UNCHANGED vars
  BY <1>8 DEF Finished, rcuVars, clientVars, vars
<1> QED BY <1>1, <1>2, <1>3, <1>4, <1>5, <1>6, <1>7, <1>8 DEF NextAll, Step

(* As long as a reader stays in its critical section its phase is not      *)
(* written, by itself or by anybody else.                                  *)
LEMMA PhaseKept ==
    ASSUME RcuInv, [Next]_rcuVars, mishap' = "no", NEW r \in Threads,
           depth[r] > 0, depth'[r] > 0
    PROVE  Phase(r)' = Phase(r) /\ node_gp[Id(r)].nest # 0 /\ Id(r) \in head
<1> USE RcuAssumption, IdType DEF Phase, TypeOK, RcuInv
<1>1. /\ Registered(r) /\ Live(r) /\ node_ptr[r] = Id(r) /\ Id(r) \in head
      /\ node_gp[Id(r)].nest = depth[r] /\ node_gp[Id(r)] \in GpSeq
  BY DEF NestIsDepth, NodeLinked
<1>2. \A t \in Threads : (Registered(t) /\ t # r) => Id(t) # Id(r)
  BY <1>1 DEF NodesApart
<1>3. \A t \in Threads : pc[t] = "store" \/ depth[t] > 0 => Registered(t)
  BY DEF ControlState, NestIsDepth
<1>4. ASSUME NEW t \in Threads, mthpc_rcu_thread_init(t) PROVE Phase(r)' = Phase(r)
  BY <1>1, <1>4 DEF mthpc_rcu_thread_init
<1>5. ASSUME NEW t \in Threads, mthpc_rcu_thread_exit(t) PROVE Phase(r)' = Phase(r)
  <2>1. t # r
    BY <1>5 DEF mthpc_rcu_thread_exit, Unlink
  <2> QED BY <1>2, <1>3, <1>5, <2>1 DEF mthpc_rcu_thread_exit, Unlink
<1>6. ASSUME NEW t \in Threads, mthpc_rcu_read_lock_store(t) PROVE Phase(r)' = Phase(r)
  <2>1. t # r /\ node_ptr[t] = Id(t)
    BY <1>6 DEF mthpc_rcu_read_lock_store, ControlState, NodeLinked
  <2> QED BY <1>2, <1>3, <1>6, <2>1 DEF mthpc_rcu_read_lock_store
<1>7. ASSUME NEW t \in Threads, mthpc_rcu_read_lock_nested(t) PROVE Phase(r)' = Phase(r)
  <2>1. node_ptr[t] = Id(t) /\ (t # r => Id(t) # Id(r))
    BY <1>2, <1>3, <1>7 DEF mthpc_rcu_read_lock_nested, NodeLinked
  <2>2. t = r => Inc(node_gp[Id(r)]).phase = node_gp[Id(r)].phase
    <3>1. t = r => node_gp[Id(r)].nest < NestMask
      <4>1. t = r => mishap' = IF node_gp[Id(r)].nest = NestMask THEN Noted("carry")
                               ELSE mishap
        BY <1>1, <1>7 DEF mthpc_rcu_read_lock_nested
      <4>2. Noted("carry") # "no"
        BY DEF Noted
      <4>3. node_gp[Id(r)].nest \in 0..NestMask
        BY <1>1 DEF GpSeq
      <4> QED BY <4>1, <4>2, <4>3
    <3> QED BY <1>1, <3>1, IncDec
  <2> QED BY <1>1, <1>7, <2>1, <2>2 DEF mthpc_rcu_read_lock_nested
<1>8. ASSUME NEW t \in Threads, mthpc_rcu_read_unlock(t) PROVE Phase(r)' = Phase(r)
  <2>1. node_ptr[t] = Id(t) /\ (t # r => Id(t) # Id(r))
    BY <1>2, <1>3, <1>8 DEF mthpc_rcu_read_unlock, NodeLinked, NestIsDepth
  <2>2. Dec(node_gp[Id(r)]).phase = node_gp[Id(r)].phase
    BY <1>1, IncDec
  <2> QED BY <1>1, <1>8, <2>1, <2>2 DEF mthpc_rcu_read_unlock
<1>9. node_gp' = node_gp => Phase(r)' = Phase(r)
  OBVIOUS
<1> QED
  BY <1>1, <1>4, <1>5, <1>6, <1>7, <1>8, <1>9 DEF Next, Finished, rcuVars,
     pthread_create, pthread_exit, mthpc_rcu_add_found, mthpc_rcu_add_adopt,
     mthpc_rcu_read_lock_load,
     mthpc_synchronize_rcu_lock, mthpc_wait_for_readers,
     mthpc_synchronize_rcu_flip, mthpc_synchronize_rcu_unlock
-----------------------------------------------------------------------------
(* The type of every variable, and what ties the client to the readers. *)
LEMMA BaseInit == InitAll => BaseInv
<1> SUFFICES ASSUME InitAll PROVE BaseInv
  OBVIOUS
<1>1. RcuInv
  BY RcuInvInit DEF InitAll
<1>2. ClientTypeOK /\ ClientState
  BY <1>1, ReclaimAssumption DEF InitAll, Init, ClientTypeOK, ClientState, RcuInv, Objects
<1> QED BY <1>1, <1>2 DEF BaseInv

(* The type of the client's state, whatever mishap there was. *)
LEMMA ClientStep ==
    ASSUME TypeInv, ClientTypeOK, ClientState, [NextAll]_vars
    PROVE  TypeInv' /\ ClientTypeOK' /\ ClientState'
<1> USE RcuAssumption, ReclaimAssumption
<1>1. TypeInv' /\ TypeOK'
  BY ProjectsToRcu, TypeStep DEF TypeInv
<1> SUFFICES ClientTypeOK' /\ ClientState'
  BY <1>1
<1> USE <1>1 DEF ClientTypeOK, ClientState, TypeOK, Objects
<1>2. ASSUME NEW t \in Threads, Lifecycle(t) PROVE ClientTypeOK' /\ ClientState'
  BY <1>2 DEF Lifecycle, clientVars, pthread_create, pthread_exit,
     mthpc_rcu_thread_init, mthpc_rcu_add_found, mthpc_rcu_add_adopt,
     mthpc_rcu_thread_exit
<1>3. ASSUME NEW t \in Threads, ReadLockLoad(t) PROVE ClientTypeOK' /\ ClientState'
  BY <1>3 DEF ReadLockLoad, clientVars, mthpc_rcu_read_lock_load
<1>4. ASSUME NEW t \in Threads, ReadLockStore(t) PROVE ClientTypeOK' /\ ClientState'
  BY <1>4 DEF ReadLockStore, mthpc_rcu_read_lock_store
<1>5. ASSUME NEW t \in Threads, ReadLockNested(t) PROVE ClientTypeOK' /\ ClientState'
  <2>1. /\ lock' = lock /\ depth' = [depth EXCEPT ![t] = depth[t] + 1]
        /\ UNCHANGED <<ptr, refs, pending, syncs, freed, twice, stale>>
    BY <1>5 DEF ReadLockNested, clientVars, mthpc_rcu_read_lock_nested
  <2>2. ClientTypeOK'
    BY <2>1
  <2>3. ClientState'
    BY <2>1
  <2> QED BY <2>2, <2>3
<1>6. ASSUME NEW t \in Threads, ReadUnlock(t) PROVE ClientTypeOK' /\ ClientState'
  <2>1. /\ lock' = lock /\ depth' = [depth EXCEPT ![t] = depth[t] - 1]
        /\ refs' = [refs EXCEPT ![t] = IF depth[t] = 1 THEN {} ELSE refs[t]]
        /\ stale' = [stale EXCEPT ![t] = (stale[t] /\ depth[t] > 1)]
        /\ UNCHANGED <<ptr, pending, syncs, freed, twice>>
    BY <1>6 DEF ReadUnlock, mthpc_rcu_read_unlock
  <2>2. ClientTypeOK'
    BY <2>1
  <2>3. ClientState'
    BY <2>1
  <2> QED BY <2>2, <2>3
<1>7. ASSUME NEW t \in Threads, SyncLock(t) PROVE ClientTypeOK' /\ ClientState'
  BY <1>7 DEF SyncLock, clientVars, mthpc_synchronize_rcu_lock
<1>8. ASSUME NEW t \in Threads, SyncWait(t) PROVE ClientTypeOK' /\ ClientState'
  BY <1>8 DEF SyncWait, clientVars, mthpc_wait_for_readers
<1>9. ASSUME NEW t \in Threads, SyncFlip(t) PROVE ClientTypeOK' /\ ClientState'
  BY <1>9 DEF SyncFlip, clientVars, mthpc_synchronize_rcu_flip
<1>10. ASSUME NEW t \in Threads, SyncUnlock(t) PROVE ClientTypeOK' /\ ClientState'
  <2>1. lock = t
    BY <1>10 DEF SyncUnlock, mthpc_synchronize_rcu_unlock, TypeInv
  <2> QED BY <1>10, <2>1 DEF SyncUnlock, mthpc_synchronize_rcu_unlock
<1>11. ASSUME NEW t \in Threads, mthpc_rcu_dereference(t) PROVE ClientTypeOK' /\ ClientState'
  <2>1. /\ UNCHANGED rcuVars /\ ptr' = ptr /\ pending' = pending /\ syncs' = syncs
        /\ freed' = freed /\ twice' = twice /\ stale' = stale
        /\ refs' = [refs EXCEPT ![t] = refs[t] \union {ptr}] /\ depth[t] > 0
    BY <1>11 DEF mthpc_rcu_dereference
  <2> QED BY <2>1 DEF rcuVars
<1>12. ASSUME NEW t \in Threads, mthpc_rcu_replace_pointer(t) PROVE ClientTypeOK' /\ ClientState'
  <2>1. /\ lock' = lock /\ depth' = depth /\ ptr' = ptr + 1 /\ ptr' \in Objects
        /\ pending' = [pending EXCEPT ![t] = {ptr}]
        /\ UNCHANGED <<refs, syncs, freed, twice, stale>>
    BY <1>12 DEF mthpc_rcu_replace_pointer, rcuVars
  <2>2. pc[t] = "idle" /\ lock # t
    BY <1>12 DEF mthpc_rcu_replace_pointer, TypeInv
  <2>3. ClientTypeOK'
    BY <2>1
  <2>4. \A o \in Objects : o < ptr => o < ptr'
    BY <2>1
  <2>5. ClientState'
    BY <2>1, <2>2, <2>4
  <2> QED BY <2>3, <2>5
<1>13. ASSUME NEW t \in Threads, free(t) PROVE ClientTypeOK' /\ ClientState'
  <2>1. /\ lock' = lock /\ depth' = depth /\ UNCHANGED <<refs, ptr, stale>>
        /\ freed' = freed \union pending[t]
        /\ twice' \subseteq twice \union pending[t]
        /\ pending' = [pending EXCEPT ![t] = {}]
        /\ syncs' = [syncs EXCEPT ![t] = 0]
    BY <1>13 DEF free, rcuVars
  <2>2. pending[t] \subseteq Objects /\ freed' \subseteq Objects /\ twice' \subseteq Objects
    BY <2>1
  <2>3. pending' \in [Threads -> SUBSET Objects] /\ syncs' \in [Threads -> 0..MaxSync]
    BY <2>1
  <2>4. ClientTypeOK'
    BY <2>1, <2>2, <2>3
  <2>5. ClientState'
    BY <2>1
  <2> QED BY <2>4, <2>5
<1>14. CASE (Finished /\ UNCHANGED clientVars) \/ UNCHANGED vars
  <2>1. depth' = depth /\ lock' = lock /\ UNCHANGED clientVars
    BY <1>14 DEF Finished, rcuVars, clientVars, vars
  <2>2. ClientTypeOK'
    BY <2>1 DEF clientVars
  <2>3. ClientState'
    BY <2>1 DEF clientVars
  <2> QED BY <2>2, <2>3
<1> QED BY <1>2, <1>3, <1>4, <1>5, <1>6, <1>7, <1>8, <1>9, <1>10, <1>11, <1>12,
           <1>13, <1>14 DEF NextAll, Step

LEMMA BaseStep ==
    ASSUME BaseInv, [NextAll]_vars, mishap' = "no"
    PROVE  BaseInv'
<1>1. TypeInv
  BY RcuAssumption DEF BaseInv, RcuInv, TypeInv, TypeOK, ControlState
<1> QED BY <1>1, ProjectsToRcu, RcuInvStep, ClientStep DEF BaseInv

(* Every reachable state of the composition is well typed. *)
THEOREM ClientTypeCorrect == SpecAll => []ClientTypeOK
<1> DEFINE Inv == TypeInv /\ ClientTypeOK /\ ClientState
<1>1. InitAll => Inv
  BY BaseInit, TypeInit DEF BaseInv, InitAll
<1>2. Inv /\ [NextAll]_vars => Inv'
  BY ClientStep
<1>3. Inv => ClientTypeOK
  OBVIOUS
<1> HIDE DEF Inv
<1> QED BY <1>1, <1>2, <1>3, PTL DEF SpecAll
-----------------------------------------------------------------------------
(* No reader comes to hold an object that is already replaced: whoever     *)
(* holds a pending object after a step did so before it, in the same       *)
(* critical section.                                                       *)
LEMMA HeldBefore ==
    ASSUME BaseInv, [NextAll]_vars, NEW u \in Threads, NEW r \in Threads,
           Holds(u, r)'
    PROVE  /\ depth[r] > 0 /\ depth'[r] > 0 /\ stale'[r] = stale[r]
           /\ \/ Holds(u, r)
              \/ /\ syncs'[u] = 0 /\ pc'[u] = "idle"
<1> USE RcuAssumption, ReclaimAssumption
        DEF BaseInv, ClientTypeOK, ClientState, TypeOK, Objects, Holds
<1>1. ASSUME NEW t \in Threads, ReadLockStore(t)
      PROVE  depth[r] > 0 /\ depth'[r] > 0 /\ stale'[r] = stale[r] /\ Holds(u, r)
  <2>1. depth[t] = 0
    BY <1>1 DEF ReadLockStore, mthpc_rcu_read_lock_store, RcuInv, ControlState
  <2>2. refs[t] = {}
    BY <2>1
  <2> QED BY <1>1, <2>2 DEF ReadLockStore, mthpc_rcu_read_lock_store
<1>2. ASSUME NEW t \in Threads, ReadUnlock(t)
      PROVE  depth[r] > 0 /\ depth'[r] > 0 /\ stale'[r] = stale[r] /\ Holds(u, r)
  <2>1. CASE r = t
    <3>1. depth[t] # 1
      BY <1>2, <2>1 DEF ReadUnlock
    <3>2. depth[t] > 1 /\ depth'[t] = depth[t] - 1 /\ Holds(u, r)
      BY <1>2, <2>1, <3>1 DEF ReadUnlock, mthpc_rcu_read_unlock
    <3>3. stale'[t] = (stale[t] /\ depth[t] > 1)
      BY <1>2 DEF ReadUnlock
    <3>4. stale'[t] = stale[t]
      BY <3>2, <3>3
    <3> QED BY <2>1, <3>2, <3>4
  <2>2. CASE r # t
    BY <1>2, <2>2 DEF ReadUnlock, mthpc_rcu_read_unlock
  <2> QED BY <2>1, <2>2
<1>3. ASSUME NEW t \in Threads, mthpc_rcu_dereference(t)
      PROVE  depth[r] > 0 /\ depth'[r] > 0 /\ stale'[r] = stale[r] /\ Holds(u, r)
  BY <1>3 DEF mthpc_rcu_dereference, rcuVars
<1>4. ASSUME NEW t \in Threads, mthpc_rcu_replace_pointer(t)
      PROVE  /\ depth[r] > 0 /\ depth'[r] > 0 /\ stale'[r] = stale[r]
             /\ Holds(u, r) \/ (syncs'[u] = 0 /\ pc'[u] = "idle")
  BY <1>4 DEF mthpc_rcu_replace_pointer, rcuVars
<1>5. ASSUME NEW t \in Threads, free(t)
      PROVE  depth[r] > 0 /\ depth'[r] > 0 /\ stale'[r] = stale[r] /\ Holds(u, r)
  BY <1>5 DEF free, rcuVars
<1>6. ASSUME UNCHANGED <<refs, pending, stale>>, depth' = depth
      PROVE  depth[r] > 0 /\ depth'[r] > 0 /\ stale'[r] = stale[r] /\ Holds(u, r)
  BY <1>6
<1>7. ASSUME NEW t \in Threads, ReadLockNested(t)
      PROVE  depth[r] > 0 /\ depth'[r] > 0 /\ stale'[r] = stale[r] /\ Holds(u, r)
  BY <1>7 DEF ReadLockNested, mthpc_rcu_read_lock_nested, clientVars
<1> QED
  BY <1>1, <1>2, <1>3, <1>4, <1>5, <1>6, <1>7
     DEF NextAll, Step, Lifecycle, ReadLockLoad, SyncLock, SyncWait, SyncFlip,
         SyncUnlock, clientVars, vars, rcuVars, Finished, pthread_create,
         pthread_exit, mthpc_rcu_thread_init, mthpc_rcu_thread_exit,
         mthpc_rcu_add_found, mthpc_rcu_add_adopt,
         mthpc_rcu_read_lock_load, mthpc_synchronize_rcu_lock,
         mthpc_wait_for_readers, mthpc_synchronize_rcu_flip,
         mthpc_synchronize_rcu_unlock

(* Nor does a reader come to hold an object that is already freed. *)
LEMMA FreedBefore ==
    ASSUME BaseInv, [NextAll]_vars, NEW r \in Threads,
           refs'[r] \intersect freed' # {}
    PROVE  /\ stale'[r] = stale[r]
           /\ \/ refs[r] \intersect freed # {}
              \/ \E t \in Threads : free(t) /\ Holds(t, r)
<1> USE RcuAssumption, ReclaimAssumption
        DEF BaseInv, ClientTypeOK, ClientState, TypeOK, Objects, Holds
<1>1. ASSUME NEW t \in Threads, ReadLockStore(t)
      PROVE  stale'[r] = stale[r] /\ refs[r] \intersect freed # {}
  <2>1. refs[t] = {}
    BY <1>1 DEF ReadLockStore, mthpc_rcu_read_lock_store, RcuInv, ControlState
  <2> QED BY <1>1, <2>1 DEF ReadLockStore, mthpc_rcu_read_lock_store
<1>2. ASSUME NEW t \in Threads, ReadUnlock(t)
      PROVE  stale'[r] = stale[r] /\ refs[r] \intersect freed # {}
  <2>1. CASE r = t
    <3>1. depth[t] # 1 /\ refs[r] \intersect freed # {}
      BY <1>2, <2>1 DEF ReadUnlock
    <3>2. depth[t] > 1
      BY <1>2, <3>1 DEF ReadUnlock, mthpc_rcu_read_unlock
    <3>3. stale'[t] = (stale[t] /\ depth[t] > 1)
      BY <1>2 DEF ReadUnlock
    <3>4. stale'[t] = stale[t]
      BY <3>2, <3>3
    <3> QED BY <2>1, <3>1, <3>4
  <2>2. CASE r # t
    BY <1>2, <2>2 DEF ReadUnlock, mthpc_rcu_read_unlock
  <2> QED BY <2>1, <2>2
<1>3. ASSUME NEW t \in Threads, mthpc_rcu_dereference(t)
      PROVE  stale'[r] = stale[r] /\ refs[r] \intersect freed # {}
  BY <1>3 DEF mthpc_rcu_dereference
<1>4. ASSUME NEW t \in Threads, free(t)
      PROVE  stale'[r] = stale[r] /\ (refs[r] \intersect freed # {} \/ Holds(t, r))
  BY <1>4 DEF free
<1>5. ASSUME UNCHANGED <<refs, freed, stale>>
      PROVE  stale'[r] = stale[r] /\ refs[r] \intersect freed # {}
  BY <1>5
<1> QED
  BY <1>1, <1>2, <1>3, <1>4, <1>5
     DEF NextAll, Step, Lifecycle, ReadLockLoad, ReadLockNested, SyncLock,
         SyncWait, SyncFlip, SyncUnlock, mthpc_rcu_replace_pointer, clientVars, vars

LEMMA FreedTwiceBefore ==
    ASSUME BaseInv, [NextAll]_vars, NEW r \in Threads,
           refs'[r] \intersect twice' # {}
    PROVE  \/ refs[r] \intersect twice # {}
           \/ \E t \in Threads : free(t) /\ Holds(t, r) /\ syncs[t] > 1
<1> USE RcuAssumption, ReclaimAssumption
        DEF BaseInv, ClientTypeOK, ClientState, TypeOK, Objects, Holds
<1>1. ASSUME NEW t \in Threads, ReadUnlock(t) PROVE refs[r] \intersect twice # {}
  BY <1>1 DEF ReadUnlock
<1>2. ASSUME NEW t \in Threads, mthpc_rcu_dereference(t)
      PROVE  refs[r] \intersect twice # {}
  BY <1>2 DEF mthpc_rcu_dereference
<1>3. ASSUME NEW t \in Threads, free(t)
      PROVE  refs[r] \intersect twice # {} \/ (Holds(t, r) /\ syncs[t] > 1)
  BY <1>3 DEF free
<1>4. ASSUME UNCHANGED <<refs, twice>> PROVE refs[r] \intersect twice # {}
  BY <1>4
<1> QED
  BY <1>1, <1>2, <1>3, <1>4
     DEF NextAll, Step, Lifecycle, ReadLockLoad, ReadLockStore, ReadLockNested, SyncLock,
         SyncWait, SyncFlip, SyncUnlock, mthpc_rcu_replace_pointer, clientVars, vars

(* A reader enters its critical section only by the store of a read lock,  *)
(* and inside it neither the store nor its history changes.                *)
LEMMA EntersByStore ==
    ASSUME BaseInv, [NextAll]_vars, NEW r \in Threads, depth'[r] > 0
    PROVE  \/ depth[r] = 0 /\ ReadLockStore(r)
           \/ depth[r] > 0 /\ stale'[r] = stale[r]
<1> USE RcuAssumption DEF BaseInv, ClientTypeOK, TypeOK
<1>1. ASSUME NEW t \in Threads, ReadLockStore(t)
      PROVE  \/ depth[r] = 0 /\ ReadLockStore(r)
             \/ depth[r] > 0 /\ stale'[r] = stale[r]
  <2>1. depth[t] = 0
    BY <1>1 DEF ReadLockStore, mthpc_rcu_read_lock_store, RcuInv, ControlState
  <2> QED BY <1>1, <2>1 DEF ReadLockStore, mthpc_rcu_read_lock_store
<1>2. ASSUME NEW t \in Threads, ReadLockNested(t)
      PROVE  depth[r] > 0 /\ stale'[r] = stale[r]
  <2>1. depth[t] # 0
    BY <1>2 DEF ReadLockNested, mthpc_rcu_read_lock_nested, RcuInv, NestIsDepth
  <2> QED BY <1>2, <2>1 DEF ReadLockNested, mthpc_rcu_read_lock_nested, clientVars
<1>3. ASSUME NEW t \in Threads, ReadUnlock(t)
      PROVE  depth[r] > 0 /\ stale'[r] = stale[r]
  <2>1. CASE r = t
    <3>1. depth[t] > 1
      BY <1>3, <2>1 DEF ReadUnlock, mthpc_rcu_read_unlock
    <3>2. stale'[t] = (stale[t] /\ depth[t] > 1)
      BY <1>3 DEF ReadUnlock
    <3>3. stale'[t] = stale[t]
      BY <3>1, <3>2
    <3> QED BY <2>1, <3>1, <3>3
  <2>2. CASE r # t
    BY <1>3, <2>2 DEF ReadUnlock, mthpc_rcu_read_unlock
  <2> QED BY <2>1, <2>2
<1>4. ASSUME UNCHANGED <<depth, stale>> PROVE depth[r] > 0 /\ stale'[r] = stale[r]
  BY <1>4
<1> QED
  BY <1>1, <1>2, <1>3, <1>4
     DEF NextAll, Step, Lifecycle, ReadLockLoad, SyncLock, SyncWait, SyncFlip,
         SyncUnlock, clientVars, vars, rcuVars, Finished, pthread_create,
         pthread_exit, mthpc_rcu_thread_init, mthpc_rcu_thread_exit,
         mthpc_rcu_add_found, mthpc_rcu_add_adopt,
         mthpc_rcu_read_lock_load, mthpc_synchronize_rcu_lock,
         mthpc_wait_for_readers, mthpc_synchronize_rcu_flip,
         mthpc_synchronize_rcu_unlock, mthpc_rcu_dereference,
         mthpc_rcu_replace_pointer, free

(* At most one thread is in mthpc_synchronize_rcu(): the holder of lock. *)
LEMMA OneUpdater ==
    ASSUME RcuInv, NEW t \in Threads, NEW h \in Threads,
           pc[t] \in {"wait1", "wait2"}, pc[h] \in {"wait1", "wait2"}
    PROVE  t = h
BY DEF RcuInv, ControlState
-----------------------------------------------------------------------------
(* One call: the argument for readers whose phase was current. *)
LEMMA FreshPhaseStep ==
    ASSUME BaseInv, FreshPhase, [NextAll]_vars, mishap' = "no"
    PROVE  FreshPhase'
<1> SUFFICES ASSUME NEW r \in Threads, depth'[r] > 0, ~stale'[r]
             PROVE  \/ Phase(r)' = gp_seq'
                    \/ (\E h \in Threads : pc'[h] = "wait2") /\ Id(r) \in todo'
  BY DEF FreshPhase, Id
<1> USE RcuAssumption, IdType DEF BaseInv, ClientTypeOK, TypeOK, Phases
<1>1. CASE depth[r] = 0 /\ ReadLockStore(r)
  <2>1. node_ptr[r] = Id(r) /\ snap[r] = gp_seq
    BY <1>1 DEF ReadLockStore, mthpc_rcu_read_lock_store, RcuInv, ControlState, NodeLinked
  <2> QED BY <1>1, <2>1 DEF ReadLockStore, mthpc_rcu_read_lock_store, Phase
<1>2. CASE depth[r] > 0 /\ stale'[r] = stale[r]
  <2>1. Phase(r)' = Phase(r) /\ node_gp[Id(r)].nest # 0 /\ Id(r) \in head
    BY <1>2, ProjectsToRcu, PhaseKept
  <2>2. Phase(r) = gp_seq \/ ((\E h \in Threads : pc[h] = "wait2") /\ Id(r) \in todo)
    BY <1>2 DEF FreshPhase
  <2>3. CASE Quiet \/ \E t \in Threads : free(t)
    BY <2>1, <2>2, <2>3 DEF Quiet, free, rcuVars
  <2>4. ASSUME NEW t \in Threads, SyncLock(t) PROVE Phase(r) = gp_seq /\ gp_seq' = gp_seq
    BY <2>2, <2>4 DEF SyncLock, mthpc_synchronize_rcu_lock, RcuInv, ControlState
  <2>5. ASSUME NEW t \in Threads, SyncWait(t)
        PROVE  /\ gp_seq' = gp_seq /\ pc' = pc
               /\ Phase(r) = gp_seq \/ Id(r) \in todo'
    <3>1. PICK i \in todo : NodePassed(i, snap[t]) /\ todo' = todo \ {i}
      BY <2>5 DEF SyncWait, mthpc_wait_for_readers
    <3>2. pc[t] \in {"wait1", "wait2"} /\ gp_seq' = gp_seq /\ pc' = pc
      BY <2>5 DEF SyncWait, mthpc_wait_for_readers
    <3>3. CASE pc[t] = "wait1"
      BY <2>2, <3>2, <3>3, OneUpdater
    <3>4. CASE pc[t] = "wait2"
      <4>1. snap[t] = 1 - gp_seq
        BY <3>4 DEF RcuInv, ControlState
      <4>2. i = Id(r) => Phase(r) = gp_seq
        BY <2>1, <3>1, <4>1 DEF NodePassed, Passed, Phase, GpSeq
      <4> QED BY <2>2, <3>1, <3>2, <4>2
    <3> QED BY <3>2, <3>3, <3>4
  <2>6. ASSUME NEW t \in Threads, SyncFlip(t)
        PROVE  pc'[t] = "wait2" /\ Id(r) \in todo'
    BY <2>1, <2>6 DEF SyncFlip, mthpc_synchronize_rcu_flip
  <2>7. ASSUME NEW t \in Threads, SyncUnlock(t) PROVE Phase(r) = gp_seq /\ gp_seq' = gp_seq
    BY <2>2, <2>7 DEF SyncUnlock, mthpc_synchronize_rcu_unlock
  <2> QED BY QuietStep, <2>1, <2>2, <2>3, <2>4, <2>5, <2>6, <2>7
<1> QED BY EntersByStore, <1>1, <1>2

LEMMA FreshBlocksStep ==
    ASSUME BaseInv, FreshPhase, FreshBlocks, [NextAll]_vars, mishap' = "no"
    PROVE  FreshBlocks'
<1> SUFFICES ASSUME NEW u \in Threads, NEW r \in Threads, Holds(u, r)', ~stale'[r]
             PROVE  /\ pc'[u] = "wait1" => Id(r) \in todo'
                    /\ pc'[u] # "wait2"
                    /\ syncs'[u] = 0
  BY DEF FreshBlocks, Id
<1> USE RcuAssumption, IdType DEF BaseInv, ClientTypeOK, TypeOK, Phases
<1>1. depth[r] > 0 /\ depth'[r] > 0 /\ ~stale[r]
  BY HeldBefore
<1>2. Phase(r)' = Phase(r) /\ node_gp[Id(r)].nest # 0 /\ Id(r) \in head
  BY <1>1, ProjectsToRcu, PhaseKept
<1>3. CASE syncs'[u] = 0 /\ pc'[u] = "idle"
  BY <1>3
<1>4. CASE Holds(u, r)
  <2>1. (pc[u] = "wait1" => Id(r) \in todo) /\ pc[u] # "wait2" /\ syncs[u] = 0
    BY <1>1, <1>4 DEF FreshBlocks
  <2>2. CASE Quiet
    BY <2>1, <2>2 DEF Quiet
  <2>3. ASSUME NEW t \in Threads, free(t)
        PROVE  UNCHANGED <<pc, todo>> /\ syncs'[u] = 0
    BY <2>1, <2>3 DEF free, rcuVars
  <2>4. ASSUME NEW t \in Threads, SyncLock(t)
        PROVE  todo' = head /\ pc'[u] # "wait2" /\ syncs' = syncs
    BY <2>1, <2>4 DEF SyncLock, mthpc_synchronize_rcu_lock, clientVars
  <2>5. ASSUME NEW t \in Threads, SyncWait(t)
        PROVE  pc' = pc /\ syncs' = syncs /\ (pc[u] = "wait1" => Id(r) \in todo')
    <3>1. PICK i \in todo : NodePassed(i, snap[t]) /\ todo' = todo \ {i}
      BY <2>5 DEF SyncWait, mthpc_wait_for_readers
    <3>2. pc[t] \in {"wait1", "wait2"} /\ syncs' = syncs /\ pc' = pc
      BY <2>5 DEF SyncWait, mthpc_wait_for_readers, clientVars
    <3>3. ASSUME pc[u] = "wait1" PROVE i # Id(r)
      <4>1. t = u
        BY <3>2, <3>3, OneUpdater
      <4>2. snap[t] = gp_seq
        BY <3>3, <4>1 DEF RcuInv, ControlState
      <4>3. Phase(r) = gp_seq
        BY <1>1, <3>3, OneUpdater DEF FreshPhase
      <4> QED BY <1>2, <3>1, <4>2, <4>3 DEF NodePassed, Passed, Phase
    <3> QED BY <2>1, <3>1, <3>2, <3>3
  <2>6. ASSUME NEW t \in Threads, SyncFlip(t)
        PROVE  pc'[u] \notin {"wait1", "wait2"} /\ syncs' = syncs
    <3>1. pc[t] = "wait1" /\ todo = {} /\ syncs' = syncs
      BY <2>6 DEF SyncFlip, mthpc_synchronize_rcu_flip, clientVars
    <3>2. t # u
      BY <2>1, <3>1
    <3>3. pc[u] \notin {"wait1", "wait2"}
      BY <3>1, <3>2, OneUpdater
    <3> QED BY <2>6, <3>1, <3>2, <3>3 DEF SyncFlip, mthpc_synchronize_rcu_flip
  <2>7. ASSUME NEW t \in Threads, SyncUnlock(t)
        PROVE  pc'[u] = pc[u] /\ todo' = todo /\ syncs'[u] = 0
    <3>1. t # u
      BY <2>1, <2>7 DEF SyncUnlock, mthpc_synchronize_rcu_unlock
    <3> QED BY <2>1, <2>7, <3>1 DEF SyncUnlock, mthpc_synchronize_rcu_unlock
  <2> QED BY QuietStep, <1>2, <2>1, <2>2, <2>3, <2>4, <2>5, <2>6, <2>7
<1> QED BY HeldBefore, <1>3, <1>4

(* After one call of mthpc_synchronize_rcu() only a reader that stored an  *)
(* outdated phase can still hold what the caller frees.                    *)
THEOREM FreshReadersSafe == SpecAll => []FreshReadersProtected
<1>1. InitAll => FreshInv
  <2> SUFFICES ASSUME InitAll PROVE FreshInv
    OBVIOUS
  <2>1. BaseInv
    BY BaseInit
  <2>2. FreshPhase /\ FreshBlocks /\ FreshReadersProtected
    BY DEF InitAll, Init, FreshPhase, FreshBlocks, FreshReadersProtected, Holds
  <2> QED BY <2>1, <2>2 DEF FreshInv
<1>2. FreshInv /\ [NextAll]_vars /\ mishap' = "no" => FreshInv'
  <2> SUFFICES ASSUME FreshInv, [NextAll]_vars, mishap' = "no" PROVE FreshInv'
    OBVIOUS
  <2>1. BaseInv' /\ FreshPhase' /\ FreshBlocks'
    BY BaseStep, FreshPhaseStep, FreshBlocksStep DEF FreshInv
  <2>2. ASSUME NEW r \in Threads, refs'[r] \intersect freed' # {} PROVE stale'[r]
    <3>1. stale'[r] = stale[r]
      BY <2>2, FreedBefore DEF FreshInv
    <3>2. CASE refs[r] \intersect freed # {}
      BY <3>1, <3>2 DEF FreshInv, FreshReadersProtected, BaseInv, RcuInv
    <3>3. ASSUME NEW t \in Threads, free(t), Holds(t, r) PROVE stale[r]
      <4>1. syncs[t] # 0
        BY <3>3, ReclaimAssumption DEF free
      <4> QED BY <3>3, <4>1 DEF FreshInv, FreshBlocks
    <3> QED BY <2>2, <3>1, <3>2, <3>3, FreedBefore DEF FreshInv
  <2> QED BY <2>1, <2>2 DEF FreshInv, FreshReadersProtected
<1> DEFINE Inv == mishap = "no" => FreshInv
<1>3. InitAll => Inv
  BY <1>1
<1>4. Inv /\ [NextAll]_vars => Inv'
  BY <1>2, ProjectsToRcu, MishapStays
<1>5. Inv => FreshReadersProtected
  BY DEF FreshInv, FreshReadersProtected
<1> HIDE DEF Inv
<1> QED BY <1>3, <1>4, <1>5, PTL DEF SpecAll
-----------------------------------------------------------------------------
(* Two calls: the argument for every reader, outdated phase or not. *)
LEMMA TwoCallStep ==
    ASSUME BaseInv, FirstCallSorts, SecondCallBlocks, [NextAll]_vars, mishap' = "no"
    PROVE  FirstCallSorts' /\ SecondCallBlocks'
<1> DEFINE First(u, r) ==
             /\ (pc[u] = "wait1" /\ Id(r) \notin todo) => Phase(r) # gp_seq
             /\ pc[u] = "wait2" => Phase(r) = gp_seq
           Second(u, r) ==
             /\ syncs[u] = 1
             /\ Phase(r) = gp_seq
             /\ \A h \in Threads :
                   pc[h] # "wait2" /\ (pc[h] = "wait1" => Id(r) \in todo)
<1> SUFFICES ASSUME NEW u \in Threads, NEW r \in Threads, Holds(u, r)'
             PROVE  IF syncs'[u] = 0 THEN First(u, r)' ELSE Second(u, r)'
  BY DEF FirstCallSorts, SecondCallBlocks, Id
<1> USE RcuAssumption, ReclaimAssumption, IdType
        DEF BaseInv, ClientTypeOK, TypeOK, Phases, Id
<1>1. depth[r] > 0 /\ depth'[r] > 0
  BY HeldBefore
<1>2. /\ Phase(r)' = Phase(r) /\ Phase(r) \in Phases
      /\ node_gp[Id(r)].nest # 0 /\ Id(r) \in head
  <2>1. Phase(r) \in Phases
    BY DEF Phase, GpSeq
  <2> QED BY <1>1, <2>1, ProjectsToRcu, PhaseKept
<1>3. CASE syncs'[u] = 0 /\ pc'[u] = "idle"
  BY <1>3
<1>4. CASE Holds(u, r)
  <2>1. IF syncs[u] = 0 THEN First(u, r) ELSE Second(u, r)
    BY <1>4 DEF FirstCallSorts, SecondCallBlocks
  <2>2. CASE Quiet
    BY <1>2, <2>1, <2>2 DEF Quiet
  <2>3. ASSUME NEW t \in Threads, free(t)
        PROVE  IF syncs'[u] = 0 THEN First(u, r)' ELSE Second(u, r)'
    <3>1. t # u
      BY <2>3 DEF free, Holds
    <3> QED BY <1>2, <2>1, <2>3, <3>1 DEF free, rcuVars
  <2>4. ASSUME NEW t \in Threads, SyncLock(t)
        PROVE  IF syncs'[u] = 0 THEN First(u, r)' ELSE Second(u, r)'
    <3>1. \A h \in Threads : pc[h] \notin {"wait1", "wait2"}
      BY <2>4 DEF SyncLock, mthpc_synchronize_rcu_lock, RcuInv, ControlState
    <3>2. /\ gp_seq' = gp_seq /\ syncs' = syncs /\ Id(r) \in todo'
          /\ \A h \in Threads : pc'[h] # "wait2"
      BY <1>2, <2>4, <3>1 DEF SyncLock, mthpc_synchronize_rcu_lock, clientVars
    <3> QED BY <1>2, <2>1, <3>2
  <2>5. ASSUME NEW t \in Threads, SyncWait(t)
        PROVE  IF syncs'[u] = 0 THEN First(u, r)' ELSE Second(u, r)'
    <3>1. PICK i \in todo : NodePassed(i, snap[t]) /\ todo' = todo \ {i}
      BY <2>5 DEF SyncWait, mthpc_wait_for_readers
    <3>2. pc[t] \in {"wait1", "wait2"} /\ syncs' = syncs /\ pc' = pc /\ gp_seq' = gp_seq
      BY <2>5 DEF SyncWait, mthpc_wait_for_readers, clientVars
    <3>3. ASSUME pc[t] = "wait1", i = Id(r) PROVE Phase(r) # gp_seq
      <4>1. snap[t] = gp_seq
        BY <3>3 DEF RcuInv, ControlState
      <4> QED BY <1>2, <3>1, <3>3, <4>1 DEF NodePassed, Passed, Phase
    <3>4. CASE syncs[u] = 0
      <4>1. pc[u] = "wait1" => t = u
        BY <3>2, OneUpdater
      <4> QED BY <1>2, <2>1, <3>1, <3>2, <3>3, <3>4, <4>1
    <3>5. CASE syncs[u] # 0
      <4>1. pc[t] = "wait1" /\ i # Id(r)
        BY <2>1, <3>2, <3>3, <3>5
      <4> QED BY <1>2, <2>1, <3>1, <3>2, <3>5, <4>1
    <3> QED BY <3>4, <3>5
  <2>6. ASSUME NEW t \in Threads, SyncFlip(t)
        PROVE  IF syncs'[u] = 0 THEN First(u, r)' ELSE Second(u, r)'
    <3>1. /\ pc[t] = "wait1" /\ todo = {} /\ syncs' = syncs /\ gp_seq' = 1 - gp_seq
          /\ pc' = [pc EXCEPT ![t] = "wait2"]
      BY <2>6 DEF SyncFlip, Flip, mthpc_synchronize_rcu_flip, clientVars
    <3>2. syncs[u] = 0
      BY <2>1, <3>1
    <3>3. CASE t = u
      BY <1>2, <2>1, <3>1, <3>2, <3>3
    <3>4. CASE t # u
      <4>1. pc[u] \notin {"wait1", "wait2"}
        BY <3>1, <3>4, OneUpdater
      <4> QED BY <3>1, <3>2, <3>4, <4>1
    <3> QED BY <3>3, <3>4
  <2>7. ASSUME NEW t \in Threads, SyncUnlock(t)
        PROVE  IF syncs'[u] = 0 THEN First(u, r)' ELSE Second(u, r)'
    <3>1. /\ pc[t] = "wait2" /\ gp_seq' = gp_seq /\ pc' = [pc EXCEPT ![t] = "idle"]
          /\ syncs' = [syncs EXCEPT ![t] = IF pending[t] = {} THEN @ ELSE @ + 1]
      BY <2>7 DEF SyncUnlock, mthpc_synchronize_rcu_unlock
    <3>2. syncs[u] = 0
      BY <2>1, <3>1
    <3>3. \A h \in Threads : pc'[h] \notin {"wait1", "wait2"}
      BY <3>1, OneUpdater
    <3>4. CASE t = u
      <4>1. pending[u] # {}
        BY <1>4 DEF Holds
      <4>2. syncs'[u] = 1 /\ Phase(r) = gp_seq
        BY <2>1, <3>1, <3>2, <3>4, <4>1
      <4> QED BY <1>2, <3>1, <3>3, <4>2
    <3>5. CASE t # u
      BY <3>1, <3>2, <3>3, <3>5
    <3> QED BY <3>4, <3>5
  <2> HIDE DEF First, Second
  <2> QED BY QuietStep, <2>2, <2>3, <2>4, <2>5, <2>6, <2>7
<1> QED BY HeldBefore, <1>3, <1>4

(* An object that is freed after two or more calls of                      *)
(* mthpc_synchronize_rcu() since its replacement is held by no reader.     *)
THEOREM TwoCallsSafe == SpecAll => []TwoCallsProtect
<1>1. InitAll => TwoCallInv
  <2> SUFFICES ASSUME InitAll PROVE TwoCallInv
    OBVIOUS
  <2>1. BaseInv
    BY BaseInit
  <2>2. FirstCallSorts /\ SecondCallBlocks /\ TwoCallsProtect
    BY DEF InitAll, Init, FirstCallSorts, SecondCallBlocks, TwoCallsProtect, Holds
  <2> QED BY <2>1, <2>2 DEF TwoCallInv
<1>2. TwoCallInv /\ [NextAll]_vars /\ mishap' = "no" => TwoCallInv'
  <2> SUFFICES ASSUME TwoCallInv, [NextAll]_vars, mishap' = "no" PROVE TwoCallInv'
    OBVIOUS
  <2>1. BaseInv' /\ FirstCallSorts' /\ SecondCallBlocks'
    BY BaseStep, TwoCallStep DEF TwoCallInv
  <2>2. ASSUME NEW r \in Threads, refs'[r] \intersect twice' # {} PROVE FALSE
    <3>1. PICK t \in Threads : free(t) /\ Holds(t, r) /\ syncs[t] > 1
      BY <2>2, FreedTwiceBefore DEF TwoCallInv, TwoCallsProtect, BaseInv, RcuInv
    <3>2. syncs[t] # 0 /\ syncs[t] # 1
      BY <3>1
    <3> QED BY <3>1, <3>2 DEF TwoCallInv, SecondCallBlocks
  <2> QED BY <2>1, <2>2 DEF TwoCallInv, TwoCallsProtect
<1> DEFINE Inv == mishap = "no" => TwoCallInv
<1>3. InitAll => Inv
  BY <1>1
<1>4. Inv /\ [NextAll]_vars => Inv'
  BY <1>2, ProjectsToRcu, MishapStays
<1>5. Inv => TwoCallsProtect
  BY DEF TwoCallInv, TwoCallsProtect
<1> HIDE DEF Inv
<1> QED BY <1>3, <1>4, <1>5, PTL DEF SpecAll
=============================================================================
