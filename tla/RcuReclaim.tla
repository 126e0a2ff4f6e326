----------------------------- MODULE RcuReclaim -----------------------------
(***************************************************************************)
(* What the grace period is for.  Rcu composed with the client protocol of *)
(* src/rcu/test.c and new_test.c: readers dereference a shared pointer     *)
(* inside a read lock and use the object until they unlock; a writer       *)
(* replaces the pointer, calls mthpc_synchronize_rcu() once, as the tests  *)
(* do, or several times, and frees the old object.                         *)
(*                                                                         *)
(* Objects are numbered in the order in which they are published.          *)
(***************************************************************************)
EXTENDS Rcu

CONSTANTS
    Writers,    \* threads that replace the pointer and call synchronize
    MaxObj,     \* bound: objects published after the first
    MaxSync     \* bound: calls of mthpc_synchronize_rcu() between replace and free

ASSUME ReclaimAssumption ==
    Writers \subseteq Threads /\ MaxObj \in Nat /\ MaxSync \in Nat \ {0}

VARIABLES
    ptr,        \* the object the shared pointer refers to
    refs,       \* refs[t]: objects t got in its current critical section
    pending,    \* pending[t]: the object t replaced and has yet to free
    syncs,      \* calls of synchronize t completed since its replace
    freed,      \* objects given back to the allocator
    twice,      \* history: those freed after two or more calls
    stale       \* history: data->gp_seq changed between t's read of it and
                \* the store into its node, in t's current critical section

clientVars == <<ptr, refs, pending, syncs, freed, twice, stale>>
vars == <<gp_seq, lock, head, link, node_gp, node_ptr, depth, pc, snap, todo,
          indirect, dangling, mishap,
          ptr, refs, pending, syncs, freed, twice, stale>>

Objects == 0..MaxObj

InitAll ==
    /\ Init
    /\ ptr = 0
    /\ refs = [t \in Threads |-> {}]
    /\ pending = [t \in Threads |-> {}]
    /\ syncs = [t \in Threads |-> 0]
    /\ freed = {} /\ twice = {}
    /\ stale = [t \in Threads |-> FALSE]
-----------------------------------------------------------------------------
(* The steps of Rcu, with what they mean to the client. *)

Lifecycle(t) ==
    /\ \/ pthread_create(t) \/ (pending[t] = {} /\ pthread_exit(t))
       \/ mthpc_rcu_thread_init(t) \/ mthpc_rcu_thread_exit(t)
       \/ mthpc_rcu_add_found(t) \/ mthpc_rcu_add_adopt(t)
    /\ UNCHANGED clientVars

ReadLockLoad(t) == mthpc_rcu_read_lock_load(t) /\ UNCHANGED clientVars

ReadLockStore(t) ==
    /\ mthpc_rcu_read_lock_store(t)
    /\ stale' = [stale EXCEPT ![t] = (snap[t] # gp_seq)]
    /\ UNCHANGED <<ptr, refs, pending, syncs, freed, twice>>

ReadLockNested(t) == mthpc_rcu_read_lock_nested(t) /\ UNCHANGED clientVars

\* A reader keeps no pointer beyond its outermost unlock.
ReadUnlock(t) ==
    /\ mthpc_rcu_read_unlock(t)
    /\ refs' = [refs EXCEPT ![t] = IF depth[t] = 1 THEN {} ELSE @]
    /\ stale' = [stale EXCEPT ![t] = @ /\ depth[t] > 1]
    /\ UNCHANGED <<ptr, pending, syncs, freed, twice>>

SyncLock(t) ==
    /\ t \in Writers /\ (pending[t] # {} => syncs[t] < MaxSync)
    /\ mthpc_synchronize_rcu_lock(t)
    /\ UNCHANGED clientVars

SyncWait(t) == mthpc_wait_for_readers(t) /\ UNCHANGED clientVars

SyncFlip(t) == mthpc_synchronize_rcu_flip(t) /\ UNCHANGED clientVars

SyncUnlock(t) ==
    /\ mthpc_synchronize_rcu_unlock(t)
    /\ syncs' = [syncs EXCEPT ![t] = IF pending[t] = {} THEN @ ELSE @ + 1]
    /\ UNCHANGED <<ptr, refs, pending, freed, twice, stale>>
-----------------------------------------------------------------------------
(* The client's own steps. *)

mthpc_rcu_dereference(t) ==
    /\ pc[t] = "idle" /\ depth[t] > 0
    /\ refs' = [refs EXCEPT ![t] = @ \union {ptr}]
    /\ UNCHANGED <<rcuVars, ptr, pending, syncs, freed, twice, stale>>

mthpc_rcu_replace_pointer(t) ==
    /\ t \in Writers /\ pc[t] = "idle" /\ pending[t] = {} /\ ptr < MaxObj
    /\ pending' = [pending EXCEPT ![t] = {ptr}]
    /\ ptr' = ptr + 1
    /\ UNCHANGED <<rcuVars, refs, syncs, freed, twice, stale>>

free(t) ==
    /\ pc[t] = "idle" /\ pending[t] # {} /\ syncs[t] > 0
    /\ freed' = freed \union pending[t]
    /\ twice' = IF syncs[t] > 1 THEN twice \union pending[t] ELSE twice
    /\ pending' = [pending EXCEPT ![t] = {}]
    /\ syncs' = [syncs EXCEPT ![t] = 0]
    /\ UNCHANGED <<rcuVars, ptr, refs, stale>>
-----------------------------------------------------------------------------
Step(t) ==
    \/ Lifecycle(t)
    \/ ReadLockLoad(t) \/ ReadLockStore(t) \/ ReadLockNested(t) \/ ReadUnlock(t)
    \/ SyncLock(t) \/ SyncWait(t) \/ SyncFlip(t) \/ SyncUnlock(t)
    \/ mthpc_rcu_dereference(t) \/ mthpc_rcu_replace_pointer(t) \/ free(t)

NextAll ==
    \/ \E t \in Threads : Step(t)
    \/ Finished /\ UNCHANGED clientVars

SpecAll == InitAll /\ [][NextAll]_vars

(* A thread that is inside the library keeps running; nothing makes a      *)
(* thread call into it.                                                    *)
FairSpecAll ==
    /\ SpecAll
    /\ \A t \in Threads : /\ WF_vars(ReadLockStore(t)) /\ WF_vars(SyncWait(t))
                          /\ WF_vars(SyncFlip(t)) /\ WF_vars(SyncUnlock(t))
-----------------------------------------------------------------------------
(* The type of every variable. *)
ClientTypeOK ==
    /\ TypeOK
    /\ ptr \in Objects
    /\ refs \in [Threads -> SUBSET Objects]
    /\ pending \in [Threads -> SUBSET Objects]
    /\ syncs \in [Threads -> 0..MaxSync]
    /\ freed \subseteq Objects /\ twice \subseteq Objects
    /\ stale \in [Threads -> BOOLEAN]

(* No reader holds a pointer to an object that has been freed.  The code   *)
(* does not give this: both waits of mthpc_synchronize_rcu() look for the  *)
(* phase read before the flip, so a reader that read data->gp_seq before   *)
(* the flip of an earlier call and stored it after is not waited for.      *)
NoUseAfterFree == \A t \in Threads : refs[t] \intersect freed = {}

(* Two calls wait for every reader that has its node to itself: who        *)
(* survives the first has the phase that the second waits for.             *)
TwoCallsProtect ==
    mishap = "no" => \A t \in Threads : refs[t] \intersect twice = {}

(* One call protects every other reader: whoever still holds a freed       *)
(* object entered with a phase that was already out of date when it was    *)
(* stored in the reader's node.                                            *)
FreshReadersProtected ==
    mishap = "no" =>
        \A t \in Threads : refs[t] \intersect freed # {} => stale[t]

(* Once the phase is flipped, mthpc_synchronize_rcu() returns provided no  *)
(* reader stays in its critical section for ever, even when readers keep   *)
(* re-entering: the readers that arrive after the flip are not waited for. *)
(* Two threads with one node could keep it active for each other.          *)
SecondWaitEnds ==
    (\A t \in Threads : []<>(depth[t] = 0))
        => \A t \in Threads : pc[t] = "wait2" ~> (pc[t] = "idle" \/ mishap # "no")
=============================================================================
