-------------------------------- MODULE Rcu --------------------------------
(***************************************************************************)
(* The grace-period mechanism of one struct mthpc_rcu_data                 *)
(* (src/rcu/rcu.c, include/mthpc/rcu.h): registration of a thread's node,  *)
(* the read-side lock and mthpc_synchronize_rcu().                         *)
(*                                                                         *)
(* A step is one access to shared memory, or one critical section of       *)
(* data->lock that touches nothing but the node list.  Executions are      *)
(* sequentially consistent.                                                *)
(*                                                                         *)
(* data->gp_seq always has count MTHPC_GP_COUNT, so only its phase is kept.*)
(***************************************************************************)
EXTENDS GpWord, FiniteSets

CONSTANTS
    Threads,    \* thread incarnations; each one is created and exits once
    Tid,        \* Tid[t]: the value of pthread_self() in t
    IdSpace,    \* 2^32 in the code: mthpc_rcu_add() takes an unsigned int id
    MaxNest,    \* bound: nested read locks a thread takes
    NULL

ASSUME RcuAssumption ==
    /\ Tid \in [Threads -> Nat]
    /\ IdSpace \in Nat \ {0}
    /\ NestMask \in Nat \ {0}
    /\ MaxNest \in Nat \ {0}
    /\ NULL \notin Threads \union Nat

VARIABLES
    gp_seq,     \* phase of data->gp_seq
    lock,       \* holder of data->lock, or NULL
    head,       \* ids of the nodes linked from data->head
    link,       \* link[NULL]: the first of them; link[i]: node i's next, or NULL
    node_gp,    \* node_gp[i]: gp_seq word of the node with id i
    node_ptr,   \* thread-local mthpc_rcu_node_ptr: the id of its node, or NULL
    depth,      \* read locks the thread has taken and not released
    pc,         \* where the thread is inside the library
    snap,       \* phase read from data->gp_seq: the value read_lock is about
                \* to store, or curr_gp of synchronize; 0 outside of both
    todo,       \* nodes the running mthpc_wait_for_readers() has not passed
    indirect,   \* indirect[t]: the node whose next mthpc_rcu_add() will read;
                \* NULL for data->head, and outside of "adopt"
    dangling,   \* threads whose indirect lies in a node freed since
    mishap      \* history: the first thing that went wrong, or "no"

rcuVars == <<gp_seq, lock, head, link, node_gp, node_ptr, depth, pc, snap, todo,
             indirect, dangling, mishap>>
listVars == <<link, indirect, dangling, mishap>>

\* The id a thread registers under: pthread_self() cut to an unsigned int.
Id(t) == Tid[t] % IdSpace
Ids == {Id(t) : t \in Threads}

Registered(t) == node_ptr[t] # NULL
Live(t) == pc[t] \notin {"unborn", "dead"}

\* "carry":   a nested lock carried out of the count into the phase bit;
\* "freed":   mthpc_rcu_add() read *indirect in a node freed by its owner;
\* "foreign": it read there the node of another thread, or none at all.
Mishaps == {"carry", "freed", "foreign"}
Noted(m) == IF mishap = "no" THEN m ELSE mishap

Init ==
    /\ gp_seq = 0
    /\ lock = NULL
    /\ head = {}
    /\ node_gp = [i \in Ids |-> Idle]
    /\ node_ptr = [t \in Threads |-> NULL]
    /\ depth = [t \in Threads |-> 0]
    /\ pc = [t \in Threads |-> "unborn"]
    /\ snap = [t \in Threads |-> 0]
    /\ todo = {}
    /\ link = [i \in Ids \union {NULL} |-> NULL]
    /\ indirect = [t \in Threads |-> NULL]
    /\ dangling = {}
    /\ mishap = "no"
-----------------------------------------------------------------------------
(* Threads.  pthread_self() is unique among live threads, but the value of a *)
(* thread that is gone is used again.                                      *)

pthread_create(t) ==
    /\ pc[t] = "unborn"
    /\ \A u \in Threads : Live(u) => Tid[u] # Tid[t]
    /\ pc' = [pc EXCEPT ![t] = "idle"]
    /\ UNCHANGED <<gp_seq, lock, head, node_gp, node_ptr, depth, snap, todo, listVars>>

\* A thread may end without mthpc_rcu_thread_exit(): its node stays linked.
pthread_exit(t) ==
    /\ pc[t] = "idle" /\ depth[t] = 0
    /\ pc' = [pc EXCEPT ![t] = "dead"]
    /\ node_ptr' = [node_ptr EXCEPT ![t] = NULL]
    /\ UNCHANGED <<gp_seq, lock, head, node_gp, depth, snap, todo, listVars>>
-----------------------------------------------------------------------------
(* Registration.  mthpc_rcu_add() appends a fresh node.  When a node with  *)
(* the id is there already, it releases data->lock and frees its own node, *)
(* and reads the one it found through *indirect, without the lock.         *)

mthpc_rcu_thread_init(t) ==
    /\ pc[t] = "idle" /\ ~Registered(t)
    /\ lock = NULL /\ Id(t) \notin head
    /\ \E last \in head \union {NULL} :
          /\ link[last] = NULL
          /\ link' = [link EXCEPT ![last] = Id(t), ![Id(t)] = NULL]
    /\ head' = head \union {Id(t)}
    /\ node_gp' = [node_gp EXCEPT ![Id(t)] = Idle]
    /\ node_ptr' = [node_ptr EXCEPT ![t] = Id(t)]
    /\ UNCHANGED <<gp_seq, lock, depth, pc, snap, todo, indirect, dangling, mishap>>

mthpc_rcu_add_found(t) ==
    /\ pc[t] = "idle" /\ ~Registered(t)
    /\ lock = NULL /\ Id(t) \in head
    /\ \E prev \in head \union {NULL} :
          /\ link[prev] = Id(t)
          /\ indirect' = [indirect EXCEPT ![t] = prev]
    /\ pc' = [pc EXCEPT ![t] = "adopt"]
    /\ UNCHANGED <<gp_seq, lock, head, link, node_gp, node_ptr, depth, snap, todo,
                   dangling, mishap>>

\* *rev = *indirect.  What is read in a freed node is whatever is there now.
mthpc_rcu_add_adopt(t) ==
    /\ pc[t] = "adopt"
    /\ \E node \in IF t \in dangling THEN Ids \union {NULL} ELSE {link[indirect[t]]} :
          /\ node_ptr' = [node_ptr EXCEPT ![t] = node]
          /\ mishap' = IF t \in dangling THEN Noted("freed")
                       ELSE IF node = Id(t) /\ node \in head
                               /\ \A u \in Threads : node_ptr[u] # node
                       THEN mishap ELSE Noted("foreign")
    /\ pc' = [pc EXCEPT ![t] = "idle"]
    /\ indirect' = [indirect EXCEPT ![t] = NULL]
    /\ dangling' = dangling \ {t}
    /\ UNCHANGED <<gp_seq, lock, head, link, node_gp, depth, snap, todo>>

\* mthpc_rcu_del() of t's id: the node is unlinked and freed.
Unlink(t) ==
    /\ head' = head \ {Id(t)}
    /\ link' = [i \in Ids \union {NULL} |->
                   IF i = Id(t) THEN NULL
                   ELSE IF link[i] = Id(t) THEN link[Id(t)] ELSE link[i]]
    /\ node_gp' = [node_gp EXCEPT ![Id(t)] = Idle]
    /\ dangling' = dangling \union
                      {u \in Threads : pc[u] = "adopt" /\ indirect[u] = Id(t)}

\* Broken variant: mthpc_rcu_node_ptr is not cleared.
KeepNodePtr(t) ==
    /\ pc[t] = "idle" /\ depth[t] = 0 /\ Registered(t)
    /\ lock = NULL
    /\ Unlink(t)
    /\ UNCHANGED <<gp_seq, lock, node_ptr, depth, pc, snap, todo, indirect, mishap>>

mthpc_rcu_thread_exit(t) ==
    /\ pc[t] = "idle" /\ depth[t] = 0 /\ Registered(t)
    /\ lock = NULL
    /\ Unlink(t)
    /\ node_ptr' = [node_ptr EXCEPT ![t] = NULL]
    /\ UNCHANGED <<gp_seq, lock, depth, pc, snap, todo, indirect, mishap>>
-----------------------------------------------------------------------------
(* The read side.                                                          *)

\* First half of the outermost lock: the node is idle, data->gp_seq is read.
mthpc_rcu_read_lock_load(t) ==
    /\ pc[t] = "idle" /\ Registered(t) /\ depth[t] < MaxNest
    /\ node_gp[node_ptr[t]].nest = 0
    /\ snap' = [snap EXCEPT ![t] = gp_seq]
    /\ pc' = [pc EXCEPT ![t] = "store"]
    /\ UNCHANGED <<gp_seq, lock, head, node_gp, node_ptr, depth, todo, listVars>>

\* Second half: the value read is stored in the node.
mthpc_rcu_read_lock_store(t) ==
    /\ pc[t] = "store"
    /\ node_gp' = [node_gp EXCEPT ![node_ptr[t]] = [phase |-> snap[t], nest |-> 1]]
    /\ depth' = [depth EXCEPT ![t] = @ + 1]
    /\ snap' = [snap EXCEPT ![t] = 0]
    /\ pc' = [pc EXCEPT ![t] = "idle"]
    /\ UNCHANGED <<gp_seq, lock, head, node_ptr, todo, listVars>>

\* Broken variant: a nested lock copies data->gp_seq as the outermost does.
NestedCopies(t) ==
    /\ pc[t] = "idle" /\ Registered(t) /\ depth[t] < MaxNest
    /\ node_gp[node_ptr[t]].nest # 0
    /\ node_gp' = [node_gp EXCEPT ![node_ptr[t]] = [phase |-> gp_seq, nest |-> 1]]
    /\ depth' = [depth EXCEPT ![t] = @ + 1]
    /\ UNCHANGED <<gp_seq, lock, head, node_ptr, pc, snap, todo, listVars>>

mthpc_rcu_read_lock_nested(t) ==
    /\ pc[t] = "idle" /\ Registered(t) /\ depth[t] < MaxNest
    /\ node_gp[node_ptr[t]].nest # 0
    /\ node_gp' = [node_gp EXCEPT ![node_ptr[t]] = Inc(@)]
    /\ depth' = [depth EXCEPT ![t] = @ + 1]
    /\ mishap' = IF node_gp[node_ptr[t]].nest = NestMask THEN Noted("carry")
                 ELSE mishap
    /\ UNCHANGED <<gp_seq, lock, head, node_ptr, pc, snap, todo, link, indirect, dangling>>

mthpc_rcu_read_unlock(t) ==
    /\ pc[t] = "idle" /\ depth[t] > 0
    /\ node_gp' = [node_gp EXCEPT ![node_ptr[t]] = Dec(@)]
    /\ depth' = [depth EXCEPT ![t] = @ - 1]
    /\ UNCHANGED <<gp_seq, lock, head, node_ptr, pc, snap, todo, listVars>>
-----------------------------------------------------------------------------
(* The update side.                                                        *)

mthpc_synchronize_rcu_lock(t) ==
    /\ pc[t] = "idle" /\ depth[t] = 0
    /\ lock = NULL
    /\ lock' = t
    /\ snap' = [snap EXCEPT ![t] = gp_seq]
    /\ todo' = head
    /\ pc' = [pc EXCEPT ![t] = "wait1"]
    /\ UNCHANGED <<gp_seq, head, node_gp, node_ptr, depth, listVars>>

NodePassed(i, phase) == Passed(node_gp[i], phase)

\* Both calls of the code wait for the phase read before the flip.
mthpc_wait_for_readers(t) ==
    /\ pc[t] \in {"wait1", "wait2"}
    /\ \E i \in todo : NodePassed(i, snap[t]) /\ todo' = todo \ {i}
    /\ UNCHANGED <<gp_seq, lock, head, node_gp, node_ptr, depth, pc, snap, listVars>>

\* Broken variant: the list is not walked a second time.
NoSecondWait(t) ==
    /\ pc[t] = "wait1" /\ todo = {}
    /\ gp_seq' = Flip(gp_seq)
    /\ pc' = [pc EXCEPT ![t] = "wait2"]
    /\ UNCHANGED <<lock, head, node_gp, node_ptr, depth, snap, todo, listVars>>

mthpc_synchronize_rcu_flip(t) ==
    /\ pc[t] = "wait1" /\ todo = {}
    /\ gp_seq' = Flip(gp_seq)
    /\ todo' = head
    /\ pc' = [pc EXCEPT ![t] = "wait2"]
    /\ UNCHANGED <<lock, head, node_gp, node_ptr, depth, snap, listVars>>

mthpc_synchronize_rcu_unlock(t) ==
    /\ pc[t] = "wait2" /\ todo = {}
    /\ lock' = NULL
    /\ snap' = [snap EXCEPT ![t] = 0]
    /\ pc' = [pc EXCEPT ![t] = "idle"]
    /\ UNCHANGED <<gp_seq, head, node_gp, node_ptr, depth, todo, listVars>>
-----------------------------------------------------------------------------
(* Every thread is gone: the end of the program, not a deadlock. *)
Finished == (\A t \in Threads : pc[t] = "dead") /\ UNCHANGED rcuVars

Next ==
    \/ \E t \in Threads :
          \/ pthread_create(t) \/ pthread_exit(t)
          \/ mthpc_rcu_thread_init(t) \/ mthpc_rcu_thread_exit(t)
          \/ mthpc_rcu_add_found(t) \/ mthpc_rcu_add_adopt(t)
          \/ mthpc_rcu_read_lock_load(t) \/ mthpc_rcu_read_lock_store(t)
          \/ mthpc_rcu_read_lock_nested(t) \/ mthpc_rcu_read_unlock(t)
          \/ mthpc_synchronize_rcu_lock(t) \/ mthpc_wait_for_readers(t)
          \/ mthpc_synchronize_rcu_flip(t) \/ mthpc_synchronize_rcu_unlock(t)
    \/ Finished

Spec == Init /\ [][Next]_rcuVars
-----------------------------------------------------------------------------
(* The type of every variable. *)
TypeOK ==
    /\ gp_seq \in Phases
    /\ lock \in Threads \union {NULL}
    /\ head \subseteq Ids
    /\ node_gp \in [Ids -> GpSeq]
    /\ node_ptr \in [Threads -> Ids \union {NULL}]
    /\ depth \in [Threads -> 0..MaxNest]
    /\ pc \in [Threads -> {"unborn", "idle", "adopt", "store", "wait1",
                             "wait2", "dead"}]
    /\ snap \in [Threads -> Phases]
    /\ todo \subseteq Ids
    /\ link \in [Ids \union {NULL} -> Ids \union {NULL}]
    /\ indirect \in [Threads -> Ids \union {NULL}]
    /\ dangling \subseteq Threads
    /\ mishap \in Mishaps \union {"no"}

(* The node a thread reads and writes through mthpc_rcu_node_ptr is linked *)
(* in data->head, where the updater looks for it, and no other thread uses *)
(* it: mthpc_rcu_del() frees the node it unlinks, and warns "target        *)
(* node(id=%u) not found" when there is none.  It is lost only when        *)
(* mthpc_rcu_add() meets a node with the id, of a live thread whose        *)
(* pthread_self() is cut to the same number or next to one that its owner  *)
(* frees meanwhile, and then reads *indirect without the lock.             *)
NodeOwned ==
    mishap = "no" => \A t \in Threads : Registered(t) =>
        /\ node_ptr[t] \in head
        /\ \A u \in Threads \ {t} : node_ptr[u] # node_ptr[t]

(* The word of a node counts the read locks of its thread, so the updater  *)
(* sees a node as active exactly while its thread is between its outermost *)
(* read lock and unlock, across the reuse of nodes by later threads, until *)
(* the count carries into the phase or two threads get hold of one node.   *)
NestIsDepth ==
    mishap = "no" => \A t \in Threads :
        IF Registered(t) THEN node_gp[node_ptr[t]].nest = depth[t]
                         ELSE depth[t] = 0
=============================================================================
