------------------------------ MODULE SafePtr ------------------------------
(***************************************************************************)
(* Safe pointers (src/safe_ptr/safe_ptr.c) and the list of every rcu_data  *)
(* (mthpc_rcu_meta of src/rcu/rcu.c).  A safe pointer refers to a control  *)
(* block with a reference count and an rcu_data of its own, in which each  *)
(* safe pointer has a node.  The grace-period words are those of GpWord.   *)
(*                                                                         *)
(* A safe pointer lives in one scope of one thread and is identified with  *)
(* it.  Its scope creates it or borrows from another one, uses it, and     *)
(* destroys it; a scope does not end while somebody is inside              *)
(* mthpc_pass_sp_post() with a pointer to its safe pointer.  ALL is a      *)
(* thread that calls mthpc_synchronize_rcu_all(), as mthpc_rcu_exit() does.*)
(*                                                                         *)
(* A step is one access to shared memory, or a critical section of         *)
(* data->lock or of mthpc_rcu_meta.lock.  The node of safe pointer s in    *)
(* the data of c is (c, s): ids come from a counter and are unique.        *)
(***************************************************************************)
EXTENDS GpWord, FiniteSets

CONSTANTS
    Sps,        \* safe pointers
    MaxCb,      \* bound: control blocks allocated
    MaxAll,     \* bound: calls of mthpc_synchronize_rcu_all()
    ALL, NULL,
    GONE        \* a data->lock after spin_lock_destroy()

ASSUME SafePtrAssumption ==
    /\ IsFiniteSet(Sps) /\ MaxCb \in Nat /\ MaxAll \in Nat
    /\ NestMask \in Nat \ {0}
    /\ ALL \notin Sps /\ NULL # GONE /\ {NULL, GONE} \intersect (Sps \union {ALL}) = {}
    /\ NULL \notin 1..MaxCb /\ NULL \notin (1..MaxCb) \X {0, 1}

Cbs == 1..MaxCb
Procs == Sps \union {ALL}
Objects == Cbs \X {0, 1}    \* what create() or store() brought to a control
                            \* block, and what cmpxhg() put there instead

VARIABLES
    mem,        \* mem[c]: "none", "alloc" or "freed"
    refcount, raw_ptr,                  \* fields of the control blocks
    gp_seq, lock, head, word,           \* their rcu_data; the nodes' words
    meta, meta_lock,                    \* mthpc_rcu_meta
    cb, rcu_node,   \* fields of the safe pointers; the node as its block
    pc,             \* where each scope, and ALL, is
    loc,            \* the control block its call works on, or NULL
    lender,         \* the safe pointer it borrows from, or NULL
    snap, todo,     \* phase and nodes of its read lock or synchronize
    got,            \* the object the scope got from its last load, or NULL
    left,           \* history: left[c], who had c and gave it up in store()
    reclaimed,      \* objects handed to their destructor
    walk, alls,     \* data ALL has yet to visit; its calls so far
    over            \* the process has been stopped

cbVars == <<mem, refcount, raw_ptr>>
dataVars == <<gp_seq, lock, head, word>>
metaVars == <<meta, meta_lock>>
spVars == <<cb, rcu_node, lender, got, left>>
syncVars == <<snap, todo>>
allVars == <<walk, alls>>
vars == <<cbVars, dataVars, metaVars, spVars, syncVars, allVars, pc, loc, reclaimed, over>>

Init ==
    /\ mem = [c \in Cbs |-> "none"] /\ refcount = [c \in Cbs |-> 0]
    /\ raw_ptr = [c \in Cbs |-> 0]
    /\ gp_seq = [c \in Cbs |-> 0] /\ lock = [c \in Cbs |-> NULL]
    /\ head = [c \in Cbs |-> {}] /\ word = [c \in Cbs |-> [s \in Sps |-> Idle]]
    /\ meta = {} /\ meta_lock = NULL
    /\ cb = [s \in Sps |-> NULL] /\ rcu_node = [s \in Sps |-> NULL]
    /\ pc = [p \in Procs |-> IF p = ALL THEN "idle" ELSE "unborn"]
    /\ loc = [p \in Procs |-> NULL]
    /\ lender = [s \in Sps |-> NULL] /\ got = [s \in Sps |-> NULL]
    /\ snap = [p \in Procs |-> 0] /\ todo = [p \in Procs |-> {}]
    /\ left = [c \in Cbs |-> {}] /\ reclaimed = {} /\ walk = {} /\ alls = 0 /\ over = FALSE

Goto(p, l) == pc' = [pc EXCEPT ![p] = l]

\* Scopes with a safe pointer that can be lent.
Live(s) == pc[s] \in {"idle", "store", "read", "unlock", "xchg", "relink"}
-----------------------------------------------------------------------------
(* Creation, and store(): a new control block, and the node of s in it.    *)

mthpc_rcu_data_init(c) == meta_lock = NULL /\ meta' = meta \union {c}

mthpc_cb_create(s, from, to) ==
    /\ pc[s] = from
    /\ \E c \in Cbs :
          /\ mem[c] = "none" /\ \A d \in 1..(c - 1) : mem[d] # "none"
          /\ mem' = [mem EXCEPT ![c] = "alloc"]
          /\ refcount' = [refcount EXCEPT ![c] = 1]
          /\ mthpc_rcu_data_init(c)
          /\ loc' = [loc EXCEPT ![s] = c]
    /\ Goto(s, to)
    /\ UNCHANGED <<raw_ptr, dataVars, meta_lock, spVars, syncVars, allVars, reclaimed, over>>

\* The critical section.
mthpc_rcu_add(c, s) ==
    /\ lock[c] = NULL
    /\ head' = [head EXCEPT ![c] = @ \union {s}]
    /\ word' = [word EXCEPT ![c][s] = Idle]
    /\ rcu_node' = [rcu_node EXCEPT ![s] = c]

mthpc_cb_rcu_init(s) == mthpc_rcu_add(loc[s], s)

mthpc_safe_ptr_create(s) ==
    /\ pc[s] = "init"
    /\ mthpc_cb_rcu_init(s)
    /\ cb' = [cb EXCEPT ![s] = loc[s]]
    /\ loc' = [loc EXCEPT ![s] = NULL]
    /\ Goto(s, "idle")
    /\ UNCHANGED <<cbVars, gp_seq, lock, metaVars, lender, got, left, syncVars, allVars, reclaimed, over>>

\* Broken variant: store() puts the block it has replaced.
StorePuts(s) ==
    /\ pc[s] = "xchg"
    /\ refcount' = [refcount EXCEPT ![cb[s]] = @ - 1]
    /\ head' = [head EXCEPT ![cb[s]] = @ \ {s}]
    /\ cb' = [cb EXCEPT ![s] = loc[s]]
    /\ got' = [got EXCEPT ![s] = NULL]
    /\ Goto(s, "relink")
    /\ UNCHANGED <<mem, raw_ptr, gp_seq, lock, word, metaVars, rcu_node, lender, left, syncVars, allVars, loc, reclaimed, over>>

\* The old block is put only if it is NULL (safe_ptr.c:240), which it never
\* is: its count and the node of s in it stay, with no safe pointer for them.
\* The caller gives up what it had loaded from it.
mthpc_cb_xchg(s) ==
    /\ pc[s] = "xchg"
    /\ cb' = [cb EXCEPT ![s] = loc[s]]
    /\ left' = [left EXCEPT ![cb[s]] = @ \union {s}]
    /\ got' = [got EXCEPT ![s] = NULL]
    /\ Goto(s, "relink")
    /\ UNCHANGED <<cbVars, dataVars, metaVars, rcu_node, lender, syncVars, allVars, loc, reclaimed, over>>

\* Broken variant: store() builds no relationship with the new block.
StoreKeepsNode(s) ==
    /\ pc[s] = "relink"
    /\ loc' = [loc EXCEPT ![s] = NULL]
    /\ Goto(s, "idle")
    /\ UNCHANGED <<cbVars, dataVars, metaVars, spVars, syncVars, allVars, reclaimed, over>>

mthpc_safe_ptr_store(s) ==
    /\ pc[s] = "relink"
    /\ mthpc_cb_rcu_init(s)
    /\ loc' = [loc EXCEPT ![s] = NULL]
    /\ Goto(s, "idle")
    /\ UNCHANGED <<cbVars, gp_seq, lock, metaVars, cb, lender, got, left, syncVars, allVars, reclaimed, over>>
-----------------------------------------------------------------------------
(* mthpc_pass_sp_post(), the creation of a safe pointer from a borrowed one. *)

\* The read lock is taken on sp->rcu_node, which is not set yet
\* (safe_ptr.c:287): the process faults, or the node of some safe pointer is
\* locked, or memory that is nobody's node is changed.
mthpc_pass_sp_post(s) ==
    /\ pc[s] = "unborn"
    /\ \E l \in Sps : Live(l) /\ lender' = [lender EXCEPT ![s] = l]
    /\ Goto(s, "borrow")
    /\ \/ over' = TRUE /\ UNCHANGED word
       \/ UNCHANGED <<word, over>>
       \/ /\ \E c \in Cbs : \E n \in head[c] :
                word' = [word EXCEPT ![c][n] =
                           IF @.nest = 0 THEN [phase |-> gp_seq[c], nest |-> 1] ELSE Inc(@)]
          /\ UNCHANGED over
    /\ UNCHANGED <<cbVars, gp_seq, lock, head, metaVars, cb, rcu_node, got, left, syncVars, allVars, loc, reclaimed>>

mthpc_cb_load(s) ==
    /\ pc[s] = "borrow"
    /\ loc' = [loc EXCEPT ![s] = cb[lender[s]]]
    /\ Goto(s, "get")
    /\ UNCHANGED <<cbVars, dataVars, metaVars, spVars, syncVars, allVars, reclaimed, over>>

\* Broken variant: the borrower is not counted.
GetForgotten(n) == n

OneMoreRef(n) == n + 1      \* of refcount

mthpc_cb_get(s) ==
    /\ pc[s] = "get"
    /\ refcount' = [refcount EXCEPT ![loc[s]] = OneMoreRef(@)]
    /\ Goto(s, "join")
    /\ UNCHANGED <<mem, raw_ptr, dataVars, metaVars, spVars, syncVars, allVars, loc, reclaimed, over>>

mthpc_pass_sp_post_init(s) ==
    /\ pc[s] = "join"
    /\ mthpc_cb_rcu_init(s)
    /\ cb' = [cb EXCEPT ![s] = loc[s]]
    /\ lender' = [lender EXCEPT ![s] = NULL]
    /\ loc' = [loc EXCEPT ![s] = NULL]
    /\ Goto(s, "unlock")
    /\ UNCHANGED <<cbVars, gp_seq, lock, metaVars, got, left, syncVars, allVars, reclaimed, over>>
-----------------------------------------------------------------------------
(* load() and cmpxhg(): the read lock as in Rcu, the access, the unlock.   *)
(* The unlock is also the last step of mthpc_pass_sp_post(), where it acts *)
(* on the fresh node.                                                      *)

mthpc_cb_rcu_lock(s) ==
    LET g == word[rcu_node[s]][s] IN
    /\ pc[s] = "idle"
    /\ IF g.nest = 0
       THEN /\ snap' = [snap EXCEPT ![s] = gp_seq[rcu_node[s]]]
            /\ Goto(s, "store")
            /\ UNCHANGED word
       ELSE /\ word' = [word EXCEPT ![rcu_node[s]][s] = Inc(@)]
            /\ Goto(s, "read")
            /\ UNCHANGED snap
    /\ UNCHANGED <<cbVars, gp_seq, lock, head, metaVars, spVars, todo, allVars, loc, reclaimed, over>>

mthpc_cb_rcu_lock_store(s) ==
    /\ pc[s] = "store"
    /\ word' = [word EXCEPT ![rcu_node[s]][s] = [phase |-> snap[s], nest |-> 1]]
    /\ snap' = [snap EXCEPT ![s] = 0]
    /\ Goto(s, "read")
    /\ UNCHANGED <<cbVars, gp_seq, lock, head, metaVars, spVars, todo, allVars, loc, reclaimed, over>>

mthpc_safe_ptr_load(s) ==
    /\ pc[s] = "read"
    /\ got' = [got EXCEPT ![s] = <<cb[s], raw_ptr[cb[s]]>>]
    /\ Goto(s, "unlock")
    /\ UNCHANGED <<cbVars, dataVars, metaVars, cb, rcu_node, lender, left, syncVars, allVars, loc, reclaimed, over>>

\* The caller owns what it has taken out; on failure nothing changes.
mthpc_safe_ptr_cmpxhg(s) ==
    /\ pc[s] = "read"
    /\ \/ raw_ptr[cb[s]] = 0 /\ raw_ptr' = [raw_ptr EXCEPT ![cb[s]] = 1]
       \/ UNCHANGED raw_ptr
    /\ Goto(s, "unlock")
    /\ UNCHANGED <<mem, refcount, dataVars, metaVars, spVars, syncVars, allVars, loc, reclaimed, over>>

mthpc_cb_rcu_unlock(s) ==
    /\ pc[s] = "unlock"
    /\ word' = [word EXCEPT ![rcu_node[s]][s] = Dec(@)]
    /\ Goto(s, "idle")
    /\ UNCHANGED <<cbVars, gp_seq, lock, head, metaVars, spVars, syncVars, allVars, loc, reclaimed, over>>
-----------------------------------------------------------------------------
(* The end of the scope. *)

\* Broken variant: the last but one put takes the block down.
LastButOne(n) == n <= 2

LastPut(n) == n = 1     \* of the count before the put

mthpc_cb_put(c, s) ==
    /\ loc' = [loc EXCEPT ![s] = c]
    /\ refcount' = [refcount EXCEPT ![c] = @ - 1]
    /\ Goto(s, IF LastPut(refcount[c]) THEN "sync" ELSE "del")

mthpc_safe_ptr_destroy(s) ==
    /\ pc[s] = "idle" /\ \A b \in Sps : lender[b] # s
    /\ got' = [got EXCEPT ![s] = NULL]
    /\ mthpc_cb_put(cb[s], s)
    /\ UNCHANGED <<mem, raw_ptr, dataVars, metaVars, cb, rcu_node, lender, left, syncVars, allVars, reclaimed, over>>

mthpc_rcu_del(s) ==
    /\ pc[s] = "del" /\ lock[loc[s]] = NULL
    /\ head' = [head EXCEPT ![loc[s]] = @ \ {s}]
    /\ loc' = [loc EXCEPT ![s] = NULL]
    /\ Goto(s, "dead")
    /\ UNCHANGED <<cbVars, gp_seq, lock, word, metaVars, spVars, syncVars, allVars, reclaimed, over>>
-----------------------------------------------------------------------------
(* mthpc_synchronize_rcu_internal(), called by the last put and by ALL. *)

mthpc_synchronize_rcu_lock(p) ==
    /\ pc[p] = "sync" /\ lock[loc[p]] = NULL
    /\ lock' = [lock EXCEPT ![loc[p]] = p]
    /\ snap' = [snap EXCEPT ![p] = gp_seq[loc[p]]]
    /\ todo' = [todo EXCEPT ![p] = head[loc[p]]]
    /\ Goto(p, "wait1")
    /\ UNCHANGED <<cbVars, gp_seq, head, word, metaVars, spVars, allVars, loc, reclaimed, over>>

mthpc_wait_for_readers(p) ==
    /\ pc[p] \in {"wait1", "wait2"}
    /\ \E n \in todo[p] :
          /\ Passed(word[loc[p]][n], snap[p])
          /\ todo' = [todo EXCEPT ![p] = @ \ {n}]
    /\ UNCHANGED <<cbVars, dataVars, metaVars, spVars, snap, allVars, pc, loc, reclaimed, over>>

mthpc_synchronize_rcu_flip(p) ==
    /\ pc[p] = "wait1" /\ todo[p] = {}
    /\ gp_seq' = [gp_seq EXCEPT ![loc[p]] = Flip(@)]
    /\ todo' = [todo EXCEPT ![p] = head[loc[p]]]
    /\ Goto(p, "wait2")
    /\ UNCHANGED <<cbVars, lock, head, word, metaVars, spVars, snap, allVars, loc, reclaimed, over>>

mthpc_synchronize_rcu_unlock(p) ==
    /\ pc[p] = "wait2" /\ todo[p] = {}
    /\ lock' = [lock EXCEPT ![loc[p]] = NULL]
    /\ snap' = [snap EXCEPT ![p] = 0]
    /\ Goto(p, IF p = ALL THEN "next" ELSE "exit")
    /\ loc' = IF p = ALL THEN [loc EXCEPT ![p] = NULL] ELSE loc
    /\ UNCHANGED <<cbVars, gp_seq, head, word, metaVars, spVars, todo, allVars, reclaimed, over>>
-----------------------------------------------------------------------------
(* The rest of the last put: mthpc_rcu_data_exit() and the destructor. *)

mthpc_rcu_data_exit_nodes(s) ==
    /\ pc[s] = "exit" /\ lock[loc[s]] = NULL
    /\ head' = [head EXCEPT ![loc[s]] = {}]
    /\ Goto(s, "destroy")
    /\ UNCHANGED <<cbVars, gp_seq, lock, word, metaVars, spVars, syncVars, allVars, loc, reclaimed, over>>

\* Destroying a lock that is held fails, and MTHPC_BUG_ON() stops the process.
spin_lock_destroy(s) ==
    /\ pc[s] = "destroy"
    /\ IF lock[loc[s]] = NULL
       THEN lock' = [lock EXCEPT ![loc[s]] = GONE] /\ Goto(s, "unlink") /\ UNCHANGED over
       ELSE over' = TRUE /\ UNCHANGED <<lock, pc>>
    /\ UNCHANGED <<cbVars, gp_seq, head, word, metaVars, spVars, syncVars, allVars, loc, reclaimed>>

\* Broken variant: the walk of the meta list does not find the data.
UnlinkMisses(c) == meta

MetaWithout(c) == meta \ {c}

mthpc_rcu_data_exit_unlink(s) ==
    /\ pc[s] = "unlink" /\ meta_lock = NULL
    /\ meta' = MetaWithout(loc[s])
    /\ Goto(s, "free")
    /\ UNCHANGED <<cbVars, dataVars, meta_lock, spVars, syncVars, allVars, loc, reclaimed, over>>

\* free(data) is given a pointer into the control block (rcu.c:211): an
\* allocator that checks stops the process, another one takes the block back.
mthpc_rcu_data_exit_free(s) ==
    /\ pc[s] = "free"
    /\ \/ over' = TRUE /\ UNCHANGED <<mem, pc>>
       \/ mem' = [mem EXCEPT ![loc[s]] = "freed"] /\ Goto(s, "dtor") /\ UNCHANGED over
    /\ UNCHANGED <<refcount, raw_ptr, dataVars, metaVars, spVars, syncVars, allVars, loc, reclaimed>>

\* The fields of the block are read after that (safe_ptr.c:155), from memory
\* that nobody has been given in the meantime.
dtor(s) ==
    /\ pc[s] = "dtor"
    /\ reclaimed' = reclaimed \union {<<loc[s], raw_ptr[loc[s]]>>}
    /\ loc' = [loc EXCEPT ![s] = NULL]
    /\ Goto(s, "dead")
    /\ UNCHANGED <<cbVars, dataVars, metaVars, spVars, syncVars, allVars, over>>
-----------------------------------------------------------------------------
(* mthpc_synchronize_rcu_all(); the meta list is walked in any order. *)

mthpc_synchronize_rcu_all ==
    /\ pc[ALL] = "idle" /\ alls < MaxAll /\ meta_lock = NULL
    /\ meta_lock' = ALL /\ walk' = meta /\ alls' = alls + 1
    /\ Goto(ALL, "next")
    /\ UNCHANGED <<cbVars, dataVars, meta, spVars, syncVars, loc, reclaimed, over>>

mthpc_synchronize_rcu_all_next ==
    /\ pc[ALL] = "next"
    /\ \/ /\ walk = {}
          /\ meta_lock' = NULL /\ Goto(ALL, "idle")
          /\ UNCHANGED <<walk, loc>>
       \/ \E c \in walk :
          /\ walk' = walk \ {c} /\ loc' = [loc EXCEPT ![ALL] = c] /\ Goto(ALL, "sync")
          /\ UNCHANGED meta_lock
    /\ UNCHANGED <<cbVars, dataVars, meta, spVars, syncVars, alls, reclaimed, over>>
-----------------------------------------------------------------------------
\* Who is about to take the lock of the data of loc[p].
WantsLock(p) == pc[p] \in {"init", "relink", "join", "del", "sync", "exit"}

\* Taking a destroyed lock fails, and MTHPC_BUG_ON() stops the process.
spin_lock_fails(p) ==
    /\ WantsLock(p) /\ lock[loc[p]] = GONE
    /\ over' = TRUE
    /\ UNCHANGED <<cbVars, dataVars, metaVars, spVars, syncVars, allVars, pc, loc, reclaimed>>

ScopeStep(s) ==
    \/ mthpc_cb_create(s, "unborn", "init") \/ mthpc_safe_ptr_create(s)
    \/ mthpc_cb_create(s, "idle", "xchg") \/ mthpc_cb_xchg(s) \/ mthpc_safe_ptr_store(s)
    \/ mthpc_pass_sp_post(s) \/ mthpc_cb_load(s) \/ mthpc_cb_get(s) \/ mthpc_pass_sp_post_init(s)
    \/ mthpc_cb_rcu_lock(s) \/ mthpc_cb_rcu_lock_store(s) \/ mthpc_cb_rcu_unlock(s)
    \/ mthpc_safe_ptr_load(s) \/ mthpc_safe_ptr_cmpxhg(s)
    \/ mthpc_safe_ptr_destroy(s) \/ mthpc_rcu_del(s)
    \/ mthpc_rcu_data_exit_nodes(s) \/ spin_lock_destroy(s) \/ mthpc_rcu_data_exit_unlink(s)
    \/ mthpc_rcu_data_exit_free(s) \/ dtor(s)

SyncStep(p) ==
    \/ mthpc_synchronize_rcu_lock(p) \/ mthpc_wait_for_readers(p)
    \/ mthpc_synchronize_rcu_flip(p) \/ mthpc_synchronize_rcu_unlock(p)
    \/ spin_lock_fails(p)

Next ==
    /\ ~over
    /\ \/ \E s \in Sps : ScopeStep(s)
       \/ \E p \in Procs : SyncStep(p)
       \/ mthpc_synchronize_rcu_all \/ mthpc_synchronize_rcu_all_next

Spec == Init /\ [][Next]_vars
-----------------------------------------------------------------------------
\* The safe pointer of s points to c, or the call in progress in s has counted
\* it in c and is about to point it there.
Refers(s, c) ==
    \/ Live(s) /\ cb[s] = c
    \/ pc[s] \in {"init", "xchg", "join"} /\ loc[s] = c

\* The type of every variable but refcount.
FieldTypeOK ==
    /\ mem \in [Cbs -> {"none", "alloc", "freed"}] /\ raw_ptr \in [Cbs -> {0, 1}]
    /\ gp_seq \in [Cbs -> Phases] /\ lock \in [Cbs -> Procs \union {NULL, GONE}]
    /\ head \in [Cbs -> SUBSET Sps] /\ word \in [Cbs -> [Sps -> GpSeq]]
    /\ meta \subseteq Cbs /\ meta_lock \in {ALL, NULL}
    /\ cb \in [Sps -> Cbs \union {NULL}] /\ rcu_node \in [Sps -> Cbs \union {NULL}]
    /\ pc \in [Procs -> {"unborn", "init", "borrow", "get", "join", "idle", "store", "read",
                         "unlock", "xchg", "relink", "del", "sync", "wait1", "wait2", "exit",
                         "destroy", "unlink", "free", "dtor", "dead", "next"}]
    /\ loc \in [Procs -> Cbs \union {NULL}] /\ lender \in [Sps -> Sps \union {NULL}]
    /\ got \in [Sps -> Objects \union {NULL}] /\ reclaimed \subseteq Objects
    /\ left \in [Cbs -> SUBSET Sps]
    /\ snap \in [Procs -> Phases] /\ todo \in [Procs -> SUBSET Sps]
    /\ walk \subseteq Cbs /\ alls \in 0..MaxAll /\ over \in BOOLEAN

(* The type of every variable; a control block has at most one reference   *)
(* per safe pointer.                                                       *)
TypeOK == FieldTypeOK /\ refcount \in [Cbs -> 0..Cardinality(Sps)]

(* The count of a control block is the number of safe pointers that point *)
(* to it, plus one for every store() that took a safe pointer away from it *)
(* (the put of the old block at safe_ptr.c:240-247 is never made, so its   *)
(* reference is leaked); nothing else is leaked or put twice, in whatever  *)
(* order scopes borrow, store and end.  It is what the warnings "refcount  *)
(* is zero" and "refcount is corrupted" (safe_ptr.c:141, 151) are about.   *)
RefsCounted ==
    \A c \in Cbs : refcount[c] = Cardinality({s \in Sps : Refers(s, c)}) + Cardinality(left[c])

(* A control block is not taken down while a safe pointer points to it, or *)
(* while a borrower has read its address from the lender and not counted   *)
(* itself yet: "we use rcu to prevent the other thread free the control    *)
(* block during the duplication on read side" (safe_ptr.c:56).  Should the *)
(* lender store() in between, it is the leaked reference that keeps it.    *)
CbLive ==
    \A s \in Sps, c \in Cbs : Refers(s, c) \/ (pc[s] = "get" /\ loc[s] = c) =>
        mem[c] = "alloc" /\ lock[c] # GONE /\ refcount[c] > 0

(* An object got from load() is not reclaimed while the scope that loaded  *)
(* it has its safe pointer.                                                *)
LoadedObjectLive == \A s \in Sps : got[s] \notin reclaimed

(* A reader's node is in the list that the last put of its control block   *)
(* will wait on: sp->cb and sp->rcu_node agree whenever a read section can *)
(* begin or go on.                                                         *)
ReaderVisible ==
    \A s \in Sps : pc[s] \in {"idle", "store", "read", "unlock"} =>
        rcu_node[s] = cb[s] /\ s \in head[cb[s]]

(* Every rcu_data in the meta list is allocated. *)
MetaLive == \A c \in meta : mem[c] = "alloc"

(* Whoever is about to take the lock of an rcu_data finds it initialised   *)
(* and allocated, or spin_lock() ends the process (spinlock.h:47).         *)
LockUsable ==
    \A p \in Procs : WantsLock(p) => lock[loc[p]] # GONE /\ mem[loc[p]] = "alloc"
=============================================================================
