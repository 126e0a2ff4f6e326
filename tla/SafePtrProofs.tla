--------------------------- MODULE SafePtrProofs ---------------------------
(***************************************************************************)
(* The counting and the lifetime of control blocks, for any number of safe *)
(* pointers and control blocks and any nesting mask.                       *)
(***************************************************************************)
EXTENDS SafePtr, FiniteSetTheorems, TLAPS

\* s is included in the count of c: the call in progress has counted it, or its
\* node is linked in c and is not being put.
OnCount(s, c) ==
    \/ pc[s] \in {"init", "xchg", "relink", "join"} /\ loc[s] = c
    \/ s \in head[c] /\ ~(pc[s] \in {"del", "sync", "wait1", "wait2", "exit", "destroy",
                                     "unlink", "free", "dtor"} /\ loc[s] = c)

Refs(c) == {s \in Sps : OnCount(s, c)}

NodesCounted == \A c \in Cbs : refcount[c] = Cardinality({s \in Sps : OnCount(s, c)})

(* What is counted without being referred to is what store() left.         *)
LeftOK(s, c) ==
    /\ Refers(s, c) => OnCount(s, c)
    /\ s \in left[c] <=> OnCount(s, c) /\ ~Refers(s, c)

LeftState ==
    /\ \A s \in Sps : pc[s] = "xchg" => loc[s] # cb[s]
    /\ \A s \in Sps, c \in Cbs : LeftOK(s, c)

(* Phases of a scope: before its node is linked; while its safe pointer    *)
(* and its node agree; taking its control block down.                      *)
Newborn(s) == pc[s] \in {"unborn", "init", "borrow", "get", "join"}
Holding(s) == pc[s] \in {"idle", "store", "read", "unlock", "xchg"}
Borrowing(s) == pc[s] \in {"borrow", "get", "join"}
Down(s) == pc[s] \in {"sync", "wait1", "wait2", "exit", "destroy", "unlink", "free", "dtor"}
Waiting(p) == pc[p] \in {"wait1", "wait2"}

(* What the pointer fields of a scope are, by where it is. *)
ScopeOK(s) ==
    /\ pc[s] # "next"
    /\ loc[s] # NULL <=> Down(s) \/ pc[s] \in {"init", "get", "join", "xchg", "relink", "del"}
    /\ Newborn(s) => \A c \in Cbs : s \notin head[c]
    /\ Holding(s) => cb[s] # NULL /\ rcu_node[s] = cb[s] /\ s \in head[cb[s]]
    /\ pc[s] = "relink" => cb[s] = loc[s]
    /\ got[s] # NULL => Holding(s) /\ got[s][1] = cb[s]

ScopeState == \A s \in Sps : ScopeOK(s)

(* A lender is not destroyed, and what a borrower has read from it stays   *)
(* referred to by the lender, even if the lender stores meanwhile.         *)
LenderState ==
    \A s \in Sps :
        /\ lender[s] # NULL <=> Borrowing(s)
        /\ lender[s] # NULL => Live(lender[s])
        /\ pc[s] = "get" => OnCount(lender[s], loc[s])

(* A block that does not exist yet is nowhere, and one that is being or    *)
(* has been taken down has no references.                                  *)
BlockState ==
    \A c \in Cbs :
        /\ mem[c] = "none" => head[c] = {} /\ lock[c] # GONE /\ \A s \in Sps : loc[s] # c
        /\ mem[c] # "alloc" => c \notin meta
        /\ mem[c] # "alloc" \/ lock[c] = GONE => refcount[c] = 0

(* Only the scope of the last put takes a block down. *)
TeardownState ==
    /\ \A s \in Sps : Down(s) =>
        /\ refcount[loc[s]] = 0
        /\ pc[s] \in {"destroy", "unlink", "free", "dtor"} => head[loc[s]] = {}
        /\ pc[s] \in {"free", "dtor"} => loc[s] \notin meta
        /\ pc[s] = "dtor" => mem[loc[s]] = "freed"
    /\ \A o \in reclaimed : mem[o[1]] = "freed"

(* No two scopes take the same control block down, and none takes one down *)
(* whose object has been reclaimed: the destructor runs once.              *)
TakenDownOnce ==
    /\ \A s, t \in Sps : Down(s) /\ Down(t) /\ loc[s] = loc[t] => s = t
    /\ \A s \in Sps : Down(s) => \A o \in reclaimed : o[1] # loc[s]

(* Whoever waits for the readers of an rcu_data holds its lock. *)
LockState ==
    /\ pc[ALL] \in {"idle", "next", "sync", "wait1", "wait2"}
    /\ loc[ALL] # NULL <=> pc[ALL] \in {"sync", "wait1", "wait2"}
    /\ \A p \in Procs : Waiting(p) => lock[loc[p]] = p

SafePtrInv ==
    /\ TypeOK /\ NodesCounted /\ ScopeState /\ LenderState
    /\ BlockState /\ TeardownState /\ TakenDownOnce /\ LockState /\ LeftState
-----------------------------------------------------------------------------
(* NULL, GONE and ALL name nothing else. *)
LEMMA Names ==
    /\ NULL \notin Cbs /\ NULL \notin Sps /\ NULL \notin Procs
    /\ GONE \notin Procs /\ NULL # GONE
    /\ ALL \notin Sps /\ MaxAll \in Nat /\ NULL \notin Objects
BY SafePtrAssumption DEF Cbs, Procs, Objects

(* Counting keeps a word a word. *)
LEMMA WordClosed ==
    /\ Idle \in GpSeq /\ \A g \in GpSeq : Inc(g) \in GpSeq /\ Dec(g) \in GpSeq
    /\ \A ph \in Phases : Flip(ph) \in Phases
BY SafePtrAssumption DEF GpSeq, Phases, Inc, Dec, Idle, Flip

(* A count of zero means no reference, and a reference keeps the block. *)
Referred ==
    /\ \A c \in Cbs : refcount[c] = 0 => \A s \in Sps : ~OnCount(s, c)
    /\ \A s \in Sps, c \in Cbs : OnCount(s, c) =>
          refcount[c] > 0 /\ mem[c] = "alloc" /\ lock[c] # GONE

(* A block with a count of 0 is one that nobody refers to. *)
LEMMA CountFacts == TypeOK /\ NodesCounted /\ BlockState => Referred
<1> SUFFICES ASSUME TypeOK, NodesCounted, BlockState PROVE Referred
  OBVIOUS
<1>1. ASSUME NEW c \in Cbs
      PROVE  refcount[c] \in Nat /\ (refcount[c] = 0 <=> \A s \in Sps : ~OnCount(s, c))
  <2>1. refcount[c] = Cardinality(Refs(c)) /\ IsFiniteSet(Refs(c))
    BY FS_Subset, SafePtrAssumption DEF NodesCounted, Refs
  <2>2. refcount[c] \in Nat /\ (refcount[c] = 0 <=> Refs(c) = {})
    BY <2>1, FS_EmptySet, FS_CardinalityType
  <2> QED BY <2>2 DEF Refs
<1> QED BY <1>1 DEF BlockState, Referred

(* Setting the word of one node keeps the type of all. *)
LEMMA SetWord ==
    ASSUME NEW f \in [Cbs -> [Sps -> GpSeq]], NEW c \in Cbs, NEW n \in Sps, NEW g \in GpSeq
    PROVE  [f EXCEPT ![c][n] = g] \in [Cbs -> [Sps -> GpSeq]]
OBVIOUS

(* Where a call works on a control block, there is one. *)
Located ==
    /\ \A s \in Sps : Holding(s) => cb[s] \in Cbs /\ rcu_node[s] \in Cbs
    /\ \A s \in Sps : pc[s] \in {"init", "get", "join", "xchg", "relink", "del"} => loc[s] \in Cbs
    /\ \A s \in Sps : Down(s) => loc[s] \in Cbs
    /\ \A p \in Procs : pc[p] \in {"sync", "wait1", "wait2"} => loc[p] \in Cbs

(* In every phase that works on a control block there is one. *)
LEMMA LocFacts == FieldTypeOK /\ ScopeState /\ LockState => Located
<1> SUFFICES ASSUME FieldTypeOK, ScopeState, LockState PROVE Located
  OBVIOUS
<1>1. \A s \in Sps : Holding(s) => cb[s] \in Cbs /\ rcu_node[s] \in Cbs
  BY DEF FieldTypeOK, ScopeState, ScopeOK
<1>2. \A p \in Procs : loc[p] # NULL => loc[p] \in Cbs
  BY DEF FieldTypeOK
<1> QED BY <1>1, <1>2 DEF ScopeState, ScopeOK, LockState, Procs, Down, Located

(* The fields keep their types; the counts need NodesCounted. *)
LEMMA FieldTypeStep ==
    ASSUME FieldTypeOK, ScopeState, LenderState, LockState, [Next]_vars
    PROVE  FieldTypeOK'
<1> USE Names, WordClosed
    DEF FieldTypeOK, Procs, Goto, cbVars, dataVars, metaVars, spVars, syncVars, allVars
<1>1. ASSUME NEW s \in Sps, mthpc_cb_create(s, "unborn", "init") PROVE FieldTypeOK'
  BY <1>1 DEF mthpc_cb_create, mthpc_rcu_data_init
<1>2. ASSUME NEW s \in Sps, mthpc_cb_create(s, "idle", "xchg") PROVE FieldTypeOK'
  BY <1>2 DEF mthpc_cb_create, mthpc_rcu_data_init
<1>3. ASSUME NEW s \in Sps, mthpc_safe_ptr_create(s) PROVE FieldTypeOK'
  <2>1. loc[s] \in Cbs
    BY <1>3, LocFacts DEF Located, mthpc_safe_ptr_create
  <2>2. word' \in [Cbs -> [Sps -> GpSeq]]
    BY <1>3, <2>1, SetWord DEF mthpc_safe_ptr_create, mthpc_cb_rcu_init, mthpc_rcu_add
  <2> QED BY <1>3, <2>1, <2>2 DEF mthpc_safe_ptr_create, mthpc_cb_rcu_init, mthpc_rcu_add
<1>4. ASSUME NEW s \in Sps, mthpc_cb_xchg(s) PROVE FieldTypeOK'
  <2>1. cb[s] \in Cbs /\ loc[s] \in Cbs
    BY <1>4, LocFacts DEF Located, Holding, mthpc_cb_xchg
  <2>2. left' = [left EXCEPT ![cb[s]] = left[cb[s]] \union {s}]
    BY <1>4 DEF mthpc_cb_xchg
  <2>3. left' \in [Cbs -> SUBSET Sps]
    BY <2>1, <2>2
  <2> QED BY <1>4, <2>1, <2>3 DEF mthpc_cb_xchg
<1>5. ASSUME NEW s \in Sps, mthpc_safe_ptr_store(s) PROVE FieldTypeOK'
  <2>1. loc[s] \in Cbs
    BY <1>5, LocFacts DEF Located, mthpc_safe_ptr_store
  <2>2. word' \in [Cbs -> [Sps -> GpSeq]]
    BY <1>5, <2>1, SetWord DEF mthpc_safe_ptr_store, mthpc_cb_rcu_init, mthpc_rcu_add
  <2> QED BY <1>5, <2>1, <2>2 DEF mthpc_safe_ptr_store, mthpc_cb_rcu_init, mthpc_rcu_add
<1>6. ASSUME NEW s \in Sps, mthpc_pass_sp_post(s) PROVE FieldTypeOK'
  <2>1. word' \in [Cbs -> [Sps -> GpSeq]]
    <3>1. ASSUME NEW c \in Cbs, NEW n \in head[c],
                 word' = [word EXCEPT ![c][n] =
                            IF @.nest = 0 THEN [phase |-> gp_seq[c], nest |-> 1] ELSE Inc(@)]
          PROVE  word' \in [Cbs -> [Sps -> GpSeq]]
      <4>1. n \in Sps /\ word[c][n] \in GpSeq /\ [phase |-> gp_seq[c], nest |-> 1] \in GpSeq
        BY SafePtrAssumption DEF GpSeq
      <4> QED BY <3>1, <4>1, SetWord
    <3> QED BY <1>6, <3>1 DEF mthpc_pass_sp_post
  <2>2. over' \in BOOLEAN
    BY <1>6, Zenon DEF mthpc_pass_sp_post
  <2> QED BY <1>6, <2>1, <2>2 DEF mthpc_pass_sp_post
<1>7. ASSUME NEW s \in Sps, mthpc_cb_load(s) PROVE FieldTypeOK'
  BY <1>7 DEF LenderState, Borrowing, mthpc_cb_load
<1>8. ASSUME NEW s \in Sps, mthpc_cb_get(s) PROVE FieldTypeOK'
  BY <1>8 DEF mthpc_cb_get
<1>9. ASSUME NEW s \in Sps, mthpc_pass_sp_post_init(s) PROVE FieldTypeOK'
  <2>1. loc[s] \in Cbs
    BY <1>9, LocFacts DEF Located, mthpc_pass_sp_post_init
  <2>2. word' \in [Cbs -> [Sps -> GpSeq]]
    BY <1>9, <2>1, SetWord DEF mthpc_pass_sp_post_init, mthpc_cb_rcu_init, mthpc_rcu_add
  <2> QED BY <1>9, <2>1, <2>2 DEF mthpc_pass_sp_post_init, mthpc_cb_rcu_init, mthpc_rcu_add
<1>10. ASSUME NEW s \in Sps, mthpc_cb_rcu_lock(s) PROVE FieldTypeOK'
  <2>1. rcu_node[s] \in Cbs
    BY <1>10, LocFacts DEF Located, Holding, mthpc_cb_rcu_lock
  <2>2. CASE word[rcu_node[s]][s].nest = 0
    <3>1. snap' = [snap EXCEPT ![s] = gp_seq[rcu_node[s]]] /\ word' = word
          /\ pc' = [pc EXCEPT ![s] = "store"]
      BY <1>10, <2>2, Zenon DEF mthpc_cb_rcu_lock
    <3> QED BY <1>10, <2>1, <3>1 DEF mthpc_cb_rcu_lock
  <2>3. CASE word[rcu_node[s]][s].nest # 0
    <3>1. word[rcu_node[s]][s] \in GpSeq
      BY <2>1
    <3>2. word' \in [Cbs -> [Sps -> GpSeq]]
      <4>1. word' = [word EXCEPT ![rcu_node[s]][s] = Inc(word[rcu_node[s]][s])]
        BY <1>10, <2>3, Zenon DEF mthpc_cb_rcu_lock
      <4> QED BY <2>1, <3>1, <4>1, SetWord
    <3>3. snap' = snap /\ pc' = [pc EXCEPT ![s] = "read"]
      BY <1>10, <2>3, Zenon DEF mthpc_cb_rcu_lock
    <3> QED BY <1>10, <3>2, <3>3 DEF mthpc_cb_rcu_lock
  <2> QED BY <2>2, <2>3
<1>11. ASSUME NEW s \in Sps, mthpc_cb_rcu_lock_store(s) PROVE FieldTypeOK'
  <2>1. rcu_node[s] \in Cbs
    BY <1>11, LocFacts DEF Located, Holding, mthpc_cb_rcu_lock_store
  <2>2. [phase |-> snap[s], nest |-> 1] \in GpSeq
    BY SafePtrAssumption DEF GpSeq
  <2>3. word' \in [Cbs -> [Sps -> GpSeq]]
    BY <1>11, <2>1, <2>2, SetWord DEF mthpc_cb_rcu_lock_store
  <2> QED BY <1>11, <2>3 DEF mthpc_cb_rcu_lock_store, Phases
<1>12. ASSUME NEW s \in Sps, mthpc_cb_rcu_unlock(s) PROVE FieldTypeOK'
  BY <1>12 DEF ScopeState, ScopeOK, Holding, mthpc_cb_rcu_unlock
<1>13. ASSUME NEW s \in Sps, mthpc_safe_ptr_load(s) PROVE FieldTypeOK'
  BY <1>13 DEF ScopeState, ScopeOK, Holding, mthpc_safe_ptr_load, Objects
<1>14. ASSUME NEW s \in Sps, mthpc_safe_ptr_cmpxhg(s) PROVE FieldTypeOK'
  BY <1>14 DEF mthpc_safe_ptr_cmpxhg
<1>15. ASSUME NEW s \in Sps, mthpc_safe_ptr_destroy(s) PROVE FieldTypeOK'
  BY <1>15 DEF ScopeState, ScopeOK, Holding, mthpc_safe_ptr_destroy, mthpc_cb_put
<1>16. ASSUME NEW s \in Sps, mthpc_rcu_del(s) PROVE FieldTypeOK'
  BY <1>16 DEF mthpc_rcu_del
<1>17. ASSUME NEW s \in Sps, mthpc_rcu_data_exit_nodes(s) PROVE FieldTypeOK'
  BY <1>17 DEF mthpc_rcu_data_exit_nodes
<1>18. ASSUME NEW s \in Sps, spin_lock_destroy(s) PROVE FieldTypeOK'
  <2>1. CASE lock[loc[s]] = NULL
    <3>1. lock' = [lock EXCEPT ![loc[s]] = GONE]
          /\ pc' = [pc EXCEPT ![s] = "unlink"] /\ over' = over
      BY <1>18, <2>1, Zenon DEF spin_lock_destroy
    <3>2. lock' \in [Cbs -> Procs \union {NULL, GONE}]
      BY <3>1
    <3>3. over' \in BOOLEAN
      BY <3>1, Zenon
    <3> QED BY <1>18, <3>1, <3>2, <3>3 DEF spin_lock_destroy
  <2>2. CASE lock[loc[s]] # NULL
    BY <1>18, <2>2 DEF spin_lock_destroy
  <2> QED BY <2>1, <2>2
<1>19. ASSUME NEW s \in Sps, mthpc_rcu_data_exit_unlink(s) PROVE FieldTypeOK'
  BY <1>19 DEF mthpc_rcu_data_exit_unlink, MetaWithout
<1>20. ASSUME NEW s \in Sps, mthpc_rcu_data_exit_free(s) PROVE FieldTypeOK'
  <2>1. CASE over' = TRUE /\ UNCHANGED <<mem, pc>>
    BY <1>20, <2>1 DEF mthpc_rcu_data_exit_free
  <2>2. CASE mem' = [mem EXCEPT ![loc[s]] = "freed"]
             /\ pc' = [pc EXCEPT ![s] = "dtor"] /\ over' = over
    BY <1>20, <2>2 DEF mthpc_rcu_data_exit_free
  <2> QED BY <1>20, <2>1, <2>2 DEF mthpc_rcu_data_exit_free
<1>21. ASSUME NEW s \in Sps, dtor(s) PROVE FieldTypeOK'
  BY <1>21 DEF ScopeState, ScopeOK, Down, dtor, Objects
<1>22. ASSUME NEW p \in Procs, mthpc_synchronize_rcu_lock(p) PROVE FieldTypeOK'
  <2>1. loc[p] \in Cbs
    BY <1>22, LocFacts DEF Located, mthpc_synchronize_rcu_lock
  <2> QED BY <1>22, <2>1 DEF mthpc_synchronize_rcu_lock
<1>23. ASSUME NEW p \in Procs, mthpc_wait_for_readers(p) PROVE FieldTypeOK'
  BY <1>23 DEF mthpc_wait_for_readers
<1>24. ASSUME NEW p \in Procs, mthpc_synchronize_rcu_flip(p) PROVE FieldTypeOK'
  <2>1. loc[p] \in Cbs
    BY <1>24, LocFacts DEF Located, mthpc_synchronize_rcu_flip
  <2>2. gp_seq' \in [Cbs -> Phases]
    BY <1>24, <2>1 DEF mthpc_synchronize_rcu_flip
  <2> QED BY <1>24, <2>1, <2>2 DEF mthpc_synchronize_rcu_flip
<1>25. ASSUME NEW p \in Procs, mthpc_synchronize_rcu_unlock(p) PROVE FieldTypeOK'
  BY <1>25 DEF mthpc_synchronize_rcu_unlock, Phases
<1>26. ASSUME NEW p \in Procs, spin_lock_fails(p) PROVE FieldTypeOK'
  BY <1>26 DEF spin_lock_fails
<1>27. CASE mthpc_synchronize_rcu_all
  BY <1>27 DEF mthpc_synchronize_rcu_all
<1>28. CASE mthpc_synchronize_rcu_all_next
  BY <1>28 DEF mthpc_synchronize_rcu_all_next
<1>29. CASE UNCHANGED vars
  BY <1>29 DEF vars
<1> QED
  BY <1>1, <1>2, <1>3, <1>4, <1>5, <1>6, <1>7, <1>8, <1>9, <1>10, <1>11, <1>12, <1>13, <1>14,
     <1>15,
     <1>16, <1>17, <1>18, <1>19, <1>20, <1>21, <1>22, <1>23, <1>24, <1>25, <1>26, <1>27, <1>28, <1>29
     DEF Next, ScopeStep, SyncStep
-----------------------------------------------------------------------------
(* Steps that leave alone what the other parts of the invariant read, but  *)
(* for the way through a read section or a grace period.                   *)
Reading == {"idle", "store", "read", "unlock"}

Quiet ==
    /\ mem' = mem /\ refcount' = refcount /\ meta' = meta /\ lock' = lock /\ head' = head
    /\ cb' = cb /\ rcu_node' = rcu_node /\ loc' = loc /\ lender' = lender /\ got' = got
    /\ reclaimed' = reclaimed /\ left' = left
    /\ \A p \in Procs :
          \/ pc'[p] = pc[p]
          \/ p \in Sps /\ pc[p] \in Reading /\ pc'[p] \in Reading
          \/ pc[p] = "wait1" /\ pc'[p] = "wait2"
          \/ p = ALL /\ pc[p] = "idle" /\ pc'[p] = "next"
          \/ p = ALL /\ pc[p] = "next" /\ pc'[p] = "idle"

(* The read side, the waits for readers and the compare-exchange are quiet. *)
LEMMA QuietSteps ==
    ASSUME TypeOK, NEW p \in Procs,
           \/ p \in Sps /\ (mthpc_cb_rcu_lock(p) \/ mthpc_cb_rcu_lock_store(p))
           \/ p \in Sps /\ (mthpc_cb_rcu_unlock(p) \/ mthpc_safe_ptr_cmpxhg(p))
           \/ mthpc_wait_for_readers(p) \/ mthpc_synchronize_rcu_flip(p) \/ spin_lock_fails(p)
           \/ mthpc_synchronize_rcu_all
           \/ mthpc_synchronize_rcu_all_next /\ pc'[ALL] # "sync"
           \/ UNCHANGED vars
    PROVE  Quiet
<1> USE DEF TypeOK, FieldTypeOK, Quiet, Reading, Goto, cbVars, dataVars, metaVars, spVars,
   syncVars, allVars
<1>1. CASE p \in Sps /\ mthpc_cb_rcu_lock(p)
  <2>1. pc[p] = "idle" /\ (pc' = [pc EXCEPT ![p] = "store"] \/ pc' = [pc EXCEPT ![p] = "read"])
    BY <1>1, Zenon DEF mthpc_cb_rcu_lock
  <2> QED BY <1>1, <2>1 DEF mthpc_cb_rcu_lock
<1>2. CASE p \in Sps /\ mthpc_cb_rcu_lock_store(p)
  BY <1>2 DEF mthpc_cb_rcu_lock_store
<1>3. CASE p \in Sps /\ mthpc_cb_rcu_unlock(p)
  BY <1>3 DEF mthpc_cb_rcu_unlock
<1>4. CASE p \in Sps /\ mthpc_safe_ptr_cmpxhg(p)
  BY <1>4 DEF mthpc_safe_ptr_cmpxhg
<1>5. CASE mthpc_wait_for_readers(p)
  BY <1>5 DEF mthpc_wait_for_readers
<1>6. CASE mthpc_synchronize_rcu_flip(p)
  BY <1>6 DEF mthpc_synchronize_rcu_flip
<1>7. CASE spin_lock_fails(p)
  BY <1>7 DEF spin_lock_fails
<1>8. CASE mthpc_synchronize_rcu_all
  BY <1>8 DEF mthpc_synchronize_rcu_all
<1>9. CASE mthpc_synchronize_rcu_all_next /\ pc'[ALL] # "sync"
  BY <1>9 DEF mthpc_synchronize_rcu_all_next, Procs
<1>10. CASE UNCHANGED vars
  BY <1>10 DEF vars
<1> QED BY <1>1, <1>2, <1>3, <1>4, <1>5, <1>6, <1>7, <1>8, <1>9, <1>10

(* The other steps, one by one. *)
LEMMA StepCases ==
    ASSUME TypeOK, [Next]_vars
    PROVE  \/ Quiet
           \/ \E s \in Sps :
                \/ mthpc_cb_create(s, "unborn", "init") \/ mthpc_cb_create(s, "idle", "xchg")
                \/ mthpc_safe_ptr_create(s) \/ mthpc_cb_xchg(s) \/ mthpc_safe_ptr_store(s)
                \/ mthpc_pass_sp_post(s) \/ mthpc_cb_load(s) \/ mthpc_cb_get(s)
                \/ mthpc_pass_sp_post_init(s) \/ mthpc_safe_ptr_load(s)
                \/ mthpc_safe_ptr_destroy(s) \/ mthpc_rcu_del(s)
                \/ mthpc_rcu_data_exit_nodes(s) \/ spin_lock_destroy(s)
                \/ mthpc_rcu_data_exit_unlink(s) \/ mthpc_rcu_data_exit_free(s) \/ dtor(s)
           \/ \E p \in Procs : mthpc_synchronize_rcu_lock(p) \/ mthpc_synchronize_rcu_unlock(p)
           \/ mthpc_synchronize_rcu_all_next /\ pc'[ALL] = "sync"
<1>1. Sps \subseteq Procs /\ ALL \in Procs
  BY DEF Procs
<1> QED BY <1>1, QuietSteps DEF Next, ScopeStep, SyncStep
-----------------------------------------------------------------------------
(* Counting. *)

(* References that nobody gains or loses. *)
LEMMA CountKept ==
    ASSUME NodesCounted, refcount' = refcount,
           \A s \in Sps, c \in Cbs : OnCount(s, c)' <=> OnCount(s, c)
    PROVE  NodesCounted'
<1> SUFFICES ASSUME NEW c \in Cbs
             PROVE  refcount'[c] = Cardinality({s \in Sps : OnCount(s, c)'})
  BY DEF NodesCounted
<1>1. {s \in Sps : OnCount(s, c)'} = {s \in Sps : OnCount(s, c)}
  OBVIOUS
<1> QED BY <1>1 DEF NodesCounted

(* One safe pointer more refers to the block. *)
LEMMA CountUp ==
    ASSUME TypeOK, NodesCounted, NEW t \in Sps, NEW d \in Cbs,
           ~OnCount(t, d), OnCount(t, d)', refcount'[d] = refcount[d] + 1,
           \A c \in Cbs : c # d => refcount'[c] = refcount[c],
           \A s \in Sps, c \in Cbs : (s # t \/ c # d) => (OnCount(s, c)' <=> OnCount(s, c))
    PROVE  NodesCounted'
<1> SUFFICES ASSUME NEW c \in Cbs
             PROVE  refcount'[c] = Cardinality({s \in Sps : OnCount(s, c)'})
  BY DEF NodesCounted
<1>1. CASE c # d
  <2>1. {s \in Sps : OnCount(s, c)'} = {s \in Sps : OnCount(s, c)}
    BY <1>1
  <2> QED BY <1>1, <2>1 DEF NodesCounted, TypeOK
<1>2. CASE c = d
  <2>1. {s \in Sps : OnCount(s, c)'} = Refs(c) \union {t} /\ t \notin Refs(c)
    BY <1>2 DEF Refs
  <2>2. IsFiniteSet(Refs(c))
    BY FS_Subset, SafePtrAssumption DEF Refs
  <2>3. Cardinality(Refs(c) \union {t}) = Cardinality(Refs(c)) + 1
    BY <2>1, <2>2, FS_AddElement
  <2> QED BY <1>2, <2>1, <2>3 DEF NodesCounted, TypeOK, Refs
<1> QED BY <1>1, <1>2

(* One safe pointer less refers to the block. *)
LEMMA CountDown ==
    ASSUME TypeOK, NodesCounted, NEW t \in Sps, NEW d \in Cbs,
           OnCount(t, d), ~OnCount(t, d)', refcount'[d] = refcount[d] - 1,
           \A c \in Cbs : c # d => refcount'[c] = refcount[c],
           \A s \in Sps, c \in Cbs : (s # t \/ c # d) => (OnCount(s, c)' <=> OnCount(s, c))
    PROVE  NodesCounted'
<1> SUFFICES ASSUME NEW c \in Cbs
             PROVE  refcount'[c] = Cardinality({s \in Sps : OnCount(s, c)'})
  BY DEF NodesCounted
<1>1. CASE c # d
  <2>1. {s \in Sps : OnCount(s, c)'} = {s \in Sps : OnCount(s, c)}
    BY <1>1
  <2> QED BY <1>1, <2>1 DEF NodesCounted, TypeOK
<1>2. CASE c = d
  <2>1. {s \in Sps : OnCount(s, c)'} = Refs(c) \ {t} /\ t \in Refs(c)
    BY <1>2 DEF Refs
  <2>2. IsFiniteSet(Refs(c))
    BY FS_Subset, SafePtrAssumption DEF Refs
  <2>3. Cardinality(Refs(c) \ {t}) = Cardinality(Refs(c)) - 1
    BY <2>1, <2>2, FS_RemoveElement
  <2> QED BY <1>2, <2>1, <2>3 DEF NodesCounted, TypeOK, Refs
<1> QED BY <1>1, <1>2
-----------------------------------------------------------------------------
(* The steps, part by part. *)

(* mthpc_rcu_add() as the last step of create(), store() and a borrow. *)
Links(s) ==
    /\ pc[s] \in {"init", "relink", "join"} /\ lock[loc[s]] = NULL
    /\ head' = [head EXCEPT ![loc[s]] = @ \union {s}]
    /\ rcu_node' = [rcu_node EXCEPT ![s] = loc[s]] /\ cb' = [cb EXCEPT ![s] = loc[s]]
    /\ loc' = [loc EXCEPT ![s] = NULL] /\ lender' = [lender EXCEPT ![s] = NULL]
    /\ pc' = [pc EXCEPT ![s] = "idle"] \/ pc' = [pc EXCEPT ![s] = "unlock"]
    /\ mem' = mem /\ refcount' = refcount /\ meta' = meta /\ lock' = lock /\ got' = got
    /\ reclaimed' = reclaimed /\ left' = left

(* The steps that link a node to the block the safe pointer refers to. *)
LEMMA LinkSteps ==
    ASSUME TypeOK, ScopeState, LenderState, NEW s \in Sps,
           mthpc_safe_ptr_create(s) \/ mthpc_safe_ptr_store(s) \/ mthpc_pass_sp_post_init(s)
    PROVE  Links(s)
<1> USE DEF TypeOK, FieldTypeOK, ScopeState, ScopeOK, LenderState, Borrowing, Links, Goto,
   mthpc_cb_rcu_init,
    mthpc_rcu_add, cbVars, metaVars
<1>1. CASE mthpc_safe_ptr_create(s)
  <2>1. lender = [lender EXCEPT ![s] = NULL]
    BY <1>1 DEF mthpc_safe_ptr_create
  <2> QED BY <1>1, <2>1 DEF mthpc_safe_ptr_create
<1>2. CASE mthpc_safe_ptr_store(s)
  <2>1. cb[s] = loc[s] /\ lender[s] = NULL
    BY <1>2 DEF mthpc_safe_ptr_store
  <2>2. cb = [cb EXCEPT ![s] = loc[s]] /\ lender = [lender EXCEPT ![s] = NULL]
    BY <2>1
  <2> QED BY <1>2, <2>2 DEF mthpc_safe_ptr_store
<1>3. CASE mthpc_pass_sp_post_init(s)
  BY <1>3 DEF mthpc_pass_sp_post_init
<1> QED BY <1>1, <1>2, <1>3

(* mthpc_cb_create() gives a new block c, with one reference, to s. *)
Creates(s, c) ==
    /\ mem[c] = "none" /\ mem' = [mem EXCEPT ![c] = "alloc"]
    /\ refcount' = [refcount EXCEPT ![c] = 1] /\ meta' = meta \union {c}
    /\ loc' = [loc EXCEPT ![s] = c]
    /\ \/ pc[s] = "unborn" /\ pc' = [pc EXCEPT ![s] = "init"]
       \/ pc[s] = "idle" /\ pc' = [pc EXCEPT ![s] = "xchg"]
    /\ lock' = lock /\ head' = head /\ cb' = cb /\ rcu_node' = rcu_node /\ lender' = lender
    /\ got' = got /\ reclaimed' = reclaimed /\ left' = left

(* The steps that make a block. *)
LEMMA CreateSteps ==
    ASSUME NEW s \in Sps,
           mthpc_cb_create(s, "unborn", "init") \/ mthpc_cb_create(s, "idle", "xchg")
    PROVE  \E c \in Cbs : Creates(s, c)
BY DEF mthpc_cb_create, mthpc_rcu_data_init, Creates, Goto, dataVars, spVars

(* The steps of the teardown that may also stop the process. *)
Destroys(s) ==
    /\ pc[s] = "destroy" /\ lock[loc[s]] = NULL /\ lock' = [lock EXCEPT ![loc[s]] = GONE]
    /\ pc' = [pc EXCEPT ![s] = "unlink"]
    /\ mem' = mem /\ refcount' = refcount /\ meta' = meta /\ head' = head /\ cb' = cb
    /\ rcu_node' = rcu_node /\ loc' = loc /\ lender' = lender /\ got' = got
    /\ reclaimed' = reclaimed /\ left' = left

Frees(s) ==
    /\ pc[s] = "free" /\ mem' = [mem EXCEPT ![loc[s]] = "freed"]
    /\ pc' = [pc EXCEPT ![s] = "dtor"]
    /\ refcount' = refcount /\ meta' = meta /\ lock' = lock /\ head' = head /\ cb' = cb
    /\ rcu_node' = rcu_node /\ loc' = loc /\ lender' = lender /\ got' = got
    /\ reclaimed' = reclaimed /\ left' = left

(* The steps of the last put. *)
LEMMA TeardownSteps ==
    ASSUME NEW s \in Sps
    PROVE  /\ spin_lock_destroy(s) => Destroys(s) \/ Quiet
           /\ mthpc_rcu_data_exit_free(s) => Frees(s) \/ Quiet
<1> USE DEF Quiet, Goto, cbVars, dataVars, metaVars, spVars
<1>1. ASSUME spin_lock_destroy(s), lock[loc[s]] = NULL PROVE Destroys(s)
  BY <1>1, Zenon DEF spin_lock_destroy, Destroys
<1>2. ASSUME spin_lock_destroy(s), lock[loc[s]] # NULL PROVE Quiet
  <2>1. lock' = lock /\ pc' = pc
    BY <1>2, Zenon DEF spin_lock_destroy
  <2> QED BY <1>2, <2>1 DEF spin_lock_destroy
<1>3. ASSUME mthpc_rcu_data_exit_free(s), mem' = mem, pc' = pc PROVE Quiet
  BY <1>3 DEF mthpc_rcu_data_exit_free
<1>4. ASSUME mthpc_rcu_data_exit_free(s), mem' = [mem EXCEPT ![loc[s]] = "freed"],
             pc' = [pc EXCEPT ![s] = "dtor"]
      PROVE  Frees(s)
  BY <1>4 DEF mthpc_rcu_data_exit_free, Frees
<1> QED BY <1>1, <1>2, <1>3, <1>4 DEF mthpc_rcu_data_exit_free


(* The count of a block follows its references. *)
LEMMA CountStep ==
    ASSUME SafePtrInv, [Next]_vars
    PROVE  NodesCounted'
<1>a. /\ FieldTypeOK /\ ScopeState /\ LenderState /\ BlockState /\ TeardownState
      /\ TakenDownOnce /\ LockState
  BY DEF SafePtrInv, TypeOK
<1>b. Located
  BY <1>a, LocFacts
<1>c. Referred
  BY CountFacts DEF SafePtrInv
<1>d. TypeOK /\ NodesCounted
  BY DEF SafePtrInv
<1> USE DEF Located, Referred, FieldTypeOK, ScopeState, ScopeOK, Holding, Down, Goto, cbVars,
   dataVars, metaVars, spVars, Procs
<1>1. ASSUME NEW s \in Sps, NEW c \in Cbs, Creates(s, c) PROVE NodesCounted'
  <2>1. ~OnCount(s, c) /\ OnCount(s, c)' /\ refcount[c] = 0
    BY <1>a, <1>b, Names, <1>1, <1>c DEF Creates, BlockState, OnCount
  <2>2. \A t \in Sps, d \in Cbs : (t # s \/ d # c) => (OnCount(t, d)' <=> OnCount(t, d))
    BY <1>a, <1>b, Names, <1>1 DEF Creates, OnCount
  <2>3. refcount'[c] = refcount[c] + 1 /\ \A d \in Cbs : d # c => refcount'[d] = refcount[d]
    BY <1>d, <1>1, <2>1 DEF Creates, TypeOK
  <2> QED BY <1>d, <2>1, <2>2, <2>3, CountUp
<1>2. ASSUME NEW s \in Sps, Links(s) PROVE NodesCounted'
  <2>1. ASSUME NEW t \in Sps, NEW c \in Cbs PROVE OnCount(t, c)' <=> OnCount(t, c)
    BY <1>a, <1>b, Names, <1>2 DEF Links, OnCount
  <2>2. refcount' = refcount
    BY <1>a, <1>b, Names, <1>2 DEF Links
  <2> QED BY <1>d, <2>1, <2>2, CountKept
<1>3. ASSUME NEW s \in Sps, mthpc_cb_xchg(s) PROVE NodesCounted'
  <2>1. ASSUME NEW t \in Sps, NEW c \in Cbs PROVE OnCount(t, c)' <=> OnCount(t, c)
    BY <1>a, <1>b, Names, <1>3 DEF mthpc_cb_xchg, OnCount
  <2>2. refcount' = refcount
    BY <1>a, <1>b, Names, <1>3 DEF mthpc_cb_xchg
  <2> QED BY <1>d, <2>1, <2>2, CountKept
<1>4. ASSUME NEW s \in Sps, mthpc_pass_sp_post(s) PROVE NodesCounted'
  <2>1. ASSUME NEW t \in Sps, NEW c \in Cbs PROVE OnCount(t, c)' <=> OnCount(t, c)
    BY <1>a, <1>b, Names, <1>4 DEF mthpc_pass_sp_post, OnCount
  <2>2. refcount' = refcount
    BY <1>a, <1>b, Names, <1>4 DEF mthpc_pass_sp_post
  <2> QED BY <1>d, <2>1, <2>2, CountKept
<1>5. ASSUME NEW s \in Sps, mthpc_cb_load(s) PROVE NodesCounted'
  <2>1. ASSUME NEW t \in Sps, NEW c \in Cbs PROVE OnCount(t, c)' <=> OnCount(t, c)
    BY <1>a, <1>b, Names, <1>5 DEF mthpc_cb_load, OnCount
  <2>2. refcount' = refcount
    BY <1>a, <1>b, Names, <1>5 DEF mthpc_cb_load
  <2> QED BY <1>d, <2>1, <2>2, CountKept
<1>6. ASSUME NEW s \in Sps, mthpc_cb_get(s) PROVE NodesCounted'
  <2>1. PICK c \in Cbs : c = loc[s]
    BY <1>b, <1>6 DEF mthpc_cb_get, OneMoreRef
  <2>2. ~OnCount(s, c) /\ OnCount(s, c)'
    BY <1>a, <1>b, Names, <1>6, <2>1 DEF mthpc_cb_get, OneMoreRef, Newborn, OnCount
  <2>3. \A t \in Sps, d \in Cbs : (t # s \/ d # c) => (OnCount(t, d)' <=> OnCount(t, d))
    BY <1>a, <1>b, Names, <1>6, <2>1 DEF mthpc_cb_get, OneMoreRef, OnCount
  <2>4. refcount'[c] = refcount[c] + 1 /\ \A d \in Cbs : d # c => refcount'[d] = refcount[d]
    BY <1>d, <1>6, <2>1 DEF mthpc_cb_get, OneMoreRef, TypeOK
  <2> QED BY <1>d, <2>2, <2>3, <2>4, CountUp
<1>7. ASSUME NEW s \in Sps, mthpc_safe_ptr_load(s) PROVE NodesCounted'
  <2>1. ASSUME NEW t \in Sps, NEW c \in Cbs PROVE OnCount(t, c)' <=> OnCount(t, c)
    BY <1>a, <1>b, Names, <1>7 DEF mthpc_safe_ptr_load, OnCount
  <2>2. refcount' = refcount
    BY <1>a, <1>b, Names, <1>7 DEF mthpc_safe_ptr_load
  <2> QED BY <1>d, <2>1, <2>2, CountKept
<1>8. ASSUME NEW s \in Sps, mthpc_safe_ptr_destroy(s) PROVE NodesCounted'
  <2>1. PICK c \in Cbs : c = cb[s]
    BY <1>b, <1>8 DEF mthpc_safe_ptr_destroy, mthpc_cb_put, LastPut
  <2>2. OnCount(s, c) /\ ~OnCount(s, c)'
    BY <1>a, <1>b, Names, <1>8, <2>1 DEF mthpc_safe_ptr_destroy, mthpc_cb_put, LastPut, OnCount
  <2>3. \A t \in Sps, d \in Cbs : (t # s \/ d # c) => (OnCount(t, d)' <=> OnCount(t, d))
    BY <1>a, <1>b, Names, <1>8, <2>1 DEF mthpc_safe_ptr_destroy, mthpc_cb_put, LastPut, OnCount
  <2>4. refcount'[c] = refcount[c] - 1 /\ \A d \in Cbs : d # c => refcount'[d] = refcount[d]
    BY <1>d, <1>8, <2>1 DEF mthpc_safe_ptr_destroy, mthpc_cb_put, LastPut, TypeOK
  <2> QED BY <1>d, <2>2, <2>3, <2>4, CountDown
<1>9. ASSUME NEW s \in Sps, mthpc_rcu_del(s) PROVE NodesCounted'
  <2>1. ASSUME NEW t \in Sps, NEW c \in Cbs PROVE OnCount(t, c)' <=> OnCount(t, c)
    BY <1>a, <1>b, Names, <1>9 DEF mthpc_rcu_del, OnCount
  <2>2. refcount' = refcount
    BY <1>a, <1>b, Names, <1>9 DEF mthpc_rcu_del
  <2> QED BY <1>d, <2>1, <2>2, CountKept
<1>10. ASSUME NEW s \in Sps, mthpc_rcu_data_exit_nodes(s) PROVE NodesCounted'
  <2>1. ASSUME NEW t \in Sps, NEW c \in Cbs PROVE OnCount(t, c)' <=> OnCount(t, c)
    BY <1>a, <1>b, Names, <1>10, <1>c DEF mthpc_rcu_data_exit_nodes, TeardownState, OnCount
  <2>2. refcount' = refcount
    BY <1>a, <1>b, Names, <1>10 DEF mthpc_rcu_data_exit_nodes
  <2> QED BY <1>d, <2>1, <2>2, CountKept
<1>11. ASSUME NEW s \in Sps, Destroys(s) PROVE NodesCounted'
  <2>1. ASSUME NEW t \in Sps, NEW c \in Cbs PROVE OnCount(t, c)' <=> OnCount(t, c)
    BY <1>a, <1>b, Names, <1>11 DEF Destroys, OnCount
  <2>2. refcount' = refcount
    BY <1>a, <1>b, Names, <1>11 DEF Destroys
  <2> QED BY <1>d, <2>1, <2>2, CountKept
<1>12. ASSUME NEW s \in Sps, mthpc_rcu_data_exit_unlink(s) PROVE NodesCounted'
  <2>1. ASSUME NEW t \in Sps, NEW c \in Cbs PROVE OnCount(t, c)' <=> OnCount(t, c)
    BY <1>a, <1>b, Names, <1>12 DEF mthpc_rcu_data_exit_unlink, MetaWithout, OnCount
  <2>2. refcount' = refcount
    BY <1>a, <1>b, Names, <1>12 DEF mthpc_rcu_data_exit_unlink, MetaWithout
  <2> QED BY <1>d, <2>1, <2>2, CountKept
<1>13. ASSUME NEW s \in Sps, Frees(s) PROVE NodesCounted'
  <2>1. ASSUME NEW t \in Sps, NEW c \in Cbs PROVE OnCount(t, c)' <=> OnCount(t, c)
    BY <1>a, <1>b, Names, <1>13 DEF Frees, OnCount
  <2>2. refcount' = refcount
    BY <1>a, <1>b, Names, <1>13 DEF Frees
  <2> QED BY <1>d, <2>1, <2>2, CountKept
<1>14. ASSUME NEW s \in Sps, dtor(s) PROVE NodesCounted'
  <2>1. ASSUME NEW t \in Sps, NEW c \in Cbs PROVE OnCount(t, c)' <=> OnCount(t, c)
    BY <1>a, <1>b, Names, <1>14 DEF dtor, TeardownState, OnCount
  <2>2. refcount' = refcount
    BY <1>a, <1>b, Names, <1>14 DEF dtor
  <2> QED BY <1>d, <2>1, <2>2, CountKept
<1>15. ASSUME NEW p \in Procs, mthpc_synchronize_rcu_lock(p) PROVE NodesCounted'
  <2>1. ASSUME NEW t \in Sps, NEW c \in Cbs PROVE OnCount(t, c)' <=> OnCount(t, c)
    BY <1>a, <1>b, Names, <1>15 DEF mthpc_synchronize_rcu_lock, OnCount
  <2>2. refcount' = refcount
    BY <1>a, <1>b, Names, <1>15 DEF mthpc_synchronize_rcu_lock
  <2> QED BY <1>d, <2>1, <2>2, CountKept
<1>16. ASSUME NEW p \in Procs, mthpc_synchronize_rcu_unlock(p) PROVE NodesCounted'
  <2>1. ASSUME NEW t \in Sps, NEW c \in Cbs PROVE OnCount(t, c)' <=> OnCount(t, c)
    BY <1>a, <1>b, Names, <1>16 DEF mthpc_synchronize_rcu_unlock, OnCount
  <2>2. refcount' = refcount
    BY <1>a, <1>b, Names, <1>16 DEF mthpc_synchronize_rcu_unlock
  <2> QED BY <1>d, <2>1, <2>2, CountKept
<1>17. CASE mthpc_synchronize_rcu_all_next /\ pc'[ALL] = "sync"
  <2>1. ASSUME NEW t \in Sps, NEW c \in Cbs PROVE OnCount(t, c)' <=> OnCount(t, c)
    BY <1>a, <1>b, Names, <1>17 DEF mthpc_synchronize_rcu_all_next, OnCount
  <2>2. refcount' = refcount
    BY <1>a, <1>b, Names, <1>17 DEF mthpc_synchronize_rcu_all_next
  <2> QED BY <1>d, <2>1, <2>2, CountKept
<1>18. CASE Quiet
  <2>1. ASSUME NEW t \in Sps, NEW c \in Cbs PROVE OnCount(t, c)' <=> OnCount(t, c)
    BY <1>a, <1>b, Names, <1>18 DEF Quiet, Reading, OnCount
  <2>2. refcount' = refcount
    BY <1>a, <1>b, Names, <1>18 DEF Quiet, Reading
  <2> QED BY <1>d, <2>1, <2>2, CountKept
<1> QED
  BY StepCases, LinkSteps, CreateSteps, TeardownSteps, <1>1, <1>2, <1>3, <1>4, <1>5, <1>6,
     <1>7, <1>8, <1>9, <1>10,
     <1>11, <1>12, <1>13, <1>14, <1>15, <1>16, <1>17, <1>18 DEF SafePtrInv

(* What each scope has at its control point is kept by a step. *)
LEMMA ScopeStateStep ==
    ASSUME SafePtrInv, [Next]_vars
    PROVE  ScopeState'
<1>a. /\ FieldTypeOK /\ ScopeState /\ LenderState /\ BlockState /\ TeardownState
      /\ TakenDownOnce /\ LockState
  BY DEF SafePtrInv, TypeOK
<1>b. Located
  BY <1>a, LocFacts
<1>c. Referred
  BY CountFacts DEF SafePtrInv
<1>d. TypeOK /\ NodesCounted
  BY DEF SafePtrInv
<1> USE DEF Located, Referred, FieldTypeOK, Holding, Down, Newborn, Goto, cbVars, dataVars,
   metaVars, spVars, Procs, ScopeState, ScopeOK
<1>1. ASSUME NEW s \in Sps, NEW c \in Cbs, Creates(s, c) PROVE ScopeState'
  BY <1>a, <1>b, Names, <1>1 DEF Creates
<1>2. ASSUME NEW s \in Sps, Links(s) PROVE ScopeState'
  BY <1>a, <1>b, Names, <1>2 DEF Links
<1>3. ASSUME NEW s \in Sps, mthpc_cb_xchg(s) PROVE ScopeState'
  BY <1>a, <1>b, Names, <1>3 DEF mthpc_cb_xchg
<1>4. ASSUME NEW s \in Sps, mthpc_pass_sp_post(s) PROVE ScopeState'
  BY <1>a, <1>b, Names, <1>4 DEF mthpc_pass_sp_post
<1>5. ASSUME NEW s \in Sps, mthpc_cb_load(s) PROVE ScopeState'
  <2>1. cb[lender[s]] \in Cbs
    BY <1>a, <1>b, Names, <1>5 DEF mthpc_cb_load, LenderState, Borrowing, Live
  <2> QED BY <1>a, <1>b, Names, <1>5, <2>1 DEF mthpc_cb_load
<1>6. ASSUME NEW s \in Sps, mthpc_cb_get(s) PROVE ScopeState'
  BY <1>a, <1>b, Names, <1>6 DEF mthpc_cb_get, OneMoreRef
<1>7. ASSUME NEW s \in Sps, mthpc_safe_ptr_load(s) PROVE ScopeState'
  BY <1>a, <1>b, Names, <1>7 DEF mthpc_safe_ptr_load
<1>8. ASSUME NEW s \in Sps, mthpc_safe_ptr_destroy(s) PROVE ScopeState'
  BY <1>a, <1>b, Names, <1>8 DEF mthpc_safe_ptr_destroy, mthpc_cb_put, LastPut
<1>9. ASSUME NEW s \in Sps, mthpc_rcu_del(s) PROVE ScopeState'
  BY <1>a, <1>b, Names, <1>9 DEF mthpc_rcu_del
<1>10. ASSUME NEW s \in Sps, mthpc_rcu_data_exit_nodes(s) PROVE ScopeState'
  <2>1. \A t \in Sps : Holding(t) => cb[t] # loc[s]
    BY <1>a, <1>b, Names, <1>10, <1>c DEF mthpc_rcu_data_exit_nodes, TeardownState, OnCount
  <2> QED BY <1>a, <1>b, Names, <1>10, <2>1 DEF mthpc_rcu_data_exit_nodes
<1>11. ASSUME NEW s \in Sps, Destroys(s) PROVE ScopeState'
  BY <1>a, <1>b, Names, <1>11 DEF Destroys
<1>12. ASSUME NEW s \in Sps, mthpc_rcu_data_exit_unlink(s) PROVE ScopeState'
  BY <1>a, <1>b, Names, <1>12 DEF mthpc_rcu_data_exit_unlink, MetaWithout
<1>13. ASSUME NEW s \in Sps, Frees(s) PROVE ScopeState'
  BY <1>a, <1>b, Names, <1>13 DEF Frees
<1>14. ASSUME NEW s \in Sps, dtor(s) PROVE ScopeState'
  BY <1>a, <1>b, Names, <1>14 DEF dtor
<1>15. ASSUME NEW p \in Procs, mthpc_synchronize_rcu_lock(p) PROVE ScopeState'
  BY <1>a, <1>b, Names, <1>15 DEF mthpc_synchronize_rcu_lock
<1>16. ASSUME NEW p \in Procs, mthpc_synchronize_rcu_unlock(p) PROVE ScopeState'
  BY <1>a, <1>b, Names, <1>16 DEF mthpc_synchronize_rcu_unlock
<1>17. CASE mthpc_synchronize_rcu_all_next /\ pc'[ALL] = "sync"
  BY <1>a, <1>b, Names, <1>17 DEF mthpc_synchronize_rcu_all_next
<1>18. CASE Quiet
  <2> SUFFICES ASSUME NEW t \in Sps PROVE ScopeOK(t)'
    OBVIOUS
  <2>1. ScopeOK(t) /\ t # ALL /\ t \in Procs
    BY <1>a, Names
  <2> QED BY <2>1, <1>18 DEF Quiet, Reading
<1> QED
  BY StepCases, LinkSteps, CreateSteps, TeardownSteps, <1>1, <1>2, <1>3, <1>4, <1>5, <1>6,
     <1>7, <1>8, <1>9, <1>10,
     <1>11, <1>12, <1>13, <1>14, <1>15, <1>16, <1>17, <1>18 DEF SafePtrInv

(* A lender stays while somebody borrows from it. *)
LEMMA LenderStateStep ==
    ASSUME SafePtrInv, [Next]_vars
    PROVE  LenderState'
<1>a. /\ FieldTypeOK /\ ScopeState /\ LenderState /\ BlockState /\ TeardownState
      /\ TakenDownOnce /\ LockState
  BY DEF SafePtrInv, TypeOK
<1>b. Located
  BY <1>a, LocFacts
<1>c. Referred
  BY CountFacts DEF SafePtrInv
<1>d. TypeOK /\ NodesCounted
  BY DEF SafePtrInv
<1> USE DEF Located, Referred, FieldTypeOK, Holding, Down, Newborn, Goto, cbVars, dataVars,
   metaVars, spVars, Procs, ScopeState, ScopeOK, LenderState, Live, OnCount, Borrowing
<1>1. ASSUME NEW s \in Sps, NEW c \in Cbs, Creates(s, c) PROVE LenderState'
  BY <1>a, <1>b, Names, <1>1 DEF Creates
<1>2. ASSUME NEW s \in Sps, Links(s) PROVE LenderState'
  BY <1>a, <1>b, Names, <1>2 DEF Links
<1>3. ASSUME NEW s \in Sps, mthpc_cb_xchg(s) PROVE LenderState'
  BY <1>a, <1>b, Names, <1>3 DEF mthpc_cb_xchg
<1>4. ASSUME NEW s \in Sps, mthpc_pass_sp_post(s) PROVE LenderState'
  BY <1>a, <1>b, Names, <1>4 DEF mthpc_pass_sp_post
<1>5. ASSUME NEW s \in Sps, mthpc_cb_load(s) PROVE LenderState'
  BY <1>a, <1>b, Names, <1>5 DEF mthpc_cb_load
<1>6. ASSUME NEW s \in Sps, mthpc_cb_get(s) PROVE LenderState'
  BY <1>a, <1>b, Names, <1>6 DEF mthpc_cb_get, OneMoreRef
<1>7. ASSUME NEW s \in Sps, mthpc_safe_ptr_load(s) PROVE LenderState'
  BY <1>a, <1>b, Names, <1>7 DEF mthpc_safe_ptr_load
<1>8. ASSUME NEW s \in Sps, mthpc_safe_ptr_destroy(s) PROVE LenderState'
  BY <1>a, <1>b, Names, <1>8 DEF mthpc_safe_ptr_destroy, mthpc_cb_put, LastPut
<1>9. ASSUME NEW s \in Sps, mthpc_rcu_del(s) PROVE LenderState'
  BY <1>a, <1>b, Names, <1>9 DEF mthpc_rcu_del
<1>10. ASSUME NEW s \in Sps, mthpc_rcu_data_exit_nodes(s) PROVE LenderState'
  BY <1>a, <1>b, Names, <1>10, <1>c DEF mthpc_rcu_data_exit_nodes, TeardownState
<1>11. ASSUME NEW s \in Sps, Destroys(s) PROVE LenderState'
  BY <1>a, <1>b, Names, <1>11 DEF Destroys
<1>12. ASSUME NEW s \in Sps, mthpc_rcu_data_exit_unlink(s) PROVE LenderState'
  BY <1>a, <1>b, Names, <1>12 DEF mthpc_rcu_data_exit_unlink, MetaWithout
<1>13. ASSUME NEW s \in Sps, Frees(s) PROVE LenderState'
  BY <1>a, <1>b, Names, <1>13 DEF Frees
<1>14. ASSUME NEW s \in Sps, dtor(s) PROVE LenderState'
  BY <1>a, <1>b, Names, <1>14 DEF dtor
<1>15. ASSUME NEW p \in Procs, mthpc_synchronize_rcu_lock(p) PROVE LenderState'
  BY <1>a, <1>b, Names, <1>15 DEF mthpc_synchronize_rcu_lock
<1>16. ASSUME NEW p \in Procs, mthpc_synchronize_rcu_unlock(p) PROVE LenderState'
  BY <1>a, <1>b, Names, <1>16 DEF mthpc_synchronize_rcu_unlock
<1>17. CASE mthpc_synchronize_rcu_all_next /\ pc'[ALL] = "sync"
  <2>1. \A t \in Sps : pc'[t] = pc[t] /\ loc'[t] = loc[t]
    BY <1>a, Names, <1>17 DEF mthpc_synchronize_rcu_all_next
  <2> QED BY <1>a, <2>1, <1>17 DEF mthpc_synchronize_rcu_all_next
<1>18. CASE Quiet
  <2>1. \A t \in Sps : /\ Live(t)' <=> Live(t)
                       /\ Borrowing(t)' <=> Borrowing(t)
                       /\ pc'[t] = "get" <=> pc[t] = "get"
    BY Names, <1>18 DEF Quiet, Reading
  <2>2. \A t \in Sps, c \in Cbs : OnCount(t, c)' <=> OnCount(t, c)
    BY Names, <1>18 DEF Quiet, Reading
  <2>3. lender' = lender /\ loc' = loc
    BY <1>18 DEF Quiet, Reading
  <2> HIDE DEF OnCount, Live, Borrowing
  <2>4. \A t \in Sps : pc[t] = "get" => OnCount(lender[t], loc[t])'
    <3> SUFFICES ASSUME NEW t \in Sps, pc[t] = "get" PROVE OnCount(lender[t], loc[t])'
      OBVIOUS
    <3>1. PICK l \in Sps, c \in Cbs : l = lender[t] /\ c = loc[t] /\ OnCount(l, c)
      BY <1>a, <1>b, Names DEF Borrowing
    <3>2. OnCount(l, c)'
      BY <2>2, <3>1
    <3> QED BY <2>3, <3>1, <3>2
  <2> QED BY <1>a, <2>1, <2>3, <2>4
<1> QED
  BY StepCases, LinkSteps, CreateSteps, TeardownSteps, <1>1, <1>2, <1>3, <1>4, <1>5, <1>6,
     <1>7, <1>8, <1>9, <1>10,
     <1>11, <1>12, <1>13, <1>14, <1>15, <1>16, <1>17, <1>18 DEF SafePtrInv

(* The life of the blocks, step by step. *)
LEMMA BlockStateStep ==
    ASSUME SafePtrInv, [Next]_vars
    PROVE  BlockState'
<1>a. /\ FieldTypeOK /\ ScopeState /\ LenderState /\ BlockState /\ TeardownState
      /\ TakenDownOnce /\ LockState
  BY DEF SafePtrInv, TypeOK
<1>b. Located
  BY <1>a, LocFacts
<1>c. Referred
  BY CountFacts DEF SafePtrInv
<1>d. TypeOK /\ NodesCounted
  BY DEF SafePtrInv
<1> USE DEF Located, Referred, FieldTypeOK, Holding, Down, Newborn, Goto, cbVars, dataVars,
   metaVars, spVars, Procs, ScopeState, ScopeOK, BlockState, TeardownState
<1>1. ASSUME NEW s \in Sps, NEW c \in Cbs, Creates(s, c) PROVE BlockState'
  BY <1>a, <1>b, Names, <1>1 DEF Creates
<1>2. ASSUME NEW s \in Sps, Links(s) PROVE BlockState'
  BY <1>a, <1>b, Names, <1>2 DEF Links
<1>3. ASSUME NEW s \in Sps, mthpc_cb_xchg(s) PROVE BlockState'
  BY <1>a, <1>b, Names, <1>3 DEF mthpc_cb_xchg
<1>4. ASSUME NEW s \in Sps, mthpc_pass_sp_post(s) PROVE BlockState'
  BY <1>a, <1>b, Names, <1>4 DEF mthpc_pass_sp_post
<1>5. ASSUME NEW s \in Sps, mthpc_cb_load(s) PROVE BlockState'
  <2>1. PICK l \in Sps : l = lender[s] /\ Live(l)
    BY <1>a, <1>5 DEF mthpc_cb_load, LenderState, Borrowing
  <2>2. cb[l] \in Cbs /\ OnCount(l, cb[l])
    BY <1>a, <1>b, Names, <2>1 DEF Live, OnCount
  <2>3. mem[cb[l]] = "alloc"
    BY <1>c, <2>1, <2>2
  <2> QED BY <1>a, <1>b, Names, <1>5, <2>1, <2>2, <2>3 DEF mthpc_cb_load
<1>6. ASSUME NEW s \in Sps, mthpc_cb_get(s) PROVE BlockState'
  <2>1. mem[loc[s]] = "alloc" /\ lock[loc[s]] # GONE
    BY <1>a, <1>b, Names, <1>6, <1>c DEF mthpc_cb_get, OneMoreRef, LenderState, Borrowing
  <2> QED BY <1>a, <1>b, Names, <1>6, <2>1 DEF mthpc_cb_get, OneMoreRef
<1>7. ASSUME NEW s \in Sps, mthpc_safe_ptr_load(s) PROVE BlockState'
  BY <1>a, <1>b, Names, <1>7 DEF mthpc_safe_ptr_load
<1>8. ASSUME NEW s \in Sps, mthpc_safe_ptr_destroy(s) PROVE BlockState'
  <2>1. refcount[cb[s]] > 0 /\ mem[cb[s]] = "alloc" /\ lock[cb[s]] # GONE
    BY <1>a, <1>b, Names, <1>8, <1>c DEF mthpc_safe_ptr_destroy, mthpc_cb_put, LastPut, OnCount
  <2> QED BY <1>a, <1>b, Names, <1>8, <1>d, <2>1 DEF mthpc_safe_ptr_destroy, mthpc_cb_put,
     LastPut, TypeOK
<1>9. ASSUME NEW s \in Sps, mthpc_rcu_del(s) PROVE BlockState'
  BY <1>a, <1>b, Names, <1>9 DEF mthpc_rcu_del
<1>10. ASSUME NEW s \in Sps, mthpc_rcu_data_exit_nodes(s) PROVE BlockState'
  BY <1>a, <1>b, Names, <1>10 DEF mthpc_rcu_data_exit_nodes
<1>11. ASSUME NEW s \in Sps, Destroys(s) PROVE BlockState'
  BY <1>a, <1>b, Names, <1>11 DEF Destroys
<1>12. ASSUME NEW s \in Sps, mthpc_rcu_data_exit_unlink(s) PROVE BlockState'
  BY <1>a, <1>b, Names, <1>12 DEF mthpc_rcu_data_exit_unlink, MetaWithout
<1>13. ASSUME NEW s \in Sps, Frees(s) PROVE BlockState'
  BY <1>a, <1>b, Names, <1>13 DEF Frees
<1>14. ASSUME NEW s \in Sps, dtor(s) PROVE BlockState'
  BY <1>a, <1>b, Names, <1>14 DEF dtor
<1>15. ASSUME NEW p \in Procs, mthpc_synchronize_rcu_lock(p) PROVE BlockState'
  BY <1>a, <1>b, Names, <1>15 DEF mthpc_synchronize_rcu_lock
<1>16. ASSUME NEW p \in Procs, mthpc_synchronize_rcu_unlock(p) PROVE BlockState'
  BY <1>a, <1>b, Names, <1>16 DEF mthpc_synchronize_rcu_unlock
<1>17. CASE mthpc_synchronize_rcu_all_next /\ pc'[ALL] = "sync"
  BY <1>a, <1>b, Names, <1>17 DEF mthpc_synchronize_rcu_all_next
<1>18. CASE Quiet
  BY <1>a, <1>b, Names, <1>18 DEF Quiet, Reading
<1> QED
  BY StepCases, LinkSteps, CreateSteps, TeardownSteps, <1>1, <1>2, <1>3, <1>4, <1>5, <1>6,
     <1>7, <1>8, <1>9, <1>10,
     <1>11, <1>12, <1>13, <1>14, <1>15, <1>16, <1>17, <1>18 DEF SafePtrInv

(* A block is taken down by one scope, which nobody disturbs. *)
LEMMA TeardownStep ==
    ASSUME SafePtrInv, [Next]_vars
    PROVE  TeardownState'
<1>a. /\ FieldTypeOK /\ ScopeState /\ LenderState /\ BlockState /\ TeardownState
      /\ TakenDownOnce /\ LockState
  BY DEF SafePtrInv, TypeOK
<1>b. Located
  BY <1>a, LocFacts
<1>c. Referred
  BY CountFacts DEF SafePtrInv
<1>d. TypeOK /\ NodesCounted
  BY DEF SafePtrInv
<1> USE DEF Located, Referred, FieldTypeOK, Holding, Down, Newborn, Goto, cbVars, dataVars,
   metaVars, spVars, Procs, ScopeState, ScopeOK, TeardownState
<1>1. ASSUME NEW s \in Sps, NEW c \in Cbs, Creates(s, c) PROVE TeardownState'
  BY <1>a, <1>b, Names, <1>1 DEF Creates, BlockState
<1>2. ASSUME NEW s \in Sps, Links(s) PROVE TeardownState'
  BY <1>a, <1>b, Names, <1>2, <1>c DEF Links, OnCount
<1>3. ASSUME NEW s \in Sps, mthpc_cb_xchg(s) PROVE TeardownState'
  BY <1>a, <1>b, Names, <1>3 DEF mthpc_cb_xchg
<1>4. ASSUME NEW s \in Sps, mthpc_pass_sp_post(s) PROVE TeardownState'
  BY <1>a, <1>b, Names, <1>4 DEF mthpc_pass_sp_post
<1>5. ASSUME NEW s \in Sps, mthpc_cb_load(s) PROVE TeardownState'
  BY <1>a, <1>b, Names, <1>5 DEF mthpc_cb_load
<1>6. ASSUME NEW s \in Sps, mthpc_cb_get(s) PROVE TeardownState'
  <2>1. refcount[loc[s]] > 0
    BY <1>a, <1>b, Names, <1>6, <1>c DEF mthpc_cb_get, OneMoreRef, LenderState, Borrowing
  <2> QED BY <1>a, <1>b, Names, <1>6, <2>1 DEF mthpc_cb_get, OneMoreRef
<1>7. ASSUME NEW s \in Sps, mthpc_safe_ptr_load(s) PROVE TeardownState'
  BY <1>a, <1>b, Names, <1>7 DEF mthpc_safe_ptr_load
<1>8. ASSUME NEW s \in Sps, mthpc_safe_ptr_destroy(s) PROVE TeardownState'
  <2>1. refcount[cb[s]] > 0 /\ mem[cb[s]] = "alloc" /\ lock[cb[s]] # GONE
    BY <1>a, <1>b, Names, <1>8, <1>c DEF mthpc_safe_ptr_destroy, mthpc_cb_put, LastPut, OnCount
  <2> QED BY <1>a, <1>b, Names, <1>8, <1>d, <2>1 DEF mthpc_safe_ptr_destroy, mthpc_cb_put,
     LastPut, TypeOK
<1>9. ASSUME NEW s \in Sps, mthpc_rcu_del(s) PROVE TeardownState'
  BY <1>a, <1>b, Names, <1>9 DEF mthpc_rcu_del
<1>10. ASSUME NEW s \in Sps, mthpc_rcu_data_exit_nodes(s) PROVE TeardownState'
  BY <1>a, <1>b, Names, <1>10 DEF mthpc_rcu_data_exit_nodes
<1>11. ASSUME NEW s \in Sps, Destroys(s) PROVE TeardownState'
  BY <1>a, <1>b, Names, <1>11 DEF Destroys
<1>12. ASSUME NEW s \in Sps, mthpc_rcu_data_exit_unlink(s) PROVE TeardownState'
  BY <1>a, <1>b, Names, <1>12 DEF mthpc_rcu_data_exit_unlink, MetaWithout
<1>13. ASSUME NEW s \in Sps, Frees(s) PROVE TeardownState'
  BY <1>a, <1>b, Names, <1>13 DEF Frees
<1>14. ASSUME NEW s \in Sps, dtor(s) PROVE TeardownState'
  BY <1>a, <1>b, Names, <1>14 DEF dtor
<1>15. ASSUME NEW p \in Procs, mthpc_synchronize_rcu_lock(p) PROVE TeardownState'
  BY <1>a, <1>b, Names, <1>15 DEF mthpc_synchronize_rcu_lock
<1>16. ASSUME NEW p \in Procs, mthpc_synchronize_rcu_unlock(p) PROVE TeardownState'
  BY <1>a, <1>b, Names, <1>16 DEF mthpc_synchronize_rcu_unlock
<1>17. CASE mthpc_synchronize_rcu_all_next /\ pc'[ALL] = "sync"
  BY <1>a, <1>b, Names, <1>17 DEF mthpc_synchronize_rcu_all_next
<1>18. CASE Quiet
  <2>1. \A t \in Sps : /\ Down(t)' <=> Down(t)
                       /\ pc'[t] \in {"destroy", "unlink", "free", "dtor"} => pc'[t] = pc[t]
    BY Names, <1>18 DEF Quiet, Reading
  <2> HIDE DEF Down
  <2> QED BY <1>a, <2>1, <1>18 DEF Quiet, Reading
<1> QED
  BY StepCases, LinkSteps, CreateSteps, TeardownSteps, <1>1, <1>2, <1>3, <1>4, <1>5, <1>6,
     <1>7, <1>8, <1>9, <1>10,
     <1>11, <1>12, <1>13, <1>14, <1>15, <1>16, <1>17, <1>18 DEF SafePtrInv

(* No block is taken down twice. *)
LEMMA OnceStep ==
    ASSUME SafePtrInv, [Next]_vars
    PROVE  TakenDownOnce'
<1>a. /\ FieldTypeOK /\ ScopeState /\ LenderState /\ BlockState /\ TeardownState
      /\ TakenDownOnce /\ LockState
  BY DEF SafePtrInv, TypeOK
<1>b. Located
  BY <1>a, LocFacts
<1>c. Referred
  BY CountFacts DEF SafePtrInv
<1>d. TypeOK /\ NodesCounted
  BY DEF SafePtrInv
<1> USE DEF Located, Referred, FieldTypeOK, Holding, Down, Newborn, Goto, cbVars, dataVars,
   metaVars, spVars, Procs, ScopeState, ScopeOK, TeardownState, TakenDownOnce
<1>1. ASSUME NEW s \in Sps, NEW c \in Cbs, Creates(s, c) PROVE TakenDownOnce'
  BY <1>a, <1>b, Names, <1>1 DEF Creates, BlockState
<1>2. ASSUME NEW s \in Sps, Links(s) PROVE TakenDownOnce'
  BY <1>a, <1>b, Names, <1>2 DEF Links
<1>3. ASSUME NEW s \in Sps, mthpc_cb_xchg(s) PROVE TakenDownOnce'
  BY <1>a, <1>b, Names, <1>3 DEF mthpc_cb_xchg
<1>4. ASSUME NEW s \in Sps, mthpc_pass_sp_post(s) PROVE TakenDownOnce'
  BY <1>a, <1>b, Names, <1>4 DEF mthpc_pass_sp_post
<1>5. ASSUME NEW s \in Sps, mthpc_cb_load(s) PROVE TakenDownOnce'
  BY <1>a, <1>b, Names, <1>5 DEF mthpc_cb_load
<1>6. ASSUME NEW s \in Sps, mthpc_cb_get(s) PROVE TakenDownOnce'
  BY <1>a, <1>b, Names, <1>6 DEF mthpc_cb_get, OneMoreRef
<1>7. ASSUME NEW s \in Sps, mthpc_safe_ptr_load(s) PROVE TakenDownOnce'
  BY <1>a, <1>b, Names, <1>7 DEF mthpc_safe_ptr_load
<1>8. ASSUME NEW s \in Sps, mthpc_safe_ptr_destroy(s) PROVE TakenDownOnce'
  <2>1. refcount[cb[s]] > 0 /\ mem[cb[s]] = "alloc" /\ lock[cb[s]] # GONE
    BY <1>a, <1>b, Names, <1>8, <1>c DEF mthpc_safe_ptr_destroy, mthpc_cb_put, LastPut, OnCount
  <2> QED BY <1>a, <1>b, Names, <1>8, <1>d, <2>1 DEF mthpc_safe_ptr_destroy, mthpc_cb_put,
     LastPut, TypeOK
<1>9. ASSUME NEW s \in Sps, mthpc_rcu_del(s) PROVE TakenDownOnce'
  BY <1>a, <1>b, Names, <1>9 DEF mthpc_rcu_del
<1>10. ASSUME NEW s \in Sps, mthpc_rcu_data_exit_nodes(s) PROVE TakenDownOnce'
  BY <1>a, <1>b, Names, <1>10 DEF mthpc_rcu_data_exit_nodes
<1>11. ASSUME NEW s \in Sps, Destroys(s) PROVE TakenDownOnce'
  BY <1>a, <1>b, Names, <1>11 DEF Destroys
<1>12. ASSUME NEW s \in Sps, mthpc_rcu_data_exit_unlink(s) PROVE TakenDownOnce'
  BY <1>a, <1>b, Names, <1>12 DEF mthpc_rcu_data_exit_unlink, MetaWithout
<1>13. ASSUME NEW s \in Sps, Frees(s) PROVE TakenDownOnce'
  BY <1>a, <1>b, Names, <1>13 DEF Frees
<1>14. ASSUME NEW s \in Sps, dtor(s) PROVE TakenDownOnce'
  BY <1>a, <1>b, Names, <1>14 DEF dtor
<1>15. ASSUME NEW p \in Procs, mthpc_synchronize_rcu_lock(p) PROVE TakenDownOnce'
  BY <1>a, <1>b, Names, <1>15 DEF mthpc_synchronize_rcu_lock
<1>16. ASSUME NEW p \in Procs, mthpc_synchronize_rcu_unlock(p) PROVE TakenDownOnce'
  BY <1>a, <1>b, Names, <1>16 DEF mthpc_synchronize_rcu_unlock
<1>17. CASE mthpc_synchronize_rcu_all_next /\ pc'[ALL] = "sync"
  <2>1. \A t \in Sps : pc'[t] = pc[t] /\ loc'[t] = loc[t]
    BY <1>a, Names, <1>17 DEF mthpc_synchronize_rcu_all_next
  <2> QED BY <1>a, <2>1, <1>17 DEF mthpc_synchronize_rcu_all_next
<1>18. CASE Quiet
  <2>1. \A t \in Sps : /\ Down(t)' <=> Down(t)
                       /\ pc'[t] \in {"destroy", "unlink", "free", "dtor"} => pc'[t] = pc[t]
    BY Names, <1>18 DEF Quiet, Reading
  <2> HIDE DEF Down
  <2> QED BY <1>a, <2>1, <1>18 DEF Quiet, Reading
<1> QED
  BY StepCases, LinkSteps, CreateSteps, TeardownSteps, <1>1, <1>2, <1>3, <1>4, <1>5, <1>6,
     <1>7, <1>8, <1>9, <1>10,
     <1>11, <1>12, <1>13, <1>14, <1>15, <1>16, <1>17, <1>18 DEF SafePtrInv

(* The locks are held by those who are inside. *)
LEMMA LockStateStep ==
    ASSUME SafePtrInv, [Next]_vars
    PROVE  LockState'
<1>a. /\ FieldTypeOK /\ ScopeState /\ LenderState /\ BlockState /\ TeardownState
      /\ TakenDownOnce /\ LockState
  BY DEF SafePtrInv, TypeOK
<1>b. Located
  BY <1>a, LocFacts
<1>c. Referred
  BY CountFacts DEF SafePtrInv
<1>d. TypeOK /\ NodesCounted
  BY DEF SafePtrInv
<1> USE DEF Located, Referred, FieldTypeOK, Holding, Down, Newborn, Goto, cbVars, dataVars,
   metaVars, spVars, Procs, ScopeState, ScopeOK, LockState, Waiting
<1>1. ASSUME NEW s \in Sps, NEW c \in Cbs, Creates(s, c) PROVE LockState'
  BY <1>a, <1>b, Names, <1>1 DEF Creates
<1>2. ASSUME NEW s \in Sps, Links(s) PROVE LockState'
  BY <1>a, <1>b, Names, <1>2 DEF Links
<1>3. ASSUME NEW s \in Sps, mthpc_cb_xchg(s) PROVE LockState'
  BY <1>a, <1>b, Names, <1>3 DEF mthpc_cb_xchg
<1>4. ASSUME NEW s \in Sps, mthpc_pass_sp_post(s) PROVE LockState'
  BY <1>a, <1>b, Names, <1>4 DEF mthpc_pass_sp_post
<1>5. ASSUME NEW s \in Sps, mthpc_cb_load(s) PROVE LockState'
  BY <1>a, <1>b, Names, <1>5 DEF mthpc_cb_load
<1>6. ASSUME NEW s \in Sps, mthpc_cb_get(s) PROVE LockState'
  BY <1>a, <1>b, Names, <1>6 DEF mthpc_cb_get, OneMoreRef
<1>7. ASSUME NEW s \in Sps, mthpc_safe_ptr_load(s) PROVE LockState'
  BY <1>a, <1>b, Names, <1>7 DEF mthpc_safe_ptr_load
<1>8. ASSUME NEW s \in Sps, mthpc_safe_ptr_destroy(s) PROVE LockState'
  BY <1>a, <1>b, Names, <1>8 DEF mthpc_safe_ptr_destroy, mthpc_cb_put, LastPut
<1>9. ASSUME NEW s \in Sps, mthpc_rcu_del(s) PROVE LockState'
  BY <1>a, <1>b, Names, <1>9 DEF mthpc_rcu_del
<1>10. ASSUME NEW s \in Sps, mthpc_rcu_data_exit_nodes(s) PROVE LockState'
  BY <1>a, <1>b, Names, <1>10 DEF mthpc_rcu_data_exit_nodes
<1>11. ASSUME NEW s \in Sps, Destroys(s) PROVE LockState'
  BY <1>a, <1>b, Names, <1>11 DEF Destroys
<1>12. ASSUME NEW s \in Sps, mthpc_rcu_data_exit_unlink(s) PROVE LockState'
  BY <1>a, <1>b, Names, <1>12 DEF mthpc_rcu_data_exit_unlink, MetaWithout
<1>13. ASSUME NEW s \in Sps, Frees(s) PROVE LockState'
  BY <1>a, <1>b, Names, <1>13 DEF Frees
<1>14. ASSUME NEW s \in Sps, dtor(s) PROVE LockState'
  BY <1>a, <1>b, Names, <1>14 DEF dtor
<1>15. ASSUME NEW p \in Procs, mthpc_synchronize_rcu_lock(p) PROVE LockState'
  BY <1>a, <1>b, Names, <1>15 DEF mthpc_synchronize_rcu_lock
<1>16. ASSUME NEW p \in Procs, mthpc_synchronize_rcu_unlock(p) PROVE LockState'
  BY <1>a, <1>b, Names, <1>16 DEF mthpc_synchronize_rcu_unlock
<1>17. CASE mthpc_synchronize_rcu_all_next /\ pc'[ALL] = "sync"
  BY <1>a, <1>b, Names, <1>17 DEF mthpc_synchronize_rcu_all_next
<1>18. CASE Quiet
  BY <1>a, <1>b, Names, <1>18 DEF Quiet, Reading
<1> QED
  BY StepCases, LinkSteps, CreateSteps, TeardownSteps, <1>1, <1>2, <1>3, <1>4, <1>5, <1>6,
     <1>7, <1>8, <1>9, <1>10,
     <1>11, <1>12, <1>13, <1>14, <1>15, <1>16, <1>17, <1>18 DEF SafePtrInv

(* A store() leaves the block it has replaced, and nothing else changes    *)
(* what is left.                                                           *)
LEMMA LeftStateStep ==
    ASSUME SafePtrInv, [Next]_vars
    PROVE  LeftState'
<1>a. /\ FieldTypeOK /\ ScopeState /\ LenderState /\ BlockState /\ TeardownState
      /\ TakenDownOnce /\ LockState /\ LeftState
  BY DEF SafePtrInv, TypeOK
<1>b. Located
  BY <1>a, LocFacts
<1>c. Referred
  BY CountFacts DEF SafePtrInv
<1> USE DEF Located, FieldTypeOK, Holding, Down, Newborn, Goto, cbVars, dataVars,
   metaVars, spVars, Procs, ScopeState, ScopeOK, LeftState, LeftOK, OnCount, Refers, Live
<1>1. ASSUME NEW s \in Sps, NEW c \in Cbs, Creates(s, c) PROVE LeftState'
  BY <1>a, <1>b, Names, <1>1 DEF Creates, BlockState
<1>2. ASSUME NEW s \in Sps, Links(s) PROVE LeftState'
  BY <1>a, <1>b, Names, <1>2 DEF Links
<1>3. ASSUME NEW s \in Sps, mthpc_cb_xchg(s) PROVE LeftState'
  BY <1>a, <1>b, Names, <1>3 DEF mthpc_cb_xchg
<1>4. ASSUME NEW s \in Sps, mthpc_pass_sp_post(s) PROVE LeftState'
  BY <1>a, <1>b, Names, <1>4 DEF mthpc_pass_sp_post
<1>5. ASSUME NEW s \in Sps, mthpc_cb_load(s) PROVE LeftState'
  BY <1>a, <1>b, Names, <1>5 DEF mthpc_cb_load
<1>6. ASSUME NEW s \in Sps, mthpc_cb_get(s) PROVE LeftState'
  BY <1>a, <1>b, Names, <1>6 DEF mthpc_cb_get
<1>7. ASSUME NEW s \in Sps, mthpc_safe_ptr_load(s) PROVE LeftState'
  BY <1>a, <1>b, Names, <1>7 DEF mthpc_safe_ptr_load
<1>8. ASSUME NEW s \in Sps, mthpc_safe_ptr_destroy(s) PROVE LeftState'
  BY <1>a, <1>b, Names, <1>8 DEF mthpc_safe_ptr_destroy, mthpc_cb_put, LastPut
<1>9. ASSUME NEW s \in Sps, mthpc_rcu_del(s) PROVE LeftState'
  BY <1>a, <1>b, Names, <1>9 DEF mthpc_rcu_del
<1>10. ASSUME NEW s \in Sps, mthpc_rcu_data_exit_nodes(s) PROVE LeftState'
  BY <1>a, <1>b, Names, <1>10, <1>c DEF mthpc_rcu_data_exit_nodes, TeardownState, Referred
<1>11. ASSUME NEW s \in Sps, Destroys(s) PROVE LeftState'
  BY <1>a, <1>b, Names, <1>11 DEF Destroys
<1>12. ASSUME NEW s \in Sps, mthpc_rcu_data_exit_unlink(s) PROVE LeftState'
  BY <1>a, <1>b, Names, <1>12 DEF mthpc_rcu_data_exit_unlink
<1>13. ASSUME NEW s \in Sps, Frees(s) PROVE LeftState'
  BY <1>a, <1>b, Names, <1>13 DEF Frees
<1>14. ASSUME NEW s \in Sps, dtor(s) PROVE LeftState'
  BY <1>a, <1>b, Names, <1>14 DEF dtor, TeardownState
<1>15. ASSUME NEW p \in Procs, mthpc_synchronize_rcu_lock(p) PROVE LeftState'
  BY <1>a, <1>b, Names, <1>15 DEF mthpc_synchronize_rcu_lock
<1>16. ASSUME NEW p \in Procs, mthpc_synchronize_rcu_unlock(p) PROVE LeftState'
  BY <1>a, <1>b, Names, <1>16 DEF mthpc_synchronize_rcu_unlock
<1>17. CASE mthpc_synchronize_rcu_all_next /\ pc'[ALL] = "sync"
  BY <1>a, <1>b, Names, <1>17 DEF mthpc_synchronize_rcu_all_next
<1>18. CASE Quiet
  <2>1. \A t \in Sps : /\ Live(t)' <=> Live(t)
                       /\ \A l \in {"init", "xchg", "relink", "join", "del", "sync", "exit",
                                    "destroy", "unlink", "free", "dtor"} :
                             pc'[t] = l <=> pc[t] = l
                       /\ pc'[t] \in {"wait1", "wait2"} <=> pc[t] \in {"wait1", "wait2"}
    BY Names, <1>18 DEF Quiet, Reading
  <2>2. loc' = loc /\ cb' = cb /\ head' = head /\ left' = left
    BY <1>18 DEF Quiet
  <2> HIDE DEF Live
  <2>3. \A t \in Sps, c \in Cbs : OnCount(t, c)' <=> OnCount(t, c)
    BY <2>1, <2>2
  <2>4. \A t \in Sps, c \in Cbs : Refers(t, c)' <=> Refers(t, c)
    BY <2>1, <2>2
  <2> HIDE DEF OnCount, Refers
  <2> QED BY <1>a, <2>1, <2>2, <2>3, <2>4
<1> QED
  BY StepCases, LinkSteps, CreateSteps, TeardownSteps, <1>1, <1>2, <1>3, <1>4, <1>5, <1>6,
     <1>7, <1>8, <1>9, <1>10,
     <1>11, <1>12, <1>13, <1>14, <1>15, <1>16, <1>17, <1>18 DEF SafePtrInv

(* The inductive invariant is kept by every step. *)
LEMMA SafePtrInvStep == SafePtrInv /\ [Next]_vars => SafePtrInv'
<1> SUFFICES ASSUME SafePtrInv, [Next]_vars PROVE SafePtrInv'
  OBVIOUS
<1>1. FieldTypeOK'
  BY FieldTypeStep DEF SafePtrInv, TypeOK
<1>2. NodesCounted'
  BY CountStep
<1>3. refcount' \in [Cbs -> 0..Cardinality(Sps)]
  <2>1. DOMAIN refcount' = Cbs /\ refcount' = [c \in Cbs |-> refcount'[c]]
    <3>1. refcount \in [Cbs -> 0..Cardinality(Sps)]
      BY DEF SafePtrInv, TypeOK
    <3>2. \/ \E c \in Cbs : refcount' = [refcount EXCEPT ![c] = 1]
          \/ \E s \in Sps : refcount' = [refcount EXCEPT ![loc[s]] = refcount[loc[s]] + 1]
          \/ \E s \in Sps : refcount' = [refcount EXCEPT ![cb[s]] = refcount[cb[s]] - 1]
          \/ refcount' = refcount
      BY StepCases, LinkSteps, CreateSteps, TeardownSteps DEF SafePtrInv, Quiet, Links,
         Creates, Destroys, Frees, mthpc_cb_xchg,
         mthpc_pass_sp_post, mthpc_cb_load, mthpc_cb_get, OneMoreRef, mthpc_safe_ptr_load,
            mthpc_safe_ptr_destroy,
         mthpc_cb_put, mthpc_rcu_del, mthpc_rcu_data_exit_nodes, mthpc_rcu_data_exit_unlink,
            dtor,
         mthpc_synchronize_rcu_lock, mthpc_synchronize_rcu_unlock,
            mthpc_synchronize_rcu_all_next, cbVars
    <3> QED BY <3>1, <3>2
  <2>2. ASSUME NEW c \in Cbs PROVE refcount'[c] \in 0..Cardinality(Sps)
    <3>1. refcount'[c] = Cardinality({s \in Sps : OnCount(s, c)'})
      BY <1>2 DEF NodesCounted
    <3>2. {s \in Sps : OnCount(s, c)'} \subseteq Sps
      OBVIOUS
    <3> HIDE DEF OnCount
    <3> QED BY <3>1, <3>2, FS_Subset, FS_CardinalityType, SafePtrAssumption
  <2> QED BY <2>1, <2>2
<1> QED
  BY <1>1, <1>2, <1>3, ScopeStateStep, LenderStateStep, BlockStateStep, TeardownStep,
     OnceStep, LockStateStep, LeftStateStep
     DEF SafePtrInv, TypeOK

(* It holds initially. *)
LEMMA SafePtrInvInit == Init => SafePtrInv
<1> SUFFICES ASSUME Init PROVE SafePtrInv
  OBVIOUS
<1> USE Names DEF Init
<1>1. FieldTypeOK
  <2>1. word \in [Cbs -> [Sps -> GpSeq]]
    BY WordClosed
  <2>2. over \in BOOLEAN
    BY Zenon
  <2>3. snap \in [Procs -> Phases] /\ gp_seq \in [Cbs -> Phases]
    BY DEF Phases
  <2> QED BY <2>1, <2>2, <2>3 DEF FieldTypeOK, Procs
<1>2. \A c \in Cbs : {s \in Sps : OnCount(s, c)} = {}
  BY DEF OnCount, Procs
<1>3. NodesCounted
  BY <1>2, FS_EmptySet DEF NodesCounted
<1>4. TypeOK
  BY <1>1, FS_CardinalityType, SafePtrAssumption DEF TypeOK
<1>5. ScopeState /\ LenderState
  BY DEF ScopeState, ScopeOK, LenderState, Down, Newborn, Holding, Borrowing, Procs
<1>6. BlockState /\ TeardownState /\ TakenDownOnce
  BY DEF BlockState, TeardownState, TakenDownOnce, Down, Procs
<1>7. LockState
  BY DEF LockState, Waiting, Procs
<1>8. LeftState
  BY DEF LeftState, LeftOK, OnCount, Refers, Live, Procs
<1> QED BY <1>3, <1>4, <1>5, <1>6, <1>7, <1>8 DEF SafePtrInv

(* Hence it always holds. *)
LEMMA SafePtrInvariant == Spec => []SafePtrInv
BY SafePtrInvInit, SafePtrInvStep, PTL DEF Spec
-----------------------------------------------------------------------------
(* Type correctness, and no block has more references than there are safe  *)
(* pointers.                                                               *)
THEOREM TypeCorrect == Spec => []TypeOK
<1>1. SafePtrInv => TypeOK
  BY DEF SafePtrInv
<1> QED BY <1>1, SafePtrInvariant, PTL

(* The count of a control block is the number of safe pointers that point  *)
(* to it, plus the number of store()s that took one away from it and, by   *)
(* the test of safe_ptr.c:240, did not put it.                             *)
THEOREM RefsAreCounted == Spec => []RefsCounted
<1>1. SafePtrInv => RefsCounted
  <2> SUFFICES ASSUME SafePtrInv, NEW c \in Cbs
               PROVE  refcount[c] = Cardinality({s \in Sps : Refers(s, c)}) + Cardinality(left[c])
    BY DEF RefsCounted
  <2> DEFINE R == {s \in Sps : Refers(s, c)}
             L == left[c]
  <2>1. L \subseteq Sps /\ \A s \in Sps : LeftOK(s, c)
    BY DEF SafePtrInv, TypeOK, FieldTypeOK, LeftState
  <2>2. Refs(c) = R \union L /\ R \intersect L = {}
    BY <2>1 DEF LeftOK, Refs
  <2>3. IsFiniteSet(R) /\ IsFiniteSet(L)
    BY <2>1, FS_Subset, SafePtrAssumption
  <2>4. refcount[c] = Cardinality(Refs(c))
    BY DEF SafePtrInv, NodesCounted, Refs
  <2> HIDE DEF R, L
  <2>5. Cardinality(R \union L) = Cardinality(R) + Cardinality(L) - Cardinality(R \intersect L)
    BY <2>3, FS_Union
  <2>6. Cardinality(R \intersect L) = 0 /\ Cardinality(R) \in Nat /\ Cardinality(L) \in Nat
    BY <2>2, <2>3, FS_EmptySet, FS_CardinalityType
  <2>7. refcount[c] = Cardinality(R) + Cardinality(L)
    BY <2>2, <2>4, <2>5, <2>6
  <2> QED BY <2>7 DEF R, L
<1> QED BY <1>1, SafePtrInvariant, PTL

(* A block with a reference, or with a borrower on its way to one, is not  *)
(* taken down.                                                             *)
THEOREM CbStaysLive == Spec => []CbLive
<1>1. SafePtrInv => CbLive
  <2> SUFFICES ASSUME SafePtrInv, NEW s \in Sps, NEW c \in Cbs,
                      Refers(s, c) \/ (pc[s] = "get" /\ loc[s] = c)
               PROVE  mem[c] = "alloc" /\ lock[c] # GONE /\ refcount[c] > 0
    BY DEF CbLive
  <2>1. \A t \in Sps : OnCount(t, c) => mem[c] = "alloc" /\ lock[c] # GONE /\ refcount[c] > 0
    BY CountFacts DEF SafePtrInv, Referred
  <2>2. pc[s] = "get" => lender[s] \in Sps /\ OnCount(lender[s], loc[s])
    BY Names DEF SafePtrInv, TypeOK, FieldTypeOK, LenderState, Borrowing
  <2>3. Refers(s, c) => OnCount(s, c)
    BY DEF SafePtrInv, LeftState, LeftOK
  <2> QED BY <2>1, <2>2, <2>3
<1> QED BY <1>1, SafePtrInvariant, PTL

(* An object got from load() is not reclaimed while the scope that loaded  *)
(* it has its safe pointer.                                                *)
THEOREM LoadedObjectStaysLive == Spec => []LoadedObjectLive
<1>1. SafePtrInv => LoadedObjectLive
  <2> SUFFICES ASSUME SafePtrInv, NEW s \in Sps, got[s] \in reclaimed PROVE FALSE
    BY DEF LoadedObjectLive
  <2>1. got[s] # NULL /\ mem[got[s][1]] = "freed"
    BY Names DEF SafePtrInv, TeardownState, TypeOK, FieldTypeOK
  <2>2. Holding(s) /\ cb[s] \in Cbs /\ got[s][1] = cb[s] /\ s \in head[cb[s]]
    BY <2>1 DEF SafePtrInv, ScopeState, ScopeOK, TypeOK, FieldTypeOK
  <2>3. OnCount(s, cb[s])
    BY <2>2 DEF Holding, OnCount
  <2> QED BY <2>1, <2>2, <2>3, CountFacts DEF SafePtrInv, Referred
<1> QED BY <1>1, SafePtrInvariant, PTL

(* A reader's node is in the list its control block will be synchronized   *)
(* on.                                                                     *)
THEOREM ReadersAreVisible == Spec => []ReaderVisible
<1>1. SafePtrInv => ReaderVisible
  BY DEF SafePtrInv, ScopeState, ScopeOK, Holding, ReaderVisible
<1> QED BY <1>1, SafePtrInvariant, PTL

(* Every rcu_data in the meta list is allocated. *)
THEOREM MetaStaysLive == Spec => []MetaLive
<1>1. SafePtrInv => MetaLive
  BY DEF SafePtrInv, BlockState, MetaLive, TypeOK, FieldTypeOK
<1> QED BY <1>1, SafePtrInvariant, PTL

(* No control block is taken down by two scopes, or again after its object *)
(* has been reclaimed: mthpc_cb_put() calls the destructor once.           *)
THEOREM DestructorRunsOnce == Spec => []TakenDownOnce
<1>1. SafePtrInv => TakenDownOnce
  BY DEF SafePtrInv
<1> QED BY <1>1, SafePtrInvariant, PTL
=============================================================================
