-------------------------- MODULE WorkqueueProofs --------------------------
(***************************************************************************)
(* The workpool for any number of works, queues and cpus, and for works    *)
(* that schedule themselves again while the exit handler runs.             *)
(***************************************************************************)
EXTENDS Workqueue, SeqLemmas, FiniteSetTheorems, TLAPS

(* q has been allocated and is not linked yet. *)
Prealloc(q) == \E p \in Procs : pc[p] = "link" /\ wq[p] = q
(* q is in wp->count: linked and not joined yet. *)
Counted(q) == q \in ToSet(pool) \/ WqLocked(q) \/ q \in ToSet(free_list)

(* The lists of the exit handler. *)
ListState ==
    /\ IsInjective(pool) /\ IsInjective(walk) /\ IsInjective(free_list)
    /\ \A q \in ToSet(free_list) : q \notin ToSet(pool)
    /\ mpc = "visit" => ToSet(walk) \subseteq ToSet(pool)
    /\ mpc = "gp" => /\ walk # <<>> /\ ToSet(Tail(walk)) \subseteq ToSet(pool)
                     /\ Head(walk) \notin ToSet(pool) /\ Head(walk) \notin ToSet(free_list)
    /\ mpc \notin {"visit", "gp", "join"} => free_list = <<>>

(* The life of a queue: allocated, linked, unlinked when it is empty,      *)
(* joined; who may still put a work into it.                               *)
QueueOK(q) ==
    /\ mem[q] = "alloc" <=> Prealloc(q) \/ Counted(q)
    /\ ~(Prealloc(q) /\ Counted(q))
    /\ mem[q] = "none" => pc[q] = "unborn"
    /\ q \in ToSet(pool) \/ WqLocked(q) \/ Prealloc(q) => wq_active[q]
    /\ missed \/ (wq_list[q] # <<>> => q \in ToSet(pool) \/ Prealloc(q))
    /\ pc[q] \notin {"unborn", "dead"} => Counted(q)
    /\ pc[q] = "dead" => ~wq_active[q]

QueueState == \A q \in Queues : QueueOK(q)

(* A queue has one owner, which is the only one that changes its list, and *)
(* its worker has not been started.                                        *)
OwnerOK(p) ==
    /\ pc[p] \in {"link", "create", "wake", "broadcast"} => wq[p] \in Queues
    /\ pc[p] \in {"link", "create"} =>
          /\ pc[wq[p]] = "unborn" /\ mem[wq[p]] = "alloc"
          /\ \A r \in Procs : pc[r] \in {"link", "create"} /\ wq[r] = wq[p] => r = p
    /\ pc[p] = "link" => missed \/ wq_list[wq[p]] = <<work[p]>>

OwnerState == \A p \in Procs : OwnerOK(p)

ReaderState ==
    /\ \A p \in Procs : p \in readers <=> pc[p] \in {"find", "add", "lost"}
    /\ waitfor \subseteq readers
    /\ \A p \in Procs : pc[p] = "add" => wq[p] \in Queues
    /\ \A p \in Procs : pc[p] = "lock" => wq[p] = HEAD

(* A reader is at a queue of the pool, or at the one that was unlinked     *)
(* under it and for whose readers the exit handler waits.                  *)
PlaceState ==
    \A p \in readers :
       \/ pc[p] = "find" /\ wq[p] = HEAD
       \/ pc[p] \in {"find", "add"} /\ wq[p] \in ToSet(pool)
       \/ pc[p] \in {"find", "add"} /\ WqLocked(wq[p]) /\ p \in waitfor

(* The chain that readers follow. *)
ChainState ==
    /\ \A i \in 1..Len(pool) : next[Before(i)] = pool[i]
    /\ next[Before(Len(pool) + 1)] = HEAD
    /\ mpc = "gp" => next[Head(walk)] \in ToSet(pool) \union {HEAD}

ClientState ==
    /\ \A w \in Works : pc[w] \in {"ready", "lock", "find", "add", "lost", "alloc", "link",
                                   "create", "wake", "broadcast", "done"}
    /\ \A q \in Queues : pc[q] \notin {"ready", "done"}
    /\ mpc # "run" => \A w \in Works : pc[w] \in {"ready", "done"}

(* Who schedules or runs a work has one. *)
CarryState ==
    \A p \in Procs : pc[p] \in {"lock", "find", "add", "lost", "alloc", "link", "func"} =>
        work[p] \in Works

(* There is one instance of a work at most: with a thread that schedules   *)
(* or runs it, or in a list.                                               *)
Carries(p, w) == pc[p] \in {"lock", "find", "add", "lost", "alloc", "func"} /\ work[p] = w
Outstanding(w) ==
    \/ \E p \in Procs : Carries(p, w)
    \/ \E q \in Queues : w \in ToSet(wq_list[q])

WorkState ==
    /\ \A p, r \in Procs, w \in Works : Carries(p, w) /\ Carries(r, w) => p = r
    /\ \A p \in Procs, q \in Queues, w \in Works : Carries(p, w) => w \notin ToSet(wq_list[q])
    /\ \A q \in Queues : IsInjective(wq_list[q])
    /\ \A q, r \in Queues, w \in Works :
          w \in ToSet(wq_list[q]) /\ w \in ToSet(wq_list[r]) => q = r

CallOK(w) ==
    /\ calls[w] = IF Outstanding(w) THEN runs[w] + 1 ELSE runs[w]
    /\ pc[w] = "ready" => calls[w] = 0

CallState == \A w \in Works : CallOK(w)

(* The call of mthpc_synchronize_rcu(): a reader that was inside with the  *)
(* current phase is passed by the first wait only when it has left.        *)
SyncState ==
    /\ sync = 1 => \A p \in waitfor \ stale : p \in todo /\ p \notin behind
    /\ sync = 2 => waitfor \subseteq stale

CountState == wp_count = Cardinality({q \in Queues : Counted(q)})

WorkqueueInv ==
    /\ TypeOK /\ ListState /\ QueueState /\ OwnerState /\ ReaderState /\ ChainState
    /\ ClientState /\ CarryState /\ SyncState /\ CountState
    /\ missed \/ (PlaceState /\ WorkState /\ CallState)

(* The cpu that a queue was made for. *)
CpuState ==
    /\ \A p \in Procs : pc[p] = "link" =>
          cpu[p] = asked[wq[p]] /\ wq_cpu[wq[p]] = asked[wq[p]] % NrCpu
    /\ OneQueuePerCpu

(* Once the exit handler is through. *)
DoneState == mpc = "done" => wp_count = 0
-----------------------------------------------------------------------------
(* The steps, part by part. *)

(* The steps with the queue they are about named: the slow path allocates  *)
(* q, then links it or uses r instead; the exit handler passes over the    *)
(* queue at the head of its walk or unlinks it.                            *)
Allocates(p, q) ==
    /\ pc[p] = "alloc" /\ mem[q] = "none"
    /\ mem' = [mem EXCEPT ![q] = "alloc"]
    /\ wq_active' = [wq_active EXCEPT ![q] = TRUE]
    /\ wq_list' = [wq_list EXCEPT ![q] = <<work[p]>>]
    /\ wq' = [wq EXCEPT ![p] = q]
    /\ \E c \in IF cpu[p] = -1 THEN 0..(NrCpu - 1) ELSE {cpu[p]} :
          /\ cpu' = [cpu EXCEPT ![p] = c] /\ wq_cpu' = [wq_cpu EXCEPT ![q] = c % NrCpu]
          /\ asked' = [asked EXCEPT ![q] = c]
    /\ pc' = [pc EXCEPT ![p] = "link"]
    /\ UNCHANGED <<wq_futex, pool, wp_count, next, work, exitVars, rcuVars, calls, runs>>

LinksNew(p) ==
    /\ pc[p] = "link" /\ ~WpLocked
    /\ \A i \in 1..Len(pool) : cpu[p] # wq_cpu[pool[i]]
    /\ mthpc_list_add_tail_rcu(wq[p]) /\ wp_count' = wp_count + 1
    /\ pc' = [pc EXCEPT ![p] = "create"]
    /\ UNCHANGED <<mem, wq_list, wq, wq_cpu, wq_active, wq_futex, asked, work, cpu, exitVars,
                   rcuVars, calls, runs>>

UsesOld(p, r) ==
    /\ pc[p] = "link" /\ ~WpLocked
    /\ r \in ToSet(pool)
    /\ MoveWork(p, r)
    /\ mem' = [mem EXCEPT ![wq[p]] = "freed"]
    /\ wq' = [wq EXCEPT ![p] = r]
    /\ pc' = [pc EXCEPT ![p] = "wake"]
    /\ UNCHANGED <<pool, wp_count, next, wq_cpu, wq_active, wq_futex, asked, work, cpu, exitVars,
                   rcuVars, calls, runs>>

Skips ==
    /\ mpc = "visit"
    /\ \/ walk = <<>> /\ mpc' = "join" /\ UNCHANGED walk
       \/ walk # <<>> /\ walk' = Tail(walk) /\ UNCHANGED mpc
    /\ UNCHANGED <<queueVars, localVars, free_list, rcuVars, calls, runs>>

Unlinks(k) ==
    /\ mpc = "visit" /\ walk # <<>> /\ wq_list[Head(walk)] = <<>>
    /\ pool[k] = Head(walk)
    /\ next' = mthpc_list_del_rcu(k) /\ pool' = RemoveAt(pool, k)
    /\ waitfor' = readers
    /\ mpc' = "gp"
    /\ UNCHANGED <<walk, mem, wq_cpu, wq_active, wq_futex, wq_list, asked, wp_count, localVars,
                   free_list, readers, missed, calls, runs>>

(* A step of mthpc_wait_for_readers() or the flip, or none at all. *)
Passes == UNCHANGED <<queueVars, localVars, exitVars, readers, waitfor, stale, missed,
                      calls, runs>>

(* A thread is that of a work or of a queue, and neither is HEAD or NULL. *)
LEMMA Names ==
    /\ Works \subseteq Procs /\ Queues \subseteq Procs /\ 0 \notin Queues /\ -1 \notin Queues
    /\ \A p \in Procs : p \in Works \/ p \in Queues
    /\ \A p \in Works : p \notin Queues
    /\ NULL \notin Works
BY WorkqueueAssumption DEF WorkqueueAssumption, Procs, Queues

(* The second look at the pool finds a queue for the cpu if there is one. *)
LEMMA ExistingQueue ==
    ASSUME TypeOK, NEW p \in Procs
    PROVE  \/ Existing(p) = 0 /\ \A i \in 1..Len(pool) : cpu[p] # wq_cpu[pool[i]]
           \/ Existing(p) # 0 /\ Existing(p) \in ToSet(pool)
<1> DEFINE I == {i \in 1..Len(pool) : cpu[p] = mthpc_wq_get_cpu(pool[i])}
<1>1. Existing(p) = LET i == IF I # {} THEN Min(I) ELSE 0 IN IF i = 0 THEN 0 ELSE pool[i]
  BY DEF Existing, SelectInSeq
<1>2. pool \in Seq(Queues) /\ Len(pool) \in Nat
  BY LenProperties DEF TypeOK, ListTypeOK
<1>3. CASE I = {}
  BY <1>1, <1>3 DEF mthpc_wq_get_cpu
<1>4. CASE I # {}
  <2>0. I \in SUBSET Nat
    BY <1>2
  <2>1. Min(I) \in I
    <3> HIDE DEF I
    <3> QED BY <2>0, <1>4, LeastExists
  <2>2. Min(I) \in 1..Len(pool) /\ Min(I) # 0
    BY <2>1, <1>2
  <2>3. Existing(p) = pool[Min(I)]
    BY <1>1, <1>4, <2>2
  <2>4. pool[Min(I)] \in ToSet(pool) /\ pool[Min(I)] \in Queues
    BY <1>2, <2>2, InList
  <2>5. pool[Min(I)] # 0
    BY <2>4, WorkqueueAssumption DEF Queues
  <2> QED BY <2>3, <2>4, <2>5
<1> QED BY <1>3, <1>4

(* A thread that is about to add a work to a queue is at one. *)
LEMMA AtQueue ==
    ASSUME WorkqueueInv
    PROVE  \A p \in Procs : pc[p] = "add" => wq[p] \in Queues
BY DEF WorkqueueInv, ReaderState

(* A walk never leaves the pool, wherever it stands: at the head, at a     *)
(* queue of the pool, or at the queue that is being unlinked.              *)
LEMMA NextInPool ==
    ASSUME WorkqueueInv, ~missed, NEW p \in Procs, pc[p] = "find"
    PROVE  next[wq[p]] \in ToSet(pool) \union {HEAD}
<1>1. pool \in Seq(Queues) /\ Len(pool) \in Nat
  BY LenProperties DEF WorkqueueInv, TypeOK, ListTypeOK
<1>2. /\ \A i \in 1..Len(pool) : next[Before(i)] = pool[i]
      /\ next[Before(Len(pool) + 1)] = HEAD
      /\ mpc = "gp" => next[Head(walk)] \in ToSet(pool) \union {HEAD}
  BY DEF WorkqueueInv, ChainState
<1>3. \A x : x \in ToSet(pool) <=> \E i \in 1..Len(pool) : pool[i] = x
  BY <1>1, InList
<1>4. \A i \in 1..(Len(pool) + 1) : next[Before(i)] \in ToSet(pool) \union {HEAD}
  <2> TAKE i \in 1..(Len(pool) + 1)
  <2>1. i \in 1..Len(pool) \/ i = Len(pool) + 1
    BY <1>1
  <2> QED BY <1>2, <1>3, <2>1
<1>5. CASE wq[p] = HEAD
  <2>1. Before(1) = HEAD /\ 1 \in 1..(Len(pool) + 1)
    BY <1>1 DEF Before
  <2> QED BY <1>4, <1>5, <2>1
<1>6. CASE wq[p] \in ToSet(pool)
  <2>1. PICK i \in 1..Len(pool) : pool[i] = wq[p]
    BY <1>3, <1>6
  <2>2. Before(i + 1) = pool[i] /\ i + 1 \in 1..(Len(pool) + 1)
    BY <1>1 DEF Before
  <2> QED BY <1>4, <2>1, <2>2
<1>7. CASE WqLocked(wq[p])
  BY <1>2, <1>7 DEF WqLocked
<1>8. p \in readers
  BY DEF WorkqueueInv, ReaderState
<1> QED BY <1>5, <1>6, <1>7, <1>8 DEF WorkqueueInv, PlaceState

(* Every step is one of these. *)
LEMMA StepCases ==
    ASSUME WorkqueueInv, [Next]_vars
    PROVE  \/ \E w \in Works : mthpc_schedule_work_on(w)
           \/ \E p \in Procs :
                 \/ mthpc_rcu_read_lock(p) \/ mthpc_get_workqueue_lost(p)
                 \/ mthpc_get_workqueue_find(p) \/ mthpc_workqueue_add_locked(p)
                 \/ (\E q \in Queues : Allocates(p, q)) \/ LinksNew(p)
                 \/ \E r \in Queues : UsesOld(p, r)
                 \/ mthpc_works_handler(p)
                 \/ mthpc_wq_futex_wake_store(p) \/ mthpc_wq_futex_wake_broadcast(p)
           \/ \E q \in Queues :
                 \/ mthpc_rcu_thread_init(q) \/ mthpc_wq_active(q)
                 \/ mthpc_worker_run_take(q) \/ mthpc_wq_futex_wait(q)
                 \/ func_return(q) \/ func_reschedule(q)
           \/ mthpc_workpool_exit
           \/ mthpc_workqueues_join_begin \/ mthpc_workqueues_join_check
           \/ Skips \/ \E k \in 1..Len(pool) : Unlinks(k)
           \/ mthpc_wq_clear_active \/ mthpc_workqueues_join_free
           \/ Passes
<1>a. TypeOK
  BY DEF WorkqueueInv
<1>1. ASSUME NEW p \in Procs, mthpc_get_workqueue_link(p)
      PROVE  LinksNew(p) \/ \E r \in Queues : UsesOld(p, r)
  <2>1. CASE Existing(p) = 0
    <3>1. \A i \in 1..Len(pool) : cpu[p] # wq_cpu[pool[i]]
      BY <1>a, <2>1, ExistingQueue
    <3> QED BY <1>1, <2>1, <3>1 DEF mthpc_get_workqueue_link, LinksNew, OneMore
  <2>2. CASE Existing(p) # 0
    <3>1. Existing(p) \in ToSet(pool)
      BY <1>a, <2>2, ExistingQueue
    <3>2. Existing(p) \in Queues
      BY <1>a, <3>1, InList DEF TypeOK, ListTypeOK
    <3>3. UsesOld(p, Existing(p))
      BY <1>1, <2>2, <3>1 DEF mthpc_get_workqueue_link, UsesOld
    <3> QED BY <3>2, <3>3
  <2> QED BY <2>1, <2>2
<1>2. ASSUME mthpc_workqueues_join_visit PROVE Skips \/ \E k \in 1..Len(pool) : Unlinks(k)
  <2>1. CASE walk = <<>>
    BY <1>2, <2>1 DEF mthpc_workqueues_join_visit, Skips, queueVars, localVars, rcuVars
  <2>2. CASE walk # <<>> /\ wq_list[Head(walk)] # <<>>
    BY <1>2, <2>2 DEF mthpc_workqueues_join_visit, Skips, queueVars, localVars, rcuVars
  <2>3. CASE walk # <<>> /\ wq_list[Head(walk)] = <<>>
    BY <1>2, <2>3 DEF mthpc_workqueues_join_visit, Unlinks, synchronize_begin
  <2> QED BY <2>1, <2>2, <2>3
<1>3. ASSUME NEW p \in Procs, mthpc_alloc_workqueue(p) PROVE \E q \in Queues : Allocates(p, q)
  BY <1>3 DEF mthpc_alloc_workqueue, Allocates, mthpc_wq_mkactive, mthpc_wq_set_cpu
<1>4. ASSUME mthpc_wait_for_readers \/ mthpc_synchronize_rcu_flip \/ UNCHANGED vars PROVE Passes
  BY <1>4 DEF mthpc_wait_for_readers, mthpc_synchronize_rcu_flip, Passes, vars, rcuVars
<1>5. CASE Next
  BY <1>1, <1>2, <1>3, <1>4, <1>5 DEF Next, ScheduleStep, WorkerStep, ExitStep, Finished
<1> QED BY <1>4, <1>5

(* A stale reader that was passed is never made good. *)
LEMMA MissedStays ==
    ASSUME WorkqueueInv, [Next]_vars
    PROVE  missed \in BOOLEAN /\ missed' \in BOOLEAN /\ (missed => missed')
<1>1. missed \in BOOLEAN
  BY DEF WorkqueueInv, TypeOK, SyncTypeOK
<1>2. missed' = missed \/ missed' = (missed \/ stale # {})
  BY StepCases DEF Passes, mthpc_schedule_work_on, Schedule, mthpc_rcu_read_lock,
     mthpc_get_workqueue_lost, mthpc_get_workqueue_find, mthpc_workqueue_add_locked,
     mthpc_rcu_read_unlock, Allocates, LinksNew, UsesOld, mthpc_works_handler,
     mthpc_wq_futex_wake_store, mthpc_wq_futex_wake_broadcast, mthpc_rcu_thread_init,
     mthpc_wq_active, mthpc_worker_run_take, mthpc_wq_futex_wait, func_return,
     func_reschedule, mthpc_workpool_exit, mthpc_workqueues_join_begin,
     mthpc_workqueues_join_check, Skips, Unlinks, mthpc_wq_clear_active,
     mthpc_workqueues_join_free, rcuVars
<1> QED BY <1>1, <1>2

(* What a step does to the lists of queues. *)
LEMMA PoolGrows ==
    ASSUME WorkqueueInv, NEW p \in Procs, LinksNew(p)
    PROVE  /\ wq[p] \in Queues /\ ~Counted(wq[p]) /\ wq[p] \notin ToSet(pool)
           /\ ToSet(pool') = ToSet(pool) \union {wq[p]} /\ IsInjective(pool')
           /\ mpc \notin {"visit", "gp"} /\ UNCHANGED <<walk, free_list, mpc>>
           /\ \A q : Counted(q)' <=> Counted(q) \/ q = wq[p]
<1>1. pc[p] = "link" /\ pool' = Append(pool, wq[p])
  BY DEF LinksNew, mthpc_list_add_tail_rcu
<1>2. wq[p] \in Queues
  BY <1>1 DEF WorkqueueInv, OwnerState, OwnerOK
<1>3. ~Counted(wq[p])
  BY <1>1, <1>2 DEF WorkqueueInv, QueueState, QueueOK, Prealloc
<1>4. wq[p] \notin ToSet(pool)
  BY <1>3 DEF Counted
<1>5. pool \in Seq(Queues) /\ IsInjective(pool)
  BY DEF WorkqueueInv, TypeOK, ListTypeOK, ListState
<1>6. ToSet(pool') = ToSet(pool) \union {wq[p]} /\ IsInjective(pool')
  BY <1>1, <1>2, <1>4, <1>5, AddedLast
<1>7. mpc \notin {"visit", "gp"} /\ UNCHANGED <<walk, free_list, mpc>>
  BY DEF LinksNew, WpLocked, exitVars
<1>8. \A q : Counted(q)' <=> Counted(q) \/ q = wq[p]
  BY <1>6, <1>7 DEF Counted, WqLocked
<1> QED BY <1>2, <1>3, <1>4, <1>6, <1>7, <1>8

(* The pool after a queue has left it. *)
LEMMA PoolShrinks ==
    ASSUME WorkqueueInv, NEW k \in 1..Len(pool), Unlinks(k)
    PROVE  /\ Head(walk) \in ToSet(pool) /\ Head(walk) \in Queues
           /\ ToSet(pool') = ToSet(pool) \ {Head(walk)} /\ IsInjective(pool')
           /\ walk # <<>> /\ UNCHANGED <<walk, free_list>>
           /\ \A q : Counted(q)' <=> Counted(q)
<1>1. /\ mpc = "visit" /\ mpc' = "gp" /\ pool[k] = Head(walk) /\ pool' = RemoveAt(pool, k)
      /\ walk # <<>> /\ UNCHANGED <<walk, free_list>>
  BY DEF Unlinks
<1>2. pool \in Seq(Queues) /\ IsInjective(pool)
  BY DEF WorkqueueInv, TypeOK, ListTypeOK, ListState
<1>3. Head(walk) \in ToSet(pool) /\ Head(walk) \in Queues
  BY <1>1, <1>2, InList
<1>4. ToSet(pool') = ToSet(pool) \ {Head(walk)} /\ IsInjective(pool')
  BY <1>1, <1>2, RemovedSet
<1>5. \A q : Counted(q)' <=> Counted(q)
  BY <1>1, <1>3, <1>4 DEF Counted, WqLocked
<1> QED BY <1>1, <1>3, <1>4, <1>5

(* The free list after a queue has been moved to it. *)
LEMMA FreeListGrows ==
    ASSUME WorkqueueInv, mthpc_wq_clear_active
    PROVE  /\ mpc = "gp" /\ mpc' = "visit" /\ walk # <<>> /\ walk' = Tail(walk)
           /\ Head(walk) \in Queues /\ Head(walk) \notin ToSet(pool)
           /\ ToSet(free_list') = ToSet(free_list) \union {Head(walk)}
           /\ IsInjective(walk') /\ IsInjective(free_list') /\ UNCHANGED pool
           /\ \A q : Counted(q)' <=> Counted(q)
<1>1. /\ mpc = "gp" /\ mpc' = "visit" /\ walk' = Tail(walk) /\ UNCHANGED pool
      /\ free_list' = <<Head(walk)>> \o free_list
  BY DEF mthpc_wq_clear_active
<1>2. walk \in Seq(Queues) /\ free_list \in Seq(Queues)
  BY DEF WorkqueueInv, TypeOK, ListTypeOK
<1>3. /\ walk # <<>> /\ Head(walk) \notin ToSet(pool) /\ Head(walk) \notin ToSet(free_list)
      /\ IsInjective(walk) /\ IsInjective(free_list)
  BY <1>1 DEF WorkqueueInv, ListState
<1>4. Head(walk) \in Queues /\ IsInjective(walk')
  BY <1>1, <1>2, <1>3, TakenFirst
<1>5. ToSet(free_list') = ToSet(free_list) \union {Head(walk)} /\ IsInjective(free_list')
  BY <1>1, <1>2, <1>3, <1>4, AddedFirst
<1>6. \A q : Counted(q)' <=> Counted(q)
  BY <1>1, <1>3, <1>5 DEF Counted, WqLocked
<1> QED BY <1>1, <1>3, <1>4, <1>5, <1>6

(* The free list after its first queue has been freed. *)
LEMMA FreeListShrinks ==
    ASSUME WorkqueueInv, mthpc_workqueues_join_free, free_list # <<>>
    PROVE  /\ mpc = "join" /\ UNCHANGED <<mpc, walk, pool>>
           /\ Head(free_list) \in Queues /\ Head(free_list) \in ToSet(free_list)
           /\ ToSet(free_list') = ToSet(free_list) \ {Head(free_list)} /\ IsInjective(free_list')
           /\ Counted(Head(free_list))
           /\ \A q : Counted(q)' <=> Counted(q) /\ q # Head(free_list)
<1>1. mpc = "join" /\ UNCHANGED <<mpc, walk, pool>> /\ free_list' = Tail(free_list)
  BY DEF mthpc_workqueues_join_free
<1>2. free_list \in Seq(Queues)
  BY DEF WorkqueueInv, TypeOK, ListTypeOK
<1>3. IsInjective(free_list) /\ \A q \in ToSet(free_list) : q \notin ToSet(pool)
  BY DEF WorkqueueInv, ListState
<1>4. /\ Head(free_list) \in Queues /\ Head(free_list) \in ToSet(free_list)
      /\ ToSet(free_list) = ToSet(Tail(free_list)) \union {Head(free_list)}
      /\ Head(free_list) \notin ToSet(Tail(free_list)) /\ IsInjective(Tail(free_list))
  BY <1>2, <1>3, TakenFirst
<1>5. ToSet(free_list') = ToSet(free_list) \ {Head(free_list)} /\ IsInjective(free_list')
  BY <1>1, <1>4
<1>6. Counted(Head(free_list)) /\ \A q : Counted(q)' <=> Counted(q) /\ q # Head(free_list)
  BY <1>1, <1>3, <1>4, <1>5 DEF Counted, WqLocked
<1> QED BY <1>1, <1>4, <1>5, <1>6

(* The exit handler starts its walk of the pool, or passes over a queue. *)
LEMMA WalkOn ==
    ASSUME WorkqueueInv, mthpc_workqueues_join_check \/ Skips
    PROVE  /\ mpc # "gp" /\ mpc' # "gp" /\ UNCHANGED <<pool, free_list>>
           /\ IsInjective(walk') /\ (mpc' = "visit" => ToSet(walk') \subseteq ToSet(pool))
           /\ \A q : Counted(q)' <=> Counted(q)
<1>1. walk \in Seq(Queues) /\ IsInjective(walk) /\ IsInjective(pool)
  BY DEF WorkqueueInv, TypeOK, ListTypeOK, ListState
<1>2. mpc = "visit" => ToSet(walk) \subseteq ToSet(pool)
  BY DEF WorkqueueInv, ListState
<1>3. mpc # "gp" /\ mpc' # "gp" /\ UNCHANGED <<pool, free_list>>
  BY DEF mthpc_workqueues_join_check, Skips, queueVars
<1>4. walk # <<>> => IsInjective(Tail(walk)) /\ ToSet(Tail(walk)) \subseteq ToSet(walk)
  BY <1>1, TakenFirst
<1>5. IsInjective(walk') /\ (mpc' = "visit" => ToSet(walk') \subseteq ToSet(pool))
  BY <1>1, <1>2, <1>4 DEF mthpc_workqueues_join_check, Skips
<1>6. \A q : Counted(q)' <=> Counted(q)
  BY <1>3 DEF Counted, WqLocked
<1> QED BY <1>3, <1>5, <1>6

(* What a step does to the lists of works. *)
LEMMA WorkAdded ==
    ASSUME WorkqueueInv, NEW p \in Procs, mthpc_workqueue_add_locked(p)
    PROVE  /\ pc[p] = "add" /\ wq[p] \in Queues /\ work[p] \in Works
           /\ ~missed => wq[p] \in ToSet(pool)
           /\ ~missed => ToSet(wq_list'[wq[p]]) = ToSet(wq_list[wq[p]]) \union {work[p]}
           /\ ~missed => IsInjective(wq_list'[wq[p]])
           /\ wq_list'[wq[p]] # <<>>
           /\ \A q \in Queues : q # wq[p] => wq_list'[q] = wq_list[q]
           /\ pc' = [pc EXCEPT ![p] = "wake"] /\ UNCHANGED <<work, wq>>
<1>1. /\ pc[p] = "add" /\ ~WqLocked(wq[p])
      /\ wq_list' = [wq_list EXCEPT ![wq[p]] = Append(@, work[p])]
      /\ pc' = [pc EXCEPT ![p] = "wake"] /\ UNCHANGED <<work, wq>>
  BY DEF mthpc_workqueue_add_locked
<1>2. wq[p] \in Queues
  BY <1>1, AtQueue
<1>3. ~missed => wq[p] \in ToSet(pool)
  <2>1. p \in readers
    BY <1>1 DEF WorkqueueInv, ReaderState
  <2> QED BY <1>1, <2>1 DEF WorkqueueInv, PlaceState
<1>4. /\ work[p] \in Works
      /\ ~missed => work[p] \notin ToSet(wq_list[wq[p]]) /\ IsInjective(wq_list[wq[p]])
  BY <1>1, <1>2 DEF WorkqueueInv, CarryState, WorkState, Carries
<1>5. wq_list \in [Queues -> Seq(Works)]
  BY DEF WorkqueueInv, TypeOK, QueueTypeOK
<1>6. wq_list'[wq[p]] = Append(wq_list[wq[p]], work[p])
  BY <1>1, <1>2, <1>5
<1>7. \A q \in Queues : q # wq[p] => wq_list'[q] = wq_list[q]
  BY <1>1, <1>5
<1>8. wq_list[wq[p]] \in Seq(Works)
  BY <1>2, <1>5
<1>9. ~missed => /\ ToSet(wq_list'[wq[p]]) = ToSet(wq_list[wq[p]]) \union {work[p]}
                 /\ IsInjective(wq_list'[wq[p]])
  BY <1>4, <1>6, <1>8, AddedLast
<1>10. wq_list'[wq[p]] # <<>>
  BY <1>4, <1>6, <1>8, AppendProperties
<1> QED BY <1>1, <1>2, <1>3, <1>4, <1>7, <1>9, <1>10

(* A caller that allocates a queue starts its list with the work. *)
LEMMA WorkStarted ==
    ASSUME WorkqueueInv, NEW p \in Procs, NEW q \in Queues, Allocates(p, q)
    PROVE  /\ pc[p] = "alloc" /\ mem[q] = "none" /\ work[p] \in Works
           /\ ~Prealloc(q) /\ ~Counted(q) /\ pc[q] = "unborn" /\ (~missed => wq_list[q] = <<>>)
           /\ ToSet(wq_list'[q]) = {work[p]}
           /\ IsInjective(wq_list'[q]) /\ wq_list'[q] = <<work[p]>>
           /\ \A r \in Queues : r # q => wq_list'[r] = wq_list[r]
           /\ pc' = [pc EXCEPT ![p] = "link"] /\ wq' = [wq EXCEPT ![p] = q] /\ UNCHANGED work
<1>1. /\ pc[p] = "alloc" /\ mem[q] = "none"
      /\ wq_list' = [wq_list EXCEPT ![q] = <<work[p]>>]
      /\ pc' = [pc EXCEPT ![p] = "link"] /\ wq' = [wq EXCEPT ![p] = q] /\ UNCHANGED work
  BY DEF Allocates
<1>2. QueueOK(q) /\ work[p] \in Works
  BY <1>1 DEF WorkqueueInv, QueueState, CarryState
<1>3. ~Prealloc(q) /\ ~Counted(q) /\ pc[q] = "unborn"
  BY <1>1, <1>2 DEF QueueOK
<1>4. ~missed => wq_list[q] = <<>>
  BY <1>2, <1>3 DEF QueueOK, Counted
<1>5. wq_list'[q] = <<work[p]>> /\ \A r \in Queues : r # q => wq_list'[r] = wq_list[r]
  BY <1>1 DEF WorkqueueInv, TypeOK, QueueTypeOK
<1>6. ToSet(wq_list'[q]) = {work[p]} /\ IsInjective(wq_list'[q])
  BY <1>5, ShortLists
<1> QED BY <1>1, <1>2, <1>3, <1>4, <1>5, <1>6

(* A caller that finds a queue for its cpu moves the work over to it. *)
LEMMA WorkMoved ==
    ASSUME WorkqueueInv, NEW p \in Procs, NEW r \in Queues, UsesOld(p, r)
    PROVE  /\ pc[p] = "link" /\ wq[p] \in Queues /\ work[p] \in Works
           /\ r \in ToSet(pool) /\ r # wq[p]
           /\ Prealloc(wq[p]) /\ ~Counted(wq[p]) /\ ~Prealloc(r)
           /\ ~missed => ToSet(wq_list[wq[p]]) = {work[p]}
           /\ ~missed => ToSet(wq_list'[r]) = ToSet(wq_list[r]) \union {work[p]}
           /\ ~missed => IsInjective(wq_list'[r])
           /\ wq_list'[r] # <<>> /\ wq_list'[wq[p]] = <<>>
           /\ \A q \in Queues : q # r /\ q # wq[p] => wq_list'[q] = wq_list[q]
           /\ pc' = [pc EXCEPT ![p] = "wake"] /\ wq' = [wq EXCEPT ![p] = r]
           /\ mem' = [mem EXCEPT ![wq[p]] = "freed"] /\ UNCHANGED work
<1>1. /\ pc[p] = "link" /\ r \in ToSet(pool)
      /\ wq_list' = [wq_list EXCEPT ![r] = Append(@, work[p]), ![wq[p]] = <<>>]
      /\ pc' = [pc EXCEPT ![p] = "wake"] /\ wq' = [wq EXCEPT ![p] = r]
      /\ mem' = [mem EXCEPT ![wq[p]] = "freed"] /\ UNCHANGED work
  BY DEF UsesOld, MoveWork
<1>2. wq[p] \in Queues /\ (~missed => wq_list[wq[p]] = <<work[p]>>) /\ work[p] \in Works
  BY <1>1 DEF WorkqueueInv, OwnerState, OwnerOK, CarryState
<1>3. Prealloc(wq[p]) /\ Counted(r) /\ QueueOK(r) /\ QueueOK(wq[p])
  BY <1>1, <1>2 DEF Prealloc, Counted, WorkqueueInv, QueueState
<1>4. ~Counted(wq[p]) /\ ~Prealloc(r) /\ r # wq[p]
  BY <1>3 DEF QueueOK
<1>5. ~missed => ToSet(wq_list[wq[p]]) = {work[p]}
  BY <1>2, ShortLists
<1>6. wq_list \in [Queues -> Seq(Works)]
  BY DEF WorkqueueInv, TypeOK, QueueTypeOK
<1>7. /\ wq_list'[wq[p]] = <<>> /\ wq_list'[r] = Append(wq_list[r], work[p])
      /\ \A q \in Queues : q # r /\ q # wq[p] => wq_list'[q] = wq_list[q]
  BY <1>1, <1>2, <1>4, <1>6
<1>8. ~missed => work[p] \notin ToSet(wq_list[r]) /\ IsInjective(wq_list[r])
  BY <1>2, <1>4, <1>5 DEF WorkqueueInv, WorkState
<1>9. wq_list[r] \in Seq(Works)
  BY <1>6
<1>10. ~missed => ToSet(wq_list'[r]) = ToSet(wq_list[r]) \union {work[p]} /\ IsInjective(wq_list'[r])
  BY <1>2, <1>7, <1>8, <1>9, AddedLast
<1>11. wq_list'[r] # <<>>
  BY <1>2, <1>7, <1>9, AppendProperties
<1> QED BY <1>1, <1>2, <1>3, <1>4, <1>5, <1>7, <1>10, <1>11

(* A worker takes the first work off its list. *)
LEMMA WorkTaken ==
    ASSUME WorkqueueInv, NEW q \in Queues, mthpc_worker_run_take(q), wq_list[q] # <<>>
    PROVE  /\ pc[q] = "take" /\ work'[q] \in Works
           /\ ToSet(wq_list[q]) = ToSet(wq_list'[q]) \union {work'[q]}
           /\ ~missed => work'[q] \notin ToSet(wq_list'[q]) /\ IsInjective(wq_list'[q])
           /\ \A r \in Queues : r # q => wq_list'[r] = wq_list[r]
           /\ \A r \in Procs : r # q => work'[r] = work[r]
           /\ pc' = [pc EXCEPT ![q] = "func"]
<1>1. /\ pc[q] = "take" /\ work' = [work EXCEPT ![q] = Head(wq_list[q])]
      /\ wq_list' = [wq_list EXCEPT ![q] = Tail(@)]
      /\ pc' = [pc EXCEPT ![q] = "func"]
  BY DEF mthpc_worker_run_take
<1>2. wq_list \in [Queues -> Seq(Works)] /\ work \in [Procs -> Works \union {NULL}] /\ q \in Procs
  BY Names DEF WorkqueueInv, TypeOK, QueueTypeOK, ThreadTypeOK
<1>3. /\ work'[q] = Head(wq_list[q]) /\ wq_list'[q] = Tail(wq_list[q])
      /\ \A r \in Queues : r # q => wq_list'[r] = wq_list[r]
      /\ \A r \in Procs : r # q => work'[r] = work[r]
  BY <1>1, <1>2
<1>4. wq_list[q] \in Seq(Works) /\ (~missed => IsInjective(wq_list[q]))
  BY <1>2 DEF WorkqueueInv, WorkState
<1>5. /\ Head(wq_list[q]) \in Works
      /\ ToSet(wq_list[q]) = ToSet(Tail(wq_list[q])) \union {Head(wq_list[q])}
      /\ ~missed => /\ Head(wq_list[q]) \notin ToSet(Tail(wq_list[q]))
                    /\ IsInjective(Tail(wq_list[q]))
  BY <1>4, TakenFirst
<1> QED BY <1>1, <1>3, <1>5

(* Types. *)
LEMMA QueueTypeStep ==
    ASSUME WorkqueueInv, [Next]_vars
    PROVE  QueueTypeOK'
<1> USE DEF QueueTypeOK
<1>a. QueueTypeOK /\ ListTypeOK
  BY DEF WorkqueueInv, TypeOK
<1>b. /\ \A p \in Procs : pc[p] \in {"lock", "find", "add", "lost", "alloc", "link", "func"} => work[p] \in Works
      /\ \A p \in Procs : pc[p] \in {"link", "create", "wake", "broadcast"} => wq[p] \in Queues
  BY DEF WorkqueueInv, CarryState, OwnerState, OwnerOK
<1>c. \A p \in Procs : pc[p] = "add" => wq[p] \in Queues
  BY Names, AtQueue
<1>1. ASSUME UNCHANGED <<mem, wq_cpu, wq_active, wq_futex, wq_list, asked>> PROVE QueueTypeOK'
  BY <1>a, <1>1
<1>2. ASSUME NEW w \in Works, mthpc_schedule_work_on(w) PROVE QueueTypeOK'
  <2>1. UNCHANGED <<mem, wq_cpu, wq_active, wq_futex, wq_list, asked>>
    BY <1>2 DEF mthpc_schedule_work_on, Schedule, queueVars, localVars, exitVars, rcuVars
  <2> QED BY <2>1, <1>1
<1>3. ASSUME NEW p \in Procs,
                  \/ mthpc_rcu_read_lock(p)
                  \/ mthpc_get_workqueue_find(p)
                  \/ mthpc_get_workqueue_lost(p)
                  \/ LinksNew(p)
                  \/ mthpc_works_handler(p)
                  \/ mthpc_wq_futex_wake_broadcast(p)
      PROVE  QueueTypeOK'
  <2>1. UNCHANGED <<mem, wq_cpu, wq_active, wq_futex, wq_list, asked>>
    BY <1>3 DEF mthpc_rcu_read_lock, mthpc_get_workqueue_find,
       mthpc_get_workqueue_lost, LinksNew, mthpc_works_handler,
       mthpc_wq_futex_wake_broadcast, queueVars, localVars, exitVars, rcuVars
  <2> QED BY <2>1, <1>1
<1>4. ASSUME NEW q \in Queues,
                  \/ mthpc_rcu_thread_init(q)
                  \/ mthpc_wq_active(q)
                  \/ mthpc_wq_futex_wait(q)
                  \/ func_return(q)
                  \/ func_reschedule(q)
      PROVE  QueueTypeOK'
  <2>1. UNCHANGED <<mem, wq_cpu, wq_active, wq_futex, wq_list, asked>>
    BY <1>4 DEF mthpc_rcu_thread_init, mthpc_wq_active, mthpc_wq_futex_wait, func_return, func_reschedule,
       Schedule, queueVars, localVars, exitVars, rcuVars
  <2> QED BY <2>1, <1>1
<1>5. ASSUME 
                  \/ mthpc_workpool_exit
                  \/ mthpc_workqueues_join_begin
                  \/ mthpc_workqueues_join_check
                  \/ Skips
                  \/ Passes
      PROVE  QueueTypeOK'
  <2>1. UNCHANGED <<mem, wq_cpu, wq_active, wq_futex, wq_list, asked>>
    BY <1>5 DEF mthpc_workpool_exit, mthpc_workqueues_join_begin,
       mthpc_workqueues_join_check, Skips, Passes, queueVars, localVars, exitVars, rcuVars
  <2> QED BY <2>1, <1>1
<1>6. ASSUME NEW k \in 1..Len(pool), Unlinks(k) PROVE QueueTypeOK'
  <2>1. UNCHANGED <<mem, wq_cpu, wq_active, wq_futex, wq_list, asked>>
    BY <1>6 DEF Unlinks, queueVars, localVars, exitVars, rcuVars
  <2> QED BY <2>1, <1>1
<1>7. ASSUME NEW p \in Procs, mthpc_workqueue_add_locked(p) PROVE QueueTypeOK'
  BY <1>a, <1>b, <1>c, Names, <1>7 DEF mthpc_workqueue_add_locked, mthpc_rcu_read_unlock,
     queueVars, localVars, exitVars, rcuVars
<1>8. ASSUME NEW p \in Procs, NEW q \in Queues, Allocates(p, q) PROVE QueueTypeOK'
  <2>1. /\ mem' = [mem EXCEPT ![q] = "alloc"]
        /\ wq_active' = [wq_active EXCEPT ![q] = TRUE]
        /\ wq_list' = [wq_list EXCEPT ![q] = <<work[p]>>]
        /\ \E c \in IF cpu[p] = -1 THEN 0..(NrCpu - 1) ELSE {cpu[p]} :
              wq_cpu' = [wq_cpu EXCEPT ![q] = c % NrCpu] /\ asked' = [asked EXCEPT ![q] = c]
    BY <1>8 DEF Allocates
  <2>2. cpu[p] \in Int /\ pc[p] = "alloc" /\ NrCpu \in Nat \ {0}
    BY <1>8, WorkqueueAssumption
    DEF Allocates, WorkqueueInv, TypeOK, ThreadTypeOK, WorkqueueAssumption
  <2>3. PICK c \in Int : wq_cpu' = [wq_cpu EXCEPT ![q] = c % NrCpu] /\ asked' = [asked EXCEPT ![q] = c]
    <3>1. CASE cpu[p] = -1
      <4>1. \E c \in 0..(NrCpu - 1) : wq_cpu' = [wq_cpu EXCEPT ![q] = c % NrCpu] /\ asked' = [asked EXCEPT ![q] = c]
        BY <2>1, <3>1, Zenon
      <4>2. 0..(NrCpu - 1) \subseteq Int
        BY <2>2
      <4> QED BY <4>1, <4>2, Zenon
    <3>2. CASE cpu[p] # -1
      BY <2>1, <2>2, <3>2
    <3> QED BY <3>1, <3>2
  <2>4. c % NrCpu \in 0..(NrCpu - 1)
    BY <2>2
  <2>5. <<work[p]>> \in Seq(Works)
    BY <1>b, <2>2
  <2>6. wq_futex' = wq_futex
    BY <1>8 DEF Allocates
  <2> QED BY <1>a, <2>1, <2>3, <2>4, <2>5, <2>6
<1>9. ASSUME NEW p \in Procs, NEW r \in Queues, UsesOld(p, r) PROVE QueueTypeOK'
  <2>1. Append(wq_list[r], work[p]) \in Seq(Works) /\ <<>> \in Seq(Works)
    BY <1>a, <1>b, <1>9, AppendProperties DEF UsesOld
  <2>2. wq_list' \in [Queues -> Seq(Works)]
    BY <1>a, <2>1, <1>9 DEF UsesOld, MoveWork
  <2> QED BY <1>a, <2>2, <1>9 DEF UsesOld
<1>10. ASSUME NEW p \in Procs, mthpc_wq_futex_wake_store(p) PROVE QueueTypeOK'
  BY <1>a, <1>b, <1>c, Names, <1>10 DEF mthpc_wq_futex_wake_store, NonEmpty, queueVars,
     localVars, exitVars, rcuVars
<1>11. ASSUME NEW q \in Queues, mthpc_worker_run_take(q) PROVE QueueTypeOK'
  <2>1. wq_list[q] # <<>> => Tail(wq_list[q]) \in Seq(Works)
    BY <1>a, HeadTailProperties
  <2>2. wq_list' \in [Queues -> Seq(Works)]
    BY <1>a, <2>1, <1>11 DEF mthpc_worker_run_take
  <2> QED BY <1>a, <2>2, <1>11 DEF mthpc_worker_run_take
<1>12. CASE mthpc_wq_clear_active
  BY <1>a, <1>b, <1>c, Names, <1>12 DEF mthpc_wq_clear_active, GracePeriodOver,
     queueVars, localVars, exitVars, rcuVars
<1>13. CASE mthpc_workqueues_join_free
  BY <1>a, <1>b, <1>c, Names, <1>13 DEF mthpc_workqueues_join_free, queueVars, localVars,
     exitVars, rcuVars
<1> QED BY StepCases, <1>2, <1>3, <1>4, <1>5, <1>6, <1>7, <1>8, <1>9, <1>10, <1>11,
   <1>12, <1>13


(* The lists keep their types. *)
LEMMA ListTypeStep ==
    ASSUME WorkqueueInv, [Next]_vars
    PROVE  ListTypeOK'
<1> USE DEF ListTypeOK, HEAD, FREE
<1>a. ListTypeOK
  BY DEF WorkqueueInv, TypeOK
<1>b. /\ \A p \in Procs : pc[p] \in {"lock", "find", "add", "lost", "alloc", "link", "func"} => work[p] \in Works
      /\ \A p \in Procs : pc[p] \in {"link", "create", "wake", "broadcast"} => wq[p] \in Queues
  BY DEF WorkqueueInv, CarryState, OwnerState, OwnerOK
<1>1. ASSUME UNCHANGED <<pool, walk, free_list, next, mpc>> PROVE ListTypeOK'
  BY <1>a, <1>1
<1>2. ASSUME NEW w \in Works, mthpc_schedule_work_on(w) PROVE ListTypeOK'
  <2>1. UNCHANGED <<pool, walk, free_list, next, mpc>>
    BY <1>2 DEF mthpc_schedule_work_on, Schedule, queueVars, localVars, exitVars, rcuVars
  <2> QED BY <2>1, <1>1
<1>3. ASSUME NEW p \in Procs,
                  \/ mthpc_rcu_read_lock(p)
                  \/ mthpc_get_workqueue_find(p)
                  \/ mthpc_get_workqueue_lost(p)
                  \/ mthpc_workqueue_add_locked(p)
                  \/ mthpc_works_handler(p)
                  \/ mthpc_wq_futex_wake_store(p)
                  \/ mthpc_wq_futex_wake_broadcast(p)
      PROVE  ListTypeOK'
  <2>1. UNCHANGED <<pool, walk, free_list, next, mpc>>
    BY <1>3 DEF mthpc_rcu_read_lock, mthpc_get_workqueue_find,
       mthpc_get_workqueue_lost, mthpc_workqueue_add_locked,
       mthpc_works_handler, mthpc_wq_futex_wake_store, mthpc_wq_futex_wake_broadcast,
       queueVars, localVars, exitVars, rcuVars
  <2> QED BY <2>1, <1>1
<1>4. ASSUME NEW p \in Procs, NEW q \in Queues, Allocates(p, q) PROVE ListTypeOK'
  <2>1. UNCHANGED <<pool, walk, free_list, next, mpc>>
    BY <1>4 DEF Allocates, queueVars, localVars, exitVars, rcuVars
  <2> QED BY <2>1, <1>1
<1>5. ASSUME NEW p \in Procs, NEW r \in Queues, UsesOld(p, r) PROVE ListTypeOK'
  <2>1. UNCHANGED <<pool, walk, free_list, next, mpc>>
    BY <1>5 DEF UsesOld, queueVars, localVars, exitVars, rcuVars
  <2> QED BY <2>1, <1>1
<1>6. ASSUME NEW q \in Queues,
                  \/ mthpc_rcu_thread_init(q)
                  \/ mthpc_wq_active(q)
                  \/ mthpc_worker_run_take(q)
                  \/ mthpc_wq_futex_wait(q)
                  \/ func_return(q)
                  \/ func_reschedule(q)
      PROVE  ListTypeOK'
  <2>1. UNCHANGED <<pool, walk, free_list, next, mpc>>
    BY <1>6 DEF mthpc_rcu_thread_init, mthpc_wq_active, mthpc_worker_run_take, mthpc_wq_futex_wait, func_return,
       func_reschedule, Schedule, queueVars, localVars, exitVars, rcuVars
  <2> QED BY <2>1, <1>1
<1>7. ASSUME Passes PROVE ListTypeOK'
  <2>1. UNCHANGED <<pool, walk, free_list, next, mpc>>
    BY <1>7 DEF Passes, queueVars, localVars, exitVars, rcuVars
  <2> QED BY <2>1, <1>1
<1>8. ASSUME NEW p \in Procs, LinksNew(p) PROVE ListTypeOK'
  <2>1. wq[p] \in Queues /\ mpc' = mpc /\ walk' = walk /\ free_list' = free_list
    BY <1>8, PoolGrows
  <2>2. /\ next' = [next EXCEPT ![wq[p]] = HEAD, ![Before(Len(pool) + 1)] = wq[p]]
        /\ pool' = Append(pool, wq[p])
    BY <1>8 DEF LinksNew, mthpc_list_add_tail_rcu
  <2>3. pool' \in Seq(Queues)
    BY <1>a, <2>1, <2>2, AppendProperties
  <2>4. next' \in [Queues \union {HEAD} -> Queues \union {HEAD, FREE}]
    BY <1>a, <2>1, <2>2
  <2> QED BY <1>a, <2>1, <2>3, <2>4
<1>9. CASE mthpc_workpool_exit
  BY <1>a, <1>b, Names, <1>9 DEF mthpc_workpool_exit, queueVars, localVars, exitVars,
     rcuVars
<1>10. CASE mthpc_workqueues_join_begin
  BY <1>a, <1>b, Names, <1>10 DEF mthpc_workqueues_join_begin, queueVars, localVars,
     exitVars, rcuVars
<1>11. CASE mthpc_workqueues_join_check
  BY <1>a, <1>b, Names, <1>11 DEF mthpc_workqueues_join_check, queueVars, localVars,
     exitVars, rcuVars
<1>12. CASE Skips
  <2>1. walk # <<>> => Tail(walk) \in Seq(Queues)
    BY <1>a, HeadTailProperties
  <2> QED BY <1>a, <2>1, <1>12 DEF Skips, queueVars
<1>13. ASSUME NEW k \in 1..Len(pool), Unlinks(k) PROVE ListTypeOK'
  <2>1. RemoveAt(pool, k) \in Seq(Queues) /\ pool[k] \in Queues
    BY <1>a, Removed, LenProperties
  <2>2. next[pool[k]] \in Queues \union {HEAD, FREE}
    BY <1>a, <2>1
  <2> QED BY <1>a, <2>1, <2>2, <1>13 DEF Unlinks, mthpc_list_del_rcu
<1>14. CASE mthpc_wq_clear_active
  <2>1. walk # <<>>
    BY <1>14 DEF mthpc_wq_clear_active, WorkqueueInv, ListState
  <2>2. Tail(walk) \in Seq(Queues) /\ Head(walk) \in Queues
    BY <1>a, <2>1, HeadTailProperties
  <2>3. <<Head(walk)>> \o free_list \in Seq(Queues)
    BY <1>a, <2>2, AddedFirst
  <2>4. free_list # <<>> => Head(free_list) \in Queues
    BY <1>a, HeadTailProperties
  <2>5. next' \in [Queues \union {HEAD} -> Queues \union {HEAD, FREE}]
    BY <1>a, <2>2, <2>4, <1>14 DEF mthpc_wq_clear_active
  <2> QED BY <1>a, <2>2, <2>3, <2>5, <1>14 DEF mthpc_wq_clear_active
<1>15. CASE mthpc_workqueues_join_free
  <2>1. free_list # <<>> => Tail(free_list) \in Seq(Queues)
    BY <1>a, HeadTailProperties
  <2> QED BY <1>a, <2>1, <1>15 DEF mthpc_workqueues_join_free
<1> QED BY StepCases, <1>2, <1>3, <1>4, <1>5, <1>6, <1>7, <1>8, <1>9, <1>10, <1>11,
   <1>12, <1>13, <1>14, <1>15


(* The variables of the threads keep their types. *)
LEMMA ThreadTypeStep ==
    ASSUME WorkqueueInv, [Next]_vars
    PROVE  ThreadTypeOK'
<1> USE DEF ThreadTypeOK, HEAD, FREE
<1>a. QueueTypeOK /\ ThreadTypeOK
  BY DEF WorkqueueInv, TypeOK
<1>b. /\ \A p \in Procs : pc[p] \in {"lock", "find", "add", "lost", "alloc", "link", "func"} => work[p] \in Works
      /\ \A p \in Procs : pc[p] \in {"link", "create", "wake", "broadcast"} => wq[p] \in Queues
  BY DEF WorkqueueInv, CarryState, OwnerState, OwnerOK
<1>1. ASSUME UNCHANGED <<pc, work, cpu, wq, readers, waitfor, calls, runs>> PROVE ThreadTypeOK'
  BY <1>a, <1>1
<1>2. ASSUME \/ mthpc_workqueues_join_check \/ mthpc_workqueues_join_free
             \/ Skips \/ Passes
      PROVE  ThreadTypeOK'
  <2>1. UNCHANGED <<pc, work, cpu, wq, readers, waitfor, calls, runs>>
    BY <1>2 DEF mthpc_workqueues_join_check, Skips, mthpc_workqueues_join_free, Passes,
       localVars, rcuVars
  <2> QED BY <2>1, <1>1
<1>2a. ASSUME mthpc_workqueues_join_begin \/ mthpc_wq_clear_active PROVE ThreadTypeOK'
  <2>1. UNCHANGED <<pc, work, cpu, wq, readers, calls, runs>> /\ waitfor' = {}
    BY <1>2a DEF mthpc_workqueues_join_begin, mthpc_wq_clear_active, synchronize_end,
       localVars
  <2> QED BY <1>a, <2>1
<1>3. ASSUME NEW w \in Works, mthpc_schedule_work_on(w) PROVE ThreadTypeOK'
  <2>1. PICK c \in CpuArgs[w] : cpu' = [cpu EXCEPT ![w] = c]
    BY <1>3 DEF mthpc_schedule_work_on, Schedule
  <2>2. c \in Int
    BY WorkqueueAssumption DEF WorkqueueAssumption
  <2>3. w \in Procs /\ w \in Works
    BY Names
  <2>4. calls' \in [Works -> Nat] /\ runs' \in [Works -> Nat]
    BY <1>a, <2>3, <1>3 DEF mthpc_schedule_work_on, Schedule
  <2>5. /\ pc' = [pc EXCEPT ![w] = "lock"] /\ work' = [work EXCEPT ![w] = w]
        /\ wq' = [wq EXCEPT ![w] = 0] /\ UNCHANGED <<readers, waitfor>>
    BY <1>3 DEF mthpc_schedule_work_on, Schedule, rcuVars
  <2> QED BY <1>a, <2>1, <2>2, <2>3, <2>4, <2>5
<1>4. ASSUME NEW p \in Procs, mthpc_get_workqueue_find(p) PROVE ThreadTypeOK'
  <2>1. next[wq[p]] \in Queues \union {0}
    <3>1. next[wq[p]] # FREE
      BY <1>4 DEF mthpc_get_workqueue_find, Gone
    <3>2. next \in [Queues \union {HEAD} -> Queues \union {HEAD, FREE}]
      BY DEF WorkqueueInv, TypeOK, ListTypeOK
    <3> QED BY <1>a, <3>1, <3>2
  <2>2. wq' = [wq EXCEPT ![p] = next[wq[p]]]
    BY <1>4 DEF mthpc_get_workqueue_find
  <2>3. pc' = [pc EXCEPT ![p] = "add"] \/ pc' = [pc EXCEPT ![p] = "find"] \/ pc' = [pc EXCEPT ![p] = "alloc"]
    BY <1>4 DEF mthpc_get_workqueue_find
  <2>4. readers' \subseteq readers /\ waitfor' \subseteq waitfor
    BY <1>4 DEF mthpc_get_workqueue_find, mthpc_rcu_read_unlock, rcuVars
  <2>5. UNCHANGED <<work, cpu, calls, runs>>
    BY <1>4 DEF mthpc_get_workqueue_find
  <2> QED BY <1>a, <2>1, <2>2, <2>3, <2>4, <2>5
<1>5. ASSUME NEW p \in Procs, mthpc_workqueue_add_locked(p) PROVE ThreadTypeOK'
  BY <1>a, <1>b, Names, <1>5 DEF mthpc_workqueue_add_locked, mthpc_rcu_read_unlock,
     queueVars, localVars, exitVars, rcuVars
<1>6. ASSUME NEW p \in Procs, NEW q \in Queues, Allocates(p, q) PROVE ThreadTypeOK'
  BY <1>a, <1>b, Names, <1>6 DEF Allocates, queueVars, localVars, exitVars, rcuVars
<1>7. ASSUME NEW p \in Procs, LinksNew(p) PROVE ThreadTypeOK'
  BY <1>a, <1>b, Names, <1>7 DEF LinksNew, mthpc_list_add_tail_rcu, OneMore, queueVars,
     localVars, exitVars, rcuVars
<1>8. ASSUME NEW p \in Procs, NEW r \in Queues, UsesOld(p, r) PROVE ThreadTypeOK'
  BY <1>a, <1>b, Names, <1>8 DEF UsesOld, MoveWork, queueVars, localVars, exitVars,
     rcuVars
<1>9. ASSUME NEW p \in Procs, mthpc_works_handler(p) PROVE ThreadTypeOK'
  BY <1>a, <1>b, Names, <1>9 DEF mthpc_works_handler, queueVars, localVars, exitVars,
     rcuVars
<1>10. ASSUME NEW p \in Procs, mthpc_wq_futex_wake_store(p) PROVE ThreadTypeOK'
  BY <1>a, <1>b, Names, <1>10 DEF mthpc_wq_futex_wake_store, NonEmpty, queueVars,
     localVars, exitVars, rcuVars
<1>11. ASSUME NEW p \in Procs, mthpc_wq_futex_wake_broadcast(p) PROVE ThreadTypeOK'
  BY <1>a, <1>b, Names, <1>11 DEF mthpc_wq_futex_wake_broadcast, queueVars, localVars,
     exitVars, rcuVars
<1>12. ASSUME NEW q \in Queues, mthpc_wq_active(q) \/ mthpc_rcu_thread_init(q)
       PROVE  ThreadTypeOK'
  <2>1. \E c \in {"take", "dead", "top"} : pc' = [pc EXCEPT ![q] = c]
    BY <1>12 DEF mthpc_wq_active, mthpc_rcu_thread_init
  <2>2. UNCHANGED <<work, cpu, wq, readers, waitfor, calls, runs>>
    BY <1>12 DEF mthpc_wq_active, mthpc_rcu_thread_init, rcuVars
  <2> QED BY <1>a, <2>1, <2>2
<1>13. ASSUME NEW q \in Queues, mthpc_worker_run_take(q) PROVE ThreadTypeOK'
  <2>1. wq_list[q] # <<>> => Head(wq_list[q]) \in Works
    BY <1>a, HeadTailProperties DEF QueueTypeOK
  <2>2. UNCHANGED <<cpu, wq, readers, waitfor, calls, runs>>
    BY <1>13 DEF mthpc_worker_run_take, rcuVars
  <2>3. work' \in [Procs -> Works \union {NULL}]
    <3>1. CASE wq_list[q] = <<>>
      BY <1>a, <3>1, <1>13 DEF mthpc_worker_run_take
    <3>2. CASE wq_list[q] # <<>>
      <4>1. work' = [work EXCEPT ![q] = Head(wq_list[q])]
        BY <3>2, <1>13 DEF mthpc_worker_run_take
      <4> QED BY <1>a, <2>1, <3>2, <4>1
    <3> QED BY <3>1, <3>2
  <2>4. pc' = [pc EXCEPT ![q] = "wait"] \/ pc' = [pc EXCEPT ![q] = "func"]
    BY <1>13 DEF mthpc_worker_run_take
  <2> QED BY <1>a, <2>2, <2>3, <2>4
<1>14. ASSUME NEW q \in Queues, mthpc_wq_futex_wait(q) PROVE ThreadTypeOK'
  BY <1>a, <1>b, Names, <1>14 DEF mthpc_wq_futex_wait, queueVars, localVars, exitVars,
     rcuVars
<1>15. ASSUME NEW q \in Queues, func_return(q) PROVE ThreadTypeOK'
  BY <1>a, <1>b, Names, <1>15 DEF func_return, queueVars, localVars, exitVars, rcuVars
<1>16. ASSUME NEW q \in Queues, func_reschedule(q) PROVE ThreadTypeOK'
  <2>1. PICK c \in CpuArgs[work[q]] : cpu' = [cpu EXCEPT ![q] = c]
    BY <1>16 DEF func_reschedule, Schedule
  <2>3. q \in Procs /\ work[q] \in Works
    BY <1>b, Names, <1>16 DEF func_reschedule
  <2>2. c \in Int
    BY <2>3, WorkqueueAssumption DEF WorkqueueAssumption
  <2>4. calls' \in [Works -> Nat] /\ runs' \in [Works -> Nat]
    BY <1>a, <2>3, <1>16 DEF func_reschedule, Schedule
  <2>5. /\ pc' = [pc EXCEPT ![q] = "lock"] /\ work' = [work EXCEPT ![q] = work[q]]
        /\ wq' = [wq EXCEPT ![q] = 0] /\ UNCHANGED <<readers, waitfor>>
    BY <1>16 DEF func_reschedule, Schedule, rcuVars
  <2> QED BY <1>a, <2>1, <2>2, <2>3, <2>4, <2>5
<1>17. CASE mthpc_workpool_exit
  BY <1>a, <1>b, Names, <1>17 DEF mthpc_workpool_exit, synchronize_begin, localVars
<1>18. ASSUME NEW k \in 1..Len(pool), Unlinks(k) PROVE ThreadTypeOK'
  BY <1>a, <1>b, Names, <1>18 DEF Unlinks, localVars
<1>19. ASSUME NEW p \in Procs, mthpc_rcu_read_lock(p) PROVE ThreadTypeOK'
  BY <1>a, <1>19 DEF mthpc_rcu_read_lock
<1>20. ASSUME NEW p \in Procs, mthpc_get_workqueue_lost(p) PROVE ThreadTypeOK'
  BY <1>a, <1>20 DEF mthpc_get_workqueue_lost, rcuVars
<1> QED BY StepCases, <1>2, <1>2a, <1>3, <1>4, <1>5, <1>6, <1>7, <1>8, <1>9, <1>10, <1>11,
   <1>12, <1>13, <1>14, <1>15, <1>16, <1>17, <1>18, <1>19, <1>20

(* So do those of mthpc_synchronize_rcu(). *)
LEMMA SyncTypeStep ==
    ASSUME WorkqueueInv, [Next]_vars
    PROVE  SyncTypeOK'
<1> USE DEF SyncTypeOK
<1>a. SyncTypeOK /\ ThreadTypeOK
  BY DEF WorkqueueInv, TypeOK
<1>b. missed' \in BOOLEAN
  BY MissedStays
<1>c. Nodes \subseteq Queues /\ readers \subseteq Procs
  BY <1>a DEF Nodes, ThreadTypeOK
<1>1. ASSUME UNCHANGED <<behind, stale, todo, sync>> PROVE SyncTypeOK'
  BY <1>a, <1>b, <1>1
<1>2. ASSUME NEW w \in Works, mthpc_schedule_work_on(w) PROVE SyncTypeOK'
  BY <1>1, <1>2 DEF mthpc_schedule_work_on, Schedule, rcuVars
<1>3. ASSUME NEW p \in Procs, ScheduleStep(p) PROVE SyncTypeOK'
  <2>1. CASE UNCHANGED <<behind, stale, todo, sync>>
    BY <1>1, <2>1
  <2>2. CASE behind' \subseteq behind /\ stale' \subseteq stale /\ UNCHANGED <<todo, sync>>
    BY <1>a, <1>b, <2>2
  <2> QED BY <1>3, <2>1, <2>2 DEF ScheduleStep, mthpc_rcu_read_lock, mthpc_get_workqueue_find,
          mthpc_workqueue_add_locked, mthpc_rcu_read_unlock, mthpc_get_workqueue_lost,
          mthpc_alloc_workqueue, mthpc_get_workqueue_link, mthpc_works_handler,
          mthpc_wq_futex_wake_store, mthpc_wq_futex_wake_broadcast, rcuVars
<1>4. ASSUME NEW q \in Queues, WorkerStep(q) PROVE SyncTypeOK'
  BY <1>1, <1>4 DEF WorkerStep, mthpc_rcu_thread_init, mthpc_wq_active, mthpc_worker_run_take,
     mthpc_wq_futex_wait, func_return, func_reschedule, Schedule, rcuVars
<1>5. CASE mthpc_workpool_exit
  BY <1>a, <1>b, <1>c, <1>5 DEF mthpc_workpool_exit, synchronize_begin
<1>6. CASE mthpc_wait_for_readers
  BY <1>a, <1>b, <1>6 DEF mthpc_wait_for_readers
<1>7. CASE mthpc_synchronize_rcu_flip
  BY <1>a, <1>b, <1>c, <1>7 DEF mthpc_synchronize_rcu_flip
<1>8. CASE mthpc_workqueues_join_begin \/ mthpc_wq_clear_active
  BY <1>a, <1>b, <1>8 DEF mthpc_workqueues_join_begin, mthpc_wq_clear_active, synchronize_end
<1>9. CASE mthpc_workqueues_join_visit
  BY <1>a, <1>b, <1>c, <1>9 DEF mthpc_workqueues_join_visit, synchronize_begin
<1>10. CASE mthpc_workqueues_join_check \/ mthpc_workqueues_join_free
  BY <1>1, <1>10 DEF mthpc_workqueues_join_check, mthpc_workqueues_join_free, rcuVars
<1>11. CASE UNCHANGED vars
  BY <1>1, <1>11 DEF vars, rcuVars
<1> QED BY <1>2, <1>3, <1>4, <1>5, <1>6, <1>7, <1>8, <1>9, <1>10, <1>11
    DEF Next, ExitStep, Finished

(* A reader that was inside with the current phase is not passed: the first *)
(* wait passes a node only when it is idle or behind, and nothing brings    *)
(* it behind before the flip.                                               *)
LEMMA SyncStep ==
    ASSUME WorkqueueInv, [Next]_vars
    PROVE  SyncState'
<1> USE DEF SyncState
<1>a. SyncState /\ SyncTypeOK /\ waitfor \subseteq readers
  BY DEF WorkqueueInv, TypeOK, ReaderState
<1>1. ASSUME UNCHANGED <<behind, stale, todo, sync, waitfor>> PROVE SyncState'
  BY <1>a, <1>1
<1>2. ASSUME NEW w \in Works, mthpc_schedule_work_on(w) PROVE SyncState'
  BY <1>1, <1>2 DEF mthpc_schedule_work_on, Schedule, rcuVars
<1>3. ASSUME NEW p \in Procs, ScheduleStep(p) PROVE SyncState'
  <2>1. CASE UNCHANGED <<behind, stale, todo, sync, waitfor>>
    BY <1>1, <2>1
  <2>2. CASE mthpc_rcu_read_unlock(p)
    BY <1>a, <2>2 DEF mthpc_rcu_read_unlock
  <2> QED BY <1>3, <2>1, <2>2 DEF ScheduleStep, mthpc_rcu_read_lock, mthpc_get_workqueue_find,
          mthpc_workqueue_add_locked, mthpc_get_workqueue_lost,
          mthpc_alloc_workqueue, mthpc_get_workqueue_link, mthpc_works_handler,
          mthpc_wq_futex_wake_store, mthpc_wq_futex_wake_broadcast, rcuVars
<1>4. ASSUME NEW q \in Queues, WorkerStep(q) PROVE SyncState'
  BY <1>1, <1>4 DEF WorkerStep, mthpc_rcu_thread_init, mthpc_wq_active, mthpc_worker_run_take,
     mthpc_wq_futex_wait, func_return, func_reschedule, Schedule, rcuVars
<1>5. ASSUME synchronize_begin, UNCHANGED behind, \A w \in Works : pc[w] \in {"ready", "done"}
      PROVE  SyncState'
  <2>1. readers \subseteq Nodes
    <3> SUFFICES ASSUME NEW p \in readers PROVE p \in Nodes
      OBVIOUS
    <3>1. p \in Procs /\ pc[p] \in {"find", "add", "lost"}
      BY DEF WorkqueueInv, TypeOK, ThreadTypeOK, ReaderState
    <3>2. p \in Queues
      BY <1>5, <3>1, Names
    <3> QED BY <3>1, <3>2 DEF Nodes
  <2> QED BY <1>5, <2>1 DEF synchronize_begin
<1>6. CASE mthpc_workpool_exit
  BY <1>5, <1>6 DEF mthpc_workpool_exit
<1>7. CASE mthpc_workqueues_join_visit
  <2>1. \A w \in Works : pc[w] \in {"ready", "done"}
    BY <1>7 DEF mthpc_workqueues_join_visit, WorkqueueInv, ClientState
  <2>2. CASE UNCHANGED <<behind, stale, todo, sync, waitfor>>
    BY <1>1, <2>2
  <2>3. CASE synchronize_begin /\ UNCHANGED behind
    BY <1>5, <2>1, <2>3
  <2> QED BY <1>7, <2>2, <2>3 DEF mthpc_workqueues_join_visit
<1>8. CASE mthpc_wait_for_readers
  BY <1>a, <1>8 DEF mthpc_wait_for_readers
<1>9. CASE mthpc_synchronize_rcu_flip
  BY <1>a, <1>9 DEF mthpc_synchronize_rcu_flip
<1>10. CASE mthpc_workqueues_join_begin \/ mthpc_wq_clear_active
  BY <1>10 DEF mthpc_workqueues_join_begin, mthpc_wq_clear_active, synchronize_end
<1>11. CASE mthpc_workqueues_join_check \/ mthpc_workqueues_join_free
  BY <1>1, <1>11 DEF mthpc_workqueues_join_check, mthpc_workqueues_join_free, rcuVars
<1>12. CASE UNCHANGED vars
  BY <1>1, <1>12 DEF vars, rcuVars
<1> QED BY <1>2, <1>3, <1>4, <1>6, <1>7, <1>8, <1>9, <1>10, <1>11, <1>12
    DEF Next, ExitStep, Finished

(* The lists of the exit handler. *)
LEMMA ListStep ==
    ASSUME WorkqueueInv, [Next]_vars
    PROVE  ListState'
<1>a. ListState
  BY DEF WorkqueueInv
<1>1. ASSUME UNCHANGED <<pool, walk, free_list, mpc>> PROVE ListState'
  BY <1>a, <1>1 DEF ListState
<1>2. ASSUME NEW w \in Works, mthpc_schedule_work_on(w) PROVE ListState'
  <2>1. UNCHANGED <<pool, walk, free_list, mpc>>
    BY <1>2 DEF mthpc_schedule_work_on, Schedule, queueVars, localVars, exitVars, rcuVars
  <2> QED BY <2>1, <1>1
<1>3. ASSUME NEW p \in Procs,
                  \/ mthpc_rcu_read_lock(p)
                  \/ mthpc_get_workqueue_find(p)
                  \/ mthpc_get_workqueue_lost(p)
                  \/ mthpc_workqueue_add_locked(p)
                  \/ mthpc_works_handler(p)
                  \/ mthpc_wq_futex_wake_store(p)
                  \/ mthpc_wq_futex_wake_broadcast(p)
      PROVE  ListState'
  <2>1. UNCHANGED <<pool, walk, free_list, mpc>>
    BY <1>3 DEF mthpc_rcu_read_lock, mthpc_get_workqueue_find,
       mthpc_get_workqueue_lost, mthpc_workqueue_add_locked,
       mthpc_works_handler, mthpc_wq_futex_wake_store, mthpc_wq_futex_wake_broadcast,
       queueVars, localVars, exitVars, rcuVars
  <2> QED BY <2>1, <1>1
<1>4. ASSUME NEW p \in Procs, NEW q \in Queues, Allocates(p, q) PROVE ListState'
  <2>1. UNCHANGED <<pool, walk, free_list, mpc>>
    BY <1>4 DEF Allocates, queueVars, localVars, exitVars, rcuVars
  <2> QED BY <2>1, <1>1
<1>5. ASSUME NEW p \in Procs, NEW r \in Queues, UsesOld(p, r) PROVE ListState'
  <2>1. UNCHANGED <<pool, walk, free_list, mpc>>
    BY <1>5 DEF UsesOld, queueVars, localVars, exitVars, rcuVars
  <2> QED BY <2>1, <1>1
<1>6. ASSUME NEW q \in Queues,
                  \/ mthpc_rcu_thread_init(q)
                  \/ mthpc_wq_active(q)
                  \/ mthpc_worker_run_take(q)
                  \/ mthpc_wq_futex_wait(q)
                  \/ func_return(q)
                  \/ func_reschedule(q)
      PROVE  ListState'
  <2>1. UNCHANGED <<pool, walk, free_list, mpc>>
    BY <1>6 DEF mthpc_rcu_thread_init, mthpc_wq_active, mthpc_worker_run_take, mthpc_wq_futex_wait, func_return,
       func_reschedule, Schedule, queueVars, localVars, exitVars, rcuVars
  <2> QED BY <2>1, <1>1
<1>7. ASSUME Passes PROVE ListState'
  <2>1. UNCHANGED <<pool, walk, free_list, mpc>>
    BY <1>7 DEF Passes, queueVars, localVars, exitVars, rcuVars
  <2> QED BY <2>1, <1>1
<1>8. ASSUME NEW p \in Procs, LinksNew(p) PROVE ListState'
  BY <1>a, <1>8, PoolGrows DEF ListState, Counted
<1>9. CASE mthpc_workpool_exit
  BY <1>a, <1>9 DEF ListState, mthpc_workpool_exit, queueVars, localVars, exitVars,
     rcuVars
<1>10. CASE mthpc_workqueues_join_begin
  BY <1>a, <1>10 DEF ListState, mthpc_workqueues_join_begin, queueVars, localVars,
     exitVars, rcuVars
<1>11. CASE mthpc_workqueues_join_check
  BY <1>a, <1>11, WalkOn DEF ListState, mthpc_workqueues_join_check
<1>12. CASE Skips
  BY <1>a, <1>12, WalkOn DEF ListState, Skips
<1>13. ASSUME NEW k \in 1..Len(pool), Unlinks(k) PROVE ListState'
  <2>1. walk \in Seq(Queues) /\ ToSet(walk) \subseteq ToSet(pool)
    BY <1>a, <1>13 DEF Unlinks, ListState, WorkqueueInv, TypeOK, ListTypeOK
  <2>2. ToSet(walk) = ToSet(Tail(walk)) \union {Head(walk)} /\ Head(walk) \notin ToSet(Tail(walk))
    BY <1>a, <2>1, <1>13, PoolShrinks, TakenFirst DEF ListState
  <2>3. mpc' = "gp"
    BY <1>13 DEF Unlinks
  <2> QED BY <1>a, <2>1, <2>2, <2>3, <1>13, PoolShrinks DEF ListState
<1>14. CASE mthpc_wq_clear_active
  BY <1>a, <1>14, FreeListGrows DEF ListState
<1>15. CASE mthpc_workqueues_join_free
  <2>1. CASE free_list = <<>>
    BY <1>a, <2>1, <1>15 DEF ListState, mthpc_workqueues_join_free
  <2>2. CASE free_list # <<>>
    BY <1>a, <2>2, <1>15, FreeListShrinks DEF ListState
  <2> QED BY <2>1, <2>2
<1> QED BY StepCases, <1>2, <1>3, <1>4, <1>5, <1>6, <1>7, <1>8, <1>9, <1>10, <1>11,
   <1>12, <1>13, <1>14, <1>15

(* wp->count. *)
LEMMA CountStep ==
    ASSUME WorkqueueInv, [Next]_vars
    PROVE  CountState'
<1> DEFINE C == {q \in Queues : Counted(q)}
<1>a. wp_count = Cardinality(C)
  BY DEF WorkqueueInv, CountState
<1>b. IsFiniteSet(C)
  <2>1. IsFiniteSet(Queues)
    BY FS_Interval, WorkqueueAssumption DEF WorkqueueAssumption, Queues
  <2> QED BY <2>1, FS_Subset
<1>c. ASSUME wp_count' = wp_count, \A q \in Queues : Counted(q)' <=> Counted(q) PROVE CountState'
  <2>1. {q \in Queues : Counted(q)'} = C
    BY <1>c
  <2> QED BY <1>a, <1>c, <2>1 DEF CountState
<1>1. ASSUME UNCHANGED <<pool, walk, free_list, mpc, wp_count>> PROVE CountState'
  BY <1>c, <1>1 DEF Counted, WqLocked
<1>2. ASSUME NEW w \in Works, mthpc_schedule_work_on(w) PROVE CountState'
  <2>1. UNCHANGED <<pool, walk, free_list, mpc, wp_count>>
    BY <1>2 DEF mthpc_schedule_work_on, Schedule, queueVars, localVars, exitVars, rcuVars
  <2> QED BY <2>1, <1>1
<1>3. ASSUME NEW p \in Procs,
                  \/ mthpc_rcu_read_lock(p)
                  \/ mthpc_get_workqueue_find(p)
                  \/ mthpc_get_workqueue_lost(p)
                  \/ mthpc_workqueue_add_locked(p)
                  \/ mthpc_works_handler(p)
                  \/ mthpc_wq_futex_wake_store(p)
                  \/ mthpc_wq_futex_wake_broadcast(p)
      PROVE  CountState'
  <2>1. UNCHANGED <<pool, walk, free_list, mpc, wp_count>>
    BY <1>3 DEF mthpc_rcu_read_lock, mthpc_get_workqueue_find,
       mthpc_get_workqueue_lost, mthpc_workqueue_add_locked,
       mthpc_works_handler, mthpc_wq_futex_wake_store, mthpc_wq_futex_wake_broadcast,
       queueVars, localVars, exitVars, rcuVars
  <2> QED BY <2>1, <1>1
<1>4. ASSUME NEW p \in Procs, NEW q \in Queues, Allocates(p, q) PROVE CountState'
  <2>1. UNCHANGED <<pool, walk, free_list, mpc, wp_count>>
    BY <1>4 DEF Allocates, queueVars, localVars, exitVars, rcuVars
  <2> QED BY <2>1, <1>1
<1>5. ASSUME NEW p \in Procs, NEW r \in Queues, UsesOld(p, r) PROVE CountState'
  <2>1. UNCHANGED <<pool, walk, free_list, mpc, wp_count>>
    BY <1>5 DEF UsesOld, queueVars, localVars, exitVars, rcuVars
  <2> QED BY <2>1, <1>1
<1>6. ASSUME NEW q \in Queues,
                  \/ mthpc_rcu_thread_init(q)
                  \/ mthpc_wq_active(q)
                  \/ mthpc_worker_run_take(q)
                  \/ mthpc_wq_futex_wait(q)
                  \/ func_return(q)
                  \/ func_reschedule(q)
      PROVE  CountState'
  <2>1. UNCHANGED <<pool, walk, free_list, mpc, wp_count>>
    BY <1>6 DEF mthpc_rcu_thread_init, mthpc_wq_active, mthpc_worker_run_take, mthpc_wq_futex_wait, func_return,
       func_reschedule, Schedule, queueVars, localVars, exitVars, rcuVars
  <2> QED BY <2>1, <1>1
<1>7. ASSUME Passes PROVE CountState'
  <2>1. UNCHANGED <<pool, walk, free_list, mpc, wp_count>>
    BY <1>7 DEF Passes, queueVars, localVars, exitVars, rcuVars
  <2> QED BY <2>1, <1>1
<1>8. ASSUME NEW p \in Procs, LinksNew(p) PROVE CountState'
  <2>1. {q \in Queues : Counted(q)'} = C \union {wq[p]} /\ wq[p] \notin C
    BY <1>8, PoolGrows
  <2>2. Cardinality(C \union {wq[p]}) = Cardinality(C) + 1
    <3> HIDE DEF C
    <3> QED BY <1>b, <2>1, FS_AddElement
  <2>3. wp_count' = wp_count + 1
    BY <1>8 DEF LinksNew
  <2> QED BY <1>a, <2>1, <2>2, <2>3 DEF CountState
<1>9. CASE mthpc_workpool_exit
  BY <1>c, <1>9 DEF Counted, WqLocked, mthpc_workpool_exit, queueVars, localVars,
     exitVars, rcuVars
<1>10. CASE mthpc_workqueues_join_begin
  BY <1>c, <1>10 DEF Counted, WqLocked, mthpc_workqueues_join_begin, queueVars,
     localVars, exitVars, rcuVars
<1>11. CASE mthpc_workqueues_join_check
  BY <1>c, <1>11, WalkOn DEF mthpc_workqueues_join_check, queueVars
<1>12. CASE Skips
  BY <1>c, <1>12, WalkOn DEF Skips, queueVars
<1>13. ASSUME NEW k \in 1..Len(pool), Unlinks(k) PROVE CountState'
  BY <1>c, <1>13, PoolShrinks DEF Unlinks
<1>14. CASE mthpc_wq_clear_active
  BY <1>c, <1>14, FreeListGrows DEF mthpc_wq_clear_active
<1>15. CASE mthpc_workqueues_join_free
  <2>1. CASE free_list = <<>>
    BY <1>c, <2>1, <1>15 DEF Counted, WqLocked, mthpc_workqueues_join_free
  <2>2. CASE free_list # <<>>
    <3>1. {q \in Queues : Counted(q)'} = C \ {Head(free_list)} /\ Head(free_list) \in C
      BY <2>2, <1>15, FreeListShrinks
    <3>2. Cardinality(C \ {Head(free_list)}) = Cardinality(C) - 1
      <4> HIDE DEF C
      <4> QED BY <1>b, <3>1, FS_RemoveElement
    <3>3. wp_count' = wp_count - 1
      BY <2>2, <1>15 DEF mthpc_workqueues_join_free
    <3> QED BY <1>a, <3>1, <3>2, <3>3 DEF CountState
  <2> QED BY <2>1, <2>2
<1> QED BY StepCases, <1>2, <1>3, <1>4, <1>5, <1>6, <1>7, <1>8, <1>9, <1>10, <1>11,
   <1>12, <1>13, <1>14, <1>15

(* The chain of next pointers. *)
LEMMA ChainStep ==
    ASSUME WorkqueueInv, [Next]_vars
    PROVE  ChainState'
<1>a. /\ ChainState /\ ListState /\ pool \in Seq(Queues) /\ Len(pool) \in Nat
      /\ next \in [Queues \union {HEAD} -> Queues \union {HEAD, FREE}]
      /\ \A i \in 1..Len(pool) : pool[i] \in Queues
  BY LenProperties DEF WorkqueueInv, TypeOK, ListTypeOK
<1>b. /\ \A i, j \in 1..Len(pool) : pool[i] = pool[j] => i = j
      /\ \A x : x \in ToSet(pool) <=> \E i \in 1..Len(pool) : pool[i] = x
  BY <1>a, InList, Injective DEF ListState
<1>c. \A i, j \in 1..(Len(pool) + 1) : Before(i) = Before(j) => i = j
  <2> TAKE i, j \in 1..(Len(pool) + 1)
  <2> HAVE Before(i) = Before(j)
  <2>1. CASE i = 1 \/ j = 1
    BY <1>a, <2>1, Names DEF Before, HEAD
  <2>2. CASE i # 1 /\ j # 1
    <3>1. i - 1 = j - 1
      BY <1>a, <1>b, <2>2 DEF Before
    <3> QED BY <3>1
  <2> QED BY <2>1, <2>2
<1>d. \A i \in 1..(Len(pool) + 1) : Before(i) \in ToSet(pool) \union {HEAD}
  <2> TAKE i \in 1..(Len(pool) + 1)
  <2>1. i = 1 \/ i - 1 \in 1..Len(pool)
    BY <1>a
  <2> QED BY <1>b, <2>1 DEF Before
<1>e. ToSet(pool) \subseteq Queues /\ HEAD \notin Queues
  BY <1>a, InList, Names DEF HEAD
<1>f. /\ \A i \in 1..Len(pool) : next[Before(i)] = pool[i]
      /\ next[Before(Len(pool) + 1)] = HEAD
  BY <1>a DEF ChainState
<1>1. ASSUME UNCHANGED <<pool, walk, next, mpc>> PROVE ChainState'
  BY <1>a, <1>1 DEF ChainState, Before
<1>2. ASSUME NEW w \in Works, mthpc_schedule_work_on(w) PROVE ChainState'
  <2>1. UNCHANGED <<pool, walk, next, mpc>>
    BY <1>2 DEF mthpc_schedule_work_on, Schedule, queueVars, localVars, exitVars, rcuVars
  <2> QED BY <2>1, <1>1
<1>3. ASSUME NEW p \in Procs,
                  \/ mthpc_rcu_read_lock(p)
                  \/ mthpc_get_workqueue_find(p)
                  \/ mthpc_get_workqueue_lost(p)
                  \/ mthpc_workqueue_add_locked(p)
                  \/ mthpc_works_handler(p)
                  \/ mthpc_wq_futex_wake_store(p)
                  \/ mthpc_wq_futex_wake_broadcast(p)
      PROVE  ChainState'
  <2>1. UNCHANGED <<pool, walk, next, mpc>>
    BY <1>3 DEF mthpc_rcu_read_lock, mthpc_get_workqueue_find,
       mthpc_get_workqueue_lost, mthpc_workqueue_add_locked,
       mthpc_works_handler, mthpc_wq_futex_wake_store, mthpc_wq_futex_wake_broadcast,
       queueVars, localVars, exitVars, rcuVars
  <2> QED BY <2>1, <1>1
<1>4. ASSUME NEW p \in Procs, NEW q \in Queues, Allocates(p, q) PROVE ChainState'
  <2>1. UNCHANGED <<pool, walk, next, mpc>>
    BY <1>4 DEF Allocates, queueVars, localVars, exitVars, rcuVars
  <2> QED BY <2>1, <1>1
<1>5. ASSUME NEW p \in Procs, NEW r \in Queues, UsesOld(p, r) PROVE ChainState'
  <2>1. UNCHANGED <<pool, walk, next, mpc>>
    BY <1>5 DEF UsesOld, queueVars, localVars, exitVars, rcuVars
  <2> QED BY <2>1, <1>1
<1>6. ASSUME NEW q \in Queues,
                  \/ mthpc_rcu_thread_init(q)
                  \/ mthpc_wq_active(q)
                  \/ mthpc_worker_run_take(q)
                  \/ mthpc_wq_futex_wait(q)
                  \/ func_return(q)
                  \/ func_reschedule(q)
      PROVE  ChainState'
  <2>1. UNCHANGED <<pool, walk, next, mpc>>
    BY <1>6 DEF mthpc_rcu_thread_init, mthpc_wq_active, mthpc_worker_run_take, mthpc_wq_futex_wait, func_return,
       func_reschedule, Schedule, queueVars, localVars, exitVars, rcuVars
  <2> QED BY <2>1, <1>1
<1>7. ASSUME Passes PROVE ChainState'
  <2>1. UNCHANGED <<pool, walk, next, mpc>>
    BY <1>7 DEF Passes, queueVars, localVars, exitVars, rcuVars
  <2> QED BY <2>1, <1>1
<1>8. ASSUME NEW p \in Procs, LinksNew(p) PROVE ChainState'
  <2>0. PICK n \in Nat : n = Len(pool)
    BY <1>a
  <2> DEFINE q == wq[p]
  <2>1. /\ q \in Queues /\ q \notin ToSet(pool) /\ mpc' # "gp"
        /\ next' = [next EXCEPT ![q] = HEAD, ![Before(n + 1)] = q] /\ pool' = Append(pool, q)
    BY <2>0, <1>8, PoolGrows DEF LinksNew, mthpc_list_add_tail_rcu
  <2>2. Len(pool') = n + 1 /\ pool'[n + 1] = q /\ \A i \in 1..n : pool'[i] = pool[i]
    BY <2>0, <1>a, <2>1, AppendProperties
  <2>3. n + 1 \in 1..(n + 1) /\ 1..n \subseteq 1..(n + 1)
    BY <1>a, <2>0
  <2>4. \A i \in 1..(n + 1) : Before(i)' = Before(i)
    <3> TAKE i \in 1..(n + 1)
    <3>1. CASE i = 1
      BY <2>0, <3>1 DEF Before
    <3>2. CASE i # 1
      <4>1. i - 1 \in 1..n
        BY <2>0, <1>a, <3>2
      <4> QED BY <2>0, <2>2, <3>2, <4>1 DEF Before
    <3> QED BY <2>0, <3>1, <3>2
  <2>5. Before(n + 2)' = q
    <3>1. n + 2 # 1 /\ (n + 2) - 1 = n + 1
      BY <1>a, <2>0
    <3> QED BY <2>0, <2>2, <3>1 DEF Before
  <2>6. /\ next'[q] = HEAD /\ next'[Before(n + 1)] = q
        /\ \A x \in Queues \union {HEAD} : x # q /\ x # Before(n + 1) => next'[x] = next[x]
    <3>1. Before(n + 1) \in Queues \union {HEAD} /\ Before(n + 1) # q
      BY <2>0, <1>d, <1>e, <2>1, <2>3
    <3> HIDE DEF q
    <3> QED BY <2>0, <1>a, <2>1, <3>1
  <2> HIDE DEF q
  <2>7. \A i \in 1..n : next'[Before(i)] = next[Before(i)]
    <3> TAKE i \in 1..n
    <3>1. i \in 1..(n + 1) /\ i # n + 1
      BY <1>a, <2>0
    <3>2. Before(i) # Before(n + 1) /\ Before(i) # q /\ Before(i) \in Queues \union {HEAD}
      BY <2>0, <1>c, <1>d, <1>e, <2>1, <2>3, <3>1
    <3> QED BY <2>0, <2>6, <3>2
  <2>8. \A i \in 1..(n + 1) : next'[Before(i)'] = pool'[i]
    <3> TAKE i \in 1..(n + 1)
    <3>1. CASE i = n + 1
      BY <2>0, <2>2, <2>4, <2>6, <3>1
    <3>2. CASE i # n + 1
      <4>1. i \in 1..n
        BY <2>0, <1>a, <3>2
      <4> QED BY <2>0, <1>f, <2>2, <2>4, <2>7, <4>1
    <3> QED BY <2>0, <3>1, <3>2
  <2>9. next'[Before(n + 2)'] = HEAD /\ Len(pool') + 1 = n + 2
    BY <2>0, <1>a, <2>2, <2>5, <2>6
  <2> QED BY <2>0, <2>1, <2>2, <2>8, <2>9 DEF ChainState
<1>9. CASE mthpc_workpool_exit
  BY <1>a, <1>9 DEF ChainState, Before, mthpc_workpool_exit, queueVars, localVars,
     exitVars, rcuVars
<1>10. CASE mthpc_workqueues_join_begin
  BY <1>a, <1>10 DEF ChainState, Before, mthpc_workqueues_join_begin, queueVars,
     localVars, exitVars, rcuVars
<1>11. CASE mthpc_workqueues_join_check
  BY <1>a, <1>11 DEF ChainState, Before, mthpc_workqueues_join_check, queueVars,
     localVars, exitVars, rcuVars
<1>12. CASE Skips
  BY <1>a, <1>12 DEF ChainState, Before, Skips, queueVars, localVars, exitVars, rcuVars
<1>13. ASSUME NEW k \in 1..Len(pool), Unlinks(k) PROVE ChainState'
  <2>0. PICK n \in Nat : n = Len(pool)
    BY <1>a
  <2>1. /\ pool[k] = Head(walk) /\ pool' = RemoveAt(pool, k) /\ walk' = walk
        /\ next' = [next EXCEPT ![Before(k)] = next[pool[k]]]
    BY <2>0, <1>13 DEF Unlinks, mthpc_list_del_rcu
  <2>2. /\ Len(pool') = n - 1
        /\ \A i \in 1..(n - 1) : pool'[i] = IF i < k THEN pool[i] ELSE pool[i + 1]
    BY <2>0, <1>a, <2>1, Removed
  <2>3. k \in 1..n /\ k \in Int /\ k \in 1..(n + 1) /\ k + 1 \in 1..(n + 1) /\ k # k + 1
    BY <1>a, <2>0
  <2>4. Before(k + 1) = pool[k]
    BY <2>0, <2>3 DEF Before
  <2>5. \A i \in 1..n : Before(i)' = IF i <= k THEN Before(i) ELSE Before(i + 1)
    <3> TAKE i \in 1..n
    <3>1. CASE i = 1
      BY <2>0, <2>3, <3>1 DEF Before
    <3>2. CASE i # 1
      <4>1. i - 1 \in 1..(n - 1) /\ (i - 1) + 1 = i /\ (i + 1) - 1 = i /\ i + 1 # 1
        BY <2>0, <1>a, <3>2
      <4>2. i - 1 < k <=> i <= k
        BY <2>0, <2>3
      <4>3. pool'[i - 1] = IF i <= k THEN pool[i - 1] ELSE pool[i]
        BY <2>0, <2>2, <4>1, <4>2
      <4> QED BY <2>0, <3>2, <4>1, <4>3 DEF Before
    <3> QED BY <2>0, <3>1, <3>2
  <2>6. /\ next'[Before(k)] = next[Before(k + 1)]
        /\ \A j \in 1..(n + 1) : j # k => next'[Before(j)] = next[Before(j)]
    <3>1. \A j \in 1..(n + 1) : Before(j) \in Queues \union {HEAD}
      BY <2>0, <1>d, <1>e
    <3>2. \A j \in 1..(n + 1) : j # k => Before(j) # Before(k)
      BY <2>0, <1>c, <2>3
    <3> QED BY <2>0, <1>a, <2>1, <2>3, <2>4, <3>1, <3>2
  <2>7. \A i \in 1..n : next'[Before(i)'] = IF i < k THEN pool[i] ELSE next[Before(i + 1)]
    <3> TAKE i \in 1..n
    <3>1. i \in 1..(n + 1) /\ i + 1 \in 1..(n + 1)
      BY <1>a, <2>0
    <3>2. CASE i < k
      <4>1. i <= k /\ i # k
        BY <2>0, <2>3, <3>2
      <4>2. Before(i)' = Before(i)
        BY <2>0, <2>5, <4>1
      <4> QED BY <2>0, <1>f, <2>6, <3>1, <3>2, <4>1, <4>2
    <3>3. CASE i = k
      <4>1. i <= k /\ ~(i < k)
        BY <2>0, <2>3, <3>3
      <4>2. Before(i)' = Before(k)
        BY <2>0, <2>5, <3>3, <4>1
      <4> QED BY <2>0, <2>6, <3>3, <4>1, <4>2
    <3>4. CASE i > k
      <4>1. ~(i <= k) /\ ~(i < k) /\ i + 1 # k
        BY <2>0, <2>3, <3>4
      <4>2. Before(i)' = Before(i + 1)
        BY <2>0, <2>5, <4>1
      <4> QED BY <2>0, <2>6, <3>1, <4>1, <4>2
    <3> QED BY <2>0, <2>3, <3>2, <3>3, <3>4
  <2>8. \A i \in 1..(n - 1) : next'[Before(i)'] = pool'[i]
    <3> TAKE i \in 1..(n - 1)
    <3>1. i \in 1..n /\ i + 1 \in 1..n
      BY <1>a, <2>0
    <3> QED BY <2>0, <1>f, <2>2, <2>7, <3>1
  <2>9. next'[Before(n)'] = HEAD
    <3>1. n \in 1..n /\ ~(n < k)
      BY <2>0, <1>a, <2>3
    <3> QED BY <2>0, <1>f, <2>7, <3>1
  <2>10. next'[Head(walk)] \in ToSet(pool') \union {HEAD}
    <3>1. next'[Head(walk)] = next[Before(k + 1)]
      BY <2>0, <2>1, <2>3, <2>4, <2>6
    <3>2. CASE k = n
      BY <2>0, <1>f, <3>1, <3>2
    <3>3. CASE k # n
      <4>1. k + 1 \in 1..n
        BY <2>0, <1>a, <2>3, <3>3
      <4>2. next[Before(k + 1)] = pool[k + 1] /\ pool[k + 1] # pool[k]
        BY <2>0, <1>b, <1>f, <2>3, <4>1
      <4>3. pool[k + 1] \in ToSet(pool') /\ ToSet(pool') = ToSet(pool) \ {Head(walk)}
        BY <2>0, <1>b, <2>1, <4>1, <4>2, <1>13, PoolShrinks
      <4> QED BY <2>0, <3>1, <4>2, <4>3
    <3> QED BY <2>0, <3>2, <3>3
  <2>11. Len(pool') + 1 = n
    BY <2>0, <1>a, <2>2
  <2> QED BY <2>0, <2>1, <2>2, <2>8, <2>9, <2>10, <2>11 DEF ChainState
<1>14. CASE mthpc_wq_clear_active
  <2>1. /\ mpc' # "gp" /\ pool' = pool /\ Head(walk) \in Queues /\ Head(walk) \notin ToSet(pool)
        /\ \A x \in Queues \union {HEAD} : x # Head(walk) => next'[x] = next[x]
    BY <1>a, <1>14, FreeListGrows DEF mthpc_wq_clear_active
  <2>2. \A i \in 1..(Len(pool) + 1) : Before(i)' = Before(i)
    BY <2>1 DEF Before
  <2>3. \A i \in 1..(Len(pool) + 1) : next'[Before(i)] = next[Before(i)]
    BY <1>d, <1>e, <2>1
  <2>4. 1..Len(pool) \subseteq 1..(Len(pool) + 1) /\ Len(pool) + 1 \in 1..(Len(pool) + 1)
    BY <1>a
  <2> QED BY <1>f, <2>1, <2>2, <2>3, <2>4 DEF ChainState
<1>15. CASE mthpc_workqueues_join_free
  BY <1>a, <1>15 DEF ChainState, Before, mthpc_workqueues_join_free, queueVars,
     localVars, exitVars, rcuVars
<1> QED BY StepCases, <1>2, <1>3, <1>4, <1>5, <1>6, <1>7, <1>8, <1>9, <1>10, <1>11,
   <1>12, <1>13, <1>14, <1>15

(* Readers. *)
LEMMA ReaderStep ==
    ASSUME WorkqueueInv, [Next]_vars
    PROVE  ReaderState'
<1> USE DEF ReaderState, HEAD
<1>a. ReaderState /\ ThreadTypeOK
  BY DEF WorkqueueInv, TypeOK
<1>b. pc = [p \in Procs |-> pc[p]] /\ wq \in [Procs -> Queues \union {0}]
  BY <1>a DEF ThreadTypeOK
<1>1. ASSUME NEW p \in Procs, NEW c, pc' = [pc EXCEPT ![p] = c],
             pc[p] \notin {"find", "add", "lost"}, c \notin {"find", "add", "lost"},
             \A r \in Procs : r # p => wq'[r] = wq[r],
             c = "lock" => wq'[p] = HEAD, UNCHANGED <<readers, waitfor>>
      PROVE  ReaderState'
  BY <1>a, <1>b, <1>1
<1>2. ASSUME waitfor' \in {waitfor, readers, {}}, UNCHANGED <<readers, pc, wq>> PROVE ReaderState'
  BY <1>a, <1>2
<1>3. CASE \/ Passes \/ mthpc_workpool_exit \/ mthpc_workqueues_join_begin
           \/ mthpc_workqueues_join_check \/ Skips \/ (\E k \in 1..Len(pool) : Unlinks(k))
           \/ mthpc_wq_clear_active \/ mthpc_workqueues_join_free
  BY <1>2, <1>3 DEF Passes, mthpc_workpool_exit, mthpc_workqueues_join_begin,
     mthpc_workqueues_join_check, Skips, Unlinks, mthpc_wq_clear_active,
     mthpc_workqueues_join_free, synchronize_begin, synchronize_end, localVars, rcuVars
<1>4. ASSUME NEW p \in Procs, NEW w \in Works, Schedule(p, w),
             pc[p] \in {"ready", "func"}
      PROVE  ReaderState'
  <2>1. /\ pc' = [pc EXCEPT ![p] = "lock"] /\ wq' = [wq EXCEPT ![p] = HEAD]
        /\ UNCHANGED <<readers, waitfor>>
    BY <1>4 DEF Schedule, rcuVars
  <2>2. wq'[p] = HEAD /\ \A r \in Procs : r # p => wq'[r] = wq[r]
    BY <1>b, <2>1
  <2> QED BY <1>1, <1>4, <2>1, <2>2
<1>5. ASSUME NEW w \in Works, mthpc_schedule_work_on(w) PROVE ReaderState'
  BY <1>4, <1>5, Names DEF mthpc_schedule_work_on
<1>6. ASSUME NEW q \in Queues, func_reschedule(q) PROVE ReaderState'
  <2>1. pc[q] = "func" /\ q \in Procs
    BY <1>6, Names DEF func_reschedule
  <2>2. work[q] \in Works
    BY <2>1 DEF WorkqueueInv, CarryState
  <2> QED BY <1>4, <1>6, <2>1, <2>2 DEF func_reschedule
<1>7. ASSUME NEW p \in Procs, mthpc_rcu_read_lock(p) PROVE ReaderState'
  BY <1>a, <1>b, <1>7 DEF mthpc_rcu_read_lock
<1>8. ASSUME NEW p \in Procs, mthpc_get_workqueue_find(p) PROVE ReaderState'
  <2>1. pc[p] = "find" /\ wq' = [wq EXCEPT ![p] = next[wq[p]]] /\ next[wq[p]] # FREE
    BY <1>8 DEF mthpc_get_workqueue_find, Gone
  <2>2. next[wq[p]] \in Queues \union {HEAD}
    <3>1. next \in [Queues \union {HEAD} -> Queues \union {HEAD, FREE}]
      BY DEF WorkqueueInv, TypeOK, ListTypeOK
    <3> QED BY <1>b, <2>1, <3>1
  <2>3. CASE next[wq[p]] = HEAD
    <3>1. /\ pc' = [pc EXCEPT ![p] = "alloc"]
          /\ readers' = readers \ {p} /\ waitfor' = waitfor \ {p}
      BY <2>3, <1>8 DEF mthpc_get_workqueue_find, mthpc_rcu_read_unlock
    <3> QED BY <1>a, <1>b, <2>1, <3>1
  <2>4. CASE next[wq[p]] # HEAD
    <3>1. /\ pc' \in {[pc EXCEPT ![p] = "add"], [pc EXCEPT ![p] = "find"]}
          /\ UNCHANGED <<readers, waitfor>>
      BY <2>4, <1>8 DEF mthpc_get_workqueue_find, rcuVars
    <3> QED BY <1>a, <1>b, <2>1, <2>2, <2>4, <3>1
  <2> QED BY <2>3, <2>4
<1>9. ASSUME NEW p \in Procs, mthpc_workqueue_add_locked(p) PROVE ReaderState'
  BY <1>a, <1>b, <1>9 DEF mthpc_workqueue_add_locked, mthpc_rcu_read_unlock
<1>10. ASSUME NEW p \in Procs, mthpc_get_workqueue_lost(p) PROVE ReaderState'
  BY <1>a, <1>b, <1>10 DEF mthpc_get_workqueue_lost, rcuVars
<1>11. ASSUME NEW p \in Procs, NEW q \in Queues, Allocates(p, q) PROVE ReaderState'
  BY <1>1, <1>b, <1>11 DEF Allocates, rcuVars
<1>12. ASSUME NEW p \in Procs, LinksNew(p) PROVE ReaderState'
  BY <1>1, <1>12 DEF LinksNew, rcuVars
<1>13. ASSUME NEW p \in Procs, NEW r \in Queues, UsesOld(p, r) PROVE ReaderState'
  BY <1>1, <1>b, <1>13 DEF UsesOld, rcuVars
<1>14. ASSUME NEW p \in Procs, mthpc_works_handler(p) PROVE ReaderState'
  <2>1. pc[p] = "create" /\ wq[p] \in Queues /\ pc[wq[p]] = "unborn"
    BY <1>14 DEF mthpc_works_handler, WorkqueueInv, OwnerState, OwnerOK
  <2>2. /\ pc' = [pc EXCEPT ![p] = "wake", ![wq[p]] = "init"]
        /\ UNCHANGED <<wq, readers, waitfor>>
    BY <1>14 DEF mthpc_works_handler, rcuVars
  <2> QED BY <1>a, <1>b, <2>1, <2>2, Names
<1>15. ASSUME NEW p \in Procs, mthpc_wq_futex_wake_store(p) PROVE ReaderState'
  BY <1>1, <1>15 DEF mthpc_wq_futex_wake_store, rcuVars
<1>16. ASSUME NEW p \in Procs, mthpc_wq_futex_wake_broadcast(p) PROVE ReaderState'
  BY <1>a, <1>b, <1>16 DEF mthpc_wq_futex_wake_broadcast, rcuVars
<1>17. ASSUME NEW q \in Queues,
              \/ mthpc_rcu_thread_init(q) \/ mthpc_wq_active(q) \/ mthpc_worker_run_take(q)
              \/ mthpc_wq_futex_wait(q) \/ func_return(q)
       PROVE  ReaderState'
  <2>1. \E c \in {"top", "take", "dead", "wait", "func", "asleep"} : pc' = [pc EXCEPT ![q] = c]
    BY <1>17 DEF mthpc_rcu_thread_init, mthpc_wq_active, mthpc_worker_run_take,
       mthpc_wq_futex_wait, func_return
  <2>2. pc[q] \notin {"find", "add", "lost"} /\ UNCHANGED <<wq, readers, waitfor>>
    BY <1>17 DEF mthpc_rcu_thread_init, mthpc_wq_active, mthpc_worker_run_take,
       mthpc_wq_futex_wait, func_return, rcuVars
  <2> QED BY <1>1, <2>1, <2>2, Names
<1> QED BY StepCases, <1>3, <1>5, <1>6, <1>7, <1>8, <1>9, <1>10, <1>11, <1>12, <1>13, <1>14,
   <1>15, <1>16, <1>17

(* A reader stays where it can go on, unless it was passed.  The queue that *)
(* was unlinked is let go when the readers that were inside have left, but  *)
(* for those whose phase was out of date.                                   *)
LEMMA PlaceStep ==
    ASSUME WorkqueueInv, [Next]_vars, ~missed'
    PROVE  PlaceState'
<1> USE DEF HEAD
<1>m. ~missed
  BY MissedStays
<1>a. ReaderState /\ PlaceState /\ ThreadTypeOK
  BY <1>m DEF WorkqueueInv, TypeOK
<1>b. \A q \in Queues : WqLocked(q) => q \notin ToSet(pool)
  BY DEF WqLocked, WorkqueueInv, ListState
<1>c. \A p \in Procs : pc[p] = "add" => wq[p] \in Queues
  BY AtQueue
<1> USE DEF ReaderState, PlaceState, ThreadTypeOK
<1>1. ASSUME UNCHANGED <<readers, waitfor, pc, wq, pool, walk, mpc>> PROVE PlaceState'
  BY <1>a, <1>1 DEF WqLocked
<1>2. ASSUME Passes PROVE PlaceState'
  <2>1. UNCHANGED <<readers, waitfor, pc, wq, pool, walk, mpc>>
    BY <1>2 DEF Passes, queueVars, localVars, exitVars, rcuVars
  <2> QED BY <2>1, <1>1
<1>3. ASSUME NEW w \in Works, mthpc_schedule_work_on(w) PROVE PlaceState'
  BY <1>a, <1>b, <1>c, Names, <1>3 DEF WqLocked, mthpc_schedule_work_on, Schedule,
     queueVars, localVars, exitVars, rcuVars
<1>4. ASSUME NEW p \in Procs, mthpc_get_workqueue_find(p) PROVE PlaceState'
  <2>1. pc[p] = "find" /\ UNCHANGED <<pool, walk, mpc>>
    BY <1>4 DEF mthpc_get_workqueue_find, queueVars, exitVars
  <2>2. CASE next[wq[p]] = HEAD
    <3>1. /\ pc' = [pc EXCEPT ![p] = "alloc"] /\ wq' = [wq EXCEPT ![p] = HEAD]
          /\ readers' = readers \ {p} /\ waitfor' = waitfor \ {p}
      BY <2>2, <1>4 DEF mthpc_get_workqueue_find, mthpc_rcu_read_unlock
    <3> QED BY <1>a, <2>1, <3>1 DEF WqLocked
  <2>3. CASE next[wq[p]] # HEAD
    <3>1. next[wq[p]] \in ToSet(pool)
      BY <1>m, <2>1, <2>3, NextInPool
    <3>2. /\ pc' \in {[pc EXCEPT ![p] = "add"], [pc EXCEPT ![p] = "find"]}
          /\ wq' = [wq EXCEPT ![p] = next[wq[p]]] /\ UNCHANGED <<readers, waitfor>>
      BY <2>3, <1>4 DEF mthpc_get_workqueue_find, rcuVars
    <3> QED BY <1>a, <2>1, <3>1, <3>2 DEF WqLocked
  <2> QED BY <2>2, <2>3
<1>5. ASSUME NEW p \in Procs, mthpc_workqueue_add_locked(p) PROVE PlaceState'
  BY <1>a, <1>b, <1>c, Names, <1>5 DEF WqLocked, mthpc_workqueue_add_locked,
     mthpc_rcu_read_unlock, queueVars, localVars, exitVars, rcuVars
<1>6. ASSUME NEW p \in Procs, NEW q \in Queues, Allocates(p, q) PROVE PlaceState'
  BY <1>a, <1>b, <1>c, Names, <1>6 DEF WqLocked, Allocates, queueVars, localVars,
     exitVars, rcuVars
<1>7. ASSUME NEW p \in Procs, LinksNew(p) PROVE PlaceState'
  <2>1. /\ pc[p] = "link" /\ pc' = [pc EXCEPT ![p] = "create"]
        /\ UNCHANGED <<wq, readers, waitfor, walk, mpc>>
    BY <1>7 DEF LinksNew, exitVars, rcuVars
  <2> QED BY <1>a, <2>1, <1>7, PoolGrows DEF WqLocked
<1>8. ASSUME NEW p \in Procs, NEW r \in Queues, UsesOld(p, r) PROVE PlaceState'
  BY <1>a, <1>b, <1>c, Names, <1>8 DEF WqLocked, UsesOld, MoveWork, queueVars, localVars,
     exitVars, rcuVars
<1>9. ASSUME NEW p \in Procs, mthpc_works_handler(p) PROVE PlaceState'
  <2>1. pc[p] = "create" /\ wq[p] \in Queues /\ pc[wq[p]] = "unborn"
    BY <1>9 DEF mthpc_works_handler, WorkqueueInv, OwnerState, OwnerOK
  <2>2. /\ pc' = [pc EXCEPT ![p] = "wake", ![wq[p]] = "init"]
        /\ UNCHANGED <<pool, wq, readers, waitfor, walk, mpc>>
    BY <1>9 DEF mthpc_works_handler, queueVars, exitVars, rcuVars
  <2> QED BY <1>a, <2>1, <2>2, Names DEF WqLocked
<1>10. ASSUME NEW p \in Procs, mthpc_wq_futex_wake_store(p) PROVE PlaceState'
  BY <1>a, <1>b, <1>c, Names, <1>10 DEF WqLocked, mthpc_wq_futex_wake_store, NonEmpty,
     queueVars, localVars, exitVars, rcuVars
<1>11. ASSUME NEW p \in Procs, mthpc_wq_futex_wake_broadcast(p) PROVE PlaceState'
  BY <1>a, <1>b, <1>c, Names, <1>11 DEF WqLocked, mthpc_wq_futex_wake_broadcast,
     queueVars, localVars, exitVars, rcuVars
<1>12. ASSUME NEW q \in Queues, mthpc_wq_active(q) PROVE PlaceState'
  BY <1>a, <1>b, <1>c, Names, <1>12 DEF WqLocked, mthpc_wq_active, queueVars, localVars,
     exitVars, rcuVars
<1>13. ASSUME NEW q \in Queues, mthpc_worker_run_take(q) PROVE PlaceState'
  <2>1. /\ pc[q] = "take"
        /\ pc' \in {[pc EXCEPT ![q] = "wait"], [pc EXCEPT ![q] = "func"]}
        /\ UNCHANGED <<pool, wq, readers, waitfor, walk, mpc>>
    BY <1>13 DEF mthpc_worker_run_take, exitVars, rcuVars
  <2> QED BY <1>a, <2>1, Names DEF WqLocked
<1>14. ASSUME NEW q \in Queues, mthpc_wq_futex_wait(q) PROVE PlaceState'
  BY <1>a, <1>b, <1>c, Names, <1>14 DEF WqLocked, mthpc_wq_futex_wait, queueVars,
     localVars, exitVars, rcuVars
<1>15. ASSUME NEW q \in Queues, func_return(q) PROVE PlaceState'
  BY <1>a, <1>b, <1>c, Names, <1>15 DEF WqLocked, func_return, queueVars, localVars,
     exitVars, rcuVars
<1>16. ASSUME NEW q \in Queues, func_reschedule(q) PROVE PlaceState'
  BY <1>a, <1>b, <1>c, Names, <1>16 DEF WqLocked, func_reschedule, Schedule, queueVars,
     localVars, exitVars, rcuVars
<1>17. CASE mthpc_workpool_exit
  BY <1>a, <1>b, <1>c, Names, <1>17 DEF WqLocked, mthpc_workpool_exit, synchronize_begin,
     queueVars, localVars
<1>18. CASE mthpc_workqueues_join_begin
  BY <1>a, <1>b, <1>c, Names, <1>18 DEF WqLocked, mthpc_workqueues_join_begin, synchronize_end,
     queueVars, localVars
<1>19. CASE mthpc_workqueues_join_check
  BY <1>a, <1>b, <1>c, Names, <1>19 DEF WqLocked, mthpc_workqueues_join_check, queueVars,
     localVars, exitVars, rcuVars
<1>20. CASE Skips
  BY <1>a, <1>b, <1>c, Names, <1>20 DEF WqLocked, Skips, queueVars, localVars, exitVars,
     rcuVars
<1>21. ASSUME NEW k \in 1..Len(pool), Unlinks(k) PROVE PlaceState'
  <2>1. /\ mpc' = "gp" /\ waitfor' = readers /\ UNCHANGED <<readers, pc, wq>>
        /\ mpc = "visit"
    BY <1>21 DEF Unlinks, localVars
  <2> QED BY <1>a, <2>1, <1>21, PoolShrinks DEF WqLocked
<1>22. CASE mthpc_wq_clear_active
  <2>1. stale = {} /\ sync = 2
    BY <1>22 DEF mthpc_wq_clear_active, GracePeriodOver
  <2>2. waitfor = {}
    BY <2>1 DEF WorkqueueInv, SyncState
  <2> QED BY <1>a, <2>2, <1>22 DEF WqLocked, mthpc_wq_clear_active, localVars
<1>23. CASE mthpc_workqueues_join_free
  BY <1>a, <1>b, <1>c, Names, <1>23 DEF WqLocked, mthpc_workqueues_join_free, queueVars,
     localVars, exitVars, rcuVars
<1>24. ASSUME NEW p \in Procs, mthpc_rcu_read_lock(p) PROVE PlaceState'
  BY <1>a, <1>24 DEF WqLocked, mthpc_rcu_read_lock, queueVars, exitVars
<1>25. ASSUME NEW p \in Procs, mthpc_get_workqueue_lost(p) PROVE FALSE
  <2>1. pc[p] \in {"find", "add"} /\ Gone(p)
    BY <1>25 DEF mthpc_get_workqueue_lost
  <2>2. \A q \in Queues : Counted(q) => mem[q] = "alloc"
    BY DEF WorkqueueInv, QueueState, QueueOK
  <2>3. pc[p] = "find" => next[wq[p]] # FREE
    BY <1>m, NextInPool, InList, Names DEF WorkqueueInv, TypeOK, ListTypeOK, FREE
  <2>4. wq[p] = HEAD \/ (wq[p] \in Queues /\ Counted(wq[p]))
    BY <1>a, <2>1 DEF Counted
  <2> QED BY <2>1, <2>2, <2>3, <2>4 DEF Gone
<1>26. ASSUME NEW q \in Queues, mthpc_rcu_thread_init(q) PROVE PlaceState'
  BY <1>a, <1>26, Names DEF WqLocked, mthpc_rcu_thread_init, queueVars, exitVars, rcuVars
<1> QED BY StepCases, <1>2, <1>3, <1>4, <1>5, <1>6, <1>7, <1>8, <1>9, <1>10, <1>11,
   <1>12, <1>13, <1>14, <1>15, <1>16, <1>17, <1>18, <1>19, <1>20, <1>21, <1>22, <1>23,
   <1>24, <1>25, <1>26

(* Clients. *)
LEMMA ClientStep ==
    ASSUME WorkqueueInv, [Next]_vars
    PROVE  ClientState'
<1>a. ClientState /\ pc = [p \in Procs |-> pc[p]]
  BY DEF WorkqueueInv, TypeOK, ThreadTypeOK
<1>b. \A p \in Procs : pc[p] = "create" => wq[p] \in Queues
  BY DEF WorkqueueInv, OwnerState, OwnerOK
<1> USE DEF ClientState
<1>1. ASSUME UNCHANGED <<pc, mpc>> PROVE ClientState'
  BY <1>a, <1>1
<1>2. ASSUME Passes PROVE ClientState'
  <2>1. UNCHANGED <<pc, mpc>>
    BY <1>2 DEF Passes, queueVars, localVars, exitVars, rcuVars
  <2> QED BY <2>1, <1>1
<1>3. ASSUME NEW w \in Works, mthpc_schedule_work_on(w) PROVE ClientState'
  BY <1>a, <1>b, Names, <1>3 DEF mthpc_schedule_work_on, Schedule, queueVars, localVars,
     exitVars, rcuVars
<1>4. ASSUME NEW p \in Procs, mthpc_get_workqueue_find(p) PROVE ClientState'
  BY <1>a, <1>b, Names, <1>4 DEF mthpc_get_workqueue_find, mthpc_rcu_read_unlock,
     queueVars, localVars, exitVars, rcuVars
<1>5. ASSUME NEW p \in Procs, mthpc_workqueue_add_locked(p) PROVE ClientState'
  BY <1>a, <1>b, Names, <1>5 DEF mthpc_workqueue_add_locked, mthpc_rcu_read_unlock,
     queueVars, localVars, exitVars, rcuVars
<1>6. ASSUME NEW p \in Procs, NEW q \in Queues, Allocates(p, q) PROVE ClientState'
  BY <1>a, <1>b, Names, <1>6 DEF Allocates, queueVars, localVars, exitVars, rcuVars
<1>7. ASSUME NEW p \in Procs, LinksNew(p) PROVE ClientState'
  BY <1>a, <1>b, Names, <1>7 DEF LinksNew, mthpc_list_add_tail_rcu, OneMore, queueVars,
     localVars, exitVars, rcuVars
<1>8. ASSUME NEW p \in Procs, NEW r \in Queues, UsesOld(p, r) PROVE ClientState'
  BY <1>a, <1>b, Names, <1>8 DEF UsesOld, MoveWork, queueVars, localVars, exitVars,
     rcuVars
<1>9. ASSUME NEW p \in Procs, mthpc_works_handler(p) PROVE ClientState'
  BY <1>a, <1>b, Names, <1>9 DEF mthpc_works_handler, queueVars, localVars, exitVars,
     rcuVars
<1>10. ASSUME NEW p \in Procs, mthpc_wq_futex_wake_store(p) PROVE ClientState'
  BY <1>a, <1>b, Names, <1>10 DEF mthpc_wq_futex_wake_store, NonEmpty, queueVars,
     localVars, exitVars, rcuVars
<1>11. ASSUME NEW p \in Procs, mthpc_wq_futex_wake_broadcast(p) PROVE ClientState'
  BY <1>a, <1>b, Names, <1>11 DEF mthpc_wq_futex_wake_broadcast, queueVars, localVars,
     exitVars, rcuVars
<1>12. ASSUME NEW q \in Queues, mthpc_wq_active(q) PROVE ClientState'
  BY <1>a, <1>b, Names, <1>12 DEF mthpc_wq_active, queueVars, localVars, exitVars, rcuVars
<1>13. ASSUME NEW q \in Queues, mthpc_worker_run_take(q) PROVE ClientState'
  <2>1. /\ pc' = [pc EXCEPT ![q] = "wait"] \/ pc' = [pc EXCEPT ![q] = "func"]
        /\ mpc' = mpc
    BY <1>13 DEF mthpc_worker_run_take, exitVars
  <2> QED BY <1>a, <2>1, Names
<1>14. ASSUME NEW q \in Queues, mthpc_wq_futex_wait(q) PROVE ClientState'
  BY <1>a, <1>b, Names, <1>14 DEF mthpc_wq_futex_wait, queueVars, localVars, exitVars,
     rcuVars
<1>15. ASSUME NEW q \in Queues, func_return(q) PROVE ClientState'
  BY <1>a, <1>b, Names, <1>15 DEF func_return, queueVars, localVars, exitVars, rcuVars
<1>16. ASSUME NEW q \in Queues, func_reschedule(q) PROVE ClientState'
  BY <1>a, <1>b, Names, <1>16 DEF func_reschedule, Schedule, queueVars, localVars,
     exitVars, rcuVars
<1>17. CASE mthpc_workpool_exit
  BY <1>a, <1>b, Names, <1>17 DEF mthpc_workpool_exit, queueVars, localVars, exitVars,
     rcuVars
<1>18. CASE mthpc_workqueues_join_begin
  BY <1>a, <1>b, Names, <1>18 DEF mthpc_workqueues_join_begin, queueVars, localVars,
     exitVars, rcuVars
<1>19. CASE mthpc_workqueues_join_check
  BY <1>a, <1>b, Names, <1>19 DEF mthpc_workqueues_join_check, queueVars, localVars,
     exitVars, rcuVars
<1>20. CASE Skips
  BY <1>a, <1>b, Names, <1>20 DEF Skips, queueVars, localVars, exitVars, rcuVars
<1>21. ASSUME NEW k \in 1..Len(pool), Unlinks(k) PROVE ClientState'
  BY <1>a, <1>b, Names, <1>21 DEF Unlinks, mthpc_list_del_rcu, queueVars, localVars,
     exitVars, rcuVars
<1>22. CASE mthpc_wq_clear_active
  BY <1>a, <1>b, Names, <1>22 DEF mthpc_wq_clear_active, GracePeriodOver, queueVars,
     localVars, exitVars, rcuVars
<1>23. CASE mthpc_workqueues_join_free
  BY <1>a, <1>b, Names, <1>23 DEF mthpc_workqueues_join_free, queueVars, localVars,
     exitVars, rcuVars
<1>24. ASSUME NEW p \in Procs, mthpc_rcu_read_lock(p) \/ mthpc_get_workqueue_lost(p)
       PROVE  ClientState'
  BY <1>a, <1>24, Names DEF mthpc_rcu_read_lock, mthpc_get_workqueue_lost, exitVars
<1>26. ASSUME NEW q \in Queues, mthpc_rcu_thread_init(q) PROVE ClientState'
  BY <1>a, <1>26, Names DEF mthpc_rcu_thread_init, exitVars
<1> QED BY StepCases, <1>2, <1>3, <1>4, <1>5, <1>6, <1>7, <1>8, <1>9, <1>10, <1>11,
   <1>12, <1>13, <1>14, <1>15, <1>16, <1>17, <1>18, <1>19, <1>20, <1>21, <1>22, <1>23,
   <1>24, <1>26

(* Whoever schedules or runs a work has one. *)
LEMMA CarryStep ==
    ASSUME WorkqueueInv, [Next]_vars
    PROVE  CarryState'
<1> USE DEF CarryState
<1>a. CarryState /\ pc = [p \in Procs |-> pc[p]] /\ work \in [Procs -> Works \union {NULL}]
  BY DEF WorkqueueInv, TypeOK, ThreadTypeOK
<1>1. ASSUME UNCHANGED <<pc, work>> PROVE CarryState'
  BY <1>a, <1>1
<1>2. CASE \/ Passes \/ mthpc_workpool_exit \/ mthpc_workqueues_join_begin
           \/ mthpc_workqueues_join_check \/ Skips \/ (\E k \in 1..Len(pool) : Unlinks(k))
           \/ mthpc_wq_clear_active \/ mthpc_workqueues_join_free
  BY <1>1, <1>2 DEF Passes, mthpc_workpool_exit, mthpc_workqueues_join_begin,
     mthpc_workqueues_join_check, Skips, Unlinks, mthpc_wq_clear_active,
     mthpc_workqueues_join_free, localVars
<1>3. ASSUME NEW w \in Works, mthpc_schedule_work_on(w) PROVE CarryState'
  BY <1>a, <1>3, Names DEF mthpc_schedule_work_on, Schedule
<1>4. ASSUME NEW q \in Queues, func_reschedule(q) PROVE CarryState'
  <2>1. pc[q] = "func" /\ q \in Procs /\ Schedule(q, work[q])
    BY <1>4, Names DEF func_reschedule
  <2> QED BY <1>a, <2>1 DEF Schedule
<1>5. ASSUME NEW p \in Procs,
             \/ mthpc_rcu_read_lock(p) \/ mthpc_get_workqueue_lost(p)
             \/ mthpc_get_workqueue_find(p) \/ mthpc_workqueue_add_locked(p)
             \/ (\E q \in Queues : Allocates(p, q)) \/ LinksNew(p)
             \/ (\E r \in Queues : UsesOld(p, r)) \/ mthpc_wq_futex_wake_store(p)
      PROVE  CarryState'
  <2>1. work' = work
    BY <1>5 DEF mthpc_rcu_read_lock, mthpc_get_workqueue_lost, mthpc_get_workqueue_find,
       mthpc_workqueue_add_locked, Allocates, LinksNew, UsesOld, mthpc_wq_futex_wake_store
  <2>2. \/ \E c \in {"find", "add", "lost", "alloc", "link"} :
              pc' = [pc EXCEPT ![p] = c] /\ pc[p] \in {"lock", "find", "add", "alloc"}
        \/ \E c \in {"wake", "create", "broadcast"} : pc' = [pc EXCEPT ![p] = c]
    BY <1>5 DEF mthpc_rcu_read_lock, mthpc_get_workqueue_lost, mthpc_get_workqueue_find,
       mthpc_workqueue_add_locked, Allocates, LinksNew, UsesOld, mthpc_wq_futex_wake_store
  <2> QED BY <1>a, <2>1, <2>2
<1>6. ASSUME NEW p \in Procs, mthpc_works_handler(p) PROVE CarryState'
  <2>1. pc[p] = "create" /\ wq[p] \in Queues
    BY <1>6 DEF mthpc_works_handler, WorkqueueInv, OwnerState, OwnerOK
  <2> QED BY <1>a, <2>1, <1>6, Names DEF mthpc_works_handler
<1>7. ASSUME NEW p \in Procs, mthpc_wq_futex_wake_broadcast(p) PROVE CarryState'
  BY <1>a, <1>7 DEF mthpc_wq_futex_wake_broadcast
<1>8. ASSUME NEW q \in Queues, mthpc_worker_run_take(q) PROVE CarryState'
  <2>1. CASE wq_list[q] = <<>>
    BY <1>a, <1>8, <2>1, Names DEF mthpc_worker_run_take
  <2>2. CASE wq_list[q] # <<>>
    <3>1. /\ work'[q] \in Works /\ pc' = [pc EXCEPT ![q] = "func"]
          /\ \A r \in Procs : r # q => work'[r] = work[r]
      BY <1>8, <2>2, WorkTaken
    <3> QED BY <1>a, <3>1, Names
  <2> QED BY <2>1, <2>2
<1>9. ASSUME NEW q \in Queues,
             \/ mthpc_rcu_thread_init(q) \/ mthpc_wq_active(q)
             \/ mthpc_wq_futex_wait(q) \/ func_return(q)
      PROVE  CarryState'
  <2>1. \E c \in {"top", "take", "dead", "asleep"} : pc' = [pc EXCEPT ![q] = c]
    BY <1>9 DEF mthpc_rcu_thread_init, mthpc_wq_active, mthpc_wq_futex_wait, func_return
  <2>2. \A r \in Procs : r # q => work'[r] = work[r]
    BY <1>a, <1>9 DEF mthpc_rcu_thread_init, mthpc_wq_active, mthpc_wq_futex_wait, func_return
  <2> QED BY <1>a, <2>1, <2>2, Names
<1> QED BY StepCases, <1>2, <1>3, <1>4, <1>5, <1>6, <1>7, <1>8, <1>9

(* Owners of new queues. *)
LEMMA OwnerStep ==
    ASSUME WorkqueueInv, [Next]_vars
    PROVE  OwnerState'
<1> SUFFICES ASSUME NEW x \in Procs PROVE OwnerOK(x)'
  BY DEF OwnerState
<1>a. /\ \A p \in Procs : OwnerOK(p)
      /\ ThreadTypeOK
      /\ mem \in [Queues -> {"none", "alloc", "freed"}]
      /\ missed => missed'
  BY MissedStays DEF WorkqueueInv, TypeOK, QueueTypeOK, OwnerState
<1>b. \A p \in Procs : pc[p] = "link" /\ wq[p] \in Queues => ~Counted(wq[p])
  BY DEF WorkqueueInv, QueueState, QueueOK, Prealloc
<1>c. \A q \in Queues : wq_list[q] \in Seq(Works)
  BY DEF WorkqueueInv, TypeOK, QueueTypeOK
<1> USE DEF OwnerOK, ThreadTypeOK
<1>1. ASSUME UNCHANGED <<pc, wq, wq_list, work, mem>> PROVE OwnerOK(x)'
  BY <1>a, <1>1
<1>2. ASSUME 
                  \/ mthpc_workpool_exit
                  \/ mthpc_workqueues_join_begin
                  \/ mthpc_workqueues_join_check
                  \/ Skips
                  \/ mthpc_wq_clear_active
                  \/ Passes
      PROVE  OwnerOK(x)'
  <2>1. UNCHANGED <<pc, wq, wq_list, work, mem>>
    BY <1>2 DEF mthpc_workpool_exit, mthpc_workqueues_join_begin,
       mthpc_workqueues_join_check, Skips, mthpc_wq_clear_active, Passes, queueVars,
       localVars, exitVars, rcuVars
  <2> QED BY <2>1, <1>1
<1>3. ASSUME NEW k \in 1..Len(pool), Unlinks(k) PROVE OwnerOK(x)'
  <2>1. UNCHANGED <<pc, wq, wq_list, work, mem>>
    BY <1>3 DEF Unlinks, queueVars, localVars, exitVars, rcuVars
  <2> QED BY <2>1, <1>1
<1>4. ASSUME NEW w \in Works, mthpc_schedule_work_on(w) PROVE OwnerOK(x)'
  BY <1>a, <1>b, Names, <1>4 DEF mthpc_schedule_work_on, Schedule, queueVars, localVars,
     exitVars, rcuVars
<1>5. ASSUME NEW p \in Procs, mthpc_get_workqueue_find(p) PROVE OwnerOK(x)'
  BY <1>a, <1>b, Names, <1>5 DEF mthpc_get_workqueue_find, mthpc_rcu_read_unlock,
     queueVars, localVars, exitVars, rcuVars
<1>6. ASSUME NEW p \in Procs, mthpc_workqueue_add_locked(p) PROVE OwnerOK(x)'
  <2>1. /\ pc[p] = "add" /\ wq[p] \in Queues /\ (~missed => wq[p] \in ToSet(pool))
        /\ \A q \in Queues : q # wq[p] => wq_list'[q] = wq_list[q]
        /\ pc' = [pc EXCEPT ![p] = "wake"] /\ UNCHANGED <<work, wq>>
    BY <1>6, WorkAdded
  <2>2. mem' = mem
    BY <1>6 DEF mthpc_workqueue_add_locked
  <2>3. ~missed => \A r \in Procs : pc[r] = "link" => wq[r] # wq[p]
    BY <1>a, <1>b, <2>1 DEF Counted
  <2> QED BY <1>a, <2>1, <2>2, <2>3, Names
<1>7. ASSUME NEW p \in Procs, NEW q \in Queues, Allocates(p, q) PROVE OwnerOK(x)'
  <2>1. /\ pc[p] = "alloc" /\ mem[q] = "none" /\ pc[q] = "unborn" /\ wq_list'[q] = <<work[p]>>
        /\ \A r \in Queues : r # q => wq_list'[r] = wq_list[r]
        /\ pc' = [pc EXCEPT ![p] = "link"] /\ wq' = [wq EXCEPT ![p] = q] /\ UNCHANGED work
    BY <1>7, WorkStarted
  <2>2. mem' = [mem EXCEPT ![q] = "alloc"]
    BY <1>7 DEF Allocates
  <2>3. \A r \in Procs : pc[r] \in {"link", "create"} => wq[r] # q
    BY <1>a, <2>1
  <2>5. \A r \in Procs : r # p => pc'[r] = pc[r] /\ wq'[r] = wq[r]
    BY <1>a, <2>1
  <2>6. pc'[p] = "link" /\ wq'[p] = q /\ p # q /\ mem'[q] = "alloc" /\ pc'[q] = "unborn"
    BY <1>a, <2>1, <2>2, Names
  <2>7. CASE x = p
    BY <1>a, <2>1, <2>3, <2>5, <2>6, <2>7
  <2>8. CASE x # p
    <3>1. ASSUME pc[x] \in {"link", "create"}
          PROVE  /\ wq[x] \in Queues /\ wq[x] # q /\ wq[x] # p
                 /\ mem'[wq[x]] = mem[wq[x]] /\ wq_list'[wq[x]] = wq_list[wq[x]]
      BY <1>a, <2>1, <2>2, <2>3, <3>1, Names
    <3> QED BY <1>a, <2>1, <2>3, <2>5, <2>6, <2>8, <3>1, Names
  <2> QED BY <2>7, <2>8
<1>8. ASSUME NEW p \in Procs, LinksNew(p) PROVE OwnerOK(x)'
  <2>1. /\ pc[p] = "link" /\ pc' = [pc EXCEPT ![p] = "create"] /\ UNCHANGED <<wq, wq_list, work, mem>>
    BY <1>8 DEF LinksNew
  <2> QED BY <1>a, <2>1, Names
<1>9. ASSUME NEW p \in Procs, NEW r \in Queues, UsesOld(p, r) PROVE OwnerOK(x)'
  <2>1. /\ pc[p] = "link" /\ wq[p] \in Queues /\ r # wq[p] /\ ~Prealloc(r)
        /\ \A q \in Queues : q # r /\ q # wq[p] => wq_list'[q] = wq_list[q]
        /\ pc' = [pc EXCEPT ![p] = "wake"] /\ wq' = [wq EXCEPT ![p] = r]
        /\ mem' = [mem EXCEPT ![wq[p]] = "freed"] /\ UNCHANGED work
    BY <1>9, WorkMoved
  <2>2. \A y \in Procs : pc[y] \in {"link", "create"} /\ y # p => wq[y] # wq[p]
    BY <1>a, <2>1
  <2>3. \A y \in Procs : pc[y] = "link" => wq[y] # r
    BY <2>1 DEF Prealloc
  <2>4. \A y \in Procs : y # p => pc'[y] = pc[y] /\ wq'[y] = wq[y]
    BY <1>a, <2>1
  <2>5. pc'[p] = "wake" /\ wq'[p] = r
    BY <1>a, <2>1
  <2>6. CASE x = p
    BY <2>1, <2>5, <2>6
  <2>7. CASE x # p
    <3>1. ASSUME pc[x] \in {"link", "create"}
          PROVE  /\ wq[x] \in Queues /\ wq[x] # wq[p] /\ wq[x] # p
                 /\ mem'[wq[x]] = "alloc"
      BY <1>a, <2>1, <2>2, <2>7, <3>1
    <3>2. ASSUME pc[x] = "link" PROVE wq_list'[wq[x]] = wq_list[wq[x]]
      BY <2>1, <2>3, <3>1, <3>2
    <3> QED BY <1>a, <2>1, <2>4, <2>5, <2>7, <3>1, <3>2, Names
  <2> QED BY <2>6, <2>7
<1>10. ASSUME NEW p \in Procs, mthpc_works_handler(p) PROVE OwnerOK(x)'
  <2>1. /\ pc[p] = "create" /\ pc' = [pc EXCEPT ![p] = "wake", ![wq[p]] = "init"]
        /\ UNCHANGED <<wq, wq_list, work, mem>>
    BY <1>10 DEF mthpc_works_handler, queueVars
  <2>2. wq[p] \in Queues /\ pc[wq[p]] = "unborn" /\ wq[p] # p
    BY <1>a, <2>1
  <2>3. \A y \in Procs : pc[y] \in {"link", "create"} /\ y # p => wq[y] # wq[p]
    BY <1>a, <2>1, <2>2
  <2> QED BY <1>a, <2>1, <2>2, <2>3, Names
<1>11. ASSUME NEW p \in Procs, mthpc_wq_futex_wake_store(p) PROVE OwnerOK(x)'
  BY <1>a, <1>b, Names, <1>11 DEF mthpc_wq_futex_wake_store, NonEmpty, queueVars,
     localVars, exitVars, rcuVars
<1>12. ASSUME NEW p \in Procs, mthpc_wq_futex_wake_broadcast(p) PROVE OwnerOK(x)'
  BY <1>a, <1>b, Names, <1>12 DEF mthpc_wq_futex_wake_broadcast, queueVars, localVars,
     exitVars, rcuVars
<1>13. ASSUME NEW q \in Queues, mthpc_wq_active(q) PROVE OwnerOK(x)'
  <2>1. /\ pc[q] = "top" /\ UNCHANGED <<wq, wq_list, work, mem>>
        /\ pc' = [pc EXCEPT ![q] = "take"] \/ pc' = [pc EXCEPT ![q] = "dead"]
    BY <1>13 DEF mthpc_wq_active, queueVars
  <2> QED BY <1>a, <2>1, Names
<1>14. ASSUME NEW q \in Queues, mthpc_worker_run_take(q) PROVE OwnerOK(x)'
  <2>1. /\ pc[q] = "take" /\ UNCHANGED <<wq, mem>>
        /\ pc'[q] \in {"wait", "func"} /\ \A r \in Procs : r # q => pc'[r] = pc[r]
        /\ \A r \in Queues : r # q => wq_list'[r] = wq_list[r]
        /\ \A r \in Procs : r # q => work'[r] = work[r]
    <3>1. CASE wq_list[q] = <<>>
      BY <1>a, <3>1, <1>14, Names DEF mthpc_worker_run_take
    <3>2. CASE wq_list[q] # <<>>
      <4>1. UNCHANGED <<wq, mem>>
        BY <1>14 DEF mthpc_worker_run_take
      <4>2. /\ pc[q] = "take" /\ pc' = [pc EXCEPT ![q] = "func"]
            /\ \A r \in Queues : r # q => wq_list'[r] = wq_list[r]
            /\ \A r \in Procs : r # q => work'[r] = work[r]
        BY <3>2, <1>14, WorkTaken
      <4> QED BY <1>a, <4>1, <4>2, Names
    <3> QED BY <3>1, <3>2
  <2>2. \A y \in Procs : pc[y] \in {"link", "create"} => wq[y] # q /\ y # q
    BY <1>a, <2>1
  <2>3. CASE x = q
    BY <1>a, <2>1, <2>3, Names
  <2>4. CASE x # q
    <3>1. pc'[x] = pc[x] /\ wq'[x] = wq[x] /\ work'[x] = work[x]
      BY <2>1, <2>4
    <3>2. ASSUME pc[x] \in {"link", "create"}
          PROVE  wq[x] \in Queues /\ wq_list'[wq[x]] = wq_list[wq[x]] /\ pc'[wq[x]] = pc[wq[x]]
      BY <1>a, <2>1, <2>2, <3>2, Names
    <3>3. \A r \in Procs : pc'[r] \in {"link", "create"} => pc[r] \in {"link", "create"}
      BY <2>1
    <3> QED BY <1>a, <2>1, <3>1, <3>2, <3>3
  <2> QED BY <2>3, <2>4
<1>15. ASSUME NEW q \in Queues, mthpc_wq_futex_wait(q) PROVE OwnerOK(x)'
  BY <1>a, <1>b, Names, <1>15 DEF mthpc_wq_futex_wait, queueVars, localVars, exitVars,
     rcuVars
<1>16. ASSUME NEW q \in Queues, func_return(q) PROVE OwnerOK(x)'
  BY <1>a, <1>b, Names, <1>16 DEF func_return, queueVars, localVars, exitVars, rcuVars
<1>17. ASSUME NEW q \in Queues, func_reschedule(q) PROVE OwnerOK(x)'
  BY <1>a, <1>b, Names, <1>17 DEF func_reschedule, Schedule, queueVars, localVars,
     exitVars, rcuVars
<1>18. CASE mthpc_workqueues_join_free
  BY <1>a, <1>b, Names, <1>18 DEF mthpc_workqueues_join_free, queueVars, localVars,
     exitVars, rcuVars
<1>19. ASSUME NEW p \in Procs, mthpc_rcu_read_lock(p) \/ mthpc_get_workqueue_lost(p)
       PROVE  OwnerOK(x)'
  BY <1>a, <1>19, Names DEF mthpc_rcu_read_lock, mthpc_get_workqueue_lost, queueVars
<1>20. ASSUME NEW q \in Queues, mthpc_rcu_thread_init(q) PROVE OwnerOK(x)'
  BY <1>a, <1>20, Names DEF mthpc_rcu_thread_init, queueVars
<1> QED BY StepCases, <1>2, <1>3, <1>4, <1>5, <1>6, <1>7, <1>8, <1>9, <1>10, <1>11,
   <1>12, <1>13, <1>14, <1>15, <1>16, <1>17, <1>18, <1>19, <1>20

(* The life of a queue. *)
LEMMA QueueStep ==
    ASSUME WorkqueueInv, [Next]_vars
    PROVE  QueueState'
<1> SUFFICES ASSUME NEW x \in Queues PROVE QueueOK(x)'
  BY DEF QueueState
<1>a. QueueOK(x) /\ ThreadTypeOK /\ QueueTypeOK /\ (missed => missed')
  BY MissedStays DEF WorkqueueInv, TypeOK, QueueState
<1>b. \A p \in Procs : OwnerOK(p)
  BY DEF WorkqueueInv, OwnerState
<1>c. ASSUME UNCHANGED <<pool, walk, free_list, mpc>>
      PROVE  /\ Counted(x)' <=> Counted(x)
             /\ WqLocked(x)' <=> WqLocked(x)
             /\ x \in ToSet(pool') <=> x \in ToSet(pool)
  BY <1>c DEF Counted, WqLocked
<1>d. ASSUME \A p \in Procs : pc'[p] = "link" <=> pc[p] = "link",
             \A p \in Procs : pc[p] = "link" => wq'[p] = wq[p]
      PROVE  Prealloc(x)' <=> Prealloc(x)
  BY <1>d DEF Prealloc
<1>e. ASSUME UNCHANGED <<pool, walk, free_list, mpc, mem, wq_active, wq_list>>,
             \A p \in Procs : pc'[p] = "link" <=> pc[p] = "link",
             \A p \in Procs : pc[p] = "link" => wq'[p] = wq[p],
             pc'[x] = "unborn" <=> pc[x] = "unborn", pc'[x] = "dead" <=> pc[x] = "dead"
      PROVE  QueueOK(x)'
  <2>1. /\ Counted(x)' <=> Counted(x)
        /\ WqLocked(x)' <=> WqLocked(x)
        /\ Prealloc(x)' <=> Prealloc(x)
    BY <1>c, <1>d, <1>e
  <2> QED BY <1>a, <1>e, <2>1, Zenon DEF QueueOK
<1>f. ASSUME UNCHANGED <<mem, wq_active, wq_list, pc, wq>>,
             Counted(x)' <=> Counted(x),
             x \in ToSet(pool') \/ WqLocked(x)' => x \in ToSet(pool) \/ WqLocked(x),
             wq_list[x] # <<>> /\ x \in ToSet(pool) => x \in ToSet(pool')
      PROVE  QueueOK(x)'
  <2>1. Prealloc(x)' <=> Prealloc(x)
    BY <1>d, <1>f
  <2> QED BY <1>a, <1>f, <2>1, Zenon DEF QueueOK
<1>1. ASSUME UNCHANGED <<mem, wq_active, wq_list, pc, wq, pool, walk, free_list, mpc>> PROVE QueueOK(x)'
  BY <1>e, <1>1
<1>2. ASSUME Passes PROVE QueueOK(x)'
  <2>1. UNCHANGED <<mem, wq_active, wq_list, pc, wq, pool, walk, free_list, mpc>>
    BY <1>2 DEF Passes, queueVars, localVars, exitVars, rcuVars
  <2> QED BY <2>1, <1>1
<1>3. ASSUME NEW w \in Works, mthpc_schedule_work_on(w) PROVE QueueOK(x)'
  <2>1. UNCHANGED <<pool, walk, free_list, mpc, mem, wq_active, wq_list>>
    BY <1>3 DEF mthpc_schedule_work_on, Schedule, queueVars, localVars, exitVars, rcuVars
  <2>2. /\ \A r \in Procs : pc'[r] = "link" <=> pc[r] = "link"
        /\ \A r \in Procs : pc[r] = "link" => wq'[r] = wq[r]
        /\ pc'[x] = "unborn" <=> pc[x] = "unborn"
        /\ pc'[x] = "dead" <=> pc[x] = "dead"
    BY <1>a, Names, <1>3 DEF ThreadTypeOK, mthpc_schedule_work_on, Schedule, queueVars,
       localVars, exitVars, rcuVars
  <2> QED BY <1>e, <2>1, <2>2
<1>4. ASSUME NEW p \in Procs, mthpc_get_workqueue_find(p) PROVE QueueOK(x)'
  <2>1. UNCHANGED <<pool, walk, free_list, mpc, mem, wq_active, wq_list>>
    BY <1>4 DEF mthpc_get_workqueue_find, mthpc_rcu_read_unlock, queueVars, localVars,
       exitVars, rcuVars
  <2>2. /\ \A r \in Procs : pc'[r] = "link" <=> pc[r] = "link"
        /\ \A r \in Procs : pc[r] = "link" => wq'[r] = wq[r]
        /\ pc'[x] = "unborn" <=> pc[x] = "unborn"
        /\ pc'[x] = "dead" <=> pc[x] = "dead"
    BY <1>a, Names, <1>4 DEF ThreadTypeOK, mthpc_get_workqueue_find,
       mthpc_rcu_read_unlock, queueVars, localVars, exitVars, rcuVars
  <2> QED BY <1>e, <2>1, <2>2
<1>5. ASSUME NEW p \in Procs, mthpc_workqueue_add_locked(p) PROVE QueueOK(x)'
  <2>1. /\ wq[p] \in Queues /\ (~missed => wq[p] \in ToSet(pool)) /\ pc[p] = "add"
        /\ \A q \in Queues : q # wq[p] => wq_list'[q] = wq_list[q]
        /\ pc' = [pc EXCEPT ![p] = "wake"] /\ wq' = wq
    BY <1>5, WorkAdded
  <2>2. UNCHANGED <<pool, walk, free_list, mpc, mem, wq_active>>
    BY <1>5 DEF mthpc_workqueue_add_locked, exitVars
  <2>3. /\ Counted(x)' <=> Counted(x)
        /\ WqLocked(x)' <=> WqLocked(x)
    BY <1>c, <2>2
  <2>4. /\ Prealloc(x)' <=> Prealloc(x)
        /\ pc'[x] = "unborn" <=> pc[x] = "unborn"
        /\ pc'[x] = "dead" <=> pc[x] = "dead"
    BY <1>a, <1>d, <2>1, Names DEF ThreadTypeOK
  <2>5. missed \/ (wq_list'[x] # <<>> => wq_list[x] # <<>> \/ x \in ToSet(pool))
    BY <2>1
  <2> QED BY <1>a, <2>2, <2>3, <2>4, <2>5, Zenon DEF QueueOK
<1>6. ASSUME NEW p \in Procs, NEW q \in Queues, Allocates(p, q) PROVE QueueOK(x)'
  <2>1. /\ pc[p] = "alloc" /\ mem[q] = "none" /\ ~Counted(q) /\ pc[q] = "unborn"
        /\ \A r \in Queues : r # q => wq_list'[r] = wq_list[r]
        /\ pc' = [pc EXCEPT ![p] = "link"] /\ wq' = [wq EXCEPT ![p] = q]
    BY <1>6, WorkStarted
  <2>2. /\ UNCHANGED <<pool, walk, free_list, mpc>>
        /\ mem'[q] = "alloc" /\ wq_active'[q] = TRUE
        /\ \A r \in Queues : r # q => mem'[r] = mem[r] /\ wq_active'[r] = wq_active[r]
    BY <1>a, <1>6 DEF Allocates, exitVars, QueueTypeOK
  <2>3. /\ Counted(x)' <=> Counted(x)
        /\ WqLocked(x)' <=> WqLocked(x)
    BY <1>c, <2>2
  <2>4. Prealloc(x)' <=> Prealloc(x) \/ x = q
    <3>1. p # q /\ pc'[p] = "link" /\ wq'[p] = q /\ pc[p] # "link"
      BY <1>a, <2>1 DEF ThreadTypeOK
    <3>2. \A r \in Procs : r # p => pc'[r] = pc[r] /\ wq'[r] = wq[r]
      BY <1>a, <2>1 DEF ThreadTypeOK
    <3> QED BY <3>1, <3>2 DEF Prealloc
  <2>5. /\ pc'[x] = "unborn" <=> pc[x] = "unborn"
        /\ pc'[x] = "dead" <=> pc[x] = "dead"
    BY <1>a, <2>1, Names DEF ThreadTypeOK
  <2>6. CASE x = q
    BY <1>a, <2>1, <2>2, <2>3, <2>4, <2>5, <2>6 DEF QueueOK
  <2>7. CASE x # q
    <3>1. mem'[x] = mem[x] /\ wq_active'[x] = wq_active[x] /\ wq_list'[x] = wq_list[x]
      BY <2>1, <2>2, <2>7
    <3> QED BY <1>a, <2>2, <2>3, <2>4, <2>5, <2>7, <3>1, Zenon DEF QueueOK
  <2> QED BY <2>6, <2>7
<1>7. ASSUME NEW p \in Procs, LinksNew(p) PROVE QueueOK(x)'
  <2>1. /\ pc[p] = "link" /\ pc' = [pc EXCEPT ![p] = "create"]
        /\ UNCHANGED <<mem, wq_active, wq_list, wq>>
    BY <1>7 DEF LinksNew
  <2>2. /\ x \in ToSet(pool') <=> x \in ToSet(pool) \/ x = wq[p]
        /\ Counted(x)' <=> Counted(x) \/ x = wq[p]
        /\ WqLocked(x)' <=> WqLocked(x)
        /\ wq[p] \in Queues
    BY <1>7, PoolGrows DEF WqLocked
  <2>3. Prealloc(x)' <=> Prealloc(x) /\ x # wq[p]
    <3>1. pc[p] = "link" /\ OwnerOK(p) /\ pc'[p] # "link"
      BY <1>a, <1>b, <2>1 DEF ThreadTypeOK
    <3>2. \A r \in Procs : r # p => pc'[r] = pc[r] /\ wq'[r] = wq[r]
      BY <1>a, <2>1 DEF ThreadTypeOK
    <3>3. \A r \in Procs : r # p /\ pc[r] = "link" => wq[r] # wq[p]
      BY <3>1 DEF OwnerOK
    <3> QED BY <3>1, <3>2, <3>3 DEF Prealloc
  <2>4. /\ pc'[x] = "unborn" <=> pc[x] = "unborn"
        /\ pc'[x] = "dead" <=> pc[x] = "dead"
    BY <1>a, <2>1, Names DEF ThreadTypeOK
  <2>5. x = wq[p] => Prealloc(x)
    BY <2>1 DEF Prealloc
  <2> QED BY <1>a, <2>1, <2>2, <2>3, <2>4, <2>5, Zenon DEF QueueOK
<1>8. ASSUME NEW p \in Procs, NEW r \in Queues, UsesOld(p, r) PROVE QueueOK(x)'
  <2>1. /\ pc[p] = "link" /\ wq[p] \in Queues /\ r \in ToSet(pool)
        /\ Prealloc(wq[p]) /\ ~Counted(wq[p]) /\ wq_list'[wq[p]] = <<>>
        /\ \A q \in Queues : q # r /\ q # wq[p] => wq_list'[q] = wq_list[q]
        /\ pc' = [pc EXCEPT ![p] = "wake"] /\ wq' = [wq EXCEPT ![p] = r]
        /\ mem' = [mem EXCEPT ![wq[p]] = "freed"]
    BY <1>8, WorkMoved
  <2>2. UNCHANGED <<pool, walk, free_list, mpc, wq_active>>
    BY <1>8 DEF UsesOld, exitVars
  <2>3. /\ Counted(x)' <=> Counted(x)
        /\ WqLocked(x)' <=> WqLocked(x)
    BY <1>c, <2>2
  <2>4. Prealloc(x)' <=> Prealloc(x) /\ x # wq[p]
    <3>1. pc[p] = "link" /\ OwnerOK(p) /\ pc'[p] # "link"
      BY <1>a, <1>b, <2>1 DEF ThreadTypeOK
    <3>2. \A t \in Procs : t # p => pc'[t] = pc[t] /\ wq'[t] = wq[t]
      BY <1>a, <2>1 DEF ThreadTypeOK
    <3>3. \A t \in Procs : t # p /\ pc[t] = "link" => wq[t] # wq[p]
      BY <3>1 DEF OwnerOK
    <3> QED BY <3>1, <3>2, <3>3 DEF Prealloc
  <2>5. /\ pc'[x] = "unborn" <=> pc[x] = "unborn"
        /\ pc'[x] = "dead" <=> pc[x] = "dead"
    BY <1>a, <2>1, Names DEF ThreadTypeOK
  <2>6. CASE x = wq[p]
    <3>1. mem'[x] = "freed" /\ wq_list'[x] = <<>>
      BY <1>a, <2>1, <2>6 DEF QueueTypeOK
    <3> QED BY <1>a, <2>1, <2>2, <2>3, <2>4, <2>5, <2>6, <3>1 DEF QueueOK, Counted
  <2>7. CASE x # wq[p]
    <3>1. mem'[x] = mem[x] /\ (wq_list'[x] # <<>> => wq_list[x] # <<>> \/ x \in ToSet(pool))
      BY <1>a, <2>1, <2>7 DEF QueueTypeOK
    <3> QED BY <1>a, <2>2, <2>3, <2>4, <2>5, <2>7, <3>1, Zenon DEF QueueOK
  <2> QED BY <2>6, <2>7
<1>9. ASSUME NEW p \in Procs, mthpc_works_handler(p) PROVE QueueOK(x)'
  <2>1. /\ pc[p] = "create" /\ pc' = [pc EXCEPT ![p] = "wake", ![wq[p]] = "init"]
        /\ UNCHANGED <<pool, walk, free_list, mpc, mem, wq_active, wq_list, wq>>
    BY <1>9 DEF mthpc_works_handler, queueVars, exitVars
  <2>2. wq[p] \in Queues /\ pc[wq[p]] = "unborn" /\ mem[wq[p]] = "alloc"
    BY <1>b, <2>1 DEF OwnerOK
  <2>3. /\ Counted(x)' <=> Counted(x)
        /\ WqLocked(x)' <=> WqLocked(x)
    BY <1>c, <2>1
  <2>4. Prealloc(x)' <=> Prealloc(x)
    BY <1>a, <1>d, <2>1, <2>2, Names DEF ThreadTypeOK
  <2>5. CASE x = wq[p]
    <3>1. ~Prealloc(x)
      <4>1. \A r \in Procs : pc[r] \in {"link", "create"} /\ wq[r] = wq[p] => r = p
        BY <1>b, <2>1 DEF OwnerOK
      <4> QED BY <2>1, <2>5, <4>1 DEF Prealloc
    <3>2. Counted(x) /\ pc'[x] = "init"
      BY <1>a, <2>1, <2>2, <2>5, <3>1, Names DEF QueueOK, Counted, ThreadTypeOK
    <3>3. pc'[x] # "dead" /\ pc'[x] # "unborn" /\ mem[x] # "none"
      BY <1>a, <3>2 DEF QueueOK
    <3> QED BY <1>a, <2>1, <2>3, <2>4, <3>2, <3>3, Zenon DEF QueueOK
  <2>6. CASE x # wq[p]
    <3>1. /\ pc'[x] = "unborn" <=> pc[x] = "unborn"
          /\ pc'[x] = "dead" <=> pc[x] = "dead"
      BY <1>a, <2>1, <2>2, <2>6, Names DEF ThreadTypeOK
    <3> QED BY <1>a, <2>1, <2>3, <2>4, <3>1, Zenon DEF QueueOK
  <2> QED BY <2>5, <2>6
<1>10. ASSUME NEW p \in Procs, mthpc_wq_futex_wake_store(p) PROVE QueueOK(x)'
  <2>1. UNCHANGED <<pool, walk, free_list, mpc, mem, wq_active, wq_list>>
    BY <1>10 DEF mthpc_wq_futex_wake_store, NonEmpty, queueVars, localVars, exitVars,
       rcuVars
  <2>2. /\ \A r \in Procs : pc'[r] = "link" <=> pc[r] = "link"
        /\ \A r \in Procs : pc[r] = "link" => wq'[r] = wq[r]
        /\ pc'[x] = "unborn" <=> pc[x] = "unborn"
        /\ pc'[x] = "dead" <=> pc[x] = "dead"
    BY <1>a, Names, <1>10 DEF ThreadTypeOK, mthpc_wq_futex_wake_store, NonEmpty,
       queueVars, localVars, exitVars, rcuVars
  <2> QED BY <1>e, <2>1, <2>2
<1>11. ASSUME NEW p \in Procs, mthpc_wq_futex_wake_broadcast(p) PROVE QueueOK(x)'
  <2>1. UNCHANGED <<pool, walk, free_list, mpc, mem, wq_active, wq_list>>
    BY <1>11 DEF mthpc_wq_futex_wake_broadcast, queueVars, localVars, exitVars, rcuVars
  <2>2. /\ \A r \in Procs : pc'[r] = "link" <=> pc[r] = "link"
        /\ \A r \in Procs : pc[r] = "link" => wq'[r] = wq[r]
        /\ pc'[x] = "unborn" <=> pc[x] = "unborn"
        /\ pc'[x] = "dead" <=> pc[x] = "dead"
    BY <1>a, Names, <1>11 DEF ThreadTypeOK, mthpc_wq_futex_wake_broadcast, queueVars,
       localVars, exitVars, rcuVars
  <2> QED BY <1>e, <2>1, <2>2
<1>12. ASSUME NEW q \in Queues, mthpc_wq_active(q) PROVE QueueOK(x)'
  <2>1. /\ pc[q] = "top" /\ UNCHANGED <<pool, walk, free_list, mpc, mem, wq_active, wq_list, wq>>
        /\ \/ pc' = [pc EXCEPT ![q] = "take"]
           \/ ~wq_active[q] /\ pc' = [pc EXCEPT ![q] = "dead"]
    BY <1>12 DEF mthpc_wq_active, queueVars, exitVars
  <2>2. /\ Counted(x)' <=> Counted(x)
        /\ WqLocked(x)' <=> WqLocked(x)
    BY <1>c, <2>1
  <2>3. /\ pc'[q] = "take" \/ (~wq_active[q] /\ pc'[q] = "dead")
        /\ \A r \in Procs : r # q => pc'[r] = pc[r]
    BY <1>a, <2>1, Names DEF ThreadTypeOK
  <2>4. pc'[q] \in {"take", "dead"}
    BY <2>3
  <2>5. Prealloc(x)' <=> Prealloc(x)
    BY <1>d, <2>1, <2>3, <2>4
  <2>6. CASE x = q
    <3>1. /\ pc[x] # "unborn" /\ pc[x] # "dead" /\ pc'[x] # "unborn"
      BY <2>1, <2>4, <2>6
    <3>2. pc'[x] = "dead" => ~wq_active[x]
      BY <2>3, <2>6
    <3> QED BY <1>a, <2>1, <2>2, <2>5, <3>1, <3>2, Zenon DEF QueueOK
  <2>7. CASE x # q
    BY <1>a, <2>1, <2>2, <2>3, <2>5, <2>7, Names, Zenon DEF QueueOK
  <2> QED BY <2>6, <2>7
<1>13. ASSUME NEW q \in Queues, mthpc_worker_run_take(q) PROVE QueueOK(x)'
  <2>1. UNCHANGED <<pool, walk, free_list, mpc, mem, wq_active, wq>>
    BY <1>13 DEF mthpc_worker_run_take, exitVars
  <2>2. /\ pc[q] = "take" /\ \A r \in Procs : r # q => pc'[r] = pc[r]
        /\ pc'[q] \in {"wait", "func"}
        /\ wq_list'[x] # <<>> => wq_list[x] # <<>>
    <3>1. CASE wq_list[q] = <<>>
      BY <1>a, <3>1, <1>13, Names DEF mthpc_worker_run_take, ThreadTypeOK
    <3>2. CASE wq_list[q] # <<>>
      <4>1. /\ pc[q] = "take" /\ pc' = [pc EXCEPT ![q] = "func"]
            /\ \A r \in Queues : r # q => wq_list'[r] = wq_list[r]
        BY <3>2, <1>13, WorkTaken
      <4> QED BY <1>a, <3>2, <4>1, Names DEF ThreadTypeOK
    <3> QED BY <3>1, <3>2
  <2>3. /\ Counted(x)' <=> Counted(x)
        /\ WqLocked(x)' <=> WqLocked(x)
    BY <1>c, <2>1
  <2>4. /\ Prealloc(x)' <=> Prealloc(x)
        /\ pc'[x] = "unborn" <=> pc[x] = "unborn"
        /\ pc'[x] = "dead" <=> pc[x] = "dead"
    BY <1>d, <2>1, <2>2, Names
  <2> QED BY <1>a, <2>1, <2>2, <2>3, <2>4, Zenon DEF QueueOK
<1>14. ASSUME NEW q \in Queues, mthpc_wq_futex_wait(q) PROVE QueueOK(x)'
  <2>1. UNCHANGED <<pool, walk, free_list, mpc, mem, wq_active, wq_list>>
    BY <1>14 DEF mthpc_wq_futex_wait, queueVars, localVars, exitVars, rcuVars
  <2>2. /\ \A r \in Procs : pc'[r] = "link" <=> pc[r] = "link"
        /\ \A r \in Procs : pc[r] = "link" => wq'[r] = wq[r]
        /\ pc'[x] = "unborn" <=> pc[x] = "unborn"
        /\ pc'[x] = "dead" <=> pc[x] = "dead"
    BY <1>a, Names, <1>14 DEF ThreadTypeOK, mthpc_wq_futex_wait, queueVars, localVars,
       exitVars, rcuVars
  <2> QED BY <1>e, <2>1, <2>2
<1>15. ASSUME NEW q \in Queues, func_return(q) PROVE QueueOK(x)'
  <2>1. UNCHANGED <<pool, walk, free_list, mpc, mem, wq_active, wq_list>>
    BY <1>15 DEF func_return, queueVars, localVars, exitVars, rcuVars
  <2>2. /\ \A r \in Procs : pc'[r] = "link" <=> pc[r] = "link"
        /\ \A r \in Procs : pc[r] = "link" => wq'[r] = wq[r]
        /\ pc'[x] = "unborn" <=> pc[x] = "unborn"
        /\ pc'[x] = "dead" <=> pc[x] = "dead"
    BY <1>a, Names, <1>15 DEF ThreadTypeOK, func_return, queueVars, localVars, exitVars,
       rcuVars
  <2> QED BY <1>e, <2>1, <2>2
<1>16. ASSUME NEW q \in Queues, func_reschedule(q) PROVE QueueOK(x)'
  <2>1. UNCHANGED <<pool, walk, free_list, mpc, mem, wq_active, wq_list>>
    BY <1>16 DEF func_reschedule, Schedule, queueVars, localVars, exitVars, rcuVars
  <2>2. /\ \A r \in Procs : pc'[r] = "link" <=> pc[r] = "link"
        /\ \A r \in Procs : pc[r] = "link" => wq'[r] = wq[r]
        /\ pc'[x] = "unborn" <=> pc[x] = "unborn"
        /\ pc'[x] = "dead" <=> pc[x] = "dead"
    BY <1>a, Names, <1>16 DEF ThreadTypeOK, func_reschedule, Schedule, queueVars,
       localVars, exitVars, rcuVars
  <2> QED BY <1>e, <2>1, <2>2
<1>17. CASE mthpc_workpool_exit
  <2>1. /\ UNCHANGED <<mem, wq_active, wq_list, pc, wq, pool, walk, free_list>>
        /\ mpc # "gp" /\ mpc' # "gp"
    BY <1>17 DEF mthpc_workpool_exit, queueVars, localVars, exitVars, rcuVars
  <2> QED BY <1>f, <2>1 DEF Counted, WqLocked
<1>18. CASE mthpc_workqueues_join_begin
  <2>1. /\ UNCHANGED <<mem, wq_active, wq_list, pc, wq, pool, walk, free_list>>
        /\ mpc # "gp" /\ mpc' # "gp"
    BY <1>18 DEF mthpc_workqueues_join_begin, queueVars, localVars, exitVars, rcuVars
  <2> QED BY <1>f, <2>1 DEF Counted, WqLocked
<1>19. CASE mthpc_workqueues_join_check
  <2>1. UNCHANGED <<mem, wq_active, wq_list, pc, wq, pool>>
    BY <1>19 DEF mthpc_workqueues_join_check, queueVars, localVars, exitVars, rcuVars
  <2>2. (Counted(x)' <=> Counted(x)) /\ ~WqLocked(x)'
    BY <1>19, WalkOn DEF WqLocked
  <2> QED BY <1>f, <2>1, <2>2
<1>20. CASE Skips
  <2>1. UNCHANGED <<mem, wq_active, wq_list, pc, wq, pool>>
    BY <1>20 DEF Skips, queueVars, localVars, exitVars, rcuVars
  <2>2. (Counted(x)' <=> Counted(x)) /\ ~WqLocked(x)'
    BY <1>20, WalkOn DEF WqLocked
  <2> QED BY <1>f, <2>1, <2>2
<1>21. ASSUME NEW k \in 1..Len(pool), Unlinks(k) PROVE QueueOK(x)'
  <2>1. UNCHANGED <<mem, wq_active, wq_list, pc, wq>> /\ wq_list[Head(walk)] = <<>>
    BY <1>21 DEF Unlinks, localVars
  <2>2. /\ Counted(x)' <=> Counted(x)
        /\ x \in ToSet(pool') \/ WqLocked(x)' => x \in ToSet(pool)
        /\ x \in ToSet(pool) => x \in ToSet(pool') \/ x = Head(walk)
    BY <1>21, PoolShrinks DEF WqLocked
  <2> QED BY <1>f, <2>1, <2>2
<1>22. CASE mthpc_wq_clear_active
  <2>1. UNCHANGED <<mem, wq_list, pc, wq>> /\ wq_active' = [wq_active EXCEPT ![Head(walk)] = FALSE]
    BY <1>22 DEF mthpc_wq_clear_active, localVars
  <2>2. /\ Counted(x)' <=> Counted(x)
        /\ mpc = "gp" /\ mpc' = "visit" /\ pool' = pool
        /\ Head(walk) \in Queues /\ Head(walk) \notin ToSet(pool)
    BY <1>22, FreeListGrows
  <2>3. Prealloc(x)' <=> Prealloc(x)
    BY <1>d, <2>1
  <2>4. ~WqLocked(x)'
    BY <2>2 DEF WqLocked
  <2>5. CASE x = Head(walk)
    <3>1. Counted(x) /\ ~Prealloc(x)
      BY <1>a, <2>2, <2>5 DEF QueueOK, Counted, WqLocked
    <3>2. ~wq_active'[x]
      BY <1>a, <2>1, <2>2, <2>5 DEF QueueTypeOK
    <3> QED BY <1>a, <2>1, <2>2, <2>3, <2>4, <2>5, <3>1, <3>2, Zenon DEF QueueOK
  <2>6. CASE x # Head(walk)
    <3>1. wq_active'[x] = wq_active[x]
      BY <1>a, <2>1, <2>6 DEF QueueTypeOK
    <3> QED BY <1>a, <2>1, <2>2, <2>3, <2>4, <3>1, Zenon DEF QueueOK
  <2> QED BY <2>5, <2>6
<1>23. CASE mthpc_workqueues_join_free
  <2>1. UNCHANGED <<wq_active, wq_list, pc, wq, pool>>
    BY <1>23 DEF mthpc_workqueues_join_free, localVars
  <2>2. CASE free_list = <<>>
    <3>1. UNCHANGED <<mem, walk, free_list>> /\ mpc = "join" /\ mpc' = "check"
      BY <2>2, <1>23 DEF mthpc_workqueues_join_free
    <3> QED BY <1>f, <2>1, <3>1 DEF Counted, WqLocked
  <2>3. CASE free_list # <<>>
    <3>1. /\ Counted(Head(free_list)) /\ (Counted(x)' <=> Counted(x) /\ x # Head(free_list))
          /\ Head(free_list) \in Queues /\ mpc = "join" /\ mpc' = mpc
      BY <2>3, <1>23, FreeListShrinks
    <3>2. mem' = [mem EXCEPT ![Head(free_list)] = "freed"] /\ pc[Head(free_list)] = "dead"
      BY <2>3, <1>23 DEF mthpc_workqueues_join_free
    <3>3. (Prealloc(x)' <=> Prealloc(x)) /\ ~WqLocked(x) /\ ~WqLocked(x)'
      BY <1>d, <2>1, <3>1 DEF WqLocked
    <3>4. CASE x = Head(free_list)
      <4>1. ~Prealloc(x) /\ mem'[x] = "freed" /\ pc[x] = "dead"
        BY <1>a, <3>1, <3>2, <3>4 DEF QueueOK, QueueTypeOK
      <4> QED BY <1>a, <2>1, <3>1, <3>3, <3>4, <4>1 DEF QueueOK
    <3>5. CASE x # Head(free_list)
      <4>1. mem'[x] = mem[x]
        BY <1>a, <3>2, <3>5 DEF QueueTypeOK
      <4> QED BY <1>a, <2>1, <3>1, <3>3, <3>5, <4>1, Zenon DEF QueueOK
    <3> QED BY <3>4, <3>5
  <2> QED BY <2>2, <2>3
<1>24. ASSUME NEW p \in Procs,
              mthpc_rcu_read_lock(p) \/ mthpc_get_workqueue_lost(p)
       PROVE  QueueOK(x)'
  <2>1. UNCHANGED <<pool, walk, free_list, mpc, mem, wq_active, wq_list>>
    BY <1>24 DEF mthpc_rcu_read_lock, mthpc_get_workqueue_lost, queueVars, exitVars
  <2>2. /\ \A r \in Procs : pc'[r] = "link" <=> pc[r] = "link"
        /\ \A r \in Procs : pc[r] = "link" => wq'[r] = wq[r]
        /\ pc'[x] = "unborn" <=> pc[x] = "unborn"
        /\ pc'[x] = "dead" <=> pc[x] = "dead"
    BY <1>a, Names, <1>24 DEF ThreadTypeOK, mthpc_rcu_read_lock, mthpc_get_workqueue_lost
  <2> QED BY <1>e, <2>1, <2>2
<1>25. ASSUME NEW q \in Queues, mthpc_rcu_thread_init(q) PROVE QueueOK(x)'
  <2>1. UNCHANGED <<pool, walk, free_list, mpc, mem, wq_active, wq_list>>
    BY <1>25 DEF mthpc_rcu_thread_init, queueVars, exitVars
  <2>2. /\ \A r \in Procs : pc'[r] = "link" <=> pc[r] = "link"
        /\ \A r \in Procs : pc[r] = "link" => wq'[r] = wq[r]
        /\ pc'[x] = "unborn" <=> pc[x] = "unborn"
        /\ pc'[x] = "dead" <=> pc[x] = "dead"
    BY <1>a, Names, <1>25 DEF ThreadTypeOK, mthpc_rcu_thread_init
  <2> QED BY <1>e, <2>1, <2>2
<1> QED BY StepCases, <1>2, <1>3, <1>4, <1>5, <1>6, <1>7, <1>8, <1>9, <1>10, <1>11,
   <1>12, <1>13, <1>14, <1>15, <1>16, <1>17, <1>18, <1>19, <1>20, <1>21, <1>22, <1>23,
   <1>24, <1>25

(* One instance of a work. *)
LEMMA WorkStep ==
    ASSUME WorkqueueInv, [Next]_vars, ~missed'
    PROVE  WorkState'
<1>m. ~missed
  BY MissedStays
<1>a. WorkState /\ CarryState /\ ThreadTypeOK /\ QueueTypeOK
  BY <1>m DEF WorkqueueInv, TypeOK
<1>b. ASSUME wq_list' = wq_list,
             \A p \in Procs : pc'[p] \in {"lock", "find", "add", "lost", "alloc", "func"} =>
                work'[p] = work[p] /\ pc[p] \in {"lock", "find", "add", "lost", "alloc", "func"}
      PROVE  WorkState'
  <2>1. \A p \in Procs, w \in Works : Carries(p, w)' => Carries(p, w)
    BY <1>b DEF Carries
  <2> QED BY <1>a, <1>b, <2>1 DEF WorkState
<1>1. ASSUME UNCHANGED <<pc, work, wq_list>> PROVE WorkState'
  BY <1>b, <1>1
<1>2. ASSUME 
                  \/ mthpc_workpool_exit
                  \/ mthpc_workqueues_join_begin
                  \/ mthpc_workqueues_join_check
                  \/ Skips
                  \/ mthpc_wq_clear_active
                  \/ mthpc_workqueues_join_free
                  \/ Passes
      PROVE  WorkState'
  <2>1. UNCHANGED <<pc, work, wq_list>>
    BY <1>2 DEF mthpc_workpool_exit, mthpc_workqueues_join_begin,
       mthpc_workqueues_join_check, Skips, mthpc_wq_clear_active,
       mthpc_workqueues_join_free, Passes, queueVars, localVars, exitVars, rcuVars
  <2> QED BY <2>1, <1>1
<1>3. ASSUME NEW k \in 1..Len(pool), Unlinks(k) PROVE WorkState'
  <2>1. UNCHANGED <<pc, work, wq_list>>
    BY <1>3 DEF Unlinks, queueVars, localVars, exitVars, rcuVars
  <2> QED BY <2>1, <1>1
<1>4. ASSUME NEW w \in Works, mthpc_schedule_work_on(w) PROVE WorkState'
  <2>1. /\ pc[w] = "ready" /\ pc' = [pc EXCEPT ![w] = "lock"] /\ work' = [work EXCEPT ![w] = w]
        /\ wq_list' = wq_list /\ w \in Procs
    BY <1>4, Names DEF mthpc_schedule_work_on, Schedule, queueVars
  <2>2. ~Outstanding(w)
    <3>1. calls[w] = 0 /\ runs[w] \in Nat /\ calls[w] = IF Outstanding(w) THEN runs[w] + 1 ELSE runs[w]
      BY <1>m, <1>a, <2>1 DEF WorkqueueInv, CallState, CallOK, ThreadTypeOK
    <3> QED BY <3>1
  <2>3. \A r \in Procs, v \in Works : Carries(r, v)' => Carries(r, v) \/ (r = w /\ v = w)
    BY <1>a, <2>1 DEF Carries, ThreadTypeOK
  <2> QED BY <1>a, <2>1, <2>2, <2>3 DEF WorkState, Outstanding
<1>5. ASSUME NEW p \in Procs, mthpc_get_workqueue_find(p) PROVE WorkState'
  <2>1. wq_list' = wq_list
    BY <1>5 DEF mthpc_get_workqueue_find, mthpc_rcu_read_unlock, queueVars, localVars,
       exitVars, rcuVars
  <2>3. \A r \in Procs : pc'[r] \in {"lock", "find", "add", "lost", "alloc", "func"} =>
           work'[r] = work[r] /\ pc[r] \in {"lock", "find", "add", "lost", "alloc", "func"}
    BY <1>a, Names, <1>5 DEF ThreadTypeOK, mthpc_get_workqueue_find,
       mthpc_rcu_read_unlock, queueVars, localVars, exitVars, rcuVars
  <2> QED BY <1>b, <2>1, <2>3
<1>6. ASSUME NEW p \in Procs, mthpc_workqueue_add_locked(p) PROVE WorkState'
  <2>1. /\ pc[p] = "add" /\ wq[p] \in Queues /\ work[p] \in Works
        /\ ToSet(wq_list'[wq[p]]) = ToSet(wq_list[wq[p]]) \union {work[p]}
        /\ IsInjective(wq_list'[wq[p]])
        /\ \A q \in Queues : q # wq[p] => wq_list'[q] = wq_list[q]
        /\ pc' = [pc EXCEPT ![p] = "wake"] /\ work' = work
    BY <1>m, <1>6, WorkAdded
  <2>3. /\ Carries(p, work[p])
        /\ \A r \in Procs, v \in Works : Carries(r, v)' => Carries(r, v) /\ r # p
    BY <1>a, <2>1 DEF Carries, ThreadTypeOK
  <2>4. \A r \in Procs, v \in Works : Carries(r, v)' => v # work[p]
    BY <1>a, <2>1, <2>3 DEF WorkState
  <2>6. \A r \in Queues : work[p] \notin ToSet(wq_list[r])
    BY <1>a, <2>1, <2>3 DEF WorkState
  <2> QED BY <1>a, <2>1, <2>3, <2>4, <2>6 DEF WorkState
<1>7. ASSUME NEW p \in Procs, NEW q \in Queues, Allocates(p, q) PROVE WorkState'
  <2>1. /\ pc[p] = "alloc" /\ work[p] \in Works
        /\ ToSet(wq_list'[q]) = {work[p]} /\ IsInjective(wq_list'[q])
        /\ \A r \in Queues : r # q => wq_list'[r] = wq_list[r]
        /\ pc' = [pc EXCEPT ![p] = "link"] /\ work' = work
    BY <1>7, WorkStarted
  <2>3. /\ Carries(p, work[p])
        /\ \A r \in Procs, v \in Works : Carries(r, v)' => Carries(r, v) /\ r # p
    BY <1>a, <2>1 DEF Carries, ThreadTypeOK
  <2>4. \A r \in Procs, v \in Works : Carries(r, v)' => v # work[p]
    BY <1>a, <2>1, <2>3 DEF WorkState
  <2>6. \A r \in Queues : work[p] \notin ToSet(wq_list[r])
    BY <1>a, <2>1, <2>3 DEF WorkState
  <2> QED BY <1>a, <2>1, <2>3, <2>4, <2>6 DEF WorkState
<1>8. ASSUME NEW p \in Procs, LinksNew(p) PROVE WorkState'
  <2>1. wq_list' = wq_list
    BY <1>8 DEF LinksNew, mthpc_list_add_tail_rcu, OneMore, queueVars, localVars,
       exitVars, rcuVars
  <2>3. \A r \in Procs : pc'[r] \in {"lock", "find", "add", "lost", "alloc", "func"} =>
           work'[r] = work[r] /\ pc[r] \in {"lock", "find", "add", "lost", "alloc", "func"}
    BY <1>a, Names, <1>8 DEF ThreadTypeOK, LinksNew, mthpc_list_add_tail_rcu, OneMore,
       queueVars, localVars, exitVars, rcuVars
  <2> QED BY <1>b, <2>1, <2>3
<1>9. ASSUME NEW p \in Procs, NEW r \in Queues, UsesOld(p, r) PROVE WorkState'
  <2>1. /\ pc[p] = "link" /\ wq[p] \in Queues /\ work[p] \in Works /\ r # wq[p]
        /\ ToSet(wq_list[wq[p]]) = {work[p]} /\ wq_list'[wq[p]] = <<>>
        /\ ToSet(wq_list'[r]) = ToSet(wq_list[r]) \union {work[p]}
        /\ IsInjective(wq_list'[r])
        /\ \A q \in Queues : q # r /\ q # wq[p] => wq_list'[q] = wq_list[q]
        /\ pc' = [pc EXCEPT ![p] = "wake"] /\ work' = work
    BY <1>m, <1>9, WorkMoved
  <2>2. ToSet(wq_list'[wq[p]]) = {} /\ IsInjective(wq_list'[wq[p]])
    BY <2>1, ShortLists
  <2>3. \A y \in Procs, v \in Works : Carries(y, v)' => Carries(y, v)
    BY <1>a, <2>1 DEF Carries, ThreadTypeOK
  <2>4. \A y \in Procs, v \in Works : Carries(y, v) => v # work[p]
    BY <1>a, <2>1 DEF WorkState
  <2>6. \A y \in Queues : y # wq[p] => work[p] \notin ToSet(wq_list[y])
    BY <1>a, <2>1 DEF WorkState
  <2>7. \A y \in Queues, v \in Works : v \in ToSet(wq_list'[y]) => v \in ToSet(wq_list[y]) \/ (v = work[p] /\ y = r)
    BY <2>1, <2>2
  <2>8. \A y \in Queues : IsInjective(wq_list'[y])
    BY <1>a, <2>1, <2>2 DEF WorkState
  <2>9. \A y, z \in Queues, v \in Works :
           v \in ToSet(wq_list'[y]) /\ v \in ToSet(wq_list'[z]) => y = z
    <3> TAKE y, z \in Queues, v \in Works
    <3> HAVE v \in ToSet(wq_list'[y]) /\ v \in ToSet(wq_list'[z])
    <3>1. CASE v = work[p]
      <4>1. \A u \in Queues : v \in ToSet(wq_list'[u]) => u = r
        BY <2>1, <2>2, <2>6, <3>1
      <4> QED BY <4>1
    <3>2. CASE v # work[p]
      BY <1>a, <2>7, <3>2 DEF WorkState
    <3> QED BY <3>1, <3>2
  <2>10. \A y \in Procs, q \in Queues, v \in Works : Carries(y, v)' => v \notin ToSet(wq_list'[q])
    BY <1>a, <2>3, <2>4, <2>7 DEF WorkState
  <2>11. \A y, z \in Procs, v \in Works : Carries(y, v)' /\ Carries(z, v)' => y = z
    BY <1>a, <2>3 DEF WorkState
  <2> QED BY <2>8, <2>9, <2>10, <2>11 DEF WorkState
<1>10. ASSUME NEW p \in Procs, mthpc_works_handler(p) PROVE WorkState'
  <2>1. /\ pc[p] = "create" /\ pc' = [pc EXCEPT ![p] = "wake", ![wq[p]] = "init"]
        /\ UNCHANGED <<wq_list, work>>
    BY <1>10 DEF mthpc_works_handler, queueVars
  <2>2. wq[p] \in Queues
    BY <2>1 DEF WorkqueueInv, OwnerState, OwnerOK
  <2> QED BY <1>a, <1>b, <2>1, <2>2, Names DEF ThreadTypeOK
<1>11. ASSUME NEW p \in Procs, mthpc_wq_futex_wake_store(p) PROVE WorkState'
  <2>1. wq_list' = wq_list
    BY <1>11 DEF mthpc_wq_futex_wake_store, NonEmpty, queueVars, localVars, exitVars,
       rcuVars
  <2>3. \A r \in Procs : pc'[r] \in {"lock", "find", "add", "lost", "alloc", "func"} =>
           work'[r] = work[r] /\ pc[r] \in {"lock", "find", "add", "lost", "alloc", "func"}
    BY <1>a, Names, <1>11 DEF ThreadTypeOK, mthpc_wq_futex_wake_store, NonEmpty,
       queueVars, localVars, exitVars, rcuVars
  <2> QED BY <1>b, <2>1, <2>3
<1>12. ASSUME NEW p \in Procs, mthpc_wq_futex_wake_broadcast(p) PROVE WorkState'
  <2>1. wq_list' = wq_list
    BY <1>12 DEF mthpc_wq_futex_wake_broadcast, queueVars, localVars, exitVars, rcuVars
  <2>3. \A r \in Procs : pc'[r] \in {"lock", "find", "add", "lost", "alloc", "func"} =>
           work'[r] = work[r] /\ pc[r] \in {"lock", "find", "add", "lost", "alloc", "func"}
    BY <1>a, Names, <1>12 DEF ThreadTypeOK, mthpc_wq_futex_wake_broadcast, queueVars,
       localVars, exitVars, rcuVars
  <2> QED BY <1>b, <2>1, <2>3
<1>13. ASSUME NEW q \in Queues, mthpc_wq_active(q) PROVE WorkState'
  <2>1. wq_list' = wq_list
    BY <1>13 DEF mthpc_wq_active, queueVars, localVars, exitVars, rcuVars
  <2>3. \A r \in Procs : pc'[r] \in {"lock", "find", "add", "lost", "alloc", "func"} =>
           work'[r] = work[r] /\ pc[r] \in {"lock", "find", "add", "lost", "alloc", "func"}
    BY <1>a, Names, <1>13 DEF ThreadTypeOK, mthpc_wq_active, queueVars, localVars,
       exitVars, rcuVars
  <2> QED BY <1>b, <2>1, <2>3
<1>14. ASSUME NEW q \in Queues, mthpc_worker_run_take(q) PROVE WorkState'
  <2>1. CASE wq_list[q] = <<>>
    <3>1. pc[q] = "take" /\ pc' = [pc EXCEPT ![q] = "wait"] /\ UNCHANGED <<wq_list, work>>
      BY <2>1, <1>14 DEF mthpc_worker_run_take
    <3> QED BY <1>a, <1>b, <3>1, Names DEF ThreadTypeOK
  <2>2. CASE wq_list[q] # <<>>
    <3>1. /\ pc[q] = "take" /\ work'[q] \in Works
          /\ ToSet(wq_list[q]) = ToSet(wq_list'[q]) \union {work'[q]}
          /\ work'[q] \notin ToSet(wq_list'[q]) /\ IsInjective(wq_list'[q])
          /\ \A r \in Queues : r # q => wq_list'[r] = wq_list[r]
          /\ \A r \in Procs : r # q => work'[r] = work[r]
          /\ pc' = [pc EXCEPT ![q] = "func"]
      BY <1>m, <2>2, <1>14, WorkTaken
    <3>2. \A r \in Procs, v \in Works : Carries(r, v)' => (r # q /\ Carries(r, v)) \/ (r = q /\ v = work'[q])
      BY <1>a, <3>1, Names DEF Carries, ThreadTypeOK
    <3>4. \A r \in Procs : ~Carries(r, work'[q])
      BY <1>a, <3>1 DEF WorkState
    <3>5. \A r \in Queues : work'[q] \notin ToSet(wq_list'[r])
      BY <1>a, <3>1 DEF WorkState
    <3>6. \A r \in Queues : ToSet(wq_list'[r]) \subseteq ToSet(wq_list[r]) /\ IsInjective(wq_list'[r])
      BY <1>a, <3>1 DEF WorkState
    <3> QED BY <1>a, <3>1, <3>2, <3>4, <3>5, <3>6 DEF WorkState
  <2> QED BY <2>1, <2>2
<1>15. ASSUME NEW q \in Queues, mthpc_wq_futex_wait(q) PROVE WorkState'
  <2>1. wq_list' = wq_list
    BY <1>15 DEF mthpc_wq_futex_wait, queueVars, localVars, exitVars, rcuVars
  <2>3. \A r \in Procs : pc'[r] \in {"lock", "find", "add", "lost", "alloc", "func"} =>
           work'[r] = work[r] /\ pc[r] \in {"lock", "find", "add", "lost", "alloc", "func"}
    BY <1>a, Names, <1>15 DEF ThreadTypeOK, mthpc_wq_futex_wait, queueVars, localVars,
       exitVars, rcuVars
  <2> QED BY <1>b, <2>1, <2>3
<1>16. ASSUME NEW q \in Queues, func_return(q) PROVE WorkState'
  <2>1. wq_list' = wq_list
    BY <1>16 DEF func_return, queueVars, localVars, exitVars, rcuVars
  <2>3. \A r \in Procs : pc'[r] \in {"lock", "find", "add", "lost", "alloc", "func"} =>
           work'[r] = work[r] /\ pc[r] \in {"lock", "find", "add", "lost", "alloc", "func"}
    BY <1>a, Names, <1>16 DEF ThreadTypeOK, func_return, queueVars, localVars, exitVars,
       rcuVars
  <2> QED BY <1>b, <2>1, <2>3
<1>17. ASSUME NEW q \in Queues, func_reschedule(q) PROVE WorkState'
  <2>1. /\ pc[q] = "func" /\ pc' = [pc EXCEPT ![q] = "lock"] /\ work' = [work EXCEPT ![q] = work[q]]
        /\ wq_list' = wq_list
    BY <1>17 DEF func_reschedule, Schedule, queueVars
  <2> QED BY <1>a, <1>b, <2>1, Names DEF ThreadTypeOK
<1>18. ASSUME NEW p \in Procs, mthpc_rcu_read_lock(p) \/ mthpc_get_workqueue_lost(p)
       PROVE  WorkState'
  <2>1. wq_list' = wq_list
    BY <1>18 DEF mthpc_rcu_read_lock, mthpc_get_workqueue_lost, queueVars
  <2>3. \A r \in Procs : pc'[r] \in {"lock", "find", "add", "lost", "alloc", "func"} =>
           work'[r] = work[r] /\ pc[r] \in {"lock", "find", "add", "lost", "alloc", "func"}
    BY <1>a, <1>18 DEF ThreadTypeOK, mthpc_rcu_read_lock, mthpc_get_workqueue_lost
  <2> QED BY <1>b, <2>1, <2>3
<1>19. ASSUME NEW q \in Queues, mthpc_rcu_thread_init(q) PROVE WorkState'
  <2>1. wq_list' = wq_list
    BY <1>19 DEF mthpc_rcu_thread_init, queueVars
  <2>3. \A r \in Procs : pc'[r] \in {"lock", "find", "add", "lost", "alloc", "func"} =>
           work'[r] = work[r] /\ pc[r] \in {"lock", "find", "add", "lost", "alloc", "func"}
    BY <1>a, <1>19, Names DEF ThreadTypeOK, mthpc_rcu_thread_init
  <2> QED BY <1>b, <2>1, <2>3
<1> QED BY StepCases, <1>2, <1>3, <1>4, <1>5, <1>6, <1>7, <1>8, <1>9, <1>10, <1>11,
   <1>12, <1>13, <1>14, <1>15, <1>16, <1>17, <1>18, <1>19

(* Calls and runs. *)
LEMMA CallStep ==
    ASSUME WorkqueueInv, [Next]_vars, ~missed'
    PROVE  CallState'
<1> SUFFICES ASSUME NEW v \in Works PROVE CallOK(v)'
  BY DEF CallState
<1>m. ~missed
  BY MissedStays
<1>a. CallOK(v) /\ WorkState /\ CarryState /\ ThreadTypeOK /\ QueueTypeOK /\ v \in Procs
  BY <1>m, Names DEF WorkqueueInv, TypeOK, CallState
<1>b. ASSUME UNCHANGED <<calls, runs>>, Outstanding(v)' <=> Outstanding(v),
             pc'[v] = "ready" => pc[v] = "ready"
      PROVE  CallOK(v)'
  BY <1>a, <1>b DEF CallOK
<1>c. ASSUME wq_list' = wq_list, \A p \in Procs : Carries(p, v)' <=> Carries(p, v)
      PROVE  Outstanding(v)' <=> Outstanding(v)
  BY <1>c DEF Outstanding
<1>1. ASSUME UNCHANGED <<calls, runs, pc, work, wq_list>> PROVE CallOK(v)'
  BY <1>b, <1>c, <1>1 DEF Carries
<1>2. ASSUME 
                  \/ mthpc_workpool_exit
                  \/ mthpc_workqueues_join_begin
                  \/ mthpc_workqueues_join_check
                  \/ Skips
                  \/ mthpc_wq_clear_active
                  \/ mthpc_workqueues_join_free
                  \/ Passes
      PROVE  CallOK(v)'
  <2>1. UNCHANGED <<calls, runs, pc, work, wq_list>>
    BY <1>2 DEF mthpc_workpool_exit, mthpc_workqueues_join_begin,
       mthpc_workqueues_join_check, Skips, mthpc_wq_clear_active,
       mthpc_workqueues_join_free, Passes, queueVars, localVars, exitVars, rcuVars
  <2> QED BY <2>1, <1>1
<1>3. ASSUME NEW k \in 1..Len(pool), Unlinks(k) PROVE CallOK(v)'
  <2>1. UNCHANGED <<calls, runs, pc, work, wq_list>>
    BY <1>3 DEF Unlinks, queueVars, localVars, exitVars, rcuVars
  <2> QED BY <2>1, <1>1
<1>4. ASSUME NEW w \in Works, mthpc_schedule_work_on(w) PROVE CallOK(v)'
  <2>1. /\ pc[w] = "ready" /\ pc' = [pc EXCEPT ![w] = "lock"] /\ work' = [work EXCEPT ![w] = w]
        /\ wq_list' = wq_list /\ w \in Procs /\ calls' = [calls EXCEPT ![w] = @ + 1] /\ runs' = runs
    BY <1>4, Names DEF mthpc_schedule_work_on, Schedule, queueVars
  <2>2. CASE v = w
    <3>1. ~Outstanding(v)
      <4>1. calls[v] = 0 /\ runs[v] \in Nat
        BY <1>a, <2>1, <2>2 DEF CallOK, ThreadTypeOK
      <4> QED BY <1>a, <4>1 DEF CallOK
    <3>2. Outstanding(v)'
      BY <1>a, <2>1, <2>2 DEF Outstanding, Carries, ThreadTypeOK
    <3>3. calls'[v] = calls[v] + 1 /\ pc'[v] = "lock"
      BY <1>a, <2>1, <2>2 DEF ThreadTypeOK
    <3> QED BY <1>a, <2>1, <3>1, <3>2, <3>3 DEF CallOK
  <2>3. CASE v # w
    <3>1. \A r \in Procs : Carries(r, v)' <=> Carries(r, v)
      BY <1>a, <2>1, <2>3 DEF Carries, ThreadTypeOK
    <3>2. calls'[v] = calls[v] /\ pc'[v] = pc[v]
      BY <1>a, <2>1, <2>3 DEF ThreadTypeOK
    <3>3. Outstanding(v)' <=> Outstanding(v)
      BY <1>c, <2>1, <3>1
    <3> QED BY <1>a, <2>1, <3>2, <3>3 DEF CallOK
  <2> QED BY <2>2, <2>3
<1>5. ASSUME NEW p \in Procs, mthpc_get_workqueue_find(p) PROVE CallOK(v)'
  <2>1. UNCHANGED <<calls, runs, wq_list>>
    BY <1>5 DEF mthpc_get_workqueue_find, mthpc_rcu_read_unlock, queueVars, localVars,
       exitVars, rcuVars
  <2>2. /\ \A r \in Procs : Carries(r, v)' <=> Carries(r, v)
        /\ pc'[v] = "ready" => pc[v] = "ready"
    BY <1>a, Names, <1>5 DEF Carries, ThreadTypeOK, mthpc_get_workqueue_find,
       mthpc_rcu_read_unlock, queueVars, localVars, exitVars, rcuVars
  <2> QED BY <1>b, <1>c, <2>1, <2>2
<1>6. ASSUME NEW p \in Procs, mthpc_workqueue_add_locked(p) PROVE CallOK(v)'
  <2>1. /\ pc[p] = "add" /\ wq[p] \in Queues /\ work[p] \in Works
        /\ ToSet(wq_list'[wq[p]]) = ToSet(wq_list[wq[p]]) \union {work[p]}
        /\ IsInjective(wq_list'[wq[p]])
        /\ \A q \in Queues : q # wq[p] => wq_list'[q] = wq_list[q]
        /\ pc' = [pc EXCEPT ![p] = "wake"] /\ work' = work
    BY <1>m, <1>6, WorkAdded
  <2>2. UNCHANGED <<calls, runs>>
    BY <1>6 DEF mthpc_workqueue_add_locked
  <2>3. /\ Carries(p, work[p]) /\ (pc'[v] = "ready" => pc[v] = "ready")
        /\ \A r \in Procs : Carries(r, v)' <=> Carries(r, v) /\ r # p
    BY <1>a, <2>1 DEF Carries, ThreadTypeOK
  <2>4. \A r \in Queues : v \in ToSet(wq_list'[r]) <=> v \in ToSet(wq_list[r]) \/ (r = wq[p] /\ v = work[p])
    BY <2>1
  <2>5. CASE v = work[p]
    BY <1>b, <2>1, <2>2, <2>3, <2>4, <2>5 DEF Outstanding
  <2>6. CASE v # work[p]
    <3>1. ~Carries(p, v)
      BY <2>6 DEF Carries
    <3> QED BY <1>b, <2>1, <2>2, <2>3, <2>4, <2>6, <3>1 DEF Outstanding
  <2> QED BY <2>5, <2>6
<1>7. ASSUME NEW p \in Procs, NEW q \in Queues, Allocates(p, q) PROVE CallOK(v)'
  <2>1. /\ pc[p] = "alloc" /\ work[p] \in Works
        /\ ToSet(wq_list'[q]) = {work[p]} /\ IsInjective(wq_list'[q])
        /\ ToSet(wq_list[q]) = {}
        /\ \A r \in Queues : r # q => wq_list'[r] = wq_list[r]
        /\ pc' = [pc EXCEPT ![p] = "link"] /\ work' = work
    BY <1>m, <1>7, WorkStarted, ShortLists
  <2>2. UNCHANGED <<calls, runs>>
    BY <1>7 DEF Allocates
  <2>3. /\ Carries(p, work[p]) /\ (pc'[v] = "ready" => pc[v] = "ready")
        /\ \A r \in Procs : Carries(r, v)' <=> Carries(r, v) /\ r # p
    BY <1>a, <2>1 DEF Carries, ThreadTypeOK
  <2>4. \A r \in Queues : v \in ToSet(wq_list'[r]) <=> v \in ToSet(wq_list[r]) \/ (r = q /\ v = work[p])
    BY <2>1
  <2>5. CASE v = work[p]
    BY <1>b, <2>1, <2>2, <2>3, <2>4, <2>5 DEF Outstanding
  <2>6. CASE v # work[p]
    <3>1. ~Carries(p, v)
      BY <2>6 DEF Carries
    <3> QED BY <1>b, <2>1, <2>2, <2>3, <2>4, <2>6, <3>1 DEF Outstanding
  <2> QED BY <2>5, <2>6
<1>8. ASSUME NEW p \in Procs, LinksNew(p) PROVE CallOK(v)'
  <2>1. UNCHANGED <<calls, runs, wq_list>>
    BY <1>8 DEF LinksNew, mthpc_list_add_tail_rcu, OneMore, queueVars, localVars,
       exitVars, rcuVars
  <2>2. /\ \A r \in Procs : Carries(r, v)' <=> Carries(r, v)
        /\ pc'[v] = "ready" => pc[v] = "ready"
    BY <1>a, Names, <1>8 DEF Carries, ThreadTypeOK, LinksNew, mthpc_list_add_tail_rcu,
       OneMore, queueVars, localVars, exitVars, rcuVars
  <2> QED BY <1>b, <1>c, <2>1, <2>2
<1>9. ASSUME NEW p \in Procs, NEW r \in Queues, UsesOld(p, r) PROVE CallOK(v)'
  <2>1. /\ pc[p] = "link" /\ wq[p] \in Queues /\ work[p] \in Works /\ r # wq[p]
        /\ ToSet(wq_list[wq[p]]) = {work[p]} /\ wq_list'[wq[p]] = <<>>
        /\ ToSet(wq_list'[r]) = ToSet(wq_list[r]) \union {work[p]}
        /\ IsInjective(wq_list'[r])
        /\ \A q \in Queues : q # r /\ q # wq[p] => wq_list'[q] = wq_list[q]
        /\ pc' = [pc EXCEPT ![p] = "wake"] /\ work' = work
    BY <1>m, <1>9, WorkMoved
  <2>2. ToSet(wq_list'[wq[p]]) = {} /\ IsInjective(wq_list'[wq[p]])
    BY <2>1, ShortLists
  <2>3. UNCHANGED <<calls, runs>>
    BY <1>9 DEF UsesOld
  <2>4. /\ \A y \in Procs : Carries(y, v)' <=> Carries(y, v)
        /\ pc'[v] = "ready" => pc[v] = "ready"
    BY <1>a, <2>1 DEF Carries, ThreadTypeOK
  <2>5. (\E q \in Queues : v \in ToSet(wq_list'[q])) <=> \E q \in Queues : v \in ToSet(wq_list[q])
    <3>1. CASE v = work[p]
      BY <2>1, <3>1
    <3>2. CASE v # work[p]
      BY <2>1, <2>2, <3>2
    <3> QED BY <3>1, <3>2
  <2> QED BY <1>b, <2>3, <2>4, <2>5 DEF Outstanding
<1>10. ASSUME NEW p \in Procs, mthpc_works_handler(p) PROVE CallOK(v)'
  <2>1. /\ pc[p] = "create" /\ pc' = [pc EXCEPT ![p] = "wake", ![wq[p]] = "init"]
        /\ UNCHANGED <<calls, runs, wq_list, work>>
    BY <1>10 DEF mthpc_works_handler, queueVars
  <2>2. wq[p] \in Queues /\ pc[wq[p]] = "unborn"
    BY <2>1 DEF WorkqueueInv, OwnerState, OwnerOK
  <2>3. /\ \A r \in Procs : Carries(r, v)' <=> Carries(r, v)
        /\ pc'[v] = "ready" => pc[v] = "ready"
    BY <1>a, <2>1, <2>2, Names DEF Carries, ThreadTypeOK
  <2> QED BY <1>b, <1>c, <2>1, <2>3
<1>11. ASSUME NEW p \in Procs, mthpc_wq_futex_wake_store(p) PROVE CallOK(v)'
  <2>1. UNCHANGED <<calls, runs, wq_list>>
    BY <1>11 DEF mthpc_wq_futex_wake_store, NonEmpty, queueVars, localVars, exitVars,
       rcuVars
  <2>2. /\ \A r \in Procs : Carries(r, v)' <=> Carries(r, v)
        /\ pc'[v] = "ready" => pc[v] = "ready"
    BY <1>a, Names, <1>11 DEF Carries, ThreadTypeOK, mthpc_wq_futex_wake_store, NonEmpty,
       queueVars, localVars, exitVars, rcuVars
  <2> QED BY <1>b, <1>c, <2>1, <2>2
<1>12. ASSUME NEW p \in Procs, mthpc_wq_futex_wake_broadcast(p) PROVE CallOK(v)'
  <2>1. UNCHANGED <<calls, runs, wq_list>>
    BY <1>12 DEF mthpc_wq_futex_wake_broadcast, queueVars, localVars, exitVars, rcuVars
  <2>2. /\ \A r \in Procs : Carries(r, v)' <=> Carries(r, v)
        /\ pc'[v] = "ready" => pc[v] = "ready"
    BY <1>a, Names, <1>12 DEF Carries, ThreadTypeOK, mthpc_wq_futex_wake_broadcast,
       queueVars, localVars, exitVars, rcuVars
  <2> QED BY <1>b, <1>c, <2>1, <2>2
<1>13. ASSUME NEW q \in Queues, mthpc_wq_active(q) PROVE CallOK(v)'
  <2>1. UNCHANGED <<calls, runs, wq_list>>
    BY <1>13 DEF mthpc_wq_active, queueVars, localVars, exitVars, rcuVars
  <2>2. /\ \A r \in Procs : Carries(r, v)' <=> Carries(r, v)
        /\ pc'[v] = "ready" => pc[v] = "ready"
    BY <1>a, Names, <1>13 DEF Carries, ThreadTypeOK, mthpc_wq_active, queueVars,
       localVars, exitVars, rcuVars
  <2> QED BY <1>b, <1>c, <2>1, <2>2
<1>14. ASSUME NEW q \in Queues, mthpc_worker_run_take(q) PROVE CallOK(v)'
  <2>1. CASE wq_list[q] = <<>>
    <3>1. pc[q] = "take" /\ pc' = [pc EXCEPT ![q] = "wait"] /\ UNCHANGED <<wq_list, work, calls, runs>>
      BY <2>1, <1>14 DEF mthpc_worker_run_take
    <3>2. /\ \A r \in Procs : Carries(r, v)' <=> Carries(r, v)
          /\ pc'[v] = "ready" => pc[v] = "ready"
      BY <1>a, <3>1, Names DEF Carries, ThreadTypeOK
    <3> QED BY <1>b, <1>c, <3>1, <3>2
  <2>2. CASE wq_list[q] # <<>>
    <3>1. /\ pc[q] = "take" /\ work'[q] \in Works
          /\ ToSet(wq_list[q]) = ToSet(wq_list'[q]) \union {work'[q]}
          /\ work'[q] \notin ToSet(wq_list'[q]) /\ IsInjective(wq_list'[q])
          /\ \A r \in Queues : r # q => wq_list'[r] = wq_list[r]
          /\ \A r \in Procs : r # q => work'[r] = work[r]
          /\ pc' = [pc EXCEPT ![q] = "func"]
      BY <1>m, <2>2, <1>14, WorkTaken
    <3>2. UNCHANGED <<calls, runs>>
      BY <1>14 DEF mthpc_worker_run_take
    <3>3. /\ \A r \in Procs : Carries(r, v)' <=> Carries(r, v) \/ (r = q /\ v = work'[q])
          /\ pc'[v] = "ready" => pc[v] = "ready"
      BY <1>a, <3>1, Names DEF Carries, ThreadTypeOK
    <3>4. \A r \in Queues : v \in ToSet(wq_list[r]) <=> v \in ToSet(wq_list'[r]) \/ (r = q /\ v = work'[q])
      BY <3>1
    <3>5. q \in Procs
      BY Names
    <3>6. Outstanding(v)' <=> Outstanding(v)
      BY <3>3, <3>4, <3>5 DEF Outstanding
    <3> QED BY <1>b, <3>2, <3>3, <3>6
  <2> QED BY <2>1, <2>2
<1>15. ASSUME NEW q \in Queues, mthpc_wq_futex_wait(q) PROVE CallOK(v)'
  <2>1. UNCHANGED <<calls, runs, wq_list>>
    BY <1>15 DEF mthpc_wq_futex_wait, queueVars, localVars, exitVars, rcuVars
  <2>2. /\ \A r \in Procs : Carries(r, v)' <=> Carries(r, v)
        /\ pc'[v] = "ready" => pc[v] = "ready"
    BY <1>a, Names, <1>15 DEF Carries, ThreadTypeOK, mthpc_wq_futex_wait, queueVars,
       localVars, exitVars, rcuVars
  <2> QED BY <1>b, <1>c, <2>1, <2>2
<1>16. ASSUME NEW q \in Queues, func_return(q) PROVE CallOK(v)'
  <2>1. /\ pc[q] = "func" /\ runs' = [runs EXCEPT ![work[q]] = @ + 1]
        /\ wq_list' = wq_list /\ calls' = calls
        /\ pc' = [pc EXCEPT ![q] = "top"] /\ work' = [work EXCEPT ![q] = NULL]
    BY <1>16 DEF func_return, Schedule, queueVars
  <2>2. work[q] \in Works /\ q \in Procs /\ v # q
    BY <1>a, <2>1, Names DEF CarryState
  <2>3. pc'[v] = pc[v]
    BY <1>a, <2>1, <2>2 DEF ThreadTypeOK
  <2>4. CASE v = work[q]
    <3>1. Carries(q, v) /\ Outstanding(v)
      BY <2>1, <2>2, <2>4 DEF Carries, Outstanding
    <3>2. ~Outstanding(v)'
      <4>1. \A r \in Procs : ~Carries(r, v)'
        BY <1>a, <2>1, <2>2, <3>1 DEF Carries, WorkState, ThreadTypeOK
      <4>2. \A r \in Queues : v \notin ToSet(wq_list[r])
        BY <1>a, <2>2, <3>1 DEF WorkState
      <4> QED BY <2>1, <4>1, <4>2 DEF Outstanding
    <3>3. runs'[v] = runs[v] + 1 /\ calls'[v] = calls[v]
      BY <1>a, <2>1, <2>2, <2>4 DEF ThreadTypeOK
    <3>4. calls[v] = runs[v] + 1 /\ runs[v] \in Nat
      BY <1>a, <3>1 DEF CallOK, ThreadTypeOK
    <3>5. pc[v] # "ready"
      BY <1>a, <3>4 DEF CallOK
    <3> QED BY <2>3, <3>2, <3>3, <3>4, <3>5 DEF CallOK
  <2>5. CASE v # work[q]
    <3>1. \A r \in Procs : Carries(r, v)' <=> Carries(r, v)
      BY <1>a, <2>1, <2>2, <2>5, Names DEF Carries, ThreadTypeOK
    <3>2. runs'[v] = runs[v] /\ calls'[v] = calls[v]
      BY <1>a, <2>1, <2>5 DEF ThreadTypeOK
    <3>3. Outstanding(v)' <=> Outstanding(v)
      BY <1>c, <2>1, <3>1
    <3> QED BY <1>a, <2>3, <3>2, <3>3 DEF CallOK
  <2> QED BY <2>4, <2>5
<1>17. ASSUME NEW q \in Queues, func_reschedule(q) PROVE CallOK(v)'
  <2>1. /\ pc[q] = "func" /\ runs' = [runs EXCEPT ![work[q]] = @ + 1]
        /\ wq_list' = wq_list /\ calls' = [calls EXCEPT ![work[q]] = @ + 1]
        /\ pc' = [pc EXCEPT ![q] = "lock"] /\ work' = [work EXCEPT ![q] = work[q]]
    BY <1>17 DEF func_reschedule, Schedule, queueVars
  <2>2. work[q] \in Works /\ q \in Procs /\ v # q
    BY <1>a, <2>1, Names DEF CarryState
  <2>3. pc'[v] = pc[v]
    BY <1>a, <2>1, <2>2 DEF ThreadTypeOK
  <2>4. CASE v = work[q]
    <3>1. Carries(q, v) /\ Outstanding(v)
      BY <2>1, <2>2, <2>4 DEF Carries, Outstanding
    <3>2. Outstanding(v)'
      <4>1. Carries(q, v)'
        BY <1>a, <2>1, <2>2, <2>4 DEF Carries, ThreadTypeOK
      <4> QED BY <2>2, <4>1 DEF Outstanding
    <3>3. runs'[v] = runs[v] + 1 /\ calls'[v] = calls[v] + 1
      BY <1>a, <2>1, <2>2, <2>4 DEF ThreadTypeOK
    <3>4. calls[v] = runs[v] + 1 /\ runs[v] \in Nat
      BY <1>a, <3>1 DEF CallOK, ThreadTypeOK
    <3>5. pc[v] # "ready"
      BY <1>a, <3>4 DEF CallOK
    <3> QED BY <2>3, <3>2, <3>3, <3>4, <3>5 DEF CallOK
  <2>5. CASE v # work[q]
    <3>1. \A r \in Procs : Carries(r, v)' <=> Carries(r, v)
      BY <1>a, <2>1, <2>2, <2>5, Names DEF Carries, ThreadTypeOK
    <3>2. runs'[v] = runs[v] /\ calls'[v] = calls[v]
      BY <1>a, <2>1, <2>5 DEF ThreadTypeOK
    <3>3. Outstanding(v)' <=> Outstanding(v)
      BY <1>c, <2>1, <3>1
    <3> QED BY <1>a, <2>3, <3>2, <3>3 DEF CallOK
  <2> QED BY <2>4, <2>5
<1>18. ASSUME NEW p \in Procs, mthpc_rcu_read_lock(p) \/ mthpc_get_workqueue_lost(p)
       PROVE  CallOK(v)'
  <2>1. UNCHANGED <<calls, runs, wq_list>>
    BY <1>18 DEF mthpc_rcu_read_lock, mthpc_get_workqueue_lost, queueVars
  <2>2. /\ \A r \in Procs : Carries(r, v)' <=> Carries(r, v)
        /\ pc'[v] = "ready" => pc[v] = "ready"
    BY <1>a, <1>18 DEF Carries, ThreadTypeOK, mthpc_rcu_read_lock, mthpc_get_workqueue_lost
  <2> QED BY <1>b, <1>c, <2>1, <2>2
<1>19. ASSUME NEW q \in Queues, mthpc_rcu_thread_init(q) PROVE CallOK(v)'
  <2>1. UNCHANGED <<calls, runs, wq_list>>
    BY <1>19 DEF mthpc_rcu_thread_init, queueVars
  <2>2. /\ \A r \in Procs : Carries(r, v)' <=> Carries(r, v)
        /\ pc'[v] = "ready" => pc[v] = "ready"
    BY <1>a, <1>19, Names DEF Carries, ThreadTypeOK, mthpc_rcu_thread_init
  <2> QED BY <1>b, <1>c, <2>1, <2>2
<1> QED BY StepCases, <1>2, <1>3, <1>4, <1>5, <1>6, <1>7, <1>8, <1>9, <1>10, <1>11,
   <1>12, <1>13, <1>14, <1>15, <1>16, <1>17, <1>18, <1>19

(* Which cpu a queue was made for, and the order of the queues of one cpu. *)
LEMMA CpuStep ==
    ASSUME WorkqueueInv, [Next]_vars, CpuState
    PROVE  CpuState'
<1>a. ThreadTypeOK /\ QueueTypeOK /\ NrCpu \in Nat \ {0}
  BY WorkqueueAssumption DEF WorkqueueInv, TypeOK, WorkqueueAssumption
<1>b. ASSUME UNCHANGED <<wq_cpu, asked, pool>>,
             \A p \in Procs : pc'[p] = "link" =>
                pc[p] = "link" /\ wq'[p] = wq[p] /\ cpu'[p] = cpu[p]
      PROVE  CpuState'
  BY <1>b DEF CpuState, OneQueuePerCpu
<1>c. pool \in Seq(Queues) /\ Len(pool) \in Nat /\ \A i \in 1..Len(pool) : pool[i] \in Queues
  BY LenProperties DEF WorkqueueInv, TypeOK, ListTypeOK
<1>1. CASE \/ mthpc_workpool_exit \/ mthpc_workqueues_join_begin
           \/ mthpc_workqueues_join_check \/ Skips \/ mthpc_wq_clear_active
           \/ mthpc_workqueues_join_free \/ Passes
  BY <1>b, <1>1 DEF mthpc_workpool_exit, mthpc_workqueues_join_begin,
     mthpc_workqueues_join_check, Skips, mthpc_wq_clear_active,
     mthpc_workqueues_join_free, Passes, queueVars, localVars
<1>2. ASSUME NEW p \in Procs, NEW w \in Works, Schedule(p, w), UNCHANGED queueVars PROVE CpuState'
  <2>1. UNCHANGED <<wq_cpu, asked, pool>>
    BY <1>2 DEF queueVars
  <2>2. \A r \in Procs : pc'[r] = "link" => pc[r] = "link" /\ wq'[r] = wq[r] /\ cpu'[r] = cpu[r]
    <3>1. PICK c : cpu' = [cpu EXCEPT ![p] = c]
      BY <1>2 DEF Schedule
    <3>2. pc' = [pc EXCEPT ![p] = "lock"] /\ wq' = [wq EXCEPT ![p] = HEAD]
      BY <1>2 DEF Schedule
    <3> QED BY <1>a, <3>1, <3>2 DEF ThreadTypeOK
  <2> QED BY <1>b, <2>1, <2>2
<1>3. ASSUME NEW w \in Works, mthpc_schedule_work_on(w) PROVE CpuState'
  BY <1>2, <1>3, Names DEF mthpc_schedule_work_on
<1>4. ASSUME NEW q \in Queues, func_reschedule(q) PROVE CpuState'
  <2>1. pc[q] = "func" /\ q \in Procs
    BY <1>4, Names DEF func_reschedule
  <2>2. work[q] \in Works
    BY <2>1 DEF WorkqueueInv, CarryState
  <2> QED BY <1>2, <1>4, <2>1, <2>2 DEF func_reschedule
<1>5. ASSUME NEW p \in Procs,
             \/ mthpc_rcu_read_lock(p) \/ mthpc_get_workqueue_lost(p)
             \/ mthpc_get_workqueue_find(p) \/ mthpc_workqueue_add_locked(p)
             \/ (\E r \in Queues : UsesOld(p, r)) \/ mthpc_wq_futex_wake_store(p)
      PROVE  CpuState'
  <2>1. /\ UNCHANGED <<wq_cpu, asked, pool, cpu>>
        /\ \E c : c # "link" /\ pc' = [pc EXCEPT ![p] = c]
        /\ wq' = wq \/ \E q : wq' = [wq EXCEPT ![p] = q]
    BY <1>5 DEF mthpc_rcu_read_lock, mthpc_get_workqueue_lost, mthpc_get_workqueue_find,
       mthpc_workqueue_add_locked, UsesOld, mthpc_wq_futex_wake_store, queueVars
  <2>2. \A r \in Procs : pc'[r] = "link" => pc[r] = "link" /\ wq'[r] = wq[r] /\ cpu'[r] = cpu[r]
    BY <1>a, <2>1 DEF ThreadTypeOK
  <2> QED BY <1>b, <2>1, <2>2
<1>6. ASSUME NEW p \in Procs, NEW q \in Queues, Allocates(p, q) PROVE CpuState'
  <2>1. /\ ~Counted(q) /\ ~Prealloc(q) /\ pool' = pool
        /\ pc' = [pc EXCEPT ![p] = "link"] /\ wq' = [wq EXCEPT ![p] = q]
    BY <1>6, WorkStarted DEF Allocates
  <2>2. PICK c : /\ cpu' = [cpu EXCEPT ![p] = c] /\ wq_cpu' = [wq_cpu EXCEPT ![q] = c % NrCpu]
                 /\ asked' = [asked EXCEPT ![q] = c]
    BY <1>6 DEF Allocates
  <2>3. \A i \in 1..Len(pool) : pool[i] # q
    BY <1>c, <2>1, InList DEF Counted
  <2>4. \A r \in Procs : pc[r] = "link" => wq[r] # q /\ wq[r] \in Queues
    BY <2>1 DEF Prealloc, WorkqueueInv, OwnerState, OwnerOK
  <2>5. OneQueuePerCpu'
    <3>1. \A i \in 1..Len(pool) : wq_cpu'[pool[i]] = wq_cpu[pool[i]] /\ asked'[pool[i]] = asked[pool[i]]
      BY <1>a, <1>c, <2>2, <2>3 DEF QueueTypeOK
    <3> QED BY <2>1, <3>1 DEF CpuState, OneQueuePerCpu
  <2>6. \A r \in Procs : pc'[r] = "link" =>
           cpu'[r] = asked'[wq'[r]] /\ wq_cpu'[wq'[r]] = asked'[wq'[r]] % NrCpu
    <3> TAKE r \in Procs
    <3>1. CASE r = p
      <4>1. wq'[r] = q /\ cpu'[r] = c /\ asked'[q] = c /\ wq_cpu'[q] = c % NrCpu
        BY <1>a, <2>1, <2>2, <3>1 DEF ThreadTypeOK, QueueTypeOK
      <4> QED BY <4>1
    <3>2. CASE r # p
      <4>1. pc'[r] = pc[r] /\ wq'[r] = wq[r] /\ cpu'[r] = cpu[r]
        BY <1>a, <2>1, <2>2, <3>2 DEF ThreadTypeOK
      <4>2. pc[r] = "link" => asked'[wq[r]] = asked[wq[r]] /\ wq_cpu'[wq[r]] = wq_cpu[wq[r]]
        BY <1>a, <2>2, <2>4 DEF QueueTypeOK
      <4> QED BY <4>1, <4>2 DEF CpuState
    <3> QED BY <3>1, <3>2
  <2> QED BY <2>5, <2>6 DEF CpuState
<1>7. ASSUME NEW p \in Procs, LinksNew(p) PROVE CpuState'
  <2>1. /\ pc[p] = "link" /\ \A i \in 1..Len(pool) : cpu[p] # wq_cpu[pool[i]]
        /\ pool' = Append(pool, wq[p]) /\ UNCHANGED <<wq, cpu, wq_cpu, asked>>
        /\ pc' = [pc EXCEPT ![p] = "create"]
    BY <1>7 DEF LinksNew, mthpc_list_add_tail_rcu
  <2>2. wq[p] \in Queues /\ cpu[p] \in Int
    BY <1>a, <2>1 DEF WorkqueueInv, OwnerState, OwnerOK, ThreadTypeOK
  <2>3. /\ Len(pool') = Len(pool) + 1 /\ pool'[Len(pool) + 1] = wq[p]
        /\ \A i \in 1..Len(pool) : pool'[i] = pool[i]
    BY <1>c, <2>1, <2>2, AppendProperties
  <2>4. cpu[p] = asked[wq[p]] /\ wq_cpu[wq[p]] = cpu[p] % NrCpu
    BY <2>1 DEF CpuState
  <2>5. cpu[p] \in 0..(NrCpu - 1) => cpu[p] % NrCpu = cpu[p]
    BY <1>a, <2>2
  <2>6. OneQueuePerCpu'
    <3> SUFFICES ASSUME NEW i \in 1..Len(pool'), NEW j \in 1..Len(pool'), i < j,
                        wq_cpu[pool'[i]] = wq_cpu[pool'[j]]
                 PROVE  asked[pool'[j]] \notin 0..(NrCpu - 1)
      BY <2>1 DEF OneQueuePerCpu
    <3>1. i \in 1..Len(pool) /\ pool'[i] = pool[i]
      BY <1>c, <2>3
    <3>2. CASE j = Len(pool) + 1
      BY <2>1, <2>3, <2>4, <2>5, <3>1, <3>2
    <3>3. CASE j # Len(pool) + 1
      <4>1. j \in 1..Len(pool) /\ pool'[j] = pool[j]
        BY <1>c, <2>3, <3>3
      <4> QED BY <3>1, <4>1 DEF CpuState, OneQueuePerCpu
    <3> QED BY <3>2, <3>3
  <2>7. \A r \in Procs : pc'[r] = "link" => pc[r] = "link"
    BY <1>a, <2>1 DEF ThreadTypeOK
  <2> QED BY <2>1, <2>6, <2>7 DEF CpuState
<1>8. ASSUME NEW p \in Procs, mthpc_works_handler(p) PROVE CpuState'
  <2>1. /\ pc' = [pc EXCEPT ![p] = "wake", ![wq[p]] = "init"]
        /\ UNCHANGED <<wq, cpu, wq_cpu, asked, pool>>
    BY <1>8 DEF mthpc_works_handler, queueVars
  <2>2. \A r \in Procs : pc'[r] = "link" => pc[r] = "link" /\ wq'[r] = wq[r] /\ cpu'[r] = cpu[r]
    BY <1>a, <2>1 DEF ThreadTypeOK
  <2> QED BY <1>b, <2>1, <2>2
<1>9. ASSUME NEW p \in Procs, mthpc_wq_futex_wake_broadcast(p) PROVE CpuState'
  <2>1. \A r \in Procs : pc'[r] = "link" => pc[r] = "link" /\ wq'[r] = wq[r] /\ cpu'[r] = cpu[r]
    BY <1>a, <1>9 DEF ThreadTypeOK, mthpc_wq_futex_wake_broadcast
  <2> QED BY <1>b, <1>9, <2>1 DEF mthpc_wq_futex_wake_broadcast, queueVars
<1>10. ASSUME NEW q \in Queues,
              \/ mthpc_rcu_thread_init(q) \/ mthpc_wq_active(q) \/ mthpc_worker_run_take(q)
              \/ mthpc_wq_futex_wait(q) \/ func_return(q)
       PROVE  CpuState'
  <2>1. /\ UNCHANGED <<wq_cpu, asked, pool, cpu, wq>>
        /\ \E c : c # "link" /\ pc' = [pc EXCEPT ![q] = c]
    BY <1>10 DEF mthpc_rcu_thread_init, mthpc_wq_active, mthpc_worker_run_take,
       mthpc_wq_futex_wait, func_return, queueVars
  <2>2. \A r \in Procs : pc'[r] = "link" => pc[r] = "link"
    BY <1>a, <2>1 DEF ThreadTypeOK
  <2> QED BY <1>b, <2>1, <2>2
<1>11. ASSUME NEW k \in 1..Len(pool), Unlinks(k) PROVE CpuState'
  <2>1. UNCHANGED <<pc, wq, wq_cpu, cpu, asked>> /\ pool' = RemoveAt(pool, k)
    BY <1>11 DEF Unlinks, localVars
  <2>2. /\ Len(pool') = Len(pool) - 1
        /\ \A i \in 1..(Len(pool) - 1) : pool'[i] = IF i < k THEN pool[i] ELSE pool[i + 1]
    BY <1>c, <2>1, Removed
  <2>3. OneQueuePerCpu'
    <3> SUFFICES ASSUME NEW i \in 1..Len(pool'), NEW j \in 1..Len(pool'), i < j,
                        wq_cpu[pool'[i]] = wq_cpu[pool'[j]]
                 PROVE  asked[pool'[j]] \notin 0..(NrCpu - 1)
      BY <2>1 DEF OneQueuePerCpu
    <3> DEFINE Old(n) == IF n < k THEN n ELSE n + 1
    <3>1. /\ Old(i) \in 1..Len(pool) /\ Old(j) \in 1..Len(pool) /\ Old(i) < Old(j)
          /\ pool'[i] = pool[Old(i)] /\ pool'[j] = pool[Old(j)]
      BY <1>c, <2>2
    <3> HIDE DEF Old
    <3> QED BY <3>1 DEF CpuState, OneQueuePerCpu
  <2> QED BY <2>1, <2>3 DEF CpuState
<1> QED BY StepCases, <1>1, <1>3, <1>4, <1>5, <1>6, <1>7, <1>8, <1>9, <1>10, <1>11

(* The inductive invariant holds initially. *)
LEMMA InvInit == Init => WorkqueueInv
<1> SUFFICES ASSUME Init PROVE WorkqueueInv
  OBVIOUS
<1>a. /\ mem = [q \in Queues |-> "none"] /\ wq_list = [q \in Queues |-> <<>>]
      /\ wq_active = [q \in Queues |-> FALSE]
      /\ pool = <<>> /\ wp_count = 0 /\ next = [q \in Queues \union {HEAD} |-> q]
      /\ pc = [p \in Procs |-> IF p \in Works THEN "ready" ELSE "unborn"]
      /\ readers = {} /\ waitfor = {} /\ sync = 0
      /\ mpc = "run" /\ walk = <<>> /\ free_list = <<>>
      /\ calls = [w \in Works |-> 0] /\ runs = [w \in Works |-> 0]
  BY DEF Init
<1>b. \A p \in Procs : pc[p] \in {"ready", "unborn"}
  BY <1>a
<1>c. NrCpu \in Nat \ {0} /\ MaxWq \in Nat
  BY WorkqueueAssumption DEF WorkqueueAssumption
<1>1. QueueTypeOK
  BY <1>c DEF Init, QueueTypeOK
<1>2. ListTypeOK
  BY <1>a DEF ListTypeOK
<1>3. ThreadTypeOK
  BY DEF Init, ThreadTypeOK
<1>4. ListState
  BY <1>a, ShortLists DEF ListState
<1>5. \A q \in Queues : ~Counted(q) /\ ~Prealloc(q)
  BY <1>a, <1>b, ShortLists DEF Counted, WqLocked, Prealloc
<1>6. QueueState
  <2> SUFFICES ASSUME NEW q \in Queues PROVE QueueOK(q)
    BY DEF QueueState
  <2>1. mem[q] = "none" /\ wq_list[q] = <<>> /\ pc[q] = "unborn"
    BY <1>a, Names
  <2>2. q \notin ToSet(pool) /\ ~WqLocked(q)
    BY <1>5 DEF Counted
  <2> QED BY <1>5, <2>1, <2>2 DEF QueueOK
<1>7. OwnerState
  BY <1>b DEF OwnerState, OwnerOK
<1>8. ReaderState
  BY <1>a, <1>b DEF ReaderState
<1>9. ChainState
  <2>1. Len(pool) = 0
    BY <1>a
  <2>2. Before(Len(pool) + 1) = HEAD
    BY <2>1 DEF Before
  <2> QED BY <1>a, <2>1, <2>2 DEF ChainState
<1>10. ClientState
  BY <1>a, Names DEF ClientState
<1>11. WorkState
  BY <1>a, <1>b, ShortLists DEF WorkState, Carries
<1>12. CallState
  <2>1. \A w \in Works : ~Outstanding(w)
    BY <1>a, <1>b, ShortLists DEF Outstanding, Carries
  <2> QED BY <1>a, <2>1 DEF CallState, CallOK
<1>13. CountState
  <2>1. {q \in Queues : Counted(q)} = {}
    BY <1>5
  <2> QED BY <1>a, <2>1, FS_EmptySet DEF CountState
<1>14. SyncTypeOK
  BY DEF Init, SyncTypeOK
<1>15. PlaceState /\ SyncState
  BY <1>a DEF PlaceState, SyncState
<1>16. CarryState
  BY <1>b DEF CarryState
<1> QED BY <1>a, <1>c, <1>1, <1>2, <1>3, <1>4, <1>6, <1>7, <1>8, <1>9, <1>10, <1>11,
   <1>12, <1>13, <1>14, <1>15, <1>16
   DEF WorkqueueInv, TypeOK

(* The number of queues is bounded by the queues there are. *)
LEMMA CountBounds == CountState => wp_count \in 0..MaxWq
<1>1. MaxWq \in Nat
  BY WorkqueueAssumption DEF WorkqueueAssumption
<1>2. IsFiniteSet(Queues) /\ Cardinality(Queues) = MaxWq
  BY <1>1, FS_Interval DEF Queues
<1>3. Cardinality({q \in Queues : Counted(q)}) <= Cardinality(Queues)
  BY <1>2, FS_Subset
<1>4. Cardinality({q \in Queues : Counted(q)}) \in Nat
  BY <1>2, FS_Subset, FS_CardinalityType
<1> QED BY <1>1, <1>2, <1>3, <1>4 DEF CountState

(* Every step keeps the inductive invariant. *)
LEMMA InvStep == WorkqueueInv /\ [Next]_vars => WorkqueueInv'
<1> SUFFICES ASSUME WorkqueueInv, [Next]_vars PROVE WorkqueueInv'
  OBVIOUS
<1>1. CountState'
  BY CountStep
<1>2. wp_count' \in 0..MaxWq
  <2>1. (CountState => wp_count \in 0..MaxWq)'
    BY CountBounds, PTL
  <2> QED BY <1>1, <2>1
<1>3. TypeOK'
  BY <1>2, QueueTypeStep, ListTypeStep, ThreadTypeStep, SyncTypeStep DEF TypeOK
<1>4. missed' \/ (PlaceState /\ WorkState /\ CallState)'
  BY PlaceStep, WorkStep, CallStep
<1> QED
  BY <1>1, <1>3, <1>4, ListStep, QueueStep, OwnerStep, ReaderStep, ChainStep, ClientStep,
     CarryStep, SyncStep
  DEF WorkqueueInv
-----------------------------------------------------------------------------
(* When wp->count is 0 and the exit handler has started, nothing is left:  *)
(* no queue, no thread in the library and, unless a stale reader was       *)
(* passed, no work that was not run.                                       *)
LEMMA NothingLeft ==
    ASSUME WorkqueueInv, wp_count = 0, mpc # "run"
    PROVE  /\ pool = <<>> /\ \A q \in Queues : mem[q] # "alloc"
           /\ \A p \in Procs : pc[p] \in {"ready", "done", "unborn", "dead"}
           /\ missed \/ \A w \in Works : ~Outstanding(w)
<1> DEFINE C == {q \in Queues : Counted(q)}
<1>1. IsFiniteSet(C) /\ Cardinality(C) = 0
  <2>1. IsFiniteSet(Queues)
    BY FS_Interval, WorkqueueAssumption DEF WorkqueueAssumption, Queues
  <2> QED BY <2>1, FS_Subset DEF WorkqueueInv, CountState
<1>2. C = {}
  <2> HIDE DEF C
  <2> QED BY <1>1, FS_EmptySet
<1>3. \A q \in Queues : QueueOK(q) /\ ~Counted(q)
  BY <1>2 DEF WorkqueueInv, QueueState
<1>4. \A p \in Procs : pc[p] \in {"ready", "done", "unborn", "dead"}
  <2>1. \A w \in Works : pc[w] \in {"ready", "done"}
    BY DEF WorkqueueInv, ClientState
  <2>2. \A q \in Queues : pc[q] \in {"unborn", "dead"}
    BY <1>3 DEF QueueOK
  <2> QED BY <2>1, <2>2, Names
<1>5. \A q \in Queues :
         mem[q] # "alloc" /\ q \notin ToSet(pool) /\ (missed \/ wq_list[q] = <<>>)
  <2>1. \A q \in Queues : ~Prealloc(q)
    BY <1>4 DEF Prealloc
  <2> QED BY <1>3, <2>1 DEF QueueOK, Counted
<1>6. pool = <<>>
  <2>1. pool \in Seq(Queues)
    BY DEF WorkqueueInv, TypeOK, ListTypeOK
  <2>2. ToSet(pool) = {}
    BY <1>5, <2>1, InList
  <2> QED BY <2>1, <2>2, InList
<1>7. ASSUME ~missed PROVE \A w \in Works : ~Outstanding(w)
  <2>1. \A q \in Queues : ToSet(wq_list[q]) = {}
    BY <1>5, <1>7, ShortLists
  <2> QED BY <1>4, <2>1 DEF Outstanding, Carries
<1> QED BY <1>4, <1>5, <1>6, <1>7

(* Every step keeps what holds once the exit handler is through. *)
LEMMA DoneStep ==
    ASSUME WorkqueueInv, DoneState, [Next]_vars
    PROVE  DoneState'
<1> SUFFICES ASSUME mpc' = "done" PROVE wp_count' = 0
  BY DEF DoneState
<1>a. mpc = "done" => \A p \in Procs : pc[p] \in {"ready", "done", "unborn", "dead"}
  BY NothingLeft DEF DoneState
<1>1. ASSUME NEW p \in Procs, LinksNew(p) PROVE FALSE
  <2>1. pc[p] = "link" /\ mpc = "done"
    BY <1>1 DEF LinksNew, exitVars
  <2> QED BY <1>a, <2>1
<1>2. CASE mthpc_workqueues_join_check
  BY <1>2 DEF mthpc_workqueues_join_check, queueVars
<1>3. CASE mthpc_workqueues_join_free
  BY <1>3 DEF mthpc_workqueues_join_free
<1>4. ASSUME UNCHANGED <<mpc, wp_count>> PROVE wp_count' = 0
  BY <1>4 DEF DoneState
<1>5. ASSUME NEW w \in Works, mthpc_schedule_work_on(w) PROVE wp_count' = 0
  BY <1>4, <1>5 DEF mthpc_schedule_work_on, queueVars, exitVars
<1>6. ASSUME NEW p \in Procs,
             \/ mthpc_rcu_read_lock(p)
             \/ mthpc_get_workqueue_find(p)
             \/ mthpc_get_workqueue_lost(p)
             \/ mthpc_workqueue_add_locked(p)
             \/ \E q \in Queues : Allocates(p, q)
             \/ \E r \in Queues : UsesOld(p, r)
             \/ mthpc_works_handler(p)
             \/ mthpc_wq_futex_wake_store(p)
             \/ mthpc_wq_futex_wake_broadcast(p)
      PROVE  wp_count' = 0
  <2>1. UNCHANGED <<mpc, wp_count>>
    BY <1>6 DEF mthpc_rcu_read_lock, mthpc_get_workqueue_find,
       mthpc_get_workqueue_lost, mthpc_workqueue_add_locked, Allocates, UsesOld,
       mthpc_works_handler, mthpc_wq_futex_wake_store, mthpc_wq_futex_wake_broadcast,
       queueVars, exitVars
  <2> QED BY <1>4, <2>1
<1>7. ASSUME NEW q \in Queues,
             \/ mthpc_rcu_thread_init(q)
             \/ mthpc_wq_active(q)
             \/ mthpc_worker_run_take(q)
             \/ mthpc_wq_futex_wait(q)
             \/ func_return(q)
             \/ func_reschedule(q)
      PROVE  wp_count' = 0
  <2>1. UNCHANGED <<mpc, wp_count>>
    BY <1>7 DEF mthpc_rcu_thread_init, mthpc_wq_active, mthpc_worker_run_take, mthpc_wq_futex_wait, func_return,
       func_reschedule, queueVars, exitVars
  <2> QED BY <1>4, <2>1
<1>8. ASSUME \/ mthpc_workpool_exit
             \/ mthpc_workqueues_join_begin
             \/ Skips
             \/ \E k \in 1..Len(pool) : Unlinks(k)
             \/ mthpc_wq_clear_active
      PROVE  FALSE
  BY <1>8 DEF mthpc_workpool_exit, mthpc_workqueues_join_begin, Skips, Unlinks,
     mthpc_wq_clear_active
<1>9. CASE Passes
  BY <1>4, <1>9 DEF Passes, queueVars, exitVars
<1> QED BY StepCases, <1>1, <1>2, <1>3, <1>5, <1>6, <1>7, <1>8, <1>9

(* Hence both always hold. *)
LEMMA InvHolds == Spec => [](WorkqueueInv /\ DoneState)
<1>1. Init => WorkqueueInv /\ DoneState
  BY InvInit DEF Init, DoneState
<1>2. WorkqueueInv /\ DoneState /\ [Next]_vars => (WorkqueueInv /\ DoneState)'
  BY InvStep, DoneStep
<1> QED BY <1>1, <1>2, PTL DEF Spec

(* The types; in particular wp->count is never more than the queues there  *)
(* are and never wraps below 0, however joining and linking interleave.    *)
THEOREM TypeCorrect == Spec => []TypeOK
BY InvHolds, PTL DEF WorkqueueInv

(* A queued work is in a queue whose worker will still look at it: until   *)
(* mthpc_synchronize_rcu() passes a reader that was stale when the exit    *)
(* handler called it, no work is added to a queue taken out of the pool.   *)
THEOREM QueuedWorkIsServed == Spec => []QueuedWorkServed
<1>1. WorkqueueInv => QueuedWorkServed
  <2> SUFFICES ASSUME WorkqueueInv, ~missed, NEW q \in Queues, wq_list[q] # <<>>
               PROVE  /\ wq_active[q] /\ mem[q] = "alloc"
                      /\ q \in ToSet(pool) \/ Prealloc(q)
    BY DEF QueuedWorkServed, Prealloc
  <2>1. QueueOK(q)
    BY DEF WorkqueueInv, QueueState
  <2> QED BY <2>1, Zenon DEF QueueOK, Counted
<1> QED BY <1>1, InvHolds, PTL

(* When mthpc_workpool_exit() returns, every queue has been joined and     *)
(* freed, those that works created during the exit included, even after a  *)
(* stale reader was passed.                                                *)
THEOREM ExitLeavesNoQueue == Spec => []NoQueueLeft
<1>1. WorkqueueInv /\ DoneState => NoQueueLeft
  BY NothingLeft DEF DoneState, NoQueueLeft
<1> QED BY <1>1, InvHolds, PTL

(* The walk of the fast path leads back to the head over allocated queues, *)
(* however queues are linked, unlinked and moved to free_list under it,    *)
(* until a stale reader is passed; and the chain from the head is the pool *)
(* always.                                                                 *)
THEOREM WalkStaysInPool == Spec => []WalkLeadsBack
<1>1. ASSUME WorkqueueInv PROVE WalkLeadsBack
  <2>1. /\ \A i \in 1..Len(pool) : next[Before(i)] = pool[i]
        /\ next[Before(Len(pool) + 1)] = HEAD
    BY <1>1 DEF WorkqueueInv, ChainState
  <2>2. \A q \in ToSet(pool) : mem[q] = "alloc"
    <3>1. ToSet(pool) \subseteq Queues
      BY <1>1, InList DEF WorkqueueInv, TypeOK, ListTypeOK
    <3> QED BY <1>1, <3>1 DEF WorkqueueInv, QueueState, QueueOK, Counted
  <2>3. ASSUME ~missed, NEW p \in Procs, pc[p] = "find"
        PROVE  \/ next[wq[p]] = HEAD
               \/ next[wq[p]] \in ToSet(pool) /\ mem[next[wq[p]]] = "alloc"
    BY <1>1, <2>2, <2>3, NextInPool
  <2> QED BY <2>1, <2>3 DEF WalkLeadsBack
<1> QED BY <1>1, InvHolds, PTL

(* The second look at the pool under wp->lock keeps two threads from       *)
(* creating queues for one cpu, unless the later one was asked for a cpu   *)
(* beyond MTHPC_WQ_NR_CPU, whatever the cpu arguments are.                 *)
THEOREM OneQueueForACpu == Spec => []OneQueuePerCpu
<1>1. Init => CpuState
  <2> SUFFICES ASSUME Init PROVE CpuState
    OBVIOUS
  <2>1. Len(pool) = 0 /\ \A p \in Procs : pc[p] # "link"
    BY DEF Init
  <2> QED BY <2>1 DEF CpuState, OneQueuePerCpu
<1>2. WorkqueueInv /\ CpuState /\ [Next]_vars => CpuState'
  BY CpuStep
<1>3. CpuState => OneQueuePerCpu
  BY DEF CpuState
<1> QED BY <1>1, <1>2, <1>3, InvHolds, PTL DEF Spec

(* The workpool keeps its promise: every work is run as often as it was    *)
(* scheduled and never more often, and the exit handler returns only when  *)
(* none is left to run, though works schedule themselves again meanwhile;  *)
(* up to the moment when a stale reader is passed.                         *)
THEOREM WorkPoolRefined == Spec => ImplementsWorkPool
<1>1. Init => Abstract!Init
  BY DEF Init, Abstract!Init
<1>2. ASSUME WorkqueueInv, DoneState, [Next]_vars, ~missed'
      PROVE  [Abstract!Next]_<<calls, runs, mpc = "done">>
  <2>m. ~missed
    BY <1>2, MissedStays
  <2>a. ThreadTypeOK /\ WorkState /\ CarryState /\ CallState
    BY <1>2, <2>m DEF WorkqueueInv, TypeOK
  <2>1. ASSUME NEW w \in Works, mthpc_schedule_work_on(w) PROVE Abstract!Schedule(w)
    BY <2>1 DEF mthpc_schedule_work_on, Schedule, exitVars, Abstract!Schedule
  <2>2. ASSUME NEW q \in Queues, func_return(q) PROVE \E w \in Works : Abstract!Run(w)
    <3>1. pc[q] = "func" /\ q \in Procs
      BY <2>2, Names DEF func_return
    <3>2. work[q] \in Works /\ Outstanding(work[q])
      BY <2>a, <3>1 DEF CarryState, Outstanding, Carries
    <3>3. runs[work[q]] < calls[work[q]]
      BY <2>a, <3>2 DEF CallState, CallOK, ThreadTypeOK
    <3>4. Abstract!Run(work[q])
      BY <2>2, <3>3 DEF func_return, exitVars, Abstract!Run
    <3> QED BY <3>2, <3>4
  <2>3. ASSUME NEW q \in Queues, func_reschedule(q) PROVE \E w \in Works : Abstract!RunAgain(w)
    <3>1. pc[q] = "func" /\ q \in Procs
      BY <2>3, Names DEF func_reschedule
    <3>2. work[q] \in Works /\ Outstanding(work[q])
      BY <2>a, <3>1 DEF CarryState, Outstanding, Carries
    <3>3. runs[work[q]] < calls[work[q]]
      BY <2>a, <3>2 DEF CallState, CallOK, ThreadTypeOK
    <3>4. Abstract!RunAgain(work[q])
      BY <2>3, <3>3 DEF func_reschedule, Schedule, exitVars, Abstract!RunAgain
    <3> QED BY <3>2, <3>4
  <2>4. CASE mthpc_workqueues_join_check
    <3>1. CASE wp_count = 0
      <4>1. \A w \in Works : ~Outstanding(w)
        BY <1>2, <2>m, <2>4, <3>1, NothingLeft DEF mthpc_workqueues_join_check
      <4>2. runs = calls
        BY <2>a, <4>1 DEF CallState, CallOK, ThreadTypeOK
      <4>3. mpc = "check" /\ mpc' = "done" /\ UNCHANGED <<calls, runs>>
        BY <2>4, <3>1 DEF mthpc_workqueues_join_check
      <4> QED BY <4>2, <4>3 DEF Abstract!Close, Abstract!Next
    <3>2. CASE wp_count # 0
      BY <2>4, <3>2 DEF mthpc_workqueues_join_check
    <3> QED BY <3>1, <3>2
  <2>5. ASSUME NEW p \in Procs,
               \/ mthpc_rcu_read_lock(p)
               \/ mthpc_get_workqueue_find(p)
               \/ mthpc_get_workqueue_lost(p)
               \/ mthpc_workqueue_add_locked(p)
               \/ \E q \in Queues : Allocates(p, q)
               \/ LinksNew(p)
               \/ \E r \in Queues : UsesOld(p, r)
               \/ mthpc_works_handler(p)
               \/ mthpc_wq_futex_wake_store(p)
               \/ mthpc_wq_futex_wake_broadcast(p)
        PROVE  UNCHANGED <<calls, runs, mpc>>
    BY <2>5 DEF mthpc_rcu_read_lock, mthpc_get_workqueue_find,
       mthpc_get_workqueue_lost, mthpc_workqueue_add_locked, Allocates,
       LinksNew, UsesOld, mthpc_works_handler, mthpc_wq_futex_wake_store,
       mthpc_wq_futex_wake_broadcast, exitVars
  <2>6. ASSUME NEW q \in Queues,
               \/ mthpc_rcu_thread_init(q)
               \/ mthpc_wq_active(q)
               \/ mthpc_worker_run_take(q)
               \/ mthpc_wq_futex_wait(q)
        PROVE  UNCHANGED <<calls, runs, mpc>>
    BY <2>6 DEF mthpc_rcu_thread_init, mthpc_wq_active, mthpc_worker_run_take, mthpc_wq_futex_wait, exitVars
  <2>7. ASSUME \/ mthpc_workpool_exit
               \/ mthpc_workqueues_join_begin
               \/ Skips
               \/ \E k \in 1..Len(pool) : Unlinks(k)
               \/ mthpc_wq_clear_active
               \/ mthpc_workqueues_join_free
        PROVE  UNCHANGED <<calls, runs>> /\ mpc # "done" /\ mpc' # "done"
    BY <2>7 DEF mthpc_workpool_exit, mthpc_workqueues_join_begin, Skips, Unlinks,
       mthpc_wq_clear_active, mthpc_workqueues_join_free
  <2>8. ASSUME Passes PROVE UNCHANGED <<calls, runs, mpc>>
    BY <2>8 DEF Passes, exitVars
  <2>9. \/ UNCHANGED <<calls, runs, mpc>>
        \/ UNCHANGED <<calls, runs>> /\ mpc # "done" /\ mpc' # "done"
        \/ \E w \in Works : Abstract!Schedule(w) \/ Abstract!Run(w) \/ Abstract!RunAgain(w)
        \/ mthpc_workqueues_join_check
    BY <1>2, StepCases, <2>1, <2>2, <2>3, <2>5, <2>6, <2>7, <2>8
  <2>10. CASE UNCHANGED <<calls, runs, mpc>>
    BY <2>10
  <2>11. CASE UNCHANGED <<calls, runs>> /\ mpc # "done" /\ mpc' # "done"
    BY <2>11
  <2>12. CASE \E w \in Works : Abstract!Schedule(w) \/ Abstract!Run(w) \/ Abstract!RunAgain(w)
    BY <2>12 DEF Abstract!Next
  <2> QED BY <2>4, <2>9, <2>10, <2>11, <2>12
<1>3. WorkqueueInv /\ DoneState /\ [Next]_vars
      => [missed' \/ Abstract!Next]_<<calls, runs, mpc = "done">>
  BY <1>2
<1> QED BY <1>1, <1>3, InvHolds, PTL DEF Spec, ImplementsWorkPool
=============================================================================
