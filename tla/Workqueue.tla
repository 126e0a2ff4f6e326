----------------------------- MODULE Workqueue -----------------------------
(***************************************************************************)
(* One workpool (src/workqueue/workqueue.c) with the futex emulation it    *)
(* sleeps on (src/futex.c): callers of __mthpc_schedule_work_on(), the     *)
(* worker thread of every workqueue, and the thread that runs the exit     *)
(* handler mthpc_workpool_exit().                                          *)
(*                                                                         *)
(* A step is a critical section of wq->lock or wp->lock, or one access to  *)
(* shared memory.  Only the exit handler holds a lock over several steps.  *)
(* wq->count changes together with the list, so it is the list's length.   *)
(* mthpc_synchronize_rcu() is that of module Rcu, with data->lock free     *)
(* between the calls of the exit handler: nobody else calls it here.  The  *)
(* worker's read lock reads data->gp_seq and stores it in two steps, so it *)
(* may store a phase that the exit handler has flipped meanwhile, and then *)
(* not be waited for.  sched_yield() and progress only pace the exit       *)
(* handler and are left out.                                               *)
(***************************************************************************)
EXTENDS Integers, Sequences, SequencesExt

CONSTANTS
    Works,      \* works; each one is first scheduled by a client thread of
                \* its own, which is identified with it
    NrCpu,      \* MTHPC_WQ_NR_CPU
    CpuArgs,    \* cpu arguments of the calls for each work, -1 for "any"
    MaxCalls,   \* bound: how often each work is scheduled in all
    MaxWq,      \* bound: workqueues allocated
    NULL

ASSUME WorkqueueAssumption ==
    /\ NrCpu \in Nat \ {0} /\ MaxWq \in Nat \ {0}
    /\ CpuArgs \in [Works -> SUBSET Int] /\ MaxCalls \in [Works -> Nat]
    /\ NULL \notin Works /\ Works \intersect 1..MaxWq = {}

Queues == 1..MaxWq
Procs == Works \union Queues    \* client threads; the worker of each queue
HEAD == 0       \* the list heads &wp->head and &free_list
FREE == -1

VARIABLES
    mem,        \* mem[q]: "none", "alloc" or "freed"
    wq_cpu, wq_active, wq_futex, wq_list,   \* fields of the workqueues
    asked,      \* history: the cpu, before it is masked, a queue was made for
    pool, wp_count,     \* wp->head, as the holder of wp->lock sees it, and wp->count
    next,       \* next[q]: node.next of queue q, of wp->head for HEAD; what
                \* readers follow
    pc,         \* where each client and each worker is
    work,       \* the work it schedules or runs, or NULL
    cpu,        \* its local cpu
    wq,         \* its local wq, prealloc or curr, 0 for NULL and for HEAD
    readers,    \* threads inside an RCU read lock: their node is active
    behind,     \* threads whose read lock has read, or whose node holds, a
                \* phase that is not the one of data->gp_seq; as there are two
                \* phases, a flip brings them up to date and the others behind
    mpc,        \* where the exit handler is
    walk,       \* queues its loop over the pool has yet to visit
    free_list,  \* queues to join and free
    sync,       \* mthpc_synchronize_rcu(): 0 not called, 1 or 2 in that wait
    todo,       \* workers whose node the running wait has not passed
    waitfor,    \* history: readers inside when it was called that still are
    stale,      \* history: those of them whose phase was out of date at the call
    missed,     \* history: the call at line 386 left a reader inside, a stale one
    calls, runs \* times each work has been scheduled, and run

queueVars == <<mem, wq_cpu, wq_active, wq_futex, wq_list, asked, pool, wp_count, next>>
localVars == <<pc, work, cpu, wq>>
exitVars == <<mpc, walk, free_list>>
rcuVars == <<readers, behind, sync, todo, waitfor, stale, missed>>
vars == <<queueVars, localVars, exitVars, rcuVars, calls, runs>>

Init ==
    /\ mem = [q \in Queues |-> "none"]
    /\ wq_cpu = [q \in Queues |-> 0]
    /\ wq_active = [q \in Queues |-> FALSE]
    /\ wq_futex = [q \in Queues |-> 0]
    /\ wq_list = [q \in Queues |-> <<>>]
    /\ asked = [q \in Queues |-> 0]
    /\ pool = <<>> /\ wp_count = 0 /\ next = [q \in Queues \union {HEAD} |-> q]
    /\ pc = [p \in Procs |-> IF p \in Works THEN "ready" ELSE "unborn"]
    /\ work = [p \in Procs |-> NULL]
    /\ cpu = [p \in Procs |-> 0]
    /\ wq = [p \in Procs |-> 0]
    /\ readers = {} /\ behind = {}
    /\ sync = 0 /\ todo = {} /\ waitfor = {} /\ stale = {} /\ missed = FALSE
    /\ mpc = "run" /\ walk = <<>> /\ free_list = <<>>
    /\ calls = [w \in Works |-> 0] /\ runs = [w \in Works |-> 0]

\* The exit handler holds wp->lock while it walks the pool, and the lock of
\* the queue it has unlinked during the grace period.
WpLocked == mpc \in {"visit", "gp"}
WqLocked(q) == mpc = "gp" /\ Head(walk) = q

\* The list node before position i of the pool.
Before(i) == IF i = 1 THEN HEAD ELSE pool[i - 1]

\* The cpu bits and the active bit of wq->__actived_cpu are kept apart.
mthpc_wq_get_cpu(q) == wq_cpu[q]
mthpc_wq_set_cpu(q, c) == wq_cpu' = [wq_cpu EXCEPT ![q] = c % NrCpu]
mthpc_wq_mkactive(q) == wq_active' = [wq_active EXCEPT ![q] = TRUE]

mthpc_rcu_read_unlock(p) ==
    /\ readers' = readers \ {p} /\ behind' = behind \ {p}
    /\ waitfor' = waitfor \ {p} /\ stale' = stale \ {p}
    /\ UNCHANGED <<sync, todo, missed>>
-----------------------------------------------------------------------------
(* mthpc_synchronize_rcu(), in the exit handler.  data->lock keeps threads *)
(* from being registered; the clients are through, their nodes idle.       *)

Nodes == {q \in Queues : pc[q] \notin {"unborn", "init", "dead"}}

synchronize_begin ==
    /\ sync' = 1 /\ todo' = Nodes
    /\ waitfor' = readers /\ stale' = readers \intersect behind

synchronize_end == sync' = 0 /\ waitfor' = {} /\ stale' = {}

\* Both waits are for the phase that was current at the call.
mthpc_wait_for_readers ==
    /\ sync # 0
    /\ \E q \in todo :
          /\ q \notin readers \/ (q \in behind) = (sync = 1)
          /\ todo' = todo \ {q}
    /\ UNCHANGED <<queueVars, localVars, exitVars, readers, behind, sync, waitfor, stale,
                   missed, calls, runs>>

mthpc_synchronize_rcu_flip ==
    /\ sync = 1 /\ todo = {}
    /\ behind' = {p \in Procs : pc[p] \in {"lock", "find", "add", "lost"}} \ behind
    /\ sync' = 2 /\ todo' = Nodes
    /\ UNCHANGED <<queueVars, localVars, exitVars, readers, waitfor, stale, missed,
                   calls, runs>>

\* Broken variant: the grace period is not awaited.
NoGracePeriod == TRUE

GracePeriodOver == sync = 2 /\ todo = {}
-----------------------------------------------------------------------------
(* __mthpc_schedule_work_on() and mthpc_get_workqueue(), in thread p. *)

\* The call, up to the read of data->gp_seq in the read lock of the fast path.
Schedule(p, w) ==
    /\ calls[w] < MaxCalls[w]
    /\ calls' = [calls EXCEPT ![w] = @ + 1]
    /\ \E c \in CpuArgs[w] : cpu' = [cpu EXCEPT ![p] = c]
    /\ work' = [work EXCEPT ![p] = w]
    /\ wq' = [wq EXCEPT ![p] = HEAD]
    /\ pc' = [pc EXCEPT ![p] = "lock"]
    /\ UNCHANGED rcuVars

mthpc_schedule_work_on(w) ==
    /\ mpc = "run" /\ pc[w] = "ready" /\ Schedule(w, w)
    /\ UNCHANGED <<queueVars, exitVars, runs>>

\* The store of the phase that was read into the thread's node.
mthpc_rcu_read_lock(p) ==
    /\ pc[p] = "lock"
    /\ readers' = readers \union {p}
    /\ pc' = [pc EXCEPT ![p] = "find"]
    /\ UNCHANGED <<queueVars, work, cpu, wq, exitVars, behind, sync, todo, waitfor, stale,
                   missed, calls, runs>>

\* A reader that was not waited for may use a queue that is freed, or take the
\* head of free_list for a queue.
Gone(p) ==
    \/ pc[p] = "find" /\ next[wq[p]] = FREE
    \/ wq[p] # HEAD /\ mem[wq[p]] = "freed"

\* Fast path: one step of the walk over the pool, mthpc_list_for_each_entry_rcu().
mthpc_get_workqueue_find(p) ==
    LET q == next[wq[p]] IN
    /\ pc[p] = "find" /\ ~Gone(p)
    /\ wq' = [wq EXCEPT ![p] = q]
    /\ \/ /\ q # HEAD
          /\ pc' = [pc EXCEPT ![p] = IF cpu[p] = -1 \/ cpu[p] % NrCpu = mthpc_wq_get_cpu(q)
                                     THEN "add" ELSE "find"]
          /\ UNCHANGED rcuVars
       \/ /\ q = HEAD
          /\ mthpc_rcu_read_unlock(p)
          /\ pc' = [pc EXCEPT ![p] = "alloc"]
    /\ UNCHANGED <<queueVars, work, cpu, exitVars, calls, runs>>

\* Fast path: add the work under wq->lock, leave the read lock.
mthpc_workqueue_add_locked(p) ==
    /\ pc[p] = "add" /\ ~Gone(p) /\ ~WqLocked(wq[p])
    /\ wq_list' = [wq_list EXCEPT ![wq[p]] = Append(@, work[p])]
    /\ mthpc_rcu_read_unlock(p)
    /\ pc' = [pc EXCEPT ![p] = "wake"]
    /\ UNCHANGED <<mem, wq_cpu, wq_active, wq_futex, asked, pool, wp_count, next,
                   work, cpu, wq, exitVars, calls, runs>>

\* What the thread does from then on is undefined: it is lost.
mthpc_get_workqueue_lost(p) ==
    /\ pc[p] \in {"find", "add"} /\ Gone(p)
    /\ pc' = [pc EXCEPT ![p] = "lost"]
    /\ UNCHANGED <<queueVars, work, cpu, wq, exitVars, rcuVars, calls, runs>>

\* Slow path, step 1.  sched_getcpu() may return any cpu.
mthpc_alloc_workqueue(p) ==
    /\ pc[p] = "alloc"
    /\ \E q \in Queues :
          /\ mem[q] = "none" /\ \A r \in 1..(q - 1) : mem[r] # "none"
          /\ mem' = [mem EXCEPT ![q] = "alloc"]
          /\ mthpc_wq_mkactive(q)
          /\ wq_list' = [wq_list EXCEPT ![q] = <<work[p]>>]
          /\ wq' = [wq EXCEPT ![p] = q]
          /\ \E c \in IF cpu[p] = -1 THEN 0..(NrCpu - 1) ELSE {cpu[p]} :
                /\ cpu' = [cpu EXCEPT ![p] = c]
                /\ mthpc_wq_set_cpu(q, c)
                /\ asked' = [asked EXCEPT ![q] = c]
    /\ pc' = [pc EXCEPT ![p] = "link"]
    /\ UNCHANGED <<wq_futex, pool, wp_count, next, work, exitVars, rcuVars, calls, runs>>

\* Broken variant: the pool is not searched again under wp->lock.
NoRecheck(p) == 0

\* First queue of the pool for the cpu of p, or 0.
Existing(p) ==
    LET i == SelectInSeq(pool, LAMBDA q : cpu[p] = mthpc_wq_get_cpu(q))
    IN  IF i = 0 THEN 0 ELSE pool[i]

\* Broken variant: the work is not moved to the queue that is there.
WorkLeftBehind(p, q) == wq_list' = [wq_list EXCEPT ![wq[p]] = <<>>]

MoveWork(p, q) == wq_list' = [wq_list EXCEPT ![q] = Append(@, work[p]), ![wq[p]] = <<>>]

mthpc_list_add_tail_rcu(q) ==
    /\ next' = [next EXCEPT ![q] = HEAD, ![Before(Len(pool) + 1)] = q]
    /\ pool' = Append(pool, q)

\* Broken variant: the new queue is not counted.
NotCounted(n) == n

OneMore(n) == n + 1     \* of wp->count

\* Slow path, step 2: look again under wp->lock, then link the new queue or
\* use the one that is there and free the new one.
mthpc_get_workqueue_link(p) ==
    /\ pc[p] = "link" /\ ~WpLocked
    /\ LET found == Existing(p)
       IN  IF found = 0
           THEN /\ mthpc_list_add_tail_rcu(wq[p]) /\ wp_count' = OneMore(wp_count)
                /\ pc' = [pc EXCEPT ![p] = "create"]
                /\ UNCHANGED <<mem, wq_list, wq>>
           ELSE /\ MoveWork(p, found)
                /\ mem' = [mem EXCEPT ![wq[p]] = "freed"]
                /\ wq' = [wq EXCEPT ![p] = found]
                /\ pc' = [pc EXCEPT ![p] = "wake"]
                /\ UNCHANGED <<pool, wp_count, next>>
    /\ UNCHANGED <<wq_cpu, wq_active, wq_futex, asked, work, cpu, exitVars, rcuVars,
                   calls, runs>>

mthpc_works_handler(p) ==
    /\ pc[p] = "create"
    /\ pc' = [pc EXCEPT ![p] = "wake", ![wq[p]] = "init"]
    /\ UNCHANGED <<queueVars, work, cpu, wq, exitVars, rcuVars, calls, runs>>

\* Broken variants: the futex counts the wake-ups; it is left as it is.
FutexCounts(f) == f + 1
FutexKept(f) == f

NonEmpty(f) == 1    \* what a wake-up makes of the futex word

\* mthpc_wq_futex_wake(): the store, then the broadcast and the return to the
\* caller, which is a client or a work's function.
mthpc_wq_futex_wake_store(p) ==
    /\ pc[p] = "wake"
    /\ wq_futex' = [wq_futex EXCEPT ![wq[p]] = NonEmpty(@)]
    /\ pc' = [pc EXCEPT ![p] = "broadcast"]
    /\ UNCHANGED <<mem, wq_cpu, wq_active, wq_list, asked, pool, wp_count, next,
                   work, cpu, wq, exitVars, rcuVars, calls, runs>>

mthpc_wq_futex_wake_broadcast(p) ==
    /\ pc[p] = "broadcast"
    /\ pc' = [r \in Procs |->
                IF r = p THEN IF p \in Works THEN "done" ELSE "top"
                ELSE IF pc[r] = "asleep" THEN "wait" ELSE pc[r]]
    /\ work' = [work EXCEPT ![p] = NULL]
    /\ cpu' = [cpu EXCEPT ![p] = 0]
    /\ wq' = [wq EXCEPT ![p] = 0]
    /\ UNCHANGED <<queueVars, exitVars, rcuVars, calls, runs>>
-----------------------------------------------------------------------------
(* mthpc_worker_run(), the thread of queue q. *)

\* mthpc_rcu_thread_init() and mthpc_rcu_thread_exit(), at the end of the
\* loop, take data->lock.
mthpc_rcu_thread_init(q) ==
    /\ pc[q] = "init" /\ sync = 0
    /\ pc' = [pc EXCEPT ![q] = "top"]
    /\ UNCHANGED <<queueVars, work, cpu, wq, exitVars, rcuVars, calls, runs>>

mthpc_wq_active(q) ==
    /\ pc[q] = "top"
    /\ \/ /\ wq_active[q]
          /\ pc' = [pc EXCEPT ![q] = "take"]
       \/ /\ ~wq_active[q] /\ sync = 0
          /\ pc' = [pc EXCEPT ![q] = "dead"]
    /\ UNCHANGED <<queueVars, work, cpu, wq, exitVars, rcuVars, calls, runs>>

mthpc_worker_run_take(q) ==
    /\ pc[q] = "take" /\ ~WqLocked(q)
    /\ IF wq_list[q] = <<>>
       THEN /\ pc' = [pc EXCEPT ![q] = "wait"]
            /\ UNCHANGED <<wq_list, work>>
       ELSE /\ work' = [work EXCEPT ![q] = Head(wq_list[q])]
            /\ wq_list' = [wq_list EXCEPT ![q] = Tail(@)]
            /\ pc' = [pc EXCEPT ![q] = "func"]
    /\ UNCHANGED <<mem, wq_cpu, wq_active, wq_futex, asked, pool, wp_count, next, cpu, wq,
                   exitVars, rcuVars, calls, runs>>

\* mthpc_wq_futex_wait(): the test of the futex, made under the mutex of the
\* emulation.  Nothing ever stores 0 in it: the emulation returns 0, never
\* EAGAIN.
mthpc_wq_futex_wait(q) ==
    /\ pc[q] = "wait"
    /\ pc' = [pc EXCEPT ![q] = IF wq_futex[q] = 0 THEN "asleep" ELSE "top"]
    /\ UNCHANGED <<queueVars, work, cpu, wq, exitVars, rcuVars, calls, runs>>

\* work->func(work) either returns or, as in src/workqueue/test.c, schedules
\* the work again before it does.
func_return(q) ==
    /\ pc[q] = "func"
    /\ runs' = [runs EXCEPT ![work[q]] = @ + 1]
    /\ work' = [work EXCEPT ![q] = NULL]
    /\ pc' = [pc EXCEPT ![q] = "top"]
    /\ UNCHANGED <<queueVars, cpu, wq, exitVars, rcuVars, calls>>

func_reschedule(q) ==
    /\ pc[q] = "func"
    /\ runs' = [runs EXCEPT ![work[q]] = @ + 1]
    /\ Schedule(q, work[q])
    /\ UNCHANGED <<queueVars, exitVars>>
-----------------------------------------------------------------------------
(* mthpc_workpool_exit() and mthpc_workqueues_join(), once the clients are *)
(* through.                                                                *)

mthpc_workpool_exit ==
    /\ mpc = "run" /\ \A w \in Works : pc[w] \in {"ready", "done"}
    /\ mpc' = "sync" /\ synchronize_begin
    /\ UNCHANGED <<queueVars, localVars, walk, free_list, readers, behind,
                   missed, calls, runs>>

mthpc_workqueues_join_begin ==
    /\ mpc = "sync" /\ GracePeriodOver
    /\ mpc' = "check" /\ synchronize_end
    /\ UNCHANGED <<queueVars, localVars, walk, free_list, readers, behind,
                   todo, missed, calls, runs>>

mthpc_workqueues_join_check ==
    /\ mpc = "check"
    /\ IF wp_count = 0 THEN mpc' = "done" /\ UNCHANGED walk
                       ELSE mpc' = "visit" /\ walk' = pool
    /\ UNCHANGED <<queueVars, localVars, free_list, rcuVars, calls, runs>>

\* Broken variant: mthpc_list_del(), which also initialises the node.
DelReinits(i) == [next EXCEPT ![Before(i)] = next[pool[i]], ![pool[i]] = pool[i]]

\* The node at position i keeps its next pointer for the readers that are at it.
mthpc_list_del_rcu(i) == [next EXCEPT ![Before(i)] = next[pool[i]]]

\* One queue of the walk: unlink it if it is empty, and start to wait for a
\* grace period with wp->lock and wq->lock held.
mthpc_workqueues_join_visit ==
    /\ mpc = "visit"
    /\ \/ /\ walk = <<>>
          /\ mpc' = "join" /\ UNCHANGED <<walk, pool, next, sync, todo, waitfor, stale>>
       \/ /\ walk # <<>> /\ wq_list[Head(walk)] # <<>>
          /\ walk' = Tail(walk) /\ UNCHANGED <<mpc, pool, next, sync, todo, waitfor, stale>>
       \/ /\ walk # <<>> /\ wq_list[Head(walk)] = <<>>
          /\ \E i \in 1..Len(pool) :
                /\ pool[i] = Head(walk)
                /\ next' = mthpc_list_del_rcu(i) /\ pool' = RemoveAt(pool, i)
          /\ synchronize_begin
          /\ mpc' = "gp" /\ UNCHANGED walk
    /\ UNCHANGED <<mem, wq_cpu, wq_active, wq_futex, wq_list, asked, wp_count, localVars,
                   free_list, readers, behind, missed, calls, runs>>

\* The queue goes to the front of free_list, through the same node.
mthpc_wq_clear_active ==
    /\ mpc = "gp" /\ GracePeriodOver
    /\ wq_active' = [wq_active EXCEPT ![Head(walk)] = FALSE]
    /\ next' = [next EXCEPT ![Head(walk)] = IF free_list = <<>> THEN FREE ELSE Head(free_list)]
    /\ free_list' = <<Head(walk)>> \o free_list
    /\ walk' = Tail(walk)
    /\ mpc' = "visit" /\ synchronize_end
    /\ missed' = (missed \/ stale # {})
    /\ UNCHANGED <<mem, wq_cpu, wq_futex, wq_list, asked, pool, wp_count, localVars,
                   readers, behind, todo, calls, runs>>

\* pthread_join() and free() of the first queue of free_list.
mthpc_workqueues_join_free ==
    /\ mpc = "join"
    /\ IF free_list = <<>>
       THEN mpc' = "check" /\ UNCHANGED <<free_list, mem, wp_count>>
       ELSE /\ pc[Head(free_list)] = "dead"
            /\ mem' = [mem EXCEPT ![Head(free_list)] = "freed"]
            /\ wp_count' = wp_count - 1
            /\ free_list' = Tail(free_list)
            /\ UNCHANGED mpc
    /\ UNCHANGED <<wq_cpu, wq_active, wq_futex, wq_list, asked, pool, next, localVars, walk, rcuVars,
                   calls, runs>>
-----------------------------------------------------------------------------
ScheduleStep(p) ==
    \/ mthpc_rcu_read_lock(p)
    \/ mthpc_get_workqueue_find(p) \/ mthpc_workqueue_add_locked(p)
    \/ mthpc_get_workqueue_lost(p)
    \/ mthpc_alloc_workqueue(p) \/ mthpc_get_workqueue_link(p)
    \/ mthpc_works_handler(p)
    \/ mthpc_wq_futex_wake_store(p) \/ mthpc_wq_futex_wake_broadcast(p)

WorkerStep(q) ==
    \/ mthpc_rcu_thread_init(q) \/ mthpc_wq_active(q)
    \/ mthpc_worker_run_take(q) \/ mthpc_wq_futex_wait(q)
    \/ func_return(q) \/ func_reschedule(q)

ExitStep ==
    \/ mthpc_wait_for_readers \/ mthpc_synchronize_rcu_flip
    \/ mthpc_workqueues_join_begin \/ mthpc_workqueues_join_check
    \/ mthpc_workqueues_join_visit \/ mthpc_wq_clear_active
    \/ mthpc_workqueues_join_free

Finished == mpc = "done" /\ UNCHANGED vars

Next ==
    \/ \E w \in Works : mthpc_schedule_work_on(w)
    \/ \E p \in Procs : ScheduleStep(p)
    \/ \E q \in Queues : WorkerStep(q)
    \/ mthpc_workpool_exit \/ ExitStep
    \/ Finished

Spec == Init /\ [][Next]_vars

(* Threads inside the library keep running, and so does the exit handler   *)
(* once it has started; nobody has to call in or to exit.  A thread that   *)
(* waits for wp->lock gets it in the end, though the exit handler takes it *)
(* again and again: after some rounds it makes way with sched_yield().     *)
FairSpec ==
    /\ Spec
    /\ \A w \in Works : WF_vars(ScheduleStep(w))
    /\ \A q \in Queues : /\ WF_vars(ScheduleStep(q) \/ WorkerStep(q))
                         /\ SF_vars(mthpc_get_workqueue_link(q))
    /\ WF_vars(ExitStep)
-----------------------------------------------------------------------------
(* The types of the queues, of the lists, and of the threads and counters. *)
QueueTypeOK ==
    /\ mem \in [Queues -> {"none", "alloc", "freed"}]
    /\ wq_cpu \in [Queues -> 0..(NrCpu - 1)]
    /\ wq_active \in [Queues -> BOOLEAN]
    /\ wq_futex \in [Queues -> {0, 1}]
    /\ wq_list \in [Queues -> Seq(Works)]
    /\ asked \in [Queues -> Int]

ListTypeOK ==
    /\ pool \in Seq(Queues) /\ walk \in Seq(Queues) /\ free_list \in Seq(Queues)
    /\ next \in [Queues \union {HEAD} -> Queues \union {HEAD, FREE}]
    /\ mpc \in {"run", "sync", "check", "visit", "gp", "join", "done"}

ThreadTypeOK ==
    /\ pc \in [Procs -> {"ready", "done", "unborn", "lock", "find", "lost", "add", "alloc",
                         "link", "create", "wake", "broadcast", "init", "top", "take", "wait",
                         "asleep", "func", "dead"}]
    /\ work \in [Procs -> Works \union {NULL}] /\ cpu \in [Procs -> Int]
    /\ wq \in [Procs -> Queues \union {0}]
    /\ readers \subseteq Procs /\ waitfor \subseteq Procs
    /\ calls \in [Works -> Nat] /\ runs \in [Works -> Nat]

SyncTypeOK ==
    /\ behind \subseteq Procs /\ stale \subseteq Procs /\ todo \subseteq Queues
    /\ sync \in {0, 1, 2} /\ missed \in BOOLEAN

(* The type of every variable; wp->count never exceeds the queues there    *)
(* are, nor wraps below 0.                                                 *)
TypeOK ==
    QueueTypeOK /\ ListTypeOK /\ ThreadTypeOK /\ SyncTypeOK /\ wp_count \in 0..MaxWq

(* A queued work sits in a queue whose worker will still look: one that is *)
(* in the pool and active, or one that its creator is about to link.  It   *)
(* is what "Add work to inactive wq" (workqueue.c:228) and "freeing wq but *)
(* still holding work(s)" (workqueue.c:405) warn about.  It is lost only   *)
(* when the call at line 386 has passed a reader whose phase was out of    *)
(* date when it stored it, be it by the flip of line 432 or an earlier one.*)
QueuedWorkServed ==
    missed \/ \A q \in Queues : wq_list[q] # <<>> =>
        /\ wq_active[q] /\ mem[q] = "alloc"
        /\ q \in ToSet(pool) \/ \E p \in Procs : pc[p] = "link" /\ wq[p] = q

(* When the exit handler is through, no queue is left behind. *)
NoQueueLeft == mpc = "done" => pool = <<>> /\ \A q \in Queues : mem[q] # "alloc"

(* The pool promises what WorkPool says: every work is run as often as it  *)
(* was scheduled, through whichever queue it went, and the exit handler    *)
(* returns when all have run ("We should waiting for the works in wq.",    *)
(* workqueue.c:382), up to the moment when a stale reader is passed.       *)
Abstract == INSTANCE WorkPool WITH Works <- Works, MaxCalls <- MaxCalls,
                                   scheduled <- calls, run <- runs, closed <- mpc = "done"
ImplementsWorkPool ==
    Abstract!Init /\ [][missed' \/ Abstract!Next]_<<calls, runs, mpc = "done">>

(* A walk of the fast path, wherever it stands when queues are linked,     *)
(* unlinked and moved to free_list through the same node, leads back to    *)
(* the head of the pool over queues that are allocated, unless it belongs  *)
(* to a stale reader that was passed; from the head it meets the queues of *)
(* the pool in their order.                                                *)
WalkLeadsBack ==
    /\ \A i \in 1..Len(pool) : next[Before(i)] = pool[i]
    /\ next[Before(Len(pool) + 1)] = HEAD
    /\ missed \/ \A p \in Procs : pc[p] = "find" =>
          \/ next[wq[p]] = HEAD
          \/ next[wq[p]] \in ToSet(pool) /\ mem[next[wq[p]]] = "alloc"

(* Two queues of the pool serve one cpu only when the later one was made   *)
(* for a cpu argument beyond MTHPC_WQ_NR_CPU, which the fast path masks    *)
(* and the second look does not (workqueue.c:274, "Does anyone already     *)
(* create it?  Check again").                                              *)
OneQueuePerCpu ==
    \A i, j \in 1..Len(pool) :
        (i < j /\ wq_cpu[pool[i]] = wq_cpu[pool[j]]) => asked[pool[j]] \notin 0..(NrCpu - 1)

\* The lock-up that workqueue_exit shows: the exit handler holds wq->lock and
\* waits for a reader that waits for wq->lock.
LockedUp == mpc = "gp" /\ \E p \in waitfor \ stale : pc[p] = "add" /\ wq[p] = Head(walk)

(* A scheduled work runs: no wake-up is lost between the worker's look at  *)
(* the empty list and its sleep, and nothing but the lock-up or a stale    *)
(* reader keeps a work scheduled during the exit from being run.           *)
ScheduledWorkRuns ==
    \A w \in Works : calls[w] > runs[w] ~> runs[w] = calls[w] \/ LockedUp \/ missed

(* The exit handler finishes unless it is locked up or has passed a stale  *)
(* reader: it joins no worker that is asleep, and wp->count reaches 0.     *)
ExitEnds == mpc = "sync" ~> mpc = "done" \/ LockedUp \/ missed

(* The exit handler, once started, finishes. *)
ExitReturns == mpc = "sync" ~> mpc = "done"
=============================================================================
