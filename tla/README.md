# mthpc in TLA+

A verification project for mthpc, a small C library of multithreading
primitives (`src/`): userspace RCU, a centralized barrier, a workqueue, a
thread-group framework, safe pointers and a task flow.  The modules are
translated from the source; TLC checks them on small instances, and TLAPS proves
that each of these components is safe for every value of the constants that
section 4 allows.

## 1. Inventory

| Part | State | Operations | Modelled in |
|---|---|---|---|
| RCU (`src/rcu/rcu.c`, `rcu.h`) | per `mthpc_rcu_data`: `gp_seq` (phase bit and count), the node list, a lock; per thread: a node with its own `gp_seq` | thread init/exit, read lock/unlock (nested), synchronize, replace/dereference pointer | `GpWord`, `Rcu`, `RcuReclaim` |
| RCU meta list (`rcu.c`) | the list of all `rcu_data`, a lock | data init/exit, synchronize all | `SafePtr` |
| Centralized barrier | per barrier: `flag`, `count`, a spin lock; per thread: `mthpc_local_sense` | `mthpc_centralized_barrier(b, n)` | `CentralizedBarrier`, abstract `Barrier` |
| Workqueue (`workqueue.c`) | three pools of queues; per queue: list, `__actived_cpu`, futex word, worker thread | schedule on a cpu or any, the workers, the exit handler | `Workqueue`, abstract `WorkPool` |
| Futex emulation (`src/futex.c`) | one mutex and condition variable | wait, wake | `Workqueue` |
| Thread groups (`thread.c`) | list of asynchronous groups, `nr_group`; per group `nr_exited` and a pointer to a reference-counted barrier object | run, async run, async wait, the join work | `ThreadGroup` |
| Completion (`completion.h`) | `cnt`, `nr` | init, complete, wait | `Taskflow` |
| Taskflow (`taskflow.c`) | the list of main tasks, each with a list of sub tasks, their counts and flags | create, precede, succeed, await | `Taskflow` |
| Safe pointer (`safe_ptr.c`) | per pointer: control block, id, RCU node; per control block: refcount, object, an `rcu_data` | create, borrow, load, store, compare-exchange, destroy | `SafePtr` |
| `list.h` | `next` and `prev` pointers | insert, delete, replace, splice, walk | `List` at pointer level, used by `Taskflow`; sequences and sets elsewhere |
| `rculist.h` | the same, with concurrent readers | insert, delete, walk | `Workqueue`, its only user |
| spin lock | holder; usable or destroyed | lock, unlock, destroy | in the steps of every module; destruction in `SafePtr` |
| scoped lock, guards, print, debug, macros, benchmarks, `mlrcu.c` | none of their own, or not part of the build | | not modelled |

**How the parts interact.**  A thread group's worker calls
`mthpc_rcu_thread_init()`, waits on the start barrier of its cluster and runs
its body.  Asynchronous groups are reaped by `mthpc_thread_wq_join()`, a work of
the workqueue that queues itself again, and by `mthpc_thread_async_wait()`; both
drop shares of the barrier object.  The workqueue looks queues up under RCU and
its exit handler waits for a grace period before it takes one down.  Taskflow
schedules works and waits on a completion.  A safe pointer keeps an `rcu_data`
in its control block and synchronizes before freeing it; these `rcu_data` come
and go in the meta list that `mthpc_synchronize_rcu_all()` walks.

**What is hard, and what makes each part correct.**

- *RCU*: the read lock loads `data->gp_seq` and stores it in two steps, so a
  reader may carry an outdated phase.  Correct means: no reader holds an object
  that has been freed; the wait after the flip ends though readers keep coming;
  a node belongs to one live thread and counts its read locks, across the reuse
  of `pthread_self()` by later threads.
- *Barrier*: fast threads are in the next round while slow ones still look at
  the flag of the last.  Correct means: nobody leaves round k before everybody
  has entered round k, and nobody spins for ever.
- *Workqueue*: a worker going to sleep races with the wake-up, two callers race
  to create a queue, callers race with the exit handler, readers walk a pool
  that queues leave through the node they stand at.  Correct means: every
  scheduled work runs as often as it was scheduled, one queue per cpu, a walk
  ends, the exit handler returns after every work has run, and nobody touches a
  freed queue.
- *Thread groups*: two reapers of one group.  Correct means: bodies start after
  all inits, the barrier object is freed once and after its last use, the join
  work ends.
- *Safe pointer*: scopes of several threads lend, borrow, store and end in any
  order, each with a node in the control block's own RCU domain.  Correct means:
  the count is the number of references, nothing is taken down while a scope
  refers to it or is about to, a reader is visible to the last put, and the
  meta list holds no freed data.
- *Taskflow*: the sub-task flag, `main_task` and `nr_sub_task` are kept apart
  from the lists and must follow every move.  Correct means: every task is in
  one stage and counted there, the order asked for is the order of execution,
  await returns after every task has run once.

`PROJECT.json` lists the individual hazards, each at its line, with the
properties that are about it.

## 2. The modules

One action per step; a step is a critical section that touches only what its
lock protects, or one access to shared memory.  Actions carry the C function's
name, with a suffix where the function takes several steps.  Executions are
sequentially consistent: the barriers (`mthpc_cmb`, `smp_mb`, atomics with
`__ATOMIC_*`) are taken to be strong enough, and weak-memory effects are out of
scope.  Failures of `malloc()` and `pthread_create()`, which the code answers
with a warning or an assertion, are not modelled.  Operators marked "broken
variant" differ from the definition after them by one plausible mistake; no
specification uses them.  They record which mistake each property rules out.

**`GpWord`** - the `gp_seq` word as a pair of phase and nesting count, counted
modulo its width, so that a carry reaches the phase (`Inc`, `Dec`); the flip;
and what `mthpc_wait_for_readers()` lets pass.  Used by `Rcu` and `SafePtr`.

**`Rcu`** - one `mthpc_rcu_data`.  `gp_seq`, `node_gp`, `head`, `lock` are the
fields of the C structures, `node_ptr` the thread-local pointer.  `head` is the
set of the linked nodes, since the walk of `mthpc_wait_for_readers()` may visit
them in any order, which contains the order of the code; `link` has their `next`
pointers, for `mthpc_rcu_add()`.  `Threads` are incarnations; `Tid` gives each its
`pthread_self()`, which a later thread may have again, and `Id` cuts it to
`IdSpace` as the `unsigned int` parameter does, so that two live threads may have
one id.  When `mthpc_rcu_add()` finds a node with the id (`mthpc_rcu_add_found`),
it releases the lock and only then reads `*indirect` (`mthpc_rcu_add_adopt`,
rcu.c:116-119).  In between the node before may have been freed by its owner
(`dangling`; then anything may be read) or the list may have changed.  `mishap`
is history: the first thing that went wrong, a nested read lock that carried into
the phase bit, a read of `*indirect` in a freed node, or one that gave the
node of another thread or none.  The properties of RCU say what holds up to the
first mishap; nothing but these three ends it.

**`RcuReclaim`** - `Rcu` composed with the client protocol of
`src/rcu/test.c`: dereference under a read lock; replace, synchronize
once or more (once in the tests), free.  Two variables are history: `stale[t]`
says that the phase had changed between the load and the store of t's read
lock, `twice` holds the objects freed after two or more calls.  `Writers` are the
threads that replace and synchronize.

**`Barrier`** is the abstract promise; **`CentralizedBarrier`** the code.  All
threads make the calls of `Plan`, so one or several barriers may be used.
`round` counts the releases and is history.

**`Workqueue`** - one pool, its callers, its workers and the exit handler, with
the futex emulation the build selects.  `mthpc_synchronize_rcu()` has the two
waits and the flip of rcu.c:53-75, and the worker's read lock loads the phase and
stores it in two steps, so the flip of the first call (workqueue.c:432), or of an
earlier queue's, makes stale readers that the call at line 386 does not wait for.
`behind` holds the threads whose phase is not the one of `data->gp_seq`.  `missed`
is history: a call at line 386 has returned with a stale reader inside.  Such a
reader may add its work to a queue without a worker, walk into `free_list` or use
a freed queue, after which it is `lost` (what it does is undefined).  `asked` is
history too: the cpu, before it is masked, a queue was made for.  `wq->count` is the length of the list.  `next` holds the
pointers of `rculist.h`: readers follow them one step at a time, while the
holder of `wp->lock` links and unlinks queues and moves them to `free_list`
through the same node; `pool` is the list as that holder sees it.  A work that runs either returns or
schedules itself again.  The exit handler starts when the client threads are
through, as it does after `main` returns; works may still reschedule
themselves.  The futex word is never set back to 0: the code does that only on
`EAGAIN`, which the emulation does not return, so after its first wake-up an
idle worker polls.  Left out: `work->wq` and `mthpc_dump_work()`, which only
print, and a work that is scheduled while it is still queued (section 7).
**`WorkPool`** is the abstract promise: scheduled, run, closed.

**`SafePtr`** - safe pointers, their control blocks and the meta list.  A safe
pointer is identified with the scope it lives in; a scope creates it or borrows
from another live one, uses it and destroys it.  A scope does not end while
somebody is inside `mthpc_pass_sp_post()` with a pointer to its safe pointer:
that is the promise of a borrow, which the code cannot check.  A node is the pair
of its control block and its safe pointer, since ids come from a counter.  An
object is what a create or a store brought, or what `cmpxhg()` put in its place.
`ALL` is a thread that calls `mthpc_synchronize_rcu_all()`.  Undefined behaviour
is a choice: the read lock of a borrower on a node it has not got yet
(safe_ptr.c:287) faults, locks somebody's node, or changes nothing that matters;
`free()` of an address inside the control block (rcu.c:211) stops the process or
frees it; so does locking or destroying a lock that cannot be.  `over` is the
stopped process.  A freed block is not handed out again, so what is read from it
after (safe_ptr.c:155) is what was last in it.  `left` is history: the scopes that
had a block and gave it up in `store()`, whose put of the old block is never made
(the inverted test at safe_ptr.c:240).

**`ThreadGroup`** - the main thread runs a program of `Plans`, a sequence of
`run`, `async` and `wait` calls on clusters of groups.  Objects are named after the call that creates
them: on the stack for `run`, from `malloc()` for `async`.  Of the workqueue it
keeps that the join work is queued and run.  Each thread goes through the start
barrier once with sense 1 (a thread's first call; what a second barrier does is
the subject of `barrier_two`).  `nr_group` wraps at `Word`.  The second
`pthread_join()` of a thread, which `mthpc_thread_async_wait()` makes after the
join work has reaped the group, is undefined in POSIX: it returns, or hangs
(`mthpc_thread_async_wait_hang`).  The groups of one call are distinct: each has room for one set
of thread ids.

**`List`** - the functions of `list.h` as operators on a memory of `next` and
`prev` pointers, with the assignments in the order of the code.  `Walk` is what
the `for_each` macros visit.  `mthpc_list_move()`, which nothing calls, is left
out.

**`SeqLemmas`** - what the sequence operators of the other modules do to lists
without repeated elements: lemmas that the proof modules (section 4) share.

**`Taskflow`** - a program that creates tasks and sub tasks, moves them, and
awaits the flow; `heap` holds the fields of the tasks.  `mthpc_taskflow_await()`
takes one step per scheduled work; the works run in any order, which contains
what the workqueue does.  `order` is history: what was asked of `precede()` and
`succeed()` and not revoked by a later move of one of the two tasks.  Every call
the interface takes is modelled, with one or two tasks.  But
`mthpc_taskflow_rlist_del()` does not repair everything, so `astray` (history)
records the first call that was not *straight*, and why:

- `stale`: the flag or `main_task` of an argument disagrees with the lists
  (`UpToDate`).  They do for the sub tasks of a main task that was moved away: its
  first sub task takes its place but keeps the flag and the old `main_task`
  (taskflow.c:158-170).  A later call on one of them works on the wrong task
  (lines 142, 245, 300); in `draw_graphviz.c:34` such a call is commented out;
- `own`: a task is named twice, or moved together with or relative to its own sub
  task;
- `many`: several tasks at once are put before the first or after the last main
  task: taskflow.c:258 and 313 give the first of them the count of all, while each
  becomes a main task;
- `nested`: a sub task gets a sub task ("we don't have sub sub-task",
  taskflow.c:30).

After a call that is not straight the model follows the pointers as the code does.
It ends (`lost`) where that is undefined: a `main_task` that is `NULL`, a walk that
does not come back to its head, a pointer left to a list head on the stack that is
gone, a work scheduled while it is queued.

## 3. The runs

| Run | Instance | Shows |
|---|---|---|
| `reclaim` | 3 threads, two with one id; nesting to 3, one more than the counter holds; 1 replaced object, 1 or 2 calls | up to the first mishap: `NodeOwned`, `NestIsDepth`; `FreshReadersProtected`: after one call only a reader with an outdated phase can be hurt; `TwoCallsProtect`: after two nobody; `SecondWaitEnds` |
| `reclaim_stale` | 2 threads, 1 call | **violated** `NoUseAfterFree` (section 6) |
| `barrier` | 5 threads, 6 rounds | `BarrierSync`, `ImplementsBarrier`, `EveryoneReturns` |
| `barrier_two` | 3 threads, two barriers in turn | **violated** `BarrierSync` |
| `workqueue` | 2 works, one of which reschedules itself; 2 cpus, cpu arguments -1 and 2, one beyond them, up to 3 queues | `OneQueuePerCpu`, `NoQueueLeft`; until a stale reader is missed `QueuedWorkServed`, `WalkLeadsBack`, `ImplementsWorkPool`, and but for the lock-up `ScheduledWorkRuns`, `ExitEnds` |
| `workqueue_exit` | 1 work scheduled twice | **violated** `ExitReturns` |
| `safe_ptr` | 2 scopes, 2 control blocks, counter width 1, one call of `mthpc_synchronize_rcu_all()` | `RefsCounted`, `CbLive`, `LoadedObjectLive`, `ReaderVisible`, `MetaLive` |
| `safe_ptr_put` | 2 scopes, 1 control block | **violated** `LockUsable` |
| `threads_wait` | clusters of 1 + 2 threads, run synchronously, then asynchronously and waited for; or left to the join work | `StartTogether`, `BarrierObjectLive`, `SharesCounted`; `CallsReturn` but for a second `pthread_join()` that hangs; `AutoJoin` without the wait |
| `threads_ends` | the first of these programs | **violated** `JoinWorkEnds` |
| `taskflow` | up to 4 tasks, 3 moves of 1 or 2 tasks each | after straight calls `StagesMatch`, `OrderKept`, `AwaitRunsAll`, `AwaitReturns` |
| `taskflow_many` | up to 3 tasks, 2 moves | **violated** `AwaitEndsAll` |

**Why the bounds are enough.**  In RCU a reader, an updater and a second
updater whose flip makes the reader's phase stale are the three roles; one
replaced object and width 2 or 1 of the counter reach every phase combination
and every carry.  The phase and the senses are bits, so rounds repeat after
two; six rounds of the barrier cover three such periods.  Two callers suffice
to race for the creation of one queue, and a work that schedules itself is
enough to race with every step of the exit handler; with two cpus a third queue
is created after one has been unlinked, so that a reader can stand at a queue on
its way out.  A lender and a borrower, or two scopes that end together, are the
roles of a safe pointer; a second control block is what a store brings.  Three
scopes without `ALL` were checked once (2.9 million states) and agree.  Two groups of unequal
size tell shares from numbers of groups; both reapers meet on either group.
Four tasks are the fewest that allow a main task with two sub tasks beside
another main task, so that every branch of `mthpc_taskflow_rlist_del()` and of
both moves is taken; the third move acts on what a chain of two has left.
The proofs of section 4 remove the bounds from the safety properties.

Two runs cut behaviours of which no property says anything.  `reclaim` follows one
up to its first mishap (`NoMishap`).  `taskflow` and `taskflow_many` have every
sequence of straight calls; once a call was not straight, they go on with one call
more of at most three tasks and follow `await()` through the first round
(`Bounded`).

In the workqueue runs deadlock is not checked, because the exit handler can hang,
which `workqueue_exit` shows; `LockedUp` names that state, and `workqueue` shows
that nothing but this and a missed stale reader keeps a work from running or the
handler from ending.  In the
safe pointer runs it is not checked because scopes end, the process may be
stopped, and a put may wait for ever (section 6).  A cpu argument may be
any number: `src/workqueue/test.c:17-18` passes 1 to 10 with four cpus.  The fast
path masks it; the second look of `mthpc_get_workqueue()` (workqueue.c:278) compares
the bare argument with a masked one, so for a larger argument it never matches and
two racing callers both link a queue.  `OneQueuePerCpu` says that a pool has two
queues for one cpu only in this way.

**Fairness.**  Weak fairness of a thread's steps stands for the kernel's
scheduler: a thread that can run is run in the end.  `Rcu` asks it only of
threads inside the library, since nothing makes a thread call; that readers
leave is the premise of `SecondWaitEnds`.  The wait before the flip has no such
property: readers that re-enter with the current phase may starve it.
`CentralizedBarrier` also asks that participants make their calls.  `Workqueue`
asks it of callers, workers and the exit handler, and strong fairness of the
step that takes `wp->lock` in the slow path: the exit handler takes that lock
again and again, but calls `sched_yield()` between (workqueue.c:368-372), and a
mutex that is free infinitely often is got.  In `ThreadGroup` the step of
`mthpc_thread_async_wait()` that takes the lock is strongly fair: the join work
releases the lock and goes through the workqueue before it takes it again.  `Taskflow` asks it of the thread inside await and
of the works: that a scheduled work runs is what `ScheduledWorkRuns` shows of
the workqueue.

## 4. What is proved

Under the assumptions on the constants in each module (`RcuAssumption`,
`ReclaimAssumption`, `BarrierAssumption`, `WorkqueueAssumption`,
`SafePtrAssumption`, `ThreadGroupAssumption`, `TaskflowAssumption`: sets of names
are finite and distinct, sizes are natural numbers) and, where named below,
hypotheses of the theorem itself.  No bound of section 3 remains.  Every inductive invariant was checked by
TLC on the instances of section 3 before it was proved.

RCU, in `RcuProofs` and `RcuReclaimProofs`:

- **`RcuTypeCorrect`**: `TypeOK`, also after a mishap.
- **`RcuNodesCorrect`** and **`RcuNestCorrect`**: `NodeOwned` and `NestIsDepth`,
  which speak of the time up to the first mishap.  The inductive invariant
  `UpToMishap` says that types hold always and `RcuInv` until then: nodes of
  registered threads differ (`NodesApart`) and are linked (`NodeLinked`), a node
  left by a thread without `mthpc_rcu_thread_exit()` is idle, so it can be adopted
  (`LeftoversIdle`), and what each control point implies about registration,
  nesting depth and the lock (`ControlState`).
- **`NoForeignNode`**: under `IdsDistinguish`, that threads with different
  `pthread_self()` have different low words, the third mishap does not happen:
  unless the node before it was freed, `mthpc_rcu_add()` gets the node it found,
  though it reads it without the lock.  `OwnInv` adds that live threads have
  different `pthread_self()` (`LiveTidsDiffer`) and that the node found stays
  linked behind its predecessor (`AdoptsFound`): only its owner could unlink it,
  and that is gone.
- **`ClientTypeCorrect`**: `ClientTypeOK`.
- **`FreshReadersSafe`**: `FreshReadersProtected`, up to the first mishap.
  `FreshInv`: a reader that is
  not stale has the current phase, unless a flip has just happened and the
  second wait has yet to pass its node (`FreshPhase`); so it blocks the first
  wait of whoever wants to free what it holds, who gets no further while it
  holds it (`FreshBlocks`).
- **`TwoCallsSafe`**: `TwoCallsProtect`.  `TwoCallInv`: a
  reader that survives the first call, stale or not, has the current phase when
  that call is over (`FirstCallSorts`), so it blocks the first wait of every
  later call (`SecondCallBlocks`).

The barrier, in `CentralizedBarrierProofs`:

- **`BarrierSafe`**: `BarrierSync` for one barrier
  and `N = Cardinality(Threads)` (`OneBarrier`).  `BarrierInv`: every thread is
  in the current or the next round (`RoundOf`), the sense of a thread is the
  parity of its calls and the flag the parity of the releases
  (`SenseIsParity`), and `count` is the number of threads that have arrived
  and not been released (`CountIsArrived`).
- **`BarrierTypeCorrect`**: `TypeOK`, under the same hypothesis.
- **`BarrierRefines`**: under the same hypothesis the code implements `Barrier`
  (`begun` and `done` map to themselves; release and pass are `Leave`).

The workqueue, in `WorkqueueProofs`, for any works, queues, cpus and numbers of
calls:

- **`TypeCorrect`**, **`QueuedWorkIsServed`**, **`ExitLeavesNoQueue`** and
  **`WalkStaysInPool`**: `TypeOK`, `QueuedWorkServed`, `NoQueueLeft` and
  `WalkLeadsBack`.
- **`OneQueueForACpu`**: `OneQueuePerCpu`, for any cpu arguments.
- **`WorkPoolRefined`**: `ImplementsWorkPool`, every step is one of `WorkPool`
  until a stale reader is missed.

`WorkqueueInv` says in parts how the handler's lists lie to the pool
(`ListState`); that a queue is allocated while it is in one of them or about to
be linked, and active, and holding works, only until it has left the pool
(`QueueState`, `CountState`); that a new queue belongs to the thread that
creates it until its worker is started (`OwnerState`); that the pointers of the
pool lead back to its head (`ChainState`); that whoever was inside the read lock
with the current phase when `mthpc_synchronize_rcu()` was called has left when its
second wait begins (`SyncState`); that, until a stale reader is missed, a reader
stands in the pool or at the queue whose readers the handler waits for
(`ReaderState`, `PlaceState`); that the clients are
through before the handler starts (`ClientState`); and, again until then, that a work is in
one place at most and has been run as often as it was scheduled, but for that one
(`CarryState`, `WorkState`, `CallState`).  A queue leaves the pool only empty and stays locked
until its readers are gone, so no work enters it after.  `CpuState` adds that a
queue about to be linked was made for the cpu that is looked for under `wp->lock`.

Safe pointers, in `SafePtrProofs`, for any scopes, control blocks and width of
the counter:

- **`TypeCorrect`**, **`RefsAreCounted`**, **`CbStaysLive`**,
  **`LoadedObjectStaysLive`**, **`ReadersAreVisible`** and **`MetaStaysLive`**:
  `TypeOK`, `RefsCounted`, `CbLive`, `LoadedObjectLive`, `ReaderVisible` and
  `MetaLive`.
- **`DestructorRunsOnce`**: no block is taken down by two scopes, nor after its
  object was reclaimed (`TakenDownOnce`).

`RefsCounted` is not inductive: the references that `store()` leaks are those of
scopes whose node is still linked in the old block or once was.  The invariant
counts them with `NodesCounted` and ties them to `left` (`LeftState`).
`SafePtrInv` adds what a scope has at each step of a call (`ScopeState`: its
block, its node and whether it is linked), that the scope a borrower was handed
keeps its safe pointer (`LenderState`), that a block whose count is not 0 is
allocated with a usable lock, and only allocated ones are in the meta list
(`BlockState`), how far the scope of the last put is with taking the block down
(`TeardownState`), and that whoever waits for readers holds the lock
(`LockState`).  It holds in spite of the disorders that
section 6 lists: none of them reaches the count.

Thread groups, in `ThreadGroupProofs`, for any groups of any sizes and any
programs with `AsyncOnce`: a group that has been run asynchronously is not run
again.  The code warns of a synchronous rerun (thread.c:128) and cannot do an
asynchronous one, since `nr_exited` is never reset; without `AsyncOnce` TLC finds
`SharesCounted` violated, because creating the threads again overwrites the
pointer to the first object and its share is lost.

- **`TypeCorrect`**, **`StartsTogether`**, **`BarrierObjectStaysLive`** and
  **`SharesAreCounted`**: `TypeOK` (with it that no refcount falls below 0),
  `StartTogether`, `BarrierObjectLive` and `SharesCounted`.

`ThreadGroupInv` ties together what three parties keep: a group refers to the
object of the call that created its threads until they are dead and its share
is dropped (`GroupState`); the refcount counts the threads of groups that refer
to the object or, while the call creates threads, will (`ShareState`);
`nr_exited` counts the threads that are through, so that a group with
`nr_exited = nr` is past the barrier (`ExitState`).  Hence `n`, read from the
refcount, is the size of the cluster as long as a thread has yet to arrive: either
threads still gather and nobody has dropped a share, or all have passed
(`BarrierState`, `ThreadState`).

Lists and the taskflow, in `TaskflowProofs`, for any number of tasks and calls.  The
properties speak of the time when every call was straight (section 2), and each is
false without that: two tasks put before the first main task leave a count of two
in a stage of one (`StagesMatch`), on which `await()` hangs; moved once more, they cut the
list, so that a task runs before one it was put after and `await()` returns with
tasks that never ran (`OrderKept`, `AwaitRunsAll`):

- **`TypeCorrect`**, **`StagesAlwaysMatch`**, **`OrderIsKept`** and
  **`AwaitRunsEveryTask`**: `TypeOK`, `StagesMatch`, `OrderKept` and
  `AwaitRunsAll`.

The proof has four layers.  `Chain(l, h, s)` says that from head `h` the `next`
and `prev` pointers of `l` lead through the nodes `s`, none of them twice, and
back.  `ListAdd`, `ListAddTail`, `ListDel`, `ListReplaceInit`, `ListSplice` and
`ListSpliceTail` state what each function of `list.h` does to a chain of any
length; `ListDelHead` what
`mthpc_list_del()` does when it is given the head, which is how
`mthpc_taskflow_rlist_del()` hands the sub tasks of a main task to the first of
them; `WalkIsChain` that the `for_each` macros visit `s`.  `Planned(h, M, S, A)`
says that the heap holds main tasks `M`, the sub tasks `S` of each and
`adding_list` `A`, with no task in two of them and `nr_sub_task` as long as the
lists.  `RlistDel`, `PrecedeMoves` and `SucceedMoves` show that a call leaves a
plan of the same tasks, the moved ones in an earlier or a later stage than the
argument, and the order of all the others as it was (`Before`).  `FlowInv` then
says that there is a plan of all created tasks which respects `order` (`Ready`),
and that await is at one of its stages (`AtStage`); `FlowInvNow`, the inductive
invariant, that `FlowInv` holds as long as `astray` is `"no"`.  `NotDerailed` shows
that a straight call follows no `NULL` and leaves no pointer to a list head on the
stack.  At a stage the works of earlier stages
are complete, those of later ones idle, in this stage those are scheduled that
the walk has passed, and the completion has counted those that are complete.
The stages have to be in the invariant because the fields alone do not give
them: the flag and `main_task` of a sub task that has become a main task are out
of date, so `Unflagged` goes one way only.

## 5. What is only model-checked

Liveness is beyond the proof system: `SecondWaitEnds`, `EveryoneReturns`,
`ScheduledWorkRuns`, `ExitEnds`, `CallsReturn`, `AutoJoin`, `AwaitReturns`.
Every invariant of a passing run is proved, under the hypotheses named above.

## 6. Disagreements found

1. *Stale readers* (`reclaim_stale`, rcu.c:70).  Both waits look for the phase
   of before the flip.  A reader that loaded `gp_seq` before an earlier flip
   and stored it after carries the other phase and is passed by both; its
   object is freed under it.  Two calls, or a second flip and wait in one call,
   close it (`TwoCallsSafe`).
2. *Two barriers* (`barrier_two`, centralized_barrier.c:15).  The sense is per
   thread, the flag per barrier: the first thread at a second barrier passes
   alone.
3. *Exit deadlock* (`workqueue_exit`, workqueue.c:386).  A grace period is
   awaited under `wq->lock`, which a reader takes inside its read lock.
4. *Endless join work* (`threads_ends`, thread.c:216).  Both reapers count the
   same group down; `nr_group` wraps and the work queues itself for ever.  If the
   program waits for one group of a cluster only, the same double count can bring
   `nr_group` to 0 too early, and the other group is never joined.
5. *Put before unlink* (`safe_ptr_put`, safe_ptr.c:150).  A put leaves the count
   and only then its node; in between the last put of another scope destroys the
   lock and frees the block, and the first takes the destroyed lock.
6. *Several tasks at an end* (`taskflow_many`, taskflow.c:258, 313).
   `doc/api.md:291` offers `forward_tasks...`.  `precede(t, u, v)` on the first main
   task makes main tasks of u and v and gives u the count 2;
   `await()` schedules u alone and waits for two.  If u is moved again, as in
   `succeed(t, u)`, its `next_head` is u itself (line 158), the list is cut at
   `HEAD`, and `await()` runs u and returns: t and v never run.  A call on a stale
   sub task (lines 142, 245) goes wrong likewise.

The first of these reaches into the workqueue: its exit handler relies on a grace
period that `mthpc_synchronize_rcu()` does not give.  A work that reschedules itself
while the handler's first call (workqueue.c:432) flips the phase is passed by the
second (line 386) and adds its work to a queue that is about to be freed.  The
properties of `workqueue` and the theorems about it hold up to that moment
(`missed`), which is where `reclaim_stale` bites; with two calls in place of one it
would not come.

Also in the workqueue, the queue can be freed between the unlock of the fast path,
or the creation of the worker, and the wake-up (workqueue.c:316), which then writes
to freed memory; TLC reaches such states, and the comment at line 225 ("Prevent
mthpc_workqueues_join() to delete the wq.") holds only until the work has run.

Of `safe_ptr.c` the model shows more that no run states, since nothing in the
repository says otherwise than that it should not be so:

- the borrower's read lock acts on a node it has not got yet (line 287), the
  unlock then on the fresh one (line 294), whose count wraps: the node looks like
  an active reader for good, and a later synchronize, after a flip, may wait on it
  for ever, even the last put on its own node.  `CbLive` and `RefsCounted` hold
  all the same: the lender's reference protects the duplication, not RCU;
- `free()` gets an address inside the block (rcu.c:211), before the destructor is
  read from it (safe_ptr.c:155);
- the test at line 240 is inverted, so a store leaks the old block, which
  `RefsCounted` states: the count includes those who left (`left`).  Turning it
  round is not enough: the put then races with a borrower of the same safe
  pointer, which is the broken variant `StorePuts`;
- an `rcu_data` loses its lock before it leaves the meta list (rcu.c:197), so
  `mthpc_synchronize_rcu_all()` can take a destroyed lock.

## 7. Plan

Done, in this order: RCU, its clients, the barrier and its abstraction, the
workqueue, the thread groups, lists and taskflow, the theorems of section 4, the
safe pointer with the meta list, the readers of `rculist.h`, the abstract work
pool.  Next:

1. A work that is scheduled while it is still queued (workqueue.c:311): the queue's
   list needs its pointers, for `mthpc_list_init()` leaves the node linked to itself
   and the worker takes it for ever.
2. An abstract task flow (a sequence of stages) implemented by `Taskflow` as long
   as the calls are straight.

**Not modelled**, and why: `mlrcu.c` is unfinished and not built; print, debug,
`util.h` and `feature.h` are output and macros; `scoped_lock.h` and `guards.h`
expand to cleanup attributes around the locks; the benchmarks measure.
