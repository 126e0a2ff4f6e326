---------------------------- MODULE ThreadGroup ----------------------------
(***************************************************************************)
(* The thread framework (src/thread/thread.c).  The main thread makes a    *)
(* sequence of calls, each on one group or on a cluster of groups:         *)
(*   "run"    __mthpc_thread_run(), which joins the threads,               *)
(*   "async"  __mthpc_thread_async_run(), which links the groups in        *)
(*            mthpc_threads_info and queues the join work,                 *)
(*   "wait"   __mthpc_thread_async_wait().                                 *)
(* The threads of a call meet at a start barrier; the barrier object of    *)
(* the k-th call is called k.  Everyone uses it once and afresh, so its    *)
(* flag and the sense of a thread are both 0 before the release and differ *)
(* from it after (module CentralizedBarrier is about repeated use).        *)
(* The workqueue is seen as the queue of its one work, mthpc_thread_work.  *)
(***************************************************************************)
EXTENDS Integers, FiniteSets, Sequences, SequencesExt

CONSTANTS
    Groups,     \* thread groups
    Nr,         \* Nr[g]: group->nr
    Plans,      \* programs of the main thread: each a sequence of calls
                \* [op, groups], groups a sequence
    Word        \* 2^64 in the code: nr_group is an unsigned long

Calls == UNION {1..Len(p) : p \in Plans}

(* The groups of a call are distinct, since each has room for one set of   *)
(* thread ids.                                                             *)
ASSUME ThreadGroupAssumption ==
    /\ IsFiniteSet(Groups) /\ Nr \in [Groups -> Nat \ {0}]
    /\ \A p \in Plans :
          /\ Len(p) \in Nat
          /\ \A k \in 1..Len(p) :
                /\ p[k].op \in {"run", "async", "wait"}
                /\ p[k].groups \in Seq(Groups) \ {<<>>}
                /\ IsInjective(p[k].groups)
    /\ Word \in Nat \ {0, 1}

Threads == UNION {{g} \X (1..Nr[g]) : g \in Groups}
Members(g) == {t \in Threads : t[1] = g}

VARIABLES
    plan,           \* the program
    call,           \* index of the main thread's current call
    mpc,            \* where it is in that call
    idx,            \* the group of the call that it is at
    head, nr_group, \* mthpc_threads_info.head and .nr_group
    lock,           \* mthpc_threads_info.lock over several steps: "none", "wq"
    async,          \* groups with MTHPC_THREAD_ASYNC_TYPE
    barrier_object, \* barrier_object[g]: group->barrier_object, 0 for NULL
    nr_exited,      \* nr_exited[g]: group->nr_exited
    refcount,       \* refcount[k]: refcount of barrier object k
    count, flag,    \* of the barrier in object k
    live,           \* barrier objects that are allocated, or in scope
    entry,          \* "run" for mthpc_thread_worker(), "async" for the other
    pc,             \* where each thread is
    obj, n,         \* arguments of its call of the barrier
    joins,          \* joins[t]: calls of pthread_join() on t
    wpc, walk,      \* the join work: where it is, groups it has yet to visit
    queued          \* how often mthpc_thread_work is queued

mainVars == <<plan, call, mpc, idx>>
infoVars == <<head, nr_group, lock>>
groupVars == <<async, barrier_object, nr_exited>>
objVars == <<refcount, count, flag, live>>
threadVars == <<entry, pc, obj, n, joins>>
workVars == <<wpc, walk, queued>>
vars == <<mainVars, infoVars, groupVars, objVars, threadVars, workVars>>

Init ==
    /\ plan \in Plans /\ call = 1 /\ mpc = "call" /\ idx = 1
    /\ head = <<>> /\ nr_group = 0 /\ lock = "none"
    /\ async = {}
    /\ barrier_object = [g \in Groups |-> 0]
    /\ nr_exited = [g \in Groups |-> 0]
    /\ refcount = [k \in Calls |-> 0]
    /\ count = [k \in Calls |-> 0]
    /\ flag = [k \in Calls |-> 0]
    /\ live = {}
    /\ entry = [t \in Threads |-> "run"]
    /\ pc = [t \in Threads |-> "none"]
    /\ obj = [t \in Threads |-> 0]
    /\ n = [t \in Threads |-> 0]
    /\ joins = [t \in Threads |-> 0]
    /\ wpc = "idle" /\ walk = <<>> /\ queued = 0

\* The group the main thread is at, and whether it is the last of the call.
Op == IF call <= Len(plan) THEN plan[call].op ELSE "none"
Current == plan[call].groups[idx]
LastGroup == idx = Len(plan[call].groups)

\* The next group of the call, or what follows the loop.
Advance(loop, after) ==
    IF LastGroup THEN mpc' = after /\ idx' = 1
                 ELSE mpc' = loop /\ idx' = idx + 1

\* Broken variant: the barrier counts the threads of the first group only.
FirstNr(k) == Nr[plan[k].groups[1]]

TotalNr(k) == Cardinality({t \in Threads : t[1] \in ToSet(plan[k].groups)})

\* pthread_join() of every thread of the group, when it returns.
JoinGroup(g) ==
    /\ \A t \in Members(g) : pc[t] = "dead"
    /\ joins' = [t \in Threads |-> joins[t] + IF t[1] = g THEN 1 ELSE 0]

\* Broken variant: nr_group is signed.
OneLessSigned(x) == x - 1

OneLess(x) == (x - 1) % Word    \* of nr_group

\* mthpc_list_del(), which leaves the node linked to itself and so does
\* nothing to a group that is not in the list, and nr_group--.
Unlink(g) ==
    /\ head' = RemoveFirst(head, g)
    /\ nr_group' = OneLess(nr_group)

\* Broken variants: the first group to finish frees the object; the pointer of
\* the group is not cleared.
AnyShare(shares) == TRUE
Kept(k) == k

LastShare(shares) == shares = 0
Cleared(k) == 0

mthpc_group_put_barrier_object(g) ==
    LET k == barrier_object[g] IN
    IF k = 0 THEN UNCHANGED <<barrier_object, refcount, live>>
    ELSE /\ refcount' = [refcount EXCEPT ![k] = @ - Nr[g]]
         /\ live' = IF LastShare(refcount'[k]) THEN live \ {k} ELSE live
         /\ barrier_object' = [barrier_object EXCEPT ![g] = Cleared(@)]
-----------------------------------------------------------------------------
(* The main thread. *)

\* Start of __mthpc_thread_run() and __mthpc_thread_async_run(): the barrier
\* object, on the stack or from malloc(), for all threads of the cluster.
mthpc_thread_run_begin ==
    /\ mpc = "call" /\ Op \in {"run", "async"}
    /\ refcount' = [refcount EXCEPT ![call] = TotalNr(call)]
    /\ live' = live \union {call}
    /\ mpc' = IF Op = "run" THEN "create" ELSE "link"
    /\ UNCHANGED <<plan, call, idx, infoVars, groupVars, count, flag, threadVars, workVars>>

mthpc_thread_async_run_link ==
    /\ mpc = "link" /\ lock = "none"
    /\ async' = async \union {Current}
    /\ head' = Append(head, Current)
    /\ nr_group' = (nr_group + 1) % Word
    /\ mpc' = "create"
    /\ UNCHANGED <<plan, call, idx, lock, barrier_object, nr_exited, objVars, threadVars, workVars>>

\* pthread_create() for every thread of the group.
mthpc_thread_run_create ==
    /\ mpc = "create"
    /\ barrier_object' = [barrier_object EXCEPT ![Current] = call]
    /\ entry' = [t \in Threads |-> IF t[1] = Current THEN Op ELSE entry[t]]
    /\ pc' = [t \in Threads |-> IF t[1] = Current THEN "init" ELSE pc[t]]
    /\ joins' = [t \in Threads |-> IF t[1] = Current THEN 0 ELSE joins[t]]
    /\ IF Op = "run" THEN Advance("create", "join") ELSE Advance("link", "queue")
    /\ UNCHANGED <<plan, call, infoVars, async, nr_exited, objVars, obj, n, workVars>>

\* The joins of __mthpc_thread_run(); its barrier object goes out of scope.
mthpc_thread_run_join ==
    /\ mpc = "join"
    /\ JoinGroup(Current)
    /\ IF LastGroup
       THEN call' = call + 1 /\ live' = live \ {call}
       ELSE UNCHANGED <<call, live>>
    /\ Advance("join", "call")
    /\ UNCHANGED <<plan, entry, infoVars, groupVars, refcount, count, flag, pc, obj, n, workVars>>

mthpc_queue_thread_work ==
    /\ mpc = "queue"
    /\ queued' = queued + 1
    /\ mpc' = "call" /\ call' = call + 1
    /\ UNCHANGED <<plan, idx, infoVars, groupVars, objVars, threadVars, wpc, walk>>

\* __mthpc_thread_async_wait(): unlink the group, whether or not it is linked.
mthpc_thread_async_wait_unlink ==
    /\ mpc = "call" /\ Op = "wait" /\ lock = "none"
    /\ Unlink(Current)
    /\ mpc' = "wait"
    /\ UNCHANGED <<plan, call, idx, lock, groupVars, objVars, threadVars, workVars>>

\* Then wait for its threads, join them and drop the barrier object.
mthpc_thread_async_wait_join ==
    /\ mpc = "wait" /\ nr_exited[Current] = Nr[Current]
    /\ JoinGroup(Current)
    /\ mthpc_group_put_barrier_object(Current)
    /\ Advance("call", "call")
    /\ call' = IF LastGroup THEN call + 1 ELSE call
    /\ UNCHANGED <<plan, entry, infoVars, async, nr_exited, count, flag, pc, obj, n, workVars>>

\* pthread_join() of a thread that the join work has joined is undefined: it
\* may return as above, and it may not return or crash; the main thread does
\* not go on then.
mthpc_thread_async_wait_hang ==
    /\ mpc = "wait" /\ nr_exited[Current] = Nr[Current]
    /\ \E t \in Members(Current) : joins[t] > 0
    /\ mpc' = "hung"
    /\ UNCHANGED <<plan, call, idx, infoVars, groupVars, objVars, threadVars, workVars>>

\* An iteration of the loop that finds threads of the group still running.
mthpc_thread_async_wait_spin ==
    mpc = "wait" /\ nr_exited[Current] # Nr[Current] /\ UNCHANGED vars

MainStep ==
    \/ mthpc_thread_run_begin \/ mthpc_thread_async_run_link
    \/ mthpc_thread_run_create \/ mthpc_thread_run_join
    \/ mthpc_queue_thread_work
    \/ mthpc_thread_async_wait_unlink \/ mthpc_thread_async_wait_join
    \/ mthpc_thread_async_wait_hang \/ mthpc_thread_async_wait_spin
-----------------------------------------------------------------------------
(* __mthpc_thread_worker() in thread t, once mthpc_rcu_thread_init() and   *)
(* group->init() are through.                                              *)

\* The arguments of the call of the barrier; n is read from the refcount.
mthpc_thread_worker_load(t) ==
    /\ pc[t] = "init"
    /\ obj' = [obj EXCEPT ![t] = barrier_object[t[1]]]
    /\ IF barrier_object[t[1]] = 0
       THEN pc' = [pc EXCEPT ![t] = "func"] /\ UNCHANGED n
       ELSE /\ n' = [n EXCEPT ![t] = refcount[barrier_object[t[1]]]]
            /\ pc' = [pc EXCEPT ![t] = "arrive"]
    /\ UNCHANGED <<entry, mainVars, infoVars, groupVars, objVars, joins, workVars>>

mthpc_centralized_barrier_arrive(t) ==
    /\ pc[t] = "arrive"
    /\ LET c == count[obj[t]] + 1 IN
       /\ count' = [count EXCEPT ![obj[t]] = IF c = n[t] THEN 0 ELSE c]
       /\ pc' = [pc EXCEPT ![t] = IF c = n[t] THEN "release"
                                  ELSE IF c < n[t] THEN "spin" ELSE "func"]
    /\ UNCHANGED <<entry, mainVars, infoVars, groupVars, refcount, flag, live, obj, n, joins, workVars>>

mthpc_centralized_barrier_release(t) ==
    /\ pc[t] = "release"
    /\ flag' = [flag EXCEPT ![obj[t]] = 1]
    /\ pc' = [pc EXCEPT ![t] = "func"]
    /\ UNCHANGED <<entry, mainVars, infoVars, groupVars, refcount, count, live, obj, n, joins, workVars>>

mthpc_centralized_barrier_pass(t) ==
    /\ pc[t] = "spin" /\ flag[obj[t]] = 1
    /\ pc' = [pc EXCEPT ![t] = "func"]
    /\ UNCHANGED <<entry, mainVars, infoVars, groupVars, objVars, obj, n, joins, workVars>>

\* An iteration of the loop that finds the flag not yet reversed.
mthpc_centralized_barrier_spin(t) ==
    pc[t] = "spin" /\ flag[obj[t]] = 0 /\ UNCHANGED vars

\* group->func() returns; an asynchronous thread goes on to count itself.
mthpc_thread_worker_func(t) ==
    /\ pc[t] = "func"
    /\ pc' = [pc EXCEPT ![t] = IF entry[t] = "async" THEN "cleanup" ELSE "dead"]
    /\ obj' = [obj EXCEPT ![t] = 0] /\ n' = [n EXCEPT ![t] = 0]
    /\ UNCHANGED <<entry, mainVars, infoVars, groupVars, objVars, joins, workVars>>

\* Broken variant: the count is read and written in two accesses, and the
\* threads of the group all read 0.
CountLost(x) == 1

OneMoreExited(x) == x + 1

mthpc_thread_async_cleanup(t) ==
    /\ pc[t] = "cleanup"
    /\ nr_exited' = [nr_exited EXCEPT ![t[1]] = OneMoreExited(@)]
    /\ pc' = [pc EXCEPT ![t] = "exit"]
    /\ UNCHANGED <<entry, mainVars, infoVars, async, barrier_object, objVars, obj, n, joins, workVars>>

pthread_exit(t) ==
    /\ pc[t] = "exit"
    /\ pc' = [pc EXCEPT ![t] = "dead"]
    /\ UNCHANGED <<entry, mainVars, infoVars, groupVars, objVars, obj, n, joins, workVars>>

ThreadStep(t) ==
    \/ mthpc_thread_worker_load(t) \/ mthpc_centralized_barrier_arrive(t)
    \/ mthpc_centralized_barrier_release(t) \/ mthpc_centralized_barrier_pass(t)
    \/ mthpc_centralized_barrier_spin(t)
    \/ mthpc_thread_worker_func(t) \/ mthpc_thread_async_cleanup(t)
    \/ pthread_exit(t)
-----------------------------------------------------------------------------
(* mthpc_thread_wq_join(), the join work, in a worker of the workqueue. *)

mthpc_thread_wq_join_lock ==
    /\ wpc = "idle" /\ queued > 0 /\ lock = "none"
    /\ queued' = queued - 1
    /\ lock' = "wq"
    /\ walk' = head
    /\ wpc' = "visit"
    /\ UNCHANGED <<mainVars, head, nr_group, groupVars, objVars, threadVars>>

\* A group that is through is joined, under the lock.
mthpc_thread_wq_join_visit ==
    /\ wpc = "visit" /\ walk # <<>>
    /\ LET g == Head(walk) IN
       IF nr_exited[g] = Nr[g]
       THEN JoinGroup(g) /\ Unlink(g) /\ mthpc_group_put_barrier_object(g)
       ELSE UNCHANGED <<joins, head, nr_group, barrier_object, refcount, live>>
    /\ walk' = Tail(walk)
    /\ UNCHANGED <<entry, mainVars, lock, async, nr_exited, count, flag, pc, obj, n, wpc, queued>>

\* Broken variant: the last group is forgotten.
MoreThanOne(x) == x > 1

GroupsLeft(x) == x # 0      \* of nr_group

mthpc_thread_wq_join_unlock ==
    /\ wpc = "visit" /\ walk = <<>>
    /\ lock' = "none"
    /\ wpc' = IF GroupsLeft(nr_group) THEN "requeue" ELSE "idle"
    /\ UNCHANGED <<mainVars, head, nr_group, groupVars, objVars, threadVars, walk, queued>>

mthpc_thread_wq_join_requeue ==
    /\ wpc = "requeue"
    /\ queued' = queued + 1
    /\ wpc' = "idle"
    /\ UNCHANGED <<mainVars, infoVars, groupVars, objVars, threadVars, walk>>

WorkStep ==
    \/ mthpc_thread_wq_join_lock \/ mthpc_thread_wq_join_visit
    \/ mthpc_thread_wq_join_unlock \/ mthpc_thread_wq_join_requeue
-----------------------------------------------------------------------------
MainDone == call > Len(plan)
WorkDone == wpc = "idle" /\ queued = 0

Finished ==
    /\ MainDone \/ mpc = "hung"
    /\ WorkDone /\ \A t \in Threads : pc[t] \in {"none", "dead"}
    /\ UNCHANGED vars

Next ==
    \/ MainStep
    \/ \E t \in Threads : ThreadStep(t)
    \/ WorkStep
    \/ Finished

Spec == Init /\ [][Next]_vars

(* The main thread, every created thread and the worker keep running, and  *)
(* group->func() returns.  mthpc_thread_async_wait() gets the spin lock,   *)
(* which the join work takes and releases for ever, in the end.            *)
FairSpec ==
    /\ Spec
    /\ WF_vars(MainStep) /\ SF_vars(mthpc_thread_async_wait_unlink)
    /\ \A t \in Threads : WF_vars(ThreadStep(t))
    /\ WF_vars(WorkStep)
-----------------------------------------------------------------------------
(* The types of what the main thread and the join work have, and of groups *)
(* and threads.                                                            *)
MainTypeOK ==
    /\ plan \in Plans /\ call \in 1..(Len(plan) + 1) /\ idx \in Nat \ {0}
    /\ mpc \in {"call", "link", "create", "join", "queue", "wait", "hung"}
    /\ head \in Seq(Groups) /\ walk \in Seq(Groups)
    /\ nr_group \in 0..(Word - 1)
    /\ lock \in {"none", "wq"}
    /\ async \subseteq Groups
    /\ wpc \in {"idle", "visit", "requeue"} /\ queued \in Nat

ThreadTypeOK ==
    /\ barrier_object \in [Groups -> Calls \union {0}]
    /\ nr_exited \in [Groups -> Nat]
    /\ count \in [Calls -> Nat] /\ flag \in [Calls -> {0, 1}]
    /\ live \subseteq Calls
    /\ entry \in [Threads -> {"run", "async"}]
    /\ pc \in [Threads -> {"none", "init", "arrive", "spin", "release", "func",
                           "cleanup", "exit", "dead"}]
    /\ obj \in [Threads -> Calls \union {0}] /\ n \in [Threads -> Nat]
    /\ joins \in [Threads -> Nat]

(* The type of every variable; the refcount of a barrier object never      *)
(* falls below 0 ("the lifetime of barrier object just messed up",         *)
(* thread.c:45).                                                           *)
TypeOK == MainTypeOK /\ ThreadTypeOK /\ refcount \in [Calls -> Nat]

(* No thread runs its body before every thread of the cluster has run its  *)
(* init function (doc/api.md: "all of the threads will wait until all the  *)
(* initializations have been done. This kind of synchronization is         *)
(* cluster-level"), although the threads are created while the first ones  *)
(* already wait and n is read from a counter that finished groups reduce.  *)
StartTogether ==
    \A t \in Threads : pc[t] = "func" /\ obj[t] # 0 =>
        \A g \in ToSet(plan[obj[t]].groups) :
            /\ barrier_object[g] \in {obj[t], 0}
            /\ \A u \in Members(g) : pc[u] \notin {"none", "init", "arrive"}

(* The barrier object outlives its last user: whoever is in the barrier    *)
(* finds it allocated, or in scope, although the groups of a cluster are   *)
(* reaped one by one by two different threads.                             *)
BarrierObjectLive ==
    \A t \in Threads :
        /\ pc[t] \in {"arrive", "spin", "release"} => obj[t] \in live
        /\ pc[t] = "init" => barrier_object[t[1]] \in live

(* Nobody drops a group's share of the barrier object twice: the refcount  *)
(* is what the groups that still refer to the object have in it, and an    *)
(* object without a share is freed ("the lifetime of barrier object just   *)
(* messed up", thread.c:45).                                               *)
SharesCounted ==
    \A k \in 1..(call - 1) : plan[k].op = "async" =>
        /\ refcount[k] = Cardinality({t \in Threads : barrier_object[t[1]] = k})
        /\ k \in live <=> refcount[k] > 0

(* Every call of the main thread returns: its threads get through the start*)
(* barrier, exit and are counted, and mthpc_thread_async_wait() is not kept*)
(* from the lock by the join work.  The one excuse is a wait that comes to *)
(* join a thread again that the join work has joined (thread.c:226 after   *)
(* line 63).                                                               *)
JoinsAgain == Op = "wait" /\ \E t \in Members(Current) : joins[t] > 0
CallsReturn == <>(MainDone \/ (mpc = "hung" /\ JoinsAgain))

(* Groups that nobody waits for are reaped all the same (doc/api.md:46,    *)
(* "auto-join"): the join work joins each of their threads, once, and ends.*)
AutoJoin ==
    (\A k \in 1..Len(plan) : plan[k].op # "wait") =>
        <>[](WorkDone /\ head = <<>> /\ \A t \in Threads : joins[t] = 1)

(* Once the main thread is through, the join work joins what is left and   *)
(* ends: it does not queue itself for ever, which would keep the exit      *)
(* handler of the workqueue from finishing.                                *)
JoinWorkEnds == <>[]WorkDone
=============================================================================
