------------------------------ MODULE Taskflow ------------------------------
(***************************************************************************)
(* One taskflow (src/taskflow/taskflow.c) with its completion              *)
(* (include/mthpc/completion.h).  A program creates tasks and sub tasks,   *)
(* moves them with precede() and succeed(), and then awaits the flow: each *)
(* main task and its sub tasks are one stage, whose works are scheduled    *)
(* and waited for before the next stage.  The lists are those of module    *)
(* List, down to the pointers, because the fields that the functions       *)
(* consult (the sub-task flag, main_task, nr_sub_task) are kept apart from *)
(* the lists and can disagree with them.                                   *)
(*                                                                         *)
(* Of the workqueue it is used that a scheduled work runs at some time;    *)
(* works that share a worker are not kept in order.                        *)
(***************************************************************************)
EXTENDS List, Integers, SequencesExt

CONSTANTS
    MaxTask,    \* bound: tasks created
    MaxMoves,   \* bound: calls of precede() and succeed()
    HEAD,       \* tf->list_head
    ADD,        \* the local heads adding_list and new_adding_list
    NEW_ADD,
    NULL

Tasks == 1..MaxTask     \* in the order of their creation

ASSUME TaskflowAssumption ==
    /\ MaxTask \in Nat /\ MaxMoves \in Nat
    /\ HEAD # NEW_ADD /\ Tasks \intersect {HEAD, ADD, NEW_ADD, NULL} = {}

VARIABLES
    heap,       \* the tasks' fields: list_node, sub_task_list_head, the
                \* sub-task flag, nr_sub_task, main_task
    nr_task,    \* tf->nr_task: tasks created so far
    moves,      \* calls of precede() and succeed() so far
    order,      \* history: pairs <<x, y>>, x to be run before y, that were
                \* asked for and not revoked by a later move of x or y
    astray,     \* history: what was out of the way in the first call that was
                \* not straight
    mpc,        \* where the program is: it builds, is in await(), or is lost,
                \* having used a pointer or a list that is none
    current, sub_current, nr_completed, nr_completed_sub_task,  \* its locals
    completion, \* cnt and nr
    pc,         \* the work of each task
    runs        \* how often its function has been run

awaitVars == <<mpc, current, sub_current, nr_completed, nr_completed_sub_task, completion>>
workVars == <<pc, runs>>
callVars == <<heap, nr_task, moves, order, astray>>
vars == <<callVars, awaitVars, workVars>>

Created == 1..nr_task

Init ==
    /\ heap = [list_node |-> AllInit(Tasks \union {HEAD, NEW_ADD}),
               sub_list |-> AllInit(Tasks \union {ADD}),
               is_sub |-> [t \in Tasks |-> FALSE],
               nr |-> [t \in Tasks |-> 1],
               main |-> [t \in Tasks |-> NULL]]
    /\ nr_task = 0 /\ moves = 0 /\ order = {} /\ astray = "no"
    /\ mpc = "build" /\ current = HEAD /\ sub_current = HEAD
    /\ nr_completed = 0 /\ nr_completed_sub_task = 0
    /\ completion = [cnt |-> 0, nr |-> 0]
    /\ pc = [t \in Tasks |-> "idle"] /\ runs = [t \in Tasks |-> 0]

MainTasks(h) == Walk(h.list_node, HEAD)
Stage(h, t) == <<t>> \o Walk(h.sub_list, t)     \* t and its sub tasks
-----------------------------------------------------------------------------
(* Creation. *)

\* The fields of the new task, nr_task', are as Init has them.
mthpc_task_alloc ==
    /\ mpc = "build" /\ nr_task < MaxTask
    /\ nr_task' = nr_task + 1

mthpc_task_create ==
    /\ mthpc_task_alloc
    /\ heap' = [heap EXCEPT !.list_node = mthpc_list_add_tail(@, nr_task', HEAD)]
    /\ UNCHANGED <<moves, order, astray, awaitVars, workVars>>

\* "we don't have sub sub-task" (taskflow.c:30), and nothing prevents one.
mthpc_sub_task_create(t) ==
    /\ mthpc_task_alloc
    /\ astray' = IF astray = "no" /\ t \notin ToSet(MainTasks(heap)) THEN "nested" ELSE astray
    /\ heap' = [heap EXCEPT !.sub_list = mthpc_list_add_tail(@, nr_task', t),
                            !.is_sub[nr_task'] = TRUE,
                            !.main[nr_task'] = t,
                            !.nr[t] = @ + 1]
    /\ UNCHANGED <<moves, order, awaitVars, workVars>>
-----------------------------------------------------------------------------
(* Moving tasks: mthpc_taskflow_rlist_del() takes them out, one by one, to *)
(* adding_list.                                                            *)

\* Broken variant: the count of the task itself is decremented.
DecrementsOwn(h, t) ==
    [h EXCEPT !.sub_list = mthpc_list_add(mthpc_list_del(@, t), t, ADD),
              !.nr[t] = @ - 1, !.main[t] = NULL]

DelSubTask(h, t) ==
    [h EXCEPT !.sub_list = mthpc_list_add(mthpc_list_del(@, t), t, ADD),
              !.nr[h.main[t]] = @ - 1, !.main[t] = NULL]

DelSingle(h, t) ==
    [h EXCEPT !.list_node = mthpc_list_del(@, t),
              !.sub_list = mthpc_list_add_tail(@, t, ADD)]

\* Broken variant: the count does not go over to the new main task.
CountStays(h, t) ==
    LET next_head == h.sub_list.next[t] IN
    [h EXCEPT !.nr[t] = 1,
              !.sub_list = mthpc_list_add(mthpc_list_del(@, t), t, ADD),
              !.list_node = mthpc_list_replace_init(@, t, next_head)]

\* The first sub task becomes the main task of the others.  Its flag, its
\* main_task and theirs are left as they are.
DelMainTask(h, t) ==
    LET next_head == h.sub_list.next[t] IN
    [h EXCEPT !.nr = [@ EXCEPT ![next_head] = h.nr[t] - 1, ![t] = 1],
              !.sub_list = mthpc_list_add(mthpc_list_del(@, t), t, ADD),
              !.list_node = mthpc_list_replace_init(@, t, next_head)]

DelFromStage(h, t) ==
    IF h.is_sub[t] THEN DelSubTask(h, t)
    ELSE IF h.nr[t] = 1 THEN DelSingle(h, t)
    ELSE DelMainTask(h, t)

DelTask(h, t) == [DelFromStage(h, t) EXCEPT !.is_sub[t] = TRUE]

mthpc_taskflow_rlist_del(h, news) ==
    FoldLeft(DelTask, [h EXCEPT !.sub_list = mthpc_list_init(@, ADD)], news)

Relink(h, t) == [h EXCEPT !.sub_list = mthpc_list_del(@, t),
                          !.list_node = mthpc_list_add_tail(@, t, NEW_ADD)]

\* The new main task gets the count of all, and all are linked to a list of
\* main tasks.
RelinkAsMain(h, nr) ==
    LET new_main_task == h.sub_list.next[ADD] IN
    FoldLeft(Relink, [h EXCEPT !.is_sub[new_main_task] = FALSE,
                               !.nr[new_main_task] = nr,
                               !.list_node = mthpc_list_init(@, NEW_ADD)],
             Walk(h.sub_list, ADD))

\* main_task and the count when the tasks of adding_list join t.
JoinStage(h, t, nr) ==
    LET new == ToSet(Walk(h.sub_list, ADD)) IN
    [h EXCEPT !.main = [u \in Tasks |-> IF u \in new THEN t ELSE @[u]],
              !.nr[t] = @ + nr]

\* The local list heads go out of scope.
Forget(h) == [h EXCEPT !.list_node = mthpc_list_init(@, NEW_ADD),
                       !.sub_list = mthpc_list_init(@, ADD)]

\* The main task that stands for the first argument.
MainOf(h, t) == IF h.is_sub[t] THEN h.main[t] ELSE t

mthpc_taskflow_precede_result(h, t, news) ==
    LET task == MainOf(h, t)
        g == mthpc_taskflow_rlist_del(h, news)
        prev_task == g.list_node.prev[task]
    IN  Forget(IF prev_task = HEAD
               THEN [RelinkAsMain(g, Len(news)) EXCEPT
                        !.list_node = mthpc_list_splice_tail(@, NEW_ADD, task)]
               ELSE [JoinStage(g, prev_task, Len(news)) EXCEPT
                        !.sub_list = mthpc_list_splice_tail(@, ADD, prev_task)])

\* Broken variant: the new main task is linked before the last one.
SplicedBefore(h, t, news) ==
    LET task == MainOf(h, t)
        g == mthpc_taskflow_rlist_del(h, news)
        next_task == g.list_node.next[task]
    IN  Forget(IF next_task = HEAD
               THEN [RelinkAsMain(g, Len(news)) EXCEPT
                        !.list_node = mthpc_list_splice_tail(@, NEW_ADD, task)]
               ELSE [JoinStage(g, next_task, Len(news)) EXCEPT
                        !.sub_list = mthpc_list_splice(@, ADD, next_task)])

mthpc_taskflow_succeed_result(h, t, news) ==
    LET task == MainOf(h, t)
        g == mthpc_taskflow_rlist_del(h, news)
        next_task == g.list_node.next[task]
    IN  Forget(IF next_task = HEAD
               THEN [RelinkAsMain(g, Len(news)) EXCEPT
                        !.list_node = mthpc_list_splice(@, NEW_ADD, task)]
               ELSE [JoinStage(g, next_task, Len(news)) EXCEPT
                        !.sub_list = mthpc_list_splice(@, ADD, next_task)])

News == {<<t>> : t \in Tasks} \union {<<t, u>> : t, u \in Tasks}

\* The fields of t agree with the lists.  They no longer do for the sub tasks
\* of a main task that was moved away.
UpToDate(t) ==
    IF heap.is_sub[t]
    THEN heap.main[t] \in ToSet(MainTasks(heap)) /\ t \in ToSet(Walk(heap.sub_list, heap.main[t]))
    ELSE t \in ToSet(MainTasks(heap))

\* A task is named twice, or moved together with or relative to its own sub
\* task.
OwnTask(t, news) ==
    \/ ~IsInjective(news) \/ t \in ToSet(news)
    \/ \E u \in {t} \union ToSet(news) : heap.is_sub[u] /\ heap.main[u] \in ToSet(news)

\* The main task, or the head, that the moved tasks are put next to.
Neighbour(side, t, news) ==
    mthpc_taskflow_rlist_del(heap, news).list_node[side][MainOf(heap, t)]

\* Whether the call is straight: it names tasks whose fields are up to date,
\* no main task with its own sub task, and puts no more than one task before
\* the first or after the last main task.  The code does not ask.
AstrayAfter(side, t, news) ==
    IF astray # "no" THEN astray
    ELSE IF \E u \in {t} \union ToSet(news) : ~UpToDate(u) THEN "stale"
    ELSE IF OwnTask(t, news) THEN "own"
    ELSE IF Len(news) > 1 /\ Neighbour(side, t, news) = HEAD THEN "many"
    ELSE "no"

\* A pointer to one of the local list heads is left behind.
Loose(h) ==
    \/ \E n \in Tasks \union {HEAD} : NEW_ADD \in {h.list_node.next[n], h.list_node.prev[n]}
    \/ \E n \in Tasks : ADD \in {h.sub_list.next[n], h.sub_list.prev[n]}

\* The call follows a main_task that is NULL, finds in adding_list what is no
\* list, or leaves a pointer to it behind.
Derails(t, news, result) ==
    \/ ~IsInjective(news)
    \/ \E u \in {t} \union ToSet(news) : heap.is_sub[u] /\ heap.main[u] = NULL
    \/ ~Circular(mthpc_taskflow_rlist_del(heap, news).sub_list, ADD)
    \/ Loose(result)

\* What the caller has asked for now holds instead of what it had asked of
\* the moved tasks before.
Revoked(news) == {p \in order : p[1] \notin ToSet(news) /\ p[2] \notin ToSet(news)}

\* One call, with the heap it leaves and the order it asks for.
Call(side, t, news, result, asked) ==
    /\ mpc = "build" /\ moves < MaxMoves /\ ToSet(news) \subseteq Created
    /\ moves' = moves + 1
    /\ astray' = AstrayAfter(side, t, news)
    /\ IF Derails(t, news, result)
       THEN mpc' = "lost" /\ UNCHANGED <<heap, order>>
       ELSE /\ heap' = result
            /\ order' = Revoked(news) \union asked
            /\ UNCHANGED mpc
    /\ UNCHANGED <<nr_task, current, sub_current, nr_completed, nr_completed_sub_task,
                   completion, workVars>>

mthpc_taskflow_precede(t, news) ==
    Call("prev", t, news, mthpc_taskflow_precede_result(heap, t, news),
         {<<u, t>> : u \in ToSet(news)})

mthpc_taskflow_succeed(t, news) ==
    Call("next", t, news, mthpc_taskflow_succeed_result(heap, t, news),
         {<<t, u>> : u \in ToSet(news)})
-----------------------------------------------------------------------------
(* mthpc_taskflow_await().  The completion's nr is read by the awaiting    *)
(* thread only, so mthpc_completion_init() is one step.                    *)

mthpc_taskflow_await ==
    /\ mpc = "build"
    /\ current' = heap.list_node.next[HEAD]
    /\ mpc' = "stage"
    /\ UNCHANGED <<callVars, sub_current, nr_completed,
                   nr_completed_sub_task, completion, workVars>>

\* Broken variant: cnt is not reset.
KeepsCount ==
    /\ mpc = "stage" /\ current # HEAD
    /\ completion' = [completion EXCEPT !.nr = heap.nr[current]]
    /\ nr_completed_sub_task' = 0
    /\ mpc' = "main"
    /\ UNCHANGED <<callVars, current, sub_current, nr_completed, workVars>>

\* Broken variant: nr_sub_task is taken for the number of sub tasks only.
InitOneLess ==
    /\ mpc = "stage" /\ current # HEAD
    /\ completion' = [cnt |-> 0, nr |-> heap.nr[current] - 1]
    /\ nr_completed_sub_task' = 0
    /\ mpc' = "main"
    /\ UNCHANGED <<callVars, current, sub_current, nr_completed, workVars>>

mthpc_completion_init ==
    /\ mpc = "stage" /\ current # HEAD
    /\ completion' = [cnt |-> 0, nr |-> heap.nr[current]]
    /\ nr_completed_sub_task' = 0
    /\ mpc' = "main"
    /\ UNCHANGED <<callVars, current, sub_current, nr_completed, workVars>>

\* The work of t is in no queue: scheduled again while it still is, it would
\* be linked twice.
Schedulable(t) == pc[t] \in {"idle", "complete"}

Schedule(t) ==
    /\ Schedulable(t)
    /\ pc' = [pc EXCEPT ![t] = "queued"]
    /\ nr_completed_sub_task' = nr_completed_sub_task + 1

schedule_main_task ==
    /\ mpc = "main"
    /\ Schedule(current)
    /\ sub_current' = heap.sub_list.next[current]
    /\ mpc' = "subs"
    /\ UNCHANGED <<callVars, current, nr_completed, completion, runs>>

schedule_sub_task ==
    /\ mpc = "subs" /\ sub_current # current
    /\ Schedule(sub_current)
    /\ sub_current' = heap.sub_list.next[sub_current]
    /\ UNCHANGED <<callVars, mpc, current, nr_completed, completion, runs>>

await_lost ==
    /\ mpc \in {"main", "subs"}
    /\ LET task == IF mpc = "main" THEN current ELSE sub_current
       IN  (mpc = "subs" => task # current) /\ ~Schedulable(task)
    /\ mpc' = "lost"
    /\ UNCHANGED <<callVars, current, sub_current, nr_completed, nr_completed_sub_task,
                   completion, workVars>>

\* Then on to the next main task.
mthpc_wait_for_completion ==
    /\ mpc = "subs" /\ sub_current = current
    /\ completion.cnt = completion.nr
    /\ nr_completed' = nr_completed + nr_completed_sub_task
    /\ current' = heap.list_node.next[current]
    /\ mpc' = "stage"
    /\ UNCHANGED <<callVars, sub_current, nr_completed_sub_task,
                   completion, workVars>>

mthpc_wait_for_completion_spin ==
    /\ mpc = "subs" /\ sub_current = current
    /\ completion.cnt # completion.nr
    /\ UNCHANGED vars

await_return ==
    /\ mpc = "stage" /\ current = HEAD
    /\ mpc' = "done"
    /\ UNCHANGED <<callVars, current, sub_current, nr_completed,
                   nr_completed_sub_task, completion, workVars>>

AwaitStep ==
    \/ mthpc_completion_init \/ schedule_main_task \/ schedule_sub_task
    \/ mthpc_wait_for_completion \/ await_return \/ await_lost
-----------------------------------------------------------------------------
(* mthpc_task_worker(), in a worker of the workqueue. *)

task_func(t) ==
    /\ pc[t] = "queued"
    /\ pc' = [pc EXCEPT ![t] = "func"]
    /\ runs' = [runs EXCEPT ![t] = @ + 1]
    /\ UNCHANGED <<callVars, awaitVars>>

mthpc_complete(t) ==
    /\ pc[t] = "func"
    /\ completion' = [completion EXCEPT !.cnt = @ + 1]
    /\ pc' = [pc EXCEPT ![t] = "complete"]
    /\ UNCHANGED <<callVars, mpc, current, sub_current, nr_completed,
                   nr_completed_sub_task, runs>>

mthpc_task_worker(t) == task_func(t) \/ mthpc_complete(t)
-----------------------------------------------------------------------------
Finished ==
    /\ mpc \in {"done", "lost"} /\ (\A t \in Tasks : pc[t] \in {"idle", "complete"})
    /\ UNCHANGED vars

Next ==
    \/ mthpc_task_create \/ \E t \in Created : mthpc_sub_task_create(t)
    \/ \E t \in Created, news \in News :
          mthpc_taskflow_precede(t, news) \/ mthpc_taskflow_succeed(t, news)
    \/ mthpc_taskflow_await \/ AwaitStep \/ mthpc_wait_for_completion_spin
    \/ \E t \in Tasks : mthpc_task_worker(t)
    \/ Finished

Spec == Init /\ [][Next]_vars

(* The awaiting thread keeps running, and the workqueue runs what is       *)
(* scheduled; nobody has to call await().                                  *)
FairSpec ==
    Spec /\ WF_vars(AwaitStep) /\ \A t \in Tasks : WF_vars(mthpc_task_worker(t))
-----------------------------------------------------------------------------
(* The type of every variable; as long as the calls are straight the       *)
(* pointers lead to tasks and heads and the counts stay small.             *)
TypeOK ==
    /\ nr_task \in 0..MaxTask /\ moves \in 0..MaxMoves
    /\ astray \in {"no", "stale", "own", "many", "nested"}
    /\ mpc \in {"build", "stage", "main", "subs", "done", "lost"}
    /\ pc \in [Tasks -> {"idle", "queued", "func", "complete"}]
    /\ runs \in [Tasks -> Nat]
    /\ astray = "no" =>
          /\ mpc # "lost"
          /\ heap.list_node.next \in [Tasks \union {HEAD, NEW_ADD} -> Tasks \union {HEAD, NEW_ADD}]
          /\ heap.list_node.prev \in [Tasks \union {HEAD, NEW_ADD} -> Tasks \union {HEAD, NEW_ADD}]
          /\ heap.sub_list.next \in [Tasks \union {ADD} -> Tasks \union {ADD}]
          /\ heap.sub_list.prev \in [Tasks \union {ADD} -> Tasks \union {ADD}]
          /\ heap.is_sub \in [Tasks -> BOOLEAN]
          /\ heap.nr \in [Tasks -> 1..MaxTask]
          /\ heap.main \in [Tasks -> Tasks \union {NULL}]
          /\ order \subseteq Tasks \X Tasks
          /\ {current, sub_current} \subseteq Tasks \union {HEAD}
          /\ nr_completed \in 0..MaxTask /\ nr_completed_sub_task \in 0..MaxTask
          /\ completion \in [cnt : 0..MaxTask, nr : 0..MaxTask]

(* As long as the calls are straight, whatever is moved where, the walk of *)
(* await() meets every task once, and nr_sub_task of a main task is the    *)
(* number of tasks in its stage: what "the sub task number is unmatched"   *)
(* and "the task number is unmatched" (taskflow.c:435, 442) warn about,    *)
(* and what the completion relies on.                                      *)
StagesMatch ==
    astray = "no" =>
        LET main == MainTasks(heap)
            stage == [k \in DOMAIN main |-> Stage(heap, main[k])]
        IN  /\ UNION {ToSet(stage[k]) : k \in DOMAIN main} = Created
            /\ \A k \in DOMAIN main : IsInjective(stage[k]) /\ heap.nr[main[k]] = Len(stage[k])
            /\ \A j, k \in DOMAIN main : j # k => ToSet(stage[j]) \intersect ToSet(stage[k]) = {}

(* precede() and succeed() "decide which task run first" (doc/api.md:287): *)
(* when the function of a task runs, the tasks it was put after are        *)
(* through, however the other tasks have been moved since by straight      *)
(* calls.                                                                  *)
OrderKept ==
    astray = "no" => \A p \in order : pc[p[2]] # "idle" => pc[p[1]] = "complete"

(* After straight calls await() returns only when every task has run, once. *)
AwaitRunsAll ==
    astray = "no" /\ mpc = "done" =>
        /\ \A t \in Created : runs[t] = 1 /\ pc[t] = "complete"
        /\ nr_completed = nr_task

(* After straight calls await() returns: the completion of a stage counts  *)
(* to the number that is waited for, neither short of it nor past it.      *)
AwaitReturns == (astray = "no" /\ mpc = "stage") ~> mpc = "done"

(* "use await() to run all the tasks in the framework" (doc/api.md:288):   *)
(* also when precede() or succeed() has put several tasks, which they take *)
(* (doc/api.md:291), before the first or after the last main task, or has  *)
(* moved a main task away from its sub tasks and then one of those.        *)
AwaitEndsAll ==
    (astray \in {"no", "many", "stale"} /\ mpc = "stage") ~>
        (mpc = "done" /\ \A t \in Created : runs[t] > 0)
=============================================================================
