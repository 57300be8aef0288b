---------------------------- MODULE ElasticPool ----------------------------
(***************************************************************************)
(* What threadpool/threadpool.hpp and threadpool/threadpooltask.hpp have   *)
(* in common: a queue under a mutex, threads that take tasks from it, and  *)
(* task_add.  After each task a thread may add a thread to the pool or     *)
(* leave it; ThreadPool and ThreadPoolTask say how.                        *)
(*                                                                         *)
(* A section under m_lock is one step, which needs the lock to be free,    *)
(* unless it reads what others change without the lock (used_num): then it *)
(* is several, and m_lock names the thread that is in it.  The counters    *)
(* and is_stopped are atomics.                                             *)
(***************************************************************************)
EXTENDS Integers, Sequences, FiniteSets

CONSTANTS Threads,     \* the threads that may ever be created
          Producers,   \* the threads that call task_add
          Tasks,       \* the tasks they may add, each once
          NoTask, NoThread,
          init_num, max_num,
          CanDestroy   \* whether the pool's destructor may run

ASSUME ElasticAssumption ==
  /\ IsFiniteSet(Threads)
  /\ NoTask \notin Tasks /\ NoThread \notin Threads
  /\ init_num \in 1..Cardinality(Threads)
  /\ max_num \in Nat
  /\ CanDestroy \in BOOLEAN

VARIABLES m_lock,      \* the thread in a section of several steps
          tasks,       \* the queue
          is_stopped,
          cur_num,     \* the number of threads, as the pool counts it
          used_num,    \* the number of threads that run a task
          pc,          \* where each thread of the pool is
          task_nums,   \* the length of the queue when it took its task
          adder,       \* where each producer is
          adding,      \* the task it adds
          unborn,      \* tasks nobody has created yet
          taken        \* history: the tasks taken from the queue, in order

threadVars == <<pc, task_nums>>
adderVars == <<adder, adding, unborn>>
vars == <<m_lock, tasks, is_stopped, cur_num, used_num, threadVars, adderVars, taken>>

ThreadPC == {"none", "loop", "get", "wait", "start", "run", "adjust", "grow", "add",
             "shrink", "leave", "gone"}

(* The threads there are, and those that run a task. *)
Alive == {t \in Threads : pc[t] \notin {"none", "gone"}}
Running == {t \in Threads : pc[t] = "run"}

(* init: init_num threads, before anybody adds a task. *)
Init == /\ m_lock = NoThread
        /\ tasks = <<>>
        /\ is_stopped = FALSE
        /\ cur_num = init_num /\ used_num = 0
        /\ \E S \in SUBSET Threads :
             /\ Cardinality(S) = init_num
             /\ pc = [t \in Threads |-> IF t \in S THEN "loop" ELSE "none"]
        /\ task_nums = [t \in Threads |-> 0]
        /\ adder = [p \in Producers |-> "idle"]
        /\ adding = [p \in Producers |-> NoTask]
        /\ unborn = Tasks
        /\ taken = <<>>

Goto(t, l) == pc' = [pc EXCEPT ![t] = l]

------------------------------------------------------------------------------
(* The condition of the loop. *)
Loop(t) == /\ pc[t] = "loop"
           /\ Goto(t, IF is_stopped THEN "gone" ELSE "get")
           /\ UNCHANGED <<m_lock, tasks, is_stopped, cur_num, used_num, task_nums, adderVars, taken>>

(* cv_task.wait: the predicate is false. *)
Get_Wait(t) == /\ pc[t] = "get" /\ m_lock = NoThread
               /\ ~is_stopped /\ tasks = <<>>
               /\ Goto(t, "wait")
               /\ UNCHANGED <<m_lock, tasks, is_stopped, cur_num, used_num, task_nums, adderVars, taken>>

Get_Stopped(t) == /\ pc[t] = "get" /\ m_lock = NoThread
                  /\ is_stopped /\ tasks = <<>>
                  /\ Goto(t, "gone")
                  /\ UNCHANGED <<m_lock, tasks, is_stopped, cur_num, used_num, task_nums, adderVars, taken>>

(* A buggy pop that takes the newest task. *)
Get_Take_Lifo(t) == /\ pc[t] = "get" /\ m_lock = NoThread
                    /\ tasks # <<>>
                    /\ taken' = Append(taken, tasks[Len(tasks)])
                    /\ tasks' = SubSeq(tasks, 1, Len(tasks) - 1)
                    /\ task_nums' = [task_nums EXCEPT ![t] = Len(tasks) - 1]
                    /\ Goto(t, "start")
                    /\ UNCHANGED <<m_lock, is_stopped, cur_num, used_num, adderVars>>

Get_Take(t) == /\ pc[t] = "get" /\ m_lock = NoThread
               /\ tasks # <<>>
               /\ taken' = Append(taken, Head(tasks))
               /\ tasks' = Tail(tasks)
               /\ task_nums' = [task_nums EXCEPT ![t] = Len(tasks) - 1]
               /\ Goto(t, "start")
               /\ UNCHANGED <<m_lock, is_stopped, cur_num, used_num, adderVars>>

(* The predicate is tested again after a wake-up without a reason. *)
SpuriousWake(t) == /\ pc[t] = "wait"
                   /\ Goto(t, "get")
                   /\ UNCHANGED <<m_lock, tasks, is_stopped, cur_num, used_num, task_nums, adderVars, taken>>

BeginRun(t) == /\ pc[t] = "start"
               /\ used_num' = used_num + 1
               /\ Goto(t, "run")
               /\ UNCHANGED <<m_lock, tasks, is_stopped, cur_num, task_nums, adderVars, taken>>

EndRun(t) == /\ pc[t] = "run"
             /\ used_num' = used_num - 1
             /\ Goto(t, "adjust")
             /\ UNCHANGED <<m_lock, tasks, is_stopped, cur_num, task_nums, adderVars, taken>>

RunStep(t) == \/ Loop(t) \/ Get_Wait(t) \/ Get_Stopped(t) \/ Get_Take(t)
              \/ BeginRun(t) \/ EndRun(t)

(* Another thread joins the pool (emplace_back and cur_num++). *)
Create(n) == /\ pc[n] = "none"
             /\ cur_num' = cur_num + 1

------------------------------------------------------------------------------
(* task_add: the test of is_stopped, the push under the lock, notify_all. *)
TaskAdd_Check(p, k) == /\ adder[p] = "idle"
                       /\ k \in unborn
                       /\ unborn' = unborn \ {k}
                       /\ adding' = [adding EXCEPT ![p] = IF is_stopped THEN NoTask ELSE k]
                       /\ adder' = [adder EXCEPT ![p] = IF is_stopped THEN "threw" ELSE "push"]
                       /\ UNCHANGED <<m_lock, tasks, is_stopped, cur_num, used_num, threadVars, taken>>

(* A buggy push that does not go on to the notification. *)
TaskAdd_Push_Silent(p) == /\ adder[p] = "push" /\ m_lock = NoThread
                          /\ tasks' = Append(tasks, adding[p])
                          /\ adder' = [adder EXCEPT ![p] = "idle"]
                          /\ adding' = [adding EXCEPT ![p] = NoTask]
                          /\ UNCHANGED <<m_lock, is_stopped, cur_num, used_num, threadVars, unborn, taken>>

TaskAdd_Push(p) == /\ adder[p] = "push" /\ m_lock = NoThread
                   /\ tasks' = Append(tasks, adding[p])
                   /\ adder' = [adder EXCEPT ![p] = "notify"]
                   /\ adding' = [adding EXCEPT ![p] = NoTask]
                   /\ UNCHANGED <<m_lock, is_stopped, cur_num, used_num, threadVars, unborn, taken>>

TaskAdd_Notify(p) == /\ adder[p] = "notify"
                     /\ pc' = [t \in Threads |-> IF pc[t] = "wait" THEN "get" ELSE pc[t]]
                     /\ adder' = [adder EXCEPT ![p] = "idle"]
                     /\ UNCHANGED <<m_lock, tasks, is_stopped, cur_num, used_num, task_nums, adding, unborn, taken>>

AddStep(p) == TaskAdd_Push(p) \/ TaskAdd_Notify(p)

(* The destructor sets the flag and wakes nobody.  It goes on to destroy the
   joinable threads in thread_pool_list, which ends the process: what happens
   until then is a prefix of a behaviour described here. *)
Destroy == /\ CanDestroy
           /\ ~is_stopped
           /\ is_stopped' = TRUE
           /\ UNCHANGED <<m_lock, tasks, cur_num, used_num, threadVars, adderVars, taken>>

(* Every task was added and run, and every thread sleeps. *)
AtRest == /\ ~is_stopped
          /\ unborn = {} /\ tasks = <<>>
          /\ \A t \in Alive : pc[t] = "wait"
          /\ \A p \in Producers : adder[p] = "idle"
          /\ UNCHANGED vars

CommonNext == \/ \E t \in Threads : RunStep(t) \/ SpuriousWake(t)
              \/ \E p \in Producers : AddStep(p) \/ \E k \in Tasks : TaskAdd_Check(p, k)
              \/ Destroy
              \/ AtRest

------------------------------------------------------------------------------
TypeOK == /\ m_lock \in Threads \cup {NoThread}
          /\ tasks \in Seq(Tasks)
          /\ is_stopped \in BOOLEAN
          /\ cur_num \in Nat /\ used_num \in Nat
          /\ pc \in [Threads -> ThreadPC]
          /\ task_nums \in [Threads -> Nat]
          /\ adder \in [Producers -> {"idle", "push", "notify", "threw"}]
          /\ adding \in [Producers -> Tasks \cup {NoTask}]
          /\ unborn \in SUBSET Tasks
          /\ taken \in Seq(Tasks)

(* threadpool.hpp:41-49 and 79-87, threadpooltask.hpp:45-53 and 81-85: a thread
   sleeps beside a task only while the task_add that pushed one has still to
   notify: notify_all after the unlock loses no wake-up. *)
NobodySleepsOnWork ==
  tasks # <<>> /\ (\E t \in Threads : pc[t] = "wait")
    => \E p \in Producers : adder[p] = "notify"

(* threadpool.hpp:50-63, threadpooltask.hpp:54-69: used_num is the number of
   threads that run a task, and cur_num the number of threads; at least that
   once the destructor's flag lets threads leave without counting. *)
CountersExact == /\ used_num = Cardinality(Running)
                 /\ cur_num >= Cardinality(Alive)
                 /\ ~is_stopped => cur_num = Cardinality(Alive)

(* The pool's queue as the log of TaskQueue. *)
Q == INSTANCE TaskQueue WITH accepted <- taken \o tasks, served <- Len(taken)

(* threadpool.hpp:46-47 and 81, threadpooltask.hpp:50-51 and 83: tasks are taken
   in the order in which they were pushed, each by one thread, none lost. *)
ImplementsTaskQueue == Q!Spec

(* threadpool.hpp:36-67, threadpooltask.hpp:40-75: a task that was pushed is
   taken by a thread. *)
EveryTaskTaken ==
  \A k \in Tasks :
    (\E p \in Producers : adding[p] = k) ~> (is_stopped \/ \E i \in 1..Len(taken) : taken[i] = k)
==============================================================================
