---------------------------- MODULE ThreadPool98 ----------------------------
(***************************************************************************)
(* threadpool/threadpool_98.hpp: the pthread pool of the calcsig server.   *)
(* One mutex and one condition variable guard a queue of task pointers;    *)
(* workers call get_task, other threads call add_task, and stop sets a     *)
(* plain flag.  The workers run the loop of threadpool/test.cpp, which     *)
(* asks the pool whether it was stopped before every get_task.             *)
(*                                                                         *)
(* Every step is one the scheduler can separate from the next: acquiring   *)
(* the mutex, and the code between that and the release (or the wait).     *)
(* is_stopped is read and written without the mutex; the build has no      *)
(* optimisation, so each read is a load of the current value.              *)
(***************************************************************************)
EXTENDS Naturals, Sequences, FiniteSets

CONSTANTS Workers,    \* the threads that start creates
          Producers,  \* the threads that call add_task
          Tasks,      \* the tasks they may add, each once
          NoTask,     \* the NULL task pointer
          NoThread,   \* the owner of a free mutex
          CanStop     \* whether anybody calls stop (nobody does in the server)

ASSUME ThreadsAssumption ==
  /\ Workers # {} /\ IsFiniteSet(Workers)
  /\ Workers \cap Producers = {}
  /\ NoThread \notin Workers \cup Producers
  /\ NoTask \notin Tasks
  /\ CanStop \in BOOLEAN

VARIABLES mutex,       \* the thread that owns the pool's mutex
          task_queue,  \* the queue of waiting tasks
          is_stopped,  \* the stop flag
          pc,          \* where each thread is
          task,        \* the task each thread has in its hands
          unborn,      \* tasks nobody has created yet
          taken        \* history: the tasks get_task has returned, in order

vars == <<mutex, task_queue, is_stopped, pc, task, unborn, taken>>

Threads == Workers \cup Producers

WorkerPC == {"new", "loop", "get_lock", "get_test", "wait", "run", "exit"}
ProducerPC == {"idle", "add_lock", "add_push", "threw"}

Goto(t, l) == pc' = [pc EXCEPT ![t] = l]

------------------------------------------------------------------------------
Init == /\ mutex = NoThread
        /\ task_queue = <<>>
        /\ is_stopped = FALSE
        /\ pc = [t \in Threads |-> IF t \in Workers THEN "new" ELSE "idle"]
        /\ task = [t \in Threads |-> NoTask]
        /\ unborn = Tasks
        /\ taken = <<>>

(* start: pthread_create puts one more worker at the head of its loop.  When
   it fails, start throws and nothing catches it: the process ends, and its
   behaviour is a prefix of one described here. *)
Start(w) == /\ pc[w] = "new"
            /\ Goto(w, "loop")
            /\ UNCHANGED <<mutex, task_queue, is_stopped, task, unborn, taken>>

(* Adding begins when start has returned, that is, has made every thread. *)
Started == \A w \in Workers : pc[w] # "new"

(* The worker's loop condition: leave once the pool is stopped. *)
Loop(w) == /\ pc[w] = "loop"
           /\ Goto(w, IF is_stopped THEN "exit" ELSE "get_lock")
           /\ UNCHANGED <<mutex, task_queue, is_stopped, task, unborn, taken>>

(* pthread_mutex_lock in get_task, and the reacquisition that ends a wait. *)
GetTask_Lock(w) == /\ pc[w] = "get_lock"
                   /\ mutex = NoThread
                   /\ mutex' = w
                   /\ Goto(w, "get_test")
                   /\ UNCHANGED <<task_queue, is_stopped, task, unborn, taken>>

(* Nothing to do: pthread_cond_wait releases the mutex and sleeps. *)
GetTask_Wait(w) == /\ pc[w] = "get_test"
                   /\ ~is_stopped /\ task_queue = <<>>
                   /\ mutex' = NoThread
                   /\ Goto(w, "wait")
                   /\ UNCHANGED <<task_queue, is_stopped, task, unborn, taken>>

(* The pool is stopped: NULL is returned, and the mutex is still owned. *)
GetTask_Null(w) == /\ pc[w] = "get_test"
                   /\ is_stopped
                   /\ Goto(w, "run")
                   /\ task' = [task EXCEPT ![w] = NoTask]
                   /\ UNCHANGED <<mutex, task_queue, is_stopped, unborn, taken>>

(* A buggy pop that reads the newest task instead of the oldest. *)
GetTask_Take_Lifo(w) ==
  /\ pc[w] = "get_test"
  /\ ~is_stopped /\ task_queue # <<>>
  /\ task' = [task EXCEPT ![w] = task_queue[Len(task_queue)]]
  /\ taken' = Append(taken, task_queue[Len(task_queue)])
  /\ task_queue' = SubSeq(task_queue, 1, Len(task_queue) - 1)
  /\ mutex' = NoThread
  /\ Goto(w, "run")
  /\ UNCHANGED <<is_stopped, unborn>>

(* The oldest task is popped and the mutex released. *)
GetTask_Take(w) == /\ pc[w] = "get_test"
                   /\ ~is_stopped /\ task_queue # <<>>
                   /\ task' = [task EXCEPT ![w] = Head(task_queue)]
                   /\ taken' = Append(taken, Head(task_queue))
                   /\ task_queue' = Tail(task_queue)
                   /\ mutex' = NoThread
                   /\ Goto(w, "run")
                   /\ UNCHANGED <<is_stopped, unborn>>

(* pthread_cond_wait may return without a signal. *)
SpuriousWake(w) == /\ pc[w] = "wait"
                   /\ Goto(w, "get_lock")
                   /\ UNCHANGED <<mutex, task_queue, is_stopped, task, unborn, taken>>

(* The loop body ends: the worker is done with its task. *)
EndRun(w) == /\ pc[w] = "run"
             /\ Goto(w, "loop")
             /\ task' = [task EXCEPT ![w] = NoTask]
             /\ UNCHANGED <<mutex, task_queue, is_stopped, unborn, taken>>

------------------------------------------------------------------------------

(* add_task reads the stop flag before it takes the mutex. *)
AddTask_Check(p, k) == /\ pc[p] = "idle"
                       /\ Started
                       /\ k \in unborn
                       /\ unborn' = unborn \ {k}
                       /\ Goto(p, IF is_stopped THEN "threw" ELSE "add_lock")
                       /\ task' = [task EXCEPT ![p] = IF is_stopped THEN NoTask ELSE k]
                       /\ UNCHANGED <<mutex, task_queue, is_stopped, taken>>

AddTask_Lock(p) == /\ pc[p] = "add_lock"
                   /\ mutex = NoThread
                   /\ mutex' = p
                   /\ Goto(p, "add_push")
                   /\ UNCHANGED <<task_queue, is_stopped, task, unborn, taken>>

(* A buggy push that forgets the signal. *)
AddTask_Push_NoSignal(p) ==
  /\ pc[p] = "add_push"
  /\ task_queue' = Append(task_queue, task[p])
  /\ mutex' = NoThread
  /\ task' = [task EXCEPT ![p] = NoTask]
  /\ Goto(p, "idle")
  /\ UNCHANGED <<is_stopped, unborn, taken>>

(* The task is pushed, one sleeping worker (if any) is signalled, and the
   mutex is released. *)
AddTask_Push(p) ==
  /\ pc[p] = "add_push"
  /\ task_queue' = Append(task_queue, task[p])
  /\ mutex' = NoThread
  /\ task' = [task EXCEPT ![p] = NoTask]
  /\ \/ /\ \A w \in Workers : pc[w] # "wait"
        /\ Goto(p, "idle")
     \/ \E w \in Workers : /\ pc[w] = "wait"
                           /\ pc' = [pc EXCEPT ![p] = "idle", ![w] = "get_lock"]
  /\ UNCHANGED <<is_stopped, unborn, taken>>

(* stop only sets the flag: nobody is woken. *)
Stop == /\ CanStop
        /\ ~is_stopped
        /\ Started
        /\ is_stopped' = TRUE
        /\ UNCHANGED <<mutex, task_queue, pc, task, unborn, taken>>

------------------------------------------------------------------------------
GetTask(w) == \/ GetTask_Lock(w)
              \/ GetTask_Wait(w)
              \/ GetTask_Null(w)
              \/ GetTask_Take(w)

WorkerStep(w) == Start(w) \/ Loop(w) \/ GetTask(w) \/ EndRun(w)

AddTask(p) == AddTask_Lock(p) \/ AddTask_Push(p)

(* Every task was added and served, and every worker sleeps: the only way
   the pool comes to rest before it is stopped. *)
AtRest == /\ ~is_stopped
          /\ unborn = {} /\ task_queue = <<>>
          /\ \A w \in Workers : pc[w] = "wait"
          /\ \A p \in Producers : pc[p] = "idle"
          /\ UNCHANGED vars

Next == \/ \E w \in Workers : WorkerStep(w) \/ SpuriousWake(w)
        \/ \E p \in Producers : AddTask(p) \/ \E k \in Tasks : AddTask_Check(p, k)
        \/ Stop
        \/ AtRest

Spec == Init /\ [][Next]_vars

(* The scheduler runs every thread that can run, and a thread that waits for
   the mutex does not lose the race for it each of infinitely many times it is
   released (sleepers that wake for no reason may contend for it forever).
   Nobody has to add a task or to stop the pool. *)
FairSpec == /\ Spec
            /\ \A w \in Workers : WF_vars(WorkerStep(w)) /\ SF_vars(GetTask_Lock(w))
            /\ \A p \in Producers : WF_vars(AddTask(p)) /\ SF_vars(AddTask_Lock(p))

------------------------------------------------------------------------------
TypeOK == /\ mutex \in Threads \cup {NoThread}
          /\ task_queue \in Seq(Tasks)
          /\ is_stopped \in BOOLEAN
          /\ pc \in [Threads -> WorkerPC \cup ProducerPC]
          /\ \A w \in Workers : pc[w] \in WorkerPC
          /\ \A p \in Producers : pc[p] \in ProducerPC
          /\ task \in [Threads -> Tasks \cup {NoTask}]
          /\ unborn \in SUBSET Tasks
          /\ taken \in Seq(Tasks)

(* The code between a lock and its unlock. *)
Critical == {"get_test", "add_push"}

(* threadpool_98.hpp:36-46 and 59-63: the code that touches the queue runs in
   one thread at a time, and until somebody stops the pool the mutex is never
   left behind by a thread that is no longer in that code. *)
MutexDiscipline ==
  /\ \A t \in Threads : pc[t] \in Critical => mutex = t
  /\ ~is_stopped => mutex = NoThread \/ pc[mutex] \in Critical

(* Workers that will look at the queue before they sleep again. *)
OnTheWay == {w \in Workers : pc[w] \in {"loop", "get_lock", "get_test"}}

(* threadpool_98.hpp:37-39 and 61-62: one signal per push is enough.  Until the
   pool is stopped, a worker sleeps only if every queued task already has a
   worker of its own on the way to the queue, so no task waits for a wake-up
   that was lost. *)
WorkConserving ==
  ~is_stopped /\ (\E w \in Workers : pc[w] = "wait")
    => Len(task_queue) <= Cardinality(OnTheWay)

(* The queue of the pool as the log that TaskQueue describes. *)
Q == INSTANCE TaskQueue WITH accepted <- taken \o task_queue,
                             served <- Len(taken)

(* threadpool_98.hpp:44-45 and 61: get_task hands out the tasks add_task pushed,
   oldest first, each to one worker, and loses none, stopped or not. *)
ImplementsTaskQueue == Q!Spec

(* threadpool_98.hpp:33-65: a task handed to add_task gets to a worker, unless
   the pool is stopped first. *)
EveryTaskTaken ==
  \A k \in Tasks :
    (\E p \in Producers : task[p] = k)
      ~> (is_stopped \/ \E i \in 1..Len(taken) : taken[i] = k)

==============================================================================
