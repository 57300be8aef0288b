------------------------- MODULE ThreadPool98_proofs -------------------------
(***************************************************************************)
(* Theorems about the pool for any finite set of workers and any producers *)
(* and tasks.                                                              *)
(***************************************************************************)
EXTENDS ThreadPool98, FiniteSetTheorems, SequenceTheorems, TLAPS

(* A producer between the check of the stop flag and the push. *)
Carries(p) == pc[p] \in {"add_lock", "add_push"}

(* What a producer carries to the queue is a task that exists. *)
Carrying == \A p \in Producers : Carries(p) => task[p] \in Tasks \ unborn

(* The inductive strengthening of TypeOK: without Carrying, a push could put
   the null pointer in the queue. *)
TypeInv == TypeOK /\ Carrying

LEMMA InitType == Init => TypeInv
<1> SUFFICES ASSUME Init PROVE TypeInv
  OBVIOUS
<1> USE ThreadsAssumption DEF Init
<1>1. task_queue \in Seq(Tasks) /\ taken \in Seq(Tasks)
  OBVIOUS
<1>2. /\ pc \in [Threads -> WorkerPC \cup ProducerPC]
      /\ \A w \in Workers : pc[w] = "new"
      /\ \A p \in Producers : pc[p] = "idle"
  BY Zenon DEF Threads, WorkerPC, ProducerPC
<1>3. task \in [Threads -> Tasks \cup {NoTask}]
  OBVIOUS
<1>4. Carrying
  BY Zenon, <1>2 DEF Carrying, Carries
<1>5. QED
  BY Zenon, <1>1, <1>2, <1>3, <1>4 DEF TypeInv, TypeOK, WorkerPC, ProducerPC

(* Every operation of the pool keeps the types. *)
LEMMA NextType == TypeInv /\ [Next]_vars => TypeInv'
<1> SUFFICES ASSUME TypeInv, [Next]_vars
             PROVE  TypeInv'
  OBVIOUS
<1> USE ThreadsAssumption DEF TypeInv, TypeOK, Carrying, Carries, Threads, WorkerPC,
        ProducerPC, Goto
<1>1. ASSUME NEW w \in Workers, Start(w) PROVE TypeInv'
  BY Zenon, <1>1 DEF Start
<1>2. ASSUME NEW w \in Workers, Loop(w) PROVE TypeInv'
  BY Zenon, <1>2 DEF Loop
<1>3. ASSUME NEW w \in Workers, GetTask_Lock(w) PROVE TypeInv'
  BY Zenon, <1>3 DEF GetTask_Lock
<1>4. ASSUME NEW w \in Workers, GetTask_Wait(w) PROVE TypeInv'
  BY Zenon, <1>4 DEF GetTask_Wait
<1>5. ASSUME NEW w \in Workers, GetTask_Null(w) PROVE TypeInv'
  BY Zenon, <1>5 DEF GetTask_Null
<1>6. ASSUME NEW w \in Workers, GetTask_Take(w) PROVE TypeInv'
  BY <1>6 DEF GetTask_Take
<1>7. ASSUME NEW w \in Workers, SpuriousWake(w) PROVE TypeInv'
  BY Zenon, <1>7 DEF SpuriousWake
<1>8. ASSUME NEW w \in Workers, EndRun(w) PROVE TypeInv'
  BY Zenon, <1>8 DEF EndRun
<1>9. ASSUME NEW p \in Producers, NEW k \in Tasks, AddTask_Check(p, k) PROVE TypeInv'
  BY Zenon, <1>9 DEF AddTask_Check
<1>10. ASSUME NEW p \in Producers, AddTask_Lock(p) PROVE TypeInv'
  BY Zenon, <1>10 DEF AddTask_Lock
<1>11. ASSUME NEW p \in Producers, AddTask_Push(p) PROVE TypeInv'
  <2>1. task[p] \in Tasks /\ task_queue' = Append(task_queue, task[p])
    BY Zenon, <1>11 DEF AddTask_Push
  <2>2. task_queue' \in Seq(Tasks)
    BY Zenon, <2>1, AppendProperties
  <2>3. task' \in [Threads -> Tasks \cup {NoTask}]
    BY Zenon, <1>11 DEF AddTask_Push
  <2>4. CASE Goto(p, "idle")
    BY Zenon, <1>11, <2>2, <2>3, <2>4 DEF AddTask_Push
  <2>5. ASSUME NEW w \in Workers,
               pc' = [pc EXCEPT ![p] = "idle", ![w] = "get_lock"]
        PROVE  TypeInv'
    BY Zenon, <1>11, <2>2, <2>3, <2>5 DEF AddTask_Push
  <2>6. QED
    BY Zenon, <1>11, <2>4, <2>5 DEF AddTask_Push
<1>12. CASE Stop
  BY Zenon, <1>12 DEF Stop
<1>13. CASE UNCHANGED vars
  BY Zenon, <1>13 DEF vars
<1>14. QED
  BY Zenon, <1>1, <1>2, <1>3, <1>4, <1>5, <1>6, <1>7, <1>8, <1>9, <1>10, <1>11, <1>12,
     <1>13 DEF Next, WorkerStep, GetTask, AddTask, AtRest

(* threadpool_98.hpp: every variable keeps its type; in particular no null
   pointer is ever pushed, and get_task never pops an empty queue. *)
THEOREM TypeCorrect == Spec => []TypeOK
<1>1. TypeInv => TypeOK
  BY Zenon DEF TypeInv
<1>2. QED
  BY <1>1, InitType, NextType, PTL DEF Spec

------------------------------------------------------------------------------
(* threadpool_98.hpp:36-46 and 59-63: the code between a lock and its unlock
   runs in one thread at a time. *)
THEOREM MutualExclusion == Spec => []MutexDiscipline
<1>1. Init => MutexDiscipline
  BY Zenon, ThreadsAssumption DEF Init, MutexDiscipline, Critical, Threads
<1>2. TypeInv /\ MutexDiscipline /\ [Next]_vars => MutexDiscipline'
  <2> SUFFICES ASSUME TypeInv, MutexDiscipline, [Next]_vars
               PROVE  MutexDiscipline'
    OBVIOUS
  <2> USE ThreadsAssumption DEF TypeInv, TypeOK, MutexDiscipline, Critical, Threads, Goto
  <2>1. ASSUME NEW w \in Workers, Start(w) PROVE MutexDiscipline'
    BY Zenon, <2>1 DEF Start
  <2>2. ASSUME NEW w \in Workers, Loop(w) PROVE MutexDiscipline'
    BY Zenon, <2>2 DEF Loop
  <2>3. ASSUME NEW w \in Workers, GetTask_Lock(w) PROVE MutexDiscipline'
    BY Zenon, <2>3 DEF GetTask_Lock
  <2>4. ASSUME NEW w \in Workers, GetTask_Wait(w) PROVE MutexDiscipline'
    BY Zenon, <2>4 DEF GetTask_Wait
  <2>5. ASSUME NEW w \in Workers, GetTask_Null(w) PROVE MutexDiscipline'
    BY Zenon, <2>5 DEF GetTask_Null
  <2>6. ASSUME NEW w \in Workers, GetTask_Take(w) PROVE MutexDiscipline'
    BY Zenon, <2>6 DEF GetTask_Take
  <2>7. ASSUME NEW w \in Workers, SpuriousWake(w) PROVE MutexDiscipline'
    BY Zenon, <2>7 DEF SpuriousWake
  <2>8. ASSUME NEW w \in Workers, EndRun(w) PROVE MutexDiscipline'
    BY Zenon, <2>8 DEF EndRun
  <2>9. ASSUME NEW p \in Producers, NEW k \in Tasks, AddTask_Check(p, k)
        PROVE  MutexDiscipline'
    BY Zenon, <2>9 DEF AddTask_Check
  <2>10. ASSUME NEW p \in Producers, AddTask_Lock(p) PROVE MutexDiscipline'
    BY Zenon, <2>10 DEF AddTask_Lock
  <2>11. ASSUME NEW p \in Producers, AddTask_Push(p) PROVE MutexDiscipline'
    BY Zenon, <2>11 DEF AddTask_Push
  <2>12. CASE Stop
    BY Zenon, <2>12 DEF Stop
  <2>13. CASE UNCHANGED vars
    BY Zenon, <2>13 DEF vars
  <2>14. QED
    BY Zenon, <2>1, <2>2, <2>3, <2>4, <2>5, <2>6, <2>7, <2>8, <2>9, <2>10, <2>11, <2>12,
       <2>13 DEF Next, WorkerStep, GetTask, AddTask, AtRest
<1>3. QED
  BY <1>1, <1>2, InitType, NextType, PTL DEF Spec

------------------------------------------------------------------------------
(* threadpool_98.hpp:37-39 and 61-62: one signal per push is enough.  A worker
   sleeps only when every queued task has a worker of its own on the way, for
   any number of workers: a worker leaves OnTheWay with a task or past an empty
   queue, and a push that finds a sleeper puts one more worker into it. *)
THEOREM NoLostWakeup == Spec => []WorkConserving
<1>1. Init => WorkConserving
  BY Zenon DEF Init, WorkConserving, Threads
<1>2. TypeInv /\ WorkConserving /\ [Next]_vars => WorkConserving'
  <2> SUFFICES ASSUME TypeInv, WorkConserving, [Next]_vars
               PROVE  WorkConserving'
    OBVIOUS
  <2> USE ThreadsAssumption DEF TypeInv, TypeOK, Threads, Goto
  <2>a. /\ IsFiniteSet(OnTheWay) /\ IsFiniteSet(OnTheWay')
        /\ Cardinality(OnTheWay) \in Nat /\ Cardinality(OnTheWay') \in Nat
        /\ Len(task_queue) \in Nat
    <3>1. OnTheWay \in SUBSET Workers /\ OnTheWay' \in SUBSET Workers
      BY Zenon DEF OnTheWay
    <3>2. QED
      BY Zenon, <3>1, FS_Subset, FS_CardinalityType, LenProperties
  <2>b. ASSUME UNCHANGED <<task_queue, is_stopped>>,
               OnTheWay \subseteq OnTheWay',
               \A w \in Workers : pc'[w] = "wait" => pc[w] = "wait"
        PROVE  WorkConserving'
    <3>1. Cardinality(OnTheWay) <= Cardinality(OnTheWay')
      BY Zenon, <2>a, <2>b, FS_Subset
    <3>2. QED
      BY <2>a, <2>b, <3>1 DEF WorkConserving
  <2>1. ASSUME NEW w \in Workers, Start(w) PROVE WorkConserving'
    BY Zenon, <2>1, <2>b DEF Start, OnTheWay
  <2>2. ASSUME NEW w \in Workers, Loop(w) PROVE WorkConserving'
    <3>1. CASE is_stopped
      BY Zenon, <2>2, <3>1 DEF Loop, WorkConserving
    <3>2. CASE ~is_stopped
      BY Zenon, <2>2, <2>b, <3>2 DEF Loop, OnTheWay
    <3>3. QED
      BY Zenon, <3>1, <3>2
  <2>3. ASSUME NEW w \in Workers, GetTask_Lock(w) PROVE WorkConserving'
    BY Zenon, <2>3, <2>b DEF GetTask_Lock, OnTheWay
  <2>4. ASSUME NEW w \in Workers, GetTask_Wait(w) PROVE WorkConserving'
    BY <2>4, <2>a, EmptySeq DEF GetTask_Wait, WorkConserving
  <2>5. ASSUME NEW w \in Workers, GetTask_Null(w) PROVE WorkConserving'
    BY Zenon, <2>5 DEF GetTask_Null, WorkConserving
  <2>6. ASSUME NEW w \in Workers, GetTask_Take(w) PROVE WorkConserving'
    <3>1. OnTheWay' = OnTheWay \ {w} /\ w \in OnTheWay
      BY Zenon, <2>6 DEF GetTask_Take, OnTheWay
    <3>2. Cardinality(OnTheWay') = Cardinality(OnTheWay) - 1
      BY Zenon, <2>a, <3>1, FS_RemoveElement
    <3>3. Len(task_queue') = Len(task_queue) - 1
      BY Zenon, <2>6, HeadTailProperties DEF GetTask_Take
    <3>4. \A x \in Workers : pc'[x] = "wait" => pc[x] = "wait"
      BY Zenon, <2>6 DEF GetTask_Take
    <3>5. is_stopped' = is_stopped
      BY Zenon, <2>6 DEF GetTask_Take
    <3>6. QED
      BY <2>a, <3>2, <3>3, <3>4, <3>5 DEF WorkConserving
  <2>7. ASSUME NEW w \in Workers, SpuriousWake(w) PROVE WorkConserving'
    BY Zenon, <2>7, <2>b DEF SpuriousWake, OnTheWay
  <2>8. ASSUME NEW w \in Workers, EndRun(w) PROVE WorkConserving'
    BY Zenon, <2>8, <2>b DEF EndRun, OnTheWay
  <2>9. ASSUME NEW p \in Producers, NEW k \in Tasks, AddTask_Check(p, k)
        PROVE  WorkConserving'
    BY Zenon, <2>9, <2>b DEF AddTask_Check, OnTheWay
  <2>10. ASSUME NEW p \in Producers, AddTask_Lock(p) PROVE WorkConserving'
    BY Zenon, <2>10, <2>b DEF AddTask_Lock, OnTheWay
  <2>11. ASSUME NEW p \in Producers, AddTask_Push(p) PROVE WorkConserving'
    <3>1. CASE \A w \in Workers : pc[w] # "wait"
      BY Zenon, <2>11, <3>1 DEF AddTask_Push, WorkConserving
    <3>2. ASSUME NEW w \in Workers, pc[w] = "wait",
                 pc' = [pc EXCEPT ![p] = "idle", ![w] = "get_lock"]
          PROVE  WorkConserving'
      <4>1. OnTheWay' = OnTheWay \cup {w} /\ w \notin OnTheWay
        BY Zenon, <3>2 DEF OnTheWay
      <4>2. Cardinality(OnTheWay') = Cardinality(OnTheWay) + 1
        BY Zenon, <2>a, <4>1, FS_AddElement
      <4>3. Len(task_queue') = Len(task_queue) + 1 /\ is_stopped' = is_stopped
        BY <2>11, AppendProperties DEF AddTask_Push, Carrying, Carries
      <4>4. QED
        BY <2>a, <3>2, <4>2, <4>3 DEF WorkConserving
    <3>3. QED
      BY Zenon, <2>11, <3>1, <3>2 DEF AddTask_Push
  <2>12. CASE Stop
    BY Zenon, <2>12 DEF Stop, WorkConserving
  <2>13. CASE UNCHANGED vars
    BY Zenon, <2>13, <2>b DEF vars, OnTheWay
  <2>14. QED
    BY Zenon, <2>1, <2>2, <2>3, <2>4, <2>5, <2>6, <2>7, <2>8, <2>9, <2>10, <2>11, <2>12,
       <2>13 DEF Next, WorkerStep, GetTask, AddTask, AtRest
<1>3. QED
  BY <1>1, <1>2, InitType, NextType, PTL DEF Spec

------------------------------------------------------------------------------
(* The log of TaskQueue: what was taken, then what is still queued. *)
Log == taken \o task_queue

(* A task is in one place: not yet created, carried by one producer, or once
   in the log. *)
OnePlace ==
  /\ \A p, q \in Producers : Carries(p) /\ Carries(q) /\ p # q => task[p] # task[q]
  /\ \A i \in 1..Len(Log) :
       Log[i] \notin unborn /\ \A p \in Producers : Carries(p) => task[p] # Log[i]

(* Popping the head of t moves the border between s and t, not the log. *)
LEMMA PopKeepsLog ==
  ASSUME NEW S, NEW s \in Seq(S), NEW t \in Seq(S), t # <<>>
  PROVE  Append(s, Head(t)) \o Tail(t) = s \o t
<1>1. Head(t) \in S /\ Tail(t) \in Seq(S) /\ Len(Tail(t)) = Len(t) - 1
  BY Zenon, HeadTailProperties
<1>2. /\ Append(s, Head(t)) \in Seq(S)
      /\ Len(Append(s, Head(t))) = Len(s) + 1
  BY Zenon, <1>1, AppendProperties
<1>3. /\ Append(s, Head(t)) \o Tail(t) \in Seq(S) /\ s \o t \in Seq(S)
      /\ Len(Append(s, Head(t)) \o Tail(t)) = Len(s) + Len(t)
      /\ Len(s \o t) = Len(s) + Len(t)
      /\ Len(s) \in Nat /\ Len(t) \in Nat
  BY <1>1, <1>2, ConcatProperties, LenProperties
<1>4. ASSUME NEW i \in 1..(Len(s) + Len(t))
      PROVE  (Append(s, Head(t)) \o Tail(t))[i] = (s \o t)[i]
  BY <1>1, <1>2, <1>3
<1>5. QED
  BY Zenon, <1>3, <1>4, SeqEqual

(* Pushing at the end of t pushes at the end of the log. *)
LEMMA PushGrowsLog ==
  ASSUME NEW S, NEW s \in Seq(S), NEW t \in Seq(S), NEW e \in S
  PROVE  s \o Append(t, e) = Append(s \o t, e)
<1>1. <<e>> \in Seq(S) /\ s \o t \in Seq(S)
  BY ConcatProperties
<1>2. Append(t, e) = t \o <<e>> /\ Append(s \o t, e) = (s \o t) \o <<e>>
  BY Zenon, <1>1, AppendIsConcat
<1>3. QED
  BY <1>1, <1>2, ConcatAssociative

(* Every step of the pool that is not a push or a pop leaves log and cursor. *)
LEMMA LogSteps ==
  ASSUME TypeInv, [Next]_vars
  PROVE  \/ UNCHANGED <<taken, task_queue>>
         \/ \E p \in Producers : AddTask_Push(p)
         \/ \E w \in Workers : GetTask_Take(w)
BY Zenon DEF Next, vars, WorkerStep, GetTask, AddTask, AtRest, Start, Loop, GetTask_Lock,
       GetTask_Wait, GetTask_Null, SpuriousWake, EndRun, AddTask_Check, AddTask_Lock, Stop

LEMMA PushLog ==
  ASSUME TypeInv, NEW p \in Producers, AddTask_Push(p)
  PROVE  /\ Log' = Append(Log, task[p]) /\ Log \in Seq(Tasks)
         /\ task[p] \in Tasks /\ Len(taken') = Len(taken)
<1>1. task[p] \in Tasks /\ taken' = taken /\ task_queue' = Append(task_queue, task[p])
  BY Zenon DEF AddTask_Push, TypeInv, Carrying, Carries
<1>2. taken \in Seq(Tasks) /\ task_queue \in Seq(Tasks)
  BY Zenon DEF TypeInv, TypeOK
<1>3. Log \in Seq(Tasks)
  BY Zenon, <1>2, ConcatProperties DEF Log
<1>4. Log' = Append(Log, task[p])
  BY <1>1, <1>2, PushGrowsLog DEF Log
<1>5. QED
  BY Zenon, <1>1, <1>3, <1>4

LEMMA TakeLog ==
  ASSUME TypeInv, NEW w \in Workers, GetTask_Take(w)
  PROVE  Log' = Log /\ Len(taken') = Len(taken) + 1 /\ Len(taken) < Len(Log)
<1>1. /\ taken' = Append(taken, Head(task_queue)) /\ task_queue' = Tail(task_queue)
      /\ task_queue # <<>>
  BY Zenon DEF GetTask_Take
<1>2. taken \in Seq(Tasks) /\ task_queue \in Seq(Tasks)
  BY Zenon DEF TypeInv, TypeOK
<1>3. Log' = Log
  BY Zenon, <1>1, <1>2, PopKeepsLog DEF Log
<1>4. Len(taken') = Len(taken) + 1
  BY <1>1, <1>2, HeadTailProperties, AppendProperties
<1>5. Len(taken) < Len(Log)
  BY <1>1, <1>2, EmptySeq, ConcatProperties, LenProperties DEF Log
<1>6. QED
  BY Zenon, <1>3, <1>4, <1>5

LEMMA NextOnePlace == TypeInv /\ OnePlace /\ [Next]_vars => OnePlace'
<1> SUFFICES ASSUME TypeInv, OnePlace, [Next]_vars
             PROVE  OnePlace'
  OBVIOUS
<1>1. ASSUME Log' = Log, unborn' = unborn,
             \A q \in Producers : Carries(q)' => Carries(q) /\ task'[q] = task[q]
      PROVE  OnePlace'
  BY Zenon, <1>1 DEF OnePlace
<1> USE ThreadsAssumption DEF TypeInv, TypeOK, Threads, Goto
<1>2. ASSUME NEW p \in Producers, AddTask_Push(p) PROVE OnePlace'
  <2>1. /\ \A q \in Producers : Carries(q)' => Carries(q) /\ task'[q] = task[q] /\ q # p
        /\ unborn' = unborn /\ Carries(p) /\ task[p] \notin unborn
    BY Zenon, <1>2 DEF AddTask_Push, Carries, Carrying
  <2>2. /\ Log' = Append(Log, task[p]) /\ Log \in Seq(Tasks) /\ task[p] \in Tasks
    BY Zenon, <1>2, PushLog
  <2>3. \A i \in 1..Len(Log') : (i \in 1..Len(Log) /\ Log'[i] = Log[i]) \/ Log'[i] = task[p]
    BY <2>2, AppendProperties
  <2>4. QED
    BY Zenon, <2>1, <2>3 DEF OnePlace
<1>3. ASSUME NEW w \in Workers, GetTask_Take(w) PROVE OnePlace'
  <2>1. Log' = Log
    BY Zenon, <1>3, TakeLog
  <2>2. /\ unborn' = unborn
        /\ \A q \in Producers : Carries(q)' => Carries(q) /\ task'[q] = task[q]
    BY Zenon, <1>3 DEF GetTask_Take, Carries
  <2>3. QED
    BY Zenon, <1>1, <2>1, <2>2
<1>4. ASSUME NEW p \in Producers, NEW k \in Tasks, AddTask_Check(p, k) PROVE OnePlace'
  <2>1. /\ Log' = Log /\ k \in unborn /\ unborn' = unborn \ {k}
        /\ Carries(p)' => task'[p] = k
        /\ \A q \in Producers \ {p} : Carries(q)' => Carries(q) /\ task'[q] = task[q]
    BY Zenon, <1>4 DEF AddTask_Check, Carries, Log
  <2>2. \A q \in Producers : Carries(q) => task[q] # k
    BY Zenon, <2>1 DEF Carrying
  <2>3. \A q, r \in Producers :
          Carries(q)' /\ Carries(r)' /\ q # r => task'[q] # task'[r]
    BY Zenon, <2>1, <2>2 DEF OnePlace
  <2>4. \A i \in 1..Len(Log) : Log[i] # k
    BY Zenon, <2>1 DEF OnePlace
  <2>5. QED
    BY Zenon, <2>1, <2>3, <2>4 DEF OnePlace
<1>5. CASE UNCHANGED vars
  BY Zenon, <1>1, <1>5 DEF vars, Log, Carries
<1>6. ASSUME NEW w \in Workers,
             \/ Start(w) \/ Loop(w) \/ GetTask_Lock(w) \/ GetTask_Wait(w)
             \/ GetTask_Null(w) \/ SpuriousWake(w) \/ EndRun(w)
      PROVE  OnePlace'
  <2>1. /\ Log' = Log /\ unborn' = unborn
        /\ \A q \in Producers : pc'[q] = pc[q] /\ task'[q] = task[q]
    BY Zenon, <1>6 DEF Start, Loop, GetTask_Lock, GetTask_Wait, GetTask_Null, SpuriousWake,
                EndRun, Log
  <2>2. QED
    BY Zenon, <1>1, <2>1 DEF Carries
<1>7. ASSUME NEW p \in Producers, AddTask_Lock(p) PROVE OnePlace'
  BY Zenon, <1>1, <1>7 DEF AddTask_Lock, Carries, Log
<1>8. CASE Stop
  BY Zenon, <1>1, <1>8 DEF Stop, Carries, Log
<1>9. QED
  BY Zenon, <1>2, <1>3, <1>4, <1>5, <1>6, <1>7, <1>8 DEF Next, WorkerStep, GetTask, AddTask, AtRest

(* threadpool_98.hpp:44-45 and 61: the pool implements TaskQueue.  Tasks are
   handed out in the order add_task pushed them, each once, none forgotten,
   whatever the threads and the stop flag do. *)
THEOREM Implementation == Spec => ImplementsTaskQueue
<1>1. Init => Q!Init
  BY DEF Init, Q!Init
<1>2. Init => OnePlace
  BY ThreadsAssumption, InitType DEF Init, OnePlace, Log, Carries, Threads
<1>3. TypeInv /\ OnePlace /\ [Next]_vars => [Q!Next]_Q!vars
  <2> SUFFICES ASSUME TypeInv, OnePlace, [Next]_vars
               PROVE  [Q!Next]_Q!vars
    OBVIOUS
  <2>1. CASE UNCHANGED <<taken, task_queue>>
    BY Zenon, <2>1 DEF Q!vars
  <2>2. ASSUME NEW p \in Producers, AddTask_Push(p) PROVE Q!Next
    <3>1. /\ Log' = Append(Log, task[p]) /\ task[p] \in Tasks /\ Len(taken') = Len(taken)
      BY Zenon, <2>2, PushLog
    <3>2. \A i \in 1..Len(Log) : Log[i] # task[p]
      BY Zenon, <2>2 DEF OnePlace, AddTask_Push, Carries
    <3>3. Q!Add(task[p])
      BY Zenon, <3>1, <3>2 DEF Q!Add, Log
    <3>4. QED
      BY Zenon, <3>1, <3>3 DEF Q!Next
  <2>3. ASSUME NEW w \in Workers, GetTask_Take(w) PROVE Q!Next
    BY Zenon, <2>3, TakeLog DEF Q!Next, Q!Take, Log
  <2>4. QED
    BY Zenon, <2>1, <2>2, <2>3, LogSteps
<1>4. QED
  BY <1>1, <1>2, <1>3, InitType, NextType, NextOnePlace, PTL
     DEF Spec, Q!Spec, ImplementsTaskQueue
==============================================================================
