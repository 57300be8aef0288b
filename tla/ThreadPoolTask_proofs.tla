------------------------ MODULE ThreadPoolTask_proofs ------------------------
(***************************************************************************)
(* The pool of the indexers for any finite number of threads and any       *)
(* limits.                                                                 *)
(***************************************************************************)
EXTENDS ThreadPoolTask, FiniteSetTheorems, SequenceTheorems, TLAPS

(* First the steps that both elastic pools have. *)

(* What a producer carries to the queue is a task that exists. *)
Carrying == \A p \in Producers : adder[p] = "push" => adding[p] \in Tasks \ unborn

(* The counters are natural numbers because they count something. *)
PoolInv == TypeOK /\ Carrying /\ CountersExact /\ NobodySleepsOnWork

LEMMA FiniteThreads ==
  ASSUME TypeOK
  PROVE  /\ Running \in SUBSET Threads /\ IsFiniteSet(Running) /\ Cardinality(Running) \in Nat
         /\ Alive \in SUBSET Threads /\ IsFiniteSet(Alive) /\ Cardinality(Alive) \in Nat
<1>1. Running \in SUBSET Threads /\ Alive \in SUBSET Threads
  BY Zenon DEF Running, Alive
<1>2. QED
  BY Zenon, <1>1, ElasticAssumption, FS_Subset, FS_CardinalityType

LEMMA InitInv == Init => PoolInv
<1> SUFFICES ASSUME Init PROVE PoolInv
  OBVIOUS
<1>1. PICK S \in SUBSET Threads :
        /\ Cardinality(S) = init_num
        /\ pc = [t \in Threads |-> IF t \in S THEN "loop" ELSE "none"]
  BY Zenon DEF Init
<1>2. Running = {} /\ Alive = S
  BY Zenon, <1>1 DEF Running, Alive
<1>3. init_num \in Nat
  BY ElasticAssumption, FS_CardinalityType
<1>4. TypeOK
  <2>1. pc \in [Threads -> ThreadPC]
    BY Zenon, <1>1 DEF ThreadPC
  <2>2. /\ tasks = <<>> /\ taken = <<>> /\ cur_num = init_num /\ used_num = 0
        /\ m_lock = NoThread /\ is_stopped = FALSE /\ unborn = Tasks
        /\ task_nums = [t \in Threads |-> 0]
        /\ adder = [p \in Producers |-> "idle"]
        /\ adding = [p \in Producers |-> NoTask]
    BY Zenon DEF Init
  <2>3. tasks \in Seq(Tasks) /\ taken \in Seq(Tasks)
    BY <2>2
  <2>4. QED
    BY Zenon, <1>3, <2>1, <2>2, <2>3 DEF TypeOK
<1>5. CountersExact
  <2>1. cur_num = init_num /\ used_num = 0
    BY Zenon DEF Init
  <2>2. QED
    BY <1>1, <1>2, <1>3, <2>1, FS_EmptySet DEF CountersExact
<1>6. Carrying /\ NobodySleepsOnWork
  BY Zenon DEF Init, Carrying, NobodySleepsOnWork
<1>7. QED
  BY Zenon, <1>4, <1>5, <1>6 DEF PoolInv

(* A thread that starts or stops running a task changes the count by one. *)
LEMMA RunningCount ==
  ASSUME TypeOK, NEW t \in Threads, NEW l \in ThreadPC, Goto(t, l)
  PROVE  /\ pc[t] # "run" /\ l = "run" => Cardinality(Running') = Cardinality(Running) + 1
         /\ pc[t] = "run" /\ l # "run" => Cardinality(Running') = Cardinality(Running) - 1
         /\ (pc[t] = "run" <=> l = "run") => Running' = Running
<1>1. /\ pc'[t] = l
      /\ \A u \in Threads : u # t => pc'[u] = pc[u]
  BY Zenon DEF Goto, TypeOK
<1>2. ASSUME pc[t] # "run", l = "run" PROVE Cardinality(Running') = Cardinality(Running) + 1
  <2>1. Running' = Running \cup {t} /\ t \notin Running
    BY <1>1, <1>2 DEF Running
  <2>2. QED
    BY Zenon, <2>1, FiniteThreads, FS_AddElement
<1>3. ASSUME pc[t] = "run", l # "run" PROVE Cardinality(Running') = Cardinality(Running) - 1
  <2>1. Running' = Running \ {t} /\ t \in Running
    BY Zenon, <1>1, <1>3 DEF Running
  <2>2. QED
    BY Zenon, <2>1, FiniteThreads, FS_RemoveElement
<1>4. ASSUME pc[t] = "run" <=> l = "run" PROVE Running' = Running
  BY Zenon, <1>1, <1>4 DEF Running
<1>5. QED
  BY Zenon, <1>2, <1>3, <1>4

(* A thread that leaves is one less. *)
LEMMA AliveCount ==
  ASSUME TypeOK, NEW t \in Threads, NEW l \in ThreadPC, Goto(t, l),
         pc[t] \notin {"none", "gone"}, l # "none"
  PROVE  /\ l = "gone" => Cardinality(Alive') = Cardinality(Alive) - 1
         /\ l # "gone" => Alive' = Alive
<1>1. /\ pc'[t] = l
      /\ \A u \in Threads : u # t => pc'[u] = pc[u]
  BY Zenon DEF Goto, TypeOK
<1>2. ASSUME l = "gone" PROVE Cardinality(Alive') = Cardinality(Alive) - 1
  <2>1. Alive' = Alive \ {t} /\ t \in Alive
    BY Zenon, <1>1, <1>2 DEF Alive
  <2>2. QED
    BY Zenon, <2>1, FiniteThreads, FS_RemoveElement
<1>3. ASSUME l # "gone" PROVE Alive' = Alive
  BY Zenon, <1>1, <1>3 DEF Alive
<1>4. QED
  BY Zenon, <1>2, <1>3

(* A thread that goes on without leaving and without running a task. *)
LEMMA QuietCounts ==
  ASSUME PoolInv, NEW t \in Threads, NEW l \in ThreadPC, Goto(t, l),
         pc[t] \notin {"none", "gone", "run"}, l \notin {"none", "gone", "run"},
         UNCHANGED <<is_stopped, cur_num, used_num>>
  PROVE  CountersExact'
<1>1. Running' = Running /\ Alive' = Alive
  BY Zenon, RunningCount, AliveCount DEF PoolInv
<1>2. QED
  BY Zenon, <1>1 DEF PoolInv, CountersExact

(* Nobody falls asleep and nothing is pushed. *)
LEMMA QuietSleep ==
  ASSUME PoolInv, \A t \in Threads : pc'[t] = "wait" => pc[t] = "wait",
         tasks' # <<>> => tasks # <<>>, UNCHANGED adder
  PROVE  NobodySleepsOnWork'
BY Zenon DEF PoolInv, NobodySleepsOnWork

------------------------------------------------------------------------------
LEMMA CommonType ==
  ASSUME PoolInv, CommonNext
  PROVE  TypeOK' /\ Carrying'
<1> USE DEF TypeOK, Carrying, ThreadPC, Goto
<1>0. TypeOK /\ Carrying
  BY Zenon DEF PoolInv
<1>1. ASSUME NEW t \in Threads, Loop(t) PROVE TypeOK' /\ Carrying'
  BY Zenon, <1>0, <1>1 DEF Loop, adderVars
<1>2. ASSUME NEW t \in Threads, Get_Wait(t) PROVE TypeOK' /\ Carrying'
  BY Zenon, <1>0, <1>2 DEF Get_Wait, adderVars
<1>3. ASSUME NEW t \in Threads, Get_Stopped(t) PROVE TypeOK' /\ Carrying'
  BY Zenon, <1>0, <1>3 DEF Get_Stopped, adderVars
<1>4. ASSUME NEW t \in Threads, Get_Take(t) PROVE TypeOK' /\ Carrying'
  <2>1. /\ Tail(tasks) \in Seq(Tasks) /\ Head(tasks) \in Tasks
        /\ Len(tasks) - 1 \in Nat
    BY <1>0, <1>4, HeadTailProperties, EmptySeq, LenProperties DEF Get_Take
  <2>2. Append(taken, Head(tasks)) \in Seq(Tasks)
    BY Zenon, <1>0, <2>1, AppendProperties
  <2>3. QED
    BY Zenon, <1>0, <1>4, <2>1, <2>2 DEF Get_Take, adderVars
<1>5. ASSUME NEW t \in Threads, SpuriousWake(t) PROVE TypeOK' /\ Carrying'
  BY Zenon, <1>0, <1>5 DEF SpuriousWake, adderVars
<1>6. ASSUME NEW t \in Threads, BeginRun(t) PROVE TypeOK' /\ Carrying'
  BY <1>0, <1>6 DEF BeginRun, adderVars
<1>7. ASSUME NEW t \in Threads, EndRun(t) PROVE TypeOK' /\ Carrying'
  <2>1. used_num - 1 \in Nat
    <3>1. t \in Running
      BY Zenon, <1>7 DEF EndRun, Running
    <3>2. Cardinality(Running) # 0
      BY Zenon, <1>0, <3>1, FiniteThreads, FS_EmptySet
    <3>3. QED
      BY <1>0, <3>2, FiniteThreads DEF PoolInv, CountersExact
  <2>2. QED
    BY Zenon, <1>0, <1>7, <2>1 DEF EndRun, adderVars
<1>8. ASSUME NEW p \in Producers, NEW k \in Tasks, TaskAdd_Check(p, k)
      PROVE  TypeOK' /\ Carrying'
  BY Zenon, <1>0, <1>8 DEF TaskAdd_Check, threadVars
<1>9. ASSUME NEW p \in Producers, TaskAdd_Push(p) PROVE TypeOK' /\ Carrying'
  <2>1. Append(tasks, adding[p]) \in Seq(Tasks)
    BY Zenon, <1>0, <1>9, AppendProperties DEF TaskAdd_Push
  <2>2. QED
    BY Zenon, <1>0, <1>9, <2>1 DEF TaskAdd_Push, threadVars
<1>10. ASSUME NEW p \in Producers, TaskAdd_Notify(p) PROVE TypeOK' /\ Carrying'
  BY Zenon, <1>0, <1>10 DEF TaskAdd_Notify
<1>11. CASE Destroy
  BY Zenon, <1>0, <1>11 DEF Destroy, threadVars, adderVars
<1>12. CASE AtRest
  BY Zenon, <1>0, <1>12 DEF AtRest, vars, threadVars, adderVars
<1>13. QED
  BY Zenon, <1>1, <1>2, <1>3, <1>4, <1>5, <1>6, <1>7, <1>8, <1>9, <1>10, <1>11, <1>12
     DEF CommonNext, RunStep, AddStep

LEMMA CommonCounts ==
  ASSUME PoolInv, CommonNext
  PROVE  CountersExact'
<1>0. /\ TypeOK /\ CountersExact
      /\ Cardinality(Running) \in Nat /\ Cardinality(Alive) \in Nat
  BY Zenon, FiniteThreads DEF PoolInv
<1>1. ASSUME NEW t \in Threads,
             (Loop(t) /\ ~is_stopped) \/ Get_Wait(t) \/ Get_Take(t) \/ SpuriousWake(t)
      PROVE  CountersExact'
  <2>1. \E l \in {"get", "wait", "start"} : Goto(t, l)
    BY Zenon, <1>1 DEF Loop, Get_Wait, Get_Take, SpuriousWake
  <2>2. /\ pc[t] \notin {"none", "gone", "run"}
        /\ UNCHANGED <<is_stopped, cur_num, used_num>>
    BY Zenon, <1>1 DEF Loop, Get_Wait, Get_Take, SpuriousWake
  <2>3. QED
    BY Zenon, <2>1, <2>2, QuietCounts DEF ThreadPC
<1>2. ASSUME NEW t \in Threads, (Loop(t) /\ is_stopped) \/ Get_Stopped(t)
      PROVE  CountersExact'
  <2>1. /\ Goto(t, "gone") /\ pc[t] \in {"loop", "get"} /\ is_stopped
        /\ UNCHANGED <<is_stopped, cur_num, used_num>>
    BY Zenon, <1>2 DEF Loop, Get_Stopped
  <2>2. Running' = Running /\ Cardinality(Alive') = Cardinality(Alive) - 1
    BY Zenon, <1>0, <2>1, RunningCount, AliveCount DEF ThreadPC
  <2>3. QED
    BY <1>0, <2>1, <2>2 DEF CountersExact, TypeOK
<1>3. ASSUME NEW t \in Threads, BeginRun(t) PROVE CountersExact'
  <2>1. Cardinality(Running') = Cardinality(Running) + 1 /\ Alive' = Alive
    BY Zenon, <1>0, <1>3, RunningCount, AliveCount DEF BeginRun, ThreadPC
  <2>2. QED
    BY Zenon, <1>0, <1>3, <2>1 DEF BeginRun, CountersExact
<1>4. ASSUME NEW t \in Threads, EndRun(t) PROVE CountersExact'
  <2>1. Cardinality(Running') = Cardinality(Running) - 1 /\ Alive' = Alive
    BY Zenon, <1>0, <1>4, RunningCount, AliveCount DEF EndRun, ThreadPC
  <2>2. QED
    BY Zenon, <1>0, <1>4, <2>1 DEF EndRun, CountersExact
<1>5. ASSUME NEW p \in Producers, TaskAdd_Notify(p) PROVE CountersExact'
  <2>1. Running' = Running /\ Alive' = Alive
    BY Zenon, <1>0, <1>5 DEF TaskAdd_Notify, Running, Alive, TypeOK
  <2>2. QED
    BY Zenon, <1>0, <1>5, <2>1 DEF TaskAdd_Notify, CountersExact
<1>6. ASSUME pc' = pc, UNCHANGED <<cur_num, used_num>>, is_stopped' \/ is_stopped' = is_stopped
      PROVE  CountersExact'
  BY Zenon, <1>0, <1>6 DEF CountersExact, Alive, Running
<1>7. ASSUME NEW p \in Producers, TaskAdd_Push(p) \/ \E k \in Tasks : TaskAdd_Check(p, k)
      PROVE  CountersExact'
  BY Zenon, <1>6, <1>7 DEF TaskAdd_Push, TaskAdd_Check, threadVars
<1>8. CASE Destroy \/ AtRest
  BY Zenon, <1>6, <1>8 DEF Destroy, AtRest, vars, threadVars
<1>9. QED
  BY Zenon, <1>1, <1>2, <1>3, <1>4, <1>5, <1>7, <1>8 DEF CommonNext, RunStep, AddStep

LEMMA CommonSleep ==
  ASSUME PoolInv, CommonNext
  PROVE  NobodySleepsOnWork'
<1>0. TypeOK /\ NobodySleepsOnWork
  BY Zenon DEF PoolInv
<1> USE DEF TypeOK, Goto
<1>1. ASSUME NEW t \in Threads,
             Loop(t) \/ Get_Stopped(t) \/ SpuriousWake(t) \/ BeginRun(t) \/ EndRun(t)
      PROVE  NobodySleepsOnWork'
  <2>1. \A u \in Threads : pc'[u] = "wait" => pc[u] = "wait"
    BY Zenon, <1>0, <1>1 DEF Loop, Get_Stopped, SpuriousWake, BeginRun, EndRun
  <2>2. UNCHANGED <<tasks, adder>>
    BY Zenon, <1>1 DEF Loop, Get_Stopped, SpuriousWake, BeginRun, EndRun, adderVars
  <2>3. QED
    BY Zenon, <2>1, <2>2, QuietSleep
<1>2. ASSUME NEW t \in Threads, Get_Wait(t) PROVE NobodySleepsOnWork'
  BY Zenon, <1>2 DEF Get_Wait, NobodySleepsOnWork
<1>3. ASSUME NEW t \in Threads, Get_Take(t) PROVE NobodySleepsOnWork'
  <2>1. \A u \in Threads : pc'[u] = "wait" => pc[u] = "wait"
    BY Zenon, <1>0, <1>3 DEF Get_Take
  <2>2. tasks # <<>> /\ UNCHANGED adder
    BY Zenon, <1>3 DEF Get_Take, adderVars
  <2>3. QED
    BY Zenon, <2>1, <2>2, QuietSleep
<1>4. ASSUME NEW p \in Producers, NEW k \in Tasks, TaskAdd_Check(p, k)
      PROVE  NobodySleepsOnWork'
  BY Zenon, <1>0, <1>4 DEF TaskAdd_Check, NobodySleepsOnWork, threadVars
<1>5. ASSUME NEW p \in Producers, TaskAdd_Push(p) PROVE NobodySleepsOnWork'
  BY Zenon, <1>0, <1>5 DEF TaskAdd_Push, NobodySleepsOnWork
<1>6. ASSUME NEW p \in Producers, TaskAdd_Notify(p) PROVE NobodySleepsOnWork'
  BY Zenon, <1>0, <1>6 DEF TaskAdd_Notify, NobodySleepsOnWork
<1>7. CASE Destroy \/ AtRest
  BY Zenon, <1>7, QuietSleep DEF Destroy, AtRest, vars, threadVars, adderVars
<1>8. QED
  BY Zenon, <1>1, <1>2, <1>3, <1>4, <1>5, <1>6, <1>7 DEF CommonNext, RunStep, AddStep

(* The steps both pools have keep the invariant. *)
LEMMA CommonInv == PoolInv /\ CommonNext => PoolInv'
BY Zenon, CommonType, CommonCounts, CommonSleep DEF PoolInv

------------------------------------------------------------------------------
(* Then those of this pool, with its lock and its limits. *)

(* A thread between its two tests is a thread of the pool that neither runs a
   task nor sleeps: neither test can be passed by two threads at once. *)
Inv == PoolInv /\ LockDiscipline /\ WithinLimits

LEMMA LimitNumbers == init_num \in Nat /\ init_num >= 1 /\ max_num \in Nat
BY ElasticAssumption, FS_CardinalityType

LEMMA InitLimits == Init => Inv
<1> SUFFICES ASSUME Init PROVE Inv
  OBVIOUS
<1>1. PoolInv
  BY Zenon, InitInv
<1>2. PICK S \in SUBSET Threads : pc = [t \in Threads |-> IF t \in S THEN "loop" ELSE "none"]
  BY Zenon DEF Init
<1>3. LockDiscipline
  <2>1. m_lock = NoThread
    BY Zenon DEF Init
  <2>2. QED
    BY Zenon, <1>2, <2>1, ElasticAssumption DEF LockDiscipline
<1>4. WithinLimits
  <2>1. cur_num = init_num
    BY Zenon DEF Init
  <2>2. QED
    BY <2>1, LimitNumbers DEF WithinLimits
<1>5. QED
  BY Zenon, <1>1, <1>3, <1>4 DEF Inv

(* The steps of ElasticPool touch neither the lock nor the number of threads. *)
LEMMA CommonLimits == Inv /\ CommonNext => Inv'
<1> SUFFICES ASSUME Inv, CommonNext PROVE Inv'
  OBVIOUS
<1>0. PoolInv /\ TypeOK /\ LockDiscipline /\ WithinLimits
  BY Zenon DEF Inv, PoolInv
<1>1. PoolInv'
  BY Zenon, <1>0, CommonInv
<1>2. cur_num' = cur_num /\ m_lock' = m_lock
  BY Zenon DEF CommonNext, RunStep, AddStep, Loop, Get_Wait, Get_Stopped, Get_Take, SpuriousWake,
         BeginRun, EndRun, TaskAdd_Check, TaskAdd_Push, TaskAdd_Notify, Destroy, AtRest, vars
<1>3. \A t \in Threads : pc'[t] = "shrink" <=> pc[t] = "shrink"
  BY Zenon, <1>0 DEF CommonNext, RunStep, AddStep, Loop, Get_Wait, Get_Stopped, Get_Take, SpuriousWake,
         BeginRun, EndRun, TaskAdd_Check, TaskAdd_Push, TaskAdd_Notify, Destroy, AtRest, vars,
         threadVars, Goto, TypeOK
<1>4. LockDiscipline'
  BY Zenon, <1>0, <1>2, <1>3 DEF LockDiscipline
<1>5. WithinLimits'
  BY Zenon, <1>0, <1>2 DEF WithinLimits
<1>6. QED
  BY Zenon, <1>1, <1>4, <1>5 DEF Inv

LEMMA GrowLimits ==
  ASSUME Inv, NEW t \in Threads, Adjust_Grow(t)
  PROVE  Inv'
<1>0. /\ PoolInv /\ TypeOK /\ LockDiscipline /\ WithinLimits /\ CountersExact
      /\ m_lock = NoThread /\ m_lock' = t /\ pc[t] = "adjust"
      /\ UNCHANGED <<tasks, is_stopped, used_num, task_nums, adder, adding, unborn, taken>>
  BY Zenon DEF Inv, PoolInv, Adjust_Grow, adderVars
<1>1. CASE Goto(t, "shrink") /\ UNCHANGED cur_num
  <2>1. TypeOK' /\ Carrying'
    BY Zenon, <1>0, <1>1 DEF TypeOK, Carrying, PoolInv, Goto, ThreadPC
  <2>2. CountersExact'
    BY Zenon, <1>0, <1>1, QuietCounts DEF ThreadPC
  <2>3. NobodySleepsOnWork'
    BY Zenon, <1>0, <1>1, QuietSleep DEF Goto, TypeOK
  <2>4. LockDiscipline' /\ WithinLimits'
    BY Zenon, <1>0, <1>1, ElasticAssumption DEF LockDiscipline, WithinLimits, Goto, TypeOK
  <2>5. QED
    BY Zenon, <2>1, <2>2, <2>3, <2>4 DEF Inv, PoolInv
<1>2. ASSUME NEW n \in Threads, Create(n), cur_num < max_num,
             pc' = [pc EXCEPT ![t] = "shrink", ![n] = "loop"]
      PROVE  Inv'
  <2>1. /\ cur_num' = cur_num + 1 /\ n # t /\ pc[n] = "none"
        /\ pc'[t] = "shrink" /\ pc'[n] = "loop"
        /\ \A u \in Threads : u # t /\ u # n => pc'[u] = pc[u]
    BY Zenon, <1>0, <1>2 DEF Create, TypeOK
  <2>2. TypeOK' /\ Carrying'
    <3>1. pc' \in [Threads -> ThreadPC]
      BY Zenon, <1>0, <1>2 DEF TypeOK, ThreadPC
    <3>2. cur_num' \in Nat
      BY <1>0, <2>1 DEF TypeOK
    <3>3. QED
      BY Zenon, <1>0, <3>1, <3>2 DEF TypeOK, Carrying, PoolInv
  <2>3. Running' = Running
    BY Zenon, <1>0, <2>1 DEF Running
  <2>4. Alive' = Alive \cup {n} /\ n \notin Alive
    BY Zenon, <1>0, <2>1 DEF Alive
  <2>5. Cardinality(Alive') = Cardinality(Alive) + 1 /\ Cardinality(Alive) \in Nat
    BY Zenon, <1>0, <2>4, FiniteThreads, FS_AddElement
  <2>6. CountersExact'
    BY <1>0, <2>1, <2>3, <2>5 DEF CountersExact, TypeOK
  <2>7. NobodySleepsOnWork'
    BY Zenon, <1>0, <2>1, QuietSleep
  <2>8. LockDiscipline'
    BY Zenon, <1>0, <2>1, ElasticAssumption DEF LockDiscipline
  <2>9. WithinLimits'
    BY <1>0, <1>2, <2>1, LimitNumbers DEF WithinLimits, TypeOK
  <2>10. QED
    BY Zenon, <2>2, <2>6, <2>7, <2>8, <2>9 DEF Inv, PoolInv
<1>3. QED
  BY Zenon, <1>1, <1>2 DEF Adjust_Grow

LEMMA ShrinkLimits ==
  ASSUME Inv, NEW t \in Threads, Adjust_Shrink(t)
  PROVE  Inv'
<1>0. /\ PoolInv /\ TypeOK /\ LockDiscipline /\ WithinLimits /\ CountersExact
      /\ m_lock = t /\ m_lock' = NoThread /\ pc[t] = "shrink"
      /\ UNCHANGED <<tasks, is_stopped, used_num, task_nums, adder, adding, unborn, taken>>
  BY Zenon DEF Inv, PoolInv, Adjust_Shrink, adderVars, LockDiscipline
<1>1. CASE Goto(t, "loop") /\ UNCHANGED cur_num
  <2>1. TypeOK' /\ Carrying'
    BY Zenon, <1>0, <1>1 DEF TypeOK, Carrying, PoolInv, Goto, ThreadPC
  <2>2. CountersExact'
    BY Zenon, <1>0, <1>1, QuietCounts DEF ThreadPC
  <2>3. NobodySleepsOnWork'
    BY Zenon, <1>0, <1>1, QuietSleep DEF Goto, TypeOK
  <2>4. LockDiscipline' /\ WithinLimits'
    BY Zenon, <1>0, <1>1, ElasticAssumption DEF LockDiscipline, WithinLimits, Goto, TypeOK
  <2>5. QED
    BY Zenon, <2>1, <2>2, <2>3, <2>4 DEF Inv, PoolInv
<1>2. CASE Goto(t, "gone") /\ cur_num' = cur_num - 1 /\ cur_num > init_num
  <2>1. TypeOK' /\ Carrying'
    BY <1>0, <1>2, LimitNumbers DEF TypeOK, Carrying, PoolInv, Goto, ThreadPC
  <2>2. /\ Running' = Running /\ Cardinality(Alive') = Cardinality(Alive) - 1
        /\ Cardinality(Alive) \in Nat
    BY Zenon, <1>0, <1>2, RunningCount, AliveCount, FiniteThreads DEF ThreadPC
  <2>3. CountersExact'
    BY <1>0, <1>2, <2>2 DEF CountersExact, TypeOK
  <2>4. NobodySleepsOnWork'
    BY Zenon, <1>0, <1>2, QuietSleep DEF Goto, TypeOK
  <2>5. LockDiscipline'
    BY Zenon, <1>0, <1>2, ElasticAssumption DEF LockDiscipline, Goto, TypeOK
  <2>6. WithinLimits'
    BY <1>0, <1>2, LimitNumbers DEF WithinLimits, TypeOK
  <2>7. QED
    BY Zenon, <2>1, <2>3, <2>4, <2>5, <2>6 DEF Inv, PoolInv
<1>3. QED
  BY Zenon, <1>1, <1>2 DEF Adjust_Shrink

LEMMA Invariance == Spec => []Inv
<1>1. Inv /\ [Next]_vars => Inv'
  <2> SUFFICES ASSUME Inv, [Next]_vars PROVE Inv'
    OBVIOUS
  <2>1. CASE UNCHANGED vars
    BY Zenon, <2>1 DEF vars, threadVars, adderVars, Inv, PoolInv, TypeOK, Carrying, CountersExact, Running, Alive, NobodySleepsOnWork, LockDiscipline, WithinLimits
  <2>2. QED
    BY Zenon, <2>1, CommonLimits, GrowLimits, ShrinkLimits DEF Next, AdjustStep
<1>2. QED
  BY <1>1, InitLimits, PTL DEF Spec

(* threadpooltask.hpp: every variable keeps its type; the counters never become
   negative and no null pointer is queued. *)
THEOREM TypeCorrect == Spec => []TypeOK
<1>1. Inv => TypeOK
  BY Zenon DEF Inv, PoolInv
<1>2. QED
  BY <1>1, Invariance, PTL

(* threadpooltask.hpp:57-72: the pool has between init_num and max_num threads, and
   cur_num counts them, for any limits and any interleaving. *)
THEOREM LimitsHold == Spec => [](WithinLimits /\ CountersExact)
<1>1. Inv => WithinLimits /\ CountersExact
  BY Zenon DEF Inv, PoolInv
<1>2. QED
  BY <1>1, Invariance, PTL

(* threadpooltask.hpp:58-72: one thread at a time adjusts. *)
THEOREM OneAdjusts == Spec => []LockDiscipline
<1>1. Inv => LockDiscipline
  BY Zenon DEF Inv
<1>2. QED
  BY <1>1, Invariance, PTL

(* threadpooltask.hpp:45-53 and 81-85: no wake-up is lost. *)
THEOREM NoLostWakeup == Spec => []NobodySleepsOnWork
<1>1. Inv => NobodySleepsOnWork
  BY Zenon DEF Inv, PoolInv
<1>2. QED
  BY <1>1, Invariance, PTL

------------------------------------------------------------------------------
(* The log of TaskQueue: what was taken, then what is still queued. *)
Log == taken \o tasks

(* A task is in one place: not yet created, carried by one producer, or once
   in the log. *)
OnePlace ==
  /\ \A p, q \in Producers : adder[p] = "push" /\ adder[q] = "push" /\ p # q
                               => adding[p] # adding[q]
  /\ \A i \in 1..Len(Log) : /\ Log[i] \notin unborn
                            /\ \A p \in Producers : adder[p] = "push" => adding[p] # Log[i]

(* Popping the head of t moves the border between s and t, not the log; pushing
   at the end of t pushes at the end of the log. *)
LEMMA MovesInLog ==
  ASSUME NEW S, NEW s \in Seq(S), NEW t \in Seq(S)
  PROVE  /\ s \o t \in Seq(S) /\ Len(s \o t) = Len(s) + Len(t)
         /\ t # <<>> => Append(s, Head(t)) \o Tail(t) = s \o t
         /\ \A e \in S : s \o Append(t, e) = Append(s \o t, e)
<1>1. s \o t \in Seq(S) /\ Len(s \o t) = Len(s) + Len(t)
  BY Zenon, ConcatProperties
<1>2. ASSUME t # <<>> PROVE Append(s, Head(t)) \o Tail(t) = s \o t
  <2>1. <<Head(t)>> \in Seq(S) /\ Tail(t) \in Seq(S) /\ t = <<Head(t)>> \o Tail(t)
    BY <1>2
  <2>2. Append(s, Head(t)) = s \o <<Head(t)>>
    BY <2>1
  <2>3. QED
    BY <2>1, <2>2, ConcatAssociative
<1>3. ASSUME NEW e \in S PROVE s \o Append(t, e) = Append(s \o t, e)
  <2>1. <<e>> \in Seq(S) /\ Append(t, e) = t \o <<e>> /\ Append(s \o t, e) = (s \o t) \o <<e>>
    BY <1>1, AppendIsConcat
  <2>2. QED
    BY <2>1, ConcatAssociative
<1>4. QED
  BY Zenon, <1>1, <1>2, <1>3

(* Every step that is not a push or a pop leaves log and cursor; every step that
   is not the start or the end of a task_add leaves what producers carry. *)
LEMMA LogSteps ==
  ASSUME PoolInv, [Next]_vars
  PROVE  \/ UNCHANGED <<taken, tasks, adderVars>>
         \/ \E p \in Producers : TaskAdd_Push(p) \/ TaskAdd_Notify(p)
         \/ \E p \in Producers, k \in Tasks : TaskAdd_Check(p, k)
         \/ \E t \in Threads : Get_Take(t)
BY Zenon DEF Next, CommonNext, AdjustStep, Adjust_Grow, Adjust_Shrink, vars, RunStep, AddStep, Loop, Get_Wait,
       Get_Stopped, SpuriousWake, BeginRun, EndRun, Destroy, AtRest

LEMMA PushLog ==
  ASSUME PoolInv, NEW p \in Producers, TaskAdd_Push(p)
  PROVE  /\ Log' = Append(Log, adding[p]) /\ Log \in Seq(Tasks)
         /\ adding[p] \in Tasks \ unborn /\ taken' = taken
<1>1. /\ adding[p] \in Tasks \ unborn /\ taken' = taken /\ tasks' = Append(tasks, adding[p])
      /\ taken \in Seq(Tasks) /\ tasks \in Seq(Tasks)
  BY Zenon DEF TaskAdd_Push, PoolInv, Carrying, TypeOK
<1>2. QED
  BY <1>1, MovesInLog DEF Log

LEMMA TakeLog ==
  ASSUME PoolInv, NEW t \in Threads, Get_Take(t)
  PROVE  Log' = Log /\ Len(taken') = Len(taken) + 1 /\ Len(taken) < Len(Log)
<1>1. /\ taken' = Append(taken, Head(tasks)) /\ tasks' = Tail(tasks) /\ tasks # <<>>
      /\ taken \in Seq(Tasks) /\ tasks \in Seq(Tasks)
  BY Zenon DEF Get_Take, PoolInv, TypeOK
<1>2. Log' = Log /\ Len(Log) = Len(taken) + Len(tasks)
  BY Zenon, <1>1, MovesInLog DEF Log
<1>3. QED
  BY <1>1, <1>2

LEMMA NextOnePlace == PoolInv /\ OnePlace /\ [Next]_vars => OnePlace'
<1> SUFFICES ASSUME PoolInv, OnePlace, [Next]_vars PROVE OnePlace'
  OBVIOUS
<1>0. /\ adder \in [Producers -> {"idle", "push", "notify", "threw"}]
      /\ adding \in [Producers -> Tasks \cup {NoTask}]
  BY Zenon DEF PoolInv, TypeOK
<1>1. ASSUME Log' = Log, unborn' = unborn,
             \A q \in Producers : adder'[q] = "push" => adder[q] = "push" /\ adding'[q] = adding[q]
      PROVE  OnePlace'
  BY Zenon, <1>1 DEF OnePlace
<1>2. CASE UNCHANGED <<taken, tasks, adderVars>>
  BY Zenon, <1>1, <1>2 DEF adderVars, Log
<1>3. ASSUME NEW p \in Producers, TaskAdd_Push(p) PROVE OnePlace'
  <2>1. /\ \A q \in Producers :
             adder'[q] = "push" => adder[q] = "push" /\ adding'[q] = adding[q] /\ q # p
        /\ unborn' = unborn /\ adder[p] = "push"
    BY Zenon, <1>0, <1>3 DEF TaskAdd_Push
  <2>2. Log' = Append(Log, adding[p]) /\ Log \in Seq(Tasks) /\ adding[p] \in Tasks \ unborn
    BY Zenon, <1>3, PushLog
  <2>3. \A i \in 1..Len(Log') : (i \in 1..Len(Log) /\ Log'[i] = Log[i]) \/ Log'[i] = adding[p]
    BY <2>2, AppendProperties
  <2>4. QED
    BY <2>1, <2>2, <2>3 DEF OnePlace
<1>4. ASSUME NEW p \in Producers, TaskAdd_Notify(p) PROVE OnePlace'
  BY Zenon, <1>0, <1>1, <1>4 DEF TaskAdd_Notify, Log
<1>5. ASSUME NEW p \in Producers, NEW k \in Tasks, TaskAdd_Check(p, k) PROVE OnePlace'
  <2>1. /\ Log' = Log /\ k \in unborn /\ unborn' = unborn \ {k}
        /\ adder'[p] = "push" => adding'[p] = k
        /\ \A q \in Producers \ {p} : adder'[q] = adder[q] /\ adding'[q] = adding[q]
    BY Zenon, <1>0, <1>5 DEF TaskAdd_Check, Log
  <2>2. \A q \in Producers : adder[q] = "push" => adding[q] # k
    BY Zenon, <2>1 DEF PoolInv, Carrying
  <2>3. QED
    BY ZenonT(60), <2>1, <2>2 DEF OnePlace
<1>6. ASSUME NEW t \in Threads, Get_Take(t) PROVE OnePlace'
  BY Zenon, <1>1, <1>6, TakeLog DEF Get_Take, adderVars
<1>7. QED
  BY Zenon, <1>2, <1>3, <1>4, <1>5, <1>6, LogSteps

(* threadpooltask.hpp:50-51 and 83: the pool implements TaskQueue.  Tasks are handed
   out in the order task_add pushed them, each once, none forgotten, while
   threads join and leave the pool. *)
THEOREM Implementation == Spec => ImplementsTaskQueue
<1>1. Init => Q!Init
  BY DEF Init, Q!Init
<1>2. Init => OnePlace
  BY DEF Init, OnePlace, Log
<1>3. PoolInv /\ OnePlace /\ [Next]_vars => [Q!Next]_Q!vars
  <2> SUFFICES ASSUME PoolInv, OnePlace, [Next]_vars PROVE [Q!Next]_Q!vars
    OBVIOUS
  <2>1. CASE UNCHANGED <<taken, tasks>>
    BY Zenon, <2>1 DEF Q!vars
  <2>2. ASSUME NEW p \in Producers, TaskAdd_Push(p) PROVE Q!Next
    <3>1. Log' = Append(Log, adding[p]) /\ adding[p] \in Tasks /\ taken' = taken
      BY Zenon, <2>2, PushLog
    <3>2. \A i \in 1..Len(Log) : Log[i] # adding[p]
      BY Zenon, <2>2 DEF OnePlace, TaskAdd_Push
    <3>3. Q!Add(adding[p])
      BY Zenon, <3>1, <3>2 DEF Q!Add, Log
    <3>4. QED
      BY Zenon, <3>1, <3>3 DEF Q!Next
  <2>3. ASSUME NEW t \in Threads, Get_Take(t) PROVE Q!Next
    BY Zenon, <2>3, TakeLog DEF Q!Next, Q!Take, Log
  <2>4. ASSUME NEW p \in Producers, TaskAdd_Notify(p) \/ \E k \in Tasks : TaskAdd_Check(p, k)
        PROVE  UNCHANGED <<taken, tasks>>
    BY Zenon, <2>4 DEF TaskAdd_Notify, TaskAdd_Check
  <2>5. QED
    BY Zenon, <2>1, <2>2, <2>3, <2>4, LogSteps
<1>4. Inv => PoolInv
  BY Zenon DEF Inv
<1>5. QED
  BY <1>1, <1>2, <1>3, <1>4, Invariance, NextOnePlace, PTL DEF Spec, Q!Spec, ImplementsTaskQueue
==============================================================================
