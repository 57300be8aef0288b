------------------------ MODULE CalcsigServer_proofs -------------------------
(***************************************************************************)
(* The server, for any number of workers, requests, chunks and paths and   *)
(* any set of system calls that may fail.                                  *)
(*                                                                         *)
(* What the server does to its pool and to directories is shown to be what *)
(* ThreadPool98 and Mkdirs describe, so the theorems about those modules   *)
(* hold in it; they are then used, with an invariant about where each task *)
(* and each file is, for the properties of the server itself.              *)
(***************************************************************************)
EXTENDS CalcsigServer, TLAPS

------------------------------------------------------------------------------
(* Where the tasks of the server are and which directories are there when a
   worker needs them; then what the workers have made of each task: its temporary
   file, its signature, what was stored and what was reported. *)

(* The stages in which a worker has a task in its hands. *)
Working == {"tmp_dir", "tmp_mkdirs", "open", "transfer", "sig_dir", "sig_mkdirs",
            "rename", "report", "posted"}

(* Where a thread is in the server says where it is in the pool. *)
Placed ==
  /\ ~is_stopped
  /\ \A w \in Workers :
       /\ stage[w] = "new" <=> pc[w] = "new"
       /\ stage[w] \in {"register", "loop", "exit"} <=> pc[w] = "loop"
       /\ stage[w] = "get" <=> pc[w] \in {"get_lock", "get_test", "wait"}
       /\ stage[w] \in Working <=> pc[w] = "run"
       /\ IF stage[w] \in Working THEN task[w] \in Requests ELSE task[w] = NoTask
  /\ IF main = "adding"
     THEN pc[Main] \in {"add_lock", "add_push"} /\ task[Main] \in Requests
     ELSE pc[Main] = "idle" /\ task[Main] = NoTask

(* A request is not yet a task, or it is in one place: in the hands of one
   thread, once in the queue, or its work has ended. *)
Holders == Workers \cup {Main}

InOnePlace ==
  /\ \A i, j \in 1..Len(task_queue) : task_queue[i] = task_queue[j] => i = j
  /\ \A i \in 1..Len(task_queue) : outcome[task_queue[i]] = "none"
                                   /\ task_queue[i] \notin unborn
                                   /\ \A t \in Holders : task[t] # task_queue[i]
  /\ \A t, u \in Holders : task[t] # NoTask /\ task[t] = task[u] => t = u
  /\ \A t \in Holders : task[t] # NoTask => outcome[task[t]] = "none" /\ task[t] \notin unborn
  /\ \A r \in unborn : outcome[r] = "none"

(* A request that became a task is in one of these places, and the main thread
   answers it only when it has let go of it. *)
NotLost ==
  /\ \A r \in Requests \ unborn :
       \/ Queued(r) # {} \/ outcome[r] # "none"
       \/ \E t \in Holders : task[t] = r
  /\ \A r \in Requests : \/ answer[r] = "parsed"
                         \/ Kind[r] = "calcsig" /\ answer[r] = "0"
                         => r \notin unborn
  /\ main = "adding" => answer[task[Main]] = "parsed"

(* The directory a worker is about to rename into. *)
DirInv ==
  /\ \A w \in Workers : stage[w] = "sig_mkdirs" => path[w] = SigPath[Source[task[w]]]
  /\ \A w \in Workers : stage[w] = "rename" => SigDir(task[w]) \in dirs

------------------------------------------------------------------------------
(* threadpool_98.hpp as the server uses it: every step of the server is a step
   of the pool or leaves the pool alone. *)
THEOREM ServerUsesPool == Spec => UsesPool
<1>1. Init => Pool!Init
  BY Zenon DEF Init
<1>2. [Next]_vars => [Pool!Next]_Pool!vars
  <2> SUFFICES ASSUME [Next]_vars PROVE [Pool!Next]_Pool!vars
    OBVIOUS
  <2>1. CASE UNCHANGED poolVars
    BY Zenon, <2>1 DEF poolVars, Pool!vars
  <2>2. ASSUME NEW w \in Workers,
               \/ Pool!Start(w) \/ Pool!Loop(w) \/ Pool!GetTask_Lock(w)
               \/ Pool!GetTask_Wait(w) \/ Pool!GetTask_Take(w) \/ Pool!SpuriousWake(w)
               \/ Pool!EndRun(w)
        PROVE  Pool!Next
    BY Zenon, <2>2 DEF Pool!Next, Pool!WorkerStep, Pool!GetTask
  <2>3. ASSUME \/ \E r \in Requests : Pool!AddTask_Check(Main, r)
               \/ Pool!AddTask_Lock(Main) \/ Pool!AddTask_Push(Main)
        PROVE  Pool!Next
    BY Zenon, <2>3 DEF Pool!Next, Pool!AddTask
  <2>4. CASE MainStep \/ SpuriousWake
    BY <2>1, <2>2, <2>3, <2>4, Zenon DEF MainStep, SpuriousWake, StartWorker, StartDone, Barrier,
       Listen, AddTask, Reply
  <2>5. ASSUME NEW r \in Requests, Arrival(r) PROVE [Pool!Next]_Pool!vars
    BY Zenon, <2>1, <2>3, <2>5 DEF Arrival, Reject, Accept, Ignore
  <2>6. ASSUME NEW w \in Workers, LocalStep(w) PROVE [Pool!Next]_Pool!vars
    <3>1. CASE Register(w) \/ TmpAccess(w) \/ Mkdirs_Step(w) \/ SigAccess(w)
      BY <2>1, <3>1, Zenon DEF Register, TmpAccess, Mkdirs_Step, SigAccess
    <3>2. CASE Loop(w) \/ GetTask(w)
      BY <2>1, <2>2, <3>2, Zenon DEF Loop, GetTask
    <3>3. CASE TmpMkdirs_Return(w) \/ Open(w) \/ SigMkdirs_Return(w) \/ Rename(w)
      BY <2>1, <2>2, <3>3, Zenon DEF TmpMkdirs_Return, Open, SigMkdirs_Return, Rename, NotMoved, Finish
    <3>4. QED
      BY Zenon, <2>6, <3>1, <3>2, <3>3 DEF LocalStep
  <2>7. ASSUME NEW w \in Workers, NetworkStep(w) PROVE [Pool!Next]_Pool!vars
    BY <2>1, <2>2, <2>7, Zenon DEF NetworkStep, HeadReader, Receive, TransferFails, CalcSig, Post,
       PostReturns, Finish
  <2>8. ASSUME NEW w \in Workers, GetTask_Wake(w) PROVE [Pool!Next]_Pool!vars
    BY Zenon, <2>2, <2>8 DEF GetTask_Wake
  <2>9. CASE AtRest \/ UNCHANGED vars
    BY Zenon, <2>1, <2>9 DEF AtRest, vars
  <2>10. QED
    BY Zenon, <2>4, <2>5, <2>6, <2>7, <2>8, <2>9 DEF Next
<1>3. QED
  BY <1>1, <1>2, PTL DEF Spec, UsesPool, Pool!Spec

------------------------------------------------------------------------------
(* A step of a worker that has a task in its hands. *)
WorkStep(w) == \/ TmpAccess(w) \/ Mkdirs_Step(w) \/ TmpMkdirs_Return(w) \/ Open(w)
               \/ HeadReader(w) \/ Receive(w) \/ TransferFails(w) \/ CalcSig(w)
               \/ SigAccess(w) \/ SigMkdirs_Return(w) \/ Rename(w)
               \/ Post(w) \/ PostReturns(w)

(* It keeps the task, or puts it down with an outcome. *)
Keeps(w) == /\ UNCHANGED <<poolVars, outcome>>
            /\ stage' = stage \/ \E s \in Working : To(w, s)

LEMMA WorkSteps ==
  ASSUME NEW w \in Workers, WorkStep(w)
  PROVE  /\ stage[w] \in Working /\ UNCHANGED <<startVars, main, answer>>
         /\ Keeps(w) \/ \E o \in Outcomes : Finish(w, o)
<1>1. CASE TmpAccess(w) \/ SigAccess(w)
  BY Zenon, <1>1 DEF TmpAccess, SigAccess, Keeps, Working, doneVars, To
<1>2. CASE Mkdirs_Step(w) \/ HeadReader(w) \/ Receive(w)
  BY Zenon, <1>2 DEF Mkdirs_Step, HeadReader, Receive, Keeps, Working, doneVars, workVars
<1>3. CASE TmpMkdirs_Return(w)
  BY Zenon, <1>3 DEF TmpMkdirs_Return, Keeps, Working, Outcomes
<1>4. CASE Open(w)
  BY Zenon, <1>4 DEF Open, Keeps, Working, Outcomes
<1>5. CASE TransferFails(w)
  BY Zenon, <1>5 DEF TransferFails, Working, Outcomes
<1>6. CASE CalcSig(w)
  BY Zenon, <1>6 DEF CalcSig, Keeps, Working, Outcomes
<1>7. CASE SigMkdirs_Return(w)
  BY Zenon, <1>7 DEF SigMkdirs_Return, NotMoved, Keeps, Working, Outcomes
<1>8. CASE Rename(w)
  BY Zenon, <1>8 DEF Rename, NotMoved, Keeps, Working, Outcomes
<1>9. CASE Post(w)
  BY Zenon, <1>9 DEF Post, Keeps, Working, Outcomes
<1>10. CASE PostReturns(w)
  BY Zenon, <1>10 DEF PostReturns, Working, Outcomes
<1>11. QED
  BY <1>1, <1>2, <1>3, <1>4, <1>5, <1>6, <1>7, <1>8, <1>9, <1>10, Zenon DEF WorkStep

(* The main thread outside its event loop, and before it has a task. *)
MainMoves == StartDone \/ Barrier \/ SpuriousWake \/ Listen

LEMMA NextCases ==
  ASSUME [Next]_vars
  PROVE  \/ \E w \in Workers : \/ StartWorker(w) \/ Register(w) \/ Loop(w) \/ GetTask(w)
                               \/ GetTask_Wake(w) \/ WorkStep(w)
         \/ MainMoves \/ AddTask
         \/ \E r \in Requests : Reject(r) \/ Accept(r) \/ Ignore(r) \/ Reply(r)
         \/ UNCHANGED vars
<1>1. ASSUME NEW w \in Workers, LocalStep(w) \/ NetworkStep(w)
      PROVE  Register(w) \/ Loop(w) \/ GetTask(w) \/ WorkStep(w)
  BY <1>1, Zenon DEF LocalStep, NetworkStep, WorkStep
<1>2. QED
  BY <1>1, Zenon DEF Next, MainStep, Arrival, AtRest, MainMoves

------------------------------------------------------------------------------
LEMMA NextPlaced ==
  ASSUME Pool!TypeOK, OwnTypeOK, Placed, [Next]_vars
  PROVE  Placed'
<1> USE ServerAssumption DEF Pool!TypeOK, Pool!Threads, Pool!Goto, Placed, Working, To
<1>0. stage \in [Workers -> Stages]
  BY Zenon DEF OwnTypeOK
<1>1. ASSUME NEW w \in Workers, StartWorker(w) PROVE Placed'
  BY Zenon, <1>0, <1>1 DEF StartWorker, Pool!Start
<1>2. ASSUME NEW w \in Workers, Register(w) PROVE Placed'
  BY Zenon, <1>0, <1>2 DEF Register, poolVars
<1>3. ASSUME NEW w \in Workers, Loop(w) PROVE Placed'
  BY <1>0, <1>3 DEF Loop, Pool!Loop, poolVars
<1>4. ASSUME NEW w \in Workers, GetTask(w) PROVE Placed'
  <2>1. CASE Pool!GetTask_Lock(w) /\ UNCHANGED stage
    BY Zenon, <1>0, <1>4, <2>1 DEF GetTask, Pool!GetTask_Lock
  <2>2. CASE Pool!GetTask_Wait(w) /\ UNCHANGED stage
    BY Zenon, <1>0, <1>4, <2>2 DEF GetTask, Pool!GetTask_Wait
  <2>3. CASE Pool!GetTask_Take(w) /\ To(w, "tmp_dir")
    <3>1. Head(task_queue) \in Requests
      BY <2>3 DEF Pool!GetTask_Take
    <3>2. QED
      BY Zenon, <1>0, <1>4, <2>3, <3>1 DEF GetTask, Pool!GetTask_Take
  <2>4. QED
    BY Zenon, <1>4, <2>1, <2>2, <2>3 DEF GetTask
<1>5. ASSUME NEW w \in Workers, GetTask_Wake(w) PROVE Placed'
  BY Zenon, <1>0, <1>5 DEF GetTask_Wake, Pool!SpuriousWake, workVars
<1>6. ASSUME NEW w \in Workers, WorkStep(w) PROVE Placed'
  <2>1. stage[w] \in Working /\ main' = main
    BY Zenon, <1>6, WorkSteps
  <2>2. CASE Keeps(w)
    BY <1>0, <2>1, <2>2 DEF Keeps, poolVars
  <2>3. ASSUME NEW o \in Outcomes, Finish(w, o) PROVE Placed'
    BY Zenon, <1>0, <2>1, <2>3 DEF Finish, Pool!EndRun
  <2>4. QED
    BY Zenon, <1>6, <2>2, <2>3, WorkSteps
<1>7. CASE MainMoves
  BY <1>7 DEF MainMoves, StartDone, Barrier, SpuriousWake, Listen, poolVars, workVars
<1>8. CASE AddTask
  BY <1>0, <1>8 DEF AddTask, Pool!AddTask_Lock, Pool!AddTask_Push, workVars
<1>9. ASSUME NEW r \in Requests, Accept(r) PROVE Placed'
  BY Zenon, <1>0, <1>9 DEF Accept, Pool!AddTask_Check, workVars
<1>10. ASSUME NEW r \in Requests, Reject(r) \/ Ignore(r) \/ Reply(r) PROVE Placed'
  BY <1>10 DEF Reject, Ignore, Reply, poolVars, workVars
<1>11. CASE UNCHANGED vars
  BY Zenon, <1>11 DEF vars, poolVars, workVars
<1>12. QED
  BY <1>1, <1>2, <1>3, <1>4, <1>5, <1>6, <1>7, <1>8, <1>9, <1>10, <1>11, NextCases, Zenon

(* Steps that move no task. *)
StillTasks == UNCHANGED <<task_queue, task, unborn, outcome>>

LEMMA StillSteps ==
  ASSUME [Next]_vars
  PROVE  \/ StillTasks
         \/ \E w \in Workers : GetTask(w) /\ Pool!GetTask_Take(w) /\ To(w, "tmp_dir")
         \/ \E w \in Workers : WorkStep(w) /\ \E o \in Outcomes : Finish(w, o)
         \/ AddTask /\ Pool!AddTask_Push(Main) /\ main' = "replying"
         \/ \E r \in Requests : Accept(r)
<1>1. ASSUME NEW w \in Workers, StartWorker(w) \/ Register(w) \/ GetTask_Wake(w)
      PROVE  StillTasks
  BY Zenon, <1>1 DEF StartWorker, Register, GetTask_Wake, Pool!Start, Pool!SpuriousWake, poolVars, doneVars,
              workVars, StillTasks
<1>2. ASSUME NEW w \in Workers, Loop(w) PROVE StillTasks
  BY Zenon, <1>2 DEF Loop, Pool!Loop, poolVars, doneVars, StillTasks
<1>3. ASSUME NEW w \in Workers, GetTask(w)
      PROVE  StillTasks \/ (Pool!GetTask_Take(w) /\ To(w, "tmp_dir"))
  <2>1. CASE Pool!GetTask_Lock(w) \/ Pool!GetTask_Wait(w)
    BY Zenon, <1>3, <2>1 DEF GetTask, Pool!GetTask_Lock, Pool!GetTask_Wait, doneVars, StillTasks
  <2>2. QED
    BY <1>3, <2>1, Zenon DEF GetTask
<1>4. ASSUME NEW w \in Workers, WorkStep(w)
      PROVE  StillTasks \/ \E o \in Outcomes : Finish(w, o)
  BY Zenon, <1>4, WorkSteps DEF Keeps, poolVars, StillTasks
<1>5. ASSUME MainMoves \/ UNCHANGED vars PROVE StillTasks
  BY Zenon, <1>5 DEF MainMoves, StartDone, Barrier, SpuriousWake, Listen, vars, poolVars, workVars, doneVars,
              StillTasks
<1>6. ASSUME AddTask PROVE StillTasks \/ (Pool!AddTask_Push(Main) /\ main' = "replying")
  <2>1. CASE Pool!AddTask_Lock(Main)
    BY Zenon, <1>6, <2>1 DEF AddTask, Pool!AddTask_Lock, workVars, doneVars, StillTasks
  <2>2. QED
    BY <1>6, <2>1, Zenon DEF AddTask
<1>7. ASSUME NEW r \in Requests, Reject(r) \/ Ignore(r) \/ Reply(r) PROVE StillTasks
  BY Zenon, <1>7 DEF Reject, Ignore, Reply, poolVars, workVars, doneVars, StillTasks
<1>8. QED
  BY <1>1, <1>2, <1>3, <1>4, <1>5, <1>6, <1>7, NextCases, Zenon

(* The five ways a task moves, and how it leaves one place for the next. *)
LEMMA NextInOnePlace ==
  ASSUME Pool!TypeOK, OwnTypeOK, Placed, InOnePlace, [Next]_vars
  PROVE  InOnePlace'
<1>0. /\ task_queue \in Seq(Requests) /\ task \in [Holders -> Requests \cup {NoTask}]
      /\ unborn \subseteq Requests /\ outcome \in [Requests -> Outcomes \cup {"none"}]
      /\ Main \in Holders /\ NoTask \notin Requests /\ Workers \subseteq Holders
      /\ Len(task_queue) \in Nat /\ \A i \in 1..Len(task_queue) : task_queue[i] \in Requests
  BY ServerAssumption
     DEF Pool!TypeOK, Pool!Threads, OwnTypeOK, Holders
<1>1. CASE StillTasks
  BY Zenon, <1>1 DEF StillTasks, InOnePlace
<1>2. ASSUME NEW w \in Workers, Pool!GetTask_Take(w), GetTask(w) PROVE InOnePlace'
  <2>1. /\ task_queue # <<>> /\ task' = [task EXCEPT ![w] = task_queue[1]]
        /\ task_queue' = Tail(task_queue) /\ UNCHANGED <<unborn, outcome>>
    BY <1>0, <1>2 DEF Pool!GetTask_Take, GetTask, doneVars
  <2>2. /\ Len(task_queue') = Len(task_queue) - 1 /\ 1 \in 1..Len(task_queue)
        /\ \A i \in 1..Len(task_queue') : /\ task_queue'[i] = task_queue[i+1]
                                          /\ i + 1 \in 1..Len(task_queue)
                                          /\ i + 1 # 1
    BY <1>0, <2>1
  <2>3. \A i, j \in 1..Len(task_queue') : task_queue'[i] = task_queue'[j] => i = j
    BY <1>0, <2>2 DEF InOnePlace
  <2>4. \A i \in 1..Len(task_queue') : /\ outcome'[task_queue'[i]] = "none"
                                       /\ task_queue'[i] \notin unborn'
                                       /\ \A t \in Holders : task'[t] # task_queue'[i]
    BY <1>0, <2>1, <2>2 DEF InOnePlace
  <2>5. \A t, u \in Holders : task'[t] # NoTask /\ task'[t] = task'[u] => t = u
    BY Zenon, <1>0, <2>1, <2>2 DEF InOnePlace
  <2>6. \A t \in Holders : task'[t] # NoTask => outcome'[task'[t]] = "none" /\ task'[t] \notin unborn'
    BY Zenon, <1>0, <2>1, <2>2 DEF InOnePlace
  <2>7. QED
    BY Zenon, <2>1, <2>3, <2>4, <2>5, <2>6 DEF InOnePlace, Holders
<1>3. ASSUME NEW w \in Workers, WorkStep(w), NEW o \in Outcomes, Finish(w, o) PROVE InOnePlace'
  <2>1. /\ task[w] \in Requests /\ task' = [task EXCEPT ![w] = NoTask]
        /\ outcome' = [outcome EXCEPT ![task[w]] = o] /\ UNCHANGED <<task_queue, unborn>>
    BY Zenon, <1>3, WorkSteps DEF Placed, Finish, Pool!EndRun
  <2>2. \A i \in 1..Len(task_queue) : task_queue[i] # task[w]
    BY Zenon, <1>0 DEF InOnePlace
  <2>3. \A t \in Holders : t # w => task[t] # task[w]
    BY Zenon, <1>0, <2>1 DEF InOnePlace
  <2>4. task[w] \notin unborn
    BY Zenon, <1>0, <2>1 DEF InOnePlace
  <2>5. QED
    BY <1>0, <2>1, <2>2, <2>3, <2>4 DEF InOnePlace, Holders
<1>4. ASSUME AddTask, Pool!AddTask_Push(Main) PROVE InOnePlace'
  <2>1. /\ task[Main] \in Requests /\ task' = [task EXCEPT ![Main] = NoTask]
        /\ task_queue' = Append(task_queue, task[Main]) /\ UNCHANGED <<unborn, outcome>>
    BY Zenon, <1>4 DEF AddTask, Placed, Pool!AddTask_Push, workVars, doneVars
  <2>2. /\ Len(task_queue') = Len(task_queue) + 1
        /\ \A i \in 1..Len(task_queue') :
             \/ i \in 1..Len(task_queue) /\ task_queue'[i] = task_queue[i]
             \/ i = Len(task_queue) + 1 /\ task_queue'[i] = task[Main]
    BY <1>0, <2>1
  <2>3. \A i \in 1..Len(task_queue) : task_queue[i] # task[Main]
    BY Zenon, <1>0 DEF InOnePlace
  <2>4. \A i, j \in 1..Len(task_queue') : task_queue'[i] = task_queue'[j] => i = j
    BY <2>2, <2>3 DEF InOnePlace
  <2>5. \A i \in 1..Len(task_queue') : /\ outcome'[task_queue'[i]] = "none"
                                       /\ task_queue'[i] \notin unborn'
                                       /\ \A t \in Holders : task'[t] # task_queue'[i]
    BY <1>0, <2>1, <2>2 DEF InOnePlace
  <2>6. QED
    BY Zenon, <1>0, <2>1, <2>4, <2>5 DEF InOnePlace, Holders
<1>5. ASSUME NEW r \in Requests, Accept(r) PROVE InOnePlace'
  <2>1. /\ r \in unborn /\ unborn' = unborn \ {r} /\ task' = [task EXCEPT ![Main] = r]
        /\ UNCHANGED <<task_queue, outcome>>
    BY Zenon, <1>5 DEF Accept, Placed, Pool!AddTask_Check, workVars, doneVars
  <2>2. QED
    BY <1>0, <2>1 DEF InOnePlace, Holders
<1>6. QED
  BY <1>1, <1>2, <1>3, <1>4, <1>5, StillSteps, Zenon

LEMMA NextNotLost ==
  ASSUME Pool!TypeOK, OwnTypeOK, Placed, NotLost, [Next]_vars
  PROVE  NotLost'
<1> DEFINE Somewhere(r) == \/ Queued(r) # {} \/ outcome[r] # "none"
                           \/ \E t \in Holders : task[t] = r
           Answered(r) == answer[r] = "parsed" \/ (Kind[r] = "calcsig" /\ answer[r] = "0")
<1>0. /\ task_queue \in Seq(Requests) /\ task \in [Holders -> Requests \cup {NoTask}]
      /\ unborn \subseteq Requests /\ outcome \in [Requests -> Outcomes \cup {"none"}]
      /\ Main \in Holders /\ NoTask \notin Requests /\ Workers \subseteq Holders
      /\ answer \in [Requests -> {"pending", "parsed", "silent", "0", "-1"}]
      /\ Len(task_queue) \in Nat
  BY ServerAssumption DEF Pool!TypeOK, Pool!Threads, OwnTypeOK, Holders
<1>1. \A r \in Requests \ unborn' : Somewhere(r)'
  <2>1. CASE StillTasks
    BY Zenon, <2>1 DEF StillTasks, NotLost, Queued, Holders
  <2>2. ASSUME NEW w \in Workers, Pool!GetTask_Take(w), GetTask(w)
        PROVE  \A r \in Requests \ unborn' : Somewhere(r)'
    <3>1. /\ task_queue # <<>> /\ task' = [task EXCEPT ![w] = task_queue[1]]
          /\ task_queue' = Tail(task_queue) /\ UNCHANGED <<unborn, outcome>>
          /\ task[w] = NoTask
      BY <1>0, <2>2 DEF Pool!GetTask_Take, GetTask, doneVars, Placed, Working
    <3>2. /\ Len(task_queue') = Len(task_queue) - 1
          /\ \A i \in 1..Len(task_queue') : task_queue'[i] = task_queue[i+1]
      BY <1>0, <3>1
    <3>3. ASSUME NEW r \in Requests, Queued(r) # {} PROVE Somewhere(r)'
      <4>1. PICK i \in 1..Len(task_queue) : task_queue[i] = r
        BY Zenon, <3>3 DEF Queued
      <4>2. CASE i = 1
        BY Zenon, <1>0, <3>1, <4>1, <4>2 DEF Holders
      <4>3. CASE i # 1
        <5>1. i - 1 \in 1..Len(task_queue') /\ task_queue'[i-1] = r
          BY <1>0, <3>2, <4>1, <4>3
        <5>2. QED
          BY Zenon, <5>1 DEF Queued
      <4>4. QED
        BY Zenon, <4>2, <4>3
    <3>4. ASSUME NEW r \in Requests, NEW t \in Holders, task[t] = r PROVE Somewhere(r)'
      BY Zenon, <1>0, <3>1, <3>4 DEF Holders
    <3>5. QED
      BY Zenon, <3>1, <3>3, <3>4 DEF NotLost
  <2>3. ASSUME NEW w \in Workers, WorkStep(w), NEW o \in Outcomes, Finish(w, o)
        PROVE  \A r \in Requests \ unborn' : Somewhere(r)'
    <3>1. /\ task[w] \in Requests /\ task' = [task EXCEPT ![w] = NoTask]
          /\ outcome' = [outcome EXCEPT ![task[w]] = o] /\ UNCHANGED <<task_queue, unborn>>
      BY Zenon, <2>3, WorkSteps DEF Placed, Finish, Pool!EndRun
    <3>2. o # "none"
      BY Zenon DEF Outcomes
    <3>3. QED
      BY <1>0, <3>1, <3>2 DEF NotLost, Queued, Holders
  <2>4. ASSUME AddTask, Pool!AddTask_Push(Main)
        PROVE  \A r \in Requests \ unborn' : Somewhere(r)'
    <3>1. /\ task[Main] \in Requests /\ task' = [task EXCEPT ![Main] = NoTask]
          /\ task_queue' = Append(task_queue, task[Main]) /\ UNCHANGED <<unborn, outcome>>
      BY Zenon, <2>4 DEF AddTask, Placed, Pool!AddTask_Push, workVars, doneVars
    <3>2. /\ Len(task_queue') = Len(task_queue) + 1
          /\ \A i \in 1..Len(task_queue) : task_queue'[i] = task_queue[i]
          /\ task_queue'[Len(task_queue) + 1] = task[Main]
      BY <1>0, <3>1
    <3>3. \A r \in Requests : Queued(r) \subseteq Queued(r)'
      BY <1>0, <3>2 DEF Queued
    <3>4. ASSUME NEW r \in Requests, r = task[Main] PROVE Queued(r)' # {}
      <4>1. Len(task_queue) + 1 \in 1..Len(task_queue')
        BY <1>0, <3>2
      <4>2. QED
        BY Zenon, <3>2, <3>4, <4>1 DEF Queued
    <3>5. QED
      BY Zenon, <1>0, <3>1, <3>3, <3>4 DEF NotLost, Holders
  <2>5. ASSUME NEW k \in Requests, Accept(k)
        PROVE  \A r \in Requests \ unborn' : Somewhere(r)'
    <3>1. /\ unborn' = unborn \ {k} /\ task' = [task EXCEPT ![Main] = k] /\ task[Main] = NoTask
          /\ UNCHANGED <<task_queue, outcome>>
      BY Zenon, <2>5 DEF Accept, Placed, Pool!AddTask_Check, workVars, doneVars
    <3>2. QED
      BY <1>0, <3>1 DEF NotLost, Queued, Holders
  <2>6. QED
    BY <2>1, <2>2, <2>3, <2>4, <2>5, StillSteps, Zenon
<1>2. ASSUME NEW r \in Requests, Answered(r)' PROVE r \notin unborn'
  <2>1. CASE answer' = answer /\ unborn' = unborn
    BY Zenon, <1>2, <2>1 DEF NotLost
  <2>2. ASSUME NEW k \in Requests, Accept(k) PROVE r \notin unborn'
    BY Zenon, <1>0, <1>2, <2>2 DEF Accept, NotLost, Pool!AddTask_Check
  <2>3. ASSUME NEW k \in Requests, Reject(k) \/ Ignore(k) PROVE r \notin unborn'
    BY Zenon, <1>0, <1>2, <2>3 DEF Reject, Ignore, NotLost, poolVars
  <2>4. ASSUME NEW k \in Requests, Reply(k) PROVE r \notin unborn'
    BY Zenon, <1>0, <1>2, <2>4 DEF Reply, NotLost, poolVars
  <2>5. ASSUME ~ \E k \in Requests : Accept(k) \/ Reject(k) \/ Ignore(k) \/ Reply(k)
        PROVE  answer' = answer /\ unborn' = unborn
    <3>1. ASSUME NEW w \in Workers, StartWorker(w) \/ Register(w) \/ Loop(w) \/ GetTask_Wake(w)
          PROVE  answer' = answer /\ unborn' = unborn
      BY Zenon, <3>1 DEF StartWorker, Register, Loop, GetTask_Wake, Pool!Start, Pool!Loop,
                  Pool!SpuriousWake, poolVars
    <3>2. ASSUME NEW w \in Workers, GetTask(w) PROVE answer' = answer /\ unborn' = unborn
      BY Zenon, <3>2 DEF GetTask, Pool!GetTask_Lock, Pool!GetTask_Wait, Pool!GetTask_Take
    <3>3. ASSUME NEW w \in Workers, WorkStep(w) PROVE answer' = answer /\ unborn' = unborn
      BY Zenon, <3>3, WorkSteps DEF Keeps, Finish, Pool!EndRun, poolVars
    <3>4. ASSUME MainMoves \/ UNCHANGED vars PROVE answer' = answer /\ unborn' = unborn
      BY Zenon, <3>4 DEF MainMoves, StartDone, Barrier, SpuriousWake, Listen, vars, poolVars
    <3>5. ASSUME AddTask PROVE answer' = answer /\ unborn' = unborn
      BY Zenon, <3>5 DEF AddTask, Pool!AddTask_Lock, Pool!AddTask_Push
    <3>6. QED
      BY <2>5, <3>1, <3>2, <3>3, <3>4, <3>5, NextCases, Zenon
  <2>6. QED
    BY Zenon, <2>1, <2>2, <2>3, <2>4, <2>5
<1>3. main' = "adding" => answer'[task'[Main]] = "parsed"
  <2> SUFFICES ASSUME main' = "adding" PROVE answer'[task'[Main]] = "parsed"
    OBVIOUS
  <2>1. CASE main = "adding" /\ answer' = answer /\ task'[Main] = task[Main]
    BY Zenon, <2>1 DEF NotLost
  <2>2. ASSUME NEW k \in Requests, Accept(k) PROVE answer'[task'[Main]] = "parsed"
    BY Zenon, <1>0, <2>2 DEF Accept, Placed, Pool!AddTask_Check
  <2>3. ASSUME NEW w \in Workers, StartWorker(w) \/ Register(w) \/ Loop(w) \/ GetTask_Wake(w)
        PROVE  main = "adding" /\ answer' = answer /\ task'[Main] = task[Main]
    BY Zenon, <2>3 DEF StartWorker, Register, Loop, GetTask_Wake, Pool!Start, Pool!Loop,
                Pool!SpuriousWake, poolVars
  <2>4. ASSUME NEW w \in Workers, GetTask(w)
        PROVE  main = "adding" /\ answer' = answer /\ task'[Main] = task[Main]
    BY Zenon, <1>0, <2>4, ServerAssumption DEF GetTask, Pool!GetTask_Lock, Pool!GetTask_Wait, Pool!GetTask_Take
  <2>5. ASSUME NEW w \in Workers, WorkStep(w)
        PROVE  main = "adding" /\ answer' = answer /\ task'[Main] = task[Main]
    BY Zenon, <1>0, <2>5, WorkSteps, ServerAssumption DEF Keeps, Finish, Pool!EndRun, poolVars
  <2>6. ASSUME UNCHANGED vars
        PROVE  main = "adding" /\ answer' = answer /\ task'[Main] = task[Main]
    BY Zenon, <2>6 DEF vars, poolVars
  <2>7. ASSUME AddTask
        PROVE  main = "adding" /\ answer' = answer /\ task'[Main] = task[Main]
    BY Zenon, <2>7 DEF AddTask, Pool!AddTask_Lock
  <2>8. ~MainMoves
    BY Zenon DEF MainMoves, StartDone, Barrier, SpuriousWake, Listen
  <2>9. ASSUME NEW k \in Requests, Reject(k) \/ Ignore(k) \/ Reply(k) PROVE FALSE
    BY Zenon, <2>9 DEF Reject, Ignore, Reply
  <2>10. QED
    BY <2>1, <2>2, <2>3, <2>4, <2>5, <2>6, <2>7, <2>8, <2>9, NextCases, Zenon
<1>4. QED
  BY Zenon, <1>1, <1>2, <1>3 DEF NotLost

(* A worker with a task keeps it and its stage while other threads move. *)
LEMMA OtherWorkers ==
  ASSUME Pool!TypeOK, OwnTypeOK, Placed, [Next]_vars, NEW v \in Workers, stage[v] \in Working
  PROVE  \/ WorkStep(v)
         \/ task'[v] = task[v] /\ stage'[v] = stage[v]
<1>0. /\ stage \in [Workers -> Stages] /\ task \in [Holders -> Requests \cup {NoTask}]
      /\ v \in Holders /\ v # Main
  BY Zenon, ServerAssumption DEF OwnTypeOK, Pool!TypeOK, Pool!Threads, Holders
<1> USE DEF To
<1>1. ASSUME NEW w \in Workers, StartWorker(w) \/ Register(w) \/ Loop(w) \/ GetTask_Wake(w)
      PROVE  task'[v] = task[v] /\ stage'[v] = stage[v]
  <2>1. task' = task
    BY Zenon, <1>1 DEF StartWorker, Register, Loop, GetTask_Wake, Pool!Start, Pool!Loop, Pool!SpuriousWake,
                poolVars
  <2>2. v # w
    BY Zenon, <1>1 DEF StartWorker, Register, Loop, GetTask_Wake, Pool!Start, Placed, Working
  <2>3. QED
    BY Zenon, <1>0, <1>1, <2>1, <2>2 DEF StartWorker, Register, Loop, GetTask_Wake, workVars
<1>2. ASSUME NEW w \in Workers, GetTask(w) PROVE task'[v] = task[v] /\ stage'[v] = stage[v]
  <2>1. v # w
    BY Zenon, <1>2 DEF GetTask, Working
  <2>2. QED
    BY Zenon, <1>0, <1>2, <2>1 DEF GetTask, Pool!GetTask_Lock, Pool!GetTask_Wait, Pool!GetTask_Take
<1>3. ASSUME NEW w \in Workers, w # v, WorkStep(w) PROVE task'[v] = task[v] /\ stage'[v] = stage[v]
  BY Zenon, <1>0, <1>3, WorkSteps DEF Keeps, Finish, Pool!EndRun, poolVars
<1>4. ASSUME MainMoves \/ UNCHANGED vars PROVE task'[v] = task[v] /\ stage'[v] = stage[v]
  BY Zenon, <1>4 DEF MainMoves, StartDone, Barrier, SpuriousWake, Listen, vars, poolVars, workVars
<1>5. ASSUME AddTask PROVE task'[v] = task[v] /\ stage'[v] = stage[v]
  BY Zenon, <1>0, <1>5 DEF AddTask, Pool!AddTask_Lock, Pool!AddTask_Push, workVars
<1>6. ASSUME NEW r \in Requests, Reject(r) \/ Accept(r) \/ Ignore(r) \/ Reply(r)
      PROVE  task'[v] = task[v] /\ stage'[v] = stage[v]
  BY Zenon, <1>0, <1>6 DEF Reject, Accept, Ignore, Reply, Pool!AddTask_Check, poolVars, workVars
<1>7. QED
  BY <1>1, <1>2, <1>3, <1>4, <1>5, <1>6, NextCases, Zenon

------------------------------------------------------------------------------
(* Directories stay, and a worker that is about to rename has its target's. *)
LEMMA NextDir ==
  ASSUME Pool!TypeOK, Mk!TypeOK, Mk!ZeroMeansMade, OwnTypeOK, Placed, DirInv, [Next]_vars
  PROVE  DirInv'
<1> DEFINE Fits(v) == /\ stage[v] = "sig_mkdirs" => path[v] = SigPath[Source[task[v]]]
                      /\ stage[v] = "rename" => SigDir(task[v]) \in dirs
<1>0. /\ stage \in [Workers -> Stages] /\ path \in [Workers -> AskedPaths]
  BY Zenon DEF OwnTypeOK, Mk!TypeOK
<1> USE DEF To
<1>1. dirs \subseteq dirs' /\ \A v \in Workers : path'[v] = path[v] \/ TmpAccess(v) \/ SigAccess(v)
  <2>1. ASSUME NEW w \in Workers, Mk!Step(w) PROVE path' = path /\ dirs \subseteq dirs'
    BY Zenon, <2>1 DEF Mk!Step, Mk!Descend, Mk!Mkdir, Mk!MkdirFails
  <2>2. ASSUME NEW w \in Workers, Mk!Return(w) PROVE path' = path /\ dirs \subseteq dirs'
    BY Zenon, <2>2 DEF Mk!Return
  <2>3. ASSUME NEW w \in Workers, TmpAccess(w) \/ SigAccess(w) PROVE <1>1
    BY Zenon, <1>0, <2>3 DEF TmpAccess, SigAccess, Mk!Call, mkVars
  <2>4. ASSUME NEW w \in Workers, WorkStep(w) PROVE <1>1
    BY Zenon, <2>1, <2>2, <2>3, <2>4 DEF WorkStep, Mkdirs_Step, TmpMkdirs_Return, SigMkdirs_Return,
       PostReturns, Open, HeadReader, Receive, TransferFails, CalcSig, Rename, Post, mkVars
  <2>5. ASSUME NEW w \in Workers, \/ StartWorker(w) \/ Register(w) \/ Loop(w) \/ GetTask(w)
                                  \/ GetTask_Wake(w)
        PROVE  <1>1
    BY Zenon, <2>5 DEF StartWorker, Register, Loop, GetTask, GetTask_Wake, mkVars
  <2>6. ASSUME MainMoves \/ AddTask \/ UNCHANGED vars PROVE <1>1
    BY Zenon, <2>6 DEF MainMoves, StartDone, Barrier, SpuriousWake, Listen, AddTask, vars, mkVars
  <2>7. ASSUME NEW r \in Requests, Reject(r) \/ Accept(r) \/ Ignore(r) \/ Reply(r) PROVE <1>1
    BY Zenon, <2>7 DEF Reject, Accept, Ignore, Reply, mkVars
  <2>8. QED
    BY <2>4, <2>5, <2>6, <2>7, NextCases, Zenon
<1>2. ASSUME NEW v \in Workers, WorkStep(v) PROVE Fits(v)'
  <2>0. stage[v] \in Working /\ task[v] \in Requests
    BY Zenon, <1>2, WorkSteps DEF Placed
  <2>1. CASE SigAccess(v)
    <3>1. task' = task
      BY Zenon, <2>1 DEF SigAccess, poolVars
    <3>2. CASE SigDir(task[v]) \in dirs
      <4>1. stage'[v] = "rename" /\ dirs' = dirs
        BY Zenon, <1>0, <2>1, <3>2 DEF SigAccess, mkVars
      <4>2. QED
        BY Zenon, <3>1, <3>2, <4>1 DEF SigDir
    <3>3. CASE SigDir(task[v]) \notin dirs
      <4>1. stage'[v] = "sig_mkdirs" /\ path'[v] = SigPath[Source[task[v]]]
        BY Zenon, <1>0, <2>1, <3>3 DEF SigAccess, Mk!Call
      <4>2. QED
        BY Zenon, <3>1, <4>1
    <3>4. QED
      BY Zenon, <3>2, <3>3
  <2>2. CASE SigMkdirs_Return(v)
    <3>1. CASE call[v] = "ok"
      <4>1. path[v][Len(path[v])] \in dirs /\ path[v] = SigPath[Source[task[v]]]
        BY Zenon, <2>2, <3>1 DEF Mk!ZeroMeansMade, DirInv, SigMkdirs_Return
      <4>2. UNCHANGED <<task, dirs>> /\ stage'[v] = "rename"
        BY Zenon, <1>0, <2>2, <3>1 DEF SigMkdirs_Return, Mk!Return, poolVars
      <4>3. QED
        BY Zenon, <4>1, <4>2 DEF SigDir
    <3>2. CASE call[v] # "ok"
      BY Zenon, <1>0, <2>2, <3>2 DEF SigMkdirs_Return, NotMoved, Finish
    <3>3. QED
      BY Zenon, <3>1, <3>2
  <2>3. CASE Mkdirs_Step(v)
    <3>1. UNCHANGED <<task, stage>> /\ path'[v] = path[v]
      BY Zenon, <1>1, <2>3 DEF Mkdirs_Step, poolVars, workVars, TmpAccess, SigAccess
    <3>2. QED
      BY Zenon, <1>1, <2>3, <3>1 DEF Mkdirs_Step, DirInv
  <2>4. CASE /\ ~SigAccess(v) /\ ~SigMkdirs_Return(v) /\ ~Mkdirs_Step(v)
    <3>1. stage'[v] \notin {"sig_mkdirs", "rename"}
      BY Zenon, <1>0, <1>2, <2>4 DEF WorkStep, TmpAccess, TmpMkdirs_Return, Open, HeadReader, Receive,
         TransferFails, CalcSig, Rename, NotMoved, Post, PostReturns, Finish
    <3>2. QED
      BY Zenon, <3>1
  <2>5. QED
    BY Zenon, <2>1, <2>2, <2>3, <2>4
<1>3. ASSUME NEW v \in Workers, stage[v] \in Working, ~WorkStep(v) PROVE Fits(v)'
  <2>1. task'[v] = task[v] /\ stage'[v] = stage[v] /\ path'[v] = path[v]
    BY Zenon, <1>1, <1>3, OtherWorkers DEF WorkStep
  <2>2. QED
    BY Zenon, <1>1, <2>1 DEF DirInv, SigDir
<1>4. ASSUME NEW v \in Workers, stage[v] \notin Working PROVE stage'[v] \notin {"sig_mkdirs", "rename"}
  <2>1. ASSUME NEW w \in Workers, WorkStep(w) PROVE stage'[v] = stage[v]
    BY Zenon, <1>0, <1>4, <2>1, WorkSteps DEF Keeps, Finish
  <2>2. ASSUME NEW w \in Workers, \/ StartWorker(w) \/ Register(w) \/ Loop(w) \/ GetTask(w)
                                  \/ GetTask_Wake(w)
        PROVE  stage'[v] = stage[v] \/ stage'[v] \notin {"sig_mkdirs", "rename"}
    BY Zenon, <1>0, <2>2 DEF StartWorker, Register, Loop, GetTask, GetTask_Wake, workVars
  <2>3. ASSUME MainMoves \/ AddTask \/ UNCHANGED vars PROVE stage'[v] = stage[v]
    BY Zenon, <2>3 DEF MainMoves, StartDone, Barrier, SpuriousWake, Listen, AddTask, vars, workVars
  <2>4. ASSUME NEW r \in Requests, Reject(r) \/ Accept(r) \/ Ignore(r) \/ Reply(r)
        PROVE  stage'[v] = stage[v]
    BY Zenon, <2>4 DEF Reject, Accept, Ignore, Reply, workVars
  <2>5. stage'[v] = stage[v] \/ stage'[v] \notin {"sig_mkdirs", "rename"}
    BY <2>1, <2>2, <2>3, <2>4, NextCases, Zenon
  <2>6. QED
    BY Zenon, <1>4, <2>5 DEF Working
<1>5. \A v \in Workers : Fits(v)'
  BY Zenon, <1>2, <1>3, <1>4
<1>6. QED
  BY Zenon, <1>5 DEF DirInv

------------------------------------------------------------------------------

(* No work was done for r. *)
Untouched(r) == tmp[r] = NoFile /\ sent[r] = {} /\ r \notin told

(* A task is untouched until a worker holds it; then its temporary file, the
   signature and the size that the worker has agree at every stage. *)
SizeIsTold(w) == task[w] \in told => length[w] = Chunks

InHand(w) ==
  /\ stage[w] \in {"tmp_dir", "tmp_mkdirs", "open"} => Untouched(task[w])
  /\ stage[w] = "transfer" =>
       /\ sent[task[w]] = {} /\ SizeIsTold(w)
       /\ "write" \notin Faults => tmp[task[w]] \in {NoFile, 1..got[w]}
  /\ stage[w] \in {"sig_dir", "sig_mkdirs", "rename"} =>
       /\ sent[task[w]] = {} /\ SizeIsTold(w)
       /\ tmp[task[w]] # NoFile /\ sig[w] = <<Source[task[w]], tmp[task[w]]>>
       /\ "write" \notin Faults => tmp[task[w]] = 1..Chunks
  /\ stage[w] \in {"report", "posted"} =>
       /\ sent[task[w]] \subseteq {<<sig[w], length[w]>>} /\ SizeIsTold(w)
       /\ tmp[task[w]] = NoFile /\ sig[w] \in stored /\ sig[w][1] = Source[task[w]]

FilesInv ==
  /\ \A r \in Requests :
       outcome[r] = "none" /\ (\A w \in Workers : task[w] # r) => Untouched(r)
  /\ \A w \in Workers : InHand(w)

------------------------------------------------------------------------------
(* What a step of w leaves alone: what the other workers have, and what
   belongs to other tasks than its own. *)
OnlyOwn(w) ==
  /\ \A v \in Workers \ {w} : /\ stage'[v] = stage[v] /\ task'[v] = task[v]
                              /\ got'[v] = got[v] /\ length'[v] = length[v] /\ sig'[v] = sig[v]
  /\ \A r \in Requests \ {task[w]} : /\ tmp'[r] = tmp[r] /\ sent'[r] = sent[r]
                                     /\ outcome'[r] = outcome[r] /\ (r \in told' <=> r \in told)
  /\ stored \subseteq stored'

(* So it is enough to look at w and its task: it goes on, or has ended. *)

(* So it is enough to look at w and its task: it goes on, or has ended. *)
LEMMA FilesFrame ==
  ASSUME OwnTypeOK, Placed, InOnePlace, FilesInv, NEW w \in Workers, stage[w] \in Working,
         OnlyOwn(w),
         \/ task'[w] = task[w] /\ InHand(w)'
         \/ stage'[w] = "loop" /\ outcome'[task[w]] # "none"
  PROVE  FilesInv'
<1>1. ASSUME NEW v \in Workers, v # w PROVE InHand(v)'
  <2>1. CASE stage[v] \notin Working
    BY Zenon, <1>1, <2>1 DEF OnlyOwn, InHand, Working
  <2>2. CASE stage[v] \in Working
    <3>1. task[v] \in Requests \ {task[w]}
      BY <1>1, <2>2, ServerAssumption DEF Placed, InOnePlace, Holders
    <3>2. InHand(v)
      BY Zenon DEF FilesInv
    <3>3. QED
      BY Zenon, <1>1, <3>1, <3>2 DEF OnlyOwn, InHand, SizeIsTold, Untouched
  <2>3. QED
    BY Zenon, <2>1, <2>2
<1>2. InHand(w)'
  BY Zenon DEF InHand
<1>3. ASSUME NEW r \in Requests, outcome'[r] = "none", \A v \in Workers : task'[v] # r
      PROVE  Untouched(r)'
  <2>1. r # task[w]
    BY Zenon, <1>3
  <2>2. outcome[r] = "none" /\ \A v \in Workers : task[v] # r
    BY Zenon, <1>3, <2>1 DEF OnlyOwn
  <2>3. Untouched(r)
    BY Zenon, <2>2 DEF FilesInv
  <2>4. QED
    BY Zenon, <2>1, <2>3 DEF OnlyOwn, Untouched
<1>4. QED
  BY <1>1, <1>2, <1>3, Zenon DEF FilesInv

(* A step that ends the work on the task of w leaves the rest alone. *)
LEMMA FinishFrame ==
  ASSUME Pool!TypeOK, OwnTypeOK, Placed,
         NEW w \in Workers, stage[w] \in Working,
         NEW o \in Outcomes, Finish(w, o), UNCHANGED <<got, length, sig, told, stored>>,
         \A r \in Requests \ {task[w]} : tmp'[r] = tmp[r] /\ sent'[r] = sent[r]
  PROVE  OnlyOwn(w) /\ stage'[w] = "loop" /\ outcome'[task[w]] # "none"
<1>1. task[w] \in Requests /\ o # "none"
  BY Zenon DEF Placed, Outcomes
<1>2. OnlyOwn(w)
  BY Zenon DEF OnlyOwn, Finish, Pool!EndRun, To, OwnTypeOK, Pool!TypeOK, Pool!Threads
<1>3. QED
  BY Zenon, <1>1, <1>2 DEF Finish, To, OwnTypeOK

LEMMA WorkFiles ==
  ASSUME Pool!TypeOK, OwnTypeOK, Placed, InOnePlace, FilesInv,
         NEW w \in Workers, WorkStep(w)
  PROVE  FilesInv'
<1> DEFINE GoesOn == task'[w] = task[w] /\ InHand(w)'
           Ended == stage'[w] = "loop" /\ outcome'[task[w]] # "none"
<1>0. /\ stage[w] \in Working /\ task[w] \in Requests /\ InHand(w)
      /\ stage \in [Workers -> Stages] /\ got \in [Workers -> 0..Chunks]
      /\ length \in [Workers -> {0, Chunks, OtherSize}] /\ sig \in [Workers -> {NoFile} \cup Files]
      /\ tmp \in [Requests -> {NoFile} \cup SUBSET (1..Chunks)]
      /\ sent \in [Requests -> SUBSET (Files \X {0, Chunks, OtherSize})]
  BY Zenon, WorkSteps DEF Placed, FilesInv, OwnTypeOK
<1> SUFFICES OnlyOwn(w) /\ (GoesOn \/ Ended)
  BY Zenon, <1>0, FilesFrame
<1> USE DEF To
<1>1. CASE TmpAccess(w) \/ Mkdirs_Step(w)
  BY Zenon, <1>0, <1>1 DEF TmpAccess, Mkdirs_Step, OnlyOwn, InHand, SizeIsTold, Untouched, fileVars, headVars,
     doneVars, workVars, poolVars
<1>2. CASE TmpMkdirs_Return(w)
  <2>1. CASE call[w] = "ok"
    BY Zenon, <1>0, <1>2, <2>1 DEF TmpMkdirs_Return, OnlyOwn, InHand, Untouched, fileVars, headVars, poolVars
  <2>2. CASE call[w] # "ok"
    BY Zenon, <1>0, <1>2, <2>2, FinishFrame DEF TmpMkdirs_Return, fileVars, headVars, Outcomes
  <2>3. QED
    BY <2>1, <2>2, Zenon
<1>3. CASE Open(w)
  <2>1. CASE To(w, "transfer") /\ UNCHANGED <<poolVars, outcome>>
    <3>1. OnlyOwn(w) /\ task'[w] = task[w]
      BY Zenon, <1>0, <1>3, <2>1 DEF Open, OnlyOwn, poolVars
    <3>2. /\ stage'[w] = "transfer" /\ sent'[task[w]] = {} /\ task[w] \notin told' /\ got'[w] = 0
          /\ tmp'[task[w]] \in {NoFile, {}}
      BY Zenon, <1>0, <1>3, <2>1 DEF Open, InHand, Untouched
    <3>3. 1..0 = {}
      OBVIOUS
    <3>4. QED
      BY Zenon, <3>1, <3>2, <3>3 DEF InHand, SizeIsTold
  <2>2. CASE Finish(w, "no_curl")
    <3>1. OnlyOwn(w)
      BY Zenon, <1>0, <1>3, <2>2 DEF Open, Finish, Pool!EndRun, Pool!TypeOK, Pool!Threads, OnlyOwn, OwnTypeOK
    <3>2. QED
      BY Zenon, <1>0, <2>2, <3>1 DEF Finish, OwnTypeOK
  <2>3. QED
    BY <1>3, <2>1, <2>2, Zenon DEF Open
<1>4. CASE HeadReader(w)
  <2>1. OnlyOwn(w) /\ task'[w] = task[w]
    BY Zenon, <1>0, <1>4 DEF HeadReader, OnlyOwn, doneVars, poolVars
  <2>2. SizeIsTold(w)'
    BY <1>0, <1>4, <2>1 DEF HeadReader, SizeIsTold
  <2>3. QED
    BY Zenon, <1>0, <1>4, <2>1, <2>2 DEF HeadReader, InHand, doneVars
<1>5. CASE Receive(w)
  <2>1. OnlyOwn(w) /\ task'[w] = task[w]
    BY Zenon, <1>0, <1>5 DEF Receive, OnlyOwn, doneVars, headVars, poolVars
  <2>2. SizeIsTold(w)'
    BY Zenon, <1>0, <1>5, <2>1 DEF Receive, SizeIsTold, headVars, InHand
  <2>3. "write" \notin Faults => tmp'[task'[w]] \in {NoFile, 1..got'[w]}
    <3>1. SUFFICES ASSUME "write" \notin Faults PROVE tmp'[task[w]] \in {NoFile, 1..got'[w]}
      BY Zenon, <2>1
    <3>2. tmp'[task[w]] = IF tmp[task[w]] = NoFile THEN NoFile ELSE tmp[task[w]] \cup {got[w] + 1}
      BY Zenon, <1>0, <1>5, <3>1 DEF Receive, Written
    <3>3. tmp[task[w]] \in {NoFile, 1..got[w]} /\ got'[w] = got[w] + 1 /\ got[w] \in Nat
      BY <1>0, <1>5, <3>1, ServerAssumption DEF Receive, InHand
    <3>4. (1..got[w]) \cup {got[w] + 1} = 1..(got[w] + 1)
      BY <3>3
    <3>5. QED
      BY Zenon, <3>2, <3>3, <3>4
  <2>4. QED
    BY Zenon, <1>0, <1>5, <2>1, <2>2, <2>3 DEF Receive, InHand, doneVars
<1>6. CASE TransferFails(w)
  BY Zenon, <1>0, <1>6, FinishFrame DEF TransferFails, headVars, Outcomes
<1>7. CASE CalcSig(w)
  <2>1. CASE To(w, "sig_dir") /\ UNCHANGED <<poolVars, outcome>>
    <3>1. /\ tmp[task[w]] # NoFile /\ got[w] = Chunks
          /\ sig' = [sig EXCEPT ![w] = <<Source[task[w]], tmp[task[w]]>>]
      BY Zenon, <1>0, <1>7, <2>1, ServerAssumption DEF CalcSig, Finish
    <3>2. OnlyOwn(w) /\ task'[w] = task[w]
      BY Zenon, <1>0, <1>7, <2>1, <3>1 DEF CalcSig, OnlyOwn, headVars, poolVars
    <3>3. QED
      BY Zenon, <1>0, <1>7, <2>1, <3>1, <3>2 DEF CalcSig, InHand, SizeIsTold, headVars, poolVars
  <2>2. CASE Finish(w, "no_sig") /\ UNCHANGED sig
    BY Zenon, <1>0, <1>7, <2>2, FinishFrame DEF CalcSig, headVars, Outcomes
  <2>3. QED
    BY <1>7, <2>1, <2>2, Zenon DEF CalcSig
<1>8. CASE SigAccess(w)
  BY Zenon, <1>0, <1>8 DEF SigAccess, OnlyOwn, InHand, SizeIsTold, fileVars, headVars, doneVars, poolVars
<1>9. CASE SigMkdirs_Return(w)
  <2>1. CASE call[w] = "ok"
    BY Zenon, <1>0, <1>9, <2>1 DEF SigMkdirs_Return, OnlyOwn, InHand, SizeIsTold, fileVars, headVars, poolVars
  <2>2. CASE call[w] # "ok"
    BY Zenon, <1>0, <1>9, <2>2, FinishFrame DEF SigMkdirs_Return, NotMoved, fileVars, headVars, Outcomes
  <2>3. QED
    BY <2>1, <2>2, Zenon
<1>10. CASE Rename(w)
  <2>1. CASE /\ stored' = stored \cup {<<Source[task[w]], tmp[task[w]]>>}
             /\ tmp' = [tmp EXCEPT ![task[w]] = NoFile]
             /\ To(w, "report") /\ UNCHANGED <<poolVars, outcome>>
    <3>1. OnlyOwn(w) /\ task'[w] = task[w]
      BY Zenon, <1>0, <1>10, <2>1 DEF Rename, OnlyOwn, headVars, poolVars
    <3>2. /\ UNCHANGED <<sig, length, told, sent>> /\ stage'[w] = "report"
          /\ tmp'[task[w]] = NoFile /\ stage[w] = "rename"
      BY Zenon, <1>0, <1>10, <2>1 DEF Rename, headVars
    <3>3. sent[task[w]] = {} /\ SizeIsTold(w) /\ sig[w] = <<Source[task[w]], tmp[task[w]]>>
      BY Zenon, <1>0, <3>2 DEF InHand
    <3>4. sig[w] \in stored' /\ sig[w][1] = Source[task[w]]
      BY <2>1, <3>3
    <3>5. QED
      BY Zenon, <3>1, <3>2, <3>3, <3>4 DEF InHand, SizeIsTold
  <2>2. CASE NotMoved(w) /\ UNCHANGED <<tmp, stored>>
    BY Zenon, <1>0, <1>10, <2>2, FinishFrame DEF Rename, NotMoved, headVars, Outcomes
  <2>3. QED
    BY <1>10, <2>1, <2>2, Zenon DEF Rename
<1>11. CASE Post(w)
  <2>1. CASE To(w, "posted") /\ UNCHANGED <<poolVars, outcome>>
    <3>1. \/ sent' = [sent EXCEPT ![task[w]] = @ \cup {<<sig[w], length[w]>>}]
          \/ sent' = sent
      BY Zenon, <1>11, <2>1 DEF Post
    <3>2. OnlyOwn(w) /\ task'[w] = task[w]
      BY Zenon, <1>0, <1>11, <2>1, <3>1 DEF Post, OnlyOwn, fileVars, headVars, poolVars
    <3>3. sent'[task[w]] \subseteq {<<sig[w], length[w]>>}
      BY Zenon, <1>0, <1>11, <3>1 DEF Post, InHand
    <3>4. UNCHANGED <<sig, length, told, tmp, stored>> /\ stage'[w] = "posted"
      BY Zenon, <1>0, <1>11, <2>1 DEF Post, fileVars, headVars
    <3>5. QED
      BY Zenon, <1>0, <1>11, <3>2, <3>3, <3>4 DEF Post, InHand, SizeIsTold
  <2>2. CASE Finish(w, "no_callback") /\ UNCHANGED sent
    BY Zenon, <1>0, <1>11, <2>2, FinishFrame DEF Post, fileVars, headVars, Outcomes
  <2>3. QED
    BY <1>11, <2>1, <2>2, Zenon DEF Post
<1>12. CASE PostReturns(w)
  BY Zenon, <1>0, <1>12, FinishFrame DEF PostReturns, fileVars, headVars, Outcomes
<1>13. QED
  BY <1>1, <1>2, <1>3, <1>4, <1>5, <1>6, <1>7, <1>8, <1>9, <1>10, <1>11, <1>12, Zenon DEF WorkStep

(* Steps of threads that have no task do not touch files. *)
LEMMA IdleSteps ==
  ASSUME [Next]_vars
  PROVE  \/ \E w \in Workers : WorkStep(w)
         \/ UNCHANGED <<fileVars, doneVars>>
<1>1. ASSUME NEW w \in Workers, StartWorker(w) \/ Register(w) \/ Loop(w) \/ GetTask(w) \/ GetTask_Wake(w)
      PROVE  UNCHANGED <<fileVars, doneVars>>
  BY Zenon, <1>1 DEF StartWorker, Register, Loop, GetTask, GetTask_Wake, workVars
<1>2. ASSUME MainMoves \/ AddTask \/ UNCHANGED vars PROVE UNCHANGED <<fileVars, doneVars>>
  BY Zenon, <1>2 DEF MainMoves, StartDone, Barrier, SpuriousWake, Listen, AddTask, workVars, vars
<1>3. ASSUME NEW r \in Requests, Reject(r) \/ Accept(r) \/ Ignore(r) \/ Reply(r)
      PROVE  UNCHANGED <<fileVars, doneVars>>
  BY Zenon, <1>3 DEF Reject, Accept, Ignore, Reply, workVars
<1>4. QED
  BY <1>1, <1>2, <1>3, NextCases, Zenon

LEMMA NextFiles ==
  ASSUME Pool!TypeOK, OwnTypeOK, Placed, InOnePlace, FilesInv, [Next]_vars
  PROVE  FilesInv'
<1>1. ASSUME NEW w \in Workers, WorkStep(w) PROVE FilesInv'
  BY Zenon, <1>1, WorkFiles
<1>2. ASSUME UNCHANGED <<fileVars, doneVars>>,
             \A v \in Workers : /\ task'[v] = task[v]
                                /\ stage'[v] = stage[v] \/ stage'[v] \notin Working
      PROVE  FilesInv'
  <2>1. UNCHANGED <<got, length, told, sig, tmp, stored, sent, outcome>>
    BY Zenon, <1>2 DEF fileVars, headVars, doneVars
  <2>2. \A v \in Workers : InHand(v)'
    BY Zenon, <1>2, <2>1 DEF FilesInv, InHand, SizeIsTold, Untouched, Working
  <2>3. \A r \in Requests :
          outcome'[r] = "none" /\ (\A w \in Workers : task'[w] # r) => Untouched(r)'
    BY Zenon, <1>2, <2>1 DEF FilesInv, Untouched
  <2>4. QED
    BY Zenon, <2>2, <2>3 DEF FilesInv
<1>3. /\ stage \in [Workers -> Stages] /\ task \in [Holders -> Requests \cup {NoTask}]
      /\ task_queue \in Seq(Requests) /\ outcome \in [Requests -> Outcomes \cup {"none"}]
      /\ Main \notin Workers
  BY Zenon, ServerAssumption DEF OwnTypeOK, Pool!TypeOK, Pool!Threads, Holders
<1> USE DEF To
<1>4. ASSUME NEW w \in Workers, StartWorker(w) \/ Register(w) \/ Loop(w) PROVE FilesInv'
  <2>1. UNCHANGED <<task, fileVars, doneVars>>
    BY Zenon, <1>4 DEF StartWorker, Register, Loop, Pool!Start, Pool!Loop, poolVars
  <2>2. \A v \in Workers : stage'[v] = stage[v] \/ stage'[v] \notin Working
    BY Zenon, <1>3, <1>4 DEF StartWorker, Register, Loop, Working
  <2>3. QED
    BY Zenon, <1>2, <2>1, <2>2
<1>5. ASSUME NEW w \in Workers, GetTask_Wake(w) PROVE FilesInv'
  BY Zenon, <1>2, <1>5 DEF GetTask_Wake, Pool!SpuriousWake, workVars
<1>6. ASSUME NEW w \in Workers, GetTask(w) PROVE FilesInv'
  <2>1. CASE Pool!GetTask_Lock(w) /\ UNCHANGED stage
    BY Zenon, <1>2, <1>6, <2>1 DEF GetTask, Pool!GetTask_Lock
  <2>2. CASE Pool!GetTask_Wait(w) /\ UNCHANGED stage
    BY Zenon, <1>2, <1>6, <2>2 DEF GetTask, Pool!GetTask_Wait
  <2>3. CASE Pool!GetTask_Take(w) /\ To(w, "tmp_dir")
    <3>1. /\ task_queue # <<>> /\ task' = [task EXCEPT ![w] = task_queue[1]]
          /\ stage' = [stage EXCEPT ![w] = "tmp_dir"]
          /\ UNCHANGED <<got, length, told, sig, tmp, stored, sent, outcome>>
          /\ task[w] = NoTask
      BY <1>3, <1>6, <2>3
         DEF GetTask, Pool!GetTask_Take, fileVars, headVars, doneVars, Placed, Working
    <3>2. 1 \in 1..Len(task_queue) /\ task_queue[1] \in Requests
      BY <1>3, <3>1
    <3>3. Untouched(task_queue[1])
      BY Zenon, <3>2 DEF InOnePlace, FilesInv, Holders
    <3>4. InHand(w)'
      BY Zenon, <1>3, <3>1, <3>3 DEF InHand, Untouched, Holders
    <3>5. ASSUME NEW v \in Workers \ {w} PROVE InHand(v)'
      <4>1. task'[v] = task[v] /\ stage'[v] = stage[v] /\ InHand(v)
        BY <1>3, <3>1 DEF FilesInv
      <4>2. QED
        BY <3>1, <4>1 DEF InHand, SizeIsTold, Untouched
    <3>6. \A r \in Requests :
            outcome'[r] = "none" /\ (\A v \in Workers : task'[v] # r) => Untouched(r)'
      <4>1. \A r \in Requests : (\A v \in Workers : task'[v] # r) => \A v \in Workers : task[v] # r
        BY Zenon, <1>3, <3>1, ServerAssumption DEF Holders
      <4>2. QED
        BY Zenon, <3>1, <4>1 DEF FilesInv, Untouched
    <3>7. QED
      BY Zenon, <3>4, <3>5, <3>6 DEF FilesInv
  <2>4. QED
    BY Zenon, <1>6, <2>1, <2>2, <2>3 DEF GetTask
<1>7. CASE MainMoves \/ UNCHANGED vars
  BY Zenon, <1>2, <1>7 DEF MainMoves, StartDone, Barrier, SpuriousWake, Listen, vars, poolVars, workVars
<1>8. CASE AddTask
  <2>1. \A v \in Workers : task'[v] = task[v]
    BY Zenon, <1>3, <1>8 DEF AddTask, Pool!AddTask_Lock, Pool!AddTask_Push, Holders
  <2>2. QED
    BY Zenon, <1>2, <1>8, <2>1 DEF AddTask, workVars
<1>9. ASSUME NEW r \in Requests, Accept(r) PROVE FilesInv'
  <2>1. \A v \in Workers : task'[v] = task[v]
    BY Zenon, <1>3, <1>9 DEF Accept, Pool!AddTask_Check, Holders
  <2>2. QED
    BY Zenon, <1>2, <1>9, <2>1 DEF Accept, workVars
<1>10. ASSUME NEW r \in Requests, Reject(r) \/ Ignore(r) \/ Reply(r) PROVE FilesInv'
  BY Zenon, <1>2, <1>10 DEF Reject, Ignore, Reply, poolVars, workVars
<1>11. QED
  BY <1>1, <1>4, <1>5, <1>6, <1>7, <1>8, <1>9, <1>10, NextCases, Zenon

------------------------------------------------------------------------------
(* What a worker does to the files of other tasks: nothing.  What is reported
   changes in one place, and there the file is not touched any more. *)
LEMMA WorkOwn ==
  ASSUME OwnTypeOK, Placed, NEW w \in Workers, WorkStep(w)
  PROVE  /\ \A r \in Requests \ {task[w]} :
              tmp'[r] = tmp[r] /\ sent'[r] = sent[r] /\ (r \in told' <=> r \in told)
         /\ stored \subseteq stored'
         /\ stage[w] # "report" => sent' = sent
         /\ stage[w] \in {"report", "posted"} => UNCHANGED <<tmp, told, stored>>
         /\ stage[w] = "report" => \/ sent' = sent
                                   \/ sent' = [sent EXCEPT ![task[w]] = @ \cup {<<sig[w], length[w]>>}]
<1>0. /\ task[w] \in Requests /\ tmp \in [Requests -> {NoFile} \cup SUBSET (1..Chunks)]
      /\ sent \in [Requests -> SUBSET (Files \X {0, Chunks, OtherSize})]
  BY Zenon, WorkSteps DEF Placed, OwnTypeOK
<1> USE DEF fileVars, headVars, doneVars, workVars
<1>1. CASE TmpAccess(w) \/ SigAccess(w) \/ Mkdirs_Step(w)
  BY Zenon, <1>1 DEF TmpAccess, SigAccess, Mkdirs_Step
<1>2. CASE TmpMkdirs_Return(w) \/ SigMkdirs_Return(w) \/ PostReturns(w)
  BY Zenon, <1>2 DEF TmpMkdirs_Return, SigMkdirs_Return, PostReturns
<1>3. CASE Open(w)
  BY Zenon, <1>0, <1>3 DEF Open
<1>4. CASE HeadReader(w)
  BY Zenon, <1>0, <1>4 DEF HeadReader
<1>5. CASE Receive(w)
  BY Zenon, <1>0, <1>5 DEF Receive
<1>6. CASE TransferFails(w)
  BY Zenon, <1>0, <1>6 DEF TransferFails
<1>7. CASE CalcSig(w)
  BY Zenon, <1>0, <1>7 DEF CalcSig
<1>8. CASE Rename(w)
  BY Zenon, <1>0, <1>8 DEF Rename
<1>9. CASE Post(w)
  BY Zenon, <1>0, <1>9 DEF Post
<1>10. QED
  BY <1>1, <1>2, <1>3, <1>4, <1>5, <1>6, <1>7, <1>8, <1>9, Zenon DEF WorkStep

LEMMA NextReported ==
  ASSUME OwnTypeOK, Placed, FilesInv, ReportedIsStored, [Next]_vars
  PROVE  ReportedIsStored'
<1>1. CASE UNCHANGED <<fileVars, doneVars>>
  BY Zenon, <1>1 DEF ReportedIsStored, fileVars, headVars, doneVars
<1>2. ASSUME NEW w \in Workers, WorkStep(w), NEW r \in Requests, NEW x \in sent'[r]
      PROVE  /\ x[1] \in stored' /\ x[1][1] = Source[r] /\ tmp'[r] = NoFile
             /\ r \in told' => x[2] = Chunks
  <2>0. stage[w] \in Working /\ InHand(w) /\ task[w] \in Requests
    BY Zenon, <1>2, WorkSteps DEF FilesInv, Placed
  <2>1. CASE r # task[w]
    <3>1. x \in sent[r] /\ tmp'[r] = tmp[r] /\ (r \in told' <=> r \in told) /\ stored \subseteq stored'
      BY Zenon, <1>2, <2>1, WorkOwn
    <3>2. QED
      BY Zenon, <3>1 DEF ReportedIsStored
  <2>2. CASE r = task[w] /\ stage[w] \notin {"report", "posted"}
    <3>1. sent[r] = {}
      BY Zenon, <2>0, <2>2 DEF InHand, Untouched, Working
    <3>2. sent'[r] = {}
      BY Zenon, <1>2, <2>2, <3>1, WorkOwn
    <3>3. QED
      BY Zenon, <1>2, <3>2
  <2>3. CASE r = task[w] /\ stage[w] \in {"report", "posted"}
    <3>1. /\ sent[r] \subseteq {<<sig[w], length[w]>>} /\ (r \in told => length[w] = Chunks)
          /\ tmp[r] = NoFile /\ sig[w] \in stored /\ sig[w][1] = Source[r]
      BY Zenon, <2>0, <2>3 DEF InHand, SizeIsTold
    <3>2. UNCHANGED <<tmp, told, stored>>
      BY Zenon, <1>2, <2>3, WorkOwn
    <3>3. \/ sent' = sent
          \/ sent' = [sent EXCEPT ![task[w]] = @ \cup {<<sig[w], length[w]>>}]
      BY Zenon, <1>2, <2>3, WorkOwn
    <3>4. sent'[r] \subseteq {<<sig[w], length[w]>>}
      BY Zenon, <2>3, <3>1, <3>3 DEF OwnTypeOK
    <3>5. x = <<sig[w], length[w]>>
      BY Zenon, <1>2, <3>4
    <3>6. QED
      BY Zenon, <3>1, <3>2, <3>5
  <2>4. QED
    BY Zenon, <2>1, <2>2, <2>3
<1>3. QED
  BY Zenon, <1>1, <1>2, IdleSteps DEF ReportedIsStored

(* A step of the worker that holds r leaves a temporary file only where it may. *)
LEMMA WorkTmp ==
  ASSUME Pool!TypeOK, OwnTypeOK, Placed, FilesInv, NEW w \in Workers, WorkStep(w),
         tmp'[task[w]] # NoFile
  PROVE  \/ /\ task'[w] = task[w]
            /\ stage'[w] \in {"transfer", "sig_dir", "sig_mkdirs", "rename"}
         \/ outcome'[task[w]] \in {"no_curl", "no_sig", "not_moved"}
<1>0. /\ stage[w] \in Working /\ task[w] \in Requests /\ InHand(w)
      /\ stage \in [Workers -> Stages] /\ outcome \in [Requests -> Outcomes \cup {"none"}]
      /\ tmp \in [Requests -> {NoFile} \cup SUBSET (1..Chunks)]
  BY Zenon, WorkSteps DEF Placed, FilesInv, OwnTypeOK
<1> USE DEF To, fileVars, headVars, workVars, poolVars
<1>1. CASE TmpAccess(w) \/ TmpMkdirs_Return(w)
  BY Zenon, <1>0, <1>1 DEF TmpAccess, TmpMkdirs_Return, InHand, Untouched
<1>2. CASE Mkdirs_Step(w)
  BY Zenon, <1>0, <1>2 DEF Mkdirs_Step, InHand, Untouched
<1>3. CASE Open(w)
  BY Zenon, <1>0, <1>3 DEF Open, Finish
<1>4. CASE HeadReader(w) \/ Receive(w)
  BY Zenon, <1>0, <1>4 DEF HeadReader, Receive
<1>5. CASE TransferFails(w)
  BY Zenon, <1>0, <1>5 DEF TransferFails
<1>6. CASE CalcSig(w)
  BY Zenon, <1>0, <1>6 DEF CalcSig, Finish
<1>7. CASE SigAccess(w)
  BY Zenon, <1>0, <1>7 DEF SigAccess
<1>8. CASE SigMkdirs_Return(w)
  BY Zenon, <1>0, <1>8 DEF SigMkdirs_Return, NotMoved, Finish
<1>9. CASE Rename(w)
  BY Zenon, <1>0, <1>9 DEF Rename, NotMoved, Finish
<1>10. CASE Post(w) \/ PostReturns(w)
  BY Zenon, <1>0, <1>10 DEF Post, PostReturns, InHand
<1>11. QED
  BY <1>1, <1>2, <1>3, <1>4, <1>5, <1>6, <1>7, <1>8, <1>9, <1>10, Zenon DEF WorkStep

LEMMA NextTmpFiles ==
  ASSUME Pool!TypeOK, OwnTypeOK, Placed, InOnePlace, FilesInv, TmpFilesAccounted, [Next]_vars
  PROVE  TmpFilesAccounted'
<1> DEFINE Later == {"transfer", "sig_dir", "sig_mkdirs", "rename"}
           Left == {"no_curl", "no_sig", "not_moved"}
<1> SUFFICES ASSUME NEW r \in Requests, tmp'[r] # NoFile
             PROVE  \/ \E v \in Workers : task'[v] = r /\ stage'[v] \in Later
                    \/ outcome'[r] \in Left
  BY Zenon DEF TmpFilesAccounted, InProgress
<1>1. CASE \E w \in Workers : WorkStep(w) /\ task[w] = r
  BY Zenon, <1>1, WorkTmp
<1>2. CASE ~ \E w \in Workers : WorkStep(w) /\ task[w] = r
  <2>1. tmp'[r] = tmp[r]
    BY Zenon, <1>2, IdleSteps, WorkOwn DEF fileVars
  <2>2. outcome'[r] = outcome[r]
    <3>1. ASSUME NEW w \in Workers, WorkStep(w) PROVE outcome'[r] = outcome[r]
      BY Zenon, <1>2, <3>1, WorkSteps DEF Keeps, Finish, OwnTypeOK
    <3>2. QED
      BY Zenon, <3>1, IdleSteps DEF doneVars
  <2>3. ASSUME NEW v \in Workers, task[v] = r, stage[v] \in Later
        PROVE  task'[v] = r /\ stage'[v] \in Later
    <3>1. stage[v] \in Working
      BY Zenon, <2>3 DEF Working
    <3>2. QED
      BY Zenon, <1>2, <2>3, <3>1, OtherWorkers
  <2>4. QED
    BY Zenon, <2>1, <2>2, <2>3 DEF TmpFilesAccounted, InProgress
<1>3. QED
  BY Zenon, <1>1, <1>2

(* Only complete files are stored when no write fails. *)
Complete == "write" \notin Faults => \A f \in stored : f[2] = 1..Chunks

LEMMA NextComplete ==
  ASSUME OwnTypeOK, Placed, FilesInv, Complete, [Next]_vars
  PROVE  Complete'
<1>1. stored' = stored \/ \E w \in Workers : /\ stage[w] = "rename" /\ InHand(w)
                                             /\ stored' = stored \cup {<<Source[task[w]], tmp[task[w]]>>}
  <2>1. ASSUME NEW w \in Workers, WorkStep(w) PROVE stored' = stored \/ Rename(w)
    BY Zenon, <2>1 DEF WorkStep, TmpAccess, SigAccess, Mkdirs_Step, TmpMkdirs_Return, SigMkdirs_Return,
                PostReturns, Open, HeadReader, Receive, TransferFails, CalcSig, Post, fileVars, workVars
  <2>2. QED
    BY Zenon, <2>1, IdleSteps DEF Rename, FilesInv, fileVars
<1>2. QED
  BY <1>1 DEF Complete, InHand


(* Workers that have registered are counted. *)
Registered == {w \in Workers : stage[w] \notin {"new", "register"}}
Counted == init_count = Cardinality(Registered)

------------------------------------------------------------------------------
(* The types of what workers write. *)
WorkTypes == /\ stage \in [Workers -> Stages]
             /\ got \in [Workers -> 0..Chunks]
             /\ sig \in [Workers -> {NoFile} \cup Files]
             /\ tmp \in [Requests -> {NoFile} \cup SUBSET (1..Chunks)]
             /\ stored \in SUBSET Files
             /\ length \in [Workers -> {0, Chunks, OtherSize}] /\ told \subseteq Requests
             /\ sent \in [Requests -> SUBSET (Files \X {0, Chunks, OtherSize})]
             /\ outcome \in [Requests -> Outcomes \cup {"none"}]

LEMMA WorkStepTypes ==
  ASSUME WorkTypes, Placed, FilesInv, NEW w \in Workers, WorkStep(w)
  PROVE  WorkTypes'
<1>0. stage[w] \in Working /\ task[w] \in Requests /\ InHand(w) /\ Chunks \in Nat \ {0}
  BY Zenon, WorkSteps, ServerAssumption DEF Placed, FilesInv
<1>1. stage' \in [Workers -> Stages] /\ outcome' \in [Requests -> Outcomes \cup {"none"}]
  BY Zenon, <1>0, WorkSteps DEF Keeps, Finish, To, WorkTypes, Working, Stages
<1> USE DEF WorkTypes, fileVars, headVars, doneVars, workVars
<1>2. CASE TmpAccess(w) \/ SigAccess(w) \/ Mkdirs_Step(w)
  BY Zenon, <1>1, <1>2 DEF TmpAccess, SigAccess, Mkdirs_Step
<1>3. CASE TmpMkdirs_Return(w) \/ SigMkdirs_Return(w) \/ PostReturns(w)
  BY Zenon, <1>1, <1>3 DEF TmpMkdirs_Return, SigMkdirs_Return, PostReturns
<1>4. CASE Open(w)
  BY <1>0, <1>1, <1>4 DEF Open
<1>5. CASE HeadReader(w)
  BY Zenon, <1>0, <1>1, <1>5 DEF HeadReader
<1>6. CASE Receive(w)
  <2>1. /\ got' = [got EXCEPT ![w] = got[w] + 1] /\ got[w] + 1 \in 1..Chunks
        /\ UNCHANGED <<sig, stored, length, told, sent>>
    BY <1>0, <1>6 DEF Receive
  <2>2. PICK f \in Written(tmp[task[w]], got[w] + 1) : tmp' = [tmp EXCEPT ![task[w]] = f]
    BY Zenon, <1>6 DEF Receive
  <2>3. f \in {NoFile} \cup SUBSET (1..Chunks)
    <3>1. tmp[task[w]] \in {NoFile} \cup SUBSET (1..Chunks)
      BY Zenon, <1>0
    <3>2. QED
      BY Zenon, <2>1, <2>2, <3>1 DEF Written
  <2>4. QED
    BY <1>0, <1>1, <2>1, <2>2, <2>3
<1>7. CASE TransferFails(w)
  BY Zenon, <1>0, <1>1, <1>7 DEF TransferFails
<1>8. CASE CalcSig(w)
  <2>1. UNCHANGED <<got, tmp, stored, length, told, sent>>
    BY Zenon, <1>8 DEF CalcSig
  <2>2. \/ sig' = sig
        \/ tmp[task[w]] # NoFile /\ sig' = [sig EXCEPT ![w] = <<Source[task[w]], tmp[task[w]]>>]
    BY Zenon, <1>8 DEF CalcSig
  <2>3. tmp[task[w]] # NoFile => <<Source[task[w]], tmp[task[w]]>> \in Files
    BY Zenon, <1>0 DEF Files
  <2>4. QED
    BY Zenon, <1>1, <2>1, <2>2, <2>3
<1>9. CASE Rename(w)
  <2>1. UNCHANGED <<got, sig, length, told, sent>>
    BY Zenon, <1>9 DEF Rename
  <2>2. \/ UNCHANGED <<tmp, stored>>
        \/ /\ stored' = stored \cup {<<Source[task[w]], tmp[task[w]]>>}
           /\ tmp' = [tmp EXCEPT ![task[w]] = NoFile]
    BY Zenon, <1>9 DEF Rename
  <2>3. <<Source[task[w]], tmp[task[w]]>> \in Files
    BY Zenon, <1>0, <1>9 DEF Rename, InHand, Files
  <2>4. QED
    BY Zenon, <1>0, <1>1, <2>1, <2>2, <2>3
<1>10. CASE Post(w)
  <2>1. UNCHANGED <<got, sig, tmp, stored, length, told>>
    BY Zenon, <1>10 DEF Post
  <2>2. \/ sent' = [sent EXCEPT ![task[w]] = @ \cup {<<sig[w], length[w]>>}]
        \/ sent' = sent
    BY Zenon, <1>10 DEF Post
  <2>3. sig[w] \in Files /\ length[w] \in {0, Chunks, OtherSize}
    BY Zenon, <1>0, <1>10 DEF Post, InHand
  <2>4. QED
    BY <1>0, <1>1, <2>1, <2>2, <2>3
<1>11. QED
  BY <1>2, <1>3, <1>4, <1>5, <1>6, <1>7, <1>8, <1>9, <1>10, Zenon DEF WorkStep

LEMMA NextOwnType ==
  ASSUME Pool!TypeOK, OwnTypeOK, Placed, FilesInv, [Next]_vars,
         init_count' \in 0..Cardinality(Workers)
  PROVE  OwnTypeOK'
<1>2. WorkTypes
  BY Zenon DEF OwnTypeOK, WorkTypes
<1>3. WorkTypes'
  <2>1. ASSUME NEW w \in Workers, WorkStep(w) PROVE WorkTypes'
    BY Zenon, <1>2, <2>1, WorkStepTypes
  <2>2. CASE UNCHANGED <<fileVars, doneVars>>
    <3>1. UNCHANGED <<got, length, told, sig, tmp, stored, sent, outcome>>
      BY Zenon, <2>2 DEF fileVars, headVars, doneVars
    <3>2. stage' = stage \/ \E w \in Workers, s \in Stages : stage' = [stage EXCEPT ![w] = s]
      <4>1. ASSUME NEW w \in Workers, \/ StartWorker(w) \/ Register(w) \/ Loop(w) \/ GetTask(w)
                                      \/ GetTask_Wake(w)
            PROVE  stage' = stage \/ \E s \in Stages : stage' = [stage EXCEPT ![w] = s]
        BY Zenon, <4>1 DEF StartWorker, Register, Loop, GetTask, GetTask_Wake, To, Stages, workVars
      <4>2. ASSUME NEW w \in Workers, WorkStep(w)
            PROVE  stage' = stage \/ \E s \in Stages : stage' = [stage EXCEPT ![w] = s]
        BY Zenon, <4>2, WorkSteps DEF Keeps, Finish, To, Working, Stages
      <4>3. ASSUME MainMoves \/ AddTask \/ UNCHANGED vars PROVE stage' = stage
        BY Zenon, <4>3 DEF MainMoves, StartDone, Barrier, SpuriousWake, Listen, AddTask, vars, workVars
      <4>4. ASSUME NEW r \in Requests, Reject(r) \/ Accept(r) \/ Ignore(r) \/ Reply(r)
            PROVE  stage' = stage
        BY Zenon, <4>4 DEF Reject, Accept, Ignore, Reply, workVars
      <4>5. QED
        BY <4>1, <4>2, <4>3, <4>4, NextCases, Zenon
    <3>3. QED
      BY Zenon, <1>2, <3>1, <3>2 DEF WorkTypes
  <2>3. QED
    BY Zenon, <2>1, <2>2, IdleSteps
<1>4. /\ isstop' = isstop
      /\ main' \in {"start", "barrier", "waiting", "listen", "serving", "adding",
                    "replying", "returned"}
      /\ answer' \in [Requests -> {"pending", "parsed", "silent", "0", "-1"}]
  <2> USE DEF OwnTypeOK
  <2>1. ASSUME NEW w \in Workers, StartWorker(w) \/ Loop(w) \/ GetTask(w) \/ GetTask_Wake(w)
        PROVE  UNCHANGED <<isstop, main, answer>>
    BY Zenon, <2>1 DEF StartWorker, Loop, GetTask, GetTask_Wake, startVars
  <2>2. ASSUME NEW w \in Workers, WorkStep(w) PROVE UNCHANGED <<isstop, main, answer>>
    BY Zenon, <2>2, WorkSteps DEF startVars
  <2>3. ASSUME NEW w \in Workers, Register(w) PROVE <1>4!2 /\ UNCHANGED <<isstop, answer>>
    BY Zenon, <2>3 DEF Register
  <2>4. ASSUME MainMoves \/ AddTask PROVE <1>4!2 /\ UNCHANGED <<isstop, answer>>
    BY Zenon, <2>4 DEF MainMoves, StartDone, Barrier, SpuriousWake, Listen, AddTask, startVars
  <2>5. ASSUME NEW r \in Requests, Reject(r) \/ Accept(r) \/ Ignore(r) \/ Reply(r)
        PROVE  <1>4!2 /\ <1>4!3 /\ isstop' = isstop
    BY Zenon, <2>5 DEF Reject, Accept, Ignore, Reply, startVars
  <2>6. ASSUME UNCHANGED vars PROVE UNCHANGED <<isstop, main, answer>>
    BY Zenon, <2>6 DEF vars, startVars
  <2>7. QED
    BY Zenon, <2>1, <2>2, <2>3, <2>4, <2>5, <2>6, NextCases
<1>5. QED
  BY Zenon, <1>3, <1>4 DEF OwnTypeOK, WorkTypes

------------------------------------------------------------------------------
LEMMA NextServes ==
  ASSUME OwnTypeOK, ServesWhenReady, [Next]_vars,
         init_count' \in 0..Cardinality(Workers), init_count' >= init_count
  PROVE  ServesWhenReady'
<1> DEFINE Ready == {"listen", "serving", "adding", "replying"}
<1>1. /\ init_count' >= init_count /\ init_count \in Int /\ init_count' \in Int
      /\ threadnum \in Int
  BY ServerAssumption DEF OwnTypeOK
<1>2. main' \in Ready => main \in Ready \/ init_count >= threadnum
  <2>1. ASSUME NEW w \in Workers, StartWorker(w) \/ Loop(w) \/ GetTask(w) \/ GetTask_Wake(w)
        PROVE  main' = main
    BY Zenon, <2>1 DEF StartWorker, Loop, GetTask, GetTask_Wake
  <2>2. ASSUME NEW w \in Workers, WorkStep(w) PROVE main' = main
    BY Zenon, <2>2, WorkSteps
  <2>3. ASSUME NEW w \in Workers, Register(w) PROVE <1>2
    BY Zenon, <2>3 DEF Register
  <2>4. ASSUME MainMoves \/ AddTask PROVE <1>2
    BY <1>1, <2>4 DEF MainMoves, StartDone, Barrier, SpuriousWake, Listen, AddTask
  <2>5. ASSUME NEW r \in Requests, Reject(r) \/ Accept(r) \/ Ignore(r) \/ Reply(r) PROVE <1>2
    BY Zenon, <2>5 DEF Reject, Accept, Ignore, Reply
  <2>6. ASSUME UNCHANGED vars PROVE main' = main
    BY Zenon, <2>6 DEF vars
  <2>7. QED
    BY Zenon, <2>1, <2>2, <2>3, <2>4, <2>5, <2>6, NextCases
<1>3. QED
  BY <1>1, <1>2 DEF ServesWhenReady

------------------------------------------------------------------------------
(* Facts about cardinalities, for what is counted. *)
INSTANCE FiniteSetTheorems

(* The workers that have registered are counted. *)
LEMMA NextCounted ==
  ASSUME OwnTypeOK, Placed, Counted, [Next]_vars
  PROVE  Counted' /\ init_count' \in 0..Cardinality(Workers) /\ init_count' >= init_count
<1>0. /\ IsFiniteSet(Workers) /\ stage \in [Workers -> Stages] /\ init_count \in Nat
      /\ IsFiniteSet(Registered) /\ IsFiniteSet(Registered') /\ Cardinality(Workers) \in Nat
      /\ Cardinality(Registered') \in 0..Cardinality(Workers)
  <2>1. Registered \subseteq Workers /\ Registered' \subseteq Workers
    BY Zenon DEF Registered
  <2>2. IsFiniteSet(Workers) /\ stage \in [Workers -> Stages]
    BY Zenon, ServerAssumption DEF OwnTypeOK
  <2>3. Cardinality(Workers) \in Nat
    BY Zenon, <2>2, FS_CardinalityType
  <2>4. IsFiniteSet(Registered) /\ IsFiniteSet(Registered') /\ Cardinality(Registered') <= Cardinality(Workers)
    BY Zenon, <2>1, <2>2, FS_Subset
  <2>5. Cardinality(Registered') \in Nat
    BY Zenon, <2>4, FS_CardinalityType
  <2>6. QED
    BY <2>2, <2>3, <2>4, <2>5 DEF OwnTypeOK
<1>1. SUFFICES Counted' /\ init_count' >= init_count
  BY Zenon, <1>0 DEF Counted
<1> USE DEF To
<1>2. ASSUME init_count' = init_count,
             \A v \in Workers : v \in Registered' <=> v \in Registered
      PROVE  Counted' /\ init_count' >= init_count
  <2>1. Registered' = Registered
    BY Zenon, <1>2 DEF Registered
  <2>2. QED
    BY <1>0, <1>2, <2>1 DEF Counted
<1>3. ASSUME NEW w \in Workers, Register(w) PROVE Counted' /\ init_count' >= init_count
  <2>1. init_count' = init_count + 1 /\ Registered' = Registered \cup {w} /\ w \notin Registered
    BY Zenon, <1>0, <1>3 DEF Register, Registered
  <2>2. Cardinality(Registered') = Cardinality(Registered) + 1
    BY Zenon, <1>0, <2>1, FS_AddElement
  <2>3. QED
    BY <1>0, <2>1, <2>2 DEF Counted
<1>4. ASSUME NEW w \in Workers, StartWorker(w) PROVE Counted' /\ init_count' >= init_count
  BY Zenon, <1>0, <1>2, <1>4 DEF StartWorker, Pool!Start, Placed, Registered, startVars
<1>5. ASSUME NEW w \in Workers, Loop(w) \/ GetTask(w) \/ GetTask_Wake(w)
      PROVE  Counted' /\ init_count' >= init_count
  <2>1. init_count' = init_count
    BY Zenon, <1>5 DEF Loop, GetTask, GetTask_Wake, startVars
  <2>2. \A v \in Workers : v \in Registered' <=> v \in Registered
    BY Zenon, <1>0, <1>5 DEF Loop, GetTask, GetTask_Wake, Registered, workVars
  <2>3. QED
    BY Zenon, <1>2, <2>1, <2>2
<1>6. ASSUME NEW w \in Workers, WorkStep(w) PROVE Counted' /\ init_count' >= init_count
  <2>1. init_count' = init_count /\ stage[w] \in Working
    BY Zenon, <1>6, WorkSteps DEF startVars
  <2>2. stage' = stage \/ \E s \in Working \cup {"loop"} : stage' = [stage EXCEPT ![w] = s]
    BY Zenon, <1>6, WorkSteps DEF Keeps, Finish
  <2>3. \A v \in Workers : v \in Registered' <=> v \in Registered
    BY Zenon, <1>0, <2>1, <2>2 DEF Registered, Working
  <2>4. QED
    BY Zenon, <1>2, <2>1, <2>3
<1>7. ASSUME MainMoves \/ AddTask \/ UNCHANGED vars PROVE Counted' /\ init_count' >= init_count
  <2>1. UNCHANGED <<init_count, stage>>
    BY Zenon, <1>7 DEF MainMoves, StartDone, Barrier, SpuriousWake, Listen, AddTask, vars, startVars, workVars
  <2>2. QED
    BY Zenon, <1>2, <2>1 DEF Registered
<1>8. ASSUME NEW r \in Requests, Reject(r) \/ Accept(r) \/ Ignore(r) \/ Reply(r)
      PROVE  Counted' /\ init_count' >= init_count
  <2>1. UNCHANGED <<init_count, stage>>
    BY Zenon, <1>8 DEF Reject, Accept, Ignore, Reply, startVars, workVars
  <2>2. QED
    BY Zenon, <1>2, <2>1 DEF Registered
<1>9. QED
  BY <1>3, <1>4, <1>5, <1>6, <1>7, <1>8, NextCases, Zenon

------------------------------------------------------------------------------
(* The inductive invariant.  Each lemma above gives one of its conjuncts after a
   step, from others before it and the types of the pool. *)
ServerInv == /\ OwnTypeOK /\ Placed /\ Counted /\ InOnePlace /\ NotLost /\ FilesInv
             /\ ServesWhenReady /\ ReportedIsStored /\ TmpFilesAccounted /\ Complete

LEMMA InitServer == Init => ServerInv /\ DirInv
<1> SUFFICES ASSUME Init PROVE ServerInv /\ DirInv
  OBVIOUS
<1>1. /\ task_queue = <<>> /\ is_stopped = FALSE /\ unborn = Requests
      /\ pc = [t \in Workers \cup {Main} |-> IF t \in Workers THEN "new" ELSE "idle"]
      /\ task = [t \in Workers \cup {Main} |-> NoTask]
  BY Zenon DEF Init, Pool!Init, Pool!Threads
<1>2. Len(task_queue) = 0 /\ 1..0 = {}
  BY <1>1
<1>3. IsFiniteSet(Workers) /\ Cardinality(Workers) \in Nat
  BY ServerAssumption
<1>4. OwnTypeOK
  BY <1>3, ServerAssumption DEF Init, OwnTypeOK, Stages
<1>5. Placed
  BY Zenon, <1>1, ServerAssumption DEF Init, Placed, Working
<1>6. Counted
  <2>1. Registered = {}
    BY Zenon DEF Init, Registered
  <2>2. QED
    BY Zenon, <2>1, FS_EmptySet DEF Init, Counted
<1>7. InOnePlace
  BY Zenon, <1>1, <1>2 DEF Init, InOnePlace, Holders
<1>8. NotLost
  BY Zenon, <1>1 DEF Init, NotLost
<1>9. FilesInv
  BY Zenon DEF Init, FilesInv, InHand, Untouched
<1>10. ServesWhenReady /\ ReportedIsStored /\ TmpFilesAccounted /\ Complete
  BY Zenon DEF Init, ServesWhenReady, ReportedIsStored, TmpFilesAccounted, Complete
<1>11. DirInv
  BY Zenon DEF Init, DirInv
<1>12. QED
  BY Zenon, <1>4, <1>5, <1>6, <1>7, <1>8, <1>9, <1>10, <1>11 DEF ServerInv

LEMMA NextServer == Pool!TypeOK /\ ServerInv /\ [Next]_vars => ServerInv'
<1> SUFFICES ASSUME Pool!TypeOK, ServerInv, [Next]_vars PROVE ServerInv'
  OBVIOUS
<1>1. /\ OwnTypeOK /\ Placed /\ Counted /\ InOnePlace /\ NotLost /\ FilesInv
      /\ ServesWhenReady /\ ReportedIsStored /\ TmpFilesAccounted /\ Complete
  BY Zenon DEF ServerInv
<1>2. Counted' /\ init_count' \in 0..Cardinality(Workers) /\ init_count' >= init_count
  BY Zenon, <1>1, NextCounted
<1>3. OwnTypeOK' /\ Placed'
  BY Zenon, <1>1, <1>2, NextOwnType, NextPlaced
<1>4. InOnePlace' /\ NotLost' /\ FilesInv'
  BY Zenon, <1>1, NextInOnePlace, NextNotLost, NextFiles
<1>5. ServesWhenReady' /\ ReportedIsStored' /\ TmpFilesAccounted' /\ Complete'
  BY Zenon, <1>1, <1>2, NextServes, NextReported, NextTmpFiles, NextComplete
<1>6. QED
  BY Zenon, <1>2, <1>3, <1>4, <1>5 DEF ServerInv

(* A set that cannot hold two elements has at most one. *)
LEMMA AtMostOne ==
  ASSUME NEW S, \A x, y \in S : x = y
  PROVE  Cardinality(S) \in {0, 1} /\ (S = {} => Cardinality(S) = 0)
<1>1. CASE S = {}
  BY Zenon, <1>1, FS_EmptySet
<1>2. ASSUME NEW x \in S PROVE Cardinality(S) = 1
  <2>1. S = {x}
    OBVIOUS
  <2>2. QED
    BY Zenon, <2>1, FS_Singleton
<1>3. QED
  BY Zenon, <1>1, <1>2

LEMMA PlacesCount ==
  ASSUME ServerInv
  PROVE  EveryTaskAccounted
<1> SUFFICES ASSUME NEW r \in Requests
             PROVE  /\ Kind[r] = "calcsig" /\ answer[r] = "0"
                         => Queued(r) # {} \/ InProgress(r) # {} \/ outcome[r] # "none"
                    /\ Cardinality(Queued(r)) + Cardinality(InProgress(r))
                         + (IF outcome[r] = "none" THEN 0 ELSE 1) <= 1
  BY Zenon DEF EveryTaskAccounted
<1>0. InOnePlace /\ NotLost /\ Placed /\ r # NoTask
  BY Zenon, ServerAssumption DEF ServerInv
<1>1. ASSUME Kind[r] = "calcsig", answer[r] = "0"
      PROVE  Queued(r) # {} \/ InProgress(r) # {} \/ outcome[r] # "none"
  <2>1. task[Main] # r
    BY Zenon, <1>0, <1>1 DEF Placed, NotLost
  <2>2. r \notin unborn
    BY Zenon, <1>0, <1>1 DEF NotLost
  <2>3. QED
    BY Zenon, <1>0, <2>1, <2>2 DEF NotLost, Holders, InProgress
<1>2. \A i, j \in Queued(r) : i = j
  BY Zenon, <1>0 DEF InOnePlace, Queued
<1>3. \A v, w \in InProgress(r) : v = w
  BY Zenon, <1>0 DEF InOnePlace, InProgress, Holders
<1>4. Queued(r) # {} => InProgress(r) = {} /\ outcome[r] = "none"
  BY <1>0 DEF InOnePlace, InProgress, Queued, Holders
<1>5. InProgress(r) # {} => outcome[r] = "none"
  BY <1>0 DEF InOnePlace, InProgress, Holders
<1>6. /\ Cardinality(Queued(r)) \in {0, 1} /\ (Queued(r) = {} => Cardinality(Queued(r)) = 0)
      /\ Cardinality(InProgress(r)) \in {0, 1} /\ (InProgress(r) = {} => Cardinality(InProgress(r)) = 0)
  BY Zenon, <1>2, <1>3, AtMostOne
<1>7. QED
  BY <1>1, <1>4, <1>5, <1>6

(* Every step of the server is a step of mkdirs or leaves directories alone.  A
   worker asks for the directory of a source only when it has a task, so for one
   of the paths of Mkdirs. *)
LEMMA MkdirsSteps == ServerInv /\ [Next]_vars => [Mk!Next]_Mk!vars
<1> SUFFICES ASSUME ServerInv, [Next]_vars PROVE [Mk!Next]_Mk!vars
  OBVIOUS
<1>1. CASE UNCHANGED mkVars
  BY Zenon, <1>1 DEF mkVars, Mk!vars
<1>2. ASSUME NEW w \in Workers, Mk!Step(w) \/ Mk!Return(w) PROVE Mk!Next
  BY Zenon, <1>2 DEF Mk!Next
<1>3. ASSUME NEW w \in Workers, NEW p \in AskedPaths, Mk!Call(w, p) PROVE Mk!Next
  BY Zenon, <1>3 DEF Mk!Next
<1>4. ASSUME NEW w \in Workers, WorkStep(w) PROVE UNCHANGED mkVars \/ Mk!Next
  <2>1. task[w] \in Requests
    BY Zenon, <1>4, WorkSteps DEF ServerInv, Placed
  <2>2. TmpPath \in AskedPaths /\ SigPath[Source[task[w]]] \in AskedPaths
    BY Zenon, <2>1 DEF AskedPaths
  <2>3. CASE TmpAccess(w) \/ SigAccess(w)
    BY <1>3, <2>2, <2>3, Zenon DEF TmpAccess, SigAccess
  <2>4. CASE Mkdirs_Step(w) \/ TmpMkdirs_Return(w) \/ SigMkdirs_Return(w)
    BY <1>2, <2>4, Zenon DEF Mkdirs_Step, TmpMkdirs_Return, SigMkdirs_Return
  <2>5. CASE \/ Open(w) \/ HeadReader(w) \/ Receive(w) \/ TransferFails(w) \/ CalcSig(w)
             \/ Rename(w) \/ Post(w) \/ PostReturns(w)
    BY Zenon, <2>5 DEF Open, HeadReader, Receive, TransferFails, CalcSig, Rename, Post, PostReturns
  <2>6. QED
    BY <1>4, <2>3, <2>4, <2>5, Zenon DEF WorkStep
<1>5. ASSUME NEW w \in Workers, \/ StartWorker(w) \/ Register(w) \/ Loop(w) \/ GetTask(w)
                                \/ GetTask_Wake(w)
      PROVE  UNCHANGED mkVars
  BY Zenon, <1>5 DEF StartWorker, Register, Loop, GetTask, GetTask_Wake
<1>6. ASSUME MainMoves \/ AddTask \/ UNCHANGED vars PROVE UNCHANGED mkVars
  BY Zenon, <1>6 DEF MainMoves, StartDone, Barrier, SpuriousWake, Listen, AddTask, vars
<1>7. ASSUME NEW r \in Requests, Reject(r) \/ Accept(r) \/ Ignore(r) \/ Reply(r)
      PROVE  UNCHANGED mkVars
  BY Zenon, <1>7 DEF Reject, Accept, Ignore, Reply
<1>8. QED
  BY <1>1, <1>4, <1>5, <1>6, <1>7, NextCases, Zenon

(* What follows from the types of the pool, and of mkdirs. *)
LEMMA ServerInvariant == Spec /\ []Pool!TypeOK => []ServerInv
<1>1. Init => ServerInv
  BY Zenon, InitServer
<1>2. QED
  BY <1>1, NextServer, PTL DEF Spec

LEMMA AsksMkdirs == Spec /\ []ServerInv => UsesMkdirs
<1>1. Init => Mk!Init
  BY Zenon DEF Init
<1>2. QED
  BY <1>1, MkdirsSteps, PTL DEF Spec, UsesMkdirs, Mk!Spec

LEMMA DirsInvariant ==
  Spec /\ []Pool!TypeOK /\ [](Mk!TypeOK /\ Mk!ZeroMeansMade) /\ []ServerInv => []DirInv
<1>1. Init => DirInv
  BY Zenon, InitServer
<1>2. Pool!TypeOK /\ (Mk!TypeOK /\ Mk!ZeroMeansMade) /\ ServerInv /\ DirInv /\ [Next]_vars => DirInv'
  BY Zenon, NextDir DEF ServerInv
<1>3. QED
  BY <1>1, <1>2, PTL DEF Spec

(* The properties are parts of the invariant, or follow from it. *)
LEMMA Consequences ==
  /\ ServerInv => ServesWhenReady /\ ReportedIsStored /\ TmpFilesAccounted
  /\ ServerInv /\ Pool!TypeOK /\ Mk!TypeOK => TypeOK
  /\ ServerInv /\ DirInv => StoredIsComplete
<1>1. ServerInv => ServesWhenReady /\ ReportedIsStored /\ TmpFilesAccounted
  BY Zenon DEF ServerInv
<1>2. ServerInv /\ Pool!TypeOK /\ Mk!TypeOK => TypeOK
  BY Zenon DEF ServerInv, TypeOK
<1>3. ServerInv /\ DirInv => StoredIsComplete
  BY Zenon DEF ServerInv, Complete, DirInv, StoredIsComplete
<1>4. QED
  BY Zenon, <1>1, <1>2, <1>3

------------------------------------------------------------------------------
(* The theorems about the pool, for the server's use of it. *)
PoolThms == INSTANCE ThreadPool98_proofs
              WITH Producers <- {Main}, Tasks <- Requests, CanStop <- FALSE

(* The server meets what that module assumes of its constants. *)
LEMMA PoolFits ==
  /\ Workers # {} /\ PoolThms!IsFiniteSet(Workers)
  /\ Workers \cap {Main} = {}
  /\ NoThread \notin Workers \cup {Main}
  /\ NoTask \notin Requests
  /\ FALSE \in BOOLEAN
<1>1. Workers # {}
  BY ServerAssumption, FS_EmptySet
<1>2. PoolThms!IsFiniteSet(Workers)
  BY Zenon, ServerAssumption DEF IsFiniteSet, PoolThms!IsFiniteSet
<1>3. QED
  BY Zenon, ServerAssumption, <1>1, <1>2

(* The pool of the server and the pool of the theorems are the same. *)
LEMMA SamePool == Pool!Spec <=> PoolThms!Spec
<1>1. Pool!Init <=> PoolThms!Init
  BY Zenon DEF Pool!Init, PoolThms!Init, Pool!Threads, PoolThms!Threads
<1>2. Pool!vars = PoolThms!vars
  BY Zenon DEF Pool!vars, PoolThms!vars
<1>3. Pool!Next <=> PoolThms!Next
  <2>1. \A w \in Workers : Pool!WorkerStep(w) \/ Pool!SpuriousWake(w)
                           <=> PoolThms!WorkerStep(w) \/ PoolThms!SpuriousWake(w)
    BY Zenon DEF Pool!WorkerStep, PoolThms!WorkerStep, Pool!SpuriousWake, PoolThms!SpuriousWake,
       Pool!GetTask, PoolThms!GetTask, Pool!Start, PoolThms!Start, Pool!Loop, PoolThms!Loop,
       Pool!GetTask_Lock, PoolThms!GetTask_Lock, Pool!GetTask_Wait, PoolThms!GetTask_Wait,
       Pool!GetTask_Null, PoolThms!GetTask_Null, Pool!GetTask_Take, PoolThms!GetTask_Take,
       Pool!EndRun, PoolThms!EndRun, Pool!Goto, PoolThms!Goto
  <2>2. \A p \in {Main} : Pool!AddTask(p) <=> PoolThms!AddTask(p)
    BY Zenon DEF Pool!AddTask, PoolThms!AddTask, Pool!AddTask_Lock, PoolThms!AddTask_Lock,
       Pool!AddTask_Push, PoolThms!AddTask_Push, Pool!Goto, PoolThms!Goto
  <2>3. \A p \in {Main}, k \in Requests : Pool!AddTask_Check(p, k) <=> PoolThms!AddTask_Check(p, k)
    BY Zenon DEF Pool!AddTask_Check, PoolThms!AddTask_Check, Pool!Started, PoolThms!Started,
       Pool!Goto, PoolThms!Goto
  <2>4. (Pool!Stop <=> PoolThms!Stop) /\ (Pool!AtRest <=> PoolThms!AtRest)
    BY <1>2, Zenon DEF Pool!Stop, PoolThms!Stop, Pool!AtRest, PoolThms!AtRest, Pool!Started,
       PoolThms!Started, Pool!vars, PoolThms!vars
  <2>5. QED
    BY <2>1, <2>2, <2>3, <2>4, Zenon DEF Pool!Next, PoolThms!Next
<1>4. [Pool!Next]_Pool!vars <=> [PoolThms!Next]_PoolThms!vars
  BY Zenon, <1>2, <1>3 DEF Pool!vars, PoolThms!vars
<1>5. QED
  BY <1>1, <1>4, PTL DEF Pool!Spec, PoolThms!Spec

(* threadpool_98.hpp in the server: what is proved of the pool holds in it.  No
   queued request waits for a wake-up that was lost, and the requests are taken
   in the order in which the main thread added them, each by one worker. *)
THEOREM ServerPool ==
  Spec => [](PoolThms!MutexDiscipline /\ PoolThms!WorkConserving) /\ PoolThms!ImplementsTaskQueue
<1>1. /\ PoolThms!Spec => []PoolThms!MutexDiscipline
      /\ PoolThms!Spec => []PoolThms!WorkConserving
      /\ PoolThms!Spec => PoolThms!ImplementsTaskQueue
  BY Zenon, PoolFits, PoolThms!MutualExclusion, PoolThms!NoLostWakeup, PoolThms!Implementation
<1>2. QED
  BY <1>1, SamePool, ServerUsesPool, PTL DEF UsesPool

(* threadpool_98.hpp in the server: the pool's variables keep their types. *)
LEMMA PoolTypes == Spec => []Pool!TypeOK
<1>1. PoolThms!Spec => []PoolThms!TypeOK
  BY Zenon, PoolFits, PoolThms!TypeCorrect
<1>2. PoolThms!TypeOK => Pool!TypeOK
  BY Zenon DEF PoolThms!TypeOK, Pool!TypeOK, PoolThms!Threads, Pool!Threads, PoolThms!WorkerPC,
         Pool!WorkerPC, PoolThms!ProducerPC, Pool!ProducerPC
<1>3. QED
  BY <1>1, <1>2, SamePool, ServerUsesPool, PTL DEF UsesPool

(* server.cpp:375-408: requests are served only when every worker is ready. *)
THEOREM ReadyBeforeServing == Spec => []ServesWhenReady
BY Consequences, ServerInvariant, PoolTypes, PTL

(* server.cpp:519-522 and 141-143: no accepted request is lost or worked on
   twice. *)
THEOREM TasksAccounted == Spec => []EveryTaskAccounted
BY PlacesCount, ServerInvariant, PoolTypes, PTL

(* server.cpp:203-234: what is reported is stored, from the right source, with
   the right size. *)
THEOREM ReportsAreTrue == Spec => []ReportedIsStored
BY Consequences, ServerInvariant, PoolTypes, PTL

(* server.cpp:195-221: temporary files are left behind in the named cases only. *)
THEOREM TmpFilesKept == Spec => []TmpFilesAccounted
BY Consequences, ServerInvariant, PoolTypes, PTL

(* utils.cpp:17-46 as the server uses it: every step of the server is a step of
   mkdirs or leaves directories alone. *)
THEOREM ServerUsesMkdirs == Spec => UsesMkdirs
BY AsksMkdirs, ServerInvariant, PoolTypes, PTL

------------------------------------------------------------------------------
(* The theorems about mkdirs, for the server's use of it. *)
MkThms == INSTANCE Mkdirs_proofs
            WITH Callers <- Workers, CanFail <- "mkdir" \in Faults, Paths <- AskedPaths

(* utils.cpp:17-46 in the server: the types, and what a result of 0 means. *)
LEMMA MkdirsFacts == Spec => [](Mk!TypeOK /\ Mk!ZeroMeansMade)
<1>1. /\ MkThms!Spec => []MkThms!TypeOK
      /\ MkThms!Spec => [](MkThms!ParentExists /\ MkThms!ZeroMeansMade /\ MkThms!FailureMeansExists)
  <2>1. ("mkdir" \in Faults) \in BOOLEAN
    OBVIOUS
  <2>2. QED
    BY Zenon, <2>1, DirsAssumption, MkThms!TypeCorrect, MkThms!TreeStaysWhole
<1>2. /\ MkThms!TypeOK => Mk!TypeOK
      /\ MkThms!ZeroMeansMade => Mk!ZeroMeansMade
  BY Zenon DEF MkThms!TypeOK, Mk!TypeOK, MkThms!ZeroMeansMade, Mk!ZeroMeansMade
<1>3. Mk!Spec => MkThms!Spec
  <2>1. Mk!Init => MkThms!Init
    BY Zenon DEF Mk!Init, MkThms!Init
  <2>2. [Mk!Next]_Mk!vars => [MkThms!Next]_MkThms!vars
    <3>1. \A c \in Workers : Mk!Step(c) \/ Mk!Return(c) <=> MkThms!Step(c) \/ MkThms!Return(c)
      BY Zenon DEF Mk!Step, MkThms!Step, Mk!Return, MkThms!Return, Mk!Descend, MkThms!Descend,
         Mk!Mkdir, MkThms!Mkdir, Mk!MkdirFails, MkThms!MkdirFails, Mk!Possible, MkThms!Possible,
         Mk!Here, MkThms!Here, Mk!Above, MkThms!Above
    <3>2. \A c \in Workers, p \in AskedPaths : Mk!Call(c, p) <=> MkThms!Call(c, p)
      BY Zenon DEF Mk!Call, MkThms!Call
    <3>3. Mk!Next => MkThms!Next
      BY <3>1, <3>2, Zenon DEF Mk!Next, MkThms!Next
    <3>4. QED
      BY Zenon, <3>3 DEF Mk!vars, MkThms!vars
  <2>3. QED
    BY <2>1, <2>2, PTL DEF Mk!Spec, MkThms!Spec
<1>4. QED
  BY <1>1, <1>2, <1>3, ServerUsesMkdirs, PTL DEF UsesMkdirs

(* server.cpp and what it is made of: every variable keeps its type. *)
THEOREM TypeCorrect == Spec => []TypeOK
BY Consequences, ServerInvariant, PoolTypes, MkdirsFacts, PTL

(* server.cpp:189-192 and 203, utils.cpp:48-55: complete files only, unless a
   write failed, and into a directory that is there, whoever made it. *)
THEOREM CompleteAndPlaced == Spec => []StoredIsComplete
BY Consequences, DirsInvariant, ServerInvariant, PoolTypes, MkdirsFacts, PTL
==============================================================================
