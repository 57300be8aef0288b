--------------------------- MODULE ThreadPoolTask ---------------------------
(***************************************************************************)
(* threadpool/threadpooltask.hpp, the pool of the indexers: a thread that  *)
(* has run a task adjusts the number of threads while it holds m_lock.     *)
(* used_num is not under the lock and may change between its two tests.    *)
(***************************************************************************)
EXTENDS ElasticPool

(* Take the lock; one thread more if the queue was at least as long as there
   are free threads. *)
Adjust_Grow(t) ==
  /\ pc[t] = "adjust" /\ m_lock = NoThread
  /\ m_lock' = t
  /\ IF ~is_stopped /\ task_nums[t] >= cur_num - used_num /\ cur_num < max_num
     THEN \E n \in Threads : /\ Create(n)
                             /\ pc' = [pc EXCEPT ![t] = "shrink", ![n] = "loop"]
     ELSE Goto(t, "shrink") /\ UNCHANGED cur_num
  /\ UNCHANGED <<tasks, is_stopped, used_num, task_nums, adderVars, taken>>

(* A buggy departure of one thread too many. *)
Adjust_Shrink_TooFar(t) ==
  /\ pc[t] = "shrink"
  /\ m_lock' = NoThread
  /\ IF ~is_stopped /\ task_nums[t] < cur_num - used_num /\ cur_num >= init_num
     THEN cur_num' = cur_num - 1 /\ Goto(t, "gone")
     ELSE Goto(t, "loop") /\ UNCHANGED cur_num
  /\ UNCHANGED <<tasks, is_stopped, used_num, task_nums, adderVars, taken>>

(* This thread leaves if there are more free threads than tasks, and more
   threads than at the start; the lock is released in both cases. *)
Adjust_Shrink(t) ==
  /\ pc[t] = "shrink"
  /\ m_lock' = NoThread
  /\ IF ~is_stopped /\ task_nums[t] < cur_num - used_num /\ cur_num > init_num
     THEN cur_num' = cur_num - 1 /\ Goto(t, "gone")
     ELSE Goto(t, "loop") /\ UNCHANGED cur_num
  /\ UNCHANGED <<tasks, is_stopped, used_num, task_nums, adderVars, taken>>

AdjustStep(t) == Adjust_Grow(t) \/ Adjust_Shrink(t)

Next == CommonNext \/ \E t \in Threads : AdjustStep(t)

Spec == Init /\ [][Next]_vars

(* Threads go on, tasks return, and a mutex that is released again and again
   is granted: m_lock is held by others between two tries. *)
FairSpec == /\ Spec
            /\ \A t \in Threads :
                 /\ WF_vars(RunStep(t) \/ AdjustStep(t))
                 /\ SF_vars(Get_Take(t) \/ Adjust_Grow(t))
            /\ \A p \in Producers : WF_vars(AddStep(p)) /\ SF_vars(TaskAdd_Push(p))

------------------------------------------------------------------------------
(* threadpooltask.hpp:58-72: a thread between its two tests has m_lock, and
   nobody else is there. *)
LockDiscipline == \A t \in Threads : (pc[t] = "shrink") <=> (m_lock = t)

(* threadpooltask.hpp:60 and 68: with the lock held the tests keep the number of
   threads between init_num and max_num, whatever used_num does in between. *)
WithinLimits == /\ cur_num >= init_num
                /\ cur_num <= init_num \/ cur_num <= max_num
==============================================================================
