----------------------------- MODULE ThreadPool -----------------------------
(***************************************************************************)
(* threadpool/threadpool.hpp: a thread that has run a task tests whether   *)
(* to add a thread or to leave without m_lock; the lock is only taken for  *)
(* adding one.  Testing and acting are different steps.                    *)
(***************************************************************************)
EXTENDS ElasticPool

(* The first part of the condition of the while loop. *)
Grow_Test(t) ==
  /\ pc[t] = "adjust"
  /\ Goto(t, IF ~is_stopped /\ task_nums[t] > cur_num - used_num THEN "grow" ELSE "shrink")
  /\ UNCHANGED <<m_lock, tasks, is_stopped, cur_num, used_num, task_nums, adderVars, taken>>

(* Its last part: a second read of cur_num. *)
Grow_TestMax(t) ==
  /\ pc[t] = "grow"
  /\ Goto(t, IF cur_num < max_num THEN "add" ELSE "shrink")
  /\ UNCHANGED <<m_lock, tasks, is_stopped, cur_num, used_num, task_nums, adderVars, taken>>

(* One thread more, and back to the condition. *)
Grow(t) ==
  /\ pc[t] = "add" /\ m_lock = NoThread
  /\ \E n \in Threads : /\ Create(n)
                        /\ pc' = [pc EXCEPT ![t] = "adjust", ![n] = "loop"]
  /\ UNCHANGED <<m_lock, tasks, is_stopped, used_num, task_nums, adderVars, taken>>

Shrink_Test(t) ==
  /\ pc[t] = "shrink"
  /\ Goto(t, IF ~is_stopped /\ task_nums[t] = 0 /\ cur_num > init_num THEN "leave" ELSE "loop")
  /\ UNCHANGED <<m_lock, tasks, is_stopped, cur_num, used_num, task_nums, adderVars, taken>>

Shrink(t) ==
  /\ pc[t] = "leave"
  /\ cur_num' = cur_num - 1
  /\ Goto(t, "gone")
  /\ UNCHANGED <<m_lock, tasks, is_stopped, used_num, task_nums, adderVars, taken>>

AdjustStep(t) == \/ Grow_Test(t) \/ Grow_TestMax(t) \/ Grow(t)
                 \/ Shrink_Test(t) \/ Shrink(t)

Next == CommonNext \/ \E t \in Threads : AdjustStep(t)

Spec == Init /\ [][Next]_vars

------------------------------------------------------------------------------
(* threadpool.hpp:61-65: "adjust the num of thread : destroy thread" leaves the
   pool the threads it started with.  Threads that pass the test of line 62
   together all leave. *)
AtLeastInit == cur_num >= init_num
==============================================================================
