---------------------------- MODULE MCThreadPool ----------------------------
(* The unlocked elastic pool on small instances: the tp entries of PROJECT.json. *)
EXTENDS ThreadPool, TLC

CONSTANTS t1, t2, t3, t4, t5, p1

FiveThreads == {t1, t2, t3, t4, t5}
OneProducer == {p1}
SixTasks == 1..6

(* Tasks are interchangeable: it is enough to look at one order of adding them. *)
TasksInOrder == \A i \in Tasks, j \in unborn : j < i => i \in unborn

(* So are threads and producers. *)
Symmetry == Permutations(Threads) \cup Permutations(Producers)
==============================================================================
