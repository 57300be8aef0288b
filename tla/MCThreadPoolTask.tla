-------------------------- MODULE MCThreadPoolTask --------------------------
(* The locked elastic pool on small instances: the tpt entries of PROJECT.json. *)
EXTENDS ThreadPoolTask, TLC

CONSTANTS t1, t2, t3, t4, p1, k1, k2, k3

FourThreads == {t1, t2, t3, t4}
OneProducer == {p1}
ThreeTasks == {k1, k2, k3}
==============================================================================
