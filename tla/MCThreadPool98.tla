--------------------------- MODULE MCThreadPool98 ---------------------------
(* The pool on small instances: see the pool98 entries of PROJECT.json. *)
EXTENDS ThreadPool98, TLC

CONSTANTS w1, w2, w3, p1, p2, k1, k2, k3

ThreeWorkers == {w1, w2, w3}
TwoWorkers == {w1, w2}
TwoProducers == {p1, p2}
OneProducer == {p1}
ThreeTasks == {k1, k2, k3}
==============================================================================
