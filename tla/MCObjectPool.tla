---------------------------- MODULE MCObjectPool ----------------------------
(* The object pool with two clients and up to six objects. *)
EXTENDS ObjectPool, TLC

CONSTANTS c1, c2, o1, o2, o3, o4, o5, o6

TwoClients == {c1, c2}
SixObjects == {o1, o2, o3, o4, o5, o6}

(* Clients and objects are interchangeable. *)
Symmetry == Permutations(Clients) \cup Permutations(Objects)
==============================================================================
