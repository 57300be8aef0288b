--------------------------- MODULE MCClusterAsync ---------------------------
(* ClusterAsync with two servers, two slots and three commands, two of them
   for the same slot. *)
EXTENDS ClusterAsync

MCServers == {"a", "b"}
MCSlotOf == <<0, 1, 0>>
MCFirstOwner == [s \in Slot |-> IF s = 0 THEN "a" ELSE "b"]
==============================================================================
