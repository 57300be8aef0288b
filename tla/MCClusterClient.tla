-------------------------- MODULE MCClusterClient --------------------------
(* Two slots on two servers, a third server that slots may move to, and a
   command that is split in two besides one that is not. *)
EXTENDS ClusterClient

TheServers == {"a", "b", "c"}
TheSeeds == {<<"a", "b">>, <<"a", Bad>>}
TheSlaves == [s \in TheServers |-> IF s = "a" THEN <<"d">> ELSE <<>>]
TheCommands == {"get", "mget"}
TheSubSlots == [c \in TheCommands |-> IF c = "get" THEN <<1>> ELSE <<0, 1>>]
TheFlagSets == {{"BLOCK", "USE_SLOTS", "ADD_SLAVE"}, {"ADD_SLAVE", "ADD_OPENSLOT"}}
TheFirstOwner == [s \in Slot |-> IF s = 0 THEN "a" ELSE "b"]
==============================================================================
