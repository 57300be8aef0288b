---------------------------- MODULE ClusterRoute ----------------------------
(***************************************************************************)
(* hiredis-vip-master/hircluster.c: what a cluster context knows about the *)
(* cluster, and how the answer to CLUSTER SLOTS or CLUSTER NODES replaces  *)
(* it.  Pure definitions: the modules of the synchronous and of the        *)
(* asynchronous client build their steps from them.                        *)
(*                                                                         *)
(* An address "ip:port" is a string.  A node's dictionary key is its       *)
(* address, except for the nodes made from ASK replies.  A region of slots *)
(* is a pair <<start, end>>.  The pointers that table and slots hold are   *)
(* pairs <<route, key>>: the route version whose dictionary has the node,  *)
(* and the node's key in it.  Memory can always be allocated.              *)
(***************************************************************************)
EXTENDS Integers, SequencesExt

CONSTANTS NumSlots,   \* REDIS_CLUSTER_SLOTS
          None,       \* NULL
          Bad         \* an address that the parsers refuse

Slot == 0 .. NumSlots - 1

NoNodes == [k \in {} |-> None]

(* cluster_node_init, and the address and the role its callers set next. *)
NodeInit(addr, role) ==
  [host |-> addr, role |-> role, con |-> None, acon |-> None, slots |-> <<>>,
   slaves |-> <<>>, migrating |-> <<>>, importing |-> <<>>, failures |-> 0]

(* node_get_with_slots and node_get_with_nodes: None for a refused address. *)
NodeWithSlots(elem, role) == IF elem = Bad THEN None ELSE NodeInit(elem, role)
NodeWithNodes(line, role) == IF line.addr = Bad THEN None ELSE NodeInit(line.addr, role)

(* cluster_slot_ref_node. *)
SlotRefNode(nodes, key, region) == [nodes EXCEPT ![key].slots = Append(@, region)]

------------------------------------------------------------------------------
(* One region of a CLUSTER SLOTS answer: its first and last slot and its
   nodes, the master first.  A master that is known already gets the region
   and the rest of the element is not looked at. *)
ParseRegion(flags, nodes, r) ==
  LET m == Head(r.nodes)
      new == [NodeWithSlots(m, "master") EXCEPT
                !.slaves = IF "ADD_SLAVE" \in flags THEN Tail(r.nodes) ELSE <<>>]
      region == <<r.start, r.end>>
  IN CASE nodes = None \/ r.nodes = <<>> \/ r.start > r.end \/ m = Bad -> None
       [] m \in DOMAIN nodes -> SlotRefNode(nodes, m, region)
       [] Bad \in Range(r.nodes) -> None
       [] OTHER -> SlotRefNode(nodes @@ (m :> new), m, region)

ParseClusterSlots(flags, regions) ==
  IF regions = <<>> THEN None
  ELSE FoldLeft(LAMBDA nodes, r : ParseRegion(flags, nodes, r), NoNodes, regions)

------------------------------------------------------------------------------
(* cluster_master_slave_mapping_with_name: names gathers, for each master's
   name, the master and its slaves; until the master's own line comes, the
   first slave stands in for it. *)
MapMaster(names, line) ==
  CASE line.name \notin DOMAIN names ->
         names @@ (line.name :> [role |-> "master", addr |-> line.addr, slaves |-> <<>>])
    [] names[line.name].role = "master" -> None
    [] OTHER ->
         [names EXCEPT ![line.name] =
            [role |-> "master", addr |-> line.addr,
             slaves |-> <<@.addr>> \o Reverse(@.slaves)]]

MapSlave(names, line) ==
  IF line.master \in DOMAIN names
  THEN [names EXCEPT ![line.master].slaves = Append(@, line.addr)]
  ELSE names @@ (line.master :> [role |-> "slave", addr |-> line.addr, slaves |-> <<>>])

(* The slot parts of a master's line: "7", "0-5", or an open slot, which only
   ADD_OPENSLOT keeps; a region that makes no sense is left out. *)
OpenSlotCreate(part, migrate) == [slot |-> part[1], migrate |-> migrate, remote |-> part[3]]
OpenSlot(flags, node, part) ==
  CASE "ADD_OPENSLOT" \notin flags -> node
    [] part[2] = ">" -> [node EXCEPT !.migrating = Append(@, OpenSlotCreate(part, TRUE))]
    [] part[2] = "<" -> [node EXCEPT !.importing = Append(@, OpenSlotCreate(part, FALSE))]

RegionOf(part) == IF Len(part) = 1 THEN <<part[1], part[1]>> ELSE part
Sensible(region) == region[1] \in Slot /\ region[2] \in Slot /\ region[1] <= region[2]
SlotPart(flags, node, part) ==
  CASE Len(part) = 3 -> OpenSlot(flags, node, part)
    [] Len(part) # 3 /\ Sensible(RegionOf(part)) -> [node EXCEPT !.slots = Append(@, RegionOf(part))]
    [] OTHER -> node

ParseMaster(flags, acc, line) ==
  LET new == NodeWithNodes(line, "master")
      names == IF "ADD_SLAVE" \in flags THEN MapMaster(acc.names, line) ELSE acc.names
      full == FoldLeft(LAMBDA n, p : SlotPart(flags, n, p), new, line.parts)
  IN IF new = None \/ line.addr \in DOMAIN acc.nodes \/ names = None THEN None
     ELSE [nodes |-> acc.nodes @@ (line.addr :> full), names |-> names]

ParseSlave(flags, acc, line) ==
  CASE "ADD_SLAVE" \notin flags -> acc
    [] NodeWithNodes(line, "slave") = None -> None
    [] OTHER -> [acc EXCEPT !.names = MapSlave(@, line)]

(* One line of a CLUSTER NODES answer.  A line that is too short fails, one
   with the address ":0" is skipped, and so is every other role. *)
ParseLine(flags, acc, line) ==
  CASE acc = None \/ line.short -> None
    [] line.addr = ":0" -> acc
    [] line.role = "master" -> ParseMaster(flags, acc, line)
    [] line.role = "slave" -> ParseSlave(flags, acc, line)
    [] OTHER -> acc

(* The slaves hang on the master that was mapped with them. *)
WithSlaves(nodes, names) ==
  LET SlavesOf(k) == LET its == {e \in Range(names) : e.role = "master" /\ e.addr = k}
                     IN IF its = {} THEN <<>> ELSE (CHOOSE e \in its : TRUE).slaves
  IN [k \in DOMAIN nodes |-> [nodes[k] EXCEPT !.slaves = SlavesOf(k)]]

NothingParsed == [nodes |-> NoNodes, names |-> NoNodes]
ParseClusterNodes(flags, lines) ==
  LET end == FoldLeft(LAMBDA acc, l : ParseLine(flags, acc, l), NothingParsed, lines)
  IN IF end = None THEN None ELSE WithSlaves(end.nodes, end.names)

------------------------------------------------------------------------------
(* The regions of all nodes, and the two ways in which they can be unusable. *)
Regions(nodes) ==
  UNION {{[start |-> r[1], end |-> r[2], node |-> k] : r \in Range(nodes[k].slots)} :
           k \in DOMAIN nodes}
OutOfRange(nodes) == \E r \in Regions(nodes) : r.start > r.end \/ r.end >= NumSlots
Overlap(nodes) ==
  \/ \E r, q \in Regions(nodes) : r # q /\ r.start <= q.end /\ q.start <= r.end
  \/ \E k \in DOMAIN nodes : ~IsInjective(nodes[k].slots)

(* cluster_nodes_swap_ctx: a node whose address stays keeps its connections. *)
SwapCtx(old, new) ==
  [k \in DOMAIN new |->
     IF k \notin DOMAIN old THEN new[k]
     ELSE [new[k] EXCEPT !.con = IF old[k].con # None THEN old[k].con ELSE @,
                         !.acon = IF old[k].acon # None THEN old[k].acon ELSE @]]

TableOf(route, nodes) ==
  [s \in Slot |->
     LET owners == {r \in Regions(nodes) : s \in r.start .. r.end}
     IN IF owners = {} THEN None ELSE <<route, (CHOOSE r \in owners : TRUE).node>>]

(* cluster_slot_start_cmp and the sort. *)
SortedSlots(route, nodes) ==
  SetToSortSeq({[r EXCEPT !.node = <<route, @>>] : r \in Regions(nodes)},
               LAMBDA p, q : p.start < q.start)

(* cluster_update_route_by_addr, once the answer has arrived: everything is
   replaced, or nothing but the error. *)
ParseReply(flags, reply) ==
  CASE reply.type = "array" /\ "USE_SLOTS" \in flags -> ParseClusterSlots(flags, reply.body)
    [] reply.type = "string" /\ "USE_SLOTS" \notin flags -> ParseClusterNodes(flags, reply.body)
    [] OTHER -> None

Install(cc, nodes) ==
  [cc EXCEPT !.nodes = SwapCtx(cc.nodes, nodes),
             !.slots = SortedSlots(cc.version + 1, nodes),
             !.table = TableOf(cc.version + 1, nodes),
             !.version = @ + 1]

(* The label error: what was built is thrown away. *)
Unusable(cc) == [cc EXCEPT !.err = TRUE]

(* A bug that is easy to make: the table is filled in place, so the nodes of
   an answer that turns out to be unusable stay in it. *)
UpdateRouteByAddr_InPlace(cc, reply) ==
  LET nodes == ParseReply(cc.flags, reply)
  IN CASE nodes = None \/ OutOfRange(nodes) -> Unusable(cc)
       [] Overlap(nodes) -> [cc EXCEPT !.err = TRUE, !.table = TableOf(cc.version + 1, nodes)]
       [] OTHER -> Install(cc, nodes)

UpdateRouteByAddr(cc, reply) ==
  LET nodes == ParseReply(cc.flags, reply)
  IN IF nodes = None \/ OutOfRange(nodes) \/ Overlap(nodes)
     THEN Unusable(cc)
     ELSE Install(cc, nodes)

------------------------------------------------------------------------------
(* cluster_update_route_with_nodes_old, which is still there and which nothing
   calls: it fills the table while it reads the lines and gives the connection
   c it asks on to the node that says "myself". *)
OldPart(acc, key, part) ==
  LET region == RegionOf(part)
      js == region[1] .. region[2]
  IN CASE acc = None -> None
       [] acc # None /\ (Len(part) = 3 \/ ~Sensible(region)) -> acc
       [] acc # None /\ Len(part) < 3 /\ Sensible(region) /\ \E j \in js : acc.table[j] # None -> None
       [] OTHER -> [acc EXCEPT !.table = [j \in Slot |-> IF j \in js THEN key ELSE @[j]],
                               !.slots = Append(@, [start |-> region[1], end |-> region[2], node |-> key]),
                               !.nodes = SlotRefNode(@, key, region)]

OldMaster(flags, acc, line) ==
  LET new == NodeWithNodes(line, "master")
      names == IF "ADD_SLAVE" \in flags THEN MapMaster(acc.names, line) ELSE acc.names
      own == IF line.myself THEN [new EXCEPT !.con = acc.c] ELSE new
      added == [acc EXCEPT !.nodes = @ @@ (line.addr :> own), !.names = names,
                           !.c = IF line.myself THEN None ELSE @]
  IN IF new = None \/ line.addr \in DOMAIN acc.nodes \/ names = None THEN None
     ELSE FoldLeft(LAMBDA a, part : OldPart(a, line.addr, part), added, line.parts)

OldSlave(flags, acc, line) ==
  CASE "ADD_SLAVE" \notin flags -> acc
    [] NodeWithNodes(line, "slave") = None -> None
    [] OTHER -> [acc EXCEPT !.names = MapSlave(@, line), !.c = IF line.myself THEN None ELSE @]

OldLine(flags, acc, line) ==
  CASE acc = None \/ line.short -> None
    [] line.addr = ":0" -> acc
    [] line.role = "master" -> OldMaster(flags, acc, line)
    [] line.role = "slave" -> OldSlave(flags, acc, line)
    [] OTHER -> acc

OldInstall(cc, acc) ==
  LET At(k) == IF k = None THEN None ELSE <<cc.version + 1, k>>
  IN [cc EXCEPT !.slots = SortSeq([i \in DOMAIN acc.slots |-> [acc.slots[i] EXCEPT !.node = At(@)]],
                                  LAMBDA p, q : p.start < q.start),
                !.nodes = SwapCtx(cc.nodes, WithSlaves(acc.nodes, acc.names)),
                !.table = [s \in Slot |-> At(acc.table[s])],
                !.version = @ + 1]

(* Its label error. *)
OldUnusable(cc) == [cc EXCEPT !.err = TRUE]

UpdateRouteWithNodesOld(cc, reply, c) ==
  LET start == [nodes |-> NoNodes, names |-> NoNodes, slots |-> <<>>, table |-> [s \in Slot |-> None], c |-> c]
      end == FoldLeft(LAMBDA acc, l : OldLine(cc.flags, acc, l), start, reply.body)
  IN CASE c.err \/ reply.type # "string" -> OldUnusable(cc)
       [] ~c.err /\ reply.type = "string" /\ end = None -> OldUnusable(cc)
       [] OTHER -> OldInstall(cc, end)

------------------------------------------------------------------------------
(* A pointer is good when its dictionary is still there and has its node. *)
Alive(cc, p) == p[1] = cc.version /\ p[2] \in DOMAIN cc.nodes

(* node_get_by_table. *)
NodeByTable(cc, s) == IF s \in Slot THEN cc.table[s] ELSE None

(* node_get_by_slot: a binary search in the sorted regions.  The bounds are
   unsigned: below the first region, end wraps around and the search leaves
   the array. *)
NodeBySlot(cc, s) ==
  LET n == Len(cc.slots)
      Search[start \in 0 .. n, end \in -1 .. n] ==
        LET middle == IF start >= end THEN end ELSE start + (end - start) \div 2
            r == cc.slots[middle + 1]
        IN CASE end < 0 \/ end >= n -> "outside"
             [] r.start <= s /\ s <= r.end -> r.node
             [] start >= end -> None
             [] r.start > s -> Search[start, middle - 1]
             [] OTHER -> Search[middle + 1, end]
  IN Search[0, n - 1]

(* node_get_by_ask_error_reply files a node it does not know under the number
   of the slot, not under its address.  It gives no node when the address has
   not one colon, as that of an IPv6 server has not. *)
Unreadable == "::"
AskKey(cc, ask) == IF ask.at \in DOMAIN cc.nodes THEN ask.at ELSE ToString(ask.slot)
AskNode(cc, ask) ==
  CASE ask.at = Unreadable -> None
    [] ask.at \in DOMAIN cc.nodes -> cc.nodes[ask.at]
    [] OTHER -> NodeInit(ask.at, "master")
AskAdds(cc, ask) == AskKey(cc, ask) \notin DOMAIN cc.nodes

------------------------------------------------------------------------------
(* What a server answers to CLUSTER SLOTS when it believes in these owners. *)
RegionsOf(owner, slaves) ==
  [i \in 1 .. NumSlots |->
     [start |-> i - 1, end |-> i - 1, nodes |-> <<owner[i - 1]>> \o slaves[owner[i - 1]]]]
==============================================================================
