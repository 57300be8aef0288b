--------------------------- MODULE ClusterClient ---------------------------
(***************************************************************************)
(* hiredis-vip-master/hircluster.c: the synchronous cluster client, one    *)
(* context used by one thread.  A call of the program is a sequence of     *)
(* steps, one for each exchange with a server, so that the cluster can     *)
(* change between them: redisClusterCommand follows redirections,          *)
(* redisClusterAppendCommand, redisClusterGetReply and redisClusterReset   *)
(* are the pipeline.                                                       *)
(*                                                                         *)
(* A command is split into sub-commands, one for each slot its keys are    *)
(* in.  A request is the pair <<command, sub-command>>, and a reply names  *)
(* the request it answers.  A server handles a request when the client     *)
(* reads the reply; the buffers of a connection are the requests that were *)
(* appended to it and whose replies were not read.                         *)
(***************************************************************************)
EXTENDS ClusterRoute

CONSTANTS Servers,       \* their addresses
          Seeds,         \* the addresses given to redisClusterConnect
          Slaves,        \* of each server, the addresses of its replicas
          Commands,
          SubSlots,      \* of each command, the slots of its sub-commands
          FlagSets,      \* the flags to choose from
          MaxRedirect,   \* max_redirect_count
          MaxCalls,      \* bound on the calls of the program
          MaxChanges,    \* bound on what happens to the cluster
          FirstOwner     \* of each slot

VARIABLES cc,     \* the context; None before it is made and after it is freed
          call,   \* the call that is running
          last,   \* what the last call returned
          mustReset, \* a pipeline call has failed and Reset was not called since
          calls,  \* how many calls were made
          net     \* the cluster

vars == <<cc, call, last, mustReset, calls, net>>

Idle == [op |-> "none", pc |-> "idle"]
Nothing == [op |-> "none", ok |-> TRUE, cmd |-> None, replies |-> <<>>]

(* redisClusterContextInit. *)
ContextInit ==
  [err |-> FALSE, timeout |-> FALSE, nodes |-> NoNodes, slots |-> <<>>, table |-> [s \in Slot |-> None], max |-> 5,
   retry |-> 0, need |-> FALSE, version |-> 0, requests |-> None, flags |-> {"BLOCK"}]

(* The options of a context that is not connected yet. *)
SetOptionConnectBlock(c) == [c EXCEPT !.flags = @ \cup {"BLOCK"}]
SetOptionConnectNonBlock(c) == [c EXCEPT !.flags = @ \ {"BLOCK"}]
SetOptionParseSlaves(c) == [c EXCEPT !.flags = @ \cup {"ADD_SLAVE"}]
SetOptionParseOpenSlots(c) == [c EXCEPT !.flags = @ \cup {"ADD_OPENSLOT"}]
SetOptionRouteUseSlots(c) == [c EXCEPT !.flags = @ \cup {"USE_SLOTS"}]
SetOptionMaxRedirect(c, n) == IF n <= 0 THEN c ELSE [c EXCEPT !.max = n]
Configured(flags) ==
  LET If(flag, then, else) == IF flag \in flags THEN then ELSE else
      c1 == SetOptionMaxRedirect(ContextInit, MaxRedirect)
      c2 == If("BLOCK", SetOptionConnectBlock(c1), SetOptionConnectNonBlock(c1))
      c3 == If("ADD_SLAVE", SetOptionParseSlaves(c2), c2)
      c4 == If("ADD_OPENSLOT", SetOptionParseOpenSlots(c3), c3)
  IN If("USE_SLOTS", SetOptionRouteUseSlots(c4), c4)

Init == /\ cc = None /\ call = Idle /\ last = Nothing /\ mustReset = FALSE /\ calls = 0
        /\ net = [owner |-> FirstOwner, before |-> FirstOwner, moving |-> [s \in Slot |-> None],
                  up |-> Servers, changes |-> 0]

SetError(c) == [c EXCEPT !.err = TRUE]
ClearError(c) == [c EXCEPT !.err = FALSE]

------------------------------------------------------------------------------
(* The connections.  ctx_get_by_node makes one where there is none, and makes
   one that failed again, with empty buffers: the result may have failed. *)
Open(host) == [err |-> host \notin net.up, broken |-> FALSE, timed |-> cc.timeout,
               asking |-> FALSE, q |-> <<>>]

CtxGetByNode(node) == IF node.con = None \/ node.con.err THEN Open(node.host) ELSE node.con

AppendRequest(con, req) == [con EXCEPT !.q = Append(@, req)]
Failed(con) == [con EXCEPT !.err = TRUE]

(* What a server says to a request: it serves the slots it owns; a key of a
   slot that is moving may be here or there; the rest is redirected. *)
Redirections == {"MOVED", "ASK", "TRYAGAIN", "CLUSTERDOWN"}
Reply(req, type, s) == [to |-> req, type |-> type, slot |-> s, at |-> net.moving[s]]

Answers(host, con) ==
  LET req == Head(con.q)
      s == SubSlots[req[1]][req[2]]
      Say(type) == Reply(req, type, s)
  IN CASE req[1] \in {"PING", "ASKING"} -> {[to |-> req, type |-> "ok"]}
       [] net.up # Servers /\ host # net.owner[s] -> {Say("CLUSTERDOWN"), Say("MOVED")}
       [] host = net.owner[s] /\ net.moving[s] = None -> {Say("ok"), Say("error")}
       [] host = net.owner[s] -> {Say("ok"), Say("ASK"), [Say("ASK") EXCEPT !.at = Unreadable], Say("TRYAGAIN")}
       [] host = net.moving[s] /\ con.asking -> {Say("ok"), Say("TRYAGAIN")}
       [] OTHER -> {Say("MOVED")}

(* redisGetReply on a connection without error: a reply, or NULL and an error
   when the connection has broken or nothing came in time. *)
Dead(host, con) == con.broken \/ host \notin net.up
NullReply == [to |-> None, type |-> "null"]
Exchanges(host, con) ==
  (IF Dead(host, con) \/ con.timed THEN {<<Failed(con), NullReply>>} ELSE {})
  \cup (IF Dead(host, con) \/ con.q = <<>> THEN {}
        ELSE {<<[con EXCEPT !.q = Tail(@), !.asking = (Head(con.q)[1] = "ASKING")], r>> :
                r \in Answers(host, con)})

Request(host, con, req) == Exchanges(host, AppendRequest(con, req))

------------------------------------------------------------------------------
(* Returning from a call; the next one forgets what this one returned. *)
Return(c, ok, replies) ==
  /\ cc' = c
  /\ call' = Idle
  /\ last' = [op |-> call.op, ok |-> ok, cmd |-> call.cmd, replies |-> replies]
  /\ mustReset' = /\ call.op # "reset"
                  /\ mustReset \/ (~ok /\ call.op \in {"append", "get"})
  /\ UNCHANGED <<calls, net>>

Goto(c, next) ==
  /\ cc' = c
  /\ call' = next
  /\ UNCHANGED <<last, mustReset, calls, net>>

Begin(c, next) ==
  /\ call = Idle /\ calls < MaxCalls
  /\ calls' = calls + 1
  /\ cc' = c
  /\ call' = next
  /\ last' = Nothing
  /\ UNCHANGED <<mustReset, net>>

(* A call that ends at once with an error. *)
Refuse(op, c) ==
  /\ call = Idle /\ calls < MaxCalls
  /\ calls' = calls + 1
  /\ cc' = SetError(c)
  /\ last' = [Nothing EXCEPT !.op = op, !.ok = FALSE]
  /\ UNCHANGED <<call, mustReset, net>>

SetCon(c, key, con) == [c EXCEPT !.nodes[key].con = con]

(* The node a step talks to: one of the dictionary, or, when an ASK node
   could not be added to it, one that only this call knows. *)
HostAt == IF call.loose = None THEN cc.nodes[call.at].host ELSE call.loose.host
ConAt == IF call.loose = None THEN cc.nodes[call.at].con ELSE call.loose.con
WithCon(c, k, con) == IF k.loose = None THEN SetCon(c, k.at, con) ELSE c
Loose(k, con) == IF k.loose = None THEN k ELSE [k EXCEPT !.loose.con = con]

------------------------------------------------------------------------------
(* Connecting: redisClusterSetOptionAddNodes, then cluster_update_route.  An
   update asks the nodes one after the other until one answer can be used. *)
AddNode(c, addr) ==
  IF addr \in DOMAIN c.nodes THEN c
  ELSE [c EXCEPT !.nodes = @ @@ (addr :> NodeInit(addr, "null"))]
AddNodes(c, addrs) ==
  FoldLeft(LAMBDA d, a : IF a = Bad \/ d.err THEN SetError(d) ELSE AddNode(d, a), c, addrs)

Updating(c, k, then) == [k EXCEPT !.pc = "update", !.todo = DOMAIN c.nodes, !.then = then]

NewCall(op, cmd) ==
  [op |-> op, pc |-> op, cmd |-> cmd, sub |-> 1, replies |-> <<>>, at |-> None,
   loose |-> None, todo |-> {}, then |-> "return"]

Connect ==
  /\ cc = None
  /\ \E flags \in FlagSets, addrs \in Seeds, timed \in BOOLEAN :
       LET c == AddNodes([Configured(flags) EXCEPT !.timeout = timed], addrs)
           k == NewCall("connect", None)
       IN IF c.err THEN Refuse("connect", c) ELSE Begin(c, Updating(c, k, "return"))

(* redisClusterConnect2 asks for the route again, here when the first time has
   failed. *)
Connect2 == /\ cc # None /\ last.op = "connect" /\ cc.err
            /\ Begin(cc, Updating(cc, NewCall("connect", None), "return"))

(* redisClusterSetOptionTimeout, here after a call that has failed: only a
   second, different timeout reaches the connections that are there already. *)
SetTimed(node) == IF node.con = None \/ node.con.err THEN node ELSE [node EXCEPT !.con.timed = TRUE]
SetOptionTimeout ==
  /\ cc # None /\ call = Idle /\ ~last.ok
  /\ cc' = IF ~cc.timeout THEN [cc EXCEPT !.timeout = TRUE]
           ELSE [cc EXCEPT !.nodes = [k \in DOMAIN @ |-> SetTimed(@[k])]]
  /\ UNCHANGED <<call, last, mustReset, calls, net>>

(* What the server at answers to CLUSTER SLOTS and CLUSTER NODES: the cluster
   as it is or as it was before the last change, in either order, or something
   that cannot be used.  Its own line also names the slots it is moving. *)
OpenParts(m) ==
  FoldSet(LAMBDA s, l : IF net.owner[s] = m THEN Append(l, <<s, ">", net.moving[s]>>)
                        ELSE IF net.moving[s] = m THEN Append(l, <<s, "<", net.owner[s]>>) ELSE l,
          <<>>, {s \in Slot : net.moving[s] # None})
NodeLine(addr, role, master, myself, parts) ==
  [short |-> FALSE, addr |-> addr, role |-> role, name |-> addr, master |-> master, myself |-> myself, parts |-> parts]
MasterLine(owner, m, at) ==
  NodeLine(m, "master", "-", m = at,
           FoldSet(LAMBDA s, l : Append(l, <<s>>), <<>>, {s \in Slot : owner[s] = m})
           \o (IF m = at THEN OpenParts(m) ELSE <<>>))
LinesOf(owner, at) ==
  LET Listing(m) == <<MasterLine(owner, m, at)>>
                    \o [i \in DOMAIN Slaves[m] |-> NodeLine(Slaves[m][i], "slave", m, FALSE, <<>>)]
      l == FoldSet(LAMBDA m, lines : lines \o Listing(m), <<>>, Servers)
  IN {l, Reverse(l)}
(* A second owner of a slot, a line that is cut off, an address that is no
   address, one that is there twice; a node without address and one that is
   neither master nor slave, which are no obstacle. *)
OddLines(at) ==
  {NodeLine("x", "master", "-", FALSE, <<<<0>>>>), [NodeLine("x", "master", "-", FALSE, <<>>) EXCEPT !.short = TRUE],
   NodeLine(Bad, "master", "-", FALSE, <<>>), NodeLine(Bad, "slave", at, FALSE, <<>>),
   NodeLine(at, "master", "-", TRUE, <<>>), NodeLine(":0", "master", "-", FALSE, <<>>),
   NodeLine("x", "noaddr", "-", FALSE, <<>>)}
OddRegions(at) ==
  {[start |-> 0, end |-> 0, nodes |-> <<at>>], [start |-> 1, end |-> 0, nodes |-> <<at>>],
   [start |-> NumSlots, end |-> NumSlots, nodes |-> <<at>>], [start |-> 0, end |-> 0, nodes |-> <<>>],
   [start |-> 0, end |-> 0, nodes |-> <<Bad>>], [start |-> 0, end |-> 0, nodes |-> <<"x", Bad>>]}
RouteReplies(at) ==
  LET views == {net.owner, net.before}
      Slots(body) == [type |-> "array", body |-> body]
      Nodes(body) == [type |-> "string", body |-> body]
      some == CHOOSE l \in LinesOf(net.owner, at) : TRUE
  IN {[type |-> "error", body |-> <<>>]}
     \cup (IF "USE_SLOTS" \in cc.flags
           THEN {Slots(RegionsOf(v, Slaves)) : v \in views} \cup {Slots(<<>>)}
                \cup {Slots(Append(RegionsOf(net.owner, Slaves), r)) : r \in OddRegions(at)}
           ELSE UNION {{Nodes(l) : l \in LinesOf(v, at)} : v \in views}
                \cup {Nodes(Append(some, l)) : l \in OddLines(at)})

UpdateFails(c) ==
  Return([SetError(c) EXCEPT !.retry = IF call.then = "retry" THEN 0 ELSE @], FALSE, <<>>)

(* cluster_update_route: an error of an earlier node is forgotten when a later
   one gives the route. *)
UpdateRoute ==
  /\ call.pc = "update"
  /\ \/ call.todo = {} /\ UpdateFails(cc)
     \/ \E n \in call.todo :
          LET rest == [call EXCEPT !.todo = @ \ {n}]
          IN \/ Goto(SetError(cc), rest)  \* it cannot be reached, or does not answer in time
             \/ /\ cc.nodes[n].host \in net.up
                /\ \E reply \in RouteReplies(cc.nodes[n].host) :
                     LET c == UpdateRouteByAddr(ClearError(cc), reply)
                     IN CASE c.err -> Goto(c, rest)
                          [] call.then = "return" -> Return(c, TRUE, <<>>)
                          [] call.then = "reset" -> Return([c EXCEPT !.need = FALSE], TRUE, <<>>)
                          [] call.then = "retry" -> Goto(c, [rest EXCEPT !.pc = "retry", !.todo = {}])

------------------------------------------------------------------------------
(* redisClusterCommand and its variants.  The program does not mix it with a
   pipeline that it has not reset. *)
Command == /\ cc # None /\ ~mustReset /\ cc.requests = None
           /\ \E c \in Commands :
                Begin(ClearError(cc), [NewCall("command", c) EXCEPT !.pc = "retry"])

(* redisClusterCommand and its variants with a format that cannot be filled in,
   and with a command that has no slot. *)
CommandBadFormat == cc # None /\ ~mustReset /\ cc.requests = None /\ Refuse("command", cc)
CommandNoSlot == cc # None /\ ~mustReset /\ cc.requests = None /\ Refuse("command", [cc EXCEPT !.retry = 0])

SlotNow == SubSlots[call.cmd][call.sub]
CommandFails(c) == Return([SetError(c) EXCEPT !.retry = 0], FALSE, <<>>)

(* redis_cluster_command_execute, from the label retry: the node of the slot,
   or, when it cannot be reached, any node that answers a PING. *)
Retry ==
  /\ call.pc = "retry"
  /\ LET p == NodeByTable(cc, SlotNow)
         con == CtxGetByNode(cc.nodes[p[2]])
     IN CASE p = None -> CommandFails(cc)
          [] p # None /\ con.err ->
               Goto(SetCon(cc, p[2], con), [call EXCEPT !.pc = "search", !.todo = DOMAIN cc.nodes])
          [] p # None /\ ~con.err ->
               Goto(SetCon(cc, p[2], con), [call EXCEPT !.pc = "send", !.at = p[2]])

(* node_get_witch_connected, one node a step, and what follows it. *)
Found(c, n) ==
  LET d == [c EXCEPT !.retry = @ + 1]
  IN IF d.retry > d.max THEN CommandFails(d)
     ELSE Goto(d, [call EXCEPT !.pc = "send", !.at = n, !.todo = {}])

Search ==
  /\ call.pc = "search"
  /\ \/ call.todo = {} /\ CommandFails(cc)
     \/ \E n \in call.todo :
          LET con == CtxGetByNode(cc.nodes[n])
              rest == [call EXCEPT !.todo = @ \ {n}]
          IN \/ con.err /\ Goto(SetCon(cc, n, con), rest)
             \/ /\ ~con.err
                /\ \E x \in Request(cc.nodes[n].host, con, <<"PING", 1>>) :
                     IF x[2].type = "ok" THEN Found(SetCon(cc, n, x[1]), n)
                     ELSE Goto(SetCon(cc, n, x[1]), rest)

(* A reply that does not redirect; an error reply ends the whole command. *)
SubDone(c, k, r) ==
  CASE r.type = "error" -> Return([c EXCEPT !.retry = 0], TRUE, <<r>>)
    [] r.type # "error" /\ k.sub = Len(SubSlots[k.cmd]) ->
         Return([c EXCEPT !.retry = 0], TRUE, Append(k.replies, r))
    [] r.type # "error" /\ k.sub < Len(SubSlots[k.cmd]) ->
         Goto(c, [k EXCEPT !.pc = "retry", !.sub = @ + 1, !.replies = Append(@, r),
                           !.loose = None])

(* A reply that redirects.  An ASK node that is not in the dictionary under
   its address is added under the slot's number; when that is taken, the node
   is known only to this call. *)
Asking(c, k, r) ==
  LET key == AskKey(c, r)
      new == IF AskAdds(c, r) THEN [c EXCEPT !.nodes = @ @@ (key :> AskNode(c, r))] ELSE c
      hidden == r.at \notin DOMAIN c.nodes /\ ~AskAdds(c, r)
  IN IF AskNode(c, r) = None THEN CommandFails(c)
     ELSE Goto(new, [k EXCEPT !.pc = "ask", !.at = key,
                              !.loose = IF hidden THEN AskNode(c, r) ELSE None])

Follow(c, k, r) ==
  CASE r.type = "MOVED" -> Goto(c, Updating(c, [k EXCEPT !.loose = None], "retry"))
    [] r.type = "ASK" -> Asking(c, k, r)
    [] r.type \notin {"MOVED", "ASK"} -> Goto(c, [k EXCEPT !.pc = "retry", !.loose = None])

(* Two bugs: TRYAGAIN is not counted, the last redirection is returned. *)
Redirect_Uncounted(c, k, r) ==
  LET d == [c EXCEPT !.retry = IF r.type = "TRYAGAIN" THEN @ ELSE @ + 1]
  IN IF d.retry > d.max THEN CommandFails(d) ELSE Follow(d, k, r)
Redirect_Returns(c, k, r) ==
  LET d == [c EXCEPT !.retry = @ + 1]
  IN IF d.retry > d.max THEN SubDone(d, k, r) ELSE Follow(d, k, r)

Redirect(c, k, r) ==
  LET d == [c EXCEPT !.retry = @ + 1]
  IN IF d.retry > d.max THEN CommandFails(d) ELSE Follow(d, k, r)

(* From the label ask_retry. *)
Send ==
  /\ call.pc = "send"
  /\ \E x \in Request(HostAt, ConAt, <<call.cmd, call.sub>>) :
       LET c == WithCon(cc, call, x[1])
           k == Loose(call, x[1])
       IN CASE x[2].type = "null" -> CommandFails(c)
            [] x[2].type \in Redirections -> Redirect(c, k, x[2])
            [] OTHER -> SubDone(c, k, x[2])

Ask ==
  /\ call.pc = "ask"
  /\ LET con == CtxGetByNode(IF call.loose = None THEN cc.nodes[call.at] ELSE call.loose)
     IN \/ con.err /\ CommandFails(WithCon(cc, call, con))
        \/ /\ ~con.err
           /\ \E x \in Request(HostAt, con, <<"ASKING", 1>>) :
                IF x[2].type = "null" THEN CommandFails(WithCon(cc, call, x[1]))
                ELSE Goto(WithCon(cc, call, x[1]), [Loose(call, x[1]) EXCEPT !.pc = "send"])

------------------------------------------------------------------------------
(* redisClusterAppendCommand: each sub-command goes into the buffer of its
   node's connection; one that fails leaves the earlier ones there. *)
Opened(c) == [c EXCEPT !.requests = IF @ = None THEN <<>> ELSE @]
AppendCommand ==
  /\ cc # None /\ ~mustReset
  /\ \E c \in Commands : Begin(Opened(cc), NewCall("append", c))
AppendBadFormat == cc # None /\ ~mustReset /\ Refuse("append", cc)
AppendNoSlot == cc # None /\ ~mustReset /\ Refuse("append", Opened(cc))

AppendFails(c) == Return(SetError(c), FALSE, <<>>)
AppendDone(c) == Return([c EXCEPT !.requests = Append(@, call.cmd)], TRUE, <<>>)
AppendNext(c) ==
  IF call.sub = Len(SubSlots[call.cmd]) THEN AppendDone(c) ELSE Goto(c, [call EXCEPT !.sub = @ + 1])

AppendSub ==
  /\ call.pc = "append"
  /\ LET p == NodeByTable(cc, SlotNow)
         con == CtxGetByNode(cc.nodes[p[2]])
     IN CASE p = None -> AppendFails(cc)
          [] p # None /\ con.err -> AppendFails(SetCon(cc, p[2], con))
          [] p # None /\ ~con.err -> AppendNext(SetCon(cc, p[2], AppendRequest(con, <<call.cmd, call.sub>>)))

(* redisClusterGetReply, called by the program or by redisClusterReset. *)
GetReply ==
  /\ cc # None /\ ~mustReset /\ cc.requests # None
  /\ Begin(ClearError(cc), NewCall("get", None))

(* redisCLusterClearAll. *)
ClearAll_KeepsBusy(c) ==
  [ClearError(c) EXCEPT !.nodes =
     [k \in DOMAIN @ |-> IF @[k].con # None /\ @[k].con.err
                         THEN [@[k] EXCEPT !.con = None] ELSE @[k]]]
ClearAll(c) ==
  [ClearError(c) EXCEPT !.nodes = [k \in DOMAIN @ |-> [@[k] EXCEPT !.con = None]]]

GotReply(c, ok, replies) ==
  CASE call.op = "get" -> Return(c, ok, replies)
    [] call.op = "reset" /\ ~ok -> Goto(ClearAll(c), [call EXCEPT !.pc = "release"])
    [] call.op = "reset" /\ ok ->
         Goto(c, [call EXCEPT !.pc = IF replies = <<>> THEN "release" ELSE "get"])

TakeRequest ==
  /\ call.pc = "get"
  /\ CASE cc.requests = None -> GotReply(ClearError(cc), FALSE, <<>>)
       [] cc.requests = <<>> -> GotReply(ClearError(cc), TRUE, <<>>)
       [] OTHER -> Goto(ClearError(cc), [call EXCEPT !.pc = "read", !.cmd = Head(cc.requests),
                                                     !.sub = 1, !.replies = <<>>])

(* __redisClusterGetReply for one sub-command: the node is looked up again,
   and a connection that failed is made again before it is read. *)
Missed(c) ==
  IF c.need THEN SetError(c)
  ELSE LET over == c.retry + 1 > c.max
       IN [SetError(c) EXCEPT !.need = over, !.retry = IF over THEN 0 ELSE @ + 1]

(* The rest of redisClusterGetReply: the request leaves the list, with or
   without a reply. *)
ReadFails(c) == GotReply([c EXCEPT !.requests = Tail(@)], FALSE, <<>>)
GotSub(c, r) ==
  IF call.sub = Len(SubSlots[call.cmd])
  THEN GotReply([c EXCEPT !.requests = Tail(@)], TRUE, Append(call.replies, r))
  ELSE Goto(c, [call EXCEPT !.sub = @ + 1, !.replies = Append(@, r)])

ReadSub ==
  /\ call.pc = "read"
  /\ LET p == NodeByTable(cc, SlotNow)
         con == CtxGetByNode(cc.nodes[p[2]])
     IN \/ p = None /\ ReadFails(SetError(cc))
        \/ p # None /\ con.err /\ ReadFails(Missed(SetCon(cc, p[2], con)))
        \/ /\ p # None /\ ~con.err
           /\ \E x \in Exchanges(cc.nodes[p[2]].host, con) :
                LET c == SetCon(cc, p[2], x[1])
                IN IF x[2].type = "null" THEN ReadFails(SetError(c))
                   ELSE GotSub([c EXCEPT !.need = @ \/ x[2].type = "MOVED"], x[2])

------------------------------------------------------------------------------
(* redisClusterReset: after an error every connection is closed; otherwise
   what is buffered is sent and every reply is read. *)
Reset ==
  /\ cc # None /\ cc.nodes # NoNodes
  /\ Begin(IF cc.err THEN ClearAll(cc) ELSE cc,
           [NewCall("reset", None) EXCEPT !.pc = IF cc.err THEN "release" ELSE "sendall",
                                          !.todo = IF cc.err THEN {} ELSE DOMAIN cc.nodes])

(* redisCLusterSendAll, one node a step: it stops at the first failure, which
   nobody looks at. *)
SendAll ==
  /\ call.pc = "sendall"
  /\ LET done == [call EXCEPT !.pc = "get", !.todo = {}]
     IN \/ call.todo = {} /\ Goto(cc, done)
        \/ \E n \in call.todo :
             LET con == CtxGetByNode(cc.nodes[n])
             IN \/ con.err /\ Goto(SetCon(cc, n, con), done)
                \/ /\ Dead(cc.nodes[n].host, con) /\ con.q # <<>>
                   /\ Goto(SetCon(cc, n, Failed(con)), done)
                \/ ~con.err /\ Goto(SetCon(cc, n, con), [call EXCEPT !.todo = @ \ {n}])

Release ==
  /\ call.pc = "release"
  /\ LET c == [cc EXCEPT !.requests = None]
     IN IF c.need THEN Goto(c, Updating(c, call, "reset")) ELSE Return(c, TRUE, <<>>)

(* redisClusterFree. *)
Free == /\ cc # None /\ call = Idle
        /\ cc' = None /\ mustReset' = FALSE /\ last' = Nothing
        /\ UNCHANGED <<call, calls, net>>

------------------------------------------------------------------------------
(* The cluster: slots move from one server to another, servers stop and come
   back. *)
Change(n) == net.changes < MaxChanges /\ net' = [n EXCEPT !.changes = @ + 1]

MoveStarts == /\ \E s \in Slot, t \in net.up :
                   /\ net.moving[s] = None /\ t # net.owner[s]
                   /\ Change([net EXCEPT !.moving[s] = t])
              /\ UNCHANGED <<cc, call, last, mustReset, calls>>
MoveEnds == /\ \E s \in Slot :
                 /\ net.moving[s] # None
                 /\ Change([net EXCEPT !.moving[s] = None, !.owner[s] = net.moving[s],
                                       !.before = net.owner])
            /\ UNCHANGED <<cc, call, last, mustReset, calls>>

Cut(node, host) == IF node.host = host /\ node.con # None THEN [node EXCEPT !.con.broken = TRUE]
                   ELSE node
ServerStops ==
  /\ \E s \in net.up :
       /\ Change([net EXCEPT !.up = @ \ {s}])
       /\ cc' = IF cc = None THEN cc
                ELSE [cc EXCEPT !.nodes = [k \in DOMAIN @ |-> Cut(@[k], s)]]
       /\ call' = IF call = Idle \/ call.loose = None THEN call
                  ELSE [call EXCEPT !.loose = Cut(@, s)]
  /\ UNCHANGED <<last, mustReset, calls>>
ServerStarts == /\ \E s \in Servers \ net.up : Change([net EXCEPT !.up = @ \cup {s}])
                /\ UNCHANGED <<cc, call, last, mustReset, calls>>

CallStep == /\ call # Idle
            /\ \/ UpdateRoute \/ Retry \/ Search \/ Send \/ Ask \/ AppendSub
               \/ TakeRequest \/ ReadSub \/ SendAll \/ Release
Program == \/ Connect \/ Connect2 \/ SetOptionTimeout \/ Command \/ CommandBadFormat \/ CommandNoSlot
           \/ AppendCommand \/ AppendBadFormat \/ AppendNoSlot \/ GetReply \/ Reset \/ Free
Cluster == MoveStarts \/ MoveEnds \/ ServerStops \/ ServerStarts

Next == CallStep \/ Program \/ Cluster

Spec == Init /\ [][Next]_vars

(* The thread that is in a call goes on: each exchange ends with a reply, with
   an error or, when the program has set one, with a timeout. *)
FairSpec == Spec /\ WF_vars(CallStep)

------------------------------------------------------------------------------
(* What a call returns answers the command it is about: the replies of the
   sub-commands come from their own requests, in their order, and not from
   something that an earlier call left behind on a connection.  This holds for
   a program that calls redisClusterReset after a pipeline and after a failed
   pipeline call (hircluster.c:3921-3926, 4172-4215). *)
AnswersItsCommand ==
  \A i \in DOMAIN last.replies :
    LET r == last.replies[i]
    IN r.to[1] = last.cmd /\ (r.type = "error" \/ r.to[2] = i)

(* redisClusterCommand returns NULL exactly when it has set an error, and it
   never hands a redirection to the program (hircluster.c:2998-3146). *)
RedirectionsFollowed ==
  last.op = "command" =>
    /\ (last.replies = <<>>) = cc.err
    /\ \A i \in DOMAIN last.replies : last.replies[i].type \notin Redirections

(* The route is of one piece after every update, also one that failed halfway:
   each slot's entry in the table is a live node of the dictionary that lists
   the slot, the regions agree with it, the binary search finds the same node,
   and the slaves are the ones the answer gave (hircluster.c:1351-1488).  The
   update that it has replaced would take the same answers and install the
   same route (hircluster.c:1494-1881). *)
SameRoute(c, d) ==
  LET Bare(nodes) == [k \in DOMAIN nodes |-> <<nodes[k].host, nodes[k].role, nodes[k].slots, nodes[k].slaves>>]
  IN c.err = d.err /\ c.table = d.table /\ c.slots = d.slots /\ c.version = d.version /\ Bare(c.nodes) = Bare(d.nodes)
OldAgrees ==
  (call.pc = "update" /\ call.todo = DOMAIN cc.nodes /\ "USE_SLOTS" \notin cc.flags) =>
    \A n \in call.todo : \A reply \in RouteReplies(cc.nodes[n].host) :
      SameRoute(UpdateRouteByAddr(ClearError(cc), reply),
                UpdateRouteWithNodesOld(ClearError(cc), reply, [Open(cc.nodes[n].host) EXCEPT !.err = FALSE]))
RouteAgrees ==
  cc # None =>
    /\ OldAgrees
    /\ \A s \in Slot :
      LET p == cc.table[s]
          in == {r \in Range(cc.slots) : s \in r.start .. r.end}
      IN IF p = None THEN in = {}
         ELSE /\ Alive(cc, p)
              /\ \E q \in Range(cc.nodes[p[2]].slots) : s \in q[1] .. q[2]
              /\ \A r \in in : r.node = p
              /\ NodeBySlot(cc, s) = p
              /\ "ADD_SLAVE" \in cc.flags => Range(cc.nodes[p[2]].slaves) = Range(Slaves[p[2]])

(* Every call ends, whatever the cluster does meanwhile, when the connections
   have a timeout: redirections are counted and each search visits a node
   once.  Without a timeout redisClusterReset may wait forever: after
   redisCLusterSendAll has failed, the connection is made again and read
   although nothing was sent on it (hircluster.c:4185-4195). *)
Timed == cc # None /\ cc.timeout /\ \A k \in DOMAIN cc.nodes : cc.nodes[k].con = None \/ cc.nodes[k].con.timed
CallReturns == (call # Idle /\ Timed) ~> call = Idle
==============================================================================
