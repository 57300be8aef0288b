---------------------------- MODULE ClusterAsync ----------------------------
(***************************************************************************)
(* hiredis-vip-master/hircluster.c: the asynchronous cluster client.  Each *)
(* node of the route has an asynchronous connection; a command is wrapped  *)
(* in a cluster_async_data and redisClusterAsyncCallback stands between    *)
(* the connection and the program's callback: it follows redirections,     *)
(* which may replace the whole route while connections are in the middle   *)
(* of a callback.                                                          *)
(*                                                                         *)
(* A connection is what AsyncContext models in full, reduced to what       *)
(* matters here: the callbacks that wait in it and the flags that make it  *)
(* refuse commands.  The calls that are nested in one another are a stack  *)
(* of tasks; a step takes the topmost one and puts on the stack what it    *)
(* has to do before its caller goes on.                                    *)
(***************************************************************************)
EXTENDS ClusterRoute

CONSTANTS Servers,       \* their addresses
          SlotOf,        \* the slots of the commands, in the order they are issued
          MaxRedirect,   \* max_redirect_count
          MaxChanges,    \* bound on what happens to the cluster
          FirstOwner     \* of each slot

VARIABLES cc,     \* the cluster context
          acs,    \* the asynchronous connections by number
          stack,  \* the tasks that are nested in one another, innermost first
          cad,    \* of each command, its cluster_async_data and what became of it
          acc,    \* err of the asynchronous cluster context and the program's history
          net     \* the cluster

vars == <<cc, acs, stack, cad, acc, net>>

Commands == DOMAIN SlotOf
Asking == 0

Unused == [state |-> "new", retry |-> 0, reply |-> "none"]

(* redisClusterAsyncInitialize. *)
AsyncInitialize == [state |-> "open", err |-> FALSE, disconnected |-> FALSE, reached |-> FALSE]

Init == /\ cc = [err |-> FALSE, nodes |-> NoNodes, slots |-> <<>>, table |-> [s \in Slot |-> None],
                 version |-> 0, flags |-> {"USE_SLOTS"}, due |-> FALSE, freed |-> {}]
        /\ acs = [i \in {} |-> None]
        /\ stack = <<>>
        /\ cad = [c \in Commands |-> Unused]
        /\ acc = [AsyncInitialize EXCEPT !.state = "none"]
        /\ net = [owner |-> FirstOwner, before |-> FirstOwner, moving |-> [s \in Slot |-> None],
                  up |-> Servers, changes |-> 0]

Live == acc.state = "open"
AtLoop == Live /\ stack = <<>>

(* What the code does with memory that has been freed cannot be said. *)
Stale == /\ acc' = [acc EXCEPT !.state = "stale"]
         /\ stack' = <<>>
         /\ UNCHANGED <<cc, acs, cad, net>>

------------------------------------------------------------------------------
(* The route.  A pointer to a node is good while its dictionary has the node;
   a node that is in no dictionary is never freed. *)
Hidden == 0
Usable(p) == p[1] = Hidden \/ (Alive(cc, p) /\ p[2] \notin cc.freed)
Releasing == \E i \in DOMAIN stack : stack[i].t = "release"

(* cluster_update_route and node_get_witch_connected find a node that is up. *)
Reachable == \E k \in DOMAIN cc.nodes : cc.nodes[k].host \in net.up
Routes ==
  {[cc EXCEPT !.err = TRUE]} \cup
  (IF ~Reachable THEN {}
   ELSE {UpdateRouteByAddr([cc EXCEPT !.err = FALSE],
           [type |-> "array", body |-> RegionsOf(v, [s \in Servers |-> <<>>])]) :
           v \in {net.owner, net.before}})

(* A new route: connections of addresses that stay are handed over, then the
   old nodes are destroyed one by one, and only then the new ones replace
   them. *)
Stays(new, k) == k \in DOMAIN cc.nodes \cap DOMAIN new.nodes
Relink(new) ==
  [i \in DOMAIN acs |->
     LET k == acs[i].data[2]
     IN IF Stays(new, k) /\ cc.nodes[k].acon = i THEN [acs[i] EXCEPT !.data = <<new.version, k>>]
        ELSE acs[i]]
HandedOver(new) ==
  [cc EXCEPT !.nodes = [k \in DOMAIN @ |-> IF Stays(new, k) THEN [@[k] EXCEPT !.acon = None] ELSE @[k]]]
ReleaseTask(new) == [t |-> "release", todo |-> DOMAIN cc.nodes, now |-> {}, new |-> new]

------------------------------------------------------------------------------
(* redisClusterAsyncConnect: the new context copies the error of the one it is
   made from. *)
CopyError(a, c) == [a EXCEPT !.err = c.err]
AsyncConnect ==
  /\ acc.state = "none"
  /\ LET seeded == [cc EXCEPT !.nodes = [s \in Servers |-> NodeInit(s, "null")]]
     IN \/ cc' = UpdateRouteByAddr(seeded, [type |-> "array", body |-> RegionsOf(net.owner, [s \in Servers |-> <<>>])])
        \/ cc' = [seeded EXCEPT !.err = TRUE]
  /\ acc' = CopyError(AsyncInitialize, cc')
  /\ UNCHANGED <<acs, stack, cad, net>>

(* actx_get_by_node: the connection of the node, or a new one, which may fail
   at once.  The code does not expect to find a connection that has failed,
   and replaces it. *)
NewId == CHOOSE i \in 1 .. Cardinality(DOMAIN acs) + 1 : i \notin DOMAIN acs
Opened(host, p, err) ==
  [host |-> host, data |-> p, err |-> err, broken |-> FALSE, flags |-> {}, busy |-> FALSE,
   asking |-> FALSE, q |-> <<>>]
ActxGetByNode(c, node, p) ==
  IF node.acon # None /\ ~acs[node.acon].err
  THEN {[id |-> node.acon, acs |-> acs, cc |-> c]}
  ELSE {[id |-> NewId, acs |-> acs @@ (NewId :> Opened(node.host, p, e)),
         cc |-> IF p[1] = Hidden THEN c ELSE [c EXCEPT !.nodes[p[2]].acon = NewId]] :
          e \in {FALSE, node.host \notin net.up}}
NotReached(node) == node.acon # None /\ acs[node.acon].err

(* redisAsyncCommand is refused when the connection is closing or freed. *)
Refuses(a) == a.flags # {}
AsyncCommand(all, id, c) == [all EXCEPT ![id].q = Append(@, c)]

(* cluster_async_data_free, of a command that ends without its callback. *)
DataFree(data, c, how) == [data EXCEPT ![c].state = how]

(* redisClusterAsyncCommand and its variants.  It forgets earlier errors; data
   is cad before the call, rest what is on the stack after it. *)
Issue(c, data, rest) ==
  LET p == NodeByTable(cc, SlotOf[c])
      node == cc.nodes[p[2]]
      clean == [cc EXCEPT !.err = FALSE]
      Ends(state, err) ==
        /\ cad' = IF state = "refused" THEN DataFree(data, c, state) ELSE [data EXCEPT ![c].state = state]
        /\ acc' = [acc EXCEPT !.err = err, !.reached = @ \/ (p # None /\ NotReached(node))]
        /\ stack' = rest
        /\ UNCHANGED net
  IN /\ data[c].state = "new" /\ \A d \in 1 .. c - 1 : data[d].state # "new"
     /\ \/ p = None /\ Ends("refused", TRUE) /\ cc' = clean /\ UNCHANGED acs
        \/ p # None /\ ~Usable(p) /\ Stale
        \/ /\ p # None /\ Usable(p)
           /\ \E x \in ActxGetByNode(clean, node, p) :
                LET a == x.acs[x.id]
                IN /\ cc' = x.cc
                   /\ \/ (a.err \/ Refuses(a)) /\ Ends("refused", a.err) /\ acs' = x.acs
                      \/ /\ ~a.err /\ ~Refuses(a) /\ Ends("pending", FALSE)
                         /\ acs' = AsyncCommand(x.acs, x.id, c)

UserCommand == AtLoop /\ \E c \in Commands : Issue(c, cad, <<>>)

------------------------------------------------------------------------------
(* redisClusterAsyncCallback.  It ends at the label done, which calls the
   program's callback, at retry, which sends the command again, or at error,
   which forgets it. *)
Top(t) == Live /\ stack # <<>> /\ Head(stack).t = t
Task == Head(stack)
Becomes(tasks) == stack' = tasks \o Tail(stack)
UserTask == [Task EXCEPT !.t = "user"]
Done(err) == Becomes(<<UserTask>>) /\ acc' = [acc EXCEPT !.err = err]

(* cluster_update_route, from a callback: then comes after the old nodes are
   gone.  err and due are acc.err and whether an update is still due. *)
UpdateThen(then, err, due) ==
  \/ Releasing /\ Stale
  \/ /\ ~Releasing
     /\ \E r \in Routes :
          LET new == [r EXCEPT !.due = due]
          IN \/ r.err /\ cc' = new /\ Done(TRUE) /\ UNCHANGED acs
             \/ /\ ~r.err
                /\ acs' = Relink(new)
                /\ cc' = [HandedOver(new) EXCEPT !.due = due]
                /\ Becomes(<<ReleaseTask(new), then>>)
                /\ acc' = [acc EXCEPT !.err = err]
     /\ UNCHANGED <<cad, net>>

(* cluster_config_get, with what the node that was found answers to CONFIG GET
   cluster-node-timeout: the value, or None and an error. *)
TimeoutName == "cluster-node-timeout"
ConfigGet(reply) ==
  CASE ~Reachable \/ reply.type # "array" -> None
    [] Len(reply.element) # 2 -> None
    [] \E i \in 1 .. 2 : reply.element[i].type # "string" -> None
    [] reply.element[1].str # TimeoutName -> None
    [] OTHER -> reply.element[2].str

(* The answers: a string is its characters, of which those above 9 are no
   digits. *)
Text(str) == [type |-> "string", str |-> str]
ConfigReplies ==
  {[type |-> "null"], [type |-> "error"], [type |-> "array", element |-> <<>>],
   [type |-> "array", element |-> <<[type |-> "nil"], Text(<<5>>)>>],
   [type |-> "array", element |-> <<Text("port"), Text(<<5>>)>>],
   [type |-> "array", element |-> <<Text(TimeoutName), [type |-> "nil"]>>]}
  \cup {[type |-> "array", element |-> <<Text(TimeoutName), Text(v)>>] : v \in {<<>>, <<0>>, <<1, 10>>, <<1, 5>>}}

(* hi_atoi. *)
Atoi(str) ==
  IF str = <<>> \/ \E i \in DOMAIN str : str[i] > 9 THEN -1
  ELSE FoldLeft(LAMBDA n, d : 10 * n + d, 0, str)

(* No reply: the connection has failed or was closed.  Enough failures of a
   node make an update of the route due after the cluster's node timeout. *)
NullCallback ==
  /\ Top("reply") /\ Task.r = "null"
  /\ LET a == acs[Task.ac]
         k == a.data[2]
         hidden == a.data[1] = Hidden
         over == cc.nodes[k].failures + 1 > MaxRedirect
         Counts(c, err) == cc' = c /\ Done(err) /\ UNCHANGED <<acs, cad, net>>
     IN \/ ~Usable(a.data) /\ Stale
        \/ Usable(a.data) /\ (cc.due \/ hidden) /\ Counts(cc, a.err)
        \/ Usable(a.data) /\ cc.due /\ UpdateThen(UserTask, a.err, FALSE)
        \/ /\ Usable(a.data) /\ ~cc.due /\ ~hidden /\ ~over
           /\ Counts([cc EXCEPT !.nodes[k].failures = @ + 1], a.err)
        \/ Usable(a.data) /\ ~cc.due /\ ~hidden /\ over /\ Releasing /\ Stale
        \/ /\ Usable(a.data) /\ ~cc.due /\ ~hidden /\ over /\ ~Releasing
           /\ \E reply \in ConfigReplies :
                LET str == ConfigGet(reply)
                    due == str # None /\ Atoi(str) > 0
                IN Counts([cc EXCEPT !.nodes[k].failures = 0, !.due = due, !.err = @ \/ str = None],
                          a.err \/ ~due)

(* A redirection is counted before it is followed. *)
Redirections == {"MOVED", "ASK", "TRYAGAIN"}

(* Mutants: the count is not kept; the limit is reported and the redirection
   followed all the same. *)
Redirected_Uncounted ==
  /\ Top("reply") /\ Task.r \in Redirections
  /\ Becomes(<<[Task EXCEPT !.t = Task.r]>>)
  /\ UNCHANGED <<cc, acs, cad, acc, net>>
Redirected_FallsThrough ==
  /\ Top("reply") /\ Task.r \in Redirections
  /\ Becomes(IF cad[Task.cmd].retry + 1 > MaxRedirect THEN <<UserTask, [Task EXCEPT !.t = Task.r]>>
             ELSE <<[Task EXCEPT !.t = Task.r]>>)
  /\ cad' = [cad EXCEPT ![Task.cmd].retry = @ + 1]
  /\ UNCHANGED <<cc, acs, acc, net>>
Redirected ==
  /\ Top("reply") /\ Task.r \in Redirections
  /\ LET n == cad[Task.cmd].retry + 1
     IN \/ n > MaxRedirect /\ Done(TRUE) /\ cad' = [cad EXCEPT ![Task.cmd].retry = 0]
        \/ /\ n <= MaxRedirect
           /\ cad' = [cad EXCEPT ![Task.cmd].retry = n]
           /\ Becomes(<<[Task EXCEPT !.t = Task.r]>>)
           /\ UNCHANGED acc
  /\ UNCHANGED <<cc, acs, net>>

(* The label retry: a connection that refuses the command ends at error,
   without the program's callback. *)
SendAgain(all, id, seq) ==
  \/ Refuses(all[id]) /\ acs' = all /\ cad' = DataFree(cad, Task.cmd, "dropped")
  \/ ~Refuses(all[id]) /\ acs' = [all EXCEPT ![id].q = @ \o seq] /\ UNCHANGED cad

SendTo(c, node, p, seq) ==
  \E x \in ActxGetByNode(c, node, p) :
    LET seen == [acc EXCEPT !.reached = @ \/ NotReached(node)]
    IN /\ cc' = x.cc
       /\ \/ /\ x.acs[x.id].err
             /\ Becomes(<<UserTask>>) /\ acc' = [seen EXCEPT !.err = TRUE]
             /\ acs' = x.acs /\ UNCHANGED cad
          \/ /\ ~x.acs[x.id].err
             /\ Becomes(<<>>) /\ acc' = seen
             /\ SendAgain(x.acs, x.id, seq)
       /\ UNCHANGED net

(* actx_get_after_update_route_by_slot. *)
Moved == Top("MOVED") /\ UpdateThen([Task EXCEPT !.t = "resend"], acc.err, cc.due)
Resend ==
  /\ Top("resend")
  /\ LET p == NodeByTable(cc, SlotOf[Task.cmd])
     IN \/ p = None /\ Done(TRUE) /\ UNCHANGED <<cc, acs, cad, net>>
        \/ p # None /\ SendTo(cc, cc.nodes[p[2]], p, <<Task.cmd>>)

(* The node of an ASK is found by its address, or added; when another one is
   already filed under the same name, the new one is known to nobody. *)
Ask ==
  /\ Top("ASK")
  /\ LET ask == [slot |-> SlotOf[Task.cmd], at |-> Task.at]
         key == AskKey(cc, ask)
         known == Task.at \in DOMAIN cc.nodes
         adds == AskAdds(cc, ask)
     IN \/ AskNode(cc, ask) = None /\ Done(TRUE) /\ UNCHANGED <<cc, acs, cad, net>>
        \/ /\ AskNode(cc, ask) # None
           /\ SendTo([cc EXCEPT !.nodes = IF adds THEN @ @@ (key :> AskNode(cc, ask)) ELSE @],
                     AskNode(cc, ask), <<IF known \/ adds THEN cc.version ELSE Hidden, key>>,
                     <<Asking, Task.cmd>>)

TryAgain == /\ Top("TRYAGAIN") /\ Becomes(<<>>)
            /\ SendAgain(acs, Task.ac, <<Task.cmd>>)
            /\ UNCHANGED <<cc, acc, net>>

Answered == /\ Top("reply") /\ Task.r = "ok" /\ Done(acc.err)
            /\ UNCHANGED <<cc, acs, cad, net>>

(* The program's callback gets no reply when acc.err is set, for whatever
   reason.  It may issue a command; then the errors are forgotten. *)
Called == [cad EXCEPT ![Task.cmd] =
             [@ EXCEPT !.state = IF @ = "pending" THEN "called" ELSE "again",
                       !.reply = IF acc.err THEN "null" ELSE Task.r]]
UserCallback ==
  /\ Top("user")
  /\ \/ /\ cad' = Called /\ Becomes(<<>>)
        /\ cc' = [cc EXCEPT !.err = FALSE] /\ acc' = [acc EXCEPT !.err = FALSE]
        /\ UNCHANGED <<acs, net>>
     \/ \E c \in Commands : Issue(c, Called, <<[t |-> "clear"]>> \o Tail(stack))
ClearErrors == /\ Top("clear") /\ Becomes(<<>>)
               /\ cc' = [cc EXCEPT !.err = FALSE] /\ acc' = [acc EXCEPT !.err = FALSE]
               /\ UNCHANGED <<acs, cad, net>>

------------------------------------------------------------------------------
(* The end of a callback in the connection: what was asked for meanwhile is
   done now. *)
FreeTask(i) == [t |-> "free", ac |-> i]
AfterCallback ==
  /\ Top("after")
  /\ LET a == acs[Task.ac]
     IN Becomes(IF "freeing" \in a.flags \/ ("closing" \in a.flags /\ a.q = <<>>)
                THEN <<FreeTask(Task.ac)>> ELSE <<>>)
  /\ acs' = [acs EXCEPT ![Task.ac].busy = FALSE]
  /\ UNCHANGED <<cc, cad, acc, net>>

(* __redisAsyncFree: the callbacks that wait are called without a reply, one
   after the other; then unlinkAsyncContextAndNode writes to the node. *)
NullReply(i, c) == [t |-> "reply", ac |-> i, cmd |-> c, r |-> "null", at |-> None]
Unlinked(a) == IF a.data[1] = Hidden THEN cc ELSE [cc EXCEPT !.nodes[a.data[2]].acon = None]
FreeConnection ==
  /\ Top("free")
  /\ LET i == Task.ac
         a == acs[i]
     IN \/ /\ a.q # <<>>
           /\ acs' = [acs EXCEPT ![i].q = Tail(@), ![i].busy = Head(a.q) # Asking]
           /\ Becomes(IF Head(a.q) = Asking THEN <<Task>> ELSE <<NullReply(i, Head(a.q)), Task>>)
           /\ UNCHANGED <<cc, cad, acc, net>>
        \/ a.q = <<>> /\ ~Usable(a.data) /\ Stale
        \/ /\ a.q = <<>> /\ Usable(a.data)
           /\ cc' = Unlinked(a)
           /\ acs' = [j \in DOMAIN acs \ {i} |-> acs[j]]
           /\ Becomes(<<>>)
           /\ UNCHANGED <<cad, acc, net>>

(* dictRelease of the old nodes: cluster_node_deinit frees a connection now,
   or leaves that to the callback the connection is in. *)
ReleaseNodes ==
  /\ Top("release")
  /\ LET freed == cc.freed \cup Task.now
         Rest(k, now) == [Task EXCEPT !.todo = @ \ {k}, !.now = now]
     IN \/ \E k \in Task.todo :
             LET i == cc.nodes[k].acon
             IN /\ \/ i = None /\ UNCHANGED acs /\ Becomes(<<Rest(k, {k})>>)
                   \/ /\ i # None
                      /\ acs' = [acs EXCEPT ![i].flags = @ \cup {"freeing"}]
                      /\ Becomes(IF acs[i].busy THEN <<Rest(k, {k})>>
                                 ELSE <<FreeTask(i), Rest(k, {k})>>)
                /\ cc' = [cc EXCEPT !.freed = freed]
                /\ UNCHANGED acc
        \/ /\ Task.todo = {} /\ Task.new # None
           /\ cc' = Task.new /\ Becomes(<<>>) /\ UNCHANGED <<acs, acc>>
        \/ /\ Task.todo = {} /\ Task.new = None
           /\ acc' = [acc EXCEPT !.state = "freed"] /\ Becomes(<<>>) /\ UNCHANGED <<cc, acs>>
  /\ UNCHANGED <<cad, net>>

CallStep == \/ NullCallback \/ Redirected \/ Moved \/ Resend \/ Ask \/ TryAgain \/ Answered
            \/ UserCallback \/ ClearErrors \/ AfterCallback \/ FreeConnection \/ ReleaseNodes

------------------------------------------------------------------------------
(* redisClusterAsyncDisconnect: idle connections go now, the others once they
   have their replies; the nodes forget all of them. *)
AsyncDisconnect ==
  /\ AtLoop /\ ~acc.disconnected
  /\ LET linked == {cc.nodes[k].acon : k \in DOMAIN cc.nodes} \ {None}
         mine == {i \in linked : ~acs[i].err}
         idle == {i \in mine : acs[i].q = <<>>}
     IN /\ mine # {}
        /\ acs' = [i \in DOMAIN acs \ idle |->
                     IF i \in mine THEN [acs[i] EXCEPT !.flags = @ \cup {"closing"}] ELSE acs[i]]
        /\ cc' = [cc EXCEPT !.nodes = [k \in DOMAIN @ |->
                     IF @[k].acon \in mine THEN [@[k] EXCEPT !.acon = None] ELSE @[k]]]
  /\ acc' = [acc EXCEPT !.disconnected = TRUE]
  /\ UNCHANGED <<stack, cad, net>>

(* redisClusterAsyncFree. *)
AsyncFree ==
  /\ AtLoop /\ acs # [i \in {} |-> None]
  /\ cc' = [cc EXCEPT !.table = [s \in Slot |-> None]]
  /\ stack' = <<ReleaseTask(None)>>
  /\ UNCHANGED <<acs, cad, acc, net>>

(* The event loop: a server answers the oldest command of a connection. *)
Answers(a, c) ==
  LET s == SlotOf[c]
      Plain(r) == [r |-> r, at |-> None]
  IN CASE net.owner[s] # a.host /\ ~(a.asking /\ net.moving[s] = a.host) -> {Plain("MOVED")}
       [] net.owner[s] # a.host /\ a.asking /\ net.moving[s] = a.host -> {Plain("ok"), Plain("TRYAGAIN")}
       [] net.owner[s] = a.host /\ net.moving[s] # None ->
            {Plain("ok"), Plain("TRYAGAIN")} \cup {[r |-> "ASK", at |-> x] : x \in {net.moving[s], Unreadable}}
       [] OTHER -> {Plain("ok")}

ReplyArrives(i) ==
  /\ AtLoop /\ i \in DOMAIN acs
  /\ ~acs[i].err /\ ~acs[i].broken /\ acs[i].q # <<>> /\ acs[i].host \in net.up
  /\ LET a == acs[i]
         c == Head(a.q)
     IN \/ /\ c = Asking
           /\ acs' = [acs EXCEPT ![i].q = Tail(@), ![i].asking = TRUE]
           /\ UNCHANGED stack
        \/ /\ c # Asking
           /\ acs' = [acs EXCEPT ![i].q = Tail(@), ![i].asking = FALSE, ![i].busy = TRUE]
           /\ \E x \in Answers(a, c) :
                stack' = <<[t |-> "reply", ac |-> i, cmd |-> c, r |-> x.r, at |-> x.at],
                           [t |-> "after", ac |-> i]>>
  /\ UNCHANGED <<cc, cad, acc, net>>

(* A connection that has broken, or could not be made, is freed. *)
ConnectionFails(i) ==
  /\ AtLoop /\ i \in DOMAIN acs
  /\ ~acs[i].err /\ (acs[i].broken \/ acs[i].host \notin net.up)
  /\ acs' = [acs EXCEPT ![i].err = TRUE, ![i].flags = @ \cup {"closing"}]
  /\ stack' = <<FreeTask(i)>>
  /\ UNCHANGED <<cc, cad, acc, net>>

Event(i) == ReplyArrives(i) \/ ConnectionFails(i)

------------------------------------------------------------------------------
(* The cluster: slots move and servers stop and start. *)
Change(n) == /\ net.changes < MaxChanges
             /\ net' = [n EXCEPT !.changes = @ + 1]
             /\ UNCHANGED <<cc, stack, cad, acc>>
MoveStarts == /\ \E s \in Slot, t \in net.up :
                   /\ net.moving[s] = None /\ t # net.owner[s]
                   /\ Change([net EXCEPT !.moving[s] = t])
              /\ UNCHANGED acs
MoveEnds == /\ \E s \in Slot :
                 /\ net.moving[s] # None
                 /\ Change([net EXCEPT !.moving[s] = None, !.owner[s] = net.moving[s],
                                       !.before = net.owner])
            /\ UNCHANGED acs
ServerStops == \E s \in net.up :
                 /\ Change([net EXCEPT !.up = @ \ {s}])
                 /\ acs' = [i \in DOMAIN acs |->
                              IF acs[i].host = s THEN [acs[i] EXCEPT !.broken = TRUE] ELSE acs[i]]
ServerStarts == /\ \E s \in Servers \ net.up : Change([net EXCEPT !.up = @ \cup {s}])
                /\ UNCHANGED acs
Cluster == AtLoop /\ (MoveStarts \/ MoveEnds \/ ServerStops \/ ServerStarts)

Next == \/ AsyncConnect \/ UserCommand \/ CallStep \/ AsyncDisconnect \/ AsyncFree
        \/ (\E i \in DOMAIN acs : Event(i)) \/ Cluster

Spec == Init /\ [][Next]_vars

(* The loop runs, and each connection gets its reply or breaks. *)
Connections == 1 .. Cardinality(Commands) * (MaxRedirect + 1)
FairSpec == Spec /\ WF_vars(CallStep) /\ \A i \in Connections : WF_vars(Event(i))

------------------------------------------------------------------------------
(* A command that was accepted is in exactly one place, however often it is
   redirected and whatever becomes of its connection: it waits in one
   connection or is what one callback on the stack is about, and once the
   program's callback has run, or the command was refused or forgotten, it is
   nowhere (redisClusterAsyncCallback, hircluster.c:4467-4703: each path takes
   one of done, retry and error; cad is freed with the last of them). *)
Waiting(c) == Cardinality(UNION {{i} \X {n \in DOMAIN acs[i].q : acs[i].q[n] = c} : i \in DOMAIN acs})
Handled(c) == Cardinality({n \in DOMAIN stack : stack[n].t \in {"reply", "user", "resend"} \cup Redirections
                                              /\ stack[n].cmd = c})
OnePlace ==
  Live => \A c \in Commands :
            Waiting(c) + Handled(c) = IF cad[c].state = "pending" THEN 1 ELSE 0

(* Every command that was accepted ends with its callback, unless the program
   has disconnected and its connection refused a redirection, which forgets
   the command (hircluster.c:4635-4640, 4686-4695), or the context is gone.
   Redirections are bounded by max_redirect_count (4592-4599), failures of a
   connection end its commands without a reply. *)
EveryCommandEnds ==
  \A c \in Commands :
    cad[c].state = "pending"
      ~> \/ cad[c].state = "called"
         \/ cad[c].state = "dropped" /\ acc.disconnected
         \/ ~Live

==============================================================================
