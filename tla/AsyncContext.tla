---------------------------- MODULE AsyncContext ----------------------------
(***************************************************************************)
(* hiredis-vip-master/async.c: one asynchronous connection to Redis, with  *)
(* the adapters that tie it to an event library.  The program issues       *)
(* commands with callbacks; the event loop calls redisAsyncHandleRead and  *)
(* redisAsyncHandleWrite when the socket is ready; replies are matched     *)
(* with callbacks by their order, except for messages of subscriptions,    *)
(* which are matched by topic.                                             *)
(*                                                                         *)
(* There is one thread, but the program's callbacks run in the middle of   *)
(* redisProcessCallbacks and may call the library: each turn of that loop  *)
(* is a step.  A command is named by its callback's private data and is    *)
(* issued at most once; a topic is a channel or a pattern, with its own    *)
(* entry in sub.channels or sub.patterns.  Bytes are not modelled: what is *)
(* in a buffer is the sequence of the commands or replies that are there   *)
(* as a whole, and a read that completes no reply adds nothing.  Memory    *)
(* can always be allocated.                                                *)
(***************************************************************************)
EXTENDS Naturals, Sequences, FiniteSets, Functions

CONSTANTS Commands,      \* each has a callback unless it is in NullFn
          NullFn,
          Kind,          \* of each command
          Names,         \* of each command: the topics it names
          Topics,
          Adapters,      \* event library bindings to choose from
          MaxIssued,     \* bound on the commands of a behaviour
          MaxWaiting,    \* bound on callbacks waiting in monitor mode
          MaxSpontaneous,\* bound on messages nobody asked for
          EarlyEvents,   \* may an event find connect(2) still in progress?
          None           \* a callback that is not there

Kinds == {"regular", "subscribe", "unsubscribe", "monitor"}

ASSUME AsyncAssumption ==
  /\ Kind \in [Commands -> Kinds]
  /\ Names \in [Commands -> SUBSET Topics]
  /\ NullFn \subseteq Commands
  /\ None \notin Commands /\ IsFiniteSet(Topics)
  /\ MaxSpontaneous \in Nat /\ MaxIssued \in Nat /\ MaxWaiting \in Nat

VARIABLES
  ac,        \* the context
  todo,      \* handlers that the current wake-up has still to call
  cb,        \* the local variable of redisProcessCallbacks; "out" outside it
  adapter,   \* the event library
  sock,      \* connecting, up, failed or closed by the peer
  toServer, toClient,   \* what the socket holds
  srv,       \* the server: its subscriptions of this client, messages sent
  calls,     \* history: the callbacks that ran, each with its reply
  issued,    \* history: commands that were accepted
  sloppy     \* history: the program did what the library cannot handle

vars == <<ac, todo, cb, adapter, sock, toServer, toClient, srv, calls, issued, sloppy>>
env == <<adapter, srv>>

(* Replies to a command or to none, messages about a topic, and bytes that
   are no reply at all. *)
NoReply == [type |-> "null", to |-> None]
Data(c) == [type |-> "data", to |-> c]
Error(c) == [type |-> "error", to |-> c]
Garbage == [type |-> "garbage", to |-> None]
Message(what, t, n) == [type |-> "array", to |-> None, what |-> what, topic |-> t, count |-> n]

------------------------------------------------------------------------------
(* The adapters: does an event stay armed after it has fired, and which
   handlers does one wake-up call in which order? *)
AeAdapter == [persistent |-> TRUE, wakeups |-> {<<"read">>, <<"write">>}]
LibevAdapter == [persistent |-> TRUE, wakeups |-> {<<"read">>, <<"write">>}]
LibeventAdapter == [persistent |-> FALSE, wakeups |-> {<<"read">>, <<"write">>}]
LibuvAdapter == [persistent |-> TRUE, wakeups |-> {<<"read">>, <<"write">>, <<"read", "write">>}]
GlibAdapter == [persistent |-> TRUE, wakeups |-> {<<"read">>, <<"write">>, <<"write", "read">>}]

(* The hooks do nothing before the adapter is attached. *)
AddRead(a) == [a EXCEPT !.reading = @ \/ a.attached]
AddWrite(a) == [a EXCEPT !.writing = @ \/ a.attached]
DelWrite(a) == [a EXCEPT !.writing = FALSE]
Cleanup(a) == [a EXCEPT !.attached = FALSE, !.reading = FALSE, !.writing = FALSE]

------------------------------------------------------------------------------
(* redisAsyncInitialize: nothing pending, no hooks, not yet connected. *)
Initialize(failed) ==
  [status |-> "open", flags |-> {}, cerr |-> failed, err |-> FALSE,
   attached |-> FALSE, reading |-> FALSE, writing |-> FALSE,
   onConnect |-> FALSE, onDisconnect |-> FALSE, told |-> <<>>,
   replies |-> <<>>, invalid |-> <<>>, sub |-> [t \in Topics |-> None],
   obuf |-> <<>>, input |-> <<>>]

CopyError(a) == [a EXCEPT !.err = a.cerr]

Init == /\ ac = [Initialize(FALSE) EXCEPT !.status = "none"]
        /\ todo = <<>> /\ cb = "out"
        /\ adapter \in Adapters
        /\ sock = "connecting"
        /\ toServer = <<>> /\ toClient = <<>>
        /\ srv = [subs |-> {}, mon |-> FALSE, sent |-> 0]
        /\ calls = [c \in Commands |-> <<>>] /\ issued = {} /\ sloppy = FALSE

(* The library may be called: the context exists, no handler is running. *)
AtLoop == ac.status = "open" /\ todo = <<>> /\ cb = "out"

(* redisAsyncConnect and its variants: a connection that fails at once still
   gives a context, with its error copied. *)
Connect == /\ ac.status = "none"
           /\ \E failed \in BOOLEAN :
                /\ ac' = CopyError(Initialize(failed))
                /\ sock' = IF failed THEN "failed" ELSE sock
           /\ UNCHANGED <<todo, cb, env, toServer, toClient, calls, issued, sloppy>>

SetConnectCallback(a) == AddWrite([a EXCEPT !.onConnect = TRUE])
SetDisconnectCallback(a) == [a EXCEPT !.onDisconnect = TRUE]

(* The program attaches the context to its event library, once, and sets the
   two connection callbacks or leaves them out. *)
Attach == /\ AtLoop /\ ~ac.attached
          /\ LET a == [ac EXCEPT !.attached = TRUE]
             IN ac' \in {a, SetDisconnectCallback(SetConnectCallback(a))}
          /\ UNCHANGED <<todo, cb, env, sock, toServer, toClient, calls, issued, sloppy>>

PushCallback(list, c) == Append(list, c)
ShiftCallback(list) == Tail(list)

------------------------------------------------------------------------------
(* __redisAsyncCommand. *)
Refuses(a, c) == \/ a.flags \cap {"DISCONNECTING", "FREEING"} # {}
                 \/ Kind[c] = "unsubscribe" /\ "SUBSCRIBED" \notin a.flags

Register(a, c) ==
  CASE Kind[c] = "subscribe" ->
         [a EXCEPT !.flags = @ \cup {"SUBSCRIBED"},
                   !.sub = [t \in Topics |-> IF t \in Names[c] THEN c ELSE @[t]]]
    [] Kind[c] = "unsubscribe" -> a
    [] Kind[c] = "monitor" ->
         [a EXCEPT !.flags = @ \cup {"MONITORING"}, !.replies = PushCallback(@, c)]
    [] Kind[c] = "regular" /\ "SUBSCRIBED" \in a.flags -> [a EXCEPT !.invalid = PushCallback(@, c)]
    [] OTHER -> [a EXCEPT !.replies = PushCallback(@, c)]

(* __redisAppendCommand. *)
AppendCommand(a, c) == [a EXCEPT !.obuf = Append(@, c)]

AsyncCommand(a, c) == IF Refuses(a, c) THEN a ELSE AddWrite(AppendCommand(Register(a, c), c))

(* The commands the program may still issue, and those that confuse the
   library: monitoring, unsubscribing from what is not subscribed, and a
   command while an unsubscription is not yet confirmed. *)
Open(a) == IF sloppy \/ ~a.attached \/ Cardinality(issued) = MaxIssued THEN {}
           ELSE {c \in Commands \ issued : ~Refuses(a, c)}
Confuses(a, c) ==
  \/ Kind[c] = "monitor"
  \/ Kind[c] = "unsubscribe" /\ \E t \in Names[c] : a.sub[t] = None
  \/ \E u \in issued : Kind[u] = "unsubscribe" /\ \E t \in Names[u] : a.sub[t] # None

Issued(C, a) == /\ issued' = issued \cup C
                /\ sloppy' = (sloppy \/ \E c \in C : Confuses(a, c))

(* What the program may do in a callback: nothing, issue a command, free or
   disconnect the context; the last two only set flags there. *)
InCallback(a) ==
  {<<a, {}>>, <<[a EXCEPT !.flags = @ \cup {"FREEING"}], {}>>,
   <<[a EXCEPT !.flags = @ \cup {"DISCONNECTING"}], {}>>}
  \cup {<<AsyncCommand(a, c), {c}>> : c \in Open(a)}

------------------------------------------------------------------------------
Told(a, what, ok) == [a EXCEPT !.told = Append(@, <<what, ok>>)]

(* History: callbacks of regular commands run with the reply r, as often as
   they are in s. *)
Regular(c) == c \in Commands \ NullFn /\ Kind[c] = "regular"
Times(s, c) == Cardinality({n \in DOMAIN s : s[n] = c})
Ran(h, s, r) ==
  [c \in Commands |-> IF Regular(c) THEN h[c] \o [n \in 1 .. Times(s, c) |-> r] ELSE h[c]]

(* __redisAsyncFree runs what is pending, and one callback for each topic,
   with a NULL reply.  One of them may still ask to free the context, which
   changes the status given to the disconnect callback; new commands are
   refused. *)
Runs(a) == {c \in Range(a.replies \o a.invalid) \cup Range(a.sub) : c \notin NullFn \cup {None}}

Torn(a, freeing) ==
  LET flags == IF freeing THEN a.flags \cup {"FREEING"} ELSE a.flags
      b == Cleanup([a EXCEPT !.flags = flags, !.status = "freed", !.replies = <<>>,
                             !.invalid = <<>>, !.sub = [t \in Topics |-> None],
                             !.obuf = <<>>, !.input = <<>>])
  IN IF a.onDisconnect /\ "CONNECTED" \in flags
       THEN Told(b, "disconnect", "FREEING" \in flags \/ ~a.err) ELSE b

(* A buggy version that forgets the commands sent while subscribed. *)
AsyncFree_NoInvalid(a, h) == \E freeing \in BOOLEAN :
  /\ freeing => Runs(a) # {}
  /\ calls' = Ran(h, a.replies, NoReply)
  /\ ac' = Torn(a, freeing)

AsyncFree(a, h) == \E freeing \in BOOLEAN :
  /\ freeing => Runs(a) # {}
  /\ calls' = Ran(h, a.replies \o a.invalid, NoReply)
  /\ ac' = Torn(a, freeing)

(* __redisAsyncDisconnect: the assertion on a clean disconnect aborts the
   process when a reply is pending. *)
Disconnect(a) ==
  LET b == CopyError(a)
  IN IF b.err THEN AsyncFree([b EXCEPT !.flags = @ \cup {"DISCONNECTING"}], calls)
     ELSE IF b.replies = <<>> THEN AsyncFree(b, calls)
     ELSE ac' = [b EXCEPT !.status = "unclean"] /\ UNCHANGED calls

(* The program calls the library from outside callbacks. *)
UserCommand(c) == /\ AtLoop /\ c \in Open(ac)
                  /\ ac' = AsyncCommand(ac, c)
                  /\ Issued({c}, ac)
                  /\ UNCHANGED <<todo, cb, env, sock, toServer, toClient, calls>>

UserFree == /\ AtLoop
            /\ AsyncFree([ac EXCEPT !.flags = @ \cup {"FREEING"}], calls)
            /\ UNCHANGED <<todo, cb, env, sock, toServer, toClient, issued, sloppy>>

UserDisconnect == /\ AtLoop
                  /\ LET a == [ac EXCEPT !.flags = @ \cup {"DISCONNECTING"}]
                     IN IF a.replies = <<>> THEN Disconnect(a) ELSE ac' = a /\ UNCHANGED calls
                  /\ UNCHANGED <<todo, cb, env, sock, toServer, toClient, issued, sloppy>>

------------------------------------------------------------------------------
(* redisProcessCallbacks.  No reply is left: this is the cue to disconnect,
   or, in monitor mode, to wait with the last callback again. *)
NoMoreReplies ==
  /\ cb # "out" /\ ac.status = "open" /\ ac.input = <<>>
  /\ cb' = "out"
  /\ IF "DISCONNECTING" \in ac.flags /\ ac.obuf = <<>> THEN Disconnect(ac)
     ELSE /\ ac' = IF "MONITORING" \in ac.flags THEN [ac EXCEPT !.replies = PushCallback(@, cb)] ELSE ac
          /\ UNCHANGED calls
  /\ UNCHANGED <<todo, env, sock, toServer, toClient, issued, sloppy>>

(* __redisGetSubscribeCallback: the callback for a reply and the context
   without what the reply ends; an unknown topic leaves cb as it was. *)
SubscribeCallback(a, r) ==
  IF r.type = "array"
    THEN IF a.sub[r.topic] = None THEN <<cb, a>>
         ELSE <<a.sub[r.topic],
                IF r.what # "unsubscribe" THEN a
                ELSE [a EXCEPT !.sub[r.topic] = None,
                               !.flags = IF r.count = 0 THEN @ \ {"SUBSCRIBED"} ELSE @]>>
    ELSE IF a.invalid = <<>> THEN <<cb, a>>
         ELSE <<Head(a.invalid), [a EXCEPT !.invalid = ShiftCallback(@)]>>

(* __redisRunCallback and what follows it: free when the callback asked. *)
RunCallback(fn, a, r) ==
  IF fn \in NullFn \cup {None}
    THEN cb' = fn /\ ac' = a /\ UNCHANGED <<calls, issued, sloppy>>
    ELSE \E u \in InCallback(a) :
           /\ Issued(u[2], a)
           /\ IF "FREEING" \in u[1].flags
                THEN AsyncFree(u[1], Ran(calls, <<fn>>, r)) /\ cb' = "out"
                ELSE calls' = Ran(calls, <<fn>>, r) /\ ac' = u[1] /\ cb' = fn

(* redisGetReply fails because the reader does, or an error came unasked. *)
ReadFails(a) == Disconnect([a EXCEPT !.cerr = TRUE]) /\ cb' = "out" /\ UNCHANGED <<issued, sloppy>>

(* A reply when no regular callback is pending: an error ends the connection,
   whether or not there are subscriptions; anything else must be a message. *)
Unexpected(a, r) ==
  CASE r.type = "error" ->
         ReadFails(a)
    [] r.type # "error" /\ a.flags \cap {"SUBSCRIBED", "MONITORING"} = {} ->
         ac' = [a EXCEPT !.status = "unexpected"] /\ cb' = "out" /\ UNCHANGED <<calls, issued, sloppy>>
    [] OTHER ->
         LET s == IF "SUBSCRIBED" \in a.flags THEN SubscribeCallback(a, r) ELSE <<cb, a>>
         IN RunCallback(s[1], s[2], r)

(* A buggy loop that serves the newest pending callback first. *)
ProcessReply_Last ==
  /\ cb # "out" /\ ac.status = "open" /\ ac.input # <<>>
  /\ LET r == Head(ac.input)
         a == [ac EXCEPT !.input = Tail(@)]
         n == Len(a.replies)
     IN IF n > 0 THEN RunCallback(a.replies[n], [a EXCEPT !.replies = SubSeq(@, 1, n - 1)], r)
        ELSE Unexpected(a, r)
  /\ UNCHANGED <<todo, env, sock, toServer, toClient>>

ProcessReply ==
  /\ cb # "out" /\ ac.status = "open" /\ ac.input # <<>>
  /\ LET r == Head(ac.input)
         a == [ac EXCEPT !.input = Tail(@)]
     IN IF r = Garbage THEN ReadFails(a)
        ELSE IF a.replies # <<>>
          THEN RunCallback(Head(a.replies), [a EXCEPT !.replies = ShiftCallback(@)], r)
          ELSE Unexpected(a, r)
  /\ UNCHANGED <<todo, env, sock, toServer, toClient>>

------------------------------------------------------------------------------
(* The event library.  A wake-up needs events that are armed; an event of a
   binding that is not persistent has to be armed again. *)
Ready(h) ==
  /\ IF h = "read" THEN ac.reading ELSE ac.writing
  /\ \/ sock \in {"failed", "closed"}
     \/ sock = "up" /\ (h = "write" \/ toClient # <<>>)
     \/ sock = "connecting" /\ EarlyEvents

Wakeup == /\ AtLoop
          /\ \E w \in adapter.wakeups :
               /\ \A i \in DOMAIN w : Ready(w[i])
               /\ todo' = w
               /\ ac' = IF adapter.persistent THEN ac
                        ELSE [ac EXCEPT !.reading = @ /\ w[1] # "read", !.writing = @ /\ w[1] # "write"]
          /\ UNCHANGED <<cb, env, sock, toServer, toClient, calls, issued, sloppy>>

Serving(h) == todo # <<>> /\ cb = "out" /\ Head(todo) = h /\ todo' = Tail(todo)

(* The first handler freed the context, and the binding calls the second. *)
Dangling == /\ todo # <<>> /\ cb = "out" /\ ac.status = "freed"
            /\ todo' = <<>>
            /\ ac' = [ac EXCEPT !.status = "dangling"]
            /\ UNCHANGED <<cb, env, sock, toServer, toClient, calls, issued, sloppy>>

(* __redisAsyncHandleConnect on the first event: connected, not yet (which
   leaves the error of the socket in the context), or failed. *)
HandleConnect(a) ==
  IF sock = "connecting" THEN [a EXCEPT !.cerr = TRUE]
  ELSE LET b == IF sock = "failed" THEN [a EXCEPT !.cerr = TRUE]
                ELSE [a EXCEPT !.flags = @ \cup {"CONNECTED"}]
       IN IF a.onConnect THEN Told(b, "connect", sock # "failed") ELSE b

ConnectFails(h) ==
  /\ Serving(h) /\ ac.status = "open" /\ "CONNECTED" \notin ac.flags
  /\ sock \in {"connecting", "failed"}
  /\ IF sock = "failed" THEN Disconnect(HandleConnect(ac))
     ELSE ac' = HandleConnect(ac) /\ UNCHANGED calls
  /\ UNCHANGED <<cb, env, sock, toServer, toClient, issued, sloppy>>

Connected == IF "CONNECTED" \in ac.flags THEN ac ELSE HandleConnect(ac)

(* redisBufferRead: some whole replies, or none; an error or the end. *)
BufferRead_Fails == ac.cerr \/ (sock = "closed" /\ toClient = <<>>)

HandleRead_Error ==
  /\ Serving("read") /\ ac.status = "open"
  /\ sock \in {"up", "closed"} /\ BufferRead_Fails
  /\ Disconnect([Connected EXCEPT !.cerr = TRUE])
  /\ UNCHANGED <<cb, env, sock, toServer, toClient, issued, sloppy>>

(* In monitor mode every read that completes nothing adds a callback: the
   bound MaxWaiting stops that. *)
Completes == {n \in 0..Len(toClient) : n > 0 \/ Len(ac.replies) < MaxWaiting \/ "MONITORING" \notin ac.flags}

(* A buggy handler that does not arm the next read. *)
HandleRead_NoAddRead ==
  /\ Serving("read") /\ ac.status = "open"
  /\ sock \in {"up", "closed"} /\ ~BufferRead_Fails
  /\ \E n \in Completes :
       /\ ac' = [Connected EXCEPT !.input = @ \o SubSeq(toClient, 1, n)]
       /\ toClient' = SubSeq(toClient, n + 1, Len(toClient))
  /\ cb' = None
  /\ UNCHANGED <<env, sock, toServer, calls, issued, sloppy>>

HandleRead ==
  /\ Serving("read") /\ ac.status = "open"
  /\ sock \in {"up", "closed"} /\ ~BufferRead_Fails
  /\ \E n \in Completes :
       /\ ac' = AddRead([Connected EXCEPT !.input = @ \o SubSeq(toClient, 1, n)])
       /\ toClient' = SubSeq(toClient, n + 1, Len(toClient))
  /\ cb' = None
  /\ UNCHANGED <<env, sock, toServer, calls, issued, sloppy>>

(* redisBufferWrite fails, or takes commands from the buffer; what is written
   to a closed socket may still be taken and is lost. *)
HandleWrite_Error ==
  /\ Serving("write") /\ ac.status = "open"
  /\ sock \in {"up", "closed"}
  /\ ac.cerr \/ (sock = "closed" /\ ac.obuf # <<>>)
  /\ Disconnect([Connected EXCEPT !.cerr = TRUE])
  /\ UNCHANGED <<cb, env, sock, toServer, toClient, issued, sloppy>>

BufferWrite(a, n) == [a EXCEPT !.obuf = SubSeq(@, n + 1, Len(@))]

HandleWrite ==
  /\ Serving("write") /\ ac.status = "open"
  /\ sock \in {"up", "closed"} /\ ~ac.cerr
  /\ \E n \in (IF ac.obuf = <<>> THEN {0} ELSE 1..Len(ac.obuf)) :
       LET a == BufferWrite(Connected, n)
       IN /\ ac' = AddRead(IF a.obuf = <<>> THEN DelWrite(a) ELSE AddWrite(a))
          /\ toServer' = IF sock = "up" THEN toServer \o SubSeq(ac.obuf, 1, n) ELSE toServer
  /\ UNCHANGED <<cb, env, sock, toClient, calls, issued, sloppy>>

------------------------------------------------------------------------------
(* The socket and the server. *)
SocketDecides == /\ ac.status = "open" /\ sock = "connecting"
                 /\ sock' \in {"up", "failed"}
                 /\ UNCHANGED <<ac, todo, cb, env, toServer, toClient, calls, issued, sloppy>>

Answers(c) ==
  CASE Kind[c] = "regular" -> {<<srv.subs, <<Data(c)>>>>, <<srv.subs, <<Error(c)>>>>}
    [] Kind[c] = "monitor" -> {<<srv.subs, <<Data(c)>>>>}
    [] Kind[c] = "subscribe" ->
         {<<srv.subs \cup Names[c],
            [i \in DOMAIN f |-> Message("subscribe", f[i], Cardinality(srv.subs \cup {f[j] : j \in 1..i}))]>> :
            f \in Bijection(1 .. Cardinality(Names[c]), Names[c])}
    [] Kind[c] = "unsubscribe" ->
         {<<srv.subs \ Names[c],
            [i \in DOMAIN f |-> Message("unsubscribe", f[i], Cardinality(srv.subs \ {f[j] : j \in 1..i}))]>> :
            f \in Bijection(1 .. Cardinality(Names[c]), Names[c])}

ServerAnswers == /\ ac.status = "open" /\ sock = "up" /\ toServer # <<>>
                 /\ \E s \in Answers(Head(toServer)) :
                      /\ srv' = [srv EXCEPT !.subs = s[1], !.mon = @ \/ Kind[Head(toServer)] = "monitor"]
                      /\ toClient' = toClient \o s[2]
                 /\ toServer' = Tail(toServer)
                 /\ UNCHANGED <<ac, todo, cb, adapter, sock, calls, issued, sloppy>>

(* A message to a subscriber, or a line for who monitors. *)
ServerSpeaks == /\ ac.status = "open" /\ sock = "up" /\ srv.sent < MaxSpontaneous
                /\ srv' = [srv EXCEPT !.sent = @ + 1]
                /\ \/ \E t \in srv.subs : toClient' = Append(toClient, Message("message", t, 0))
                   \/ srv.mon /\ toClient' = Append(toClient, Data(None))
                /\ UNCHANGED <<ac, todo, cb, adapter, sock, toServer, calls, issued, sloppy>>

(* The server closes the connection, perhaps with an error that answers no
   command, or in the middle of nonsense; a reset loses what is on its way. *)
ServerCloses == /\ ac.status = "open" /\ sock = "up"
                /\ sock' = "closed"
                /\ \/ toClient' \in {toClient, <<>>}
                   \/ /\ srv.sent < MaxSpontaneous
                      /\ toClient' \in {Append(toClient, Error(None)), Append(toClient, Garbage)}
                /\ UNCHANGED <<ac, todo, cb, env, toServer, calls, issued, sloppy>>

Library == \/ ProcessReply \/ NoMoreReplies \/ Dangling
           \/ \E h \in {"read", "write"} : ConnectFails(h)
           \/ HandleRead_Error \/ HandleRead \/ HandleWrite_Error \/ HandleWrite

User == \/ Connect \/ Attach
        \/ \E c \in Commands : UserCommand(c)
        \/ UserFree \/ UserDisconnect

Next == Wakeup \/ Library \/ User \/ SocketDecides \/ ServerAnswers \/ ServerSpeaks \/ ServerCloses

Spec == Init /\ [][Next]_vars

(* The event loop runs and calls the handlers of armed events; a readable
   socket gives whole replies in the end; the network and the server
   answer.  The program need not do anything. *)
FairSpec == /\ Spec
            /\ WF_vars(Library) /\ WF_vars(SocketDecides) /\ WF_vars(ServerAnswers)
            /\ SF_vars(Wakeup /\ Head(todo') = "write") /\ SF_vars(Wakeup /\ Head(todo') = "read")
            /\ SF_vars(HandleRead /\ toClient' # toClient)
------------------------------------------------------------------------------
(* The context is gone, or the process: "unclean" and "unexpected" are the
   failed assertions of async.c:344 and 467. *)
Over == ac.status \in {"freed", "unclean", "unexpected", "dangling"}

(* A callback gets the reply of its own command, the error with which the
   server refuses a connection, or NULL: replies and callbacks never get out
   of step (async.c:416-493), whatever the callbacks themselves issue. *)
OwnReply == ~sloppy =>
  \A c \in Commands : Range(calls[c]) \subseteq {NoReply, Error(None), Data(c), Error(c)}

(* No callback of a regular command runs twice, and when the context has been
   freed every one has run (README.md:285 of hiredis-vip). *)
OncePerCommand == ~sloppy =>
  /\ \A c \in Commands : Len(calls[c]) <= 1
  /\ ac.status = "freed" => \A c \in issued : Regular(c) => calls[c] # <<>>

(* A command that was accepted is answered, or its callback runs with NULL,
   unless an assertion fails first: no event that is needed is left unarmed
   (async.c:520-566).  One exception is in the code: an event that finds
   connect(2) in progress is not armed again (async.c:549-552), so that a
   binding whose events are not persistent never hears of the socket again. *)
EveryCommandAnswered ==
  \A c \in {d \in Commands : Regular(d)} : c \in issued ~>
      (calls[c] # <<>> \/ Over \/ sloppy \/ (ac.cerr /\ ~adapter.persistent))

(* For clean disconnects, there should be no pending callbacks
   (async.c:343, asserted in line 344). *)
CleanDisconnect == ac.status # "unclean"
==============================================================================
