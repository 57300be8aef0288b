------------------------------- MODULE Connect -------------------------------
(***************************************************************************)
(* How hiredis opens, reopens and frees the connection of a context        *)
(* (net.c, and the constructors of hiredis.c): the system calls in their   *)
(* order, each of which may fail, and what every exit leaves behind in the *)
(* context and in the table of descriptors of the process.  Another part   *)
(* of the process opens and closes a descriptor of its own meanwhile, and  *)
(* gets the lowest free number, as sockets do.                             *)
(***************************************************************************)
EXTENDS Integers, SequencesExt, FiniteSetsExt

CONSTANTS Fds,           \* the descriptor numbers there are, above 0
          Addresses,     \* how many addresses a name resolves to
          Retries        \* REDIS_CONNECT_RETRIES, 10

VARIABLES c,             \* the redisContext, or None
          pc,            \* the call in progress: where it is, address, reuses, result
          ours, foreign, \* the descriptors the library and the rest of the process hold
          hist           \* history: leaked, stale, closedForeign

vars == <<c, pc, ours, foreign, hist>>

None == [fd |-> -1]

Idle == [at |-> "idle", fn |-> "tcp", rv |-> "OK", addr |-> 0, reuses |-> 0, silent |-> FALSE]

Free == Fds \ (ours \cup foreign)

\* redisContextInit with the flags and parameters of the constructors; calloc
\* makes it a TCP context until redisContextConnectUnix has a socket
Context(block, reuse, source, timeout) ==
  [fd |-> 0, type |-> "tcp", block |-> block, reuse |-> reuse, source |-> source,
   timeout |-> timeout, connected |-> FALSE, err |-> FALSE, nonblock |-> FALSE]

Go(at) == pc' = [pc EXCEPT !.at = at]

Keep == UNCHANGED <<ours, foreign, hist>>

\* close() of a number: ours, somebody else's, or nobody's
Close(n) ==
  /\ ours' = ours \ {n}
  /\ foreign' = foreign \ {n}
  /\ hist' = [hist EXCEPT !.closedForeign = @ \/ n \in foreign]

\* the call ends with a number in the context that is no longer open
LeftStale ==
  /\ hist' = [hist EXCEPT !.stale = @ \/ c.fd \in Fds \ ours]
  /\ UNCHANGED <<ours, foreign>>

\* "error:" with the error set, and the descriptor closed by the caller or not
Fail(closed) ==
  /\ pc' = [Idle EXCEPT !.rv = "ERR"]
  /\ IF closed /\ c.fd >= 0
     THEN c' = [c EXCEPT !.err = TRUE, !.fd = -1] /\ Close(c.fd)
     ELSE c' = [c EXCEPT !.err = TRUE] /\ LeftStale

\* "error:" reached without a call of __redisSetError
FailSilently ==
  /\ pc' = [Idle EXCEPT !.rv = "ERR", !.silent = TRUE]
  /\ UNCHANGED c /\ Keep
-----------------------------------------------------------------------------
Init ==
  /\ c = None /\ pc = Idle
  /\ ours = {} /\ foreign = {}
  /\ hist = [leaked |-> {}, stale |-> FALSE, closedForeign |-> FALSE]

Ready == c # None /\ pc.at = "idle"

Begin(fn) == [Idle EXCEPT !.fn = fn, !.at = IF fn = "tcp" THEN "resolve" ELSE "usocket"]

\* redisConnect, WithTimeout, NonBlock, BindNonBlock, BindNonBlockWithReuse
ConnectTcp ==
  /\ c = None
  /\ \E block, timeout, source, reuse \in BOOLEAN :
       /\ timeout => block
       /\ source => ~block
       /\ reuse => source
       /\ c' = Context(block, reuse, source, timeout)
  /\ pc' = Begin("tcp") /\ Keep

\* redisConnectUnix, WithTimeout, NonBlock
ConnectUnix ==
  /\ c = None
  /\ \E block, timeout \in BOOLEAN :
       (timeout => block) /\ c' = Context(block, FALSE, FALSE, timeout)
  /\ pc' = Begin("unix") /\ Keep

\* redisConnectFd: a descriptor the program has connected
ConnectFd ==
  /\ c = None /\ foreign # {}
  /\ LET n == CHOOSE x \in foreign : TRUE
     IN  /\ c' = [Context(TRUE, FALSE, FALSE, FALSE) EXCEPT !.fd = n, !.connected = TRUE]
         /\ ours' = ours \cup {n} /\ foreign' = foreign \ {n}
  /\ UNCHANGED <<pc, hist>>

\* the old descriptor is closed, and its number stays in the context; there is
\* no third connection type to reach the branch that refuses
Reconnect ==
  /\ Ready
  /\ c' = [c EXCEPT !.err = FALSE]
  /\ pc' = Begin(c.type)
  /\ IF c.fd > 0 THEN Close(c.fd) ELSE Keep

RedisFree ==
  /\ Ready
  /\ c' = None /\ pc' = Idle
  /\ IF c.fd > 0 THEN Close(c.fd) ELSE Keep

RedisFreeKeepFd ==
  /\ Ready /\ c.fd \in ours
  /\ ours' = ours \ {c.fd} /\ foreign' = foreign \cup {c.fd}
  /\ c' = None /\ pc' = Idle /\ UNCHANGED hist

\* redisSetTimeout for a blocking context, and redisEnableKeepAlive: a failed
\* setsockopt sets the error and leaves the descriptor open
OptionFails ==
  /\ Ready
  /\ c' = [c EXCEPT !.err = TRUE]
  /\ UNCHANGED pc /\ Keep

SetTimeout == c # None /\ c.block /\ OptionFails

KeepAlive == OptionFails

\* getaddrinfo for IPv4 and then for IPv6
Resolve ==
  /\ pc.at = "resolve"
  /\ \/ pc' = [pc EXCEPT !.at = "socket", !.addr = 1] /\ UNCHANGED c /\ Keep
     \/ Fail(FALSE)

\* the loop goes on to the next address, or ends without a connection
NextAddress ==
  \/ /\ pc.addr < Addresses
     /\ pc' = [pc EXCEPT !.at = "socket", !.addr = @ + 1]
     /\ UNCHANGED c /\ Keep
  \/ pc.addr = Addresses /\ Fail(FALSE)

\* socket(): the lowest free number; the one the context held is overwritten
Opened ==
  LET n == Min(Free)
  IN  /\ Free # {}
      /\ c' = [c EXCEPT !.fd = n]
      /\ ours' = ours \cup {n}
      /\ hist' = [hist EXCEPT !.leaked = @ \cup (ours \cap {c.fd})]
      /\ UNCHANGED foreign

Socket ==
  /\ pc.at = "socket"
  /\ \/ Opened /\ Go("nonblock")
     \/ NextAddress

USocket ==
  /\ pc.at = "usocket"
  /\ \/ Opened /\ Go("nonblock")
     \/ Fail(FALSE)

\* redisSetBlocking(c,0)
NonBlock ==
  /\ pc.at = "nonblock"
  /\ \/ /\ c' = [c EXCEPT !.nonblock = TRUE]
        /\ Go(IF pc.fn = "unix" THEN "uconnect" ELSE IF c.source THEN "bind" ELSE "connect") /\ Keep
     \/ Fail(TRUE)

\* the source address does not resolve or no address can be bound, SO_REUSEADDR
\* cannot be set, or the socket is bound
Bind ==
  /\ pc.at = "bind"
  /\ \/ Fail(FALSE)
     \/ c.reuse /\ FailSilently
     \/ Go("connect") /\ UNCHANGED c /\ Keep

\* the loop goes on without closing the socket
Unreachable_Leaks ==
  /\ c' = [c EXCEPT !.fd = -1, !.err = pc.addr = Addresses]
  /\ pc' = IF pc.addr < Addresses THEN [pc EXCEPT !.at = "socket", !.addr = @ + 1]
           ELSE [Idle EXCEPT !.rv = "ERR"]
  /\ Keep

\* EHOSTUNREACH: the socket is closed and the next address tried
Unreachable ==
  /\ c' = [c EXCEPT !.fd = -1, !.err = pc.addr = Addresses]
  /\ pc' = IF pc.addr < Addresses THEN [pc EXCEPT !.at = "socket", !.addr = @ + 1]
           ELSE [Idle EXCEPT !.rv = "ERR"]
  /\ Close(c.fd)

\* EADDRNOTAVAIL with REDIS_REUSEADDR: the same address again
NotAvailable ==
  /\ c.reuse
  /\ IF pc.reuses + 1 >= Retries THEN FailSilently
     ELSE pc' = [pc EXCEPT !.at = "socket", !.reuses = @ + 1] /\ UNCHANGED c /\ Keep

ConnectCall ==
  /\ pc.at = "connect"
  /\ \/ Go("blocking") /\ UNCHANGED c /\ Keep                                  \* at once
     \/ Unreachable
     \/ ~c.block /\ Go("blocking") /\ UNCHANGED c /\ Keep                      \* EINPROGRESS
     \/ NotAvailable
     \/ c.block /\ Go("wait") /\ UNCHANGED c /\ Keep                           \* EINPROGRESS
     \/ Fail(TRUE)                                                             \* any other errno

\* from here it is a Unix context; whatever connect() says but EINPROGRESS of a
\* context that does not block goes to redisContextWaitReady
UConnect ==
  /\ pc.at = "uconnect"
  /\ \/ c' = [c EXCEPT !.type = "unix"] /\ Go("ublocking") /\ Keep
     \/ c.block /\ c' = [c EXCEPT !.type = "unix"] /\ Go("wait") /\ Keep
     \/ /\ pc' = [Idle EXCEPT !.rv = "ERR"]
        /\ c' = [c EXCEPT !.type = "unix", !.err = TRUE, !.fd = -1]
        /\ Close(c.fd)

\* redisContextWaitReady: a timeout out of range, poll failing or timing out
\* close the descriptor, an error of the socket leaves it open
WaitReady ==
  /\ pc.at = "wait"
  /\ \/ Fail(TRUE)
     \/ Fail(FALSE)
     \/ Go(IF pc.fn = "unix" THEN "ublocking" ELSE "blocking") /\ UNCHANGED c /\ Keep

\* redisSetBlocking(c,1) for a blocking context
Blocking ==
  /\ pc.at = "blocking"
  /\ \/ c' = [c EXCEPT !.nonblock = ~c.block] /\ Go("nodelay") /\ Keep
     \/ c.block /\ Fail(TRUE)

\* REDIS_CONNECTED is set and the call ends well
Connected(con) == c' = [con EXCEPT !.connected = TRUE] /\ pc' = Idle /\ Keep

\* redisSetTcpNoDelay
TcpNoDelay ==
  /\ pc.at = "nodelay"
  /\ \/ Connected(c)
     \/ Fail(TRUE)

UBlocking ==
  /\ pc.at = "ublocking"
  /\ \/ Connected([c EXCEPT !.nonblock = ~c.block])
     \/ c.block /\ Fail(TRUE)

ForeignOpen ==
  /\ Free # {} /\ foreign = {}
  /\ foreign' = {Min(Free)} /\ UNCHANGED <<c, pc, ours, hist>>

ForeignClose ==
  /\ foreign # {} /\ foreign' = {} /\ UNCHANGED <<c, pc, ours, hist>>

Next ==
  \/ ConnectTcp \/ ConnectUnix \/ ConnectFd \/ Reconnect \/ RedisFree \/ RedisFreeKeepFd
  \/ SetTimeout \/ KeepAlive \/ Resolve \/ Socket \/ USocket \/ NonBlock \/ Bind \/ ConnectCall
  \/ UConnect \/ WaitReady \/ Blocking \/ TcpNoDelay \/ UBlocking \/ ForeignOpen \/ ForeignClose
-----------------------------------------------------------------------------
\* Where every descriptor is: the library holds the one of its context and
\* those a retry after EADDRNOTAVAIL left open; a connection that was made
\* holds an open one; and a descriptor of another part of the process is closed
\* only after a reconnection that failed before it had a new socket, which
\* leaves a closed number in the context.
DescriptorsAccounted ==
  /\ ours \subseteq {c.fd} \cup hist.leaked
  /\ hist.closedForeign => hist.stale
  /\ Ready /\ pc.rv = "OK" => c.fd \in ours

\* The result of a constructor or a reconnection can be read off the context,
\* as redisConnect's comment says: a call that failed has set c->err, unless
\* SO_REUSEADDR was refused or the retries ran out, and a call that succeeded
\* left an open descriptor in the mode the flags ask for.
FailureShows ==
  Ready => /\ pc.rv = "ERR" => c.err \/ pc.silent
           /\ pc.rv = "OK" => c.connected /\ c.nonblock = ~c.block
=============================================================================
