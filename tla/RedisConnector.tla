--------------------------- MODULE RedisConnector ---------------------------
(***************************************************************************)
(* The Redis connection classes of the program, redisconn and its copy for *)
(* a cluster, redisconn_cluster: what each method makes of the reply, and  *)
(* who owns it.  A command is answered, refused with an error, or not      *)
(* answered at all, in which case the server may have executed it or not   *)
(* and the library returns NULL.  One key of each kind is enough, since a  *)
(* command touches one.                                                    *)
(***************************************************************************)
EXTENDS Integers, SequencesExt

CONSTANTS Fields, Vals,  \* the fields of the hash and the values stored
          Auth,          \* is there a password
          MaxLive        \* bound on the replies and contexts that are never freed

VARIABLES srv,           \* the server: hash, string, set
          rc,            \* the object: m_redis, m_reply, its last result, whether it lives
          heap           \* history: replies and contexts allocated, carelessness

vars == <<srv, rc, heap>>

NULL == [type |-> "NULL"]

Status == [type |-> "STATUS"]     \* "OK"

Error == [type |-> "ERROR"]

Unset == "unset"

Nothing == [op |-> "nothing"]     \* no command since the last crash or sendCommand

\* the server's answer to a command that it executes
Answer(cmd) ==
  CASE cmd.op = "HMSET" -> IF cmd.hash = <<>> THEN Error ELSE Status
    [] cmd.op \in {"SET", "AUTH"} -> Status
    [] cmd.op \in {"SADD", "SREM"} -> [type |-> "INTEGER"]
    [] cmd.op = "HGETALL"  -> [type |-> "ARRAY", hash |-> srv.hash]
    [] cmd.op = "SMEMBERS" -> [type |-> "ARRAY", set |-> srv.set]
    [] cmd.op = "GET" -> IF srv.str = Unset THEN [type |-> "NIL"] ELSE [type |-> "STRING", str |-> srv.str]

After(cmd) ==
  CASE cmd.op = "HMSET" -> [srv EXCEPT !.hash = [f \in DOMAIN cmd.hash \cup DOMAIN @ |->
                                                  IF f \in DOMAIN cmd.hash THEN cmd.hash[f] ELSE @[f]]]
    [] cmd.op = "SET"  -> [srv EXCEPT !.str = cmd.val]
    [] cmd.op = "SADD" -> [srv EXCEPT !.set = @ \cup {cmd.val}]
    [] cmd.op = "SREM" -> [srv EXCEPT !.set = @ \ {cmd.val}]
    [] cmd.op \in {"HGETALL", "SMEMBERS", "GET", "AUTH"} -> srv

\* redisCommandArgv or redisClusterCommandArgv: the reply, and the server
Issued(cmd, reply) ==
  \/ reply = Answer(cmd) /\ srv' = After(cmd)
  \/ reply = Error /\ UNCHANGED srv
  \/ reply = NULL /\ srv' \in {srv, After(cmd)}

Replies(cmd) == {Answer(cmd), Error, NULL}

IsOK(reply) == reply.type = "STATUS"

\* getHashAll: an empty hash for an error as for no hash
HashOf(reply) == IF reply.type = "ARRAY" THEN reply.hash ELSE <<>>

\* getSet: likewise
SetOf(reply) == IF reply.type = "ARRAY" THEN reply.set ELSE {}

\* getString: only the text of a status is returned
StringOf(reply) == IF IsOK(reply) THEN "OK" ELSE ""
-----------------------------------------------------------------------------
Init ==
  /\ srv = [hash |-> <<>>, str |-> Unset, set |-> {}]
  /\ rc = [state |-> "new", reply |-> NULL, did |-> Nothing, ret |-> FALSE]
  /\ heap = [replies |-> 0, contexts |-> 0, careless |-> FALSE]

Alive == rc.state = "up" /\ heap.replies < MaxLive

\* connect: no context or one with an error is thrown; the context is not
\* freed, since a constructor that throws has no destructor
Connect ==
  /\ rc.state = "new" /\ heap.contexts < MaxLive
  /\ \/ /\ rc' = [rc EXCEPT !.state = IF Auth THEN "auth" ELSE "up"]
        /\ heap' = [heap EXCEPT !.contexts = @ + 1]
     \/ /\ UNCHANGED rc
        /\ \E made \in {0, 1} : heap' = [heap EXCEPT !.contexts = @ + made]
  /\ UNCHANGED srv

\* redisAuth, whose reply is freed either way
RedisAuth ==
  /\ rc.state = "auth"
  /\ \E reply \in Replies([op |-> "AUTH"]) :
       rc' = [rc EXCEPT !.state = IF reply = NULL THEN "crashed" ELSE IF IsOK(reply) THEN "up" ELSE "new"]
  /\ UNCHANGED <<srv, heap>>

\* ~redisconn: the context is freed, a reply still held is not
Destroy ==
  /\ rc.state = "up"
  /\ rc' = [rc EXCEPT !.state = "new", !.reply = NULL, !.did = Nothing]
  /\ heap' = [heap EXCEPT !.contexts = @ - 1, !.careless = @ \/ rc.reply # NULL]
  /\ UNCHANGED srv

\* the reply is put in m_reply, over one that was never freed
Taken(h, reply) == [h EXCEPT !.replies = @ + 1, !.careless = @ \/ rc.reply # NULL]

\* freeReply
Dropped(h) == [h EXCEPT !.replies = @ - 1]

\* a method reads the reply, returns what it made of it and frees it; it reads
\* a NULL reply as well, which ends the program
Returns(cmd, reply, result) ==
  /\ Alive /\ Issued(cmd, reply)
  /\ \/ /\ reply = NULL
        /\ rc' = [rc EXCEPT !.state = "crashed", !.did = Nothing] /\ UNCHANGED heap
     \/ /\ reply # NULL
        /\ rc' = [rc EXCEPT !.reply = NULL, !.did = cmd, !.ret = result]
        /\ heap' = Dropped(Taken(heap, reply))

GetHashAll == \E reply \in Replies([op |-> "HGETALL"]) : Returns([op |-> "HGETALL"], reply, HashOf(reply))

\* a refusal is reported without freeing the reply
SetHash_Keeps ==
  \E h \in UNION {[F -> Vals] : F \in SUBSET Fields} : \E reply \in Replies([op |-> "HMSET", hash |-> h]) :
    IF reply = Error
    THEN /\ Alive /\ UNCHANGED srv
         /\ rc' = [rc EXCEPT !.reply = NULL, !.did = [op |-> "HMSET", hash |-> h], !.ret = FALSE]
         /\ heap' = Taken(heap, reply)
    ELSE Returns([op |-> "HMSET", hash |-> h], reply, IsOK(reply))

SetHash ==
  \E h \in UNION {[F -> Vals] : F \in SUBSET Fields} : \E reply \in Replies([op |-> "HMSET", hash |-> h]) :
    Returns([op |-> "HMSET", hash |-> h], reply, IsOK(reply))

SetString ==
  \E v \in Vals : \E reply \in Replies([op |-> "SET", val |-> v]) :
    Returns([op |-> "SET", val |-> v], reply, IsOK(reply))

GetString == \E reply \in Replies([op |-> "GET"]) : Returns([op |-> "GET"], reply, StringOf(reply))

GetSet == \E reply \in Replies([op |-> "SMEMBERS"]) : Returns([op |-> "SMEMBERS"], reply, SetOf(reply))

\* an integer is not a status, so the element is added and the result false
SetAdd ==
  \E v \in Vals : \E reply \in Replies([op |-> "SADD", val |-> v]) :
    Returns([op |-> "SADD", val |-> v], reply, IsOK(reply))

SetDel ==
  \E v \in Vals : \E reply \in Replies([op |-> "SREM", val |-> v]) :
    Returns([op |-> "SREM", val |-> v], reply, IsOK(reply))

\* sendCommand: the reply is left for getReply, NULL or not
SendCommand ==
  /\ Alive
  /\ \E reply \in Replies([op |-> "GET"]) :
       /\ Issued([op |-> "GET"], reply)
       /\ rc' = [rc EXCEPT !.reply = reply, !.did = Nothing]
       /\ heap' = IF reply = NULL THEN [heap EXCEPT !.careless = @ \/ rc.reply # NULL]
                  ELSE Taken(heap, reply)

FreeReply ==
  /\ rc.state = "up" /\ rc.reply # NULL
  /\ rc' = [rc EXCEPT !.reply = NULL] /\ heap' = Dropped(heap)
  /\ UNCHANGED srv

Next ==
  \/ Connect \/ RedisAuth \/ Destroy \/ GetHashAll \/ SetHash \/ SetString \/ GetString
  \/ GetSet \/ SetAdd \/ SetDel \/ SendCommand \/ FreeReply
-----------------------------------------------------------------------------
\* What a method returned can be relied on in one direction: true from setHash
\* and setString means stored, a hash or a set that is not empty is the one of
\* the server, while an empty one, an empty string and the false of setAdd and
\* setDel say nothing.  And every reply is freed exactly once, unless one that
\* sendCommand left behind is overwritten or outlives the object.
ConnectorTruth ==
  /\ rc.did.op = "HMSET" /\ rc.ret => \A f \in DOMAIN rc.did.hash : srv.hash[f] = rc.did.hash[f]
  /\ rc.did.op = "SET" /\ rc.ret => srv.str = rc.did.val
  /\ rc.did.op = "HGETALL" /\ rc.ret # <<>> => rc.ret = srv.hash
  /\ rc.did.op = "SMEMBERS" /\ rc.ret # {} => rc.ret = srv.set
  /\ rc.did.op = "GET" => rc.ret = ""
  /\ rc.did.op \in {"SADD", "SREM"} => rc.ret = FALSE
  /\ heap.replies >= (IF rc.reply = NULL THEN 0 ELSE 1)
  /\ ~heap.careless => heap.replies = (IF rc.reply = NULL THEN 0 ELSE 1)
=============================================================================
