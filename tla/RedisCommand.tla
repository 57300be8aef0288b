---------------------------- MODULE RedisCommand ----------------------------
(***************************************************************************)
(* hiredis-vip-master/command.c: redis_parse_cmd finds the type and the    *)
(* keys of a request of the unified protocol, for the cluster client to    *)
(* know the slots.                                                         *)
(*                                                                         *)
(* A request is a sequence of lines: the number of arguments, then for     *)
(* each argument its length and its data.  The parser takes one line a     *)
(* step, its CR and LF included.  A line is good when it has the form its  *)
(* place asks for and its length fits; the data of an argument is the      *)
(* command's name, a number or a text.                                     *)
(***************************************************************************)
EXTENDS Integers, Sequences

CONSTANTS MaxArgs   \* bound on the arguments of a request

VARIABLES req,      \* the request
          cmd       \* struct cmd and the parser's running state

vars == <<req, cmd>>

------------------------------------------------------------------------------
(* The commands that are known, by the length of their name. *)
Three == {"get", "set", "ttl", "del"}
Four == {"pttl", "decr", "dump", "hdel", "hget", "hlen", "hset", "incr",
         "llen", "lpop", "lrem", "lset", "rpop", "sadd", "spop", "srem",
         "type", "mget", "mset", "zadd", "zrem", "eval", "sort", "ping",
         "quit", "auth"}
Five == {"hkeys", "hmget", "hmset", "hvals", "hscan", "lpush", "ltrim",
         "rpush", "scard", "sdiff", "setex", "setnx", "smove", "sscan",
         "zcard", "zrank", "zscan", "pfadd"}
Six == {"append", "decrby", "exists", "expire", "getbit", "getset", "psetex",
        "hsetnx", "incrby", "lindex", "lpushx", "lrange", "rpushx", "setbit",
        "sinter", "strlen", "sunion", "zcount", "zrange", "zscore"}
Seven == {"persist", "pexpire", "hexists", "hgetall", "hincrby", "linsert",
          "zincrby", "evalsha", "restore", "pfcount", "pfmerge"}
Eight == {"expireat", "bitcount", "getrange", "setrange", "smembers",
          "zrevrank"}
Nine == {"pexpireat", "rpoplpush", "sismember", "zrevrange", "zlexcount"}
TenEleven == {"sdiffstore", "incrbyfloat", "sinterstore", "srandmember",
              "sunionstore", "zinterstore", "zunionstore", "zrangebylex"}
Longer == {"hincrbyfloat", "zrangebyscore", "zremrangebylex",
           "zremrangebyrank", "zremrangebyscore", "zrevrangebyscore"}

Known == Three \cup Four \cup Five \cup Six \cup Seven \cup Eight \cup Nine \cup TenEleven \cup Longer

(* How many arguments follow the key, and whether these are keys. *)
ArgZ == {"ping", "quit"}
Arg0 == {"exists", "persist", "pttl", "sort", "ttl", "type", "dump", "decr",
         "get", "incr", "strlen", "hgetall", "hkeys", "hlen", "hvals",
         "llen", "lpop", "rpop", "scard", "smembers", "spop", "zcard",
         "pfcount", "auth"}
Arg1 == {"expire", "expireat", "pexpire", "pexpireat", "append", "decrby",
         "getbit", "getset", "incrby", "incrbyfloat", "setnx", "hexists",
         "hget", "lindex", "lpushx", "rpoplpush", "rpushx", "sismember",
         "zrank", "zrevrank", "zscore"}
Arg2 == {"getrange", "psetex", "setbit", "setex", "setrange", "hincrby",
         "hincrbyfloat", "hset", "hsetnx", "lrange", "lrem", "lset", "ltrim",
         "smove", "zcount", "zlexcount", "zincrby", "zremrangebylex",
         "zremrangebyrank", "zremrangebyscore", "restore"}
Arg3 == {"linsert"}
ArgN == {"bitcount", "set", "hdel", "hmget", "hmset", "hscan", "lpush",
         "rpush", "sadd", "sdiff", "sdiffstore", "sinter", "sinterstore",
         "srem", "sunion", "sunionstore", "srandmember", "sscan", "pfadd",
         "pfmerge", "zadd", "zinterstore", "zrange", "zrangebyscore", "zrem",
         "zrevrange", "zrangebylex", "zrevrangebyscore", "zunionstore",
         "zscan"}
ArgX == {"mget", "del"}
ArgKVX == {"mset"}
ArgEval == {"eval", "evalsha"}

------------------------------------------------------------------------------
(* command_get. *)
CommandGet == [state |-> "NARG", result |-> "OK", type |-> "UNKNOWN", narg |-> 0, rnarg |-> 0,
               keys |-> <<>>, line |-> 1]

(* The requests, with at most one thing wrong: the number of arguments is one
   too low or too high, the lines end early, or one of them is bad. *)
Requests ==
  {[args |-> <<name>> \o rest, narg |-> Len(rest) + 1 + d, bad |-> bad, lines |-> 2 * Len(rest) + 3 - cut] :
     name \in Known \cup {"unknown"},
     rest \in UNION {[1 .. n -> {"text"}] : n \in 0 .. MaxArgs}
              \cup {<<"text", n, "text", "text">> : n \in {"0", "2"}},
     d \in {-1, 0, 1}, bad \in 0 .. 5, cut \in 0 .. 2}
Plausible(r) == \/ r.bad = 0 /\ r.narg = Len(r.args)
                \/ r.bad = 0 /\ r.lines = 2 * Len(r.args) + 1
                \/ r.narg = Len(r.args) /\ r.lines = 2 * Len(r.args) + 1

Init == req \in {r \in Requests : Plausible(r)} /\ cmd = CommandGet

Running == cmd.state \notin {"done", "error"} /\ cmd.line <= req.lines
Good == cmd.line # req.bad
Data == req.args[(cmd.line - 1) \div 2]

Goto(c, state) == cmd' = [c EXCEPT !.state = state, !.line = @ + 1] /\ UNCHANGED req
Done(c) == Goto(c, "done")
Error == cmd' = [cmd EXCEPT !.state = "error", !.result = "ERROR"] /\ UNCHANGED req
At(state) == Running /\ cmd.state = state

Narg == /\ At("NARG")
        /\ IF Good /\ req.narg # 0
           THEN Goto([cmd EXCEPT !.narg = req.narg, !.rnarg = req.narg], "REQ_TYPE_LEN")
           ELSE Error

(* A length counts its argument; then comes the data. *)
LenOf(state, next) ==
  /\ At(state)
  /\ IF Good /\ cmd.rnarg # 0 THEN Goto([cmd EXCEPT !.rnarg = @ - 1], next) ELSE Error

ReqTypeLen == LenOf("REQ_TYPE_LEN", "REQ_TYPE")
KeyLen == LenOf("KEY_LEN", "KEY")
Arg1Len == LenOf("ARG1_LEN", "ARG1")
Arg2Len == LenOf("ARG2_LEN", "ARG2")
Arg3Len == LenOf("ARG3_LEN", "ARG3")
ArgnLen == LenOf("ARGN_LEN", "ARGN")

(* The name, up to the LF of its line. *)
TypeLF(c) == CASE c.type \in ArgZ -> Done(c)
               [] c.type \in ArgEval -> Goto(c, "ARG1_LEN")
               [] OTHER -> Goto(c, "KEY_LEN")
ReqType == /\ At("REQ_TYPE")
           /\ IF Good /\ Data \in Known THEN TypeLF([cmd EXCEPT !.type = Data]) ELSE Error

(* After a line, a command that needs exactly n more arguments goes on when
   they are there; a vector command ends when none is left. *)
Exactly(c, n, state) == IF c.rnarg = n THEN Goto(c, state) ELSE Error
Last(c) == Exactly(c, 0, "done")
OrMore(c, state) == IF c.rnarg = 0 THEN Done(c) ELSE Goto(c, state)

KeyLF(c) ==
  CASE c.type \in Arg0 -> Last(c)
    [] c.type \in Arg1 -> Exactly(c, 1, "ARG1_LEN")
    [] c.type \in Arg2 -> Exactly(c, 2, "ARG1_LEN")
    [] c.type \in Arg3 -> Exactly(c, 3, "ARG1_LEN")
    [] c.type \in ArgN -> OrMore(c, "ARG1_LEN")
    [] c.type \in ArgX -> OrMore(c, "KEY_LEN")
    [] c.type \in ArgKVX -> IF c.rnarg # 0 /\ c.narg % 2 = 0 THEN Error ELSE OrMore(c, "ARG1_LEN")
    [] c.type \in ArgEval -> OrMore(c, "ARGN_LEN")
    [] OTHER -> Error
Key == /\ At("KEY")
       /\ IF Good THEN KeyLF([cmd EXCEPT !.keys = Append(@, (cmd.line - 1) \div 2)]) ELSE Error

(* A bug: the value of a pair is followed by another value. *)
Arg1LF_Values(c) ==
  CASE c.type \in Arg1 -> Last(c)
    [] c.type \in Arg2 -> Exactly(c, 1, "ARG2_LEN")
    [] c.type \in Arg3 -> Exactly(c, 2, "ARG2_LEN")
    [] c.type \in ArgEval -> IF c.rnarg < 2 THEN Error ELSE Goto(c, "ARG2_LEN")
    [] c.type \in ArgN -> OrMore(c, "ARGN_LEN")
    [] c.type \in ArgKVX -> OrMore(c, "ARG1_LEN")
    [] OTHER -> Error
Arg1LF(c) ==
  CASE c.type \in Arg1 -> Last(c)
    [] c.type \in Arg2 -> Exactly(c, 1, "ARG2_LEN")
    [] c.type \in Arg3 -> Exactly(c, 2, "ARG2_LEN")
    [] c.type \in ArgN -> OrMore(c, "ARGN_LEN")
    [] c.type \in ArgEval -> IF c.rnarg < 2 THEN Error ELSE Goto(c, "ARG2_LEN")
    [] c.type \in ArgKVX -> OrMore(c, "KEY_LEN")
    [] OTHER -> Error
Arg1Data == At("ARG1") /\ IF Good THEN Arg1LF(cmd) ELSE Error

(* The second argument of EVAL is the number of its keys, which must not be 0;
   only the first of them is recorded. *)
Arg2LF(c) ==
  CASE c.type \in Arg2 -> Last(c)
    [] c.type \in Arg3 -> Exactly(c, 1, "ARG3_LEN")
    [] c.type \in ArgN -> OrMore(c, "ARGN_LEN")
    [] c.type \in ArgEval -> IF c.rnarg < 1 THEN Error ELSE Goto(c, "KEY_LEN")
    [] OTHER -> Error
NumKeys == cmd.type \in ArgEval => Data \notin {"text", "0"}
Arg2Data == At("ARG2") /\ IF Good /\ NumKeys THEN Arg2LF(cmd) ELSE Error

Arg3LF(c) ==
  CASE c.type \in Arg3 -> Last(c)
    [] c.type \in ArgN -> OrMore(c, "ARGN_LEN")
    [] OTHER -> Error
Arg3Data == At("ARG3") /\ IF Good THEN Arg3LF(cmd) ELSE Error

ArgnLF(c) == IF c.type \in ArgN \cup ArgEval THEN OrMore(c, "ARGN_LEN") ELSE Error
ArgnData == At("ARGN") /\ IF Good THEN ArgnLF(cmd) ELSE Error

Next == \/ Narg \/ ReqTypeLen \/ ReqType \/ KeyLen \/ Key \/ Arg1Len \/ Arg1Data \/ Arg2Len \/ Arg2Data
        \/ Arg3Len \/ Arg3Data \/ ArgnLen \/ ArgnData

Spec == Init /\ [][Next]_vars

------------------------------------------------------------------------------
(* What the commands of Redis take, counted with the name, and where their
   keys are.  MSET with a key and no value is let through. *)
Fits(name, n) ==
  CASE name \in ArgZ -> TRUE
    [] name \in Arg0 -> n = 2
    [] name \in Arg1 -> n = 3
    [] name \in Arg2 -> n = 4
    [] name \in Arg3 -> n = 5
    [] name \in ArgN \cup ArgX -> n >= 2
    [] name \in ArgKVX -> n = 2 \/ (n >= 3 /\ n % 2 = 1)
    [] name \in ArgEval -> n >= 4 /\ req.args[3] \notin {"text", "0"}
    [] OTHER -> FALSE
KeysOf(name, n) ==
  CASE name \in ArgZ -> {}
    [] name \in ArgX -> 2 .. n
    [] name \in ArgKVX -> {i \in 2 .. n : i % 2 = 0}
    [] name \in ArgEval -> {4}
    [] OTHER -> {2}

(* The parser agrees with the table: a request that is whole is accepted
   exactly when its arguments fit, with the keys where they are, in order and
   each once (command.c:315-1621).  A name without arguments ends before the
   parser has decided: the result says OK, there are no keys, and
   command_format_by_slot refuses it for that (hircluster.c:3581-3585). *)
Whole == req.narg = Len(req.args) /\ req.bad \notin 1 .. 2 * Len(req.args) + 1
         /\ req.lines = 2 * Len(req.args) + 1
KeysInOrder == \A i, j \in DOMAIN cmd.keys : i < j => cmd.keys[i] < cmd.keys[j]
ParserAgrees ==
  LET name == req.args[1]
      n == Len(req.args)
      found == {cmd.keys[i] : i \in DOMAIN cmd.keys}
  IN ~Running =>
       /\ Whole => /\ (cmd.state = "done") = Fits(name, n)
                   /\ (cmd.result = "OK") = (Fits(name, n) \/ (name \in Known /\ n = 1))
       /\ Whole /\ Fits(name, n) => found = KeysOf(name, n)
       /\ n = 1 => found = {}
       /\ KeysInOrder
       /\ cmd.state = "done" => req.narg >= Len(cmd.keys) + 1
==============================================================================
