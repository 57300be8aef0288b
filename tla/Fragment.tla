------------------------------ MODULE Fragment ------------------------------
(***************************************************************************)
(* hiredis-vip-master/hircluster.c: a command with several keys is split   *)
(* into one sub-command for each slot, and the replies to them are put     *)
(* together again; crc16.c and keyHashSlot give the slot of a key.         *)
(*                                                                         *)
(* A key is the sequence of its bytes.  A sub-command is its keys, the     *)
(* length clen it is allocated with and the number of bytes that are then  *)
(* written; num_str is the buffer of hi_itoa, of which only the length of  *)
(* the string in it matters.                                               *)
(***************************************************************************)
EXTENDS Integers, SequencesExt, Bitwise

CONSTANTS KeyLists,   \* the keys of the commands
          ValueLens   \* the lengths of the values of an MSET

VARIABLES fr          \* the command, its sub-commands and its reply

vars == fr

------------------------------------------------------------------------------
(* crc16: the table holds the remainders of the bytes by the polynomial. *)
Shifted(r) == IF r >= 32768 THEN ((2 * r) % 65536) ^^ 4129 ELSE 2 * r
Crc16Tab(b) == FoldLeft(LAMBDA r, i : Shifted(r), b * 256, [i \in 1 .. 8 |-> i])
Crc16(buf) == FoldLeft(LAMBDA crc, b : ((crc % 256) * 256) ^^ Crc16Tab((crc \div 256) ^^ b), 0, buf)

(* keyHashSlot: what is between the first "{" and the first "}" after it, if
   there is something. *)
OpenBrace == 123
CloseBrace == 125
Hashed(key) ==
  LET s == SelectInSeq(key, LAMBDA b : b = OpenBrace)
      rest == SubSeq(key, s + 1, Len(key))
      e == SelectInSeq(rest, LAMBDA b : b = CloseBrace)
  IN IF s = 0 \/ e \in {0, 1} THEN key ELSE SubSeq(rest, 1, e - 1)
KeyHashSlot(key) == Crc16(Hashed(key)) % 16384

------------------------------------------------------------------------------
(* _uint_len, and what _hi_itoa leaves in its buffer: 0 is written without an
   end, so a longer number stays visible behind it. *)
UintLen(n) == CASE n < 10 -> 1 [] n < 100 -> 2 [] OTHER -> 3
Itoa(numStr, n) == IF n = 0 THEN numStr ELSE UintLen(n)

Headers == [MGET |-> 12, DEL |-> 11, MSET |-> 12]
Sum(seq) == FoldLeft(LAMBDA a, b : a + b, 0, seq)

(* command_pre_fragment, its first loop: the keys by slot; an MSET takes what
   follows the key, up to the end of its value, along. *)
Remain(type, vlen) == IF type = "MSET" THEN vlen + 4 + 3 + UintLen(vlen) ELSE 0
Grouped(keys, s) == SelectSeq([i \in DOMAIN keys |-> [key |-> keys[i], i |-> i]],
                              LAMBDA k : KeyHashSlot(k.key) = s)

(* The second loop: the length is computed, then the bytes are written. *)
Clen(type, keys, vlen) ==
  LET n == Len(keys)
      narg == IF type = "MSET" THEN 2 * n + 1 ELSE n + 1
  IN Sum([i \in 1 .. n |-> Len(keys[i].key) + UintLen(Len(keys[i].key)) + Remain(type, vlen)])
     + (IF type = "MSET" THEN 3 * n ELSE 5 * n)
     + (IF type = "DEL" THEN 12 ELSE 13) + UintLen(narg)
Written(type, keys, vlen) ==
  LET n == Len(keys)
      narg == IF type = "MSET" THEN 2 * n + 1 ELSE n + 1
      KeyBytes(w, k) ==
        LET str == Itoa(w.numStr, Len(k.key))
        IN [numStr |-> str,
            idx |-> w.idx + 1 + str + 2 + Len(k.key) + (IF type = "MSET" THEN Remain(type, vlen) ELSE 2)]
  IN FoldLeft(KeyBytes, [numStr |-> UintLen(narg), idx |-> 1 + UintLen(narg) + Headers[type]], keys).idx

NoReply == [type |-> "null"]
SubCommand(type, keys, vlen, s) ==
  LET mine == Grouped(keys, s)
  IN [slot |-> s, keys |-> mine, reply |-> NoReply,
      clen |-> Clen(type, mine, vlen), written |-> Written(type, mine, vlen)]

(* The sub-commands are listed by slot; a single one is thrown away and the
   command is sent as it is. *)
PreFragment(type, keys, vlen) ==
  LET slots == {KeyHashSlot(keys[i]) : i \in DOMAIN keys}
      sorted == SetToSortSeq(slots, LAMBDA a, b : a < b)
      subs == [i \in DOMAIN sorted |-> SubCommand(type, keys, vlen, sorted[i])]
  IN IF Len(subs) = 1 THEN <<>> ELSE subs

(* slot_get_by_command, which nothing calls: the slot of the last key. *)
SlotGetByCommand(parsed, keys) == IF ~parsed \/ keys = <<>> THEN -1 ELSE KeyHashSlot(Last(keys))

(* command_format_by_slot: a command with one key is not split. *)
FormatBySlot(type, keys, vlen) == IF Len(keys) = 1 THEN <<>> ELSE PreFragment(type, keys, vlen)

Init == \E type \in DOMAIN Headers, keys \in KeyLists, vlen \in ValueLens :
          /\ type # "MSET" => vlen = 0
          /\ \E stored \in SUBSET {keys[i] : i \in DOMAIN keys}, pipelined \in BOOLEAN :
               fr = [type |-> type, keys |-> keys, vlen |-> vlen, subs |-> <<>>, pc |-> "format",
                     next |-> 1, stored |-> stored, reply |-> NoReply,
                     pipelined |-> pipelined, own |-> 0, freed |-> {}]

Format == /\ fr.pc = "format"
          /\ fr' = [fr EXCEPT !.pc = "run", !.subs = FormatBySlot(fr.type, fr.keys, fr.vlen)]

------------------------------------------------------------------------------
(* What a server answers. *)
Value(k) == IF k \in fr.stored THEN k ELSE <<-1>>
Answer(ks) ==
  CASE fr.type = "MGET" -> [type |-> "array", element |-> [i \in DOMAIN ks |-> Value(ks[i])]]
    [] fr.type = "DEL" -> [type |-> "integer", integer |-> Cardinality(ToSet(ks) \cap fr.stored)]
    [] OTHER -> [type |-> "status"]
Failures == {NoReply, [type |-> "error"]}

(* Replies that a server should not give: of another type, or with too few
   elements. *)
Odd == [type |-> "odd"]
Oddities(ks) ==
  {Odd} \cup (IF fr.type = "MGET" THEN {[type |-> "array", element |-> Front(Answer(ks).element)]} ELSE {})

(* command_post_fragment: the sub-replies must be of the type that fits; the
   first that does not, or that is a failure, decides.  The elements of an MGET
   are taken from the ends of the sub-replies. *)
Fits(type, r) == r.type = CASE type = "MGET" -> "array" [] type = "DEL" -> "integer" [] OTHER -> "status"
FirstFailure(type, subs) ==
  LET r == subs[SelectInSeq(subs, LAMBDA s : ~Fits(type, s.reply))].reply
  IN IF r.type = "error" THEN r ELSE NoReply
TooFew(subs) == \E s \in ToSet(subs) : Len(s.reply.element) < Len(s.keys)
Owner(subs, i) == CHOOSE j \in DOMAIN subs : \E k \in ToSet(subs[j].keys) : k.i = i

(* A bug: the elements are taken from the front. *)
MgetReply_Front(subs, n) ==
  LET Take(acc, x) ==
        LET i == n + 1 - x
            j == Owner(subs, i)
        IN [out |-> [acc.out EXCEPT ![i] = Head(acc.left[j])],
            left |-> [acc.left EXCEPT ![j] = Tail(@)]]
  IN FoldLeft(Take, [out |-> [i \in 1 .. n |-> <<>>], left |-> [j \in DOMAIN subs |-> subs[j].reply.element]],
              [i \in 1 .. n |-> i]).out
MgetReply(subs, n) ==
  LET Take(acc, x) ==
        LET i == n + 1 - x
            j == Owner(subs, i)
        IN [out |-> [acc.out EXCEPT ![i] = Last(acc.left[j])],
            left |-> [acc.left EXCEPT ![j] = Front(@)]]
  IN FoldLeft(Take, [out |-> [i \in 1 .. n |-> <<>>], left |-> [j \in DOMAIN subs |-> subs[j].reply.element]],
              [i \in 1 .. n |-> i]).out
PostFragment(type, n, subs) ==
  CASE \E s \in ToSet(subs) : ~Fits(type, s.reply) -> FirstFailure(type, subs)
    [] type = "MGET" /\ TooFew(subs) -> NoReply
    [] type = "MGET" -> [type |-> "array", element |-> MgetReply(subs, n)]
    [] type = "DEL" -> [type |-> "integer", integer |-> Sum([i \in DOMAIN subs |-> subs[i].reply.integer])]
    [] OTHER -> [type |-> "status"]

(* The sub-command whose own reply is what command_post_fragment returns, or 0
   for a new object. *)
Owned(type, subs) ==
  LET j == SelectInSeq(subs, LAMBDA s : ~Fits(type, s.reply))
  IN IF j # 0 /\ subs[j].reply.type = "error" THEN j ELSE 0

(* The command is destroyed with its sub-commands and the replies they hold. *)
CommandDestroy(subs) == {j \in DOMAIN subs : subs[j].reply # NoReply}
Returns(r, own) == fr' = [fr EXCEPT !.pc = "done", !.reply = r, !.own = own, !.freed = CommandDestroy(fr.subs)]

(* The command is executed; a sub-command that fails ends it.  In a pipeline an
   error is kept until the other replies are there. *)
RunWhole == /\ fr.pc = "run" /\ fr.subs = <<>>
            /\ \E r \in Failures \cup Oddities(fr.keys) \cup {Answer(fr.keys)} :
                 Returns(r, 0)
RunSub ==
  /\ fr.pc = "run" /\ fr.next \in DOMAIN fr.subs
  /\ LET ks == [i \in DOMAIN fr.subs[fr.next].keys |-> fr.subs[fr.next].keys[i].key]
     IN \E r \in Failures \cup Oddities(ks) \cup {Answer(ks)} :
          IF r = NoReply \/ (r \in Failures /\ ~fr.pipelined) THEN Returns(r, 0)
          ELSE fr' = [fr EXCEPT !.next = @ + 1, !.subs[fr.next].reply = r]
Combine == /\ fr.pc = "run" /\ fr.subs # <<>> /\ fr.next > Len(fr.subs)
           /\ Returns(PostFragment(fr.type, Len(fr.keys), fr.subs), Owned(fr.type, fr.subs))

Next == Format \/ RunWhole \/ RunSub \/ Combine

Spec == Init /\ [][Next]_vars

------------------------------------------------------------------------------
(* Splitting is invisible: the reply is a failure of some part, or the one a
   single server with all the keys would have given, the i-th element of an
   MGET for the i-th key, also when keys repeat; a part that was answered with
   something else never gets into it (hircluster.c:3148-3543).  The program gets
   an object that is not destroyed with the command, unless it is the error
   that answered a part of a pipelined one (4157-4163, command.c:1687). *)
SplitIsInvisible ==
  fr.pc = "done" =>
    /\ fr.reply \in Failures \cup {Answer(fr.keys)} \cup (IF fr.subs = <<>> THEN Oddities(fr.keys) ELSE {})
    /\ fr.own \in fr.freed => fr.pipelined /\ fr.reply.type = "error"

(* Each sub-command has the keys of its slot, in order, each key is in one of
   them, and its bytes fill exactly what was allocated, unless an empty key
   follows a count of two digits.  A command that is not split has all its keys
   in one slot, the one slot_get_by_command gives (hircluster.c:2651-2711,
   3186-3389, hiutil.c:208-212). *)
SplitIsExact ==
  /\ \A i \in DOMAIN fr.subs :
       LET s == fr.subs[i]
       IN /\ \A k \in ToSet(s.keys) : KeyHashSlot(k.key) = s.slot
          /\ (s.written = s.clen \/ \E k \in ToSet(s.keys) : k.key = <<>>)
          /\ \A j \in 1 .. i - 1 : fr.subs[j].slot < s.slot
  /\ (fr.pc # "format" /\ fr.subs = <<>>) =>
       \A i \in DOMAIN fr.keys : KeyHashSlot(fr.keys[i]) = SlotGetByCommand(TRUE, fr.keys)
  /\ fr.subs # <<>> => Sum([i \in DOMAIN fr.subs |-> Len(fr.subs[i].keys)]) = Len(fr.keys)

(* The value that crc16.c documents for "123456789". *)
CrcCheck == Crc16([i \in 1 .. 9 |-> 48 + i]) = 12739
==============================================================================
