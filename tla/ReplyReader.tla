---------------------------- MODULE ReplyReader ----------------------------
(***************************************************************************)
(* hiredis-vip-master/read.c: the reader that turns the bytes of a         *)
(* connection, in whatever pieces they arrive, into replies.               *)
(*                                                                         *)
(* The bytes are units: the type byte of an item, the two parts of a line, *)
(* the second of which ends with CR LF, and the two parts of a bulk.  The  *)
(* pieces that arrive end between any two units, that is, before, in and   *)
(* after every line and every bulk.                                        *)
(***************************************************************************)
EXTENDS Integers, SequencesExt

CONSTANTS Trees,       \* the replies a server may send
          MaxReplies,  \* bound on how many
          Discard,     \* consumed units after which the buffer is cut: 1024 bytes
          None

VARIABLES rd,          \* redisReader
          wire,        \* the units the server has still to send
          sent, got    \* the replies it sends, and what redisReaderGetReply gave

vars == <<rd, wire, sent, got>>

(* The wire form of a reply. *)
Line(n) == <<[u |-> "line", n |-> n], [u |-> "eol", n |-> n]>>
TypeByte(b) == [u |-> "type", b |-> b]
Joined(seqs) == FoldLeft(LAMBDA a, b : a \o b, <<>>, seqs)
RECURSIVE Wire(_)
Wire(t) ==
  CASE t.type \in {":", "+", "-"} -> <<TypeByte(t.type)>> \o Line(t.v)
    [] t.type = "$" -> <<TypeByte("$")>> \o Line(1) \o <<[u |-> "bulk", v |-> t.v], [u |-> "end", v |-> t.v]>>
    [] t.type = "nil" -> <<TypeByte(t.v)>> \o Line(-1)
    [] t.type = "*" -> <<TypeByte("*")>> \o Line(Len(t.v)) \o Joined([i \in DOMAIN t.v |-> Wire(t.v[i])])
    [] OTHER -> <<TypeByte("?")>> \o Line(0)

------------------------------------------------------------------------------
(* redisReaderCreate. *)
Create == [err |-> FALSE, buf |-> <<>>, pos |-> 0, rstack |-> <<>>, reply |-> None, ok |-> TRUE, live |-> 0]

Init == /\ sent \in UNION {[1 .. n -> Trees] : n \in 1 .. MaxReplies}
        /\ wire = Joined([i \in DOMAIN sent |-> Wire(sent[i])])
        /\ rd = Create /\ got = <<>>

(* The objects a reply is made of; live counts those that are allocated and
   not yet handed over. *)
CreateReplyObject(type) == [type |-> type, v |-> None]
CreateStringObject(type, str) == [CreateReplyObject(type) EXCEPT !.v = str]
CreateArrayObject(elements) == [CreateReplyObject("*") EXCEPT !.v = elements]
CreateIntegerObject(value) == [CreateReplyObject(":") EXCEPT !.v = value]
CreateNilObject(byte) == [CreateReplyObject("nil") EXCEPT !.v = byte]
Allocated(r) == [r EXCEPT !.live = @ + 1]

(* freeReplyObject, by the number of objects it frees. *)
RECURSIVE FreeReplyObject(_)
FreeReplyObject(obj) ==
  1 + (IF obj.type = "*" THEN FoldLeft(LAMBDA n, e : n + FreeReplyObject(e), 0, obj.v) ELSE 0)

(* The reply as far as it was read: each array that is open has the elements
   that are complete and, last, the array that is open in it. *)
SoFar(r) ==
  LET open == [i \in 1 .. Len(r.rstack) - 1 |-> r.rstack[i].obj]
  IN FoldRight(LAMBDA obj, inner : <<CreateArrayObject(obj \o inner)>>, open, <<>>)

(* __redisReaderSetError. *)
SetError(r) ==
  [Create EXCEPT !.err = TRUE, !.ok = FALSE,
                 !.live = r.live - (IF SoFar(r) = <<>> THEN 0 ELSE FreeReplyObject(SoFar(r)[1]))]

Left(r) == SubSeq(r.buf, r.pos + 1, Len(r.buf))
Wait(r) == [r EXCEPT !.ok = FALSE]

(* readLine: the value of the line, when its end has arrived. *)
HasLine(r) == Len(Left(r)) >= 2
LineOf(r) == Left(r)[2].n
Skip(r, n) == [r EXCEPT !.pos = @ + n]

(* moveToNextTask, with the object that is complete: the array it belongs to
   gets it, and may be complete with it. *)
NewTask == [type |-> None, elements |-> -1, obj |-> <<>>]
RECURSIVE MoveToNextTask(_, _)
MoveToNextTask(r, obj) ==
  LET n == Len(r.rstack)
      prv == r.rstack[n - 1]
      full == Append(prv.obj, obj)
      up == [r EXCEPT !.rstack = Front(@)]
  IN CASE n = 1 -> [r EXCEPT !.rstack = <<>>, !.reply = obj]
       [] n > 1 /\ Len(full) = prv.elements -> MoveToNextTask(up, CreateArrayObject(full))
       [] OTHER -> [r EXCEPT !.rstack[n - 1].obj = full, !.rstack[n] = NewTask]

LineItem(r, type) ==
  LET obj == IF type = ":" THEN CreateIntegerObject(LineOf(r)) ELSE CreateStringObject(type, LineOf(r))
  IN IF HasLine(r) THEN MoveToNextTask(Allocated(Skip(r, 2)), obj) ELSE Wait(r)

(* A bulk is taken when it is there as a whole.  A bug: its end is not waited
   for. *)
BulkItem_Early(r) ==
  CASE ~HasLine(r) -> Wait(r)
    [] LineOf(r) < 0 -> MoveToNextTask(Allocated(Skip(r, 2)), CreateNilObject("$"))
    [] Len(Left(r)) >= 3 -> MoveToNextTask(Allocated(Skip(r, 4)), CreateStringObject("$", Left(r)[3].v))
    [] OTHER -> Wait(r)
BulkItem(r) ==
  CASE ~HasLine(r) -> Wait(r)
    [] LineOf(r) < 0 -> MoveToNextTask(Allocated(Skip(r, 2)), CreateNilObject("$"))
    [] Len(Left(r)) >= 4 -> MoveToNextTask(Allocated(Skip(r, 4)), CreateStringObject("$", Left(r)[3].v))
    [] OTHER -> Wait(r)

MultiBulkItem(r) ==
  LET n == Len(r.rstack)
  IN CASE n = 9 -> SetError(r)
       [] n # 9 /\ ~HasLine(r) -> Wait(r)
       [] n # 9 /\ HasLine(r) /\ LineOf(r) = -1 -> MoveToNextTask(Allocated(Skip(r, 2)), CreateNilObject("*"))
       [] n # 9 /\ HasLine(r) /\ LineOf(r) = 0 -> MoveToNextTask(Allocated(Skip(r, 2)), CreateArrayObject(<<>>))
       [] OTHER -> [Allocated(Skip(r, 2)) EXCEPT !.rstack = Append([@ EXCEPT ![n].elements = LineOf(r)], NewTask)]

(* The type byte is taken on its own, and remembered; anything else in its
   place is no type. *)
ReadType(r) ==
  LET n == Len(r.rstack)
      byte == IF "b" \in DOMAIN Head(Left(r)) THEN Head(Left(r)).b ELSE "bad"
  IN CASE r.rstack[n].type # None -> r
       [] r.rstack[n].type = None /\ Left(r) = <<>> -> Wait(r)
       [] OTHER -> [Skip(r, 1) EXCEPT !.rstack[n].type = byte]
ProcessItem(r) ==
  LET t == ReadType(r)
      type == t.rstack[Len(t.rstack)].type
  IN CASE ~t.ok -> t
       [] t.ok /\ type \in {":", "+", "-"} -> LineItem(t, type)
       [] t.ok /\ type = "$" -> BulkItem(t)
       [] t.ok /\ type = "*" -> MultiBulkItem(t)
       [] OTHER -> SetError(t)

RECURSIVE ProcessItems(_)
ProcessItems(r) == IF r.rstack = <<>> \/ ~r.ok THEN r ELSE ProcessItems(ProcessItem(r))

(* redisReaderFeed: a reader that has failed refuses. *)
Feed == /\ wire # <<>>
        /\ \E n \in 1 .. Len(wire) :
             /\ wire' = SubSeq(wire, n + 1, Len(wire))
             /\ rd' = IF rd.err THEN rd ELSE [rd EXCEPT !.buf = @ \o SubSeq(wire, 1, n)]
        /\ UNCHANGED <<sent, got>>

(* redisReaderGetReply. *)
Cut(r) == IF r.pos >= Discard THEN [r EXCEPT !.buf = Left(r), !.pos = 0] ELSE r
Emit(r) == IF r.rstack = <<>> THEN [r EXCEPT !.reply = None, !.live = @ - FreeReplyObject(r.reply)] ELSE r
GetReply ==
  /\ ~rd.err /\ rd.buf # <<>>
  /\ LET start == [rd EXCEPT !.ok = TRUE, !.rstack = IF @ = <<>> THEN <<NewTask>> ELSE @]
         r == ProcessItems(start)
     IN /\ rd' = IF r.err THEN r ELSE [Emit(Cut(r)) EXCEPT !.ok = TRUE]
        /\ got' = IF ~r.err /\ r.rstack = <<>> THEN Append(got, r.reply) ELSE got
  /\ UNCHANGED <<wire, sent>>

Next == Feed \/ GetReply
Spec == Init /\ [][Next]_vars

------------------------------------------------------------------------------
(* Which replies the reader must refuse: an unknown type byte, and arrays that
   are nested too deep. *)
RECURSIVE Arrays(_)
Arrays(t) == IF t.type # "*" THEN 0 ELSE 1 + Max({0} \cup {Arrays(t.v[i]) : i \in DOMAIN t.v})
RECURSIVE Valid(_)
Valid(t) == IF t.type = "*" THEN \A i \in DOMAIN t.v : Valid(t.v[i]) ELSE t.type # "bad"
Refused(t) == ~Valid(t) \/ Arrays(t) > 8

(* The replies do not depend on the pieces in which the bytes arrive: the
   reader gives the replies that were sent, in order, and none after one that
   it refuses; when nothing is left to read and no call is missing, it has
   given all of them (read.c:190-525).  Between two replies, and after it has
   refused one however deep inside an array, it holds no object
   (hiredis.c:63-189, read.c:46-70). *)
ReaderAgrees ==
  /\ IsPrefix(got, sent)
  /\ \A i \in DOMAIN got : ~Refused(got[i])
  /\ (rd.err \/ rd.rstack = <<>>) => rd.live = 0
  /\ rd.err => Len(got) < Len(sent) /\ Refused(sent[Len(got) + 1])
  /\ (wire = <<>> /\ ~rd.err /\ Left(rd) = <<>>) => rd.rstack \in {<<>>, <<NewTask>>} /\ got = sent
==============================================================================
