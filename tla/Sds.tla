--------------------------------- MODULE Sds ---------------------------------
(***************************************************************************)
(* The dynamic string of hiredis-vip (sds.c): a header with the length and *)
(* the free space, followed by the bytes and a terminator.  Every command  *)
(* is formatted into one, and the reply reader and the output buffer are   *)
(* one each.  The block is modelled byte by byte, with what realloc adds   *)
(* marked Junk, because the functions write into it at offsets they        *)
(* compute; a write past its end makes buf longer than the allocation.     *)
(***************************************************************************)
EXTENDS Integers, SequencesExt, FiniteSetsExt

CONSTANTS Chars,         \* the bytes the strings are made of, NUL among them
          MaxPrealloc,   \* SDS_MAX_PREALLOC, 1024*1024
          PrintfBuf,     \* the first buffer of sdscatvprintf, 16
          Width,         \* the bits of a long long
          MaxLen,        \* bound on the length of the string
          MaxText        \* bound on the length of an argument

VARIABLES sds,           \* the string: len, free, the bytes and the bytes allocated
          str            \* history: the text the calls describe

vars == <<sds, str>>

NUL == "NUL"

Junk == "junk"

NewLen(t) == [len |-> Len(t), free |-> 0, buf |-> Append(t, NUL), alloc |-> Len(t) + 1]

\* sdsnewlen(NULL, n): calloc
NewZero(n) == NewLen([i \in 1 .. n |-> NUL])

Contents(s) == SubSeq(s.buf, 1, s.len)

\* sdsdup takes the length of the header, not strlen
Dup(s) == NewLen(Contents(s))

\* memcpy of t to an offset of the block
Put(s, at, t) ==
  [s EXCEPT !.buf = [i \in 1 .. Max({Len(@), at + Len(t)}) |->
                       IF i \in at + 1 .. at + Len(t) THEN t[i - at] ELSE @[i]]]

StrLen(b) == Min({i \in 1 .. Len(b) : b[i] = NUL}) - 1

Realloc(s, n) ==
  [s EXCEPT !.buf = [i \in 1 .. n |-> IF i <= Len(@) THEN @[i] ELSE Junk], !.alloc = n]

UpdateLen(s) ==
  LET real == StrLen(s.buf) IN [s EXCEPT !.free = @ + (s.len - real), !.len = real]

Clear(s) == [Put(s, 0, <<NUL>>) EXCEPT !.free = @ + s.len, !.len = 0]

\* the space asked for is taken for the space the string has
MakeRoomFor_Whole(s, addlen) ==
  LET need == s.len + addlen
      newlen == IF need < MaxPrealloc THEN need * 2 ELSE need + MaxPrealloc
  IN  IF s.free >= addlen THEN s
      ELSE [Realloc(s, newlen + 1) EXCEPT !.free = newlen]

MakeRoomFor(s, addlen) ==
  LET need == s.len + addlen
      newlen == IF need < MaxPrealloc THEN need * 2 ELSE need + MaxPrealloc
  IN  IF s.free >= addlen THEN s
      ELSE [Realloc(s, newlen + 1) EXCEPT !.free = newlen - s.len]

RemoveFreeSpace(s) == [Realloc(s, s.len + 1) EXCEPT !.free = 0]

AllocSize(s) == s.len + s.free + 1          \* without the header

\* the assertions of the code are the guard of the action that calls it
IncrLen(s, incr) ==
  Put([s EXCEPT !.len = @ + incr, !.free = @ - incr], s.len + incr, <<NUL>>)

GrowZero(s, len) ==
  LET r == MakeRoomFor(s, len - s.len)
      zeros == [i \in 1 .. len - s.len + 1 |-> NUL]
  IN  IF len <= s.len THEN s
      ELSE [Put(r, s.len, zeros) EXCEPT !.len = len, !.free = (r.len + r.free) - len]

CatLen(s, t) ==
  LET r == MakeRoomFor(s, Len(t))
  IN  [Put(r, s.len, Append(t, NUL)) EXCEPT !.len = s.len + Len(t), !.free = @ - Len(t)]

CpyLen(s, t) ==
  LET r == IF s.free + s.len < Len(t) THEN MakeRoomFor(s, Len(t) - s.len) ELSE s
  IN  [Put(r, 0, Append(t, NUL)) EXCEPT !.len = Len(t), !.free = (r.free + r.len) - Len(t)]

\* sdscatvprintf prints into a buffer that it doubles until the last byte but
\* one stays NUL, and appends the result as a C string
CatPrintf(s, out) ==
  LET Try[n \in Nat] == IF Len(out) >= n - 1 /\ out[n - 1] # NUL THEN Try[2 * n]
                        ELSE SubSeq(out, 1, Min({n - 1, Len(out)}))
      t == Try[PrintfBuf]
  IN  CatLen(s, SubSeq(t, 1, StrLen(Append(t, NUL))))

Digit == <<"0", "1", "2", "3", "4", "5", "6", "7", "8", "9">>

\* sdsull2str: the digits come out in reverse and are turned round
Ull2Str(v) ==
  LET Out[x \in Nat] == <<Digit[(x % 10) + 1]>> \o (IF x \div 10 = 0 THEN <<>> ELSE Out[x \div 10])
  IN  Reverse(Out[v])

\* sdsll2str: -value is the value itself for the least integer, and as
\* unsigned it is its magnitude all the same
Ll2Str(value) ==
  LET neg == IF value = -(2 ^ (Width - 1)) THEN value ELSE -value
      v == IF value < 0 THEN neg % (2 ^ Width) ELSE value
  IN  (IF value < 0 THEN <<"-">> ELSE <<>>) \o Ull2Str(v)

FromLongLong(value) == NewLen(Ll2Str(value))

\* one format specifier or plain byte: room is made for it, it is written at i
FmtPiece(s, t) ==
  LET one == IF s.free = 0 THEN MakeRoomFor(s, 1) ELSE s
      r == IF one.free < Len(t) THEN MakeRoomFor(one, Len(t)) ELSE one
  IN  [Put(r, s.len, t) EXCEPT !.len = @ + Len(t), !.free = @ - Len(t)]

\* %s is a C string, %S an sds, %i a signed and %u an unsigned number, and
\* anything else stands for itself
FmtText(item) ==
  CASE item.spec = "s" -> SubSeq(item.arg, 1, StrLen(Append(item.arg, NUL)))
    [] item.spec = "S" -> item.arg
    [] item.spec = "i" -> Ll2Str(item.arg)
    [] item.spec = "u" -> Ull2Str(item.arg)
    [] item.spec = "char" -> item.arg

CatFmt(s, items) ==
  LET r == FoldLeft(LAMBDA x, item : FmtPiece(x, FmtText(item)), s, items)
  IN  Put(r, r.len, <<NUL>>)

\* strchr finds the terminator of cset too, so a NUL is always trimmed
Trim(s, cset) ==
  LET Cut(c) == c \in cset \cup {NUL}
      sp == Min({i \in 0 .. s.len : \A j \in 0 .. i - 1 : Cut(s.buf[j + 1])}
                 \cap {i \in 0 .. s.len : i = s.len \/ ~Cut(s.buf[i + 1])})
      ep == IF s.len = 0 THEN -1
            ELSE Max({0} \cup {i \in 0 .. s.len - 1 : ~Cut(s.buf[i + 1])})
      len == IF sp > ep THEN 0 ELSE ep - sp + 1
      moved == Put(s, 0, SubSeq(s.buf, sp + 1, sp + len))
  IN  [Put(moved, len, <<NUL>>) EXCEPT !.free = @ + (s.len - len), !.len = len]

\* an index below zero counts from the end; both ends are clamped
Range0(s, start, end) ==
  LET a == IF start < 0 THEN Max({s.len + start, 0}) ELSE start
      b == IF end < 0 THEN Max({s.len + end, 0}) ELSE end
      len == IF a > b \/ a >= s.len THEN 0 ELSE Min({b, s.len - 1}) - a + 1
      moved == IF len = 0 THEN s ELSE Put(s, 0, SubSeq(s.buf, a + 1, a + len))
  IN  IF s.len = 0 THEN s
      ELSE [Put(moved, len, <<NUL>>) EXCEPT !.free = @ + (s.len - len), !.len = len]

\* sdstolower, sdstoupper, sdsmapchars: one byte for another, up to len
MapChars(s, f) ==
  [s EXCEPT !.buf = [i \in DOMAIN @ |-> IF i <= s.len /\ @[i] \in DOMAIN f THEN f[@[i]] ELSE @[i]]]
-----------------------------------------------------------------------------
Texts == UNION {[1 .. n -> Chars] : n \in 0 .. MaxText}

Items == [spec : {"s", "S", "char"}, arg : {t \in Texts : Len(t) = 1}]
           \cup [spec : {"i"}, arg : {-(2 ^ (Width - 1)), -1, 0}] \cup [spec : {"u"}, arg : {0, 9, 10}]

Lower == [c \in {"B"} |-> "b"]

Upper == [c \in {"a", "b"} |-> IF c = "a" THEN "A" ELSE "B"]

CString(t) == SubSeq(t, 1, StrLen(Append(t, NUL)))

\* what lies behind the terminator is never read
Settled(s) == [s EXCEPT !.buf = [i \in DOMAIN @ |-> IF i > s.len + 1 THEN Junk ELSE @[i]]]

Becomes(s, t) == Len(t) <= MaxLen /\ sds' = Settled(s) /\ str' = t

Init == \E t \in Texts : sds = NewLen(t) /\ str = t

Copies == \/ Becomes(Dup(sds), str)
          \/ Becomes(RemoveFreeSpace(sds), str)
          \/ \E n \in 1 .. MaxText : Becomes(MakeRoomFor(sds, n), str)
          \/ \E n \in 0 .. MaxText : Becomes(NewZero(n), [i \in 1 .. n |-> NUL])

Empties == Becomes(Clear(sds), <<>>) \/ Becomes(UpdateLen(sds), CString(str))

\* the program writes after the end and then moves it, as with read()
Grows == \/ \E t \in Texts : LET room == MakeRoomFor(sds, Len(t))
                             IN  Becomes(IncrLen(Put(room, sds.len, t), Len(t)), str \o t)
         \/ sds.len > 0 /\ Becomes(IncrLen(sds, -1), Front(str))
         \/ \E n \in 0 .. MaxLen : Becomes(GrowZero(sds, n),
              str \o [i \in 1 .. (IF n > Len(str) THEN n - Len(str) ELSE 0) |-> NUL])

Appends == \E t \in Texts : \/ Becomes(CatLen(sds, t), str \o t)
                            \/ Becomes(CpyLen(sds, t), t)
                            \/ Becomes(CatPrintf(sds, t), str \o CString(t))

Formats == \/ \E x, y \in Items : Becomes(CatFmt(sds, <<x, y>>), str \o FmtText(x) \o FmtText(y))
           \/ \E v \in -(2 ^ (Width - 1)) .. 2 ^ (Width - 1) - 1 : Becomes(FromLongLong(v), Ll2Str(v))

\* the bytes from the first to the last that is not of the set
Trimmed(t, cset) ==
  LET keep == {i \in DOMAIN t : t[i] \notin cset \cup {NUL}}
  IN  IF keep = {} THEN <<>> ELSE SubSeq(t, Min(keep), Max(keep))

Cuts == \/ \E cset \in SUBSET {"a", " "} : Becomes(Trim(sds, cset), Trimmed(str, cset))
        \/ \E a, b \in -MaxLen - 1 .. MaxLen + 1 :
             LET n == Len(str)
                 At(i) == IF i < 0 THEN Max({n + i, 0}) ELSE i
                 kept == {i \in 0 .. n - 1 : At(a) <= i /\ i <= At(b)}
             IN  Becomes(Range0(sds, a, b),
                         IF kept = {} THEN <<>> ELSE SubSeq(str, Min(kept) + 1, Max(kept) + 1))

Maps == \E f \in {Lower, Upper, [c \in {" ", "a"} |-> "B"]} :
          Becomes(MapChars(sds, f), [i \in DOMAIN str |-> IF str[i] \in DOMAIN f THEN f[str[i]] ELSE str[i]])

Next == Copies \/ Empties \/ Grows \/ Appends \/ Formats \/ Cuts \/ Maps
-----------------------------------------------------------------------------
\* The string is the text the calls describe, in a block that holds it: the
\* bytes before len are the text, the byte at len is the terminator, and len
\* and free together with it are exactly the bytes allocated, so that no call
\* wrote outside the block or will take space that is not there.
SdsAgrees ==
  /\ Len(sds.buf) = sds.alloc /\ AllocSize(sds) = sds.alloc /\ sds.free >= 0
  /\ Contents(sds) = str
  /\ sds.buf[sds.len + 1] = NUL
=============================================================================
