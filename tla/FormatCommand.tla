---------------------------- MODULE FormatCommand ----------------------------
(***************************************************************************)
(* How hiredis turns a format and its arguments, or an argument vector,    *)
(* into the bytes of a request (hiredis.c, redisvFormatCommand and its     *)
(* relatives).  The format is the sequence of what the loop meets in it: a *)
(* plain character, a space, %s, %b, %% or a printf conversion, which      *)
(* carries the classes of its characters and the text it prints.           *)
(***************************************************************************)
EXTENDS Integers, SequencesExt

CONSTANTS Formats,       \* the formats the program uses
          Vectors,       \* the argument vectors it uses
          Counts         \* numbers whose digits are counted

VARIABLE fm              \* format, position, curarg, touched, argv, totlen, ret, cmd

vars == fm

\* four digits at a time, as long as there are four
CountDigits(v) ==
  LET Count[x \in Nat] == IF x < 10 THEN 1 ELSE IF x < 100 THEN 2 ELSE IF x < 1000 THEN 3
                          ELSE IF x < 10000 THEN 4 ELSE 4 + Count[x \div 10000]
  IN  Count[v]

\* the bytes of a bulk string: $, its length, CRLF, itself, CRLF
Bulklen(len) == 1 + CountDigits(len) + 2 + len + 2

\* sprintf of a number
Decimal(v) ==
  LET Out[x \in Nat] == IF x < 10 THEN <<x>> ELSE Append(Out[x \div 10], x % 10)
  IN  Out[v]

CRLF == <<"CR", "LF">>

\* "*argc" and "$len data" for every argument
Built(argv) ==
  FoldLeft(LAMBDA s, a : s \o <<"$">> \o Decimal(Len(a)) \o CRLF \o a \o CRLF,
           <<"*">> \o Decimal(Len(argv)) \o CRLF, argv)

\* redisFormatCommandArgv and redisFormatSdsCommandArgv: the size first
TotLen(argv) ==
  FoldLeft(LAMBDA n, a : n + Bulklen(Len(a)), 1 + CountDigits(Len(argv)) + 2, argv)

FormatCommandArgv(argv) == [ret |-> TotLen(argv), cmd |-> Built(argv)]

\* flags, then digits, then a dot and digits: what the loops skip
Skipped(spec) ==
  LET Run(from, class) ==
        IF \E j \in from .. Len(spec) : spec[j] # class
        THEN (CHOOSE j \in from .. Len(spec) :
                /\ spec[j] # class
                /\ \A k \in from .. j - 1 : spec[k] = class)
        ELSE Len(spec) + 1
      width == Run(Run(1, "flag"), "digit")
  IN  IF width <= Len(spec) /\ spec[width] = "." THEN Run(width + 1, "digit") ELSE width

\* a conversion is valid with no size or with one of hh, h, ll, l before an
\* integer conversion
Conversion(spec) ==
  LET p == Skipped(spec)
      At(i) == IF i <= Len(spec) THEN spec[i] ELSE "end"
      Sized(n) == IF At(p + n) = "int" THEN p + n ELSE 0
  IN  IF At(p) \in {"int", "double"} THEN p
      ELSE IF At(p) \in {"h", "l"} THEN (IF At(p + 1) = At(p) THEN Sized(2) ELSE Sized(1))
      ELSE 0

FormatMax == 16          \* char _format[16]
-----------------------------------------------------------------------------
Starting(format) ==
  [format |-> format, i |-> 1, cur |-> <<>>, touched |-> FALSE, argv |-> <<>>,
   totlen |-> 0, ret |-> 0, cmd |-> <<>>, state |-> "reading"]

Init ==
  \/ \E format \in Formats : fm = Starting(format)
  \/ \E argv \in Vectors :
       fm = [Starting(<<>>) EXCEPT !.argv = argv, !.ret = FormatCommandArgv(argv).ret,
                                   !.cmd = FormatCommandArgv(argv).cmd, !.state = "vector"]

Item == fm.format[fm.i]

Reading == fm.state = "reading" /\ fm.i <= Len(fm.format)

Filed(f) ==
  [f EXCEPT !.argv = Append(@, f.cur), !.totlen = @ + Bulklen(Len(f.cur)),
            !.cur = <<>>, !.touched = FALSE]

Space ==
  /\ Reading /\ Item.k = "space"
  /\ fm' = [(IF fm.touched THEN Filed(fm) ELSE fm) EXCEPT !.i = @ + 1]

\* a character, or the text of %s (a C string), %b and %%; none may be empty
\* but the argument is touched all the same
Text ==
  /\ Reading /\ Item.k \in {"char", "s", "b", "percent"}
  /\ fm' = [fm EXCEPT !.cur = @ \o Item.text, !.touched = TRUE, !.i = @ + 1]

\* a printf conversion is copied to a buffer of its own and printed; one that
\* does not fit is left out, and the rest of it is read as plain characters
Printf ==
  /\ Reading /\ Item.k = "conv" /\ Conversion(Item.spec) # 0
  /\ LET l == 1 + Conversion(Item.spec)
     IN  fm' = [fm EXCEPT !.cur = @ \o (IF l < FormatMax - 2 THEN Item.text ELSE Tail(Item.spec)),
                          !.touched = TRUE, !.i = @ + 1]

\* format_err: what was gathered is freed
Invalid ==
  /\ Reading /\ Item.k = "conv" /\ Conversion(Item.spec) = 0
  /\ fm' = [fm EXCEPT !.state = "done", !.ret = -2, !.argv = <<>>, !.cur = <<>>]

Build ==
  /\ fm.state = "reading" /\ fm.i > Len(fm.format)
  /\ LET f == IF fm.touched THEN Filed(fm) ELSE fm
         totlen == f.totlen + 1 + CountDigits(Len(f.argv)) + 2
     IN  fm' = [f EXCEPT !.totlen = totlen, !.ret = totlen, !.cmd = Built(f.argv),
                         !.state = "done"]

Next == Space \/ Text \/ Printf \/ Invalid \/ Build
-----------------------------------------------------------------------------
\* The arguments a format describes: its items between spaces, put together
Groups(format) ==
  LET cuts == {0, Len(format) + 1} \cup {i \in DOMAIN format : format[i].k = "space"}
      ends == SetToSortSeq(cuts, <)
      Group(n) == [i \in 1 .. ends[n + 1] - ends[n] - 1 |-> format[ends[n] + i]]
      Whole(g) == FoldLeft(LAMBDA s, x : s \o x.text, <<>>, g)
      all == [n \in 1 .. Len(ends) - 1 |-> Group(n)]
  IN  LET full == SelectSeq(all, LAMBDA g : g # <<>>) IN [n \in DOMAIN full |-> Whole(full[n])]

\* The bytes of the request are as many as were computed before they were
\* written, which is what the buffer was allocated for and the code asserts,
\* and they say exactly the arguments meant: an argument is what stands
\* between two spaces of the format, a space or a percent sign inside an
\* interpolated value never splits it, and an empty one is kept.
FormatAgrees ==
  /\ fm.state # "reading" /\ fm.ret >= 0 =>
       Len(fm.cmd) = fm.ret /\ fm.cmd = Built(fm.argv)
  /\ fm.state = "done" =>
       IF \E i \in DOMAIN fm.format : fm.format[i].k = "conv" /\ Conversion(fm.format[i].spec) = 0
       THEN fm.ret = -2
       ELSE fm.argv = Groups(fm.format)
  /\ \A v \in Counts : CountDigits(v) = Len(Decimal(v))
=============================================================================
