------------------------------- MODULE SdsText -------------------------------
(***************************************************************************)
(* The functions of sds.c that take a line apart and put one together:     *)
(* sdscatrepr writes a string in quotes, sdssplitargs reads a line of      *)
(* quoted and plain arguments, sdssplitlen and sdsjoin split and join at a *)
(* separator.  The reader of the line is a machine that looks at one       *)
(* position a step; the bytes are one-character strings, with NUL, LF and  *)
(* BEL for the ones that do not print.                                     *)
(***************************************************************************)
EXTENDS Integers, SequencesExt

CONSTANTS Args,          \* the argument lists written and read back
          Lines,         \* lines typed by hand
          Seps,          \* separators
          Joined         \* strings that are split at them

VARIABLES sa,            \* sdssplitargs: line, p, quotes, current, vector, status
          split          \* sdssplitlen: s, sep, j, start, tokens, slots, status

vars == <<sa, split>>

NUL == "NUL"

Unknown == << <<"unknown">> >>

Escape == [c \in {"LF", "CR", "TAB", "BEL", "BS"} |->
             CASE c = "LF" -> "n" [] c = "CR" -> "r" [] c = "TAB" -> "t"
               [] c = "BEL" -> "a" [] c = "BS" -> "b"]

Printable(c) == c \notin DOMAIN Escape \cup {NUL, "xff"}

Hex(c) == IF c = NUL THEN <<"0", "0">> ELSE <<"f", "f">>

ReprChar(c) ==
  CASE c \in {"\\", "\""}  -> <<"\\", c>>
    [] c \in DOMAIN Escape -> <<"\\", Escape[c]>>
    [] Printable(c) /\ c \notin {"\\", "\""} -> <<c>>
    [] OTHER               -> <<"\\", "x">> \o Hex(c)

CatRepr(t) == <<"\"">> \o FoldLeft(LAMBDA s, c : s \o ReprChar(c), <<>>, t) \o <<"\"">>

Join(argv, sep) ==
  FoldLeft(LAMBDA s, j : s \o argv[j] \o (IF j # Len(argv) THEN sep ELSE <<>>),
           <<>>, [j \in DOMAIN argv |-> j])

HexDigit == [c \in {"0", "f", "F"} |-> IF c = "0" THEN 0 ELSE 15]

HexByte == [v \in {0, 255} |-> IF v = 0 THEN NUL ELSE "xff"]

Unescape(c) ==
  IF \E e \in DOMAIN Escape : Escape[e] = c THEN CHOOSE e \in DOMAIN Escape : Escape[e] = c ELSE c

IsSpace(c) == c \in {" ", "LF", "CR", "TAB"}

At(i) == IF i <= Len(sa.line) THEN sa.line[i] ELSE NUL

Ends == sa.p = Len(sa.line) + 1     \* the terminator of the line
-----------------------------------------------------------------------------
Reading(line, want) ==
  [line |-> line, want |-> want, p |-> 1, state |-> "blanks", current |-> <<>>,
   vector |-> <<>>, status |-> "reading"]

Splitting(s, sep) ==
  [s |-> s, sep |-> sep, j |-> 0, start |-> 0, tokens |-> <<>>, slots |-> 5,
   status |-> IF s = <<>> THEN "done" ELSE "reading"]

\* one of the two functions is called
Init ==
  \/ /\ \/ \E argv \in Args : sa = Reading(Join([i \in DOMAIN argv |-> CatRepr(argv[i])], <<" ">>), argv)
        \/ \E line \in Lines : sa = Reading(line, Unknown)
     /\ split = Splitting(<<>>, <<" ">>)
  \/ /\ \E s \in Joined, sep \in Seps : split = Splitting(s, sep)
     /\ sa = [Reading(<<>>, Unknown) EXCEPT !.status = "done"]

\* skip blanks, then begin a token or end
SkipBlanks ==
  /\ sa.status = "reading" /\ sa.state = "blanks"
  /\ sa' = IF Ends THEN [sa EXCEPT !.status = "done"]
           ELSE IF IsSpace(At(sa.p)) THEN [sa EXCEPT !.p = @ + 1]
           ELSE [sa EXCEPT !.state = "plain", !.current = <<>>]
  /\ UNCHANGED split

Take(c, n) == [sa EXCEPT !.current = Append(@, c), !.p = @ + n]

\* the token is added to the vector; *p is passed if it is not the terminator
Token == [sa EXCEPT !.vector = Append(@, sa.current), !.state = "blanks",
                    !.p = IF Ends THEN @ ELSE @ + 1]

Refuse == [sa EXCEPT !.status = "null", !.vector = <<>>, !.current = <<>>]

\* a closing quote must be followed by a space or nothing at all
Close == IF At(sa.p + 1) # NUL /\ ~IsSpace(At(sa.p + 1)) THEN Refuse ELSE Token

InQuotes ==
  /\ sa.status = "reading" /\ sa.state = "quotes"
  /\ LET c == At(sa.p)  n == At(sa.p + 1)
     IN  sa' = IF c = "\\" /\ n = "x" /\ {At(sa.p + 2), At(sa.p + 3)} \subseteq DOMAIN HexDigit
               THEN Take(HexByte[HexDigit[At(sa.p + 2)] * 16 + HexDigit[At(sa.p + 3)]], 4)
               ELSE IF c = "\\" /\ n # NUL THEN Take(Unescape(n), 2)
               ELSE IF c = "\"" THEN Close
               ELSE IF Ends THEN Refuse
               ELSE Take(c, 1)
  /\ UNCHANGED split

InSingleQuotes ==
  /\ sa.status = "reading" /\ sa.state = "single"
  /\ LET c == At(sa.p)
     IN  sa' = IF c = "\\" /\ At(sa.p + 1) = "'" THEN Take("'", 2)
               ELSE IF c = "'" THEN Close
               ELSE IF Ends THEN Refuse
               ELSE Take(c, 1)
  /\ UNCHANGED split

Plain ==
  /\ sa.status = "reading" /\ sa.state = "plain"
  /\ LET c == At(sa.p)
     IN  sa' = IF IsSpace(c) \/ Ends THEN Token
               ELSE IF c = "\"" THEN [sa EXCEPT !.state = "quotes", !.p = @ + 1]
               ELSE IF c = "'" THEN [sa EXCEPT !.state = "single", !.p = @ + 1]
               ELSE Take(c, 1)
  /\ UNCHANGED split

\* sdssplitlen: room for the next token and the last one, then the separator
SplitStep ==
  /\ split.status = "reading" /\ split.j < Len(split.s) - (Len(split.sep) - 1)
  /\ LET n == Len(split.sep)
         more == [split EXCEPT !.slots = IF @ < Len(split.tokens) + 2 THEN @ * 2 ELSE @]
     IN  split' = IF SubSeq(split.s, split.j + 1, split.j + n) = split.sep
                  THEN [more EXCEPT !.tokens = Append(@, SubSeq(split.s, split.start + 1, split.j)),
                                    !.start = split.j + n, !.j = @ + n]
                  ELSE [more EXCEPT !.j = @ + 1]
  /\ UNCHANGED sa

SplitEnd ==
  /\ split.status = "reading" /\ split.j >= Len(split.s) - (Len(split.sep) - 1)
  /\ split' = [split EXCEPT !.tokens = Append(@, SubSeq(split.s, split.start + 1, Len(split.s))),
                            !.status = "done"]
  /\ UNCHANGED sa

Next == SkipBlanks \/ InQuotes \/ InSingleQuotes \/ Plain \/ SplitStep \/ SplitEnd
-----------------------------------------------------------------------------
\* Arguments written with sdscatrepr and separated by a space are read back by
\* sdssplitargs as they were, whatever bytes they hold; no line makes it look
\* past its terminator; what sdssplitlen took apart, sdsjoin puts together
\* again, with no separator left in a piece; and its array has room for every
\* piece it stores.
TextRoundTrip ==
  /\ sa.want # Unknown /\ sa.status # "reading" => sa.status = "done" /\ sa.vector = sa.want
  /\ sa.p <= Len(sa.line) + 1
  /\ split.status = "done" =>
       /\ split.s # <<>> => Join(split.tokens, split.sep) = split.s
       /\ \A i \in DOMAIN split.tokens : \A k \in 0 .. Len(split.tokens[i]) - Len(split.sep) :
            SubSeq(split.tokens[i], k + 1, k + Len(split.sep)) # split.sep
  /\ Len(split.tokens) <= split.slots
=============================================================================
