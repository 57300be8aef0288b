------------------------------- MODULE HiUtil -------------------------------
(***************************************************************************)
(* Helpers of hiutil.c: a number read from digits, the transfer of n bytes *)
(* over a descriptor that takes or gives some of them a call, and the      *)
(* bounded print.                                                          *)
(***************************************************************************)
EXTENDS Integers, SequencesExt, FiniteSetsExt

CONSTANTS Width,         \* the bits of an int
          Amounts,       \* the numbers of bytes to transfer
          Sizes          \* the sizes of a buffer printed into

VARIABLE tr              \* a transfer: direction, n, nleft, what the peer had or got, result

vars == tr

NotYet == -2             \* the call has not returned

Wrap(v) == LET u == v % (2 ^ Width) IN IF u >= 2 ^ (Width - 1) THEN u - 2 ^ Width ELSE u

\* anything but a digit is refused, an overflow only if it comes out negative
Atoi(line) ==
  LET value == FoldLeft(LAMBDA v, d : Wrap(v * 10 + d), 0, line)
  IN  IF line = <<>> \/ (\E i \in DOMAIN line : line[i] \notin 0 .. 9) \/ value < 0 THEN -1 ELSE value

ValidPort(n) == ~(n < 1 \/ n > 65535)

\* what vsnprintf would have written, what it has
Scnprintf(n, size) == IF n <= 0 THEN 0 ELSE IF n < size THEN n ELSE size - 1
-----------------------------------------------------------------------------
Init == \E dir \in {"send", "recv"}, n \in Amounts, avail \in Amounts :
          tr = [dir |-> dir, n |-> n, nleft |-> n, avail |-> avail, moved |-> 0, ret |-> NotYet]

Running == tr.ret = NotYet

Ret(v) == tr' = [tr EXCEPT !.ret = v]

\* a call that moves k bytes; recv has only what the peer sent
Some ==
  /\ Running /\ tr.nleft > 0
  /\ \E k \in 1 .. tr.nleft :
       /\ tr.dir = "recv" => k <= tr.avail - tr.moved
       /\ tr' = [tr EXCEPT !.nleft = @ - k, !.moved = @ + k]

Interrupted == Running /\ tr.nleft > 0 /\ UNCHANGED tr                  \* EINTR

Fails == Running /\ tr.nleft > 0 /\ Ret(-1)

\* send() returned 0 is a failure, recv() returned 0 the end of the stream
None == /\ Running /\ tr.nleft > 0
        /\ IF tr.dir = "send" THEN Ret(-1) ELSE tr.moved = tr.avail /\ Ret(tr.n - tr.nleft)

Complete == Running /\ tr.nleft = 0 /\ Ret(tr.n)

Next == Some \/ Interrupted \/ Fails \/ None \/ Complete
-----------------------------------------------------------------------------
\* The result of a transfer says how many bytes it moved: n only if every byte
\* went, fewer from a receive only at the end of the stream, -1 after any
\* number; a number that fits is read back from its digits and no result is
\* below -1; and a bounded print never claims more than the buffer holds.
TransferAgrees ==
  /\ tr.ret \notin {NotYet, -1} => tr.ret = tr.moved
  /\ tr.ret = tr.n => tr.nleft = 0
  /\ tr.dir = "recv" /\ tr.ret \notin {NotYet, -1, tr.n} => tr.moved = tr.avail
  /\ tr.moved = 0 =>
       /\ \A a, b, c \in 0 .. 9 : LET v == a * 100 + b * 10 + c IN
            v < 2 ^ (Width - 1) => Atoi(<<a, b, c>>) = v
       /\ \A a, b, c \in 0 .. 9 : Atoi(<<a, b, c>>) >= -1
       /\ \A n \in -1 .. 9, size \in Sizes : Scnprintf(n, size) \in 0 .. size - 1
=============================================================================
