------------------------------ MODULE Signature ------------------------------
(***************************************************************************)
(* The signature of a file and the names derived from it (utils.cpp):      *)
(* calcSig reads the file in pieces of whatever size read() gives, folds   *)
(* its MD5 into two words, and sigPath files it under directories taken    *)
(* from them; randString makes up a temporary name.  A byte is a digit of  *)
(* base Base and MD5 is a function of the contents given as a constant.    *)
(***************************************************************************)
EXTENDS Integers, SequencesExt, FiniteSetsExt, Bitwise

CONSTANTS Files,         \* the contents a file may have, sequences of bytes
          Digest,        \* MD5: 16 bytes for every sequence of bytes
          BufSize,       \* BUFSIZE, 8192
          Base,          \* 256
          Formats        \* extensions, the ones sigPath knows among them

VARIABLE sg              \* calcSig: contents, offset, md5 context, descriptor, result

vars == sg

\* the middle bytes are left where they are
ReverseByteOrder_Outer(w) == <<w[4], w[2], w[3], w[1]>>

\* the first and last byte of a word change places, and the middle two
ReverseByteOrder(w) == <<w[4], w[3], w[2], w[1]>>

\* an unsigned int read from memory on a little-endian machine
AsUint(w) == w[1] + Base * (w[2] + Base * (w[3] + Base * w[4]))

Word(md5, i) == AsUint(ReverseByteOrder(SubSeq(md5, 4 * i + 1, 4 * i + 4)))

Sig(md5) == [sig1 |-> Word(md5, 0) ^^ Word(md5, 1), sig2 |-> Word(md5, 2) ^^ Word(md5, 3)]

Letter == [f \in {"mp3", "wma", "mkv", "wmv", "ape", "flac", "aac", "jpg", "f4v", "mp4", "default"} |->
             CASE f = "mp3" -> "n" [] f \in {"wma", "mp4"} -> "m" [] f \in {"mkv", "wmv", "f4v"} -> "v"
               [] f \in {"ape", "flac"} -> "s" [] f = "aac" -> "a" [] f = "jpg" -> "p"
               [] f = "default" -> "d"]

\* partition, two levels of directory, and the first word for a name
SigPath(sig, fmt) ==
  [letter |-> Letter[IF fmt \in DOMAIN Letter THEN fmt ELSE "default"],
   dv |-> ((sig.sig1 ^^ sig.sig2) % 3) + 1, d1 |-> sig.sig2 % 100, d2 |-> (sig.sig2 \div 100) % 100,
   name |-> sig.sig1, fmt |-> fmt]

\* positions in STR: 0-25 small letters, 26-51 capitals, 52-61 digits
StrLength == 62

\* the positions randString can pick, for every number rand() may return
RandIndex(isCapital, isNum, r) ==
  IF isCapital /\ isNum THEN r % StrLength
  ELSE IF isCapital THEN r % (StrLength - 10)
  ELSE IF isNum THEN LET index == r % StrLength
                     IN  (IF index > 25 /\ index < 51 THEN index + 26 ELSE index) % StrLength
  ELSE r % (StrLength - 36)
-----------------------------------------------------------------------------
Init ==
  \E f \in Files, fmt \in Formats :
    sg = [file |-> f, fmt |-> fmt, off |-> 0, ctx |-> <<>>, fd |-> "none", ret |-> "none",
          sig |-> [sig1 |-> 0, sig2 |-> 0]]

Running == sg.ret = "none"

Open ==
  /\ Running /\ sg.fd = "none"
  /\ \/ sg' = [sg EXCEPT !.fd = "open"]
     \/ sg' = [sg EXCEPT !.ret = "false"]

\* read() gives any number of the bytes left, up to the size of the buffer
Read ==
  /\ Running /\ sg.fd = "open" /\ sg.off < Len(sg.file)
  /\ \E n \in 1 .. Min({BufSize, Len(sg.file) - sg.off}) :
       sg' = [sg EXCEPT !.off = @ + n, !.ctx = @ \o SubSeq(sg.file, sg.off + 1, sg.off + n)]

\* the descriptor and the buffer stay where they are
ReadFails == Running /\ sg.fd = "open" /\ sg' = [sg EXCEPT !.ret = "false"]

Finish ==
  /\ Running /\ sg.fd = "open" /\ sg.off = Len(sg.file)
  /\ sg' = [sg EXCEPT !.fd = "closed", !.ret = "true", !.sig = Sig(Digest[sg.ctx])]

Next == Open \/ Read \/ ReadFails \/ Finish
-----------------------------------------------------------------------------
\* The number whose digits, from the most significant, are the bytes
BigEndian(bytes) == FoldLeft(LAMBDA n, b : n * Base + b, 0, bytes)

\* The signature belongs to the contents and not to the way they were read:
\* however read() cuts the file, its two words are the exclusive ors of the
\* MD5's words taken big-endian; a failed read is never taken for the end of
\* the file; the directories of the path are in range; only a failed read
\* leaves the descriptor open; and without capitals randString makes names of
\* small letters and digits, and of the capital Z.
SigOfContents ==
  LET md5 == Digest[sg.file]
      W(i) == BigEndian(SubSeq(md5, 4 * i + 1, 4 * i + 4))
      path == SigPath(sg.sig, sg.fmt)
  IN  /\ sg.ret = "true" =>
           /\ sg.sig = [sig1 |-> W(0) ^^ W(1), sig2 |-> W(2) ^^ W(3)] /\ sg.fd = "closed"
           /\ path.dv \in 1 .. 3 /\ path.d1 \in 0 .. 99 /\ path.d2 \in 0 .. 99
           /\ path.d2 * 100 + path.d1 = sg.sig.sig2 % 10000
      /\ sg.ret = "false" => sg.fd \in {"none", "open"}
      /\ Running /\ sg.fd = "none" =>
           /\ {RandIndex(FALSE, TRUE, r) : r \in 0 .. 200} = 0 .. 25 \cup 51 .. 61
           /\ {RandIndex(FALSE, FALSE, r) : r \in 0 .. 200} = 0 .. 25
           /\ {RandIndex(TRUE, FALSE, r) : r \in 0 .. 200} = 0 .. 51
=============================================================================
