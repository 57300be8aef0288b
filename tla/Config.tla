------------------------------- MODULE Config -------------------------------
(***************************************************************************)
(* The reader of the configuration file (config.cpp, loadConfig), a line a *)
(* step.  A line is the sequence of its characters, the four that matter   *)
(* (#, [, ] and =), the blank, and letters; positions are the ones of      *)
(* std::string, from 0, with NPos for none.                                *)
(***************************************************************************)
EXTENDS Integers, SequencesExt, FiniteSetsExt

CONSTANT FilesRead       \* the files, sequences of lines

VARIABLE cf              \* the lines left, the section read, its map, the configuration

vars == cf

NPos == -1

FindIn(s, ch) == LET at == {i \in DOMAIN s : s[i] = ch} IN IF at = {} THEN NPos ELSE Min(at) - 1

\* substr(pos, count); a count below zero is a huge size_t, so the rest
Substr(s, pos, count) == SubSeq(s, pos + 1, IF count < 0 THEN Len(s) ELSE Min({pos + count, Len(s)}))

\* std::map::insert leaves a key that is there alone
Inserted(m, k, v) == [x \in DOMAIN m \cup {k} |-> IF x \in DOMAIN m THEN m[x] ELSE v]

Init == \E f \in FilesRead :
          cf = [lines |-> f, file |-> f, cur |-> <<>>, temp |-> <<>>, config |-> <<>>,
                state |-> "reading"]

Line == cf.lines[1]

\* what is left of a line without its comment
Bare == LET i == FindIn(Line, "#") IN IF i = NPos THEN Line ELSE Substr(Line, 0, i)

Reading == cf.state = "reading" /\ cf.lines # <<>>

\* the blank is erased, and then nothing, for ever: the index of the blank is
\* not looked up again and stays where it was
Blank ==
  /\ Reading /\ FindIn(Line, " ") # NPos
  /\ cf' = [cf EXCEPT !.state = "erasing", !.lines[1] = Substr(Line, 0, FindIn(Line, " "))]

Erase == cf.state = "erasing" /\ UNCHANGED cf

Plain == Reading /\ FindIn(Line, " ") = NPos

Meaningless ==
  \/ Bare = <<>>
  \/ FindIn(Bare, "=") = NPos /\ (FindIn(Bare, "[") = NPos \/ FindIn(Bare, "]") = NPos)

Skip == Plain /\ Meaningless /\ cf' = [cf EXCEPT !.lines = Tail(@)]

\* the section before is put away, unless it has no name, and its map cleared
Section ==
  /\ Plain /\ ~Meaningless /\ FindIn(Bare, "[") # NPos
  /\ LET left == FindIn(Bare, "[")  right == FindIn(Bare, "]")
     IN  cf' = [cf EXCEPT !.config = IF cf.cur # <<>> THEN Inserted(@, cf.cur, cf.temp) ELSE @,
                          !.cur = Substr(Bare, left + 1, right - left - 1),
                          !.temp = <<>>, !.lines = Tail(@)]

Entry ==
  /\ Plain /\ ~Meaningless /\ FindIn(Bare, "[") = NPos
  /\ LET i == FindIn(Bare, "=")
     IN  cf' = [cf EXCEPT !.temp = Inserted(@, Substr(Bare, 0, i), Substr(Bare, i + 1, -1)),
                          !.lines = Tail(@)]

End ==
  /\ cf.state = "reading" /\ cf.lines = <<>>
  /\ cf' = [cf EXCEPT !.config = Inserted(@, cf.cur, cf.temp), !.state = "done"]

Next == Blank \/ Erase \/ Skip \/ Section \/ Entry \/ End
-----------------------------------------------------------------------------
\* What the file says: the sections named, and in each the first value given
\* for a key before the next section; what stands before the first section,
\* or under a section without a name that is not the last, is nowhere.
Meaning(file) ==
  LET bare == [i \in DOMAIN file |->
                 SelectInSeq(file[i], LAMBDA ch : ch = "#")]
      Cut(i) == IF bare[i] = 0 THEN file[i] ELSE SubSeq(file[i], 1, bare[i] - 1)
      Has(i, ch) == ch \in ToSet(Cut(i))
      Position(i, ch) == CHOOSE j \in DOMAIN Cut(i) : Cut(i)[j] = ch /\ ch \notin {Cut(i)[k] : k \in 1 .. j - 1}
      heads == {i \in DOMAIN file : Has(i, "[") /\ (Has(i, "]") \/ Has(i, "="))}
      Name(i) == IF i = 0 THEN <<>>
                 ELSE LET l == Position(i, "[")
                          r == IF Has(i, "]") /\ Position(i, "]") > l THEN Position(i, "]") - 1 ELSE Len(Cut(i))
                      IN  SubSeq(Cut(i), l + 1, r)
      Body(i) == {j \in DOMAIN file : /\ j > i /\ j \notin heads /\ Has(j, "=") /\ ~Has(j, "[")
                                      /\ ~\E h \in heads : i < h /\ h < j}
      Key(j) == SubSeq(Cut(j), 1, Position(j, "=") - 1)
      Val(j) == SubSeq(Cut(j), Position(j, "=") + 1, Len(Cut(j)))
      MapOf(i) == [k \in {Key(j) : j \in Body(i)} |-> Val(Min({j \in Body(i) : Key(j) = k}))]
      kept == {i \in heads \cup {0} : Name(i) # <<>> \/ i = Max(heads \cup {0})}
  IN  [s \in {Name(i) : i \in kept} |-> MapOf(Min({i \in kept : Name(i) = s}))]

\* loadConfig stores exactly what the file says, the first of two sections or
\* of two values of the same name, and it comes to an end on a file without
\* blanks; a line with a blank keeps it busy for ever.
ConfigAgrees ==
  /\ cf.state = "done" => cf.config = Meaning(cf.file)
  /\ cf.state = "erasing" => \E i \in DOMAIN cf.file : " " \in ToSet(cf.file[i])
  /\ cf.state = "done" => \A i \in DOMAIN cf.file : " " \notin ToSet(cf.file[i])
=============================================================================
