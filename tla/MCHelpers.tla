------------------------------ MODULE MCHelpers ------------------------------
(* The parts of the program and of its Redis library that do one thing at a
   time and touch each other only through what they return: an initial state
   chooses one of them (which), and only that one takes steps.  mkdirs is the
   one that several threads run at once. *)
EXTENDS Mkdirs, SequencesExt, TLC

CONSTANTS Nil, t1, t2

VARIABLES
  which,
  req, cmd, fr, rd, wire, sent, got,                 \* RedisCommand, Fragment, ReplyReader
  ht, diter, m, seen, present, copies,               \* Dict
  list, liter, order, due,                           \* HiList
  a, b, ptr, stackA, stackB,                         \* HiArray
  sds, str, sa, split, fm, tr,                       \* Sds, SdsText, FormatCommand, HiUtil
  c, pc, ours, foreign, hist,                        \* Connect
  sg, cf, srv, rc, heap, my, prog, lost              \* Signature, Config, the connectors

UpTo(n, S) == UNION {[1 .. k -> S] : k \in 0 .. n}

(* mkdirs: the paths of the server, its temporary directory with a slash at
   the end, and two signature directories with a common parent. *)
TwoThreads == {t1, t2}
Tree == {"base", "tmp", "v1", "a1", "b1"}
InTree == [d \in Tree |-> IF d \in {"a1", "b1"} THEN "v1" ELSE "base"]
ServerPaths == {<<"base", "tmp", "tmp">>, <<"base", "v1", "a1">>, <<"base", "v1", "b1">>}
Nothing == {}

Parser == INSTANCE RedisCommand WITH MaxArgs <- 4

(* Two plain keys, one with a hash tag, one with an empty tag, and a command
   whose count of keys takes two digits. *)
SomeKeys == {<<97>>, <<98>>, <<120, 123, 97, 125>>, <<123, 125>>}
TwelveKeys == [i \in 1 .. 12 |-> IF i % 2 = 0 THEN <<97>> ELSE <<98>>]
Splitter == INSTANCE Fragment WITH
  KeyLists <- (UpTo(3, SomeKeys) \ {<<>>}) \cup {TwelveKeys}, ValueLens <- {0, 9, 10}

(* Replies of every type, nested to the reader's limit and beyond it. *)
Integer(n) == [type |-> ":", v |-> n]
Bulk == [type |-> "$", v |-> "x"]
Array(s) == [type |-> "*", v |-> s]
Malformed == [type |-> "bad", v |-> 1]
Nested[n \in 0 .. 9] == IF n = 0 THEN Integer(1) ELSE Array(<<Nested[n - 1]>>)
Reader == INSTANCE ReplyReader WITH
  Trees <- {Integer(1), [type |-> "-", v |-> 1], Bulk, [type |-> "nil", v |-> "$"], [type |-> "nil", v |-> "*"], Malformed, Array(<<>>),
            Array(<<Bulk, Array(<<Integer(2), Bulk>>), Integer(3)>>), Array(<<Array(<<>>), Malformed>>), Nested[8], Nested[9]},
  MaxReplies <- 2, Discard <- 3, None <- Nil

(* Five keys, one more than the smallest table; three hash to one bucket. *)
Hashtable == INSTANCE Dict WITH
  Keys <- 1 .. 5, Vals <- [k \in 1 .. 5 |-> IF k = 1 THEN {0, 1} ELSE {0}], Hash <- <<0, 4, 8, 1, 5>>,
  None <- Nil, iter <- diter
Linked == INSTANCE HiList WITH Nodes <- 1 .. 3, Values <- {0, 1}, Null <- Nil, iter <- liter
Growing == INSTANCE HiArray WITH Elems <- 0 .. 2, Unset <- Nil, FirstAlloc <- 1, MaxElems <- 3

Strings == INSTANCE Sds WITH
  Chars <- {"a", " ", "NUL"}, MaxPrealloc <- 4, PrintfBuf <- 3, Width <- 4, MaxLen <- 3, MaxText <- 2
Quoting == INSTANCE SdsText WITH
  Args <- {<<t>> : t \in UpTo(2, {"a", "\\", "\"", "'", " ", "LF", "NUL", "x"})}
          \cup {<<t, u>> : t \in {<<>>, <<"a">>}, u \in {<<"\"">>, <<"'">>, <<"xff">>}},
  Lines <- UpTo(4, {"a", "\\", "\"", "'", " "}),
  Seps <- {<<",">>, <<",", ",">>},
  Joined <- UpTo(3, {"a", ","}) \cup {[i \in 1 .. 9 |-> ","]}
Transfer == INSTANCE HiUtil WITH Width <- 8, Amounts <- {0, 1, 3}, Sizes <- {1, 2, 8}

(* Every kind of piece a format has; a text of two digits' length. *)
TenBytes == [i \in 1 .. 10 |-> "v"]
Pieces ==
  {[k |-> "space"], [k |-> "char", text |-> <<"G">>], [k |-> "s", text |-> <<>>], [k |-> "s", text |-> TenBytes],
   [k |-> "b", text |-> <<" ", "%">>], [k |-> "percent", text |-> <<"%">>],
   [k |-> "conv", spec |-> <<"flag", "digit", ".", "digit", "int">>, text |-> <<"7">>],
   [k |-> "conv", spec |-> <<"l", "l", "int">>, text |-> <<"8">>],
   [k |-> "conv", spec |-> <<"h", "double">>, text |-> <<>>]}
Formatter == INSTANCE FormatCommand WITH
  Formats <- UpTo(4, Pieces),
  Vectors <- UpTo(3, {<<>>, <<"a">>, TenBytes}) \cup {[i \in 1 .. 10 |-> <<"a">>]},
  Counts <- {0, 9, 10, 99, 100, 999, 1000, 9999, 10000, 99999, 100000, 12345678}

Sockets == INSTANCE Connect WITH Fds <- 1 .. 3, Addresses <- 2, Retries <- 2

(* A digest that tells the files apart; the bytes are digits to base 10. *)
Contents == UpTo(4, 0 .. 2)
SomeDigest ==
  [f \in Contents |->
    [i \in 1 .. 16 |-> (i * Len(f) + FoldLeft(+, 0, f) * (i \div 3) + (IF f # <<>> THEN f[1] * i * i ELSE 0)) % 10]]
Hasher == INSTANCE Signature WITH
  Files <- Contents, Digest <- SomeDigest, BufSize <- 2, Base <- 10, Formats <- {"mp3", "txt"}

ConfigLines ==
  {<<>>, <<"#", "a">>, <<"[", "s", "]">>, <<"[", "t", "]">>, <<"[", "]">>, <<"a", "=", "x">>,
   <<"a", "=", "y", "#", "z">>, <<"b", "=">>, <<"=", "x">>, <<"a">>, <<"[", "s", "=">>, <<"]", "s", "[">>,
   <<"a", " ", "=", "x">>}
Reading == INSTANCE Config WITH FilesRead <- UpTo(3, ConfigLines)

RedisClass == INSTANCE RedisConnector WITH Fields <- {"f", "g"}, Vals <- {"x", "y"}, Auth <- TRUE, MaxLive <- 2

(* Two columns of one name, a value with a NUL byte in it, and a NULL. *)
FirstRow == <<<<"a">>, <<"a", "NUL", "b">>, <<"b">>>>
SecondRow == <<<<"c">>, Nil, <<>>>>
MySqlClass == INSTANCE MySqlConnector WITH
  Names <- <<"id", "n", "id">>, Tables <- {<<>>, <<FirstRow>>, <<SecondRow, FirstRow>>}, Null <- Nil, MaxLost <- 2
------------------------------------------------------------------------------
Off(x) == x = Nil
NoMkdirs == /\ dirs = Present /\ call = [t \in Callers |-> "none"] /\ level = [t \in Callers |-> 0]
            /\ path = [t \in Callers |-> <<"base", "tmp", "tmp">>]
NoParser == Off(req) /\ Off(cmd)
NoReader == Off(rd) /\ Off(wire) /\ Off(sent) /\ Off(got)
NoHashtable == Off(ht) /\ Off(diter) /\ Off(m) /\ Off(seen) /\ Off(present) /\ Off(copies)
NoLinked == Off(list) /\ Off(liter) /\ Off(order) /\ Off(due)
NoGrowing == Off(a) /\ Off(b) /\ Off(ptr) /\ Off(stackA) /\ Off(stackB)
NoStrings == Off(sds) /\ Off(str)
NoQuoting == Off(sa) /\ Off(split)
NoSockets == Off(c) /\ Off(pc) /\ Off(ours) /\ Off(foreign) /\ Off(hist)
NoRedisClass == Off(srv) /\ Off(rc) /\ Off(heap)
NoMySqlClass == Off(my) /\ Off(prog) /\ Off(lost)

Is(part) == which = part

HelpersInit ==
  /\ which \in {"mkdirs", "parser", "splitter", "reader", "hashtable", "linked", "growing", "strings", "quoting",
                "transfer", "formatter", "sockets", "hasher", "reading", "redisclass", "mysqlclass"}
  /\ IF Is("mkdirs")     THEN Init            ELSE NoMkdirs
  /\ IF Is("parser")     THEN Parser!Init     ELSE NoParser
  /\ IF Is("splitter")   THEN Splitter!Init   ELSE Off(fr)
  /\ IF Is("reader")     THEN Reader!Init     ELSE NoReader
  /\ IF Is("hashtable")  THEN Hashtable!Init  ELSE NoHashtable
  /\ IF Is("linked")     THEN Linked!Init     ELSE NoLinked
  /\ IF Is("growing")    THEN Growing!Init    ELSE NoGrowing
  /\ IF Is("strings")    THEN Strings!Init    ELSE NoStrings
  /\ IF Is("quoting")    THEN Quoting!Init    ELSE NoQuoting
  /\ IF Is("transfer")   THEN Transfer!Init   ELSE Off(tr)
  /\ IF Is("formatter")  THEN Formatter!Init  ELSE Off(fm)
  /\ IF Is("sockets")    THEN Sockets!Init    ELSE NoSockets
  /\ IF Is("hasher")     THEN Hasher!Init     ELSE Off(sg)
  /\ IF Is("reading")    THEN Reading!Init    ELSE Off(cf)
  /\ IF Is("redisclass") THEN RedisClass!Init ELSE NoRedisClass
  /\ IF Is("mysqlclass") THEN MySqlClass!Init ELSE NoMySqlClass

HelpersNext ==
  /\ UNCHANGED which
  /\ IF Is("mkdirs")     THEN Next            ELSE UNCHANGED vars
  /\ IF Is("parser")     THEN Parser!Next     ELSE UNCHANGED <<req, cmd>>
  /\ IF Is("splitter")   THEN Splitter!Next   ELSE UNCHANGED fr
  /\ IF Is("reader")     THEN Reader!Next     ELSE UNCHANGED <<rd, wire, sent, got>>
  /\ IF Is("hashtable")  THEN Hashtable!Next  ELSE UNCHANGED <<ht, diter, m, seen, present, copies>>
  /\ IF Is("linked")     THEN Linked!Next     ELSE UNCHANGED <<list, liter, order, due>>
  /\ IF Is("growing")    THEN Growing!Next    ELSE UNCHANGED <<a, b, ptr, stackA, stackB>>
  /\ IF Is("strings")    THEN Strings!Next    ELSE UNCHANGED <<sds, str>>
  /\ IF Is("quoting")    THEN Quoting!Next    ELSE UNCHANGED <<sa, split>>
  /\ IF Is("transfer")   THEN Transfer!Next   ELSE UNCHANGED tr
  /\ IF Is("formatter")  THEN Formatter!Next  ELSE UNCHANGED fm
  /\ IF Is("sockets")    THEN Sockets!Next    ELSE UNCHANGED <<c, pc, ours, foreign, hist>>
  /\ IF Is("hasher")     THEN Hasher!Next     ELSE UNCHANGED sg
  /\ IF Is("reading")    THEN Reading!Next    ELSE UNCHANGED cf
  /\ IF Is("redisclass") THEN RedisClass!Next ELSE UNCHANGED <<srv, rc, heap>>
  /\ IF Is("mysqlclass") THEN MySqlClass!Next ELSE UNCHANGED <<my, prog, lost>>

HelpersVars ==
  <<which, vars, req, cmd, fr, rd, wire, sent, got, ht, diter, m, seen, present, copies, list, liter, order, due,
    a, b, ptr, stackA, stackB, sds, str, sa, split, fm, tr, c, pc, ours, foreign, hist, sg, cf,
    srv, rc, heap, my, prog, lost>>

HelpersSpec == HelpersInit /\ [][HelpersNext]_HelpersVars
------------------------------------------------------------------------------
(* command.c:296-1621: the parser that tells the cluster which keys a command
   has agrees with the table of commands (RedisCommand!ParserAgrees). *)
KeysFound == Is("parser") => Parser!ParserAgrees

(* hircluster.c:3148-3543: an MGET, MSET or DEL that is split over the slots of
   its keys has the effect and the reply of one that is not, and every part is
   well formed (Fragment!SplitIsInvisible, SplitIsExact). *)
SplitAgrees == Is("splitter") => Splitter!SplitIsInvisible /\ Splitter!SplitIsExact /\ Splitter!CrcCheck

(* read.c and hiredis.c: what is read from the stream is what the server sent,
   however it was cut (ReplyReader!ReaderAgrees), and what is written is what
   the format says, of exactly the length counted (FormatCommand!FormatAgrees). *)
WireAgrees == /\ Is("reader") => Reader!ReaderAgrees
              /\ Is("formatter") => Formatter!FormatAgrees

(* dict.c, adlist.c, hiarray.c: the table is a map, the list a sequence and the
   array a stack, through growth, deletion and iteration. *)
ContainersAgree == /\ Is("hashtable") => Hashtable!DictIsMap
                   /\ Is("linked") => Linked!ListIsSequence
                   /\ Is("growing") => Growing!ArrayIsStack

(* sds.c and hiutil.c: a string is the text its calls describe, within what was
   allocated (Sds!SdsAgrees); quoting and splitting undo each other
   (SdsText!TextRoundTrip); a transfer moves all the bytes or says how it ended
   (HiUtil!TransferAgrees). *)
StringsAgree == /\ Is("strings") => Strings!SdsAgrees
                /\ Is("quoting") => Quoting!TextRoundTrip
                /\ Is("transfer") => Transfer!TransferAgrees

(* net.c: a descriptor is the context's, or closed, or one of the leaks that
   are named, and a context that failed says so (Connect). *)
SocketsAccounted == Is("sockets") => Sockets!DescriptorsAccounted /\ Sockets!FailureShows

(* utils.cpp:183-236 and config.cpp: the signature is the one of the contents
   read (Signature!SigOfContents), the configuration the one of the file
   (Config!ConfigAgrees). *)
FilesAgree == /\ Is("hasher") => Hasher!SigOfContents
              /\ Is("reading") => Reading!ConfigAgrees

(* redisconn.hpp, redisconn_cluster.hpp, mysqlconn.cpp: what the methods return
   is what the server did (RedisConnector!ConnectorTruth), the rows are the
   statement's (MySqlConnector!RowsAreTheResults). *)
ConnectorsAgree == /\ Is("redisclass") => RedisClass!ConnectorTruth
                   /\ Is("mysqlclass") => MySqlClass!RowsAreTheResults
==============================================================================
